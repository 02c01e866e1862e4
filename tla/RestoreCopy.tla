---------------------------- MODULE RestoreCopy ----------------------------
(***************************************************************************)
(* The copying restore of Vmm::restore_snapshot (no userfaultfd): a pool   *)
(* of threads, the main thread among them, claims chunks of ChunkPages     *)
(* pages from a shared atomic counter, copies the runs of dirty pages of   *)
(* each claimed chunk into the fresh guest RAM, and is joined before the   *)
(* vCPU may run.  A snapshot without a bitmap is scanned by one thread.    *)
(***************************************************************************)
EXTENDS Integers, FiniteSets

CONSTANTS Threads,      \* the copying threads, the main thread included
          TotalPages,   \* ram_bytes_ / PAGE
          ChunkPages,   \* CHUNK_PAGES
          Data,         \* contents a page can have
          Zero          \* the content of a page that is all zeroes

ASSUME ThreadsAssumption == Threads # {} /\ IsFiniteSet(Threads)
ASSUME PagesAssumption == TotalPages \in Nat /\ ChunkPages \in Nat \ {0}
ASSUME DataAssumption == Zero \in Data

VARIABLES image,        \* snap.ram
          hasBitmap,    \* !snap.dirty_bitmap.empty()
          ram,          \* the guest RAM being filled (dst)
          chunkIdx,     \* ctx.chunk_idx
          pc,           \* where each thread is in dynamic_copy_worker
          ch,           \* the chunk each thread last claimed
          pg,           \* its page cursor
          runStart,     \* first page of the run it is about to copy
          localDirty,   \* its local_dirty
          totalDirty,   \* ctx.total_dirty
          phase         \* "copying", then "restored" once all are joined

vars == <<image, hasBitmap, ram, chunkIdx, pc, ch, pg, runStart,
          localDirty, totalDirty, phase>>

Pages == 0..(TotalPages - 1)

\* size_t num_chunks = (total_pages + CHUNK_PAGES - 1) / CHUNK_PAGES
NumChunks == (TotalPages + ChunkPages - 1) \div ChunkPages

PgStart(c) == c * ChunkPages

\* Mutant: the end of a chunk is one page too far.
PgEndInclusive(c) == IF PgStart(c) + ChunkPages + 1 < TotalPages
                     THEN PgStart(c) + ChunkPages + 1 ELSE TotalPages

\* std::min(pg_start + CHUNK_PAGES, total_pages)
PgEnd(c) == IF PgStart(c) + ChunkPages < TotalPages
            THEN PgStart(c) + ChunkPages ELSE TotalPages

\* The bitmap save_snapshot_file stores: one bit per page that is not zero.
Dirty(p) == image[p] # Zero

\* A new memfd reads as zeroes; the threads have been created.
Init == /\ image \in [Pages -> Data]
        /\ hasBitmap \in BOOLEAN
        /\ ram = [p \in Pages |-> Zero]
        /\ chunkIdx = 0
        /\ pc = [t \in Threads |-> IF hasBitmap THEN "claim" ELSE "done"]
        /\ ch = [t \in Threads |-> 0]
        /\ pg = [t \in Threads |-> 0]
        /\ runStart = [t \in Threads |-> 0]
        /\ localDirty = [t \in Threads |-> 0]
        /\ totalDirty = 0
        /\ phase = IF hasBitmap THEN "copying" ELSE "scanning"

-----------------------------------------------------------------------------
\* chunk_idx->fetch_add(1); past the last chunk the thread adds up and exits
Claim(t) ==
    /\ pc[t] = "claim"
    /\ chunkIdx' = chunkIdx + 1
    /\ IF chunkIdx >= NumChunks
       THEN /\ pc' = [pc EXCEPT ![t] = "finish"]
            /\ UNCHANGED <<ch, pg>>
       ELSE /\ pc' = [pc EXCEPT ![t] = "scan"]
            /\ ch' = [ch EXCEPT ![t] = chunkIdx]
            /\ pg' = [pg EXCEPT ![t] = PgStart(chunkIdx)]
    /\ UNCHANGED <<image, hasBitmap, ram, runStart, localDirty, totalDirty, phase>>

\* q is where the run of dirty pages that starts at p ends, within chunk c
RunEnds(c, p, q) ==
    /\ \A r \in p..(q - 1) : Dirty(r)
    /\ q < PgEnd(c) => ~Dirty(q)

\* One turn of the inner loop: the chunk is finished, the page is clean and
\* skipped, or a maximal run of dirty pages is found.
Scan(t) ==
    /\ pc[t] = "scan"
    /\ \/ /\ pg[t] >= PgEnd(ch[t])
          /\ pc' = [pc EXCEPT ![t] = "claim"]
          /\ UNCHANGED <<pg, runStart, localDirty>>
       \/ /\ pg[t] < PgEnd(ch[t]) /\ ~Dirty(pg[t])
          /\ pg' = [pg EXCEPT ![t] = @ + 1]
          /\ UNCHANGED <<pc, runStart, localDirty>>
       \/ /\ pg[t] < PgEnd(ch[t]) /\ Dirty(pg[t])
          /\ \E q \in (pg[t] + 1)..PgEnd(ch[t]) :
                /\ RunEnds(ch[t], pg[t], q)
                /\ runStart' = [runStart EXCEPT ![t] = pg[t]]
                /\ pg' = [pg EXCEPT ![t] = q]
                /\ localDirty' = [localDirty EXCEPT ![t] = @ + (q - pg[t])]
          /\ pc' = [pc EXCEPT ![t] = "copy"]
    /\ UNCHANGED <<image, hasBitmap, ram, chunkIdx, ch, totalDirty, phase>>

\* The pages thread t is writing while it is in its memcpy.
Run(t) == runStart[t]..(pg[t] - 1)

\* memcpy of the run; it takes effect by the step that ends it
Copy(t) ==
    /\ pc[t] = "copy"
    /\ ram' = [p \in Pages |-> IF p \in Run(t) THEN image[p] ELSE ram[p]]
    /\ pc' = [pc EXCEPT ![t] = "scan"]
    /\ UNCHANGED <<image, hasBitmap, chunkIdx, ch, pg, runStart, localDirty,
                   totalDirty, phase>>

\* Mutant: a store in the place of the fetch_add.
FinishStore(t) ==
    /\ pc[t] = "finish"
    /\ totalDirty' = localDirty[t]
    /\ pc' = [pc EXCEPT ![t] = "done"]
    /\ UNCHANGED <<image, hasBitmap, ram, chunkIdx, ch, pg, runStart, localDirty, phase>>

\* total_dirty.fetch_add(local_dirty); return
Finish(t) ==
    /\ pc[t] = "finish"
    /\ totalDirty' = totalDirty + localDirty[t]
    /\ pc' = [pc EXCEPT ![t] = "done"]
    /\ UNCHANGED <<image, hasBitmap, ram, chunkIdx, ch, pg, runStart, localDirty, phase>>

\* The main thread has done its own share and joined the others.
Join ==
    /\ phase = "copying"
    /\ \A t \in Threads : pc[t] = "done"
    /\ phase' = "restored"
    /\ UNCHANGED <<image, hasBitmap, ram, chunkIdx, ch, pg, runStart, localDirty,
                   totalDirty, pc>>

\* Mutant: the test of the bitmap is inverted.
ScanCopyInverted ==
    /\ phase = "scanning"
    /\ ram' = [p \in Pages |-> IF Dirty(p) THEN ram[p] ELSE image[p]]
    /\ phase' = "restored"
    /\ UNCHANGED <<image, hasBitmap, chunkIdx, ch, pg, runStart, localDirty,
                   totalDirty, pc>>

\* No bitmap: the main thread scans the snapshot and copies what is not zero.
ScanCopy ==
    /\ phase = "scanning"
    /\ ram' = [p \in Pages |-> IF Dirty(p) THEN image[p] ELSE ram[p]]
    /\ phase' = "restored"
    /\ UNCHANGED <<image, hasBitmap, chunkIdx, ch, pg, runStart, localDirty,
                   totalDirty, pc>>

Step(t) == Claim(t) \/ Scan(t) \/ Copy(t) \/ Finish(t)

Terminated == phase = "restored" /\ UNCHANGED vars

Next == \/ \E t \in Threads : Step(t)
        \/ Join
        \/ ScanCopy
        \/ Terminated

Spec == Init /\ [][Next]_vars

\* Every thread is scheduled by the host kernel; the main thread joins.
FairSpec == Spec /\ WF_vars(Join \/ ScanCopy) /\ \A t \in Threads : WF_vars(Step(t))

-----------------------------------------------------------------------------
\* Type correctness: no memcpy of dynamic_copy_worker leaves the guest RAM, and
\* what it writes are page contents.
TypeOK ==
    /\ image \in [Pages -> Data]
    /\ hasBitmap \in BOOLEAN
    /\ ram \in [Pages -> Data]
    /\ chunkIdx \in Nat
    /\ pc \in [Threads -> {"claim", "scan", "copy", "finish", "done"}]
    /\ ch \in [Threads -> Nat]
    /\ pg \in [Threads -> Nat]
    /\ runStart \in [Threads -> Nat]
    /\ localDirty \in [Threads -> Nat]
    /\ totalDirty \in Nat
    /\ phase \in {"copying", "scanning", "restored"}

\* Two threads are never inside memcpy on a common page, and none writes past
\* the guest RAM: the relaxed fetch_add alone keeps the copies race-free.
CopiesDisjoint ==
    \A s, t \in Threads :
        pc[s] = "copy" /\ pc[t] = "copy" =>
            /\ Run(t) \subseteq Pages
            /\ s # t => Run(s) \cap Run(t) = {}

\* After the join the guest RAM is the snapshot's RAM, page for page,
\* whichever thread copied which chunk.
RestoredExact == phase = "restored" => ram = image

\* The count the join reports is the number of dirty pages: none was copied
\* twice or left out.
DirtyCountExact ==
    phase = "restored" /\ hasBitmap =>
        totalDirty = Cardinality({p \in Pages : Dirty(p)})

\* The restore implements the promise of GuestMemory: until the join nothing
\* runs, and at the join the guest's view is the snapshot.
Guest == INSTANCE GuestMemory WITH
            live <- phase = "restored",
            view <- IF phase = "restored" THEN ram ELSE image,
            seen <- <<>>
ImplementsGuestMemory == Guest!Spec
=============================================================================
