-------------------------- MODULE RestoreCopyProofs -------------------------
(* Proofs about RestoreCopy, for any number of threads, pages and any      *)
(* chunk size.                                                             *)
EXTENDS RestoreCopy, FiniteSetTheorems, TLAPS

\* Pages of a claimed chunk that thread t has yet to copy or to skip.
Pending(t, p) ==
    \/ pc[t] = "scan" /\ pg[t] <= p /\ p < PgEnd(ch[t])
    \/ pc[t] = "copy" /\ runStart[t] <= p /\ p < PgEnd(ch[t])

\* A thread works inside a chunk that was claimed, and nobody else has it.
ClaimInv ==
    /\ \A t \in Threads : pc[t] \in {"scan", "copy"} =>
            ch[t] < chunkIdx /\ PgStart(ch[t]) <= pg[t]
    /\ \A t \in Threads : pc[t] = "copy" =>
            /\ PgStart(ch[t]) <= runStart[t]
            /\ pg[t] <= PgEnd(ch[t])
    /\ \A s, t \in Threads :
            s # t /\ pc[s] \in {"scan", "copy"} /\ pc[t] \in {"scan", "copy"}
                => ch[s] # ch[t]

\* A page is right already, or in a chunk still to be claimed, or pending.
CoverInv ==
    \A p \in Pages : \/ ram[p] = image[p]
                     \/ PgStart(chunkIdx) <= p
                     \/ \E t \in Threads : Pending(t, p)

\* A thread leaves the loop only when the chunks are exhausted.
ExitInv ==
    /\ \A t \in Threads : pc[t] \in {"finish", "done"} /\ hasBitmap
            => chunkIdx >= NumChunks
    /\ phase = "copying" => hasBitmap

IInv == TypeOK /\ ClaimInv /\ CoverInv /\ ExitInv
            /\ (\A p \in Pages : ~Dirty(p) => ram[p] = image[p])
            /\ RestoredExact

-----------------------------------------------------------------------------
\* The chunks tile the page range: the end of chunk c is at most the start of
\* any later one.
LEMMA ChunkOrder ==
    ASSUME NEW c \in Nat, NEW d \in Nat, c < d
    PROVE  PgStart(c) \in Nat /\ PgEnd(c) \in Nat /\ PgEnd(c) <= PgStart(d)
<1>1. PICK k \in Nat : d = c + 1 + k
  <2>1. d - c - 1 \in Nat /\ d = c + 1 + (d - c - 1)
    OBVIOUS
  <2> QED BY <2>1
<1>2. d * ChunkPages = c * ChunkPages + ChunkPages + k * ChunkPages
  BY <1>1, PagesAssumption, Z3
<1>3. c * ChunkPages \in Nat /\ k * ChunkPages \in Nat
  BY <1>1, PagesAssumption, Z3
<1> QED BY <1>2, <1>3, PagesAssumption DEF PgStart, PgEnd

\* Past the last chunk there is no page.
LEMMA ChunksCover ==
    ASSUME NEW c \in Nat, c >= NumChunks
    PROVE  NumChunks \in Nat /\ TotalPages <= PgStart(c)
<1> DEFINE n == TotalPages + ChunkPages - 1
<1>1. n \in Nat /\ ChunkPages \in Nat /\ ChunkPages > 0
  BY PagesAssumption
<1>2. NumChunks \in Nat /\ n < NumChunks * ChunkPages + ChunkPages
  BY <1>1, PagesAssumption, Z3 DEF NumChunks
<1>3. PICK k \in Nat : c = NumChunks + k
  <2>1. c - NumChunks \in Nat /\ c = NumChunks + (c - NumChunks)
    BY <1>2
  <2> QED BY <2>1
<1>4. c * ChunkPages = NumChunks * ChunkPages + k * ChunkPages
  BY <1>1, <1>2, <1>3, Z3
<1>5. k * ChunkPages \in Nat /\ NumChunks * ChunkPages \in Nat
  BY <1>1, <1>2, <1>3, Z3
<1> QED BY <1>1, <1>2, <1>4, <1>5, PagesAssumption DEF PgStart

-----------------------------------------------------------------------------
\* A type-correct chunk has natural bounds.
LEMMA PgType == ASSUME NEW c \in Nat PROVE PgStart(c) \in Nat /\ PgEnd(c) \in Nat
BY ChunkOrder, c + 1 \in Nat, c < c + 1, SMTT(60), Z3T(60)

LEMMA InitInv == Init => IInv
<1> SUFFICES ASSUME Init PROVE IInv
  OBVIOUS
<1> USE DEF Init
<1>1. TypeOK
  BY DataAssumption DEF TypeOK
<1>2. ClaimInv
  BY DEF ClaimInv
<1>3. CoverInv
  <2>1. PgStart(0) = 0
    BY PagesAssumption DEF PgStart
  <2> QED BY <2>1, PagesAssumption DEF CoverInv, Pages
<1>4. ExitInv
  BY DEF ExitInv
<1> QED BY <1>1, <1>2, <1>3, <1>4 DEF IInv, Dirty, RestoredExact

\* Claiming moves the pages of one chunk from "unclaimed" to "pending".
LEMMA ClaimStep == ASSUME IInv, NEW t \in Threads, Claim(t) PROVE IInv'
<1> USE DEF IInv
<1>0. chunkIdx \in Nat /\ chunkIdx + 1 \in Nat /\ chunkIdx < chunkIdx + 1
  BY DEF TypeOK
<1>1. /\ PgStart(chunkIdx) \in Nat
      /\ PgEnd(chunkIdx) <= PgStart(chunkIdx + 1)
  BY <1>0, ChunkOrder
<1>2. TypeOK'
  BY <1>0, <1>1 DEF TypeOK, Claim
<1>3. ClaimInv'
  BY <1>0, <1>1, PgType DEF TypeOK, ClaimInv, Claim, PgStart, PgEnd
<1>4. CoverInv'
  <2> SUFFICES ASSUME NEW p \in Pages, ram[p] # image[p], ~(PgStart(chunkIdx + 1) <= p)
               PROVE  \E s \in Threads : Pending(s, p)'
    BY DEF CoverInv, Claim, PgStart
  <2>1. CASE PgStart(chunkIdx) <= p
    <3>1. p \in Nat /\ p < TotalPages
      BY PagesAssumption DEF Pages
    <3>2. chunkIdx < NumChunks
      <4>1. NumChunks \in Int
        BY PagesAssumption, Z3 DEF NumChunks
      <4>2. chunkIdx >= NumChunks => TotalPages <= PgStart(chunkIdx)
        BY <1>0, ChunksCover
      <4> QED BY <1>0, <1>1, <2>1, <3>1, <4>1, <4>2, PagesAssumption
    <3>3. p < PgEnd(chunkIdx)
      <4>1. PgStart(chunkIdx + 1) = PgStart(chunkIdx) + ChunkPages
        BY <1>0, PagesAssumption, Z3 DEF PgStart
      <4> QED BY <4>1, <1>0, <1>1, <3>1, PagesAssumption, PgType DEF PgEnd
    <3>4. pc'[t] = "scan" /\ ch'[t] = chunkIdx /\ pg'[t] = PgStart(chunkIdx)
      <4>1. ~(chunkIdx >= NumChunks)
        BY <1>0, <3>2, PagesAssumption DEF NumChunks
      <4> QED BY <4>1 DEF Claim, TypeOK
    <3> QED BY <2>1, <3>3, <3>4 DEF Pending, PgEnd, PgStart
  <2>2. CASE ~(PgStart(chunkIdx) <= p)
    <3>1. PICK s \in Threads : Pending(s, p)
      BY <2>2 DEF CoverInv
    <3>2. s # t
      BY <3>1 DEF Pending, Claim
    <3> QED BY <3>1, <3>2 DEF Pending, Claim, TypeOK, PgEnd, PgStart
  <2> QED BY <2>1, <2>2
<1>5. ExitInv'
  <2>1. NumChunks \in Int
    BY PagesAssumption, Z3 DEF NumChunks
  <2> QED BY <1>0, <2>1 DEF ExitInv, Claim, TypeOK, NumChunks
<1> QED BY <1>2, <1>3, <1>4, <1>5 DEF Claim, Dirty, RestoredExact

\* Scanning drops only clean pages from the pending ones.
LEMMA ScanStep == ASSUME IInv, NEW t \in Threads, Scan(t) PROVE IInv'
<1> USE DEF IInv
<1>0. /\ pg[t] \in Nat /\ ch[t] \in Nat /\ PgEnd(ch[t]) \in Nat
      /\ \A q \in (pg[t] + 1)..PgEnd(ch[t]) : q \in Nat /\ q - pg[t] \in Nat /\ pg[t] < q
  BY PgType DEF TypeOK
<1>1. TypeOK'
  BY <1>0 DEF TypeOK, Scan
<1>2. ClaimInv'
  BY <1>0, PgType DEF TypeOK, ClaimInv, Scan, PgEnd, PgStart
<1>3. CoverInv'
  <2> SUFFICES ASSUME NEW p \in Pages, ram[p] # image[p], ~(PgStart(chunkIdx) <= p)
               PROVE  \E s \in Threads : Pending(s, p)'
    BY DEF CoverInv, Scan, PgStart
  <2>1. PICK s \in Threads : Pending(s, p)
    BY DEF CoverInv
  <2>2. CASE s # t
    BY <2>1, <2>2 DEF Pending, Scan, TypeOK, PgEnd, PgStart
  <2>3. CASE s = t
    <3>1. pc[t] = "scan" /\ pg[t] <= p /\ p < PgEnd(ch[t]) /\ p \in Int
      BY <2>1, <2>3, PagesAssumption DEF Pending, Scan, Pages
    <3>2. Dirty(p)
      OBVIOUS
    <3>3. CASE ~Dirty(pg[t])
      <4>1. pg[t] # p
        BY <3>2, <3>3
      <4>2. pc'[t] = "scan" /\ pg'[t] = pg[t] + 1 /\ ch'[t] = ch[t]
        BY <1>0, <3>1, <3>3 DEF Scan, TypeOK
      <4> QED BY <1>0, <3>1, <4>1, <4>2 DEF Pending, PgEnd, PgStart
    <3>4. CASE Dirty(pg[t])
      <4>1. pc'[t] = "copy" /\ runStart'[t] = pg[t] /\ ch'[t] = ch[t]
        BY <1>0, <3>1, <3>4 DEF Scan, TypeOK
      <4> QED BY <3>1, <4>1 DEF Pending, PgEnd, PgStart
    <3> QED BY <3>3, <3>4
  <2> QED BY <2>2, <2>3
<1>4. ExitInv'
  BY DEF ExitInv, Scan, TypeOK, NumChunks
<1> QED BY <1>1, <1>2, <1>3, <1>4 DEF Scan, Dirty, RestoredExact

\* A memcpy makes its run right and touches no other page.
LEMMA CopyStep == ASSUME IInv, NEW t \in Threads, Copy(t) PROVE IInv'
<1> USE DEF IInv
<1>0. /\ pg[t] \in Nat /\ runStart[t] \in Nat
      /\ \A p \in Pages : ram'[p] = IF p \in Run(t) THEN image[p] ELSE ram[p]
  BY DEF TypeOK, Copy
<1>1. TypeOK'
  BY DEF TypeOK, Copy
<1>2. ClaimInv'
  BY DEF ClaimInv, Copy, TypeOK, PgStart, PgEnd
<1>3. CoverInv'
  <2> SUFFICES ASSUME NEW p \in Pages, ram'[p] # image[p], ~(PgStart(chunkIdx) <= p)
               PROVE  \E s \in Threads : Pending(s, p)'
    BY DEF CoverInv, Copy, PgStart
  <2>1. ram[p] # image[p] /\ p \notin Run(t) /\ p \in Int
    BY <1>0, PagesAssumption DEF Pages
  <2>2. PICK s \in Threads : Pending(s, p)
    BY <2>1 DEF CoverInv
  <2>3. CASE s # t
    BY <2>2, <2>3 DEF Pending, Copy, TypeOK, PgEnd, PgStart
  <2>4. CASE s = t
    <3>1. pg[t] <= p /\ p < PgEnd(ch[t])
      BY <1>0, <2>1, <2>2, <2>4 DEF Pending, Copy, Run
    <3> QED BY <3>1 DEF Pending, Copy, TypeOK, PgEnd, PgStart
  <2> QED BY <2>3, <2>4
<1>4. ExitInv'
  BY DEF ExitInv, Copy, TypeOK, NumChunks
<1>5. (\A p \in Pages : ~Dirty(p) => ram[p] = image[p])'
  BY <1>0 DEF Copy, Dirty
<1>6. RestoredExact'
  <2> SUFFICES ASSUME phase = "restored" PROVE ram' = image
    BY DEF Copy, RestoredExact
  <2>1. ram = image
    BY DEF RestoredExact
  <2> QED BY <2>1 DEF Copy, TypeOK
<1> QED BY <1>1, <1>2, <1>3, <1>4, <1>5, <1>6

\* When every thread has returned, every chunk was claimed and none is pending.
LEMMA JoinStep == ASSUME IInv, Join PROVE IInv' /\ ram = image
<1> USE DEF IInv
<1>1. PICK t \in Threads : pc[t] = "done"
  BY ThreadsAssumption DEF Join
<1>2. chunkIdx \in Nat /\ chunkIdx >= NumChunks
  BY <1>1 DEF ExitInv, Join, TypeOK
<1>3. TotalPages <= PgStart(chunkIdx) /\ PgStart(chunkIdx) \in Nat
  BY <1>2, ChunksCover, PgType
<1>4. \A p \in Pages : ram[p] = image[p]
  BY <1>3, PagesAssumption DEF CoverInv, Pending, Join, Pages
<1>5. ram = image
  BY <1>4 DEF TypeOK
<1> QED
  BY <1>5 DEF Join, TypeOK, ClaimInv, CoverInv, ExitInv, Pending, Dirty,
              RestoredExact, PgStart, PgEnd, NumChunks

LEMMA OtherSteps ==
    ASSUME IInv, \/ \E t \in Threads : Finish(t)
                 \/ ScanCopy
                 \/ UNCHANGED vars
    PROVE  IInv'
<1> USE DEF IInv
<1>1. ASSUME NEW t \in Threads, Finish(t) PROVE IInv'
  <2>1. TypeOK'
    BY <1>1 DEF Finish, TypeOK
  <2>2. CoverInv'
    BY <1>1 DEF CoverInv, Pending, Finish, TypeOK, PgStart, PgEnd
  <2> QED
    BY <1>1, <2>1, <2>2 DEF Finish, TypeOK, ClaimInv, ExitInv, Dirty,
                            RestoredExact, PgStart, PgEnd, NumChunks
<1>2. CASE ScanCopy
  <2>1. \A p \in Pages : ram'[p] = image[p]
    BY <1>2 DEF ScanCopy, Dirty
  <2>2. TypeOK' /\ ram' = image'
    BY <1>2, <2>1 DEF ScanCopy, TypeOK
  <2>3. CoverInv' /\ (\A p \in Pages : ~Dirty(p) => ram[p] = image[p])' /\ RestoredExact'
    BY <2>2 DEF CoverInv, RestoredExact
  <2> QED
    BY <1>2, <2>2, <2>3 DEF ScanCopy, TypeOK, ClaimInv, ExitInv, PgStart, PgEnd, NumChunks
<1>3. CASE UNCHANGED vars
  BY <1>3 DEF vars, TypeOK, ClaimInv, CoverInv, ExitInv, Pending, Dirty,
              RestoredExact, PgStart, PgEnd, NumChunks
<1> QED BY <1>1, <1>2, <1>3

LEMMA NextInv == IInv /\ [Next]_vars => IInv'
BY ClaimStep, ScanStep, CopyStep, JoinStep, OtherSteps DEF Next, Step, Terminated

\* The inductive invariant holds in every reachable state.
THEOREM CopyInvariant == Spec => []IInv
BY InitInv, NextInv, PTL DEF Spec

\* dynamic_copy_worker never writes outside the guest RAM.
THEOREM CopyTypes == Spec => []TypeOK
BY CopyInvariant, PTL DEF IInv

\* The join hands over exactly the snapshot's RAM, for any number of threads
\* and pages: Vmm::restore_snapshot loses no page and invents none.
THEOREM RestoreIsExact == Spec => []RestoredExact
BY CopyInvariant, PTL DEF IInv

\* No two copying threads ever write a common page: the fetch_add on
\* chunk_idx is all the synchronisation the copy needs.
THEOREM CopiesNeverOverlap == Spec => []CopiesDisjoint
<1>1. IInv => CopiesDisjoint
  <2> SUFFICES ASSUME IInv, NEW s \in Threads, NEW t \in Threads,
                      pc[s] = "copy", pc[t] = "copy"
               PROVE  Run(t) \subseteq Pages /\ (s # t => Run(s) \cap Run(t) = {})
    BY DEF CopiesDisjoint
  <2> USE DEF IInv
  <2>1. /\ ch[s] \in Nat /\ ch[t] \in Nat
        /\ runStart[s] \in Nat /\ runStart[t] \in Nat /\ pg[s] \in Nat /\ pg[t] \in Nat
        /\ PgStart(ch[s]) <= runStart[s] /\ PgStart(ch[t]) <= runStart[t]
        /\ pg[s] <= PgEnd(ch[s]) /\ pg[t] <= PgEnd(ch[t])
    BY DEF TypeOK, ClaimInv
  <2>2. PgEnd(ch[t]) <= TotalPages
    BY <2>1, PgType, PagesAssumption DEF PgEnd
  <2>3. Run(t) \subseteq Pages
    BY <2>1, <2>2, PgType, PagesAssumption DEF Run, Pages
  <2>4. ASSUME s # t PROVE Run(s) \cap Run(t) = {}
    <3>1. ch[s] # ch[t]
      BY <2>4 DEF ClaimInv
    <3>2. \/ PgEnd(ch[s]) <= PgStart(ch[t])
          \/ PgEnd(ch[t]) <= PgStart(ch[s])
      BY <2>1, <3>1, ChunkOrder
    <3> QED BY <2>1, <3>2, PgType DEF Run
  <2> QED BY <2>3, <2>4
<1> QED BY <1>1, CopyInvariant, PTL

\* The copying restore implements GuestMemory: the guest resumes on the
\* snapshot's memory and on nothing else.
THEOREM CopyImplementsGuestMemory == Spec => ImplementsGuestMemory
<1>1. Init => Guest!Init
  BY DEF Init, Guest!Init, Guest!NoRead
<1>2. IInv /\ [Next]_vars => [Guest!Next]_(Guest!vars)
  <2> SUFFICES ASSUME IInv, [Next]_vars PROVE [Guest!Next]_(Guest!vars)
    OBVIOUS
  <2>1. IInv'
    BY NextInv
  <2>2. CASE Join \/ ScanCopy
    <3>1. phase # "restored" /\ phase' = "restored" /\ image' = image
      BY <2>2 DEF Join, ScanCopy
    <3>2. ram' = image'
      BY <2>1, <3>1 DEF IInv, RestoredExact
    <3> QED BY <3>1, <3>2 DEF Guest!Next, Guest!Resume, Guest!vars
  <2>3. CASE \E t \in Threads : Step(t)
    <3>1. PICK t \in Threads : Step(t)
      BY <2>3
    <3>2. image' = image /\ phase' = phase
      BY <3>1 DEF Step, Claim, Scan, Copy, Finish
    <3>3. phase = "restored" => ram = image /\ ram' = image'
      BY <2>1, <3>2 DEF IInv, RestoredExact
    <3> QED BY <3>2, <3>3 DEF Guest!vars
  <2>4. CASE UNCHANGED vars
    BY <2>4 DEF vars, Guest!vars
  <2> QED BY <2>2, <2>3, <2>4 DEF Next, Terminated
<1> QED BY <1>1, <1>2, CopyInvariant, PTL DEF Spec, ImplementsGuestMemory, Guest!Spec
-----------------------------------------------------------------------------
(***************************************************************************)
(* The count.  At any time the dirty pages are those still to be counted,  *)
(* and those that a thread has counted; the second can be split into sets  *)
(* own[t], as large as the local_dirty of a thread that has not added it   *)
(* up yet, and a set sum, as large as total_dirty.                         *)
(***************************************************************************)
Uncounted(p) == \/ PgStart(chunkIdx) <= p
                \/ \E t \in Threads : /\ pc[t] \in {"scan", "copy"}
                                      /\ pg[t] <= p /\ p < PgEnd(ch[t])

Ledger(own, sum) ==
    /\ \A t \in Threads : Cardinality(own[t]) = IF pc[t] = "done" THEN 0 ELSE localDirty[t]
    /\ Cardinality(sum) = totalDirty
    /\ \A s, t \in Threads : s # t => own[s] \cap own[t] = {}
    /\ \A t \in Threads : own[t] \cap sum = {}
    /\ \A p \in Pages : (p \in sum \/ \E t \in Threads : p \in own[t])
                            <=> (Dirty(p) /\ ~Uncounted(p))

LedgerInv == \E own \in [Threads -> SUBSET Pages], sum \in SUBSET Pages : Ledger(own, sum)

\* Only the copy with a bitmap joins threads, and the join finds all done.
JoinInv == /\ phase = "scanning" => ~hasBitmap
           /\ phase = "restored" /\ hasBitmap => \A t \in Threads : pc[t] = "done"

CountInv == LedgerInv /\ JoinInv

LEMMA PagesFinite == /\ IsFiniteSet(Pages)
                     /\ \A S \in SUBSET Pages : IsFiniteSet(S) /\ Cardinality(S) \in Nat
<1>1. IsFiniteSet(Pages)
  BY FS_Interval, PagesAssumption DEF Pages
<1> QED
  BY <1>1, FS_Subset, FS_CardinalityType

LEMMA InitCount == Init => CountInv
<1> SUFFICES ASSUME Init PROVE CountInv
  OBVIOUS
<1> DEFINE none == [t \in Threads |-> {}]
<1>1. \A p \in Pages : Uncounted(p)
  BY PagesAssumption DEF Init, Uncounted, PgStart, Pages
<1>2. Ledger(none, {})
  BY <1>1, FS_EmptySet DEF Init, Ledger
<1>3. none \in [Threads -> SUBSET Pages]
  OBVIOUS
<1> QED
  BY <1>2, <1>3 DEF Init, CountInv, LedgerInv, JoinInv

\* A step that leaves the counters and the uncounted pages alone.
LEMMA LedgerFrame ==
    ASSUME LedgerInv, UNCHANGED <<image, localDirty, totalDirty>>,
           \A t \in Threads : pc'[t] = "done" <=> pc[t] = "done",
           \A p \in Pages : Dirty(p) => (Uncounted(p)' <=> Uncounted(p))
    PROVE  LedgerInv'
<1>1. PICK own \in [Threads -> SUBSET Pages], sum \in SUBSET Pages : Ledger(own, sum)
  BY DEF LedgerInv
<1>2. Ledger(own, sum)'
  BY <1>1 DEF Ledger, Dirty
<1> QED
  BY <1>2 DEF LedgerInv

LEMMA ClaimCount == ASSUME IInv, CountInv, NEW t \in Threads, Claim(t) PROVE CountInv'
<1>0. chunkIdx \in Nat /\ chunkIdx + 1 \in Nat /\ chunkIdx < chunkIdx + 1
  BY DEF IInv, TypeOK
<1>1. /\ PgStart(chunkIdx) \in Nat /\ PgEnd(chunkIdx) \in Nat
      /\ PgStart(chunkIdx + 1) = PgStart(chunkIdx) + ChunkPages
  BY <1>0, PagesAssumption, PgType, Z3 DEF PgStart
<1>2. ASSUME NEW p \in Pages PROVE Uncounted(p)' <=> Uncounted(p)
  <2>0. p \in Nat /\ p < TotalPages
    BY PagesAssumption DEF Pages
  <2>1. CASE chunkIdx >= NumChunks
    <3>1. TotalPages <= PgStart(chunkIdx)
      BY <1>0, <2>1, ChunksCover
    <3>2. ~(PgStart(chunkIdx) <= p) /\ ~(PgStart(chunkIdx + 1) <= p)
      BY <1>1, <2>0, <3>1, PagesAssumption
    <3>3. chunkIdx' = chunkIdx + 1 /\ UNCHANGED <<ch, pg>>
          /\ \A s \in Threads : pc'[s] \in {"scan", "copy"} <=> pc[s] \in {"scan", "copy"}
      BY <2>1 DEF Claim, IInv, TypeOK
    <3> QED
      BY <3>2, <3>3 DEF Uncounted, PgStart, PgEnd
  <2>2. CASE ~(chunkIdx >= NumChunks)
    <3>1. /\ chunkIdx' = chunkIdx + 1
          /\ pc[t] = "claim" /\ pc'[t] = "scan" /\ ch'[t] = chunkIdx /\ pg'[t] = PgStart(chunkIdx)
          /\ \A s \in Threads \ {t} : pc'[s] = pc[s] /\ ch'[s] = ch[s] /\ pg'[s] = pg[s]
      BY <2>2 DEF Claim, IInv, TypeOK
    <3>2. PgStart(chunkIdx) <= p <=> \/ PgStart(chunkIdx + 1) <= p
                                     \/ PgStart(chunkIdx) <= p /\ p < PgEnd(chunkIdx)
      BY <1>1, <2>0, PagesAssumption DEF PgEnd
    <3> QED
      BY <3>1, <3>2 DEF Uncounted, PgStart, PgEnd
  <2> QED
    BY <2>1, <2>2
<1>3. LedgerInv'
  <2>1. \A s \in Threads : pc'[s] = "done" <=> pc[s] = "done"
    BY DEF Claim, IInv, TypeOK
  <2> QED
    BY <1>2, <2>1, LedgerFrame DEF Claim, CountInv
<1>4. JoinInv'
  BY DEF CountInv, JoinInv, Claim, IInv, TypeOK
<1> QED
  BY <1>3, <1>4 DEF CountInv

\* Nobody else has the pages of the chunk a thread scans.
LEMMA OwnChunk ==
    ASSUME IInv, NEW t \in Threads, pc[t] = "scan", NEW p \in Int, pg[t] <= p, p < PgEnd(ch[t])
    PROVE  /\ ~(PgStart(chunkIdx) <= p)
           /\ \A s \in Threads \ {t} : pc[s] \in {"scan", "copy"} =>
                  ~(pg[s] <= p /\ p < PgEnd(ch[s]))
<1>1. /\ ch[t] \in Nat /\ chunkIdx \in Nat /\ ch[t] < chunkIdx /\ PgStart(ch[t]) <= pg[t]
      /\ pg[t] \in Nat
  BY DEF IInv, TypeOK, ClaimInv
<1>2. PgEnd(ch[t]) \in Nat /\ PgStart(chunkIdx) \in Nat /\ PgEnd(ch[t]) <= PgStart(chunkIdx)
  BY <1>1, ChunkOrder, PgType
<1>3. ASSUME NEW s \in Threads \ {t}, pc[s] \in {"scan", "copy"}, pg[s] <= p, p < PgEnd(ch[s])
      PROVE  FALSE
  <2>1. ch[s] \in Nat /\ PgStart(ch[s]) <= pg[s] /\ pg[s] \in Nat /\ ch[s] # ch[t]
    BY <1>3 DEF IInv, TypeOK, ClaimInv
  <2>2. /\ PgStart(ch[s]) \in Nat /\ PgStart(ch[t]) \in Nat
        /\ PgEnd(ch[s]) \in Nat /\ PgEnd(ch[t]) \in Nat
    BY <1>1, <2>1, PgType
  <2>3. PgEnd(ch[s]) <= PgStart(ch[t]) \/ PgEnd(ch[t]) <= PgStart(ch[s])
    BY <1>1, <2>1, ChunkOrder, SMTT(60), Z3T(60)
  <2> QED
    BY <1>1, <1>3, <2>1, <2>2, <2>3
<1> QED
  BY <1>2, <1>3
\* A run of dirty pages goes from the uncounted ones to the thread's own.
LEMMA CountsRun ==
    ASSUME IInv, LedgerInv, NEW t \in Threads, pc[t] = "scan", pg[t] < PgEnd(ch[t]),
           NEW q \in (pg[t] + 1)..PgEnd(ch[t]), RunEnds(ch[t], pg[t], q),
           pg' = [pg EXCEPT ![t] = q], pc' = [pc EXCEPT ![t] = "copy"],
           localDirty' = [localDirty EXCEPT ![t] = @ + (q - pg[t])],
           UNCHANGED <<image, chunkIdx, ch, totalDirty>>
    PROVE  LedgerInv'
<1>0. /\ pg[t] \in Nat /\ ch[t] \in Nat /\ PgEnd(ch[t]) \in Nat /\ q \in Nat /\ pg[t] < q
      /\ q <= PgEnd(ch[t]) /\ localDirty[t] \in Nat
  BY PgType DEF IInv, TypeOK
<1>1. PICK own \in [Threads -> SUBSET Pages], sum \in SUBSET Pages : Ledger(own, sum)
  BY DEF LedgerInv
<1>2. PICK run \in SUBSET Pages : run = pg[t]..(q - 1)
  <2>1. PgEnd(ch[t]) <= TotalPages
    BY <1>0, PagesAssumption, PgType DEF PgEnd
  <2> QED
    BY <1>0, <2>1, PagesAssumption DEF Pages
<1>2a. IsFiniteSet(run) /\ Cardinality(run) = q - pg[t]
  <2>1. pg[t] \in Int /\ q - 1 \in Int /\ ~(pg[t] > q - 1) /\ (q - 1) - pg[t] + 1 = q - pg[t]
    BY <1>0
  <2>2. Cardinality(pg[t]..(q - 1)) = (q - 1) - pg[t] + 1 /\ IsFiniteSet(pg[t]..(q - 1))
    BY <2>1, FS_Interval
  <2> QED
    BY <1>2, <2>1, <2>2
<1>3. ASSUME NEW p \in run
      PROVE  Dirty(p) /\ Uncounted(p) /\ ~Uncounted(p)'
  <2>1. p \in Int /\ pg[t] <= p /\ p < q /\ p < PgEnd(ch[t])
    BY <1>0, <1>2
  <2>2. /\ ~(PgStart(chunkIdx) <= p)
        /\ \A s \in Threads \ {t} : pc[s] \in {"scan", "copy"} =>
               ~(pg[s] <= p /\ p < PgEnd(ch[s]))
    BY <2>1, OwnChunk
  <2>3. Dirty(p) /\ Uncounted(p)
    BY <1>0, <2>1 DEF RunEnds, Uncounted
  <2>4. /\ pg'[t] = q /\ pc'[t] = "copy"
        /\ \A s \in Threads \ {t} : pg'[s] = pg[s] /\ pc'[s] = pc[s]
    BY DEF IInv, TypeOK
  <2>5. ~Uncounted(p)'
    BY <1>0, <2>1, <2>2, <2>4 DEF Uncounted, PgStart, PgEnd
  <2> QED
    BY <2>3, <2>5
<1>4. ASSUME NEW p \in Pages \ run PROVE Uncounted(p)' <=> Uncounted(p)
  <2>1. p \in Nat /\ (pg[t] <= p <=> q <= p)
    BY <1>0, <1>2, PagesAssumption DEF Pages
  <2>2. /\ pg'[t] = q /\ pc'[t] = "copy"
        /\ \A s \in Threads \ {t} : pg'[s] = pg[s] /\ pc'[s] = pc[s]
    BY DEF IInv, TypeOK
  <2> QED
    BY <2>1, <2>2 DEF Uncounted, PgStart, PgEnd
<1> DEFINE new == [own EXCEPT ![t] = @ \cup run]
<1>5. /\ new \in [Threads -> SUBSET Pages] /\ new[t] = own[t] \cup run
      /\ \A s \in Threads \ {t} : new[s] = own[s]
  BY <1>1, <1>2
<1>6. ASSUME NEW p \in run PROVE p \notin sum /\ \A s \in Threads : p \notin own[s]
  BY <1>1, <1>2, <1>3, SMTT(60), Z3T(60) DEF Ledger
<1>7. Cardinality(new[t]) = localDirty'[t]
  <2>1. own[t] \cap run = {} /\ IsFiniteSet(own[t]) /\ Cardinality(own[t]) \in Nat
    BY <1>1, <1>6, PagesFinite
  <2>2. Cardinality(own[t] \cup run) = Cardinality(own[t]) + Cardinality(run) - Cardinality({})
    BY <1>2a, <2>1, FS_Union
  <2>3. Cardinality(own[t]) = localDirty[t] /\ localDirty'[t] = localDirty[t] + (q - pg[t])
    BY <1>1 DEF Ledger, IInv, TypeOK
  <2> QED
    BY <1>0, <1>2a, <1>5, <2>1, <2>2, <2>3, FS_EmptySet, SMTT(60), Z3T(60)
<1> HIDE DEF new
<1>8. \A s \in Threads \ {t} : localDirty'[s] = localDirty[s] /\ pc'[s] = pc[s]
  BY DEF IInv, TypeOK
<1>9. pc'[t] = "copy"
  BY SMTT(60), Z3T(60) DEF IInv, TypeOK
<1>10. Ledger(new, sum)'
  <2>1. \A s \in Threads : Cardinality(new[s]) = IF pc'[s] = "done" THEN 0 ELSE localDirty'[s]
    BY <1>1, <1>5, <1>7, <1>8, <1>9, ZenonT(60) DEF Ledger
  <2>2. \A r, s \in Threads : r # s => new[r] \cap new[s] = {}
    BY <1>1, <1>5, <1>6 DEF Ledger
  <2>3. \A s \in Threads : new[s] \cap sum = {}
    BY <1>1, <1>5, <1>6 DEF Ledger
  <2>4. ASSUME NEW p \in Pages
        PROVE  (p \in sum \/ \E s \in Threads : p \in new[s]) <=> (Dirty(p)' /\ ~Uncounted(p)')
    <3>1. Dirty(p)' <=> Dirty(p)
      BY DEF Dirty
    <3>2. CASE p \in run
      BY <1>3, <1>5, <3>1, <3>2
    <3>3. CASE p \notin run
      BY <1>1, <1>4, <1>5, <3>1, <3>3 DEF Ledger
    <3> QED
      BY <3>2, <3>3
  <2>5. Cardinality(sum) = totalDirty'
    BY <1>1 DEF Ledger
  <2> QED
    BY <2>1, <2>2, <2>3, <2>4, <2>5, SMTT(60), Z3T(60) DEF Ledger
<1> QED
  BY <1>5, <1>10 DEF LedgerInv

LEMMA ScanCount == ASSUME IInv, CountInv, NEW t \in Threads, Scan(t) PROVE CountInv'
<1>0. /\ pg[t] \in Nat /\ ch[t] \in Nat /\ PgEnd(ch[t]) \in Nat /\ pc[t] = "scan"
  BY PgType DEF IInv, TypeOK, Scan
<1>1. JoinInv'
  BY DEF CountInv, JoinInv, Scan, IInv, TypeOK
<1>2. CASE UNCHANGED localDirty /\ (pg[t] >= PgEnd(ch[t]) \/ ~Dirty(pg[t]))
  <2>1. \A s \in Threads : pc'[s] = "done" <=> pc[s] = "done"
    BY DEF Scan, IInv, TypeOK
  <2>2. ASSUME NEW p \in Pages, Dirty(p) PROVE Uncounted(p)' <=> Uncounted(p)
    <3>0. p \in Nat /\ \A s \in Threads \ {t} : pc'[s] = pc[s] /\ pg'[s] = pg[s]
      BY PagesAssumption DEF Pages, Scan, IInv, TypeOK
    <3>1. CASE pg[t] >= PgEnd(ch[t])
      <4>1. ~(pg[t] <= p /\ p < PgEnd(ch[t])) /\ pc'[t] = "claim"
        BY <1>0, <3>0, <3>1, SMTT(60), Z3T(60) DEF Scan, IInv, TypeOK
      <4> QED
        BY <3>0, <4>1 DEF Uncounted, Scan, PgStart, PgEnd
    <3>2. CASE pg[t] < PgEnd(ch[t]) /\ ~Dirty(pg[t])
      <4>1. pc'[t] = pc[t] /\ pg'[t] = pg[t] + 1 /\ p # pg[t]
        BY <1>0, <2>2, <3>2, SMTT(60), Z3T(60) DEF Scan, IInv, TypeOK
      <4>2. pg'[t] <= p <=> pg[t] <= p
        BY <1>0, <3>0, <4>1, SMTT(60), Z3T(60)
      <4> QED
        BY <3>0, <4>1, <4>2 DEF Uncounted, Scan, PgStart, PgEnd
    <3> QED
      BY <1>0, <1>2, <3>1, <3>2
  <2> QED
    BY <1>1, <1>2, <2>1, <2>2, LedgerFrame DEF Scan, CountInv
<1>3. CASE /\ pg[t] < PgEnd(ch[t]) /\ Dirty(pg[t])
           /\ \E q \in (pg[t] + 1)..PgEnd(ch[t]) :
                /\ RunEnds(ch[t], pg[t], q)
                /\ pg' = [pg EXCEPT ![t] = q]
                /\ localDirty' = [localDirty EXCEPT ![t] = @ + (q - pg[t])]
           /\ pc' = [pc EXCEPT ![t] = "copy"]
  BY <1>0, <1>1, <1>3, CountsRun, Zenon DEF Scan, CountInv
<1> QED
  BY <1>2, <1>3 DEF Scan

\* fetch_add moves the thread's own pages to the sum.
LEMMA FinishCount == ASSUME IInv, CountInv, NEW t \in Threads, Finish(t) PROVE CountInv'
<1>0. /\ pc[t] = "finish" /\ pc'[t] = "done" /\ localDirty[t] \in Nat /\ totalDirty \in Nat
      /\ \A s \in Threads \ {t} : pc'[s] = pc[s]
  BY DEF Finish, IInv, TypeOK
<1>1. PICK own \in [Threads -> SUBSET Pages], sum \in SUBSET Pages : Ledger(own, sum)
  BY DEF CountInv, LedgerInv
<1> DEFINE new == [own EXCEPT ![t] = {}]
           add == sum \cup own[t]
<1>2. /\ new \in [Threads -> SUBSET Pages] /\ new[t] = {} /\ add \in SUBSET Pages
      /\ \A s \in Threads \ {t} : new[s] = own[s]
  OBVIOUS
<1>3. Cardinality(add) = totalDirty + localDirty[t]
  <2>1. /\ own[t] \cap sum = {} /\ Cardinality(sum) = totalDirty
        /\ Cardinality(own[t]) = localDirty[t]
    BY <1>0, <1>1 DEF Ledger
  <2>2. IsFiniteSet(sum) /\ IsFiniteSet(own[t]) /\ sum \cap own[t] = {}
    BY <1>1, <2>1, PagesFinite
  <2>3. Cardinality(add) = Cardinality(sum) + Cardinality(own[t]) - Cardinality({})
    BY <2>2, FS_Union
  <2> QED
    BY <1>0, <2>1, <2>3, FS_EmptySet
<1>4. \A p \in Pages : (Uncounted(p)' <=> Uncounted(p)) /\ (Dirty(p)' <=> Dirty(p))
  BY <1>0 DEF Uncounted, Finish, PgStart, PgEnd, Dirty
<1>5. \A p : (p \in add \/ \E s \in Threads : p \in new[s])
                 <=> (p \in sum \/ \E s \in Threads : p \in own[s])
  BY <1>2, SMTT(60), Z3T(60)
<1> HIDE DEF new
<1>6. Ledger(new, add)'
  <2>1. \A s \in Threads : Cardinality(new[s]) = IF pc'[s] = "done" THEN 0 ELSE localDirty'[s]
    BY <1>0, <1>1, <1>2, FS_EmptySet, ZenonT(60) DEF Ledger, Finish
  <2>2. \A r, s \in Threads : r # s => new[r] \cap new[s] = {}
    BY <1>1, <1>2 DEF Ledger
  <2>3. \A s \in Threads : new[s] \cap add = {}
    BY <1>1, <1>2 DEF Ledger
  <2>4. \A p \in Pages : (p \in add \/ \E s \in Threads : p \in new[s])
                             <=> (Dirty(p)' /\ ~Uncounted(p)')
    BY <1>1, <1>4, <1>5 DEF Ledger
  <2>5. Cardinality(add) = totalDirty'
    BY <1>3 DEF Finish
  <2> HIDE DEF add
  <2> QED
    BY <2>1, <2>2, <2>3, <2>4, <2>5, SMTT(60), Z3T(60) DEF Ledger
<1>7. JoinInv'
  BY <1>0 DEF CountInv, JoinInv, Finish
<1> QED
  BY <1>2, <1>6, <1>7 DEF CountInv, LedgerInv

LEMMA OtherCount ==
    ASSUME IInv, CountInv,
           \/ \E t \in Threads : Copy(t)
           \/ Join \/ ScanCopy \/ UNCHANGED vars
    PROVE  CountInv'
<1>1. UNCHANGED <<image, localDirty, totalDirty, chunkIdx, ch, pg>>
  BY SMTT(60), Z3T(60) DEF Copy, Join, ScanCopy, vars
<1>2. \A t \in Threads : /\ pc'[t] = "done" <=> pc[t] = "done"
                         /\ pc'[t] \in {"scan", "copy"} <=> pc[t] \in {"scan", "copy"}
  BY SMTT(60), Z3T(60) DEF Copy, Join, ScanCopy, vars, IInv, TypeOK
<1>3. \A p \in Pages : Uncounted(p)' <=> Uncounted(p)
  BY <1>1, <1>2 DEF Uncounted, PgStart, PgEnd
<1>4. LedgerInv'
  BY <1>1, <1>2, <1>3, LedgerFrame DEF CountInv
<1>5. JoinInv'
  BY <1>2 DEF CountInv, JoinInv, Copy, Join, ScanCopy, vars
<1> QED
  BY <1>4, <1>5 DEF CountInv

LEMMA CountStep == IInv /\ CountInv /\ [Next]_vars => CountInv'
BY ClaimCount, ScanCount, FinishCount, OtherCount DEF Next, Step, Terminated

\* The number of pages the join reports is the number of dirty pages, for any
\* number of threads and pages: fetch_add loses no thread's share, and no
\* page is counted by two threads or by none.
THEOREM CountIsExact == Spec => []DirtyCountExact
<1>1. IInv /\ CountInv => DirtyCountExact
  <2> SUFFICES ASSUME IInv, CountInv, phase = "restored", hasBitmap
               PROVE  totalDirty = Cardinality({p \in Pages : Dirty(p)})
    BY DEF DirtyCountExact
  <2>1. PICK own \in [Threads -> SUBSET Pages], sum \in SUBSET Pages : Ledger(own, sum)
    BY DEF CountInv, LedgerInv
  <2>2. \A t \in Threads : pc[t] = "done"
    BY DEF CountInv, JoinInv
  <2>3. \A p \in Pages : ~Uncounted(p)
    <3>1. chunkIdx \in Nat /\ chunkIdx >= NumChunks
      BY <2>2, ThreadsAssumption DEF IInv, ExitInv, TypeOK
    <3>2. TotalPages <= PgStart(chunkIdx) /\ PgStart(chunkIdx) \in Nat
      BY <3>1, ChunksCover, PgType
    <3> QED
      BY <2>2, <3>2, PagesAssumption DEF Uncounted, Pages
  <2>4. \A t \in Threads : own[t] = {}
    <3> SUFFICES ASSUME NEW t \in Threads PROVE own[t] = {}
      OBVIOUS
    <3>1. Cardinality(own[t]) = 0 /\ IsFiniteSet(own[t])
      BY <2>1, <2>2, PagesFinite DEF Ledger
    <3> QED
      BY <3>1, FS_EmptySet
  <2>5. sum = {p \in Pages : Dirty(p)}
    BY <2>1, <2>3, <2>4 DEF Ledger
  <2> QED
    BY <2>1, <2>5 DEF Ledger
<1>2. IInv /\ CountInv /\ [Next]_vars => IInv' /\ CountInv'
  BY NextInv, CountStep
<1> QED
  BY <1>1, <1>2, InitInv, InitCount, PTL DEF Spec
=============================================================================
