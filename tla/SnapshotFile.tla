---------------------------- MODULE SnapshotFile ----------------------------
(***************************************************************************)
(* The golden snapshot as a file: `vmtainer boot --snapshot` writes it     *)
(* section by section, in place, while `restore`, `clone` and snap_bench   *)
(* read it.  A write may fail or be short, the writer may be killed, and a *)
(* later boot truncates and rewrites what is there.                        *)
(*                                                                         *)
(* A cell of the file is <<p, b>>: what boot b means to put at position p. *)
(* Cell 1 is the header, cells 2 to HeadLen the sections between it and    *)
(* RAM (XSAVE, CPUID, MSRs, dirty bitmap), the cells after them guest RAM. *)
(***************************************************************************)
EXTENDS Integers, Sequences

CONSTANTS HeadLen,     \* sections before RAM
          Boots,       \* the boots with --snapshot, numbered in order
          RamOf,       \* RamOf[b]: cells of RAM the boot's --ram asks for
          DefaultRam,  \* size `restore` assumes when it cannot read a header
          Readers      \* processes that read the file

ASSUME FileAssumption ==
  /\ HeadLen \in Nat \ {0}
  /\ Boots \subseteq Nat
  /\ RamOf \in [Boots -> Nat \ {0}]
  /\ DefaultRam \in Nat

VARIABLES disk,    \* the file's cells
          wpc,     \* wpc[b]: what boot b does next
          next,    \* next[b]: position of the next cell boot b writes
          kind,    \* kind[r]: "restore", "clone" or "bench"; never changes
          rpc,     \* rpc[r]: what reader r does next
          ramMb,   \* ramMb[r]: RAM size the reader's Vmm was built with
          size,    \* size[r]: st_size, taken once
          got,     \* got[r]: cells read so far, by position in the snapshot
          lazy,    \* lazy[r]: "eager", "uffd" or "midway"
          fresh,   \* fresh[r]: the file was complete when r opened it
          cut      \* cut[r]: a boot truncated the file that r was reading

wvars == <<disk, wpc, next, cut>>
rvars == <<kind, rpc, ramMb, size, got, lazy, fresh>>
fileVars == <<disk, wpc, next, cut, kind, rpc, ramMb, size, got, lazy, fresh>>

Zero == <<0, 0>>   \* zero bytes: the tail of the last page, an unread buffer
Bus  == <<0, 1>>   \* a page beyond the end of the file: SIGBUS

FullLen(b) == HeadLen + RamOf[b]
Image(b) == [p \in 1..FullLen(b) |-> <<p, b>>]
Complete == \E b \in Boots : disk = Image(b)
NoCells == [p \in {} |-> Zero]

\* The cell is a header: its magic matches.
IsHeader(c) == c[1] = 1

FileInit ==
  /\ disk = <<>>
  /\ wpc = [b \in Boots |-> "idle"]
  /\ next = [b \in Boots |-> 1]
  /\ rpc = [r \in Readers |-> "start"]
  /\ ramMb = [r \in Readers |-> DefaultRam]
  /\ size = [r \in Readers |-> 0]
  /\ got = [r \in Readers |-> NoCells]
  /\ kind \in [Readers -> {"restore", "clone", "bench"}]
  /\ lazy \in [Readers -> {"eager", "uffd", "midway"}]
  /\ \A r \in Readers : kind[r] # "restore" => lazy[r] = "eager"
  /\ fresh = [r \in Readers |-> FALSE]
  /\ cut = [r \in Readers |-> FALSE]

-----------------------------------------------------------------------------
(* The writer.                                                             *)

\* r still reads the file: it has opened it, and has cells to fetch.
Reading(r) ==
  \/ rpc[r] \in {"header", "body", "ram", "read", "alloc", "ioctl", "mmap", "load", "parse",
                 "mmapped"}
  \/ rpc[r] = "run" /\ kind[r] = "bench"
  \/ rpc[r] \in {"state", "run"} /\ kind[r] = "restore" /\ lazy[r] = "uffd"

\* save_snapshot() collects the vCPU, the devices, the MSRs and a copy of
\* RAM; any of its ioctls may fail, before the file is touched.
Capture(b) ==
  /\ wpc[b] = "idle"
  /\ \A c \in Boots : wpc[c] \in {"idle", "saved", "failed"}
  /\ \E ok \in BOOLEAN : wpc' = [wpc EXCEPT ![b] = IF ok THEN "open" ELSE "failed"]
  /\ UNCHANGED <<disk, next, cut, rvars>>

\* open(O_CREAT | O_TRUNC): whatever is there goes, also under a reader.
OpenTrunc(b) ==
  /\ wpc[b] = "open"
  /\ \/ /\ wpc' = [wpc EXCEPT ![b] = "head"]
        /\ disk' = <<>>
        /\ cut' = [r \in Readers |-> cut[r] \/ Reading(r)]
     \/ wpc' = [wpc EXCEPT ![b] = "failed"] /\ UNCHANGED <<disk, cut>>
  /\ UNCHANGED <<next, rvars>>

\* The file after n cells from position k of boot b reached its end.
Appended(b, k, n) ==
  [i \in 1..(Len(disk) + n) |->
     IF i <= Len(disk) THEN disk[i] ELSE <<k + i - Len(disk) - 1, b>>]

\* write() of one section before RAM; its result is ignored.
WriteHead(b) ==
  /\ wpc[b] = "head"
  /\ \E n \in 0..1 : disk' = Appended(b, next[b], n)
  /\ next' = [next EXCEPT ![b] = @ + 1]
  /\ wpc' = [wpc EXCEPT ![b] = IF next[b] = HeadLen THEN "ram" ELSE "head"]
  /\ UNCHANGED <<cut, rvars>>

\* The RAM loop: a short write continues, an error gives up.
WriteRam(b) ==
  /\ wpc[b] = "ram"
  /\ \/ \E n \in 1..(FullLen(b) - next[b] + 1) :
          /\ disk' = Appended(b, next[b], n)
          /\ next' = [next EXCEPT ![b] = @ + n]
          /\ wpc' = [wpc EXCEPT ![b] = IF next[b] + n > FullLen(b) THEN "saved" ELSE "ram"]
     \/ /\ wpc' = [wpc EXCEPT ![b] = "failed"]
        /\ UNCHANGED <<disk, next>>
  /\ UNCHANGED <<cut, rvars>>

\* The boot process is killed while it saves.
KillBoot(b) ==
  /\ wpc[b] \in {"open", "head", "ram"}
  /\ wpc' = [wpc EXCEPT ![b] = "failed"]
  /\ UNCHANGED <<disk, next, cut, rvars>>

-----------------------------------------------------------------------------
(* `restore`: the file is mapped, parsed, and its RAM copied or served     *)
(* later by the uffd worker, always through the mapping.                   *)

\* The reader stops without a VM.
Reject(r) == rpc' = [rpc EXCEPT ![r] = "rejected"]

\* The header probe of main(): the size of the VM to build.
Probe(r) ==
  /\ rpc[r] = "start" /\ kind[r] = "restore"
  /\ ramMb' = [ramMb EXCEPT ![r] = IF Len(disk) >= 1 /\ IsHeader(disk[1])
                                     THEN RamOf[disk[1][2]] ELSE DefaultRam]
  /\ rpc' = [rpc EXCEPT ![r] = "open"]
  /\ UNCHANGED <<wvars, kind, size, got, lazy, fresh>>

\* open, fstat and mmap of restore_snapshot_file().
OpenMap(r) ==
  /\ rpc[r] = "open"
  /\ \/ /\ Len(disk) > 0
        /\ size' = [size EXCEPT ![r] = Len(disk)]
        /\ fresh' = [fresh EXCEPT ![r] = Complete]
        /\ rpc' = [rpc EXCEPT ![r] = "header"]
     \/ /\ Len(disk) = 0
        /\ Reject(r)
        /\ UNCHANGED <<size, fresh>>
  /\ UNCHANGED <<wvars, kind, ramMb, got, lazy>>

\* Cells lo..hi read through the mapping: past the end of the file the tail
\* of the last page reads as zeros (tail), a whole page raises SIGBUS.
Peek(lo, hi, tail) ==
  [p \in lo..hi |-> IF p <= Len(disk) THEN disk[p]
                    ELSE IF tail /\ Len(disk) > 0 /\ p = Len(disk) + 1 THEN Zero ELSE Bus]

\* r reads cells lo..hi and goes on, or dies of a SIGBUS.
Touch(r, lo, hi, then) ==
  \E tail \in BOOLEAN :
    LET c == Peek(lo, hi, tail) IN
    IF \E p \in lo..hi : c[p] = Bus
      THEN rpc' = [rpc EXCEPT ![r] = "killed"] /\ UNCHANGED got
      ELSE /\ rpc' = [rpc EXCEPT ![r] = then]
           /\ got' = [got EXCEPT ![r] = [p \in DOMAIN got[r] \cup (lo..hi) |->
                                           IF p \in lo..hi THEN c[p] ELSE got[r][p]]]

\* The header is copied out.
ParseHeader(r) ==
  /\ rpc[r] = "header"
  /\ Touch(r, 1, 1, "body")
  /\ UNCHANGED <<wvars, kind, ramMb, size, lazy, fresh>>

\* The length the header in got[r] asks for.
Announced(r) == FullLen(got[r][1][2])

\* Mutant: the sections are not checked against st_size.
FitsUnchecked(r) == TRUE

\* Each section fits in what remains of st_size.
Fits(r) == size[r] >= Announced(r)

\* The other sections are mapped if they fit; then restore_snapshot() checks
\* the magic and the RAM size.
ParseBody(r) ==
  /\ rpc[r] = "body"
  /\ IF IsHeader(got[r][1]) /\ Fits(r) /\ ramMb[r] = RamOf[got[r][1][2]]
       THEN Touch(r, 2, HeadLen, "ram")
       ELSE Reject(r) /\ UNCHANGED got
  /\ UNCHANGED <<wvars, kind, ramMb, size, lazy, fresh>>

\* RAM is copied now, unless userfaultfd serves it later.  When the kernel
\* refuses userfaultfd, both modes fall back to the plain copy.
LoadRam(r) ==
  /\ rpc[r] = "ram" /\ kind[r] = "restore"
  /\ \E uffd \in BOOLEAN :
       /\ lazy' = [lazy EXCEPT ![r] = IF uffd THEN @ ELSE "eager"]
       /\ IF uffd /\ lazy[r] = "uffd"
            THEN rpc' = [rpc EXCEPT ![r] = "state"] /\ UNCHANGED got
            ELSE Touch(r, HeadLen + 1, Announced(r), "state")
  /\ UNCHANGED <<wvars, kind, ramMb, size, fresh>>

\* CPUID, registers, XSAVE, LAPIC, MSRs, interrupt controllers and timers are
\* set one ioctl after the other; a failing one gives up on the VM.
SetState(r) ==
  /\ rpc[r] = "state"
  /\ \E ok \in BOOLEAN : rpc' = [rpc EXCEPT ![r] = IF ok THEN "run" ELSE "rejected"]
  /\ UNCHANGED <<wvars, kind, ramMb, size, got, lazy, fresh>>

\* The worker answers a fault with the page of the mapped file.
Fetch(r) ==
  /\ rpc[r] = "run" /\ kind[r] = "restore" /\ lazy[r] = "uffd"
  /\ \E p \in (HeadLen + 1)..Announced(r) :
       p \notin DOMAIN got[r] /\ Touch(r, p, p, "run")
  /\ UNCHANGED <<wvars, kind, ramMb, size, lazy, fresh>>

-----------------------------------------------------------------------------
(* `clone`: the parent reads the file once with read(); only the header's  *)
(* length is checked.                                                      *)

CloneHeader(r) ==
  /\ rpc[r] = "start" /\ kind[r] = "clone"
  /\ IF Len(disk) >= 1
       THEN /\ got' = [got EXCEPT ![r] = [p \in {1} |-> disk[1]]]
            /\ ramMb' = [ramMb EXCEPT ![r] = IF IsHeader(disk[1])
                                               THEN RamOf[disk[1][2]] ELSE DefaultRam]
            /\ fresh' = [fresh EXCEPT ![r] = Complete]
            /\ rpc' = [rpc EXCEPT ![r] = IF IsHeader(disk[1]) THEN "read" ELSE "rejected"]
       ELSE Reject(r) /\ UNCHANGED <<got, ramMb, fresh>>
  /\ UNCHANGED <<wvars, kind, size, lazy>>

\* The other sections, one read() each; past the end of the file the buffer
\* keeps its zeros and the descriptor (size[r]) its offset.
CloneSections(r) ==
  /\ rpc[r] = "read"
  /\ LET end == IF Len(disk) < HeadLen THEN Len(disk) ELSE HeadLen
         c   == [p \in 1..HeadLen |->
                   IF p = 1 THEN got[r][1] ELSE IF p <= end THEN disk[p] ELSE Zero] IN
     /\ got' = [got EXCEPT ![r] = c]
     /\ size' = [size EXCEPT ![r] = end]
  /\ rpc' = [rpc EXCEPT ![r] = "ram"]
  /\ UNCHANGED <<wvars, kind, ramMb, lazy, fresh>>

\* RAM, from where the descriptor stands, into an anonymous mapping.
CloneRam(r) ==
  /\ rpc[r] = "ram" /\ kind[r] = "clone"
  /\ got' = [got EXCEPT ![r] =
       [p \in 1..Announced(r) |->
          IF p <= HeadLen THEN got[r][p]
          ELSE IF size[r] + p - HeadLen <= Len(disk)
                 THEN disk[size[r] + p - HeadLen] ELSE Zero]]
  /\ rpc' = [rpc EXCEPT ![r] = "state"]
  /\ UNCHANGED <<wvars, kind, ramMb, size, lazy, fresh>>

-----------------------------------------------------------------------------
(* snap_bench: the file is loaded into the kernel module's buffer.         *)

\* Only the pc of a benchmark moves: it calls the device.
GoTo(r, pc) ==
  /\ rpc' = [rpc EXCEPT ![r] = pc]
  /\ UNCHANGED <<wvars, kind, ramMb, size, got, lazy, fresh>>

BenchStat(r) ==
  /\ rpc[r] = "start" /\ kind[r] = "bench"
  /\ size' = [size EXCEPT ![r] = Len(disk)]
  /\ fresh' = [fresh EXCEPT ![r] = Complete]
  /\ rpc' = [rpc EXCEPT ![r] = "alloc"]
  /\ UNCHANGED <<wvars, kind, ramMb, got, lazy>>

\* copy_all(): exactly size bytes, or the process exits.
BenchLoad(r) ==
  /\ rpc[r] = "load"
  /\ IF Len(disk) < size[r]
       THEN Reject(r) /\ UNCHANGED got
       ELSE /\ got' = [got EXCEPT ![r] = [p \in 1..size[r] |-> disk[p]]]
            /\ rpc' = [rpc EXCEPT ![r] = "parse"]
  /\ UNCHANGED <<wvars, kind, ramMb, size, lazy, fresh>>

\* parse_snapshot(): magic, and the announced length within the file's.
BenchParse(r) ==
  /\ rpc[r] = "parse"
  /\ IF size[r] >= 1 /\ IsHeader(got[r][1]) /\ Announced(r) <= size[r]
       THEN rpc' = [rpc EXCEPT ![r] = "run"]
       ELSE Reject(r)
  /\ UNCHANGED <<wvars, kind, ramMb, size, got, lazy, fresh>>

\* bench_file_mmap(): the file is mapped anew and restored from with the
\* layout parsed before.
BenchFileMmap(r) ==
  /\ rpc[r] = "run" /\ kind[r] = "bench"
  /\ Touch(r, 1, size[r], "mmapped")
  /\ UNCHANGED <<wvars, kind, ramMb, size, lazy, fresh>>

\* bench_file_read(): the same from a buffer read_all() fills, or fails to.
BenchFileRead(r) ==
  /\ rpc[r] = "mmapped"
  /\ IF Len(disk) < size[r]
       THEN Reject(r) /\ UNCHANGED got
       ELSE /\ got' = [got EXCEPT ![r] = [p \in 1..size[r] |-> disk[p]]]
            /\ rpc' = [rpc EXCEPT ![r] = "filled"]
  /\ UNCHANGED <<wvars, kind, ramMb, size, lazy, fresh>>

-----------------------------------------------------------------------------

WriterNext == \E b \in Boots :
  Capture(b) \/ OpenTrunc(b) \/ WriteHead(b) \/ WriteRam(b) \/ KillBoot(b)

RestoreNext == \E r \in Readers :
  \/ Probe(r) \/ OpenMap(r) \/ ParseHeader(r) \/ ParseBody(r) \/ LoadRam(r)
  \/ SetState(r) \/ Fetch(r)

CloneNext == \E r \in Readers : CloneHeader(r) \/ CloneSections(r) \/ CloneRam(r)

FileNext == WriterNext \/ RestoreNext \/ CloneNext

-----------------------------------------------------------------------------

\* The variables have the types the code gives them.
FileTypeOK ==
  /\ \A i \in 1..Len(disk) : disk[i][1] \in Nat /\ disk[i][2] \in Boots
  /\ wpc \in [Boots -> {"idle", "open", "head", "ram", "saved", "failed"}]
  /\ next \in [Boots -> Nat \ {0}]
  /\ kind \in [Readers -> {"restore", "clone", "bench"}]
  /\ rpc \in [Readers -> {"start", "open", "header", "body", "ram", "state", "read",
                          "alloc", "ioctl", "mmap", "load", "parse", "run", "mmapped", "filled",
                          "rejected", "killed", "done"}]
  /\ size \in [Readers -> Nat] /\ ramMb \in [Readers -> Nat]
  /\ lazy \in [Readers -> {"eager", "uffd", "midway"}]
  /\ fresh \in [Readers -> BOOLEAN] /\ cut \in [Readers -> BOOLEAN]

\* What reader r holds is part of one complete snapshot, and RAM that is not
\* served lazily is all there.
HoldsSnapshot(r) ==
  \E b \in Boots :
    /\ \A p \in DOMAIN got[r] : got[r][p] = <<p, b>>
    /\ 1..HeadLen \subseteq DOMAIN got[r]
    /\ DOMAIN got[r] \subseteq 1..FullLen(b)
    /\ ~(kind[r] = "restore" /\ lazy[r] = "uffd") => DOMAIN got[r] = 1..FullLen(b)

\* The reader uses what it holds: a VM runs, or the benchmark measures.
Uses(r) == rpc[r] \in {"run", "mmapped", "filled"}

\* A VM (or a pass of the benchmark) that runs holds exactly the state one
\* boot saved, unless a boot truncated the file while it was being read.  So
\* the length checks of restore_snapshot_file() and parse_snapshot() catch
\* every file that is still being written, was cut short or lost a write()
\* whose result was ignored.  `clone` has no such check: it is claimed only
\* for a file that was complete at open, and runs on zeros otherwise.
RunsCompleteSnapshot ==
  \A r \in Readers :
    Uses(r) /\ ~cut[r] /\ (kind[r] # "clone" \/ fresh[r]) => HoldsSnapshot(r)
=============================================================================
