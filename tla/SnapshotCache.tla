--------------------------- MODULE SnapshotCache ---------------------------
(***************************************************************************)
(* The snapshot file together with the kernel module's device: snap_bench  *)
(* takes the file's size, allocates and maps a buffer of that size, loads  *)
(* the file into it and parses it there, while boots rewrite the file,     *)
(* other readers use it, and other holders of the device allocate and map. *)
(***************************************************************************)
EXTENDS SnapshotFile, SnapDevice, FiniteSets

CONSTANTS Clients,  \* open files of the device held by other processes
          MaxMaps   \* bound on the mappings they hold together

ASSUME CacheAssumption ==
  /\ Readers \subseteq Files /\ Clients \subseteq Files /\ Readers \cap Clients = {}
  /\ \A b \in Boots : FullLen(b) < Word

vars == <<fileVars, devVars>>

\* The open file of benchmark r is named after it.
Benches == {r \in Readers : kind[r] = "bench"}

Init == FileInit /\ DevInit

BenchOpen(r) == rpc[r] = "alloc" /\ Open(r) /\ GoTo(r, "ioctl")

\* ALLOC of the size stat() returned; size 0 and a failing allocation exit.
BenchAlloc(r) ==
  /\ rpc[r] = "ioctl"
  /\ \/ Alloc(r, size[r]) /\ GoTo(r, IF buf'[r] = NoBuf THEN "rejected" ELSE "mmap")
     \/ size[r] = 0 /\ GoTo(r, "rejected") /\ UNCHANGED devVars

\* mmap() of the size INFO reports.
BenchMmap(r) == rpc[r] = "mmap" /\ Mmap(r, len[r]) /\ GoTo(r, "load")

\* munmap() and close(), by main() or by the exit of the process.
BenchExit(r) ==
  /\ rpc[r] \in {"filled", "rejected", "killed"}
  /\ r \in opened \ closed
  /\ maps' = {m \in maps : m.file # r}
  /\ closed' = closed \cup {r}
  /\ UNCHANGED <<opened, buf, len, area>>
  /\ GoTo(r, "done")

BenchNext == \E r \in Benches :
  \/ BenchOpen(r) \/ BenchAlloc(r) \/ BenchMmap(r) \/ BenchExit(r)
  \/ (BenchStat(r) \/ BenchLoad(r) \/ BenchParse(r) \/ BenchFileMmap(r) \/ BenchFileRead(r))
     /\ UNCHANGED devVars

\* Other holders of the device; the kernel releases any closed file.
ClientNext ==
  \/ \E f \in Clients : Open(f) \/ Close(f)
  \/ \E f \in Clients, n \in Sizes : Alloc(f, n)
  \/ /\ Cardinality({m \in maps : m.file \in Clients}) < MaxMaps
     /\ \E f \in Clients, n \in Sizes : Mmap(f, n)
  \/ \E m \in maps : m.file \in Clients /\ Munmap(m)
  \/ \E f \in Files : Release(f)

Next ==
  \/ FileNext /\ UNCHANGED devVars
  \/ BenchNext
  \/ ClientNext /\ UNCHANGED fileVars

Spec == Init /\ [][Next]_vars

-----------------------------------------------------------------------------

\* The variables of both parts have their types.
TypeOK == FileTypeOK /\ DevTypeOK

\* The snapshot a benchmark parses and restores from sits in a live buffer
\* that only its own open file owns, mapped over the whole length it loaded:
\* stat(), ALLOC, INFO and mmap() agree although the file changes in between.
BenchHoldsBuffer ==
  \A r \in Benches : rpc[r] \in {"load", "parse"} \/ Uses(r) =>
    \E m \in maps :
      /\ m.file = r /\ m.area = buf[r]
      /\ area[m.area] = m.len
      /\ m.len >= size[r]
      /\ DOMAIN got[r] \subseteq 1..m.len
=============================================================================
