------------------------- MODULE SnapshotFileProofs -------------------------
(***************************************************************************)
(* The snapshot file, for any number of boots and readers and any section  *)
(* and RAM sizes: the types, what the writers do to the file, and what its *)
(* readers hold.  SnapshotCacheProofs puts the steps together with the     *)
(* device's and states the theorems.                                       *)
(***************************************************************************)
EXTENDS SnapshotFile, TLAPS

-----------------------------------------------------------------------------
(* Types, and the steps each kind of reader can be at.                     *)

RestorePcs == {"start", "open", "header", "body", "ram", "state", "run", "rejected", "killed"}
ClonePcs == {"start", "read", "ram", "state", "run", "rejected"}
BenchPcs == {"start", "alloc", "ioctl", "mmap", "load", "parse", "run", "mmapped", "filled",
             "rejected", "killed", "done"}

KindPc == \A r \in Readers :
  /\ kind[r] = "restore" => rpc[r] \in RestorePcs
  /\ kind[r] = "clone" => rpc[r] \in ClonePcs
  /\ kind[r] = "bench" => rpc[r] \in BenchPcs

Types == /\ FileTypeOK /\ KindPc
         /\ disk \in Seq(Nat \X Boots)
         /\ DOMAIN got = Readers

LEMMA RamType == /\ HeadLen \in Nat \ {0} /\ DefaultRam \in Nat
                 /\ \A b \in Boots : RamOf[b] \in Nat \ {0} /\ FullLen(b) \in Nat
BY FileAssumption DEF FullLen

LEMMA DiskType == ASSUME NEW s \in Seq(Nat \X Boots)
                  PROVE  Len(s) \in Nat /\ DOMAIN s = 1..Len(s)
OBVIOUS

LEMMA SeqIntro == ASSUME NEW S, NEW n \in Nat, NEW f \in [1..n -> S] PROVE f \in Seq(S)
OBVIOUS

LEMMA CellType == ASSUME disk \in Seq(Nat \X Boots), NEW i \in 1..Len(disk)
                  PROVE  /\ disk[i] \in Nat \X Boots
                         /\ disk[i][1] \in Nat /\ disk[i][2] \in Boots
<1>1. disk[i] \in Nat \X Boots
  OBVIOUS
<1> QED
  BY <1>1

LEMMA AppendedEffect ==
  ASSUME disk \in Seq(Nat \X Boots), NEW b \in Boots, NEW k \in Nat \ {0}, NEW n \in Nat,
         disk' = Appended(b, k, n)
  PROVE  /\ disk' \in Seq(Nat \X Boots)
         /\ Len(disk') = Len(disk) + n
         /\ \A i \in 1..Len(disk) : disk'[i] = disk[i]
         /\ \A i \in (Len(disk) + 1)..(Len(disk) + n) : disk'[i] = <<k + i - Len(disk) - 1, b>>
<1>1. Len(disk) \in Nat
  BY DiskType
<1>2. \A i \in 1..(Len(disk) + n) :
        (IF i <= Len(disk) THEN disk[i] ELSE <<k + i - Len(disk) - 1, b>>) \in Nat \X Boots
  BY <1>1, CellType
<1>3. disk' \in [1..(Len(disk) + n) -> Nat \X Boots]
  BY <1>2 DEF Appended
<1>4. disk' \in Seq(Nat \X Boots)
  <2>1. Len(disk) + n \in Nat
    BY <1>1
  <2> QED
    BY <1>3, <2>1, SeqIntro
<1>5. Len(disk') \in Nat /\ DOMAIN disk' = 1..Len(disk')
  BY <1>4, DiskType
<1>6. Len(disk') = Len(disk) + n
  BY <1>1, <1>3, <1>5
<1> QED
  BY <1>1, <1>4, <1>6 DEF Appended

LEMMA OwnCells ==
  ASSUME disk \in Seq(Nat \X Boots), NEW b \in Boots, NEW k \in Nat \ {0}, NEW n \in Nat,
         disk' = Appended(b, k, n), \A i \in 1..Len(disk) : disk[i][2] = b
  PROVE  \A i \in 1..Len(disk') : disk'[i][2] = b
<1> DEFINE L == Len(disk)
           M == Len(disk')
<1>1. /\ L \in Nat /\ M = L + n
      /\ \A i \in 1..L : disk'[i] = disk[i]
      /\ \A i \in (L + 1)..(L + n) : disk'[i] = <<k + i - L - 1, b>>
  BY AppendedEffect, DiskType, SMTT(60), Z3T(60)
<1>2. \A i \in 1..L : disk[i][2] = b
  OBVIOUS
<1> SUFFICES ASSUME NEW i \in 1..M PROVE disk'[i][2] = b
  OBVIOUS
<1> HIDE DEF L, M
<1>3. i \in 1..L \/ i \in (L + 1)..(L + n)
  BY <1>1
<1> QED
  BY <1>1, <1>2, <1>3

LEMMA EmptyDisk == <<>> \in Seq(Nat \X Boots) /\ Len(<<>>) = 0
OBVIOUS

LEMMA CompleteType == Complete \in BOOLEAN
BY DEF Complete

LEMMA FreshUpdate ==
  ASSUME fresh \in [Readers -> BOOLEAN], NEW r \in Readers,
         fresh' = [fresh EXCEPT ![r] = Complete]
  PROVE  /\ fresh' \in [Readers -> BOOLEAN] /\ fresh'[r] = Complete
         /\ \A q \in Readers \ {r} : fresh'[q] = fresh[q]
BY CompleteType

LEMMA CutType ==
  ASSUME cut \in [Readers -> BOOLEAN], cut' = [r \in Readers |-> cut[r] \/ Reading(r)]
  PROVE  cut' \in [Readers -> BOOLEAN]
<1>1. \A r \in Readers : (cut[r] \/ Reading(r)) \in BOOLEAN
  BY Zenon DEF Reading
<1> QED
  BY <1>1

\* What a header probe takes from the file is a RAM size.
LEMMA ProbedRam ==
  ASSUME disk \in Seq(Nat \X Boots), Len(disk) >= 1
  PROVE  (IF IsHeader(disk[1]) THEN RamOf[disk[1][2]] ELSE DefaultRam) \in Nat
<1>1. Len(disk) \in Nat
  BY DiskType
<1>2. disk[1][2] \in Boots
  BY <1>1, CellType
<1> QED
  BY <1>2, RamType

LEMMA InitTypes == ASSUME FileInit PROVE Types
<1>1. DOMAIN got = Readers /\ disk \in Seq(Nat \X Boots) /\ Len(disk) = 0
  BY EmptyDisk DEF FileInit
<1>2. FileTypeOK
  BY <1>1, RamType DEF FileInit, FileTypeOK
<1>3. KindPc
  BY DEF FileInit, KindPc, RestorePcs, ClonePcs, BenchPcs
<1> QED
  BY <1>1, <1>2, <1>3 DEF Types

\* A read through the mapping: what is inside the file is what is there now,
\* the rest is zeros; or the process dies and holds what it held.
Touched(r, lo, hi, then) ==
  /\ DOMAIN got' = Readers
  /\ \A q \in Readers \ {r} : got'[q] = got[q]
  /\ \/ rpc' = [rpc EXCEPT ![r] = "killed"] /\ got' = got
     \/ /\ rpc' = [rpc EXCEPT ![r] = then]
        /\ DOMAIN got'[r] = DOMAIN got[r] \cup (lo..hi)
        /\ \A p \in DOMAIN got[r] \ (lo..hi) : got'[r][p] = got[r][p]
        /\ \A p \in lo..hi : \/ p <= Len(disk) /\ got'[r][p] = disk[p]
                             \/ p > Len(disk) /\ Len(disk) > 0 /\ got'[r][p] = Zero

LEMMA TouchEffect ==
  ASSUME Types, NEW r \in Readers, NEW lo \in Nat, NEW hi \in Nat, NEW then,
         Touch(r, lo, hi, then)
  PROVE  Touched(r, lo, hi, then)
<1>0. Len(disk) \in Nat /\ DOMAIN got = Readers
  BY DiskType DEF Types
<1>1. PICK tail \in BOOLEAN :
        LET c == Peek(lo, hi, tail) IN
        IF \E p \in lo..hi : c[p] = Bus
          THEN rpc' = [rpc EXCEPT ![r] = "killed"] /\ UNCHANGED got
          ELSE /\ rpc' = [rpc EXCEPT ![r] = then]
               /\ got' = [got EXCEPT ![r] = [p \in DOMAIN got[r] \cup (lo..hi) |->
                                               IF p \in lo..hi THEN c[p] ELSE got[r][p]]]
  BY DEF Touch
<1> DEFINE c == Peek(lo, hi, tail)
<1>2. CASE \E p \in lo..hi : c[p] = Bus
  BY <1>0, <1>1, <1>2 DEF Touched
<1>3. CASE ~ \E p \in lo..hi : c[p] = Bus
  <2>1. \A p \in lo..hi : \/ p <= Len(disk) /\ c[p] = disk[p]
                          \/ p > Len(disk) /\ Len(disk) > 0 /\ c[p] = Zero
    BY <1>0, <1>3 DEF Peek
  <2> HIDE DEF c
  <2>2. /\ rpc' = [rpc EXCEPT ![r] = then]
        /\ got' = [got EXCEPT ![r] = [p \in DOMAIN got[r] \cup (lo..hi) |->
                                        IF p \in lo..hi THEN c[p] ELSE got[r][p]]]
    BY <1>1, <1>3 DEF c
  <2>3. got'[r] = [p \in DOMAIN got[r] \cup (lo..hi) |->
                     IF p \in lo..hi THEN c[p] ELSE got[r][p]]
    BY <1>0, <2>2
  <2> QED
    BY <1>0, <2>1, <2>2, <2>3 DEF Touched
<1> QED
  BY <1>2, <1>3

\* A step of a boot keeps the types.
LEMMA WriterTypes == ASSUME Types, WriterNext PROVE Types' /\ UNCHANGED rvars
<1>0. Len(disk) \in Nat
  BY DiskType DEF Types
<1>1. PICK b \in Boots : Capture(b) \/ OpenTrunc(b) \/ WriteHead(b) \/ WriteRam(b) \/ KillBoot(b)
  BY DEF WriterNext
<1>2. UNCHANGED rvars
  BY <1>1 DEF Capture, OpenTrunc, WriteHead, WriteRam, KillBoot
<1>3. SUFFICES /\ disk' \in Seq(Nat \X Boots)
               /\ wpc' \in [Boots -> {"idle", "open", "head", "ram", "saved", "failed"}]
               /\ next' \in [Boots -> Nat \ {0}]
               /\ cut' \in [Readers -> BOOLEAN]
  <2>1. \A i \in 1..Len(disk') : disk'[i][1] \in Nat /\ disk'[i][2] \in Boots
    BY <1>3
  <2> QED
    BY <1>2, <1>3, <2>1 DEF Types, FileTypeOK, KindPc, rvars
<1>4. CASE Capture(b)
  BY <1>4 DEF Types, FileTypeOK, Capture
<1>5. CASE OpenTrunc(b)
  <2>1. cut' \in [Readers -> BOOLEAN]
    BY Zenon, <1>5, CutType DEF Types, FileTypeOK, OpenTrunc
  <2> QED
    BY Zenon, <1>5, <2>1, EmptyDisk DEF Types, FileTypeOK, OpenTrunc
<1>6. CASE WriteHead(b)
  <2>1. next[b] \in Nat \ {0}
    BY DEF Types, FileTypeOK
  <2>2. PICK n \in 0..1 : disk' = Appended(b, next[b], n)
    BY <1>6 DEF WriteHead
  <2>3. disk' \in Seq(Nat \X Boots)
    BY <2>1, <2>2, AppendedEffect DEF Types
  <2> QED
    BY <1>6, <2>1, <2>3 DEF Types, FileTypeOK, WriteHead
<1>7. CASE WriteRam(b)
  <2>1. next[b] \in Nat \ {0} /\ FullLen(b) \in Nat
    BY RamType DEF Types, FileTypeOK
  <2>2. cut' \in [Readers -> BOOLEAN]
    BY <1>7 DEF WriteRam, Types, FileTypeOK
  <2>3. CASE wpc' = [wpc EXCEPT ![b] = "failed"] /\ UNCHANGED <<disk, next>>
    BY <2>2, <2>3 DEF Types, FileTypeOK
  <2>4. ASSUME NEW n \in 1..(FullLen(b) - next[b] + 1), disk' = Appended(b, next[b], n),
               next' = [next EXCEPT ![b] = @ + n],
               wpc' = [wpc EXCEPT ![b] = IF next[b] + n > FullLen(b) THEN "saved" ELSE "ram"]
        PROVE  /\ disk' \in Seq(Nat \X Boots)
               /\ wpc' \in [Boots -> {"idle", "open", "head", "ram", "saved", "failed"}]
               /\ next' \in [Boots -> Nat \ {0}]
    <3>1. n \in Nat
      BY <2>1
    <3>2. disk' \in Seq(Nat \X Boots)
      BY <2>1, <2>4, <3>1, AppendedEffect, SMTT(60), Z3T(60) DEF Types
    <3> QED
      BY <2>1, <2>4, <3>1, <3>2 DEF Types, FileTypeOK
  <2> QED
    BY <1>7, <2>2, <2>3, <2>4 DEF WriteRam
<1>8. CASE KillBoot(b)
  BY <1>8 DEF Types, FileTypeOK, KillBoot
<1> QED
  BY <1>1, <1>4, <1>5, <1>6, <1>7, <1>8

\* The steps of a reader on the file, and those of a benchmark.
FileStep(r) ==
  \/ Probe(r) \/ OpenMap(r) \/ ParseHeader(r) \/ ParseBody(r) \/ LoadRam(r) \/ SetState(r)
  \/ Fetch(r) \/ CloneHeader(r) \/ CloneSections(r) \/ CloneRam(r)
BenchStep(r) ==
  /\ kind[r] = "bench"
  /\ BenchStat(r) \/ BenchLoad(r) \/ BenchParse(r) \/ BenchFileMmap(r) \/ BenchFileRead(r)

\* Reader r moved on to v; nothing changed for the other readers.
Moved(r, v) ==
  /\ UNCHANGED <<wvars, kind>>
  /\ rpc' = [rpc EXCEPT ![r] = v]
  /\ v # "start" /\ (v = "open" => rpc[r] = "start")
  /\ kind[r] = "restore" => v \in RestorePcs
  /\ kind[r] = "clone" => v \in ClonePcs
  /\ kind[r] = "bench" => v \in BenchPcs
  /\ ramMb' \in [Readers -> Nat] /\ size' \in [Readers -> Nat]
  /\ lazy' \in [Readers -> {"eager", "uffd", "midway"}]
  /\ fresh' \in [Readers -> BOOLEAN]
  /\ DOMAIN got' = Readers
  /\ \A q \in Readers \ {r} : /\ ramMb'[q] = ramMb[q] /\ size'[q] = size[q]
                              /\ lazy'[q] = lazy[q]
                              /\ fresh'[q] = fresh[q] /\ got'[q] = got[q]

LEMMA MovedTypes == ASSUME Types, NEW r \in Readers, NEW v, Moved(r, v) PROVE Types'
<1>1. kind[r] \in {"restore", "clone", "bench"}
  BY DEF Types, FileTypeOK
<1>2. KindPc'
  BY DEF Types, FileTypeOK, KindPc, Moved
<1>3. v \in {"start", "open", "header", "body", "ram", "state", "read",
             "alloc", "ioctl", "mmap", "load", "parse", "run", "mmapped", "filled",
             "rejected", "killed", "done"}
  BY <1>1 DEF Moved, RestorePcs, ClonePcs, BenchPcs
<1>4. UNCHANGED <<disk, wpc, next, cut, kind>>
  BY DEF Moved, wvars
<1>5. FileTypeOK'
  BY <1>3, <1>4 DEF Types, FileTypeOK, Moved
<1> QED
  BY <1>2, <1>4, <1>5 DEF Types, Moved

LEMMA PcKind ==
  ASSUME Types, NEW r \in Readers
  PROVE  /\ rpc[r] \in {"open", "header", "body"} => kind[r] = "restore"
         /\ rpc[r] = "read" => kind[r] = "clone"
         /\ rpc[r] \in {"ram", "state"} => kind[r] \in {"restore", "clone"}
         /\ rpc[r] \in {"alloc", "ioctl", "mmap", "load", "parse", "mmapped", "filled"}
              => kind[r] = "bench"
<1>1. kind[r] \in {"restore", "clone", "bench"}
  BY DEF Types, FileTypeOK
<1> QED
  BY <1>1 DEF Types, KindPc, RestorePcs, ClonePcs, BenchPcs

\* Every step of a reader on the file is such a move.
LEMMA FileStepMoves == ASSUME Types, NEW r \in Readers, FileStep(r) PROVE \E v : Moved(r, v)
<1> USE DEF Types, FileTypeOK
<1>0. Len(disk) \in Nat
  BY DiskType
<1>1. CASE Probe(r)
  <2>1. ramMb' \in [Readers -> Nat]
    BY <1>0, <1>1, RamType, CellType DEF Probe
  <2>2. Moved(r, "open")
    BY <1>1, <2>1 DEF Probe, Moved, RestorePcs
  <2> QED
    BY <2>2
<1>2. CASE OpenMap(r)
  <2>1. kind[r] = "restore" /\ UNCHANGED <<wvars, kind, ramMb, got, lazy>>
    BY <1>2, PcKind DEF OpenMap
  <2>2. CASE Reject(r) /\ UNCHANGED <<size, fresh>>
    <3>1. Moved(r, "rejected")
      BY <2>1, <2>2 DEF Reject, Moved, RestorePcs
    <3> QED
      BY <3>1
  <2>3. CASE /\ size' = [size EXCEPT ![r] = Len(disk)]
             /\ fresh' = [fresh EXCEPT ![r] = Complete]
             /\ rpc' = [rpc EXCEPT ![r] = "header"]
    <3>1. /\ fresh' \in [Readers -> BOOLEAN]
          /\ \A q \in Readers \ {r} : fresh'[q] = fresh[q]
      BY Zenon, <2>3, FreshUpdate
    <3>2. Moved(r, "header")
      BY <1>0, <2>1, <2>3, <3>1 DEF Moved, RestorePcs
    <3> QED
      BY <3>2
  <2> QED
    BY <1>2, <2>2, <2>3 DEF OpenMap
<1>3. CASE ParseHeader(r)
  <2>1. Touch(r, 1, 1, "body") /\ rpc[r] = "header"
        /\ UNCHANGED <<wvars, kind, ramMb, size, lazy, fresh>>
    BY <1>3 DEF ParseHeader
  <2>2. Moved(r, "body") \/ Moved(r, "killed")
    <3>1. /\ DOMAIN got' = Readers /\ \A q \in Readers \ {r} : got'[q] = got[q]
          /\ \/ rpc' = [rpc EXCEPT ![r] = "body"] \/ rpc' = [rpc EXCEPT ![r] = "killed"]
      BY <2>1 DEF Touch
    <3>2. kind[r] = "restore"
      BY <2>1, PcKind
    <3> QED
      BY <2>1, <3>1, <3>2 DEF Moved, RestorePcs
  <2> QED
    BY <2>2
<1>4. CASE ParseBody(r)
  <2>1. rpc[r] = "body" /\ UNCHANGED <<wvars, kind, ramMb, size, lazy, fresh>>
    BY <1>4 DEF ParseBody
  <2>2. CASE Touch(r, 2, HeadLen, "ram")
    <3>1. /\ DOMAIN got' = Readers /\ \A q \in Readers \ {r} : got'[q] = got[q]
          /\ \/ rpc' = [rpc EXCEPT ![r] = "ram"] \/ rpc' = [rpc EXCEPT ![r] = "killed"]
      BY <2>2 DEF Touch
    <3>2. kind[r] = "restore"
      BY <2>1, PcKind
    <3>3. Moved(r, "ram") \/ Moved(r, "killed")
      BY <2>1, <2>2, <3>1, <3>2 DEF Moved, RestorePcs
    <3> QED
      BY <3>3
  <2>3. CASE Reject(r) /\ UNCHANGED got
    <3>1. Moved(r, "rejected")
      BY <2>1, <2>3, PcKind DEF Moved, RestorePcs, Reject
    <3> QED
      BY <3>1
  <2> QED
    BY <1>4, <2>2, <2>3 DEF ParseBody, Fits
<1>5. CASE LoadRam(r)
  <2>1. /\ rpc[r] = "ram" /\ kind[r] = "restore"
        /\ UNCHANGED <<wvars, kind, ramMb, size, fresh>>
        /\ lazy' \in [Readers -> {"eager", "uffd", "midway"}]
        /\ \A q \in Readers \ {r} : lazy'[q] = lazy[q]
    BY <1>5 DEF LoadRam
  <2>2. CASE rpc' = [rpc EXCEPT ![r] = "state"] /\ UNCHANGED got
    <3>1. Moved(r, "state")
      BY <2>1, <2>2 DEF Moved, RestorePcs
    <3> QED
      BY <3>1
  <2>3. CASE Touch(r, HeadLen + 1, Announced(r), "state")
    <3>1. /\ DOMAIN got' = Readers /\ \A q \in Readers \ {r} : got'[q] = got[q]
          /\ \/ rpc' = [rpc EXCEPT ![r] = "state"] \/ rpc' = [rpc EXCEPT ![r] = "killed"]
      BY <2>3 DEF Touch
    <3>2. Moved(r, "state") \/ Moved(r, "killed")
      BY <2>1, <3>1 DEF Moved, RestorePcs
    <3> QED
      BY <3>2
  <2> QED
    BY <1>5, <2>2, <2>3 DEF LoadRam
<1>6. CASE SetState(r)
  <2>1. Moved(r, "run") \/ Moved(r, "rejected")
    BY Zenon, <1>6, PcKind DEF SetState, Moved, RestorePcs, ClonePcs
  <2> QED
    BY <2>1
<1>7. CASE Fetch(r)
  <2>1. /\ rpc[r] = "run" /\ kind[r] = "restore"
        /\ UNCHANGED <<wvars, kind, ramMb, size, lazy, fresh>>
        /\ DOMAIN got' = Readers /\ \A q \in Readers \ {r} : got'[q] = got[q]
        /\ \/ rpc' = [rpc EXCEPT ![r] = "run"] \/ rpc' = [rpc EXCEPT ![r] = "killed"]
    BY <1>7 DEF Fetch, Touch
  <2>2. Moved(r, "run") \/ Moved(r, "killed")
    BY <2>1 DEF Moved, RestorePcs
  <2> QED
    BY <2>2
<1>8. CASE CloneHeader(r)
  <2> DEFINE mb == IF IsHeader(disk[1]) THEN RamOf[disk[1][2]] ELSE DefaultRam
  <2>1. /\ kind[r] = "clone" /\ UNCHANGED <<wvars, kind, size, lazy>>
        /\ \/ Reject(r) /\ UNCHANGED <<got, ramMb, fresh>>
           \/ /\ Len(disk) >= 1
              /\ got' = [got EXCEPT ![r] = [p \in {1} |-> disk[1]]]
              /\ ramMb' = [ramMb EXCEPT ![r] = mb]
              /\ fresh' = [fresh EXCEPT ![r] = Complete]
              /\ \/ rpc' = [rpc EXCEPT ![r] = "read"] \/ rpc' = [rpc EXCEPT ![r] = "rejected"]
    BY <1>8 DEF CloneHeader
  <2>2. Len(disk) >= 1 => mb \in Nat
    BY ProbedRam
  <2> HIDE DEF mb
  <2>3. CASE Reject(r) /\ UNCHANGED <<got, ramMb, fresh>>
    <3>1. Moved(r, "rejected")
      BY <2>1, <2>3 DEF Reject, Moved, ClonePcs
    <3> QED
      BY <3>1
  <2>4. CASE /\ Len(disk) >= 1
             /\ got' = [got EXCEPT ![r] = [p \in {1} |-> disk[1]]]
             /\ ramMb' = [ramMb EXCEPT ![r] = mb]
             /\ fresh' = [fresh EXCEPT ![r] = Complete]
             /\ \/ rpc' = [rpc EXCEPT ![r] = "read"] \/ rpc' = [rpc EXCEPT ![r] = "rejected"]
    <3>1. /\ fresh' \in [Readers -> BOOLEAN]
          /\ \A q \in Readers \ {r} : fresh'[q] = fresh[q]
      BY Zenon, <2>4, FreshUpdate
    <3>2. /\ ramMb' \in [Readers -> Nat] /\ DOMAIN got' = Readers
          /\ \A q \in Readers \ {r} : ramMb'[q] = ramMb[q] /\ got'[q] = got[q]
      BY <2>2, <2>4
    <3>3. Moved(r, "read") \/ Moved(r, "rejected")
      BY <2>1, <2>4, <3>1, <3>2, SMTT(60), Z3T(60) DEF Moved, ClonePcs
    <3> QED
      BY <3>3
  <2> QED
    BY <2>1, <2>3, <2>4
<1>9. CASE CloneSections(r)
  <2>1. Moved(r, "ram")
    BY <1>0, <1>9, RamType, PcKind, SMTT(60), Z3T(60) DEF CloneSections, Moved, ClonePcs
  <2> QED
    BY <2>1
<1>10. CASE CloneRam(r)
  <2>1. Moved(r, "state")
    BY <1>10 DEF CloneRam, Moved, ClonePcs
  <2> QED
    BY <2>1
<1> QED
  BY <1>1, <1>2, <1>3, <1>4, <1>5, <1>6, <1>7, <1>8, <1>9, <1>10 DEF FileStep

LEMMA BenchStepMoves == ASSUME Types, NEW r \in Readers, BenchStep(r) PROVE \E v : Moved(r, v)
<1> USE DEF Types, FileTypeOK
<1>0. Len(disk) \in Nat /\ kind[r] = "bench"
  BY DiskType DEF BenchStep
<1>1. CASE BenchStat(r)
  <2>1. /\ fresh' \in [Readers -> BOOLEAN]
        /\ \A q \in Readers \ {r} : fresh'[q] = fresh[q]
    BY Zenon, <1>1, FreshUpdate DEF BenchStat
  <2>2. Moved(r, "alloc")
    BY <1>0, <1>1, <2>1 DEF BenchStat, Moved, BenchPcs
  <2> QED
    BY <2>2
<1>2. CASE BenchLoad(r)
  <2>1. Moved(r, "parse") \/ Moved(r, "rejected")
    BY <1>0, <1>2 DEF BenchLoad, Reject, Moved, BenchPcs
  <2> QED
    BY <2>1
<1>3. CASE BenchParse(r)
  <2>1. Moved(r, "run") \/ Moved(r, "rejected")
    BY <1>0, <1>3 DEF BenchParse, Reject, Moved, BenchPcs
  <2> QED
    BY <2>1
<1>4. CASE BenchFileMmap(r)
  <2>1. /\ UNCHANGED <<wvars, kind, ramMb, size, lazy, fresh>>
        /\ DOMAIN got' = Readers /\ \A q \in Readers \ {r} : got'[q] = got[q]
        /\ \/ rpc' = [rpc EXCEPT ![r] = "mmapped"] \/ rpc' = [rpc EXCEPT ![r] = "killed"]
    BY <1>4 DEF BenchFileMmap, Touch
  <2>2. Moved(r, "mmapped") \/ Moved(r, "killed")
    BY <1>0, <2>1 DEF Moved, BenchPcs
  <2> QED
    BY <2>2
<1>5. CASE BenchFileRead(r)
  <2>1. Moved(r, "filled") \/ Moved(r, "rejected")
    BY <1>0, <1>5 DEF BenchFileRead, Reject, Moved, BenchPcs
  <2> QED
    BY <2>1
<1> QED
  BY <1>1, <1>2, <1>3, <1>4, <1>5 DEF BenchStep

\* A benchmark calls the device.
DevicePcs == {"ioctl", "mmap", "load", "rejected", "done"}
DeviceCall(r) ==
  /\ kind[r] = "bench"
  /\ \E v \in DevicePcs :
       GoTo(r, v) /\ (v \in {"ioctl", "mmap", "load"} => rpc[r] \in {"alloc", "ioctl", "mmap"})

LEMMA DeviceCallMoves ==
  ASSUME Types, NEW r \in Readers, DeviceCall(r) PROVE \E v \in DevicePcs : Moved(r, v) /\ GoTo(r, v)
<1>1. PICK v \in DevicePcs : GoTo(r, v)
  BY DEF DeviceCall
<1>2. kind[r] = "bench" /\ v \in BenchPcs
  BY DEF DeviceCall, DevicePcs, BenchPcs
<1>3. Moved(r, v)
  <2>1. v # "start" /\ v # "open"
    BY DEF DevicePcs
  <2> QED
    BY <1>1, <1>2, <2>1 DEF Types, FileTypeOK, GoTo, Moved
<1> QED
  BY <1>1, <1>3

\* All that happens to the file and its readers.
ReaderStep(r) == FileStep(r) \/ BenchStep(r) \/ DeviceCall(r)
FileAct == WriterNext \/ \E r \in Readers : ReaderStep(r)

LEMMA ReaderStepMoves == ASSUME Types, NEW r \in Readers, ReaderStep(r) PROVE \E v : Moved(r, v)
BY FileStepMoves, BenchStepMoves, DeviceCallMoves DEF ReaderStep

LEMMA TypesStep == ASSUME Types, [FileAct]_fileVars PROVE Types'
<1>1. CASE WriterNext
  BY <1>1, WriterTypes
<1>2. ASSUME NEW r \in Readers, ReaderStep(r) PROVE Types'
  BY <1>2, ReaderStepMoves, MovedTypes
<1>3. CASE UNCHANGED fileVars
  BY <1>3 DEF fileVars, Types, FileTypeOK, KindPc
<1> QED
  BY <1>1, <1>2, <1>3 DEF FileAct

-----------------------------------------------------------------------------
(* The file under its writers.                                             *)

\* One boot writes at a time and has written no more than it was asked to; the
\* file holds cells of one boot, all in their place if none was lost.
WriterInv ==
  /\ \A b, c \in Boots : wpc[b] \in {"open", "head", "ram"} /\ wpc[c] \in {"open", "head", "ram"}
                           => b = c
  /\ \A b \in Boots :
       /\ next[b] <= FullLen(b) + 1
       /\ wpc[b] \in {"idle", "open"} => next[b] = 1
       /\ wpc[b] = "head" => next[b] <= HeadLen
       /\ wpc[b] = "ram" => next[b] <= FullLen(b)
       /\ wpc[b] \in {"head", "ram"} =>
            Len(disk) < next[b] /\ \A i \in 1..Len(disk) : disk[i][2] = b
  /\ \A i, j \in 1..Len(disk) : disk[i][2] = disk[j][2]
  /\ \A i \in 1..Len(disk) :
       /\ Len(disk) < next[disk[i][2]]
       /\ Len(disk) + 1 = next[disk[i][2]] => disk[i] = <<i, disk[i][2]>>

LEMMA InitWriter == ASSUME FileInit PROVE WriterInv
<1>1. Len(disk) = 0
  BY DEF FileInit
<1>2. /\ \A b \in Boots : wpc[b] = "idle" /\ next[b] = 1
      /\ 1..Len(disk) = {}
  BY <1>1 DEF FileInit
<1> QED
  BY <1>2, RamType DEF WriterInv

\* Boot b appended n cells from where it stood, moved on by k and is at v.
Grew(b, n, k, v) ==
  /\ wpc[b] \in {"head", "ram"} /\ wpc' = [wpc EXCEPT ![b] = v]
  /\ disk' = Appended(b, next[b], n) /\ next' = [next EXCEPT ![b] = @ + k]
  /\ n <= k /\ next[b] + k <= FullLen(b) + 1
  /\ v = "head" => next[b] + k <= HeadLen
  /\ v = "ram" => next[b] + k <= FullLen(b)

LEMMA AppendKeeps ==
  ASSUME Types, WriterInv, NEW b \in Boots, NEW n \in Nat, NEW k \in Nat,
         NEW v \in {"head", "ram", "saved"}, Grew(b, n, k, v)
  PROVE  WriterInv'
<1> DEFINE L == Len(disk)
           M == Len(disk')
           x == next[b]
<1>1. /\ L \in Nat /\ next \in [Boots -> Nat \ {0}] /\ FullLen(b) \in Nat /\ HeadLen \in Nat
      /\ wpc \in [Boots -> {"idle", "open", "head", "ram", "saved", "failed"}]
      /\ disk \in Seq(Nat \X Boots) /\ x \in Nat \ {0}
  BY DiskType, RamType DEF Types, FileTypeOK
<1>2. /\ M = L + n
      /\ \A i \in 1..L : disk'[i] = disk[i]
      /\ \A i \in (L + 1)..(L + n) : disk'[i] = <<x + i - L - 1, b>>
  BY Zenon, <1>1, AppendedEffect DEF Grew
<1>3. L < x /\ \A i \in 1..L : disk[i][2] = b /\ (L + 1 = x => disk[i] = <<i, b>>)
  BY DEF WriterInv, Grew
<1>4. \A c \in Boots : next'[c] = (IF c = b THEN x + k ELSE next[c])
                       /\ wpc'[c] = (IF c = b THEN v ELSE wpc[c])
  BY <1>1 DEF Grew
<1>5. n <= k /\ M < x + k
  BY <1>1, <1>2, <1>3 DEF Grew
<1>6. ASSUME NEW i \in 1..M
      PROVE  disk'[i][2] = b /\ (M + 1 = x + k => disk'[i] = <<i, b>>)
  <2> HIDE DEF L, M, x
  <2>1. M + 1 = x + k => L + 1 = x
    BY <1>1, <1>2, <1>3, <1>5
  <2>2. CASE i \in 1..L
    BY <1>2, <1>3, <2>1, <2>2
  <2>3. CASE i \in (L + 1)..(L + n)
    <3>1. disk'[i] = <<x + i - L - 1, b>>
      BY <1>2, <2>3
    <3>2. L + 1 = x => x + i - L - 1 = i
      BY <1>1, <2>3
    <3> QED
      BY <2>1, <3>1, <3>2
  <2> QED
    BY <1>1, <1>2, <2>2, <2>3
<1>7. \A c \in Boots : wpc'[c] \in {"open", "head", "ram"} => c = b
  BY <1>4 DEF WriterInv, Grew
<1>8. ASSUME NEW c \in Boots
      PROVE  /\ next'[c] <= FullLen(c) + 1
             /\ wpc'[c] \in {"idle", "open"} => next'[c] = 1
             /\ wpc'[c] = "head" => next'[c] <= HeadLen
             /\ wpc'[c] = "ram" => next'[c] <= FullLen(c)
  BY <1>1, <1>4 DEF WriterInv, Grew
<1>9. next'[b] = x + k
  BY <1>4
<1> HIDE DEF M, x
<1>10. /\ \A i \in 1..M : disk'[i][2] = b
       /\ \A i \in 1..M : M + 1 = next'[b] => disk'[i] = <<i, b>>
       /\ M < next'[b]
  BY <1>5, <1>6, <1>9
<1> QED
  BY <1>7, <1>8, <1>10 DEF WriterInv, M

LEMMA WriterStep == ASSUME Types, WriterInv, WriterNext PROVE WriterInv'
<1>0. /\ Len(disk) \in Nat /\ next \in [Boots -> Nat \ {0}] /\ HeadLen \in Nat \ {0}
      /\ wpc \in [Boots -> {"idle", "open", "head", "ram", "saved", "failed"}]
      /\ \A b \in Boots : FullLen(b) \in Nat /\ FullLen(b) > HeadLen
  BY DiskType, RamType DEF Types, FileTypeOK, FullLen
<1>1. PICK b \in Boots : Capture(b) \/ OpenTrunc(b) \/ WriteHead(b) \/ WriteRam(b) \/ KillBoot(b)
  BY DEF WriterNext
<1>2. ASSUME wpc' = [wpc EXCEPT ![b] = "failed"], UNCHANGED <<disk, next>> PROVE WriterInv'
  BY <1>0, <1>2 DEF WriterInv
<1>3. CASE Capture(b)
  <2>1. /\ UNCHANGED <<disk, next>> /\ wpc[b] = "idle"
        /\ \A c \in Boots : wpc[c] \notin {"open", "head", "ram"}
        /\ wpc' = [wpc EXCEPT ![b] = "open"] \/ wpc' = [wpc EXCEPT ![b] = "failed"]
    BY Zenon, <1>3 DEF Capture
  <2>2. CASE wpc' = [wpc EXCEPT ![b] = "open"]
    BY <1>0, <2>1, <2>2 DEF WriterInv
  <2> QED
    BY <1>2, <2>1, <2>2
<1>4. CASE OpenTrunc(b)
  <2>1. CASE wpc' = [wpc EXCEPT ![b] = "head"] /\ disk' = <<>> /\ UNCHANGED next
    <3>1. Len(disk') = 0 /\ 1..Len(disk') = {}
      BY <2>1
    <3>2. \A c \in Boots : wpc'[c] = (IF c = b THEN "head" ELSE wpc[c])
      BY <1>0, <2>1
    <3>3. wpc[b] = "open" /\ next'[b] = 1
      BY <1>4, <2>1 DEF OpenTrunc, WriterInv
    <3> QED
      BY <1>0, <2>1, <3>1, <3>2, <3>3 DEF WriterInv
  <2> QED
    BY <1>2, <1>4, <2>1 DEF OpenTrunc
<1>5. CASE WriteHead(b)
  <2>1. PICK n \in 0..1 : disk' = Appended(b, next[b], n)
    BY <1>5 DEF WriteHead
  <2>2. wpc[b] = "head" /\ next[b] <= HeadLen /\ next' = [next EXCEPT ![b] = @ + 1]
    BY <1>5 DEF WriteHead, WriterInv
  <2>3. CASE next[b] = HeadLen
    <3>1. wpc' = [wpc EXCEPT ![b] = "ram"]
      BY <1>5, <2>3 DEF WriteHead
    <3>2. next[b] + 1 <= FullLen(b) /\ next[b] + 1 <= FullLen(b) + 1
      BY <1>0, <2>3
    <3>3. Grew(b, n, 1, "ram")
      BY <1>0, <2>1, <2>2, <3>1, <3>2 DEF Grew
    <3> QED
      BY <3>3, AppendKeeps
  <2>4. CASE next[b] # HeadLen
    <3>1. wpc' = [wpc EXCEPT ![b] = "head"]
      BY <1>5, <2>4 DEF WriteHead
    <3>2. next[b] + 1 <= HeadLen /\ next[b] + 1 <= FullLen(b) + 1
      BY <1>0, <2>2, <2>4
    <3>3. Grew(b, n, 1, "head")
      BY <1>0, <2>1, <2>2, <3>1, <3>2 DEF Grew
    <3> QED
      BY <3>3, AppendKeeps
  <2> QED
    BY <2>3, <2>4
<1>6. CASE WriteRam(b)
  <2>1. ASSUME NEW n \in 1..(FullLen(b) - next[b] + 1), disk' = Appended(b, next[b], n),
               next' = [next EXCEPT ![b] = @ + n],
               wpc' = [wpc EXCEPT ![b] = IF next[b] + n > FullLen(b) THEN "saved" ELSE "ram"]
        PROVE  WriterInv'
    <3>1. n \in Nat /\ next[b] + n <= FullLen(b) + 1 /\ wpc[b] = "ram"
      BY <1>0, <1>6 DEF WriteRam
    <3>2. CASE next[b] + n > FullLen(b)
      <4>1. Grew(b, n, n, "saved")
        BY <1>0, <2>1, <3>1, <3>2 DEF Grew
      <4> QED
        BY <3>1, <4>1, AppendKeeps
    <3>3. CASE ~(next[b] + n > FullLen(b))
      <4>1. Grew(b, n, n, "ram")
        BY <1>0, <2>1, <3>1, <3>3 DEF Grew
      <4> QED
        BY <3>1, <4>1, AppendKeeps
    <3> QED
      BY <3>2, <3>3
  <2> QED
    BY <1>2, <1>6, <2>1 DEF WriteRam
<1>7. CASE KillBoot(b)
  BY <1>2, <1>7 DEF KillBoot
<1> QED
  BY <1>1, <1>3, <1>4, <1>5, <1>6, <1>7

LEMMA WriterStutter == ASSUME WriterInv, UNCHANGED wvars PROVE WriterInv'
BY DEF WriterInv, wvars

Core == Types /\ WriterInv

LEMMA InitCore == ASSUME FileInit PROVE Core
BY InitTypes, InitWriter DEF Core

LEMMA CoreStep == ASSUME Core, [FileAct]_fileVars PROVE Core'
<1>1. Types /\ WriterInv /\ Types'
  BY TypesStep DEF Core
<1>2. CASE WriterNext
  BY <1>1, <1>2, WriterStep DEF Core
<1>3. ASSUME NEW r \in Readers, ReaderStep(r) PROVE UNCHANGED wvars
  BY <1>1, <1>3, ReaderStepMoves DEF Moved
<1>4. UNCHANGED fileVars => UNCHANGED wvars
  BY DEF fileVars, wvars
<1> QED
  BY <1>1, <1>2, <1>3, <1>4, WriterStutter DEF Core, FileAct

\* The file is never longer than the snapshot it is to become.
LEMMA DiskBound == ASSUME Core, Len(disk) > 0 PROVE \E b \in Boots : Len(disk) <= FullLen(b)
<1> DEFINE b == disk[1][2]
<1>1. Len(disk) \in Nat /\ 1 \in 1..Len(disk)
  BY DiskType DEF Core, Types
<1>2. b \in Boots /\ next[b] \in Nat /\ FullLen(b) \in Nat
  BY <1>1, CellType, RamType DEF Core, Types, FileTypeOK
<1>3. Len(disk) < next[b] /\ next[b] <= FullLen(b) + 1
  BY <1>1, <1>2 DEF Core, WriterInv
<1> QED
  BY <1>1, <1>2, <1>3

\* A size is what it was, or within the file as it is now.
LEMMA SizeStep ==
  ASSUME Core, [FileAct]_fileVars, NEW q \in Readers
  PROVE  size'[q] = size[q] \/ size'[q] \in 0..Len(disk)
<1>1. Len(disk) \in Nat /\ Types /\ DOMAIN size = Readers
  BY DiskType DEF Core, Types, FileTypeOK
<1>2. CASE WriterNext
  BY <1>1, <1>2, WriterTypes DEF rvars
<1>3. ASSUME NEW r \in Readers, ReaderStep(r)
      PROVE  UNCHANGED size \/ \E n \in 0..Len(disk) : size' = [size EXCEPT ![r] = n]
  <2>1. CASE FileStep(r)
    BY <1>1, <2>1, RamType, SMTT(60), Z3T(60) DEF FileStep, Probe, OpenMap, ParseHeader, ParseBody, LoadRam, SetState,
       Fetch, CloneHeader, CloneSections, CloneRam
  <2>2. CASE BenchStep(r)
    BY <1>1, <2>2, SMTT(60), Z3T(60) DEF BenchStep, BenchStat, BenchLoad, BenchParse, BenchFileMmap, BenchFileRead
  <2>3. CASE DeviceCall(r)
    BY <2>3 DEF DeviceCall, GoTo
  <2> QED
    BY <1>3, <2>1, <2>2, <2>3, SMTT(60), Z3T(60) DEF ReaderStep
<1> QED
  BY <1>1, <1>2, <1>3 DEF FileAct, fileVars

LEMMA FileStepKind == ASSUME Types, NEW r \in Readers, FileStep(r) PROVE kind[r] # "bench"
<1>1. \/ kind[r] \in {"restore", "clone"}
      \/ rpc[r] \in {"open", "header", "body", "state", "read"}
  BY DEF FileStep, Probe, OpenMap, ParseHeader, ParseBody, LoadRam, SetState, Fetch,
         CloneHeader, CloneSections, CloneRam
<1> QED
  BY <1>1, PcKind, SMTT(60), Z3T(60)

-----------------------------------------------------------------------------
(* A reader's file, as long as no boot truncates it.                       *)

LEMMA CompleteFacts ==
  ASSUME Core, Complete
  PROVE  \E b \in Boots : /\ Len(disk) = FullLen(b) /\ Len(disk) \in Nat /\ Len(disk) > HeadLen
                          /\ \A p \in 1..Len(disk) : disk[p] = <<p, b>>
<1>1. PICK b \in Boots : disk = Image(b)
  BY DEF Complete
<1>2. Len(disk) \in Nat /\ DOMAIN disk = 1..Len(disk)
  BY DiskType DEF Core, Types
<1>3. DOMAIN disk = 1..FullLen(b) /\ \A p \in 1..FullLen(b) : disk[p] = <<p, b>>
  BY <1>1 DEF Image
<1>4. FullLen(b) \in Nat /\ FullLen(b) > HeadLen
  BY RamType DEF FullLen
<1>5. Len(disk) = FullLen(b)
  BY <1>2, <1>3, <1>4
<1> QED
  BY <1>2, <1>3, <1>4, <1>5

\* A file as long as its boot meant it to be is complete.
LEMMA FullIsComplete ==
  ASSUME Core, Len(disk) > 0, Len(disk) >= FullLen(disk[1][2])
  PROVE  Complete
<1> DEFINE b == disk[1][2]
           L == Len(disk)
<1>1. L \in Nat /\ disk \in Seq(Nat \X Boots) /\ DOMAIN disk = 1..L /\ 1 \in 1..L
  BY DiskType DEF Core, Types
<1>2. b \in Boots /\ FullLen(b) \in Nat /\ next[b] \in Nat
  BY <1>1, CellType, RamType DEF Core, Types, FileTypeOK
<1>3. L < next[b] /\ next[b] <= FullLen(b) + 1
  BY <1>1, <1>2 DEF Core, WriterInv
<1>4. L = FullLen(b) /\ L + 1 = next[b]
  BY <1>1, <1>2, <1>3
<1>5. \A i \in 1..L : disk[i] = <<i, b>>
  BY <1>1, <1>4 DEF Core, WriterInv
<1>6. disk = [p \in 1..L |-> <<p, b>>]
  BY <1>1, <1>5, DiskType
<1> QED
  BY <1>2, <1>4, <1>6 DEF Complete, Image

\* A boot at work has not completed the file.
LEMMA WritingIsIncomplete ==
  ASSUME Core, NEW b \in Boots, wpc[b] \in {"head", "ram"}
  PROVE  ~Complete
<1> SUFFICES ASSUME Complete PROVE FALSE
  OBVIOUS
<1>1. PICK c \in Boots : /\ Len(disk) = FullLen(c) /\ Len(disk) \in Nat /\ Len(disk) > HeadLen
                         /\ \A p \in 1..Len(disk) : disk[p] = <<p, c>>
  BY CompleteFacts
<1>2. 1 \in 1..Len(disk) /\ disk[1][2] = c
  BY <1>1, RamType
<1>3. b = c /\ Len(disk) < next[b] /\ next[b] <= FullLen(b)
  <2>1. b = c
    BY <1>2 DEF Core, WriterInv
  <2>2. next[b] \in Nat /\ HeadLen \in Nat /\ FullLen(b) \in Nat /\ FullLen(b) > HeadLen
    BY RamType DEF Core, Types, FileTypeOK, FullLen
  <2> QED
    BY <2>1, <2>2 DEF Core, WriterInv
<1>4. next[b] \in Nat /\ FullLen(b) \in Nat
  BY RamType DEF Core, Types, FileTypeOK
<1> QED
  BY <1>1, <1>3, <1>4

\* As long as it is not truncated under r, a complete file does not change and
\* an incomplete one keeps its first cell.
LEMMA Frozen ==
  ASSUME Core, WriterNext, NEW r \in Readers, Reading(r), ~cut'[r]
  PROVE  /\ ~cut[r]
         /\ Complete => disk' = disk
         /\ Len(disk) > 0 => Len(disk') > 0 /\ disk'[1] = disk[1]
<1>1. PICK b \in Boots : Capture(b) \/ OpenTrunc(b) \/ WriteHead(b) \/ WriteRam(b) \/ KillBoot(b)
  BY DEF WriterNext
<1>2. /\ next[b] \in Nat \ {0} /\ FullLen(b) \in Nat /\ Len(disk) \in Nat
      /\ disk \in Seq(Nat \X Boots) /\ cut \in [Readers -> BOOLEAN]
  BY RamType, DiskType DEF Core, Types, FileTypeOK
<1>3. CASE UNCHANGED <<disk, cut>>
  BY <1>3
<1>4. ASSUME NEW n \in Nat, disk' = Appended(b, next[b], n), cut' = cut, wpc[b] \in {"head", "ram"}
      PROVE  /\ ~cut[r] /\ (Complete => disk' = disk)
             /\ Len(disk) > 0 => Len(disk') > 0 /\ disk'[1] = disk[1]
  <2>1. Len(disk') = Len(disk) + n /\ \A i \in 1..Len(disk) : disk'[i] = disk[i]
    BY <1>2, <1>4, AppendedEffect
  <2>2. ~Complete
    BY <1>4, WritingIsIncomplete
  <2> QED
    BY <1>2, <1>4, <2>1, <2>2
<1>5. CASE OpenTrunc(b)
  BY Zenon, <1>2, <1>3, <1>5 DEF OpenTrunc
<1>6. CASE WriteHead(b)
  BY <1>4, <1>6 DEF WriteHead
<1>7. CASE WriteRam(b)
  <2>1. 1..(FullLen(b) - next[b] + 1) \subseteq Nat
    BY <1>2
  <2> QED
    BY <1>3, <1>4, <1>7, <2>1 DEF WriteRam
<1> QED
  BY <1>1, <1>3, <1>5, <1>6, <1>7 DEF Capture, KillBoot

LEMMA CutStays ==
  ASSUME Core, WriterNext, NEW r \in Readers
  PROVE  (cut[r] => cut'[r]) /\ (~Reading(r) => cut'[r] = cut[r])
<1>1. cut \in [Readers -> BOOLEAN]
  BY DEF Core, Types, FileTypeOK
<1>2. UNCHANGED cut \/ cut' = [q \in Readers |-> cut[q] \/ Reading(q)]
  BY Zenon DEF WriterNext, Capture, OpenTrunc, WriteHead, WriteRam, KillBoot
<1> QED
  BY Zenon, <1>1, <1>2

-----------------------------------------------------------------------------
(* What the readers hold, as long as no boot truncates the file under them. *)

\* A reader that opened a complete file holds cells of it, and all it needs.
FreshInv(r) == fresh[r] =>
  /\ Complete
  /\ \A p \in DOMAIN got[r] : p \in 1..Len(disk) /\ got[r][p] = disk[p]
  /\ kind[r] # "clone" => size[r] = Len(disk)
  /\ rpc[r] \in {"body", "read"} => 1 \in DOMAIN got[r]
  /\ rpc[r] \in {"ram", "state", "run"} => 1..HeadLen \subseteq DOMAIN got[r]
  /\ rpc[r] = "ram" /\ kind[r] = "clone" => size[r] = HeadLen
  /\ rpc[r] \in {"state", "run"} /\ ~(kind[r] = "restore" /\ lazy[r] = "uffd")
       => 1..Len(disk) \subseteq DOMAIN got[r]
  /\ rpc[r] \in {"parse", "mmapped", "filled"} => 1..Len(disk) \subseteq DOMAIN got[r]

\* One that opened an incomplete file took a size shorter than the header it
\* finds there announces, and never gets past the length check.
StaleInv(r) == ~fresh[r] /\ kind[r] # "clone" =>
  /\ rpc[r] \notin {"ram", "state", "run", "mmapped", "filled"}
  /\ rpc[r] \in {"header", "body"} => size[r] > 0
  /\ size[r] > 0 => Len(disk) > 0 /\ size[r] < FullLen(disk[1][2])
  /\ rpc[r] \in {"body", "parse"} /\ size[r] > 0 /\ IsHeader(got[r][1]) => got[r][1] = disk[1]

\* The reader has all it needs and is claimed to hold a snapshot.
Settled(r) == /\ rpc[r] \in {"state", "run", "filled"} /\ ~Reading(r)
              /\ kind[r] # "clone" \/ fresh[r]

ReaderInv(r) ==
  /\ rpc[r] \in {"start", "open"} => ~fresh[r] /\ DOMAIN got[r] = {} /\ ~cut[r]
  /\ ~cut[r] /\ Reading(r) => FreshInv(r) /\ StaleInv(r)
  /\ ~cut[r] /\ Settled(r) => HoldsSnapshot(r)

LEMMA InitReader == ASSUME FileInit, NEW r \in Readers PROVE ReaderInv(r)
<1>1. rpc[r] = "start" /\ ~fresh[r] /\ DOMAIN got[r] = {} /\ ~cut[r]
  BY DEF FileInit, NoCells
<1> QED
  BY <1>1 DEF ReaderInv, Reading, Settled

\* What the others do leaves a reader's part alone, as long as the file it
\* reads is not truncated.
LEMMA ReaderFrame ==
  ASSUME NEW r \in Readers, ReaderInv(r), kind'[r] = kind[r], rpc'[r] = rpc[r], size'[r] = size[r],
         got'[r] = got[r], lazy'[r] = lazy[r], fresh'[r] = fresh[r],
         cut[r] => cut'[r], ~Reading(r) => cut'[r] = cut[r],
         Reading(r) /\ ~cut'[r] =>
           /\ Complete => disk' = disk
           /\ Len(disk) > 0 => Len(disk') > 0 /\ disk'[1] = disk[1]
  PROVE  ReaderInv(r)'
<1>1. Reading(r)' = Reading(r) /\ Settled(r)' = Settled(r)
  BY Zenon DEF Reading, Settled
<1>2. ASSUME ~cut'[r], Reading(r) PROVE FreshInv(r)' /\ StaleInv(r)'
  <2>1. FreshInv(r) /\ StaleInv(r)
    BY <1>2 DEF ReaderInv
  <2>2. FreshInv(r)'
    BY <1>2, <2>1 DEF FreshInv, Complete
  <2>3. StaleInv(r)'
    BY <1>2, <2>1 DEF StaleInv
  <2> QED
    BY <2>2, <2>3
<1>3. ASSUME ~cut'[r], Settled(r) PROVE HoldsSnapshot(r)'
  <2>1. HoldsSnapshot(r)
    BY <1>3 DEF ReaderInv
  <2> QED
    BY <2>1 DEF HoldsSnapshot
<1>4. rpc[r] \in {"start", "open"} => ~Reading(r)
  BY DEF Reading
<1> QED
  BY <1>1, <1>2, <1>3, <1>4 DEF ReaderInv

\* A reader under which the file was truncated is not claimed to hold anything.
LEMMA CutReader ==
  ASSUME NEW r \in Readers, cut'[r], rpc'[r] \notin {"start", "open"} PROVE ReaderInv(r)'
BY DEF ReaderInv

\* A reader that still reads.
LEMMA StillReads ==
  ASSUME NEW r \in Readers, rpc'[r] \notin {"start", "open"}, Reading(r)', FreshInv(r)', StaleInv(r)'
  PROVE  ReaderInv(r)'
BY DEF ReaderInv, Settled

\* Giving up needs nothing.
LEMMA DullMove ==
  ASSUME NEW r \in Readers, rpc'[r] \in {"rejected", "killed", "done"}
  PROVE  ReaderInv(r)'
<1>1. ~Reading(r)' /\ ~Settled(r)'
  BY DEF Reading, Settled
<1> QED
  BY <1>1 DEF ReaderInv

\* Nor does moving on without reading.
LEMMA DevicePc ==
  ASSUME NEW r \in Readers, ReaderInv(r), UNCHANGED wvars, kind'[r] = kind[r], size'[r] = size[r],
         got'[r] = got[r], fresh'[r] = fresh[r], rpc[r] \in {"alloc", "ioctl", "mmap"},
         rpc'[r] \in {"ioctl", "mmap", "load"}
  PROVE  ReaderInv(r)'
<1>1. Reading(r)
  BY DEF Reading
<1>2. CASE cut[r]
  BY <1>2, CutReader DEF wvars
<1>3. CASE ~cut[r]
  <2>1. FreshInv(r) /\ StaleInv(r)
    BY <1>1, <1>3 DEF ReaderInv
  <2>2. FreshInv(r)'
    BY <2>1 DEF FreshInv, Complete, wvars
  <2>3. StaleInv(r)'
    BY <2>1 DEF StaleInv, wvars
  <2>4. Reading(r)'
    BY DEF Reading
  <2> QED
    BY <2>2, <2>3, <2>4, StillReads
<1> QED
  BY <1>2, <1>3

\* Cells of a complete file, the head among them, are part of one snapshot.
LEMMA CellsHold ==
  ASSUME Core, Complete, NEW g, \A p \in DOMAIN g : p \in 1..Len(disk) /\ g[p] = disk[p]
  PROVE  \E b \in Boots : /\ \A p \in DOMAIN g : g[p] = <<p, b>>
                          /\ DOMAIN g \subseteq 1..FullLen(b)
                          /\ 1..Len(disk) \subseteq DOMAIN g => DOMAIN g = 1..FullLen(b)
<1>1. PICK b \in Boots : /\ Len(disk) = FullLen(b) /\ Len(disk) \in Nat
                         /\ \A p \in 1..Len(disk) : disk[p] = <<p, b>>
  BY CompleteFacts
<1>2. \A p \in DOMAIN g : g[p] = <<p, b>>
  BY Zenon, <1>1
<1>3. DOMAIN g \subseteq 1..FullLen(b) /\ (1..Len(disk) \subseteq DOMAIN g => DOMAIN g = 1..FullLen(b))
  BY Zenon, <1>1
<1> QED
  BY Zenon, <1>2, <1>3

LEMMA FreshHeader ==
  ASSUME Core, NEW r \in Readers, FreshInv(r), fresh[r], 1 \in DOMAIN got[r]
  PROVE  /\ IsHeader(got[r][1]) /\ Announced(r) = Len(disk) /\ got[r][1][2] \in Boots
         /\ Len(disk) \in Nat /\ Len(disk) > HeadLen
<1>1. Complete /\ got[r][1] = disk[1] /\ 1 \in 1..Len(disk)
  BY DEF FreshInv
<1>2. PICK b \in Boots : /\ Len(disk) = FullLen(b) /\ Len(disk) \in Nat /\ Len(disk) > HeadLen
                         /\ \A p \in 1..Len(disk) : disk[p] = <<p, b>>
  BY <1>1, CompleteFacts
<1>3. got[r][1] = <<1, b>>
  BY <1>1, <1>2
<1> QED
  BY <1>2, <1>3 DEF IsHeader, Announced

FreshTouched(r, lo, hi, then) ==
  \/ rpc'[r] = "killed" /\ got' = got
  \/ /\ rpc'[r] = then
     /\ DOMAIN got'[r] = DOMAIN got[r] \cup (lo..hi)
     /\ \A p \in DOMAIN got'[r] : p \in 1..Len(disk) /\ got'[r][p] = disk[p]

LEMMA FreshTouch ==
  ASSUME Core, NEW r \in Readers, FreshInv(r), fresh[r], NEW lo \in Nat \ {0}, NEW hi \in Nat,
         hi <= Len(disk), NEW then, Touch(r, lo, hi, then)
  PROVE  FreshTouched(r, lo, hi, then)
<1>0. Len(disk) \in Nat /\ Types /\ DOMAIN rpc = Readers
  BY DiskType DEF Core, Types, FileTypeOK
<1>1. \A p \in DOMAIN got[r] : p \in 1..Len(disk) /\ got[r][p] = disk[p]
  BY DEF FreshInv
<1>2. \/ rpc' = [rpc EXCEPT ![r] = "killed"] /\ got' = got
      \/ /\ rpc' = [rpc EXCEPT ![r] = then]
         /\ DOMAIN got'[r] = DOMAIN got[r] \cup (lo..hi)
         /\ \A p \in DOMAIN got[r] \ (lo..hi) : got'[r][p] = got[r][p]
         /\ \A p \in lo..hi : \/ p <= Len(disk) /\ got'[r][p] = disk[p]
                              \/ p > Len(disk) /\ Len(disk) > 0 /\ got'[r][p] = Zero
  <2>1. lo \in Nat
    OBVIOUS
  <2>2. Touched(r, lo, hi, then)
    BY <1>0, <2>1, TouchEffect, Zenon
  <2> QED
    BY <2>2, Zenon DEF Touched
<1> QED
  BY <1>0, <1>1, <1>2 DEF FreshTouched

\* The size of an incomplete file is less than its boot means to write.
LEMMA StaleSize ==
  ASSUME Core, ~Complete, Len(disk) > 0
  PROVE  Len(disk) < FullLen(disk[1][2])
<1> DEFINE b == disk[1][2]
<1>1. Len(disk) \in Nat /\ 1 \in 1..Len(disk)
  BY DiskType DEF Core, Types
<1>2. b \in Boots /\ FullLen(b) \in Nat
  BY <1>1, CellType, RamType DEF Core, Types
<1>3. ~(Len(disk) >= FullLen(b))
  BY FullIsComplete
<1> QED
  BY <1>1, <1>2, <1>3

LEMMA FirstCell == ASSUME Core, Len(disk) > 0 PROVE disk[1][2] \in Boots /\ FullLen(disk[1][2]) \in Nat
<1>1. Len(disk) \in Nat /\ 1 \in 1..Len(disk)
  BY DiskType DEF Core, Types
<1> QED
  BY <1>1, CellType, RamType DEF Core, Types

FileInv == Core /\ \A r \in Readers : ReaderInv(r)

\* The facts about the moving reader that each of its steps uses.
LEMMA ReaderFacts ==
  ASSUME FileInv, NEW r \in Readers
  PROVE  /\ Core /\ Types /\ ReaderInv(r) /\ Len(disk) \in Nat /\ size[r] \in Nat
         /\ DOMAIN rpc = Readers /\ DOMAIN got = Readers /\ DOMAIN size = Readers
         /\ DOMAIN lazy = Readers /\ fresh \in [Readers -> BOOLEAN]
         /\ kind[r] \in {"restore", "clone", "bench"} /\ HeadLen \in Nat \ {0}
BY DiskType, RamType DEF FileInv, Core, Types, FileTypeOK

\* The moving reader, when nothing was cut under it.
LEMMA ReadsOn ==
  ASSUME FileInv, NEW r \in Readers, Reading(r), ~cut[r]
  PROVE  FreshInv(r) /\ StaleInv(r)
BY ReaderFacts DEF ReaderInv

\* Opening: OpenMap and BenchStat.
LEMMA OpenReader ==
  ASSUME FileInv, NEW r \in Readers, rpc[r] \in {"start", "open"}, kind[r] # "clone",
         UNCHANGED <<wvars, kind, got>>,
         size' = [size EXCEPT ![r] = Len(disk)], fresh' = [fresh EXCEPT ![r] = Complete],
         \/ rpc' = [rpc EXCEPT ![r] = "header"] /\ Len(disk) > 0
         \/ rpc' = [rpc EXCEPT ![r] = "alloc"]
  PROVE  ReaderInv(r)'
<1>0. /\ Core /\ Types /\ ReaderInv(r) /\ Len(disk) \in Nat /\ DOMAIN rpc = Readers
      /\ DOMAIN size = Readers /\ fresh \in [Readers -> BOOLEAN]
  BY ReaderFacts
<1>1. /\ size'[r] = Len(disk) /\ rpc'[r] \in {"header", "alloc"} /\ DOMAIN got'[r] = {}
      /\ UNCHANGED <<disk, next, kind>> /\ (rpc'[r] = "header" => Len(disk) > 0)
  BY <1>0 DEF ReaderInv, wvars
<1>2. fresh'[r] = Complete
  BY <1>0, FreshUpdate
<1>3. FreshInv(r)'
  BY Zenon, <1>1, <1>2 DEF FreshInv, Complete
<1>4. StaleInv(r)'
  <2> SUFFICES ASSUME ~fresh'[r] PROVE StaleInv(r)'
    BY DEF StaleInv
  <2>1. Len(disk) > 0 => Len(disk) < FullLen(disk[1][2])
    BY <1>0, <1>2, StaleSize
  <2> QED
    BY <1>0, <1>1, <2>1 DEF StaleInv
<1>5. Reading(r)'
  BY <1>1 DEF Reading
<1> QED
  BY <1>1, <1>3, <1>4, <1>5, StillReads

LEMMA ParseHeaderReader ==
  ASSUME FileInv, NEW r \in Readers, ParseHeader(r), ~cut[r] PROVE ReaderInv(r)'
<1>0. /\ Core /\ Types /\ ReaderInv(r) /\ Len(disk) \in Nat /\ size[r] \in Nat
      /\ DOMAIN rpc = Readers
  BY ReaderFacts
<1>1. /\ rpc[r] = "header" /\ Touch(r, 1, 1, "body") /\ UNCHANGED <<kind, size, lazy, fresh>>
      /\ UNCHANGED wvars /\ UNCHANGED <<disk, next>> /\ kind[r] = "restore"
  BY <1>0, PcKind DEF ParseHeader, wvars
<1>inv. FreshInv(r) /\ StaleInv(r)
  BY <1>1, ReadsOn DEF Reading
<1>on. rpc'[r] = "body" => Reading(r)'
  BY DEF Reading
<1>2. CASE fresh[r]
  <2>0. FreshInv(r) /\ Complete /\ Len(disk) >= 1
    BY <1>0, <1>2, <1>inv, CompleteFacts, RamType DEF FreshInv
  <2>1. \/ rpc'[r] = "killed" /\ got' = got
        \/ /\ rpc'[r] = "body" /\ DOMAIN got'[r] = DOMAIN got[r] \cup (1..1)
           /\ \A p \in DOMAIN got'[r] : p \in 1..Len(disk) /\ got'[r][p] = disk[p]
    <3>1. 1 \in Nat \ {0} /\ 1 \in Nat /\ 1 <= Len(disk)
      BY <1>0, <2>0
    <3>2. FreshTouched(r, 1, 1, "body")
      BY <1>0, <1>1, <1>2, <2>0, <3>1, FreshTouch, Zenon
    <3> QED
      BY <3>2, Zenon DEF FreshTouched
  <2>2. CASE rpc'[r] = "killed" /\ got' = got
    BY <2>2, DullMove
  <2>3. CASE /\ rpc'[r] = "body" /\ DOMAIN got'[r] = DOMAIN got[r] \cup (1..1)
             /\ \A p \in DOMAIN got'[r] : p \in 1..Len(disk) /\ got'[r][p] = disk[p]
    <3>1. 1 \in DOMAIN got'[r]
      BY <2>3
    <3>2. FreshInv(r)' /\ StaleInv(r)'
      BY <1>1, <1>2, <2>0, <2>3, <3>1 DEF FreshInv, StaleInv, Complete
    <3> QED
      BY <1>on, <2>3, <3>2, StillReads
  <2> QED
    BY <2>1, <2>2, <2>3
<1>3. CASE ~fresh[r]
  <2>1. size[r] > 0 /\ Len(disk) > 0 /\ size[r] < FullLen(disk[1][2])
    BY <1>0, <1>1, <1>3, <1>inv DEF StaleInv
  <2>2. \/ rpc'[r] = "killed" /\ got' = got
        \/ /\ rpc'[r] = "body"
           /\ \/ 1 <= Len(disk) /\ got'[r][1] = disk[1]
              \/ got'[r][1] = Zero
    <3>1. \/ rpc' = [rpc EXCEPT ![r] = "killed"] /\ got' = got
          \/ /\ rpc' = [rpc EXCEPT ![r] = "body"]
             /\ \A p \in 1..1 : \/ p <= Len(disk) /\ got'[r][p] = disk[p]
                                \/ p > Len(disk) /\ Len(disk) > 0 /\ got'[r][p] = Zero
      <4>1. Touched(r, 1, 1, "body")
        <5>1. 1 \in Nat
          OBVIOUS
        <5> QED
          BY <1>0, <1>1, <5>1, TouchEffect, Zenon
      <4> QED
        BY <4>1, Zenon DEF Touched
    <3>2. 1 \in 1..1
      OBVIOUS
    <3> QED
      BY <1>0, <3>1, <3>2
  <2>3. CASE rpc'[r] = "killed" /\ got' = got
    BY <2>3, DullMove
  <2>4. CASE rpc'[r] = "body" /\ 1 <= Len(disk) /\ got'[r][1] = disk[1]
    <3>1. FreshInv(r)' /\ StaleInv(r)'
      BY <1>1, <1>3, <2>1, <2>4 DEF FreshInv, StaleInv
    <3> QED
      BY <1>on, <2>4, <3>1, StillReads
  <2>5. CASE rpc'[r] = "body" /\ got'[r][1] = Zero
    <3>1. ~IsHeader(got'[r][1])
      BY <2>5 DEF IsHeader, Zero
    <3>2. FreshInv(r)' /\ StaleInv(r)'
      BY <1>1, <1>3, <2>1, <2>5, <3>1 DEF FreshInv, StaleInv, IsHeader
    <3> QED
      BY <1>on, <2>5, <3>2, StillReads
  <2> QED
    BY <2>2, <2>3, <2>4, <2>5
<1> QED
  BY <1>2, <1>3

LEMMA ParseBodyReader ==
  ASSUME FileInv, NEW r \in Readers, ParseBody(r), ~cut[r] PROVE ReaderInv(r)'
<1>0. /\ Core /\ Types /\ ReaderInv(r) /\ Len(disk) \in Nat /\ size[r] \in Nat
      /\ DOMAIN rpc = Readers /\ HeadLen \in Nat \ {0}
  BY ReaderFacts
<1>1. /\ rpc[r] = "body" /\ UNCHANGED <<kind, size, lazy, fresh>>
      /\ UNCHANGED wvars /\ UNCHANGED <<disk, next>> /\ kind[r] = "restore"
  BY <1>0, PcKind DEF ParseBody, wvars
<1>inv. FreshInv(r) /\ StaleInv(r)
  BY <1>1, ReadsOn DEF Reading
<1>2. CASE Reject(r) /\ UNCHANGED got
  BY <1>0, <1>2, DullMove DEF Reject
<1>3. CASE IsHeader(got[r][1]) /\ size[r] >= Announced(r) /\ Touch(r, 2, HeadLen, "ram")
  <2>1. fresh[r]
    <3> SUFFICES ASSUME ~fresh[r] PROVE FALSE
      OBVIOUS
    <3>1. size[r] < Announced(r) /\ Len(disk) > 0 /\ got[r][1] = disk[1]
      BY <1>0, <1>1, <1>3, <1>inv DEF StaleInv, Announced
    <3>2. Announced(r) \in Nat
      BY <1>0, <3>1, FirstCell DEF Announced
    <3> QED
      BY <1>0, <1>3, <3>1, <3>2
  <2>2. FreshInv(r) /\ 1 \in DOMAIN got[r] /\ Complete
    BY <1>1, <1>inv, <2>1 DEF FreshInv
  <2>3. HeadLen <= Len(disk) /\ HeadLen \in Nat /\ 2 \in Nat \ {0} /\ Touch(r, 2, HeadLen, "ram")
    BY <1>0, <1>3, <2>1, <2>2, FreshHeader
  <2>4. \/ rpc'[r] = "killed" /\ got' = got
        \/ /\ rpc'[r] = "ram" /\ DOMAIN got'[r] = DOMAIN got[r] \cup (2..HeadLen)
           /\ \A p \in DOMAIN got'[r] : p \in 1..Len(disk) /\ got'[r][p] = disk[p]
    <3>1. FreshTouched(r, 2, HeadLen, "ram")
      BY <1>0, <2>1, <2>2, <2>3, FreshTouch, Zenon
    <3> QED
      BY <3>1, Zenon DEF FreshTouched
  <2>5. CASE rpc'[r] = "killed" /\ got' = got
    BY <2>5, DullMove
  <2>6. CASE /\ rpc'[r] = "ram" /\ DOMAIN got'[r] = DOMAIN got[r] \cup (2..HeadLen)
             /\ \A p \in DOMAIN got'[r] : p \in 1..Len(disk) /\ got'[r][p] = disk[p]
    <3>1. 1..HeadLen \subseteq DOMAIN got'[r]
      BY <1>0, <2>2, <2>6
    <3>2. FreshInv(r)' /\ StaleInv(r)'
      BY <1>1, <2>1, <2>2, <2>6, <3>1 DEF FreshInv, StaleInv, Complete
    <3>3. Reading(r)'
      BY <2>6 DEF Reading
    <3> QED
      BY <2>6, <3>2, <3>3, StillReads
  <2> QED
    BY <2>4, <2>5, <2>6
<1> QED
  BY <1>2, <1>3 DEF ParseBody, Fits

LEMMA LoadRamReader ==
  ASSUME FileInv, NEW r \in Readers, LoadRam(r), ~cut[r] PROVE ReaderInv(r)'
<1>0. /\ Core /\ Types /\ ReaderInv(r) /\ Len(disk) \in Nat /\ size[r] \in Nat
      /\ DOMAIN rpc = Readers /\ DOMAIN lazy = Readers /\ HeadLen \in Nat \ {0}
  BY ReaderFacts
<1>1. /\ rpc[r] = "ram" /\ kind[r] = "restore" /\ UNCHANGED <<kind, size, fresh>>
      /\ UNCHANGED wvars /\ UNCHANGED <<disk, next>>
  BY DEF LoadRam, wvars
<1>2. /\ fresh[r] /\ FreshInv(r) /\ Complete /\ size[r] = Len(disk)
      /\ 1..HeadLen \subseteq DOMAIN got[r] /\ 1 \in DOMAIN got[r]
      /\ \A p \in DOMAIN got[r] : p \in 1..Len(disk) /\ got[r][p] = disk[p]
  <2>1. FreshInv(r) /\ StaleInv(r)
    BY <1>1, ReadsOn DEF Reading
  <2> QED
    BY <1>0, <1>1, <2>1 DEF FreshInv, StaleInv
<1>3. Announced(r) = Len(disk)
  BY <1>0, <1>2, FreshHeader
<1>4. CASE lazy'[r] = "uffd" /\ rpc' = [rpc EXCEPT ![r] = "state"] /\ UNCHANGED got
  <2>1. rpc'[r] = "state" /\ Reading(r)'
    BY <1>0, <1>1, <1>4 DEF Reading
  <2>2. FreshInv(r)' /\ StaleInv(r)'
    BY <1>1, <1>2, <1>4, <2>1 DEF FreshInv, StaleInv, Complete
  <2> QED
    BY <2>1, <2>2, StillReads
<1>5. CASE lazy'[r] # "uffd" /\ Touch(r, HeadLen + 1, Announced(r), "state")
  <2>1. \/ rpc'[r] = "killed" /\ got' = got
        \/ /\ rpc'[r] = "state" /\ DOMAIN got'[r] = DOMAIN got[r] \cup (HeadLen + 1)..Len(disk)
           /\ \A p \in DOMAIN got'[r] : p \in 1..Len(disk) /\ got'[r][p] = disk[p]
    <3>1. HeadLen + 1 \in Nat \ {0} /\ Len(disk) <= Len(disk)
      BY <1>0
    <3>2. FreshTouched(r, HeadLen + 1, Len(disk), "state")
      BY <1>0, <1>2, <1>3, <1>5, <3>1, FreshTouch, Zenon
    <3> QED
      BY <3>2, Zenon DEF FreshTouched
  <2>2. CASE rpc'[r] = "killed" /\ got' = got
    BY <2>2, DullMove
  <2>3. CASE /\ rpc'[r] = "state" /\ DOMAIN got'[r] = DOMAIN got[r] \cup (HeadLen + 1)..Len(disk)
             /\ \A p \in DOMAIN got'[r] : p \in 1..Len(disk) /\ got'[r][p] = disk[p]
    <3>1. 1..Len(disk) \subseteq DOMAIN got'[r] /\ 1..HeadLen \subseteq DOMAIN got'[r]
      BY <1>0, <1>2, <2>3, SMTT(60), Z3T(60)
    <3>2. HoldsSnapshot(r)'
      BY Zenon, <1>0, <1>2, <2>3, <3>1, CellsHold DEF HoldsSnapshot
    <3>3. ~Reading(r)'
      BY <1>5, <2>3 DEF Reading
    <3> QED
      BY <2>3, <3>2, <3>3 DEF ReaderInv
  <2> QED
    BY <2>1, <2>2, <2>3
<1> QED
  BY <1>0, <1>4, <1>5 DEF LoadRam, Types, FileTypeOK

LEMMA SetStateReader ==
  ASSUME FileInv, NEW r \in Readers, SetState(r), ~cut[r] PROVE ReaderInv(r)'
<1>0. ReaderInv(r) /\ DOMAIN rpc = Readers /\ Types
  BY ReaderFacts
<1>1. /\ rpc[r] = "state" /\ rpc'[r] \in {"run", "rejected"} /\ kind[r] # "bench"
      /\ UNCHANGED <<disk, next, cut, kind, size, got, lazy, fresh>>
  BY <1>0, PcKind DEF SetState, wvars
<1>2. CASE rpc'[r] = "rejected"
  BY <1>2, DullMove
<1>3. CASE rpc'[r] = "run" /\ Reading(r)
  <2>1. FreshInv(r) /\ StaleInv(r)
    BY <1>3, ReadsOn
  <2>2. Reading(r)'
    BY <1>1, <1>3 DEF Reading
  <2>3. FreshInv(r)' /\ StaleInv(r)'
    BY <1>1, <1>3, <2>1 DEF FreshInv, StaleInv, Complete
  <2> QED
    BY <1>3, <2>2, <2>3, StillReads
<1>4. CASE rpc'[r] = "run" /\ ~Reading(r)
  <2>1. ~Reading(r)' /\ (Settled(r)' => Settled(r))
    BY <1>1, <1>4 DEF Reading, Settled
  <2>2. HoldsSnapshot(r) => HoldsSnapshot(r)'
    BY <1>1 DEF HoldsSnapshot
  <2> QED
    BY <1>0, <1>1, <1>4, <2>1, <2>2 DEF ReaderInv
<1> QED
  BY <1>1, <1>2, <1>3, <1>4

LEMMA FetchReader ==
  ASSUME FileInv, NEW r \in Readers, Fetch(r), ~cut[r] PROVE ReaderInv(r)'
<1>0. /\ Core /\ Types /\ ReaderInv(r) /\ Len(disk) \in Nat
      /\ DOMAIN rpc = Readers /\ HeadLen \in Nat \ {0}
  BY ReaderFacts
<1>1. /\ rpc[r] = "run" /\ kind[r] = "restore" /\ lazy[r] = "uffd"
      /\ UNCHANGED <<kind, size, lazy, fresh>> /\ UNCHANGED wvars /\ UNCHANGED <<disk, next>>
  BY DEF Fetch, wvars
<1>2. /\ fresh[r] /\ FreshInv(r) /\ Complete /\ size[r] = Len(disk)
      /\ 1..HeadLen \subseteq DOMAIN got[r] /\ 1 \in DOMAIN got[r]
  <2>1. FreshInv(r) /\ StaleInv(r)
    BY <1>1, ReadsOn DEF Reading
  <2> QED
    BY <1>0, <1>1, <2>1 DEF FreshInv, StaleInv
<1>3. Announced(r) = Len(disk)
  BY <1>0, <1>2, FreshHeader
<1>4. PICK p \in (HeadLen + 1)..Len(disk) : Touch(r, p, p, "run")
  BY <1>3 DEF Fetch
<1>5. \/ rpc'[r] = "killed" /\ got' = got
      \/ /\ rpc'[r] = "run" /\ DOMAIN got'[r] = DOMAIN got[r] \cup p..p
         /\ \A q \in DOMAIN got'[r] : q \in 1..Len(disk) /\ got'[r][q] = disk[q]
  <2>1. p \in Nat \ {0} /\ p \in Nat /\ p <= Len(disk)
    BY <1>0
  <2> QED
    <3>1. FreshTouched(r, p, p, "run")
      BY <1>0, <1>2, <1>4, <2>1, FreshTouch, Zenon
    <3> QED
      BY <3>1, Zenon DEF FreshTouched
<1>6. CASE rpc'[r] = "killed" /\ got' = got
  BY <1>6, DullMove
<1>7. CASE /\ rpc'[r] = "run" /\ DOMAIN got'[r] = DOMAIN got[r] \cup p..p
           /\ \A q \in DOMAIN got'[r] : q \in 1..Len(disk) /\ got'[r][q] = disk[q]
  <2>1. FreshInv(r)' /\ StaleInv(r)'
    BY <1>1, <1>2, <1>7 DEF FreshInv, StaleInv, Complete
  <2>2. Reading(r)'
    BY <1>1, <1>7 DEF Reading
  <2> QED
    BY <1>7, <2>1, <2>2, StillReads
<1> QED
  BY <1>5, <1>6, <1>7

\* The parent of the clones; what it holds matters only if it was fresh.
LEMMA CloneReader ==
  ASSUME FileInv, NEW r \in Readers, CloneHeader(r) \/ CloneSections(r) \/ CloneRam(r),
         ~cut[r]
  PROVE  ReaderInv(r)'
<1>0. /\ Core /\ Types /\ ReaderInv(r) /\ Len(disk) \in Nat /\ DOMAIN rpc = Readers
      /\ DOMAIN got = Readers /\ DOMAIN size = Readers /\ fresh \in [Readers -> BOOLEAN]
      /\ HeadLen \in Nat \ {0}
  BY ReaderFacts
<1>1. kind[r] = "clone" /\ UNCHANGED <<kind, lazy>> /\ UNCHANGED wvars /\ UNCHANGED <<disk, next>>
  BY <1>0, PcKind DEF CloneHeader, CloneSections, CloneRam, wvars
<1>2. ASSUME rpc'[r] \in {"read", "ram"}, fresh'[r] => FreshInv(r)' PROVE ReaderInv(r)'
  <2>1. FreshInv(r)' /\ StaleInv(r)' /\ Reading(r)'
    BY <1>1, <1>2 DEF FreshInv, StaleInv, Reading
  <2> QED
    BY <1>2, <2>1, StillReads
<1>inv. ASSUME rpc[r] \in {"read", "ram"} PROVE FreshInv(r)
  BY <1>inv, ReadsOn DEF Reading
<1>3. CASE CloneHeader(r)
  <2>1. CASE Reject(r) /\ UNCHANGED <<got, fresh, size>>
    BY <1>0, <2>1, DullMove DEF Reject
  <2>2. CASE /\ Len(disk) >= 1 /\ got' = [got EXCEPT ![r] = [p \in {1} |-> disk[1]]]
             /\ fresh' = [fresh EXCEPT ![r] = Complete]
             /\ rpc' = [rpc EXCEPT ![r] = IF IsHeader(disk[1]) THEN "read" ELSE "rejected"]
    <3>1. /\ got'[r] = [p \in {1} |-> disk[1]] /\ rpc'[r] \in {"read", "rejected"}
          /\ fresh'[r] = Complete
      BY <1>0, <2>2, FreshUpdate
    <3>2. /\ DOMAIN got'[r] = {1} /\ \A p \in DOMAIN got'[r] : p \in 1..Len(disk) /\ got'[r][p] = disk[p]
      BY <1>0, <2>2, <3>1
    <3>3. fresh'[r] => FreshInv(r)'
      BY Zenon, <1>1, <3>1, <3>2 DEF FreshInv, Complete
    <3> QED
      BY <1>2, <3>1, <3>3, DullMove
  <2> QED
    BY <1>3, <2>1, <2>2 DEF CloneHeader
<1>4. CASE CloneSections(r)
  <2>1. rpc[r] = "read" /\ rpc'[r] = "ram" /\ fresh' = fresh
    BY <1>0, <1>4 DEF CloneSections
  <2>2. ASSUME fresh[r] PROVE FreshInv(r)'
    <3>1. FreshInv(r) /\ Complete /\ 1 \in DOMAIN got[r] /\ got[r][1] = disk[1]
      BY <1>inv, <2>1, <2>2 DEF FreshInv
    <3>2. Len(disk) > HeadLen
      BY <1>0, <2>2, <3>1, FreshHeader
    <3>3. /\ got'[r] = [p \in 1..HeadLen |-> disk[p]] /\ size'[r] = HeadLen
      BY <1>0, <1>4, <3>1, <3>2 DEF CloneSections
    <3>4. /\ DOMAIN got'[r] = 1..HeadLen
          /\ \A p \in DOMAIN got'[r] : p \in 1..Len(disk) /\ got'[r][p] = disk[p]
      BY <1>0, <3>2, <3>3
    <3> QED
      BY <1>1, <2>1, <3>1, <3>3, <3>4, SMTT(60), Z3T(60) DEF FreshInv, Complete
  <2> QED
    BY <1>2, <2>1, <2>2
<1>5. CASE CloneRam(r)
  <2>1. rpc[r] = "ram" /\ rpc'[r] = "state" /\ fresh' = fresh
    BY <1>0, <1>5 DEF CloneRam
  <2>2. ASSUME fresh[r] PROVE HoldsSnapshot(r)'
    <3>1. /\ FreshInv(r) /\ Complete /\ 1..HeadLen \subseteq DOMAIN got[r] /\ size[r] = HeadLen
          /\ \A p \in 1..HeadLen : got[r][p] = disk[p]
      BY <1>1, <1>inv, <2>1, <2>2 DEF FreshInv
    <3>2. Len(disk) > HeadLen /\ Announced(r) = Len(disk)
      BY <1>0, <2>2, <3>1, FreshHeader
    <3>3. got'[r] = [p \in 1..Len(disk) |->
                       IF p <= HeadLen THEN got[r][p]
                       ELSE IF HeadLen + p - HeadLen <= Len(disk)
                              THEN disk[HeadLen + p - HeadLen] ELSE Zero]
      BY <1>0, <1>5, <3>1, <3>2 DEF CloneRam
    <3>4. /\ DOMAIN got'[r] = 1..Len(disk)
          /\ \A p \in 1..Len(disk) : got'[r][p] = disk[p]
      <4>1. DOMAIN got'[r] = 1..Len(disk)
        BY <3>3, Zenon
      <4>2. ASSUME NEW p \in 1..Len(disk) PROVE got'[r][p] = disk[p]
        <5>1. p \in Nat /\ HeadLen + p - HeadLen = p /\ p <= Len(disk)
          BY <1>0
        <5>2. CASE p <= HeadLen
          <6>1. p \in 1..HeadLen
            BY <1>0, <5>1, <5>2
          <6> QED
            BY <3>1, <3>3, <5>2, <6>1, Zenon
        <5>3. CASE ~(p <= HeadLen)
          BY <3>3, <5>1, <5>3, Zenon
        <5> QED
          BY <5>2, <5>3
      <4> QED
        BY <4>1, <4>2
    <3>5. 1..HeadLen \subseteq DOMAIN got'[r]
      BY <1>0, <3>2, <3>4
    <3> QED
      BY Zenon, <1>0, <3>1, <3>4, <3>5, CellsHold DEF HoldsSnapshot
  <2>3. ~Reading(r)'
    BY <1>1, <2>1 DEF Reading
  <2> QED
    BY <1>1, <2>1, <2>2, <2>3 DEF ReaderInv, Settled
<1> QED
  BY <1>3, <1>4, <1>5

\* A benchmark that holds every cell of a complete file.
HoldsAll(r) ==
  /\ fresh[r] /\ Complete /\ size[r] = Len(disk) /\ 1..Len(disk) \subseteq DOMAIN got[r]
  /\ \A p \in DOMAIN got[r] : p \in 1..Len(disk) /\ got[r][p] = disk[p]

LEMMA HoldingMove ==
  ASSUME Core, NEW r \in Readers, kind'[r] = "bench", HoldsAll(r)', UNCHANGED wvars,
         rpc'[r] \in {"parse", "run", "mmapped", "filled"}
  PROVE  ReaderInv(r)'
<1>1. disk' = disk /\ Complete /\ Complete'
  BY Zenon DEF HoldsAll, Complete, wvars
<1>2. Len(disk) \in Nat /\ Len(disk) > HeadLen /\ HeadLen \in Nat
  BY <1>1, CompleteFacts, RamType
<1>3. 1..HeadLen \subseteq DOMAIN got'[r] /\ 1 \in DOMAIN got'[r]
  BY <1>1, <1>2, RamType DEF HoldsAll
<1>4. FreshInv(r)'
  BY <1>1, <1>3 DEF FreshInv, HoldsAll
<1>5. StaleInv(r)'
  BY DEF StaleInv, HoldsAll
<1>6. CASE rpc'[r] = "filled"
  <2>1. HoldsSnapshot(r)'
    BY Zenon, <1>1, <1>3, CellsHold DEF HoldsSnapshot, HoldsAll
  <2>2. ~Reading(r)'
    BY <1>6 DEF Reading
  <2> QED
    BY <1>6, <2>1, <2>2 DEF ReaderInv
<1>7. CASE rpc'[r] # "filled"
  <2>1. Reading(r)'
    BY <1>7 DEF Reading
  <2> QED
    BY <1>4, <1>5, <2>1, StillReads
<1> QED
  BY <1>6, <1>7

\* read() of the whole file, by BenchLoad and BenchFileRead.
LEMMA HoldingRead ==
  ASSUME FileInv, NEW r \in Readers, fresh[r], Complete, size[r] = Len(disk),
         UNCHANGED <<wvars, size, fresh>>, got' = [got EXCEPT ![r] = [p \in 1..size[r] |-> disk[p]]]
  PROVE  HoldsAll(r)'
<1>1. disk' = disk /\ Complete' /\ fresh'[r] /\ size'[r] = Len(disk')
  BY DEF wvars, Complete
<1>2. got'[r] = [p \in 1..Len(disk) |-> disk[p]]
  BY ReaderFacts
<1> QED
  BY <1>1, <1>2 DEF HoldsAll

LEMMA BenchLoadReader ==
  ASSUME FileInv, NEW r \in Readers, kind[r] = "bench", BenchLoad(r), ~cut[r]
  PROVE   ReaderInv(r)'
<1>1. rpc[r] = "load" /\ UNCHANGED <<kind, size, lazy, fresh>> /\ UNCHANGED wvars
      /\ UNCHANGED <<disk, next>>
  BY DEF BenchLoad, wvars
<1>2. ReaderInv(r) /\ Core /\ DOMAIN rpc = Readers /\ size[r] \in Nat /\ Len(disk) \in Nat
  BY ReaderFacts
<1>3. CASE Reject(r) /\ UNCHANGED got
  BY <1>2, <1>3, DullMove DEF Reject
<1>4. CASE /\ ~(Len(disk) < size[r]) /\ got' = [got EXCEPT ![r] = [p \in 1..size[r] |-> disk[p]]]
           /\ rpc' = [rpc EXCEPT ![r] = "parse"]
  <2>1. rpc'[r] = "parse"
    BY <1>2, <1>4
  <2>2. CASE fresh[r]
    <3>1. Complete /\ size[r] = Len(disk)
      BY <1>1, <2>2, ReadsOn DEF Reading, FreshInv
    <3>2. HoldsAll(r)'
      BY <1>1, <1>4, <2>2, <3>1, HoldingRead, SMTT(60), Z3T(60)
    <3> QED
      BY <1>1, <1>2, <2>1, <3>2, HoldingMove
  <2>3. CASE ~fresh[r]
    <3>1. ~fresh'[r] /\ kind'[r] = "bench" /\ size'[r] = size[r]
      BY <1>1, <2>3
    <3>2. size[r] > 0 => Len(disk) > 0 /\ size[r] < FullLen(disk[1][2])
      BY <1>1, <2>3, ReadsOn DEF Reading, StaleInv
    <3>3. ASSUME size[r] > 0 PROVE got'[r][1] = disk[1]
      <4>1. 1 \in 1..size[r]
        BY <1>2, <3>3
      <4> QED
        BY <1>4, <4>1, ReaderFacts, SMTT(60), Z3T(60)
    <3>4. StaleInv(r)' /\ FreshInv(r)' /\ Reading(r)'
      BY <1>1, <2>1, <3>1, <3>2, <3>3 DEF StaleInv, FreshInv, Reading
    <3> QED
      BY <2>1, <3>4, StillReads
  <2> QED
    BY <2>2, <2>3
<1> QED
  BY <1>3, <1>4 DEF BenchLoad

LEMMA BenchParseReader ==
  ASSUME FileInv, NEW r \in Readers, kind[r] = "bench", BenchParse(r), ~cut[r]
  PROVE   ReaderInv(r)'
<1>1. rpc[r] = "parse" /\ UNCHANGED <<kind, size, got, lazy, fresh>> /\ UNCHANGED wvars /\ disk' = disk
  BY DEF BenchParse, wvars
<1>2. ReaderInv(r) /\ Core /\ DOMAIN rpc = Readers /\ size[r] \in Nat
  BY ReaderFacts
<1>inv. FreshInv(r) /\ StaleInv(r)
  BY <1>1, ReadsOn DEF Reading
<1>3. CASE Reject(r)
  BY <1>2, <1>3, DullMove DEF Reject
<1>4. CASE /\ size[r] >= 1 /\ IsHeader(got[r][1]) /\ Announced(r) <= size[r]
           /\ rpc' = [rpc EXCEPT ![r] = "run"]
  <2>1. fresh[r]
    <3> SUFFICES ASSUME ~fresh[r] PROVE FALSE
      OBVIOUS
    <3>1. size[r] > 0
      BY <1>2, <1>4
    <3>2. Len(disk) > 0 /\ size[r] < Announced(r) /\ got[r][1] = disk[1]
      BY <1>1, <1>4, <1>inv, <3>1 DEF StaleInv, Announced
    <3>3. Announced(r) \in Nat
      BY <1>2, <3>2, FirstCell DEF Announced
    <3> QED
      BY <1>2, <1>4, <3>2, <3>3
  <2>2. HoldsAll(r)
    BY <1>1, <1>inv, <2>1, SMTT(60), Z3T(60) DEF FreshInv, HoldsAll
  <2>3. HoldsAll(r)'
    BY <1>1, <2>2, SMTT(60), Z3T(60) DEF HoldsAll, Complete
  <2>4. rpc'[r] = "run" /\ kind'[r] = "bench"
    BY <1>1, <1>2, <1>4, SMTT(60), Z3T(60)
  <2> QED
    BY <1>1, <1>2, <2>3, <2>4, HoldingMove
<1> QED
  BY <1>3, <1>4 DEF BenchParse

LEMMA BenchFileMmapReader ==
  ASSUME FileInv, NEW r \in Readers, kind[r] = "bench", BenchFileMmap(r), ~cut[r]
  PROVE   ReaderInv(r)'
<1>1. /\ rpc[r] = "run" /\ UNCHANGED <<kind, size, lazy, fresh>> /\ UNCHANGED wvars
      /\ disk' = disk /\ Touch(r, 1, size[r], "mmapped")
  BY DEF BenchFileMmap, wvars
<1>2. ReaderInv(r) /\ Core /\ Len(disk) \in Nat
  BY ReaderFacts
<1>3. fresh[r] /\ FreshInv(r)
  BY <1>1, ReadsOn DEF Reading, StaleInv
<1>4. Complete /\ size[r] = Len(disk)
  BY <1>3 DEF FreshInv
<1>5. Touch(r, 1, Len(disk), "mmapped")
  BY <1>1, <1>4, SMTT(60), Z3T(60)
<1>6. \/ rpc'[r] = "killed" /\ got' = got
      \/ /\ rpc'[r] = "mmapped" /\ DOMAIN got'[r] = DOMAIN got[r] \cup 1..Len(disk)
         /\ \A p \in DOMAIN got'[r] : p \in 1..Len(disk) /\ got'[r][p] = disk[p]
  <2>1. 1 \in Nat \ {0} /\ Len(disk) <= Len(disk)
    BY <1>2
  <2>2. FreshTouched(r, 1, Len(disk), "mmapped")
    BY <1>2, <1>3, <1>5, <2>1, FreshTouch, Zenon
  <2> QED
    BY <2>2, Zenon DEF FreshTouched
<1>7. CASE rpc'[r] = "killed" /\ got' = got
  BY <1>7, DullMove
<1>8. CASE /\ rpc'[r] = "mmapped" /\ DOMAIN got'[r] = DOMAIN got[r] \cup 1..Len(disk)
           /\ \A p \in DOMAIN got'[r] : p \in 1..Len(disk) /\ got'[r][p] = disk[p]
  <2>1. HoldsAll(r)'
    BY <1>1, <1>3, <1>4, <1>8 DEF HoldsAll, Complete
  <2> QED
    BY <1>1, <1>2, <1>8, <2>1, HoldingMove, SMTT(60), Z3T(60)
<1> QED
  BY <1>6, <1>7, <1>8

LEMMA BenchFileReadReader ==
  ASSUME FileInv, NEW r \in Readers, kind[r] = "bench", BenchFileRead(r), ~cut[r]
  PROVE   ReaderInv(r)'
<1>1. /\ rpc[r] = "mmapped" /\ UNCHANGED <<kind, size, lazy, fresh>> /\ UNCHANGED wvars
  BY DEF BenchFileRead, wvars
<1>2. ReaderInv(r) /\ Core /\ DOMAIN rpc = Readers
  BY ReaderFacts
<1>3. fresh[r] /\ Complete /\ size[r] = Len(disk)
  BY <1>1, ReadsOn DEF Reading, FreshInv, StaleInv
<1>4. CASE Reject(r) /\ UNCHANGED got
  BY <1>2, <1>4, DullMove DEF Reject
<1>5. CASE /\ got' = [got EXCEPT ![r] = [p \in 1..size[r] |-> disk[p]]]
           /\ rpc' = [rpc EXCEPT ![r] = "filled"]
  <2>1. rpc'[r] = "filled" /\ kind'[r] = "bench"
    BY <1>1, <1>2, <1>5
  <2>2. HoldsAll(r)'
    BY <1>1, <1>3, <1>5, HoldingRead
  <2> QED
    BY <1>1, <1>2, <2>1, <2>2, HoldingMove
<1> QED
  BY <1>4, <1>5 DEF BenchFileRead

LEMMA BenchReader ==
  ASSUME FileInv, NEW r \in Readers, BenchStep(r), ~cut[r] PROVE ReaderInv(r)'
<1>1. kind[r] = "bench"
  BY DEF BenchStep
<1>2. CASE BenchStat(r)
  BY Zenon, <1>1, <1>2, OpenReader DEF BenchStat
<1> QED
  BY <1>1, <1>2, BenchLoadReader, BenchParseReader, BenchFileMmapReader, BenchFileReadReader
     DEF BenchStep

LEMMA FileReader ==
  ASSUME FileInv, NEW r \in Readers, FileStep(r), ~cut[r] PROVE ReaderInv(r)'
<1>0. Types /\ Core /\ ReaderInv(r) /\ DOMAIN rpc = Readers
  BY ReaderFacts, SMTT(60), Z3T(60)
<1>1. CASE Probe(r)
  <2>1. /\ rpc[r] = "start" /\ rpc'[r] = "open"
        /\ UNCHANGED <<cut, got, fresh>>
    BY <1>0, <1>1 DEF Probe, wvars
  <2>2. ~Reading(r)' /\ ~Settled(r)'
    BY <2>1 DEF Reading, Settled
  <2> QED
    BY <1>0, <2>1, <2>2 DEF ReaderInv
<1>2. CASE OpenMap(r)
  <2>1. kind[r] = "restore" /\ rpc[r] = "open" /\ UNCHANGED <<wvars, kind, got>>
    BY <1>0, <1>2, PcKind DEF OpenMap
  <2>2. CASE Reject(r) /\ UNCHANGED <<size, fresh>>
    BY <1>0, <2>2, DullMove DEF Reject
  <2>3. CASE /\ Len(disk) > 0 /\ size' = [size EXCEPT ![r] = Len(disk)]
             /\ fresh' = [fresh EXCEPT ![r] = Complete] /\ rpc' = [rpc EXCEPT ![r] = "header"]
    BY Zenon, <2>1, <2>3, OpenReader
  <2> QED
    BY <1>2, <2>2, <2>3 DEF OpenMap
<1> QED
  BY <1>1, <1>2, ParseHeaderReader, ParseBodyReader, LoadRamReader, SetStateReader, FetchReader,
     CloneReader, SMTT(60), Z3T(60) DEF FileStep

\* What the reader that moves does keeps its own part of the invariant.
LEMMA ReaderStepInv == ASSUME FileInv, NEW r \in Readers, ReaderStep(r) PROVE ReaderInv(r)'
<1>1. Types /\ ReaderInv(r) /\ DOMAIN rpc = Readers
  BY ReaderFacts
<1>2. CASE cut[r]
  <2>1. PICK v : Moved(r, v)
    BY <1>1, ReaderStepMoves
  <2>2. rpc[r] \notin {"start", "open"}
    BY <1>1, <1>2 DEF ReaderInv
  <2>3. rpc'[r] \notin {"start", "open"} /\ cut'[r]
    BY <1>1, <1>2, <2>1, <2>2 DEF Moved, wvars
  <2> QED
    BY <2>3, CutReader
<1>3. CASE ~cut[r]
  <2>1. CASE DeviceCall(r)
    <3>1. PICK v \in DevicePcs :
            GoTo(r, v) /\ (v \in {"ioctl", "mmap", "load"} => rpc[r] \in {"alloc", "ioctl", "mmap"})
      BY <2>1 DEF DeviceCall
    <3>2. rpc'[r] = v /\ UNCHANGED <<kind, size, got, fresh>> /\ UNCHANGED wvars
      BY <1>1, <3>1 DEF GoTo
    <3> QED
      BY <1>1, <3>1, <3>2, DullMove, DevicePc DEF DevicePcs
  <2> QED
    BY <1>3, <2>1, FileReader, BenchReader DEF ReaderStep
<1> QED
  BY <1>2, <1>3

LEMMA InitFileInv == ASSUME FileInit PROVE FileInv
BY InitCore, InitReader DEF FileInv

LEMMA FileInvStep == ASSUME FileInv, [FileAct]_fileVars PROVE FileInv'
<1>1. Core' /\ Core /\ Types
  BY CoreStep DEF FileInv, Core
<1>2. CASE WriterNext
  <2>1. UNCHANGED rvars
    BY <1>1, <1>2, WriterTypes
  <2>2. ASSUME NEW r \in Readers PROVE ReaderInv(r)'
    <3>1. (cut[r] => cut'[r]) /\ (~Reading(r) => cut'[r] = cut[r])
      BY <1>1, <1>2, CutStays
    <3>2. Reading(r) /\ ~cut'[r] =>
            /\ Complete => disk' = disk
            /\ Len(disk) > 0 => Len(disk') > 0 /\ disk'[1] = disk[1]
      BY <1>1, <1>2, Frozen
    <3> QED
      BY <2>1, <3>1, <3>2, ReaderFrame DEF FileInv, rvars
  <2> QED
    BY <1>1, <2>2 DEF FileInv
<1>3. ASSUME NEW q \in Readers, ReaderStep(q) PROVE FileInv'
  <2>1. PICK v : Moved(q, v)
    BY <1>1, <1>3, ReaderStepMoves
  <2>2. UNCHANGED <<disk, next, cut>>
    BY <2>1 DEF Moved, wvars
  <2>3. ASSUME NEW r \in Readers, r # q PROVE ReaderInv(r)'
    <3>1. /\ kind'[r] = kind[r] /\ rpc'[r] = rpc[r] /\ size'[r] = size[r] /\ got'[r] = got[r]
          /\ lazy'[r] = lazy[r] /\ fresh'[r] = fresh[r]
      BY <1>1, <2>1, <2>3 DEF Moved, Types, FileTypeOK
    <3> QED
      BY <2>2, <3>1, ReaderFrame DEF FileInv
  <2>4. ReaderInv(q)'
    BY <1>3, ReaderStepInv
  <2> QED
    BY <1>1, <2>3, <2>4 DEF FileInv
<1>4. CASE UNCHANGED fileVars
  <2>1. \A r \in Readers : ReaderInv(r)'
    BY <1>4, ReaderFrame DEF FileInv, fileVars
  <2> QED
    BY <1>1, <2>1 DEF FileInv
<1> QED
  BY <1>2, <1>3, <1>4 DEF FileAct

-----------------------------------------------------------------------------
(* What the invariant means for the readers.                               *)

LEMMA RunsFacts == ASSUME FileInv PROVE RunsCompleteSnapshot
<1> SUFFICES ASSUME NEW r \in Readers, Uses(r), ~cut[r], kind[r] # "clone" \/ fresh[r]
             PROVE  HoldsSnapshot(r)
  BY DEF RunsCompleteSnapshot
<1>0. Core /\ Types /\ ReaderInv(r) /\ HeadLen \in Nat
  BY ReaderFacts
<1>1. CASE Reading(r)
  <2>1. FreshInv(r) /\ fresh[r]
    BY <1>1, ReadsOn DEF StaleInv, Uses
  <2>2. /\ Complete /\ \A p \in DOMAIN got[r] : p \in 1..Len(disk) /\ got[r][p] = disk[p]
        /\ 1..HeadLen \subseteq DOMAIN got[r] \/ 1..Len(disk) \subseteq DOMAIN got[r]
        /\ ~(kind[r] = "restore" /\ lazy[r] = "uffd") => 1..Len(disk) \subseteq DOMAIN got[r]
    BY <2>1, SMTT(60), Z3T(60) DEF FreshInv, Uses
  <2>3. Len(disk) \in Nat /\ Len(disk) > HeadLen
    BY <1>0, <2>2, CompleteFacts
  <2>4. 1..HeadLen \subseteq DOMAIN got[r]
    BY <1>0, <2>2, <2>3
  <2> QED
    BY Zenon, <1>0, <2>2, <2>4, CellsHold DEF HoldsSnapshot
<1>2. CASE ~Reading(r)
  <2>1. Settled(r)
    BY <1>0, <1>2, PcKind DEF Settled, Uses, Reading
  <2> QED
    BY <1>0, <2>1 DEF ReaderInv
<1> QED
  BY <1>1, <1>2
=============================================================================
