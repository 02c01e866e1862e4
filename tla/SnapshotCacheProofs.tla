------------------------ MODULE SnapshotCacheProofs ------------------------
(***************************************************************************)
(* The theorems about the snapshot file and the kernel module's device     *)
(* together, for any number of boots, readers, open files and buffers and  *)
(* any sizes.                                                              *)
(***************************************************************************)
EXTENDS SnapshotCache, SnapshotFileProofs

-----------------------------------------------------------------------------
(* The device on its own: one lemma for each operation.                    *)

\* The device invariants hold together: a mapping stays inside its buffer only
\* because no area is shared, and none is shared because ctx->buf is live.
DevInv == DevTypeOK /\ BufferLive /\ BufferOwned /\ MapWithinBuffer

\* PAGE_ALIGN stays within an unsigned long.
LEMMA AlignType == ASSUME NEW n \in Nat PROVE PAGE_ALIGN(n) \in Sizes
BY DeviceAssumption DEF PAGE_ALIGN, Sizes

\* PAGE_ALIGN is a multiple of the page, and rounds up unless it wraps to 0.
LEMMA AlignUp == ASSUME NEW n \in Sizes
                 PROVE  PAGE_ALIGN(n) % Page = 0 /\ (PAGE_ALIGN(n) # 0 => PAGE_ALIGN(n) >= n)
<1> DEFINE k == (n + Page - 1) \div Page
           w == Word \div Page
<1>1. k \in Nat /\ w \in Nat /\ Word = w * Page /\ w # 0
  BY DeviceAssumption DEF Sizes
<1>2. n <= k * Page /\ k * Page < n + Page
  BY DeviceAssumption DEF Sizes
<1>3. k * Page < Word + Page
  BY <1>2, DeviceAssumption DEF Sizes
<1>4. k < w + 1
  BY <1>1, <1>3, DeviceAssumption
<1>5. CASE k = w
  BY <1>1, <1>5, DeviceAssumption DEF PAGE_ALIGN
<1>6. CASE k < w
  <2>1. k * Page < Word
    BY <1>1, <1>6, DeviceAssumption
  <2>2. PAGE_ALIGN(n) = k * Page
    BY <1>1, <2>1, DeviceAssumption DEF PAGE_ALIGN
  <2> QED
    BY <1>1, <1>2, <2>2, DeviceAssumption
<1> QED
  BY <1>1, <1>4, <1>5, <1>6

LEMMA Quotient == ASSUME NEW k \in Nat, NEW p \in Nat \ {0}, NEW j \in Nat, j < p
                  PROVE  (k * p + j) \div p = k
OBVIOUS

\* A length that is a multiple of the page is aligned already.
LEMMA AlignFixed == ASSUME NEW n \in Sizes, n % Page = 0 PROVE PAGE_ALIGN(n) = n
<1> DEFINE k == n \div Page
           j == Page - 1
<1>1. k \in Nat /\ n = k * Page
  BY DeviceAssumption DEF Sizes
<1>2. j \in Nat /\ j < Page /\ n + Page - 1 = n + j
  BY DeviceAssumption DEF Sizes
<1> HIDE DEF k, j
<1>3. (k * Page + j) \div Page = k
  BY <1>1, <1>2, Quotient, DeviceAssumption
<1>4. (n + Page - 1) \div Page = k
  BY <1>1, <1>2, <1>3
<1> QED
  BY <1>1, <1>4, DeviceAssumption DEF PAGE_ALIGN, Sizes

LEMMA DevInitInv == DevInit => DevInv
BY DeviceAssumption
   DEF DevInit, DevInv, DevTypeOK, BufferLive, BufferOwned, MapWithinBuffer, Sizes

LEMMA OpenStep == ASSUME DevInv, NEW f \in Files, Open(f) PROVE DevInv'
BY DEF DevInv, DevTypeOK, BufferLive, BufferOwned, MapWithinBuffer, Open

LEMMA CloseStep == ASSUME DevInv, NEW f \in Files, Close(f) PROVE DevInv'
BY DEF DevInv, DevTypeOK, BufferLive, BufferOwned, MapWithinBuffer, Close

\* ALLOC: the old area dies before a new one that nobody maps is taken.
LEMMA AllocStep == ASSUME DevInv, NEW f \in Files, NEW n \in Nat, Alloc(f, n) PROVE DevInv'
<1> DEFINE freed == Vfree(area, buf[f])
           s == PAGE_ALIGN(n)
<1>1. /\ freed \in [Bufs -> Sizes]
      /\ \A b \in Bufs : freed[b] = IF b = buf[f] THEN 0 ELSE area[b]
  BY DeviceAssumption DEF DevInv, DevTypeOK, Vfree, Sizes
<1>2. s \in Sizes /\ s > 0 /\ s # 0
  BY AlignType, DeviceAssumption DEF Alloc, Sizes
<1>3. f \in opened /\ UNCHANGED <<opened, closed, maps>>
  BY DEF Alloc
<1>4. CASE /\ area' = freed
           /\ buf' = [buf EXCEPT ![f] = NoBuf]
           /\ len' = [len EXCEPT ![f] = 0]
  <2>1. DevTypeOK'
    BY <1>1, <1>3, <1>4, DeviceAssumption DEF DevInv, DevTypeOK, Sizes
  <2>2. BufferLive'
    BY <1>1, <1>3, <1>4 DEF DevInv, DevTypeOK, BufferLive, BufferOwned
  <2>3. BufferOwned'
    BY <1>1, <1>3, <1>4 DEF DevInv, DevTypeOK, BufferLive, BufferOwned
  <2>4. MapWithinBuffer'
    BY <1>1, <1>3, <1>4 DEF DevInv, DevTypeOK, MapWithinBuffer
  <2> QED
    BY <2>1, <2>2, <2>3, <2>4 DEF DevInv
<1>5. ASSUME NEW b \in Bufs, freed[b] = 0, \A m \in maps : m.area # b,
             area' = [freed EXCEPT ![b] = s],
             buf' = [buf EXCEPT ![f] = b], len' = [len EXCEPT ![f] = s]
      PROVE  DevInv'
  <2>1. DevTypeOK'
    BY <1>1, <1>2, <1>3, <1>5 DEF DevInv, DevTypeOK
  <2>2. \A g \in Files : g # f => buf[g] # b
    BY <1>1, <1>5, DeviceAssumption DEF DevInv, DevTypeOK, BufferLive, BufferOwned
  <2>3. BufferLive'
    BY <1>1, <1>2, <1>3, <1>5, <2>2, DeviceAssumption
       DEF DevInv, DevTypeOK, BufferLive, BufferOwned
  <2>4. BufferOwned'
    BY <1>1, <1>2, <1>3, <1>5, <2>2, DeviceAssumption
       DEF DevInv, DevTypeOK, BufferLive, BufferOwned
  <2>5. MapWithinBuffer'
    BY <1>1, <1>3, <1>5 DEF DevInv, DevTypeOK, MapWithinBuffer
  <2> QED
    BY <2>1, <2>3, <2>4, <2>5 DEF DevInv
<1> QED
  BY <1>4, <1>5 DEF Alloc, Forget

LEMMA MmapStep == ASSUME DevInv, NEW f \in Files, NEW n \in Nat, Mmap(f, n) PROVE DevInv'
<1> DEFINE m == [file |-> f, area |-> buf[f], len |-> PAGE_ALIGN(n)]
<1>1. /\ maps' = maps \cup {m} /\ PAGE_ALIGN(n) <= len[f]
      /\ f \in opened /\ buf[f] # NoBuf
      /\ UNCHANGED <<opened, closed, buf, len, area>>
  BY DEF Mmap, FitsBuffer
<1>2. m \in [file : Files, area : Bufs, len : Sizes]
  BY <1>1, AlignType DEF DevInv, DevTypeOK
<1>3. DevTypeOK'
  BY <1>1, <1>2 DEF DevInv, DevTypeOK
<1>4. MapWithinBuffer'
  BY <1>1 DEF DevInv, MapWithinBuffer
<1> QED
  BY <1>1, <1>3, <1>4 DEF DevInv, BufferLive, BufferOwned

\* munmap() of any set of mappings.
LEMMA UnmapStep == ASSUME DevInv, maps' \subseteq maps, UNCHANGED <<opened, closed, buf, len, area>>
                   PROVE  DevInv'
BY DEF DevInv, DevTypeOK, BufferLive, BufferOwned, MapWithinBuffer

\* release(): nothing maps the file's area any more.
LEMMA ReleaseStep == ASSUME DevInv, NEW f \in Files, Release(f) PROVE DevInv'
<1>1. /\ area' \in [Bufs -> Sizes]
      /\ \A b \in Bufs : area'[b] = IF b = buf[f] THEN 0 ELSE area[b]
  BY DeviceAssumption DEF DevInv, DevTypeOK, Release, Vfree, Sizes
<1>2. DevTypeOK'
  BY <1>1, DeviceAssumption DEF DevInv, DevTypeOK, Release, Forget, Sizes
<1>3. BufferLive'
  BY <1>1 DEF DevInv, DevTypeOK, BufferLive, BufferOwned, Release, Forget
<1>4. BufferOwned'
  BY <1>1, DeviceAssumption DEF DevInv, DevTypeOK, BufferLive, BufferOwned, Release, Forget
<1>5. MapWithinBuffer'
  BY <1>1 DEF DevInv, DevTypeOK, MapWithinBuffer, Release, Forget
<1> QED
  BY <1>2, <1>3, <1>4, <1>5 DEF DevInv

LEMMA DevStutter == ASSUME DevInv, UNCHANGED devVars PROVE DevInv'
BY DEF DevInv, DevTypeOK, BufferLive, BufferOwned, MapWithinBuffer, devVars

-----------------------------------------------------------------------------
(* The device, and the buffer a benchmark works in.                        *)

\* A benchmark's open file stays open while it holds a buffer, the buffer is
\* whole pages and at least the size stat() gave, and it is mapped entirely.
BenchInv(r) == kind[r] = "bench" =>
  /\ rpc[r] = "start" => DOMAIN got[r] = {}
  /\ DOMAIN got[r] \subseteq 1..size[r]
  /\ rpc[r] \in {"ioctl", "mmap", "load", "parse", "run", "mmapped", "filled"}
       => r \in opened /\ r \notin closed
  /\ rpc[r] \in {"mmap", "load", "parse", "run", "mmapped", "filled"}
       => buf[r] # NoBuf /\ len[r] % Page = 0 /\ len[r] >= size[r]
  /\ rpc[r] \in {"load", "parse", "run", "mmapped", "filled"}
       => [file |-> r, area |-> buf[r], len |-> len[r]] \in maps

\* The length a reader remembers fits an unsigned long.
SizeInv == \A r \in Readers : size[r] \in Sizes

CacheInv == Core /\ SizeInv /\ DevInv /\ \A r \in Readers : BenchInv(r)

LEMMA InitCache == Init => CacheInv
<1> SUFFICES ASSUME Init PROVE CacheInv
  OBVIOUS
<1>1. Core /\ SizeInv /\ DevInv
  BY InitCore, DevInitInv, DeviceAssumption DEF Init, FileInit, SizeInv, Sizes
<1>2. \A r \in Readers : rpc[r] = "start" /\ DOMAIN got[r] = {}
  BY DEF Init, FileInit, NoCells
<1> QED
  BY <1>1, <1>2 DEF CacheInv, BenchInv

\* Nobody but the reader itself changes what BenchInv(r) says of it.
LEMMA BenchFrame ==
  ASSUME CacheInv, NEW r \in Readers, kind'[r] = kind[r], rpc'[r] = rpc[r], size'[r] = size[r],
         got'[r] = got[r], buf'[r] = buf[r], len'[r] = len[r], opened \subseteq opened',
         r \in closed' => r \in closed, \A m \in maps : m.file = r => m \in maps'
  PROVE  BenchInv(r)'
BY Zenon DEF CacheInv, BenchInv

\* The steps of the composition, sorted by what they change.
DeviceStep(r) == BenchOpen(r) \/ BenchAlloc(r) \/ BenchMmap(r) \/ BenchExit(r)

LEMMA NextCases ==
  ASSUME [Next]_vars
  PROVE  \/ (WriterNext \/ \E r \in Readers : FileStep(r)) /\ UNCHANGED devVars
         \/ \E r \in Readers : BenchStep(r) /\ UNCHANGED devVars
         \/ \E r \in Benches : DeviceStep(r)
         \/ ClientNext /\ UNCHANGED fileVars
         \/ UNCHANGED vars
BY DEF Next, FileNext, RestoreNext, CloneNext, FileStep, BenchNext, BenchStep, Benches, DeviceStep

\* Every step is one of the file's, or leaves the file and its readers alone.
LEMMA NextIsFileAct == ASSUME [Next]_vars PROVE [FileAct]_fileVars
<1>1. ASSUME NEW r \in Benches, DeviceStep(r) PROVE r \in Readers /\ ReaderStep(r)
  BY <1>1 DEF Benches, DeviceStep, BenchOpen, BenchAlloc, BenchMmap, BenchExit, ReaderStep, DeviceCall,
     DevicePcs
<1>2. UNCHANGED vars => UNCHANGED fileVars
  BY DEF vars
<1> QED
  BY <1>1, <1>2, NextCases DEF FileAct, ReaderStep

LEMMA SizeInvStep == ASSUME Core, SizeInv, [Next]_vars PROVE SizeInv'
<1>1. Len(disk) \in Nat
  BY DiskType DEF Core, Types
<1>2. Len(disk) < Word
  BY <1>1, DiskBound, CacheAssumption, DeviceAssumption, RamType DEF FullLen
<1> QED
  BY <1>1, <1>2, NextIsFileAct, SizeStep, DeviceAssumption DEF SizeInv, Sizes

LEMMA FileCache ==
  ASSUME CacheInv, UNCHANGED devVars, WriterNext \/ \E q \in Readers : FileStep(q)
  PROVE  \A r \in Readers : BenchInv(r)'
<1> SUFFICES ASSUME NEW r \in Readers PROVE BenchInv(r)'
  OBVIOUS
<1>1. CASE WriterNext
  <2>1. UNCHANGED rvars
    BY <1>1, WriterTypes DEF CacheInv, Core
  <2> QED
    BY <2>1, BenchFrame DEF rvars, devVars
<1>2. ASSUME NEW q \in Readers, FileStep(q) PROVE BenchInv(r)'
  <2>1. kind[q] # "bench" /\ \E v : Moved(q, v)
    BY <1>2, FileStepKind, FileStepMoves DEF CacheInv, Core
  <2>2. kind' = kind
    BY <2>1 DEF Moved
  <2>3. CASE r = q
    BY <2>1, <2>2, <2>3 DEF BenchInv
  <2>4. CASE r # q
    <3>1. rpc'[r] = rpc[r] /\ size'[r] = size[r] /\ got'[r] = got[r]
      BY <2>1, <2>4 DEF Moved, CacheInv, Core, Types, FileTypeOK
    <3> QED
      BY <2>2, <3>1, BenchFrame DEF devVars
  <2> QED
    BY <2>3, <2>4
<1> QED
  BY <1>1, <1>2

\* A benchmark reads the file: only its own cells change, within its size.
LEMMA BenchFileCache ==
  ASSUME CacheInv, NEW q \in Readers, BenchStep(q), UNCHANGED devVars
  PROVE  \A r \in Readers : BenchInv(r)'
<1> USE DEF devVars
<1>0. Types /\ kind[q] = "bench" /\ BenchInv(q) /\ size[q] \in Nat /\ DOMAIN got = Readers
      /\ rpc \in [Readers -> {"start", "open", "header", "body", "ram", "state", "read",
                          "alloc", "ioctl", "mmap", "load", "parse", "run", "mmapped", "filled",
                          "rejected", "killed", "done"}]
  BY DEF CacheInv, Core, BenchStep, Types, FileTypeOK
<1>1. \E v : Moved(q, v)
  BY <1>0, BenchStepMoves
<1>2. ASSUME NEW r \in Readers, r # q PROVE BenchInv(r)'
  <2>1. rpc'[r] = rpc[r] /\ size'[r] = size[r] /\ got'[r] = got[r] /\ kind' = kind
    BY <1>0, <1>1, <1>2 DEF Moved
  <2> QED
    BY <2>1, BenchFrame
<1>3. BenchInv(q)'
  <2>1. CASE BenchStat(q)
    <3>1. rpc[q] = "start" /\ rpc'[q] = "alloc" /\ got' = got
      BY <1>0, <2>1 DEF BenchStat
    <3>2. DOMAIN got'[q] = {}
      BY <1>0, <3>1 DEF BenchInv
    <3> QED
      BY <3>1, <3>2 DEF BenchInv
  <2>2. CASE BenchLoad(q)
    <3>1. /\ rpc[q] = "load" /\ rpc'[q] \in {"parse", "rejected"} /\ size' = size
          /\ got' = got \/ DOMAIN got'[q] = 1..size[q]
      BY <1>0, <2>2 DEF BenchLoad, Reject
    <3> QED
      BY <1>0, <3>1 DEF BenchInv
  <2>3. CASE BenchParse(q)
    <3>1. rpc[q] = "parse" /\ rpc'[q] \in {"run", "rejected"} /\ UNCHANGED <<size, got>>
      BY <1>0, <2>3, SMTT(60), Z3T(60) DEF BenchParse, Reject
    <3> QED
      BY <1>0, <3>1 DEF BenchInv
  <2>4. CASE BenchFileMmap(q)
    <3>1. rpc[q] = "run" /\ Touch(q, 1, size[q], "mmapped") /\ UNCHANGED size
      BY <2>4 DEF BenchFileMmap
    <3>2. /\ rpc'[q] \in {"mmapped", "killed"}
          /\ got' = got \/ DOMAIN got'[q] = DOMAIN got[q] \cup (1..size[q])
      <4>1. 1 \in Nat /\ size[q] \in Nat /\ DOMAIN rpc = Readers /\ Types /\ q \in Readers
        BY <1>0 DEF CacheInv, Core, Types, FileTypeOK
      <4>2. \/ rpc' = [rpc EXCEPT ![q] = "killed"] /\ got' = got
            \/ /\ rpc' = [rpc EXCEPT ![q] = "mmapped"]
               /\ DOMAIN got'[q] = DOMAIN got[q] \cup (1..size[q])
        <5>1. Touched(q, 1, size[q], "mmapped")
          BY <3>1, <4>1, TouchEffect, Zenon
        <5> QED
          BY <5>1, Zenon DEF Touched
      <4> QED
        BY <4>1, <4>2, Zenon
    <3> QED
      BY <1>0, <3>1, <3>2 DEF BenchInv
  <2>5. CASE BenchFileRead(q)
    <3>1. /\ rpc[q] = "mmapped" /\ rpc'[q] \in {"filled", "rejected"} /\ size' = size
          /\ got' = got \/ DOMAIN got'[q] = 1..size[q]
      BY <1>0, <2>5 DEF BenchFileRead, Reject
    <3> QED
      BY <1>0, <3>1 DEF BenchInv
  <2> QED
    BY <2>1, <2>2, <2>3, <2>4, <2>5 DEF BenchStep
<1> QED
  BY <1>2, <1>3, SMTT(60), Z3T(60)

\* What v asks of the benchmark's own open file.
Ready(q, v) ==
  /\ v \in {"ioctl", "mmap", "load"} => q \in opened /\ q \notin closed
  /\ v \in {"mmap", "load"} => buf[q] # NoBuf /\ len[q] % Page = 0 /\ len[q] >= size[q]
  /\ v = "load" => [file |-> q, area |-> buf[q], len |-> len[q]] \in maps

\* The others' open files are left alone.
OnlyOwn(q) ==
  /\ \A r \in Files \ {q} : buf'[r] = buf[r] /\ len'[r] = len[r]
  /\ opened \subseteq opened' /\ closed' \subseteq closed \cup {q}
  /\ \A m \in maps : m.file # q => m \in maps'

\* A benchmark moves on to v with its cells as they were.
LEMMA DeviceMove ==
  ASSUME CacheInv, NEW q \in Benches, NEW v, GoTo(q, v), OnlyOwn(q), Ready(q, v)',
         v \in {"ioctl", "mmap", "load", "rejected", "done"}
  PROVE  \A r \in Readers : BenchInv(r)'
<1>1. q \in Readers /\ Readers \subseteq Files /\ BenchInv(q) /\ kind[q] = "bench" /\ q \in DOMAIN rpc
  BY CacheAssumption DEF Benches, CacheInv, Core, Types, FileTypeOK
<1>2. /\ kind' = kind /\ size' = size /\ got' = got /\ rpc'[q] = v
      /\ \A r \in Readers \ {q} : rpc'[r] = rpc[r]
  BY <1>1, SMTT(60), Z3T(60) DEF GoTo
<1>3. DOMAIN got[q] \subseteq 1..size[q]
  BY <1>1 DEF BenchInv
<1>4. BenchInv(q)'
  BY <1>2, <1>3 DEF BenchInv, Ready
<1>5. ASSUME NEW r \in Readers, r # q PROVE BenchInv(r)'
  <2>1. /\ kind'[r] = kind[r] /\ rpc'[r] = rpc[r] /\ size'[r] = size[r] /\ got'[r] = got[r]
        /\ buf'[r] = buf[r] /\ len'[r] = len[r] /\ opened \subseteq opened'
        /\ r \in closed' => r \in closed
        /\ \A m \in maps : m.file = r => m \in maps'
    BY <1>1, <1>2, <1>5 DEF OnlyOwn
  <2> QED
    BY ZenonT(60), <2>1, BenchFrame
<1> QED
  BY <1>4, <1>5

\* A benchmark opens, allocates, maps and leaves.
LEMMA BenchDeviceCache ==
  ASSUME CacheInv, NEW q \in Benches, DeviceStep(q)
  PROVE  DevInv' /\ \A r \in Readers : BenchInv(r)'
<1>1. DevInv /\ q \in Files /\ q \in Readers /\ kind[q] = "bench" /\ BenchInv(q)
      /\ size[q] \in Nat /\ size[q] \in Sizes
  BY CacheAssumption DEF Benches, CacheInv, SizeInv, Core, Types, FileTypeOK
<1>2. closed \subseteq opened /\ buf \in [Files -> Bufs \cup {NoBuf}]
      /\ len \in [Files -> Sizes] /\ len[q] \in Sizes /\ len[q] \in Nat
  BY <1>1 DEF DevInv, DevTypeOK, Sizes
<1>3. CASE BenchOpen(q)
  <2>1. Open(q) /\ GoTo(q, "ioctl")
    BY <1>3 DEF BenchOpen
  <2>2. OnlyOwn(q)
    BY <2>1 DEF Open, OnlyOwn
  <2>3. Ready(q, "ioctl")'
    BY <1>2, <2>1 DEF Open, Ready
  <2> QED
    BY <1>1, <2>1, <2>2, <2>3, OpenStep, DeviceMove
<1>4. CASE BenchAlloc(q)
  <2>1. CASE GoTo(q, "rejected") /\ UNCHANGED devVars
    <3>1. OnlyOwn(q) /\ Ready(q, "rejected")'
      BY <2>1 DEF devVars, OnlyOwn, Ready
    <3> QED
      BY <1>1, <2>1, <3>1, DevStutter, DeviceMove
  <2>2. CASE Alloc(q, size[q]) /\ GoTo(q, IF buf'[q] = NoBuf THEN "rejected" ELSE "mmap")
    <3> DEFINE s == PAGE_ALIGN(size[q])
    <3>1. DevInv'
      BY <1>1, <2>2, AllocStep, SMTT(60), Z3T(60)
    <3>2. /\ q \in opened /\ q \notin closed /\ UNCHANGED <<opened, closed, maps>> /\ s # 0
          /\ \A r \in Files \ {q} : buf'[r] = buf[r] /\ len'[r] = len[r]
          /\ buf'[q] = NoBuf \/ len'[q] = s
      BY <1>1, <1>2, <2>2, SMTT(60), Z3T(60) DEF Alloc, Forget
    <3>3. OnlyOwn(q)
      BY <3>2 DEF OnlyOwn
    <3>4. CASE buf'[q] = NoBuf
      <4>1. GoTo(q, "rejected") /\ Ready(q, "rejected")'
        BY <2>2, <3>4 DEF Ready
      <4> QED
        BY <3>1, <3>3, <4>1, DeviceMove
    <3>5. CASE buf'[q] # NoBuf
      <4>1. s % Page = 0 /\ s >= size[q]
        BY <1>1, <3>2, AlignUp
      <4>2. GoTo(q, "mmap") /\ size' = size
        BY <2>2, <3>5 DEF GoTo
      <4>3. Ready(q, "mmap")'
        BY <3>2, <3>5, <4>1, <4>2, SMTT(60), Z3T(60) DEF Ready
      <4> QED
        BY <3>1, <3>3, <4>2, <4>3, DeviceMove, SMTT(60), Z3T(60)
    <3> QED
      BY <3>4, <3>5
  <2> QED
    BY <1>4, <2>1, <2>2, SMTT(60), Z3T(60) DEF BenchAlloc
<1>5. CASE BenchMmap(q)
  <2>1. rpc[q] = "mmap" /\ Mmap(q, len[q]) /\ GoTo(q, "load")
    BY <1>5, SMTT(60), Z3T(60) DEF BenchMmap
  <2>2. buf[q] # NoBuf /\ len[q] % Page = 0 /\ len[q] >= size[q] /\ q \in opened /\ q \notin closed
    BY <1>1, <2>1 DEF BenchInv
  <2>3. PAGE_ALIGN(len[q]) = len[q]
    BY <1>2, <2>2, AlignFixed, SMTT(60), Z3T(60)
  <2>4. /\ maps' = maps \cup {[file |-> q, area |-> buf[q], len |-> len[q]]}
        /\ UNCHANGED <<opened, closed, buf, len, area>> /\ size' = size
    BY <2>1, <2>3, SMTT(60), Z3T(60) DEF Mmap, GoTo
  <2>5. OnlyOwn(q)
    BY <2>4 DEF OnlyOwn
  <2>6. Ready(q, "load")'
    BY <2>2, <2>4 DEF Ready
  <2>7. DevInv'
    BY <1>1, <1>2, <2>1, MmapStep
  <2> QED
    BY <2>1, <2>5, <2>6, <2>7, DeviceMove, SMTT(60), Z3T(60)
<1>6. CASE BenchExit(q)
  <2>1. /\ maps' = {m \in maps : m.file # q} /\ closed' = closed \cup {q} /\ q \in opened
        /\ UNCHANGED <<opened, buf, len, area>> /\ GoTo(q, "done")
    BY <1>6, SMTT(60), Z3T(60) DEF BenchExit
  <2>2. DevInv'
    BY <1>1, <2>1, SMTT(60), Z3T(60) DEF DevInv, DevTypeOK, BufferLive, BufferOwned, MapWithinBuffer
  <2>3. OnlyOwn(q) /\ Ready(q, "done")'
    BY <2>1 DEF OnlyOwn, Ready
  <2> QED
    BY <2>1, <2>2, <2>3, DeviceMove
<1> QED
  BY <1>3, <1>4, <1>5, <1>6 DEF DeviceStep

\* Another holder of the device does something, or the kernel releases a file.
LEMMA ClientCache ==
  ASSUME CacheInv, ClientNext, UNCHANGED fileVars
  PROVE  DevInv' /\ \A r \in Readers : BenchInv(r)'
<1>0. DevInv /\ closed \subseteq opened /\ buf \in [Files -> Bufs \cup {NoBuf}] /\ len \in [Files -> Sizes]
      /\ Clients \subseteq Files /\ \A r \in Readers : r \notin Clients /\ r \in Files
  BY CacheAssumption DEF CacheInv, DevInv, DevTypeOK
<1>1. /\ UNCHANGED <<kind, rpc, size, got>>
      /\ \A n \in Sizes : n \in Nat
  BY DeviceAssumption DEF fileVars, Sizes
<1>2. ASSUME NEW f \in Clients, Open(f) PROVE DevInv' /\ \A r \in Readers : BenchInv(r)'
  BY <1>0, <1>1, <1>2, OpenStep, BenchFrame, SMTT(60), Z3T(60) DEF Open
<1>3. ASSUME NEW f \in Clients, Close(f) PROVE DevInv' /\ \A r \in Readers : BenchInv(r)'
  BY <1>0, <1>1, <1>3, CloseStep, BenchFrame DEF Close
<1>4. ASSUME NEW f \in Clients, NEW n \in Sizes, Alloc(f, n)
      PROVE  DevInv' /\ \A r \in Readers : BenchInv(r)'
  <2>1. DevInv'
    BY <1>0, <1>1, <1>4, AllocStep, SMTT(60), Z3T(60)
  <2>2. ASSUME NEW r \in Readers PROVE BenchInv(r)'
    <3>1. buf'[r] = buf[r] /\ len'[r] = len[r] /\ UNCHANGED <<opened, closed, maps>>
      BY <1>0, <1>4 DEF Alloc, Forget
    <3> QED
      BY <1>1, <3>1, BenchFrame
  <2> QED
    BY <2>1, <2>2
<1>5. ASSUME NEW f \in Clients, NEW n \in Sizes, Mmap(f, n)
      PROVE  DevInv' /\ \A r \in Readers : BenchInv(r)'
  <2>1. DevInv'
    BY <1>0, <1>1, <1>5, MmapStep
  <2>2. maps \subseteq maps' /\ UNCHANGED <<opened, closed, buf, len>>
    BY <1>5 DEF Mmap
  <2> QED
    BY <1>1, <2>1, <2>2, BenchFrame
<1>6. ASSUME NEW m \in maps, m.file \in Clients, Munmap(m)
      PROVE  DevInv' /\ \A r \in Readers : BenchInv(r)'
  <2>1. maps' = maps \ {m} /\ UNCHANGED <<opened, closed, buf, len, area>>
    BY <1>6 DEF Munmap
  <2>2. DevInv'
    BY <1>0, <2>1, UnmapStep
  <2>3. \A r \in Readers : \A k \in maps : k.file = r => k \in maps'
    BY <1>0, <1>6, <2>1
  <2> QED
    BY <1>1, <2>1, <2>2, <2>3, BenchFrame
<1>7. ASSUME NEW f \in Files, Release(f) PROVE DevInv' /\ \A r \in Readers : BenchInv(r)'
  <2>1. DevInv'
    BY <1>0, <1>7, ReleaseStep
  <2>2. /\ f \in closed /\ opened' = opened \ {f} /\ closed' = closed \ {f} /\ maps' = maps
        /\ \A g \in Files \ {f} : buf'[g] = buf[g] /\ len'[g] = len[g]
    BY <1>0, <1>7 DEF Release, Forget
  <2>3. ASSUME NEW r \in Readers PROVE BenchInv(r)'
    <3>1. CASE r = f
      BY ZenonT(60), <1>1, <2>2, <3>1 DEF CacheInv, BenchInv
    <3>2. CASE r # f
      BY <1>0, <1>1, <2>2, <3>2 DEF CacheInv, BenchInv
    <3> QED
      BY <3>1, <3>2
  <2> QED
    BY <2>1, <2>3
<1> QED
  BY <1>2, <1>3, <1>4, <1>5, <1>6, <1>7, SMTT(60), Z3T(60) DEF ClientNext

LEMMA CacheStep == ASSUME CacheInv, [Next]_vars PROVE CacheInv'
<1>1. Core' /\ SizeInv' /\ DevInv
  BY NextIsFileAct, CoreStep, SizeInvStep DEF CacheInv
<1>2. UNCHANGED devVars => DevInv'
  BY <1>1, DevStutter, SMTT(60), Z3T(60)
<1>3. CASE UNCHANGED vars
  BY <1>1, <1>2, <1>3 DEF vars, fileVars, devVars, CacheInv, BenchInv
<1> QED
  BY <1>1, <1>2, <1>3, NextCases, FileCache, BenchFileCache, BenchDeviceCache, ClientCache
     DEF CacheInv

THEOREM CacheInvariant == Spec => []CacheInv
<1>1. Init => CacheInv
  BY InitCache
<1>2. CacheInv /\ [Next]_vars => CacheInv'
  BY CacheStep
<1> QED
  BY <1>1, <1>2, PTL DEF Spec

\* The types of the file and of the device hold in every reachable state.
THEOREM CacheTypes == Spec => []TypeOK
<1>1. CacheInv => TypeOK
  BY DEF CacheInv, Core, Types, DevInv, TypeOK
<1> QED
  BY <1>1, CacheInvariant, PTL

\* ctx->buf is live and exactly ctx->size bytes long, whatever the order of
\* ALLOC, mmap(), munmap(), close() and the kernel's release().
THEOREM BuffersLive == Spec => []BufferLive
<1>1. CacheInv => BufferLive
  BY DEF CacheInv, DevInv
<1> QED
  BY <1>1, CacheInvariant, PTL

\* No two open files share a buffer and no buffer is leaked.
THEOREM BuffersOwned == Spec => []BufferOwned
<1>1. CacheInv => BufferOwned
  BY DEF CacheInv, DevInv
<1> QED
  BY <1>1, CacheInvariant, PTL

\* A mapping of the device never reaches past its buffer or into another's.
THEOREM MapsWithin == Spec => []MapWithinBuffer
<1>1. CacheInv => MapWithinBuffer
  BY SMTT(60), Z3T(60) DEF CacheInv, DevInv
<1> QED
  BY <1>1, CacheInvariant, PTL

\* The benchmark parses and restores from a live, private, fully mapped buffer.
THEOREM BenchBuffer == Spec => []BenchHoldsBuffer
<1>1. CacheInv => BenchHoldsBuffer
  <2> SUFFICES ASSUME CacheInv, NEW r \in Benches, rpc[r] \in {"load", "parse"} \/ Uses(r)
               PROVE  \E m \in maps : /\ m.file = r /\ m.area = buf[r]
                                      /\ area[m.area] = m.len
                                      /\ m.len >= size[r]
                                      /\ DOMAIN got[r] \subseteq 1..m.len
    BY DEF BenchHoldsBuffer
  <2> DEFINE m == [file |-> r, area |-> buf[r], len |-> len[r]]
  <2>1. r \in Readers /\ r \in Files /\ kind[r] = "bench" /\ BenchInv(r)
        /\ rpc[r] \in {"load", "parse", "run", "mmapped", "filled"}
    BY CacheAssumption DEF Benches, CacheInv, Uses
  <2>2. /\ m \in maps /\ buf[r] # NoBuf /\ len[r] >= size[r]
        /\ DOMAIN got[r] \subseteq 1..size[r]
    BY <2>1, SMTT(60), Z3T(60) DEF BenchInv
  <2>3. area[buf[r]] = len[r] /\ len[r] \in Nat /\ size[r] \in Nat
    <3>1. DevInv /\ size[r] \in Nat
      BY <2>1 DEF CacheInv, Core, Types, FileTypeOK
    <3> QED
      BY <2>1, <2>2, <3>1, SMTT(60), Z3T(60) DEF DevInv, DevTypeOK, BufferLive, Sizes
  <2>4. DOMAIN got[r] \subseteq 1..len[r]
    BY <2>2, <2>3
  <2> QED
    BY <2>2, <2>3, <2>4
<1> QED
  BY <1>1, CacheInvariant, PTL

-----------------------------------------------------------------------------
(* The file, in every behaviour of the composition.                        *)

\* Every VM and every pass of the benchmark that runs holds exactly what one boot
\* saved, unless a boot truncated the file it was reading: the length checks of
\* restore_snapshot_file() and parse_snapshot() are enough for any number of
\* boots that fail, are killed or lose writes.  A clone, which has no such check,
\* is included when its file was complete at open.
THEOREM RunsComplete == Spec => []RunsCompleteSnapshot
<1>1. Init => FileInv
  BY InitFileInv DEF Init
<1>2. FileInv /\ [Next]_vars => FileInv'
  BY NextIsFileAct, FileInvStep
<1>3. FileInv => RunsCompleteSnapshot
  BY RunsFacts
<1> QED
  BY <1>1, <1>2, <1>3, PTL DEF Spec
=============================================================================
