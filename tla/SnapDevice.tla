----------------------------- MODULE SnapDevice -----------------------------
(***************************************************************************)
(* /dev/vmtainer_snap: every open file owns at most one vmalloc'ed buffer, *)
(* which its holder (re)allocates, asks the size of and maps.  Each        *)
(* operation runs under the mutex of the open file, so it is one step.     *)
(***************************************************************************)
EXTENDS Integers

CONSTANTS Files,    \* open files (struct file) of the device
          Bufs,     \* vmalloc areas
          NoBuf,    \* ctx->buf == NULL
          Page,     \* PAGE_SIZE
          Word      \* 2^64, the range of an unsigned long

ASSUME DeviceAssumption ==
  /\ NoBuf \notin Bufs
  /\ Page \in Nat \ {0}
  /\ Word \in Nat \ {0} /\ Word % Page = 0

VARIABLES opened,   \* open files whose ctx exists
          closed,   \* those the user has closed; a mapping keeps them alive
          buf,      \* buf[f]: ctx->buf
          len,      \* len[f]: ctx->size
          area,     \* area[b]: size of a live vmalloc area, 0 once vfree'd
          maps      \* the user mappings: the open file, the area, the length

devVars == <<opened, closed, buf, len, area, maps>>

Sizes == 0..(Word - 1)

\* Mutant: the size is rounded down.
PageDown(n) == (n \div Page) * Page

\* PAGE_ALIGN of an unsigned long, which wraps.
PAGE_ALIGN(n) == (((n + Page - 1) \div Page) * Page) % Word

DevInit ==
  /\ opened = {}
  /\ closed = {}
  /\ buf = [f \in Files |-> NoBuf]
  /\ len = [f \in Files |-> 0]
  /\ area = [b \in Bufs |-> 0]
  /\ maps = {}

\* vmtainer_snap_open(): a zeroed ctx.
Open(f) ==
  /\ f \notin opened
  /\ opened' = opened \cup {f}
  /\ UNCHANGED <<closed, buf, len, area, maps>>

\* Mutant: nothing is freed.
VfreeLeaks(a, b) == a

\* The areas after vfree(b).
Vfree(a, b) == IF b = NoBuf THEN a ELSE [a EXCEPT ![b] = 0]

\* The ctx has no buffer any more.
Forget(f) == buf' = [buf EXCEPT ![f] = NoBuf] /\ len' = [len EXCEPT ![f] = 0]

\* VMTAINER_SNAP_ALLOC: the old buffer goes first, so a failing allocation
\* leaves the file without one.
Alloc(f, req) ==
  /\ f \in opened \ closed
  /\ req # 0 /\ PAGE_ALIGN(req) # 0
  /\ LET freed == Vfree(area, buf[f]) IN
     \/ \E b \in Bufs :
          /\ freed[b] = 0
          /\ \A m \in maps : m.area # b
          /\ area' = [freed EXCEPT ![b] = PAGE_ALIGN(req)]
          /\ buf' = [buf EXCEPT ![f] = b]
          /\ len' = [len EXCEPT ![f] = PAGE_ALIGN(req)]
     \/ area' = freed /\ Forget(f)
  /\ UNCHANGED <<opened, closed, maps>>

\* Mutant: the length is not checked.
FitsAny(f, wanted) == wanted > 0

\* The length of a mapping is within the buffer.
FitsBuffer(f, wanted) == wanted > 0 /\ wanted <= len[f]

\* mmap() of n bytes from offset 0, in whole pages; remap_vmalloc_range() maps
\* the pages themselves.
Mmap(f, n) ==
  /\ f \in opened \ closed
  /\ buf[f] # NoBuf
  /\ LET wanted == PAGE_ALIGN(n) IN
     /\ FitsBuffer(f, wanted)
     /\ maps' = maps \cup {[file |-> f, area |-> buf[f], len |-> wanted]}
  /\ UNCHANGED <<opened, closed, buf, len, area>>

Munmap(m) ==
  /\ m \in maps
  /\ maps' = maps \ {m}
  /\ UNCHANGED <<opened, closed, buf, len, area>>

\* close(): the last descriptor goes, the mappings keep the open file.
Close(f) ==
  /\ f \in opened \ closed
  /\ closed' = closed \cup {f}
  /\ UNCHANGED <<opened, buf, len, area, maps>>

\* vmtainer_snap_release(), once neither a descriptor nor a mapping refers to
\* the open file.
Release(f) ==
  /\ f \in closed
  /\ \A m \in maps : m.file # f
  /\ area' = Vfree(area, buf[f])
  /\ Forget(f)
  /\ opened' = opened \ {f}
  /\ closed' = closed \ {f}
  /\ UNCHANGED maps

DevNext ==
  \/ \E f \in Files : Open(f) \/ Close(f) \/ Release(f)
  \/ \E f \in Files, n \in Sizes : Alloc(f, n) \/ Mmap(f, n)
  \/ \E m \in maps : Munmap(m)

DevSpec == DevInit /\ [][DevNext]_devVars

-----------------------------------------------------------------------------

\* The variables have the types the code gives them.
DevTypeOK ==
  /\ opened \subseteq Files /\ closed \subseteq opened
  /\ buf \in [Files -> Bufs \cup {NoBuf}]
  /\ len \in [Files -> Sizes]
  /\ area \in [Bufs -> Sizes]
  /\ maps \subseteq [file : Files, area : Bufs, len : Sizes]

\* Every ctx->buf is a live area of exactly ctx->size bytes, a file without a
\* buffer has size 0, and only open files have one: nothing is freed twice,
\* nothing is used after it was freed.
BufferLive ==
  \A f \in Files :
    /\ buf[f] # NoBuf => f \in opened /\ area[buf[f]] = len[f] /\ len[f] > 0
    /\ buf[f] = NoBuf => len[f] = 0

\* "Every open() gets its own allocation": no two files share an area, and an
\* area that is live belongs to a file, so none is leaked by a failing ALLOC
\* or by the order of close() and munmap().
BufferOwned ==
  /\ \A f, g \in Files : buf[f] = buf[g] /\ buf[f] # NoBuf => f = g
  /\ \A b \in Bufs : area[b] # 0 => \E f \in Files : buf[f] = b

\* A mapping never reaches past the area it maps while that area is live, and
\* never shows an area another file owns now.
MapWithinBuffer ==
  \A m \in maps :
    /\ m.file \in opened
    /\ area[m.area] # 0 => buf[m.file] = m.area /\ m.len <= len[m.file]
=============================================================================
