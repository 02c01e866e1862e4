----------------------------- MODULE LazyMemory -----------------------------
(***************************************************************************)
(* What a demand-paged restore promises the guest: the RAM of the snapshot *)
(* (GuestMemory), except for what virtiofsd costs it.  virtiofsd accesses  *)
(* the memory behind userfaultfd's back, so a page may be lost, that is    *)
(* read as zeroes from then on, but only once, only before the restore has *)
(* given the page its content, only while a part of it is lent to          *)
(* virtiofsd, never a page of the rings and never with --midway-uffd.      *)
(***************************************************************************)
CONSTANTS Pages, Cells, Rings, Data, Zero

VARIABLES image,    \* the snapshot's RAM
          mode,     \* "uffd" or "midway"
          live,     \* the vCPU has been resumed
          view,     \* guest-visible content of every word <<page, w>>
          backed,   \* the pages that have their memory
          lent,     \* the words virtiofsd may access
          seen      \* the word this step read and the value, or NoRead

vars == <<image, mode, live, view, backed, lent, seen>>

NoRead == <<>>

Init == /\ image \in [Cells -> Data]
        /\ mode \in {"uffd", "midway"}
        /\ live = FALSE
        /\ view = image
        /\ backed = {} /\ lent = {}
        /\ seen = NoRead

\* Pages may get their memory; nobody can tell.
Populate == /\ backed \subseteq backed' /\ backed' \subseteq Pages
            /\ live => live'
            /\ seen' = NoRead
            /\ UNCHANGED <<image, mode, view, lent>>

Lend == /\ live
        /\ lent' \subseteq Cells
        /\ seen' = NoRead
        /\ UNCHANGED <<image, mode, live, view, backed>>

\* A read, by virtiofsd if the word is lent: it gives the word back.
Read(c) == /\ live /\ c[1] \in backed
           /\ seen' = <<c, view[c]>>
           /\ lent' = lent \ {c}
           /\ UNCHANGED <<image, mode, live, view, backed>>

Write(c, v) == /\ live /\ c[1] \in backed
               /\ view' = [view EXCEPT ![c] = v]
               /\ lent' = lent \ {c}
               /\ seen' = NoRead
               /\ UNCHANGED <<image, mode, live, backed>>

Lose(p) == /\ live /\ mode = "uffd"
           /\ p \notin backed \cup Rings
           /\ \E c \in lent : c[1] = p
           /\ backed' = backed \cup {p}
           /\ view' = [c \in Cells |-> IF c[1] = p THEN Zero ELSE view[c]]
           /\ seen' = NoRead
           /\ UNCHANGED <<image, mode, live, lent>>

Next == \/ Populate \/ Lend
        \/ \E c \in Cells : Read(c) \/ \E v \in Data : Write(c, v)
        \/ \E p \in Pages : Lose(p)

Spec == Init /\ [][Next]_vars
=============================================================================
