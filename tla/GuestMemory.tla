---------------------------- MODULE GuestMemory ----------------------------
(***************************************************************************)
(* What a restore promises the guest, whichever way the pages arrive       *)
(* (Vmm::restore_snapshot): the guest resumes on the RAM the snapshot      *)
(* holds, and from then on memory changes only when somebody writes it.    *)
(* view[p] is the content of page p as the guest would read it now.        *)
(***************************************************************************)
CONSTANTS Pages, Data

VARIABLES image,    \* the snapshot's RAM
          live,     \* the vCPU has been resumed
          view,     \* guest-visible content of every page
          seen      \* the last read: the page and the value it returned

vars == <<image, live, view, seen>>

NoRead == <<>>

Init == /\ image \in [Pages -> Data]
        /\ live = FALSE
        /\ view = image
        /\ seen = NoRead

Resume == /\ ~live
          /\ live' = TRUE
          /\ UNCHANGED <<image, view, seen>>

Read(p) == /\ live
           /\ seen' = <<p, view[p]>>
           /\ UNCHANGED <<image, live, view>>

Write(p, v) == /\ live
               /\ view' = [view EXCEPT ![p] = v]
               /\ UNCHANGED <<image, live, seen>>

Next == \/ Resume
        \/ \E p \in Pages : Read(p) \/ \E v \in Data : Write(p, v)

Spec == Init /\ [][Next]_vars
=============================================================================
