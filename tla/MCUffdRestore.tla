--------------------------- MODULE MCUffdRestore ---------------------------
(* UffdRestore with a ring page and a page of two words: both actors can   *)
(* fault on one page at once, and virtiofsd can store to one word of a     *)
(* page nobody has touched while the other word is the guest's.            *)
EXTENDS UffdRestore

CONSTANTS r, p
MCPages == {r, p}
MCCells == {<<r, 1>>, <<p, 1>>, <<p, 2>>}
=============================================================================
