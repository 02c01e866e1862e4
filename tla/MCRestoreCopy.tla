--------------------------- MODULE MCRestoreCopy ---------------------------
(* RestoreCopy with a last chunk that is not full and a free choice of     *)
(* which pages are dirty.                                                  *)
EXTENDS RestoreCopy
=============================================================================
