----------------------------- MODULE MCRunLoop -----------------------------
(***************************************************************************)
(* The run loop on a small instance; the configurations give the values.   *)
(***************************************************************************)
EXTENDS RunLoop, TLC
=============================================================================
