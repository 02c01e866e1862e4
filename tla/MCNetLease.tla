----------------------------- MODULE MCNetLease -----------------------------
(* NetLease with more sandboxes than the pools have room for.              *)
EXTENDS NetLease, TLC

Symmetry == Permutations(Sandboxes) \cup Permutations(IPs)
=============================================================================
