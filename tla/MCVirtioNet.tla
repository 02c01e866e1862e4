---------------------------- MODULE MCVirtioNet ----------------------------
(* VirtioNet with two TX entries and one RX entry and indices that wrap at *)
(* four, so that a few frames take every index past the wrap.              *)
EXTENDS VirtioNet, TLC

RingSizes == "tx" :> 2 @@ "rx" :> 1

\* The interrupt path needs no more than one entry per ring.
OneEntry == "tx" :> 1 @@ "rx" :> 1
=============================================================================
