---------------------------- MODULE MCMapRenderer ----------------------------
(* Instances of MapRenderer for TLC. *)
EXTENDS MapRenderer

CONSTANTS l1, l2, t1

OneLayer == {l1}
TwoLayers == {l1, l2}
OneThread == {t1}
Twice == {<<l1, l1, l2>>}
=============================================================================
