---------------------------- MODULE MCVectorLayer ----------------------------
(* Instances of VectorLayer for TLC. *)
EXTENDS VectorLayer

CONSTANTS e1, t1, t2, w1, w2

OneElement == {e1}
TwoThreads == {t1, t2}
TwoWorkers == {w1, w2}
TwoSurfaces == {"planar", "spherical"}
TurnAndLeave == {[seen |-> {e1}, surface |-> "planar"], [seen |-> {}, surface |-> "spherical"]}
=============================================================================
