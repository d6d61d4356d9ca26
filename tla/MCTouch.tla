------------------------------- MODULE MCTouch -------------------------------
(* Instances of TouchHandler for TLC. *)
EXTENDS TouchHandler

Default == [type |-> TRUE, double |-> TRUE, zoom |-> FALSE, input |-> TRUE, kinetic |-> TRUE]

DefaultOptions == {Default}
OptionsToTry == {[Default EXCEPT !.zoom = TRUE],
                 [Default EXCEPT !.type = FALSE, !.kinetic = FALSE]}
=============================================================================
