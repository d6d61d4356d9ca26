----------------------------- MODULE MCTileLayer -----------------------------
(* Instances of TileLayer for TLC: one tile that is visible, preloaded and *)
(* visible again, or a map that is zoomed in and out between a tile and    *)
(* its parent.                                                             *)
EXTENDS TileLayer

CONSTANTS a, b, p

OneTile == {a}
NoParent == [t \in {} |-> a]
InAndOut == {[visible |-> {a}, preloading |-> {}], [visible |-> {}, preloading |-> {a}]}

TwoZooms == {a, b, p}
ParentOfOne == [t \in {b} |-> p]
Zooming == {[visible |-> {b}, preloading |-> {}], [visible |-> {p}, preloading |-> {}]}
BothScenes == InAndOut \cup Zooming

TwoSlots == 1 .. 2

(* A behaviour is of one scene; there are fewer events when it zooms. Only *)
(* events are restrained, of which there need not be any.                  *)
SameScene == IF view \in InAndOut THEN view' \in InAndOut
             ELSE view' \in Zooming /\ (events' # events => events' < MaxEvents)
=============================================================================
