------------------------------ MODULE TaskPool ------------------------------
(***************************************************************************)
(* What a pool of cancelable tasks promises the layers that use it, with   *)
(* no threads in sight: a submitted task is started at most once, the best *)
(* pending task (highest priority, then first submitted) is started first, *)
(* a pending task may be discarded instead, a discarded one never starts,  *)
(* and no task stays pending for ever.                                     *)
(***************************************************************************)
EXTENDS Integers

CONSTANTS Tasks,        (* the tasks, numbered in the order they come      *)
          Priorities    (* the priorities they may be submitted with       *)

VARIABLES pending,      (* submitted, neither started nor discarded        *)
          started,      (* handed to a worker                              *)
          finished,     (* the worker is done with it                      *)
          discarded,    (* canceled before it started                      *)
          priority      (* priority of every submitted task                *)

vars == <<pending, started, finished, discarded, priority>>

Submitted == pending \cup started \cup discarded

(* a is to be started before b. *)
Better(a, b) ==
    \/ priority[a] > priority[b]
    \/ priority[a] = priority[b] /\ a < b

Init ==
    pending = {} /\ started = {} /\ finished = {} /\ discarded = {}

Submit(t, p) ==
    /\ \A u \in Submitted : u < t
    /\ pending' = pending \cup {t}
    /\ priority' = [priority EXCEPT ![t] = p]
    /\ UNCHANGED <<started, finished, discarded>>

Start(t) ==
    /\ t \in pending
    /\ \A u \in pending \ {t} : Better(t, u)
    /\ pending' = pending \ {t}
    /\ started' = started \cup {t}
    /\ UNCHANGED <<finished, discarded, priority>>

Finish(t) ==
    /\ t \in started \ finished
    /\ finished' = finished \cup {t}
    /\ UNCHANGED <<pending, started, discarded, priority>>

DiscardAll ==
    /\ discarded' = discarded \cup pending
    /\ pending' = {}
    /\ UNCHANGED <<started, finished, priority>>

Next ==
    \/ \E t \in Tasks : \/ \E p \in Priorities : Submit(t, p)
                        \/ Start(t)
                        \/ Finish(t)
    \/ DiscardAll

(* No task is left pending for ever, and no started one unfinished.  *)
Served == \A t \in Tasks : (t \in pending \cup started) ~> (t \in finished \cup discarded)

SafeSpec == Init /\ [][Next]_vars

Spec == SafeSpec /\ Served
=============================================================================
