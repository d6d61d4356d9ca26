-------------------------- MODULE ClickHandlerWorker --------------------------
(***************************************************************************)
(* ui/workers/ClickHandlerWorker.cpp: a thread of low priority that, from  *)
(* the first pointer down on, watches what the pointers do until the kind  *)
(* of the click is chosen, and then tells the touch handler.  Every        *)
(* operation works under the mutex of the worker; the touch handler is     *)
(* called without it.                                                      *)
(*                                                                         *)
(* Abstracted: positions (a pointer has or has not moved further than the  *)
(* tolerance, comes down near the former position or not) and durations    *)
(* (only whether the duration of a long click has passed since _startTime; *)
(* the other limits may be reached at any time).                           *)
(***************************************************************************)
EXTENDS Integers

VARIABLES
    options,    (* [type, double: click detection, zoom: zoom gestures,    *)
                (*  input: user input, kinetic: kinetic movement]          *)
    running,    (* _running                                                *)
    mode,       (* _clickMode                                              *)
    elapsed,    (* the duration of a long click has passed; looked at only *)
                (* while running, and FALSE otherwise                      *)
    down,       (* _pointersDown of the worker                             *)
    chosen,     (* _chosen                                                 *)
    canceled,   (* _canceled                                               *)
    stop,       (* _stop                                                   *)
    pc,         (* where run is                                            *)
    doing       (* the local clickMode, then what to call                  *)

choiceVars == <<running, mode, down, chosen, canceled>>
workerVars == <<options, choiceVars, elapsed, stop, pc, doing>>

Options == [type: BOOLEAN, double: BOOLEAN, zoom: BOOLEAN, input: BOOLEAN, kinetic: BOOLEAN]
Modes == {"none", "long", "double", "dual"}
Calls == {"nothing", "startSinglePointer", "startDualPointer", "longClick", "shortClick", "click",
          "doubleClick", "dualClick"}

InitWorker ==
    /\ options \in Options
    /\ running = FALSE /\ mode = "none" /\ elapsed = FALSE /\ down = 0
    /\ chosen = FALSE /\ canceled = FALSE /\ stop = FALSE
    /\ pc = "top" /\ doing = "nothing"

-----------------------------------------------------------------------------
(* The operations, of the thread that delivers touch events. *)

(* Mutant: what was chosen for the click before is not reset. *)
initKept ==
    /\ ~running
    /\ running' = TRUE /\ mode' = "long" /\ elapsed' = FALSE /\ down' = 0
    /\ UNCHANGED <<chosen, canceled>>
    /\ pc' = IF pc = "wait" THEN "watch" ELSE pc
    /\ UNCHANGED <<options, stop, doing>>

(* The worker that waits is notified; the one that runs goes on. *)
init ==
    /\ ~running
    /\ running' = TRUE /\ mode' = "long" /\ elapsed' = FALSE /\ down' = 0
    /\ chosen' = FALSE /\ canceled' = FALSE
    /\ pc' = IF pc = "wait" THEN "watch" ELSE pc
    /\ UNCHANGED <<options, stop, doing>>

(* Once the kind is chosen the worker does not listen. *)
Choice(A) ==
    /\ IF chosen THEN UNCHANGED choiceVars ELSE A /\ UNCHANGED running
    /\ UNCHANGED <<options, elapsed, stop, pc, doing>>

pointer1Down == \E near \in BOOLEAN :
    Choice(/\ down' = down + 1 /\ chosen' = (mode = "double" /\ near)
           /\ UNCHANGED <<mode, canceled>>)

(* The pointers of far have moved further than a click may. *)
pointersMoved(far) ==
    LET over == \/ 1 \in far /\ (mode = "long" \/ (mode = "dual" /\ down >= 2))
                \/ 2 \in far /\ mode = "dual" /\ down = 2
    IN  Choice(chosen' = over /\ canceled' = (canceled \/ over) /\ UNCHANGED <<mode, down>>)

pointer1Up ==
    LET second == mode = "long" /\ options.type /\ options.double
        last == (mode = "long" /\ ~second) \/ (mode = "dual" /\ down = 1)
    IN  Choice(/\ down' = down - 1 /\ mode' = (IF second THEN "double" ELSE mode)
               /\ chosen' = last /\ UNCHANGED canceled)

(* The second pointer is late if the first is down for too long. *)
pointer2Down == \E late \in BOOLEAN :
    Choice(down' = down + 1 /\ mode' = "dual" /\ chosen' = late /\ canceled' = (canceled \/ late))

pointer2Up == Choice(down' = down - 1 /\ UNCHANGED <<mode, chosen, canceled>>)

cancel == Choice(mode' = "none" /\ chosen' = TRUE /\ UNCHANGED <<down, canceled>>)

stopWorker ==
    /\ stop' = TRUE
    /\ pc' = IF pc = "wait" THEN "watch" ELSE pc
    /\ UNCHANGED <<options, choiceVars, elapsed, doing>>

-----------------------------------------------------------------------------
(* run.  The wait has no predicate: without a cause the worker wakes up    *)
(* with nothing to watch, or with what was chosen before.                  *)

TopOfRun ==
    /\ pc = "top"
    /\ pc' = IF stop THEN "gone" ELSE IF running THEN "watch" ELSE "wait"
    /\ UNCHANGED <<options, choiceVars, elapsed, stop, doing>>

SpuriousWakeup ==
    /\ pc = "wait" /\ pc' = "watch"
    /\ UNCHANGED <<options, choiceVars, elapsed, stop, doing>>

TimePasses ==
    /\ running /\ ~elapsed /\ elapsed' = TRUE
    /\ UNCHANGED <<options, choiceVars, stop, pc, doing>>

(* One pass of the loop: stopped, chosen by a pointer, or by time. *)
Watch ==
    /\ pc = "watch"
    /\ IF stop THEN pc' = "gone" /\ UNCHANGED <<choiceVars, doing>>
       ELSE IF chosen THEN pc' = "chosen" /\ doing' = mode /\ UNCHANGED choiceVars
       ELSE /\ \/ mode = "none" /\ UNCHANGED canceled
               \/ mode = "long" /\ options.type /\ elapsed /\ UNCHANGED canceled
               \/ mode \in {"double", "dual"} /\ options.type /\ canceled' = TRUE
            /\ chosen' = TRUE
            /\ UNCHANGED <<running, mode, down, pc, doing>>
    /\ UNCHANGED <<options, elapsed, stop>>

(* What to call, from one look at the state of the worker. *)
Called ==
    CASE doing = "long" -> IF canceled THEN "startSinglePointer"
                           ELSE IF options.type /\ elapsed THEN "longClick" ELSE "shortClick"
      [] doing = "double" -> IF canceled THEN "click" ELSE "doubleClick"
      [] doing = "dual" /\ canceled /\ down = 1 -> "startSinglePointer"
      [] doing = "dual" /\ canceled /\ down >= 2 -> "startDualPointer"
      [] doing = "dual" /\ ~canceled -> "dualClick"
      [] OTHER -> "nothing"

(* afterLongClick, afterDoubleClick, afterDualClick up to the call. *)
AfterChoice ==
    /\ pc = "chosen"
    /\ pc' = "call" /\ doing' = Called
    /\ UNCHANGED <<options, choiceVars, elapsed, stop>>

(* The click was dealt with. *)
StopRunning ==
    /\ pc = "end" /\ pc' = "top"
    /\ running' = FALSE /\ mode' = "none" /\ doing' = "nothing"
    /\ elapsed' = FALSE
    /\ UNCHANGED <<options, down, chosen, canceled, stop>>

Run == TopOfRun \/ Watch \/ AfterChoice \/ StopRunning
=============================================================================
