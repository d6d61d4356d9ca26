-------------------------- MODULE TouchHandlerProofs --------------------------
(***************************************************************************)
(* TouchHandler: TypeOK, GuessIsWatched and GestureEnds for every choice   *)
(* of options and bounds.  The inductive invariant says what the worker    *)
(* knows of the press that is being guessed, step by step of its loop, so  *)
(* that it never ends without a gesture that takes over.  A lift that the  *)
(* editable layer takes leaves the worker with too many pointers, never    *)
(* with too few.                                                           *)
(***************************************************************************)
EXTENDS TouchHandler, TLAPS

(* A press that is being guessed, of which the worker was told all. *)
Heard ==
    /\ fingers > 0 /\ gesture \in Guesses
    /\ options.input /\ ~deaf /\ ~late /\ "press" \notin taken /\ ~stop

(* Before the choice: the worker counts the pointers that are down, and    *)
(* those whose lift was taken.                                             *)
Watching ==
    /\ mode \in {"long", "dual"} /\ down >= Counted
    /\ gesture = "dualGuess" => mode = "dual" /\ down >= 2
    /\ mode = "dual" => touch # "press"

(* The choice is one that begins a gesture. *)
Begun ==
    \/ mode = "long" /\ (canceled \/ (options.type /\ elapsed))
    \/ mode = "dual" /\ canceled /\ down >= 1

(* How far run has come with the press. *)
HeardInv ==
    Heard => /\ running
             /\ pc \in {"top", "watch", "chosen", "call"}
             /\ ~chosen => Watching /\ pc \in {"top", "watch"}
             /\ chosen => Begun
             /\ pc = "chosen" => doing = mode
             /\ pc = "call" => doing \in {"startSinglePointer", "startDualPointer", "longClick"}

(* A gesture has the fingers that it takes, unless it came late or a lift  *)
(* was taken: of one touch at most one, since only its press begins a drag.*)
GestureInv ==
    /\ gesture = "guess" => fingers \in {0, 1}
    /\ gesture = "dualGuess" => fingers = 2 \/ (fingers = 1 /\ ~dragging)
    /\ gesture \in {"pan", "zoom"} => fingers = 1 \/ late \/ (fingers = 0 /\ "lift" \in taken)
    /\ gesture \in {"twoGuess", "two"} => fingers = 2 \/ late \/ "lift" \in taken

PcInv ==
    /\ pc = "wait" => ~running
    /\ pc = "gone" => stop
    /\ touch = "press" => fingers = 1 /\ gesture # "dualGuess"

(* TypeOK in two parts, for the provers. *)
Booleans ==
    /\ running \in BOOLEAN /\ elapsed \in BOOLEAN /\ chosen \in BOOLEAN /\ canceled \in BOOLEAN
    /\ stop \in BOOLEAN /\ events \in BOOLEAN /\ idling \in BOOLEAN /\ redraw \in BOOLEAN
    /\ held \in BOOLEAN /\ deaf \in BOOLEAN /\ late \in BOOLEAN /\ unheard \in BOOLEAN
    /\ dragging \in BOOLEAN

Ranges ==
    /\ options \in Options
    /\ mode \in Modes /\ pc \in {"top", "wait", "watch", "chosen", "call", "end", "gone"}
    /\ doing \in Modes \cup Calls
    /\ down \in Int
    /\ fingers \in 0 .. 2 /\ pointersDown \in 0 .. 2
    /\ pointersDown < Counted => "press" \in taken
    /\ pointersDown > Counted => "lift" \in taken
    /\ taken \subseteq {"press", "lift"}
    /\ calls \in 0 .. MaxCalls /\ kinetic \in 0 .. MaxKinetic
    /\ touch \in {"none", "press", "check", "decide"} /\ gesture \in Gestures
    /\ frame \in {"none", "kinetic", "drawn", "idle", "check", "decide"}
    /\ saw \subseteq Checkers
    /\ app \in {"none", "moved"} /\ told \in {"stable", "moved"}

IInv == Booleans /\ Ranges /\ HeardInv /\ GestureInv /\ PcInv

LEMMA TypeParts == TypeOK <=> Booleans /\ Ranges
  BY Zenon DEF TypeOK, Booleans, Ranges

-----------------------------------------------------------------------------
LEMMA InitIInv == Init => IInv
<1>1. SUFFICES ASSUME Init PROVE IInv
  OBVIOUS
<1>2. options \in Options
  BY <1>1, TouchAssumption DEF Init
<1>3. Booleans
  BY <1>1 DEF Init, InitWorker, Booleans
<1>4. Ranges
  BY <1>1, <1>2, TouchAssumption DEF Init, InitWorker, Ranges, Counted, Modes, Calls, Gestures,
     Guesses, Checkers
<1>5. HeardInv /\ GestureInv /\ PcInv
  BY <1>1 DEF Init, InitWorker, HeardInv, Heard, GestureInv, PcInv, Guesses
<1>. QED
  BY <1>3, <1>4, <1>5 DEF IInv

LEMMA PressFirstKeeps == IInv /\ PressFirst => IInv'
<1> SUFFICES ASSUME IInv, PressFirst PROVE IInv'
  OBVIOUS
<1>1. Booleans'
  BY Zenon DEF IInv, Booleans, PressFirst, Delivers, init, eventVars, editVars, mapVars, frameVars,
     appVars, workerVars, choiceVars
<1>2. Ranges'
  BY TouchAssumption, SMTT(30) DEF IInv, Ranges, Counted, Options, Modes, Calls, Gestures, Guesses,
     Checkers, PressFirst, Delivers, init, eventVars, editVars, mapVars, frameVars, appVars,
     workerVars, choiceVars
<1>3. HeardInv'
  BY SMTT(30) DEF IInv, Booleans, Ranges, Counted, Options, Modes, Calls, Gestures, Guesses,
     Checkers, HeardInv, Heard, Watching, Begun, GestureInv, PcInv, PressFirst, Delivers, init,
     eventVars, editVars, mapVars, frameVars, appVars, workerVars, choiceVars
<1>4. GestureInv' /\ PcInv'
  BY SMTT(30) DEF IInv, Booleans, Ranges, Counted, Options, Modes, Calls, Gestures, Guesses,
     Checkers, GestureInv, PcInv, PressFirst, Delivers, init, eventVars, editVars, mapVars,
     frameVars, appVars, workerVars, choiceVars
<1>. QED
  BY <1>1, <1>2, <1>3, <1>4 DEF IInv

LEMMA TellPressKeeps == IInv /\ TellPress => IInv'
<1> SUFFICES ASSUME IInv, TellPress PROVE IInv'
  OBVIOUS
<1>1. Booleans'
  BY SMT DEF IInv, Booleans, TellPress, pointer1Down, Choice, eventVars, editVars, mapVars,
     frameVars, appVars, workerVars, choiceVars
<1>2. Ranges'
  BY TouchAssumption, SMTT(30) DEF IInv, Ranges, Counted, Options, Modes, Calls, Gestures, Guesses,
     Checkers, TellPress, pointer1Down, Choice, eventVars, editVars, mapVars, frameVars, appVars,
     workerVars, choiceVars
<1>3. HeardInv'
  BY SMTT(30) DEF IInv, Booleans, Ranges, Counted, Options, Modes, Calls, Gestures, Guesses,
     Checkers, HeardInv, Heard, Watching, Begun, GestureInv, PcInv, TellPress, pointer1Down,
     Choice, eventVars, editVars, mapVars, frameVars, appVars, workerVars, choiceVars
<1>4. GestureInv' /\ PcInv'
  BY SMTT(30) DEF IInv, Booleans, Ranges, Counted, Options, Modes, Calls, Gestures, Guesses,
     Checkers, GestureInv, PcInv, TellPress, pointer1Down, Choice, eventVars, editVars, mapVars,
     frameVars, appVars, workerVars, choiceVars
<1>. QED
  BY <1>1, <1>2, <1>3, <1>4 DEF IInv

LEMMA PressSecondKeeps == IInv /\ PressSecond => IInv'
<1> SUFFICES ASSUME IInv, PressSecond PROVE IInv'
  OBVIOUS
<1>1. Booleans'
  BY SMT DEF IInv, Booleans, PressSecond, Delivers, pointer2Down, Choice, eventVars, editVars,
     mapVars, frameVars, appVars, workerVars, choiceVars
<1>2. Ranges'
  BY TouchAssumption, SMTT(30) DEF IInv, Ranges, Counted, Options, Modes, Calls, Gestures, Guesses,
     Checkers, PressSecond, Delivers, pointer2Down, Choice, eventVars, editVars, mapVars,
     frameVars, appVars, workerVars, choiceVars
<1>3. HeardInv'
  BY SMTT(30) DEF IInv, Booleans, Ranges, Counted, Options, Modes, Calls, Gestures, Guesses,
     Checkers, HeardInv, Heard, Watching, Begun, GestureInv, PcInv, PressSecond, Delivers,
     pointer2Down, Choice, eventVars, editVars, mapVars, frameVars, appVars, workerVars, choiceVars
<1>4. GestureInv' /\ PcInv'
  BY SMTT(30) DEF IInv, Booleans, Ranges, Counted, Options, Modes, Calls, Gestures, Guesses,
     Checkers, GestureInv, PcInv, PressSecond, Delivers, pointer2Down, Choice, eventVars, editVars,
     mapVars, frameVars, appVars, workerVars, choiceVars
<1>. QED
  BY <1>1, <1>2, <1>3, <1>4 DEF IInv

LEMMA MoveKeeps == IInv /\ Move => IInv'
<1> SUFFICES ASSUME IInv, Move PROVE IInv'
  OBVIOUS
<1> DEFINE Moved == /\ gesture \in Guesses /\ ~chosen
                    /\ UNCHANGED <<options, running, mode, elapsed, down, stop, pc, doing>>
                    /\ chosen' \in BOOLEAN /\ canceled' \in BOOLEAN
                    /\ chosen' => canceled' /\ (mode = "long" \/ (mode = "dual" /\ down >= 2))
<1>1. Booleans'
  BY Zenon DEF IInv, Booleans, Move, Delivers, MapMoved, pointersMoved, Choice, eventVars,
     editVars, mapVars, frameVars, appVars, workerVars, choiceVars
<1>2. Moved \/ UNCHANGED workerVars
  <2>1. CASE gesture \in Guesses
    <3>1. PICK far : pointersMoved(far)
      BY <2>1, Zenon DEF Move
    <3> DEFINE over == \/ 1 \in far /\ (mode = "long" \/ (mode = "dual" /\ down >= 2))
                       \/ 2 \in far /\ mode = "dual" /\ down = 2
    <3>2. over => mode = "long" \/ (mode = "dual" /\ down >= 2)
      OBVIOUS
    <3> HIDE DEF over
    <3>3. CASE chosen
      BY <3>1, <3>3, Zenon DEF pointersMoved, Choice, workerVars
    <3>4. CASE ~chosen
      <4>1. /\ chosen' = over /\ canceled' = (canceled \/ over)
            /\ UNCHANGED <<options, running, mode, elapsed, down, stop, pc, doing>>
        BY <3>1, <3>4, Zenon DEF pointersMoved, Choice, over
      <4>. QED
        BY <1>1, <2>1, <3>2, <3>4, <4>1, Zenon DEF Booleans
    <3>. QED
      BY <3>3, <3>4
  <2>2. CASE gesture \notin Guesses
    BY <2>2 DEF Move
  <2>. QED
    BY <2>1, <2>2
<1>3. UNCHANGED <<fingers, pointersDown, held, deaf, late, unheard, dragging, taken,
                   frame, saw, app, calls>>
  BY DEF Move, editVars, frameVars, appVars
<1>4. touch = "none" /\ touch' = "check" /\ ~stop /\ fingers > 0 /\ UNCHANGED <<kinetic, told>>
  BY DEF Move, Delivers, MapMoved, mapVars
<1>5. gesture' = gesture \/ (gesture = "twoGuess" /\ gesture' = "two")
  BY DEF Move
<1> HIDE DEF Moved
<1>6. UNCHANGED <<options, running, mode, elapsed, down, stop, pc, doing>>
  BY <1>2 DEF Moved, workerVars, choiceVars
<1>7. Ranges'
  BY <1>3, <1>4, <1>5, <1>6 DEF IInv, Ranges, Counted, Options, Modes, Calls, Gestures, Guesses,
     Checkers
<1>8. HeardInv'
  BY <1>1, <1>2, <1>3, <1>4, <1>5, <1>6, SMTT(30) DEF IInv, Moved, Booleans, Ranges, Counted,
     Guesses, HeardInv, Heard, Watching, Begun, GestureInv, PcInv, workerVars, choiceVars
<1>9. GestureInv' /\ PcInv'
  BY <1>3, <1>4, <1>5, <1>6 DEF IInv, GestureInv, PcInv
<1>. QED
  BY <1>1, <1>7, <1>8, <1>9 DEF IInv

LEMMA CancelTouchKeeps == IInv /\ CancelTouch => IInv'
<1> SUFFICES ASSUME IInv, CancelTouch PROVE IInv'
  OBVIOUS
<1>1. Booleans'
  BY Zenon DEF IInv, Booleans, CancelTouch, Delivers, cancel, Choice, eventVars, editVars, mapVars,
     frameVars, appVars, workerVars, choiceVars
<1>2. Ranges'
  BY TouchAssumption, SMTT(30) DEF IInv, Ranges, Counted, Options, Modes, Calls, Gestures, Guesses,
     Checkers, CancelTouch, Delivers, cancel, Choice, eventVars, editVars, mapVars, frameVars,
     appVars, workerVars, choiceVars
<1>3. HeardInv'
  BY SMTT(30) DEF IInv, Booleans, Ranges, Counted, Options, Modes, Calls, Gestures, Guesses,
     Checkers, HeardInv, Heard, Watching, Begun, GestureInv, PcInv, CancelTouch, Delivers, cancel,
     Choice, eventVars, editVars, mapVars, frameVars, appVars, workerVars, choiceVars
<1>4. GestureInv' /\ PcInv'
  BY SMTT(30) DEF IInv, Booleans, Ranges, Counted, Options, Modes, Calls, Gestures, Guesses,
     Checkers, GestureInv, PcInv, CancelTouch, Delivers, cancel, Choice, eventVars, editVars,
     mapVars, frameVars, appVars, workerVars, choiceVars
<1>. QED
  BY <1>1, <1>2, <1>3, <1>4 DEF IInv

LEMMA deinitKeeps == IInv /\ deinit => IInv'
<1> SUFFICES ASSUME IInv, deinit PROVE IInv'
  OBVIOUS
<1>1. Booleans'
  BY SMT DEF IInv, Booleans, deinit, Delivers, stopWorker, eventVars, editVars, mapVars, frameVars,
     appVars, workerVars, choiceVars
<1>2. Ranges'
  BY TouchAssumption, SMTT(30) DEF IInv, Ranges, Counted, Options, Modes, Calls, Gestures, Guesses,
     Checkers, deinit, Delivers, stopWorker, eventVars, editVars, mapVars, frameVars, appVars,
     workerVars, choiceVars
<1>3. HeardInv'
  BY SMTT(30) DEF IInv, Booleans, Ranges, Counted, Options, Modes, Calls, Gestures, Guesses,
     Checkers, HeardInv, Heard, Watching, Begun, GestureInv, PcInv, deinit, Delivers, stopWorker,
     eventVars, editVars, mapVars, frameVars, appVars, workerVars, choiceVars
<1>4. GestureInv' /\ PcInv'
  BY SMTT(30) DEF IInv, Booleans, Ranges, Counted, Options, Modes, Calls, Gestures, Guesses,
     Checkers, GestureInv, PcInv, deinit, Delivers, stopWorker, eventVars, editVars, mapVars,
     frameVars, appVars, workerVars, choiceVars
<1>. QED
  BY <1>1, <1>2, <1>3, <1>4 DEF IInv

LEMMA TakePressKeeps == IInv /\ TakePress => IInv'
<1> SUFFICES ASSUME IInv, TakePress PROVE IInv'
  OBVIOUS
<1>1. Booleans'
  BY Zenon DEF IInv, Booleans, TakePress, Takes, Delivers, eventVars, editVars, mapVars, frameVars,
     appVars, workerVars, choiceVars
<1>2. Ranges'
  BY TouchAssumption, SMTT(30) DEF IInv, Ranges, Counted, Options, Modes, Calls, Gestures, Guesses,
     Checkers, TakePress, Takes, Delivers, eventVars, editVars, mapVars, frameVars, appVars,
     workerVars, choiceVars
<1>3. HeardInv'
  BY SMTT(30) DEF IInv, Booleans, Ranges, Counted, Options, Modes, Calls, Gestures, Guesses,
     Checkers, HeardInv, Heard, Watching, Begun, GestureInv, PcInv, TakePress, Takes, Delivers,
     eventVars, editVars, mapVars, frameVars, appVars, workerVars, choiceVars
<1>4. GestureInv' /\ PcInv'
  BY SMTT(30) DEF IInv, Booleans, Ranges, Counted, Options, Modes, Calls, Gestures, Guesses,
     Checkers, GestureInv, PcInv, TakePress, Takes, Delivers, eventVars, editVars, mapVars,
     frameVars, appVars, workerVars, choiceVars
<1>. QED
  BY <1>1, <1>2, <1>3, <1>4 DEF IInv

LEMMA TakeMoveKeeps == IInv /\ TakeMove => IInv'
<1> SUFFICES ASSUME IInv, TakeMove PROVE IInv'
  OBVIOUS
<1>1. Booleans'
  BY Zenon DEF IInv, Booleans, TakeMove, Takes, Delivers, eventVars, editVars, mapVars, frameVars,
     appVars, workerVars, choiceVars
<1>2. Ranges'
  BY TouchAssumption, SMTT(30) DEF IInv, Ranges, Counted, Options, Modes, Calls, Gestures, Guesses,
     Checkers, TakeMove, Takes, Delivers, eventVars, editVars, mapVars, frameVars, appVars,
     workerVars, choiceVars
<1>3. HeardInv'
  BY SMTT(30) DEF IInv, Booleans, Ranges, Counted, Options, Modes, Calls, Gestures, Guesses,
     Checkers, HeardInv, Heard, Watching, Begun, GestureInv, PcInv, TakeMove, Takes, Delivers,
     eventVars, editVars, mapVars, frameVars, appVars, workerVars, choiceVars
<1>4. GestureInv' /\ PcInv'
  BY SMTT(30) DEF IInv, Booleans, Ranges, Counted, Options, Modes, Calls, Gestures, Guesses,
     Checkers, GestureInv, PcInv, TakeMove, Takes, Delivers, eventVars, editVars, mapVars,
     frameVars, appVars, workerVars, choiceVars
<1>. QED
  BY <1>1, <1>2, <1>3, <1>4 DEF IInv

LEMMA TakeLiftKeeps == IInv /\ TakeLift => IInv'
<1> SUFFICES ASSUME IInv, TakeLift PROVE IInv'
  OBVIOUS
<1>1. Booleans'
  BY Zenon DEF IInv, Booleans, TakeLift, Takes, Delivers, eventVars, editVars, mapVars, frameVars,
     appVars, workerVars, choiceVars
<1>2. Ranges'
  <2>1. /\ touch = "none" /\ touch' = "none" /\ fingers > 0 /\ fingers' = fingers - 1
        /\ UNCHANGED <<pointersDown, gesture>>
    BY DEF TakeLift, Takes, Delivers
  <2>2. /\ UNCHANGED <<options, mode, pc, doing, down, calls, kinetic, frame, saw, app, told>>
    BY DEF TakeLift, mapVars, frameVars, appVars, workerVars, choiceVars
  <2>3. \/ fingers' = 0 /\ pointersDown = 0 /\ taken' = {}
        \/ taken' = taken \cup {"lift"}
    BY DEF TakeLift
  <2>4. /\ taken' \subseteq {"press", "lift"}
        /\ (taken' = {} /\ fingers' = 0 /\ pointersDown = 0) \/ "lift" \in taken'
    BY <2>3 DEF IInv, Ranges
  <2>5. pointersDown' < Counted' => "press" \in taken'
    BY <2>1, <2>3 DEF IInv, Ranges, Counted
  <2>6. pointersDown' > Counted' => "lift" \in taken'
    BY <2>1, <2>4 DEF IInv, Ranges, Counted
  <2>7. fingers' \in 0 .. 2
    BY <2>1 DEF IInv, Ranges
  <2>. QED
    BY <2>1, <2>2, <2>4, <2>5, <2>6, <2>7 DEF IInv, Ranges
<1>3. HeardInv'
  BY SMTT(30) DEF IInv, Booleans, Ranges, Counted, Options, Modes, Calls, Gestures, Guesses,
     Checkers, HeardInv, Heard, Watching, Begun, GestureInv, PcInv, TakeLift, Takes, Delivers,
     eventVars, editVars, mapVars, frameVars, appVars, workerVars, choiceVars
<1>4. GestureInv' /\ PcInv'
  BY SMTT(30) DEF IInv, Booleans, Ranges, Counted, Options, Modes, Calls, Gestures, Guesses,
     Checkers, GestureInv, PcInv, TakeLift, Takes, Delivers, eventVars, editVars, mapVars,
     frameVars, appVars, workerVars, choiceVars
<1>. QED
  BY <1>1, <1>2, <1>3, <1>4 DEF IInv

LEMMA setSelectedVectorElementKeeps == IInv /\ setSelectedVectorElement => IInv'
<1> SUFFICES ASSUME IInv, setSelectedVectorElement PROVE IInv'
  OBVIOUS
<1>1. Booleans'
  BY Zenon DEF IInv, Booleans, setSelectedVectorElement, eventVars, editVars, mapVars, frameVars,
     appVars, workerVars, choiceVars
<1>2. Ranges'
  BY TouchAssumption, SMTT(30) DEF IInv, Ranges, Counted, Options, Modes, Calls, Gestures, Guesses,
     Checkers, setSelectedVectorElement, eventVars, editVars, mapVars, frameVars, appVars,
     workerVars, choiceVars
<1>3. HeardInv'
  BY SMTT(30) DEF IInv, Booleans, Ranges, Counted, Options, Modes, Calls, Gestures, Guesses,
     Checkers, HeardInv, Heard, Watching, Begun, GestureInv, PcInv, setSelectedVectorElement,
     eventVars, editVars, mapVars, frameVars, appVars, workerVars, choiceVars
<1>4. GestureInv' /\ PcInv'
  BY SMTT(30) DEF IInv, Booleans, Ranges, Counted, Options, Modes, Calls, Gestures, Guesses,
     Checkers, GestureInv, PcInv, setSelectedVectorElement, eventVars, editVars, mapVars,
     frameVars, appVars, workerVars, choiceVars
<1>. QED
  BY <1>1, <1>2, <1>3, <1>4 DEF IInv

LEMMA checkCameraEventsKeeps == IInv /\ checkCameraEvents => IInv'
<1> SUFFICES ASSUME IInv, checkCameraEvents PROVE IInv'
  OBVIOUS
<1>1. Booleans'
  BY Zenon DEF IInv, Booleans, checkCameraEvents, SeeKinetic, eventVars, editVars, mapVars,
     frameVars, appVars, workerVars, choiceVars
<1>2. Ranges'
  BY TouchAssumption, SMTT(30) DEF IInv, Ranges, Counted, Options, Modes, Calls, Gestures, Guesses,
     Checkers, checkCameraEvents, SeeKinetic, eventVars, editVars, mapVars, frameVars, appVars,
     workerVars, choiceVars
<1>3. HeardInv'
  BY SMTT(30) DEF IInv, Booleans, Ranges, Counted, Options, Modes, Calls, Gestures, Guesses,
     Checkers, HeardInv, Heard, Watching, Begun, GestureInv, PcInv, checkCameraEvents, SeeKinetic,
     eventVars, editVars, mapVars, frameVars, appVars, workerVars, choiceVars
<1>4. GestureInv' /\ PcInv'
  BY SMTT(30) DEF IInv, Booleans, Ranges, Counted, Options, Modes, Calls, Gestures, Guesses,
     Checkers, GestureInv, PcInv, checkCameraEvents, SeeKinetic, eventVars, editVars, mapVars,
     frameVars, appVars, workerVars, choiceVars
<1>. QED
  BY <1>1, <1>2, <1>3, <1>4 DEF IInv

LEMMA checkMapStableKeeps == IInv /\ checkMapStable => IInv'
<1> SUFFICES ASSUME IInv, checkMapStable PROVE IInv'
  OBVIOUS
<1>1. Booleans'
  BY SMT DEF IInv, Booleans, checkMapStable, Stable, eventVars, editVars, mapVars, frameVars,
     appVars, workerVars, choiceVars
<1>2. Ranges'
  BY TouchAssumption, SMTT(30) DEF IInv, Ranges, Counted, Options, Modes, Calls, Gestures, Guesses,
     Checkers, checkMapStable, Stable, eventVars, editVars, mapVars, frameVars, appVars, workerVars,
     choiceVars
<1>3. HeardInv'
  BY SMTT(30) DEF IInv, Booleans, Ranges, Counted, Options, Modes, Calls, Gestures, Guesses,
     Checkers, HeardInv, Heard, Watching, Begun, GestureInv, PcInv, checkMapStable, Stable,
     eventVars, editVars, mapVars, frameVars, appVars, workerVars, choiceVars
<1>4. GestureInv' /\ PcInv'
  BY SMTT(30) DEF IInv, Booleans, Ranges, Counted, Options, Modes, Calls, Gestures, Guesses,
     Checkers, GestureInv, PcInv, checkMapStable, Stable, eventVars, editVars, mapVars, frameVars,
     appVars, workerVars, choiceVars
<1>. QED
  BY <1>1, <1>2, <1>3, <1>4 DEF IInv

LEMMA CallKeeps == IInv /\ Call => IInv'
<1> SUFFICES ASSUME IInv, Call PROVE IInv'
  OBVIOUS
<1>1. Booleans'
  <2>1. late' \in BOOLEAN
    BY Zenon DEF IInv, Booleans, Call, Begin
  <2>2. redraw' \in BOOLEAN
    BY Zenon DEF IInv, Booleans, Call
  <2>3. UNCHANGED <<running, elapsed, chosen, canceled, stop, events, idling, held, deaf, unheard,
                     dragging>>
    BY DEF Call, choiceVars, editVars
  <2>. QED
    BY <2>1, <2>2, <2>3, Zenon DEF IInv, Booleans
<1>2. Ranges'
  BY TouchAssumption, SMTT(30) DEF IInv, Ranges, Counted, Options, Modes, Calls, Gestures, Guesses,
     Checkers, Call, Begin, eventVars, editVars, mapVars, frameVars, appVars, workerVars, choiceVars
<1>3. HeardInv'
  BY SMTT(30) DEF IInv, Booleans, Ranges, Counted, Options, Modes, Calls, Gestures, Guesses,
     Checkers, HeardInv, Heard, Watching, Begun, GestureInv, PcInv, Call, Begin, eventVars,
     editVars, mapVars, frameVars, appVars, workerVars, choiceVars
<1>4. UNCHANGED <<fingers, touch, running, stop, dragging, taken>> /\ (pc = "call" /\ pc' = "end")
  BY DEF Call, choiceVars, editVars
<1>5. GestureInv'
  <2>1. CASE Begin("pan", 1) \/ Begin("zoom", 1)
    <3>1. fingers # 1 => late'
      BY <2>1, Zenon DEF Begin
    <3>. QED
      BY <1>4, <2>1, <3>1 DEF Begin, GestureInv
  <2>2. CASE Begin("twoGuess", 2)
    <3>1. fingers # 2 => late'
      BY <2>2, Zenon DEF Begin
    <3>. QED
      BY <1>4, <2>2, <3>1 DEF Begin, GestureInv
  <2>3. CASE UNCHANGED <<gesture, late>>
    BY <1>4, <2>3 DEF IInv, GestureInv
  <2>. QED
    BY <2>1, <2>2, <2>3, Zenon DEF Call
<1>6. PcInv'
  BY <1>4 DEF IInv, PcInv, Call, Begin
<1>. QED
  BY <1>1, <1>2, <1>3, <1>5, <1>6 DEF IInv

LEMMA MoveMapKeeps == IInv /\ MoveMap => IInv'
<1> SUFFICES ASSUME IInv, MoveMap PROVE IInv'
  OBVIOUS
<1>1. Booleans'
  BY Zenon DEF IInv, Booleans, MoveMap, onMapChanged, eventVars, editVars, mapVars, frameVars,
     appVars, workerVars, choiceVars
<1>2. Ranges'
  BY TouchAssumption, SMTT(30) DEF IInv, Ranges, Counted, Options, Modes, Calls, Gestures, Guesses,
     Checkers, MoveMap, onMapChanged, eventVars, editVars, mapVars, frameVars, appVars, workerVars,
     choiceVars
<1>3. HeardInv'
  BY SMTT(30) DEF IInv, Booleans, Ranges, Counted, Options, Modes, Calls, Gestures, Guesses,
     Checkers, HeardInv, Heard, Watching, Begun, GestureInv, PcInv, MoveMap, onMapChanged,
     eventVars, editVars, mapVars, frameVars, appVars, workerVars, choiceVars
<1>4. GestureInv' /\ PcInv'
  BY SMTT(30) DEF IInv, Booleans, Ranges, Counted, Options, Modes, Calls, Gestures, Guesses,
     Checkers, GestureInv, PcInv, MoveMap, onMapChanged, eventVars, editVars, mapVars, frameVars,
     appVars, workerVars, choiceVars
<1>. QED
  BY <1>1, <1>2, <1>3, <1>4 DEF IInv

LEMMA AskForFrameKeeps == IInv /\ AskForFrame => IInv'
<1> SUFFICES ASSUME IInv, AskForFrame PROVE IInv'
  OBVIOUS
<1>1. Booleans'
  BY SMT DEF IInv, Booleans, AskForFrame, eventVars, editVars, mapVars, frameVars, appVars,
     workerVars, choiceVars
<1>2. Ranges'
  BY TouchAssumption, SMTT(30) DEF IInv, Ranges, Counted, Options, Modes, Calls, Gestures, Guesses,
     Checkers, AskForFrame, eventVars, editVars, mapVars, frameVars, appVars, workerVars, choiceVars
<1>3. HeardInv'
  BY SMTT(30) DEF IInv, Booleans, Ranges, Counted, Options, Modes, Calls, Gestures, Guesses,
     Checkers, HeardInv, Heard, Watching, Begun, GestureInv, PcInv, AskForFrame, eventVars,
     editVars, mapVars, frameVars, appVars, workerVars, choiceVars
<1>4. GestureInv' /\ PcInv'
  BY SMTT(30) DEF IInv, Booleans, Ranges, Counted, Options, Modes, Calls, Gestures, Guesses,
     Checkers, GestureInv, PcInv, AskForFrame, eventVars, editVars, mapVars, frameVars, appVars,
     workerVars, choiceVars
<1>. QED
  BY <1>1, <1>2, <1>3, <1>4 DEF IInv

LEMMA DrawFrameKeeps == IInv /\ DrawFrame => IInv'
<1> SUFFICES ASSUME IInv, DrawFrame PROVE IInv'
  OBVIOUS
<1>1. Booleans'
  BY Zenon DEF IInv, Booleans, DrawFrame, eventVars, editVars, mapVars, frameVars, appVars,
     workerVars, choiceVars
<1>2. Ranges'
  BY TouchAssumption, SMTT(30) DEF IInv, Ranges, Counted, Options, Modes, Calls, Gestures, Guesses,
     Checkers, DrawFrame, eventVars, editVars, mapVars, frameVars, appVars, workerVars, choiceVars
<1>3. HeardInv'
  BY SMTT(30) DEF IInv, Booleans, Ranges, Counted, Options, Modes, Calls, Gestures, Guesses,
     Checkers, HeardInv, Heard, Watching, Begun, GestureInv, PcInv, DrawFrame, eventVars, editVars,
     mapVars, frameVars, appVars, workerVars, choiceVars
<1>4. GestureInv' /\ PcInv'
  BY SMTT(30) DEF IInv, Booleans, Ranges, Counted, Options, Modes, Calls, Gestures, Guesses,
     Checkers, GestureInv, PcInv, DrawFrame, eventVars, editVars, mapVars, frameVars, appVars,
     workerVars, choiceVars
<1>. QED
  BY <1>1, <1>2, <1>3, <1>4 DEF IInv

LEMMA calculateKineticKeeps == IInv /\ calculateKinetic => IInv'
<1> SUFFICES ASSUME IInv, calculateKinetic PROVE IInv'
  OBVIOUS
<1>1. Booleans'
  BY Zenon DEF IInv, Booleans, calculateKinetic, onMapChanged, eventVars, editVars, mapVars,
     frameVars, appVars, workerVars, choiceVars
<1>2. Ranges'
  BY TouchAssumption, SMTT(30) DEF IInv, Ranges, Counted, Options, Modes, Calls, Gestures, Guesses,
     Checkers, calculateKinetic, onMapChanged, eventVars, editVars, mapVars, frameVars, appVars,
     workerVars, choiceVars
<1>3. HeardInv'
  BY SMTT(30) DEF IInv, Booleans, Ranges, Counted, Options, Modes, Calls, Gestures, Guesses,
     Checkers, HeardInv, Heard, Watching, Begun, GestureInv, PcInv, calculateKinetic, onMapChanged,
     eventVars, editVars, mapVars, frameVars, appVars, workerVars, choiceVars
<1>4. GestureInv' /\ PcInv'
  BY SMTT(30) DEF IInv, Booleans, Ranges, Counted, Options, Modes, Calls, Gestures, Guesses,
     Checkers, GestureInv, PcInv, calculateKinetic, onMapChanged, eventVars, editVars, mapVars,
     frameVars, appVars, workerVars, choiceVars
<1>. QED
  BY <1>1, <1>2, <1>3, <1>4 DEF IInv

LEMMA EndFrameKeeps == IInv /\ EndFrame => IInv'
<1> SUFFICES ASSUME IInv, EndFrame PROVE IInv'
  OBVIOUS
<1>1. Booleans'
  BY SMT DEF IInv, Booleans, EndFrame, eventVars, editVars, mapVars, frameVars, appVars, workerVars,
     choiceVars
<1>2. Ranges'
  BY TouchAssumption, SMTT(30) DEF IInv, Ranges, Counted, Options, Modes, Calls, Gestures, Guesses,
     Checkers, EndFrame, eventVars, editVars, mapVars, frameVars, appVars, workerVars, choiceVars
<1>3. HeardInv'
  BY SMTT(30) DEF IInv, Booleans, Ranges, Counted, Options, Modes, Calls, Gestures, Guesses,
     Checkers, HeardInv, Heard, Watching, Begun, GestureInv, PcInv, EndFrame, eventVars, editVars,
     mapVars, frameVars, appVars, workerVars, choiceVars
<1>4. GestureInv' /\ PcInv'
  BY SMTT(30) DEF IInv, Booleans, Ranges, Counted, Options, Modes, Calls, Gestures, Guesses,
     Checkers, GestureInv, PcInv, EndFrame, eventVars, editVars, mapVars, frameVars, appVars,
     workerVars, choiceVars
<1>. QED
  BY <1>1, <1>2, <1>3, <1>4 DEF IInv

LEMMA onMapIdleKeeps == IInv /\ onMapIdle => IInv'
<1> SUFFICES ASSUME IInv, onMapIdle PROVE IInv'
  OBVIOUS
<1>1. Booleans'
  BY SMT DEF IInv, Booleans, onMapIdle, eventVars, editVars, mapVars, frameVars, appVars,
     workerVars, choiceVars
<1>2. Ranges'
  BY TouchAssumption, SMTT(30) DEF IInv, Ranges, Counted, Options, Modes, Calls, Gestures, Guesses,
     Checkers, onMapIdle, eventVars, editVars, mapVars, frameVars, appVars, workerVars, choiceVars
<1>3. HeardInv'
  BY SMTT(30) DEF IInv, Booleans, Ranges, Counted, Options, Modes, Calls, Gestures, Guesses,
     Checkers, HeardInv, Heard, Watching, Begun, GestureInv, PcInv, onMapIdle, eventVars, editVars,
     mapVars, frameVars, appVars, workerVars, choiceVars
<1>4. GestureInv' /\ PcInv'
  BY SMTT(30) DEF IInv, Booleans, Ranges, Counted, Options, Modes, Calls, Gestures, Guesses,
     Checkers, GestureInv, PcInv, onMapIdle, eventVars, editVars, mapVars, frameVars, appVars,
     workerVars, choiceVars
<1>. QED
  BY <1>1, <1>2, <1>3, <1>4 DEF IInv

LEMMA FrameSeesKeeps == IInv /\ FrameSees => IInv'
<1> SUFFICES ASSUME IInv, FrameSees PROVE IInv'
  OBVIOUS
<1>1. Booleans'
  BY SMT DEF IInv, Booleans, FrameSees, SeeKinetic, eventVars, editVars, mapVars, frameVars,
     appVars, workerVars, choiceVars
<1>2. Ranges'
  BY TouchAssumption, SMTT(30) DEF IInv, Ranges, Counted, Options, Modes, Calls, Gestures, Guesses,
     Checkers, FrameSees, SeeKinetic, eventVars, editVars, mapVars, frameVars, appVars, workerVars,
     choiceVars
<1>3. HeardInv'
  BY SMTT(30) DEF IInv, Booleans, Ranges, Counted, Options, Modes, Calls, Gestures, Guesses,
     Checkers, HeardInv, Heard, Watching, Begun, GestureInv, PcInv, FrameSees, SeeKinetic,
     eventVars, editVars, mapVars, frameVars, appVars, workerVars, choiceVars
<1>4. GestureInv' /\ PcInv'
  BY SMTT(30) DEF IInv, Booleans, Ranges, Counted, Options, Modes, Calls, Gestures, Guesses,
     Checkers, GestureInv, PcInv, FrameSees, SeeKinetic, eventVars, editVars, mapVars, frameVars,
     appVars, workerVars, choiceVars
<1>. QED
  BY <1>1, <1>2, <1>3, <1>4 DEF IInv

LEMMA FrameDecidesKeeps == IInv /\ FrameDecides => IInv'
<1> SUFFICES ASSUME IInv, FrameDecides PROVE IInv'
  OBVIOUS
<1>1. Booleans'
  BY SMT DEF IInv, Booleans, FrameDecides, Stable, eventVars, editVars, mapVars, frameVars, appVars,
     workerVars, choiceVars
<1>2. Ranges'
  BY TouchAssumption, SMTT(30) DEF IInv, Ranges, Counted, Options, Modes, Calls, Gestures, Guesses,
     Checkers, FrameDecides, Stable, eventVars, editVars, mapVars, frameVars, appVars, workerVars,
     choiceVars
<1>3. HeardInv'
  BY SMTT(30) DEF IInv, Booleans, Ranges, Counted, Options, Modes, Calls, Gestures, Guesses,
     Checkers, HeardInv, Heard, Watching, Begun, GestureInv, PcInv, FrameDecides, Stable,
     eventVars, editVars, mapVars, frameVars, appVars, workerVars, choiceVars
<1>4. GestureInv' /\ PcInv'
  BY SMTT(30) DEF IInv, Booleans, Ranges, Counted, Options, Modes, Calls, Gestures, Guesses,
     Checkers, GestureInv, PcInv, FrameDecides, Stable, eventVars, editVars, mapVars, frameVars,
     appVars, workerVars, choiceVars
<1>. QED
  BY <1>1, <1>2, <1>3, <1>4 DEF IInv

LEMMA TopOfRunKeeps == IInv /\ TopOfRun /\ UNCHANGED <<eventVars, mapVars, frameVars, appVars>> => IInv'
<1> SUFFICES ASSUME IInv, TopOfRun, UNCHANGED <<eventVars, mapVars, frameVars, appVars>> PROVE IInv'
  OBVIOUS
<1>1. Booleans'
  BY SMT DEF IInv, Booleans, TopOfRun, eventVars, editVars, mapVars, frameVars, appVars, workerVars,
     choiceVars
<1>2. Ranges'
  BY SMTT(30) DEF IInv, Ranges, Counted, Options, Modes, Calls, Gestures, Guesses, Checkers,
     TopOfRun, eventVars, editVars, mapVars, frameVars, appVars, workerVars, choiceVars
<1>3. HeardInv'
  BY SMTT(30) DEF IInv, Booleans, Ranges, Counted, Options, Modes, Calls, Gestures, Guesses,
     Checkers, HeardInv, Heard, Watching, Begun, GestureInv, PcInv, TopOfRun, eventVars, editVars,
     mapVars, frameVars, appVars, workerVars, choiceVars
<1>4. GestureInv' /\ PcInv'
  BY SMTT(30) DEF IInv, Booleans, GestureInv, PcInv, TopOfRun, eventVars, editVars, mapVars,
     frameVars, appVars, workerVars, choiceVars
<1>. QED
  BY <1>1, <1>2, <1>3, <1>4 DEF IInv

LEMMA WatchKeeps == IInv /\ Watch /\ UNCHANGED <<eventVars, mapVars, frameVars, appVars>> => IInv'
<1> SUFFICES ASSUME IInv, Watch, UNCHANGED <<eventVars, mapVars, frameVars, appVars>> PROVE IInv'
  OBVIOUS
<1>1. Booleans'
  BY Zenon DEF IInv, Booleans, Watch, eventVars, editVars, mapVars, frameVars, appVars, workerVars,
     choiceVars
<1>2. Ranges'
  BY SMTT(30) DEF IInv, Ranges, Counted, Options, Modes, Calls, Gestures, Guesses, Checkers, Watch,
     eventVars, editVars, mapVars, frameVars, appVars, workerVars, choiceVars
<1>3. HeardInv'
  BY SMTT(30) DEF IInv, Booleans, Ranges, Counted, Options, Modes, Calls, Gestures, Guesses,
     Checkers, HeardInv, Heard, Watching, Begun, GestureInv, PcInv, Watch, eventVars, editVars,
     mapVars, frameVars, appVars, workerVars, choiceVars
<1>4. GestureInv' /\ PcInv'
  BY SMTT(30) DEF IInv, Booleans, GestureInv, PcInv, Watch, eventVars, editVars, mapVars,
     frameVars, appVars, workerVars, choiceVars
<1>. QED
  BY <1>1, <1>2, <1>3, <1>4 DEF IInv

LEMMA AfterChoiceKeeps == IInv /\ AfterChoice /\ UNCHANGED <<eventVars, mapVars, frameVars, appVars>> => IInv'
<1> SUFFICES ASSUME IInv, AfterChoice, UNCHANGED <<eventVars, mapVars, frameVars, appVars>> PROVE IInv'
  OBVIOUS
<1>1. Booleans'
  BY SMT DEF IInv, Booleans, AfterChoice, Called, eventVars, editVars, mapVars, frameVars, appVars,
     workerVars, choiceVars
<1>2. Ranges'
  BY SMTT(30) DEF IInv, Ranges, Counted, Options, Modes, Calls, Gestures, Guesses, Checkers,
     AfterChoice, Called, eventVars, editVars, mapVars, frameVars, appVars, workerVars, choiceVars
<1>3. HeardInv'
  BY SMTT(30) DEF IInv, Booleans, Ranges, Counted, Options, Modes, Calls, Gestures, Guesses,
     Checkers, HeardInv, Heard, Watching, Begun, GestureInv, PcInv, AfterChoice, Called, eventVars,
     editVars, mapVars, frameVars, appVars, workerVars, choiceVars
<1>4. GestureInv' /\ PcInv'
  BY SMTT(30) DEF IInv, Booleans, GestureInv, PcInv, AfterChoice, Called, eventVars, editVars,
     mapVars, frameVars, appVars, workerVars, choiceVars
<1>. QED
  BY <1>1, <1>2, <1>3, <1>4 DEF IInv

LEMMA StopRunningKeeps == IInv /\ StopRunning /\ UNCHANGED <<eventVars, mapVars, frameVars, appVars>> => IInv'
<1> SUFFICES ASSUME IInv, StopRunning, UNCHANGED <<eventVars, mapVars, frameVars, appVars>> PROVE IInv'
  OBVIOUS
<1>1. Booleans'
  BY Zenon DEF IInv, Booleans, StopRunning, eventVars, editVars, mapVars, frameVars, appVars,
     workerVars, choiceVars
<1>2. Ranges'
  BY SMTT(30) DEF IInv, Ranges, Counted, Options, Modes, Calls, Gestures, Guesses, Checkers,
     StopRunning, eventVars, editVars, mapVars, frameVars, appVars, workerVars, choiceVars
<1>3. HeardInv'
  BY SMTT(30) DEF IInv, Booleans, Ranges, Counted, Options, Modes, Calls, Gestures, Guesses,
     Checkers, HeardInv, Heard, Watching, Begun, GestureInv, PcInv, StopRunning, eventVars,
     editVars, mapVars, frameVars, appVars, workerVars, choiceVars
<1>4. GestureInv' /\ PcInv'
  BY SMTT(30) DEF IInv, Booleans, GestureInv, PcInv, StopRunning, eventVars, editVars, mapVars,
     frameVars, appVars, workerVars, choiceVars
<1>. QED
  BY <1>1, <1>2, <1>3, <1>4 DEF IInv

LEMMA TimePassesKeeps == IInv /\ TimePasses /\ UNCHANGED <<eventVars, mapVars, frameVars, appVars>> => IInv'
<1> SUFFICES ASSUME IInv, TimePasses, UNCHANGED <<eventVars, mapVars, frameVars, appVars>> PROVE IInv'
  OBVIOUS
<1>1. Booleans'
  BY SMT DEF IInv, Booleans, TimePasses, eventVars, editVars, mapVars, frameVars, appVars,
     workerVars, choiceVars
<1>2. Ranges'
  BY SMTT(30) DEF IInv, Ranges, Counted, Options, Modes, Calls, Gestures, Guesses, Checkers,
     TimePasses, eventVars, editVars, mapVars, frameVars, appVars, workerVars, choiceVars
<1>3. HeardInv'
  BY SMTT(30) DEF IInv, Booleans, Ranges, Counted, Options, Modes, Calls, Gestures, Guesses,
     Checkers, HeardInv, Heard, Watching, Begun, GestureInv, PcInv, TimePasses, eventVars,
     editVars, mapVars, frameVars, appVars, workerVars, choiceVars
<1>4. GestureInv' /\ PcInv'
  BY SMTT(30) DEF IInv, Booleans, GestureInv, PcInv, TimePasses, eventVars, editVars, mapVars,
     frameVars, appVars, workerVars, choiceVars
<1>. QED
  BY <1>1, <1>2, <1>3, <1>4 DEF IInv

LEMMA SpuriousWakeupKeeps == IInv /\ SpuriousWakeup /\ UNCHANGED <<eventVars, mapVars, frameVars, appVars>> => IInv'
<1> SUFFICES ASSUME IInv, SpuriousWakeup, UNCHANGED <<eventVars, mapVars, frameVars, appVars>> PROVE IInv'
  OBVIOUS
<1>1. Booleans'
  BY SMT DEF IInv, Booleans, SpuriousWakeup, eventVars, editVars, mapVars, frameVars, appVars,
     workerVars, choiceVars
<1>2. Ranges'
  BY SMTT(30) DEF IInv, Ranges, Counted, Options, Modes, Calls, Gestures, Guesses, Checkers,
     SpuriousWakeup, eventVars, editVars, mapVars, frameVars, appVars, workerVars, choiceVars
<1>3. HeardInv'
  BY SMTT(30) DEF IInv, Booleans, Ranges, Counted, Options, Modes, Calls, Gestures, Guesses,
     Checkers, HeardInv, Heard, Watching, Begun, GestureInv, PcInv, SpuriousWakeup, eventVars,
     editVars, mapVars, frameVars, appVars, workerVars, choiceVars
<1>4. GestureInv' /\ PcInv'
  BY SMTT(30) DEF IInv, Booleans, GestureInv, PcInv, SpuriousWakeup, eventVars, editVars, mapVars,
     frameVars, appVars, workerVars, choiceVars
<1>. QED
  BY <1>1, <1>2, <1>3, <1>4 DEF IInv

LEMMA LiftKeeps == IInv /\ (\E n \in 1 .. 2 : Lift(n)) => IInv'
<1> SUFFICES ASSUME IInv, NEW n \in 1 .. 2, Lift(n) PROVE IInv'
  OBVIOUS
<1>1. Booleans'
  BY Zenon DEF IInv, Booleans, Lift, Delivers, GoesOn, pointer1Up, pointer2Up, Choice, eventVars,
     mapVars, frameVars, appVars, workerVars, choiceVars
<1>2. /\ touch = "none" /\ touch' = "check" /\ fingers > 0 /\ fingers' = fingers - 1
      /\ pointersDown' = IF pointersDown > 0 THEN pointersDown - 1 ELSE 0
      /\ ~stop
  BY DEF Lift, Delivers, IInv, Ranges
<1>3. \/ fingers' = 0 /\ pointersDown' = 0 /\ gesture' = "guess" /\ taken' = {}
      \/ taken' = taken
  BY DEF Lift
<1>4. \/ gesture = "dualGuess" /\ gesture' = "guess"
      \/ gesture \in {"pan", "zoom"} /\ n = 1 /\ gesture' = "guess"
      \/ gesture \in {"twoGuess", "two"} /\ gesture' = "pan"
      \/ gesture \in {"pan", "zoom"} /\ n # 1 /\ gesture' = gesture
      \/ gesture = "guess" /\ gesture' = gesture
  BY DEF Lift, IInv, Ranges, Gestures, Guesses
<1>5. late' = (late /\ (gesture' # "guess" \/ fingers' > 0))
  BY DEF Lift
<1>6. UNCHANGED <<options, calls, frame, saw, app, told, running, elapsed, stop, pc, doing>>
  BY DEF Lift, GoesOn, pointer1Up, pointer2Up, Choice, mapVars, frameVars, appVars, workerVars,
     choiceVars
<1>7. fingers \in 1 .. 2 /\ n \in 1 .. fingers
  BY DEF Lift, IInv, Ranges
<1>8. Ranges'
  <2>1. mode' \in {mode, "double"} /\ down' \in {down, down - 1}
    BY DEF Lift, pointer1Up, pointer2Up, Choice, workerVars, choiceVars
  <2>2. kinetic' \in {kinetic} \cup 1 .. MaxKinetic
    BY DEF Lift, GoesOn, mapVars
  <2>3. gesture' \in {gesture, "guess", "pan"}
    BY <1>4
  <2>4. taken' \subseteq {"press", "lift"}
    BY <1>3 DEF IInv, Ranges
  <2>5. pointersDown' < Counted' => "press" \in taken'
    BY <1>2, <1>3 DEF IInv, Ranges, Counted
  <2>6. pointersDown' > Counted' => "lift" \in taken'
    BY <1>2, <1>3 DEF IInv, Ranges, Counted
  <2>7. fingers' \in 0 .. 2 /\ pointersDown' \in 0 .. 2
    BY <1>2 DEF IInv, Ranges
  <2>8. mode' \in Modes /\ down' \in Int /\ kinetic' \in 0 .. MaxKinetic /\ gesture' \in Gestures
    BY TouchAssumption, <2>1, <2>2, <2>3 DEF IInv, Ranges, Modes, Gestures, Guesses
  <2>. QED
    BY <1>2, <1>6, <2>4, <2>5, <2>6, <2>7, <2>8 DEF IInv, Ranges
<1>9. HeardInv'
  <2> SUFFICES ASSUME Heard' PROVE HeardInv'
    BY DEF HeardInv
  <2>1. taken' = taken /\ fingers = 2 /\ fingers' = 1
    BY <1>2, <1>3, <1>7 DEF Heard
  <2>2. late' = late /\ deaf' = deaf
    BY <1>5, <2>1 DEF Lift, IInv, Booleans
  <2>3. gesture = "dualGuess" /\ gesture' = "guess"
    <3>1. ~late /\ gesture' \in Guesses
      BY <2>2 DEF Heard
    <3>. QED
      BY <1>4, <2>1, <3>1 DEF Guesses, IInv, GestureInv
  <2>4. Heard
    BY <1>2, <1>6, <2>1, <2>2, <2>3 DEF Heard, Guesses
  <2>5. IF n = 1 THEN pointer1Up ELSE pointer2Up
    BY <2>3 DEF Lift, Guesses
  <2>6. CASE chosen
    <3>1. UNCHANGED <<mode, down, chosen, canceled>>
      BY <2>5, <2>6 DEF pointer1Up, pointer2Up, Choice, choiceVars
    <3>. QED
      BY <1>6, <2>4, <2>6, <3>1 DEF IInv, HeardInv, Begun
  <2>7. CASE ~chosen
    <3>1. mode = "dual" /\ down >= 2 /\ pc \in {"top", "watch"} /\ running
      BY <2>3, <2>4, <2>7 DEF IInv, HeardInv, Watching
    <3>2. mode' = mode /\ down' = down - 1 /\ ~chosen' /\ canceled' = canceled
      <4>1. CASE n = 1
        <5>1. pointer1Up
          BY <2>5, <4>1
        <5>2. down # 1
          BY <3>1 DEF IInv, Ranges
        <5>. QED
          BY <2>7, <3>1, <5>1, <5>2 DEF pointer1Up, Choice
      <4>2. CASE n # 1
        <5>1. pointer2Up
          BY <2>5, <4>2
        <5>. QED
          BY <2>7, <5>1 DEF pointer2Up, Choice
      <4>. QED
        BY <4>1, <4>2
    <3>3. Counted' = 1
      BY <1>2, <2>1 DEF Counted
    <3>4. Watching'
      BY <1>2, <2>3, <3>1, <3>2, <3>3 DEF Watching, IInv, Ranges
    <3>. QED
      BY <1>6, <3>1, <3>2, <3>4 DEF HeardInv
  <2>. QED
    BY <2>6, <2>7
<1>10. GestureInv'
  <2>1. CASE gesture' = "guess"
    BY <1>2, <1>7, <2>1 DEF GestureInv
  <2>2. CASE gesture' # "guess"
    <3>1. taken' = taken /\ late' = late
      BY <1>3, <1>5, <2>2 DEF IInv, Booleans
    <3>2. gesture' \in {"pan", "zoom"}
      BY <1>4, <2>2
    <3>3. CASE gesture \in {"twoGuess", "two"}
      BY <1>2, <1>7, <3>1, <3>2, <3>3 DEF IInv, GestureInv
    <3>4. CASE gesture \in {"pan", "zoom"}
      <4>1. late
        BY <1>4, <1>7, <2>2, <3>4 DEF IInv, GestureInv
      <4>. QED
        BY <3>1, <3>2, <4>1 DEF GestureInv
    <3>. QED
      BY <1>4, <2>2, <3>3, <3>4
  <2>. QED
    BY <2>1, <2>2
<1>11. PcInv'
  BY <1>2, <1>6 DEF IInv, PcInv
<1>. QED
  BY <1>1, <1>8, <1>9, <1>10, <1>11 DEF IInv

LEMMA StutterKeeps == IInv /\ UNCHANGED vars => IInv'
<1> SUFFICES ASSUME IInv, UNCHANGED vars PROVE IInv'
  OBVIOUS
<1>1. UNCHANGED <<options, running, mode, elapsed, down, chosen, canceled, stop, pc, doing, fingers,
                calls, touch, gesture, pointersDown, events, kinetic, idling, redraw, frame, saw, app, told,
                held, deaf, late, unheard, dragging, taken>>
  BY DEF vars, eventVars, editVars, mapVars, frameVars, appVars, workerVars, choiceVars
<1>2. Booleans'
  BY <1>1, Zenon DEF IInv, Booleans
<1>3. Ranges'
  BY <1>1 DEF IInv, Ranges, Counted
<1>4. HeardInv' /\ GestureInv' /\ PcInv'
  BY <1>1 DEF IInv, Booleans, HeardInv, Heard, Watching, Counted, Begun, GestureInv, PcInv
<1>. QED
  BY <1>2, <1>3, <1>4 DEF IInv

-----------------------------------------------------------------------------
(* The invariant is inductive. *)
LEMMA NextIInv == IInv /\ [Next]_vars => IInv'
<1> SUFFICES ASSUME IInv, [Next]_vars PROVE IInv'
  OBVIOUS
<1>1. CASE Touches
  BY <1>1, PressFirstKeeps, PressSecondKeeps, MoveKeeps, CancelTouchKeeps, LiftKeeps DEF Touches
<1>8. CASE Edits
  BY <1>8, TakePressKeeps, TakeMoveKeeps, TakeLiftKeeps, setSelectedVectorElementKeeps DEF Edits
<1>2. CASE EndTouch \/ deinit
  BY <1>2, TellPressKeeps, checkCameraEventsKeeps, checkMapStableKeeps, deinitKeeps DEF EndTouch
<1>3. CASE Worker
  BY <1>3, CallKeeps, TopOfRunKeeps, WatchKeeps, AfterChoiceKeeps, StopRunningKeeps, TimePassesKeeps
     DEF Worker, Run
<1>4. CASE Spurious
  BY <1>4, SpuriousWakeupKeeps DEF Spurious
<1>5. CASE Frame
  BY <1>5, DrawFrameKeeps, calculateKineticKeeps, EndFrameKeeps, onMapIdleKeeps, FrameSeesKeeps,
     FrameDecidesKeeps DEF Frame
<1>6. CASE MoveMap \/ AskForFrame
  BY <1>6, MoveMapKeeps, AskForFrameKeeps
<1>7. CASE UNCHANGED vars
  BY <1>7, StutterKeeps
<1>. QED
  BY <1>1, <1>2, <1>3, <1>4, <1>5, <1>6, <1>7, <1>8 DEF Next

LEMMA SpecIInv == Spec => []IInv
  BY InitIInv, NextIInv, PTL DEF Spec

(* The fields keep their ranges, and the touch handler counts the fingers  *)
(* that are on the screen (TouchHandler::onTouchEvent).                    *)
THEOREM TypeCorrect == Spec => []TypeOK
<1>1. IInv => TypeOK
  BY TypeParts DEF IInv
<1>. QED
  BY <1>1, SpecIInv, PTL

(* A press whose gesture is still to be guessed is never left without a    *)
(* worker that decides (ClickHandlerWorker::run and its after- functions). *)
THEOREM GuessWatched == Spec => []GuessIsWatched
<1>1. IInv => GuessIsWatched
  BY DEF IInv, HeardInv, Heard, GuessIsWatched
<1>. QED
  BY <1>1, SpecIInv, PTL

(* A gesture outlives its fingers only when the worker was late.           *)
THEOREM GesturesEnd == Spec => []GestureEnds
<1>1. IInv => GestureEnds
  BY DEF IInv, Ranges, Counted, Gestures, Guesses, GestureInv, GestureEnds
<1>. QED
  BY <1>1, SpecIInv, PTL
=============================================================================
