----------------------------- MODULE TouchHandler -----------------------------
(***************************************************************************)
(* ui/TouchHandler.cpp with its ClickHandlerWorker, the kinetic movement   *)
(* of the map (KineticEventHandler) and the frames of MapRenderer as far   *)
(* as they decide what the listener of the map hears.  The user puts at    *)
(* most two fingers down; the platform delivers one event after another.   *)
(*                                                                         *)
(* An event goes to the listeners first, and one that a listener takes goes*)
(* no further: the touch handler keeps no record of it.  The only listener *)
(* is that of an EditableVectorLayer with a selected element, which takes  *)
(* the events of a drag of that element: the press, the moves and the lift *)
(* of the first pointer, each if the application says so, but never those  *)
(* of a second pointer and never a cancel.  The redraws that an edit leads *)
(* to are those of any layer and no part of this module.                   *)
(*                                                                         *)
(* Abstracted: positions, what is clicked on, the four ways two pointers   *)
(* move the map (one mode here), the three kinetic movements (one), and    *)
(* camera animations.  Options do not change.  A kinetic movement slows    *)
(* down to nothing within MaxKinetic frames.                               *)
(***************************************************************************)
EXTENDS ClickHandlerWorker

CONSTANTS SomeOptions,   (* the options to choose from                     *)
          MaxCalls,      (* bound: touches that begin, and calls of the    *)
                         (* application that move the map                  *)
          MaxKinetic,    (* bound: frames of a kinetic movement            *)
          Editing        (* an editable layer listens                      *)

ASSUME TouchAssumption ==
    /\ SomeOptions \subseteq Options
    /\ MaxCalls \in Nat /\ MaxKinetic \in Nat /\ Editing \in BOOLEAN

VARIABLES
    fingers,      (* external: fingers on the screen                       *)
    calls,        (* how many touches began and calls were made            *)
    touch,        (* where onTouchEvent is: "none", "press", "check"       *)
    gesture,      (* _gestureMode                                          *)
    pointersDown, (* _pointersDown                                         *)
    events,       (* _cameraEvents                                         *)
    kinetic,      (* _pan, _rotation, _zoom: frames that it will still move*)
    idling,       (* _idling                                               *)
    redraw,       (* _redrawPending of the renderer                        *)
    frame,        (* where onDrawFrame is                                  *)
    saw,          (* who looks whether the map is stable and saw it move   *)
    app,          (* where viewChanged of the application is               *)
    told,         (* what the listener of the map was told last            *)
    dragging,     (* _overlayDragStarted of the editable layer             *)
    taken,        (* history: the editable layer took the "press" of this  *)
                  (* touch, or a "lift" since the touch handler last was   *)
                  (* at rest with no finger on the screen                  *)
    held,         (* history: the finger was not lifted before the choice  *)
    deaf,         (* history: it came down while the worker was running    *)
    late,         (* history: a gesture was begun for fingers not there    *)
    unheard       (* history: a finger was lifted and the worker not told  *)

editVars == <<dragging, taken>>
eventVars == <<fingers, touch, gesture, pointersDown, held, deaf, late, unheard, editVars>>
mapVars == <<events, kinetic, idling, redraw, told>>
frameVars == <<frame, saw>>
appVars == <<app, calls>>
vars == <<workerVars, eventVars, mapVars, frameVars, appVars>>

Guesses == {"guess", "dualGuess"}            (* SINGLE_, DUAL_POINTER_CLICK_GUESS *)
Gestures == Guesses \cup {"pan", "zoom", "twoGuess", "two"}
Checkers == {"touch", "frame"}

Init ==
    /\ InitWorker /\ options \in SomeOptions
    /\ fingers = 0 /\ touch = "none"
    /\ gesture = "guess" /\ pointersDown = 0 /\ events = FALSE
    /\ kinetic = 0 /\ idling = TRUE /\ redraw = FALSE /\ frame = "none"
    /\ saw = {} /\ dragging = FALSE /\ taken = {}
    /\ calls = 0 /\ app = "none" /\ told = "stable"
    /\ held = FALSE /\ deaf = FALSE /\ late = FALSE /\ unheard = FALSE

-----------------------------------------------------------------------------
(* onTouchEvent: the part that holds the mutex of the touch handler.       *)

Delivers == touch = "none" /\ ~stop

(* The first pointer: the worker is started unless it is running.          *)
PressFirst ==
    /\ Delivers /\ fingers = 0 /\ calls < MaxCalls
    /\ fingers' = 1 /\ calls' = calls + 1 /\ touch' = "press"
    /\ deaf' = (running \/ pc \in {"chosen", "call", "end"})
    /\ IF running THEN UNCHANGED <<workerVars, held, unheard>>
       ELSE init /\ held' = TRUE /\ unheard' = FALSE
    /\ taken' = taken \ {"press"}
    /\ UNCHANGED <<gesture, pointersDown, late, dragging, mapVars, frameVars, app>>

TellPress ==
    /\ touch = "press" /\ touch' = "check"
    /\ pointer1Down
    /\ kinetic' = 0
    /\ pointersDown' = IF pointersDown < 2 THEN pointersDown + 1 ELSE 2
    /\ UNCHANGED <<fingers, gesture, held, deaf, late, unheard, editVars, events, idling, redraw,
                   told, frameVars, appVars>>

PressSecond ==
    /\ Delivers /\ fingers = 1
    /\ fingers' = 2 /\ touch' = "check"
    /\ IF gesture = "guess" THEN pointer2Down ELSE UNCHANGED workerVars
    /\ gesture' = CASE gesture = "guess" -> "dualGuess"
                    [] gesture \in {"pan", "zoom"} -> "twoGuess"
                    [] OTHER -> gesture
    /\ pointersDown' = IF pointersDown < 2 THEN pointersDown + 1 ELSE 2
    /\ UNCHANGED <<held, deaf, late, unheard, editVars, mapVars, frameVars, appVars>>

(* The map is moved, through viewChanged: the listener is told with the    *)
(* camera events, after the mutex is given up.                             *)
MapMoved == events' = TRUE /\ idling' = FALSE /\ redraw' = TRUE /\ UNCHANGED <<kinetic, told>>

Move ==
    /\ Delivers /\ fingers > 0
    /\ touch' = "check"
    /\ IF gesture \in Guesses THEN \E far \in SUBSET (1 .. 2) :
            pointersMoved(IF gesture = "guess" THEN far \cap {1} ELSE far)
       ELSE UNCHANGED workerVars
    /\ IF gesture = "twoGuess" THEN gesture' \in {"twoGuess", "two"} ELSE UNCHANGED gesture
    /\ \/ gesture \in {"pan", "zoom", "two"} /\ options.input /\ MapMoved
       \/ UNCHANGED mapVars
    /\ UNCHANGED <<fingers, pointersDown, held, deaf, late, unheard, editVars, frameVars,
                   appVars>>

(* What may follow when a pan or zoom ends: kinetic movement, or the       *)
(* animation of a double tap.                                              *)
GoesOn ==
    /\ kinetic' \in {kinetic} \cup 1 .. MaxKinetic
    /\ redraw' \in {redraw, TRUE} /\ (kinetic' # kinetic => redraw')
    /\ UNCHANGED <<events, idling, told>>

(* Pointer n is lifted; a second pointer that stays becomes the first one. *)
Lift(n) ==
    /\ Delivers /\ n \in 1 .. fingers
    /\ fingers' = fingers - 1 /\ touch' = "check"
    /\ IF gesture \in Guesses /\ n = 1 THEN pointer1Up
       ELSE IF gesture = "dualGuess" THEN pointer2Up ELSE UNCHANGED workerVars
    /\ gesture' = CASE gesture = "dualGuess" -> "guess"
                    [] gesture \in {"pan", "zoom"} /\ n = 1 -> "guess"
                    [] gesture \in {"twoGuess", "two"} -> "pan"
                    [] OTHER -> gesture
    /\ IF gesture \in {"pan", "zoom"} /\ n = 1 THEN GoesOn ELSE UNCHANGED mapVars
    /\ pointersDown' = IF pointersDown > 0 THEN pointersDown - 1 ELSE 0
    /\ held' = (held /\ (chosen \/ fingers' > 0))
    /\ late' = (late /\ (gesture' # "guess" \/ fingers' > 0))
    /\ unheard' = (unheard \/ (gesture \notin Guesses /\ running /\ ~chosen))
    /\ deaf' = (deaf /\ fingers' > 0)
    /\ dragging' \in IF n = 1 THEN {FALSE, dragging} ELSE {dragging}
    /\ taken' = IF fingers' = 0 /\ pointersDown' = 0 /\ gesture' = "guess" THEN {} ELSE taken
    /\ UNCHANGED <<frameVars, appVars>>

(* Mutant: a touch that is canceled leaves its gesture behind. *)
CancelTouchOnly ==
    /\ Delivers /\ fingers > 0
    /\ fingers' = 0 /\ touch' = "check"
    /\ cancel
    /\ UNCHANGED gesture /\ pointersDown' = 0
    /\ held' = (held /\ chosen) /\ late' = FALSE /\ deaf' = FALSE
    /\ taken' = {}
    /\ UNCHANGED <<dragging, unheard, mapVars, frameVars, appVars>>

(* Mutant: a touch that is canceled does not lift its pointers. *)
CancelTouchCounted ==
    /\ Delivers /\ fingers > 0
    /\ fingers' = 0 /\ touch' = "check"
    /\ cancel
    /\ gesture' = "guess" /\ UNCHANGED pointersDown
    /\ held' = (held /\ chosen) /\ late' = FALSE /\ deaf' = FALSE
    /\ taken' = {}
    /\ UNCHANGED <<dragging, unheard, mapVars, frameVars, appVars>>

CancelTouch ==
    /\ Delivers /\ fingers > 0
    /\ fingers' = 0 /\ touch' = "check"
    /\ cancel
    /\ gesture' = "guess" /\ pointersDown' = 0
    /\ held' = (held /\ chosen) /\ late' = FALSE /\ deaf' = FALSE
    /\ taken' = {}
    /\ UNCHANGED <<dragging, unheard, mapVars, frameVars, appVars>>

(* deinit, from the destructor of the map view. *)
deinit ==
    /\ Delivers /\ app = "none"
    /\ stopWorker
    /\ UNCHANGED <<eventVars, mapVars, frameVars, appVars>>

-----------------------------------------------------------------------------
(* EditableVectorLayer: the events that its listener takes.                *)

Takes == Delivers /\ Editing

(* A press on the element or on a point of it: a drag begins, unless the   *)
(* application deletes what was touched or wants no drag of the point.     *)
TakePress ==
    /\ Takes /\ fingers = 0 /\ calls < MaxCalls
    /\ fingers' = 1 /\ calls' = calls + 1
    /\ dragging' \in {dragging, TRUE}
    /\ taken' = taken \cup {"press"}
    /\ UNCHANGED <<workerVars, touch, gesture, pointersDown, held, deaf, late, unheard, mapVars,
                   frameVars, app>>

(* A move of the drag, which the application may end.                      *)
TakeMove ==
    /\ Takes /\ fingers > 0 /\ dragging
    /\ dragging' \in BOOLEAN
    /\ UNCHANGED <<workerVars, fingers, touch, gesture, pointersDown, held, deaf, late, unheard,
                   taken, mapVars, frameVars, appVars>>

(* The lift of the first pointer that ends the drag.                       *)
TakeLift ==
    /\ Takes /\ fingers > 0 /\ dragging
    /\ fingers' = fingers - 1 /\ dragging' = FALSE
    /\ held' = (held /\ (chosen \/ fingers' > 0))
    /\ late' = (late /\ (gesture # "guess" \/ fingers' > 0))
    /\ unheard' = (unheard \/ (running /\ ~chosen))
    /\ deaf' = (deaf /\ fingers' > 0)
    /\ taken' = IF fingers' = 0 /\ pointersDown = 0 /\ gesture = "guess" THEN {}
                ELSE taken \cup {"lift"}
    /\ UNCHANGED <<workerVars, touch, gesture, pointersDown, mapVars, frameVars, appVars>>

(* The application, or a change of the source, selects another element.    *)
setSelectedVectorElement ==
    /\ dragging /\ dragging' = FALSE
    /\ UNCHANGED <<workerVars, fingers, touch, gesture, pointersDown, held, deaf, late, unheard,
                   taken, mapVars, frameVars, appVars>>

-----------------------------------------------------------------------------
(* checkCameraEvents, then checkMapStable: it looks at the kinetic         *)
(* movement without the mutex, at the rest with it.                        *)

SeeKinetic(c) == saw' = IF kinetic > 0 THEN saw \cup {c} ELSE saw \ {c}
Stable(c) == c \notin saw /\ pointersDown = 0 /\ idling

checkCameraEvents ==
    /\ touch = "check" /\ touch' = "decide"
    /\ events' = FALSE /\ told' = IF events THEN "moved" ELSE told
    /\ SeeKinetic("touch")
    /\ UNCHANGED <<workerVars, fingers, gesture, pointersDown, held, deaf, late, unheard, editVars,
                   kinetic, idling, redraw, frame, appVars>>

(* Mutant: the map is looked at when a frame was drawn, not after a touch. *)
checkMapStableNot ==
    /\ touch = "decide" /\ touch' = "none"
    /\ saw' = saw \ {"touch"}
    /\ UNCHANGED <<workerVars, fingers, gesture, pointersDown, held, deaf, late, unheard, editVars,
                   mapVars, frame, appVars>>

checkMapStable ==
    /\ touch = "decide" /\ touch' = "none"
    /\ told' = IF Stable("touch") THEN "stable" ELSE told
    /\ saw' = saw \ {"touch"}
    /\ UNCHANGED <<workerVars, fingers, gesture, pointersDown, held, deaf, late, unheard, editVars,
                   events, kinetic, idling, redraw, frame, appVars>>

-----------------------------------------------------------------------------
(* The calls of the worker. *)

(* A gesture begins, whatever has become of the pointers meanwhile. *)
Begin(g, needs) ==
    /\ touch # "press"
    /\ gesture' = g
    /\ late' = (late \/ fingers # needs)

(* The click that the listeners hear of. *)
Reported ==
    IF ~options.input \/ (options.zoom /\ doing \in {"doubleClick", "dualClick"}) THEN "none"
    ELSE CASE doing \in {"nothing", "startSinglePointer", "startDualPointer"} -> "none"
           [] doing = "longClick" -> "long"
           [] doing = "doubleClick" /\ options.type -> "double"
           [] doing = "dualClick" /\ options.type -> "dual"
           [] OTHER -> "single"

Call ==
    /\ pc = "call" /\ pc' = "end"
    /\ CASE doing = "startSinglePointer" -> Begin("pan", 1) /\ UNCHANGED redraw
         [] doing = "startDualPointer" -> Begin("twoGuess", 2) /\ UNCHANGED redraw
         [] options.input /\ doing = "longClick" -> Begin("pan", 1) /\ UNCHANGED redraw
         [] options.input /\ options.zoom /\ doing = "doubleClick" -> Begin("zoom", 1) /\ UNCHANGED redraw
         [] options.input /\ options.zoom /\ doing = "dualClick" -> redraw' = TRUE /\ UNCHANGED <<gesture, late>>
         [] OTHER -> UNCHANGED <<gesture, late, redraw>>
    /\ UNCHANGED <<options, choiceVars, elapsed, stop, doing, fingers, touch, pointersDown,
                   held, deaf, unheard, editVars, events, kinetic, idling, told, frameVars, appVars>>

-----------------------------------------------------------------------------
(* MapRenderer::viewChanged, from the application or a wheel event: the    *)
(* listener is told (unless camera events wait to be told), then a frame   *)
(* is asked for.                                                           *)

onMapChanged ==
    /\ idling' = FALSE
    /\ told' = IF events THEN told ELSE "moved"

MoveMap ==
    /\ app = "none" /\ ~stop /\ calls < MaxCalls
    /\ calls' = calls + 1 /\ app' = "moved"
    /\ onMapChanged
    /\ UNCHANGED <<workerVars, eventVars, events, kinetic, redraw, frameVars>>

AskForFrame ==
    /\ app = "moved" /\ app' = "none"
    /\ redraw' = TRUE
    /\ UNCHANGED <<workerVars, eventVars, events, kinetic, idling, told, frameVars, calls>>

(* onDrawFrame: the kinetic movement, which moves the map or stops; when   *)
(* nobody asked for another frame the map is idle.                         *)

DrawFrame ==
    /\ frame = "none" /\ redraw
    /\ redraw' = FALSE /\ frame' = "kinetic"
    /\ UNCHANGED <<workerVars, eventVars, events, kinetic, idling, told, saw, appVars>>

calculateKinetic ==
    /\ frame = "kinetic" /\ frame' = "drawn"
    /\ IF kinetic = 0 \/ ~options.kinetic THEN UNCHANGED <<kinetic, idling, told, redraw>>
       ELSE /\ kinetic' = kinetic - 1
            /\ IF kinetic = 1 THEN UNCHANGED <<idling, told, redraw>>
               ELSE onMapChanged /\ redraw' = TRUE
    /\ UNCHANGED <<workerVars, eventVars, events, saw, appVars>>

EndFrame ==
    /\ frame = "drawn" /\ frame' = IF redraw THEN "none" ELSE "idle"
    /\ UNCHANGED <<workerVars, eventVars, mapVars, saw, appVars>>

onMapIdle ==
    /\ frame = "idle" /\ frame' = "check"
    /\ idling' = TRUE
    /\ UNCHANGED <<workerVars, eventVars, events, kinetic, redraw, told, saw, appVars>>

FrameSees ==
    /\ frame = "check" /\ frame' = "decide"
    /\ SeeKinetic("frame")
    /\ UNCHANGED <<workerVars, eventVars, mapVars, appVars>>

FrameDecides ==
    /\ frame = "decide" /\ frame' = "none"
    /\ told' = IF Stable("frame") THEN "stable" ELSE told
    /\ saw' = saw \ {"frame"}
    /\ UNCHANGED <<workerVars, eventVars, events, kinetic, idling, redraw, appVars>>

-----------------------------------------------------------------------------
Worker == Call \/ ((Run \/ TimePasses) /\ UNCHANGED <<eventVars, mapVars, frameVars, appVars>>)
Spurious == SpuriousWakeup /\ UNCHANGED <<eventVars, mapVars, frameVars, appVars>>

Touches == PressFirst \/ PressSecond \/ Move \/ CancelTouch \/ \E n \in 1 .. 2 : Lift(n)
Edits == TakePress \/ TakeMove \/ TakeLift \/ setSelectedVectorElement
EndTouch == TellPress \/ checkCameraEvents \/ checkMapStable
Frame == DrawFrame \/ calculateKinetic \/ EndFrame \/ onMapIdle \/ FrameSees \/ FrameDecides

Next ==
    \/ Touches \/ Edits \/ EndTouch \/ deinit
    \/ Worker \/ Spurious \/ Frame \/ MoveMap \/ AskForFrame

(* Every thread goes on, and time passes; nobody has to touch the screen.  *)
Fairness ==
    WF_vars(EndTouch) /\ WF_vars(Worker) /\ WF_vars(Frame) /\ WF_vars(AskForFrame)

Spec == Init /\ [][Next]_vars /\ Fairness

-----------------------------------------------------------------------------
(* The count of the touch handler is that of the fingers on the screen,    *)
(* but for the event that is being delivered, and for what the editable    *)
(* layer took: it is too low only for a press taken, too high only for a   *)
(* lift taken.                                                             *)
Counted == fingers - (IF touch = "press" THEN 1 ELSE 0)
TypeOK ==
    /\ options \in Options
    /\ running \in BOOLEAN /\ elapsed \in BOOLEAN /\ chosen \in BOOLEAN /\ canceled \in BOOLEAN
    /\ stop \in BOOLEAN /\ events \in BOOLEAN /\ idling \in BOOLEAN /\ redraw \in BOOLEAN
    /\ held \in BOOLEAN /\ deaf \in BOOLEAN /\ late \in BOOLEAN /\ unheard \in BOOLEAN
    /\ mode \in Modes /\ pc \in {"top", "wait", "watch", "chosen", "call", "end", "gone"}
    /\ doing \in Modes \cup Calls
    /\ down \in Int
    /\ fingers \in 0 .. 2 /\ pointersDown \in 0 .. 2
    /\ pointersDown < Counted => "press" \in taken
    /\ pointersDown > Counted => "lift" \in taken
    /\ dragging \in BOOLEAN /\ taken \subseteq {"press", "lift"}
    /\ calls \in 0 .. MaxCalls /\ kinetic \in 0 .. MaxKinetic
    /\ touch \in {"none", "press", "check", "decide"} /\ gesture \in Gestures
    /\ frame \in {"none", "kinetic", "drawn", "idle", "check", "decide"}
    /\ saw \subseteq Checkers
    /\ app \in {"none", "moved"} /\ told \in {"stable", "moved"}

(* While a finger is down and the gesture is still to be guessed, the      *)
(* worker is at it: nobody else would ever decide whether the map is to be *)
(* panned.  So no press is forgotten, whatever the pointers do while the   *)
(* worker chooses and calls, unless it came when the worker was still      *)
(* running for the press before (a second tap, or one during a callback:   *)
(* that one is deaf until it is lifted).  A press that the editable layer  *)
(* took is the layer's: if a second finger follows, the touch handler      *)
(* guesses at a gesture that no worker will decide.                        *)
GuessIsWatched ==
    (/\ fingers > 0 /\ gesture \in Guesses /\ options.input
     /\ ~deaf /\ ~late /\ "press" \notin taken /\ ~stop) => running

(* When nobody touches the screen no gesture is under way, unless the      *)
(* worker began it for fingers that had been lifted since it looked: the   *)
(* next touch then goes on with a pan from where the finger of an earlier  *)
(* one was.  The same happens when the editable layer takes the lift of a  *)
(* press that it did not take (its drag was canceled and it was not told). *)
GestureEnds == fingers = 0 => gesture = "guess" \/ late \/ "lift" \in taken

(* Once nobody touches the screen or moves the map: the worker stops, by   *)
(* what it saw or by time (without click detection nothing is timed: there *)
(* a lift that it was not told of keeps it running); and the last thing    *)
(* that the listener was told is that the map is stable, unless a kinetic  *)
(* movement was begun with the option off, which no frame ends, or the     *)
(* editable layer took a lift and the touch handler still counts a finger. *)
Rest ==
    /\ stop => pc = "gone"
    /\ (~stop /\ running) => ~options.type /\ (fingers > 0 \/ unheard)
    /\ (~stop /\ fingers = 0) =>
          /\ touch = "none" /\ frame = "none" /\ app = "none"
          /\ \/ told = "stable"
             \/ kinetic > 0 /\ ~options.kinetic
             \/ pointersDown > 0 /\ "lift" \in taken
ComesToRest == <>[]Rest

(* ClickInfo.h: a long click is caused by pressing down but not releasing. *)
LongClickIsHeld == [][(pc = "call" /\ pc' = "end" /\ Reported = "long") => held]_vars
=============================================================================
