----------------------------- MODULE MapRenderer -----------------------------
(***************************************************************************)
(* renderers/MapRenderer.cpp with its three workers: CullWorker, which     *)
(* updates the layers, BillboardPlacementWorker and VTLabelPlacementWorker.*)
(* The application changes the list of layers and the camera and asks for  *)
(* a capture; the render thread draws frames as the platform lets it; the  *)
(* workers sleep until something is due.                                   *)
(*                                                                         *)
(* Abstracted: what is drawn, animations and kinetic movement (a frame     *)
(* asks for no other one by itself), what a layer loads (VectorLayer,      *)
(* TileLayer: here a task that ends and then tells the renderer), wakeups  *)
(* of a condition variable without a cause (the loop goes to the same wait *)
(* again).  Time: what is delayed is due later, at any time.               *)
(***************************************************************************)
EXTENDS Layers

CONSTANTS Loaders,      (* the layers that have data to load                *)
          Threads,      (* threads of the application                       *)
          MaxCalls      (* bound: calls of the application and the platform *)

Placers == {"billboard", "label"}

ASSUME MapRendererAssumption ==
    Loaders \subseteq AllLayers /\ AllLayers \cap Placers = {} /\ MaxCalls \in Nat

Workers == {"cull"} \cup Placers

VARIABLES
    sized,       (* it has a width and a height                            *)
    created,     (* _surfaceCreated                                        *)
    changed,     (* _surfaceChanged                                        *)
    redraw,      (* _redrawPending                                         *)
    requested,   (* external: the platform was asked for a frame           *)
    billboards,  (* _billboardsChanged                                     *)
    gl,          (* where the render thread is in onDrawFrame              *)
    loading,     (* what it has read of isUpdateInProgress                 *)
    capture,     (* the capture listener, which waits while updating       *)
    call,        (* calls of the application: [pc, todo]                   *)
    calls,       (* how many calls were made                               *)
    due,         (* _layerWakeupMap, _wakeupTime of the placement workers  *)
    pc,          (* where the workers are; "doze" is a wait that ends      *)
    idle,        (* _idle of the workers                                   *)
    stop,        (* _stop of the workers, set by deinit                    *)
    batch,       (* layers that the culling worker took out of the map     *)
    fresh,       (* the view that it culls is still that of the map        *)
    current,     (* layers whose _lastCullState is of the view of the map  *)
    updating,    (* layers with a task in _fetchingTasks                   *)
    telling      (* layers whose task left them and did not yet tell       *)

surfaceVars == <<sized, created, changed>>
frameVars == <<gl, loading, capture>>
workerVars == <<pc, stop, batch, fresh, current>>
taskVars == <<updating, telling>>
vars == <<layers, attached, doubled, sized, created, changed, redraw, requested, billboards, gl,
          loading, capture, call, calls, due, pc, idle, stop, batch, fresh, current, updating,
          telling>>

Never == "never"
Later == "later"
Now == "now"
NoCall == [pc |-> "none", todo |-> {}]

(* The workers have come to their first wait; the platform may have        *)
(* created the surface and told its size, and may have destroyed it again. *)
Init ==
    /\ InitLayers
    /\ created \in BOOLEAN /\ sized \in BOOLEAN /\ (created => sized) /\ changed = created
    /\ redraw = FALSE /\ requested = created /\ billboards = FALSE
    /\ gl = "none" /\ loading = FALSE /\ capture = "none"
    /\ call = [t \in Threads |-> NoCall] /\ calls = 0
    /\ due = [x \in AllLayers \cup Placers |-> Never]
    /\ pc = [w \in Workers |-> "sleep"] /\ idle = [w \in Workers |-> TRUE]
    /\ stop = FALSE /\ batch = {} /\ fresh = FALSE /\ current = {}
    /\ updating = {} /\ telling = {}

-----------------------------------------------------------------------------
(* requestRedraw; the redraw request listener asks the platform. *)
requestRedraw == redraw' = TRUE /\ requested' = TRUE

(* A worker that waits is notified and finds that it is not idle. *)
Notified(w) == IF pc[w] \in {"sleep", "doze"} THEN "loop" ELSE pc[w]

(* CullWorker::init of the layers of S: an earlier wakeup stays. *)
InitCull(S, when) ==
    LET new == {l \in S : due[l] # Now /\ due[l] # when}
    IN  /\ due' = [x \in DOMAIN due |-> IF x \in new THEN when ELSE due[x]]
        /\ IF new = {} THEN UNCHANGED <<pc, idle>>
           ELSE pc' = [pc EXCEPT !["cull"] = Notified("cull")] /\ idle' = [idle EXCEPT !["cull"] = FALSE]

(* init of a placement worker. *)
InitPlacement(p, when) ==
    /\ due' = [due EXCEPT ![p] = IF due[p] = Now THEN Now ELSE when]
    /\ pc' = [pc EXCEPT ![p] = Notified(p)]
    /\ idle' = [idle EXCEPT ![p] = FALSE]

layerChanged(S) == IF created THEN InitCull(S, Now) ELSE UNCHANGED <<due, pc, idle>>

-----------------------------------------------------------------------------
(* The application. *)

Begin(t, c) ==
    /\ ~stop /\ call[t] = NoCall /\ calls < MaxCalls
    /\ calls' = calls + 1
    /\ call' = [call EXCEPT ![t] = c]

Return(t) == call' = [call EXCEPT ![t] = NoCall]

ChangeLayers(t) ==
    /\ \/ \E l \in AllLayers :
             /\ (\E i \in 1 .. MaxList : set(i, l) \/ insert(i, l)) \/ addAll(<<l>>)
             /\ Begin(t, [pc |-> "layers", todo |-> {l}])
       \/ \E s \in SomeLists : setAll(s) /\ Begin(t, [pc |-> "layers", todo |-> Entries(s)])
       \/ clear /\ Begin(t, [pc |-> "layers", todo |-> {}])
       \/ \E l \in AllLayers : remove(l) /\ Begin(t, [pc |-> "redraw", todo |-> {}])
    /\ UNCHANGED <<surfaceVars, redraw, requested, billboards, frameVars, due, idle, workerVars,
                   taskVars>>

TellLayers(t) ==
    /\ call[t].pc = "layers"
    /\ layerChanged(call[t].todo)
    /\ Return(t)
    /\ UNCHANGED <<listVars, surfaceVars, redraw, requested, billboards, frameVars, calls, stop,
                   batch, fresh, current, taskVars>>

TellRedraw(t) ==
    /\ call[t].pc = "redraw"
    /\ requestRedraw /\ Return(t)
    /\ UNCHANGED <<listVars, surfaceVars, billboards, frameVars, calls, due, idle, workerVars,
                   taskVars>>

(* calculateCameraEvent without a duration, or an option of the view: the  *)
(* view state is changed under the mutex, then viewChanged is called.      *)
MoveCamera(t) ==
    /\ Begin(t, [pc |-> "moved", todo |-> {}])
    /\ fresh' = FALSE /\ current' = {}
    /\ UNCHANGED <<listVars, surfaceVars, redraw, requested, billboards, frameVars, due, idle, pc, stop,
                   batch, taskVars>>

(* Mutant: the entries that were moved from are listed too. *)
ListLayersAll(t) ==
    /\ call[t].pc = "moved"
    /\ call' = [call EXCEPT ![t] = [pc |-> "listed", todo |-> Entries(layers)]]
    /\ UNCHANGED <<listVars, surfaceVars, redraw, requested, billboards, frameVars, calls, due,
                   idle, workerVars, taskVars>>

(* viewChanged: the layers that are listed, then the wakeups.  An entry    *)
(* that was moved from (ListedIffAttached) would end the program: it is    *)
(* passed over here.                                                       *)
ListLayers(t) ==
    /\ call[t].pc = "moved"
    /\ call' = [call EXCEPT ![t] = [pc |-> "listed", todo |-> Entries(layers) \ {Null}]]
    /\ UNCHANGED <<listVars, surfaceVars, redraw, requested, billboards, frameVars, calls, due,
                   idle, workerVars, taskVars>>

viewChanged(t) ==
    /\ call[t].pc = "listed"
    /\ \E when \in {Now, Later} : InitCull(call[t].todo, when)
    /\ billboards' = TRUE /\ requestRedraw /\ Return(t)
    /\ UNCHANGED <<listVars, surfaceVars, frameVars, calls, stop, batch, fresh, current, taskVars>>

captureRendering(t) ==
    /\ Begin(t, [pc |-> "redraw", todo |-> {}])
    /\ capture = "none" /\ capture' = "wanted"
    /\ UNCHANGED <<listVars, surfaceVars, redraw, requested, billboards, gl, loading, due, idle,
                   workerVars, taskVars>>

(* deinit, from the destructor of the map view. *)
deinit ==
    /\ ~stop /\ calls < MaxCalls /\ gl = "none" /\ \A t \in Threads : call[t] = NoCall
    /\ stop' = TRUE
    /\ calls' = calls + 1
    /\ pc' = [w \in Workers |-> Notified(w)]
    /\ UNCHANGED <<listVars, surfaceVars, redraw, requested, billboards, frameVars, call, due,
                   idle, batch, fresh, current, taskVars>>

-----------------------------------------------------------------------------
(* The render thread. *)

Platform == gl = "none" /\ ~stop /\ calls < MaxCalls /\ calls' = calls + 1

onSurfaceCreated ==
    /\ Platform
    /\ created' = TRUE /\ changed' = TRUE /\ requested' = TRUE
    /\ UNCHANGED <<listVars, sized, redraw, billboards, frameVars, call, due, idle, workerVars,
                   taskVars>>

(* The size may be nothing; the projection matrix changes with it. *)
onSurfaceChanged ==
    /\ Platform /\ created
    /\ sized' \in BOOLEAN /\ fresh' = FALSE /\ current' = {} /\ changed' = TRUE /\ requested' = TRUE
    /\ UNCHANGED <<listVars, created, redraw, billboards, frameVars, call, due, idle, pc, stop, batch,
                   taskVars>>

onSurfaceDestroyed ==
    /\ Platform /\ created
    /\ created' = FALSE
    /\ UNCHANGED <<listVars, sized, changed, redraw, requested, billboards, frameVars, call, due,
                   idle, workerVars, taskVars>>

(* onDrawFrame, with viewChanged without delay if the surface has changed. *)
DrawFrame ==
    /\ gl = "none" /\ requested /\ created /\ ~stop
    /\ gl' = "draw"
    /\ changed' = FALSE /\ redraw' = changed /\ requested' = changed
    /\ billboards' = (billboards \/ changed)
    /\ IF changed THEN InitCull(Entries(layers) \ {Null}, Now) ELSE UNCHANGED <<due, pc, idle>>
    /\ UNCHANGED <<listVars, sized, created, loading, capture, call, calls, stop, batch, fresh,
                   current, taskVars>>

(* The layers are drawn; then the captures are looked at: whether a layer  *)
(* is updating first, the flags of the workers after it.                   *)
DrawLayers ==
    /\ gl = "draw"
    /\ gl' = IF capture = "wanted" THEN "capture" ELSE "drawn"
    /\ loading' = (capture = "wanted" /\ updating \cap Entries(layers) # {})
    /\ UNCHANGED <<listVars, surfaceVars, redraw, requested, billboards, capture, call, calls, due,
                   idle, workerVars, taskVars>>

Busy == redraw \/ loading \/ \E w \in Workers : ~idle[w]

(* Mutant: a capture that has to wait does not ask for another frame. *)
handleRendererCaptureCallbacksOnce ==
    /\ gl = "capture" /\ gl' = "drawn"
    /\ capture' = IF Busy THEN capture ELSE "done"
    /\ UNCHANGED <<listVars, surfaceVars, redraw, requested, billboards, loading, call, calls, due,
                   idle, workerVars, taskVars>>

handleRendererCaptureCallbacks ==
    /\ gl = "capture" /\ gl' = "drawn"
    /\ IF Busy THEN requestRedraw /\ UNCHANGED capture
       ELSE capture' = "done" /\ UNCHANGED <<redraw, requested>>
    /\ UNCHANGED <<listVars, surfaceVars, billboards, loading, call, calls, due, idle, workerVars,
                   taskVars>>

EndFrame ==
    /\ gl = "drawn" /\ gl' = "none"
    /\ billboards' = FALSE
    /\ IF billboards THEN InitPlacement("billboard", Later) ELSE UNCHANGED <<due, pc, idle>>
    /\ loading' = FALSE
    /\ UNCHANGED <<listVars, surfaceVars, redraw, requested, capture, call, calls, stop, batch,
                   fresh, current, taskVars>>

Frame == DrawFrame \/ DrawLayers \/ handleRendererCaptureCallbacks \/ EndFrame

-----------------------------------------------------------------------------
(* The workers. *)

TimePasses(x) ==
    /\ due[x] = Later
    /\ due' = [due EXCEPT ![x] = Now]
    /\ UNCHANGED <<listVars, surfaceVars, redraw, requested, billboards, frameVars, call, calls,
                   idle, workerVars, taskVars>>

Watched(w) == IF w = "cull" THEN AllLayers ELSE {w}
DueNow(w) == {x \in Watched(w) : due[x] = Now}

(* Nothing is due: the worker waits, for a day if nothing is to come. *)
Wait(w) ==
    /\ pc[w] = "loop" /\ ~stop /\ DueNow(w) = {}
    /\ LET nothing == \A x \in Watched(w) : due[x] = Never
       IN  /\ idle' = [idle EXCEPT ![w] = nothing]
           /\ pc' = [pc EXCEPT ![w] = IF nothing THEN "sleep" ELSE "doze"]
    /\ UNCHANGED <<listVars, surfaceVars, redraw, requested, billboards, frameVars, call, calls,
                   due, stop, batch, fresh, current, taskVars>>

(* run of a worker that was told to stop returns. *)
Leave(w) ==
    /\ pc[w] = "loop" /\ stop
    /\ pc' = [pc EXCEPT ![w] = "gone"]
    /\ idle' = [idle EXCEPT ![w] = FALSE]
    /\ UNCHANGED <<listVars, surfaceVars, redraw, requested, billboards, frameVars, call, calls,
                   due, stop, batch, fresh, current, taskVars>>

(* A worker wakes up for what is due, at once or when its wait ends. *)
TakeDue(w) ==
    /\ pc[w] \in {"loop", "doze"} /\ ~stop /\ DueNow(w) # {}
    /\ due' = [x \in DOMAIN due |-> IF x \in DueNow(w) THEN Never ELSE due[x]]

(* The culling worker reads the view state; a view without a size is not   *)
(* culled, and the layers are forgotten.                                   *)
TakeLayers ==
    /\ TakeDue("cull")
    /\ IF sized THEN pc' = [pc EXCEPT !["cull"] = "update"] /\ batch' = DueNow("cull") /\ fresh' = TRUE
       ELSE pc' = [pc EXCEPT !["cull"] = "loop"] /\ UNCHANGED <<batch, fresh>>
    /\ UNCHANGED <<listVars, surfaceVars, redraw, requested, billboards, frameVars, call, calls, idle,
                   stop, current, taskVars>>

(* Mutant: the layers of a batch are taken in one culling pass. *)
UpdateLayerOnce(l) ==
    /\ pc["cull"] = "update" /\ l \in batch
    /\ batch' = {}
    /\ current' = IF fresh THEN current \cup {l} ELSE current \ {l}
    /\ fresh' = (fresh /\ batch' # {})
    /\ updating' = updating \cup ({l} \cap attached \cap Loaders)
    /\ pc' = [pc EXCEPT !["cull"] = "loop"]
    /\ UNCHANGED <<listVars, surfaceVars, redraw, requested, billboards, frameVars, call, calls,
                   due, idle, stop, telling>>

(* Layer::update with the loadData of the layer, if it is attached. *)
UpdateLayer(l) ==
    /\ pc["cull"] = "update" /\ l \in batch
    /\ batch' = batch \ {l}
    /\ current' = IF fresh THEN current \cup {l} ELSE current \ {l}
    /\ fresh' = (fresh /\ batch' # {})
    /\ updating' = updating \cup ({l} \cap attached \cap Loaders)
    /\ pc' = [pc EXCEPT !["cull"] = IF batch' = {} THEN "loop" ELSE "update"]
    /\ UNCHANGED <<listVars, surfaceVars, redraw, requested, billboards, frameVars, call, calls,
                   due, idle, stop, telling>>

(* What it calculates it does without the mutex, but not idle until it     *)
(* waits again.                                                            *)
calculatePlacement(p) ==
    /\ TakeDue(p)
    /\ pc' = [pc EXCEPT ![p] = "loop"]
    /\ requestRedraw
    /\ UNCHANGED <<listVars, surfaceVars, billboards, frameVars, call, calls, idle, stop, batch, fresh,
                   current, taskVars>>

-----------------------------------------------------------------------------
(* A fetch task leaves _fetchingTasks, then tells the renderer that        *)
(* billboards or labels changed, and asks for a frame.                     *)
EndFetch(l) ==
    /\ l \in updating
    /\ updating' = updating \ {l} /\ telling' = telling \cup {l}
    /\ UNCHANGED <<listVars, surfaceVars, redraw, requested, billboards, frameVars, call, calls,
                   due, idle, workerVars>>

TellFetched(l) ==
    /\ l \in telling
    /\ telling' = telling \ {l}
    /\ IF l \notin attached THEN UNCHANGED <<due, pc, idle, billboards, redraw, requested>>
       ELSE /\ requestRedraw
            /\ \/ billboards' = TRUE /\ UNCHANGED <<due, pc, idle>>
               \/ InitPlacement("label", Now) /\ UNCHANGED billboards
    /\ UNCHANGED <<listVars, surfaceVars, frameVars, call, calls, stop, batch, fresh, current,
                   updating>>

-----------------------------------------------------------------------------
Caller(t) == TellLayers(t) \/ TellRedraw(t) \/ ListLayers(t) \/ viewChanged(t)

Culling == Wait("cull") \/ Leave("cull") \/ TakeLayers \/ \E l \in AllLayers : UpdateLayer(l)
Placing(p) == Wait(p) \/ Leave(p) \/ calculatePlacement(p)
Fetching == \E l \in AllLayers : EndFetch(l) \/ TellFetched(l)

Background ==
    \/ \E t \in Threads : Caller(t)
    \/ Culling \/ (\E p \in Placers : Placing(p)) \/ Fetching
    \/ \E x \in AllLayers \cup Placers : TimePasses(x)

Next ==
    \/ \E t \in Threads : ChangeLayers(t) \/ MoveCamera(t) \/ captureRendering(t)
    \/ deinit \/ onSurfaceCreated \/ onSurfaceChanged \/ onSurfaceDestroyed
    \/ Frame \/ Background

(* The platform draws the frames that it was asked for, and while anybody  *)
(* else has something to do, somebody does; nobody has to call.            *)
Fairness == WF_vars(Frame) /\ WF_vars(Background)

Spec == Init /\ [][Next]_vars /\ Fairness

-----------------------------------------------------------------------------
TypeOK ==
    /\ layers \in Lists /\ attached \subseteq AllLayers
    /\ doubled \in BOOLEAN /\ sized \in BOOLEAN /\ created \in BOOLEAN /\ changed \in BOOLEAN
    /\ redraw \in BOOLEAN /\ requested \in BOOLEAN /\ billboards \in BOOLEAN
    /\ loading \in BOOLEAN /\ stop \in BOOLEAN /\ fresh \in BOOLEAN
    /\ calls \in 0 .. MaxCalls
    /\ gl \in {"none", "draw", "capture", "drawn"}
    /\ capture \in {"none", "wanted", "done"}
    /\ call \in [Threads -> [pc: {"none", "layers", "redraw", "moved", "listed"}, todo: SUBSET AllLayers]]
    /\ due \in [AllLayers \cup Placers -> {Never, Later, Now}]
    /\ pc \in [Workers -> {"loop", "sleep", "doze", "update", "gone"}]
    /\ idle \in [Workers -> BOOLEAN]
    /\ batch \subseteq AllLayers /\ current \subseteq AllLayers
    /\ updating \subseteq AllLayers /\ telling \subseteq AllLayers

(* Nobody calls, and the culling worker has nothing to do. *)
CullingAtRest ==
    /\ \A t \in Threads : call[t] = NoCall
    /\ ~stop /\ idle["cull"]

(* When nobody calls, the culling worker says that it is idle, and the     *)
(* surface is there and its change was seen by a frame, each layer of the  *)
(* list was last culled for the view as it is now: whatever calls,         *)
(* surfaces, frames and batches came together, and although layers that    *)
(* change while there is no surface are ignored and those of a view with   *)
(* no size are forgotten.                                                  *)
CulledAtRest ==
    (CullingAtRest /\ created /\ sized /\ ~changed) =>
        Entries(layers) \ {Null} \subseteq current

(* Once nobody calls any more, everything comes to rest: no frame is asked *)
(* for, nothing is due, every worker sleeps and says that it is idle, and  *)
(* a capture that waited for this is delivered; or, after deinit, every    *)
(* worker has left, from the middle of whatever sleep.                     *)
Rest ==
    /\ gl = "none" /\ \A t \in Threads : call[t] = NoCall
    /\ updating = {} /\ telling = {}
    /\ IF stop THEN \A w \in Workers : pc[w] = "gone"
       ELSE /\ \A w \in Workers : idle[w] /\ pc[w] = "sleep"
            /\ \A x \in AllLayers \cup Placers : due[x] = Never
            /\ created => ~requested /\ capture # "wanted"
ComesToRest == <>[]Rest

(* MapRenderer.h: the capture is delayed until all asynchronous processes  *)
(* are finished.                                                           *)
AllDone ==
    /\ \A x \in AllLayers \cup Placers : due[x] = Never
    /\ batch = {} /\ updating = {} /\ telling = {} /\ ~billboards
CapturedWhenDone == [][capture' # capture /\ capture' = "done" => AllDone]_vars
=============================================================================
