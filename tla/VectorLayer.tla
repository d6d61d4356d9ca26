----------------------------- MODULE VectorLayer -----------------------------
(***************************************************************************)
(* layers/VectorLayer.cpp and layers/ClusteredVectorLayer.cpp, over        *)
(* Layer.cpp and a LocalVectorDataSource: a layer that draws the elements  *)
(* of its source, or clusters of them.  The culling worker, the threads of *)
(* the application and the threads of the envelope pool work on it at      *)
(* once: each thread that calls loadData makes its way through it in load, *)
(* each thread of the pool through FetchTask::run in worker.               *)
(*                                                                         *)
(* A fetch task holds nothing but its layer, so the tasks that have not    *)
(* started are a number.  cancel reaches only those: a started task never  *)
(* looks at the flag again.                                                *)
(*                                                                         *)
(* Abstracted: geometry (a view is the elements in its frustum and the     *)
(* surface it projects on), opacity and zoom range (they hide a layer as   *)
(* visible does), the visibility of a single element, the kinds of         *)
(* elements and their renderers, simplified geometry, how clusters are     *)
(* merged and drawn, the layer's being detached from the map.              *)
(***************************************************************************)
EXTENDS LocalVectorDataSource, FiniteSets

CONSTANTS Workers,       (* threads of the envelope pool                   *)
          Surfaces,      (* projection surfaces                            *)
          Views,         (* views of the map: [seen, surface]              *)
          NoView,        (* no view has been culled yet                    *)
          NoDrawing,     (* an element without draw data                   *)
          Cull           (* the culling worker, among the threads          *)

ASSUME VectorLayerAssumption ==
    /\ \A v \in Views : v.seen \subseteq Elements /\ v.surface \in Surfaces
    /\ NoView \notin Views /\ NoDrawing \notin [ver: Nat, surface: Surfaces]
    /\ Cull \notin Threads /\ Workers \cap (Threads \cup {Cull}) = {}

Loaders == Threads \cup {Cull}
IdleWorker == [pc |-> "idle", view |-> NoView, snap |-> {}]
NoClusters == [e \in Elements |-> 0]

VARIABLES
    clustered,   (* the layer is a ClusteredVectorLayer                    *)
    camera,      (* external: the view state of the map renderer           *)
    wakeup,      (* the layer is in _layerWakeupMap of the culling worker  *)
    load,        (* where each thread is in loadData                       *)
    cull,        (* the view that the culling worker loads                 *)
    visible,     (* _visible                                               *)
    lastCull,    (* _lastCullState                                         *)
    queued,      (* fetch tasks that have not started                      *)
    worker,      (* the threads of the pool and their fetch tasks          *)
    shown,       (* the elements of the renderers                          *)
    built,       (* the draw data of the elements                          *)
    flag,        (* _refreshRootCluster                                    *)
    clusters,    (* _clusters: the version of each element in them, or 0   *)
    singletons,  (* the clusters that each task builds, likewise           *)
    over,        (* history: elements whose state changed since a thread   *)
                 (* read what it is about to apply; of a task that builds  *)
                 (* clusters, those it had read too early to follow a task *)
                 (* that replaced them meanwhile                           *)
    astray,      (* history: elements last applied from such a reading     *)
    missed       (* history: elements that changed when the layer was not  *)
                 (* told, or was hidden, and were not drawn anew since     *)

layerVars == <<clustered, camera, wakeup, load, cull, visible, lastCull, queued, worker,
               shown, built, flag, clusters, singletons, over, astray, missed>>
vars == <<kdTree, stored, attached, version, call, calls, crossed, clustered, camera, wakeup,
          load, cull, visible, lastCull, queued, worker, shown, built, flag, clusters, singletons,
          over, astray, missed>>

Init ==
    /\ InitSource
    /\ clustered \in BOOLEAN
    /\ camera \in Views /\ wakeup = TRUE
    /\ load = [p \in Loaders |-> "none"]
    /\ cull = NoView /\ visible = TRUE /\ lastCull = NoView
    /\ queued = 0 /\ worker = [w \in Workers |-> IdleWorker]
    /\ shown = {} /\ built = [e \in Elements |-> NoDrawing]
    /\ flag = TRUE /\ clusters = NoClusters /\ singletons = [w \in Workers |-> NoClusters]
    /\ over = [p \in Workers \cup Loaders |-> {}] /\ astray = {} /\ missed = {}

-----------------------------------------------------------------------------
(* History. *)

(* The tasks that have read which elements there are. *)
HaveRead == {w \in Workers : worker[w].pc \in {"apply", "swap"}}

(* Those that have read whether and where to draw, and a thread that found *)
(* the layer hidden.                                                       *)
HaveDecided == {w \in Workers : worker[w].pc \in {"load", "apply", "clear"}}
                   \cup {p \in Loaders : load[p] = "clear"}

Overtaken(P, S) == over' = [p \in Workers \cup Loaders |-> IF p \in P THEN over[p] \cup S ELSE over[p]]
Fresh(p) == over' = [over EXCEPT ![p] = {}]

-----------------------------------------------------------------------------
(* The application: calls of the data source, in the order of its code.    *)

Mutate(t) ==
    /\ \/ \E e \in Elements : add(t, e) \/ remove(t, e) \/ change(t, e)
       \/ \E S \in SUBSET Elements : addAll(t, S) \/ removeAll(t, S) \/ setAll(t, S)
       \/ clear(t)
    /\ Overtaken(HaveRead, (stored \ stored') \cup (stored' \ stored))
    /\ UNCHANGED <<clustered, camera, wakeup, load, cull, visible, lastCull, queued, worker,
                   shown, built, flag, clusters, singletons, astray, missed>>

Notify(t) ==
    /\ notifyElementChanged(t)
    /\ missed' = missed \cup (call[t].added \ attached)
    /\ UNCHANGED <<clustered, camera, wakeup, load, cull, visible, lastCull, queued, worker,
                   shown, built, flag, clusters, singletons, over, astray>>

Announce(t) ==
    /\ Insert(t) \/ Reindex(t) \/ attachElement(t) \/ detachElement(t)
    /\ Overtaken(HaveRead, stored' \ stored)
    /\ UNCHANGED <<clustered, camera, wakeup, load, cull, visible, lastCull, queued, worker,
                   shown, built, flag, clusters, singletons, astray, missed>>

Drawing(e, v) == [ver |-> version[e], surface |-> v.surface]

(* Mutant: an element that has draw data keeps them when it changes. *)
syncRendererElementOnce(e, removed) ==
    /\ shown' = IF visible /\ ~removed THEN shown \cup {e} ELSE shown \ {e}
    /\ built' = IF visible /\ ~removed /\ built[e] = NoDrawing
                THEN [built EXCEPT ![e] = Drawing(e, lastCull)] ELSE built
    /\ missed' = IF visible /\ ~removed THEN missed \ {e} ELSE missed
    /\ astray' = IF removed <=> e \in stored THEN astray \cup {e} ELSE astray \ {e}

(* refreshElement with syncRendererElement, told of a single element. *)
syncRendererElement(e, removed) ==
    /\ IF visible /\ ~removed
       THEN /\ shown' = shown \cup {e}
            /\ built' = [built EXCEPT ![e] = Drawing(e, lastCull)]
            /\ missed' = missed \ {e}
       ELSE /\ shown' = shown \ {e}
            /\ missed' = IF removed THEN missed ELSE missed \cup {e}
            /\ UNCHANGED built
    /\ astray' = IF removed <=> e \in stored THEN astray \cup {e} ELSE astray \ {e}

refreshElement(t) ==
    /\ call[t].pc = "tell" /\ load[t] = "none"
    /\ ~call[t].bulk /\ ~clustered
    /\ \E e \in call[t].added \cup call[t].removed :
          IF lastCull = NoView THEN UNCHANGED <<shown, built, astray, missed>>
          ELSE syncRendererElement(e, call[t].added = {})
    /\ Told(t)
    /\ UNCHANGED <<kdTree, stored, attached, version, calls, crossed, clustered, camera, wakeup,
                   load, cull, visible, lastCull, queued, worker, flag, clusters, singletons, over>>

(* Mutant: a change is taken for one of the geometry of the view only. *)
refreshUnflagged(t) ==
    /\ call[t].pc = "refresh" \/ (call[t].pc = "tell" /\ (call[t].bulk \/ clustered))
    /\ load[t] = "none"
    /\ load' = [load EXCEPT ![t] = "cancel"]
    /\ UNCHANGED <<sourceVars, clustered, camera, wakeup, cull, visible, lastCull, queued,
                   worker, shown, built, flag, clusters, singletons, over, astray, missed>>

(* Told of several elements, or of any if it is clustered, the layer is    *)
(* refreshed as a whole.                                                   *)
refresh(t) ==
    /\ call[t].pc = "refresh" \/ (call[t].pc = "tell" /\ (call[t].bulk \/ clustered))
    /\ load[t] = "none"
    /\ flag' = (flag \/ clustered)
    /\ load' = [load EXCEPT ![t] = "cancel"]
    /\ UNCHANGED <<sourceVars, clustered, camera, wakeup, cull, visible, lastCull, queued,
                   worker, shown, built, clusters, singletons, over, astray, missed>>

setVisible(t) ==
    /\ Begin(t, [Idle EXCEPT !.pc = "refresh"])
    /\ visible' = ~visible
    /\ Overtaken(HaveDecided, Elements)
    /\ UNCHANGED <<kdTree, stored, attached, version, crossed, clustered, camera, wakeup, load,
                   cull, lastCull, queued, worker, shown, built, flag, clusters, singletons, astray, missed>>

(* Layer::refresh, VectorDataSource::notifyElementsChanged. *)
CallRefresh(t) ==
    /\ Begin(t, [Idle EXCEPT !.pc = "refresh"])
    /\ UNCHANGED <<kdTree, stored, attached, version, crossed, layerVars>>

-----------------------------------------------------------------------------
(* The culling worker. *)

ViewChanged(v) ==
    /\ calls < MaxCalls /\ v # camera
    /\ calls' = calls + 1
    /\ camera' = v /\ wakeup' = TRUE
    /\ UNCHANGED <<kdTree, stored, attached, version, call, crossed, clustered, load, cull, visible,
                   lastCull, queued, worker, shown, built, flag, clusters, singletons, over, astray, missed>>

TakeWakeup ==
    /\ wakeup /\ load[Cull] = "none"
    /\ wakeup' = FALSE
    /\ cull' = camera
    /\ load' = [load EXCEPT ![Cull] = "cancel"]
    /\ UNCHANGED <<sourceVars, clustered, camera, visible, lastCull, queued, worker, shown,
                   built, flag, clusters, singletons, over, astray, missed>>

(* No task is left that will read the view. *)
NobodyWillRead == visible /\ queued = 0 /\ \A w \in Workers : worker[w].pc # "started"

(* Layer::update saves the view after loadData has handed out the task,    *)
(* which may have read the older one by then (clusters are for every view, *)
(* but before the first one none are built).                               *)
SaveCullState ==
    /\ load[Cull] = "save"
    /\ lastCull' = cull
    /\ astray' = IF cull # lastCull /\ NobodyWillRead /\ (clustered => lastCull = NoView)
                 THEN Elements ELSE astray
    /\ cull' = NoView
    /\ load' = [load EXCEPT ![Cull] = "none"]
    /\ Overtaken({w \in Workers : worker[w].pc \in {"load", "apply", "clear"} /\ worker[w].view # cull},
                 Elements)
    /\ UNCHANGED <<sourceVars, clustered, camera, wakeup, visible, queued, worker, shown,
                   built, flag, clusters, singletons, missed>>

-----------------------------------------------------------------------------
(* loadData. *)

(* The end of loadData, and with it of the call that led to it. *)
Return(p) ==
    /\ load' = [load EXCEPT ![p] = IF p = Cull THEN "save" ELSE "none"]
    /\ IF p = Cull THEN UNCHANGED call ELSE Told(p)
    /\ UNCHANGED <<kdTree, stored, attached, version, calls, crossed>>

(* Layer::refresh before any view was culled leaves it to the worker. *)
RequestCull(t) ==
    /\ load[t] = "cancel" /\ t # Cull /\ lastCull = NoView
    /\ wakeup' = TRUE
    /\ Return(t)
    /\ UNCHANGED <<clustered, camera, cull, visible, lastCull, queued, worker, shown, built,
                   flag, clusters, singletons, over, astray, missed>>

(* FetchTask::cancel of every task: those that have not started are gone. *)
CancelTasks(p) ==
    /\ load[p] = "cancel" /\ (p = Cull \/ lastCull # NoView)
    /\ queued' = 0
    /\ load' = [load EXCEPT ![p] = "test"]
    /\ UNCHANGED <<sourceVars, clustered, camera, wakeup, cull, visible, lastCull, worker,
                   shown, built, flag, clusters, singletons, over, astray, missed>>

TestVisible(p) ==
    /\ load[p] = "test"
    /\ load' = [load EXCEPT ![p] = IF visible THEN "execute" ELSE "clear"]
    /\ UNCHANGED <<sourceVars, clustered, camera, wakeup, cull, visible, lastCull, queued,
                   worker, shown, built, flag, clusters, singletons, over, astray, missed>>

(* Clearing or filling the renderers settles every element at once. *)
Clear(p) ==
    /\ load[p] = "clear"
    /\ shown' = {}
    /\ astray' = IF clustered THEN astray ELSE over[p]
    /\ Return(p) /\ Fresh(p)
    /\ UNCHANGED <<clustered, camera, wakeup, cull, visible, lastCull, queued, worker, built,
                   flag, clusters, singletons, missed>>

ExecuteTask(p) ==
    /\ load[p] = "execute"
    /\ queued' = queued + 1
    /\ Return(p)
    /\ UNCHANGED <<clustered, camera, wakeup, cull, visible, lastCull, worker, shown, built,
                   flag, clusters, singletons, over, astray, missed>>

Loading(p) == CancelTasks(p) \/ TestVisible(p) \/ Clear(p) \/ ExecuteTask(p)

-----------------------------------------------------------------------------
(* FetchTask::run. *)

(* What a thread has read is of no use any more. *)
Leaving == [IdleWorker EXCEPT !.pc = "leave"]
Leave(w) == worker' = [worker EXCEPT ![w] = Leaving] /\ Fresh(w)

StartTask(w) ==
    /\ worker[w].pc = "idle" /\ queued > 0
    /\ queued' = queued - 1
    /\ worker' = [worker EXCEPT ![w] = [IdleWorker EXCEPT !.pc = "started"]]
    /\ UNCHANGED <<sourceVars, clustered, camera, wakeup, load, cull, visible, lastCull, shown,
                   built, flag, clusters, singletons, over, astray, missed>>

ReadCullState(w) ==
    /\ worker[w].pc = "started"
    /\ worker' = [worker EXCEPT ![w].pc = IF visible /\ lastCull # NoView THEN "load" ELSE "clear",
                                ![w].view = lastCull]
    /\ UNCHANGED <<sourceVars, clustered, camera, wakeup, load, cull, visible, lastCull, queued,
                   shown, built, flag, clusters, singletons, over, astray, missed>>

ClearByTask(w) ==
    /\ worker[w].pc = "clear"
    /\ shown' = {}
    /\ astray' = IF clustered THEN astray ELSE over[w]
    /\ Leave(w)
    /\ UNCHANGED <<sourceVars, clustered, camera, wakeup, load, cull, visible, lastCull, queued,
                   built, flag, clusters, singletons, missed>>

(* loadElements of the data source, or getAll, under its mutex. *)
ReadSource(w) ==
    /\ worker[w].pc = "load" /\ ~Stuck
    /\ worker' = [worker EXCEPT ![w].pc = IF clustered THEN "swap" ELSE "apply",
                                ![w].snap = IF clustered THEN stored
                                            ELSE stored \cap worker[w].view.seen]
    /\ IF clustered THEN Fresh(w) ELSE UNCHANGED over
    /\ UNCHANGED <<sourceVars, clustered, camera, wakeup, load, cull, visible, lastCull, queued,
                   shown, built, flag, clusters, singletons, astray, missed>>

(* Mutant: the draw data of an element is built once. *)
loadElementsOnce(w) ==
    /\ worker[w].pc = "apply"
    /\ shown' = worker[w].snap
    /\ built' = [e \in Elements |-> IF e \in worker[w].snap /\ built[e] = NoDrawing
                                    THEN Drawing(e, worker[w].view) ELSE built[e]]
    /\ astray' = over[w]
    /\ missed' = {e \in missed : built'[e] = built[e]}
    /\ Leave(w)
    /\ UNCHANGED <<sourceVars, clustered, camera, wakeup, load, cull, visible, lastCull, queued,
                   flag, clusters, singletons>>

(* addRendererElement builds draw data only where there is none, or none   *)
(* for this surface.                                                       *)
loadElements(w) ==
    LET v == worker[w].view
    IN  /\ worker[w].pc = "apply"
        /\ shown' = worker[w].snap
        /\ built' = [e \in Elements |->
                       IF e \in worker[w].snap
                          /\ (built[e] = NoDrawing \/ built[e].surface # v.surface)
                       THEN Drawing(e, v) ELSE built[e]]
        /\ astray' = over[w]
        /\ missed' = {e \in missed : built'[e] = built[e]}
        /\ Leave(w)
        /\ UNCHANGED <<sourceVars, clustered, camera, wakeup, load, cull, visible, lastCull,
                       queued, flag, clusters, singletons>>

SwapRefresh(w) ==
    /\ worker[w].pc = "swap"
    /\ flag' = FALSE
    /\ IF flag THEN worker' = [worker EXCEPT ![w].pc = "rebuild"] /\ UNCHANGED over ELSE Leave(w)
    /\ UNCHANGED <<sourceVars, clustered, camera, wakeup, load, cull, visible, lastCull, queued,
                   shown, built, clusters, singletons, astray, missed>>

(* rebuildClusters reads where the elements are, one after the other, ...  *)
createSingletonCluster(w) ==
    /\ worker[w].pc = "rebuild"
    /\ \E e \in worker[w].snap :
          /\ singletons[w][e] = 0
          /\ singletons' = [singletons EXCEPT ![w][e] = version[e]]
    /\ UNCHANGED <<sourceVars, clustered, camera, wakeup, load, cull, visible, lastCull, queued,
                   worker, shown, built, flag, clusters, over, astray, missed>>

(* What a task has read of e for its clusters is no longer true.           *)
Stale(w, e) ==
    \/ (e \in worker[w].snap) # (e \in stored)
    \/ e \in worker[w].snap /\ singletons[w][e] \notin {0, version[e]}

(* ... merges them, and replaces the clusters under _clusterMutex.  That   *)
(* nothing is replaced if they are the same makes no difference here.  A   *)
(* task that was ahead, and is slower, will replace them by older ones.    *)
rebuildClusters(w) ==
    /\ worker[w].pc = "rebuild"
    /\ \A e \in worker[w].snap : singletons[w][e] # 0
    /\ clusters' = singletons[w]
    /\ singletons' = [singletons EXCEPT ![w] = NoClusters]
    /\ astray' = over[w]
    /\ worker' = [worker EXCEPT ![w] = Leaving]
    /\ over' = [p \in Workers \cup Loaders |->
                  CASE p = w -> {}
                    [] p \in Workers \ {w} /\ worker[p].pc = "rebuild" ->
                          over[p] \cup {e \in Elements : Stale(p, e)}
                    [] OTHER -> over[p]]
    /\ UNCHANGED <<sourceVars, clustered, camera, wakeup, load, cull, visible, lastCull, queued,
                   shown, built, flag, missed>>

(* Mutant: the task of a hidden layer returns early. *)
EndTaskDrawn(w) ==
    /\ worker[w].pc = "leave" /\ visible
    /\ worker' = [worker EXCEPT ![w] = IdleWorker]
    /\ UNCHANGED <<sourceVars, clustered, camera, wakeup, load, cull, visible, lastCull, queued,
                   shown, built, flag, clusters, singletons, over, astray, missed>>

(* The task leaves _fetchingTasks. *)
EndTask(w) ==
    /\ worker[w].pc = "leave"
    /\ worker' = [worker EXCEPT ![w] = IdleWorker]
    /\ UNCHANGED <<sourceVars, clustered, camera, wakeup, load, cull, visible, lastCull, queued,
                   shown, built, flag, clusters, singletons, over, astray, missed>>

Worker(w) ==
    StartTask(w) \/ ReadCullState(w) \/ ClearByTask(w) \/ ReadSource(w) \/ loadElements(w)
        \/ SwapRefresh(w) \/ createSingletonCluster(w) \/ rebuildClusters(w) \/ EndTask(w)

-----------------------------------------------------------------------------
Application(t) ==
    Mutate(t) \/ setVisible(t) \/ CallRefresh(t)

Caller(t) ==
    Notify(t) \/ Announce(t) \/ refreshElement(t) \/ refresh(t) \/ RequestCull(t) \/ Loading(t)

Culling == TakeWakeup \/ Loading(Cull) \/ SaveCullState

Next ==
    \/ \E t \in Threads : Application(t) \/ Caller(t)
    \/ \E v \in Views : ViewChanged(v)
    \/ Culling
    \/ \E w \in Workers : Worker(w)

(* Threads run to the end of what they have begun; nobody has to call.     *)
Fairness ==
    /\ \A t \in Threads : WF_vars(Caller(t))
    /\ WF_vars(Culling)
    /\ \A w \in Workers : WF_vars(Worker(w))

Spec == Init /\ [][Next]_vars /\ Fairness

-----------------------------------------------------------------------------
(* Type invariant of the source, the layer, its tasks and the threads.      *)
TypeOK ==
    /\ kdTree \in BOOLEAN /\ clustered \in BOOLEAN /\ wakeup \in BOOLEAN /\ visible \in BOOLEAN
    /\ flag \in BOOLEAN
    /\ stored \subseteq Elements /\ attached \subseteq Elements /\ crossed \subseteq Elements
    /\ shown \subseteq Elements /\ astray \subseteq Elements /\ missed \subseteq Elements
    /\ version \in [Elements -> 1 .. MaxVersion]
    /\ call \in [Threads -> Calls] /\ calls \in 0 .. MaxCalls
    /\ camera \in Views /\ cull \in Views \cup {NoView} /\ lastCull \in Views \cup {NoView}
    /\ load \in [Loaders -> {"none", "cancel", "test", "clear", "execute", "save"}]
    /\ queued \in Nat
    /\ worker \in [Workers -> [pc: {"idle", "started", "load", "apply", "swap", "rebuild", "clear", "leave"},
                               view: Views \cup {NoView}, snap: SUBSET Elements]]
    /\ built \in [Elements -> [ver: 1 .. MaxVersion, surface: Surfaces] \cup {NoDrawing}]
    /\ clusters \in [Elements -> 0 .. MaxVersion]
    /\ singletons \in [Workers -> [Elements -> 0 .. MaxVersion]]
    /\ over \in [Workers \cup Loaders -> SUBSET Elements]

(* Nothing is under way: isUpdateInProgress is false, too. *)
InProgress == queued > 0 \/ \E w \in Workers : worker[w].pc # "idle"
Rest ==
    /\ ~InProgress /\ ~wakeup
    /\ \A t \in Threads : call[t] = Idle
    /\ \A p \in Loaders : load[p] = "none"

(* At rest a layer draws what its source holds, and nothing when hidden,   *)
(* for every element but those that were last applied from an overtaken    *)
(* reading: whatever calls, refreshes, views and tasks came together, and  *)
(* although every load throws away the tasks of the one before.            *)
DrawnAtRest ==
    (Rest /\ ~clustered) =>
        \A e \in Elements \ astray :
            /\ e \in shown => visible /\ e \in stored
            /\ visible /\ e \in stored \cap lastCull.seen =>
                  e \in shown /\ built[e].surface = lastCull.surface

(* At rest the clusters are those of the elements of the source, where     *)
(* they are now, but for elements that were added or removed while a task  *)
(* was between its reading of the source and its taking the flag that      *)
(* called for it, those that a task read before they changed and put back  *)
(* over the clusters of a task that read them later, and, up to the next   *)
(* refresh, a first view that was saved after its task had looked for it.  *)
ClustersAtRest ==
    (Rest /\ clustered /\ visible) =>
        \A e \in Elements \ (astray \cup crossed) :
            clusters[e] = IF e \in stored THEN version[e] ELSE 0

(* At rest an element is drawn as it is now, unless it changed while the   *)
(* layer was hidden or the element was in no data source: draw data that   *)
(* exist are not built anew when it is shown again.                        *)
DrawnAsItIs == (Rest /\ ~clustered) => \A e \in shown \ missed : built[e].ver = version[e]

(* Once nobody calls any more the layer comes to rest: every wakeup is     *)
(* taken, every load ends, and every fetch task leaves _fetchingTasks, so  *)
(* that isUpdateInProgress does not stay true.  The exception is a thread  *)
(* that waits for the mutex it holds.                                      *)
ComesToRest == <>[](Rest \/ Stuck)
=============================================================================
