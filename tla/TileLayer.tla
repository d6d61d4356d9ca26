------------------------------ MODULE TileLayer ------------------------------
(***************************************************************************)
(* layers/TileLayer.cpp with layers/RasterTileLayer.cpp, over Layer.cpp: a *)
(* layer that keeps the tiles of the view in two caches and fetches those  *)
(* that are missing, together with the threads that drive it: the culling  *)
(* worker (renderers/workers/CullWorker.cpp), an application thread, the   *)
(* threads of the tile pool that run the fetch tasks, and the user         *)
(* interface thread that cancels every task of the pool.                   *)
(*                                                                         *)
(* Two locks: _mutex of the layer and _mutex of the pool.  The layer's is  *)
(* held across two steps only where loadData hands tasks to the pool, the  *)
(* pool's only in cancelAll.                                               *)
(*                                                                         *)
(* A task is a slot, free again when its task object is gone.  The order   *)
(* in which the pool serves its queue is left open (CancelableThreadPool). *)
(* Abstracted: geometry (a view is the set of tiles that calculateVisible- *)
(* Tiles finds), frame numbers, UTF grids, substitution over more than one *)
(* level, the layer's being removed from the map.                          *)
(***************************************************************************)
EXTENDS Integers, FiniteSets, FiniteSetsExt

CONSTANTS Tiles,
          Parent,        (* the parent of some tiles                       *)
          Views,         (* views of the map: [visible, preloading] tiles  *)
          Slots,         (* bound: fetch tasks that exist at a time        *)
          MaxVersion,    (* bound: versions of the tiles told apart        *)
          MaxEvents,     (* bound: what user, application and time do      *)
          NoView         (* no view has been culled yet                    *)

ASSUME TileLayerAssumption ==
    /\ \A v \in Views : v.visible \subseteq Tiles /\ v.preloading \subseteq Tiles
    /\ DOMAIN Parent \subseteq Tiles /\ \A t \in DOMAIN Parent : Parent[t] \in Tiles
    /\ IsFiniteSet(Tiles) /\ IsFiniteSet(Slots) /\ Slots \subseteq Nat
    /\ NoView \notin Views /\ MaxVersion \in Nat \ {0} /\ MaxEvents \in Nat

Cull == "cull"
App  == "app"
Threads == {Cull, App}

NoTask == [pc |-> "none", tile |-> "none", preloading |-> FALSE, canceled |-> FALSE,
           invalidated |-> FALSE, ver |-> 0]
NoEntry == [ver |-> 0, state |-> "none"]
IdleThread == [pc |-> "idle", view |-> NoView, fetch |-> {}]

VARIABLES
    view,        (* external: the view state of the map renderer           *)
    pending,     (* the layer is in _layerWakeupMap of the culling worker  *)
    thread,      (* where the culling worker and the application are       *)
    visible,     (* _visible of the layer                                  *)
    lastCull,    (* _lastCullState                                         *)
    shown,       (* the view of _visibleTiles, NoView when not drawn       *)
    visCache,    (* _visibleCache                                          *)
    preCache,    (* _preloadingCache                                       *)
    task,        (* the fetch tasks                                        *)
    fetching,    (* _fetchingTileTasks                                     *)
    mutex,       (* who holds _mutex between two steps                     *)
    canceling,   (* cancelAll of the pool: holds its mutex?, tasks to go   *)
    origin,      (* external: the version of the tiles at the data source  *)
    changed,     (* its change has not been notified yet                   *)
    events,      (* how often user, application and time have come in      *)
    gaveUp       (* history: tiles that the last fetch did not find, that  *)
                 (* cancelAll gave up, that an unlocked removal took away, *)
                 (* or whose second copy was dropped                       *)

caches   == <<visCache, preCache>>
tasks    == <<task, fetching>>
external == <<view, origin, changed>>
vars == <<view, pending, thread, visible, lastCull, shown, visCache, preCache, task, fetching,
          mutex, canceling, origin, changed, events, gaveUp>>

-----------------------------------------------------------------------------
Init ==
    /\ view \in Views /\ pending = TRUE
    /\ thread = [th \in Threads |-> IdleThread]
    /\ visible = TRUE
    /\ lastCull = NoView /\ shown = NoView
    /\ visCache = [t \in Tiles |-> NoEntry] /\ preCache = [t \in Tiles |-> NoEntry]
    /\ task = [s \in Slots |-> NoTask] /\ fetching = {}
    /\ mutex = "free"
    /\ canceling = [on |-> FALSE, todo |-> {}]
    /\ origin = 1 /\ changed = FALSE
    /\ events = 0 /\ gaveUp = {}

Free == mutex = "free"
PoolFree == ~canceling.on

Event == events < MaxEvents /\ events' = events + 1

-----------------------------------------------------------------------------
(* The caches. *)

tileExists(t, c) == c[t] # NoEntry
tileValid(t, c) == c[t].state = "valid"
Exists(t) == tileExists(t, visCache) \/ tileExists(t, preCache)
Valid(t) == tileValid(t, visCache) \/ tileValid(t, preCache)

(* The parent of a missing tile or else its children, from one cache or    *)
(* else from the other, are drawn in its place.                            *)
Substitutes(t) ==
    LET In(c) == LET up == {u \in Tiles : t \in DOMAIN Parent /\ u = Parent[t] /\ tileExists(u, c)}
                 IN  IF up # {} THEN up
                     ELSE {u \in DOMAIN Parent : Parent[u] = t /\ tileExists(u, c)}
    IN  IF In(visCache) # {} THEN In(visCache) ELSE In(preCache)

Drawn(v) == UNION {IF Exists(t) THEN {t} ELSE Substitutes(t) : t \in v.visible}

(* prefetchTile moves a tile that waits in the preloading cache. *)
prefetchTile(T) ==
    [vis |-> [t \in Tiles |-> IF t \in T /\ tileValid(t, preCache) THEN preCache[t] ELSE visCache[t]],
     pre |-> [t \in Tiles |-> IF t \in T /\ tileValid(t, preCache) THEN NoEntry ELSE preCache[t]]]

(* refreshDrawData: what is drawn goes to the visible cache, and the rest  *)
(* of that cache to the preloading cache.                                  *)
refreshDrawData(drawn, c) ==
    LET Either(t) == IF c.vis[t] # NoEntry THEN c.vis[t] ELSE c.pre[t]
    IN  /\ visCache' = [t \in Tiles |-> IF t \in drawn THEN Either(t) ELSE NoEntry]
        /\ preCache' = [t \in Tiles |-> IF t \notin drawn THEN Either(t)
                                        ELSE IF c.vis[t] = NoEntry THEN NoEntry ELSE c.pre[t]]

(* The preloading cache is resized, or cleared; a full one drops tiles the *)
(* same way, at the latest by now.  A valid tile may go that stands beside *)
(* an invalid one in the visible cache.                                    *)
setTextureCacheCapacity ==
    /\ Event
    /\ Free
    /\ \E dropped \in SUBSET {t \in Tiles : preCache[t] # NoEntry} :
          /\ preCache' = [t \in Tiles |-> IF t \in dropped THEN NoEntry ELSE preCache[t]]
          /\ gaveUp' = gaveUp \cup {t \in dropped : tileExists(t, visCache)}
    /\ UNCHANGED <<external, pending, thread, visible, lastCull, shown, visCache, tasks, mutex,
                   canceling>>

(* The maximal age of a tile is over. *)
Expire(t) ==
    /\ Event
    /\ \/ tileValid(t, visCache) /\ visCache' = [visCache EXCEPT ![t].state = "expired"]
                                 /\ UNCHANGED preCache
       \/ tileValid(t, preCache) /\ preCache' = [preCache EXCEPT ![t].state = "expired"]
                                 /\ UNCHANGED visCache
    /\ UNCHANGED <<external, pending, thread, visible, lastCull, shown, tasks, mutex, canceling,
                   gaveUp>>

-----------------------------------------------------------------------------
(* The tasks that a layer knows of. *)

Started(s) == task[s].pc \notin {"queued", "taken"}
Active(s) == s \in fetching /\ ~task[s].canceled

(* Mutant: a canceled task stays in the table, also if it will not run.    *)
KeptUnstarted(S) == fetching

(* FetchTaskBase::cancel: a task that has not started leaves the table.    *)
Canceled(S) == [s \in Slots |-> IF s \in S THEN [task[s] EXCEPT !.canceled = TRUE] ELSE task[s]]
Kept(S) == {s \in fetching : s \in S => Started(s)}

-----------------------------------------------------------------------------
(* loadData. *)

(* buildFetchTiles: a tile that is in neither cache, or in them only as an *)
(* invalid one; of two such siblings the parent, too.                      *)
Missing(T) == {t \in T : ~Valid(t)}
MissingParents(v) ==
    {p \in Tiles : Cardinality({t \in Missing(v.visible) : t \in DOMAIN Parent /\ Parent[t] = p}) > 1}

Wanted(v) ==
    LET vis == Missing(v.visible) \cup Missing(MissingParents(v))
    IN  {[tile |-> t, preloading |-> FALSE] : t \in vis}
            \cup {[tile |-> t, preloading |-> TRUE] : t \in Missing(v.preloading) \ vis}

(* Mutant: a canceled task counts as one that will bring the tile. *)
FetchingCanceled(w) ==
    \E s \in fetching : task[s].tile = w.tile /\ task[s].preloading = w.preloading

(* A task of the same kind is at work for the tile already. *)
Fetching(w) ==
    \E s \in fetching : Active(s) /\ task[s].tile = w.tile /\ task[s].preloading = w.preloading

(* Mutant: a task of the other kind goes on. *)
OtherKindNone(wanted) == {}

OtherKind(wanted) ==
    {s \in fetching : /\ Active(s)
                      /\ \E w \in wanted : task[s].tile = w.tile /\ task[s].preloading # w.preloading}

(* The culling worker is still to save its state. *)
Loaded(th) == IF th = Cull THEN [thread[th] EXCEPT !.pc = "save", !.fetch = {}] ELSE IdleThread

(* A layer that is not drawn gives its visible tiles up, and no more. *)
LoadHidden(th) ==
    /\ thread[th].pc = "load" /\ Free /\ ~visible
    /\ refreshDrawData({}, [vis |-> visCache, pre |-> preCache])
    /\ shown' = NoView
    /\ thread' = [thread EXCEPT ![th] = Loaded(th)]
    /\ UNCHANGED <<external, events, pending, visible, lastCull, tasks, mutex, canceling, gaveUp>>

(* Up to the first task that is handed to the pool, keeping _mutex; it     *)
(* waits for slots before it takes that.                                   *)
LoadBegin(th) ==
    LET v == thread[th].view
        c == prefetchTile(MissingParents(v))
    IN  /\ thread[th].pc = "load" /\ Free /\ visible
        /\ Cardinality(Wanted(v)) <= Cardinality({s \in Slots : task[s].pc = "none"})
        /\ shown' = v
        /\ refreshDrawData(Drawn(v), c)
        /\ task' = Canceled(OtherKind(Wanted(v)))
        /\ fetching' = Kept(OtherKind(Wanted(v)))
        /\ thread' = [thread EXCEPT ![th].pc = "fetch", ![th].fetch = Wanted(v)]
        /\ mutex' = th
        /\ UNCHANGED <<external, events, pending, visible, lastCull, canceling, gaveUp>>

(* fetchTile for every wanted tile, through the pool's mutex; then all     *)
(* tasks of tiles that are not wanted are canceled.                        *)
LoadFetch(th) ==
    LET wanted == thread[th].fetch
        new    == {w \in wanted : ~Fetching(w)}
        old    == {s \in fetching : task[s].tile \notin {w.tile : w \in wanted}}
        free   == {s \in Slots : task[s].pc = "none"}
        slotOf == CHOOSE f \in [new -> free] : \A w, x \in new : f[w] = f[x] => w = x
        Created(w) == [NoTask EXCEPT !.pc = "queued", !.tile = w.tile, !.preloading = w.preloading]
        used   == {slotOf[w] : w \in new}
    IN  /\ thread[th].pc = "fetch"
        /\ new # {} => PoolFree
        /\ task' = [s \in Slots |-> IF s \in used THEN Created(CHOOSE w \in new : slotOf[w] = s)
                                    ELSE Canceled(old)[s]]
        /\ fetching' = Kept(old) \cup used
        /\ gaveUp' = gaveUp \ {w.tile : w \in new}
        /\ thread' = [thread EXCEPT ![th] = Loaded(th)]
        /\ mutex' = "free"
        /\ UNCHANGED <<external, events, pending, visible, lastCull, shown, caches, canceling>>

Load(th) == LoadHidden(th) \/ LoadBegin(th) \/ LoadFetch(th)

-----------------------------------------------------------------------------
(* The culling worker. *)

(* External: the camera moves; viewChanged wakes the culling worker. *)
ViewChanged(v) ==
    /\ Event
    /\ v # view
    /\ view' = v /\ pending' = TRUE
    /\ UNCHANGED <<origin, changed, thread, visible, lastCull, shown, caches, tasks, mutex,
                   canceling, gaveUp>>

(* The worker empties the map and then reads the view state. *)
TakeWakeup ==
    /\ thread[Cull].pc = "idle" /\ pending
    /\ pending' = FALSE
    /\ thread' = [thread EXCEPT ![Cull].pc = "load", ![Cull].view = view]
    /\ UNCHANGED <<external, events, visible, lastCull, shown, caches, tasks, mutex, canceling,
                   gaveUp>>

(* Layer::update saves the state only after loadData. *)
SaveCullState ==
    /\ thread[Cull].pc = "save" /\ Free
    /\ lastCull' = thread[Cull].view
    /\ thread' = [thread EXCEPT ![Cull] = IdleThread]
    /\ UNCHANGED <<external, events, pending, visible, shown, caches, tasks, mutex, canceling, gaveUp>>

-----------------------------------------------------------------------------
(* The application. *)

setVisible(b) ==
    /\ Event
    /\ thread[App].pc = "idle"
    /\ visible' = b
    /\ thread' = [thread EXCEPT ![App].pc = "refresh"]
    /\ UNCHANGED <<external, pending, lastCull, shown, caches, tasks, mutex, canceling, gaveUp>>

(* External: the tiles of the data source change, and then it says so.     *)
ChangeOrigin ==
    /\ Event
    /\ origin < MaxVersion
    /\ origin' = origin + 1 /\ changed' = TRUE
    /\ UNCHANGED <<view, pending, thread, visible, lastCull, shown, caches, tasks, mutex, canceling,
                   gaveUp>>

Invalidated(c) ==
    [t \in Tiles |-> IF c[t] = NoEntry THEN NoEntry ELSE [c[t] EXCEPT !.state = "invalidated"]]

(* Mutant: the tasks under way are canceled, but not invalidated. *)
InvalidateNone(tsk) == tsk

(* FetchTaskBase::invalidate of every task in the table. *)
InvalidateAll(tsk) ==
    [s \in Slots |-> IF s \in fetching THEN [tsk[s] EXCEPT !.invalidated = TRUE] ELSE tsk[s]]

(* updateTiles: the tasks first, then the caches, all under _mutex. *)
updateTiles(removeTiles) ==
    /\ Event
    /\ thread[App].pc = "idle" /\ Free
    /\ task' = InvalidateAll(Canceled(fetching))
    /\ fetching' = Kept(fetching)
    /\ visCache' = IF removeTiles THEN [t \in Tiles |-> NoEntry] ELSE Invalidated(visCache)
    /\ preCache' = [t \in Tiles |-> NoEntry]
    /\ changed' = FALSE
    /\ thread' = [thread EXCEPT ![App].pc = "refresh"]
    /\ UNCHANGED <<view, origin, pending, visible, lastCull, shown, mutex, canceling, gaveUp>>

(* refresh: without a cull state it asks the culling worker for one. *)
refresh ==
    /\ thread[App].pc = "refresh" /\ Free
    /\ IF lastCull = NoView
       THEN pending' = TRUE /\ thread' = [thread EXCEPT ![App] = IdleThread]
       ELSE /\ thread' = [thread EXCEPT ![App].pc = "load", ![App].view = lastCull]
            /\ UNCHANGED pending
    /\ UNCHANGED <<external, events, visible, lastCull, shown, caches, tasks, mutex, canceling, gaveUp>>

-----------------------------------------------------------------------------
(* FetchTaskBase::run with FetchTask::loadTile, on a thread of the pool.   *)

Run(s, from, to) ==
    /\ task[s].pc = from
    /\ task' = [task EXCEPT ![s].pc = to]

notTask == <<external, events, visible, lastCull, shown, thread, mutex, canceling>>

TakeTask(s) ==
    /\ Run(s, "queued", "taken") /\ PoolFree
    /\ UNCHANGED <<notTask, pending, caches, fetching, gaveUp>>

(* A task that was canceled in the queue is gone, _started is not set.  *)
StartTask(s) ==
    /\ task[s].pc = "taken" /\ Free
    /\ task' = [task EXCEPT ![s] = IF @.canceled THEN NoTask ELSE [@ EXCEPT !.pc = "loading"]]
    /\ UNCHANGED <<notTask, pending, caches, fetching, gaveUp>>

RequestTile(s) ==
    /\ Run(s, "loading", IF task[s].canceled THEN "failed" ELSE "reading")
    /\ UNCHANGED <<notTask, pending, caches, fetching, gaveUp>>

(* External: the data source answers, without a tile, ...  *)
AnswerNothing(s) ==
    /\ Run(s, "reading", "failed")
    /\ gaveUp' = IF task[s].canceled THEN gaveUp ELSE gaveUp \cup {task[s].tile}
    /\ UNCHANGED <<notTask, pending, caches, fetching>>

(* ... or with one. *)
AnswerTile(s) ==
    /\ task[s].pc = "reading"
    /\ task' = [task EXCEPT ![s].pc = "loaded", ![s].ver = origin]
    /\ UNCHANGED <<notTask, pending, caches, fetching, gaveUp>>

(* A tile from another zoom level is removed from both caches first, and   *)
(* without _mutex.                                                         *)
AnswerOverZoom(s) ==
    LET t == task[s].tile
    IN  /\ task[s].pc = "reading"
        /\ task' = [task EXCEPT ![s].pc = "loaded", ![s].ver = origin]
        /\ visCache' = [visCache EXCEPT ![t] = NoEntry]
        /\ preCache' = [preCache EXCEPT ![t] = NoEntry]
        /\ gaveUp' = gaveUp \cup {t}
        /\ UNCHANGED <<notTask, pending, fetching>>

DecodeTile(s) ==
    /\ Run(s, "loaded", IF task[s].canceled THEN "failed" ELSE "decoded")
    /\ UNCHANGED <<notTask, pending, caches, fetching, gaveUp>>

(* The tile is cached unless the task was invalidated. *)
PutTile(s) ==
    LET t == task[s].tile
        entry == [ver |-> task[s].ver, state |-> "valid"]
    IN  /\ Run(s, "decoded", "done") /\ Free
        /\ IF task[s].invalidated THEN UNCHANGED <<caches, gaveUp>>
           ELSE /\ IF task[s].preloading
                   THEN preCache' = [preCache EXCEPT ![t] = entry] /\ UNCHANGED visCache
                   ELSE visCache' = [visCache EXCEPT ![t] = entry] /\ UNCHANGED preCache
                /\ gaveUp' = IF task[s].canceled THEN gaveUp ELSE gaveUp \ {t}
        /\ UNCHANGED <<notTask, pending, fetching>>

(* Mutant: only a task that brought its tile leaves the table. *)
EndTaskDone(s) ==
    /\ task[s].pc \in {"failed", "done"}
    /\ fetching' = IF task[s].pc = "done" THEN fetching \ {s} ELSE fetching
    /\ IF task[s].pc = "done" /\ ~task[s].preloading THEN Run(s, "done", "changed")
       ELSE task' = [task EXCEPT ![s] = NoTask]
    /\ UNCHANGED <<notTask, pending, caches, gaveUp>>

(* The task leaves the table, and if it brought a visible tile ... *)
EndTask(s) ==
    /\ task[s].pc \in {"failed", "done"}
    /\ fetching' = fetching \ {s}
    /\ IF task[s].pc = "done" /\ ~task[s].preloading THEN Run(s, "done", "changed")
       ELSE task' = [task EXCEPT ![s] = NoTask]
    /\ UNCHANGED <<notTask, pending, caches, gaveUp>>

(* ... wakes the culling worker. *)
layerChanged(s) ==
    /\ task[s].pc = "changed"
    /\ task' = [task EXCEPT ![s] = NoTask]
    /\ pending' = TRUE
    /\ UNCHANGED <<notTask, caches, fetching, gaveUp>>

Worker(s) ==
    \/ TakeTask(s) \/ StartTask(s) \/ RequestTile(s)
    \/ AnswerNothing(s) \/ AnswerTile(s) \/ AnswerOverZoom(s)
    \/ DecodeTile(s) \/ PutTile(s) \/ EndTask(s) \/ layerChanged(s)

-----------------------------------------------------------------------------
(* cancelAllTasks of the map view: cancelAll keeps the mutex of the pool   *)
(* while it cancels every queued task.                                     *)

CancelAllBegin ==
    /\ Event
    /\ PoolFree
    /\ canceling' = [on |-> TRUE, todo |-> {s \in Slots : task[s].pc = "queued"}]
    /\ UNCHANGED <<external, pending, thread, visible, lastCull, shown, caches, tasks, mutex, gaveUp>>

CancelNext ==
    LET s == Min(canceling.todo)
    IN  /\ canceling.todo # {} /\ Free
        /\ task' = [task EXCEPT ![s] = NoTask]
        /\ fetching' = fetching \ {s}
        /\ gaveUp' = IF Active(s) THEN gaveUp \cup {task[s].tile} ELSE gaveUp
        /\ canceling' = [canceling EXCEPT !.todo = @ \ {s}]
        /\ UNCHANGED <<external, events, pending, thread, visible, lastCull, shown, caches, mutex>>

CancelAllEnd ==
    /\ canceling.on /\ canceling.todo = {}
    /\ canceling' = [on |-> FALSE, todo |-> {}]
    /\ UNCHANGED <<external, events, pending, thread, visible, lastCull, shown, caches, tasks, mutex, gaveUp>>

-----------------------------------------------------------------------------
Next ==
    \/ \E v \in Views : ViewChanged(v)
    \/ TakeWakeup \/ SaveCullState
    \/ \E th \in Threads : Load(th)
    \/ \E b \in BOOLEAN : setVisible(b) \/ updateTiles(b)
    \/ refresh
    \/ setTextureCacheCapacity
    \/ \E t \in Tiles : Expire(t)
    \/ ChangeOrigin
    \/ \E s \in Slots : Worker(s)
    \/ CancelAllBegin \/ CancelNext \/ CancelAllEnd

Culling == TakeWakeup \/ Load(Cull) \/ SaveCullState
Application == refresh \/ Load(App)
CancelAll == CancelNext \/ CancelAllEnd

(* The threads are scheduled and the data source answers; the user and the *)
(* application need not begin anything.                                    *)
Fairness ==
    /\ WF_vars(Culling) /\ WF_vars(Application) /\ WF_vars(CancelAll)
    /\ \A s \in Slots : WF_vars(Worker(s))

Spec == Init /\ [][Next]_vars /\ Fairness

-----------------------------------------------------------------------------
Entry == [ver : 0 .. MaxVersion, state : {"none", "valid", "expired", "invalidated"}]
TaskPcs == {"none", "queued", "taken", "loading", "reading", "loaded", "decoded", "failed", "done",
            "changed"}

(* Type invariant of the layer, its caches and tasks, and of the threads.  *)
TypeOK ==
    /\ view \in Views /\ lastCull \in Views \cup {NoView} /\ shown \in Views \cup {NoView}
    /\ pending \in BOOLEAN /\ visible \in BOOLEAN /\ changed \in BOOLEAN
    /\ \A th \in Threads :
          /\ thread[th].pc \in {"idle", "refresh", "load", "fetch", "save"}
          /\ thread[th].view \in Views \cup {NoView}
    /\ visCache \in [Tiles -> Entry] /\ preCache \in [Tiles -> Entry]
    /\ \A s \in Slots : task[s].pc \in TaskPcs /\ task[s].ver \in 0 .. MaxVersion
    /\ fetching \subseteq {s \in Slots : task[s].pc # "none"}
    /\ mutex \in Threads \cup {"free"}
    /\ canceling.on \in BOOLEAN /\ canceling.todo \subseteq Slots
    /\ origin \in 1 .. MaxVersion
    /\ gaveUp \subseteq Tiles

(* Once a change of the tiles has been notified, no valid tile is of an    *)
(* older version: updateTiles reaches the tasks that have read their tile  *)
(* already and are about to cache it.                                      *)
NoStaleTile ==
    ~changed => \A t \in Tiles : /\ tileValid(t, visCache) => visCache[t].ver = origin
                                 /\ tileValid(t, preCache) => preCache[t].ver = origin

(* No tile is fetched twice at a time, whichever thread calls loadData and *)
(* whatever becomes of the tile's kind.                                    *)
OneTaskPerTile ==
    \A s, u \in fetching : Active(s) /\ Active(u) /\ task[s].tile = task[u].tile => s = u

(* Every tile of the view that was loaded last is there, or on its way,    *)
(* or its last fetch brought nothing, or the layer is about to be loaded   *)
(* again: cancellation, invalidation and eviction lose no tile.            *)
ReloadIsDue ==
    \/ pending
    \/ \E th \in Threads : thread[th].pc # "idle"
    \/ \E s \in Slots : task[s].pc = "changed"
NothingMissing ==
    \/ shown = NoView \/ ReloadIsDue
    \/ \A t \in shown.visible \ gaveUp :
          \/ \E c \in {visCache, preCache} : c[t].state \in {"valid", "expired"}
          \/ \E s \in fetching : Active(s) /\ task[s].tile = t

(* When the user and the application rest the layer comes to rest, too:    *)
(* the view it has is the map's, no wakeup of the culling worker is open,  *)
(* and isUpdateInProgress says so, unless cancelAll waits for the layer    *)
(* (CancelAllReturns).                                                     *)
ComesToRest ==
    []<>((lastCull = view /\ ~pending /\ fetching = {}) \/ canceling.on)

(* BaseMapView.h 331, cancelAllTasks: "Cancels all qued tasks such as tile *)
(* and vector data fetches": the call comes to its end.                    *)
CancelAllReturns == canceling.on ~> ~canceling.on
=============================================================================
