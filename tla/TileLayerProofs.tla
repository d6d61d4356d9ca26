--------------------------- MODULE TileLayerProofs ---------------------------
(***************************************************************************)
(* For all finite sets of tiles and slots, all views and every number of   *)
(* versions and events: a change of the tiles that has been notified       *)
(* leaves no valid tile of an older version in a cache; no tile is fetched *)
(* twice at a time; and no tile of the view that is shown is forgotten.    *)
(***************************************************************************)
EXTENDS TileLayer, FiniteSetTheorems, TLAPS

States == {"none", "valid", "expired", "invalidated"}
CacheEntry == [ver : Int, state : States]
FetchTask == [pc : TaskPcs, tile : Tiles \cup {"none"}, preloading : BOOLEAN, canceled : BOOLEAN,
              invalidated : BOOLEAN, ver : Int]
FetchTile == [tile : Tiles, preloading : BOOLEAN]
ThreadState == [pc : {"idle", "refresh", "load", "fetch", "save"}, view : Views \cup {NoView},
                fetch : SUBSET FetchTile]

(* The types that the argument needs. *)
StoreTypes ==
    /\ task \in [Slots -> FetchTask]
    /\ visCache \in [Tiles -> CacheEntry] /\ preCache \in [Tiles -> CacheEntry]
    /\ origin \in Int
ThreadTypes ==
    /\ thread \in [Threads -> ThreadState]
    /\ \A th \in Threads : thread[th].pc = "load" => thread[th].view \in Views
    /\ view \in Views /\ lastCull \in Views \cup {NoView}

(* A task that will start, or has started and not ended, is in the table,  *)
(* where updateTiles finds it.                                             *)
Waiting == {"queued", "taken"}
Running == {"loading", "reading", "loaded", "decoded", "failed", "done"}
RunningIsKnown ==
    \A s \in Slots : /\ task[s].pc \in Running => s \in fetching
                     /\ task[s].pc \in Waiting /\ ~task[s].canceled => s \in fetching

(* What a task that may still be cached has read is up to date.            *)
ReadIsFresh ==
    ~changed => \A s \in Slots :
        task[s].pc \in {"loaded", "decoded"} /\ ~task[s].invalidated => task[s].ver = origin

IInv == StoreTypes /\ ThreadTypes /\ RunningIsKnown /\ ReadIsFresh /\ NoStaleTile

(* What TypeOK says beyond that. *)
BoundTypes ==
    /\ pending \in BOOLEAN /\ visible \in BOOLEAN /\ changed \in BOOLEAN
    /\ shown \in Views \cup {NoView}
    /\ canceling \in [on : BOOLEAN, todo : SUBSET Slots]
    /\ origin \in 1 .. MaxVersion
    /\ gaveUp \subseteq Tiles
    /\ \A s \in Slots : task[s].ver \in 0 .. MaxVersion
    /\ \A t \in Tiles : visCache[t].ver \in 0 .. MaxVersion /\ preCache[t].ver \in 0 .. MaxVersion

(* Only a task that will run, or runs, is in the table; one that must not  *)
(* cache its tile is canceled; one that failed gave its tile up.           *)
KnownIsAlive ==
    /\ \A s \in fetching : /\ s \in Slots
                           /\ task[s].pc \in Running \/ (task[s].pc \in Waiting /\ ~task[s].canceled)
    /\ \A s \in Slots : /\ task[s].pc # "none" => task[s].tile \in Tiles
                        /\ task[s].invalidated => task[s].canceled
FailedGaveUp == \A s \in fetching : Active(s) /\ task[s].pc = "failed" => task[s].tile \in gaveUp

(* What cancelAll is to cancel stays in the queue until then.              *)
CancelInv ==
    /\ canceling.todo # {} => canceling.on
    /\ \A s \in canceling.todo : s \in Slots /\ task[s].pc = "queued"

(* The visible cache holds the tile, or an outdated copy of it hides a     *)
(* good one in the other cache.                                            *)
Good == {"valid", "expired"}
Held(t) == visCache[t].state \in Good \/ (tileExists(t, visCache) /\ preCache[t].state \in Good)

(* Between the two steps of loadData nobody else has _mutex: there are     *)
(* slots for the wanted tiles, each is wanted once, no task of the other   *)
(* kind is left for them, and what is not wanted is held.                  *)
FetchState(th) ==
    LET wanted == thread[th].fetch
    IN  /\ thread[th].view = shown /\ shown \in Views
        /\ IsFiniteSet(wanted)
        /\ Cardinality(wanted) <= Cardinality({s \in Slots : task[s].pc = "none"})
        /\ \A w, x \in wanted : w.tile = x.tile => w = x
        /\ \A w \in wanted, s \in fetching :
              Active(s) /\ task[s].tile = w.tile => task[s].preloading = w.preloading
        /\ \A w \in wanted : w.tile \in shown.visible => ~w.preloading
        /\ \A t \in shown.visible \ gaveUp : Held(t) \/ \E w \in wanted : w.tile = t
MutexInv ==
    /\ mutex \in Threads \cup {"free"}
    /\ \A th \in Threads : thread[th].pc = "fetch" <=> mutex = th
FetchInv == \A th \in Threads : thread[th].pc = "fetch" => FetchState(th)

(* What is shown is there or on its way, if no load is to come.            *)
LoadIsDue ==
    \/ pending
    \/ \E th \in Threads : thread[th].pc \in {"refresh", "load", "fetch"}
    \/ \E s \in Slots : task[s].pc = "changed"
Coming(t) == \E s \in fetching : Active(s) /\ task[s].tile = t
ShownState ==
    /\ \A t \in shown.visible \ gaveUp : Held(t) \/ Coming(t)
    /\ \A s \in fetching : Active(s) /\ task[s].tile \in shown.visible => ~task[s].preloading
ShownInv == shown = NoView \/ LoadIsDue \/ ShownState

LInv == /\ BoundTypes /\ KnownIsAlive /\ CancelInv /\ FailedGaveUp /\ OneTaskPerTile
        /\ MutexInv /\ FetchInv /\ ShownInv

-----------------------------------------------------------------------------
LEMMA NoTaskType == NoTask \in FetchTask /\ NoEntry \in CacheEntry /\ IdleThread \in ThreadState
BY DEF NoTask, FetchTask, TaskPcs, NoEntry, CacheEntry, States, IdleThread, ThreadState

LEMMA InitIInv == Init => IInv
<1> SUFFICES ASSUME Init PROVE IInv
  OBVIOUS
<1>1. StoreTypes
  BY NoTaskType DEF Init, StoreTypes
<1> IdleThread.pc # "load"
  BY DEF IdleThread
<1>2. ThreadTypes
  BY NoTaskType DEF Init, ThreadTypes
<1>3. RunningIsKnown /\ ReadIsFresh
  BY DEF Init, RunningIsKnown, ReadIsFresh, NoTask, Running, Waiting
<1>4. NoStaleTile
  BY DEF Init, NoStaleTile, tileValid, NoEntry
<1> QED
  BY <1>1, <1>2, <1>3, <1>4 DEF IInv

-----------------------------------------------------------------------------
(* refreshDrawData only moves entries about: what it leaves valid was      *)
(* valid, and is as fresh.                                                 *)
LEMMA RefreshKeepsFresh ==
    ASSUME NEW drawn, NEW c,
           c.vis \in [Tiles -> CacheEntry], c.pre \in [Tiles -> CacheEntry],
           refreshDrawData(drawn, c)
    PROVE  /\ visCache' \in [Tiles -> CacheEntry] /\ preCache' \in [Tiles -> CacheEntry]
           /\ \A t \in Tiles : visCache'[t] \in {c.vis[t], c.pre[t], NoEntry}
           /\ \A t \in Tiles : preCache'[t] \in {c.vis[t], c.pre[t], NoEntry}
BY NoTaskType DEF refreshDrawData

LEMMA PrefetchKeepsFresh ==
    ASSUME NEW T, visCache \in [Tiles -> CacheEntry], preCache \in [Tiles -> CacheEntry]
    PROVE  LET c == prefetchTile(T)
           IN  /\ c.vis \in [Tiles -> CacheEntry] /\ c.pre \in [Tiles -> CacheEntry]
               /\ \A t \in Tiles : /\ c.vis[t] \in {visCache[t], preCache[t], NoEntry}
                                   /\ c.pre[t] \in {visCache[t], preCache[t], NoEntry}
BY NoTaskType DEF prefetchTile

LEMMA CanceledType ==
    ASSUME task \in [Slots -> FetchTask], NEW S
    PROVE  /\ Canceled(S) \in [Slots -> FetchTask]
           /\ \A s \in Slots : /\ Canceled(S)[s].pc = task[s].pc
                               /\ Canceled(S)[s].ver = task[s].ver
                               /\ Canceled(S)[s].invalidated = task[s].invalidated
                               /\ s \in S => Canceled(S)[s].canceled
                               /\ s \notin S => Canceled(S)[s] = task[s]
BY DEF Canceled, FetchTask

LEMMA WantedType ==
    ASSUME NEW v \in Views
    PROVE  Wanted(v) \in SUBSET FetchTile
<1>1. v.visible \subseteq Tiles /\ v.preloading \subseteq Tiles
  BY TileLayerAssumption
<1>2. MissingParents(v) \subseteq Tiles
  BY DEF MissingParents
<1> DEFINE vis == Missing(v.visible) \cup Missing(MissingParents(v))
<1>3. vis \subseteq Tiles /\ Missing(v.preloading) \ vis \subseteq Tiles
  BY <1>1, <1>2 DEF Missing
<1>4. Wanted(v) = {[tile |-> t, preloading |-> FALSE] : t \in vis}
                      \cup {[tile |-> t, preloading |-> TRUE] : t \in Missing(v.preloading) \ vis}
  BY DEF Wanted
<1> HIDE DEF vis
<1>5. ASSUME NEW t \in Tiles, NEW b \in BOOLEAN
      PROVE  [tile |-> t, preloading |-> b] \in FetchTile
  BY DEF FetchTile
<1>6. ASSUME NEW w \in {[tile |-> t, preloading |-> FALSE] : t \in vis} PROVE w \in FetchTile
  BY <1>3, <1>5, Zenon
<1>7. ASSUME NEW w \in {[tile |-> t, preloading |-> TRUE] : t \in Missing(v.preloading) \ vis}
      PROVE  w \in FetchTile
  BY <1>3, <1>5, Zenon
<1> QED
  BY <1>4, <1>6, <1>7

-----------------------------------------------------------------------------
(* The threads that call the layer.                                        *)

store == <<task, fetching, visCache, preCache, origin, changed>>

(* A step that leaves tasks and caches alone.                              *)
LEMMA QuietStep ==
    ASSUME IInv, ThreadTypes', UNCHANGED store
    PROVE  IInv'
<1>1. StoreTypes' /\ RunningIsKnown' /\ ReadIsFresh'
  BY DEF IInv, StoreTypes, RunningIsKnown, ReadIsFresh, store
<1>2. NoStaleTile'
  BY DEF IInv, NoStaleTile, tileValid, store
<1> QED
  BY <1>1, <1>2 DEF IInv

(* Where loadData leaves its thread. *)
LEMMA LoadedType ==
    ASSUME ThreadTypes, NEW th \in Threads
    PROVE  Loaded(th) \in ThreadState /\ Loaded(th).pc # "load"
BY NoTaskType DEF ThreadTypes, ThreadState, Loaded, IdleThread

LEMMA CullingStep == IInv /\ (TakeWakeup \/ SaveCullState) => IInv'
<1> SUFFICES ASSUME IInv, TakeWakeup \/ SaveCullState PROVE IInv'
  OBVIOUS
<1>1. ThreadTypes /\ Cull \in Threads
  BY DEF IInv, Threads
<1>2. CASE TakeWakeup
  <2>1. UNCHANGED <<store, view, lastCull>>
    BY <1>2 DEF TakeWakeup, store, external, caches, tasks
  <2>2. ThreadTypes'
    BY <1>1, <1>2, <2>1 DEF TakeWakeup, ThreadTypes, ThreadState
  <2> QED
    BY <2>1, <2>2, QuietStep
<1>3. CASE SaveCullState
  <2>1. UNCHANGED <<store, view>>
    BY <1>3 DEF SaveCullState, store, external, caches, tasks
  <2>2. ThreadTypes'
    BY <1>1, <1>3, <2>1, NoTaskType DEF SaveCullState, ThreadTypes, ThreadState, IdleThread
  <2> QED
    BY <2>1, <2>2, QuietStep
<1> QED
  BY <1>2, <1>3

LEMMA ViewStep == ASSUME IInv, NEW v \in Views, ViewChanged(v) PROVE IInv'
<1>1. UNCHANGED <<store, lastCull, thread>> /\ view' = v
  BY DEF ViewChanged, store, caches, tasks
<1>2. ThreadTypes'
  BY <1>1 DEF IInv, ThreadTypes
<1> QED
  BY <1>1, <1>2, QuietStep

LEMMA SetVisibleStep == ASSUME IInv, NEW b \in BOOLEAN, setVisible(b) PROVE IInv'
<1>1. UNCHANGED <<store, lastCull, view>>
  BY DEF setVisible, store, external, caches, tasks
<1>2. ThreadTypes'
  BY <1>1 DEF IInv, ThreadTypes, ThreadState, Threads, setVisible
<1> QED
  BY <1>1, <1>2, QuietStep

LEMMA RefreshStep == IInv /\ refresh => IInv'
<1> SUFFICES ASSUME IInv, refresh PROVE IInv'
  OBVIOUS
<1>1. UNCHANGED <<store, lastCull, view>>
  BY DEF refresh, store, external, caches, tasks
<1>2. ThreadTypes'
  BY <1>1, NoTaskType DEF IInv, ThreadTypes, ThreadState, Threads, refresh, IdleThread
<1> QED
  BY <1>1, <1>2, QuietStep

-----------------------------------------------------------------------------
(* Steps that move, age or drop entries of the caches.                     *)

(* Whatever leaves the tasks alone and makes no entry valid or other than  *)
(* it was keeps the invariant.                                             *)
LEMMA CacheStep ==
    ASSUME IInv, ThreadTypes', UNCHANGED <<task, fetching, origin, changed>>,
           visCache' \in [Tiles -> CacheEntry], preCache' \in [Tiles -> CacheEntry],
           \A t \in Tiles : tileValid(t, visCache)' => visCache'[t] \in {visCache[t], preCache[t]},
           \A t \in Tiles : tileValid(t, preCache)' => preCache'[t] \in {visCache[t], preCache[t]}
    PROVE  IInv'
<1>1. StoreTypes' /\ RunningIsKnown' /\ ReadIsFresh'
  BY DEF IInv, StoreTypes, RunningIsKnown, ReadIsFresh
<1>2. NoStaleTile'
  BY DEF IInv, NoStaleTile, tileValid
<1> QED
  BY <1>1, <1>2 DEF IInv

LEMMA CapacityStep == IInv /\ setTextureCacheCapacity => IInv'
<1> SUFFICES ASSUME IInv, setTextureCacheCapacity PROVE IInv'
  OBVIOUS
<1>1. UNCHANGED <<task, fetching, origin, changed, view, lastCull, thread, visCache>>
  BY DEF setTextureCacheCapacity, external, tasks
<1>2. ThreadTypes'
  BY <1>1 DEF IInv, ThreadTypes
<1>3. PICK dropped : preCache' = [t \in Tiles |-> IF t \in dropped THEN NoEntry ELSE preCache[t]]
  BY DEF setTextureCacheCapacity
<1>4. preCache' \in [Tiles -> CacheEntry] /\ visCache' \in [Tiles -> CacheEntry]
  BY <1>1, <1>3, NoTaskType DEF IInv, StoreTypes
<1>5. \A t \in Tiles : tileValid(t, preCache)' => preCache'[t] = preCache[t]
  BY <1>3 DEF tileValid, NoEntry
<1> QED
  BY <1>1, <1>2, <1>4, <1>5, CacheStep

(* An entry that expires is valid no more, and no other one changes. *)
LEMMA ExpiredType ==
    ASSUME NEW c \in [Tiles -> CacheEntry], NEW t \in Tiles
    PROVE  /\ [c EXCEPT ![t].state = "expired"] \in [Tiles -> CacheEntry]
           /\ \A u \in Tiles : [c EXCEPT ![t].state = "expired"][u].state = "valid" =>
                  [c EXCEPT ![t].state = "expired"][u] = c[u]
BY DEF CacheEntry, States

LEMMA ExpireStep == ASSUME IInv, NEW t \in Tiles, Expire(t) PROVE IInv'
<1>1. UNCHANGED <<task, fetching, origin, changed, view, lastCull, thread>>
  BY DEF Expire, external, tasks
<1>2. ThreadTypes'
  BY <1>1 DEF IInv, ThreadTypes
<1>3. visCache \in [Tiles -> CacheEntry] /\ preCache \in [Tiles -> CacheEntry]
  BY DEF IInv, StoreTypes
<1>4. CASE visCache' = [visCache EXCEPT ![t].state = "expired"] /\ UNCHANGED preCache
  <2>1. /\ visCache' \in [Tiles -> CacheEntry]
        /\ \A u \in Tiles : visCache'[u].state = "valid" => visCache'[u] = visCache[u]
    BY <1>3, <1>4, ExpiredType
  <2> QED
    BY <1>1, <1>2, <1>3, <1>4, <2>1, CacheStep DEF tileValid
<1>5. CASE preCache' = [preCache EXCEPT ![t].state = "expired"] /\ UNCHANGED visCache
  <2>1. /\ preCache' \in [Tiles -> CacheEntry]
        /\ \A u \in Tiles : preCache'[u].state = "valid" => preCache'[u] = preCache[u]
    BY <1>3, <1>5, ExpiredType
  <2> QED
    BY <1>1, <1>2, <1>3, <1>5, <2>1, CacheStep DEF tileValid
<1> QED
  BY <1>4, <1>5 DEF Expire

(* loadData of a layer that is not drawn. *)
LEMMA LoadHiddenStep == ASSUME IInv, NEW th \in Threads, LoadHidden(th) PROVE IInv'
<1>1. UNCHANGED <<task, fetching, origin, changed, view, lastCull>>
  BY DEF LoadHidden, external, tasks
<1>2. thread' = [thread EXCEPT ![th] = Loaded(th)]
      /\ refreshDrawData({}, [vis |-> visCache, pre |-> preCache])
  BY DEF LoadHidden
<1>3. ThreadTypes'
  BY <1>1, <1>2, LoadedType DEF IInv, ThreadTypes
<1> DEFINE c == [vis |-> visCache, pre |-> preCache]
<1>4. c.vis = visCache /\ c.pre = preCache
  OBVIOUS
<1> HIDE DEF c
<1>5. refreshDrawData({}, c)
  BY <1>2 DEF c
<1>6. /\ visCache' \in [Tiles -> CacheEntry] /\ preCache' \in [Tiles -> CacheEntry]
      /\ \A t \in Tiles : visCache'[t] \in {visCache[t], preCache[t], NoEntry}
      /\ \A t \in Tiles : preCache'[t] \in {visCache[t], preCache[t], NoEntry}
  BY <1>4, <1>5, RefreshKeepsFresh DEF IInv, StoreTypes
<1> QED
  BY <1>1, <1>3, <1>6, CacheStep DEF tileValid, NoEntry

-----------------------------------------------------------------------------
(* Steps that change the tasks.                                            *)

LEMMA LoadBeginStep == ASSUME IInv, NEW th \in Threads, LoadBegin(th) PROVE IInv'
<1> DEFINE v == thread[th].view
           c == prefetchTile(MissingParents(v))
           S == OtherKind(Wanted(v))
<1>1. /\ UNCHANGED <<origin, changed, view, lastCull>>
      /\ refreshDrawData(Drawn(v), c)
      /\ task' = Canceled(S) /\ fetching' = Kept(S)
      /\ thread' = [thread EXCEPT ![th].pc = "fetch", ![th].fetch = Wanted(v)]
      /\ thread[th].pc = "load"
  BY DEF LoadBegin, external
<1>2. v \in Views /\ StoreTypes /\ ThreadTypes
  BY <1>1 DEF IInv, ThreadTypes
<1>3. Wanted(v) \in SUBSET FetchTile
  BY <1>2, WantedType
<1>4. ThreadTypes'
  <2> HIDE DEF v
  <2>1. thread' \in [Threads -> ThreadState]
    BY <1>1, <1>2, <1>3 DEF ThreadTypes, ThreadState
  <2>2. \A u \in Threads : thread'[u].pc = "load" => thread'[u] = thread[u]
    BY <1>1, <1>2 DEF ThreadTypes, ThreadState
  <2> QED
    BY <1>1, <1>2, <2>1, <2>2 DEF ThreadTypes
<1>5. /\ c.vis \in [Tiles -> CacheEntry] /\ c.pre \in [Tiles -> CacheEntry]
      /\ \A t \in Tiles : /\ c.vis[t] \in {visCache[t], preCache[t], NoEntry}
                          /\ c.pre[t] \in {visCache[t], preCache[t], NoEntry}
  BY <1>2, PrefetchKeepsFresh DEF StoreTypes
<1> HIDE DEF v, c, S
<1>6. /\ visCache' \in [Tiles -> CacheEntry] /\ preCache' \in [Tiles -> CacheEntry]
      /\ \A t \in Tiles : visCache'[t] \in {visCache[t], preCache[t], NoEntry}
      /\ \A t \in Tiles : preCache'[t] \in {visCache[t], preCache[t], NoEntry}
  BY <1>1, <1>5, RefreshKeepsFresh
<1>7. NoStaleTile'
  BY <1>1, <1>6 DEF IInv, NoStaleTile, tileValid, NoEntry
<1>8. /\ task' \in [Slots -> FetchTask]
      /\ \A s \in Slots : /\ task'[s].pc = task[s].pc /\ task'[s].ver = task[s].ver
                          /\ task'[s].invalidated = task[s].invalidated
                          /\ s \in S => task'[s].canceled
                          /\ s \notin S => task'[s] = task[s]
  BY <1>1, <1>2, CanceledType DEF StoreTypes
<1>9. StoreTypes'
  BY <1>1, <1>2, <1>6, <1>8 DEF StoreTypes
<1>10. RunningIsKnown'
  BY <1>1, <1>8 DEF IInv, RunningIsKnown, Running, Waiting, Kept, Started
<1>11. ReadIsFresh'
  BY <1>1, <1>8 DEF IInv, ReadIsFresh
<1> QED
  BY <1>4, <1>7, <1>9, <1>10, <1>11 DEF IInv

LEMMA QueuedType ==
    ASSUME NEW t \in Tiles, NEW b \in BOOLEAN
    PROVE  LET r == [NoTask EXCEPT !.pc = "queued", !.tile = t, !.preloading = b]
           IN  r \in FetchTask /\ r.pc = "queued"
<1>1. "queued" \in TaskPcs
  BY DEF TaskPcs
<1> QED
  BY <1>1, NoTaskType DEF FetchTask

LEMMA LoadFetchStep == ASSUME IInv, NEW th \in Threads, LoadFetch(th) PROVE IInv'
<1> DEFINE wanted == thread[th].fetch
           new == {w \in wanted : ~Fetching(w)}
           old == {s \in fetching : task[s].tile \notin {w.tile : w \in wanted}}
           free == {s \in Slots : task[s].pc = "none"}
           slotOf == CHOOSE f \in [new -> free] : \A w, x \in new : f[w] = f[x] => w = x
           Created(w) == [NoTask EXCEPT !.pc = "queued", !.tile = w.tile, !.preloading = w.preloading]
           used == {slotOf[w] : w \in new}
<1>1. /\ UNCHANGED <<origin, changed, view, lastCull, visCache, preCache>>
      /\ task' = [s \in Slots |-> IF s \in used THEN Created(CHOOSE w \in new : slotOf[w] = s)
                                  ELSE Canceled(old)[s]]
      /\ fetching' = Kept(old) \cup used
      /\ thread' = [thread EXCEPT ![th] = Loaded(th)]
  BY DEF LoadFetch, external, caches
<1>2. StoreTypes /\ ThreadTypes
  BY DEF IInv
<1>3. ThreadTypes'
  BY <1>1, <1>2, LoadedType DEF ThreadTypes
<1>4. new \in SUBSET FetchTile
  BY <1>2 DEF ThreadTypes, ThreadState
<1>5. ASSUME NEW w \in FetchTile
      PROVE  Created(w) \in FetchTask /\ Created(w).pc = "queued"
  <2>1. w.tile \in Tiles /\ w.preloading \in BOOLEAN
    BY <1>5 DEF FetchTile
  <2> QED
    BY <2>1, QueuedType
<1>6. ASSUME NEW s \in used PROVE (CHOOSE w \in new : slotOf[w] = s) \in FetchTile
  <2> HIDE DEF slotOf
  <2>1. \E w \in new : slotOf[w] = s
    BY <1>6
  <2> QED
    BY <2>1, <1>4
<1> HIDE DEF new, old, used, slotOf, Created
<1>7. /\ task' \in [Slots -> FetchTask]
      /\ \A s \in Slots : \/ task'[s].pc = "queued" /\ s \in used
                          \/ /\ task'[s].pc = task[s].pc /\ task'[s].ver = task[s].ver
                             /\ task'[s].invalidated = task[s].invalidated
                             /\ s \in old => task'[s].canceled
                             /\ s \notin old => task'[s] = task[s]
  BY <1>1, <1>2, <1>5, <1>6, CanceledType DEF StoreTypes
<1>8. StoreTypes'
  BY <1>1, <1>2, <1>7 DEF StoreTypes
<1>9. RunningIsKnown'
  BY <1>1, <1>7 DEF IInv, RunningIsKnown, Running, Waiting, Kept, Started
<1>10. ReadIsFresh'
  BY <1>1, <1>7 DEF IInv, ReadIsFresh
<1>11. NoStaleTile'
  BY <1>1 DEF IInv, NoStaleTile, tileValid
<1> QED
  BY <1>3, <1>8, <1>9, <1>10, <1>11 DEF IInv

(* The change of the tiles: nothing is promised until it is notified. *)
LEMMA ChangeOriginStep == IInv /\ ChangeOrigin => IInv'
<1> SUFFICES ASSUME IInv, ChangeOrigin PROVE IInv'
  OBVIOUS
<1>1. UNCHANGED <<task, fetching, visCache, preCache, thread, view, lastCull>>
      /\ origin' = origin + 1 /\ changed' = TRUE
  BY DEF ChangeOrigin, tasks, caches
<1>2. StoreTypes' /\ ThreadTypes' /\ RunningIsKnown'
  BY <1>1 DEF IInv, StoreTypes, ThreadTypes, RunningIsKnown
<1>3. ReadIsFresh' /\ NoStaleTile'
  BY <1>1 DEF ReadIsFresh, NoStaleTile
<1> QED
  BY <1>2, <1>3 DEF IInv

(* Its notification: what is running is invalidated, what is cached, too. *)
LEMMA UpdateTilesStep == ASSUME IInv, NEW b \in BOOLEAN, updateTiles(b) PROVE IInv'
<1>1. /\ UNCHANGED <<origin, view, lastCull>>
      /\ thread' = [thread EXCEPT ![App].pc = "refresh"]
      /\ task' = InvalidateAll(Canceled(fetching)) /\ fetching' = Kept(fetching)
      /\ visCache' \in {[t \in Tiles |-> NoEntry], Invalidated(visCache)}
      /\ preCache' = [t \in Tiles |-> NoEntry]
  BY DEF updateTiles
<1>2. StoreTypes /\ ThreadTypes /\ App \in Threads
  BY DEF IInv, Threads
<1>3. ThreadTypes'
  BY <1>1, <1>2 DEF ThreadTypes, ThreadState
<1>4. /\ visCache' \in [Tiles -> CacheEntry] /\ preCache' \in [Tiles -> CacheEntry]
      /\ \A t \in Tiles : visCache'[t].state # "valid" /\ preCache'[t].state # "valid"
  BY <1>1, <1>2, NoTaskType DEF StoreTypes, Invalidated, CacheEntry, States, NoEntry
<1>5. /\ task' \in [Slots -> FetchTask]
      /\ \A s \in Slots : /\ task'[s].pc = task[s].pc
                          /\ s \in fetching => task'[s].invalidated /\ task'[s].canceled
                          /\ s \notin fetching => task'[s] = task[s]
  <2>1. Canceled(fetching) \in [Slots -> FetchTask]
        /\ \A s \in Slots : /\ Canceled(fetching)[s].pc = task[s].pc
                            /\ s \in fetching => Canceled(fetching)[s].canceled
                            /\ s \notin fetching => Canceled(fetching)[s] = task[s]
    BY <1>2, CanceledType DEF StoreTypes
  <2> QED
    BY <1>1, <2>1 DEF InvalidateAll, FetchTask
<1>6. StoreTypes'
  BY <1>1, <1>2, <1>4, <1>5 DEF StoreTypes
<1>7. RunningIsKnown'
  BY <1>1, <1>5 DEF IInv, RunningIsKnown, Running, Waiting, Kept, Started
<1>8. ReadIsFresh'
  BY <1>5 DEF IInv, RunningIsKnown, Running, ReadIsFresh
<1>9. NoStaleTile'
  BY <1>4 DEF NoStaleTile, tileValid
<1> QED
  BY <1>3, <1>6, <1>7, <1>8, <1>9 DEF IInv

-----------------------------------------------------------------------------
(* The steps of a task.                                                    *)

(* A step that leaves the threads alone. *)
LEMMA SameThreads ==
    ASSUME IInv, UNCHANGED <<thread, view, lastCull>>
    PROVE  ThreadTypes'
BY DEF IInv, ThreadTypes

(* One task changes; the caches may, as long as they stay fresh. *)
LEMMA TaskStep ==
    ASSUME IInv, NEW s \in Slots, NEW r \in FetchTask,
           task' = [task EXCEPT ![s] = r],
           \A u \in fetching \ {s} : u \in fetching',
           r.pc \in Running => s \in fetching',
           r.pc \in Waiting => r.canceled \/ s \in fetching',
           r.pc \in {"loaded", "decoded"} /\ ~r.invalidated /\ ~changed => r.ver = origin,
           visCache' \in [Tiles -> CacheEntry], preCache' \in [Tiles -> CacheEntry], NoStaleTile',
           UNCHANGED <<origin, changed, thread, view, lastCull>>
    PROVE  IInv'
<1>1. ThreadTypes' /\ StoreTypes /\ StoreTypes'
  BY SameThreads DEF IInv, StoreTypes
<1>2. \A u \in Slots : task'[u] = IF u = s THEN r ELSE task[u]
  BY <1>1 DEF StoreTypes
<1>3. RunningIsKnown'
  BY <1>2 DEF IInv, RunningIsKnown
<1>4. ReadIsFresh'
  BY <1>2 DEF IInv, ReadIsFresh
<1> QED
  BY <1>1, <1>3, <1>4 DEF IInv

(* One task goes on or ends, and nothing else changes. *)
LEMMA GoOnStep ==
    ASSUME IInv, NEW s \in Slots, NEW r \in FetchTask,
           task' = [task EXCEPT ![s] = r], fetching' = fetching,
           r.pc \in Running => s \in fetching,
           r.pc \in Waiting => r.canceled \/ s \in fetching,
           r.pc \in {"loaded", "decoded"} /\ ~r.invalidated /\ ~changed => r.ver = origin,
           UNCHANGED <<visCache, preCache, origin, changed, thread, view, lastCull>>
    PROVE  IInv'
<1>1. NoStaleTile' /\ visCache' \in [Tiles -> CacheEntry] /\ preCache' \in [Tiles -> CacheEntry]
  BY DEF IInv, StoreTypes, NoStaleTile, tileValid
<1> QED
  BY <1>1, TaskStep

LEMMA TakeTaskStep == ASSUME IInv, NEW s \in Slots, TakeTask(s) PROVE IInv'
<1> DEFINE r == [task[s] EXCEPT !.pc = "taken"]
<1>1. task[s] \in FetchTask
  BY DEF IInv, StoreTypes
<1>2. /\ UNCHANGED <<fetching, visCache, preCache, origin, changed, thread, view, lastCull>>
      /\ task[s].pc = "queued" /\ task' = [task EXCEPT ![s] = r]
  BY DEF TakeTask, Run, notTask, external, caches
<1>3. r \in FetchTask /\ r.pc = "taken" /\ r.canceled = task[s].canceled
  BY <1>1 DEF FetchTask, TaskPcs
<1>4. r.canceled \/ s \in fetching
  BY <1>2, <1>3 DEF IInv, RunningIsKnown, Waiting
<1> HIDE DEF r
<1> QED
  BY <1>2, <1>3, <1>4, GoOnStep DEF Running

(* A task that only goes from one place to another. *)
LEMMA MovedType ==
    ASSUME NEW r \in FetchTask, NEW p \in TaskPcs
    PROVE  LET q == [r EXCEPT !.pc = p]
           IN  /\ q \in FetchTask /\ q.pc = p
               /\ q.canceled = r.canceled /\ q.invalidated = r.invalidated /\ q.ver = r.ver
BY DEF FetchTask

LEMMA StartTaskStep == ASSUME IInv, NEW s \in Slots, StartTask(s) PROVE IInv'
<1> DEFINE r == IF task[s].canceled THEN NoTask ELSE [task[s] EXCEPT !.pc = "loading"]
<1>1. task[s] \in FetchTask /\ "loading" \in TaskPcs
  BY DEF IInv, StoreTypes, TaskPcs
<1>2. /\ UNCHANGED <<fetching, visCache, preCache, origin, changed, thread, view, lastCull>>
      /\ task[s].pc = "taken" /\ task' = [task EXCEPT ![s] = r]
  BY DEF StartTask, notTask, external, caches
<1>3. CASE task[s].canceled
  <2>1. r \in FetchTask /\ r.pc = "none"
    BY <1>3, NoTaskType DEF NoTask
  <2> HIDE DEF r
  <2> QED
    BY <1>2, <2>1, GoOnStep DEF Running, Waiting
<1>4. CASE ~task[s].canceled
  <2>1. r \in FetchTask /\ r.pc = "loading" /\ s \in fetching
    BY <1>1, <1>2, <1>4, MovedType DEF IInv, RunningIsKnown, Waiting
  <2> HIDE DEF r
  <2> QED
    BY <1>2, <2>1, GoOnStep DEF Waiting
<1> QED
  BY <1>3, <1>4

(* The steps of a started task that end in a place where nothing is read.  *)
LEMMA RunStep ==
    ASSUME IInv, NEW s \in Slots, NEW from, NEW to, Run(s, from, to), from \in Running,
           to \in {"reading", "failed", "decoded"}, to = "decoded" => from = "loaded",
           UNCHANGED <<fetching, visCache, preCache, origin, changed, thread, view, lastCull>>
    PROVE  IInv'
<1> DEFINE r == [task[s] EXCEPT !.pc = to]
<1>1. task[s] \in FetchTask /\ to \in TaskPcs
  BY DEF IInv, StoreTypes, TaskPcs
<1>2. r \in FetchTask /\ r.pc = to /\ r.ver = task[s].ver /\ r.invalidated = task[s].invalidated
  BY <1>1, MovedType
<1>3. task[s].pc = from /\ task' = [task EXCEPT ![s] = r]
  BY DEF Run
<1>4. s \in fetching /\ to \notin Waiting
  BY <1>3 DEF IInv, RunningIsKnown, Waiting
<1> HIDE DEF r
<1>5. r.pc \in {"loaded", "decoded"} /\ ~r.invalidated /\ ~changed => r.ver = origin
  BY <1>2, <1>3 DEF IInv, ReadIsFresh
<1> QED
  BY <1>2, <1>3, <1>4, <1>5, GoOnStep

LEMMA ReadingSteps ==
    ASSUME IInv, NEW s \in Slots, RequestTile(s) \/ AnswerNothing(s) \/ DecodeTile(s)
    PROVE  IInv'
<1>1. UNCHANGED <<fetching, visCache, preCache, origin, changed, thread, view, lastCull>>
  BY DEF RequestTile, AnswerNothing, DecodeTile, notTask, external, caches
<1>2. \/ Run(s, "loading", "failed") \/ Run(s, "loading", "reading") \/ Run(s, "reading", "failed")
      \/ Run(s, "loaded", "failed") \/ Run(s, "loaded", "decoded")
  BY DEF RequestTile, AnswerNothing, DecodeTile
<1>3. {"loading", "reading", "loaded"} \subseteq Running
  BY DEF Running
<1> QED
  BY <1>1, <1>2, <1>3, RunStep

(* The answer is of the version that the data source has now. *)
LEMMA AnsweredType ==
    ASSUME IInv, NEW s \in Slots, task[s].pc = "reading"
    PROVE  LET r == [task[s] EXCEPT !.pc = "loaded", !.ver = origin]
           IN  r \in FetchTask /\ r.pc = "loaded" /\ r.ver = origin /\ s \in fetching
<1>1. task[s] \in FetchTask /\ origin \in Int /\ "loaded" \in TaskPcs
  BY DEF IInv, StoreTypes, TaskPcs
<1>2. s \in fetching
  BY DEF IInv, RunningIsKnown, Running
<1> QED
  BY <1>1, <1>2 DEF FetchTask

LEMMA AnswerTileStep == ASSUME IInv, NEW s \in Slots, AnswerTile(s) PROVE IInv'
<1> DEFINE r == [task[s] EXCEPT !.pc = "loaded", !.ver = origin]
<1>1. /\ UNCHANGED <<fetching, visCache, preCache, origin, changed, thread, view, lastCull>>
      /\ task[s].pc = "reading" /\ task' = [task EXCEPT ![s] = r]
  BY DEF AnswerTile, notTask, external, caches
<1>2. r \in FetchTask /\ r.pc = "loaded" /\ r.ver = origin /\ s \in fetching
  BY <1>1, AnsweredType
<1> HIDE DEF r
<1> QED
  BY <1>1, <1>2, GoOnStep DEF Waiting

LEMMA AnswerOverZoomStep == ASSUME IInv, NEW s \in Slots, AnswerOverZoom(s) PROVE IInv'
<1> DEFINE r == [task[s] EXCEPT !.pc = "loaded", !.ver = origin]
           t == task[s].tile
<1>1. /\ UNCHANGED <<fetching, origin, changed, thread, view, lastCull>>
      /\ task[s].pc = "reading" /\ task' = [task EXCEPT ![s] = r]
      /\ visCache' = [visCache EXCEPT ![t] = NoEntry] /\ preCache' = [preCache EXCEPT ![t] = NoEntry]
  BY DEF AnswerOverZoom, notTask, external
<1>2. r \in FetchTask /\ r.pc = "loaded" /\ r.ver = origin /\ s \in fetching
  BY <1>1, AnsweredType
<1> HIDE DEF r, t
<1>3. visCache' \in [Tiles -> CacheEntry] /\ preCache' \in [Tiles -> CacheEntry]
  BY <1>1, NoTaskType DEF IInv, StoreTypes
<1>4. NoStaleTile'
  BY <1>1 DEF IInv, StoreTypes, NoStaleTile, tileValid, NoEntry
<1> QED
  BY <1>1, <1>2, <1>3, <1>4, TaskStep DEF Waiting

(* The tile that is cached was read after the last change, or before one   *)
(* that is not notified yet.                                               *)
LEMMA PutTileStep == ASSUME IInv, NEW s \in Slots, PutTile(s) PROVE IInv'
<1> DEFINE r == [task[s] EXCEPT !.pc = "done"]
           t == task[s].tile
           entry == [ver |-> task[s].ver, state |-> "valid"]
<1>1. /\ UNCHANGED <<fetching, origin, changed, thread, view, lastCull>>
      /\ task[s].pc = "decoded" /\ task' = [task EXCEPT ![s] = r]
      /\ visCache' = visCache \/ (~task[s].invalidated /\ visCache' = [visCache EXCEPT ![t] = entry])
      /\ preCache' = preCache \/ (~task[s].invalidated /\ preCache' = [preCache EXCEPT ![t] = entry])
  BY DEF PutTile, Run, notTask, external, caches
<1>2. task[s] \in FetchTask /\ StoreTypes /\ "done" \in TaskPcs
  BY DEF IInv, StoreTypes, TaskPcs
<1>3. r \in FetchTask /\ r.pc = "done" /\ s \in fetching
  BY <1>1, <1>2, MovedType DEF IInv, RunningIsKnown, Running
<1>4. entry \in CacheEntry /\ entry.ver = task[s].ver
  BY <1>2 DEF FetchTask, CacheEntry, States
<1>5. ~task[s].invalidated /\ ~changed => entry.ver = origin
  BY <1>1, <1>4 DEF IInv, ReadIsFresh
<1> HIDE DEF r, t, entry
<1>6. visCache' \in [Tiles -> CacheEntry] /\ preCache' \in [Tiles -> CacheEntry]
  BY <1>1, <1>2, <1>4 DEF StoreTypes
<1>7. NoStaleTile'
  BY <1>1, <1>2, <1>5 DEF IInv, StoreTypes, NoStaleTile, tileValid
<1> QED
  BY <1>1, <1>3, <1>6, <1>7, TaskStep DEF Waiting

LEMMA EndSteps ==
    ASSUME IInv, NEW s \in Slots, EndTask(s) \/ layerChanged(s)
    PROVE  IInv'
<1> DEFINE r == [task[s] EXCEPT !.pc = "changed"]
<1>1. /\ UNCHANGED <<visCache, preCache, origin, changed, thread, view, lastCull>>
      /\ \A u \in fetching \ {s} : u \in fetching'
      /\ task' = [task EXCEPT ![s] = r] \/ task' = [task EXCEPT ![s] = NoTask]
  BY DEF EndTask, layerChanged, Run, notTask, external, caches
<1>2. r \in FetchTask /\ r.pc = "changed" /\ NoTask \in FetchTask /\ NoTask.pc = "none"
  <2>1. task[s] \in FetchTask /\ "changed" \in TaskPcs
    BY DEF IInv, StoreTypes, TaskPcs
  <2> QED
    BY <2>1, MovedType, NoTaskType DEF NoTask
<1>3. NoStaleTile' /\ visCache' \in [Tiles -> CacheEntry] /\ preCache' \in [Tiles -> CacheEntry]
  BY <1>1 DEF IInv, StoreTypes, NoStaleTile, tileValid
<1> HIDE DEF r
<1>4. \A q \in {r, NoTask} : q.pc \notin Running \cup Waiting \cup {"loaded", "decoded"}
  BY <1>2 DEF Running, Waiting
<1> QED
  BY <1>1, <1>2, <1>3, <1>4, TaskStep

LEMMA WorkerStep == ASSUME IInv, NEW s \in Slots, Worker(s) PROVE IInv'
BY TakeTaskStep, StartTaskStep, ReadingSteps, AnswerTileStep, AnswerOverZoomStep, PutTileStep,
   EndSteps DEF Worker

-----------------------------------------------------------------------------
(* cancelAll, and all steps together. *)

LEMMA CancelAllStep == IInv /\ (CancelAllBegin \/ CancelNext \/ CancelAllEnd) => IInv'
<1> SUFFICES ASSUME IInv, CancelAllBegin \/ CancelNext \/ CancelAllEnd PROVE IInv'
  OBVIOUS
<1>1. UNCHANGED <<visCache, preCache, origin, changed, thread, view, lastCull>>
  BY DEF CancelAllBegin, CancelNext, CancelAllEnd, external, caches
<1>2. CASE CancelAllBegin \/ CancelAllEnd
  <2>1. UNCHANGED store
    BY <1>1, <1>2 DEF CancelAllBegin, CancelAllEnd, tasks, store
  <2> QED
    BY <1>1, <2>1, SameThreads, QuietStep
<1>3. CASE CancelNext
  <2> DEFINE s == Min(canceling.todo)
  <2>1. task' = [task EXCEPT ![s] = NoTask] /\ fetching' = fetching \ {s}
    BY <1>3 DEF CancelNext
  <2> HIDE DEF s
  <2>2. CASE s \in Slots
    <3>1. NoTask \in FetchTask /\ NoTask.pc \notin Running \cup Waiting \cup {"loaded", "decoded"}
      BY NoTaskType DEF NoTask, Running, Waiting
    <3>2. NoStaleTile' /\ visCache' \in [Tiles -> CacheEntry] /\ preCache' \in [Tiles -> CacheEntry]
      BY <1>1 DEF IInv, StoreTypes, NoStaleTile, tileValid
    <3> QED
      BY <1>1, <2>1, <2>2, <3>1, <3>2, TaskStep
  <2>3. CASE s \notin Slots
    <3>1. task' = task
      BY <2>1, <2>3 DEF IInv, StoreTypes
    <3>2. ThreadTypes' /\ StoreTypes' /\ ReadIsFresh' /\ NoStaleTile'
      BY <1>1, <3>1, SameThreads DEF IInv, StoreTypes, ReadIsFresh, NoStaleTile, tileValid
    <3>3. RunningIsKnown'
      BY <2>1, <2>3, <3>1 DEF IInv, RunningIsKnown
    <3> QED
      BY <3>2, <3>3 DEF IInv
  <2> QED
    BY <2>2, <2>3
<1> QED
  BY <1>2, <1>3

LEMMA NextIInv == IInv /\ [Next]_vars => IInv'
<1> SUFFICES ASSUME IInv, [Next]_vars PROVE IInv'
  OBVIOUS
<1>1. CASE UNCHANGED vars
  <2>1. UNCHANGED <<store, thread, view, lastCull>>
    BY <1>1 DEF vars, store
  <2> QED
    BY <2>1, SameThreads, QuietStep
<1>2. ASSUME NEW th \in Threads, Load(th) PROVE IInv'
  BY <1>2, LoadHiddenStep, LoadBeginStep, LoadFetchStep DEF Load
<1> QED
  BY <1>1, <1>2, ViewStep, CullingStep, SetVisibleStep, UpdateTilesStep, RefreshStep, CapacityStep,
     ExpireStep, ChangeOriginStep, WorkerStep, CancelAllStep DEF Next

(* The inductive invariant: besides NoStaleTile, a task that runs is in    *)
(* the table, where updateTiles finds it, and what it has read is fresh.   *)
THEOREM Invariance == Spec => []IInv
<1> QED
  BY InitIInv, NextIInv, PTL DEF Spec

(* After updateTiles has told the layer of a change, no tile of before it  *)
(* is cached as valid, however its tasks and the change are interleaved.   *)
THEOREM NeverStale == Spec => []NoStaleTile
<1>1. IInv => NoStaleTile
  BY DEF IInv
<1> QED
  BY <1>1, Invariance, PTL
-----------------------------------------------------------------------------
(* What the tasks do meanwhile: every step but the last of loadData leaves *)
(* the table no bigger, and no task is taken over by another tile.         *)

TasksFade ==
    /\ fetching' \subseteq fetching
    /\ \A s \in fetching' : /\ task'[s].tile = task[s].tile /\ task'[s].preloading = task[s].preloading
                            /\ task[s].canceled => task'[s].canceled
    /\ \A s \in Slots : task[s].pc = "none" => task'[s].pc = "none"

(* The steps that leave the tasks alone, and those of the tasks. *)
Moves == (\E v \in Views : ViewChanged(v)) \/ TakeWakeup \/ SaveCullState \/ refresh
           \/ (\E b \in BOOLEAN : setVisible(b))
Keeps == ChangeOrigin \/ CancelAllBegin \/ CancelAllEnd \/ UNCHANGED vars
Ages == setTextureCacheCapacity \/ (\E t \in Tiles : Expire(t))
Works == (\E s \in Slots : Worker(s)) \/ CancelNext
Begins == \E th \in Threads : LoadHidden(th) \/ LoadBegin(th)
Fetches == \E th \in Threads : LoadFetch(th)
Updates == \E b \in BOOLEAN : updateTiles(b)

LEMMA NextCases ==
    ASSUME [Next]_vars
    PROVE  Moves \/ Keeps \/ Ages \/ Works \/ Begins \/ Fetches \/ Updates
BY DEF Next, Load, Moves, Keeps, Ages, Works, Begins, Fetches, Updates

LEMMA QuietTasks ==
    ASSUME Moves \/ Keeps \/ Ages \/ (\E th \in Threads : LoadHidden(th))
    PROVE  UNCHANGED <<task, fetching>>
BY DEF Moves, Keeps, Ages, ViewChanged, TakeWakeup, SaveCullState, refresh, setVisible, ChangeOrigin,
       CancelAllBegin, CancelAllEnd, setTextureCacheCapacity, Expire, LoadHidden, tasks, vars

(* One step of a task changes that task only; what is left in the table    *)
(* goes on as the task it was.                                             *)
SameTask(s) ==
    /\ task'[s].tile = task[s].tile /\ task'[s].preloading = task[s].preloading
    /\ task'[s].canceled = task[s].canceled /\ task'[s].invalidated = task[s].invalidated

LEMMA WorkerShape ==
    ASSUME IInv, KnownIsAlive, NEW s \in Slots, Worker(s)
    PROVE  /\ \A u \in Slots \ {s} : task'[u] = task[u]
           /\ fetching' \in {fetching, fetching \ {s}}
           /\ task[s].pc # "none"
           /\ task'[s] = NoTask \/ SameTask(s)
           /\ s \in fetching' => /\ SameTask(s)
                                 /\ task'[s].pc \in Running \/ (task'[s].pc = "taken" /\ task[s].pc = "queued")
<1>1. task \in [Slots -> FetchTask]
  BY DEF IInv, StoreTypes
<1>2. ASSUME NEW from, NEW to, Run(s, from, to)
      PROVE  (\A u \in Slots \ {s} : task'[u] = task[u]) /\ SameTask(s) /\ task[s].pc = from /\ task'[s].pc = to
  BY <1>1, <1>2 DEF Run, SameTask, FetchTask
<1>3. ASSUME task' = [task EXCEPT ![s] = NoTask]
      PROVE  (\A u \in Slots \ {s} : task'[u] = task[u]) /\ task'[s] = NoTask
  BY <1>1, <1>3
<1>4. CASE TakeTask(s)
  BY <1>2, <1>4 DEF TakeTask
<1>5. CASE StartTask(s)
  <2>1. CASE task[s].canceled
    <3>1. task' = [task EXCEPT ![s] = NoTask] /\ fetching' = fetching /\ task[s].pc = "taken"
      BY <1>5, <2>1 DEF StartTask
    <3>2. s \notin fetching
      BY <2>1, <3>1 DEF KnownIsAlive, Running
    <3> QED
      BY <1>3, <3>1, <3>2
  <2>2. CASE ~task[s].canceled
    <3>1. Run(s, "taken", "loading") /\ fetching' = fetching
      BY <1>1, <1>5, <2>2 DEF StartTask, Run
    <3> QED
      BY <1>2, <3>1 DEF Running
  <2> QED
    BY <2>1, <2>2
<1>6. CASE RequestTile(s) \/ AnswerNothing(s) \/ DecodeTile(s) \/ PutTile(s)
  <2>1. /\ fetching' = fetching
        /\ \/ Run(s, "loading", "failed") \/ Run(s, "loading", "reading") \/ Run(s, "reading", "failed")
           \/ Run(s, "loaded", "failed") \/ Run(s, "loaded", "decoded") \/ Run(s, "decoded", "done")
    BY <1>6 DEF RequestTile, AnswerNothing, DecodeTile, PutTile
  <2> QED
    BY <1>2, <2>1 DEF Running
<1>7. CASE AnswerTile(s) \/ AnswerOverZoom(s)
  <2>1. fetching' = fetching /\ task[s].pc = "reading" /\ task' = [task EXCEPT ![s].pc = "loaded", ![s].ver = origin]
    BY <1>7 DEF AnswerTile, AnswerOverZoom
  <2>2. SameTask(s) /\ task'[s].pc = "loaded" /\ \A u \in Slots \ {s} : task'[u] = task[u]
    BY <1>1, <2>1 DEF SameTask, FetchTask
  <2> QED
    BY <2>1, <2>2 DEF Running
<1>8. CASE EndTask(s) \/ layerChanged(s)
  <2>1. task[s].pc # "none" /\ s \notin fetching'
    BY <1>8 DEF EndTask, layerChanged, KnownIsAlive, Running, Waiting
  <2>2. fetching' \in {fetching, fetching \ {s}}
    BY <1>8 DEF EndTask, layerChanged
  <2>3. Run(s, "done", "changed") \/ task' = [task EXCEPT ![s] = NoTask]
    BY <1>8 DEF EndTask, layerChanged
  <2> QED
    BY <1>2, <1>3, <2>1, <2>2, <2>3
<1> QED
  BY <1>4, <1>5, <1>6, <1>7, <1>8 DEF Worker

LEMMA CancelNextShape ==
    ASSUME IInv, CancelNext
    PROVE  LET s == Min(canceling.todo)
           IN  /\ fetching' = fetching \ {s} /\ Free
               /\ \A u \in Slots \ {s} : task'[u] = task[u]
               /\ s \in Slots => task'[s] = NoTask
               /\ gaveUp' = IF Active(s) THEN gaveUp \cup {task[s].tile} ELSE gaveUp
BY DEF CancelNext, IInv, StoreTypes

(* Cancellation of a set of tasks. *)
LEMMA CancelShape ==
    ASSUME IInv, NEW S
    PROVE  /\ \A s \in Slots : /\ Canceled(S)[s].pc = task[s].pc /\ Canceled(S)[s].tile = task[s].tile
                               /\ Canceled(S)[s].preloading = task[s].preloading
                               /\ Canceled(S)[s].invalidated = task[s].invalidated
                               /\ Canceled(S)[s].ver = task[s].ver
                               /\ Canceled(S)[s].canceled = (s \in S \/ task[s].canceled)
           /\ Kept(S) \subseteq fetching
<1>1. \A s \in Slots : task[s] \in FetchTask
  BY DEF IInv, StoreTypes
<1>2. ASSUME NEW s \in Slots
      PROVE  /\ Canceled(S)[s].pc = task[s].pc /\ Canceled(S)[s].tile = task[s].tile
             /\ Canceled(S)[s].preloading = task[s].preloading
             /\ Canceled(S)[s].invalidated = task[s].invalidated
             /\ Canceled(S)[s].ver = task[s].ver
             /\ Canceled(S)[s].canceled = (s \in S \/ task[s].canceled)
  <2>1. Canceled(S)[s] = IF s \in S THEN [task[s] EXCEPT !.canceled = TRUE] ELSE task[s]
    BY DEF Canceled
  <2>2. CASE s \in S
    BY <1>1, <2>1, <2>2 DEF FetchTask
  <2>3. CASE s \notin S
    <3>1. Canceled(S)[s] = task[s] /\ task[s].canceled \in BOOLEAN
      BY <1>1, <2>1, <2>3 DEF FetchTask
    <3> QED
      BY <2>3, <3>1, Zenon
  <2> QED
    BY <2>2, <2>3
<1> QED
  BY <1>2 DEF Kept

LEMMA LoadBeginShape ==
    ASSUME IInv, NEW th \in Threads, LoadBegin(th)
    PROVE  LET S == OtherKind(Wanted(thread[th].view))
           IN  /\ task' = Canceled(S) /\ fetching' = Kept(S)
               /\ \A s \in Slots : /\ task'[s].pc = task[s].pc /\ task'[s].tile = task[s].tile
                                   /\ task'[s].preloading = task[s].preloading
                                   /\ task'[s].invalidated = task[s].invalidated
                                   /\ task'[s].ver = task[s].ver
                                   /\ task'[s].canceled = (s \in S \/ task[s].canceled)
               /\ fetching' \subseteq fetching
BY CancelShape DEF LoadBegin

LEMMA UpdateShape ==
    ASSUME IInv, NEW b \in BOOLEAN, updateTiles(b)
    PROVE  /\ fetching' = Kept(fetching) /\ fetching' \subseteq fetching
           /\ \A s \in Slots : /\ task'[s].pc = task[s].pc /\ task'[s].tile = task[s].tile
                               /\ task'[s].preloading = task[s].preloading /\ task'[s].ver = task[s].ver
                               /\ task'[s].canceled = (s \in fetching \/ task[s].canceled)
                               /\ task'[s].invalidated = (s \in fetching \/ task[s].invalidated)
<1> DEFINE c == Canceled(fetching)
<1>1. task' = InvalidateAll(c) /\ fetching' = Kept(fetching)
  BY DEF updateTiles
<1>2. c \in [Slots -> FetchTask]
  BY CanceledType DEF IInv, StoreTypes
<1>3. \A s \in Slots : /\ c[s].pc = task[s].pc /\ c[s].tile = task[s].tile
                       /\ c[s].preloading = task[s].preloading /\ c[s].ver = task[s].ver
                       /\ c[s].invalidated = task[s].invalidated
                       /\ c[s].canceled = (s \in fetching \/ task[s].canceled)
  BY CancelShape
<1> HIDE DEF c
<1>4. ASSUME NEW s \in Slots
      PROVE  /\ task'[s].pc = c[s].pc /\ task'[s].tile = c[s].tile
             /\ task'[s].preloading = c[s].preloading /\ task'[s].ver = c[s].ver
             /\ task'[s].canceled = c[s].canceled
             /\ task'[s].invalidated = (s \in fetching \/ c[s].invalidated)
  <2>1. task'[s] = IF s \in fetching THEN [c[s] EXCEPT !.invalidated = TRUE] ELSE c[s]
    BY <1>1 DEF InvalidateAll
  <2>2. CASE s \in fetching
    BY <1>2, <2>1, <2>2 DEF FetchTask
  <2>3. CASE s \notin fetching
    <3>1. task'[s] = c[s] /\ c[s].invalidated \in BOOLEAN
      BY <1>2, <2>1, <2>3 DEF FetchTask
    <3> QED
      BY <2>3, <3>1, Zenon
  <2> QED
    BY <2>2, <2>3
<1>5. fetching' \subseteq fetching
  BY <1>1 DEF Kept
<1> QED
  BY <1>1, <1>3, <1>4, <1>5

LEMMA FadeStep ==
    ASSUME IInv, KnownIsAlive, Moves \/ Keeps \/ Ages \/ Works \/ Begins \/ Updates
    PROVE  TasksFade
<1>1. fetching \subseteq Slots
  BY DEF KnownIsAlive
<1>2. CASE Moves \/ Keeps \/ Ages \/ \E th \in Threads : LoadHidden(th)
  BY <1>2, QuietTasks DEF TasksFade
<1>3. ASSUME NEW s \in Slots, Worker(s) PROVE TasksFade
  BY <1>1, <1>3, WorkerShape DEF TasksFade, SameTask
<1>4. CASE CancelNext
  BY <1>1, <1>4, CancelNextShape DEF TasksFade, NoTask
<1>5. ASSUME NEW th \in Threads, LoadBegin(th) PROVE TasksFade
  BY <1>1, <1>5, LoadBeginShape DEF TasksFade
<1>6. ASSUME NEW b \in BOOLEAN, updateTiles(b) PROVE TasksFade
  BY <1>1, <1>6, UpdateShape DEF TasksFade
<1> QED
  BY <1>2, <1>3, <1>4, <1>5, <1>6 DEF Works, Begins, Updates
(* There is a slot of its own for each new task. *)
LEMMA InjectionExists ==
    ASSUME NEW S, NEW T, IsFiniteSet(S), IsFiniteSet(T), Cardinality(S) <= Cardinality(T)
    PROVE  \E f \in [S -> T] : \A x, y \in S : f[x] = f[y] => x = y
<1> DEFINE m == Cardinality(S)
           n == Cardinality(T)
<1>1. m \in Nat /\ n \in Nat /\ m <= n
  BY FS_CardinalityType
<1>2. PICK g \in Bijection(1 .. m, S) : TRUE
  BY FS_CardinalityType DEF ExistsBijection
<1>3. PICK h \in Bijection(1 .. n, T) : TRUE
  BY FS_CardinalityType DEF ExistsBijection
<1> HIDE DEF m, n
<1>4. /\ \A x \in S : \E i \in 1 .. m : g[i] = x
      /\ h \in [1 .. n -> T] /\ \A i, j \in 1 .. n : h[i] = h[j] => i = j
  BY <1>2, <1>3 DEF Bijection, Injection, Surjection, IsInjective
<1> DEFINE place(x) == CHOOSE i \in 1 .. m : g[i] = x
           f == [x \in S |-> h[place(x)]]
<1>5. \A x \in S : place(x) \in 1 .. m /\ g[place(x)] = x
  BY <1>4
<1> HIDE DEF place
<1>6. \A x \in S : place(x) \in 1 .. n
  BY <1>1, <1>5
<1>7. f \in [S -> T]
  BY <1>4, <1>6
<1>8. ASSUME NEW x \in S, NEW y \in S, f[x] = f[y] PROVE x = y
  <2>1. h[place(x)] = h[place(y)]
    BY <1>8
  <2>2. place(x) = place(y)
    BY <1>4, <1>6, <2>1
  <2> QED
    BY <1>5, <2>2
<1> QED
  BY <1>7, <1>8

(* The last step of loadData: a task for every wanted tile that has none,  *)
(* and none for tiles that are not wanted.                                 *)
IsWanted(s, wanted) == \E w \in wanted : task[s].tile = w.tile
FreeSlots == {s \in Slots : task[s].pc = "none"}
NewTasks(th) == {w \in thread[th].fetch : ~Fetching(w)}
Placed(th, slot) ==
    LET wanted == thread[th].fetch
        used == {slot[w] : w \in NewTasks(th)}
    IN  /\ \A w, x \in NewTasks(th) : slot[w] = slot[x] => w = x
        /\ fetching' = Kept({s \in fetching : ~IsWanted(s, wanted)}) \cup used
        /\ \A w \in NewTasks(th) :
              LET q == task'[slot[w]]
              IN  /\ q.pc = "queued" /\ q.tile = w.tile /\ q.preloading = w.preloading
                  /\ ~q.canceled /\ ~q.invalidated /\ q.ver = 0
        /\ \A s \in Slots \ used :
              /\ task'[s].pc = task[s].pc /\ task'[s].tile = task[s].tile
              /\ task'[s].preloading = task[s].preloading
              /\ task'[s].invalidated = task[s].invalidated /\ task'[s].ver = task[s].ver
              /\ task'[s].canceled = ((s \in fetching /\ ~IsWanted(s, wanted)) \/ task[s].canceled)

LEMMA LoadFetchShape ==
    ASSUME IInv, FetchInv, NEW th \in Threads, LoadFetch(th)
    PROVE  \E slot \in [NewTasks(th) -> FreeSlots] : Placed(th, slot)
<1> DEFINE wanted == thread[th].fetch
           new == {w \in wanted : ~Fetching(w)}
           old == {s \in fetching : task[s].tile \notin {w.tile : w \in wanted}}
           free == {s \in Slots : task[s].pc = "none"}
           slotOf == CHOOSE f \in [new -> free] : \A w, x \in new : f[w] = f[x] => w = x
           Created(w) == [NoTask EXCEPT !.pc = "queued", !.tile = w.tile, !.preloading = w.preloading]
           used == {slotOf[w] : w \in new}
<1>1. /\ task' = [s \in Slots |-> IF s \in used THEN Created(CHOOSE w \in new : slotOf[w] = s)
                                  ELSE Canceled(old)[s]]
      /\ fetching' = Kept(old) \cup used
      /\ thread[th].pc = "fetch"
  BY DEF LoadFetch
<1>2. IsFiniteSet(wanted) /\ Cardinality(wanted) <= Cardinality(free)
  BY <1>1 DEF FetchInv, FetchState
<1>3. IsFiniteSet(free)
  BY FS_Subset, TileLayerAssumption
<1>4. IsFiniteSet(new) /\ Cardinality(new) <= Cardinality(free)
  <2>1. IsFiniteSet(new) /\ Cardinality(new) <= Cardinality(wanted)
    BY <1>2, FS_Subset
  <2>2. Cardinality(new) \in Nat /\ Cardinality(wanted) \in Nat /\ Cardinality(free) \in Nat
    BY <1>2, <1>3, <2>1, FS_CardinalityType
  <2> HIDE DEF new, wanted, free
  <2> QED
    BY <1>2, <2>1, <2>2
<1>5. new = NewTasks(th) /\ free = FreeSlots
  BY DEF NewTasks, FreeSlots
<1>6. old = {s \in fetching : ~IsWanted(s, wanted)}
  BY DEF IsWanted
<1> HIDE DEF new, old, free
<1>7. slotOf \in [new -> free] /\ \A w, x \in new : slotOf[w] = slotOf[x] => w = x
  BY <1>3, <1>4, InjectionExists
<1> HIDE DEF slotOf
<1>8. \A w \in new : /\ slotOf[w] \in Slots
                     /\ (CHOOSE x \in new : slotOf[x] = slotOf[w]) = w
  <2>1. free \subseteq Slots
    BY <1>5 DEF FreeSlots
  <2>2. ASSUME NEW w \in new PROVE (CHOOSE x \in new : slotOf[x] = slotOf[w]) = w
    <3>1. \E x \in new : slotOf[x] = slotOf[w]
      OBVIOUS
    <3>2. (CHOOSE x \in new : slotOf[x] = slotOf[w]) \in new
          /\ slotOf[CHOOSE x \in new : slotOf[x] = slotOf[w]] = slotOf[w]
      BY <3>1
    <3> QED
      BY <1>7, <3>2
  <2> QED
    BY <1>7, <2>1, <2>2
<1>9. ASSUME NEW w \in new
      PROVE  task'[slotOf[w]] = Created(w)
  BY <1>1, <1>8
<1>10. \A s \in Slots \ used : task'[s] = Canceled(old)[s]
  BY <1>1
<1>11. ASSUME NEW w \in new
       PROVE  LET q == task'[slotOf[w]]
              IN  /\ q.pc = "queued" /\ q.tile = w.tile /\ q.preloading = w.preloading
                  /\ ~q.canceled /\ ~q.invalidated /\ q.ver = 0
  <2>1. task'[slotOf[w]] = [NoTask EXCEPT !.pc = "queued", !.tile = w.tile, !.preloading = w.preloading]
    BY <1>9
  <2> HIDE DEF used, new, wanted, Created
  <2> QED
    BY <2>1 DEF NoTask
<1> HIDE DEF Created
<1>12. ASSUME NEW s \in Slots \ used
       PROVE  /\ task'[s].pc = task[s].pc /\ task'[s].tile = task[s].tile
              /\ task'[s].preloading = task[s].preloading
              /\ task'[s].invalidated = task[s].invalidated /\ task'[s].ver = task[s].ver
              /\ task'[s].canceled = ((s \in fetching /\ ~IsWanted(s, wanted)) \/ task[s].canceled)
  <2>1. task'[s] = Canceled(old)[s] /\ s \in Slots
    BY <1>10
  <2>2. (s \in old) <=> (s \in fetching /\ ~IsWanted(s, wanted))
    BY <1>6
  <2>3. /\ Canceled(old)[s].pc = task[s].pc /\ Canceled(old)[s].tile = task[s].tile
        /\ Canceled(old)[s].preloading = task[s].preloading
        /\ Canceled(old)[s].invalidated = task[s].invalidated
        /\ Canceled(old)[s].ver = task[s].ver
        /\ Canceled(old)[s].canceled = (s \in old \/ task[s].canceled)
    BY <2>1, CancelShape
  <2> HIDE DEF used, wanted
  <2> QED
    BY <2>1, <2>2, <2>3, Zenon
<1>13. fetching' = Kept({s \in fetching : ~IsWanted(s, wanted)}) \cup used
  BY <1>1, <1>6
<1>14. Placed(th, slotOf)
  BY <1>5, <1>7, <1>11, <1>12, <1>13 DEF Placed
<1> QED
  BY <1>5, <1>7, <1>14
-----------------------------------------------------------------------------
(* The table: who is in it, and once for a tile.                           *)

LEMMA FreeIsUnknown ==
    ASSUME KnownIsAlive
    PROVE  \A s \in FreeSlots : s \in Slots /\ s \notin fetching
BY DEF FreeSlots, KnownIsAlive, Running, Waiting

(* A task that was in the table and is not wanted leaves it, or is         *)
(* canceled; a task that is wanted stays as it is.                         *)
LEMMA PlacedOld ==
    ASSUME IInv, KnownIsAlive, NEW th \in Threads, NEW slot \in [NewTasks(th) -> FreeSlots], Placed(th, slot)
    PROVE  /\ \A w \in NewTasks(th) : slot[w] \in Slots /\ slot[w] \notin fetching /\ slot[w] \in fetching'
           /\ \A s \in fetching' : \/ \E w \in NewTasks(th) : s = slot[w]
                                   \/ s \in fetching /\ (Started(s) \/ IsWanted(s, thread[th].fetch))
           /\ \A s \in fetching : \A w \in NewTasks(th) : s # slot[w]
           /\ \A s \in fetching : IsWanted(s, thread[th].fetch) => s \in fetching'
           /\ \A s \in Slots : \/ \E w \in NewTasks(th) : s = slot[w]
                               \/ s \in Slots \ {slot[w] : w \in NewTasks(th)}
<1>1. \A w \in NewTasks(th) : slot[w] \in Slots /\ slot[w] \notin fetching
  BY FreeIsUnknown
<1>2. fetching' = Kept({s \in fetching : ~IsWanted(s, thread[th].fetch)}) \cup {slot[w] : w \in NewTasks(th)}
  BY DEF Placed
<1> QED
  BY <1>1, <1>2 DEF Kept

LEMMA KnownStep ==
    ASSUME IInv, KnownIsAlive, FetchInv, [Next]_vars
    PROVE  KnownIsAlive'
<1>1. /\ fetching \subseteq Slots
      /\ \A s \in Slots : task[s].canceled \in BOOLEAN /\ task[s].invalidated \in BOOLEAN
  BY DEF KnownIsAlive, IInv, StoreTypes, FetchTask
<1>2. CASE Moves \/ Keeps \/ Ages \/ \E th \in Threads : LoadHidden(th)
  BY <1>2, QuietTasks DEF KnownIsAlive
<1>3. ASSUME NEW s \in Slots, Worker(s) PROVE KnownIsAlive'
  <2>1. /\ \A u \in Slots \ {s} : task'[u] = task[u]
        /\ fetching' \in {fetching, fetching \ {s}}
        /\ task[s].pc # "none"
        /\ task'[s] = NoTask \/ SameTask(s)
        /\ s \in fetching' => /\ SameTask(s)
                              /\ task'[s].pc \in Running \/ (task'[s].pc = "taken" /\ task[s].pc = "queued")
    BY <1>3, WorkerShape
  <2>2. task[s].tile \in Tiles /\ (task[s].invalidated => task[s].canceled)
    BY <2>1 DEF KnownIsAlive
  <2>3. NoTask.pc = "none" /\ ~NoTask.invalidated
    BY DEF NoTask
  <2>4. \A u \in Slots : /\ task'[u].pc # "none" => task'[u].tile \in Tiles
                         /\ task'[u].invalidated => task'[u].canceled
    BY <2>1, <2>2, <2>3 DEF KnownIsAlive, SameTask
  <2>5. \A u \in fetching' \ {s} : /\ u \in Slots
                                   /\ task'[u].pc \in Running \/ (task'[u].pc \in Waiting /\ ~task'[u].canceled)
    BY <2>1 DEF KnownIsAlive
  <2>6. s \in fetching' => task'[s].pc \in Running \/ (task'[s].pc \in Waiting /\ ~task'[s].canceled)
    <3> SUFFICES ASSUME s \in fetching', task'[s].pc \notin Running
                 PROVE  task'[s].pc \in Waiting /\ ~task'[s].canceled
      OBVIOUS
    <3>1. task'[s].pc = "taken" /\ task[s].pc = "queued" /\ s \in fetching /\ SameTask(s)
      BY <2>1
    <3>2. ~task[s].canceled
      BY <3>1 DEF KnownIsAlive, Running
    <3> QED
      BY <3>1, <3>2 DEF Waiting, SameTask
  <2> QED
    BY <2>4, <2>5, <2>6 DEF KnownIsAlive
<1>4. CASE CancelNext
  <2> DEFINE s == Min(canceling.todo)
  <2>1. /\ fetching' = fetching \ {s} /\ \A u \in Slots \ {s} : task'[u] = task[u]
        /\ s \in Slots => task'[s] = NoTask
    BY <1>4, CancelNextShape
  <2> HIDE DEF s
  <2>2. NoTask.pc = "none" /\ ~NoTask.invalidated
    BY DEF NoTask
  <2> QED
    BY <2>1, <2>2 DEF KnownIsAlive
<1>5. ASSUME NEW th \in Threads, LoadBegin(th) PROVE KnownIsAlive'
  <2> DEFINE S == OtherKind(Wanted(thread[th].view))
  <2>1. /\ fetching' = Kept(S)
        /\ \A s \in Slots : /\ task'[s].pc = task[s].pc /\ task'[s].tile = task[s].tile
                            /\ task'[s].invalidated = task[s].invalidated
                            /\ task'[s].canceled = (s \in S \/ task[s].canceled)
    BY <1>5, LoadBeginShape
  <2> HIDE DEF S
  <2>2. ASSUME NEW s \in fetching'
        PROVE  s \in Slots /\ (task'[s].pc \in Running \/ (task'[s].pc \in Waiting /\ ~task'[s].canceled))
    <3>1. s \in fetching /\ s \in Slots /\ (s \in S => task[s].pc \notin Waiting)
      BY <1>1, <2>1 DEF Kept, Started, Waiting
    <3>2. task'[s].pc = task[s].pc /\ (task'[s].canceled => s \in S \/ task[s].canceled)
      BY <2>1, <3>1
    <3>3. task[s].pc \in Running \/ (task[s].pc \in Waiting /\ ~task[s].canceled)
      BY <3>1 DEF KnownIsAlive
    <3> QED
      BY <3>1, <3>2, <3>3
  <2>3. ASSUME NEW s \in Slots
        PROVE  /\ task'[s].pc # "none" => task'[s].tile \in Tiles
               /\ task'[s].invalidated => task'[s].canceled
    BY <2>1 DEF KnownIsAlive
  <2> QED
    BY <2>2, <2>3 DEF KnownIsAlive
<1>6. ASSUME NEW b \in BOOLEAN, updateTiles(b) PROVE KnownIsAlive'
  <2>1. /\ fetching' = Kept(fetching)
        /\ \A s \in Slots : /\ task'[s].pc = task[s].pc /\ task'[s].tile = task[s].tile
                            /\ task'[s].canceled = (s \in fetching \/ task[s].canceled)
                            /\ task'[s].invalidated = (s \in fetching \/ task[s].invalidated)
    BY <1>6, UpdateShape
  <2>2. ASSUME NEW s \in fetching' PROVE s \in Slots /\ task'[s].pc \in Running
    <3>1. s \in fetching /\ s \in Slots /\ task[s].pc \notin Waiting
      BY <1>1, <2>1 DEF Kept, Started, Waiting
    <3> QED
      BY <2>1, <3>1 DEF KnownIsAlive
  <2>3. ASSUME NEW s \in Slots
        PROVE  /\ task'[s].pc # "none" => task'[s].tile \in Tiles
               /\ task'[s].invalidated => task'[s].canceled
    BY <2>1 DEF KnownIsAlive
  <2> QED
    BY <2>2, <2>3 DEF KnownIsAlive
<1>7. ASSUME NEW th \in Threads, LoadFetch(th) PROVE KnownIsAlive'
  <2> DEFINE wanted == thread[th].fetch
             new == NewTasks(th)
  <2>1. PICK slot \in [new -> FreeSlots] : Placed(th, slot)
    BY <1>7, LoadFetchShape
  <2>2. \A w \in new : w.tile \in Tiles
    BY DEF NewTasks, IInv, ThreadTypes, ThreadState, FetchTile
  <2> HIDE DEF wanted, new
  <2>3. /\ \A w \in new : slot[w] \in Slots
        /\ \A s \in fetching' : \/ \E w \in new : s = slot[w]
                                \/ s \in fetching /\ (Started(s) \/ IsWanted(s, wanted))
        /\ \A s \in Slots : (\E w \in new : s = slot[w]) \/ s \in Slots \ {slot[w] : w \in new}
    BY <2>1, PlacedOld DEF new, wanted
  <2>4. /\ \A w \in new : LET q == task'[slot[w]]
                          IN  q.pc = "queued" /\ q.tile = w.tile /\ ~q.canceled /\ ~q.invalidated
        /\ \A s \in Slots \ {slot[w] : w \in new} :
              /\ task'[s].pc = task[s].pc /\ task'[s].tile = task[s].tile
              /\ task'[s].invalidated = task[s].invalidated
              /\ task'[s].canceled = ((s \in fetching /\ ~IsWanted(s, wanted)) \/ task[s].canceled)
    BY <2>1 DEF Placed, new, wanted
  <2>5. ASSUME NEW s \in Slots
        PROVE  /\ task'[s].pc # "none" => task'[s].tile \in Tiles
               /\ task'[s].invalidated => task'[s].canceled
    <3>1. CASE \E w \in new : s = slot[w]
      BY <2>2, <2>4, <3>1
    <3>2. CASE s \in Slots \ {slot[w] : w \in new}
      BY <2>4, <3>2 DEF KnownIsAlive
    <3> QED
      BY <2>3, <3>1, <3>2
  <2>6. ASSUME NEW s \in fetching'
        PROVE  s \in Slots /\ (task'[s].pc \in Running \/ (task'[s].pc \in Waiting /\ ~task'[s].canceled))
    <3>1. CASE \E w \in new : s = slot[w]
      BY <2>3, <2>4, <3>1 DEF Waiting
    <3>2. CASE ~\E w \in new : s = slot[w]
      <4>1. s \in fetching /\ s \in Slots /\ (Started(s) \/ IsWanted(s, wanted))
        BY <1>1, <2>3, <3>2
      <4>2. /\ task'[s].pc = task[s].pc
            /\ task'[s].canceled => ~IsWanted(s, wanted) \/ task[s].canceled
        BY <2>3, <2>4, <3>2, <4>1
      <4>3. task[s].pc \in Running \/ (task[s].pc \in Waiting /\ ~task[s].canceled)
        BY <4>1 DEF KnownIsAlive
      <4>4. Started(s) => task[s].pc \notin Waiting
        BY DEF Started, Waiting
      <4> QED
        BY <4>1, <4>2, <4>3, <4>4
    <3> QED
      BY <3>1, <3>2
  <2> QED
    BY <2>5, <2>6 DEF KnownIsAlive
<1> QED
  BY <1>2, <1>3, <1>4, <1>5, <1>6, <1>7, NextCases DEF Works, Begins, Fetches, Updates

LEMMA OnceStep ==
    ASSUME IInv, KnownIsAlive, OneTaskPerTile, FetchInv, [Next]_vars
    PROVE  OneTaskPerTile'
<1>1. ASSUME TasksFade PROVE OneTaskPerTile'
  BY <1>1 DEF TasksFade, OneTaskPerTile, Active
<1>2. ASSUME NEW th \in Threads, LoadFetch(th) PROVE OneTaskPerTile'
  <2> DEFINE wanted == thread[th].fetch
             new == NewTasks(th)
  <2>1. PICK slot \in [new -> FreeSlots] : Placed(th, slot)
    BY <1>2, LoadFetchShape
  <2>2. FetchState(th)
    BY <1>2 DEF LoadFetch, FetchInv
  <2>3. \A w \in new : w \in wanted /\ ~Fetching(w)
    BY DEF NewTasks
  <2> HIDE DEF wanted, new
  <2>4. /\ \A s \in fetching' : (\E w \in new : s = slot[w]) \/ s \in fetching
        /\ \A s \in fetching : \A w \in new : s # slot[w]
    BY <2>1, PlacedOld DEF new, wanted
  <2>5. /\ \A w, x \in new : slot[w] = slot[x] => w = x
        /\ \A w \in new : task'[slot[w]].tile = w.tile
        /\ \A s \in fetching : /\ task'[s].tile = task[s].tile
                               /\ task[s].canceled => task'[s].canceled
    <3>1. \A s \in fetching : s \in Slots \ {slot[w] : w \in new}
      BY <2>4 DEF KnownIsAlive
    <3> QED
      BY <2>1, <3>1 DEF Placed, new, wanted
  <2>6. \A w, x \in new : w.tile = x.tile => w = x
    BY <2>2, <2>3 DEF FetchState, wanted
  <2>7. ASSUME NEW w \in new, NEW s \in fetching, ~task[s].canceled PROVE task[s].tile # w.tile
    <3>1. Active(s) /\ w \in wanted /\ ~Fetching(w)
      BY <2>3, <2>7 DEF Active
    <3>2. task[s].tile = w.tile => task[s].preloading = w.preloading
      BY <2>2, <3>1 DEF FetchState, wanted
    <3> QED
      BY <3>1, <3>2 DEF Fetching
  <2>8. ASSUME NEW s \in fetching', NEW u \in fetching', ~task'[s].canceled, ~task'[u].canceled,
               task'[s].tile = task'[u].tile
        PROVE  s = u
    <3>1. CASE s \in fetching /\ u \in fetching
      <4>1. Active(s) /\ Active(u) /\ task[s].tile = task[u].tile
        BY <2>5, <2>8, <3>1 DEF Active
      <4> QED
        BY <3>1, <4>1 DEF OneTaskPerTile
    <3>2. CASE (\E w \in new : s = slot[w]) /\ u \in fetching
      BY <2>5, <2>7, <2>8, <3>2
    <3>3. CASE (\E w \in new : u = slot[w]) /\ s \in fetching
      BY <2>5, <2>7, <2>8, <3>3
    <3>4. CASE (\E w \in new : s = slot[w]) /\ (\E w \in new : u = slot[w])
      BY <2>5, <2>6, <2>8, <3>4
    <3> QED
      BY <2>4, <3>1, <3>2, <3>3, <3>4
  <2> QED
    BY <2>8 DEF OneTaskPerTile, Active
<1> QED
  BY <1>1, <1>2, FadeStep, NextCases DEF Fetches

(* cancelAll takes one of the tasks that it is to cancel. *)
LEMMA NextIsQueued ==
    ASSUME CancelInv, canceling.todo # {}
    PROVE  Min(canceling.todo) \in canceling.todo
<1>1. canceling.todo \subseteq Nat
  BY TileLayerAssumption DEF CancelInv
<1>2. \E m \in canceling.todo : \A k \in canceling.todo : m <= k
  <2> DEFINE R == {p \in Nat \X Nat : p[1] < p[2]}
  <2>1. IsWellFoundedOn(R, Nat)
    <3>1. OpToRel(<, Nat) = R
      BY DEF OpToRel
    <3> QED
      BY <3>1, NatLessThanWellFounded
  <2>2. PICK m \in canceling.todo : \A k \in canceling.todo : <<k, m>> \notin R
    <3> HIDE DEF R
    <3> QED
      BY <1>1, <2>1, WFMin
  <2>3. \A k \in canceling.todo : k \in Nat /\ m \in Nat /\ ~(k < m)
    BY <1>1, <2>2
  <2> QED
    BY <2>3
<1> QED
  BY <1>2 DEF Min

LEMMA CancelStep ==
    ASSUME IInv, KnownIsAlive, FetchInv, CancelInv, [Next]_vars
    PROVE  CancelInv'
<1>1. task \in [Slots -> FetchTask]
  BY DEF IInv, StoreTypes
<1>2. ASSUME canceling' = canceling, \A s \in canceling.todo : task'[s].pc = "queued"
      PROVE  CancelInv'
  BY <1>2 DEF CancelInv
<1>3. CASE CancelNext
  <2> DEFINE s == Min(canceling.todo)
  <2>1. canceling' = [canceling EXCEPT !.todo = @ \ {s}] /\ canceling.todo # {}
    BY <1>3 DEF CancelNext
  <2>2. \A u \in Slots \ {s} : task'[u] = task[u]
    BY <1>3, CancelNextShape
  <2> HIDE DEF s
  <2> QED
    BY <2>1, <2>2 DEF CancelInv
<1>4. CASE CancelAllBegin \/ CancelAllEnd
  BY <1>4 DEF CancelAllBegin, CancelAllEnd, CancelInv, tasks
<1>5. CASE Moves \/ ChangeOrigin \/ UNCHANGED vars \/ Ages \/ \E th \in Threads : LoadHidden(th)
  <2>1. canceling' = canceling
    BY <1>5 DEF Moves, Ages, ViewChanged, TakeWakeup, SaveCullState, refresh, setVisible, ChangeOrigin,
                setTextureCacheCapacity, Expire, LoadHidden, vars
  <2>2. task' = task
    BY <1>5, QuietTasks DEF Keeps
  <2> QED
    BY <1>2, <2>1, <2>2 DEF CancelInv
<1>6. ASSUME NEW th \in Threads, LoadBegin(th) PROVE CancelInv'
  BY <1>2, <1>6, LoadBeginShape DEF LoadBegin, CancelInv
<1>7. CASE Updates
  BY <1>2, <1>7, UpdateShape DEF Updates, updateTiles, CancelInv
<1>8. ASSUME NEW th \in Threads, LoadFetch(th) PROVE CancelInv'
  <2>1. PICK slot \in [NewTasks(th) -> FreeSlots] : Placed(th, slot)
    BY <1>8, LoadFetchShape
  <2>2. canceling' = canceling
    BY <1>8 DEF LoadFetch
  <2>3. \A s \in canceling.todo : s \in Slots \ {slot[w] : w \in NewTasks(th)}
    BY DEF CancelInv, FreeSlots
  <2>4. \A s \in canceling.todo : task'[s].pc = task[s].pc
    BY <2>1, <2>3 DEF Placed
  <2> QED
    BY <1>2, <2>2, <2>4 DEF CancelInv
<1>9. ASSUME NEW s \in Slots, Worker(s) PROVE CancelInv'
  <2>1. canceling' = canceling
    BY <1>9 DEF Worker, TakeTask, StartTask, RequestTile, AnswerNothing, AnswerTile,
                AnswerOverZoom, DecodeTile, PutTile, EndTask, layerChanged, notTask
  <2>2. s \notin canceling.todo
    <3>1. CASE TakeTask(s)
      BY <3>1 DEF TakeTask, PoolFree, CancelInv
    <3>2. CASE ~TakeTask(s)
      <4>1. task[s].pc # "queued"
        BY <1>9, <3>2 DEF Worker, Run, StartTask, RequestTile, AnswerNothing, AnswerTile,
                          AnswerOverZoom, DecodeTile, PutTile, EndTask, layerChanged
      <4> QED
        BY <4>1 DEF CancelInv
    <3> QED
      BY <3>1, <3>2
  <2>3. \A u \in Slots \ {s} : task'[u] = task[u]
    BY <1>9, WorkerShape
  <2> QED
    BY <1>2, <2>1, <2>2, <2>3 DEF CancelInv
<1> QED
  BY <1>3, <1>4, <1>5, <1>6, <1>7, <1>8, <1>9, NextCases DEF Keeps, Works, Begins, Fetches

-----------------------------------------------------------------------------
(* The mutex of the layer, and what its holder may rely on.                *)

LEMMA ThreadsApart == "free" \notin Threads /\ \A th \in Threads : th # "free"
BY DEF Threads, Cull, App

(* The steps that neither begin nor end the part under the mutex.          *)
LEMMA ThreadStep ==
    ASSUME IInv, [Next]_vars, ~Fetches, ~(\E th \in Threads : LoadBegin(th))
    PROVE  /\ mutex' = mutex
           /\ \A th \in Threads : thread'[th].pc = "fetch" \/ thread[th].pc = "fetch" => thread'[th] = thread[th]
<1>1. thread \in [Threads -> ThreadState] /\ Cull \in Threads /\ App \in Threads
  BY DEF IInv, ThreadTypes, Threads
<1>2. IdleThread.pc = "idle"
  BY DEF IdleThread
<1>3. CASE Keeps \/ Ages \/ Works \/ \E v \in Views : ViewChanged(v)
  <2>1. UNCHANGED <<thread, mutex>>
    BY <1>3 DEF Keeps, Ages, Works, Worker, ChangeOrigin, CancelAllBegin, CancelAllEnd, CancelNext, vars,
                setTextureCacheCapacity, Expire, TakeTask, StartTask, RequestTile, AnswerNothing, AnswerTile,
                AnswerOverZoom, DecodeTile, PutTile, EndTask, layerChanged, notTask, ViewChanged
  <2> QED
    BY <2>1
<1>4. CASE TakeWakeup \/ SaveCullState
  BY <1>1, <1>2, <1>4 DEF TakeWakeup, SaveCullState, ThreadState
<1>5. CASE refresh \/ (\E b \in BOOLEAN : setVisible(b)) \/ Updates
  BY <1>1, <1>2, <1>5 DEF refresh, setVisible, Updates, updateTiles, ThreadState
<1>6. ASSUME NEW th \in Threads, LoadHidden(th)
      PROVE  /\ mutex' = mutex
             /\ \A u \in Threads : thread'[u].pc = "fetch" \/ thread[u].pc = "fetch" => thread'[u] = thread[u]
  <2>1. Loaded(th).pc # "fetch"
    BY <1>1, <1>2 DEF Loaded, ThreadState
  <2> QED
    BY <1>1, <1>6, <2>1 DEF LoadHidden
<1> QED
  BY <1>3, <1>4, <1>5, <1>6, NextCases DEF Moves, Begins

LEMMA MutexStep == ASSUME IInv, MutexInv, [Next]_vars PROVE MutexInv'
<1>1. thread \in [Threads -> ThreadState]
  BY DEF IInv, ThreadTypes
<1>2. ASSUME NEW th \in Threads, LoadBegin(th) PROVE MutexInv'
  <2>1. mutex = "free" /\ mutex' = th /\ thread' = [thread EXCEPT ![th].pc = "fetch", ![th].fetch = Wanted(thread[th].view)]
    BY <1>2 DEF LoadBegin, Free
  <2>2. thread'[th].pc = "fetch" /\ \A u \in Threads \ {th} : thread'[u] = thread[u]
    BY <1>1, <2>1 DEF ThreadState
  <2> QED
    BY <2>1, <2>2, ThreadsApart DEF MutexInv
<1>3. ASSUME NEW th \in Threads, LoadFetch(th) PROVE MutexInv'
  <2>1. thread[th].pc = "fetch" /\ mutex' = "free" /\ thread' = [thread EXCEPT ![th] = Loaded(th)]
    BY <1>3 DEF LoadFetch
  <2>2. Loaded(th).pc # "fetch"
    BY <1>1 DEF Loaded, ThreadState, IdleThread
  <2>3. thread'[th].pc # "fetch" /\ \A u \in Threads \ {th} : thread'[u] = thread[u]
    BY <1>1, <2>1, <2>2
  <2> QED
    BY <2>1, <2>3, ThreadsApart DEF MutexInv
<1>4. CASE ~Fetches /\ ~\E th \in Threads : LoadBegin(th)
  BY <1>4, ThreadStep DEF MutexInv
<1> QED
  BY <1>2, <1>3, <1>4 DEF Fetches
(* A tile is wanted once: as a visible one if it is missing in the view.   *)
LEMMA WantedOnce ==
    ASSUME NEW v \in Views
    PROVE  /\ \A w, x \in Wanted(v) : w.tile = x.tile => w = x
           /\ \A w \in Wanted(v) : w.tile \in v.visible => ~w.preloading
           /\ \A t \in v.visible : Valid(t) \/ \E w \in Wanted(v) : w.tile = t
           /\ IsFiniteSet(Wanted(v))
<1> DEFINE vis == Missing(v.visible) \cup Missing(MissingParents(v))
           pre == Missing(v.preloading) \ vis
           W == Wanted(v)
<1>1. W = {[tile |-> t, preloading |-> FALSE] : t \in vis} \cup {[tile |-> t, preloading |-> TRUE] : t \in pre}
  BY DEF Wanted
<1>2. vis \cap pre = {}
  OBVIOUS
<1>3. \A t \in v.visible : t \in vis \/ Valid(t)
  BY DEF Missing
<1>4. \A t \in pre : t \in v.visible => t \in vis
  BY DEF Missing
<1> HIDE DEF vis, pre
<1>5. \A w \in W : \/ w.tile \in vis /\ w = [tile |-> w.tile, preloading |-> FALSE]
                   \/ w.tile \in pre /\ w = [tile |-> w.tile, preloading |-> TRUE]
  BY <1>1
<1>6. \A t \in vis : [tile |-> t, preloading |-> FALSE] \in W
  BY <1>1
<1> HIDE DEF W
<1>7. \A w, x \in W : w.tile = x.tile => w = x
  BY <1>2, <1>5
<1>8. \A w \in W : w.tile \in v.visible => ~w.preloading
  <2> SUFFICES ASSUME NEW w \in W, w.tile \in v.visible PROVE ~w.preloading
    OBVIOUS
  <2>1. w.tile \notin pre
    BY <1>2, <1>4
  <2>2. w = [tile |-> w.tile, preloading |-> FALSE]
    BY <1>5, <2>1
  <2> QED
    BY <2>2
<1>9. \A t \in v.visible : Valid(t) \/ \E w \in W : w.tile = t
  <2> SUFFICES ASSUME NEW t \in v.visible, ~Valid(t) PROVE \E w \in W : w.tile = t
    OBVIOUS
  <2>1. [tile |-> t, preloading |-> FALSE] \in W
    BY <1>3, <1>6
  <2> QED
    BY <2>1
<1>10. IsFiniteSet(W)
  <2> DEFINE f == [w \in W |-> w.tile]
  <2>1. \A w \in W : w.tile \in Tiles
    BY WantedType DEF W, FetchTile
  <2>2. f \in Injection(W, Tiles)
    BY <1>7, <2>1 DEF Injection, IsInjective
  <2> QED
    BY <2>2, FS_Injection, TileLayerAssumption
<1> QED
  BY <1>7, <1>8, <1>9, <1>10 DEF W

(* refreshDrawData keeps what was valid and is drawn within reach.         *)
LEMMA RefreshHolds ==
    ASSUME IInv, NEW v \in Views, refreshDrawData(Drawn(v), prefetchTile(MissingParents(v)))
    PROVE  \A t \in v.visible : Valid(t) => Held(t)'
<1> SUFFICES ASSUME NEW t \in v.visible, Valid(t) PROVE Held(t)'
  OBVIOUS
<1> DEFINE c == prefetchTile(MissingParents(v))
           D == Drawn(v)
<1>1. t \in Tiles /\ NoEntry.state = "none"
  BY TileLayerAssumption DEF NoEntry
<1>2. Exists(t)
  BY <1>1 DEF Valid, Exists, tileValid, tileExists, NoEntry
<1>3. t \in D
  BY <1>2 DEF Drawn
<1>4. /\ c.vis[t] = IF t \in MissingParents(v) /\ tileValid(t, preCache) THEN preCache[t] ELSE visCache[t]
      /\ c.pre[t] = IF t \in MissingParents(v) /\ tileValid(t, preCache) THEN NoEntry ELSE preCache[t]
  BY <1>1 DEF prefetchTile
<1>5. c.vis[t].state = "valid" \/ c.pre[t].state = "valid"
  BY <1>4 DEF Valid, tileValid
<1> HIDE DEF c, D
<1>6. refreshDrawData(D, c)
  BY DEF c, D
<1>7. /\ visCache'[t] = IF c.vis[t] # NoEntry THEN c.vis[t] ELSE c.pre[t]
      /\ preCache'[t] = IF c.vis[t] = NoEntry THEN NoEntry ELSE c.pre[t]
  BY <1>1, <1>3, <1>6 DEF refreshDrawData
<1>8. CASE c.vis[t] = NoEntry
  BY <1>1, <1>5, <1>7, <1>8 DEF Held, Good
<1>9. CASE c.vis[t] # NoEntry
  BY <1>5, <1>7, <1>9 DEF Held, Good, tileExists
<1> QED
  BY <1>8, <1>9

LEMMA FetchBegins ==
    ASSUME IInv, KnownIsAlive, NEW th \in Threads, LoadBegin(th)
    PROVE  FetchState(th)'
<1> DEFINE v == thread[th].view
           W == Wanted(v)
<1>1. v \in Views
  BY DEF LoadBegin, IInv, ThreadTypes
<1>2. thread \in [Threads -> ThreadState] /\ thread' = [thread EXCEPT ![th].pc = "fetch", ![th].fetch = W]
  BY DEF LoadBegin, IInv, ThreadTypes
<1>3. thread'[th].view = v /\ thread'[th].fetch = W /\ shown' = v
  <2> HIDE DEF W
  <2>1. thread'[th].view = v /\ thread'[th].fetch = W
    BY <1>2 DEF ThreadState
  <2> QED
    BY <2>1 DEF LoadBegin
<1>4. Cardinality(W) <= Cardinality({s \in Slots : task[s].pc = "none"}) /\ gaveUp' = gaveUp
  BY DEF LoadBegin
<1>5. refreshDrawData(Drawn(v), prefetchTile(MissingParents(v)))
  BY DEF LoadBegin
<1>6. \A t \in v.visible : Valid(t) => Held(t)'
  BY <1>1, <1>5, RefreshHolds
<1>7. /\ \A w, x \in W : w.tile = x.tile => w = x
      /\ \A w \in W : w.tile \in v.visible => ~w.preloading
      /\ \A t \in v.visible : Valid(t) \/ \E w \in W : w.tile = t
      /\ IsFiniteSet(W)
  BY <1>1, WantedOnce
<1>8. /\ \A s \in Slots : /\ task'[s].pc = task[s].pc /\ task'[s].tile = task[s].tile
                          /\ task'[s].preloading = task[s].preloading
                          /\ task'[s].canceled = (s \in OtherKind(W) \/ task[s].canceled)
      /\ fetching' \subseteq fetching /\ fetching \subseteq Slots
  BY LoadBeginShape DEF KnownIsAlive
<1>9. ASSUME NEW w \in W, NEW s \in fetching', ~task'[s].canceled, task'[s].tile = w.tile
      PROVE  task'[s].preloading = w.preloading
  <2>1. s \in fetching /\ s \notin OtherKind(W) /\ ~task[s].canceled /\ task[s].tile = w.tile
    BY <1>8, <1>9
  <2>2. task[s].preloading = w.preloading
    BY <2>1 DEF OtherKind, Active
  <2> QED
    BY <1>8, <2>1, <2>2
<1>10. {s \in Slots : task'[s].pc = "none"} = {s \in Slots : task[s].pc = "none"}
  BY <1>8
<1> HIDE DEF v, W
<1>11. thread'[th].view = shown' /\ shown' \in Views /\ IsFiniteSet(thread'[th].fetch)
       /\ Cardinality(thread'[th].fetch) <= Cardinality({s \in Slots : task'[s].pc = "none"})
  BY <1>1, <1>3, <1>4, <1>7, <1>10
<1>12. /\ \A w, x \in thread'[th].fetch : w.tile = x.tile => w = x
       /\ \A w \in thread'[th].fetch, s \in fetching' :
              Active(s)' /\ task'[s].tile = w.tile => task'[s].preloading = w.preloading
       /\ \A w \in thread'[th].fetch : w.tile \in shown'.visible => ~w.preloading
       /\ \A t \in shown'.visible \ gaveUp' : Held(t)' \/ \E w \in thread'[th].fetch : w.tile = t
  BY <1>3, <1>4, <1>6, <1>7, <1>9 DEF Active
<1> QED
  BY <1>11, <1>12 DEF FetchState

(* Whoever loads nothing keeps a tile that is held, or gives it up.        *)
LEMMA HeldStep ==
    ASSUME IInv, KnownIsAlive, Moves \/ Keeps \/ Ages \/ Works
    PROVE  /\ shown' = shown
           /\ \A t \in Tiles : Held(t) => Held(t)' \/ t \in gaveUp'
<1>1. /\ visCache \in [Tiles -> CacheEntry] /\ preCache \in [Tiles -> CacheEntry]
      /\ NoEntry.state = "none"
  BY DEF IInv, StoreTypes, NoEntry
<1>2. CASE Moves \/ Keeps
  <2>1. UNCHANGED <<shown, visCache, preCache, gaveUp>>
    BY <1>2 DEF Moves, Keeps, ViewChanged, TakeWakeup, SaveCullState, refresh, setVisible, ChangeOrigin,
                CancelAllBegin, CancelAllEnd, vars, caches
  <2> QED
    BY <2>1 DEF Held, tileExists
<1>3. CASE setTextureCacheCapacity
  <2>1. PICK dropped \in SUBSET {t \in Tiles : preCache[t] # NoEntry} :
             /\ preCache' = [t \in Tiles |-> IF t \in dropped THEN NoEntry ELSE preCache[t]]
             /\ gaveUp' = gaveUp \cup {t \in dropped : tileExists(t, visCache)}
    BY <1>3 DEF setTextureCacheCapacity
  <2>2. UNCHANGED <<shown, visCache>>
    BY <1>3 DEF setTextureCacheCapacity
  <2> QED
    BY <2>1, <2>2 DEF Held, tileExists
<1>4. ASSUME NEW u \in Tiles, Expire(u)
      PROVE  shown' = shown /\ \A t \in Tiles : Held(t) => Held(t)'
  <2>1. shown' = shown
    BY <1>4 DEF Expire
  <2>2. CASE visCache' = [visCache EXCEPT ![u].state = "expired"] /\ UNCHANGED preCache
    <3>1. visCache'[u].state = "expired" /\ \A t \in Tiles \ {u} : visCache'[t] = visCache[t]
      BY <1>1, <2>2 DEF CacheEntry
    <3> QED
      BY <2>2, <2>1, <3>1 DEF Held, Good, tileExists
  <2>3. CASE preCache' = [preCache EXCEPT ![u].state = "expired"] /\ UNCHANGED visCache
    <3>1. preCache'[u].state = "expired" /\ \A t \in Tiles \ {u} : preCache'[t] = preCache[t]
      BY <1>1, <2>3 DEF CacheEntry
    <3> QED
      BY <2>3, <2>1, <3>1 DEF Held, Good, tileExists
  <2> QED
    BY <1>4, <2>2, <2>3 DEF Expire
<1>5. ASSUME NEW s \in Slots, PutTile(s)
      PROVE  shown' = shown /\ \A t \in Tiles : Held(t) => Held(t)'
  <2> DEFINE e == [ver |-> task[s].ver, state |-> "valid"]
             u == task[s].tile
  <2>1. /\ shown' = shown
        /\ \/ UNCHANGED <<visCache, preCache>>
           \/ preCache' = [preCache EXCEPT ![u] = e] /\ visCache' = visCache
           \/ visCache' = [visCache EXCEPT ![u] = e] /\ preCache' = preCache
    BY <1>5 DEF PutTile, notTask, caches
  <2>2. e.state = "valid"
    OBVIOUS
  <2> HIDE DEF e, u
  <2>3. CASE UNCHANGED <<visCache, preCache>>
    BY <2>1, <2>3 DEF Held, tileExists
  <2>4. CASE preCache' = [preCache EXCEPT ![u] = e] /\ visCache' = visCache
    BY <1>1, <2>1, <2>2, <2>4 DEF Held, Good, tileExists
  <2>5. CASE visCache' = [visCache EXCEPT ![u] = e] /\ preCache' = preCache
    <3>1. \A t \in Tiles : visCache'[t].state = "valid" \/ visCache'[t] = visCache[t]
      BY <1>1, <2>2, <2>5
    <3> QED
      BY <2>1, <2>5, <3>1 DEF Held, Good, tileExists
  <2> QED
    BY <2>1, <2>3, <2>4, <2>5
<1>6. ASSUME NEW s \in Slots, AnswerOverZoom(s)
      PROVE  shown' = shown /\ \A t \in Tiles : Held(t) => Held(t)' \/ t \in gaveUp'
  <2> DEFINE u == task[s].tile
  <2>1. /\ shown' = shown /\ gaveUp' = gaveUp \cup {u}
        /\ visCache' = [visCache EXCEPT ![u] = NoEntry] /\ preCache' = [preCache EXCEPT ![u] = NoEntry]
    BY <1>6 DEF AnswerOverZoom, notTask
  <2> HIDE DEF u
  <2>2. \A t \in Tiles \ {u} : visCache'[t] = visCache[t] /\ preCache'[t] = preCache[t]
    BY <1>1, <2>1
  <2> QED
    BY <2>1, <2>2 DEF Held, tileExists
<1>7. ASSUME NEW s \in Slots, Worker(s), ~PutTile(s), ~AnswerOverZoom(s)
      PROVE  shown' = shown /\ \A t \in Tiles : Held(t) => Held(t)'
  <2>1. UNCHANGED <<shown, visCache, preCache>>
    BY <1>7 DEF Worker, TakeTask, StartTask, RequestTile, AnswerNothing, AnswerTile, DecodeTile, EndTask,
                layerChanged, notTask, caches
  <2> QED
    BY <2>1 DEF Held, tileExists
<1>8. CASE CancelNext
  <2>1. UNCHANGED <<shown, visCache, preCache>>
    BY <1>8 DEF CancelNext, caches
  <2> QED
    BY <2>1 DEF Held, tileExists
<1> QED
  BY <1>2, <1>3, <1>4, <1>5, <1>6, <1>7, <1>8 DEF Ages, Works
(* Only a task that is wanted and brings its tile takes it off gaveUp.     *)
LEMMA GaveUpStep ==
    ASSUME IInv, KnownIsAlive, Moves \/ Keeps \/ Ages \/ Works, NEW t \in gaveUp, t \notin gaveUp'
    PROVE  \E s \in fetching : /\ PutTile(s) /\ Free /\ Active(s) /\ task[s].tile = t
                               /\ ~task[s].preloading => visCache' = [visCache EXCEPT ![t] = [ver |-> task[s].ver, state |-> "valid"]]
<1>1. gaveUp \subseteq gaveUp' \/ \E s \in Slots : PutTile(s)
  BY DEF Moves, Keeps, Ages, Works, ViewChanged, TakeWakeup, SaveCullState, refresh, setVisible, ChangeOrigin,
         CancelAllBegin, CancelAllEnd, vars, setTextureCacheCapacity, Expire, Worker, TakeTask, StartTask,
         RequestTile, AnswerNothing, AnswerTile, AnswerOverZoom, DecodeTile, EndTask, layerChanged, CancelNext
<1>2. PICK s \in Slots : PutTile(s)
  BY <1>1
<1>3. /\ Free /\ task[s].pc = "decoded" /\ ~task[s].invalidated /\ ~task[s].canceled /\ t = task[s].tile
      /\ ~task[s].preloading => visCache' = [visCache EXCEPT ![t] = [ver |-> task[s].ver, state |-> "valid"]]
  BY <1>2 DEF PutTile, Run
<1>4. s \in fetching
  BY <1>3 DEF IInv, RunningIsKnown, Running
<1> QED
  BY <1>2, <1>3, <1>4 DEF Active

LEMMA FetchStep ==
    ASSUME IInv, KnownIsAlive, MutexInv, FetchInv, [Next]_vars
    PROVE  FetchInv'
<1> SUFFICES ASSUME NEW th \in Threads, thread'[th].pc = "fetch" PROVE FetchState(th)'
  BY DEF FetchInv
<1>1. thread \in [Threads -> ThreadState]
  BY DEF IInv, ThreadTypes
<1>2. CASE LoadBegin(th)
  BY <1>2, FetchBegins
<1>3. CASE \E u \in Threads \ {th} : LoadBegin(u) \/ LoadFetch(u)
  <2>1. PICK u \in Threads \ {th} : LoadBegin(u) \/ LoadFetch(u)
    BY <1>3
  <2>2. thread'[th] = thread[th] /\ (Free \/ thread[u].pc = "fetch")
    BY <1>1, <2>1 DEF LoadBegin, LoadFetch
  <2>3. mutex = th /\ (mutex = "free" \/ mutex = u)
    BY <2>2 DEF MutexInv, Free
  <2> QED
    BY <2>3, ThreadsApart
<1>4. CASE LoadFetch(th)
  <2>1. Loaded(th).pc # "fetch"
    BY <1>1 DEF Loaded, ThreadState, IdleThread
  <2>2. thread'[th] = Loaded(th)
    BY <1>1, <1>4 DEF LoadFetch
  <2> QED
    BY <2>1, <2>2
<1>5. CASE ~Fetches /\ ~\E u \in Threads : LoadBegin(u)
  <2>1. thread'[th] = thread[th] /\ thread[th].pc = "fetch" /\ mutex = th /\ ~Free
    BY <1>5, ThreadStep, ThreadsApart DEF MutexInv, Free
  <2>2. FetchState(th)
    BY <2>1 DEF FetchInv
  <2>3. Moves \/ Keeps \/ Ages \/ Works
    <3>1. ~Updates
      BY <2>1 DEF Updates, updateTiles
    <3>2. ~Begins
      BY <1>5, <2>1 DEF Begins, LoadHidden
    <3> QED
      BY <1>5, <3>1, <3>2, NextCases
  <2>4. shown' = shown /\ \A t \in Tiles : Held(t) => Held(t)' \/ t \in gaveUp'
    BY <2>3, HeldStep
  <2>5. gaveUp \subseteq gaveUp'
    BY <2>1, <2>3, GaveUpStep
  <2>6. TasksFade
    BY <2>3, FadeStep
  <2> DEFINE wanted == thread[th].fetch
             free == {s \in Slots : task[s].pc = "none"}
  <2>7. thread'[th].view = shown' /\ shown' \in Views /\ IsFiniteSet(wanted)
    BY <2>1, <2>2, <2>4 DEF FetchState
  <2>8. Cardinality(wanted) <= Cardinality(free')
    <3>1. free \subseteq free' /\ IsFiniteSet(free') /\ IsFiniteSet(free)
      BY <2>6, FS_Subset, TileLayerAssumption DEF TasksFade
    <3>2. Cardinality(free) <= Cardinality(free') /\ Cardinality(wanted) <= Cardinality(free)
      BY <2>2, <3>1, FS_Subset DEF FetchState
    <3>3. Cardinality(free) \in Nat /\ Cardinality(free') \in Nat /\ Cardinality(wanted) \in Nat
      BY <2>7, <3>1, FS_CardinalityType
    <3> HIDE DEF wanted, free
    <3> QED
      BY <3>2, <3>3
  <2>9. ASSUME NEW w \in wanted, NEW s \in fetching', ~task'[s].canceled, task'[s].tile = w.tile
        PROVE  task'[s].preloading = w.preloading
    <3>1. /\ s \in fetching /\ task[s].tile = w.tile /\ task'[s].preloading = task[s].preloading
          /\ ~task[s].canceled
      BY <2>6, <2>9 DEF TasksFade
    <3> QED
      BY <2>2, <3>1 DEF FetchState, Active
  <2>10. /\ \A w, x \in wanted : w.tile = x.tile => w = x
         /\ \A w \in wanted : w.tile \in shown'.visible => ~w.preloading
    BY <2>2, <2>4 DEF FetchState
  <2>11. \A t \in shown'.visible \ gaveUp' : Held(t)' \/ \E w \in wanted : w.tile = t
    <3>1. shown.visible \subseteq Tiles
      BY <2>2, TileLayerAssumption DEF FetchState
    <3> QED
      BY <2>2, <2>4, <2>5, <3>1 DEF FetchState
  <2>12. thread'[th].fetch = wanted
    BY <2>1
  <2> HIDE DEF wanted
  <2> QED
    BY <2>7, <2>8, <2>9, <2>10, <2>11, <2>12 DEF FetchState, Active
<1> QED
  BY <1>2, <1>3, <1>4, <1>5 DEF Fetches

-----------------------------------------------------------------------------
(* A task that failed without being canceled has given its tile up.        *)
LEMMA FailedStep ==
    ASSUME IInv, KnownIsAlive, OneTaskPerTile, FetchInv, FailedGaveUp, [Next]_vars
    PROVE  FailedGaveUp'
<1>1. fetching \subseteq Slots
  BY DEF KnownIsAlive
<1>2. ASSUME TasksFade, \A s \in fetching' : task'[s].pc = "failed" => task[s].pc = "failed", gaveUp' = gaveUp
      PROVE  FailedGaveUp'
  BY <1>2 DEF TasksFade, FailedGaveUp, Active
<1>3. ASSUME TasksFade, Moves \/ Keeps \/ Ages \/ Works,
             \A s \in fetching' : task'[s].pc = "failed" =>
                task[s].pc = "failed" \/ task'[s].canceled \/ task[s].tile \in gaveUp'
      PROVE  FailedGaveUp'
  <2> SUFFICES ASSUME NEW s \in fetching', ~task'[s].canceled, task'[s].pc = "failed"
               PROVE  task'[s].tile \in gaveUp'
    BY DEF FailedGaveUp, Active
  <2>1. s \in fetching /\ task'[s].tile = task[s].tile /\ ~task[s].canceled
    BY <1>3 DEF TasksFade
  <2>2. CASE task[s].pc = "failed"
    <3>1. task[s].tile \in gaveUp
      BY <2>1, <2>2 DEF FailedGaveUp, Active
    <3>2. ASSUME task[s].tile \notin gaveUp' PROVE FALSE
      <4>1. PICK u \in fetching : PutTile(u) /\ Active(u) /\ task[u].tile = task[s].tile
        BY <1>3, <3>1, <3>2, GaveUpStep
      <4>2. u = s
        BY <2>1, <4>1 DEF OneTaskPerTile, Active
      <4> QED
        BY <2>2, <4>1, <4>2 DEF PutTile, Run
    <3> QED
      BY <2>1, <3>2
  <2>3. CASE task[s].pc # "failed"
    BY <1>3, <2>1, <2>3
  <2> QED
    BY <2>2, <2>3
<1>4. CASE Moves \/ Keeps \/ Ages
  <2>1. UNCHANGED <<task, fetching>> /\ TasksFade
    BY <1>4, QuietTasks, FadeStep
  <2> QED
    BY <1>3, <1>4, <2>1
<1>5. ASSUME NEW s \in Slots, Worker(s) PROVE FailedGaveUp'
  <2>1. /\ \A u \in Slots \ {s} : task'[u] = task[u]
        /\ fetching' \subseteq fetching
        /\ s \in fetching' => SameTask(s)
    BY <1>5, WorkerShape
  <2>2. task \in [Slots -> FetchTask]
    BY DEF IInv, StoreTypes
  <2>3. ASSUME s \in fetching', task'[s].pc = "failed", task[s].pc # "failed"
        PROVE  task[s].canceled \/ task[s].tile \in gaveUp'
    <3>1. CASE RequestTile(s) \/ DecodeTile(s)
      BY <2>2, <2>3, <3>1 DEF RequestTile, DecodeTile, Run, FetchTask
    <3>2. CASE AnswerNothing(s)
      BY <3>2 DEF AnswerNothing
    <3>3. CASE TakeTask(s) \/ PutTile(s)
      BY <2>2, <2>3, <3>3 DEF TakeTask, PutTile, Run, FetchTask
    <3>4. CASE StartTask(s)
      <4>1. task'[s] = IF task[s].canceled THEN NoTask ELSE [task[s] EXCEPT !.pc = "loading"]
        BY <2>2, <3>4 DEF StartTask
      <4>2. task[s] \in FetchTask
        BY <2>2
      <4> QED
        BY <2>3, <4>1, <4>2 DEF NoTask, FetchTask
    <3>5. CASE AnswerTile(s) \/ AnswerOverZoom(s)
      <4>1. task' = [task EXCEPT ![s].pc = "loaded", ![s].ver = origin]
        BY <3>5 DEF AnswerTile, AnswerOverZoom
      <4>2. task'[s].pc = "loaded"
        BY <2>2, <4>1 DEF FetchTask
      <4> QED
        BY <2>3, <4>2
    <3>6. CASE EndTask(s) \/ layerChanged(s)
      BY <2>3, <3>6 DEF EndTask, layerChanged, KnownIsAlive, Running, Waiting
    <3> QED
      BY <1>5, <3>1, <3>2, <3>3, <3>4, <3>5, <3>6 DEF Worker
  <2>4. TasksFade /\ Works
    BY <1>5, FadeStep DEF Works
  <2>5. ASSUME NEW u \in fetching', task'[u].pc = "failed", task[u].pc # "failed"
        PROVE  task'[u].canceled \/ task[u].tile \in gaveUp'
    <3>1. u = s
      BY <1>1, <2>1, <2>5
    <3> QED
      BY <2>1, <2>3, <2>5, <3>1 DEF SameTask
  <2> QED
    BY <1>3, <2>4, <2>5
<1>6. CASE CancelNext
  <2>1. TasksFade /\ Works
    BY <1>6, FadeStep DEF Works
  <2>2. \A s \in fetching' : task'[s] = task[s]
    BY <1>1, <1>6, CancelNextShape
  <2> QED
    BY <1>3, <2>1, <2>2
<1>7. CASE Begins \/ Updates
  <2>1. TasksFade /\ gaveUp' = gaveUp
    BY <1>7, FadeStep DEF Begins, Updates, LoadHidden, LoadBegin, updateTiles
  <2>2. \A s \in Slots : task'[s].pc = task[s].pc
    <3>1. ASSUME NEW th \in Threads, LoadHidden(th) PROVE task' = task
      BY <3>1 DEF LoadHidden, tasks
    <3> QED
      BY <1>7, <3>1, LoadBeginShape, UpdateShape DEF Begins, Updates
  <2>3. fetching' \subseteq Slots
    BY <1>1, <2>1 DEF TasksFade
  <2> QED
    BY <1>2, <2>1, <2>2, <2>3
<1>8. ASSUME NEW th \in Threads, LoadFetch(th) PROVE FailedGaveUp'
  <2> DEFINE new == NewTasks(th)
  <2>1. PICK slot \in [new -> FreeSlots] : Placed(th, slot)
    BY <1>8, LoadFetchShape
  <2>2. /\ \A s \in fetching' : (\E w \in new : s = slot[w]) \/ s \in fetching
        /\ \A s \in fetching : s \in Slots \ {slot[w] : w \in new}
    BY <1>1, <2>1, PlacedOld
  <2>3. /\ \A w \in new : task'[slot[w]].pc = "queued"
        /\ \A s \in fetching : /\ task'[s].pc = task[s].pc /\ task'[s].tile = task[s].tile
                               /\ task[s].canceled => task'[s].canceled
    BY <2>1, <2>2 DEF Placed
  <2>4. gaveUp' = gaveUp \ {w.tile : w \in new}
    BY <1>8 DEF LoadFetch, NewTasks
  <2>5. FetchState(th) /\ \A w \in new : w \in thread[th].fetch /\ ~Fetching(w)
    BY <1>8 DEF LoadFetch, FetchInv, NewTasks
  <2> HIDE DEF new
  <2>6. ASSUME NEW s \in fetching, ~task[s].canceled, task[s].pc = "failed"
        PROVE  task[s].tile \in gaveUp'
    <3>1. Active(s) /\ task[s].tile \in gaveUp
      BY <2>6 DEF Active, FailedGaveUp
    <3>2. ASSUME NEW w \in new, w.tile = task[s].tile PROVE FALSE
      <4>1. task[s].preloading = w.preloading
        BY <2>5, <3>1, <3>2 DEF FetchState
      <4> QED
        BY <2>5, <3>1, <3>2, <4>1 DEF Fetching
    <3> QED
      BY <2>4, <3>1, <3>2
  <2>7. ASSUME NEW s \in fetching', ~task'[s].canceled, task'[s].pc = "failed"
        PROVE  task'[s].tile \in gaveUp'
    BY <2>2, <2>3, <2>6, <2>7
  <2> QED
    BY <2>7 DEF FailedGaveUp, Active
<1> QED
  BY <1>4, <1>5, <1>6, <1>7, <1>8, NextCases DEF Works, Fetches
-----------------------------------------------------------------------------
(* What is shown is there, or on its way, unless a load is due.            *)

LEMMA ShownKept ==
    ASSUME IInv, KnownIsAlive, FailedGaveUp, ShownState, shown \in Views, ~LoadIsDue',
           Keeps \/ Ages \/ Works \/ SaveCullState
    PROVE  ShownState'
<1>1. Moves \/ Keeps \/ Ages \/ Works
  BY DEF Moves
<1>2. shown' = shown /\ \A t \in Tiles : Held(t) => Held(t)' \/ t \in gaveUp'
  BY <1>1, HeldStep
<1>3. TasksFade /\ shown.visible \subseteq Tiles
  BY <1>1, FadeStep, TileLayerAssumption
<1>4. task \in [Slots -> FetchTask] /\ visCache \in [Tiles -> CacheEntry] /\ fetching \subseteq Slots
  BY DEF IInv, StoreTypes, KnownIsAlive
<1>5. ASSUME NEW s \in fetching', ~task'[s].canceled, task'[s].tile \in shown.visible
      PROVE  ~task'[s].preloading
  <2>1. /\ s \in fetching /\ task'[s].tile = task[s].tile /\ task'[s].preloading = task[s].preloading
        /\ ~task[s].canceled
    BY <1>3, <1>5 DEF TasksFade
  <2> QED
    BY <1>5, <2>1 DEF ShownState, Active
<1>6. ASSUME NEW t \in shown.visible, t \notin gaveUp', t \in gaveUp PROVE Held(t)'
  <2>1. PICK s \in fetching :
             /\ Active(s) /\ task[s].tile = t
             /\ ~task[s].preloading => visCache' = [visCache EXCEPT ![t] = [ver |-> task[s].ver, state |-> "valid"]]
    BY <1>1, <1>6, GaveUpStep
  <2>2. ~task[s].preloading
    BY <2>1 DEF ShownState
  <2>3. visCache'[t].state = "valid"
    BY <1>3, <1>4, <2>1, <2>2
  <2> QED
    BY <2>3 DEF Held, Good
<1>7. ASSUME NEW t \in shown.visible, t \notin gaveUp', NEW s \in fetching, Active(s), task[s].tile = t
      PROVE  Held(t)' \/ Coming(t)'
  <2>1. CASE s \in fetching' /\ ~task'[s].canceled
    BY <1>3, <1>7, <2>1 DEF TasksFade, Coming, Active
  <2>2. CASE Keeps \/ Ages \/ SaveCullState
    <3>1. UNCHANGED <<task, fetching>>
      BY <2>2, QuietTasks DEF Moves
    <3> QED
      BY <1>7, <3>1, <2>1 DEF Active
  <2>3. CASE CancelNext
    <3> DEFINE m == Min(canceling.todo)
    <3>1. /\ fetching' = fetching \ {m} /\ \A u \in Slots \ {m} : task'[u] = task[u]
          /\ gaveUp' = IF Active(m) THEN gaveUp \cup {task[m].tile} ELSE gaveUp
      BY <2>3, CancelNextShape
    <3> HIDE DEF m
    <3>2. s # m
      BY <1>7, <3>1
    <3>3. s \in fetching' /\ task'[s] = task[s]
      BY <1>4, <3>1, <3>2
    <3> QED
      BY <1>7, <2>1, <3>3 DEF Active
  <2>4. ASSUME NEW u \in Slots, Worker(u) PROVE Held(t)' \/ Coming(t)'
    <3>1. /\ \A x \in Slots \ {u} : task'[x] = task[x]
          /\ fetching' \in {fetching, fetching \ {u}}
          /\ u \in fetching' => SameTask(u)
      BY <2>4, WorkerShape
    <3>2. CASE s \in fetching'
      <4>1. task'[s].canceled = task[s].canceled
        BY <1>4, <3>1, <3>2 DEF SameTask
      <4> QED
        BY <1>7, <2>1, <3>2, <4>1 DEF Active
    <3>3. CASE s \notin fetching'
      <4>1. u = s /\ fetching' # fetching
        BY <3>1, <3>3
      <4>2. EndTask(s)
        BY <2>4, <4>1 DEF Worker, TakeTask, StartTask, RequestTile, AnswerNothing, AnswerTile, AnswerOverZoom,
                          DecodeTile, PutTile, layerChanged
      <4>3. gaveUp' = gaveUp /\ ~task[s].preloading /\ task[s].pc \in {"failed", "done"}
        BY <1>7, <4>2 DEF EndTask, ShownState
      <4>4. CASE task[s].pc = "failed"
        BY <1>7, <4>3, <4>4 DEF FailedGaveUp
      <4>5. CASE task[s].pc = "done"
        <5>1. task'[s].pc = "changed"
          BY <1>4, <4>2, <4>3, <4>5 DEF EndTask, Run, FetchTask
        <5> QED
          BY <1>4, <5>1 DEF LoadIsDue
      <4> QED
        BY <4>3, <4>4, <4>5
    <3> QED
      BY <3>2, <3>3
  <2> QED
    BY <2>2, <2>3, <2>4 DEF Works
<1>8. ASSUME NEW t \in shown.visible, t \notin gaveUp' PROVE Held(t)' \/ Coming(t)'
  <2>1. CASE t \in gaveUp
    BY <1>6, <1>8, <2>1
  <2>2. CASE Held(t)
    BY <1>2, <1>3, <1>8, <2>2
  <2>3. CASE Coming(t)
    BY <1>7, <1>8, <2>3 DEF Coming
  <2> QED
    BY <2>1, <2>2, <2>3 DEF ShownState
<1> QED
  BY <1>2, <1>5, <1>8 DEF ShownState, Active

LEMMA ShownFetched ==
    ASSUME IInv, KnownIsAlive, FetchInv, NEW th \in Threads, LoadFetch(th)
    PROVE  ShownState'
<1> DEFINE new == NewTasks(th)
           wanted == thread[th].fetch
<1>1. PICK slot \in [new -> FreeSlots] : Placed(th, slot)
  BY LoadFetchShape
<1>2. FetchState(th)
  BY DEF LoadFetch, FetchInv
<1>3. /\ UNCHANGED <<shown, visCache, preCache>>
      /\ gaveUp' = gaveUp \ {w.tile : w \in new}
  BY DEF LoadFetch, caches, NewTasks
<1>4. /\ \A w \in new : w \in wanted
      /\ \A w \in wanted : w \in new \/ Fetching(w)
  BY DEF NewTasks
<1>5. /\ \A w \in new : slot[w] \in fetching'
      /\ \A s \in fetching' : (\E w \in new : s = slot[w]) \/ s \in fetching
      /\ \A s \in fetching : s \in Slots /\ s \in Slots \ {slot[w] : w \in new}
      /\ \A s \in fetching : IsWanted(s, wanted) => s \in fetching'
  BY <1>1, PlacedOld DEF KnownIsAlive
<1>6. /\ \A w \in new : LET q == task'[slot[w]]
                        IN  q.tile = w.tile /\ q.preloading = w.preloading /\ ~q.canceled
      /\ \A s \in fetching : /\ task'[s].tile = task[s].tile /\ task'[s].preloading = task[s].preloading
                             /\ task'[s].canceled = ((s \in fetching /\ ~IsWanted(s, wanted)) \/ task[s].canceled)
  BY <1>1, <1>5 DEF Placed
<1>7. \A w \in new : Coming(w.tile)'
  BY <1>5, <1>6 DEF Coming, Active
<1> HIDE DEF new
<1>8. ASSUME NEW w \in wanted, Fetching(w) PROVE Coming(w.tile)'
  <2>1. PICK s \in fetching : Active(s) /\ task[s].tile = w.tile
    BY <1>8 DEF Fetching
  <2>2. IsWanted(s, wanted)
    BY <2>1 DEF IsWanted
  <2>3. s \in fetching' /\ ~task'[s].canceled /\ task'[s].tile = w.tile
    BY <1>5, <1>6, <2>1, <2>2 DEF Active
  <2> QED
    BY <2>3 DEF Coming, Active
<1>9. ASSUME NEW t \in shown.visible, t \notin gaveUp' PROVE Held(t)' \/ Coming(t)'
  <2>1. CASE t \in gaveUp
    BY <1>3, <1>7, <1>9, <2>1
  <2>2. CASE Held(t)
    BY <1>3, <2>2 DEF Held, tileExists
  <2>3. CASE \E w \in wanted : w.tile = t
    BY <1>4, <1>7, <1>8, <2>3
  <2> QED
    BY <1>2, <2>1, <2>2, <2>3 DEF FetchState
<1>10. ASSUME NEW s \in fetching', ~task'[s].canceled, task'[s].tile \in shown.visible
       PROVE  ~task'[s].preloading
  <2>1. CASE \E w \in new : s = slot[w]
    BY <1>2, <1>4, <1>6, <1>10, <2>1 DEF FetchState
  <2>2. CASE s \in fetching
    <3>1. IsWanted(s, wanted) /\ ~task[s].canceled /\ task[s].tile \in shown.visible
      BY <1>6, <1>10, <2>2
    <3>2. PICK w \in wanted : task[s].tile = w.tile
      BY <3>1 DEF IsWanted
    <3>3. ~w.preloading /\ task[s].preloading = w.preloading
      BY <1>2, <2>2, <3>1, <3>2 DEF FetchState, Active
    <3> QED
      BY <1>6, <2>2, <3>3
  <2> QED
    BY <1>5, <1>10, <2>1, <2>2
<1> QED
  BY <1>3, <1>9, <1>10 DEF ShownState, Active

LEMMA ShownStep ==
    ASSUME IInv, BoundTypes, KnownIsAlive, CancelInv, FailedGaveUp, FetchInv, ShownInv, [Next]_vars
    PROVE  ShownInv'
<1> SUFFICES ASSUME shown' # NoView, ~LoadIsDue' PROVE ShownState'
  BY DEF ShownInv
<1>1. thread \in [Threads -> ThreadState] /\ Cull \in Threads /\ App \in Threads /\ task \in [Slots -> FetchTask]
  BY DEF IInv, ThreadTypes, StoreTypes, Threads
<1>2. ASSUME NEW th \in Threads, LoadBegin(th) PROVE FALSE
  <2>1. thread'[th].pc = "fetch"
    <3>1. thread' = [thread EXCEPT ![th].pc = "fetch", ![th].fetch = Wanted(thread[th].view)]
      BY <1>2 DEF LoadBegin
    <3> QED
      BY <1>1, <3>1 DEF ThreadState
  <2> QED
    BY <2>1 DEF LoadIsDue
<1>3. ASSUME NEW th \in Threads, LoadHidden(th) PROVE FALSE
  BY <1>3 DEF LoadHidden
<1>4. ~Updates
  <2>1. Updates => thread'[App].pc = "refresh"
    BY <1>1 DEF Updates, updateTiles, ThreadState
  <2> QED
    BY <1>1, <2>1 DEF LoadIsDue
<1>5. Moves => SaveCullState
  <2>1. ~\E v \in Views : ViewChanged(v)
    BY DEF ViewChanged, LoadIsDue
  <2>2. TakeWakeup => thread'[Cull].pc = "load"
    BY <1>1 DEF TakeWakeup, ThreadState
  <2>3. (\E b \in BOOLEAN : setVisible(b)) => thread'[App].pc = "refresh"
    BY <1>1 DEF setVisible, ThreadState
  <2>4. refresh => pending' \/ thread'[App].pc = "load"
    BY <1>1 DEF refresh, ThreadState
  <2> QED
    BY <1>1, <2>1, <2>2, <2>3, <2>4 DEF Moves, LoadIsDue
<1>6. CASE Fetches
  BY <1>6, ShownFetched DEF Fetches
<1>7. CASE Keeps \/ Ages \/ Works \/ SaveCullState
  <2>1. shown' = shown
    BY <1>7, HeldStep DEF Moves
  <2>2. \A th \in Threads : thread'[th] = thread[th] \/ thread[th].pc = "save"
    BY <1>1, <1>7 DEF Keeps, Ages, Works, Worker, ChangeOrigin, CancelAllBegin, CancelAllEnd, CancelNext, vars,
                setTextureCacheCapacity, Expire, TakeTask, StartTask, RequestTile, AnswerNothing, AnswerTile,
                AnswerOverZoom, DecodeTile, PutTile, EndTask, layerChanged, notTask, SaveCullState
  <2>3. pending' = pending
    <3>1. ASSUME NEW s \in Slots, layerChanged(s) PROVE FALSE
      BY <3>1 DEF layerChanged, LoadIsDue
    <3> QED
      BY <1>7, <3>1 DEF Keeps, Ages, Works, Worker, ChangeOrigin, CancelAllBegin, CancelAllEnd, CancelNext, vars,
                setTextureCacheCapacity, Expire, TakeTask, StartTask, RequestTile, AnswerNothing, AnswerTile,
                AnswerOverZoom, DecodeTile, PutTile, EndTask, SaveCullState
  <2>4. ASSUME NEW s \in Slots, task[s].pc = "changed" PROVE FALSE
    <3>1. task'[s].pc # "changed"
      BY DEF LoadIsDue
    <3>2. CASE Keeps \/ Ages \/ SaveCullState
      BY <2>4, <3>1, <3>2, QuietTasks DEF Moves
    <3>3. ASSUME NEW u \in Slots, Worker(u) PROVE FALSE
      <4>1. u = s
        BY <2>4, <3>1, <3>3, WorkerShape
      <4>2. layerChanged(s)
        BY <2>4, <3>3, <4>1 DEF Worker, Run, TakeTask, StartTask, RequestTile, AnswerNothing, AnswerTile,
                                AnswerOverZoom, DecodeTile, PutTile, EndTask
      <4> QED
        BY <4>2 DEF layerChanged, LoadIsDue
    <3>4. CASE CancelNext
      <4>1. s = Min(canceling.todo)
        BY <2>4, <3>1, <3>4, CancelNextShape
      <4>2. s \in canceling.todo
        BY <3>4, <4>1, NextIsQueued DEF CancelNext
      <4> QED
        BY <2>4, <4>2 DEF CancelInv
    <3> QED
      BY <1>7, <3>2, <3>3, <3>4 DEF Works
  <2>5. ~LoadIsDue
    BY <2>2, <2>3, <2>4 DEF LoadIsDue
  <2>6. ShownState /\ shown \in Views
    BY <2>1, <2>5 DEF ShownInv, BoundTypes
  <2> QED
    BY <1>7, <2>6, ShownKept
<1> QED
  BY <1>2, <1>3, <1>4, <1>5, <1>6, <1>7, NextCases DEF Begins
-----------------------------------------------------------------------------
(* The types. *)

(* Entries come from the caches, or are versions that a task has read.     *)
Bounded(c) == \A t \in Tiles : c[t].ver \in 0 .. MaxVersion

LEMMA BoundStep ==
    ASSUME IInv, KnownIsAlive, FetchInv, BoundTypes, [Next]_vars
    PROVE  BoundTypes'
<1>1. /\ task \in [Slots -> FetchTask]
      /\ visCache \in [Tiles -> CacheEntry] /\ preCache \in [Tiles -> CacheEntry]
      /\ thread \in [Threads -> ThreadState]
      /\ fetching \subseteq Slots
      /\ MaxVersion \in Nat \ {0} /\ 0 \in 0 .. MaxVersion
  BY TileLayerAssumption DEF IInv, StoreTypes, ThreadTypes, KnownIsAlive
<1>2. NoEntry.ver = 0 /\ NoTask.ver = 0
  BY DEF NoEntry, NoTask
<1>3. /\ pending' \in BOOLEAN /\ visible' \in BOOLEAN /\ changed' \in BOOLEAN
      /\ shown' \in Views \cup {NoView}
      /\ origin' \in 1 .. MaxVersion
  <2>1. CASE Moves \/ Keeps \/ Ages
    <3>1. CASE Moves \/ CancelAllBegin \/ CancelAllEnd \/ UNCHANGED vars \/ Ages
      <4>1. UNCHANGED <<changed, shown, origin>>
        BY <3>1 DEF Moves, Ages, ViewChanged, TakeWakeup, SaveCullState, refresh, setVisible,
                    CancelAllBegin, CancelAllEnd, vars, external, setTextureCacheCapacity, Expire
      <4>2. pending' \in {TRUE, FALSE, pending}
        BY <3>1 DEF Moves, Ages, ViewChanged, TakeWakeup, SaveCullState, refresh, setVisible,
                    CancelAllBegin, CancelAllEnd, vars, external, setTextureCacheCapacity, Expire
      <4>3. visible' = visible \/ \E b \in BOOLEAN : visible' = b
        BY <3>1 DEF Moves, Ages, ViewChanged, TakeWakeup, SaveCullState, refresh, setVisible,
                    CancelAllBegin, CancelAllEnd, vars, external, setTextureCacheCapacity, Expire
      <4> QED
        BY <4>1, <4>2, <4>3 DEF BoundTypes
    <3>2. CASE ChangeOrigin
      <4>1. UNCHANGED <<pending, visible, shown>> /\ changed' = TRUE
        BY <3>2 DEF ChangeOrigin
      <4>2. origin' = origin + 1 /\ origin < MaxVersion
        BY <3>2 DEF ChangeOrigin
      <4>3. origin' \in 1 .. MaxVersion
        BY <1>1, <4>2 DEF BoundTypes
      <4> QED
        BY <4>1, <4>3 DEF BoundTypes
    <3> QED
      BY <2>1, <3>1, <3>2 DEF Keeps
  <2>2. CASE Works
    BY <2>2 DEF BoundTypes, Works, Worker, TakeTask, StartTask, RequestTile, AnswerNothing, AnswerTile,
                AnswerOverZoom, DecodeTile, PutTile, EndTask, layerChanged, CancelNext, notTask, external
  <2>3. ASSUME NEW th \in Threads, LoadHidden(th) \/ LoadBegin(th) \/ LoadFetch(th)
        PROVE  UNCHANGED <<pending, visible, changed, origin>> /\ shown' \in Views \cup {NoView}
    <3>1. thread[th].view \in Views \cup {NoView}
      BY <1>1 DEF ThreadState
    <3> QED
      BY <2>3, <3>1 DEF BoundTypes, LoadHidden, LoadBegin, LoadFetch, external
  <2>4. CASE Updates
    BY <2>4 DEF BoundTypes, Updates, updateTiles
  <2> QED
    BY <2>1, <2>2, <2>3, <2>4, NextCases DEF BoundTypes, Begins, Fetches
<1>4. canceling' \in [on : BOOLEAN, todo : SUBSET Slots]
  <2>1. CASE CancelAllBegin \/ CancelAllEnd
    <3>1. \E b \in BOOLEAN, T \in SUBSET Slots : canceling' = [on |-> b, todo |-> T]
      BY <2>1 DEF CancelAllBegin, CancelAllEnd
    <3> QED
      BY <3>1
  <2>2. CASE CancelNext
    <3>1. \E m : canceling' = [canceling EXCEPT !.todo = @ \ {m}]
      BY <2>2 DEF CancelNext
    <3> QED
      BY <3>1 DEF BoundTypes
  <2>3. CASE ~CancelAllBegin /\ ~CancelAllEnd /\ ~CancelNext
    <3>1. canceling' = canceling
      BY <2>3 DEF Next, vars, ViewChanged, TakeWakeup, SaveCullState, Load, LoadHidden, LoadBegin, LoadFetch,
                  setVisible, updateTiles, refresh, setTextureCacheCapacity, Expire, ChangeOrigin, Worker,
                  TakeTask, StartTask, RequestTile, AnswerNothing, AnswerTile, AnswerOverZoom, DecodeTile,
                  PutTile, EndTask, layerChanged, notTask
    <3> QED
      BY <3>1 DEF BoundTypes
  <2> QED
    BY <2>1, <2>2, <2>3
<1>5. gaveUp' \subseteq Tiles
  <2>1. CASE Moves \/ Keeps \/ Begins \/ Updates \/ \E t \in Tiles : Expire(t)
    <3>1. gaveUp' = gaveUp
      BY <2>1 DEF Moves, Keeps, Begins, Updates, ViewChanged, TakeWakeup, SaveCullState, refresh, setVisible,
                ChangeOrigin, CancelAllBegin, CancelAllEnd, vars, LoadHidden, LoadBegin, updateTiles, Expire
    <3> QED
      BY <3>1 DEF BoundTypes
  <2>2. CASE setTextureCacheCapacity \/ Fetches
    BY <2>2 DEF BoundTypes, setTextureCacheCapacity, Fetches, LoadFetch
  <2>3. ASSUME NEW s \in Slots, Worker(s) PROVE gaveUp' \subseteq gaveUp \cup {task[s].tile} /\ task[s].tile \in Tiles
    <3>1. task[s].tile \in Tiles
      BY <2>3, WorkerShape DEF KnownIsAlive
    <3>2. gaveUp' \subseteq gaveUp \cup {task[s].tile}
      BY <2>3 DEF Worker, TakeTask, StartTask, RequestTile, AnswerNothing, AnswerTile,
                  AnswerOverZoom, DecodeTile, PutTile, EndTask, layerChanged
    <3> QED
      BY <3>1, <3>2
  <2>4. CASE CancelNext
    <3> DEFINE s == Min(canceling.todo)
    <3>1. gaveUp' = IF Active(s) THEN gaveUp \cup {task[s].tile} ELSE gaveUp
      BY <2>4, CancelNextShape
    <3> HIDE DEF s
    <3>2. Active(s) => task[s].tile \in Tiles
      BY DEF Active, KnownIsAlive, Running, Waiting
    <3> QED
      BY <3>1, <3>2 DEF BoundTypes
  <2> QED
    BY <2>1, <2>2, <2>3, <2>4, NextCases DEF BoundTypes, Ages, Works
<1>6. \A s \in Slots : task'[s].ver \in 0 .. MaxVersion
  <2>1. CASE Moves \/ Keeps \/ Ages \/ \E th \in Threads : LoadHidden(th)
    BY <2>1, QuietTasks DEF BoundTypes
  <2>2. ASSUME NEW th \in Threads, LoadBegin(th) PROVE \A s \in Slots : task'[s].ver = task[s].ver
    BY <2>2, LoadBeginShape
  <2>3. Updates => \A s \in Slots : task'[s].ver = task[s].ver
    BY UpdateShape DEF Updates
  <2>4. ASSUME NEW th \in Threads, LoadFetch(th) PROVE \A s \in Slots : task'[s].ver \in {0, task[s].ver}
    <3>1. PICK slot \in [NewTasks(th) -> FreeSlots] : Placed(th, slot)
      BY <2>4, LoadFetchShape
    <3>2. /\ \A w \in NewTasks(th) : task'[slot[w]].ver = 0
          /\ \A s \in Slots \ {slot[w] : w \in NewTasks(th)} : task'[s].ver = task[s].ver
      BY <3>1 DEF Placed
    <3> QED
      BY <3>2
  <2>5. ASSUME NEW s \in Slots, Worker(s) PROVE \A u \in Slots : task'[u].ver \in {0, origin, task[u].ver}
    <3>1. \A u \in Slots \ {s} : task'[u] = task[u]
      BY <2>5, WorkerShape
    <3>2. \A from, to : Run(s, from, to) => task'[s].ver = task[s].ver
      BY <1>1 DEF Run, FetchTask
    <3>3. task' = [task EXCEPT ![s] = NoTask] => task'[s].ver = 0
      BY <1>1, <1>2
    <3>4. CASE StartTask(s)
      <4>1. CASE task[s].canceled
        BY <1>1, <1>2, <3>4, <4>1 DEF StartTask
      <4>2. CASE ~task[s].canceled
        BY <1>1, <3>4, <4>2 DEF StartTask, FetchTask
      <4> QED
        BY <3>1, <4>1, <4>2
    <3>5. CASE AnswerTile(s) \/ AnswerOverZoom(s)
      <4>1. task'[s].ver = origin
        BY <1>1, <3>5 DEF AnswerTile, AnswerOverZoom, FetchTask
      <4> QED
        BY <3>1, <4>1
    <3>6. CASE ~StartTask(s) /\ ~AnswerTile(s) /\ ~AnswerOverZoom(s)
      <4>1. (\E from, to : Run(s, from, to)) \/ task' = [task EXCEPT ![s] = NoTask]
        BY <2>5, <3>6 DEF Worker, TakeTask, RequestTile, AnswerNothing, DecodeTile, PutTile, EndTask, layerChanged
      <4> QED
        BY <3>1, <3>2, <3>3, <4>1
    <3> QED
      BY <3>4, <3>5, <3>6
  <2>6. CASE CancelNext
    BY <1>1, <1>2, <2>6, CancelNextShape DEF BoundTypes
  <2>7. origin \in 0 .. MaxVersion /\ \A s \in Slots : task[s].ver \in 0 .. MaxVersion
    BY <1>1 DEF BoundTypes
  <2> QED
    BY <1>1, <2>1, <2>2, <2>3, <2>4, <2>5, <2>6, <2>7, NextCases DEF Works, Begins, Fetches
<1>7. Bounded(visCache)' /\ Bounded(preCache)'
  <2>1. Bounded(visCache) /\ Bounded(preCache) /\ \A s \in Slots : task[s].ver \in 0 .. MaxVersion
    BY DEF BoundTypes, Bounded
  <2>2. CASE Moves \/ Keeps \/ CancelNext \/ Fetches
    <3>1. UNCHANGED <<visCache, preCache>>
      BY <2>2 DEF Moves, Keeps, Fetches, ViewChanged, TakeWakeup, SaveCullState, refresh, setVisible,
                ChangeOrigin, CancelAllBegin, CancelAllEnd, CancelNext, LoadFetch, vars, caches
    <3> QED
      BY <2>1, <3>1 DEF Bounded
  <2>3. CASE setTextureCacheCapacity
    <3>1. visCache' = visCache /\ \E D : preCache' = [t \in Tiles |-> IF t \in D THEN NoEntry ELSE preCache[t]]
      BY <2>3 DEF setTextureCacheCapacity
    <3> QED
      BY <1>1, <1>2, <2>1, <3>1 DEF Bounded
  <2>4. ASSUME NEW t \in Tiles, Expire(t) PROVE Bounded(visCache)' /\ Bounded(preCache)'
    <3>1. ASSUME NEW c \in [Tiles -> CacheEntry], Bounded(c) PROVE Bounded([c EXCEPT ![t].state = "expired"])
      BY <3>1 DEF Bounded, CacheEntry
    <3>2. \/ visCache' = [visCache EXCEPT ![t].state = "expired"] /\ preCache' = preCache
          \/ preCache' = [preCache EXCEPT ![t].state = "expired"] /\ visCache' = visCache
      BY <2>4 DEF Expire
    <3> QED
      BY <1>1, <2>1, <3>1, <3>2 DEF Bounded
  <2>5. ASSUME NEW th \in Threads, LoadHidden(th) \/ LoadBegin(th) PROVE Bounded(visCache)' /\ Bounded(preCache)'
    <3> DEFINE h == [vis |-> visCache, pre |-> preCache]
               p == prefetchTile(MissingParents(thread[th].view))
    <3>1. /\ h.vis = visCache /\ h.pre = preCache
          /\ p.vis \in [Tiles -> CacheEntry] /\ p.pre \in [Tiles -> CacheEntry]
          /\ \A t \in Tiles : p.vis[t] \in {visCache[t], preCache[t], NoEntry} /\ p.pre[t] \in {visCache[t], preCache[t], NoEntry}
      BY <1>1, PrefetchKeepsFresh
    <3>2. refreshDrawData({}, h) \/ \E D : refreshDrawData(D, p)
      BY <2>5 DEF LoadHidden, LoadBegin
    <3> HIDE DEF h, p
    <3>3. \A t \in Tiles : /\ visCache'[t] \in {visCache[t], preCache[t], NoEntry}
                           /\ preCache'[t] \in {visCache[t], preCache[t], NoEntry}
      <4>1. CASE refreshDrawData({}, h)
        BY <1>1, <3>1, <4>1, RefreshKeepsFresh
      <4>2. ASSUME NEW D, refreshDrawData(D, p)
            PROVE  \A t \in Tiles : /\ visCache'[t] \in {visCache[t], preCache[t], NoEntry}
                                    /\ preCache'[t] \in {visCache[t], preCache[t], NoEntry}
        <5>1. \A t \in Tiles : visCache'[t] \in {p.vis[t], p.pre[t], NoEntry} /\ preCache'[t] \in {p.vis[t], p.pre[t], NoEntry}
          BY <3>1, <4>2, RefreshKeepsFresh
        <5> QED
          BY <3>1, <5>1
      <4> QED
        BY <3>2, <4>1, <4>2
    <3> QED
      BY <1>1, <1>2, <2>1, <3>3 DEF Bounded
  <2>6. CASE Updates
    <3>1. ASSUME NEW t \in Tiles PROVE visCache'[t].ver \in {0, visCache[t].ver} /\ preCache'[t].ver = 0
      BY <1>1, <1>2, <2>6, <3>1 DEF Updates, updateTiles, Invalidated, CacheEntry
    <3> QED
      BY <1>1, <2>1, <3>1 DEF Bounded
  <2>7. ASSUME NEW s \in Slots, Worker(s) PROVE Bounded(visCache)' /\ Bounded(preCache)'
    <3> DEFINE e == [ver |-> task[s].ver, state |-> "valid"]
               u == task[s].tile
    <3>1. /\ visCache' \in {visCache, [visCache EXCEPT ![u] = NoEntry], [visCache EXCEPT ![u] = e]}
          /\ preCache' \in {preCache, [preCache EXCEPT ![u] = NoEntry], [preCache EXCEPT ![u] = e]}
      BY <2>7 DEF Worker, TakeTask, StartTask, RequestTile, AnswerNothing, AnswerTile, AnswerOverZoom, DecodeTile,
                  PutTile, EndTask, layerChanged, notTask, caches
    <3>2. e.ver \in 0 .. MaxVersion
      BY <2>1
    <3> HIDE DEF e, u
    <3>3. ASSUME NEW c \in [Tiles -> CacheEntry], Bounded(c), NEW x \in {NoEntry, e} PROVE Bounded([c EXCEPT ![u] = x])
      BY <1>1, <1>2, <3>2, <3>3 DEF Bounded
    <3> QED
      BY <1>1, <2>1, <3>1, <3>3 DEF Bounded
  <2> QED
    BY <2>2, <2>3, <2>4, <2>5, <2>6, <2>7, NextCases DEF Ages, Works, Begins
<1> QED
  BY <1>3, <1>4, <1>5, <1>6, <1>7 DEF BoundTypes, Bounded

LEMMA InitLInv == Init => LInv
<1> SUFFICES ASSUME Init PROVE LInv
  OBVIOUS
<1>1. /\ \A s \in Slots : task[s] = NoTask
      /\ \A t \in Tiles : visCache[t] = NoEntry /\ preCache[t] = NoEntry
      /\ \A th \in Threads : thread[th].pc = "idle"
      /\ fetching = {} /\ mutex = "free" /\ canceling = [on |-> FALSE, todo |-> {}]
      /\ shown = NoView /\ gaveUp = {}
  BY DEF Init, IdleThread
<1>2. NoEntry.ver = 0 /\ NoTask.ver = 0 /\ NoTask.pc = "none" /\ ~NoTask.invalidated
  BY DEF NoEntry, NoTask
<1>3. 0 \in 0 .. MaxVersion /\ 1 \in 1 .. MaxVersion
  BY TileLayerAssumption
<1>4. BoundTypes
  <2>1. pending = TRUE /\ visible = TRUE /\ changed = FALSE /\ origin = 1
    BY DEF Init
  <2>2. canceling \in [on : BOOLEAN, todo : SUBSET Slots]
    BY <1>1
  <2> QED
    BY <1>1, <1>2, <1>3, <2>1, <2>2 DEF BoundTypes
<1>5. KnownIsAlive /\ CancelInv /\ FailedGaveUp /\ OneTaskPerTile
  BY <1>1, <1>2 DEF KnownIsAlive, CancelInv, FailedGaveUp, OneTaskPerTile
<1>6. MutexInv /\ FetchInv /\ ShownInv
  BY <1>1, ThreadsApart DEF MutexInv, FetchInv, ShownInv
<1> QED
  BY <1>4, <1>5, <1>6 DEF LInv

LEMMA NextLInv == IInv /\ LInv /\ [Next]_vars => LInv'
BY BoundStep, KnownStep, CancelStep, FailedStep, OnceStep, MutexStep, FetchStep, ShownStep DEF LInv

(* The second inductive invariant, about what is fetched and what is shown. *)
THEOREM LayerInvariance == Spec => [](IInv /\ LInv)
<1>1. Init => IInv /\ LInv
  BY InitIInv, InitLInv
<1>2. IInv /\ LInv /\ [Next]_vars => IInv' /\ LInv'
  BY NextIInv, NextLInv
<1> QED
  BY <1>1, <1>2, PTL DEF Spec

(* Every variable of the layer, its caches and tasks keeps its type. *)
THEOREM TypeCorrect == Spec => []TypeOK
<1>1. IInv /\ LInv => TypeOK
  <2> SUFFICES ASSUME IInv, LInv PROVE TypeOK
    OBVIOUS
  <2>1. /\ view \in Views /\ lastCull \in Views \cup {NoView} /\ shown \in Views \cup {NoView}
        /\ pending \in BOOLEAN /\ visible \in BOOLEAN /\ changed \in BOOLEAN
        /\ mutex \in Threads \cup {"free"}
        /\ canceling.on \in BOOLEAN /\ canceling.todo \subseteq Slots
        /\ origin \in 1 .. MaxVersion /\ gaveUp \subseteq Tiles
    BY DEF IInv, LInv, ThreadTypes, BoundTypes, MutexInv
  <2>2. \A th \in Threads : /\ thread[th].pc \in {"idle", "refresh", "load", "fetch", "save"}
                            /\ thread[th].view \in Views \cup {NoView}
    BY DEF IInv, ThreadTypes, ThreadState
  <2>3. ASSUME NEW c \in [Tiles -> CacheEntry], \A t \in Tiles : c[t].ver \in 0 .. MaxVersion
        PROVE  c \in [Tiles -> Entry]
    <3>1. \A t \in Tiles : c[t] \in Entry
      BY <2>3 DEF CacheEntry, States, Entry
    <3> QED
      BY <3>1
  <2>4. visCache \in [Tiles -> Entry] /\ preCache \in [Tiles -> Entry]
    BY <2>3 DEF IInv, StoreTypes, LInv, BoundTypes
  <2>5. \A s \in Slots : task[s].pc \in TaskPcs /\ task[s].ver \in 0 .. MaxVersion
    BY DEF IInv, StoreTypes, FetchTask, LInv, BoundTypes
  <2>6. fetching \subseteq {s \in Slots : task[s].pc # "none"}
    BY DEF LInv, KnownIsAlive, Running, Waiting
  <2> QED
    BY <2>1, <2>2, <2>4, <2>5, <2>6 DEF TypeOK
<1> QED
  BY <1>1, LayerInvariance, PTL

(* loadData from two threads, cancellation and prefetching: no tile is     *)
(* fetched by two tasks at a time.                                         *)
THEOREM FetchedOnce == Spec => []OneTaskPerTile
<1>1. LInv => OneTaskPerTile
  BY DEF LInv
<1> QED
  BY <1>1, LayerInvariance, PTL

(* calculateDrawData, fetchTile, cancelAll, updateTiles and the two caches: *)
(* every tile of the view that is shown is there, or on its way, or given  *)
(* up, or a load is due.                                                   *)
THEOREM NothingForgotten == Spec => []NothingMissing
<1>1. LInv => NothingMissing
  <2> SUFFICES ASSUME ShownInv PROVE NothingMissing
    BY DEF LInv
  <2>1. CASE shown = NoView
    BY <2>1 DEF NothingMissing
  <2>2. CASE LoadIsDue
    BY <2>2 DEF LoadIsDue, NothingMissing, ReloadIsDue
  <2>3. CASE ShownState
    <3>1. \A t \in shown.visible \ gaveUp :
             \/ \E c \in {visCache, preCache} : c[t].state \in {"valid", "expired"}
             \/ \E s \in fetching : Active(s) /\ task[s].tile = t
      BY <2>3 DEF ShownState, Held, Good, Coming
    <3> QED
      BY <3>1 DEF NothingMissing
  <2> QED
    BY <2>1, <2>2, <2>3 DEF ShownInv
<1> QED
  BY <1>1, LayerInvariance, PTL
=============================================================================
