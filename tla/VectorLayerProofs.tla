-------------------------- MODULE VectorLayerProofs --------------------------
(***************************************************************************)
(* LocalVectorDataSource and VectorLayer: TypeOK, AttachedIffStored and    *)
(* what holds at rest, DrawnAtRest, DrawnAsItIs and ClustersAtRest, for    *)
(* every number of elements, threads, workers, views, versions and calls.  *)
(* The inductive invariant names what is still to come for an element that *)
(* is not drawn as it should be: a call that works on it, a refresh, a     *)
(* wakeup, a task.  A first part (IInv: types, and elements that are ahead *)
(* of their being attached or detached) is proved by itself.               *)
(***************************************************************************)
EXTENDS VectorLayer, TLAPS

(* The elements of the call of t of which the index is ahead. *)
Pending(t) ==
    CASE call[t].pc \in {"attach", "stuck"} -> call[t].added \cup call[t].removed
      [] call[t].pc = "detach" -> call[t].removed
      [] call[t].pc = "tell"   -> IF call[t].added # {} THEN call[t].removed ELSE {}
      [] OTHER                 -> {}

AttachInv ==
    /\ \A t \in Threads : call[t].pc \in {"insert", "attach"} => call[t].added # {}
    /\ \A e \in Elements \ crossed :
          (e \in stored <=> e \in attached) \/ \E t \in Threads : e \in Pending(t)

(* TypeOK in parts, for the provers. *)
Booleans ==
    /\ kdTree \in BOOLEAN /\ clustered \in BOOLEAN /\ wakeup \in BOOLEAN /\ visible \in BOOLEAN
    /\ flag \in BOOLEAN

SourceTypes ==
    /\ stored \subseteq Elements /\ attached \subseteq Elements /\ crossed \subseteq Elements
    /\ version \in [Elements -> 1 .. MaxVersion]
    /\ call \in [Threads -> Calls] /\ calls \in 0 .. MaxCalls

LayerTypes ==
    /\ shown \subseteq Elements /\ astray \subseteq Elements /\ missed \subseteq Elements
    /\ camera \in Views /\ cull \in Views \cup {NoView} /\ lastCull \in Views \cup {NoView}
    /\ load \in [Loaders -> {"none", "cancel", "test", "clear", "execute", "save"}]
    /\ queued \in Nat

(* A task that draws has a view to draw. *)
WorkerTypes ==
    /\ worker \in [Workers -> [pc: {"idle", "started", "load", "apply", "swap", "rebuild", "clear", "leave"},
                               view: Views \cup {NoView}, snap: SUBSET Elements]]
    /\ \A w \in Workers : worker[w].pc \in {"load", "apply"} => worker[w].view # NoView

DrawTypes ==
    /\ built \in [Elements -> [ver: 1 .. MaxVersion, surface: Surfaces] \cup {NoDrawing}]
    /\ clusters \in [Elements -> 0 .. MaxVersion]
    /\ singletons \in [Workers -> [Elements -> 0 .. MaxVersion]]

OverTypes == over \in [Workers \cup Loaders -> SUBSET Elements]

Types == Booleans /\ SourceTypes /\ LayerTypes /\ WorkerTypes /\ DrawTypes /\ OverTypes
IInv == Types /\ AttachInv

LEMMA TypesOK == Types => TypeOK
  BY Zenon DEF TypeOK, Types, Booleans, SourceTypes, LayerTypes, WorkerTypes, DrawTypes, OverTypes

LEMMA InitIInv == Init => IInv
<1> SUFFICES ASSUME Init PROVE IInv
  OBVIOUS
<1>1. Booleans
  BY DEF Init, InitSource, Booleans
<1>2. SourceTypes
  BY DataSourceAssumption DEF Init, InitSource, SourceTypes, Idle, Calls
<1>3. LayerTypes
  BY DEF Init, LayerTypes
<1>4. WorkerTypes
  BY DEF Init, WorkerTypes, IdleWorker
<1>5. DrawTypes
  BY DataSourceAssumption DEF Init, DrawTypes, NoClusters
<1>6. OverTypes
  BY DEF Init, OverTypes
<1>7. AttachInv
  BY DEF Init, InitSource, AttachInv, Idle
<1>. QED
  BY <1>1, <1>2, <1>3, <1>4, <1>5, <1>6, <1>7 DEF IInv, Types

-----------------------------------------------------------------------------
(* The operations of the data source. *)
LEMMA addAttaches ==
  ASSUME SourceTypes, AttachInv, NEW t \in Threads, NEW e \in Elements, add(t, e)
  PROVE  SourceTypes' /\ AttachInv' /\ kdTree' = kdTree
<1>1. SourceTypes' /\ kdTree' = kdTree
  BY DataSourceAssumption, SMTT(30) DEF SourceTypes, Calls, Idle, add, Begin, Goto
<1>2. AttachInv'
  BY SMTT(30) DEF SourceTypes, Calls, Idle, AttachInv, Pending, add, Begin, Goto
<1>. QED
  BY <1>1, <1>2

LEMMA addAllAttaches ==
  ASSUME SourceTypes, AttachInv, NEW t \in Threads, NEW S \in SUBSET Elements, addAll(t, S)
  PROVE  SourceTypes' /\ AttachInv' /\ kdTree' = kdTree
<1>1. SourceTypes' /\ kdTree' = kdTree
  BY DataSourceAssumption, SMTT(30) DEF SourceTypes, Calls, Idle, addAll, Begin, Goto
<1>2. AttachInv'
  BY SMTT(30) DEF SourceTypes, Calls, Idle, AttachInv, Pending, addAll, Begin, Goto
<1>. QED
  BY <1>1, <1>2

LEMMA removeAttaches ==
  ASSUME SourceTypes, AttachInv, NEW t \in Threads, NEW e \in Elements, remove(t, e)
  PROVE  SourceTypes' /\ AttachInv' /\ kdTree' = kdTree
<1>1. SourceTypes' /\ kdTree' = kdTree
  BY DataSourceAssumption, SMTT(30) DEF SourceTypes, Calls, Idle, remove, Begin, Goto
<1>2. AttachInv'
  BY SMTT(30) DEF SourceTypes, Calls, Idle, AttachInv, Pending, remove, Begin, Goto
<1>. QED
  BY <1>1, <1>2

LEMMA removeAllAttaches ==
  ASSUME SourceTypes, AttachInv, NEW t \in Threads, NEW S \in SUBSET Elements, removeAll(t, S)
  PROVE  SourceTypes' /\ AttachInv' /\ kdTree' = kdTree
<1>1. SourceTypes' /\ kdTree' = kdTree
  BY DataSourceAssumption, SMTT(30) DEF SourceTypes, Calls, Idle, removeAll, Begin, Goto
<1>2. AttachInv'
  BY SMTT(30) DEF SourceTypes, Calls, Idle, AttachInv, Pending, removeAll, Begin, Goto
<1>. QED
  BY <1>1, <1>2

LEMMA setAllAttaches ==
  ASSUME SourceTypes, AttachInv, NEW t \in Threads, NEW S \in SUBSET Elements, setAll(t, S)
  PROVE  SourceTypes' /\ AttachInv' /\ kdTree' = kdTree
<1>1. SourceTypes' /\ kdTree' = kdTree
  <2>1. stored' \subseteq Elements
    BY Zenon DEF setAll, setAllStuck
  <2>2. \E c \in Calls : Begin(t, c)
    <3>1. /\ [pc |-> "stuck", added |-> S, removed |-> stored \ S, bulk |-> TRUE] \in Calls
          /\ [pc |-> IF S \subseteq stored THEN "detach" ELSE "attach",
              added |-> S \ stored, removed |-> stored \ S, bulk |-> TRUE] \in Calls
      BY DEF SourceTypes, Calls
    <3>. QED
      BY <3>1, Zenon DEF setAll, setAllStuck
  <2>3. calls' \in 0 .. MaxCalls /\ call' \in [Threads -> Calls]
    BY <2>2, DataSourceAssumption DEF SourceTypes, Begin
  <2>. QED
    BY <2>1, <2>3 DEF SourceTypes, setAll
<1>2. AttachInv'
  BY SMTT(30) DEF SourceTypes, Calls, Idle, AttachInv, Pending, setAll, setAllStuck, Begin, Goto
<1>. QED
  BY <1>1, <1>2

LEMMA changeAttaches ==
  ASSUME SourceTypes, AttachInv, NEW t \in Threads, NEW e \in Elements, change(t, e)
  PROVE  SourceTypes' /\ AttachInv' /\ kdTree' = kdTree
<1>1. SourceTypes' /\ kdTree' = kdTree
  BY DataSourceAssumption, SMTT(30) DEF SourceTypes, Calls, Idle, change, Begin, Goto
<1>2. AttachInv'
  BY SMTT(30) DEF SourceTypes, Calls, Idle, AttachInv, Pending, change, Begin, Goto
<1>. QED
  BY <1>1, <1>2

LEMMA InsertAttaches ==
  ASSUME SourceTypes, AttachInv, NEW t \in Threads, Insert(t)
  PROVE  SourceTypes' /\ AttachInv' /\ kdTree' = kdTree
<1>1. SourceTypes' /\ kdTree' = kdTree
  BY DataSourceAssumption, SMTT(30) DEF SourceTypes, Calls, Idle, Insert, Begin, Goto
<1>2. AttachInv'
  BY SMTT(30) DEF SourceTypes, Calls, Idle, AttachInv, Pending, Insert, Begin, Goto
<1>. QED
  BY <1>1, <1>2

LEMMA notifyElementChangedAttaches ==
  ASSUME SourceTypes, AttachInv, NEW t \in Threads, notifyElementChanged(t)
  PROVE  SourceTypes' /\ AttachInv' /\ kdTree' = kdTree
<1>1. SourceTypes' /\ kdTree' = kdTree
  <2>1. CASE call[t].added \subseteq attached
    BY <2>1 DEF SourceTypes, Calls, notifyElementChanged, Goto
  <2>2. CASE ~(call[t].added \subseteq attached)
    <3>1. Idle \in Calls /\ call' = [call EXCEPT ![t] = Idle]
      BY <2>2 DEF Calls, Idle, notifyElementChanged
    <3>. QED
      BY <3>1 DEF SourceTypes, notifyElementChanged
  <2>. QED
    BY <2>1, <2>2
<1>2. AttachInv'
  BY SMTT(30) DEF SourceTypes, Calls, Idle, AttachInv, Pending, notifyElementChanged, Begin, Goto
<1>. QED
  BY <1>1, <1>2

LEMMA ReindexAttaches ==
  ASSUME SourceTypes, AttachInv, NEW t \in Threads, Reindex(t)
  PROVE  SourceTypes' /\ AttachInv' /\ kdTree' = kdTree
<1>1. SourceTypes' /\ kdTree' = kdTree
  BY DataSourceAssumption, SMTT(30) DEF SourceTypes, Calls, Idle, Reindex, Begin, Goto
<1>2. AttachInv'
  BY SMTT(30) DEF SourceTypes, Calls, Idle, AttachInv, Pending, Reindex, Begin, Goto
<1>. QED
  BY <1>1, <1>2

LEMMA attachElementAttaches ==
  ASSUME SourceTypes, AttachInv, NEW t \in Threads, attachElement(t)
  PROVE  SourceTypes' /\ AttachInv' /\ kdTree' = kdTree
<1>1. SourceTypes' /\ kdTree' = kdTree
  BY DataSourceAssumption, SMTT(30) DEF SourceTypes, Calls, Idle, attachElement, Begin, Goto
<1>2. AttachInv'
  BY SMTT(30) DEF SourceTypes, Calls, Idle, AttachInv, Pending, attachElement, Begin, Goto
<1>. QED
  BY <1>1, <1>2

LEMMA detachElementAttaches ==
  ASSUME SourceTypes, AttachInv, NEW t \in Threads, detachElement(t)
  PROVE  SourceTypes' /\ AttachInv' /\ kdTree' = kdTree
<1>1. SourceTypes' /\ kdTree' = kdTree
  BY DataSourceAssumption, SMTT(30) DEF SourceTypes, Calls, Idle, detachElement, Begin, Goto
<1>2. AttachInv'
  BY SMTT(30) DEF SourceTypes, Calls, Idle, AttachInv, Pending, detachElement, Begin, Goto
<1>. QED
  BY <1>1, <1>2

(* Told leaves the elements that are still to be detached pending.         *)
LEMMA ToldAttaches ==
  ASSUME SourceTypes, AttachInv, NEW t \in Threads, Told(t),
         UNCHANGED <<kdTree, stored, attached, version, calls, crossed>>
  PROVE  SourceTypes' /\ AttachInv' /\ kdTree' = kdTree
<1>1. AfterTell(call[t]) \in Calls
  BY DEF SourceTypes, Calls, AfterTell, Idle
<1>2. SourceTypes' /\ kdTree' = kdTree
  BY <1>1 DEF SourceTypes, Told
<1>3. AttachInv'
  BY SMTT(30) DEF SourceTypes, Calls, Idle, AttachInv, Pending, Told, AfterTell
<1>. QED
  BY <1>2, <1>3

(* Layer::refresh and Layer::setVisible begin like a call of the source.   *)
LEMMA CallAttaches ==
  ASSUME SourceTypes, AttachInv, NEW t \in Threads, Begin(t, [Idle EXCEPT !.pc = "refresh"]),
         UNCHANGED <<kdTree, stored, attached, version, crossed>>
  PROVE  SourceTypes' /\ AttachInv' /\ kdTree' = kdTree
<1> DEFINE c == [Idle EXCEPT !.pc = "refresh"]
<1>1. c \in Calls /\ c.pc = "refresh"
  BY DEF Idle, Calls
<1> HIDE DEF c
<1>2. SourceTypes' /\ kdTree' = kdTree
  BY <1>1, DataSourceAssumption DEF SourceTypes, Calls, Begin
<1>3. AttachInv'
  BY <1>1, SMTT(30) DEF SourceTypes, Calls, Idle, AttachInv, Pending, Begin
<1>. QED
  BY <1>2, <1>3

LEMMA SourceStays ==
  ASSUME SourceTypes, AttachInv, UNCHANGED sourceVars
  PROVE  SourceTypes' /\ AttachInv' /\ kdTree' = kdTree
  BY DEF SourceTypes, AttachInv, Pending, sourceVars

LEMMA OverStays ==
  ASSUME OverTypes, NEW P, NEW S \in SUBSET Elements, Overtaken(P, S)
  PROVE  OverTypes'
  BY DEF OverTypes, Overtaken

LEMMA FreshStays ==
  ASSUME OverTypes, NEW p, Fresh(p)
  PROVE  OverTypes'
  BY DEF OverTypes, Fresh

-----------------------------------------------------------------------------
(* The application and what its calls do. *)
LEMMA MutateKeeps == ASSUME IInv, NEW t \in Threads, Mutate(t) PROVE IInv'
<1>1. SourceTypes' /\ AttachInv' /\ kdTree' = kdTree
  <2>1. CASE \E e \in Elements : add(t, e) \/ remove(t, e) \/ change(t, e)
    BY <2>1, addAttaches, removeAttaches, changeAttaches DEF IInv, Types
  <2>2. CASE \E S \in SUBSET Elements : addAll(t, S) \/ removeAll(t, S) \/ setAll(t, S)
    BY <2>2, addAllAttaches, removeAllAttaches, setAllAttaches DEF IInv, Types
  <2>3. CASE clear(t)
    <3>1. stored \in SUBSET Elements
      BY DEF IInv, Types, SourceTypes
    <3>. QED
      BY <2>3, <3>1, removeAllAttaches DEF IInv, Types, clear
  <2>. QED
    BY <2>1, <2>2, <2>3 DEF Mutate
<1>2. Booleans'
  BY <1>1, Zenon DEF IInv, Types, Booleans, Mutate
<1>3. LayerTypes'
  BY SMTT(30) DEF IInv, Types, SourceTypes, LayerTypes, WorkerTypes, OverTypes, Loaders, Mutate
<1>4. WorkerTypes'
  BY SMTT(30) DEF IInv, Types, SourceTypes, LayerTypes, WorkerTypes, Mutate
<1>5. DrawTypes'
  BY VectorLayerAssumption, DataSourceAssumption, SMTT(30) DEF IInv, Types, SourceTypes,
     LayerTypes, WorkerTypes, DrawTypes, Mutate
<1>6. OverTypes'
  <2>1. (stored \ stored') \cup (stored' \ stored) \in SUBSET Elements
    BY <1>1 DEF IInv, Types, SourceTypes
  <2>. QED
    BY <2>1, OverStays DEF IInv, Types, Mutate
<1>. QED
  BY <1>1, <1>2, <1>3, <1>4, <1>5, <1>6 DEF IInv, Types

LEMMA NotifyKeeps == ASSUME IInv, NEW t \in Threads, Notify(t) PROVE IInv'
<1>1. SourceTypes' /\ AttachInv' /\ kdTree' = kdTree
  BY notifyElementChangedAttaches DEF IInv, Types, Notify
<1>2. Booleans'
  BY <1>1, Zenon DEF IInv, Types, Booleans, Notify
<1>3. LayerTypes'
  <2>1. call[t].added \subseteq Elements
    BY DEF IInv, Types, SourceTypes, Calls
  <2>. QED
    BY <2>1 DEF IInv, Types, LayerTypes, Loaders, Notify
<1>4. WorkerTypes'
  BY SMTT(30) DEF IInv, Types, SourceTypes, LayerTypes, WorkerTypes, Notify
<1>5. DrawTypes'
  BY VectorLayerAssumption, DataSourceAssumption, SMTT(30) DEF IInv, Types, SourceTypes,
     LayerTypes, WorkerTypes, DrawTypes, Notify
<1>6. OverTypes'
  BY DEF IInv, Types, OverTypes, Notify
<1>. QED
  BY <1>1, <1>2, <1>3, <1>4, <1>5, <1>6 DEF IInv, Types

LEMMA AnnounceKeeps == ASSUME IInv, NEW t \in Threads, Announce(t) PROVE IInv'
<1>1. SourceTypes' /\ AttachInv' /\ kdTree' = kdTree
  BY InsertAttaches, ReindexAttaches, attachElementAttaches, detachElementAttaches DEF IInv, Types, Announce
<1>2. Booleans'
  BY <1>1, Zenon DEF IInv, Types, Booleans, Announce
<1>3. LayerTypes'
  BY SMTT(30) DEF IInv, Types, SourceTypes, LayerTypes, WorkerTypes, OverTypes, Loaders,
     Announce
<1>4. WorkerTypes'
  BY SMTT(30) DEF IInv, Types, SourceTypes, LayerTypes, WorkerTypes, Announce
<1>5. DrawTypes'
  BY VectorLayerAssumption, DataSourceAssumption, SMTT(30) DEF IInv, Types, SourceTypes,
     LayerTypes, WorkerTypes, DrawTypes, Announce
<1>6. OverTypes'
  <2>1. stored' \ stored \in SUBSET Elements
    BY <1>1 DEF SourceTypes
  <2>. QED
    BY <2>1, OverStays DEF IInv, Types, Announce
<1>. QED
  BY <1>1, <1>2, <1>3, <1>4, <1>5, <1>6 DEF IInv, Types

LEMMA refreshElementKeeps == ASSUME IInv, NEW t \in Threads, refreshElement(t) PROVE IInv'
<1>1. SourceTypes' /\ AttachInv' /\ kdTree' = kdTree
  BY ToldAttaches DEF IInv, Types, refreshElement
<1>2. Booleans'
  BY <1>1, Zenon DEF IInv, Types, Booleans, refreshElement, syncRendererElement, Drawing, Calls
<1>3. LayerTypes'
  BY SMTT(30) DEF IInv, Types, SourceTypes, LayerTypes, WorkerTypes, OverTypes, Loaders,
     refreshElement, syncRendererElement, Drawing, Calls
<1>4. WorkerTypes'
  BY SMTT(30) DEF IInv, Types, SourceTypes, LayerTypes, WorkerTypes, refreshElement,
     syncRendererElement, Drawing, Calls
<1>5. DrawTypes'
  BY VectorLayerAssumption, DataSourceAssumption, SMTT(30) DEF IInv, Types, SourceTypes,
     LayerTypes, WorkerTypes, DrawTypes, refreshElement, syncRendererElement, Drawing, Calls
<1>6. OverTypes'
  BY DEF IInv, Types, OverTypes, refreshElement
<1>. QED
  BY <1>1, <1>2, <1>3, <1>4, <1>5, <1>6 DEF IInv, Types

LEMMA refreshKeeps == ASSUME IInv, NEW t \in Threads, refresh(t) PROVE IInv'
<1>1. SourceTypes' /\ AttachInv' /\ kdTree' = kdTree
  BY SourceStays DEF IInv, Types, refresh, sourceVars
<1>2. Booleans'
  BY <1>1, Zenon DEF IInv, Types, Booleans, refresh
<1>3. LayerTypes'
  BY SMTT(30) DEF IInv, Types, SourceTypes, LayerTypes, WorkerTypes, OverTypes, Loaders, refresh
<1>4. WorkerTypes'
  BY SMTT(30) DEF IInv, Types, SourceTypes, LayerTypes, WorkerTypes, refresh
<1>5. DrawTypes'
  BY VectorLayerAssumption, DataSourceAssumption, SMTT(30) DEF IInv, Types, SourceTypes,
     LayerTypes, WorkerTypes, DrawTypes, refresh
<1>6. OverTypes'
  BY DEF IInv, Types, OverTypes, refresh
<1>. QED
  BY <1>1, <1>2, <1>3, <1>4, <1>5, <1>6 DEF IInv, Types

LEMMA setVisibleKeeps == ASSUME IInv, NEW t \in Threads, setVisible(t) PROVE IInv'
<1>1. SourceTypes' /\ AttachInv' /\ kdTree' = kdTree
  BY CallAttaches DEF IInv, Types, setVisible
<1>2. Booleans'
  BY <1>1, Zenon DEF IInv, Types, Booleans, setVisible, Begin
<1>3. LayerTypes'
  BY SMTT(30) DEF IInv, Types, SourceTypes, LayerTypes, WorkerTypes, OverTypes, Loaders,
     setVisible, Begin
<1>4. WorkerTypes'
  BY SMTT(30) DEF IInv, Types, SourceTypes, LayerTypes, WorkerTypes, setVisible, Begin
<1>5. DrawTypes'
  BY VectorLayerAssumption, DataSourceAssumption, SMTT(30) DEF IInv, Types, SourceTypes,
     LayerTypes, WorkerTypes, DrawTypes, setVisible, Begin
<1>6. OverTypes'
  BY OverStays DEF IInv, Types, SourceTypes, setVisible
<1>. QED
  BY <1>1, <1>2, <1>3, <1>4, <1>5, <1>6 DEF IInv, Types

LEMMA CallRefreshKeeps == ASSUME IInv, NEW t \in Threads, CallRefresh(t) PROVE IInv'
<1>1. SourceTypes' /\ AttachInv' /\ kdTree' = kdTree
  BY CallAttaches DEF IInv, Types, CallRefresh
<1>2. Booleans'
  BY <1>1, Zenon DEF IInv, Types, Booleans, CallRefresh, Begin, layerVars
<1>3. LayerTypes'
  BY SMTT(30) DEF IInv, Types, SourceTypes, LayerTypes, WorkerTypes, OverTypes, Loaders,
     CallRefresh, Begin, layerVars
<1>4. WorkerTypes'
  BY SMTT(30) DEF IInv, Types, SourceTypes, LayerTypes, WorkerTypes, CallRefresh, Begin,
     layerVars
<1>5. DrawTypes'
  BY VectorLayerAssumption, DataSourceAssumption, SMTT(30) DEF IInv, Types, SourceTypes,
     LayerTypes, WorkerTypes, DrawTypes, CallRefresh, Begin, layerVars
<1>6. OverTypes'
  BY DEF IInv, Types, OverTypes, CallRefresh, layerVars
<1>. QED
  BY <1>1, <1>2, <1>3, <1>4, <1>5, <1>6 DEF IInv, Types

-----------------------------------------------------------------------------
(* The culling worker. *)
LEMMA ViewChangedKeeps == ASSUME IInv, NEW v \in Views, ViewChanged(v) PROVE IInv'
<1>1. SourceTypes' /\ AttachInv' /\ kdTree' = kdTree
  BY DataSourceAssumption, SMTT(30) DEF IInv, Types, SourceTypes, AttachInv, Pending, ViewChanged
<1>2. Booleans'
  BY <1>1, Zenon DEF IInv, Types, Booleans, ViewChanged
<1>3. LayerTypes'
  BY SMTT(30) DEF IInv, Types, SourceTypes, LayerTypes, WorkerTypes, OverTypes, Loaders,
     ViewChanged
<1>4. WorkerTypes'
  BY SMTT(30) DEF IInv, Types, SourceTypes, LayerTypes, WorkerTypes, ViewChanged
<1>5. DrawTypes'
  BY VectorLayerAssumption, DataSourceAssumption, SMTT(30) DEF IInv, Types, SourceTypes,
     LayerTypes, WorkerTypes, DrawTypes, ViewChanged
<1>6. OverTypes'
  BY DEF IInv, Types, OverTypes, ViewChanged
<1>. QED
  BY <1>1, <1>2, <1>3, <1>4, <1>5, <1>6 DEF IInv, Types

LEMMA TakeWakeupKeeps == ASSUME IInv, TakeWakeup PROVE IInv'
<1>1. SourceTypes' /\ AttachInv' /\ kdTree' = kdTree
  BY SourceStays DEF IInv, Types, TakeWakeup, sourceVars
<1>2. Booleans'
  BY <1>1, Zenon DEF IInv, Types, Booleans, TakeWakeup
<1>3. LayerTypes'
  BY SMTT(30) DEF IInv, Types, SourceTypes, LayerTypes, WorkerTypes, OverTypes, Loaders,
     TakeWakeup
<1>4. WorkerTypes'
  BY SMTT(30) DEF IInv, Types, SourceTypes, LayerTypes, WorkerTypes, TakeWakeup
<1>5. DrawTypes'
  BY VectorLayerAssumption, DataSourceAssumption, SMTT(30) DEF IInv, Types, SourceTypes,
     LayerTypes, WorkerTypes, DrawTypes, TakeWakeup
<1>6. OverTypes'
  BY DEF IInv, Types, OverTypes, TakeWakeup
<1>. QED
  BY <1>1, <1>2, <1>3, <1>4, <1>5, <1>6 DEF IInv, Types

LEMMA SaveCullStateKeeps == ASSUME IInv, SaveCullState PROVE IInv'
<1>1. SourceTypes' /\ AttachInv' /\ kdTree' = kdTree
  BY SourceStays DEF IInv, Types, SaveCullState, sourceVars
<1>2. Booleans'
  BY <1>1, Zenon DEF IInv, Types, Booleans, SaveCullState
<1>3. LayerTypes'
  BY SMTT(30) DEF IInv, Types, SourceTypes, LayerTypes, WorkerTypes, OverTypes, Loaders,
     SaveCullState
<1>4. WorkerTypes'
  BY SMTT(30) DEF IInv, Types, SourceTypes, LayerTypes, WorkerTypes, SaveCullState
<1>5. DrawTypes'
  BY VectorLayerAssumption, DataSourceAssumption, SMTT(30) DEF IInv, Types, SourceTypes,
     LayerTypes, WorkerTypes, DrawTypes, SaveCullState
<1>6. OverTypes'
  BY OverStays DEF IInv, Types, SourceTypes, SaveCullState
<1>. QED
  BY <1>1, <1>2, <1>3, <1>4, <1>5, <1>6 DEF IInv, Types

-----------------------------------------------------------------------------
(* loadData. *)
LEMMA RequestCullKeeps == ASSUME IInv, NEW t \in Threads, RequestCull(t) PROVE IInv'
<1>1. SourceTypes' /\ AttachInv' /\ kdTree' = kdTree
  BY ToldAttaches DEF IInv, Types, RequestCull, Return
<1>2. Booleans'
  BY <1>1, Zenon DEF IInv, Types, Booleans, RequestCull, Return
<1>3. LayerTypes'
  BY SMTT(30) DEF IInv, Types, SourceTypes, LayerTypes, WorkerTypes, OverTypes, Loaders,
     RequestCull, Return
<1>4. WorkerTypes'
  BY SMTT(30) DEF IInv, Types, SourceTypes, LayerTypes, WorkerTypes, RequestCull, Return
<1>5. DrawTypes'
  BY VectorLayerAssumption, DataSourceAssumption, SMTT(30) DEF IInv, Types, SourceTypes,
     LayerTypes, WorkerTypes, DrawTypes, RequestCull, Return
<1>6. OverTypes'
  BY DEF IInv, Types, OverTypes, RequestCull
<1>. QED
  BY <1>1, <1>2, <1>3, <1>4, <1>5, <1>6 DEF IInv, Types

LEMMA CancelTasksKeeps == ASSUME IInv, NEW p \in Loaders, CancelTasks(p) PROVE IInv'
<1>1. SourceTypes' /\ AttachInv' /\ kdTree' = kdTree
  BY SourceStays DEF IInv, Types, CancelTasks, sourceVars
<1>2. Booleans'
  BY <1>1, Zenon DEF IInv, Types, Booleans, CancelTasks
<1>3. LayerTypes'
  BY SMTT(30) DEF IInv, Types, SourceTypes, LayerTypes, WorkerTypes, OverTypes, Loaders,
     CancelTasks
<1>4. WorkerTypes'
  BY SMTT(30) DEF IInv, Types, SourceTypes, LayerTypes, WorkerTypes, CancelTasks
<1>5. DrawTypes'
  BY VectorLayerAssumption, DataSourceAssumption, SMTT(30) DEF IInv, Types, SourceTypes,
     LayerTypes, WorkerTypes, DrawTypes, CancelTasks
<1>6. OverTypes'
  BY DEF IInv, Types, OverTypes, CancelTasks
<1>. QED
  BY <1>1, <1>2, <1>3, <1>4, <1>5, <1>6 DEF IInv, Types

LEMMA TestVisibleKeeps == ASSUME IInv, NEW p \in Loaders, TestVisible(p) PROVE IInv'
<1>1. SourceTypes' /\ AttachInv' /\ kdTree' = kdTree
  BY SourceStays DEF IInv, Types, TestVisible, sourceVars
<1>2. Booleans'
  BY <1>1, Zenon DEF IInv, Types, Booleans, TestVisible
<1>3. LayerTypes'
  BY SMTT(30) DEF IInv, Types, SourceTypes, LayerTypes, WorkerTypes, OverTypes, Loaders,
     TestVisible
<1>4. WorkerTypes'
  BY SMTT(30) DEF IInv, Types, SourceTypes, LayerTypes, WorkerTypes, TestVisible
<1>5. DrawTypes'
  BY VectorLayerAssumption, DataSourceAssumption, SMTT(30) DEF IInv, Types, SourceTypes,
     LayerTypes, WorkerTypes, DrawTypes, TestVisible
<1>6. OverTypes'
  BY DEF IInv, Types, OverTypes, TestVisible
<1>. QED
  BY <1>1, <1>2, <1>3, <1>4, <1>5, <1>6 DEF IInv, Types

LEMMA ClearKeeps == ASSUME IInv, NEW p \in Loaders, Clear(p) PROVE IInv'
<1>1. SourceTypes' /\ AttachInv' /\ kdTree' = kdTree
  <2>1. CASE p = Cull
  BY <2>1, SourceStays DEF IInv, Types, Clear, Return, sourceVars
  <2>2. CASE p # Cull
  BY <2>2, ToldAttaches DEF IInv, Types, Clear, Return, Loaders
  <2>. QED
    BY <2>1, <2>2
<1>2. Booleans'
  BY <1>1, Zenon DEF IInv, Types, Booleans, Clear, Return
<1>3. LayerTypes'
  BY SMTT(30) DEF IInv, Types, SourceTypes, LayerTypes, WorkerTypes, OverTypes, Loaders, Clear,
     Return
<1>4. WorkerTypes'
  BY SMTT(30) DEF IInv, Types, SourceTypes, LayerTypes, WorkerTypes, Clear, Return
<1>5. DrawTypes'
  BY VectorLayerAssumption, DataSourceAssumption, SMTT(30) DEF IInv, Types, SourceTypes,
     LayerTypes, WorkerTypes, DrawTypes, Clear, Return
<1>6. OverTypes'
  BY FreshStays DEF IInv, Types, Clear
<1>. QED
  BY <1>1, <1>2, <1>3, <1>4, <1>5, <1>6 DEF IInv, Types

LEMMA ExecuteTaskKeeps == ASSUME IInv, NEW p \in Loaders, ExecuteTask(p) PROVE IInv'
<1>1. SourceTypes' /\ AttachInv' /\ kdTree' = kdTree
  <2>1. CASE p = Cull
  BY <2>1, SourceStays DEF IInv, Types, ExecuteTask, Return, sourceVars
  <2>2. CASE p # Cull
  BY <2>2, ToldAttaches DEF IInv, Types, ExecuteTask, Return, Loaders
  <2>. QED
    BY <2>1, <2>2
<1>2. Booleans'
  BY <1>1, Zenon DEF IInv, Types, Booleans, ExecuteTask, Return
<1>3. LayerTypes'
  BY SMTT(30) DEF IInv, Types, SourceTypes, LayerTypes, WorkerTypes, OverTypes, Loaders,
     ExecuteTask, Return
<1>4. WorkerTypes'
  BY SMTT(30) DEF IInv, Types, SourceTypes, LayerTypes, WorkerTypes, ExecuteTask, Return
<1>5. DrawTypes'
  BY VectorLayerAssumption, DataSourceAssumption, SMTT(30) DEF IInv, Types, SourceTypes,
     LayerTypes, WorkerTypes, DrawTypes, ExecuteTask, Return
<1>6. OverTypes'
  BY DEF IInv, Types, OverTypes, ExecuteTask
<1>. QED
  BY <1>1, <1>2, <1>3, <1>4, <1>5, <1>6 DEF IInv, Types

-----------------------------------------------------------------------------
(* FetchTask::run. *)
LEMMA StartTaskKeeps == ASSUME IInv, NEW w \in Workers, StartTask(w) PROVE IInv'
<1>1. SourceTypes' /\ AttachInv' /\ kdTree' = kdTree
  BY SourceStays DEF IInv, Types, StartTask, sourceVars
<1>2. Booleans'
  BY <1>1, Zenon DEF IInv, Types, Booleans, StartTask, IdleWorker
<1>3. LayerTypes'
  BY SMTT(30) DEF IInv, Types, SourceTypes, LayerTypes, WorkerTypes, OverTypes, Loaders,
     StartTask, IdleWorker
<1>4. WorkerTypes'
  BY SMTT(30) DEF IInv, Types, SourceTypes, LayerTypes, WorkerTypes, StartTask, IdleWorker
<1>5. DrawTypes'
  BY VectorLayerAssumption, DataSourceAssumption, SMTT(30) DEF IInv, Types, SourceTypes,
     LayerTypes, WorkerTypes, DrawTypes, StartTask, IdleWorker
<1>6. OverTypes'
  BY DEF IInv, Types, OverTypes, StartTask
<1>. QED
  BY <1>1, <1>2, <1>3, <1>4, <1>5, <1>6 DEF IInv, Types

LEMMA ReadCullStateKeeps == ASSUME IInv, NEW w \in Workers, ReadCullState(w) PROVE IInv'
<1>1. SourceTypes' /\ AttachInv' /\ kdTree' = kdTree
  BY SourceStays DEF IInv, Types, ReadCullState, sourceVars
<1>2. Booleans'
  BY <1>1, Zenon DEF IInv, Types, Booleans, ReadCullState
<1>3. LayerTypes'
  BY SMTT(30) DEF IInv, Types, SourceTypes, LayerTypes, WorkerTypes, OverTypes, Loaders,
     ReadCullState
<1>4. WorkerTypes'
  <2> DEFINE to == IF visible /\ lastCull # NoView THEN "load" ELSE "clear"
             read == [worker EXCEPT ![w].pc = to]
             what == lastCull
  <2>1. worker' = [read EXCEPT ![w].view = what]
    BY DEF ReadCullState
  <2>2. to \in {"load", "clear"} /\ what \in Views \cup {NoView} /\ (to = "load" => what # NoView)
    BY DEF IInv, Types, SourceTypes, LayerTypes
  <2> HIDE DEF to, what
  <2>3. read \in [Workers -> [pc: {"idle", "started", "load", "apply", "swap", "rebuild", "clear", "leave"},
                             view: Views \cup {NoView}, snap: SUBSET Elements]]
    BY <2>2 DEF IInv, Types, WorkerTypes
  <2>4. \A o \in Workers : read[o].pc = IF o = w THEN to ELSE worker[o].pc
    BY DEF IInv, Types, WorkerTypes
  <2>5. \A o \in Workers : read[o].view = worker[o].view
    BY DEF IInv, Types, WorkerTypes
  <2> HIDE DEF read
  <2>6. worker' \in [Workers -> [pc: {"idle", "started", "load", "apply", "swap", "rebuild", "clear", "leave"},
                             view: Views \cup {NoView}, snap: SUBSET Elements]]
    BY <2>1, <2>2, <2>3
  <2>7. \A o \in Workers : o # w => worker'[o] = read[o]
    BY <2>1, <2>3
  <2>8. worker'[w].pc = to /\ worker'[w].view = what
    BY <2>1, <2>3, <2>4, <2>5
  <2>. QED
    BY <2>2, <2>4, <2>5, <2>6, <2>7, <2>8 DEF IInv, Types, WorkerTypes, ReadCullState
<1>5. DrawTypes'
  BY VectorLayerAssumption, DataSourceAssumption, SMTT(30) DEF IInv, Types, SourceTypes,
     LayerTypes, WorkerTypes, DrawTypes, ReadCullState
<1>6. OverTypes'
  BY DEF IInv, Types, OverTypes, ReadCullState
<1>. QED
  BY <1>1, <1>2, <1>3, <1>4, <1>5, <1>6 DEF IInv, Types

LEMMA ClearByTaskKeeps == ASSUME IInv, NEW w \in Workers, ClearByTask(w) PROVE IInv'
<1>1. SourceTypes' /\ AttachInv' /\ kdTree' = kdTree
  BY SourceStays DEF IInv, Types, ClearByTask, sourceVars
<1>2. Booleans'
  BY <1>1, Zenon DEF IInv, Types, Booleans, ClearByTask, Leave, Leaving, IdleWorker
<1>3. LayerTypes'
  BY SMTT(30) DEF IInv, Types, SourceTypes, LayerTypes, WorkerTypes, OverTypes, Loaders,
     ClearByTask, Leave, Leaving, IdleWorker
<1>4. WorkerTypes'
  BY SMTT(30) DEF IInv, Types, SourceTypes, LayerTypes, WorkerTypes, ClearByTask, Leave, Leaving,
     IdleWorker
<1>5. DrawTypes'
  BY VectorLayerAssumption, DataSourceAssumption, SMTT(30) DEF IInv, Types, SourceTypes,
     LayerTypes, WorkerTypes, DrawTypes, ClearByTask, Leave, Leaving, IdleWorker
<1>6. OverTypes'
  BY FreshStays DEF IInv, Types, ClearByTask, Leave
<1>. QED
  BY <1>1, <1>2, <1>3, <1>4, <1>5, <1>6 DEF IInv, Types

LEMMA ReadSourceKeeps == ASSUME IInv, NEW w \in Workers, ReadSource(w) PROVE IInv'
<1>1. SourceTypes' /\ AttachInv' /\ kdTree' = kdTree
  BY SourceStays DEF IInv, Types, ReadSource, sourceVars
<1>2. Booleans'
  BY <1>1, Zenon DEF IInv, Types, Booleans, ReadSource
<1>3. LayerTypes'
  BY SMTT(30) DEF IInv, Types, SourceTypes, LayerTypes, WorkerTypes, OverTypes, Loaders,
     ReadSource
<1>4. WorkerTypes'
  <2> DEFINE to == IF clustered THEN "swap" ELSE "apply"
             read == [worker EXCEPT ![w].pc = to]
             what == IF clustered THEN stored ELSE stored \cap worker[w].view.seen
  <2>1. worker' = [read EXCEPT ![w].snap = what]
    BY DEF ReadSource
  <2>2. to \in {"swap", "apply"} /\ what \in SUBSET Elements
    BY DEF IInv, Types, SourceTypes, LayerTypes
  <2> HIDE DEF to, what
  <2>3. read \in [Workers -> [pc: {"idle", "started", "load", "apply", "swap", "rebuild", "clear", "leave"},
                             view: Views \cup {NoView}, snap: SUBSET Elements]]
    BY <2>2 DEF IInv, Types, WorkerTypes
  <2>4. \A o \in Workers : read[o].pc = IF o = w THEN to ELSE worker[o].pc
    BY DEF IInv, Types, WorkerTypes
  <2>5. \A o \in Workers : read[o].view = worker[o].view
    BY DEF IInv, Types, WorkerTypes
  <2> HIDE DEF read
  <2>6. worker' \in [Workers -> [pc: {"idle", "started", "load", "apply", "swap", "rebuild", "clear", "leave"},
                             view: Views \cup {NoView}, snap: SUBSET Elements]]
    BY <2>1, <2>2, <2>3
  <2>7. \A o \in Workers : o # w => worker'[o] = read[o]
    BY <2>1, <2>3
  <2>8. worker'[w].pc = to /\ worker'[w].view = worker[w].view
    BY <2>1, <2>3, <2>4, <2>5
  <2>. QED
    BY <2>2, <2>4, <2>5, <2>6, <2>7, <2>8 DEF IInv, Types, WorkerTypes, ReadSource
<1>5. DrawTypes'
  BY VectorLayerAssumption, DataSourceAssumption, SMTT(30) DEF IInv, Types, SourceTypes,
     LayerTypes, WorkerTypes, DrawTypes, ReadSource
<1>6. OverTypes'
  BY FreshStays DEF IInv, Types, OverTypes, ReadSource
<1>. QED
  BY <1>1, <1>2, <1>3, <1>4, <1>5, <1>6 DEF IInv, Types

LEMMA loadElementsKeeps == ASSUME IInv, NEW w \in Workers, loadElements(w) PROVE IInv'
<1>1. SourceTypes' /\ AttachInv' /\ kdTree' = kdTree
  BY SourceStays DEF IInv, Types, loadElements, sourceVars
<1>2. Booleans'
  BY <1>1, Zenon DEF IInv, Types, Booleans, loadElements, Leave, Leaving, IdleWorker, Drawing
<1>3. LayerTypes'
  BY SMTT(30) DEF IInv, Types, SourceTypes, LayerTypes, WorkerTypes, OverTypes, Loaders,
     loadElements, Leave, Leaving, IdleWorker, Drawing
<1>4. WorkerTypes'
  BY SMTT(30) DEF IInv, Types, SourceTypes, LayerTypes, WorkerTypes, loadElements, Leave, Leaving,
     IdleWorker, Drawing
<1>5. DrawTypes'
  BY VectorLayerAssumption, DataSourceAssumption, SMTT(30) DEF IInv, Types, SourceTypes,
     LayerTypes, WorkerTypes, DrawTypes, loadElements, Leave, Leaving, IdleWorker, Drawing
<1>6. OverTypes'
  BY FreshStays DEF IInv, Types, loadElements, Leave
<1>. QED
  BY <1>1, <1>2, <1>3, <1>4, <1>5, <1>6 DEF IInv, Types

LEMMA SwapRefreshKeeps == ASSUME IInv, NEW w \in Workers, SwapRefresh(w) PROVE IInv'
<1>1. SourceTypes' /\ AttachInv' /\ kdTree' = kdTree
  BY SourceStays DEF IInv, Types, SwapRefresh, sourceVars
<1>2. Booleans'
  BY <1>1, Zenon DEF IInv, Types, Booleans, SwapRefresh, Leave, Leaving, IdleWorker
<1>3. LayerTypes'
  BY SMTT(30) DEF IInv, Types, SourceTypes, LayerTypes, WorkerTypes, OverTypes, Loaders,
     SwapRefresh, Leave, Leaving, IdleWorker
<1>4. WorkerTypes'
  BY SMTT(30) DEF IInv, Types, SourceTypes, LayerTypes, WorkerTypes, SwapRefresh, Leave, Leaving,
     IdleWorker
<1>5. DrawTypes'
  BY VectorLayerAssumption, DataSourceAssumption, SMTT(30) DEF IInv, Types, SourceTypes,
     LayerTypes, WorkerTypes, DrawTypes, SwapRefresh, Leave, Leaving, IdleWorker
<1>6. OverTypes'
  BY FreshStays DEF IInv, Types, OverTypes, SwapRefresh, Leave
<1>. QED
  BY <1>1, <1>2, <1>3, <1>4, <1>5, <1>6 DEF IInv, Types

LEMMA createSingletonClusterKeeps ==
  ASSUME IInv, NEW w \in Workers, createSingletonCluster(w) PROVE IInv'
<1>1. SourceTypes' /\ AttachInv' /\ kdTree' = kdTree
  BY SourceStays DEF IInv, Types, createSingletonCluster, sourceVars
<1>2. Booleans'
  BY <1>1, Zenon DEF IInv, Types, Booleans, createSingletonCluster
<1>3. LayerTypes' /\ WorkerTypes'
  BY DEF IInv, Types, LayerTypes, WorkerTypes, createSingletonCluster
<1>4. DrawTypes'
  BY DataSourceAssumption, SMTT(30) DEF IInv, Types, SourceTypes, WorkerTypes, DrawTypes,
     createSingletonCluster, sourceVars
<1>5. OverTypes'
  BY DEF IInv, Types, OverTypes, createSingletonCluster
<1>. QED
  BY <1>1, <1>2, <1>3, <1>4, <1>5 DEF IInv, Types

LEMMA rebuildClustersKeeps == ASSUME IInv, NEW w \in Workers, rebuildClusters(w) PROVE IInv'
<1>1. SourceTypes' /\ AttachInv' /\ kdTree' = kdTree
  BY SourceStays DEF IInv, Types, rebuildClusters, sourceVars
<1>2. Booleans'
  BY <1>1, Zenon DEF IInv, Types, Booleans, rebuildClusters, Leaving, IdleWorker
<1>3. LayerTypes'
  BY SMTT(30) DEF IInv, Types, SourceTypes, LayerTypes, WorkerTypes, OverTypes, Loaders,
     rebuildClusters, Leaving, IdleWorker
<1>4. WorkerTypes'
  BY SMTT(30) DEF IInv, Types, SourceTypes, LayerTypes, WorkerTypes, rebuildClusters, Leaving,
     IdleWorker
<1>5. DrawTypes'
  BY VectorLayerAssumption, DataSourceAssumption, SMTT(30) DEF IInv, Types, SourceTypes,
     LayerTypes, WorkerTypes, DrawTypes, NoClusters, rebuildClusters, Leaving, IdleWorker
<1>6. OverTypes'
  <2>1. \A o \in Workers : {e \in Elements : Stale(o, e)} \in SUBSET Elements
    OBVIOUS
  <2>. QED
    BY <2>1 DEF IInv, Types, OverTypes, rebuildClusters
<1>. QED
  BY <1>1, <1>2, <1>3, <1>4, <1>5, <1>6 DEF IInv, Types

LEMMA EndTaskKeeps == ASSUME IInv, NEW w \in Workers, EndTask(w) PROVE IInv'
<1>1. SourceTypes' /\ AttachInv' /\ kdTree' = kdTree
  BY SourceStays DEF IInv, Types, EndTask, sourceVars
<1>2. Booleans'
  BY <1>1, Zenon DEF IInv, Types, Booleans, EndTask, IdleWorker
<1>3. LayerTypes'
  BY SMTT(30) DEF IInv, Types, SourceTypes, LayerTypes, WorkerTypes, OverTypes, Loaders,
     EndTask, IdleWorker
<1>4. WorkerTypes'
  BY SMTT(30) DEF IInv, Types, SourceTypes, LayerTypes, WorkerTypes, EndTask, IdleWorker
<1>5. DrawTypes'
  BY VectorLayerAssumption, DataSourceAssumption, SMTT(30) DEF IInv, Types, SourceTypes,
     LayerTypes, WorkerTypes, DrawTypes, EndTask, IdleWorker
<1>6. OverTypes'
  BY DEF IInv, Types, OverTypes, EndTask
<1>. QED
  BY <1>1, <1>2, <1>3, <1>4, <1>5, <1>6 DEF IInv, Types

-----------------------------------------------------------------------------
LEMMA StutterKeeps == ASSUME IInv, UNCHANGED vars PROVE IInv'
<1>1. SourceTypes' /\ AttachInv' /\ kdTree' = kdTree
  BY SourceStays DEF IInv, Types, vars, sourceVars
<1>2. Booleans'
  BY DEF IInv, Types, Booleans, vars
<1>3. LayerTypes' /\ WorkerTypes' /\ DrawTypes' /\ OverTypes'
  BY DEF IInv, Types, LayerTypes, WorkerTypes, DrawTypes, OverTypes, vars
<1>. QED
  BY <1>1, <1>2, <1>3 DEF IInv, Types

LEMMA LoadingKeeps == ASSUME IInv, NEW p \in Loaders, Loading(p) PROVE IInv'
  BY CancelTasksKeeps, TestVisibleKeeps, ClearKeeps, ExecuteTaskKeeps DEF Loading

(* The invariant is inductive. *)
LEMMA NextIInv == IInv /\ [Next]_vars => IInv'
<1> SUFFICES ASSUME IInv, [Next]_vars PROVE IInv'
  OBVIOUS
<1>1. ASSUME NEW t \in Threads, Application(t) PROVE IInv'
  BY <1>1, MutateKeeps, setVisibleKeeps, CallRefreshKeeps DEF Application
<1>2. ASSUME NEW t \in Threads, Caller(t) PROVE IInv'
  BY <1>2, NotifyKeeps, AnnounceKeeps, refreshElementKeeps, refreshKeeps, RequestCullKeeps, LoadingKeeps
     DEF Caller, Loaders
<1>3. ASSUME NEW v \in Views, ViewChanged(v) PROVE IInv'
  BY <1>3, ViewChangedKeeps
<1>4. CASE Culling
  BY <1>4, TakeWakeupKeeps, LoadingKeeps, SaveCullStateKeeps DEF Culling, Loaders
<1>5. ASSUME NEW w \in Workers, Worker(w) PROVE IInv'
  BY <1>5, StartTaskKeeps, ReadCullStateKeeps, ClearByTaskKeeps, ReadSourceKeeps,
     loadElementsKeeps, SwapRefreshKeeps, createSingletonClusterKeeps, rebuildClustersKeeps,
     EndTaskKeeps DEF Worker
<1>6. CASE UNCHANGED vars
  BY <1>6, StutterKeeps
<1>. QED
  BY <1>1, <1>2, <1>3, <1>4, <1>5, <1>6 DEF Next

-----------------------------------------------------------------------------
(* A call that names one element works on no other. *)
CallInv ==
    \A t \in Threads :
        /\ load[t] # "none" => call[t].pc \in {"tell", "refresh"}
        /\ load[t] # "save"
        /\ ~call[t].bulk => \A e, f \in call[t].added \cup call[t].removed : e = f
        /\ call[t].pc = "notify" => ~call[t].bulk

(* Until the first view was culled nothing is drawn, and it will be culled. *)
CullInv ==
    /\ load[Cull] # "none" => cull \in Views
    /\ lastCull = NoView => wakeup \/ load[Cull] # "none"
    /\ lastCull = NoView => shown = {} /\ \A e \in Elements : built[e] = NoDrawing

TaskInv ==
    \A w \in Workers :
        /\ ~clustered => worker[w].pc \notin {"swap", "rebuild"}
        /\ clustered => worker[w].pc # "apply"
        /\ worker[w].pc \in {"load", "apply"} => lastCull # NoView
        /\ worker[w].pc = "apply" => worker[w].snap \subseteq worker[w].view.seen
        /\ worker[w].pc \in {"swap", "rebuild"} => lastCull # NoView

(* What a task has read is true of every element that did not change since. *)
ReadInv ==
    \A w \in Workers, e \in Elements : e \notin over[w] =>
        /\ worker[w].pc \in {"load", "apply"} => visible /\ worker[w].view = lastCull
        /\ worker[w].pc = "apply" => (e \in worker[w].snap <=> e \in stored \cap worker[w].view.seen)
        /\ worker[w].pc = "swap" => (e \in worker[w].snap <=> e \in stored)
        /\ worker[w].pc = "clear" => ~visible \/ (lastCull = NoView /\ worker[w].view = NoView)

LayerHides == \A p \in Loaders : \A e \in Elements \ over[p] : load[p] = "clear" => ~visible

(* A call that will tell the layer of e. *)
Coming(e) ==
    \E t \in Threads :
        \/ call[t].pc \in {"attach", "detach", "reindex", "stuck"} /\ e \in call[t].added \cup call[t].removed
        \/ call[t].pc = "tell" /\ load[t] = "none" /\ e \in call[t].added \cup call[t].removed
        \/ call[t].pc = "tell" /\ call[t].added # {} /\ e \in call[t].removed

(* A load, or a task of one, that will read the elements. *)
LoadComing ==
    \/ wakeup \/ queued > 0
    \/ \E t \in Threads : call[t].pc = "refresh" /\ load[t] = "none"
    \/ \E p \in Loaders : load[p] \in {"cancel", "test", "execute"}
    \/ \E w \in Workers : worker[w].pc \in {"started", "load"}

Settled(e) ==
    /\ e \in shown => visible /\ e \in stored
    /\ visible /\ lastCull # NoView /\ e \in stored \cap lastCull.seen =>
          e \in shown /\ built[e] # NoDrawing /\ built[e].surface = lastCull.surface

DrawInv ==
    ~clustered => \A e \in Elements \ astray :
        \/ Settled(e) \/ Coming(e) \/ LoadComing
        \/ \E p \in Loaders : load[p] = "clear"
        \/ \E w \in Workers : worker[w].pc \in {"apply", "clear"}

(* The layer will be told that e changed, or it is in no data source.      *)
Noticed(e) == \E t \in Threads : call[t].pc = "notify" /\ e \in call[t].added

InClusters(e) ==
    IF e \in stored THEN clusters[e] = version[e] \/ (clusters[e] # 0 /\ Noticed(e)) ELSE clusters[e] = 0

(* The clusters that w builds will do for e, or are known to be old.       *)
WillDo(w, e) ==
    \/ e \in over[w]
    \/ IF e \in worker[w].snap THEN e \in stored /\ (singletons[w][e] \in {0, version[e]} \/ Noticed(e))
       ELSE e \notin stored

(* Nobody will put older clusters in place of those of now. *)
Stays(e) ==
    /\ InClusters(e) \/ e \in astray
    /\ \A w \in Workers : worker[w].pc = "rebuild" => WillDo(w, e)

WillBuild ==
    /\ flag
    /\ ~visible \/ lastCull = NoView \/ LoadComing \/ \E w \in Workers : worker[w].pc = "swap"

ClusterInv ==
    clustered => \A e \in Elements \ crossed :
        \/ Stays(e) \/ Coming(e) \/ WillBuild
        \/ \E w \in Workers : worker[w].pc = "rebuild" /\ WillDo(w, e)

SingletonInv ==
    \A w \in Workers : \A e \in Elements :
        singletons[w][e] # 0 => worker[w].pc = "rebuild" /\ e \in worker[w].snap

BuiltInv == ~clustered =>
    /\ \A e \in shown : built[e] # NoDrawing
    /\ \A e \in Elements \ missed : built[e] # NoDrawing =>
          \/ built[e].ver = version[e]
          \/ \E t \in Threads : /\ call[t].pc \in {"notify", "reindex", "tell"} /\ load[t] = "none"
                                /\ ~call[t].bulk /\ e \in call[t].added

Rests == CallInv /\ CullInv /\ TaskInv /\ ReadInv /\ LayerHides /\ DrawInv /\ SingletonInv /\ ClusterInv
             /\ BuiltInv

LEMMA InitRests == Init => Rests
<1> SUFFICES ASSUME Init PROVE Rests
  OBVIOUS
<1>1. CallInv /\ LayerHides
  BY DEF Init, InitSource, Idle, CallInv, LayerHides, Loaders
<1>2. CullInv
  BY DEF Init, CullInv, Loaders
<1>3. TaskInv /\ ReadInv
  BY DEF Init, IdleWorker, TaskInv, ReadInv
<1>4. DrawInv /\ SingletonInv /\ ClusterInv
  BY DEF Init, DrawInv, NoClusters, SingletonInv, ClusterInv, WillBuild, LoadComing
<1>5. BuiltInv
  BY DEF Init, BuiltInv
<1>. QED
  BY <1>1, <1>2, <1>3, <1>4, <1>5 DEF Rests

(* After the listeners were told, only what is left of setAll is to come.  *)
LEMMA ToldCalls ==
  ASSUME SourceTypes, NEW t \in Threads, Told(t)
  PROVE  /\ call[t].pc \in {"tell", "refresh"}
         /\ \A u \in Threads : u # t => call'[u] = call[u]
         /\ \/ /\ call[t].added # {} /\ call[t].removed # {} /\ call'[t].pc = "detach"
               /\ call'[t].added = {} /\ call'[t].removed = call[t].removed
               /\ call'[t].bulk = call[t].bulk
            \/ (call[t].added = {} \/ call[t].removed = {}) /\ call'[t] = Idle
<1> DEFINE c == call[t]
<1>1. c \in Calls
  BY DEF SourceTypes
<1>2. call' = [call EXCEPT ![t] = AfterTell(c)] /\ c.pc \in {"tell", "refresh"}
  BY DEF Told
<1> HIDE DEF c
<1>3. CASE c.added # {} /\ c.removed # {}
  <2>1. AfterTell(c) = [c EXCEPT !.pc = "detach", !.added = {}]
    BY <1>3 DEF AfterTell
  <2>2. /\ AfterTell(c).pc = "detach" /\ AfterTell(c).added = {}
        /\ AfterTell(c).removed = c.removed /\ AfterTell(c).bulk = c.bulk
    BY <1>1, <2>1 DEF Calls
  <2>. QED
    BY <1>2, <1>3, <2>2 DEF SourceTypes, c
<1>4. CASE c.added = {} \/ c.removed = {}
  BY <1>2, <1>4 DEF SourceTypes, c, AfterTell
<1>. QED
  BY <1>3, <1>4

(* A step that leaves the clusters, and the tasks that build them, alone.  *)
LEMMA ClusterStays ==
  ASSUME Rests,
         UNCHANGED <<clustered, stored, version, clusters, singletons, crossed>>,
         \A e \in Elements : Coming(e) => Coming(e)',
         \A e \in Elements : Noticed(e) => Noticed(e)',
         clustered /\ WillBuild => WillBuild',
         clustered => astray \subseteq astray',
         \A w \in Workers : worker[w].pc = "rebuild" <=> worker'[w].pc = "rebuild",
         \A w \in Workers : worker[w].pc = "rebuild" =>
             worker'[w].snap = worker[w].snap /\ over[w] \subseteq over'[w]
  PROVE  SingletonInv' /\ ClusterInv'
<1>1. SingletonInv'
  BY DEF Rests, SingletonInv
<1>2. \A e \in Elements : InClusters(e) => InClusters(e)'
  BY DEF InClusters
<1>3. \A w \in Workers, e \in Elements : worker[w].pc = "rebuild" /\ WillDo(w, e) => WillDo(w, e)'
  BY DEF WillDo
<1>4. clustered => \A e \in Elements : Stays(e) => Stays(e)'
  BY <1>2, <1>3 DEF Stays
<1>. QED
  BY <1>1, <1>3, <1>4 DEF Rests, ClusterInv

(* What a call of the source begins with.                                  *)
LEMMA MutateBegins ==
  ASSUME SourceTypes, NEW t \in Threads, Mutate(t)
  PROVE  /\ call[t] = Idle /\ \A u \in Threads : u # t => call'[u] = call[u]
         /\ call'[t].pc \in {"insert", "attach", "detach", "notify", "stuck"}
         /\ call'[t].pc = "notify" => ~call'[t].bulk
         /\ ~call'[t].bulk => \A e, f \in call'[t].added \cup call'[t].removed : e = f
         /\ \A e \in Elements : version'[e] # version[e] => call'[t].pc = "notify" /\ e \in call'[t].added
<1>1. ASSUME NEW f \in Elements, change(t, f)
      PROVE  /\ call[t] = Idle /\ call' = [call EXCEPT ![t] = [pc |-> "notify", added |-> {f}, removed |-> {},
                                                             bulk |-> FALSE]]
             /\ version' = [version EXCEPT ![f] = version[f] + 1]
  BY <1>1 DEF change, Begin
<1>2. ASSUME NEW f \in Elements, add(t, f) \/ remove(t, f)
      PROVE  /\ call[t] = Idle /\ version' = version
             /\ \/ call' = [call EXCEPT ![t] = [pc |-> "insert", added |-> {f}, removed |-> {}, bulk |-> FALSE]]
                \/ call' = [call EXCEPT ![t] = [pc |-> "detach", added |-> {}, removed |-> {f}, bulk |-> FALSE]]
  BY <1>2 DEF add, remove, Begin
<1>3. ASSUME NEW S, addAll(t, S) \/ removeAll(t, S) \/ setAll(t, S)
      PROVE  /\ call[t] = Idle /\ version' = version
             /\ \E pc \in {"insert", "attach", "detach", "stuck"} : \E A, R :
                   call' = [call EXCEPT ![t] = [pc |-> pc, added |-> A, removed |-> R, bulk |-> TRUE]]
  <2>1. CASE addAll(t, S)
    BY <2>1, Zenon DEF addAll, Begin
  <2>2. CASE removeAll(t, S)
    BY <2>2, Zenon DEF removeAll, Begin
  <2>3. CASE setAll(t, S)
    <3>1. (IF S \subseteq stored THEN "detach" ELSE "attach") \in {"attach", "detach"}
      OBVIOUS
    <3>. QED
      BY <2>3, <3>1, Zenon DEF setAll, setAllStuck, Begin
  <2>. QED
    BY <1>3, <2>1, <2>2, <2>3
<1>4. \/ \E f \in Elements : change(t, f) \/ add(t, f) \/ remove(t, f)
      \/ \E S : addAll(t, S) \/ removeAll(t, S) \/ setAll(t, S)
  BY DEF Mutate, clear
<1>5. CASE \E f \in Elements : change(t, f)
  BY <1>1, <1>5 DEF SourceTypes
<1>6. CASE \E f \in Elements : add(t, f) \/ remove(t, f)
  BY <1>2, <1>6 DEF SourceTypes
<1>7. CASE \E S : addAll(t, S) \/ removeAll(t, S) \/ setAll(t, S)
  <2>1. PICK pc \in {"insert", "attach", "detach", "stuck"} : \E A, R :
          call' = [call EXCEPT ![t] = [pc |-> pc, added |-> A, removed |-> R, bulk |-> TRUE]]
    BY <1>3, <1>7
  <2>2. call[t] = Idle /\ version' = version
    BY <1>3, <1>7
  <2>. QED
    BY <2>1, <2>2 DEF SourceTypes
<1>. QED
  BY <1>4, <1>5, <1>6, <1>7

LEMMA MutateRests == ASSUME IInv, IInv', Rests, NEW t \in Threads, Mutate(t) PROVE Rests'
<1>a. call[t] = Idle /\ \A u \in Threads : u # t => call'[u] = call[u]
  BY MutateBegins DEF IInv, Types
<1>b. \A e \in Elements : (e \in stored <=> e \notin stored')
         => call'[t].pc \in {"attach", "detach", "stuck"} /\ e \in call'[t].added \cup call'[t].removed
  <2> SUFFICES ASSUME NEW e \in Elements, e \in stored <=> e \notin stored'
               PROVE  call'[t].pc \in {"attach", "detach", "stuck"} /\ e \in call'[t].added \cup call'[t].removed
    OBVIOUS
  <2>1. CASE \E f \in Elements : add(t, f) \/ remove(t, f) \/ change(t, f)
    BY <2>1 DEF IInv, Types, SourceTypes, add, remove, change, Begin
  <2>2. ASSUME NEW S \in SUBSET Elements, addAll(t, S) \/ removeAll(t, S)
        PROVE  call'[t].pc \in {"attach", "detach", "stuck"} /\ e \in call'[t].added \cup call'[t].removed
    BY <2>2 DEF IInv, Types, SourceTypes, addAll, removeAll, Begin
  <2>3. ASSUME NEW S \in SUBSET Elements, setAll(t, S)
        PROVE  call'[t].pc \in {"attach", "detach", "stuck"} /\ e \in call'[t].added \cup call'[t].removed
    BY <2>3 DEF IInv, Types, SourceTypes, setAll, setAllStuck, Begin
  <2>. QED
    BY <2>1, <2>2, <2>3 DEF IInv, Types, SourceTypes, Mutate, clear
<1>c. UNCHANGED <<clustered, wakeup, load, visible, lastCull, queued, worker, shown, built, flag,
                  clusters, singletons, astray>>
  BY DEF Mutate
<1>d. \A e \in Elements : Coming(e) => Coming(e)'
  BY <1>a, <1>c DEF Coming, Idle
<1>e. \A e \in Elements : Settled(e) => Settled(e)' \/ Coming(e)'
  BY <1>b, <1>c DEF Settled, Coming
<1>f. LoadComing => LoadComing'
  BY <1>a, <1>c DEF LoadComing, Idle
<1>1. CallInv'
  <2>1. load[t] = "none"
    BY <1>a DEF Rests, CallInv, Idle
  <2>. QED
    BY <1>a, <1>c, <2>1, MutateBegins DEF IInv, Types, Rests, CallInv
<1>2. CullInv'
  BY VectorLayerAssumption, SMTT(30) DEF IInv, Types, Rests, SourceTypes, LayerTypes, DrawTypes,
     WorkerTypes, Loaders, TaskInv, CullInv, Mutate, add, addAll, remove, removeAll, setAll,
     change, clear, Begin, Goto, Overtaken, HaveRead
<1>3. TaskInv'
  BY VectorLayerAssumption, SMTT(30) DEF IInv, Types, Rests, SourceTypes, LayerTypes,
     WorkerTypes, CullInv, TaskInv, Mutate, add, addAll, remove, removeAll, setAll, change,
     clear, Begin, Goto, Overtaken, HaveRead
<1>4. ReadInv'
  BY VectorLayerAssumption, SMTT(30) DEF IInv, Types, Rests, SourceTypes, LayerTypes,
     WorkerTypes, OverTypes, TaskInv, CullInv, Loaders, ReadInv, Mutate, add, addAll, remove,
     removeAll, setAll, change, clear, Begin, Goto, Overtaken, HaveRead
<1>5. LayerHides'
  BY VectorLayerAssumption, SMTT(30) DEF IInv, Types, Rests, LayerTypes, OverTypes, Loaders,
     LayerHides, Mutate, add, addAll, remove, removeAll, setAll, change, clear, Begin, Goto,
     Overtaken, HaveRead
<1>6. DrawInv'
  BY <1>c, <1>d, <1>e, <1>f DEF Rests, DrawInv
<1>7. SingletonInv' /\ ClusterInv'
  <2>1. \A e \in Elements : version'[e] = version[e] \/ Noticed(e)'
    <3>1. CASE \E f \in Elements : change(t, f)
      BY <3>1, <1>a DEF IInv, Types, SourceTypes, change, Begin, Noticed
    <3>2. CASE version' = version
      BY <3>2
    <3>. QED
      BY <3>1, <3>2 DEF Mutate, add, addAll, remove, removeAll, setAll, clear
  <2>2. \A e \in Elements : Noticed(e) => Noticed(e)'
    BY <1>a DEF Noticed, Idle
  <2>3. \A e \in Elements : (e \in stored <=> e \notin stored') => Coming(e)'
    BY <1>b, <1>a DEF Coming
  <2>4. \A e \in Elements : version[e] # 0
    BY DEF IInv, Types, SourceTypes
  <2>5. \A e \in Elements : InClusters(e) => InClusters(e)' \/ Coming(e)'
    BY <1>c, <2>1, <2>2, <2>3, <2>4 DEF InClusters
  <2>6. \A w \in Workers : over[w] \subseteq over'[w]
    BY DEF IInv, Types, OverTypes, Mutate, Overtaken
  <2>7. \A w \in Workers, e \in Elements : WillDo(w, e) => WillDo(w, e)' \/ Coming(e)'
    BY <1>c, <2>1, <2>2, <2>3, <2>6 DEF WillDo
  <2>8. \A e \in Elements : Stays(e) => Stays(e)' \/ Coming(e)'
    BY <1>c, <2>5, <2>7 DEF Stays
  <2>9. WillBuild => WillBuild'
    BY <1>c, <1>f DEF WillBuild
  <2>10. SingletonInv' /\ crossed' = crossed
    BY <1>c DEF Rests, SingletonInv, Mutate, add, addAll, remove, removeAll, setAll, change, clear
  <2>. QED
    BY <1>c, <1>d, <2>7, <2>8, <2>9, <2>10 DEF Rests, ClusterInv
<1>8. BuiltInv'
  <2>1. load[t] = "none"
    BY <1>a DEF Rests, CallInv, Idle
  <2>2. \A e \in Elements : version'[e] = version[e]
            \/ (call'[t].pc = "notify" /\ ~call'[t].bulk /\ e \in call'[t].added)
    BY MutateBegins DEF IInv, Types
  <2>3. missed' = missed /\ call[t].added = {}
    BY <1>a DEF Mutate, Idle
  <2>. QED
    BY <1>a, <1>c, <2>1, <2>2, <2>3 DEF Rests, BuiltInv
<1>. QED
  BY <1>1, <1>2, <1>3, <1>4, <1>5, <1>6, <1>7, <1>8 DEF Rests

LEMMA NotifyRests == ASSUME IInv, IInv', Rests, NEW t \in Threads, Notify(t) PROVE Rests'
<1>a. call[t].pc = "notify" /\ \A u \in Threads : u # t => call'[u] = call[u]
  BY DEF IInv, Types, SourceTypes, Notify, notifyElementChanged, Goto
<1>b. \/ /\ call[t].added \subseteq attached
         /\ call'[t].pc = "reindex" /\ call'[t].added = call[t].added
      \/ \A e \in call[t].added : e \notin attached
  <2>1. CASE call[t].added \subseteq attached
    <3>1. call[t] \in Calls /\ call' = [call EXCEPT ![t].pc = "reindex"]
      BY <2>1 DEF IInv, Types, SourceTypes, Notify, notifyElementChanged, Goto
    <3>. QED
      BY <2>1, <3>1 DEF IInv, Types, SourceTypes, Calls
  <2>2. CASE ~(call[t].added \subseteq attached)
    BY <2>2, <1>a DEF Rests, CallInv
  <2>. QED
    BY <2>1, <2>2
<1>c. UNCHANGED <<stored, attached, version, crossed, clustered, wakeup, load, visible, lastCull, queued, worker,
                  shown, built, flag, clusters, singletons, over, astray>>
  BY DEF Notify, notifyElementChanged
<1>d. \A e \in Elements : Coming(e) => Coming(e)'
  BY <1>a, <1>c DEF Coming
<1>e. LoadComing => LoadComing'
  BY <1>a, <1>c DEF LoadComing
<1>1. CallInv'
  BY VectorLayerAssumption, SMTT(30) DEF IInv, Types, Rests, SourceTypes, Calls, Idle,
     LayerTypes, Loaders, CallInv, Notify, notifyElementChanged, Goto
<1>2. CullInv'
  BY VectorLayerAssumption, SMTT(30) DEF IInv, Types, Rests, SourceTypes, LayerTypes, DrawTypes,
     WorkerTypes, Loaders, TaskInv, CullInv, Notify, notifyElementChanged, Goto
<1>3. TaskInv'
  BY VectorLayerAssumption, SMTT(30) DEF IInv, Types, Rests, SourceTypes, LayerTypes,
     WorkerTypes, CullInv, TaskInv, Notify, notifyElementChanged, Goto
<1>4. ReadInv'
  BY VectorLayerAssumption, SMTT(30) DEF IInv, Types, Rests, SourceTypes, LayerTypes,
     WorkerTypes, OverTypes, TaskInv, CullInv, Loaders, ReadInv, Notify, notifyElementChanged, Goto
<1>5. LayerHides'
  BY VectorLayerAssumption, SMTT(30) DEF IInv, Types, Rests, LayerTypes, OverTypes, Loaders,
     LayerHides, Notify, notifyElementChanged, Goto
<1>6. DrawInv'
  <2>1. \A e \in Elements : Settled(e) => Settled(e)'
    BY <1>c DEF Settled
  <2>. QED
    BY <1>c, <1>d, <1>e, <2>1 DEF Rests, DrawInv
<1>7. SingletonInv' /\ ClusterInv'
  <2>1. \A e \in Elements \ crossed : Noticed(e) => Noticed(e)' \/ Coming(e)' \/ e \notin stored
    <3> SUFFICES ASSUME NEW e \in Elements \ crossed, e \in call[t].added, e \notin attached, e \in stored
                 PROVE  Coming(e)'
      BY <1>a, <1>b, <1>c DEF Noticed, Coming
    <3>1. PICK u \in Threads : e \in Pending(u)
      BY DEF IInv, AttachInv
    <3>. QED
      BY <3>1, <1>d DEF Pending, Coming
  <2>2. \A e \in Elements \ crossed : InClusters(e) => InClusters(e)' \/ Coming(e)'
    BY <1>c, <2>1 DEF InClusters
  <2>3. \A w \in Workers, e \in Elements \ crossed : WillDo(w, e) => WillDo(w, e)' \/ Coming(e)'
    BY <1>c, <2>1 DEF WillDo
  <2>4. \A e \in Elements \ crossed : Stays(e) => Stays(e)' \/ Coming(e)'
    BY <1>c, <2>2, <2>3 DEF Stays
  <2>5. WillBuild => WillBuild'
    BY <1>c, <1>e DEF WillBuild
  <2>6. SingletonInv'
    BY <1>c DEF Rests, SingletonInv
  <2>. QED
    BY <1>c, <1>d, <2>3, <2>4, <2>5, <2>6 DEF Rests, ClusterInv
<1>8. BuiltInv'
  BY VectorLayerAssumption, SMTT(30) DEF IInv, Types, Rests, SourceTypes, Calls, Idle,
     LayerTypes, WorkerTypes, DrawTypes, CallInv, CullInv, TaskInv, BuiltInv, Notify, notifyElementChanged, Goto
<1>. QED
  BY <1>1, <1>2, <1>3, <1>4, <1>5, <1>6, <1>7, <1>8 DEF Rests

LEMMA AnnounceRests == ASSUME IInv, IInv', Rests, NEW t \in Threads, Announce(t) PROVE Rests'
<1>a. /\ call[t].pc \in {"insert", "attach", "detach", "reindex"}
      /\ call'[t].pc = "tell" \/ (call[t].pc = "insert" /\ call'[t].pc \in {"attach", "stuck"})
      /\ call'[t].added = call[t].added /\ call'[t].removed = call[t].removed
      /\ call'[t].bulk = call[t].bulk
      /\ \A u \in Threads : u # t => call'[u] = call[u]
  <2>1. \/ call' = [call EXCEPT ![t].pc = "tell"] /\ call[t].pc \in {"attach", "detach", "reindex"}
        \/ call' = [call EXCEPT ![t].pc = "attach"] /\ call[t].pc = "insert"
        \/ call' = [call EXCEPT ![t].pc = "stuck"] /\ call[t].pc = "insert"
    BY DEF Announce, Insert, Reindex, attachElement, detachElement, Goto
  <2>2. call \in [Threads -> Calls]
    BY DEF IInv, Types, SourceTypes
  <2>. QED
    BY <2>1, <2>2 DEF Calls
<1>b. /\ stored \subseteq stored' /\ stored' \subseteq stored \cup call[t].added
      /\ stored' = stored \/ call[t].pc \in {"insert", "reindex"}
  BY DEF Announce, Insert, Reindex, attachElement, detachElement
<1>c. load[t] = "none"
  BY <1>a DEF Rests, CallInv
<1>d. UNCHANGED <<version, clustered, wakeup, load, visible, lastCull, queued, worker, shown, built, flag,
                  clusters, singletons, astray>>
  BY DEF Announce, Insert, Reindex, attachElement, detachElement
<1>e. \A e \in Elements : Coming(e) => Coming(e)'
  BY <1>a, <1>c, <1>d DEF Coming
<1>f. \A e \in Elements : (e \in stored <=> e \notin stored') => Coming(e)'
  BY <1>a, <1>b, <1>c, <1>d DEF Coming
<1>g. LoadComing => LoadComing'
  BY <1>a, <1>d DEF LoadComing
<1>1. CallInv'
  BY VectorLayerAssumption, SMTT(30) DEF IInv, Types, Rests, SourceTypes, Calls, Idle,
     LayerTypes, Loaders, CallInv, Announce, Insert, Reindex, attachElement, detachElement, Goto,
     Overtaken, HaveRead
<1>2. CullInv'
  BY VectorLayerAssumption, SMTT(30) DEF IInv, Types, Rests, SourceTypes, LayerTypes, DrawTypes,
     WorkerTypes, Loaders, TaskInv, CullInv, Announce, Insert, Reindex, attachElement, detachElement,
     Goto, Overtaken, HaveRead
<1>3. TaskInv'
  BY VectorLayerAssumption, SMTT(30) DEF IInv, Types, Rests, SourceTypes, LayerTypes,
     WorkerTypes, CullInv, TaskInv, Announce, Insert, Reindex, attachElement, detachElement, Goto,
     Overtaken, HaveRead
<1>4. ReadInv'
  BY VectorLayerAssumption, SMTT(30) DEF IInv, Types, Rests, SourceTypes, LayerTypes,
     WorkerTypes, OverTypes, TaskInv, CullInv, Loaders, ReadInv, Announce, Insert, Reindex,
     attachElement, detachElement, Goto, Overtaken, HaveRead
<1>5. LayerHides'
  BY VectorLayerAssumption, SMTT(30) DEF IInv, Types, Rests, LayerTypes, OverTypes, Loaders,
     LayerHides, Announce, Insert, Reindex, attachElement, detachElement, Goto, Overtaken, HaveRead
<1>6. DrawInv'
  <2>1. \A e \in Elements : Settled(e) => Settled(e)' \/ Coming(e)'
    BY <1>d, <1>f DEF Settled
  <2>. QED
    BY <1>d, <1>e, <1>g, <2>1 DEF Rests, DrawInv
<1>7. SingletonInv' /\ ClusterInv'
  <2>1. \A e \in Elements : Noticed(e) => Noticed(e)'
    BY <1>a DEF Noticed
  <2>2. \A e \in Elements : InClusters(e) => InClusters(e)' \/ Coming(e)'
    BY <1>d, <1>f, <2>1 DEF InClusters
  <2>3. \A w \in Workers : over[w] \subseteq over'[w]
    BY DEF IInv, Types, OverTypes, Announce, Overtaken
  <2>4. \A w \in Workers, e \in Elements : WillDo(w, e) => WillDo(w, e)' \/ Coming(e)'
    BY <1>d, <1>f, <2>1, <2>3 DEF WillDo
  <2>5. \A e \in Elements : Stays(e) => Stays(e)' \/ Coming(e)'
    BY <1>d, <2>2, <2>4 DEF Stays
  <2>6. WillBuild => WillBuild'
    BY <1>d, <1>g DEF WillBuild
  <2>7. crossed \subseteq crossed'
    BY DEF Announce, Insert, Reindex, attachElement, detachElement
  <2>8. SingletonInv'
    BY <1>d DEF Rests, SingletonInv
  <2>. QED
    BY <1>d, <1>e, <2>4, <2>5, <2>6, <2>7, <2>8 DEF Rests, ClusterInv
<1>8. BuiltInv'
  <2>1. missed' = missed
    BY DEF Announce
  <2>. QED
    BY <1>a, <1>c, <1>d, <2>1 DEF Rests, BuiltInv
<1>. QED
  BY <1>1, <1>2, <1>3, <1>4, <1>5, <1>6, <1>7, <1>8 DEF Rests

LEMMA refreshElementRests == ASSUME IInv, IInv', Rests, NEW t \in Threads, refreshElement(t) PROVE Rests'
<1>1. CallInv'
  BY VectorLayerAssumption, SMTT(30) DEF IInv, Types, Rests, SourceTypes, Calls, Idle,
     LayerTypes, Loaders, CallInv, refreshElement, syncRendererElement, Drawing, Told, AfterTell
<1>2. CullInv'
  BY VectorLayerAssumption, SMTT(30) DEF IInv, Types, Rests, SourceTypes, LayerTypes, DrawTypes,
     WorkerTypes, Loaders, TaskInv, CullInv, refreshElement, syncRendererElement, Drawing, Told,
     AfterTell
<1>3. TaskInv'
  BY VectorLayerAssumption, SMTT(30) DEF IInv, Types, Rests, SourceTypes, LayerTypes,
     WorkerTypes, CullInv, TaskInv, refreshElement, syncRendererElement, Drawing, Told,
     AfterTell
<1>4. ReadInv'
  BY VectorLayerAssumption, SMTT(30) DEF IInv, Types, Rests, SourceTypes, LayerTypes,
     WorkerTypes, OverTypes, TaskInv, CullInv, Loaders, ReadInv, refreshElement,
     syncRendererElement, Drawing, Told, AfterTell
<1>5. LayerHides'
  BY VectorLayerAssumption, SMTT(30) DEF IInv, Types, Rests, LayerTypes, OverTypes, Loaders,
     LayerHides, refreshElement, syncRendererElement, Drawing, Told, AfterTell
<1>a. PICK e \in call[t].added \cup call[t].removed :
          IF lastCull = NoView THEN UNCHANGED <<shown, built, astray, missed>>
          ELSE syncRendererElement(e, call[t].added = {})
  BY DEF refreshElement
<1>b. /\ call[t].pc = "tell" /\ load[t] = "none" /\ ~call[t].bulk /\ Told(t)
      /\ call[t].added \cup call[t].removed = {e} /\ e \in Elements
  BY DEF refreshElement, Rests, CallInv, IInv, Types, SourceTypes, Calls
<1>c. UNCHANGED <<stored, version, clustered, wakeup, load, visible, lastCull, queued, worker>>
  BY DEF refreshElement
<1>d. ~clustered /\ \A u \in Threads : u # t => call'[u] = call[u]
  BY <1>b, ToldCalls DEF refreshElement, IInv, Types
<1>e. lastCull # NoView => /\ Drawing(e, lastCull) # NoDrawing
                           /\ Drawing(e, lastCull).surface = lastCull.surface
                           /\ Drawing(e, lastCull).ver = version[e]
  <2>1. lastCull # NoView => version[e] \in Nat /\ lastCull.surface \in Surfaces
    BY <1>b, VectorLayerAssumption DEF IInv, Types, SourceTypes, LayerTypes
  <2>. QED
    BY <2>1, VectorLayerAssumption DEF Drawing
<1>f. lastCull # NoView /\ visible /\ call[t].added # {} =>
         /\ shown' = shown \cup {e} /\ missed' = missed \ {e}
         /\ built'[e] = Drawing(e, lastCull) /\ \A f \in Elements : f # e => built'[f] = built[f]
  BY <1>a, <1>b DEF syncRendererElement, IInv, Types, DrawTypes
<1>g. lastCull # NoView /\ ~(visible /\ call[t].added # {}) =>
         /\ shown' = shown \ {e} /\ built' = built
         /\ missed' = IF call[t].added = {} THEN missed ELSE missed \cup {e}
  BY <1>a DEF syncRendererElement
<1>h. lastCull # NoView => IF call[t].added = {} <=> e \in stored THEN astray' = astray \cup {e}
                           ELSE astray' = astray \ {e}
  BY <1>a DEF syncRendererElement
<1>6. DrawInv'
  <2>1. CASE lastCull = NoView
    BY <1>a, <1>c, <2>1 DEF Rests, CullInv, DrawInv, Settled
  <2>2. CASE lastCull # NoView
    <3>1. e \notin astray' => Settled(e)'
      BY <1>c, <1>e, <1>f, <1>g, <1>h, <2>2 DEF Settled
    <3>2. \A f \in Elements : f # e => (Settled(f) => Settled(f)')
      BY <1>c, <1>f, <1>g, <2>2 DEF Settled
    <3>3. \A f \in Elements : f # e => (Coming(f) => Coming(f)')
      BY <1>b, <1>c, <1>d DEF Coming
    <3>4. LoadComing => LoadComing'
      BY <1>b, <1>c, <1>d DEF LoadComing
    <3>5. \A f \in Elements : f # e => (f \in astray' <=> f \in astray)
      BY <1>h, <2>2
    <3>. QED
      BY <1>c, <1>d, <2>2, <3>1, <3>2, <3>3, <3>4, <3>5 DEF Rests, DrawInv
  <2>. QED
    BY <2>1, <2>2
<1>7. SingletonInv' /\ ClusterInv'
  <2>1. SingletonInv'
    BY DEF Rests, SingletonInv, refreshElement
  <2>2. ~clustered'
    BY DEF refreshElement
  <2>. QED
    BY <2>1, <2>2 DEF ClusterInv
<1>8. BuiltInv'
  <2>1. CASE lastCull = NoView
    BY <1>a, <1>c, <2>1 DEF Rests, CullInv, BuiltInv
  <2>2. CASE lastCull # NoView
    <3>1. \A f \in shown' : f \in Elements
      BY DEF IInv, Types, LayerTypes
    <3>2. ASSUME visible, call[t].added # {} PROVE BuiltInv'
      BY <1>b, <1>c, <1>d, <1>e, <1>f, <2>2, <3>1, <3>2 DEF Rests, BuiltInv
    <3>3. ASSUME ~(visible /\ call[t].added # {}) PROVE BuiltInv'
      BY <1>b, <1>c, <1>d, <1>g, <2>2, <3>1, <3>3 DEF Rests, BuiltInv
    <3>. QED
      BY <3>2, <3>3
  <2>. QED
    BY <2>1, <2>2
<1>. QED
  BY <1>1, <1>2, <1>3, <1>4, <1>5, <1>6, <1>7, <1>8 DEF Rests

LEMMA refreshRests == ASSUME IInv, IInv', Rests, NEW t \in Threads, refresh(t) PROVE Rests'
<1>1. CallInv'
  BY VectorLayerAssumption, SMTT(30) DEF IInv, Types, Rests, SourceTypes, Calls, Idle,
     LayerTypes, Loaders, CallInv, refresh, sourceVars
<1>2. CullInv'
  BY VectorLayerAssumption, SMTT(30) DEF IInv, Types, Rests, SourceTypes, LayerTypes, DrawTypes,
     WorkerTypes, Loaders, TaskInv, CullInv, refresh, sourceVars
<1>3. TaskInv'
  BY VectorLayerAssumption, SMTT(30) DEF IInv, Types, Rests, SourceTypes, LayerTypes,
     WorkerTypes, CullInv, TaskInv, refresh, sourceVars
<1>4. ReadInv'
  BY VectorLayerAssumption, SMTT(30) DEF IInv, Types, Rests, SourceTypes, LayerTypes,
     WorkerTypes, OverTypes, TaskInv, CullInv, Loaders, ReadInv, refresh, sourceVars
<1>5. LayerHides'
  BY VectorLayerAssumption, SMTT(30) DEF IInv, Types, Rests, LayerTypes, OverTypes, Loaders,
     LayerHides, refresh, sourceVars
<1>6. DrawInv'
  BY VectorLayerAssumption, SMTT(30) DEF IInv, Types, Rests, SourceTypes, Calls, Idle,
     LayerTypes, WorkerTypes, DrawTypes, OverTypes, Loaders, CallInv, CullInv, TaskInv, ReadInv,
     LayerHides, DrawInv, Settled, Coming, LoadComing, refresh, sourceVars
<1>7. SingletonInv' /\ ClusterInv'
  <2>1. LoadComing'
    BY DEF IInv, Types, LayerTypes, Loaders, LoadComing, refresh
  <2>2. clustered' => flag'
    BY Zenon DEF refresh
  <2>3. SingletonInv'
    BY DEF Rests, SingletonInv, refresh
  <2>. QED
    BY <2>1, <2>2, <2>3 DEF ClusterInv, WillBuild
<1>8. BuiltInv'
  BY VectorLayerAssumption, SMTT(30) DEF IInv, Types, Rests, SourceTypes, Calls, Idle,
     LayerTypes, WorkerTypes, DrawTypes, CallInv, CullInv, TaskInv, BuiltInv, refresh,
     sourceVars
<1>. QED
  BY <1>1, <1>2, <1>3, <1>4, <1>5, <1>6, <1>7, <1>8 DEF Rests

LEMMA setVisibleRests == ASSUME IInv, IInv', Rests, NEW t \in Threads, setVisible(t) PROVE Rests'
<1>1. CallInv'
  BY VectorLayerAssumption, SMTT(30) DEF IInv, Types, Rests, SourceTypes, Calls, Idle,
     LayerTypes, Loaders, CallInv, setVisible, Begin, Overtaken, HaveDecided
<1>2. CullInv'
  BY VectorLayerAssumption, SMTT(30) DEF IInv, Types, Rests, SourceTypes, LayerTypes, DrawTypes,
     WorkerTypes, Loaders, TaskInv, CullInv, setVisible, Begin, Overtaken, HaveDecided
<1>3. TaskInv'
  BY VectorLayerAssumption, SMTT(30) DEF IInv, Types, Rests, SourceTypes, LayerTypes,
     WorkerTypes, CullInv, TaskInv, setVisible, Begin, Overtaken, HaveDecided
<1>4. ReadInv'
  BY VectorLayerAssumption, SMTT(30) DEF IInv, Types, Rests, SourceTypes, LayerTypes,
     WorkerTypes, OverTypes, TaskInv, CullInv, Loaders, ReadInv, setVisible, Begin, Overtaken,
     HaveDecided
<1>5. LayerHides'
  BY VectorLayerAssumption, SMTT(30) DEF IInv, Types, Rests, LayerTypes, OverTypes, Loaders,
     LayerHides, setVisible, Begin, Overtaken, HaveDecided
<1>6. DrawInv'
  BY VectorLayerAssumption, SMTT(30) DEF IInv, Types, Rests, SourceTypes, Calls, Idle,
     LayerTypes, WorkerTypes, DrawTypes, OverTypes, Loaders, CallInv, CullInv, TaskInv, ReadInv,
     LayerHides, DrawInv, Settled, Coming, LoadComing, setVisible, Begin, Overtaken, HaveDecided
<1>7. SingletonInv' /\ ClusterInv'
  <2>1. UNCHANGED <<clustered, stored, version, clusters, singletons, crossed>>
    BY DEF setVisible
  <2>2. \A e \in Elements : Coming(e) => Coming(e)'
    BY DEF IInv, Types, SourceTypes, Coming, Idle, setVisible, Begin
  <2>3. \A e \in Elements : Noticed(e) => Noticed(e)'
    BY DEF IInv, Types, SourceTypes, Noticed, Idle, setVisible, Begin
  <2>4. WillBuild => WillBuild'
    <3>1. load[t] = "none" /\ call'[t].pc = "refresh"
      BY DEF IInv, Types, SourceTypes, Rests, CallInv, LayerTypes, Loaders, Idle, setVisible, Begin
    <3>. QED
      BY <3>1 DEF WillBuild, LoadComing, setVisible
  <2>5. clustered => astray \subseteq astray'
    BY DEF setVisible
  <2>6. \A w \in Workers : worker[w].pc = "rebuild" <=> worker'[w].pc = "rebuild"
    BY DEF setVisible
  <2>7. \A w \in Workers : worker[w].pc = "rebuild" => worker'[w].snap = worker[w].snap /\ over[w] \subseteq over'[w]
    BY DEF IInv, Types, OverTypes, setVisible, Overtaken
  <2>. QED
    BY <2>1, <2>2, <2>3, <2>4, <2>5, <2>6, <2>7, ClusterStays
<1>8. BuiltInv'
  BY VectorLayerAssumption, SMTT(30) DEF IInv, Types, Rests, SourceTypes, Calls, Idle,
     LayerTypes, WorkerTypes, DrawTypes, CallInv, CullInv, TaskInv, BuiltInv, setVisible, Begin,
     Overtaken, HaveDecided
<1>. QED
  BY <1>1, <1>2, <1>3, <1>4, <1>5, <1>6, <1>7, <1>8 DEF Rests

LEMMA CallRefreshRests == ASSUME IInv, IInv', Rests, NEW t \in Threads, CallRefresh(t) PROVE Rests'
<1>1. CallInv'
  BY VectorLayerAssumption, SMTT(30) DEF IInv, Types, Rests, SourceTypes, Calls, Idle,
     LayerTypes, Loaders, CallInv, CallRefresh, Begin, layerVars
<1>2. CullInv'
  BY VectorLayerAssumption, SMTT(30) DEF IInv, Types, Rests, SourceTypes, LayerTypes, DrawTypes,
     WorkerTypes, Loaders, TaskInv, CullInv, CallRefresh, Begin, layerVars
<1>3. TaskInv'
  BY VectorLayerAssumption, SMTT(30) DEF IInv, Types, Rests, SourceTypes, LayerTypes,
     WorkerTypes, CullInv, TaskInv, CallRefresh, Begin, layerVars
<1>4. ReadInv'
  BY VectorLayerAssumption, SMTT(30) DEF IInv, Types, Rests, SourceTypes, LayerTypes,
     WorkerTypes, OverTypes, TaskInv, CullInv, Loaders, ReadInv, CallRefresh, Begin, layerVars
<1>5. LayerHides'
  BY VectorLayerAssumption, SMTT(30) DEF IInv, Types, Rests, LayerTypes, OverTypes, Loaders,
     LayerHides, CallRefresh, Begin, layerVars
<1>6. DrawInv'
  BY VectorLayerAssumption, SMTT(30) DEF IInv, Types, Rests, SourceTypes, Calls, Idle,
     LayerTypes, WorkerTypes, DrawTypes, OverTypes, Loaders, CallInv, CullInv, TaskInv, ReadInv,
     LayerHides, DrawInv, Settled, Coming, LoadComing, CallRefresh, Begin, layerVars
<1>7. SingletonInv' /\ ClusterInv'
  <2>1. UNCHANGED <<clustered, stored, version, clusters, singletons, crossed>>
    BY DEF CallRefresh, Begin, layerVars
  <2>2. \A e \in Elements : Coming(e) => Coming(e)'
    <3>1. call[t].pc = "idle" /\ \A u \in Threads : u # t => call'[u] = call[u]
      BY DEF IInv, Types, SourceTypes, Idle, CallRefresh, Begin
    <3>. QED
      BY <3>1 DEF Coming, CallRefresh, layerVars
  <2>3. \A e \in Elements : Noticed(e) => Noticed(e)'
    BY DEF IInv, Types, SourceTypes, Noticed, Idle, CallRefresh, Begin
  <2>4. WillBuild => WillBuild'
    BY DEF IInv, Types, SourceTypes, WillBuild, LoadComing, Idle, CallRefresh, Begin, layerVars
  <2>5. clustered => astray \subseteq astray'
    BY DEF CallRefresh, layerVars
  <2>6. \A w \in Workers : worker[w].pc = "rebuild" <=> worker'[w].pc = "rebuild"
    BY DEF CallRefresh, layerVars
  <2>7. \A w \in Workers : worker[w].pc = "rebuild" => worker'[w].snap = worker[w].snap /\ over[w] \subseteq over'[w]
    BY DEF CallRefresh, layerVars
  <2>. QED
    BY <2>1, <2>2, <2>3, <2>4, <2>5, <2>6, <2>7, ClusterStays
<1>8. BuiltInv'
  BY VectorLayerAssumption, SMTT(30) DEF IInv, Types, Rests, SourceTypes, Calls, Idle,
     LayerTypes, WorkerTypes, DrawTypes, CallInv, CullInv, TaskInv, BuiltInv, CallRefresh,
     Begin, layerVars
<1>. QED
  BY <1>1, <1>2, <1>3, <1>4, <1>5, <1>6, <1>7, <1>8 DEF Rests

LEMMA ViewChangedRests == ASSUME IInv, IInv', Rests, NEW v \in Views, ViewChanged(v) PROVE Rests'
<1>1. CallInv'
  BY VectorLayerAssumption, SMTT(30) DEF IInv, Types, Rests, SourceTypes, Calls, Idle,
     LayerTypes, Loaders, CallInv, ViewChanged
<1>2. CullInv'
  BY VectorLayerAssumption, SMTT(30) DEF IInv, Types, Rests, SourceTypes, LayerTypes, DrawTypes,
     WorkerTypes, Loaders, TaskInv, CullInv, ViewChanged
<1>3. TaskInv'
  BY VectorLayerAssumption, SMTT(30) DEF IInv, Types, Rests, SourceTypes, LayerTypes,
     WorkerTypes, CullInv, TaskInv, ViewChanged
<1>4. ReadInv'
  BY VectorLayerAssumption, SMTT(30) DEF IInv, Types, Rests, SourceTypes, LayerTypes,
     WorkerTypes, OverTypes, TaskInv, CullInv, Loaders, ReadInv, ViewChanged
<1>5. LayerHides'
  BY VectorLayerAssumption, SMTT(30) DEF IInv, Types, Rests, LayerTypes, OverTypes, Loaders,
     LayerHides, ViewChanged
<1>6. DrawInv'
  BY VectorLayerAssumption, SMTT(30) DEF IInv, Types, Rests, SourceTypes, Calls, Idle,
     LayerTypes, WorkerTypes, DrawTypes, OverTypes, Loaders, CallInv, CullInv, TaskInv, ReadInv,
     LayerHides, DrawInv, Settled, Coming, LoadComing, ViewChanged
<1>7. SingletonInv' /\ ClusterInv'
  <2>1. UNCHANGED <<clustered, stored, version, clusters, singletons, crossed>>
    BY DEF ViewChanged
  <2>2. \A e \in Elements : Coming(e) => Coming(e)'
    BY DEF Coming, ViewChanged
  <2>3. \A e \in Elements : Noticed(e) => Noticed(e)'
    BY DEF Noticed, ViewChanged
  <2>4. WillBuild => WillBuild'
    BY DEF WillBuild, LoadComing, ViewChanged
  <2>5. clustered => astray \subseteq astray'
    BY DEF ViewChanged
  <2>6. \A w \in Workers : worker[w].pc = "rebuild" <=> worker'[w].pc = "rebuild"
    BY DEF ViewChanged
  <2>7. \A w \in Workers : worker[w].pc = "rebuild" => worker'[w].snap = worker[w].snap /\ over[w] \subseteq over'[w]
    BY DEF ViewChanged
  <2>. QED
    BY <2>1, <2>2, <2>3, <2>4, <2>5, <2>6, <2>7, ClusterStays
<1>8. BuiltInv'
  BY VectorLayerAssumption, SMTT(30) DEF IInv, Types, Rests, SourceTypes, Calls, Idle,
     LayerTypes, WorkerTypes, DrawTypes, CallInv, CullInv, TaskInv, BuiltInv, ViewChanged
<1>. QED
  BY <1>1, <1>2, <1>3, <1>4, <1>5, <1>6, <1>7, <1>8 DEF Rests

LEMMA TakeWakeupRests == ASSUME IInv, IInv', Rests, TakeWakeup PROVE Rests'
<1>1. CallInv'
  BY VectorLayerAssumption, SMTT(30) DEF IInv, Types, Rests, SourceTypes, Calls, Idle,
     LayerTypes, Loaders, CallInv, TakeWakeup, sourceVars
<1>2. CullInv'
  BY VectorLayerAssumption, SMTT(30) DEF IInv, Types, Rests, SourceTypes, LayerTypes, DrawTypes,
     WorkerTypes, Loaders, TaskInv, CullInv, TakeWakeup, sourceVars
<1>3. TaskInv'
  BY VectorLayerAssumption, SMTT(30) DEF IInv, Types, Rests, SourceTypes, LayerTypes,
     WorkerTypes, CullInv, TaskInv, TakeWakeup, sourceVars
<1>4. ReadInv'
  BY VectorLayerAssumption, SMTT(30) DEF IInv, Types, Rests, SourceTypes, LayerTypes,
     WorkerTypes, OverTypes, TaskInv, CullInv, Loaders, ReadInv, TakeWakeup, sourceVars
<1>5. LayerHides'
  BY VectorLayerAssumption, SMTT(30) DEF IInv, Types, Rests, LayerTypes, OverTypes, Loaders,
     LayerHides, TakeWakeup, sourceVars
<1>6. DrawInv'
  BY VectorLayerAssumption, SMTT(30) DEF IInv, Types, Rests, SourceTypes, Calls, Idle,
     LayerTypes, WorkerTypes, DrawTypes, OverTypes, Loaders, CallInv, CullInv, TaskInv, ReadInv,
     LayerHides, DrawInv, Settled, Coming, LoadComing, TakeWakeup, sourceVars
<1>7. SingletonInv' /\ ClusterInv'
  <2>1. UNCHANGED <<clustered, stored, version, clusters, singletons, crossed>>
    BY DEF TakeWakeup, sourceVars
  <2>2. \A e \in Elements : Coming(e) => Coming(e)'
    BY VectorLayerAssumption DEF IInv, Types, LayerTypes, Coming, Loaders, TakeWakeup, sourceVars
  <2>3. \A e \in Elements : Noticed(e) => Noticed(e)'
    BY DEF Noticed, TakeWakeup, sourceVars
  <2>4. WillBuild => WillBuild'
    BY DEF IInv, Types, LayerTypes, WillBuild, LoadComing, Loaders, TakeWakeup
  <2>5. clustered => astray \subseteq astray'
    BY DEF TakeWakeup
  <2>6. \A w \in Workers : worker[w].pc = "rebuild" <=> worker'[w].pc = "rebuild"
    BY DEF TakeWakeup
  <2>7. \A w \in Workers : worker[w].pc = "rebuild" => worker'[w].snap = worker[w].snap /\ over[w] \subseteq over'[w]
    BY DEF TakeWakeup
  <2>. QED
    BY <2>1, <2>2, <2>3, <2>4, <2>5, <2>6, <2>7, ClusterStays
<1>8. BuiltInv'
  BY VectorLayerAssumption, SMTT(30) DEF IInv, Types, Rests, SourceTypes, Calls, Idle,
     LayerTypes, WorkerTypes, DrawTypes, CallInv, CullInv, TaskInv, BuiltInv, TakeWakeup,
     sourceVars
<1>. QED
  BY <1>1, <1>2, <1>3, <1>4, <1>5, <1>6, <1>7, <1>8 DEF Rests

LEMMA SaveCullStateRests == ASSUME IInv, IInv', Rests, SaveCullState PROVE Rests'
<1>1. CallInv'
  BY VectorLayerAssumption, SMTT(30) DEF IInv, Types, Rests, SourceTypes, Calls, Idle,
     LayerTypes, Loaders, CallInv, SaveCullState, sourceVars, Overtaken, NobodyWillRead
<1>2. CullInv'
  BY VectorLayerAssumption, SMTT(30) DEF IInv, Types, Rests, SourceTypes, LayerTypes, DrawTypes,
     WorkerTypes, Loaders, TaskInv, CullInv, SaveCullState, sourceVars, Overtaken,
     NobodyWillRead
<1>3. TaskInv'
  BY VectorLayerAssumption, SMTT(30) DEF IInv, Types, Rests, SourceTypes, LayerTypes,
     WorkerTypes, CullInv, TaskInv, SaveCullState, sourceVars, Overtaken, NobodyWillRead
<1>4. ReadInv'
  BY VectorLayerAssumption, SMTT(30) DEF IInv, Types, Rests, SourceTypes, LayerTypes,
     WorkerTypes, OverTypes, TaskInv, CullInv, Loaders, ReadInv, SaveCullState, sourceVars,
     Overtaken, NobodyWillRead
<1>5. LayerHides'
  BY VectorLayerAssumption, SMTT(30) DEF IInv, Types, Rests, LayerTypes, OverTypes, Loaders,
     LayerHides, SaveCullState, sourceVars, Overtaken, NobodyWillRead
<1>6. DrawInv'
  BY VectorLayerAssumption, SMTT(30) DEF IInv, Types, Rests, SourceTypes, Calls, Idle,
     LayerTypes, WorkerTypes, DrawTypes, OverTypes, Loaders, CallInv, CullInv, TaskInv, ReadInv,
     LayerHides, DrawInv, Settled, Coming, LoadComing, SaveCullState, sourceVars, Overtaken,
     NobodyWillRead
<1>7. SingletonInv' /\ ClusterInv'
  <2>1. UNCHANGED <<call, stored, version, crossed, clustered, wakeup, visible, queued, worker, flag, clusters,
                    singletons>>
    BY DEF SaveCullState, sourceVars
  <2>2. \A p \in Loaders : load'[p] = IF p = Cull THEN "none" ELSE load[p]
    BY DEF IInv, Types, LayerTypes, Loaders, SaveCullState
  <2>3. load[Cull] = "save" /\ cull # NoView
    BY VectorLayerAssumption DEF Rests, CullInv, SaveCullState
  <2>4. \A e \in Elements : (Coming(e) => Coming(e)') /\ (Noticed(e) => Noticed(e)')
    BY <2>1, <2>2, VectorLayerAssumption DEF Coming, Noticed, Loaders
  <2>5. LoadComing => LoadComing'
    BY <2>1, <2>2, <2>3, VectorLayerAssumption DEF LoadComing, Loaders
  <2>6. \A w \in Workers : over[w] \subseteq over'[w]
    BY DEF IInv, Types, OverTypes, SaveCullState, Overtaken
  <2>7. CASE clustered /\ lastCull = NoView /\ NobodyWillRead
    <3>1. astray' = Elements
      BY <2>3, <2>7 DEF SaveCullState
    <3>2. \A w \in Workers : worker[w].pc # "rebuild"
      BY <2>7 DEF Rests, TaskInv
    <3>. QED
      BY <2>1, <3>1, <3>2 DEF Rests, ClusterInv, SingletonInv, Stays
  <2>8. CASE clustered /\ ~(lastCull = NoView /\ NobodyWillRead)
    <3>1. astray' = astray
      BY <2>8 DEF SaveCullState
    <3>2. WillBuild => WillBuild'
      BY <2>1, <2>5, <2>8 DEF WillBuild, NobodyWillRead, LoadComing, IInv, Types, LayerTypes
    <3>. QED
      BY <2>1, <2>4, <2>6, <3>1, <3>2, ClusterStays
  <2>9. CASE ~clustered
    BY <2>1, <2>9 DEF Rests, ClusterInv, SingletonInv
  <2>. QED
    BY <2>7, <2>8, <2>9
<1>8. BuiltInv'
  BY VectorLayerAssumption, SMTT(30) DEF IInv, Types, Rests, SourceTypes, Calls, Idle,
     LayerTypes, WorkerTypes, DrawTypes, CallInv, CullInv, TaskInv, BuiltInv, SaveCullState,
     sourceVars, Overtaken, NobodyWillRead
<1>. QED
  BY <1>1, <1>2, <1>3, <1>4, <1>5, <1>6, <1>7, <1>8 DEF Rests

LEMMA RequestCullRests == ASSUME IInv, IInv', Rests, NEW t \in Threads, RequestCull(t) PROVE Rests'
<1>1. CallInv'
  BY ToldCalls, SMTT(30) DEF IInv, Types, SourceTypes, Calls, LayerTypes, Loaders, Idle, Rests, CallInv,
     RequestCull, Return
<1>2. CullInv'
  BY VectorLayerAssumption, SMTT(30) DEF IInv, Types, Rests, SourceTypes, LayerTypes, DrawTypes,
     WorkerTypes, Loaders, TaskInv, CullInv, RequestCull, Return, Told, AfterTell
<1>3. TaskInv'
  BY VectorLayerAssumption, SMTT(30) DEF IInv, Types, Rests, SourceTypes, LayerTypes,
     WorkerTypes, CullInv, TaskInv, RequestCull, Return, Told, AfterTell
<1>4. ReadInv'
  BY VectorLayerAssumption, SMTT(30) DEF IInv, Types, Rests, SourceTypes, LayerTypes,
     WorkerTypes, OverTypes, TaskInv, CullInv, Loaders, ReadInv, RequestCull, Return, Told,
     AfterTell
<1>5. LayerHides'
  BY VectorLayerAssumption, SMTT(30) DEF IInv, Types, Rests, LayerTypes, OverTypes, Loaders,
     LayerHides, RequestCull, Return, Told, AfterTell
<1>6. DrawInv'
  BY VectorLayerAssumption, SMTT(30) DEF IInv, Types, Rests, SourceTypes, Calls, Idle,
     LayerTypes, WorkerTypes, DrawTypes, OverTypes, Loaders, CallInv, CullInv, TaskInv, ReadInv,
     LayerHides, DrawInv, Settled, Coming, LoadComing, RequestCull, Return, Told, AfterTell
<1>7. SingletonInv' /\ ClusterInv'
  <2>1. UNCHANGED <<clustered, stored, version, clusters, singletons, crossed>>
    BY DEF RequestCull, Return
  <2>2. \A e \in Elements : Coming(e) => Coming(e)'
    BY ToldCalls, SMTT(30) DEF IInv, Types, SourceTypes, LayerTypes, Loaders, Coming, RequestCull, Return
  <2>3. \A e \in Elements : Noticed(e) => Noticed(e)'
    BY ToldCalls DEF IInv, Types, Noticed, RequestCull, Return
  <2>4. WillBuild => WillBuild'
    BY DEF WillBuild, LoadComing, RequestCull
  <2>5. clustered => astray \subseteq astray'
    BY DEF RequestCull
  <2>6. \A w \in Workers : worker[w].pc = "rebuild" <=> worker'[w].pc = "rebuild"
    BY DEF RequestCull
  <2>7. \A w \in Workers : worker[w].pc = "rebuild" => worker'[w].snap = worker[w].snap /\ over[w] \subseteq over'[w]
    BY DEF RequestCull
  <2>. QED
    BY <2>1, <2>2, <2>3, <2>4, <2>5, <2>6, <2>7, ClusterStays
<1>8. BuiltInv'
  BY VectorLayerAssumption, SMTT(30) DEF IInv, Types, Rests, SourceTypes, Calls, Idle,
     LayerTypes, WorkerTypes, DrawTypes, CallInv, CullInv, TaskInv, BuiltInv, RequestCull,
     Return, Told, AfterTell
<1>. QED
  BY <1>1, <1>2, <1>3, <1>4, <1>5, <1>6, <1>7, <1>8 DEF Rests

LEMMA CancelTasksRests == ASSUME IInv, IInv', Rests, NEW p \in Loaders, CancelTasks(p) PROVE Rests'
<1>1. CallInv'
  BY VectorLayerAssumption, SMTT(30) DEF IInv, Types, Rests, SourceTypes, Calls, Idle,
     LayerTypes, Loaders, CallInv, CancelTasks, sourceVars
<1>2. CullInv'
  BY VectorLayerAssumption, SMTT(30) DEF IInv, Types, Rests, SourceTypes, LayerTypes, DrawTypes,
     WorkerTypes, Loaders, TaskInv, CullInv, CancelTasks, sourceVars
<1>3. TaskInv'
  BY VectorLayerAssumption, SMTT(30) DEF IInv, Types, Rests, SourceTypes, LayerTypes,
     WorkerTypes, CullInv, TaskInv, CancelTasks, sourceVars
<1>4. ReadInv'
  BY VectorLayerAssumption, SMTT(30) DEF IInv, Types, Rests, SourceTypes, LayerTypes,
     WorkerTypes, OverTypes, TaskInv, CullInv, Loaders, ReadInv, CancelTasks, sourceVars
<1>5. LayerHides'
  BY VectorLayerAssumption, SMTT(30) DEF IInv, Types, Rests, LayerTypes, OverTypes, Loaders,
     LayerHides, CancelTasks, sourceVars
<1>6. DrawInv'
  BY VectorLayerAssumption, SMTT(30) DEF IInv, Types, Rests, SourceTypes, Calls, Idle,
     LayerTypes, WorkerTypes, DrawTypes, OverTypes, Loaders, CallInv, CullInv, TaskInv, ReadInv,
     LayerHides, DrawInv, Settled, Coming, LoadComing, CancelTasks, sourceVars
<1>7. SingletonInv' /\ ClusterInv'
  <2>1. UNCHANGED <<clustered, stored, version, clusters, singletons, crossed>>
    BY DEF CancelTasks, sourceVars
  <2>2. \A e \in Elements : Coming(e) => Coming(e)'
    BY DEF IInv, Types, LayerTypes, Coming, Loaders, CancelTasks, sourceVars
  <2>3. \A e \in Elements : Noticed(e) => Noticed(e)'
    BY DEF Noticed, CancelTasks, sourceVars
  <2>4. WillBuild => WillBuild'
    BY DEF IInv, Types, LayerTypes, WillBuild, LoadComing, Loaders, CancelTasks
  <2>5. clustered => astray \subseteq astray'
    BY DEF CancelTasks
  <2>6. \A w \in Workers : worker[w].pc = "rebuild" <=> worker'[w].pc = "rebuild"
    BY DEF CancelTasks
  <2>7. \A w \in Workers : worker[w].pc = "rebuild" => worker'[w].snap = worker[w].snap /\ over[w] \subseteq over'[w]
    BY DEF CancelTasks
  <2>. QED
    BY <2>1, <2>2, <2>3, <2>4, <2>5, <2>6, <2>7, ClusterStays
<1>8. BuiltInv'
  BY VectorLayerAssumption, SMTT(30) DEF IInv, Types, Rests, SourceTypes, Calls, Idle,
     LayerTypes, WorkerTypes, DrawTypes, CallInv, CullInv, TaskInv, BuiltInv, CancelTasks,
     sourceVars
<1>. QED
  BY <1>1, <1>2, <1>3, <1>4, <1>5, <1>6, <1>7, <1>8 DEF Rests

LEMMA TestVisibleRests == ASSUME IInv, IInv', Rests, NEW p \in Loaders, TestVisible(p) PROVE Rests'
<1>1. CallInv'
  BY VectorLayerAssumption, SMTT(30) DEF IInv, Types, Rests, SourceTypes, Calls, Idle,
     LayerTypes, Loaders, CallInv, TestVisible, sourceVars
<1>2. CullInv'
  BY VectorLayerAssumption, SMTT(30) DEF IInv, Types, Rests, SourceTypes, LayerTypes, DrawTypes,
     WorkerTypes, Loaders, TaskInv, CullInv, TestVisible, sourceVars
<1>3. TaskInv'
  BY VectorLayerAssumption, SMTT(30) DEF IInv, Types, Rests, SourceTypes, LayerTypes,
     WorkerTypes, CullInv, TaskInv, TestVisible, sourceVars
<1>4. ReadInv'
  BY VectorLayerAssumption, SMTT(30) DEF IInv, Types, Rests, SourceTypes, LayerTypes,
     WorkerTypes, OverTypes, TaskInv, CullInv, Loaders, ReadInv, TestVisible, sourceVars
<1>5. LayerHides'
  BY VectorLayerAssumption, SMTT(30) DEF IInv, Types, Rests, LayerTypes, OverTypes, Loaders,
     LayerHides, TestVisible, sourceVars
<1>6. DrawInv'
  BY VectorLayerAssumption, SMTT(30) DEF IInv, Types, Rests, SourceTypes, Calls, Idle,
     LayerTypes, WorkerTypes, DrawTypes, OverTypes, Loaders, CallInv, CullInv, TaskInv, ReadInv,
     LayerHides, DrawInv, Settled, Coming, LoadComing, TestVisible, sourceVars
<1>7. SingletonInv' /\ ClusterInv'
  <2>1. UNCHANGED <<clustered, stored, version, clusters, singletons, crossed>>
    BY DEF TestVisible, sourceVars
  <2>2. \A e \in Elements : Coming(e) => Coming(e)'
    BY DEF IInv, Types, LayerTypes, Coming, Loaders, TestVisible, sourceVars
  <2>3. \A e \in Elements : Noticed(e) => Noticed(e)'
    BY DEF Noticed, TestVisible, sourceVars
  <2>4. WillBuild => WillBuild'
    BY SMTT(30) DEF IInv, Types, LayerTypes, WillBuild, LoadComing, Loaders, TestVisible, sourceVars
  <2>5. clustered => astray \subseteq astray'
    BY DEF TestVisible
  <2>6. \A w \in Workers : worker[w].pc = "rebuild" <=> worker'[w].pc = "rebuild"
    BY DEF TestVisible
  <2>7. \A w \in Workers : worker[w].pc = "rebuild" => worker'[w].snap = worker[w].snap /\ over[w] \subseteq over'[w]
    BY DEF TestVisible
  <2>. QED
    BY <2>1, <2>2, <2>3, <2>4, <2>5, <2>6, <2>7, ClusterStays
<1>8. BuiltInv'
  BY VectorLayerAssumption, SMTT(30) DEF IInv, Types, Rests, SourceTypes, Calls, Idle,
     LayerTypes, WorkerTypes, DrawTypes, CallInv, CullInv, TaskInv, BuiltInv, TestVisible,
     sourceVars
<1>. QED
  BY <1>1, <1>2, <1>3, <1>4, <1>5, <1>6, <1>7, <1>8 DEF Rests

LEMMA ClearRests == ASSUME IInv, IInv', Rests, NEW p \in Loaders, Clear(p) PROVE Rests'
<1>1. CallInv'
  <2>1. CASE p = Cull
    BY <2>1, VectorLayerAssumption, SMTT(30) DEF IInv, Types, SourceTypes, LayerTypes, Loaders, Rests,
       CallInv, Clear, Return
  <2>2. CASE p # Cull
    BY <2>2, ToldCalls, SMTT(30) DEF IInv, Types, SourceTypes, Calls, LayerTypes, Loaders, Idle,
       Rests, CallInv, Clear, Return
  <2>. QED
    BY <2>1, <2>2
<1>2. CullInv'
  BY VectorLayerAssumption, SMTT(30) DEF IInv, Types, Rests, SourceTypes, LayerTypes, DrawTypes,
     WorkerTypes, Loaders, TaskInv, CullInv, Clear, Return, Told, AfterTell, Fresh
<1>3. TaskInv'
  BY VectorLayerAssumption, SMTT(30) DEF IInv, Types, Rests, SourceTypes, LayerTypes,
     WorkerTypes, CullInv, TaskInv, Clear, Return, Told, AfterTell, Fresh
<1>4. ReadInv'
  BY VectorLayerAssumption, SMTT(30) DEF IInv, Types, Rests, SourceTypes, LayerTypes,
     WorkerTypes, OverTypes, TaskInv, CullInv, Loaders, ReadInv, Clear, Return, Told, AfterTell,
     Fresh
<1>5. LayerHides'
  BY VectorLayerAssumption, SMTT(30) DEF IInv, Types, Rests, LayerTypes, OverTypes, Loaders,
     LayerHides, Clear, Return, Told, AfterTell, Fresh
<1>6. DrawInv'
  BY VectorLayerAssumption, SMTT(30) DEF IInv, Types, Rests, SourceTypes, Calls, Idle,
     LayerTypes, WorkerTypes, DrawTypes, OverTypes, Loaders, CallInv, CullInv, TaskInv, ReadInv,
     LayerHides, DrawInv, Settled, Coming, LoadComing, Clear, Return, Told, AfterTell, Fresh
<1>7. SingletonInv' /\ ClusterInv'
  <2>1. UNCHANGED <<clustered, stored, version, clusters, singletons, crossed>>
    BY DEF Clear, Return
  <2>2. \A e \in Elements : Coming(e) => Coming(e)'
    <3>1. CASE p = Cull
      BY <3>1, VectorLayerAssumption DEF IInv, Types, LayerTypes, Loaders, Coming, Clear, Return
    <3>2. CASE p # Cull
      BY <3>2, ToldCalls, SMTT(30) DEF IInv, Types, SourceTypes, LayerTypes, Loaders, Coming, Clear, Return
    <3>. QED
      BY <3>1, <3>2
  <2>3. \A e \in Elements : Noticed(e) => Noticed(e)'
    <3>1. CASE p = Cull
      BY <3>1 DEF Noticed, Clear, Return
    <3>2. CASE p # Cull
      BY <3>2, ToldCalls DEF IInv, Types, Noticed, Loaders, Clear, Return
    <3>. QED
      BY <3>1, <3>2
  <2>4. WillBuild => WillBuild'
    <3>1. \A o \in Loaders : load[o] \in {"cancel", "test", "execute"} => load'[o] = load[o]
      BY DEF IInv, Types, LayerTypes, Clear, Return
    <3>2. \A t \in Threads : call[t].pc = "refresh" /\ load[t] = "none"
                                => call'[t] = call[t] /\ load'[t] = load[t]
      <4>1. CASE p = Cull
        BY <4>1, VectorLayerAssumption DEF IInv, Types, LayerTypes, Loaders, Clear, Return
      <4>2. CASE p # Cull
        BY <4>2, ToldCalls DEF IInv, Types, LayerTypes, Loaders, Clear, Return
      <4>. QED
        BY <4>1, <4>2
    <3>3. UNCHANGED <<wakeup, queued, worker>>
      BY DEF Clear
    <3>. QED
      BY <3>1, <3>2, <3>3 DEF WillBuild, LoadComing, Clear
  <2>5. clustered => astray \subseteq astray'
    BY DEF Clear
  <2>6. \A w \in Workers : worker[w].pc = "rebuild" <=> worker'[w].pc = "rebuild"
    BY DEF Clear
  <2>7. \A w \in Workers : worker[w].pc = "rebuild" => worker'[w].snap = worker[w].snap /\ over[w] \subseteq over'[w]
    BY VectorLayerAssumption DEF IInv, Types, OverTypes, Loaders, Clear, Fresh
  <2>. QED
    BY <2>1, <2>2, <2>3, <2>4, <2>5, <2>6, <2>7, ClusterStays
<1>8. BuiltInv'
  BY VectorLayerAssumption, SMTT(30) DEF IInv, Types, Rests, SourceTypes, Calls, Idle,
     LayerTypes, WorkerTypes, DrawTypes, CallInv, CullInv, TaskInv, BuiltInv, Clear, Return,
     Told, AfterTell, Fresh
<1>. QED
  BY <1>1, <1>2, <1>3, <1>4, <1>5, <1>6, <1>7, <1>8 DEF Rests

LEMMA ExecuteTaskRests == ASSUME IInv, IInv', Rests, NEW p \in Loaders, ExecuteTask(p) PROVE Rests'
<1>1. CallInv'
  <2>1. CASE p = Cull
    BY <2>1, VectorLayerAssumption, SMTT(30) DEF IInv, Types, SourceTypes, LayerTypes, Loaders, Rests,
       CallInv, ExecuteTask, Return
  <2>2. CASE p # Cull
    BY <2>2, ToldCalls, SMTT(30) DEF IInv, Types, SourceTypes, Calls, LayerTypes, Loaders, Idle,
       Rests, CallInv, ExecuteTask, Return
  <2>. QED
    BY <2>1, <2>2
<1>2. CullInv'
  BY VectorLayerAssumption, SMTT(30) DEF IInv, Types, Rests, SourceTypes, LayerTypes, DrawTypes,
     WorkerTypes, Loaders, TaskInv, CullInv, ExecuteTask, Return, Told, AfterTell
<1>3. TaskInv'
  BY VectorLayerAssumption, SMTT(30) DEF IInv, Types, Rests, SourceTypes, LayerTypes,
     WorkerTypes, CullInv, TaskInv, ExecuteTask, Return, Told, AfterTell
<1>4. ReadInv'
  BY VectorLayerAssumption, SMTT(30) DEF IInv, Types, Rests, SourceTypes, LayerTypes,
     WorkerTypes, OverTypes, TaskInv, CullInv, Loaders, ReadInv, ExecuteTask, Return, Told,
     AfterTell
<1>5. LayerHides'
  BY VectorLayerAssumption, SMTT(30) DEF IInv, Types, Rests, LayerTypes, OverTypes, Loaders,
     LayerHides, ExecuteTask, Return, Told, AfterTell
<1>6. DrawInv'
  BY VectorLayerAssumption, SMTT(30) DEF IInv, Types, Rests, SourceTypes, Calls, Idle,
     LayerTypes, WorkerTypes, DrawTypes, OverTypes, Loaders, CallInv, CullInv, TaskInv, ReadInv,
     LayerHides, DrawInv, Settled, Coming, LoadComing, ExecuteTask, Return, Told, AfterTell
<1>7. SingletonInv' /\ ClusterInv'
  <2>1. UNCHANGED <<clustered, stored, version, clusters, singletons, crossed>>
    BY DEF ExecuteTask, Return
  <2>2. \A e \in Elements : Coming(e) => Coming(e)'
    <3>1. CASE p = Cull
      BY <3>1, VectorLayerAssumption DEF IInv, Types, LayerTypes, Loaders, Coming, ExecuteTask, Return
    <3>2. CASE p # Cull
      BY <3>2, ToldCalls, SMTT(30) DEF IInv, Types, SourceTypes, LayerTypes, Loaders, Coming, ExecuteTask, Return
    <3>. QED
      BY <3>1, <3>2
  <2>3. \A e \in Elements : Noticed(e) => Noticed(e)'
    <3>1. CASE p = Cull
      BY <3>1 DEF Noticed, ExecuteTask, Return
    <3>2. CASE p # Cull
      BY <3>2, ToldCalls DEF IInv, Types, Noticed, Loaders, ExecuteTask, Return
    <3>. QED
      BY <3>1, <3>2
  <2>4. WillBuild => WillBuild'
    BY DEF IInv, Types, LayerTypes, WillBuild, LoadComing, ExecuteTask
  <2>5. clustered => astray \subseteq astray'
    BY DEF ExecuteTask
  <2>6. \A w \in Workers : worker[w].pc = "rebuild" <=> worker'[w].pc = "rebuild"
    BY DEF ExecuteTask
  <2>7. \A w \in Workers : worker[w].pc = "rebuild" => worker'[w].snap = worker[w].snap /\ over[w] \subseteq over'[w]
    BY DEF ExecuteTask
  <2>. QED
    BY <2>1, <2>2, <2>3, <2>4, <2>5, <2>6, <2>7, ClusterStays
<1>8. BuiltInv'
  BY VectorLayerAssumption, SMTT(30) DEF IInv, Types, Rests, SourceTypes, Calls, Idle,
     LayerTypes, WorkerTypes, DrawTypes, CallInv, CullInv, TaskInv, BuiltInv, ExecuteTask,
     Return, Told, AfterTell
<1>. QED
  BY <1>1, <1>2, <1>3, <1>4, <1>5, <1>6, <1>7, <1>8 DEF Rests

LEMMA StartTaskRests == ASSUME IInv, IInv', Rests, NEW w \in Workers, StartTask(w) PROVE Rests'
<1>1. CallInv'
  BY VectorLayerAssumption, SMTT(30) DEF IInv, Types, Rests, SourceTypes, Calls, Idle,
     LayerTypes, Loaders, CallInv, StartTask, IdleWorker, sourceVars
<1>2. CullInv'
  BY VectorLayerAssumption, SMTT(30) DEF IInv, Types, Rests, SourceTypes, LayerTypes, DrawTypes,
     WorkerTypes, Loaders, TaskInv, CullInv, StartTask, IdleWorker, sourceVars
<1>3. TaskInv'
  BY VectorLayerAssumption, SMTT(30) DEF IInv, Types, Rests, SourceTypes, LayerTypes,
     WorkerTypes, CullInv, TaskInv, StartTask, IdleWorker, sourceVars
<1>4. ReadInv'
  BY VectorLayerAssumption, SMTT(30) DEF IInv, Types, Rests, SourceTypes, LayerTypes,
     WorkerTypes, OverTypes, TaskInv, CullInv, Loaders, ReadInv, StartTask, IdleWorker,
     sourceVars
<1>5. LayerHides'
  BY VectorLayerAssumption, SMTT(30) DEF IInv, Types, Rests, LayerTypes, OverTypes, Loaders,
     LayerHides, StartTask, IdleWorker, sourceVars
<1>6. DrawInv'
  BY VectorLayerAssumption, SMTT(30) DEF IInv, Types, Rests, SourceTypes, Calls, Idle,
     LayerTypes, WorkerTypes, DrawTypes, OverTypes, Loaders, CallInv, CullInv, TaskInv, ReadInv,
     LayerHides, DrawInv, Settled, Coming, LoadComing, StartTask, IdleWorker, sourceVars
<1>7. SingletonInv' /\ ClusterInv'
  <2>1. UNCHANGED <<clustered, stored, version, clusters, singletons, crossed>>
    BY DEF StartTask, sourceVars
  <2>2. \A e \in Elements : Coming(e) => Coming(e)'
    BY DEF Coming, StartTask, sourceVars
  <2>3. \A e \in Elements : Noticed(e) => Noticed(e)'
    BY DEF Noticed, StartTask, sourceVars
  <2>4. WillBuild => WillBuild'
    BY DEF IInv, Types, WorkerTypes, WillBuild, LoadComing, StartTask, IdleWorker, sourceVars
  <2>5. clustered => astray \subseteq astray'
    BY DEF StartTask
  <2>6. \A o \in Workers : worker[o].pc = "rebuild" <=> worker'[o].pc = "rebuild"
    BY DEF IInv, Types, WorkerTypes, StartTask, IdleWorker
  <2>7. \A o \in Workers : worker[o].pc = "rebuild" => worker'[o].snap = worker[o].snap /\ over[o] \subseteq over'[o]
    BY DEF IInv, Types, WorkerTypes, OverTypes, StartTask, IdleWorker
  <2>. QED
    BY <2>1, <2>2, <2>3, <2>4, <2>5, <2>6, <2>7, ClusterStays
<1>8. BuiltInv'
  BY VectorLayerAssumption, SMTT(30) DEF IInv, Types, Rests, SourceTypes, Calls, Idle,
     LayerTypes, WorkerTypes, DrawTypes, CallInv, CullInv, TaskInv, BuiltInv, StartTask,
     IdleWorker, sourceVars
<1>. QED
  BY <1>1, <1>2, <1>3, <1>4, <1>5, <1>6, <1>7, <1>8 DEF Rests

LEMMA ReadCullStateRests == ASSUME IInv, IInv', Rests, NEW w \in Workers, ReadCullState(w) PROVE Rests'
<1>1. CallInv'
  BY VectorLayerAssumption, SMTT(30) DEF IInv, Types, Rests, SourceTypes, Calls, Idle,
     LayerTypes, Loaders, CallInv, ReadCullState, sourceVars
<1>2. CullInv'
  BY VectorLayerAssumption, SMTT(30) DEF IInv, Types, Rests, SourceTypes, LayerTypes, DrawTypes,
     WorkerTypes, Loaders, TaskInv, CullInv, ReadCullState, sourceVars
<1>3. TaskInv'
  BY VectorLayerAssumption, SMTT(30) DEF IInv, Types, Rests, SourceTypes, LayerTypes,
     WorkerTypes, CullInv, TaskInv, ReadCullState, sourceVars
<1>4. ReadInv'
  BY VectorLayerAssumption, SMTT(30) DEF IInv, Types, Rests, SourceTypes, LayerTypes,
     WorkerTypes, OverTypes, TaskInv, CullInv, Loaders, ReadInv, ReadCullState, sourceVars
<1>5. LayerHides'
  BY VectorLayerAssumption, SMTT(30) DEF IInv, Types, Rests, LayerTypes, OverTypes, Loaders,
     LayerHides, ReadCullState, sourceVars
<1>6. DrawInv'
  BY VectorLayerAssumption, SMTT(30) DEF IInv, Types, Rests, SourceTypes, Calls, Idle,
     LayerTypes, WorkerTypes, DrawTypes, OverTypes, Loaders, CallInv, CullInv, TaskInv, ReadInv,
     LayerHides, DrawInv, Settled, Coming, LoadComing, ReadCullState, sourceVars
<1>7. SingletonInv' /\ ClusterInv'
  <2>a. \A o \in Workers : o # w => worker'[o].pc = worker[o].pc
    BY DEF IInv, Types, WorkerTypes, ReadCullState
  <2>b. worker'[w].pc = IF visible /\ lastCull # NoView THEN "load" ELSE "clear"
    <3> DEFINE to == IF visible /\ lastCull # NoView THEN "load" ELSE "clear"
    <3>1. worker' = [worker EXCEPT ![w].pc = to, ![w].view = lastCull]
      BY DEF ReadCullState
    <3> HIDE DEF to
    <3>2. worker'[w].pc = to
      BY <3>1 DEF IInv, Types, WorkerTypes
    <3>. QED
      BY <3>2 DEF to
  <2>c. visible /\ lastCull # NoView => (LoadComing => LoadComing')
    <3> SUFFICES ASSUME visible, lastCull # NoView, LoadComing PROVE LoadComing'
      OBVIOUS
    <3>1. UNCHANGED <<wakeup, queued, call, load>>
      BY DEF ReadCullState, sourceVars
    <3>. QED
      BY <2>a, <2>b, <3>1 DEF LoadComing
  <2>1. UNCHANGED <<clustered, stored, version, clusters, singletons, crossed>>
    BY DEF ReadCullState, sourceVars
  <2>2. \A e \in Elements : Coming(e) => Coming(e)'
    BY DEF Coming, ReadCullState, sourceVars
  <2>3. \A e \in Elements : Noticed(e) => Noticed(e)'
    BY DEF Noticed, ReadCullState, sourceVars
  <2>4. WillBuild => WillBuild'
    BY <2>a, <2>b, <2>c DEF WillBuild, ReadCullState
  <2>5. clustered => astray \subseteq astray'
    BY DEF ReadCullState
  <2>6. \A o \in Workers : worker[o].pc = "rebuild" <=> worker'[o].pc = "rebuild"
    <3>1. worker[w].pc # "rebuild" /\ worker'[w].pc # "rebuild"
      BY <2>b DEF ReadCullState
    <3>. QED
      BY <2>a, <3>1
  <2>7. \A o \in Workers : worker[o].pc = "rebuild" => worker'[o].snap = worker[o].snap /\ over[o] \subseteq over'[o]
    BY DEF IInv, Types, WorkerTypes, ReadCullState
  <2>. QED
    BY <2>1, <2>2, <2>3, <2>4, <2>5, <2>6, <2>7, ClusterStays
<1>8. BuiltInv'
  BY VectorLayerAssumption, SMTT(30) DEF IInv, Types, Rests, SourceTypes, Calls, Idle,
     LayerTypes, WorkerTypes, DrawTypes, CallInv, CullInv, TaskInv, BuiltInv, ReadCullState,
     sourceVars
<1>. QED
  BY <1>1, <1>2, <1>3, <1>4, <1>5, <1>6, <1>7, <1>8 DEF Rests

LEMMA ClearByTaskRests == ASSUME IInv, IInv', Rests, NEW w \in Workers, ClearByTask(w) PROVE Rests'
<1>1. CallInv'
  BY VectorLayerAssumption, SMTT(30) DEF IInv, Types, Rests, SourceTypes, Calls, Idle,
     LayerTypes, Loaders, CallInv, ClearByTask, Leave, Leaving, Fresh, IdleWorker, sourceVars
<1>2. CullInv'
  BY VectorLayerAssumption, SMTT(30) DEF IInv, Types, Rests, SourceTypes, LayerTypes, DrawTypes,
     WorkerTypes, Loaders, TaskInv, CullInv, ClearByTask, Leave, Leaving, Fresh, IdleWorker, sourceVars
<1>3. TaskInv'
  BY VectorLayerAssumption, SMTT(30) DEF IInv, Types, Rests, SourceTypes, LayerTypes,
     WorkerTypes, CullInv, TaskInv, ClearByTask, Leave, Leaving, Fresh, IdleWorker, sourceVars
<1>4. ReadInv'
  BY VectorLayerAssumption, SMTT(30) DEF IInv, Types, Rests, SourceTypes, LayerTypes,
     WorkerTypes, OverTypes, TaskInv, CullInv, Loaders, ReadInv, ClearByTask, Leave, Leaving, Fresh,
     IdleWorker, sourceVars
<1>5. LayerHides'
  BY VectorLayerAssumption, SMTT(30) DEF IInv, Types, Rests, LayerTypes, OverTypes, Loaders,
     LayerHides, ClearByTask, Leave, Leaving, Fresh, IdleWorker, sourceVars
<1>6. DrawInv'
  BY VectorLayerAssumption, SMTT(30) DEF IInv, Types, Rests, SourceTypes, Calls, Idle,
     LayerTypes, WorkerTypes, DrawTypes, OverTypes, Loaders, CallInv, CullInv, TaskInv, ReadInv,
     LayerHides, DrawInv, Settled, Coming, LoadComing, ClearByTask, Leave, Leaving, Fresh, IdleWorker,
     sourceVars
<1>7. SingletonInv' /\ ClusterInv'
  <2>1. UNCHANGED <<clustered, stored, version, clusters, singletons, crossed>>
    BY DEF ClearByTask, sourceVars
  <2>2. \A e \in Elements : Coming(e) => Coming(e)'
    BY DEF Coming, ClearByTask, sourceVars
  <2>3. \A e \in Elements : Noticed(e) => Noticed(e)'
    BY DEF Noticed, ClearByTask, sourceVars
  <2>4. WillBuild => WillBuild'
    BY DEF IInv, Types, WorkerTypes, WillBuild, LoadComing, ClearByTask, Leave, Leaving, IdleWorker, sourceVars
  <2>5. clustered => astray \subseteq astray'
    BY DEF ClearByTask
  <2>6. \A o \in Workers : worker[o].pc = "rebuild" <=> worker'[o].pc = "rebuild"
    BY DEF IInv, Types, WorkerTypes, ClearByTask, Leave, Leaving, IdleWorker
  <2>7. \A o \in Workers : worker[o].pc = "rebuild" => worker'[o].snap = worker[o].snap /\ over[o] \subseteq over'[o]
    BY DEF IInv, Types, WorkerTypes, OverTypes, ClearByTask, Leave, Leaving, IdleWorker, Fresh
  <2>. QED
    BY <2>1, <2>2, <2>3, <2>4, <2>5, <2>6, <2>7, ClusterStays
<1>8. BuiltInv'
  BY VectorLayerAssumption, SMTT(30) DEF IInv, Types, Rests, SourceTypes, Calls, Idle,
     LayerTypes, WorkerTypes, DrawTypes, CallInv, CullInv, TaskInv, BuiltInv, ClearByTask,
     Leave, Leaving, Fresh, IdleWorker, sourceVars
<1>. QED
  BY <1>1, <1>2, <1>3, <1>4, <1>5, <1>6, <1>7, <1>8 DEF Rests

LEMMA ReadSourceRests == ASSUME IInv, IInv', Rests, NEW w \in Workers, ReadSource(w) PROVE Rests'
<1>1. CallInv'
  BY VectorLayerAssumption, SMTT(30) DEF IInv, Types, Rests, SourceTypes, Calls, Idle,
     LayerTypes, Loaders, CallInv, ReadSource, Fresh, sourceVars
<1>2. CullInv'
  BY VectorLayerAssumption, SMTT(30) DEF IInv, Types, Rests, SourceTypes, LayerTypes, DrawTypes,
     WorkerTypes, Loaders, TaskInv, CullInv, ReadSource, Fresh, sourceVars
<1>3. TaskInv'
  BY VectorLayerAssumption, SMTT(30) DEF IInv, Types, Rests, SourceTypes, LayerTypes,
     WorkerTypes, CullInv, TaskInv, ReadSource, Fresh, sourceVars
<1>4. ReadInv'
  BY VectorLayerAssumption, SMTT(30) DEF IInv, Types, Rests, SourceTypes, LayerTypes,
     WorkerTypes, OverTypes, TaskInv, CullInv, Loaders, ReadInv, ReadSource, Fresh, sourceVars
<1>5. LayerHides'
  BY VectorLayerAssumption, SMTT(30) DEF IInv, Types, Rests, LayerTypes, OverTypes, Loaders,
     LayerHides, ReadSource, Fresh, sourceVars
<1>6. DrawInv'
  BY VectorLayerAssumption, SMTT(30) DEF IInv, Types, Rests, SourceTypes, Calls, Idle,
     LayerTypes, WorkerTypes, DrawTypes, OverTypes, Loaders, CallInv, CullInv, TaskInv, ReadInv,
     LayerHides, DrawInv, Settled, Coming, LoadComing, ReadSource, Fresh, sourceVars
<1>7. SingletonInv' /\ ClusterInv'
  <2>1. UNCHANGED <<clustered, stored, version, clusters, singletons, crossed>>
    BY DEF ReadSource, Fresh, sourceVars
  <2>2. \A e \in Elements : Coming(e) => Coming(e)'
    BY DEF Coming, ReadSource, Fresh, sourceVars
  <2>3. \A e \in Elements : Noticed(e) => Noticed(e)'
    BY DEF Noticed, ReadSource, Fresh, sourceVars
  <2>4. clustered /\ WillBuild => WillBuild'
    <3> SUFFICES ASSUME clustered, WillBuild PROVE WillBuild'
      OBVIOUS
    <3>1. worker'[w].pc = "swap" /\ \A o \in Workers : o # w => worker'[o].pc = worker[o].pc
      BY DEF IInv, Types, WorkerTypes, ReadSource
    <3>. QED
      BY <3>1 DEF WillBuild, ReadSource
  <2>5. clustered => astray \subseteq astray'
    BY DEF ReadSource
  <2>6. \A o \in Workers : worker[o].pc = "rebuild" <=> worker'[o].pc = "rebuild"
    BY DEF IInv, Types, WorkerTypes, ReadSource
  <2>7. \A o \in Workers : worker[o].pc = "rebuild" => worker'[o].snap = worker[o].snap /\ over[o] \subseteq over'[o]
    BY DEF IInv, Types, WorkerTypes, OverTypes, ReadSource, Fresh
  <2>. QED
    BY <2>1, <2>2, <2>3, <2>4, <2>5, <2>6, <2>7, ClusterStays
<1>8. BuiltInv'
  BY VectorLayerAssumption, SMTT(30) DEF IInv, Types, Rests, SourceTypes, Calls, Idle,
     LayerTypes, WorkerTypes, DrawTypes, CallInv, CullInv, TaskInv, BuiltInv, ReadSource, Fresh,
     sourceVars
<1>. QED
  BY <1>1, <1>2, <1>3, <1>4, <1>5, <1>6, <1>7, <1>8 DEF Rests

LEMMA loadElementsRests == ASSUME IInv, IInv', Rests, NEW w \in Workers, loadElements(w) PROVE Rests'
<1>1. CallInv'
  BY VectorLayerAssumption, SMTT(30) DEF IInv, Types, Rests, SourceTypes, Calls, Idle,
     LayerTypes, Loaders, CallInv, loadElements, Leave, Leaving, Fresh, IdleWorker, Drawing, sourceVars
<1>2. CullInv'
  BY VectorLayerAssumption, SMTT(30) DEF IInv, Types, Rests, SourceTypes, LayerTypes, DrawTypes,
     WorkerTypes, Loaders, TaskInv, CullInv, loadElements, Leave, Leaving, Fresh, IdleWorker, Drawing,
     sourceVars
<1>3. TaskInv'
  BY VectorLayerAssumption, SMTT(30) DEF IInv, Types, Rests, SourceTypes, LayerTypes,
     WorkerTypes, CullInv, TaskInv, loadElements, Leave, Leaving, Fresh, IdleWorker, Drawing, sourceVars
<1>4. ReadInv'
  BY VectorLayerAssumption, SMTT(30) DEF IInv, Types, Rests, SourceTypes, LayerTypes,
     WorkerTypes, OverTypes, TaskInv, CullInv, Loaders, ReadInv, loadElements, Leave, Leaving, Fresh,
     IdleWorker, Drawing, sourceVars
<1>5. LayerHides'
  BY VectorLayerAssumption, SMTT(30) DEF IInv, Types, Rests, LayerTypes, OverTypes, Loaders,
     LayerHides, loadElements, Leave, Leaving, Fresh, IdleWorker, Drawing, sourceVars
<1>6. DrawInv'
  BY VectorLayerAssumption, SMTT(30) DEF IInv, Types, Rests, SourceTypes, Calls, Idle,
     LayerTypes, WorkerTypes, DrawTypes, OverTypes, Loaders, CallInv, CullInv, TaskInv, ReadInv,
     LayerHides, DrawInv, Settled, Coming, LoadComing, loadElements, Leave, Leaving, Fresh, IdleWorker,
     Drawing, sourceVars
<1>7. SingletonInv' /\ ClusterInv'
  <2>1. UNCHANGED <<clustered, stored, version, clusters, singletons, crossed>>
    BY DEF loadElements, sourceVars
  <2>2. \A e \in Elements : Coming(e) => Coming(e)'
    BY DEF Coming, loadElements, sourceVars
  <2>3. \A e \in Elements : Noticed(e) => Noticed(e)'
    BY DEF Noticed, loadElements, sourceVars
  <2>4. WillBuild => WillBuild'
    BY DEF IInv, Types, WorkerTypes, WillBuild, LoadComing, loadElements, Leave, Leaving, IdleWorker, sourceVars
  <2>5. clustered => astray \subseteq astray'
    BY DEF Rests, TaskInv, loadElements
  <2>6. \A o \in Workers : worker[o].pc = "rebuild" <=> worker'[o].pc = "rebuild"
    BY DEF IInv, Types, WorkerTypes, loadElements, Leave, Leaving, IdleWorker
  <2>7. \A o \in Workers : worker[o].pc = "rebuild" => worker'[o].snap = worker[o].snap /\ over[o] \subseteq over'[o]
    BY DEF IInv, Types, WorkerTypes, OverTypes, loadElements, Leave, Leaving, IdleWorker, Fresh
  <2>. QED
    BY <2>1, <2>2, <2>3, <2>4, <2>5, <2>6, <2>7, ClusterStays
<1>8. BuiltInv'
  BY VectorLayerAssumption, SMTT(30) DEF IInv, Types, Rests, SourceTypes, Calls, Idle,
     LayerTypes, WorkerTypes, DrawTypes, CallInv, CullInv, TaskInv, BuiltInv, loadElements,
     Leave, Leaving, Fresh, IdleWorker, Drawing, sourceVars
<1>. QED
  BY <1>1, <1>2, <1>3, <1>4, <1>5, <1>6, <1>7, <1>8 DEF Rests

LEMMA SwapRefreshRests == ASSUME IInv, IInv', Rests, NEW w \in Workers, SwapRefresh(w) PROVE Rests'
<1>1. CallInv'
  BY VectorLayerAssumption, SMTT(30) DEF IInv, Types, Rests, SourceTypes, Calls, Idle,
     LayerTypes, Loaders, CallInv, SwapRefresh, Leave, Leaving, Fresh, IdleWorker, sourceVars
<1>2. CullInv'
  BY VectorLayerAssumption, SMTT(30) DEF IInv, Types, Rests, SourceTypes, LayerTypes, DrawTypes,
     WorkerTypes, Loaders, TaskInv, CullInv, SwapRefresh, Leave, Leaving, Fresh, IdleWorker, sourceVars
<1>3. TaskInv'
  BY VectorLayerAssumption, SMTT(30) DEF IInv, Types, Rests, SourceTypes, LayerTypes,
     WorkerTypes, CullInv, TaskInv, SwapRefresh, Leave, Leaving, Fresh, IdleWorker, sourceVars
<1>4. ReadInv'
  BY VectorLayerAssumption, SMTT(30) DEF IInv, Types, Rests, SourceTypes, LayerTypes,
     WorkerTypes, OverTypes, TaskInv, CullInv, Loaders, ReadInv, SwapRefresh, Leave, Leaving, Fresh,
     IdleWorker, sourceVars
<1>5. LayerHides'
  BY VectorLayerAssumption, SMTT(30) DEF IInv, Types, Rests, LayerTypes, OverTypes, Loaders,
     LayerHides, SwapRefresh, Leave, Leaving, Fresh, IdleWorker, sourceVars
<1>6. DrawInv'
  BY VectorLayerAssumption, SMTT(30) DEF IInv, Types, Rests, SourceTypes, Calls, Idle,
     LayerTypes, WorkerTypes, DrawTypes, OverTypes, Loaders, CallInv, CullInv, TaskInv, ReadInv,
     LayerHides, DrawInv, Settled, Coming, LoadComing, SwapRefresh, Leave, Leaving, Fresh, IdleWorker,
     sourceVars
<1>7. SingletonInv' /\ ClusterInv'
  <2>1. UNCHANGED <<call, stored, version, crossed, clustered, wakeup, load, visible, lastCull, queued, clusters,
                    singletons, astray>>
    BY DEF SwapRefresh, sourceVars
  <2>2. worker[w].pc = "swap"
    BY DEF SwapRefresh
  <2>3. CASE flag
    <3>1. worker' = [worker EXCEPT ![w].pc = "rebuild"] /\ over' = over
      BY <2>3 DEF SwapRefresh
    <3>2. /\ worker'[w].pc = "rebuild" /\ worker'[w].snap = worker[w].snap
          /\ \A o \in Workers : o # w => worker'[o] = worker[o]
      BY <3>1 DEF IInv, Types, WorkerTypes
    <3>3. \A e \in Elements : singletons[w][e] = 0
      BY <2>2 DEF Rests, SingletonInv
    <3>4. \A e \in Elements : e \notin over[w] => (e \in worker[w].snap <=> e \in stored)
      BY <2>2 DEF Rests, ReadInv
    <3>5. \A e \in Elements : WillDo(w, e)'
      BY <2>1, <3>1, <3>2, <3>3, <3>4 DEF WillDo
    <3>6. SingletonInv'
      BY <2>1, <3>2, <3>3 DEF Rests, SingletonInv
    <3>. QED
      BY <3>2, <3>5, <3>6 DEF ClusterInv
  <2>4. CASE ~flag
    <3>1. worker' = [worker EXCEPT ![w] = Leaving] /\ over' = [over EXCEPT ![w] = {}]
      BY <2>4 DEF SwapRefresh, Leave, Fresh
    <3>2. worker'[w].pc = "leave" /\ \A o \in Workers : o # w => worker'[o] = worker[o] /\ over'[o] = over[o]
      BY <3>1 DEF IInv, Types, WorkerTypes, OverTypes, Leaving, IdleWorker
    <3>3. \A e \in Elements : (Coming(e) => Coming(e)') /\ (Noticed(e) => Noticed(e)')
      BY <2>1 DEF Coming, Noticed
    <3>4. ~WillBuild
      BY <2>4 DEF WillBuild
    <3>. QED
      BY <2>1, <2>2, <3>2, <3>3, <3>4, ClusterStays
  <2>. QED
    BY <2>3, <2>4
<1>8. BuiltInv'
  BY VectorLayerAssumption, SMTT(30) DEF IInv, Types, Rests, SourceTypes, Calls, Idle,
     LayerTypes, WorkerTypes, DrawTypes, CallInv, CullInv, TaskInv, BuiltInv, SwapRefresh,
     Leave, Leaving, Fresh, IdleWorker, sourceVars
<1>. QED
  BY <1>1, <1>2, <1>3, <1>4, <1>5, <1>6, <1>7, <1>8 DEF Rests

LEMMA createSingletonClusterRests ==
  ASSUME IInv, IInv', Rests, NEW w \in Workers, createSingletonCluster(w) PROVE Rests'
<1>1. CallInv'
  BY VectorLayerAssumption, SMTT(30) DEF IInv, Types, Rests, SourceTypes, Calls, Idle,
     LayerTypes, Loaders, CallInv, createSingletonCluster, sourceVars
<1>2. CullInv'
  BY VectorLayerAssumption, SMTT(30) DEF IInv, Types, Rests, SourceTypes, LayerTypes, DrawTypes,
     WorkerTypes, Loaders, TaskInv, CullInv, createSingletonCluster,
     sourceVars
<1>3. TaskInv'
  BY VectorLayerAssumption, SMTT(30) DEF IInv, Types, Rests, SourceTypes, LayerTypes,
     WorkerTypes, CullInv, TaskInv, createSingletonCluster, sourceVars
<1>4. ReadInv'
  BY VectorLayerAssumption, SMTT(30) DEF IInv, Types, Rests, SourceTypes, LayerTypes,
     WorkerTypes, OverTypes, TaskInv, CullInv, Loaders, ReadInv, createSingletonCluster, sourceVars
<1>5. LayerHides'
  BY VectorLayerAssumption, SMTT(30) DEF IInv, Types, Rests, LayerTypes, OverTypes, Loaders,
     LayerHides, createSingletonCluster, sourceVars
<1>6. DrawInv'
  BY VectorLayerAssumption, SMTT(30) DEF IInv, Types, Rests, SourceTypes, Calls, Idle,
     LayerTypes, WorkerTypes, DrawTypes, OverTypes, Loaders, CallInv, CullInv, TaskInv, ReadInv,
     LayerHides, DrawInv, Settled, Coming, LoadComing, createSingletonCluster, sourceVars
<1>7. SingletonInv' /\ ClusterInv'
  <2>1. PICK f \in worker[w].snap : singletons' = [singletons EXCEPT ![w][f] = version[f]]
    BY DEF createSingletonCluster
  <2>2. worker[w].pc = "rebuild" /\ f \in Elements
    BY DEF IInv, Types, WorkerTypes, createSingletonCluster
  <2>3. \A o \in Workers, e \in Elements :
            singletons'[o][e] = IF o = w /\ e = f THEN version[e] ELSE singletons[o][e]
    BY <2>1, <2>2 DEF IInv, Types, DrawTypes
  <2>4. UNCHANGED <<call, stored, version, crossed, clustered, wakeup, load, visible, lastCull, queued, worker,
                    flag, clusters, over, astray>>
    BY DEF createSingletonCluster, sourceVars
  <2>5. \A e \in Elements : (Coming(e) => Coming(e)') /\ (Noticed(e) <=> Noticed(e)')
    BY <2>4 DEF Coming, Noticed
  <2>6. \A o \in Workers, e \in Elements : WillDo(o, e) => WillDo(o, e)'
    BY <2>3, <2>4, <2>5 DEF WillDo
  <2>7. \A e \in Elements : Stays(e) => Stays(e)'
    BY <2>4, <2>5, <2>6 DEF Stays, InClusters
  <2>8. WillBuild => WillBuild'
    BY <2>4 DEF WillBuild, LoadComing
  <2>9. SingletonInv'
    BY <2>1, <2>2, <2>3, <2>4 DEF Rests, SingletonInv
  <2>. QED
    BY <2>4, <2>5, <2>6, <2>7, <2>8, <2>9 DEF Rests, ClusterInv
<1>8. BuiltInv'
  BY VectorLayerAssumption, SMTT(30) DEF IInv, Types, Rests, SourceTypes, Calls, Idle,
     LayerTypes, WorkerTypes, DrawTypes, CallInv, CullInv, TaskInv, BuiltInv, createSingletonCluster,
     Leave, Leaving, Fresh, IdleWorker, sourceVars
<1>. QED
  BY <1>1, <1>2, <1>3, <1>4, <1>5, <1>6, <1>7, <1>8 DEF Rests

LEMMA rebuildClustersRests == ASSUME IInv, IInv', Rests, NEW w \in Workers, rebuildClusters(w) PROVE Rests'
<1>1. CallInv'
  BY VectorLayerAssumption, SMTT(30) DEF IInv, Types, Rests, SourceTypes, Calls, Idle,
     LayerTypes, Loaders, CallInv, rebuildClusters, Leaving, IdleWorker, sourceVars
<1>2. CullInv'
  BY VectorLayerAssumption, SMTT(30) DEF IInv, Types, Rests, SourceTypes, LayerTypes, DrawTypes,
     WorkerTypes, Loaders, TaskInv, CullInv, rebuildClusters, Leaving, IdleWorker,
     sourceVars
<1>3. TaskInv'
  BY VectorLayerAssumption, SMTT(30) DEF IInv, Types, Rests, SourceTypes, LayerTypes,
     WorkerTypes, CullInv, TaskInv, rebuildClusters, Leaving, IdleWorker, sourceVars
<1>4. ReadInv'
  BY VectorLayerAssumption, SMTT(30) DEF IInv, Types, Rests, SourceTypes, LayerTypes,
     WorkerTypes, OverTypes, TaskInv, CullInv, Loaders, ReadInv, rebuildClusters, Leaving, IdleWorker, sourceVars
<1>5. LayerHides'
  BY VectorLayerAssumption, SMTT(30) DEF IInv, Types, Rests, LayerTypes, OverTypes, Loaders,
     LayerHides, rebuildClusters, Leaving, IdleWorker, sourceVars
<1>6. DrawInv'
  BY VectorLayerAssumption, SMTT(30) DEF IInv, Types, Rests, SourceTypes, Calls, Idle,
     LayerTypes, WorkerTypes, DrawTypes, OverTypes, Loaders, CallInv, CullInv, TaskInv, ReadInv,
     LayerHides, DrawInv, Settled, Coming, LoadComing, rebuildClusters, Leaving, IdleWorker, sourceVars
<1>7. SingletonInv' /\ ClusterInv'
  <2>1. UNCHANGED <<call, stored, version, crossed, clustered, wakeup, load, visible, lastCull, queued, flag>>
    BY DEF rebuildClusters, sourceVars
  <2>2. /\ worker[w].pc = "rebuild" /\ clusters' = singletons[w] /\ astray' = over[w]
        /\ \A e \in worker[w].snap : singletons[w][e] # 0
    BY DEF rebuildClusters
  <2>3. worker'[w].pc = "leave" /\ \A o \in Workers : o # w => worker'[o] = worker[o]
    BY DEF IInv, Types, WorkerTypes, rebuildClusters, Leaving, IdleWorker
  <2>4. /\ \A o \in Workers : o # w => singletons'[o] = singletons[o]
        /\ \A e \in Elements : singletons'[w][e] = 0
    BY DEF IInv, Types, DrawTypes, rebuildClusters, NoClusters
  <2>5. \A o \in Workers : o # w /\ worker[o].pc = "rebuild" =>
            \A e \in Elements : e \in over'[o] <=> e \in over[o] \/ Stale(o, e)
    BY DEF rebuildClusters
  <2>6. \A e \in Elements : (Coming(e) => Coming(e)') /\ (Noticed(e) <=> Noticed(e)')
    BY <2>1 DEF Coming, Noticed
  <2>7. \A o \in Workers : worker'[o].pc = "rebuild" => \A e \in Elements : WillDo(o, e)'
    BY <2>1, <2>3, <2>4, <2>5 DEF WillDo, Stale
  <2>8. \A e \in Elements : WillDo(w, e) => Stays(e)'
    <3> SUFFICES ASSUME NEW e \in Elements, WillDo(w, e), e \notin over[w] PROVE InClusters(e)'
      BY <2>2, <2>7 DEF Stays
    <3>1. e \notin worker[w].snap => singletons[w][e] = 0
      BY DEF Rests, SingletonInv
    <3>. QED
      BY <2>1, <2>2, <2>6, <3>1 DEF WillDo, InClusters
  <2>9. WillBuild => WillBuild'
    BY <2>1, <2>2, <2>3 DEF WillBuild, LoadComing
  <2>10. SingletonInv'
    BY <2>3, <2>4 DEF Rests, SingletonInv
  <2>11. \A e \in Elements : Stays(e) => WillDo(w, e)
    BY <2>2 DEF Stays
  <2>12. \A o \in Workers, e \in Elements : worker[o].pc = "rebuild" /\ WillDo(o, e)
            => Stays(e)' \/ (worker'[o].pc = "rebuild" /\ WillDo(o, e)')
    BY <2>3, <2>7, <2>8
  <2>. QED
    BY <2>1, <2>6, <2>8, <2>9, <2>10, <2>11, <2>12 DEF Rests, ClusterInv
<1>8. BuiltInv'
  BY VectorLayerAssumption, SMTT(30) DEF IInv, Types, Rests, SourceTypes, Calls, Idle,
     LayerTypes, WorkerTypes, DrawTypes, CallInv, CullInv, TaskInv, BuiltInv, rebuildClusters,
     Leave, Leaving, Fresh, IdleWorker, sourceVars
<1>. QED
  BY <1>1, <1>2, <1>3, <1>4, <1>5, <1>6, <1>7, <1>8 DEF Rests

LEMMA EndTaskRests == ASSUME IInv, IInv', Rests, NEW w \in Workers, EndTask(w) PROVE Rests'
<1>1. CallInv'
  BY VectorLayerAssumption, SMTT(30) DEF IInv, Types, Rests, SourceTypes, Calls, Idle,
     LayerTypes, Loaders, CallInv, EndTask, IdleWorker, sourceVars
<1>2. CullInv'
  BY VectorLayerAssumption, SMTT(30) DEF IInv, Types, Rests, SourceTypes, LayerTypes, DrawTypes,
     WorkerTypes, Loaders, TaskInv, CullInv, EndTask, IdleWorker, sourceVars
<1>3. TaskInv'
  BY VectorLayerAssumption, SMTT(30) DEF IInv, Types, Rests, SourceTypes, LayerTypes,
     WorkerTypes, CullInv, TaskInv, EndTask, IdleWorker, sourceVars
<1>4. ReadInv'
  BY VectorLayerAssumption, SMTT(30) DEF IInv, Types, Rests, SourceTypes, LayerTypes,
     WorkerTypes, OverTypes, TaskInv, CullInv, Loaders, ReadInv, EndTask, IdleWorker, sourceVars
<1>5. LayerHides'
  BY VectorLayerAssumption, SMTT(30) DEF IInv, Types, Rests, LayerTypes, OverTypes, Loaders,
     LayerHides, EndTask, IdleWorker, sourceVars
<1>6. DrawInv'
  BY VectorLayerAssumption, SMTT(30) DEF IInv, Types, Rests, SourceTypes, Calls, Idle,
     LayerTypes, WorkerTypes, DrawTypes, OverTypes, Loaders, CallInv, CullInv, TaskInv, ReadInv,
     LayerHides, DrawInv, Settled, Coming, LoadComing, EndTask, IdleWorker, sourceVars
<1>7. SingletonInv' /\ ClusterInv'
  <2>1. UNCHANGED <<clustered, stored, version, clusters, singletons, crossed>>
    BY DEF EndTask, sourceVars
  <2>2. \A e \in Elements : Coming(e) => Coming(e)'
    BY DEF Coming, EndTask, sourceVars
  <2>3. \A e \in Elements : Noticed(e) => Noticed(e)'
    BY DEF Noticed, EndTask, sourceVars
  <2>4. WillBuild => WillBuild'
    BY DEF IInv, Types, WorkerTypes, WillBuild, LoadComing, EndTask, IdleWorker, sourceVars
  <2>5. clustered => astray \subseteq astray'
    BY DEF EndTask
  <2>6. \A o \in Workers : worker[o].pc = "rebuild" <=> worker'[o].pc = "rebuild"
    BY DEF IInv, Types, WorkerTypes, EndTask, IdleWorker
  <2>7. \A o \in Workers : worker[o].pc = "rebuild" => worker'[o].snap = worker[o].snap /\ over[o] \subseteq over'[o]
    BY DEF IInv, Types, WorkerTypes, OverTypes, EndTask, IdleWorker
  <2>. QED
    BY <2>1, <2>2, <2>3, <2>4, <2>5, <2>6, <2>7, ClusterStays
<1>8. BuiltInv'
  BY VectorLayerAssumption, SMTT(30) DEF IInv, Types, Rests, SourceTypes, Calls, Idle,
     LayerTypes, WorkerTypes, DrawTypes, CallInv, CullInv, TaskInv, BuiltInv, EndTask,
     IdleWorker, sourceVars
<1>. QED
  BY <1>1, <1>2, <1>3, <1>4, <1>5, <1>6, <1>7, <1>8 DEF Rests

LEMMA StutterRests == ASSUME Rests, UNCHANGED vars PROVE Rests'
  BY DEF vars, Rests, CallInv, CullInv, TaskInv, ReadInv, LayerHides, DrawInv, ClusterInv, BuiltInv,
     Coming, LoadComing, Settled, InClusters, SingletonInv, Noticed, WillDo, Stays, WillBuild

LEMMA LoadingRests == ASSUME IInv, IInv', Rests, NEW p \in Loaders, Loading(p) PROVE Rests'
  BY CancelTasksRests, TestVisibleRests, ClearRests, ExecuteTaskRests DEF Loading

LEMMA NextRests == IInv /\ IInv' /\ Rests /\ [Next]_vars => Rests'
<1> SUFFICES ASSUME IInv, IInv', Rests, [Next]_vars PROVE Rests'
  OBVIOUS
<1>1. ASSUME NEW t \in Threads, Application(t) PROVE Rests'
  BY <1>1, MutateRests, setVisibleRests, CallRefreshRests DEF Application
<1>2. ASSUME NEW t \in Threads, Caller(t) PROVE Rests'
  BY <1>2, NotifyRests, AnnounceRests, refreshElementRests, refreshRests, RequestCullRests, LoadingRests
     DEF Caller, Loaders
<1>3. ASSUME NEW v \in Views, ViewChanged(v) PROVE Rests'
  BY <1>3, ViewChangedRests
<1>4. CASE Culling
  BY <1>4, TakeWakeupRests, LoadingRests, SaveCullStateRests DEF Culling, Loaders
<1>5. ASSUME NEW w \in Workers, Worker(w) PROVE Rests'
  BY <1>5, StartTaskRests, ReadCullStateRests, ClearByTaskRests, ReadSourceRests,
     loadElementsRests, SwapRefreshRests, createSingletonClusterRests, rebuildClustersRests,
     EndTaskRests DEF Worker
<1>6. CASE UNCHANGED vars
  BY <1>6, StutterRests
<1>. QED
  BY <1>1, <1>2, <1>3, <1>4, <1>5, <1>6 DEF Next

-----------------------------------------------------------------------------
LEMMA SpecIInv == Spec => []IInv
  BY InitIInv, NextIInv, PTL DEF Spec

(* The whole invariant. *)
LEMMA SpecRests == Spec => [](IInv /\ Rests)
<1>1. IInv /\ Rests /\ [Next]_vars => (IInv /\ Rests)'
  BY NextIInv, NextRests
<1>. QED
  BY <1>1, InitIInv, InitRests, PTL DEF Spec

(* The fields keep their ranges: in particular nothing is drawn for a view *)
(* that was not there (VectorLayer::FetchTask::run).                       *)
THEOREM TypeCorrect == Spec => []TypeOK
<1>1. IInv => TypeOK
  BY TypesOK DEF IInv
<1>. QED
  BY <1>1, SpecIInv, PTL

(* An element knows that it is in the data source if and only if it is,    *)
(* unless a call works on it or calls on it crossed                        *)
(* (LocalVectorDataSource.cpp, VectorDataSource::attachElement).           *)
THEOREM AttachedAsStored == Spec => []AttachedIffStored
<1>1. IInv => AttachedIffStored
  <2>1. \A t \in Threads : Pending(t) \subseteq call[t].added \cup call[t].removed
    BY DEF Pending
  <2>. QED
    BY <2>1 DEF IInv, AttachInv, AttachedIffStored, Underway
<1>. QED
  BY <1>1, SpecIInv, PTL

(* At rest nothing is to come, and a view was culled. *)
LEMMA NothingComes ==
  ASSUME Rests, Types, Rest
  PROVE  /\ ~LoadComing /\ lastCull # NoView /\ \A e \in Elements : ~Coming(e)
         /\ \A w \in Workers : worker[w].pc = "idle"
         /\ \A t \in Threads : call[t] = Idle
         /\ \A p \in Loaders : load[p] = "none"
<1>1. /\ ~wakeup /\ ~(queued > 0) /\ \A w \in Workers : worker[w].pc = "idle"
      /\ \A t \in Threads : call[t] = Idle
      /\ \A p \in Loaders : load[p] = "none"
  BY DEF Rest, InProgress
<1>2. \A t \in Threads : call[t].pc = "idle"
  BY <1>1 DEF Idle
<1>3. lastCull # NoView
  BY <1>1 DEF Rests, CullInv, Loaders
<1>. QED
  BY <1>1, <1>2, <1>3 DEF LoadComing, Coming

(* At rest the layer draws what the source holds, or nothing when hidden,  *)
(* whatever calls, views and tasks came together (VectorLayer::loadData,   *)
(* FetchTask::run, VectorElement::notifyElementChanged).                   *)
THEOREM DrawnInTheEnd == Spec => []DrawnAtRest
<1>1. IInv /\ Rests => DrawnAtRest
  <2> SUFFICES ASSUME IInv, Rests, Rest, ~clustered, NEW e \in Elements \ astray
               PROVE  /\ e \in shown => visible /\ e \in stored
                      /\ visible /\ e \in stored \cap lastCull.seen =>
                            e \in shown /\ built[e].surface = lastCull.surface
    BY DEF DrawnAtRest
  <2>1. Settled(e) /\ lastCull # NoView
    BY NothingComes DEF IInv, Rests, DrawInv
  <2>. QED
    BY <2>1 DEF Settled
<1>. QED
  BY <1>1, SpecRests, PTL

(* At rest an element is drawn in its present state, but for those that    *)
(* changed unseen (VectorLayer::syncRendererElement, addRendererElement).  *)
THEOREM DrawnAsChanged == Spec => []DrawnAsItIs
<1>1. IInv /\ Rests => DrawnAsItIs
  <2> SUFFICES ASSUME IInv, Rests, Rest, ~clustered, NEW e \in shown \ missed
               PROVE  built[e].ver = version[e]
    BY DEF DrawnAsItIs
  <2>1. e \in Elements \ missed
    BY DEF IInv, Types, LayerTypes
  <2>2. built[e] # NoDrawing
    BY DEF Rests, BuiltInv
  <2>3. \A t \in Threads : call[t].pc = "idle"
    BY NothingComes DEF IInv, Idle
  <2>. QED
    BY <2>1, <2>2, <2>3 DEF Rests, BuiltInv
<1>. QED
  BY <1>1, SpecRests, PTL

(* At rest the clusters are those of the elements that the source holds    *)
(* (ClusteredVectorLayer::refresh and rebuildClusters).                    *)
THEOREM ClustersInTheEnd == Spec => []ClustersAtRest
<1>1. IInv /\ Rests => ClustersAtRest
  <2> SUFFICES ASSUME IInv, Rests, Rest, clustered, visible, NEW e \in Elements \ (astray \cup crossed)
               PROVE  clusters[e] = IF e \in stored THEN version[e] ELSE 0
    BY DEF ClustersAtRest
  <2>1. InClusters(e) /\ ~Noticed(e)
    BY NothingComes DEF IInv, Rests, ClusterInv, WillBuild, Stays, Noticed, Idle
  <2>. QED
    BY <2>1 DEF InClusters
<1>. QED
  BY <1>1, SpecRests, PTL
=============================================================================
