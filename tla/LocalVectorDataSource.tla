------------------------ MODULE LocalVectorDataSource ------------------------
(***************************************************************************)
(* datasources/LocalVectorDataSource.cpp over VectorDataSource.cpp and     *)
(* vectorelements/VectorElement.cpp: a set of elements that application    *)
(* threads add, remove and change.  A call works in steps: it looks at the *)
(* elements, changes the spatial index under _mutex, gives the mutex up,   *)
(* attaches or detaches the elements, and tells the listeners.  What a     *)
(* listener does is left to the module that extends this one (VectorLayer).*)
(*                                                                         *)
(* A new element gets its id under _mutex.  VectorElement::setId notifies  *)
(* the source that the element is attached to, and notifyElementChanged    *)
(* locks _mutex, which is not recursive: a thread that gives an id to an   *)
(* element still attached (or attached meanwhile) waits for itself, and    *)
(* every other thread that needs the mutex waits with it.                  *)
(*                                                                         *)
(* Abstracted: the index is a set (an element that two threads add at once *)
(* would be in it twice), a change of an element counts its version up,    *)
(* the simplifier only as the change it notifies.  A critical section is   *)
(* one step, and so is attaching or detaching the elements of one call.  A *)
(* removal that finds nothing changes nothing and is no step.              *)
(***************************************************************************)
EXTENDS Naturals

CONSTANTS Elements,
          Threads,       (* threads of the application                     *)
          MaxVersion,    (* bound: versions of an element told apart       *)
          MaxCalls       (* bound: calls of the application and new views  *)

ASSUME DataSourceAssumption == MaxVersion \in Nat \ {0} /\ MaxCalls \in Nat

VARIABLES
    kdTree,      (* _spatialIndex is a KDTreeSpatialIndex                  *)
    stored,      (* the elements of _spatialIndex                          *)
    attached,    (* elements whose _dataSource is this one                 *)
    version,     (* the state of each element                              *)
    call,        (* where the calls of the threads are                     *)
    calls,       (* how many were made                                     *)
    crossed      (* history: elements for which a step of one call met     *)
                 (* what another call had done since                       *)

sourceVars == <<kdTree, stored, attached, version, call, calls, crossed>>

(* added and removed are still to be told; bulk: of several elements.      *)
Idle == [pc |-> "idle", added |-> {}, removed |-> {}, bulk |-> FALSE]
Calls == [pc: {"idle", "insert", "attach", "detach", "notify", "reindex", "tell", "refresh", "stuck"},
          added: SUBSET Elements, removed: SUBSET Elements, bulk: BOOLEAN]

(* A thread waits for the _mutex that it holds itself.                     *)
Stuck == \E t \in Threads : call[t].pc = "stuck"

(* The application may have filled the source before.                      *)
InitSource ==
    /\ kdTree \in BOOLEAN
    /\ stored \in SUBSET Elements /\ attached = stored
    /\ version = [e \in Elements |-> 1]
    /\ call = [t \in Threads |-> Idle]
    /\ calls = 0
    /\ crossed = {}

Begin(t, c) ==
    /\ call[t] = Idle /\ calls < MaxCalls
    /\ calls' = calls + 1
    /\ call' = [call EXCEPT ![t] = c]

(* After the listeners were told of one half of setAll comes the other.    *)
AfterTell(c) ==
    IF c.added # {} /\ c.removed # {} THEN [c EXCEPT !.pc = "detach", !.added = {}] ELSE Idle

-----------------------------------------------------------------------------
(* An element that is attached already is refused. *)
add(t, e) ==
    /\ e \notin attached
    /\ Begin(t, [pc |-> "insert", added |-> {e}, removed |-> {}, bulk |-> FALSE])
    /\ UNCHANGED <<kdTree, stored, attached, version, crossed>>

addAll(t, S) ==
    /\ S # {} /\ S \cap attached = {}
    /\ Begin(t, [pc |-> "insert", added |-> S, removed |-> {}, bulk |-> TRUE])
    /\ UNCHANGED <<kdTree, stored, attached, version, crossed>>

remove(t, e) ==
    /\ ~Stuck /\ e \in stored
    /\ stored' = stored \ {e}
    /\ Begin(t, [pc |-> "detach", added |-> {}, removed |-> {e}, bulk |-> FALSE])
    /\ UNCHANGED <<kdTree, attached, version, crossed>>

removeAll(t, S) ==
    /\ ~Stuck /\ S # {} /\ S \subseteq stored
    /\ stored' = stored \ S
    /\ Begin(t, [pc |-> "detach", added |-> {}, removed |-> S, bulk |-> TRUE])
    /\ UNCHANGED <<kdTree, attached, version, crossed>>

clear(t) == removeAll(t, stored)

(* setAll comes to an element that is new to the index, but attached: the  *)
(* index holds those of S that came before it.                             *)
setAllStuck(t, S) ==
    /\ (S \ stored) \cap attached # {}
    /\ stored' \in SUBSET (S \ (attached \ stored))
    /\ Begin(t, [pc |-> "stuck", added |-> S, removed |-> stored \ S, bulk |-> TRUE])

(* Mutant: the elements that setAll drops are not detached. *)
setAllAttachOnly(t, S) ==
    /\ ~Stuck /\ S # stored
    /\ (S \ stored) \cap attached = {} /\ stored' = S
    /\ Begin(t, [pc |-> "attach", added |-> S \ stored, removed |-> {}, bulk |-> TRUE])
    /\ UNCHANGED <<kdTree, attached, version, crossed>>

setAll(t, S) ==
    /\ ~Stuck /\ S # stored
    /\ \/ setAllStuck(t, S)
       \/ /\ (S \ stored) \cap attached = {}
          /\ stored' = S
          /\ Begin(t, [pc |-> IF S \subseteq stored THEN "detach" ELSE "attach",
                       added |-> S \ stored, removed |-> stored \ S, bulk |-> TRUE])
    /\ UNCHANGED <<kdTree, attached, version, crossed>>

(* A setter of an element. *)
change(t, e) ==
    /\ version[e] < MaxVersion
    /\ version' = [version EXCEPT ![e] = version[e] + 1]
    /\ Begin(t, [pc |-> "notify", added |-> {e}, removed |-> {}, bulk |-> FALSE])
    /\ UNCHANGED <<kdTree, stored, attached, crossed>>

-----------------------------------------------------------------------------
Goto(t, pc) == call' = [call EXCEPT ![t].pc = pc]

(* The critical section of add and addAll: setId and the index.            *)
Insert(t) ==
    /\ call[t].pc = "insert" /\ ~Stuck
    /\ IF call[t].added \cap attached = {}
       THEN stored' = stored \cup call[t].added /\ Goto(t, "attach")
       ELSE (\E D \in SUBSET (call[t].added \ attached) : stored' = stored \cup D) /\ Goto(t, "stuck")
    /\ UNCHANGED <<kdTree, attached, version, calls, crossed>>

(* VectorElement::notifyElementChanged, after the setter: nothing is done  *)
(* for an element that is attached to no data source by now.               *)
notifyElementChanged(t) ==
    /\ call[t].pc = "notify"
    /\ IF call[t].added \subseteq attached THEN Goto(t, "reindex")
       ELSE call' = [call EXCEPT ![t] = Idle]
    /\ UNCHANGED <<kdTree, stored, attached, version, calls, crossed>>

(* A KD-tree takes the element out and in again, whether it was in or not. *)
Reindex(t) ==
    /\ call[t].pc = "reindex" /\ ~Stuck
    /\ stored' = IF kdTree THEN stored \cup call[t].added ELSE stored
    /\ crossed' = crossed \cup (call[t].added \ stored)
    /\ Goto(t, "tell")
    /\ UNCHANGED <<kdTree, attached, version, calls>>

attachElement(t) ==
    /\ call[t].pc = "attach"
    /\ attached' = attached \cup call[t].added
    /\ crossed' = crossed \cup (call[t].added \ stored)
    /\ Goto(t, "tell")
    /\ UNCHANGED <<kdTree, stored, version, calls>>

detachElement(t) ==
    /\ call[t].pc = "detach"
    /\ attached' = attached \ call[t].removed
    /\ crossed' = crossed \cup (call[t].removed \cap stored)
    /\ Goto(t, "tell")
    /\ UNCHANGED <<kdTree, stored, version, calls>>

(* The listeners have returned. *)
Told(t) ==
    /\ call[t].pc \in {"tell", "refresh"}
    /\ call' = [call EXCEPT ![t] = AfterTell(call[t])]

-----------------------------------------------------------------------------
(* The elements of the calls under way. *)
Underway == UNION {call[t].added \cup call[t].removed : t \in Threads}

(* An element that the source holds knows so, and one that it does not     *)
(* hold may be added again: attached and stored agree for every element    *)
(* that no call works on, unless calls on it crossed, such as a change     *)
(* that puts an element back into a KD-tree while it is being removed.     *)
AttachedIffStored ==
    \A e \in Elements \ (Underway \cup crossed) : e \in stored <=> e \in attached
=============================================================================
