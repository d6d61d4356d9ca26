------------------------- MODULE PackageManagerProofs -------------------------
(***************************************************************************)
(* For all sets of packages, versions, clients and any number of tasks and *)
(* crashes: what is installed, what a reader has opened and what the data  *)
(* source keeps open has its file; tasks end in order, wakeups are not     *)
(* lost and reports are true; and to its readers the manager implements    *)
(* LocalPackages.                                                          *)
(***************************************************************************)
EXTENDS PackageManager, FiniteSetTheorems, WellFoundedInduction, TLAPS

FileCommands == {"download", "import", "remove"}
TaskRow == [cmd : FileCommands \cup {"none", "list"}, pkg : Packages \cup {ListId},
            ver : Int, prio : Int, canceled : BOOLEAN]
Call == [pc : ClientPcs, cmd : AllCommands \cup {"none"}, pkg : Packages \cup {ListId},
         arg : Int, todo : SUBSET TaskIds]

(* A task or call about files names a package and a version of it. *)
WellFormed(cmd, p, v) == cmd \in FileCommands => p \in Packages /\ v \in Versions

QueueInv ==
    /\ task \in [TaskIds -> TaskRow]
    /\ nextId \in Nat \ {0}
    /\ \A t \in Live : t < nextId
    /\ \A t \in TaskIds : WellFormed(task[t].cmd, task[t].pkg, task[t].ver)

ClientInv ==
    /\ client \in [Clients -> Call]
    /\ \A c \in Clients : /\ WellFormed(client[c].cmd, client[c].pkg, client[c].arg)
                          /\ client[c].pc = "insert" => client[c].cmd \in Scheduling

Offers == /\ published \in [Packages -> Versions]
          /\ list \in [Packages -> 0 .. MaxVersion]

(* The table of packages, as it is on disk and in memory, and the files. *)
StoreInv ==
    /\ rows \in [Packages \X Versions -> {"none", "invalid", "valid"}]
    /\ file \in [Packages \X Versions -> {"none", "part", "full"}]
    /\ local = ValidPackages(rows)
    /\ \A pv \in Packages \X Versions : rows[pv] = "valid" => file[pv] = "full"

Serving == WorkerPcs \ {"off", "pick", "empty", "waiting"}
FilePcs == {"download", "transfer", "broken", "broken2", "import", "copied", "insert", "mark",
            "notifyAdded", "delete", "notifyDeleted", "unlink", "remove"}
Writing == {"transfer", "broken", "broken2", "copied", "insert", "mark"}
Deleting == {"notifyDeleted", "unlink"}

(* What the place of the worker says of its task and of the task's file. *)
WorkerInv ==
    /\ wpc \in WorkerPcs
    /\ delVers \in SUBSET Versions
    /\ wpc \in Serving => active \in Live
    /\ wpc \in FilePcs => task[active].cmd \in FileCommands
    /\ wpc \in Writing => rows[aFile] # "valid"
    /\ wpc = "copied" => file[aFile] # "none"
    /\ wpc \in {"insert", "mark"} => file[aFile] = "full"
    /\ wpc \in Deleting => delVers # {} /\ rows[<<aPkg, Min(delVers)>>] = "none"

(* A package in use has its file and is installed, or it is an old version *)
(* that the worker is still to delete, for which it needs the file mutex.  *)
Replaced(pv) ==
    /\ rows[pv] = "invalid"
    /\ wpc \in {"notifyAdded", "delete"}
    /\ pv[1] = aPkg /\ pv[2] \in delVers

InUse(S) == \A pv \in S : file[pv] = "full" /\ (rows[pv] = "valid" \/ Replaced(pv))

ReaderInv ==
    /\ fileMutex = "worker" <=> wpc \in Deleting
    /\ fileMutex # "reader" => opened = {}
    /\ opened \subseteq Packages \X Versions /\ cached \subseteq Packages \X Versions
    /\ InUse(opened)
    /\ wpc # "notifyDeleted" => InUse(cached)
    /\ wpc = "unlink" => cached = {}

IInv == QueueInv /\ ClientInv /\ Offers /\ StoreInv /\ WorkerInv /\ ReaderInv

-----------------------------------------------------------------------------
(* The queue serves some task whenever one may be served. *)

LEMMA LeastElement ==
    ASSUME NEW S \in SUBSET Nat, S # {}
    PROVE  \E x \in S : \A y \in S : x <= y
<1> DEFINE R == {p \in Nat \X Nat : p[1] < p[2]}
<1>1. OpToRel(<, Nat) = R
  BY DEF OpToRel
<1>2. IsWellFoundedOn(R, Nat)
  BY <1>1, NatLessThanWellFounded
<1>3. PICK x \in S : \A y \in S : <<y, x>> \notin R
  <2> HIDE DEF R
  <2> QED
    BY <1>2, WFMin
<1>4. ASSUME NEW y \in S PROVE x <= y
  <2>1. x \in Nat /\ y \in Nat /\ <<y, x>> \in Nat \X Nat
    OBVIOUS
  <2>2. ~(y < x)
    BY <1>3, <1>4, <2>1
  <2> QED
    BY <2>1, <2>2
<1> QED
  BY <1>4

LEMMA MinIsLeast ==
    ASSUME NEW S \in SUBSET Nat, S # {}
    PROVE  Min(S) \in S
BY LeastElement DEF Min

LEMMA ServedBeforeOrders ==
    ASSUME NEW S \in SUBSET Nat, \A t \in S : task[t].prio \in Int, NEW cur
    PROVE  /\ \A t \in S : ~ServedBefore(t, t, cur)
           /\ \A t, u, v \in S : ServedBefore(t, u, cur) /\ ServedBefore(u, v, cur)
                                 => ServedBefore(t, v, cur)
           /\ \A t, u \in S : t # u => ServedBefore(t, u, cur) \/ ServedBefore(u, t, cur)
<1> DEFINE Ordering(x) == IF x = cur THEN -1 ELSE x
<1>1. \A t \in S : Ordering(t) \in Int
  OBVIOUS
<1>2. \A t, u \in S : t # u => Ordering(t) # Ordering(u)
  OBVIOUS
<1>3. \A t, u : ServedBefore(t, u, cur) <=>
          \/ task[t].prio > task[u].prio
          \/ (task[t].prio = task[u].prio /\ Ordering(t) < Ordering(u))
  BY DEF ServedBefore
<1> HIDE DEF Ordering
<1> QED
  BY <1>1, <1>2, <1>3

LEMMA StrictSubset ==
    ASSUME NEW S, IsFiniteSet(S), NEW T \in SUBSET S, T # S
    PROVE  Cardinality(T) < Cardinality(S)
<1>1. IsFiniteSet(T) /\ Cardinality(T) <= Cardinality(S) /\ Cardinality(S) # Cardinality(T)
  BY FS_Subset
<1>2. Cardinality(S) \in Nat /\ Cardinality(T) \in Nat
  BY <1>1, FS_CardinalityType
<1> QED
  BY <1>1, <1>2

(* The first task is the one that the fewest others come before. *)
LEMMA SomeTaskIsFirst ==
    ASSUME QueueInv, NEW cur, Runnable # {}
    PROVE  \E t \in Runnable : \A u \in Runnable \ {t} : ServedBefore(t, u, cur)
<1> DEFINE Before(t) == {u \in Runnable : ServedBefore(u, t, cur)}
           Rank(t) == Cardinality(Before(t))
           Ranks == {Rank(t) : t \in Runnable}
<1>1. Runnable \subseteq TaskIds /\ TaskIds \subseteq Nat
  BY BoundsAssumption DEF Runnable, Live, TaskIds
<1>2. \A t \in Runnable : task[t].prio \in Int
  BY <1>1 DEF QueueInv, TaskRow
<1>3. IsFiniteSet(Runnable)
  <2>1. IsFiniteSet(TaskIds)
    BY BoundsAssumption, FS_Interval DEF TaskIds
  <2> QED
    BY <1>1, <2>1, FS_Subset
<1>4. /\ \A t \in Runnable : ~ServedBefore(t, t, cur)
      /\ \A t, u, v \in Runnable : ServedBefore(t, u, cur) /\ ServedBefore(u, v, cur)
                                   => ServedBefore(t, v, cur)
      /\ \A t, u \in Runnable : t # u => ServedBefore(t, u, cur) \/ ServedBefore(u, t, cur)
  BY <1>1, <1>2, ServedBeforeOrders
<1>5. ASSUME NEW t \in Runnable PROVE IsFiniteSet(Before(t)) /\ Rank(t) \in Nat
  <2>1. IsFiniteSet(Before(t))
    BY <1>3, FS_Subset
  <2> QED
    BY <2>1, FS_CardinalityType
<1>6. ASSUME NEW t \in Runnable, NEW u \in Before(t) PROVE Rank(u) < Rank(t)
  <2>1. Before(u) \subseteq Before(t) /\ u \in Before(t) /\ u \notin Before(u)
    BY <1>4, <1>6
  <2>2. IsFiniteSet(Before(t))
    BY <1>5
  <2> QED
    BY <2>1, <2>2, StrictSubset
<1> HIDE DEF Rank
<1>7. PICK n \in Ranks : \A m \in Ranks : n <= m
  <2>1. Ranks \in SUBSET Nat /\ Ranks # {}
    BY <1>5
  <2> QED
    BY <2>1, LeastElement
<1>8. PICK t \in Runnable : \A u \in Runnable : Rank(t) <= Rank(u)
  BY <1>7
<1>9. ASSUME NEW u \in Runnable \ {t} PROVE ServedBefore(t, u, cur)
  <2>1. Rank(t) \in Nat /\ Rank(u) \in Nat /\ Rank(t) <= Rank(u)
    BY <1>5, <1>8
  <2>2. u \in Before(t) => Rank(u) < Rank(t)
    BY <1>6
  <2>3. u \notin Before(t)
    BY <2>1, <2>2
  <2> QED
    BY <1>4, <2>3
<1> QED
  BY <1>9

(* getActiveTaskId returns a task of the queue, or none. *)
LEMMA ActiveTaskIsLive ==
    ASSUME QueueInv, NEW cur, ActiveTaskId(cur) # NoTaskId
    PROVE  ActiveTaskId(cur) \in Live
<1> DEFINE best == CHOOSE t \in Runnable : \A u \in Runnable \ {t} : ServedBefore(t, u, cur)
<1>1. Runnable # {} /\ ActiveTaskId(cur) = Min(TasksOf(task[best].pkg))
  BY DEF ActiveTaskId
<1>2. best \in Runnable
  BY <1>1, SomeTaskIsFirst
<1>3. best \in TasksOf(task[best].pkg)
  BY <1>2 DEF Runnable, TasksOf
<1> HIDE DEF best
<1>4. TasksOf(task[best].pkg) \subseteq Live /\ Live \subseteq Nat
  BY BoundsAssumption DEF TasksOf, Live, TaskIds
<1> QED
  BY <1>1, <1>3, <1>4, MinIsLeast

-----------------------------------------------------------------------------
LEMMA InitIInv == Init => IInv
<1> SUFFICES ASSUME Init PROVE IInv
  OBVIOUS
<1> DEFINE PV == Packages \X Versions
<1>1. 1 \in Versions /\ MaxVersion \in Versions /\ MaxVersion \in 0 .. MaxVersion /\ 1 \in 0 .. MaxVersion
  BY BoundsAssumption DEF Versions
<1>2. QueueInv
  <2>1. NoTask \in TaskRow
    BY DEF NoTask, TaskRow
  <2>2. task = [t \in TaskIds |-> NoTask] /\ nextId = 1
    BY DEF Init
  <2> QED
    BY <2>1, <2>2 DEF QueueInv, Live, NoTask, WellFormed, FileCommands
<1>3. ClientInv
  <2>1. IdleClient \in Call
    BY DEF IdleClient, Call, ClientPcs
  <2>2. client = [c \in Clients |-> IdleClient]
    BY DEF Init
  <2> QED
    BY <2>1, <2>2 DEF ClientInv, IdleClient, WellFormed, FileCommands
<1>4. Offers
  BY <1>1 DEF Init, Offers
<1>5. StoreInv
  <2>1. PICK installed \in SUBSET Packages :
            /\ rows = [pv \in PV |-> IF pv[1] \in installed /\ pv[2] = 1 THEN "valid" ELSE "none"]
            /\ file = [pv \in PV |-> IF pv[1] \in installed /\ pv[2] = 1 THEN "full" ELSE "none"]
    BY DEF Init
  <2>2. local = ValidPackages(rows)
    BY DEF Init
  <2> QED
    BY <2>1, <2>2 DEF StoreInv
<1>6. WorkerInv /\ ReaderInv
  BY DEF Init, WorkerInv, ReaderInv, InUse, WorkerPcs, Serving, FilePcs, Writing, Deleting
<1> QED
  BY <1>2, <1>3, <1>4, <1>5, <1>6 DEF IInv

-----------------------------------------------------------------------------
(* Steps that leave the worker and the packages alone. *)

TasksStay == \A t \in Live : /\ task'[t].cmd = task[t].cmd
                             /\ task'[t].pkg = task[t].pkg
                             /\ task'[t].ver = task[t].ver

LEMMA Undisturbed ==
    ASSUME IInv, TasksStay, UNCHANGED <<rows, file, local, fileMutex, opened, cached, active, delVers>>,
           wpc' = wpc \/ {wpc, wpc'} \subseteq {"off", "pick", "empty", "waiting"}
    PROVE  StoreInv' /\ WorkerInv' /\ ReaderInv'
<1>1. StoreInv'
  BY DEF IInv, StoreInv, ValidPackages
<1>2. wpc' \in WorkerPcs /\ (wpc' \in Serving => wpc' = wpc)
  BY DEF IInv, WorkerInv, WorkerPcs, Serving
<1>3. /\ FilePcs \subseteq Serving /\ Writing \subseteq FilePcs /\ Deleting \subseteq FilePcs
      /\ {"copied", "insert", "mark"} \subseteq FilePcs
  BY DEF FilePcs, Serving, WorkerPcs, Writing, Deleting
<1>4. ASSUME wpc' \in Serving
      PROVE  active' \in Live' /\ task'[active].cmd = task[active].cmd /\ aFile' = aFile /\ aPkg' = aPkg
  <2>1. active \in Live
    BY <1>2, <1>4 DEF IInv, WorkerInv
  <2> QED
    BY <2>1 DEF TasksStay, Live, aFile, aPkg, aVer
<1>5. WorkerInv'
  <2>1. CASE wpc' \in Serving
    <3>1. wpc' = wpc /\ active' = active /\ aFile' = aFile /\ aPkg' = aPkg
      BY <1>2, <1>4, <2>1
    <3>2. task'[active].cmd = task[active].cmd /\ active \in Live'
      BY <1>4, <2>1
    <3> QED
      BY <1>2, <3>1, <3>2 DEF IInv, WorkerInv
  <2>2. CASE wpc' \notin Serving
    BY <1>2, <1>3, <2>2 DEF IInv, WorkerInv
  <2> QED
    BY <2>1, <2>2
<1>6. (wpc' \in Deleting <=> wpc \in Deleting) /\ (wpc' \in {"unlink", "notifyDeleted"} => wpc' = wpc)
  BY <1>2 DEF Deleting, Serving, WorkerPcs
<1>7. \A pv : Replaced(pv) => Replaced(pv)'
  <2>1. wpc \in {"notifyAdded", "delete"} => wpc' = wpc /\ wpc' \in Serving
    BY DEF Serving, WorkerPcs
  <2> QED
    BY <1>4, <2>1 DEF Replaced
<1>8. wpc' # "notifyDeleted" => wpc # "notifyDeleted"
  OBVIOUS
<1>9. ReaderInv'
  BY <1>6, <1>7, <1>8 DEF IInv, ReaderInv, InUse
<1> QED
  BY <1>1, <1>5, <1>9

(* The life cycle. *)
LEMMA StartStopStep == IInv /\ (Start \/ Stop \/ \E p \in Packages : Publish(p)) => IInv'
<1> SUFFICES ASSUME IInv, Start \/ Stop \/ \E p \in Packages : Publish(p) PROVE IInv'
  OBVIOUS
<1>1. /\ UNCHANGED <<queueVars, storeVars, client, readerVars, active, delVers>>
      /\ wpc' = wpc \/ {wpc, wpc'} \subseteq {"off", "pick", "empty", "waiting"}
  BY DEF Start, Stop, Publish, workerVars
<1>2. QueueInv' /\ ClientInv' /\ TasksStay
  BY <1>1 DEF IInv, QueueInv, ClientInv, TasksStay, Live, queueVars
<1>3. Offers'
  <2>1. CASE Start \/ Stop
    BY <2>1 DEF Start, Stop, listVars, IInv, Offers
  <2>2. ASSUME NEW p \in Packages, Publish(p) PROVE Offers'
    <3>1. published[p] + 1 \in Versions
      BY <2>2, BoundsAssumption DEF Publish, IInv, Offers, Versions
    <3> QED
      BY <2>2, <3>1 DEF Publish, IInv, Offers
  <2> QED
    BY <2>1, <2>2
<1>4. StoreInv' /\ WorkerInv' /\ ReaderInv'
  BY <1>1, <1>2, Undisturbed DEF storeVars, readerVars
<1> QED
  BY <1>2, <1>3, <1>4 DEF IInv

(* What a crash leaves is what Init could have found. *)
LEMMA CrashStep == IInv /\ Crash => IInv'
<1> SUFFICES ASSUME IInv, Crash PROVE IInv'
  OBVIOUS
<1>1. QueueInv' /\ Offers'
  BY DEF Crash, queueVars, listVars, IInv, QueueInv, Offers, Live
<1>2. ClientInv'
  <2>1. IdleClient \in Call
    BY DEF IdleClient, Call, ClientPcs
  <2>2. client' = [c \in Clients |-> IdleClient]
    BY DEF Crash
  <2> QED
    BY <2>1, <2>2 DEF ClientInv, IdleClient, WellFormed, FileCommands
<1>3. StoreInv'
  BY DEF Crash, IInv, StoreInv, ValidPackages
<1>4. WorkerInv' /\ ReaderInv'
  BY DEF Crash, WorkerInv, ReaderInv, InUse, WorkerPcs, Serving, FilePcs, Writing, Deleting
<1> QED
  BY <1>1, <1>2, <1>3, <1>4 DEF IInv

-----------------------------------------------------------------------------
(* API calls. *)

LEMMA ClientMoves ==
    ASSUME ClientInv, NEW c \in Clients, NEW q \in Call, WellFormed(q.cmd, q.pkg, q.arg),
           q.pc = "insert" => q.cmd \in Scheduling, client' = [client EXCEPT ![c] = q]
    PROVE  ClientInv'
BY DEF ClientInv

LEMMA ClientGoes ==
    ASSUME ClientInv, NEW c \in Clients, NEW pc \in ClientPcs \ {"insert"},
           client' = [client EXCEPT ![c].pc = pc]
    PROVE  ClientInv'
<1> DEFINE q == [client[c] EXCEPT !.pc = pc]
<1>1. client[c] \in Call /\ client' = [client EXCEPT ![c] = q]
  BY DEF ClientInv
<1>2. q \in Call /\ q.pc = pc /\ q.cmd = client[c].cmd /\ q.pkg = client[c].pkg /\ q.arg = client[c].arg
  BY <1>1 DEF Call
<1>3. WellFormed(q.cmd, q.pkg, q.arg)
  BY <1>2 DEF ClientInv
<1> HIDE DEF q
<1> QED
  BY <1>1, <1>2, <1>3, ClientMoves

LEMMA ClientReturns ==
    ASSUME ClientInv, NEW c \in Clients, client' = [client EXCEPT ![c] = IdleClient]
    PROVE  ClientInv'
<1>1. IdleClient \in Call /\ IdleClient.pc # "insert" /\ IdleClient.cmd \notin FileCommands
  BY DEF IdleClient, Call, ClientPcs, FileCommands
<1> QED
  BY <1>1, ClientMoves DEF WellFormed

(* A step that changes at most the priority of a task and its cancellation. *)
LEMMA TaskAltered ==
    ASSUME QueueInv, NEW t \in TaskIds, NEW q \in TaskRow, q.cmd = task[t].cmd,
           q.pkg = task[t].pkg, q.ver = task[t].ver, task' = [task EXCEPT ![t] = q],
           nextId' = nextId
    PROVE  QueueInv' /\ TasksStay
<1>1. \A u \in TaskIds : /\ task'[u].cmd = task[u].cmd
                         /\ task'[u].pkg = task[u].pkg
                         /\ task'[u].ver = task[u].ver
  BY DEF QueueInv
<1>2. Live' = Live
  BY <1>1 DEF Live
<1> QED
  BY <1>1, <1>2 DEF QueueInv, TasksStay, Live

LEMMA TasksUnchanged ==
    ASSUME QueueInv, UNCHANGED <<task, nextId>>
    PROVE  QueueInv' /\ TasksStay
BY DEF QueueInv, TasksStay, Live

LEMMA BeginStep ==
    ASSUME IInv, NEW c \in Clients, NEW cmd, NEW p \in Packages \cup {ListId}, NEW arg \in Int,
           NEW pc \in {"insert", "each"}, NEW todo \in SUBSET TaskIds,
           WellFormed(cmd, p, arg), pc = "insert" => cmd \in Scheduling,
           Begin(c, cmd, p, arg, pc, todo)
    PROVE  IInv'
<1> DEFINE q == [pc |-> pc, cmd |-> cmd, pkg |-> p, arg |-> arg, todo |-> todo]
<1>1. cmd \in AllCommands
  BY CommandsAssumption DEF Begin
<1>2. q \in Call /\ q.pc = pc /\ q.cmd = cmd /\ q.pkg = p /\ q.arg = arg
  BY <1>1 DEF Call, ClientPcs
<1>3. client' = [client EXCEPT ![c] = q]
  BY DEF Begin
<1> HIDE DEF q
<1>4. ClientInv'
  BY <1>2, <1>3, ClientMoves DEF IInv
<1>5. QueueInv' /\ TasksStay
  BY TasksUnchanged DEF Begin, IInv
<1>6. StoreInv' /\ WorkerInv' /\ ReaderInv'
  BY <1>5, Undisturbed DEF Begin, storeVars, workerVars, readerVars
<1> QED
  BY <1>4, <1>5, <1>6 DEF IInv, Offers, Begin, listVars

LEMMA TasksOfType == ASSUME NEW p PROVE TasksOf(p) \in SUBSET TaskIds
BY DEF TasksOf, Live

LEMMA BeginCallStep == ASSUME IInv, NEW c \in Clients, BeginCall(c) PROVE IInv'
<1>1. Versions \subseteq Int
  BY DEF Versions
<1>2. ASSUME NEW p \in Packages, startPackageDownload(c, p) PROVE IInv'
  <2>1. list[p] \in Versions /\ list[p] \in Int
    BY <1>2, BoundsAssumption DEF startPackageDownload, IInv, Offers, Versions
  <2>2. WellFormed("download", p, list[p]) /\ "download" \in Scheduling
    BY <2>1 DEF WellFormed, Scheduling
  <2> QED
    BY <1>2, <2>1, <2>2, BeginStep DEF startPackageDownload
<1>3. ASSUME NEW p \in Packages, startPackageRemove(c, p) PROVE IInv'
  <2>1. PICK v \in Versions : Begin(c, "remove", p, v, "each", TasksOf(p))
    BY <1>3 DEF startPackageRemove
  <2>2. WellFormed("remove", p, v)
    BY DEF WellFormed
  <2> QED
    BY <1>1, <2>1, <2>2, BeginStep, TasksOfType
<1>4. ASSUME NEW p \in Packages, cancelPackageTasks(c, p) PROVE IInv'
  <2>1. WellFormed("cancel", p, 0) /\ 0 \in Int
    BY DEF WellFormed, FileCommands
  <2>2. TasksOf(p) \in SUBSET TaskIds /\ p \in Packages \cup {ListId}
    BY TasksOfType
  <2> QED
    BY <1>4, <2>1, <2>2, BeginStep, Zenon DEF cancelPackageTasks
<1>5. ASSUME NEW p \in Packages, NEW v \in Versions, startPackageImport(c, p, v) PROVE IInv'
  <2>1. WellFormed("import", p, v) /\ "import" \in Scheduling
    BY DEF WellFormed, Scheduling
  <2> QED
    BY <1>1, <1>5, <2>1, BeginStep DEF startPackageImport
<1>6. ASSUME NEW p \in Packages, NEW prio \in Priorities, setPackagePriority(c, p, prio) PROVE IInv'
  <2>1. WellFormed("priority", p, prio) /\ prio \in Int
    BY BoundsAssumption DEF WellFormed, FileCommands
  <2> QED
    BY <1>6, <2>1, BeginStep, TasksOfType DEF setPackagePriority
<1>7. ASSUME startPackageListDownload(c) PROVE IInv'
  <2>1. WellFormed("list", ListId, 0) /\ "list" \in Scheduling /\ 0 \in Int
    BY DEF WellFormed, FileCommands, Scheduling
  <2>2. {} \in SUBSET TaskIds /\ ListId \in Packages \cup {ListId}
    OBVIOUS
  <2> QED
    BY <1>7, <2>1, <2>2, BeginStep, Zenon DEF startPackageListDownload
<1> QED
  BY <1>2, <1>3, <1>4, <1>5, <1>6, <1>7 DEF BeginCall

LEMMA CancelTask ==
    ASSUME NEW r \in TaskRow, NEW b \in BOOLEAN,
           NEW q, q = [r EXCEPT !.prio = CancelPriority, !.canceled = b]
    PROVE  q \in TaskRow /\ q.cmd = r.cmd /\ q.pkg = r.pkg /\ q.ver = r.ver
<1>1. CancelPriority \in Int
  BY DEF CancelPriority
<1> QED
  BY <1>1 DEF TaskRow

LEMMA EachTaskStep ==
    ASSUME IInv, NEW c \in Clients, EachTask(c)
    PROVE  QueueInv' /\ TasksStay /\ ClientInv'
<1> DEFINE cl == client[c]
           t == Min(cl.todo)
           next == IF t \notin Live THEN "each" ELSE IF cl.cmd = "remove" THEN "quiet" ELSE "status"
<1>1. cl \in Call
  BY DEF IInv, ClientInv
<1>2. QueueInv' /\ TasksStay
  <2>1. CASE t \notin Live
    BY <2>1, TasksUnchanged DEF EachTask, IInv
  <2>2. CASE t \in Live
    <3>1. t \in TaskIds /\ task[t] \in TaskRow /\ cl.arg \in Int
      BY <1>1, <2>2 DEF Live, IInv, QueueInv, Call
    <3>2. CASE cl.cmd = "priority"
      <4> DEFINE q == [task[t] EXCEPT !.prio = cl.arg]
      <4>1. task' = [task EXCEPT ![t] = q] /\ nextId' = nextId
        BY <2>2, <3>1, <3>2 DEF EachTask, IInv, QueueInv
      <4>2. q \in TaskRow /\ q.cmd = task[t].cmd /\ q.pkg = task[t].pkg /\ q.ver = task[t].ver
        BY <3>1 DEF TaskRow
      <4> HIDE DEF q
      <4> QED
        BY <3>1, <4>1, <4>2, TaskAltered DEF IInv
    <3>3. CASE cl.cmd # "priority"
      <4> DEFINE q == [task[t] EXCEPT !.prio = CancelPriority, !.canceled = TRUE]
      <4>1. task' = [task EXCEPT ![t] = q] /\ nextId' = nextId
        BY <2>2, <3>1, <3>3 DEF EachTask, IInv, QueueInv
      <4>2. q \in TaskRow /\ q.cmd = task[t].cmd /\ q.pkg = task[t].pkg /\ q.ver = task[t].ver
        BY <3>1, CancelTask
      <4> HIDE DEF q
      <4> QED
        BY <3>1, <4>1, <4>2, TaskAltered DEF IInv
    <3> QED
      BY <3>2, <3>3
  <2> QED
    BY <2>1, <2>2
<1>3. ClientInv'
  <2> DEFINE q == [cl EXCEPT !.todo = cl.todo \ {t}, !.pc = next]
  <2>1. client' = [client EXCEPT ![c] = q]
    BY DEF EachTask, IInv, ClientInv
  <2>2. next \in ClientPcs \ {"insert"}
    BY DEF ClientPcs
  <2> HIDE DEF next, t
  <2>3. q \in Call /\ q.pc = next /\ q.cmd = cl.cmd /\ q.pkg = cl.pkg /\ q.arg = cl.arg
    BY <1>1, <2>2 DEF Call
  <2>4. WellFormed(q.cmd, q.pkg, q.arg)
    BY <2>3 DEF IInv, ClientInv
  <2> HIDE DEF q
  <2> QED
    BY <2>1, <2>2, <2>3, <2>4, ClientMoves DEF IInv
<1> QED
  BY <1>2, <1>3

LEMMA InsertTaskStep ==
    ASSUME IInv, NEW c \in Clients, InsertTask(c)
    PROVE  QueueInv' /\ TasksStay /\ ClientInv'
<1> DEFINE cl == client[c]
           q == [cmd |-> cl.cmd, pkg |-> cl.pkg, ver |-> cl.arg,
                 prio |-> DefaultPriority, canceled |-> FALSE]
<1>1. cl \in Call /\ cl.cmd \in Scheduling /\ WellFormed(cl.cmd, cl.pkg, cl.arg)
  BY DEF InsertTask, IInv, ClientInv
<1>2. nextId \in TaskIds /\ nextId \in Nat \ {0} /\ nextId' = nextId + 1
  BY BoundsAssumption DEF InsertTask, IInv, QueueInv, TaskIds
<1>3. q \in TaskRow
  BY <1>1 DEF TaskRow, Call, Scheduling, FileCommands, DefaultPriority
<1>4. task' = [task EXCEPT ![nextId] = q]
  BY DEF InsertTask
<1>5. WellFormed(q.cmd, q.pkg, q.ver)
  BY <1>1
<1> HIDE DEF q
<1>6. nextId \notin Live /\ Live \subseteq TaskIds /\ TaskIds \subseteq Int
  BY DEF IInv, QueueInv, Live, TaskIds
<1>7. \A u \in TaskIds : task'[u] = IF u = nextId THEN q ELSE task[u]
  BY <1>4 DEF IInv, QueueInv
<1>8. TasksStay
  BY <1>6, <1>7 DEF TasksStay
<1>9. Live' \subseteq Live \cup {nextId}
  BY <1>7 DEF Live
<1>10. QueueInv'
  <2>1. task' \in [TaskIds -> TaskRow]
    BY <1>3, <1>4 DEF IInv, QueueInv
  <2>2. \A u \in Live' : u < nextId'
    BY <1>2, <1>6, <1>9 DEF IInv, QueueInv
  <2>3. \A u \in TaskIds : WellFormed(task'[u].cmd, task'[u].pkg, task'[u].ver)
    BY <1>5, <1>7 DEF IInv, QueueInv
  <2> QED
    BY <1>2, <2>1, <2>2, <2>3 DEF QueueInv
<1>11. ClientInv'
  <2> DEFINE pc == IF cl.cmd = "list" THEN "raise" ELSE "status"
             arg == IF cl.cmd = "list" THEN nextId ELSE cl.arg
             r == [cl EXCEPT !.pc = pc, !.arg = arg]
  <2>1. client' = [client EXCEPT ![c] = r]
    BY DEF InsertTask, IInv, ClientInv
  <2>2. pc \in ClientPcs \ {"insert"} /\ arg \in Int /\ (cl.cmd = "list" \/ arg = cl.arg)
    BY <1>1, <1>2 DEF Call, ClientPcs
  <2> HIDE DEF pc, arg
  <2>3. r \in Call /\ r.pc = pc /\ r.cmd = cl.cmd /\ r.pkg = cl.pkg /\ r.arg = arg
    BY <1>1, <2>2 DEF Call
  <2> HIDE DEF r
  <2>4. WellFormed(r.cmd, r.pkg, r.arg)
    BY <1>1, <2>2, <2>3 DEF WellFormed, FileCommands
  <2> QED
    BY <2>1, <2>2, <2>3, <2>4, ClientMoves DEF IInv
<1> QED
  BY <1>8, <1>10, <1>11

LEMMA RaiseStep ==
    ASSUME IInv, NEW c \in Clients, RaisePriority(c)
    PROVE  QueueInv' /\ TasksStay /\ ClientInv'
<1> DEFINE t == client[c].arg
           q == [task[t] EXCEPT !.prio = ListPriority]
<1>1. client' = [client EXCEPT ![c].pc = "status"] /\ nextId' = nextId
  BY DEF RaisePriority
<1>2. ClientInv'
  BY <1>1, ClientGoes DEF IInv, ClientPcs
<1>3. CASE t \notin Live
  BY <1>1, <1>2, <1>3, TasksUnchanged DEF RaisePriority, IInv
<1>4. CASE t \in Live
  <2>1. t \in TaskIds /\ task[t] \in TaskRow
    BY <1>4 DEF Live, IInv, QueueInv
  <2>2. task' = [task EXCEPT ![t] = q]
    BY <1>4, <2>1 DEF RaisePriority, IInv, QueueInv
  <2>3. q \in TaskRow /\ q.cmd = task[t].cmd /\ q.pkg = task[t].pkg /\ q.ver = task[t].ver
    BY <2>1 DEF TaskRow, ListPriority
  <2> HIDE DEF q
  <2> QED
    BY <1>1, <1>2, <2>1, <2>2, <2>3, TaskAltered DEF IInv
<1> QED
  BY <1>3, <1>4

(* The steps of a call that leave the queue alone. *)
LEMMA CallGoesOn ==
    ASSUME IInv, NEW c \in Clients, EndOfLoop(c) \/ UpdateStatus(c) \/ Notify(c)
    PROVE  QueueInv' /\ TasksStay /\ ClientInv'
<1>1. QueueInv' /\ TasksStay
  BY TasksUnchanged DEF EndOfLoop, UpdateStatus, Notify, queueVars, IInv
<1>2. CASE EndOfLoop(c)
  <2>1. CASE client[c].cmd = "remove"
    <3> DEFINE q == [client[c] EXCEPT !.pc = "insert"]
    <3>1. client[c] \in Call /\ client' = [client EXCEPT ![c] = q]
      BY <1>2, <2>1 DEF EndOfLoop, IInv, ClientInv
    <3>2. /\ q \in Call /\ q.cmd = client[c].cmd /\ q.pkg = client[c].pkg /\ q.arg = client[c].arg
          /\ q.cmd \in Scheduling
      BY <2>1, <3>1 DEF Call, ClientPcs, Scheduling
    <3>3. WellFormed(q.cmd, q.pkg, q.arg)
      BY <3>2 DEF IInv, ClientInv
    <3> HIDE DEF q
    <3> QED
      BY <1>1, <3>1, <3>2, <3>3, ClientMoves DEF IInv
  <2>2. CASE client[c].cmd # "remove"
    BY <1>1, <1>2, <2>2, ClientReturns DEF EndOfLoop, IInv
  <2> QED
    BY <2>1, <2>2
<1>3. CASE UpdateStatus(c)
  <2>1. CASE client[c].pc = "status"
    <3>1. client' = [client EXCEPT ![c].pc = "notify"]
      BY <1>3, <2>1 DEF UpdateStatus, IInv, ClientInv
    <3> QED
      BY <1>1, <3>1, ClientGoes DEF IInv, ClientPcs
  <2>2. CASE client[c].pc # "status"
    <3>1. client' = [client EXCEPT ![c].pc = "each"]
      BY <1>3, <2>2 DEF UpdateStatus, IInv, ClientInv
    <3> QED
      BY <1>1, <3>1, ClientGoes DEF IInv, ClientPcs
  <2> QED
    BY <2>1, <2>2
<1>4. CASE Notify(c)
  <2>1. CASE client[c].cmd \in {"cancel", "priority"}
    <3>1. client' = [client EXCEPT ![c].pc = "each"]
      BY <1>4, <2>1 DEF Notify, IInv, ClientInv
    <3> QED
      BY <1>1, <3>1, ClientGoes DEF IInv, ClientPcs
  <2>2. CASE client[c].cmd \notin {"cancel", "priority"}
    <3>1. client' = [client EXCEPT ![c] = IdleClient]
      BY <1>4, <2>2 DEF Notify, IInv, ClientInv
    <3> QED
      BY <1>1, <3>1, ClientReturns DEF IInv
  <2> QED
    BY <2>1, <2>2
<1> QED
  BY <1>2, <1>3, <1>4

LEMMA ContinueCallStep == ASSUME IInv, NEW c \in Clients, ContinueCall(c) PROVE IInv'
<1>1. QueueInv' /\ TasksStay /\ ClientInv'
  BY EachTaskStep, InsertTaskStep, RaiseStep, CallGoesOn DEF ContinueCall
<1>2. /\ UNCHANGED <<rows, file, local, fileMutex, opened, cached, active, delVers, listVars>>
      /\ wpc' = wpc \/ {wpc, wpc'} \subseteq {"off", "pick", "empty", "waiting"}
  BY DEF ContinueCall, EachTask, EndOfLoop, InsertTask, RaisePriority, UpdateStatus, Notify,
         storeVars, readerVars, workerVars
<1>3. StoreInv' /\ WorkerInv' /\ ReaderInv'
  BY <1>1, <1>2, Undisturbed
<1> QED
  BY <1>1, <1>2, <1>3 DEF IInv, Offers, listVars

-----------------------------------------------------------------------------
(* The worker, while it deletes nothing and has nothing to delete. *)

Plain == WorkerPcs \ {"notifyAdded", "delete", "notifyDeleted", "unlink"}

LEMMA FileOfTask ==
    ASSUME IInv, wpc \in FilePcs
    PROVE  /\ active \in Live /\ active \in TaskIds
           /\ aPkg \in Packages /\ aVer \in Versions /\ aFile \in Packages \X Versions
<1>1. active \in Live /\ task[active].cmd \in FileCommands
  BY DEF IInv, WorkerInv, FilePcs, Serving, WorkerPcs
<1>2. active \in TaskIds
  BY <1>1 DEF Live
<1>3. aPkg \in Packages /\ aVer \in Versions
  BY <1>1, <1>2 DEF IInv, QueueInv, WellFormed, aPkg, aVer
<1> QED
  BY <1>1, <1>2, <1>3 DEF aFile

LEMMA RestUnchanged ==
    ASSUME IInv, UNCHANGED <<task, nextId, client, list, published>>
    PROVE  /\ QueueInv' /\ ClientInv' /\ Offers' /\ Live' = Live
           /\ active' = active => aFile' = aFile /\ aPkg' = aPkg /\ aVer' = aVer
BY DEF IInv, QueueInv, ClientInv, Offers, Live, aFile, aPkg, aVer

LEMMA PlainStep ==
    ASSUME IInv, wpc \in Plain, wpc' \in Plain, UNCHANGED <<rows, local, fileMutex, opened, cached>>,
           NEW x \in {"none", "part", "full"}, NEW f \in {g \in Packages \X Versions : rows[g] # "valid"},
           file' = file \/ file' = [file EXCEPT ![f] = x]
    PROVE  StoreInv' /\ ReaderInv'
<1>1. /\ file' \in [Packages \X Versions -> {"none", "part", "full"}]
      /\ \A g \in Packages \X Versions : rows[g] = "valid" => file'[g] = file[g]
  BY DEF IInv, StoreInv
<1>2. StoreInv'
  BY <1>1 DEF IInv, StoreInv, ValidPackages
<1>3. wpc \notin Deleting /\ wpc' \notin Deleting /\ wpc' # "unlink" /\ wpc # "notifyDeleted"
  BY DEF Plain, Deleting
<1>4. \A g : ~Replaced(g)
  BY DEF Replaced, Plain
<1>5. InUse(opened)' /\ InUse(cached)'
  BY <1>1, <1>3, <1>4 DEF IInv, ReaderInv, InUse
<1> QED
  BY <1>2, <1>3, <1>5 DEF IInv, ReaderInv

(* The same when no file changes. *)
LEMMA PlainMove ==
    ASSUME IInv, wpc \in Plain, wpc' \in Plain,
           UNCHANGED <<rows, file, local, fileMutex, opened, cached>>
    PROVE  StoreInv' /\ ReaderInv'
<1>1. StoreInv'
  BY DEF IInv, StoreInv, ValidPackages
<1>2. wpc \notin Deleting /\ wpc' \notin Deleting /\ wpc' # "unlink" /\ wpc # "notifyDeleted"
  BY DEF Plain, Deleting
<1>3. \A g : ~Replaced(g)
  BY DEF Replaced, Plain
<1>4. InUse(opened)' /\ InUse(cached)'
  BY <1>2, <1>3 DEF IInv, ReaderInv, InUse
<1> QED
  BY <1>1, <1>2, <1>4 DEF IInv, ReaderInv

LEMMA PickTaskStep == IInv /\ PickTask => IInv'
<1> SUFFICES ASSUME IInv, PickTask PROVE IInv'
  OBVIOUS
<1> DEFINE t == ActiveTaskId(NoTaskId)
<1>1. /\ UNCHANGED <<task, nextId, client, list, published, rows, file, local, fileMutex, opened, cached,
                     delVers>>
      /\ wpc = "pick"
  BY DEF PickTask, Go, notStore, queueVars, listVars, readerVars, storeVars
<1>2. QueueInv' /\ ClientInv' /\ Offers' /\ Live' = Live
  BY <1>1, RestUnchanged
<1>3. \/ wpc' \in {"off", "empty"}
      \/ t # NoTaskId /\ wpc' = task[t].cmd /\ active' = t
  BY DEF PickTask, Go
<1>4. t # NoTaskId => t \in Live
  BY ActiveTaskIsLive DEF IInv
<1> HIDE DEF t
<1>5. CASE wpc' \in {"off", "empty"}
  <2>1. WorkerInv'
    BY <1>1, <1>5 DEF IInv, WorkerInv, WorkerPcs, Serving, FilePcs, Writing, Deleting
  <2>2. wpc \in Plain /\ wpc' \in Plain
    BY <1>1, <1>5 DEF Plain, WorkerPcs
  <2> QED
    BY <1>1, <1>2, <2>1, <2>2, PlainMove DEF IInv
<1>6. CASE t # NoTaskId /\ wpc' = task[t].cmd /\ active' = t
  <2>1. task[t].cmd \in FileCommands \cup {"list"}
    BY <1>4, <1>6 DEF Live, IInv, QueueInv, TaskRow
  <2>2. wpc \in Plain /\ wpc' \in Plain
    BY <1>1, <1>6, <2>1 DEF Plain, WorkerPcs, FileCommands
  <2>3. WorkerInv'
    BY <1>1, <1>2, <1>4, <1>6, <2>1
       DEF IInv, WorkerInv, WorkerPcs, FilePcs, Writing, Deleting, FileCommands
  <2> QED
    BY <1>1, <1>2, <2>2, <2>3, PlainMove DEF IInv
<1> QED
  BY <1>3, <1>5, <1>6

(* Waiting, and the end of a task. *)
LEMMA WaitStep == IInv /\ (WaitForTask \/ SpuriousWakeup) => IInv'
<1> SUFFICES ASSUME IInv, WaitForTask \/ SpuriousWakeup PROVE IInv'
  OBVIOUS
<1>1. /\ UNCHANGED <<task, nextId, client, list, published, rows, file, local, fileMutex, opened, cached,
                     active, delVers>>
      /\ {wpc, wpc'} \subseteq {"empty", "waiting", "pick"}
  BY DEF WaitForTask, SpuriousWakeup, Go, notStore, queueVars, listVars, readerVars, storeVars
<1>2. TasksStay /\ QueueInv' /\ ClientInv' /\ Offers'
  BY <1>1, RestUnchanged DEF TasksStay
<1>3. StoreInv' /\ WorkerInv' /\ ReaderInv'
  BY <1>1, <1>2, Undisturbed
<1> QED
  BY <1>2, <1>3 DEF IInv

LEMMA EndTaskStep == IInv /\ EndTask => IInv'
<1> SUFFICES ASSUME IInv, EndTask PROVE IInv'
  OBVIOUS
<1>1. /\ UNCHANGED <<nextId, client, list, published, rows, file, local, fileMutex, opened, cached, delVers>>
      /\ wpc \in {"finished", "failed", "canceled", "paused"} /\ wpc' = "pick"
      /\ task' = task \/ task' = [task EXCEPT ![active] = NoTask]
  BY DEF EndTask, listVars, readerVars, storeVars
<1>2. NoTask \in TaskRow /\ NoTask.cmd = "none"
  BY DEF NoTask, TaskRow
<1>3. active \in TaskIds
  BY <1>1 DEF IInv, WorkerInv, Serving, WorkerPcs, Live
<1>4. task' \in [TaskIds -> TaskRow] /\ \A t \in TaskIds : task'[t] = task[t] \/ task'[t] = NoTask
  BY <1>1, <1>2, <1>3 DEF IInv, QueueInv
<1>5. QueueInv'
  <2>1. Live' \subseteq Live
    BY <1>2, <1>4 DEF Live
  <2>2. \A t \in TaskIds : WellFormed(task'[t].cmd, task'[t].pkg, task'[t].ver)
    BY <1>2, <1>4 DEF IInv, QueueInv, WellFormed, FileCommands
  <2> QED
    BY <1>1, <1>4, <2>1, <2>2 DEF IInv, QueueInv
<1>6. ClientInv' /\ Offers'
  BY <1>1 DEF IInv, ClientInv, Offers
<1>7. WorkerInv'
  BY <1>1 DEF IInv, WorkerInv, WorkerPcs, Serving, FilePcs, Writing, Deleting
<1>8. wpc \in Plain /\ wpc' \in Plain
  BY <1>1 DEF Plain, WorkerPcs
<1> QED
  BY <1>1, <1>5, <1>6, <1>7, <1>8, PlainMove DEF IInv

(* Downloads and imports write the file of a package that is not installed. *)
LEMMA WritingStep ==
    ASSUME IInv, wpc \in FilePcs \cap Plain, wpc' \in Plain,
           UNCHANGED <<task, nextId, client, list, published, rows, local, fileMutex, opened, cached,
                       active, delVers>>,
           \/ file' = file
           \/ rows[aFile] # "valid" /\ \E x \in {"none", "part", "full"} : file' = [file EXCEPT ![aFile] = x],
           wpc' \in Writing => rows[aFile] # "valid",
           wpc' = "copied" => file'[aFile] # "none",
           wpc' \in {"insert", "mark"} => file'[aFile] = "full"
    PROVE  IInv'
<1>1. active \in Live /\ aFile \in Packages \X Versions /\ task[active].cmd \in FileCommands
  BY FileOfTask DEF IInv, WorkerInv
<1>2. QueueInv' /\ ClientInv' /\ Offers' /\ Live' = Live /\ aFile' = aFile /\ aPkg' = aPkg
  BY RestUnchanged
<1>3. WorkerInv'
  <2>1. wpc' \in WorkerPcs /\ wpc' \notin Deleting
    BY DEF Plain, Deleting
  <2> QED
    BY <1>1, <1>2, <2>1 DEF IInv, WorkerInv
<1>4. StoreInv' /\ ReaderInv'
  <2>1. CASE file' = file
    BY <2>1, PlainMove
  <2>2. CASE rows[aFile] # "valid" /\ \E x \in {"none", "part", "full"} : file' = [file EXCEPT ![aFile] = x]
    <3>1. PICK x \in {"none", "part", "full"} : file' = [file EXCEPT ![aFile] = x]
      BY <2>2
    <3>2. aFile \in {g \in Packages \X Versions : rows[g] # "valid"}
      BY <1>1, <2>2
    <3> QED
      BY <3>1, <3>2, PlainStep
  <2> QED
    BY <2>1, <2>2
<1> QED
  BY <1>2, <1>3, <1>4 DEF IInv

LEMMA DownloadStep ==
    IInv /\ (BeginDownload \/ ReceiveFile \/ BreakTransfer \/ AfterBreak \/ PauseOrRetry) => IInv'
<1> SUFFICES ASSUME IInv, BeginDownload \/ ReceiveFile \/ BreakTransfer \/ AfterBreak \/ PauseOrRetry
             PROVE  IInv'
  OBVIOUS
<1>1. /\ UNCHANGED <<task, nextId, client, list, published, rows, local, fileMutex, opened, cached,
                     active, delVers>>
      /\ wpc \in {"download", "transfer", "broken", "broken2"}
  BY DEF BeginDownload, ReceiveFile, BreakTransfer, AfterBreak, PauseOrRetry, Go,
         notStore, queueVars, listVars, readerVars, storeVars
<1>2. wpc \in FilePcs \cap Plain
  BY <1>1 DEF FilePcs, Plain, WorkerPcs
<1>3. aFile \in Packages \X Versions
  BY <1>2, FileOfTask
<1>4. file \in [Packages \X Versions -> {"none", "part", "full"}]
  BY DEF IInv, StoreInv
<1>5. wpc \in {"transfer", "broken", "broken2"} => rows[aFile] # "valid"
  BY DEF IInv, WorkerInv, Writing
<1>6. CASE BeginDownload
  <2>1. \/ wpc' \in {"failed", "finished"} /\ file' = file
        \/ wpc' = "insert" /\ file' = file /\ file[aFile] = "full" /\ rows[aFile] # "valid"
        \/ wpc' = "transfer" /\ rows[aFile] # "valid" /\ file' = [file EXCEPT ![aFile] = "part"]
    BY <1>6 DEF BeginDownload
  <2> QED
    BY <1>1, <1>2, <2>1, WritingStep DEF Plain, WorkerPcs, Writing
<1>7. CASE ReceiveFile
  <2>1. wpc' \in {"insert", "broken"} /\ rows[aFile] # "valid" /\ file' = [file EXCEPT ![aFile] = "full"]
    BY <1>5, <1>7 DEF ReceiveFile
  <2>2. file'[aFile] = "full"
    BY <1>3, <1>4, <2>1
  <2>3. wpc' \in Plain /\ wpc' # "copied"
    BY <2>1 DEF Plain, WorkerPcs
  <2> QED
    BY <1>1, <1>2, <2>1, <2>2, <2>3, WritingStep
<1>8. CASE BreakTransfer
  <2>1. wpc' = "broken" /\ rows[aFile] # "valid" /\ file' = file
    BY <1>5, <1>8 DEF BreakTransfer, Go, storeVars
  <2>2. wpc' \in Plain /\ wpc' \notin {"copied", "insert", "mark"}
    BY <2>1 DEF Plain, WorkerPcs
  <2> QED
    BY <1>1, <1>2, <2>1, <2>2, WritingStep
<1>9. CASE AfterBreak
  <2>1. /\ wpc' \in {"canceled", "broken2"} /\ rows[aFile] # "valid"
        /\ file' = file \/ file' = [file EXCEPT ![aFile] = "none"]
    BY <1>5, <1>9 DEF AfterBreak
  <2>2. wpc' \in Plain /\ wpc' \notin {"copied", "insert", "mark"}
    BY <2>1 DEF Plain, WorkerPcs
  <2> QED
    BY <1>1, <1>2, <2>1, <2>2, WritingStep
<1>10. CASE PauseOrRetry
  <2>1. /\ wpc' \in {"paused", "transfer", "failed"} /\ rows[aFile] # "valid"
        /\ file' = file \/ \E x \in {"part", "none"} : file' = [file EXCEPT ![aFile] = x]
    BY <1>5, <1>10 DEF PauseOrRetry
  <2>2. wpc' \in Plain /\ wpc' \notin {"copied", "insert", "mark"}
    BY <2>1 DEF Plain, WorkerPcs
  <2> QED
    BY <1>1, <1>2, <2>1, <2>2, WritingStep
<1> QED
  BY <1>6, <1>7, <1>8, <1>9, <1>10

LEMMA ImportStep == IInv /\ (BeginImport \/ AfterCopy) => IInv'
<1> SUFFICES ASSUME IInv, BeginImport \/ AfterCopy PROVE IInv'
  OBVIOUS
<1>1. /\ UNCHANGED <<task, nextId, client, list, published, rows, local, fileMutex, opened, cached,
                     active, delVers>>
      /\ wpc \in {"import", "copied"}
  BY DEF BeginImport, AfterCopy, notStore, queueVars, listVars, readerVars, storeVars
<1>2. wpc \in FilePcs \cap Plain
  BY <1>1 DEF FilePcs, Plain, WorkerPcs
<1>3. aFile \in Packages \X Versions
  BY <1>2, FileOfTask
<1>4. file \in [Packages \X Versions -> {"none", "part", "full"}]
  BY DEF IInv, StoreInv
<1>5. CASE BeginImport
  <2>1. CASE rows[aFile] = "valid"
    <3>1. wpc' = "finished" /\ file' = file
      BY <1>5, <2>1 DEF BeginImport
    <3>2. wpc' \in Plain /\ wpc' \notin {"copied", "insert", "mark"} /\ wpc' \notin Writing
      BY <3>1 DEF Plain, WorkerPcs, Writing
    <3> QED
      BY <1>1, <1>2, <3>1, <3>2, WritingStep
  <2>2. CASE rows[aFile] # "valid"
    <3>1. wpc' = "copied"
      BY <1>5, <2>2 DEF BeginImport
    <3>2. PICK r \in {"part", "full"} : file' = [file EXCEPT ![aFile] = r]
      BY <1>5, <2>2 DEF BeginImport
    <3>3. file'[aFile] # "none"
      BY <1>3, <1>4, <3>2
    <3>4. wpc' \in Plain /\ wpc' \notin {"insert", "mark"}
      BY <3>1 DEF Plain, WorkerPcs
    <3> QED
      BY <1>1, <1>2, <2>2, <3>2, <3>3, <3>4, WritingStep
  <2> QED
    BY <2>1, <2>2
<1>6. CASE AfterCopy
  <2>1. rows[aFile] # "valid" /\ file[aFile] # "none"
    BY <1>6 DEF AfterCopy, IInv, WorkerInv, Writing
  <2>2. \/ wpc' \in {"canceled", "failed"} /\ file' = [file EXCEPT ![aFile] = "none"]
        \/ wpc' = "insert" /\ file' = file /\ file[aFile] # "part"
    BY <1>6 DEF AfterCopy
  <2>3. wpc' \in Plain /\ wpc' # "copied"
    BY <2>2 DEF Plain, WorkerPcs
  <2>4. wpc' \in {"insert", "mark"} => file'[aFile] = "full"
    BY <1>3, <1>4, <2>1, <2>2
  <2> QED
    BY <1>1, <1>2, <2>1, <2>2, <2>3, <2>4, WritingStep
<1> QED
  BY <1>5, <1>6

LEMMA InsertRowStep == IInv /\ InsertRow => IInv'
<1> SUFFICES ASSUME IInv, InsertRow PROVE IInv'
  OBVIOUS
<1>1. /\ UNCHANGED <<task, nextId, client, list, published, file, local, fileMutex, opened, cached,
                     active, delVers>>
      /\ wpc = "insert" /\ wpc' = "mark"
      /\ rows' = [rows EXCEPT ![aFile] = IF @ = "none" THEN "invalid" ELSE @]
  BY DEF InsertRow, Go, notStore, queueVars, listVars, readerVars
<1>2. /\ wpc \in FilePcs /\ wpc' \in Serving /\ wpc' \in FilePcs /\ wpc' \notin Deleting
      /\ wpc \in Writing /\ wpc' # "copied"
  BY <1>1 DEF FilePcs, Serving, WorkerPcs, Writing, Deleting
<1>3. active \in Live /\ aFile \in Packages \X Versions
  BY <1>2, FileOfTask
<1>4. QueueInv' /\ ClientInv' /\ Offers' /\ Live' = Live /\ aFile' = aFile
  BY <1>1, RestUnchanged
<1>5. /\ rows' \in [Packages \X Versions -> {"none", "invalid", "valid"}]
      /\ \A g \in Packages \X Versions : (rows'[g] = "valid") <=> (rows[g] = "valid")
  BY <1>1, <1>3 DEF IInv, StoreInv
<1>6. StoreInv'
  <2>1. ValidPackages(rows') = ValidPackages(rows)
    BY <1>5 DEF ValidPackages
  <2> QED
    BY <1>1, <1>5, <2>1 DEF IInv, StoreInv
<1>7. WorkerInv'
  BY <1>1, <1>2, <1>3, <1>4, <1>5 DEF IInv, WorkerInv, WorkerPcs
<1>8. ReaderInv'
  <2>1. wpc \notin Deleting /\ wpc' \notin Deleting /\ \A g : ~Replaced(g)
    BY <1>1 DEF Deleting, Replaced
  <2>2. InUse(opened)' /\ InUse(cached)'
    BY <1>1, <1>5, <2>1 DEF IInv, ReaderInv, InUse
  <2> QED
    BY <1>1, <1>2, <2>1, <2>2 DEF IInv, ReaderInv
<1> QED
  BY <1>4, <1>6, <1>7, <1>8 DEF IInv

(* The package handler rejects the file. *)
LEMMA ImportFailsStep == IInv /\ ImportFails => IInv'
<1> SUFFICES ASSUME IInv, ImportFails PROVE IInv'
  OBVIOUS
<1>1. /\ UNCHANGED <<task, nextId, client, list, published, rows, local, fileMutex, opened, cached,
                     active, delVers>>
      /\ wpc = "mark" /\ wpc' = "failed" /\ file' = [file EXCEPT ![aFile] = "none"]
  BY DEF ImportFails, Go, notStore, queueVars, listVars, readerVars
<1>2. /\ wpc \in FilePcs \cap Plain /\ wpc \in Writing
      /\ wpc' \in Plain /\ wpc' \notin Writing /\ wpc' \notin {"copied", "insert", "mark"}
  BY <1>1 DEF FilePcs, Plain, WorkerPcs, Writing
<1>3. rows[aFile] # "valid"
  BY <1>2 DEF IInv, WorkerInv
<1> QED
  BY <1>1, <1>2, <1>3, WritingStep

(* The switch to the new version: the old ones are to be deleted. *)
LEMMA ImportLocalPackageStep == IInv /\ importLocalPackage => IInv'
<1> SUFFICES ASSUME IInv, importLocalPackage PROVE IInv'
  OBVIOUS
<1>1. /\ UNCHANGED <<task, nextId, client, list, published, file, fileMutex, opened, cached, active>>
      /\ wpc = "mark" /\ wpc' = "notifyAdded"
      /\ rows' = WithOnlyValid(rows, aPkg, aVer) /\ local' = ValidPackages(rows')
      /\ delVers' = {v \in Versions : rows'[<<aPkg, v>>] = "invalid"}
  BY DEF importLocalPackage, Go, notStore, queueVars, listVars, readerVars
<1>2. /\ wpc \in FilePcs /\ wpc' \in Serving /\ wpc' \in FilePcs
      /\ wpc' \notin Writing \cup Deleting \cup {"copied", "insert", "mark"} /\ wpc \notin Deleting
  BY <1>1 DEF FilePcs, Serving, WorkerPcs, Writing, Deleting
<1>3. active \in Live /\ aFile \in Packages \X Versions /\ task[active].cmd \in FileCommands
  BY <1>2, FileOfTask DEF IInv, WorkerInv
<1>4. QueueInv' /\ ClientInv' /\ Offers' /\ Live' = Live /\ aFile' = aFile /\ aPkg' = aPkg
  BY <1>1, RestUnchanged
<1>5. rows \in [Packages \X Versions -> {"none", "invalid", "valid"}]
  BY DEF IInv, StoreInv
<1>6. /\ rows' \in [Packages \X Versions -> {"none", "invalid", "valid"}]
      /\ \A g \in Packages \X Versions :
            /\ rows'[g] = "valid" => rows[g] = "valid" \/ g = aFile
            /\ rows[g] = "valid" => rows'[g] = "valid" \/ (rows'[g] = "invalid" /\ g[1] = aPkg)
  BY <1>1, <1>5 DEF WithOnlyValid, aFile
<1>7. StoreInv'
  <2>1. file[aFile] = "full"
    BY <1>1 DEF IInv, WorkerInv
  <2> QED
    BY <1>1, <1>6, <2>1 DEF IInv, StoreInv
<1>8. WorkerInv'
  <2>1. delVers' \in SUBSET Versions
    BY <1>1
  <2> QED
    BY <1>1, <1>2, <1>3, <1>4, <2>1 DEF IInv, WorkerInv, WorkerPcs
<1>9. ReaderInv'
  <2>1. \A g : ~Replaced(g)
    BY <1>1 DEF Replaced
  <2>2. opened \cup cached \subseteq Packages \X Versions
    BY DEF IInv, ReaderInv
  <2>3. \A g \in opened \cup cached : file[g] = "full" /\ rows[g] = "valid"
    BY <1>1, <2>1 DEF IInv, ReaderInv, InUse
  <2>4. ASSUME NEW g \in opened \cup cached PROVE file'[g] = "full" /\ (rows'[g] = "valid" \/ Replaced(g)')
    <3>1. CASE rows'[g] = "valid"
      BY <1>1, <2>3, <3>1
    <3>2. CASE rows'[g] = "invalid" /\ g[1] = aPkg
      <4>1. g = <<aPkg, g[2]>> /\ g[2] \in Versions
        BY <2>2, <2>4, <3>2
      <4>2. g[2] \in delVers'
        BY <1>1, <3>2, <4>1
      <4> QED
        BY <1>1, <1>4, <2>3, <2>4, <3>2, <4>2 DEF Replaced
    <3> QED
      BY <1>6, <2>2, <2>3, <2>4, <3>1, <3>2
  <2>5. InUse(opened)' /\ InUse(cached)'
    BY <1>1, <2>4 DEF InUse
  <2> QED
    BY <1>1, <1>2, <2>2, <2>5 DEF IInv, ReaderInv
<1> QED
  BY <1>4, <1>7, <1>8, <1>9 DEF IInv

-----------------------------------------------------------------------------
(* Deletions: the row, the listeners, the file. *)

LEMMA NotifyAddedStep == IInv /\ NotifyAdded => IInv'
<1> SUFFICES ASSUME IInv, NotifyAdded PROVE IInv'
  OBVIOUS
<1>1. /\ UNCHANGED <<task, nextId, client, list, published, rows, file, local, fileMutex, opened,
                     active, delVers>>
      /\ wpc = "notifyAdded" /\ wpc' = "delete" /\ cached' = {}
  BY DEF NotifyAdded, Go, queueVars, storeVars, listVars
<1>2. /\ wpc \in FilePcs /\ wpc' \in Serving /\ wpc' \in FilePcs
      /\ wpc' \notin Writing \cup Deleting \cup {"copied", "insert", "mark"} /\ wpc \notin Deleting
  BY <1>1 DEF FilePcs, Serving, WorkerPcs, Writing, Deleting
<1>3. active \in Live /\ task[active].cmd \in FileCommands
  BY <1>2, FileOfTask DEF IInv, WorkerInv
<1>4. QueueInv' /\ ClientInv' /\ Offers' /\ Live' = Live /\ aPkg' = aPkg
  BY <1>1, RestUnchanged
<1>5. StoreInv' /\ WorkerInv'
  BY <1>1, <1>2, <1>3, <1>4 DEF IInv, StoreInv, ValidPackages, WorkerInv, WorkerPcs
<1>6. InUse(opened)'
  BY <1>1, <1>4 DEF IInv, ReaderInv, InUse, Replaced
<1>7. ReaderInv'
  BY <1>1, <1>2, <1>6 DEF IInv, ReaderInv, InUse
<1> QED
  BY <1>4, <1>5, <1>7 DEF IInv

LEMMA DeleteRowStep == IInv /\ DeleteRow => IInv'
<1> SUFFICES ASSUME IInv, DeleteRow PROVE IInv'
  OBVIOUS
<1> DEFINE old == <<aPkg, Min(delVers)>>
<1>1. /\ UNCHANGED <<task, nextId, client, list, published, file, opened, cached, active, delVers>>
      /\ wpc = "delete" /\ wpc' = "notifyDeleted" /\ delVers # {}
      /\ fileMutex = "free" /\ fileMutex' = "worker"
      /\ rows' = [rows EXCEPT ![old] = "none"] /\ local' = ValidPackages(rows')
  BY DEF DeleteRow, queueVars, listVars
<1>2. /\ wpc \in FilePcs /\ wpc' \in Serving /\ wpc' \in FilePcs /\ wpc' \in Deleting
      /\ wpc' \notin Writing \cup {"copied", "insert", "mark"}
  BY <1>1 DEF FilePcs, Serving, WorkerPcs, Writing, Deleting
<1>3. active \in Live /\ aPkg \in Packages /\ task[active].cmd \in FileCommands
  BY <1>2, FileOfTask DEF IInv, WorkerInv
<1>4. QueueInv' /\ ClientInv' /\ Offers' /\ Live' = Live /\ aPkg' = aPkg
  BY <1>1, RestUnchanged
<1>5. delVers \in SUBSET Versions /\ Versions \subseteq Nat
  BY DEF IInv, WorkerInv, Versions
<1>6. Min(delVers) \in delVers
  BY <1>1, <1>5, MinIsLeast
<1>7. old \in Packages \X Versions
  BY <1>3, <1>5, <1>6
<1>8. rows'[old] = "none" /\ old' = old
  BY <1>1, <1>4, <1>7 DEF IInv, StoreInv
<1>9. StoreInv'
  <2>1. rows' \in [Packages \X Versions -> {"none", "invalid", "valid"}]
    BY <1>1, <1>7 DEF IInv, StoreInv
  <2>2. \A g \in Packages \X Versions : rows'[g] = "valid" => rows[g] = "valid"
    BY <1>1, <1>7 DEF IInv, StoreInv
  <2> HIDE DEF old
  <2> QED
    BY <1>1, <2>1, <2>2 DEF IInv, StoreInv
<1>10. WorkerInv'
  BY <1>1, <1>2, <1>3, <1>4, <1>5, <1>8 DEF WorkerInv, WorkerPcs
<1>11. ReaderInv'
  BY <1>1, <1>2 DEF IInv, ReaderInv, InUse
<1> QED
  BY <1>4, <1>9, <1>10, <1>11 DEF IInv

LEMMA NotifyDeletedStep == IInv /\ NotifyDeleted => IInv'
<1> SUFFICES ASSUME IInv, NotifyDeleted PROVE IInv'
  OBVIOUS
<1>1. /\ UNCHANGED <<task, nextId, client, list, published, rows, file, local, fileMutex, opened,
                     active, delVers>>
      /\ wpc = "notifyDeleted" /\ wpc' = "unlink" /\ cached' = {}
  BY DEF NotifyDeleted, Go, queueVars, storeVars, listVars
<1>2. /\ wpc \in FilePcs /\ wpc' \in Serving /\ wpc' \in FilePcs /\ {wpc, wpc'} \subseteq Deleting
      /\ wpc' \notin Writing \cup {"copied", "insert", "mark"}
  BY <1>1 DEF FilePcs, Serving, WorkerPcs, Writing, Deleting
<1>3. active \in Live /\ task[active].cmd \in FileCommands
  BY <1>2, FileOfTask DEF IInv, WorkerInv
<1>4. QueueInv' /\ ClientInv' /\ Offers' /\ Live' = Live /\ aPkg' = aPkg
  BY <1>1, RestUnchanged
<1>5. StoreInv' /\ WorkerInv'
  BY <1>1, <1>2, <1>3, <1>4 DEF IInv, StoreInv, ValidPackages, WorkerInv, WorkerPcs
<1>6. opened = {}
  BY <1>2 DEF IInv, ReaderInv
<1>7. ReaderInv'
  BY <1>1, <1>2, <1>6 DEF IInv, ReaderInv, InUse
<1> QED
  BY <1>4, <1>5, <1>7 DEF IInv

LEMMA UnlinkFileStep == IInv /\ UnlinkFile => IInv'
<1> SUFFICES ASSUME IInv, UnlinkFile PROVE IInv'
  OBVIOUS
<1> DEFINE old == <<aPkg, Min(delVers)>>
<1>1. /\ UNCHANGED <<task, nextId, client, list, published, rows, local, opened, cached, active>>
      /\ wpc = "unlink" /\ wpc' = "delete" /\ fileMutex' = "free"
      /\ file' = [file EXCEPT ![old] = "none"] /\ delVers' = delVers \ {Min(delVers)}
  BY DEF UnlinkFile, Go, queueVars, listVars
<1>2. /\ wpc \in FilePcs /\ wpc' \in Serving /\ wpc' \in FilePcs /\ wpc \in Deleting
      /\ wpc' \notin Writing \cup Deleting \cup {"copied", "insert", "mark"}
  BY <1>1 DEF FilePcs, Serving, WorkerPcs, Writing, Deleting
<1>3. active \in Live /\ task[active].cmd \in FileCommands
  BY <1>2, FileOfTask DEF IInv, WorkerInv
<1>4. QueueInv' /\ ClientInv' /\ Offers' /\ Live' = Live
  BY <1>1, RestUnchanged
<1>5. rows[old] = "none"
  BY <1>2 DEF IInv, WorkerInv
<1> HIDE DEF old
<1>6. /\ file' \in [Packages \X Versions -> {"none", "part", "full"}]
      /\ \A g \in Packages \X Versions : g # old => file'[g] = file[g]
  BY <1>1 DEF IInv, StoreInv
<1>7. StoreInv'
  BY <1>1, <1>5, <1>6 DEF IInv, StoreInv, ValidPackages
<1>8. WorkerInv'
  BY <1>1, <1>2, <1>3, <1>4 DEF IInv, WorkerInv, WorkerPcs
<1>9. opened = {} /\ cached = {}
  BY <1>1, <1>2 DEF IInv, ReaderInv, Deleting
<1>10. ReaderInv'
  BY <1>1, <1>2, <1>9 DEF ReaderInv, InUse
<1> QED
  BY <1>4, <1>7, <1>8, <1>10 DEF IInv

LEMMA DeletedAllStep == IInv /\ DeletedAll => IInv'
<1> SUFFICES ASSUME IInv, DeletedAll PROVE IInv'
  OBVIOUS
<1>1. /\ UNCHANGED <<task, nextId, client, list, published, rows, file, local, fileMutex, opened, cached,
                     active, delVers>>
      /\ wpc = "delete" /\ wpc' = "finished" /\ delVers = {}
  BY DEF DeletedAll, Go, notStore, queueVars, storeVars, listVars, readerVars
<1>2. /\ wpc \in FilePcs /\ wpc \notin Deleting
      /\ wpc' \notin FilePcs \cup Writing \cup Deleting \cup {"copied", "insert", "mark"}
  BY <1>1 DEF FilePcs, Writing, Deleting
<1>3. active \in Live
  BY <1>2, FileOfTask
<1>4. QueueInv' /\ ClientInv' /\ Offers' /\ Live' = Live
  BY <1>1, RestUnchanged
<1>5. StoreInv' /\ WorkerInv'
  BY <1>1, <1>2, <1>3, <1>4 DEF IInv, StoreInv, ValidPackages, WorkerInv, WorkerPcs
<1>6. \A g : ~Replaced(g)
  BY <1>1 DEF Replaced
<1>7. InUse(opened)' /\ InUse(cached)'
  BY <1>1, <1>6 DEF IInv, ReaderInv, InUse
<1>8. ReaderInv'
  BY <1>1, <1>2, <1>7 DEF IInv, ReaderInv
<1> QED
  BY <1>4, <1>5, <1>8 DEF IInv

LEMMA BeginRemoveStep == IInv /\ BeginRemove => IInv'
<1> SUFFICES ASSUME IInv, BeginRemove PROVE IInv'
  OBVIOUS
<1>1. /\ UNCHANGED <<task, nextId, client, list, published, rows, file, local, fileMutex, opened, cached,
                     active>>
      /\ wpc = "remove"
      /\ \/ wpc' \in {"canceled", "failed"} /\ delVers' = delVers
         \/ wpc' = "delete" /\ delVers' = {aVer}
  BY DEF BeginRemove, notStore, queueVars, storeVars, listVars, readerVars
<1>2. /\ wpc \in FilePcs /\ wpc \notin Deleting
      /\ wpc' \notin Writing \cup Deleting \cup {"copied", "insert", "mark"}
  BY <1>1 DEF FilePcs, Writing, Deleting
<1>3. active \in Live /\ aVer \in Versions /\ task[active].cmd \in FileCommands
  BY <1>2, FileOfTask DEF IInv, WorkerInv
<1>4. QueueInv' /\ ClientInv' /\ Offers' /\ Live' = Live
  BY <1>1, RestUnchanged
<1>5. StoreInv' /\ WorkerInv'
  BY <1>1, <1>2, <1>3, <1>4 DEF IInv, StoreInv, ValidPackages, WorkerInv, WorkerPcs
<1>6. \A g : ~Replaced(g)
  BY <1>1 DEF Replaced
<1>7. InUse(opened)' /\ InUse(cached)'
  BY <1>1, <1>6 DEF IInv, ReaderInv, InUse
<1>8. ReaderInv'
  BY <1>1, <1>2, <1>7 DEF IInv, ReaderInv, Deleting
<1> QED
  BY <1>4, <1>5, <1>8 DEF IInv

-----------------------------------------------------------------------------
LEMMA ListStep == IInv /\ (FetchList \/ UnlinkList \/ RenameList) => IInv'
<1> SUFFICES ASSUME IInv, FetchList \/ UnlinkList \/ RenameList PROVE IInv'
  OBVIOUS
<1>1. /\ UNCHANGED <<task, nextId, client, published, rows, file, local, fileMutex, opened, cached,
                     active, delVers>>
      /\ wpc \in {"list", "saveList", "listGap"}
      /\ wpc' \in {"saveList", "canceled", "paused", "failed", "listGap", "finished"}
      /\ list' \in {list, [p \in Packages |-> 0], published}
  BY DEF FetchList, UnlinkList, RenameList, Go, notStore, queueVars, storeVars, listVars, readerVars
<1>2. QueueInv' /\ ClientInv' /\ Live' = Live
  BY <1>1 DEF IInv, QueueInv, ClientInv, Live
<1>3. Offers'
  <2>1. 0 \in 0 .. MaxVersion /\ Versions \subseteq 0 .. MaxVersion
    BY BoundsAssumption DEF Versions
  <2> QED
    BY <1>1, <2>1 DEF IInv, Offers
<1>4. active \in Live
  BY <1>1 DEF IInv, WorkerInv, Serving, WorkerPcs
<1>5. wpc' \in WorkerPcs /\ wpc' \notin FilePcs \cup Writing \cup Deleting \cup {"copied", "insert", "mark"}
  BY <1>1 DEF WorkerPcs, FilePcs, Writing, Deleting
<1>6. WorkerInv'
  BY <1>1, <1>2, <1>4, <1>5 DEF IInv, WorkerInv
<1>7. wpc \in Plain /\ wpc' \in Plain
  BY <1>1 DEF Plain, WorkerPcs
<1> QED
  BY <1>1, <1>2, <1>3, <1>6, <1>7, PlainMove DEF IInv

LEMMA ReaderStep == IInv /\ Reader => IInv'
<1> SUFFICES ASSUME IInv, Reader PROVE IInv'
  OBVIOUS
<1>1. UNCHANGED <<task, nextId, client, list, published, rows, file, local, wpc, active, delVers>>
  BY DEF Reader, BeginAccess, EndAccess, queueVars, storeVars, listVars, workerVars
<1>2. QueueInv' /\ ClientInv' /\ Offers' /\ Live' = Live /\ aFile' = aFile /\ aPkg' = aPkg
  BY <1>1, RestUnchanged
<1>3. StoreInv' /\ WorkerInv'
  BY <1>1, <1>2 DEF IInv, StoreInv, ValidPackages, WorkerInv
<1>4. \A g : Replaced(g)' <=> Replaced(g)
  BY <1>1, <1>2 DEF Replaced
<1>5. CASE BeginAccess
  <2>1. opened' = local /\ cached' = cached /\ fileMutex = "free" /\ fileMutex' = "reader"
    BY <1>5 DEF BeginAccess
  <2>2. local \subseteq Packages \X Versions /\ \A g \in local : rows[g] = "valid" /\ file[g] = "full"
    BY DEF IInv, StoreInv, ValidPackages
  <2>3. InUse(opened)' /\ (wpc' # "notifyDeleted" => InUse(cached)')
    BY <1>1, <1>4, <2>1, <2>2 DEF IInv, ReaderInv, InUse
  <2>4. ReaderInv'
    BY <1>1, <2>1, <2>2, <2>3 DEF IInv, ReaderInv
  <2> QED
    BY <1>2, <1>3, <2>4 DEF IInv
<1>6. CASE EndAccess
  <2>1. /\ fileMutex = "reader" /\ fileMutex' = "free" /\ opened' = {}
        /\ cached' \subseteq cached \cup opened
    BY <1>6 DEF EndAccess
  <2>2. wpc \notin Deleting /\ wpc \notin {"notifyDeleted", "unlink"}
    BY <2>1 DEF IInv, ReaderInv, Deleting
  <2>3. InUse(cached)'
    BY <1>1, <1>4, <2>1, <2>2 DEF IInv, ReaderInv, InUse
  <2>4. InUse(opened)' /\ opened' \subseteq Packages \X Versions /\ cached' \subseteq Packages \X Versions
    BY <2>1 DEF IInv, ReaderInv, InUse
  <2>5. ReaderInv'
    BY <1>1, <2>1, <2>2, <2>3, <2>4 DEF ReaderInv
  <2> QED
    BY <1>2, <1>3, <2>5 DEF IInv
<1> QED
  BY <1>5, <1>6 DEF Reader

-----------------------------------------------------------------------------
LEMMA NextIInv == IInv /\ [Next]_vars => IInv'
<1> SUFFICES ASSUME IInv, [Next]_vars PROVE IInv'
  OBVIOUS
<1>1. CASE Worker
  BY <1>1, PickTaskStep, WaitStep, DownloadStep, ImportStep, InsertRowStep, ImportLocalPackageStep, ImportFailsStep,
     NotifyAddedStep, DeleteRowStep, NotifyDeletedStep, UnlinkFileStep, DeletedAllStep,
     BeginRemoveStep, ListStep, EndTaskStep
     DEF Worker
<1>2. ASSUME NEW c \in Clients, BeginCall(c) \/ ContinueCall(c) PROVE IInv'
  BY <1>2, BeginCallStep, ContinueCallStep
<1>3. CASE UNCHANGED vars
  <2>1. TasksStay /\ QueueInv' /\ ClientInv' /\ Offers'
    BY <1>3, RestUnchanged DEF vars, TasksStay
  <2>2. StoreInv' /\ WorkerInv' /\ ReaderInv'
    BY <1>3, <2>1, Undisturbed DEF vars
  <2> QED
    BY <2>1, <2>2 DEF IInv
<1> QED
  BY <1>1, <1>2, <1>3, StartStopStep, CrashStep, WaitStep, ReaderStep DEF Next

(* The inductive invariant: what the queue and the calls name exists, and  *)
(* the worker's place tells the state of the row and of the file it is on. *)
THEOREM Invariance == Spec => []IInv
<1> QED
  BY InitIInv, NextIInv, PTL DEF Spec

(* downloadPackage, importPackage, importLocalPackage, deleteLocalPackage: *)
(* wherever the process is killed, every valid row has its whole file.     *)
THEOREM InstalledKeepsFile == Spec => []InstalledHasFile
<1>1. IInv => InstalledHasFile
  BY DEF IInv, StoreInv, InstalledHasFile, ValidPackages
<1> QED
  BY <1>1, Invariance, PTL

(* accessLocalPackages and onPackagesChanged against deleteLocalPackage:   *)
(* no file is removed, or written over, under a reader.                    *)
THEOREM OpenKeepsFile == Spec => []OpenHasFile
<1>1. IInv => OpenHasFile
  BY DEF IInv, ReaderInv, InUse, Replaced, OpenHasFile
<1> QED
  BY <1>1, Invariance, PTL

-----------------------------------------------------------------------------
(***************************************************************************)
(* The queue and its worker: the tasks of a package end in order, what the *)
(* listener is told is true, the worker does not sleep on work, and, if    *)
(* the process is not killed and the list does not change, no file is left *)
(* behind.                                                                 *)
(***************************************************************************)
Fetching == {"download", "transfer", "broken", "broken2"}
Importing == {"import", "copied"}
Installing == {"insert", "mark", "notifyAdded"}
Deletion == {"delete", "notifyDeleted", "unlink"}
Listing == {"list", "saveList", "listGap"}
Resting == {"off", "pick", "empty", "waiting"}

(* What TypeOK says beyond the inductive invariant, and for the arguments  *)
(* of the calls under way.                                                 *)
TypeInv ==
    /\ task \in [TaskIds -> TaskRecord]
    /\ nextId \in 1 .. MaxTasks + 1
    /\ stopped \in BOOLEAN
    /\ fileMutex \in {"free", "worker", "reader"}
    /\ active \in TaskIds \cup {NoTaskId}
    /\ retry \in 0 .. 1
    /\ crashes \in 0 .. MaxCrashes
    /\ unfit \in SUBSET (Packages \X Versions)
    /\ \A c \in Clients : /\ client[c].cmd = "priority" => client[c].arg \in Priorities
                          /\ client[c].pc = "insert" => client[c].arg \in 0 .. MaxVersion

(* The worker is where its task takes it. *)
PlaceInv ==
    /\ wpc \in Fetching => task[active].cmd = "download"
    /\ wpc \in Importing => task[active].cmd = "import"
    /\ wpc \in Installing => task[active].cmd \in {"download", "import"}
    /\ wpc \in Deletion => task[active].cmd \in {"download", "import", "remove"}
    /\ wpc = "remove" => task[active].cmd = "remove"
    /\ wpc \in Listing => task[active].cmd = "list"

(* The task that is served is the first of its package. *)
IsFirst(t) == \A u \in Live : task[u].pkg = task[t].pkg => t <= u
FirstInv == wpc \in Serving => IsFirst(active)

(* What has been done for the task by the time the worker is where it is. *)
Installed == rows[aFile] = "valid"
Gone == rows[aFile] = "none" /\ file[aFile] = "none"
ReportInv ==
    /\ wpc \in Deletion \cup {"notifyAdded"} /\ task[active].cmd # "remove" =>
          Installed /\ aVer \notin delVers
    /\ wpc \in Deletion /\ task[active].cmd = "remove" =>
          delVers \subseteq {aVer} /\ (delVers = {} => Gone)
    /\ wpc = "finished" /\ task[active].cmd \in {"download", "import"} => Installed
    /\ wpc = "finished" /\ task[active].cmd = "remove" => Gone
    /\ wpc = "mark" => rows[aFile] # "none"
    /\ wpc = "canceled" /\ task[active].cmd \in {"download", "import"} =>
          ~Installed /\ file[aFile] = "none"

(* The callers on their way to _mutex, and those on their way to notify. *)
ToUpdate(c) == client[c].pc \in {"raise", "status"}
                 \/ (client[c].cmd = "remove" /\ client[c].pc # "notify")
ToNotify(c) == client[c].pc \in {"raise", "status", "notify"} \/ client[c].cmd = "remove"
IdleInv == \A c \in Clients : client[c].pc = "idle" => client[c].cmd = "none"
WakeInv ==
    /\ wpc = "empty" /\ Runnable # {} => \E c \in Clients : ToUpdate(c)
    /\ wpc = "waiting" /\ Runnable # {} => \E c \in Clients : ToNotify(c)

(* Unless the process was killed or the list may change, a download is of  *)
(* the version that the list offers.                                       *)
Quiet == crashes = 0 /\ "list" \notin Commands
OfferedCall(c) == /\ client[c].cmd = "download" => list[client[c].pkg] = client[c].arg
                  /\ client[c].cmd # "list"
OfferedTask(t) == /\ task[t].cmd = "download" => list[task[t].pkg] = task[t].ver
                  /\ task[t].cmd # "list"
OfferInv == Quiet => (\A c \in Clients : OfferedCall(c)) /\ (\A t \in Live : OfferedTask(t))

(* Then a row that is not valid is work in progress of the worker, or was  *)
(* left by a failed import, and the file of such a row, or one that has no *)
(* row, is work in progress or kept for a download that is in the queue.   *)
Kept(pv) == \E t \in Live : task[t].cmd = "download" /\ <<task[t].pkg, task[t].ver>> = pv /\ IsFirst(t)
BusyRow(pv) == \/ wpc = "mark" /\ pv = aFile
               \/ wpc \in Deletion \cup {"notifyAdded"} /\ pv[1] = aPkg /\ pv[2] \in delVers
BusyFile(pv) == \/ wpc \in {"copied", "insert", "mark"} /\ pv = aFile
                \/ wpc \in Deleting /\ pv = <<aPkg, Min(delVers)>>
                \/ Kept(pv)
RowsBusy ==
    /\ \A pv \in Packages \X Versions : rows[pv] = "invalid" => BusyRow(pv) \/ pv \in unfit
    /\ \A pv \in Packages \X Versions : rows[pv] = "valid" => pv \notin unfit
Unused(pv) == rows[pv] = "none" \/ pv \in unfit
FilesBusy == \A pv \in Packages \X Versions : file[pv] # "none" /\ Unused(pv) => BusyFile(pv)
FailedGone == wpc = "failed" /\ task[active].cmd = "download" => file[aFile] = "none"
OrphanInv == Quiet => RowsBusy /\ FilesBusy /\ FailedGone

QInv == /\ TypeInv /\ PlaceInv /\ FirstInv /\ ReportInv /\ IdleInv /\ WakeInv
        /\ OfferInv /\ OrphanInv

-----------------------------------------------------------------------------
(* The queue serves the first task of a package, if any task may be served. *)

LEMMA MinIsLowerBound ==
    ASSUME NEW S \in SUBSET Nat, S # {}
    PROVE  Min(S) \in S /\ \A y \in S : Min(S) <= y
BY LeastElement DEF Min

LEMMA ActiveTaskIsFirst ==
    ASSUME QueueInv, NEW cur, Runnable # {}
    PROVE  ActiveTaskId(cur) \in Live /\ IsFirst(ActiveTaskId(cur))
<1> DEFINE best == CHOOSE t \in Runnable : \A u \in Runnable \ {t} : ServedBefore(t, u, cur)
           T == TasksOf(task[best].pkg)
<1>1. ActiveTaskId(cur) = Min(T)
  BY DEF ActiveTaskId
<1>2. best \in Runnable
  BY SomeTaskIsFirst
<1>3. best \in T
  BY <1>2 DEF Runnable, TasksOf
<1> HIDE DEF best
<1>4. T \subseteq Live /\ Live \subseteq Nat
  BY BoundsAssumption DEF TasksOf, Live, TaskIds
<1>5. Min(T) \in T /\ \A y \in T : Min(T) <= y
  BY <1>3, <1>4, MinIsLowerBound
<1>6. Min(T) \in Live /\ task[Min(T)].pkg = task[best].pkg
  BY <1>4, <1>5 DEF TasksOf
<1>7. \A u \in Live : task[u].pkg = task[Min(T)].pkg => u \in T
  BY <1>6 DEF TasksOf
<1> QED
  BY <1>1, <1>5, <1>6, <1>7 DEF IsFirst

LEMMA IdleQueue ==
    ASSUME QueueInv, ActiveTaskId(NoTaskId) = NoTaskId
    PROVE  Runnable = {}
<1>1. NoTaskId \notin Live
  BY BoundsAssumption DEF Live, TaskIds, NoTaskId
<1> QED
  BY <1>1, ActiveTaskIsFirst

(* New tasks come last. *)
NewTasksLast == \A u \in Live' \ Live : \A t \in Live : t < u

LEMMA QueueGrows ==
    ASSUME IInv, NEW c \in Clients, ContinueCall(c)
    PROVE  TasksStay /\ NewTasksLast
<1>1. TasksStay
  BY EachTaskStep, InsertTaskStep, RaiseStep, CallGoesOn DEF ContinueCall
<1>2. ASSUME NEW u \in TaskIds \ Live, u # nextId PROVE task'[u] = task[u]
  <2>1. task \in [TaskIds -> TaskRow]
    BY DEF IInv, QueueInv
  <2>2. CASE EachTask(c)
    <3> DEFINE t == Min(client[c].todo)
    <3>1. CASE t \in Live
      <4>1. t # u
        BY <1>2, <3>1
      <4>2. \E q : task' = [task EXCEPT ![t] = q]
        BY <2>2, <3>1 DEF EachTask
      <4> HIDE DEF t
      <4> QED
        BY <1>2, <2>1, <4>1, <4>2
    <3>2. CASE t \notin Live
      BY <2>2, <3>2 DEF EachTask
    <3> QED
      BY <3>1, <3>2
  <2>3. CASE InsertTask(c)
    BY <1>2, <2>1, <2>3 DEF InsertTask
  <2>4. CASE RaisePriority(c)
    <3> DEFINE t == client[c].arg
    <3>1. CASE t \in Live
      <4>1. t # u
        BY <1>2, <3>1
      <4>2. \E q : task' = [task EXCEPT ![t] = q]
        BY <2>4, <3>1 DEF RaisePriority
      <4> HIDE DEF t
      <4> QED
        BY <1>2, <2>1, <4>1, <4>2
    <3>2. CASE t \notin Live
      BY <2>4, <3>2 DEF RaisePriority
    <3> QED
      BY <3>1, <3>2
  <2>5. CASE EndOfLoop(c) \/ UpdateStatus(c) \/ Notify(c)
    BY <2>5 DEF EndOfLoop, UpdateStatus, Notify, queueVars
  <2> QED
    BY <2>2, <2>3, <2>4, <2>5 DEF ContinueCall
<1>3. \A u \in Live' \ Live : u = nextId
  BY <1>2 DEF Live
<1>4. \A t \in Live : t < nextId
  BY DEF IInv, QueueInv
<1> QED
  BY <1>1, <1>3, <1>4 DEF NewTasksLast

(* Steps that leave the worker at its place. *)
Aside == \/ Start \/ Stop \/ (\E p \in Packages : Publish(p)) \/ Reader
         \/ (\E c \in Clients : BeginCall(c) \/ ContinueCall(c))
         \/ WaitForTask \/ SpuriousWakeup \/ UNCHANGED vars

LEMMA AsideStep ==
    ASSUME IInv, Aside
    PROVE  /\ TasksStay /\ NewTasksLast
           /\ UNCHANGED <<rows, file, local, unfit, active, delVers, retry, crashes, list>>
           /\ wpc' = wpc \/ {wpc, wpc'} \subseteq Resting
           /\ (\E c \in Clients : ContinueCall(c)) \/ UNCHANGED <<task, nextId>>
<1>1. CASE Start \/ Stop \/ (\E p \in Packages : Publish(p)) \/ Reader \/ WaitForTask \/ SpuriousWakeup \/ UNCHANGED vars
  <2>1. /\ UNCHANGED <<task, nextId, rows, file, local, unfit, active, delVers, retry, crashes, list>>
        /\ wpc' = wpc \/ {wpc, wpc'} \subseteq Resting
    BY <1>1 DEF Start, Stop, Publish, Reader, BeginAccess, EndAccess, WaitForTask, SpuriousWakeup, Go, notStore,
                queueVars, storeVars, listVars, workerVars, readerVars, vars, Resting
  <2> QED
    BY <2>1 DEF TasksStay, NewTasksLast, Live
<1>2. ASSUME NEW c \in Clients, BeginCall(c) \/ ContinueCall(c)
      PROVE  /\ UNCHANGED <<rows, file, local, unfit, active, delVers, retry, crashes, list>>
             /\ wpc' = wpc \/ {wpc, wpc'} \subseteq Resting
             /\ ContinueCall(c) \/ UNCHANGED <<task, nextId>>
  <2>1. CASE ContinueCall(c)
    BY <2>1 DEF ContinueCall, EachTask, EndOfLoop, InsertTask, RaisePriority, UpdateStatus, Notify,
                storeVars, listVars, workerVars, Resting
  <2>2. CASE BeginCall(c)
    BY <2>2 DEF BeginCall, startPackageDownload, startPackageImport, startPackageListDownload,
                startPackageRemove, cancelPackageTasks, setPackagePriority, Begin,
                storeVars, listVars, workerVars
  <2> QED
    BY <1>2, <2>1, <2>2
<1>3. UNCHANGED <<task, nextId>> => TasksStay /\ NewTasksLast
  BY DEF TasksStay, NewTasksLast, Live
<1> QED
  BY <1>1, <1>2, <1>3, QueueGrows DEF Aside

LEMMA AsideServing ==
    ASSUME IInv, Aside, wpc' \in Serving
    PROVE  /\ wpc' = wpc /\ active \in Live /\ active \in Live' /\ task'[active].cmd = task[active].cmd
           /\ aFile' = aFile /\ aPkg' = aPkg /\ aVer' = aVer
<1>1. wpc' = wpc
  BY AsideStep DEF Resting, Serving
<1>2. active \in Live /\ active' = active
  BY <1>1, AsideStep DEF IInv, WorkerInv
<1>3. task'[active].cmd = task[active].cmd /\ task'[active].pkg = task[active].pkg /\ task'[active].ver = task[active].ver
  BY <1>2, AsideStep DEF TasksStay
<1> QED
  BY <1>1, <1>2, <1>3 DEF aFile, aPkg, aVer, Live

(* Steps of the worker in the middle of a task. *)
Serves == \/ BeginDownload \/ ReceiveFile \/ BreakTransfer \/ AfterBreak \/ PauseOrRetry
          \/ BeginImport \/ AfterCopy
          \/ InsertRow \/ importLocalPackage \/ ImportFails \/ NotifyAdded
          \/ DeleteRow \/ NotifyDeleted \/ UnlinkFile \/ DeletedAll
          \/ BeginRemove
          \/ FetchList \/ UnlinkList \/ RenameList

LEMMA ServesStep ==
    ASSUME Serves
    PROVE  /\ UNCHANGED <<task, nextId, client, active, crashes, stopped, published>>
           /\ Live' = Live /\ Runnable' = Runnable
           /\ aFile' = aFile /\ aPkg' = aPkg /\ aVer' = aVer
           /\ wpc \in Serving /\ wpc' \in Serving
<1>1. UNCHANGED <<task, nextId, client, active, crashes, stopped, published>> /\ wpc \in Serving /\ wpc' \in Serving
  <2>1. CASE BeginDownload \/ ReceiveFile \/ BreakTransfer \/ AfterBreak \/ PauseOrRetry
    BY <2>1 DEF BeginDownload, ReceiveFile, BreakTransfer, AfterBreak, PauseOrRetry, Go, notStore,
                queueVars, listVars, readerVars, Serving, WorkerPcs
  <2>2. CASE BeginImport \/ AfterCopy \/ InsertRow \/ importLocalPackage \/ ImportFails \/ NotifyAdded
    BY <2>2 DEF BeginImport, AfterCopy, InsertRow, importLocalPackage, ImportFails, NotifyAdded, Go, notStore,
                queueVars, listVars, readerVars, Serving, WorkerPcs
  <2>3. CASE DeleteRow \/ NotifyDeleted \/ UnlinkFile \/ DeletedAll \/ BeginRemove
    BY <2>3 DEF DeleteRow, NotifyDeleted, UnlinkFile, DeletedAll, BeginRemove, Go, notStore,
                queueVars, listVars, readerVars, Serving, WorkerPcs
  <2>4. CASE FetchList \/ UnlinkList \/ RenameList
    BY <2>4 DEF FetchList, UnlinkList, RenameList, Go, notStore,
                queueVars, listVars, readerVars, Serving, WorkerPcs
  <2> QED
    BY <2>1, <2>2, <2>3, <2>4 DEF Serves
<1> QED
  BY <1>1 DEF Live, Runnable, aFile, aPkg, aVer

LEMMA NextCases == [Next]_vars => Aside \/ Serves \/ PickTask \/ EndTask \/ Crash
BY DEF Next, Worker, Aside, Serves

LEMMA PickTaskChoice ==
    ASSUME IInv, PickTask
    PROVE  /\ UNCHANGED <<task, nextId, client, rows, file, local, unfit, list, crashes, stopped, delVers, retry>>
           /\ Live' = Live /\ Runnable' = Runnable /\ wpc = "pick"
           /\ \/ wpc' = "off" /\ active' = active
              \/ wpc' = "empty" /\ active' = active /\ Runnable = {}
              \/ active' \in Live /\ IsFirst(active') /\ wpc' = task[active'].cmd
<1>1. UNCHANGED <<task, nextId, client, rows, file, local, unfit, list, crashes, stopped, delVers, retry>> /\ wpc = "pick"
  BY DEF PickTask, Go, notStore, queueVars, listVars, storeVars
<1>2. Live' = Live /\ Runnable' = Runnable
  BY <1>1 DEF Live, Runnable
<1> DEFINE t == ActiveTaskId(NoTaskId)
<1>3. \/ wpc' = "off" /\ active' = active
      \/ wpc' = "empty" /\ active' = active /\ t = NoTaskId
      \/ active' = t /\ wpc' = task[t].cmd /\ t # NoTaskId
  BY DEF PickTask, Go
<1>4. t = NoTaskId => Runnable = {}
  BY IdleQueue DEF IInv
<1>5. t # NoTaskId => t \in Live /\ IsFirst(t)
  <2>1. t # NoTaskId => Runnable # {}
    BY DEF ActiveTaskId
  <2> QED
    BY <2>1, ActiveTaskIsFirst DEF IInv
<1> HIDE DEF t
<1> QED
  BY <1>1, <1>2, <1>3, <1>4, <1>5

LEMMA EndTaskQueue ==
    ASSUME IInv, EndTask
    PROVE  /\ UNCHANGED <<nextId, client, rows, file, local, unfit, list, crashes, stopped, delVers, retry, published>>
           /\ wpc \in {"finished", "failed", "canceled", "paused"} /\ wpc' = "pick" /\ active' = NoTaskId
           /\ active \in Live
           /\ Live' = IF wpc = "paused" THEN Live ELSE Live \ {active}
           /\ \A t \in Live' : task'[t] = task[t]
<1>1. /\ UNCHANGED <<nextId, client, rows, file, local, unfit, list, crashes, stopped, delVers, retry, published>>
      /\ wpc \in {"finished", "failed", "canceled", "paused"} /\ wpc' = "pick" /\ active' = NoTaskId
      /\ task' = IF wpc = "paused" THEN task ELSE [task EXCEPT ![active] = NoTask]
  BY DEF EndTask, storeVars, listVars
<1>2. active \in Live
  BY <1>1 DEF IInv, WorkerInv, Serving, WorkerPcs
<1>3. task \in [TaskIds -> TaskRow] /\ Live \subseteq TaskIds /\ NoTask.cmd = "none"
  BY DEF IInv, QueueInv, Live, NoTask
<1>4. CASE wpc = "paused"
  BY <1>1, <1>2, <1>4 DEF Live
<1>5. CASE wpc # "paused"
  <2>1. \A t \in TaskIds : task'[t] = IF t = active THEN NoTask ELSE task[t]
    BY <1>1, <1>3, <1>5
  <2>2. Live' = Live \ {active}
    BY <1>3, <2>1 DEF Live
  <2> QED
    BY <1>1, <1>2, <1>3, <1>5, <2>1, <2>2
<1> QED
  BY <1>4, <1>5

-----------------------------------------------------------------------------
(* Types. *)

(* What a step does to the row of a task, and to the rest of the types. *)
LEMMA CallTypes ==
    ASSUME IInv, TypeInv, NEW c \in Clients, ContinueCall(c)
    PROVE  task' \in [TaskIds -> TaskRecord] /\ nextId' \in 1 .. MaxTasks + 1
<1> DEFINE cl == client[c]
<1>1. /\ task \in [TaskIds -> TaskRecord] /\ nextId \in 1 .. MaxTasks + 1 /\ MaxTasks \in Nat
      /\ cl \in Call
  BY BoundsAssumption DEF TypeInv, IInv, ClientInv
<1>2. CASE EachTask(c)
  <2> DEFINE t == Min(cl.todo)
  <2>1. nextId' = nextId
    BY <1>2 DEF EachTask
  <2>2. CASE t \notin Live
    BY <1>1, <1>2, <2>1, <2>2 DEF EachTask
  <2>3. CASE t \in Live
    <3>1. t \in TaskIds /\ task[t] \in TaskRecord
      BY <1>1, <2>3 DEF Live
    <3>2. CASE cl.cmd = "priority"
      <4> DEFINE q == [task[t] EXCEPT !.prio = cl.arg]
      <4>1. task' = [task EXCEPT ![t] = q]
        BY <1>1, <1>2, <2>3, <3>1, <3>2 DEF EachTask
      <4>2. cl.arg \in Priorities
        BY <3>2 DEF TypeInv
      <4>3. q \in TaskRecord
        BY <3>1, <4>2 DEF TaskRecord
      <4> HIDE DEF q, t
      <4> QED
        BY <1>1, <2>1, <3>1, <4>1, <4>3
    <3>3. CASE cl.cmd # "priority"
      <4> DEFINE q == [task[t] EXCEPT !.prio = CancelPriority, !.canceled = TRUE]
      <4>1. task' = [task EXCEPT ![t] = q]
        BY <1>1, <1>2, <2>3, <3>1, <3>3 DEF EachTask
      <4>2. q \in TaskRecord
        BY <3>1 DEF TaskRecord
      <4> HIDE DEF q, t
      <4> QED
        BY <1>1, <2>1, <3>1, <4>1, <4>2
    <3> QED
      BY <3>2, <3>3
  <2> QED
    BY <2>2, <2>3
<1>3. CASE InsertTask(c)
  <2> DEFINE q == [cmd |-> cl.cmd, pkg |-> cl.pkg, ver |-> cl.arg, prio |-> DefaultPriority, canceled |-> FALSE]
  <2>1. cl.cmd \in Scheduling /\ cl.arg \in 0 .. MaxVersion /\ cl.pkg \in Packages \cup {ListId}
    BY <1>1, <1>3 DEF InsertTask, IInv, ClientInv, TypeInv, Call
  <2>2. q \in TaskRecord
    BY <2>1 DEF TaskRecord, Scheduling
  <2>3. task' = [task EXCEPT ![nextId] = q] /\ nextId' = nextId + 1 /\ nextId <= MaxTasks
    BY <1>3 DEF InsertTask
  <2>4. nextId' \in 1 .. MaxTasks + 1
    BY <1>1, <2>3
  <2> HIDE DEF q
  <2>5. task' \in [TaskIds -> TaskRecord]
    BY <1>1, <2>2, <2>3
  <2> QED
    BY <2>4, <2>5
<1>4. CASE RaisePriority(c)
  <2> DEFINE t == cl.arg
             q == [task[t] EXCEPT !.prio = ListPriority]
  <2>1. nextId' = nextId
    BY <1>4 DEF RaisePriority
  <2>2. CASE t \notin Live
    BY <1>1, <1>4, <2>1, <2>2 DEF RaisePriority
  <2>3. CASE t \in Live
    <3>1. t \in TaskIds /\ task[t] \in TaskRecord
      BY <1>1, <2>3 DEF Live
    <3>2. task' = [task EXCEPT ![t] = q]
      BY <1>1, <1>4, <2>3, <3>1 DEF RaisePriority
    <3>3. q \in TaskRecord
      BY <3>1 DEF TaskRecord
    <3> HIDE DEF q, t
    <3> QED
      BY <1>1, <2>1, <3>1, <3>2, <3>3
  <2> QED
    BY <2>2, <2>3
<1>5. CASE EndOfLoop(c) \/ UpdateStatus(c) \/ Notify(c)
  BY <1>1, <1>5 DEF EndOfLoop, UpdateStatus, Notify, queueVars
<1> QED
  BY <1>2, <1>3, <1>4, <1>5 DEF ContinueCall

(* The arguments of a call stay what they are until it has scheduled. *)
ArgInv(c) == /\ client[c].cmd = "priority" => client[c].arg \in Priorities
             /\ client[c].pc = "insert" => client[c].arg \in 0 .. MaxVersion

LEMMA ArgStep ==
    ASSUME IInv, NEW c \in Clients, NEW d \in Clients, ArgInv(d), BeginCall(c) \/ ContinueCall(c)
    PROVE  ArgInv(d)'
<1>1. client \in [Clients -> Call] /\ Versions \subseteq 0 .. MaxVersion /\ 0 \in 0 .. MaxVersion
  BY BoundsAssumption DEF IInv, ClientInv, Versions
<1>2. WellFormed(client[c].cmd, client[c].pkg, client[c].arg)
  BY DEF IInv, ClientInv
<1>3. CASE d # c
  <2>1. \E q : client' = [client EXCEPT ![c] = q]
    BY <1>1 DEF BeginCall, startPackageDownload, startPackageImport, startPackageListDownload,
                startPackageRemove, cancelPackageTasks, setPackagePriority, Begin,
                ContinueCall, EachTask, EndOfLoop, InsertTask, RaisePriority, UpdateStatus, Notify
  <2>2. client'[d] = client[d]
    BY <1>1, <1>3, <2>1
  <2> QED
    BY <2>2 DEF ArgInv
<1>4. ASSUME d = c, BeginCall(c) PROVE ArgInv(d)'
  <2>1. ASSUME NEW cmd, NEW p, NEW arg, NEW pc, NEW todo, Begin(c, cmd, p, arg, pc, todo)
        PROVE  client'[c].cmd = cmd /\ client'[c].pc = pc /\ client'[c].arg = arg
    BY <1>1, <2>1 DEF Begin
  <2>2. ASSUME NEW p \in Packages, startPackageDownload(c, p) PROVE ArgInv(d)'
    <3>1. list[p] \in 0 .. MaxVersion /\ Begin(c, "download", p, list[p], "insert", {})
      BY <2>2 DEF startPackageDownload, IInv, Offers
    <3> QED
      BY <1>4, <2>1, <3>1 DEF ArgInv
  <2>3. ASSUME NEW p \in Packages, startPackageRemove(c, p) PROVE ArgInv(d)'
    <3>1. PICK v \in Versions : Begin(c, "remove", p, v, "each", TasksOf(p))
      BY <2>3 DEF startPackageRemove
    <3> QED
      BY <1>4, <2>1, <3>1 DEF ArgInv
  <2>4. ASSUME NEW p \in Packages, cancelPackageTasks(c, p) PROVE ArgInv(d)'
    BY <1>4, <2>1, <2>4 DEF ArgInv, cancelPackageTasks
  <2>5. ASSUME NEW p \in Packages, NEW v \in Versions, startPackageImport(c, p, v) PROVE ArgInv(d)'
    BY <1>1, <1>4, <2>1, <2>5 DEF ArgInv, startPackageImport
  <2>6. ASSUME NEW p \in Packages, NEW prio \in Priorities, setPackagePriority(c, p, prio) PROVE ArgInv(d)'
    BY <1>4, <2>1, <2>6 DEF ArgInv, setPackagePriority
  <2>7. ASSUME startPackageListDownload(c) PROVE ArgInv(d)'
    BY <1>1, <1>4, <2>1, <2>7 DEF ArgInv, startPackageListDownload
  <2> QED
    BY <1>4, <2>2, <2>3, <2>4, <2>5, <2>6, <2>7 DEF BeginCall
<1>5. ASSUME d = c, ContinueCall(c) PROVE ArgInv(d)'
  <2>1. client[c] \in Call
    BY <1>1
  <2>2. CASE EachTask(c)
    <3>1. client'[c].cmd = client[c].cmd /\ client'[c].arg = client[c].arg /\ client'[c].pc # "insert"
      BY <1>1, <2>1, <2>2 DEF EachTask, Call
    <3> QED
      BY <1>5, <3>1 DEF ArgInv
  <2>3. CASE EndOfLoop(c)
    <3>1. CASE client[c].cmd = "remove"
      <4>1. client[c].arg \in Versions
        BY <1>2, <3>1 DEF WellFormed, FileCommands
      <4>2. client'[c].cmd = client[c].cmd /\ client'[c].arg = client[c].arg
        BY <1>1, <2>1, <2>3, <3>1 DEF EndOfLoop, Call
      <4> QED
        BY <1>1, <1>5, <3>1, <4>1, <4>2 DEF ArgInv
    <3>2. CASE client[c].cmd # "remove"
      BY <1>1, <1>5, <2>3, <3>2 DEF EndOfLoop, IdleClient, ArgInv
    <3> QED
      BY <3>1, <3>2
  <2>4. CASE InsertTask(c)
    <3>1. client[c].cmd # "priority"
      BY <2>4 DEF InsertTask, IInv, ClientInv, Scheduling
    <3>2. client'[c].cmd = client[c].cmd /\ client'[c].pc # "insert"
      BY <1>1, <2>1, <2>4 DEF InsertTask, Call
    <3> QED
      BY <1>5, <3>1, <3>2 DEF ArgInv
  <2>5. CASE RaisePriority(c) \/ UpdateStatus(c)
    <3>1. client'[c].cmd = client[c].cmd /\ client'[c].arg = client[c].arg /\ client'[c].pc # "insert"
      BY <1>1, <2>1, <2>5 DEF RaisePriority, UpdateStatus, Call
    <3> QED
      BY <1>5, <3>1 DEF ArgInv
  <2>6. CASE Notify(c)
    <3>1. CASE client[c].cmd \in {"cancel", "priority"}
      <4>1. client'[c].cmd = client[c].cmd /\ client'[c].arg = client[c].arg /\ client'[c].pc # "insert"
        BY <1>1, <2>1, <2>6, <3>1 DEF Notify, Call
      <4> QED
        BY <1>5, <4>1 DEF ArgInv
    <3>2. CASE client[c].cmd \notin {"cancel", "priority"}
      BY <1>1, <1>5, <2>6, <3>2 DEF Notify, IdleClient, ArgInv
    <3> QED
      BY <3>1, <3>2
  <2> QED
    BY <1>5, <2>2, <2>3, <2>4, <2>5, <2>6 DEF ContinueCall
<1> QED
  BY <1>3, <1>4, <1>5

LEMMA TypeStep == IInv /\ IInv' /\ TypeInv /\ [Next]_vars => TypeInv'
<1> SUFFICES ASSUME IInv, IInv', TypeInv, [Next]_vars PROVE TypeInv'
  OBVIOUS
<1>1. task' \in [TaskIds -> TaskRecord] /\ nextId' \in 1 .. MaxTasks + 1
  <2>1. UNCHANGED <<task, nextId>> => task' \in [TaskIds -> TaskRecord] /\ nextId' \in 1 .. MaxTasks + 1
    BY DEF TypeInv
  <2>2. CASE EndTask
    <3>1. NoTask \in TaskRecord
      BY BoundsAssumption DEF NoTask, TaskRecord, DefaultPriority
    <3>2. nextId' = nextId /\ (task' = task \/ task' = [task EXCEPT ![active] = NoTask])
      BY <2>2 DEF EndTask
    <3> QED
      BY <3>1, <3>2 DEF TypeInv
  <2>3. CASE Crash
    BY <2>1, <2>3 DEF Crash, queueVars
  <2> QED
    BY <2>1, <2>2, <2>3, NextCases, AsideStep, ServesStep, PickTaskChoice, CallTypes
<1>2. stopped' \in BOOLEAN
  <2>1. stopped' = stopped \/ stopped' \in BOOLEAN
    <3>1. CASE Start \/ Stop \/ Crash
      BY <3>1 DEF Start, Stop, Crash
    <3>2. CASE (\E p \in Packages : Publish(p)) \/ Reader \/ WaitForTask \/ SpuriousWakeup \/ UNCHANGED vars
      BY <3>2 DEF Publish, Reader, BeginAccess, EndAccess, WaitForTask, SpuriousWakeup, notStore, vars
    <3>3. ASSUME NEW c \in Clients, BeginCall(c) \/ ContinueCall(c) PROVE stopped' = stopped
      BY <3>3 DEF BeginCall, startPackageDownload, startPackageImport, startPackageListDownload,
                startPackageRemove, cancelPackageTasks, setPackagePriority, Begin,
                ContinueCall, EachTask, EndOfLoop, InsertTask, RaisePriority, UpdateStatus, Notify
    <3>4. CASE Serves \/ PickTask \/ EndTask
      BY <3>4, ServesStep, PickTaskChoice, EndTaskQueue
    <3> QED
      BY <3>1, <3>2, <3>3, <3>4, NextCases DEF Aside
  <2> QED
    BY <2>1 DEF TypeInv
<1>3. fileMutex' \in {"free", "worker", "reader"}
  <2>1. CASE Aside
    <3>1. ASSUME NEW c \in Clients, BeginCall(c) \/ ContinueCall(c) PROVE fileMutex' = fileMutex
      BY <3>1 DEF BeginCall, startPackageDownload, startPackageImport, startPackageListDownload,
                startPackageRemove, cancelPackageTasks, setPackagePriority, Begin, readerVars,
                ContinueCall, EachTask, EndOfLoop, InsertTask, RaisePriority, UpdateStatus, Notify
    <3>2. fileMutex' = fileMutex \/ fileMutex' \in {"free", "reader"}
      BY <2>1, <3>1 DEF Aside, Start, Stop, Publish, Reader, BeginAccess, EndAccess, WaitForTask, SpuriousWakeup,
                        notStore, readerVars, vars
    <3> QED
      BY <3>2 DEF TypeInv
  <2>2. CASE Serves
    <3>1. fileMutex' = fileMutex \/ fileMutex' \in {"free", "worker"}
      BY <2>2 DEF Serves, BeginDownload, ReceiveFile, BreakTransfer, AfterBreak, PauseOrRetry, BeginImport, AfterCopy,
                  InsertRow, importLocalPackage, ImportFails, NotifyAdded, DeleteRow, NotifyDeleted, UnlinkFile, DeletedAll,
                  BeginRemove, FetchList, UnlinkList, RenameList, notStore, readerVars
    <3> QED
      BY <3>1 DEF TypeInv
  <2>3. CASE PickTask \/ EndTask \/ Crash
    BY <2>3 DEF PickTask, EndTask, Crash, notStore, readerVars, TypeInv
  <2> QED
    BY <2>1, <2>2, <2>3, NextCases
<1>4. active' \in TaskIds \cup {NoTaskId}
  <2>1. active' = active \/ active' \in Live' \/ active' = NoTaskId
    BY NextCases, AsideStep, ServesStep, PickTaskChoice, EndTaskQueue DEF Crash
  <2> QED
    BY <2>1 DEF TypeInv, Live
<1>5. retry' \in 0 .. 1
  <2>1. CASE Serves
    <3>1. retry' = retry \/ retry' \in {0, 1}
      BY <2>1 DEF Serves, BeginDownload, ReceiveFile, BreakTransfer, AfterBreak, PauseOrRetry, BeginImport, AfterCopy,
                  InsertRow, importLocalPackage, ImportFails, NotifyAdded, DeleteRow, NotifyDeleted, UnlinkFile, DeletedAll,
                  BeginRemove, FetchList, UnlinkList, RenameList
    <3> QED
      BY <3>1 DEF TypeInv
  <2>2. CASE ~Serves
    <3>1. retry' = retry \/ retry' = 0
      BY <2>2, NextCases, AsideStep, PickTaskChoice, EndTaskQueue DEF Crash
    <3> QED
      BY <3>1 DEF TypeInv
  <2> QED
    BY <2>1, <2>2
<1>6. crashes' \in 0 .. MaxCrashes
  <2>1. crashes' = crashes \/ (crashes < MaxCrashes /\ crashes' = crashes + 1)
    BY NextCases, AsideStep, ServesStep, PickTaskChoice, EndTaskQueue DEF Crash
  <2> QED
    BY <2>1, BoundsAssumption DEF TypeInv
<1>8. unfit' \in SUBSET (Packages \X Versions)
  <2>1. CASE Serves
    <3>1. \/ unfit' \subseteq unfit
          \/ ImportFails /\ unfit' = unfit \cup {aFile}
      BY <2>1 DEF Serves, BeginDownload, ReceiveFile, BreakTransfer, AfterBreak, PauseOrRetry, BeginImport, AfterCopy,
                  InsertRow, importLocalPackage, ImportFails, NotifyAdded, DeleteRow, NotifyDeleted, UnlinkFile,
                  DeletedAll, BeginRemove, FetchList, UnlinkList, RenameList, storeVars
    <3>2. ImportFails => aFile \in Packages \X Versions
      BY FileOfTask DEF ImportFails, Go, FilePcs
    <3> QED
      BY <3>1, <3>2 DEF TypeInv
  <2>2. CASE ~Serves
    <3>1. unfit' = unfit
      BY <2>2, NextCases, AsideStep, PickTaskChoice, EndTaskQueue DEF Crash
    <3> QED
      BY <3>1 DEF TypeInv
  <2> QED
    BY <2>1, <2>2
<1>7. ASSUME NEW d \in Clients PROVE ArgInv(d)'
  <2>1. ArgInv(d)
    BY DEF TypeInv, ArgInv
  <2>2. CASE UNCHANGED client
    BY <2>1, <2>2 DEF ArgInv
  <2>3. CASE \E c \in Clients : BeginCall(c) \/ ContinueCall(c)
    BY <2>1, <2>3, ArgStep
  <2>4. CASE Crash
    BY <2>4 DEF Crash, ArgInv, IdleClient
  <2>5. Start \/ Stop \/ (\E p \in Packages : Publish(p)) \/ Reader \/ WaitForTask \/ SpuriousWakeup \/ UNCHANGED vars
           => UNCHANGED client
    BY DEF Start, Stop, Publish, Reader, BeginAccess, EndAccess, WaitForTask, SpuriousWakeup, notStore, vars
  <2> QED
    BY <2>2, <2>3, <2>4, <2>5, NextCases, ServesStep, PickTaskChoice, EndTaskQueue DEF Aside
<1> QED
  BY <1>1, <1>2, <1>3, <1>4, <1>5, <1>6, <1>7, <1>8 DEF TypeInv, ArgInv

-----------------------------------------------------------------------------
(* The worker's place, its task and the order of the queue. *)

LEMMA FirstStep == IInv /\ FirstInv /\ [Next]_vars => FirstInv'
<1> SUFFICES ASSUME IInv, FirstInv, [Next]_vars, wpc' \in Serving PROVE IsFirst(active)'
  BY DEF FirstInv
<1>1. CASE Aside
  <2>1. /\ wpc \in Serving /\ active \in Live /\ active' = active
        /\ TasksStay /\ NewTasksLast /\ task'[active].pkg = task[active].pkg
    BY <1>1, AsideStep, AsideServing DEF aPkg
  <2>2. IsFirst(active)
    BY <2>1 DEF FirstInv
  <2>3. ASSUME NEW u \in Live', task'[u].pkg = task'[active].pkg PROVE active <= u
    <3>1. CASE u \in Live
      BY <2>1, <2>2, <2>3, <3>1 DEF IsFirst, TasksStay
    <3>2. CASE u \notin Live
      <4>1. active < u
        BY <2>1, <3>2 DEF NewTasksLast
      <4>2. active \in Int /\ u \in Int
        BY <2>1 DEF Live, TaskIds
      <4> QED
        BY <4>1, <4>2
    <3> QED
      BY <3>1, <3>2
  <2> QED
    BY <2>1, <2>3 DEF IsFirst
<1>2. CASE Serves
  BY <1>2, ServesStep DEF FirstInv, IsFirst
<1>3. CASE PickTask
  BY <1>3, PickTaskChoice DEF IsFirst, Serving
<1>4. CASE EndTask \/ Crash
  BY <1>4 DEF EndTask, Crash, Serving
<1> QED
  BY <1>1, <1>2, <1>3, <1>4, NextCases

LEMMA PlaceStep == IInv /\ PlaceInv /\ [Next]_vars => PlaceInv'
<1> SUFFICES ASSUME IInv, PlaceInv, [Next]_vars PROVE PlaceInv'
  OBVIOUS
<1> USE DEF Fetching, Importing, Installing, Deletion, Listing
<1>1. wpc' \in Resting \cup {"finished", "failed", "canceled", "paused"} => PlaceInv'
  BY DEF PlaceInv, Resting
<1>2. CASE Aside
  <2>1. CASE wpc' \in Serving
    BY <1>2, <2>1, AsideServing, AsideStep DEF PlaceInv
  <2>2. CASE wpc' \notin Serving
    <3>1. wpc' \in WorkerPcs
      BY <1>2, AsideStep DEF IInv, WorkerInv, WorkerPcs, Resting
    <3> QED
      BY <1>1, <2>2, <3>1 DEF Serving, Resting
  <2> QED
    BY <2>1, <2>2
<1>3. CASE Serves
  <2>1. task'[active'] = task[active]
    BY <1>3, ServesStep
  <2>2. CASE BeginDownload \/ ReceiveFile \/ BreakTransfer \/ AfterBreak \/ PauseOrRetry
    <3>1. task[active].cmd = "download" /\ wpc' \in Fetching \cup {"insert", "finished", "failed", "canceled", "paused"}
      BY <2>2 DEF BeginDownload, ReceiveFile, BreakTransfer, AfterBreak, PauseOrRetry, Go, PlaceInv
    <3> QED
      BY <2>1, <3>1 DEF PlaceInv
  <2>3. CASE BeginImport \/ AfterCopy
    <3>1. task[active].cmd = "import" /\ wpc' \in Importing \cup {"insert", "finished", "failed", "canceled"}
      BY <2>3 DEF BeginImport, AfterCopy, PlaceInv
    <3> QED
      BY <2>1, <3>1 DEF PlaceInv
  <2>4. CASE InsertRow \/ importLocalPackage \/ ImportFails \/ NotifyAdded
    <3>1. task[active].cmd \in {"download", "import"} /\ wpc' \in {"mark", "notifyAdded", "delete", "failed"}
      BY <2>4 DEF InsertRow, importLocalPackage, ImportFails, NotifyAdded, Go, PlaceInv
    <3> QED
      BY <2>1, <3>1 DEF PlaceInv
  <2>5. CASE DeleteRow \/ NotifyDeleted \/ UnlinkFile \/ DeletedAll \/ BeginRemove
    <3>1. /\ task[active].cmd \in {"download", "import", "remove"}
          /\ wpc' \in Deletion \cup {"finished", "canceled", "failed"}
      BY <2>5 DEF DeleteRow, NotifyDeleted, UnlinkFile, DeletedAll, BeginRemove, Go, PlaceInv
    <3> QED
      BY <2>1, <3>1 DEF PlaceInv
  <2>6. CASE FetchList \/ UnlinkList \/ RenameList
    <3>1. task[active].cmd = "list" /\ wpc' \in Listing \cup {"finished", "canceled", "paused", "failed"}
      BY <2>6 DEF FetchList, UnlinkList, RenameList, Go, PlaceInv
    <3> QED
      BY <2>1, <3>1 DEF PlaceInv
  <2> QED
    BY <1>3, <2>2, <2>3, <2>4, <2>5, <2>6 DEF Serves
<1>4. CASE PickTask
  <2>1. CASE wpc' \in {"off", "empty"}
    BY <1>1, <2>1 DEF Resting
  <2>2. CASE active' \in Live /\ wpc' = task[active'].cmd
    <3>1. task' = task /\ wpc' \in {"download", "import", "remove", "list"}
      BY <1>4, <2>2, PickTaskChoice DEF Live, IInv, QueueInv, TaskRow, FileCommands
    <3> QED
      BY <2>2, <3>1 DEF PlaceInv
  <2> QED
    BY <1>4, <2>1, <2>2, PickTaskChoice
<1>5. CASE EndTask \/ Crash
  BY <1>1, <1>5 DEF EndTask, Crash, Resting
<1> QED
  BY <1>2, <1>3, <1>4, <1>5, NextCases

-----------------------------------------------------------------------------
(* What the listener is told. *)

LEMMA ReportStep == IInv /\ IInv' /\ PlaceInv /\ PlaceInv' /\ ReportInv /\ [Next]_vars => ReportInv'
<1> SUFFICES ASSUME IInv, IInv', PlaceInv, PlaceInv', ReportInv, [Next]_vars PROVE ReportInv'
  OBVIOUS
<1>1. wpc' \notin Deletion \cup {"mark", "notifyAdded", "finished", "canceled"} => ReportInv'
  BY DEF ReportInv
<1>2. CASE Aside
  <2>1. CASE wpc' \in Serving
    <3>1. /\ wpc' = wpc /\ aFile' = aFile /\ aVer' = aVer /\ task'[active'].cmd = task[active].cmd
          /\ rows' = rows /\ file' = file /\ delVers' = delVers
      BY <1>2, <2>1, AsideServing, AsideStep
    <3> QED
      BY <3>1 DEF ReportInv, Installed, Gone
  <2>2. CASE wpc' \notin Serving
    <3>1. wpc' \notin Deletion \cup {"mark", "notifyAdded", "finished", "canceled"}
      BY <2>2 DEF Serving, WorkerPcs, Deletion
    <3> QED
      BY <1>1, <3>1
  <2> QED
    BY <2>1, <2>2
<1>3. CASE Serves
  <2> DEFINE cmd == task[active].cmd
  <2>1. task'[active'].cmd = cmd /\ aFile' = aFile /\ aVer' = aVer /\ aPkg' = aPkg
    BY <1>3, ServesStep
  <2>2. wpc \in FilePcs => aFile \in Packages \X Versions /\ aVer \in Versions /\ aFile = <<aPkg, aVer>>
    BY FileOfTask DEF aFile
  <2>3. /\ rows \in [Packages \X Versions -> {"none", "invalid", "valid"}]
        /\ file \in [Packages \X Versions -> {"none", "part", "full"}]
    BY DEF IInv, StoreInv
  <2>4. CASE BeginDownload \/ ReceiveFile \/ BreakTransfer \/ AfterBreak \/ PauseOrRetry
    <3>1. wpc \in Fetching /\ cmd = "download"
      BY <2>4 DEF BeginDownload, ReceiveFile, BreakTransfer, AfterBreak, PauseOrRetry, Go, PlaceInv, Fetching
    <3>2. aFile \in Packages \X Versions
      BY <2>2, <3>1 DEF Fetching, FilePcs
    <3>3. CASE wpc' = "finished"
      <4>1. rows' = rows /\ rows[aFile] = "valid"
        BY <2>4, <3>3 DEF BeginDownload, ReceiveFile, BreakTransfer, AfterBreak, PauseOrRetry, Go
      <4> QED
        BY <2>1, <3>1, <3>3, <4>1 DEF ReportInv, Installed, Deletion
    <3>4. CASE wpc' = "canceled"
      <4>1. wpc = "broken" /\ rows' = rows /\ file' = [file EXCEPT ![aFile] = "none"]
        BY <2>4, <3>4 DEF BeginDownload, ReceiveFile, BreakTransfer, AfterBreak, PauseOrRetry, Go
      <4>2. rows[aFile] # "valid" /\ file'[aFile] = "none"
        BY <2>3, <3>2, <4>1 DEF IInv, WorkerInv, Writing
      <4> QED
        BY <2>1, <3>1, <3>4, <4>1, <4>2 DEF ReportInv, Installed, Deletion
    <3>5. wpc' \in {"failed", "finished", "insert", "transfer", "broken", "canceled", "broken2", "paused"}
      BY <2>4 DEF BeginDownload, ReceiveFile, BreakTransfer, AfterBreak, PauseOrRetry, Go
    <3> QED
      BY <1>1, <3>3, <3>4, <3>5 DEF Deletion
  <2>5. CASE BeginImport \/ AfterCopy
    <3>1. wpc \in Importing /\ cmd = "import" /\ rows' = rows
      BY <2>5 DEF BeginImport, AfterCopy, PlaceInv, Importing
    <3>2. aFile \in Packages \X Versions
      BY <2>2, <3>1 DEF Importing, FilePcs
    <3>3. CASE wpc' = "finished"
      <4>1. rows[aFile] = "valid"
        BY <2>5, <3>3 DEF BeginImport, AfterCopy
      <4> QED
        BY <2>1, <3>1, <3>3, <4>1 DEF ReportInv, Installed, Deletion
    <3>4. CASE wpc' = "canceled"
      <4>1. wpc = "copied" /\ file' = [file EXCEPT ![aFile] = "none"]
        BY <2>5, <3>4 DEF BeginImport, AfterCopy
      <4>2. rows[aFile] # "valid" /\ file'[aFile] = "none"
        BY <2>3, <3>2, <4>1 DEF IInv, WorkerInv, Writing
      <4> QED
        BY <2>1, <3>1, <3>4, <4>2 DEF ReportInv, Installed, Deletion
    <3>5. wpc' \in {"failed", "finished", "insert", "copied", "canceled"}
      BY <2>5 DEF BeginImport, AfterCopy
    <3> QED
      BY <1>1, <3>3, <3>4, <3>5 DEF Deletion
  <2>6. CASE InsertRow
    <3>1. wpc = "insert" /\ wpc' = "mark" /\ rows' = [rows EXCEPT ![aFile] = IF @ = "none" THEN "invalid" ELSE @]
      BY <2>6 DEF InsertRow, Go
    <3>2. rows'[aFile] # "none"
      BY <2>2, <2>3, <3>1 DEF FilePcs
    <3> QED
      BY <2>1, <3>1, <3>2 DEF ReportInv, Deletion
  <2>7. CASE importLocalPackage
    <3>1. /\ wpc = "mark" /\ wpc' = "notifyAdded" /\ cmd # "remove"
          /\ rows' = WithOnlyValid(rows, aPkg, aVer)
          /\ delVers' = {v \in Versions : rows'[<<aPkg, v>>] = "invalid"}
      BY <2>7 DEF importLocalPackage, Go, PlaceInv, Installing
    <3>2. rows[aFile] # "none"
      BY <3>1 DEF ReportInv
    <3>3. aFile \in Packages \X Versions /\ aFile = <<aPkg, aVer>> /\ DOMAIN rows = Packages \X Versions
      BY <2>2, <2>3, <3>1 DEF FilePcs
    <3>4. rows'[aFile] = "valid"
      BY <3>1, <3>2, <3>3 DEF WithOnlyValid
    <3>5. aVer \notin delVers'
      BY <3>1, <3>3, <3>4
    <3> QED
      BY <2>1, <3>1, <3>4, <3>5 DEF ReportInv, Installed, Deletion
  <2>15. CASE ImportFails
    BY <1>1, <2>15 DEF ImportFails, Go, Deletion
  <2>8. CASE NotifyAdded
    <3>1. wpc = "notifyAdded" /\ wpc' = "delete" /\ UNCHANGED <<rows, file, delVers>> /\ cmd # "remove"
      BY <2>8 DEF NotifyAdded, Go, storeVars, PlaceInv, Installing
    <3> QED
      BY <2>1, <3>1 DEF ReportInv, Installed, Deletion
  <2>9. CASE DeleteRow
    <3>1. /\ wpc = "delete" /\ wpc' = "notifyDeleted" /\ UNCHANGED <<file, delVers>> /\ delVers # {}
          /\ rows' = [rows EXCEPT ![<<aPkg, Min(delVers)>>] = "none"]
      BY <2>9 DEF DeleteRow
    <3>2. delVers \in SUBSET Nat
      BY DEF IInv, WorkerInv, Versions
    <3>3. Min(delVers) \in delVers
      BY <3>1, <3>2, MinIsLeast
    <3>4. aFile \in Packages \X Versions /\ aFile = <<aPkg, aVer>>
      BY <2>2, <3>1 DEF FilePcs
    <3>5. aVer # Min(delVers) => rows'[aFile] = rows[aFile]
      BY <2>3, <3>1, <3>4
    <3> QED
      BY <2>1, <3>1, <3>3, <3>5 DEF ReportInv, Installed, Deletion
  <2>10. CASE NotifyDeleted
    <3>1. wpc = "notifyDeleted" /\ wpc' = "unlink" /\ UNCHANGED <<rows, file, delVers>>
      BY <2>10 DEF NotifyDeleted, Go, storeVars
    <3> QED
      BY <2>1, <3>1 DEF ReportInv, Installed, Gone, Deletion
  <2>11. CASE UnlinkFile
    <3>1. /\ wpc = "unlink" /\ wpc' = "delete" /\ rows' = rows /\ delVers' = delVers \ {Min(delVers)}
          /\ file' = [file EXCEPT ![<<aPkg, Min(delVers)>>] = "none"]
      BY <2>11 DEF UnlinkFile, Go
    <3>2. delVers \in SUBSET Nat /\ delVers # {} /\ rows[<<aPkg, Min(delVers)>>] = "none"
      BY <3>1 DEF IInv, WorkerInv, Versions, Deleting
    <3>3. Min(delVers) \in delVers
      BY <3>2, MinIsLeast
    <3>4. aFile \in Packages \X Versions /\ aFile = <<aPkg, aVer>>
      BY <2>2, <3>1 DEF FilePcs
    <3>5. aVer = Min(delVers) => file'[aFile] = "none" /\ rows'[aFile] = "none"
      BY <2>3, <3>1, <3>2, <3>4
    <3> QED
      BY <2>1, <3>1, <3>3, <3>5 DEF ReportInv, Installed, Gone, Deletion
  <2>12. CASE DeletedAll
    <3>1. wpc = "delete" /\ wpc' = "finished" /\ delVers = {} /\ UNCHANGED <<rows, file>>
      BY <2>12 DEF DeletedAll, Go, storeVars
    <3> QED
      BY <2>1, <3>1 DEF ReportInv, Installed, Gone, Deletion
  <2>13. CASE BeginRemove
    <3>1. cmd = "remove" /\ wpc' \in {"canceled", "failed", "delete"} /\ (wpc' = "delete" => delVers' = {aVer})
      BY <2>13 DEF BeginRemove, PlaceInv
    <3> QED
      BY <2>1, <3>1 DEF ReportInv, Deletion
  <2>14. CASE FetchList \/ UnlinkList \/ RenameList
    <3>1. cmd = "list" /\ wpc' \notin Deletion \cup {"mark", "notifyAdded"}
      BY <2>14 DEF FetchList, UnlinkList, RenameList, Go, PlaceInv, Listing, Deletion
    <3> QED
      BY <2>1, <3>1 DEF ReportInv
  <2> QED
    BY <1>3, <2>4, <2>5, <2>6, <2>7, <2>8, <2>9, <2>10, <2>11, <2>12, <2>13, <2>14, <2>15 DEF Serves
<1>4. CASE PickTask
  <2>1. wpc' \in {"off", "empty", "download", "import", "remove", "list"}
    BY <1>4, PickTaskChoice DEF Live, IInv, QueueInv, TaskRow, FileCommands
  <2> QED
    BY <1>1, <2>1 DEF Deletion
<1>5. CASE EndTask \/ Crash
  BY <1>1, <1>5 DEF EndTask, Crash, Deletion
<1> QED
  BY <1>2, <1>3, <1>4, <1>5, NextCases

-----------------------------------------------------------------------------
(* The worker sleeps only while a caller is about to wake it. *)

(* A call that changes what may be served goes on to updateTaskStatus. *)
LEMMA CallGoesToUpdate ==
    ASSUME IInv, NEW c \in Clients, EachTask(c) \/ InsertTask(c) \/ RaisePriority(c)
    PROVE  ToUpdate(c)' \/ (task' = task /\ (ToUpdate(c) => ToUpdate(c)') /\ (ToNotify(c) => ToNotify(c)'))
<1> DEFINE cl == client[c]
<1>1. client \in [Clients -> Call] /\ cl \in Call
  BY DEF IInv, ClientInv
<1>2. CASE EachTask(c)
  <2> DEFINE t == Min(cl.todo)
  <2>1. CASE t \in Live
    <3>1. client'[c].cmd = cl.cmd /\ client'[c].pc = IF cl.cmd = "remove" THEN "quiet" ELSE "status"
      BY <1>1, <1>2, <2>1 DEF EachTask, Call
    <3> QED
      BY <3>1 DEF ToUpdate
  <2>2. CASE t \notin Live
    <3>1. task' = task /\ client'[c].cmd = cl.cmd /\ client'[c].pc = "each" /\ cl.pc = "each"
      BY <1>1, <1>2, <2>2 DEF EachTask, Call
    <3> QED
      BY <3>1 DEF ToUpdate, ToNotify
  <2> QED
    BY <2>1, <2>2
<1>3. CASE InsertTask(c)
  <2>1. client'[c].pc \in {"raise", "status"}
    BY <1>1, <1>3 DEF InsertTask, Call
  <2> QED
    BY <2>1 DEF ToUpdate
<1>4. CASE RaisePriority(c)
  <2>1. client'[c].pc = "status"
    BY <1>1, <1>4 DEF RaisePriority, Call
  <2> QED
    BY <2>1 DEF ToUpdate
<1> QED
  BY <1>2, <1>3, <1>4

(* The other steps of a call: what may be served stays, a call that was on *)
(* its way to _mutex still is or took it, and it returns when it notifies. *)
LEMMA CallGoesToNotify ==
    ASSUME IInv, NEW c \in Clients, EndOfLoop(c) \/ UpdateStatus(c) \/ Notify(c)
    PROVE  /\ task' = task
           /\ wpc = "empty" /\ ToUpdate(c) => ToUpdate(c)'
           /\ wpc' = "waiting" /\ ToNotify(c) => ToNotify(c)'
           /\ wpc' \in {"empty", "waiting"} => wpc' = wpc
<1> DEFINE cl == client[c]
<1>1. client \in [Clients -> Call] /\ cl \in Call
  BY DEF IInv, ClientInv
<1>2. CASE EndOfLoop(c)
  <2>1. task' = task /\ wpc' = wpc /\ cl.pc = "each"
    BY <1>2 DEF EndOfLoop, queueVars, workerVars
  <2>2. CASE cl.cmd = "remove"
    <3>1. client'[c].cmd = "remove" /\ client'[c].pc = "insert"
      BY <1>1, <1>2, <2>2 DEF EndOfLoop, Call
    <3> QED
      BY <2>1, <3>1 DEF ToUpdate, ToNotify
  <2>3. CASE cl.cmd # "remove"
    BY <2>1, <2>3 DEF ToUpdate, ToNotify
  <2> QED
    BY <2>2, <2>3
<1>3. CASE UpdateStatus(c)
  <2>1. task' = task /\ wpc' = wpc /\ wpc # "empty" /\ cl.pc \in {"status", "quiet"}
    BY <1>3 DEF UpdateStatus, MutexFree, queueVars, workerVars
  <2>2. client'[c].cmd = cl.cmd /\ client'[c].pc = IF cl.pc = "status" THEN "notify" ELSE "each"
    BY <1>1, <1>3 DEF UpdateStatus, Call
  <2> QED
    BY <2>1, <2>2 DEF ToNotify
<1>4. CASE Notify(c)
  <2>1. task' = task /\ cl.pc = "notify" /\ wpc' = IF wpc = "waiting" THEN "pick" ELSE wpc
    BY <1>4 DEF Notify, queueVars
  <2> QED
    BY <2>1 DEF ToUpdate
<1> QED
  BY <1>2, <1>3, <1>4

LEMMA OtherCallsStay ==
    ASSUME IInv, NEW c \in Clients, BeginCall(c) \/ ContinueCall(c), NEW d \in Clients, d # c
    PROVE  (ToUpdate(d) => ToUpdate(d)') /\ (ToNotify(d) => ToNotify(d)')
<1>1. client \in [Clients -> Call]
  BY DEF IInv, ClientInv
<1>2. \E q : client' = [client EXCEPT ![c] = q]
  BY <1>1 DEF BeginCall, startPackageDownload, startPackageImport, startPackageListDownload,
              startPackageRemove, cancelPackageTasks, setPackagePriority, Begin,
              ContinueCall, EachTask, EndOfLoop, InsertTask, RaisePriority, UpdateStatus, Notify
<1>3. client'[d] = client[d]
  BY <1>1, <1>2
<1> QED
  BY <1>3 DEF ToUpdate, ToNotify

LEMMA BeginCallSteady ==
    ASSUME IInv, NEW c \in Clients, BeginCall(c)
    PROVE  /\ task' = task /\ wpc' = wpc
           /\ client[c].pc = "idle"
BY DEF BeginCall, startPackageDownload, startPackageImport, startPackageListDownload,
       startPackageRemove, cancelPackageTasks, setPackagePriority, Begin, workerVars

LEMMA RunnableStays == ASSUME task' = task PROVE Runnable' = Runnable
BY DEF Runnable, Live

LEMMA WakeStep == IInv /\ IdleInv /\ WakeInv /\ [Next]_vars => WakeInv'
<1> SUFFICES ASSUME IInv, IdleInv, WakeInv, [Next]_vars PROVE WakeInv'
  OBVIOUS
<1>1. ASSUME NEW c \in Clients, EachTask(c) \/ InsertTask(c) \/ RaisePriority(c) PROVE WakeInv'
  <2>1. wpc' = wpc
    BY <1>1 DEF EachTask, InsertTask, RaisePriority, workerVars
  <2>2. CASE ToUpdate(c)'
    BY <2>2 DEF WakeInv, ToUpdate, ToNotify
  <2>3. CASE task' = task /\ (ToUpdate(c) => ToUpdate(c)') /\ (ToNotify(c) => ToNotify(c)')
    <3>1. \A d \in Clients : (ToUpdate(d) => ToUpdate(d)') /\ (ToNotify(d) => ToNotify(d)')
      BY <1>1, <2>3, OtherCallsStay DEF ContinueCall
    <3> QED
      BY <2>1, <2>3, <3>1, RunnableStays DEF WakeInv
  <2> QED
    BY <1>1, <2>2, <2>3, CallGoesToUpdate
<1>2. ASSUME NEW c \in Clients, EndOfLoop(c) \/ UpdateStatus(c) \/ Notify(c) PROVE WakeInv'
  <2>1. Runnable' = Runnable /\ (wpc' \in {"empty", "waiting"} => wpc' = wpc)
    BY <1>2, CallGoesToNotify, RunnableStays
  <2>2. \A d \in Clients : /\ wpc = "empty" /\ ToUpdate(d) => ToUpdate(d)'
                           /\ wpc' = "waiting" /\ ToNotify(d) => ToNotify(d)'
    BY <1>2, CallGoesToNotify, OtherCallsStay DEF ContinueCall
  <2> QED
    BY <2>1, <2>2 DEF WakeInv
<1>3. ASSUME NEW c \in Clients, BeginCall(c) PROVE WakeInv'
  <2>1. ~ToUpdate(c) /\ ~ToNotify(c)
    BY <1>3, BeginCallSteady DEF ToUpdate, ToNotify, IdleInv
  <2>2. \A d \in Clients : (ToUpdate(d) => ToUpdate(d)') /\ (ToNotify(d) => ToNotify(d)')
    BY <1>3, <2>1, OtherCallsStay
  <2> QED
    BY <1>3, <2>2, BeginCallSteady, RunnableStays DEF WakeInv
<1>4. CASE WaitForTask
  <2>1. wpc = "empty" /\ wpc' = "waiting" /\ UNCHANGED <<task, client>>
    BY <1>4 DEF WaitForTask, Go, notStore, queueVars
  <2>2. \A d \in Clients : ToUpdate(d) => ToNotify(d)'
    BY <2>1 DEF ToUpdate, ToNotify
  <2> QED
    BY <2>1, <2>2, RunnableStays DEF WakeInv
<1>5. CASE Start \/ Stop \/ (\E p \in Packages : Publish(p)) \/ Reader \/ SpuriousWakeup \/ UNCHANGED vars
  <2>1. UNCHANGED <<task, client>> /\ (wpc' \in {"empty", "waiting"} => wpc' = wpc)
    BY <1>5 DEF Start, Stop, Publish, Reader, BeginAccess, EndAccess, SpuriousWakeup, Go, notStore,
                queueVars, workerVars, vars
  <2>2. \A d \in Clients : (ToUpdate(d) => ToUpdate(d)') /\ (ToNotify(d) => ToNotify(d)')
    BY <2>1 DEF ToUpdate, ToNotify
  <2> QED
    BY <2>1, <2>2, RunnableStays DEF WakeInv
<1>6. CASE PickTask
  <2>1. wpc' # "waiting" /\ (wpc' = "empty" => Runnable' = {})
    <3>1. active' \in Live /\ wpc' = task[active'].cmd => wpc' \in {"download", "import", "remove", "list"}
      BY DEF Live, IInv, QueueInv, TaskRow, FileCommands
    <3> QED
      BY <1>6, <3>1, PickTaskChoice
  <2> QED
    BY <2>1 DEF WakeInv
<1>7. CASE Serves \/ EndTask \/ Crash
  <2>1. wpc' \notin {"empty", "waiting"}
    BY <1>7, ServesStep DEF EndTask, Crash, Serving
  <2> QED
    BY <2>1 DEF WakeInv
<1> QED
  BY <1>1, <1>2, <1>3, <1>4, <1>5, <1>6, <1>7, NextCases DEF Aside, ContinueCall

(* A call that has not begun names no command. *)
LEMMA IdleStep == IInv /\ IdleInv /\ [Next]_vars => IdleInv'
<1> SUFFICES ASSUME IInv, IdleInv, [Next]_vars, NEW d \in Clients, client'[d].pc = "idle"
             PROVE  client'[d].cmd = "none"
  BY DEF IdleInv
<1>1. CASE UNCHANGED client
  BY <1>1 DEF IdleInv
<1>2. CASE Crash
  BY <1>2 DEF Crash, IdleClient
<1>3. ASSUME NEW c \in Clients, BeginCall(c) \/ ContinueCall(c) PROVE client'[d].cmd = "none"
  <2>1. client \in [Clients -> Call] /\ client[c] \in Call
    BY DEF IInv, ClientInv
  <2>2. CASE d # c
    <3>1. \E q : client' = [client EXCEPT ![c] = q]
      BY <1>3, <2>1 DEF BeginCall, startPackageDownload, startPackageImport, startPackageListDownload,
              startPackageRemove, cancelPackageTasks, setPackagePriority, Begin,
              ContinueCall, EachTask, EndOfLoop, InsertTask, RaisePriority, UpdateStatus, Notify
    <3> QED
      BY <2>1, <2>2, <3>1 DEF IdleInv
  <2>3. CASE d = c /\ BeginCall(c)
    <3>1. ASSUME NEW cmd, NEW p, NEW arg, NEW pc \in {"insert", "each"}, NEW todo, Begin(c, cmd, p, arg, pc, todo)
          PROVE  client'[c].pc # "idle"
      BY <2>1, <3>1 DEF Begin
    <3>2. client'[c].pc # "idle"
      BY <2>3, <3>1 DEF BeginCall, startPackageDownload, startPackageImport, startPackageListDownload,
              startPackageRemove, cancelPackageTasks, setPackagePriority
    <3> QED
      BY <2>3, <3>2
  <2>4. CASE d = c /\ (EachTask(c) \/ InsertTask(c) \/ RaisePriority(c) \/ UpdateStatus(c))
    <3>1. client'[c].pc # "idle"
      BY <2>1, <2>4 DEF EachTask, InsertTask, RaisePriority, UpdateStatus, Call
    <3> QED
      BY <2>4, <3>1
  <2>5. CASE d = c /\ EndOfLoop(c)
    BY <2>1, <2>5 DEF EndOfLoop, IdleClient, Call
  <2>6. CASE d = c /\ Notify(c)
    BY <2>1, <2>6 DEF Notify, IdleClient, Call
  <2> QED
    BY <1>3, <2>2, <2>3, <2>4, <2>5, <2>6 DEF ContinueCall
<1>4. Start \/ Stop \/ (\E p \in Packages : Publish(p)) \/ Reader \/ WaitForTask \/ SpuriousWakeup \/ UNCHANGED vars
           => UNCHANGED client
  BY DEF Start, Stop, Publish, Reader, BeginAccess, EndAccess, WaitForTask, SpuriousWakeup, notStore, vars
<1> QED
  BY <1>1, <1>2, <1>3, <1>4, NextCases, ServesStep, PickTaskChoice, EndTaskQueue DEF Aside

-----------------------------------------------------------------------------
(* Nothing is left behind. *)

LEMMA QuietBefore == ASSUME IInv, TypeInv, [Next]_vars, Quiet' PROVE Quiet /\ ~Crash
<1>1. crashes \in Nat
  BY DEF TypeInv
<1>2. crashes' = crashes \/ (Crash /\ crashes' = crashes + 1)
  BY NextCases, AsideStep, ServesStep, PickTaskChoice, EndTaskQueue DEF Crash
<1>3. ~Crash
  BY <1>1 DEF Crash, Quiet
<1> QED
  BY <1>2, <1>3 DEF Quiet

LEMMA OfferedCallStep ==
    ASSUME IInv, Quiet, NEW c \in Clients, NEW d \in Clients, OfferedCall(d),
           BeginCall(c) \/ ContinueCall(c), list' = list
    PROVE  OfferedCall(d)'
<1>1. client \in [Clients -> Call] /\ client[c] \in Call
  BY DEF IInv, ClientInv
<1>2. CASE d # c
  <2>1. \E q : client' = [client EXCEPT ![c] = q]
    BY <1>1 DEF BeginCall, startPackageDownload, startPackageImport, startPackageListDownload,
                startPackageRemove, cancelPackageTasks, setPackagePriority, Begin,
                ContinueCall, EachTask, EndOfLoop, InsertTask, RaisePriority, UpdateStatus, Notify
  <2>2. client'[d] = client[d]
    BY <1>1, <1>2, <2>1
  <2> QED
    BY <2>2 DEF OfferedCall
<1>3. ASSUME d = c, BeginCall(c) PROVE OfferedCall(d)'
  <2>1. ASSUME NEW cmd, NEW p, NEW arg, NEW pc, NEW todo, Begin(c, cmd, p, arg, pc, todo)
        PROVE  client'[c].cmd = cmd /\ client'[c].pkg = p /\ client'[c].arg = arg /\ cmd # "list"
    BY <1>1, <2>1 DEF Begin, Quiet
  <2>2. ASSUME NEW p \in Packages, startPackageDownload(c, p) PROVE OfferedCall(d)'
    <3>1. Begin(c, "download", p, list[p], "insert", {})
      BY <2>2 DEF startPackageDownload
    <3> QED
      BY <1>3, <2>1, <3>1 DEF OfferedCall
  <2>3. ASSUME NEW p \in Packages, startPackageRemove(c, p) PROVE OfferedCall(d)'
    <3>1. PICK v \in Versions : Begin(c, "remove", p, v, "each", TasksOf(p))
      BY <2>3 DEF startPackageRemove
    <3> QED
      BY <1>3, <2>1, <3>1 DEF OfferedCall
  <2>4. ASSUME NEW p \in Packages, cancelPackageTasks(c, p) PROVE OfferedCall(d)'
    BY <1>3, <2>1, <2>4 DEF OfferedCall, cancelPackageTasks
  <2>5. ASSUME NEW p \in Packages, NEW v \in Versions, startPackageImport(c, p, v) PROVE OfferedCall(d)'
    BY <1>3, <2>1, <2>5 DEF OfferedCall, startPackageImport
  <2>6. ASSUME NEW p \in Packages, NEW prio \in Priorities, setPackagePriority(c, p, prio) PROVE OfferedCall(d)'
    BY <1>3, <2>1, <2>6 DEF OfferedCall, setPackagePriority
  <2>7. ~startPackageListDownload(c)
    BY <2>1 DEF startPackageListDownload
  <2> QED
    BY <1>3, <2>2, <2>3, <2>4, <2>5, <2>6, <2>7 DEF BeginCall
<1>4. ASSUME d = c, ContinueCall(c) PROVE OfferedCall(d)'
  <2>1. CASE client'[c] = IdleClient
    BY <1>4, <2>1 DEF OfferedCall, IdleClient
  <2>2. CASE client'[c].cmd = client[c].cmd /\ client'[c].pkg = client[c].pkg /\ client'[c].arg = client[c].arg
    BY <1>4, <2>2 DEF OfferedCall
  <2>3. CASE EachTask(c) \/ RaisePriority(c) \/ UpdateStatus(c)
    BY <1>1, <2>2, <2>3 DEF EachTask, RaisePriority, UpdateStatus, Call
  <2>4. CASE EndOfLoop(c)
    BY <1>1, <2>1, <2>2, <2>4 DEF EndOfLoop, Call
  <2>5. CASE InsertTask(c)
    <3>1. client[c].cmd # "list"
      BY <1>4 DEF OfferedCall
    <3> QED
      BY <1>1, <2>2, <2>5, <3>1 DEF InsertTask, Call
  <2>6. CASE Notify(c)
    BY <1>1, <2>1, <2>2, <2>6 DEF Notify, Call
  <2> QED
    BY <1>4, <2>3, <2>4, <2>5, <2>6 DEF ContinueCall
<1> QED
  BY <1>2, <1>3, <1>4

LEMMA OfferedTaskStep ==
    ASSUME IInv, Quiet, NEW c \in Clients, OfferedCall(c), ContinueCall(c), list' = list,
           \A t \in Live : OfferedTask(t), NEW u \in Live'
    PROVE  OfferedTask(u)'
<1>1. TasksStay
  BY QueueGrows
<1>2. CASE u \in Live
  BY <1>1, <1>2 DEF TasksStay, OfferedTask
<1>3. CASE u \notin Live
  <2>1. u \in TaskIds /\ task'[u].cmd # "none" /\ task[u].cmd = "none"
    BY <1>3 DEF Live
  <2>2. CASE InsertTask(c)
    <3>1. /\ task' = [task EXCEPT ![nextId] =
                        [cmd |-> client[c].cmd, pkg |-> client[c].pkg, ver |-> client[c].arg,
                         prio |-> DefaultPriority, canceled |-> FALSE]]
      BY <2>2 DEF InsertTask
    <3>2. task \in [TaskIds -> TaskRow]
      BY DEF IInv, QueueInv
    <3>3. task'[u].cmd = client[c].cmd /\ task'[u].pkg = client[c].pkg /\ task'[u].ver = client[c].arg
      BY <2>1, <3>1, <3>2
    <3> QED
      BY <3>3 DEF OfferedCall, OfferedTask
  <2>3. CASE ~InsertTask(c)
    <3>1. task \in [TaskIds -> TaskRow]
      BY DEF IInv, QueueInv
    <3>2. \A t \in Live : t # u
      BY <1>3
    <3>3. CASE EachTask(c)
      <4> DEFINE t == Min(client[c].todo)
      <4>1. task' = task \/ (t \in Live /\ \E q : task' = [task EXCEPT ![t] = q])
        BY <3>3 DEF EachTask
      <4> HIDE DEF t
      <4> QED
        BY <2>1, <3>1, <3>2, <4>1
    <3>4. CASE RaisePriority(c)
      <4> DEFINE t == client[c].arg
      <4>1. task' = task \/ (t \in Live /\ \E q : task' = [task EXCEPT ![t] = q])
        BY <3>4 DEF RaisePriority
      <4> HIDE DEF t
      <4> QED
        BY <2>1, <3>1, <3>2, <4>1
    <3>5. CASE EndOfLoop(c) \/ UpdateStatus(c) \/ Notify(c)
      BY <2>1, <3>5 DEF EndOfLoop, UpdateStatus, Notify, queueVars
    <3> QED
      BY <2>3, <3>3, <3>4, <3>5 DEF ContinueCall
  <2> QED
    BY <2>2, <2>3
<1> QED
  BY <1>2, <1>3

LEMMA OfferStep == IInv /\ TypeInv /\ PlaceInv /\ OfferInv /\ [Next]_vars => OfferInv'
<1> SUFFICES ASSUME IInv, TypeInv, PlaceInv, OfferInv, [Next]_vars, Quiet'
             PROVE  (\A c \in Clients : OfferedCall(c)') /\ (\A t \in Live' : OfferedTask(t)')
  BY DEF OfferInv
<1>1. Quiet /\ ~Crash /\ (\A c \in Clients : OfferedCall(c)) /\ (\A t \in Live : OfferedTask(t))
  BY QuietBefore DEF OfferInv
<1>2. ASSUME UNCHANGED <<client, list>>, \A t \in Live' : t \in Live /\ task'[t] = task[t]
      PROVE  (\A c \in Clients : OfferedCall(c)') /\ (\A t \in Live' : OfferedTask(t)')
  BY <1>1, <1>2 DEF OfferedCall, OfferedTask
<1>3. ASSUME NEW c \in Clients, BeginCall(c) \/ ContinueCall(c)
      PROVE  (\A d \in Clients : OfferedCall(d)') /\ (\A t \in Live' : OfferedTask(t)')
  <2>1. list' = list
    BY <1>3, AsideStep DEF Aside
  <2>2. \A d \in Clients : OfferedCall(d)'
    BY <1>1, <1>3, <2>1, OfferedCallStep
  <2>3. CASE BeginCall(c)
    <3>1. task' = task
      BY <2>3, BeginCallSteady
    <3> QED
      BY <1>1, <2>1, <2>2, <3>1 DEF OfferedTask, Live
  <2>4. CASE ContinueCall(c)
    BY <1>1, <2>1, <2>2, <2>4, OfferedTaskStep
  <2> QED
    BY <1>3, <2>3, <2>4
<1>4. CASE Start \/ Stop \/ (\E p \in Packages : Publish(p)) \/ Reader \/ WaitForTask \/ SpuriousWakeup \/ UNCHANGED vars
  <2>1. UNCHANGED <<client, list, task>>
    BY <1>4 DEF Start, Stop, Publish, Reader, BeginAccess, EndAccess, WaitForTask, SpuriousWakeup, notStore,
                queueVars, listVars, vars
  <2> QED
    BY <1>2, <2>1 DEF Live
<1>5. CASE Serves
  <2>1. list' = list
    <3>1. ~UnlinkList /\ ~RenameList
      <4>1. wpc \notin {"saveList", "listGap"}
        BY <1>1 DEF PlaceInv, Listing, IInv, WorkerInv, Serving, WorkerPcs, OfferedTask
      <4> QED
        BY <4>1 DEF UnlinkList, RenameList, Go
    <3> QED
      BY <1>5, <3>1 DEF Serves, BeginDownload, ReceiveFile, BreakTransfer, AfterBreak, PauseOrRetry, BeginImport,
                  AfterCopy, InsertRow, importLocalPackage, ImportFails, NotifyAdded, DeleteRow, NotifyDeleted, UnlinkFile,
                  DeletedAll, BeginRemove, FetchList, notStore, listVars
  <2> QED
    BY <1>2, <1>5, <2>1, ServesStep
<1>6. CASE PickTask
  BY <1>2, <1>6, PickTaskChoice
<1>7. CASE EndTask
  BY <1>2, <1>7, EndTaskQueue
<1> QED
  BY <1>1, <1>3, <1>4, <1>5, <1>6, <1>7, NextCases DEF Aside

LEMMA KeptStays == ASSUME IInv, TasksStay, NewTasksLast, NEW pv, Kept(pv) PROVE Kept(pv)'
<1>1. PICK t \in Live : task[t].cmd = "download" /\ <<task[t].pkg, task[t].ver>> = pv /\ IsFirst(t)
  BY DEF Kept
<1>2. t \in Live' /\ task'[t].cmd = "download" /\ <<task'[t].pkg, task'[t].ver>> = pv
  BY <1>1 DEF TasksStay, Live
<1>3. ASSUME NEW u \in Live', task'[u].pkg = task'[t].pkg PROVE t <= u
  <2>1. CASE u \in Live
    BY <1>1, <1>3, <2>1 DEF IsFirst, TasksStay
  <2>2. CASE u \notin Live
    <3>1. t < u
      BY <2>2 DEF NewTasksLast
    <3>2. t \in Int /\ u \in Int
      BY DEF Live, TaskIds
    <3> QED
      BY <3>1, <3>2
  <2> QED
    BY <2>1, <2>2
<1> QED
  BY <1>2, <1>3 DEF Kept, IsFirst

LEMMA KeptWhileServing == ASSUME Serves, NEW pv PROVE Kept(pv)' <=> Kept(pv)
BY ServesStep DEF Kept, IsFirst

LEMMA FetchedIsKept ==
    ASSUME IInv, PlaceInv, FirstInv, wpc \in Fetching
    PROVE  Kept(aFile)
<1>1. wpc \in Serving /\ active \in Live /\ task[active].cmd = "download"
  BY DEF Fetching, Serving, WorkerPcs, IInv, WorkerInv, PlaceInv
<1> QED
  BY <1>1 DEF Kept, FirstInv, aFile, aPkg, aVer

LEMMA OrphanServing ==
    ASSUME IInv, TypeInv, PlaceInv, FirstInv, ReportInv, OfferInv, Quiet, RowsBusy, FilesBusy, Serves
    PROVE  RowsBusy' /\ FilesBusy' /\ FailedGone'
<1> DEFINE PV == Packages \X Versions
           cmd == task[active].cmd
<1>1. /\ task'[active'].cmd = cmd /\ aFile' = aFile /\ aPkg' = aPkg /\ aVer' = aVer /\ active \in Live
  BY ServesStep DEF IInv, WorkerInv
<1>2. /\ rows \in [PV -> {"none", "invalid", "valid"}]
      /\ file \in [PV -> {"none", "part", "full"}]
  BY DEF IInv, StoreInv
<1>3. \A pv : Kept(pv)' <=> Kept(pv)
  BY KeptWhileServing
<1>4. wpc \in FilePcs => aFile \in PV /\ aFile = <<aPkg, aVer>>
  BY FileOfTask DEF aFile
<1>5. FailedGone' \/ wpc' = "failed"
  BY DEF FailedGone
(* Steps without an invalid row before or after. *)
<1>6. ASSUME wpc \notin Deletion \cup {"mark", "notifyAdded"}, rows' = rows, unfit' = unfit PROVE RowsBusy'
  BY <1>6 DEF RowsBusy, BusyRow
<1>7. CASE BeginDownload \/ ReceiveFile \/ BreakTransfer \/ AfterBreak \/ PauseOrRetry
  <2>1. /\ wpc \in Fetching /\ cmd = "download" /\ rows' = rows /\ unfit' = unfit
        /\ file' = file \/ \E x : file' = [file EXCEPT ![aFile] = x]
    BY <1>7 DEF BeginDownload, ReceiveFile, BreakTransfer, AfterBreak, PauseOrRetry, Go, PlaceInv, Fetching,
                storeVars
  <2>2. aFile \in PV /\ Kept(aFile)
    BY <1>4, <2>1, FetchedIsKept DEF Fetching, FilePcs
  <2>3. RowsBusy'
    BY <1>6, <2>1 DEF Fetching, Deletion
  <2>4. FilesBusy'
    <3>1. \A pv \in PV : pv # aFile => file'[pv] = file[pv]
      BY <1>2, <2>1
    <3>2. \A pv \in PV : file[pv] # "none" /\ Unused(pv) => Kept(pv)
      BY <2>1 DEF FilesBusy, BusyFile, Fetching, Deleting
    <3> QED
      BY <1>3, <2>1, <2>2, <3>1, <3>2 DEF FilesBusy, BusyFile, Unused
  <2>5. FailedGone'
    <3>1. CASE BeginDownload
      <4>1. list[aPkg] = aVer
        BY <1>1, <2>1 DEF OfferInv, OfferedTask, aPkg, aVer
      <4> QED
        BY <3>1, <4>1 DEF BeginDownload, FailedGone
    <3>2. CASE PauseOrRetry
      <4>1. wpc' = "failed" => file' = [file EXCEPT ![aFile] = "none"]
        BY <3>2 DEF PauseOrRetry
      <4> QED
        BY <1>1, <1>2, <2>2, <4>1 DEF FailedGone
    <3>3. CASE ReceiveFile \/ BreakTransfer \/ AfterBreak
      BY <3>3 DEF ReceiveFile, BreakTransfer, AfterBreak, Go, FailedGone
    <3> QED
      BY <1>7, <3>1, <3>2, <3>3
  <2> QED
    BY <2>3, <2>4, <2>5
<1>8. CASE BeginImport \/ AfterCopy
  <2>1. /\ wpc \in Importing /\ cmd = "import" /\ rows' = rows /\ unfit' = unfit
        /\ \/ wpc' = "finished" /\ file' = file /\ wpc = "import"
           \/ wpc' = "copied" /\ \E x : file' = [file EXCEPT ![aFile] = x]
           \/ wpc' \in {"canceled", "failed"} /\ file' = [file EXCEPT ![aFile] = "none"]
           \/ wpc' = "insert" /\ file' = file
    BY <1>8 DEF BeginImport, AfterCopy, PlaceInv, Importing
  <2>2. aFile \in PV
    BY <1>4, <2>1 DEF Importing, FilePcs
  <2>3. RowsBusy'
    BY <1>6, <2>1 DEF Importing, Deletion
  <2>4. FilesBusy'
    <3>1. \A pv \in PV : pv # aFile => file'[pv] = file[pv]
      BY <1>2, <2>1
    <3>2. \A pv \in PV : file[pv] # "none" /\ Unused(pv) => Kept(pv) \/ (wpc = "copied" /\ pv = aFile)
      BY <2>1 DEF FilesBusy, BusyFile, Importing, Deleting
    <3>3. wpc' \in {"canceled", "failed"} => file'[aFile] = "none"
      BY <1>2, <2>1, <2>2
    <3>4. ASSUME NEW pv \in PV, file'[pv] # "none", Unused(pv)' PROVE BusyFile(pv)'
      <4>1. CASE pv = aFile /\ wpc' \in {"copied", "insert"}
        BY <1>1, <4>1 DEF BusyFile
      <4>2. CASE pv = aFile /\ wpc' = "finished"
        BY <1>3, <2>1, <3>2, <3>4, <4>2 DEF BusyFile, Unused
      <4>3. CASE pv # aFile
        BY <1>3, <2>1, <3>1, <3>2, <3>4, <4>3 DEF BusyFile, Unused
      <4> QED
        BY <2>1, <3>3, <3>4, <4>1, <4>2, <4>3
    <3> QED
      BY <3>4 DEF FilesBusy
  <2>5. FailedGone'
    BY <1>1, <2>1 DEF FailedGone
  <2> QED
    BY <2>3, <2>4, <2>5
<1>9. CASE InsertRow
  <2>1. /\ wpc = "insert" /\ wpc' = "mark" /\ file' = file /\ unfit' = unfit
        /\ rows' = [rows EXCEPT ![aFile] = IF @ = "none" THEN "invalid" ELSE @]
    BY <1>9 DEF InsertRow, Go
  <2>2. aFile \in PV
    BY <1>4, <2>1 DEF FilePcs
  <2>3. /\ rows'[aFile] # "none" /\ (rows'[aFile] = "valid" <=> rows[aFile] = "valid")
        /\ \A pv \in PV : pv # aFile => rows'[pv] = rows[pv]
    BY <1>2, <2>1, <2>2
  <2>4. RowsBusy'
    BY <1>1, <2>1, <2>3 DEF RowsBusy, BusyRow, Deletion
  <2>5. FilesBusy'
    BY <1>1, <1>3, <2>1, <2>3 DEF FilesBusy, BusyFile, Deleting, Unused
  <2> QED
    BY <1>5, <2>1, <2>4, <2>5
<1>10. CASE importLocalPackage
  <2>1. /\ wpc = "mark" /\ wpc' = "notifyAdded" /\ file' = file /\ unfit' = unfit \ {aFile}
        /\ rows' = WithOnlyValid(rows, aPkg, aVer)
        /\ delVers' = {v \in Versions : rows'[<<aPkg, v>>] = "invalid"}
    BY <1>10 DEF importLocalPackage, Go
  <2>2. \A pv \in PV : rows'[pv] = IF pv[1] # aPkg \/ rows[pv] = "none" THEN rows[pv]
                                   ELSE IF pv[2] = aVer THEN "valid" ELSE "invalid"
    BY <1>2, <2>1 DEF WithOnlyValid
  <2>3. aFile = <<aPkg, aVer>>
    BY DEF aFile
  <2>4. RowsBusy'
    <3>1. ASSUME NEW pv \in PV, rows'[pv] = "invalid", pv \notin unfit' PROVE BusyRow(pv)'
      <4>1. pv[1] = aPkg
        BY <2>1, <2>2, <2>3, <3>1 DEF RowsBusy, BusyRow, Deletion
      <4>2. pv = <<aPkg, pv[2]>> /\ pv[2] \in Versions
        BY <4>1
      <4>3. pv[2] \in delVers'
        BY <2>1, <3>1, <4>2
      <4> QED
        BY <1>1, <2>1, <4>1, <4>3 DEF BusyRow
    <3>2. \A pv \in PV : rows'[pv] = "valid" => rows[pv] = "valid" \/ pv = aFile
      BY <2>2, <2>3
    <3> QED
      BY <2>1, <3>1, <3>2 DEF RowsBusy
  <2>5. FilesBusy'
    <3>1. \A pv \in PV : rows'[pv] = "none" <=> rows[pv] = "none"
      BY <2>2
    <3>2. rows[aFile] # "none"
      BY <2>1 DEF ReportInv
    <3>3. \A pv \in PV : Unused(pv)' => Unused(pv) /\ pv # aFile
      BY <2>1, <3>1, <3>2 DEF Unused
    <3> QED
      BY <1>3, <2>1, <3>3 DEF FilesBusy, BusyFile, Deleting
  <2> QED
    BY <1>5, <2>1, <2>4, <2>5
<1>16. CASE ImportFails
  <2>1. /\ wpc = "mark" /\ wpc' = "failed" /\ rows' = rows /\ unfit' = unfit \cup {aFile}
        /\ file' = [file EXCEPT ![aFile] = "none"]
    BY <1>16 DEF ImportFails, Go
  <2>2. file'[aFile] = "none" /\ \A pv \in PV : pv # aFile => file'[pv] = file[pv]
    BY <1>2, <1>4, <2>1 DEF FilePcs
  <2>6. rows[aFile] # "valid"
    BY <2>1 DEF IInv, WorkerInv, Writing
  <2>3. RowsBusy'
    BY <2>1, <2>6 DEF RowsBusy, BusyRow, Deletion
  <2>4. FilesBusy'
    <3>1. ASSUME NEW pv \in PV, file'[pv] # "none", Unused(pv)' PROVE BusyFile(pv)'
      <4>1. pv # aFile /\ file[pv] # "none" /\ Unused(pv)
        BY <2>1, <2>2, <3>1 DEF Unused
      <4> QED
        BY <1>3, <2>1, <4>1 DEF FilesBusy, BusyFile, Deleting
    <3> QED
      BY <3>1 DEF FilesBusy
  <2>5. FailedGone'
    BY <1>1, <2>2 DEF FailedGone
  <2> QED
    BY <2>3, <2>4, <2>5
<1>11. CASE NotifyAdded \/ NotifyDeleted
  <2>1. /\ UNCHANGED <<rows, file, delVers, unfit>>
        /\ \/ wpc = "notifyAdded" /\ wpc' = "delete"
           \/ wpc = "notifyDeleted" /\ wpc' = "unlink"
    BY <1>11 DEF NotifyAdded, NotifyDeleted, Go, storeVars
  <2>2. RowsBusy'
    BY <1>1, <2>1 DEF RowsBusy, BusyRow, Deletion
  <2>3. FilesBusy'
    BY <1>1, <1>3, <2>1 DEF FilesBusy, BusyFile, Deleting, Unused
  <2> QED
    BY <1>5, <2>1, <2>2, <2>3
<1>12. CASE DeleteRow
  <2> DEFINE old == <<aPkg, Min(delVers)>>
  <2>1. /\ wpc = "delete" /\ wpc' = "notifyDeleted" /\ UNCHANGED <<file, delVers>>
        /\ rows' = [rows EXCEPT ![old] = "none"] /\ unfit' = unfit \ {old}
    BY <1>12 DEF DeleteRow
  <2>2. \A pv \in PV : pv # old => rows'[pv] = rows[pv]
    BY <1>2, <2>1
  <2>3. \A pv \in PV : rows'[pv] \in {"invalid", "valid"} => rows[pv] = rows'[pv] /\ pv # old
    BY <1>2, <2>1
  <2>4. RowsBusy'
    <3>1. ASSUME NEW pv \in PV, rows'[pv] = "invalid" PROVE BusyRow(pv)' \/ pv \in unfit'
      <4>1. rows[pv] = "invalid" /\ pv # old
        BY <2>3, <3>1
      <4>2. BusyRow(pv) => BusyRow(pv)'
        BY <1>1, <2>1 DEF BusyRow, Deletion
      <4> QED
        BY <2>1, <4>1, <4>2 DEF RowsBusy
    <3>2. ASSUME NEW pv \in PV, rows'[pv] = "valid" PROVE pv \notin unfit'
      BY <2>1, <2>3, <3>2 DEF RowsBusy
    <3> QED
      BY <3>1, <3>2 DEF RowsBusy
  <2>5. FilesBusy'
    <3>1. ASSUME NEW pv \in PV, file'[pv] # "none", Unused(pv)' PROVE BusyFile(pv)'
      <4>1. CASE pv = old
        BY <1>1, <2>1, <4>1 DEF BusyFile, Deleting
      <4>2. CASE pv # old
        BY <1>3, <2>1, <2>2, <3>1, <4>2 DEF FilesBusy, BusyFile, Deleting, Unused
      <4> QED
        BY <4>1, <4>2
    <3> QED
      BY <3>1 DEF FilesBusy
  <2> QED
    BY <1>5, <2>1, <2>4, <2>5
<1>13. CASE UnlinkFile
  <2> DEFINE old == <<aPkg, Min(delVers)>>
  <2>1. /\ wpc = "unlink" /\ wpc' = "delete" /\ rows' = rows /\ delVers' = delVers \ {Min(delVers)} /\ unfit' = unfit
        /\ file' = [file EXCEPT ![old] = "none"]
    BY <1>13 DEF UnlinkFile, Go
  <2>2. rows[old] = "none"
    BY <2>1 DEF IInv, WorkerInv, Deleting
  <2>3. RowsBusy'
    <3>1. ASSUME NEW pv \in PV, rows'[pv] = "invalid", pv \notin unfit' PROVE BusyRow(pv)'
      <4>1. pv[1] = aPkg /\ pv[2] \in delVers /\ pv = <<aPkg, pv[2]>>
        BY <2>1, <3>1 DEF RowsBusy, BusyRow, Deletion
      <4>2. pv[2] # Min(delVers)
        BY <2>1, <2>2, <3>1, <4>1
      <4> QED
        BY <1>1, <2>1, <4>1, <4>2 DEF BusyRow, Deletion
    <3> QED
      BY <2>1, <3>1 DEF RowsBusy
  <2>4. FilesBusy'
    <3>1. ASSUME NEW pv \in PV, file'[pv] # "none", Unused(pv)' PROVE BusyFile(pv)'
      <4>1. pv # old /\ file'[pv] = file[pv]
        BY <1>2, <2>1, <3>1
      <4> QED
        BY <1>3, <2>1, <3>1, <4>1 DEF FilesBusy, BusyFile, Deleting, Unused
    <3> QED
      BY <3>1 DEF FilesBusy
  <2> QED
    BY <1>5, <2>1, <2>3, <2>4
<1>14. CASE DeletedAll
  <2>1. wpc = "delete" /\ wpc' = "finished" /\ delVers = {} /\ UNCHANGED <<rows, file, unfit>>
    BY <1>14 DEF DeletedAll, Go, storeVars
  <2>2. RowsBusy'
    BY <2>1 DEF RowsBusy, BusyRow
  <2>3. FilesBusy'
    BY <1>3, <2>1 DEF FilesBusy, BusyFile, Deleting, Unused
  <2> QED
    BY <1>5, <2>1, <2>2, <2>3
<1>15. CASE BeginRemove \/ FetchList \/ UnlinkList \/ RenameList
  <2>1. /\ wpc \in {"remove"} \cup Listing /\ UNCHANGED <<rows, file, unfit>> /\ cmd # "download"
    BY <1>15 DEF BeginRemove, FetchList, UnlinkList, RenameList, Go, storeVars, notStore, PlaceInv, Listing
  <2>2. RowsBusy'
    BY <1>6, <2>1 DEF Listing, Deletion
  <2>3. FilesBusy'
    BY <1>3, <2>1 DEF FilesBusy, BusyFile, Deleting, Listing, Unused
  <2>4. FailedGone'
    BY <1>1, <2>1 DEF FailedGone
  <2> QED
    BY <2>2, <2>3, <2>4
<1> QED
  BY <1>7, <1>8, <1>9, <1>10, <1>11, <1>12, <1>13, <1>14, <1>15, <1>16 DEF Serves

LEMMA OrphanStep ==
    IInv /\ TypeInv /\ PlaceInv /\ FirstInv /\ ReportInv /\ OfferInv /\ OrphanInv /\ [Next]_vars => OrphanInv'
<1> SUFFICES ASSUME IInv, TypeInv, PlaceInv, FirstInv, ReportInv, OfferInv, OrphanInv, [Next]_vars, Quiet'
             PROVE  RowsBusy' /\ FilesBusy' /\ FailedGone'
  BY DEF OrphanInv
<1>1. Quiet /\ ~Crash /\ RowsBusy /\ FilesBusy /\ FailedGone
  BY QuietBefore DEF OrphanInv
<1>2. CASE Aside
  <2>1. UNCHANGED <<rows, file, unfit, active, delVers>> /\ TasksStay /\ NewTasksLast
    BY <1>2, AsideStep
  <2>2. \A pv : Kept(pv) => Kept(pv)'
    BY <2>1, KeptStays
  <2>3. CASE wpc' \in Serving
    <3>1. wpc' = wpc /\ aFile' = aFile /\ aPkg' = aPkg /\ task'[active].cmd = task[active].cmd
      BY <1>2, <2>3, AsideServing
    <3> QED
      BY <1>1, <2>1, <2>2, <3>1 DEF RowsBusy, FilesBusy, FailedGone, BusyRow, BusyFile, Unused
  <2>4. CASE wpc' \notin Serving
    <3>1. wpc \in Resting /\ wpc' \in Resting
      BY <1>2, <2>4, AsideStep DEF IInv, WorkerInv, Serving, Resting
    <3> QED
      BY <1>1, <2>1, <2>2, <3>1 DEF RowsBusy, FilesBusy, FailedGone, BusyRow, BusyFile, Unused, Resting, Deletion,
                                              Deleting
  <2> QED
    BY <2>3, <2>4
<1>3. CASE Serves
  BY <1>1, <1>3, OrphanServing
<1>4. CASE PickTask
  <2>1. UNCHANGED <<rows, file, unfit, task>> /\ Live' = Live /\ wpc = "pick"
    BY <1>4, PickTaskChoice
  <2>2. \A pv : Kept(pv) => Kept(pv)'
    BY <2>1 DEF Kept, IsFirst
  <2>3. wpc' # "failed"
    BY <1>4, PickTaskChoice DEF Live, IInv, QueueInv, TaskRow, FileCommands
  <2> QED
    BY <1>1, <2>1, <2>2, <2>3 DEF RowsBusy, FilesBusy, FailedGone, BusyRow, BusyFile, Unused, Deletion, Deleting
<1>5. CASE EndTask
  <2>1. /\ UNCHANGED <<rows, file, unfit>> /\ wpc' = "pick"
        /\ wpc \in {"finished", "failed", "canceled", "paused"} /\ active \in Live
        /\ Live' = IF wpc = "paused" THEN Live ELSE Live \ {active}
        /\ \A t \in Live' : task'[t] = task[t]
    BY <1>5, EndTaskQueue
  <2>2. RowsBusy' /\ FailedGone'
    BY <1>1, <2>1 DEF RowsBusy, FailedGone, BusyRow, Deletion
  <2>3. ASSUME NEW pv \in Packages \X Versions, file'[pv] # "none", Unused(pv)' PROVE BusyFile(pv)'
    <3>1. Kept(pv)
      BY <1>1, <2>1, <2>3 DEF FilesBusy, BusyFile, Deleting, Unused
    <3>2. PICK t \in Live : task[t].cmd = "download" /\ <<task[t].pkg, task[t].ver>> = pv /\ IsFirst(t)
      BY <3>1 DEF Kept
    <3>3. t \in Live'
      <4>1. ASSUME t = active, wpc # "paused" PROVE FALSE
        <5>1. pv = aFile /\ task[active].cmd = "download"
          BY <3>2, <4>1 DEF aFile, aPkg, aVer
        <5> QED
          BY <1>1, <2>1, <2>3, <4>1, <5>1 DEF ReportInv, Installed, FailedGone, RowsBusy, Unused
      <4> QED
        BY <2>1, <4>1
    <3>4. IsFirst(t)'
      BY <2>1, <3>2, <3>3 DEF IsFirst
    <3> QED
      BY <2>1, <3>2, <3>3, <3>4 DEF BusyFile, Kept
  <2> QED
    BY <2>2, <2>3 DEF FilesBusy
<1> QED
  BY <1>1, <1>2, <1>3, <1>4, <1>5, NextCases

-----------------------------------------------------------------------------
LEMMA InitQInv == Init => QInv
<1> SUFFICES ASSUME Init PROVE QInv
  OBVIOUS
<1>1. /\ task = [t \in TaskIds |-> NoTask] /\ nextId = 1 /\ client = [c \in Clients |-> IdleClient]
      /\ stopped = TRUE /\ wpc = "off" /\ active = NoTaskId /\ retry = 0 /\ fileMutex = "free" /\ crashes = 0
  BY DEF Init
<1>2. Live = {} /\ Runnable = {}
  BY <1>1 DEF Live, Runnable, NoTask
<1>3. TypeInv
  <2>1. NoTask \in TaskRecord /\ 1 \in 1 .. MaxTasks + 1 /\ 0 \in 0 .. MaxCrashes /\ unfit = {}
    BY BoundsAssumption DEF NoTask, TaskRecord, DefaultPriority, Init
  <2> QED
    BY <1>1, <2>1 DEF TypeInv, IdleClient
<1>4. PlaceInv /\ FirstInv /\ ReportInv /\ IdleInv /\ WakeInv
  BY <1>1, <1>2 DEF PlaceInv, FirstInv, ReportInv, IdleInv, WakeInv, IdleClient, Fetching, Importing, Installing,
                    Deletion, Listing, Serving
<1>5. OfferInv
  BY <1>1, <1>2 DEF OfferInv, OfferedCall, OfferedTask, IdleClient
<1>6. OrphanInv
  <2>1. PICK installed \in SUBSET Packages :
            /\ rows = [pv \in Packages \X Versions |->
                         IF pv[1] \in installed /\ pv[2] = 1 THEN "valid" ELSE "none"]
            /\ file = [pv \in Packages \X Versions |->
                         IF pv[1] \in installed /\ pv[2] = 1 THEN "full" ELSE "none"]
    BY DEF Init
  <2> QED
    BY <1>1, <2>1 DEF Init, OrphanInv, RowsBusy, FilesBusy, FailedGone, Unused
<1> QED
  BY <1>3, <1>4, <1>5, <1>6 DEF QInv

LEMMA NextQInv == IInv /\ IInv' /\ QInv /\ [Next]_vars => QInv'
BY TypeStep, FirstStep, PlaceStep, ReportStep, IdleStep, WakeStep, OfferStep, OrphanStep DEF QInv

(* The second inductive invariant, about the queue and its worker. *)
THEOREM QueueInvariance == Spec => [](IInv /\ QInv)
<1>1. Init => IInv /\ QInv
  BY InitIInv, InitQInv
<1>2. IInv /\ QInv /\ [Next]_vars => IInv' /\ QInv'
  BY NextIInv, NextQInv
<1> QED
  BY <1>1, <1>2, PTL DEF Spec

(* Every variable of the package manager keeps its type. *)
THEOREM TypeCorrect == Spec => []TypeOK
<1>1. ASSUME IInv, QInv PROVE TypeOK
  <2>1. /\ task \in [TaskIds -> TaskRecord] /\ nextId \in 1 .. MaxTasks + 1
        /\ stopped \in BOOLEAN /\ fileMutex \in {"free", "worker", "reader"}
        /\ active \in TaskIds \cup {NoTaskId} /\ retry \in 0 .. 1 /\ crashes \in 0 .. MaxCrashes
        /\ unfit \in SUBSET (Packages \X Versions)
    BY <1>1 DEF QInv, TypeInv
  <2>2. /\ rows \in [Packages \X Versions -> {"none", "invalid", "valid"}]
        /\ file \in [Packages \X Versions -> {"none", "part", "full"}]
        /\ local \in SUBSET (Packages \X Versions)
    BY <1>1 DEF IInv, StoreInv, ValidPackages
  <2>3. list \in [Packages -> 0 .. MaxVersion] /\ published \in [Packages -> Versions]
    BY <1>1 DEF IInv, Offers
  <2>4. wpc \in WorkerPcs /\ delVers \in SUBSET Versions
    BY <1>1 DEF IInv, WorkerInv
  <2>5. DOMAIN client = Clients /\ \A c \in Clients : client[c].pc \in ClientPcs /\ client[c].todo \subseteq TaskIds
    BY <1>1 DEF IInv, ClientInv, Call
  <2>6. opened \in SUBSET (Packages \X Versions) /\ cached \in SUBSET (Packages \X Versions)
    BY <1>1 DEF IInv, ReaderInv
  <2> QED
    BY <2>1, <2>2, <2>3, <2>4, <2>5, <2>6 DEF TypeOK
<1> QED
  BY <1>1, QueueInvariance, PTL

(* getActiveTaskId against setTaskPriority, setTaskCancelled and pauses:   *)
(* the tasks of a package end in the order in which they were scheduled.   *)
THEOREM TasksEndInOrder == Spec => InOrder
<1> DEFINE A == \A t, u \in TaskIds :
                   t < u /\ u \in Live /\ u \notin Live' /\ t \in Live => task[t].pkg # task[u].pkg
<1>1. ASSUME IInv, QInv, [Next]_vars, ~UNCHANGED vars PROVE A
  <2>1. SUFFICES ASSUME NEW t \in TaskIds, NEW u \in TaskIds, t < u, u \in Live, u \notin Live', t \in Live
                 PROVE  task[t].pkg # task[u].pkg
    OBVIOUS
  <2>2. EndTask
    <3>1. ~Aside
      BY <1>1, <2>1, AsideStep DEF TasksStay, Live
    <3>2. Crash => Live' = Live
      BY DEF Crash, queueVars, Live
    <3> QED
      BY <1>1, <2>1, <3>1, <3>2, NextCases, ServesStep, PickTaskChoice
  <2>3. u = active /\ wpc \in Serving
    BY <1>1, <2>1, <2>2, EndTaskQueue DEF Serving, WorkerPcs
  <2>4. IsFirst(u)
    BY <1>1, <2>3 DEF QInv, FirstInv
  <2>5. t \in Int /\ u \in Int
    BY DEF TaskIds
  <2> QED
    BY <2>1, <2>4, <2>5 DEF IsFirst
<1>2. IInv /\ QInv /\ [Next]_vars => [A]_vars
  BY <1>1
<1> QED
  BY <1>2, QueueInvariance, PTL DEF Spec, InOrder

(* setTaskFinished and setTaskCancelled: what the listener is told of a    *)
(* task is what became of its package.                                     *)
THEOREM ReportsAreTrue == Spec => []ReportsTruth
<1>1. IInv /\ QInv => ReportsTruth
  <2> SUFFICES ASSUME IInv, QInv PROVE ReportsTruth
    OBVIOUS
  <2>1. ReportInv /\ local = ValidPackages(rows)
    BY DEF QInv, IInv, StoreInv
  <2>2. wpc \in {"finished", "canceled"} => active \in Live
    BY DEF IInv, WorkerInv, Serving, WorkerPcs
  <2>3. ASSUME wpc \in {"finished", "canceled"}, task[active].cmd \in {"download", "import"}
        PROVE  aFile \in Packages \X Versions
    BY <2>2, <2>3 DEF IInv, QueueInv, WellFormed, FileCommands, Live, aFile, aPkg, aVer
  <2> QED
    BY <2>1, <2>3 DEF ReportInv, ReportsTruth, Installed, Gone, ValidPackages
<1> QED
  BY <1>1, QueueInvariance, PTL

(* run, scheduleTask, updateTaskStatus and notify_one: no wakeup is lost,  *)
(* although neither the queue nor the notification takes _mutex.           *)
THEOREM NoWakeupIsLost == Spec => []NoLostWakeup
<1>1. IInv /\ QInv => NoLostWakeup
  BY DEF QInv, WakeInv, ToNotify, NoLostWakeup, ActiveTaskId
<1> QED
  BY <1>1, QueueInvariance, PTL

(* downloadPackage, importPackage, deleteLocalPackage: at rest the disk    *)
(* holds the installed packages and nothing else.                          *)
THEOREM NothingLeftBehind == Spec => []NoOrphans
<1>1. ASSUME IInv, QInv PROVE NoOrphans
  <2>1. SUFFICES ASSUME Live = {}, Quiet, wpc \in {"off", "pick", "waiting"}, NEW pv \in Packages \X Versions
                 PROVE  (rows[pv] = "invalid" => pv \in unfit) /\ (file[pv] # "none" => rows[pv] = "valid")
    BY DEF NoOrphans, Quiet
  <2>2. RowsBusy /\ FilesBusy
    BY <1>1, <2>1 DEF QInv, OrphanInv
  <2>3. rows[pv] \in {"none", "invalid", "valid"}
    BY <1>1 DEF IInv, StoreInv
  <2>4. ~BusyRow(pv) /\ ~BusyFile(pv)
    BY <2>1 DEF BusyRow, BusyFile, Kept, Deletion, Deleting
  <2> QED
    BY <2>2, <2>3, <2>4 DEF RowsBusy, FilesBusy, Unused
<1> QED
  BY <1>1, QueueInvariance, PTL

-----------------------------------------------------------------------------
(***************************************************************************)
(* To readers the manager is LocalPackages.  A third invariant says that   *)
(* the older versions that the worker is still to delete have their rows.  *)
(***************************************************************************)
Replacing == {"notifyAdded", "delete", "notifyDeleted", "unlink"}

OldInv ==
    wpc \in Replacing /\ task[active].cmd # "remove" =>
        \A v \in delVers : rows[<<aPkg, v>>] = "invalid" \/ (wpc \in Deleting /\ v = Min(delVers))

LEMMA OldStep == IInv /\ IInv' /\ PlaceInv /\ PlaceInv' /\ OldInv /\ [Next]_vars => OldInv'
<1> SUFFICES ASSUME IInv, IInv', PlaceInv, PlaceInv', OldInv, [Next]_vars,
                    wpc' \in Replacing, task'[active'].cmd # "remove", NEW v \in delVers'
             PROVE  \/ rows'[<<aPkg', v>>] = "invalid"
                    \/ wpc' \in Deleting /\ v = Min(delVers')
  BY DEF OldInv
<1>1. wpc' \in Serving
  BY DEF Replacing, Serving, WorkerPcs
<1>2. CASE Aside
  <2>1. /\ wpc' = wpc /\ aPkg' = aPkg /\ rows' = rows /\ delVers' = delVers /\ active' = active
        /\ task'[active].cmd = task[active].cmd
    BY <1>1, <1>2, AsideServing, AsideStep
  <2> QED
    BY <2>1 DEF OldInv
<1>3. CASE Serves
  <2>1. aPkg' = aPkg /\ task' = task /\ active' = active
    BY <1>3, ServesStep
  <2>2. CASE importLocalPackage
    <3>1. delVers' = {w \in Versions : rows'[<<aPkg, w>>] = "invalid"}
      BY <2>2 DEF importLocalPackage
    <3> QED
      BY <2>1, <3>1
  <2>3. CASE NotifyAdded \/ NotifyDeleted
    <3>1. rows' = rows /\ delVers' = delVers /\ wpc \in Replacing /\ (wpc \in Deleting => wpc' \in Deleting)
      BY <2>3 DEF NotifyAdded, NotifyDeleted, Go, storeVars, Replacing, Deleting
    <3> QED
      BY <2>1, <3>1 DEF OldInv
  <2>4. CASE DeleteRow
    <3>1. /\ rows' = [rows EXCEPT ![<<aPkg, Min(delVers)>>] = "none"] /\ delVers' = delVers
          /\ wpc = "delete" /\ wpc' \in Deleting
      BY <2>4 DEF DeleteRow, Deleting
    <3>2. v # Min(delVers) => rows'[<<aPkg, v>>] = "invalid"
      <4>1. rows[<<aPkg, v>>] = "invalid"
        BY <2>1, <3>1 DEF OldInv, Deleting, Replacing
      <4>2. aPkg \in Packages /\ v \in Versions
        BY <3>1, FileOfTask DEF FilePcs, IInv, WorkerInv
      <4> QED
        BY <3>1, <4>1, <4>2 DEF IInv, StoreInv
    <3> QED
      BY <2>1, <3>1, <3>2
  <2>5. CASE UnlinkFile
    <3>1. rows' = rows /\ delVers' = delVers \ {Min(delVers)} /\ wpc = "unlink"
      BY <2>5 DEF UnlinkFile, Go
    <3> QED
      BY <2>1, <3>1 DEF OldInv, Replacing
  <2>6. CASE BeginRemove
    <3>1. wpc = "remove"
      BY <2>6 DEF BeginRemove
    <3> QED
      BY <2>1, <3>1 DEF PlaceInv
  <2> QED
    BY <1>3, <2>2, <2>3, <2>4, <2>5, <2>6
       DEF Serves, Replacing, BeginDownload, ReceiveFile, BreakTransfer, AfterBreak, PauseOrRetry, BeginImport,
           AfterCopy, InsertRow, ImportFails, DeletedAll, FetchList, UnlinkList, RenameList, Go
<1>4. ~(PickTask \/ EndTask \/ Crash)
  <2>1. ASSUME PickTask PROVE FALSE
    <3>1. ActiveTaskId(NoTaskId) # NoTaskId /\ wpc' = task[ActiveTaskId(NoTaskId)].cmd
      BY <2>1 DEF PickTask, Go, Replacing
    <3>2. task[ActiveTaskId(NoTaskId)].cmd \in FileCommands \cup {"none", "list"}
      BY <3>1, ActiveTaskIsLive DEF IInv, QueueInv, TaskRow, Live
    <3> QED
      BY <3>1, <3>2 DEF FileCommands, Replacing
  <2> QED
    BY <2>1 DEF EndTask, Crash, Replacing
<1> QED
  BY <1>2, <1>3, <1>4, NextCases

(* How the two tables go together: what is valid is what readers get. *)
LEMMA MarkedPackages ==
    ASSUME IInv, QInv, OldInv, importLocalPackage
    PROVE  /\ aPkg \in Packages /\ aVer \in Versions /\ aFile \notin local
           /\ local' = (local \ ({aPkg} \X Versions)) \cup {aFile}
           /\ Obsolete' \subseteq ({aPkg} \X Versions) \ {aFile}
           /\ local \cap ({aPkg} \X Versions) \subseteq Obsolete'
<1>1. /\ wpc = "mark" /\ wpc' = "notifyAdded" /\ UNCHANGED <<task, active>>
      /\ rows' = WithOnlyValid(rows, aPkg, aVer) /\ local' = ValidPackages(rows')
      /\ delVers' = {v \in Versions : rows'[<<aPkg, v>>] = "invalid"}
  BY DEF importLocalPackage, Go, notStore, queueVars
<1>2. aPkg \in Packages /\ aVer \in Versions /\ aFile = <<aPkg, aVer>> /\ aPkg' = aPkg
  BY <1>1, FileOfTask DEF FilePcs, aFile, aPkg
<1>3. /\ rows \in [Packages \X Versions -> {"none", "invalid", "valid"}]
      /\ local = ValidPackages(rows)
      /\ rows[aFile] # "none" /\ rows[aFile] # "valid"
  BY <1>1 DEF IInv, StoreInv, WorkerInv, Writing, QInv, ReportInv
<1>4. task[active].cmd # "remove"
  BY <1>1 DEF QInv, PlaceInv, Installing
<1>5. \A g \in Packages \X Versions :
         rows'[g] = IF g[1] # aPkg \/ rows[g] = "none" THEN rows[g]
                    ELSE IF g[2] = aVer THEN "valid" ELSE "invalid"
  BY <1>1, <1>3 DEF WithOnlyValid
<1>6. Obsolete' = {g \in {aPkg} \X delVers' : rows'[g] = "invalid"}
  BY <1>1, <1>2, <1>4 DEF Obsolete
<1>7. aFile \notin local
  BY <1>3 DEF ValidPackages
<1>8. local' = (local \ ({aPkg} \X Versions)) \cup {aFile}
  <2>1. ASSUME NEW g \in Packages \X Versions
        PROVE  rows'[g] = "valid" <=> g = aFile \/ (rows[g] = "valid" /\ g[1] # aPkg)
    BY <1>2, <1>3, <1>5
  <2>2. \A g \in Packages \X Versions : g \in {aPkg} \X Versions <=> g[1] = aPkg
    OBVIOUS
  <2> QED
    BY <1>1, <1>2, <1>3, <2>1, <2>2 DEF ValidPackages
<1>9. Obsolete' \subseteq ({aPkg} \X Versions) \ {aFile}
  <2>1. rows'[aFile] = "valid"
    BY <1>2, <1>3, <1>5
  <2> QED
    BY <1>1, <1>6, <2>1
<1>10. ASSUME NEW g \in local \cap ({aPkg} \X Versions) PROVE g \in Obsolete'
  <2>1. g \in Packages \X Versions /\ rows[g] = "valid" /\ g = <<aPkg, g[2]>> /\ g[2] \in Versions
    BY <1>3, <1>10 DEF ValidPackages
  <2>2. g # aFile /\ g[2] # aVer
    BY <1>2, <1>3, <2>1
  <2>3. rows'[g] = "invalid"
    BY <1>5, <2>1, <2>2
  <2>4. g[2] \in delVers' /\ g \in {aPkg} \X delVers'
    BY <1>1, <2>1, <2>3
  <2> QED
    BY <1>6, <2>3, <2>4
<1> QED
  BY <1>2, <1>7, <1>8, <1>9, <1>10

LEMMA DeletedPackage ==
    ASSUME IInv, QInv, OldInv, DeleteRow
    PROVE  LET x == <<aPkg, Min(delVers)>>
           IN  /\ x \in Packages \X Versions /\ (Obsolete = {} \/ x \in Obsolete)
               /\ local' = local \ {x} /\ Obsolete' = Obsolete \ {x}
<1> DEFINE x == <<aPkg, Min(delVers)>>
<1>1. /\ wpc = "delete" /\ wpc' = "notifyDeleted" /\ UNCHANGED <<task, active, delVers>> /\ delVers # {}
      /\ rows' = [rows EXCEPT ![x] = "none"] /\ local' = ValidPackages(rows')
  BY DEF DeleteRow, queueVars
<1>2. aPkg \in Packages /\ aPkg' = aPkg /\ delVers \subseteq Versions /\ Min(delVers) \in delVers
  <2>1. delVers \in SUBSET Versions /\ Versions \subseteq Nat
    BY DEF IInv, WorkerInv, Versions
  <2> QED
    BY <1>1, <2>1, FileOfTask, MinIsLeast DEF FilePcs, aPkg
<1>3. x \in Packages \X Versions /\ x \in {aPkg} \X delVers
  BY <1>2
<1>4. rows \in [Packages \X Versions -> {"none", "invalid", "valid"}] /\ local = ValidPackages(rows)
  BY DEF IInv, StoreInv
<1>5. CASE task[active].cmd = "remove"
  <2>1. Obsolete = {} /\ Obsolete' = {}
    BY <1>1, <1>5 DEF Obsolete
  <2> HIDE DEF x
  <2>2. local' = local \ {x}
    BY <1>1, <1>3, <1>4 DEF ValidPackages
  <2> QED
    BY <1>3, <2>1, <2>2 DEF x
<1>6. CASE task[active].cmd # "remove"
  <2>1. Obsolete = {g \in {aPkg} \X delVers : rows[g] = "invalid"}
    BY <1>1, <1>6 DEF Obsolete
  <2>2. Obsolete' = {g \in {aPkg} \X delVers : rows'[g] = "invalid"}
    BY <1>1, <1>2, <1>6 DEF Obsolete
  <2>3. rows[x] = "invalid"
    BY <1>1, <1>2, <1>6 DEF OldInv, Replacing, Deleting
  <2> HIDE DEF x
  <2>4. local' = local \ {x}
    BY <1>1, <1>3, <1>4 DEF ValidPackages
  <2>5. {aPkg} \X delVers \subseteq Packages \X Versions
    BY <1>2
  <2>6. Obsolete' = Obsolete \ {x}
    BY <1>1, <1>3, <1>4, <2>1, <2>2, <2>5
  <2> QED
    BY <1>3, <2>1, <2>3, <2>4, <2>6 DEF x
<1> QED
  BY <1>5, <1>6

(* Steps that readers do not see. *)
LEMMA Unseen ==
    ASSUME UNCHANGED <<local, fileMutex, opened, cached>>, Obsolete' = Obsolete,
           wpc = "notifyAdded" <=> wpc' = "notifyAdded",
           wpc = "notifyDeleted" <=> wpc' = "notifyDeleted"
    PROVE  UNCHANGED Readers!vars
BY DEF Readers!vars

LEMMA WorkerStepsUnseen ==
    ASSUME IInv, QInv, OldInv,
           BeginDownload \/ ReceiveFile \/ BreakTransfer \/ AfterBreak \/ PauseOrRetry \/ BeginImport
           \/ AfterCopy \/ InsertRow \/ ImportFails \/ DeletedAll \/ BeginRemove \/ FetchList \/ UnlinkList \/ RenameList
           \/ PickTask \/ EndTask
    PROVE  UNCHANGED Readers!vars
<1>1. UNCHANGED <<local, fileMutex, opened, cached>>
  BY DEF BeginDownload, ReceiveFile, BreakTransfer, AfterBreak, PauseOrRetry, BeginImport, AfterCopy, InsertRow, ImportFails,
         DeletedAll, BeginRemove, FetchList, UnlinkList, RenameList, PickTask, EndTask, notStore, storeVars, readerVars
<1>2. wpc \notin {"notifyAdded", "notifyDeleted", "unlink"} /\ wpc' \notin {"notifyAdded", "notifyDeleted", "unlink"}
  <2>1. CASE PickTask
    <3>1. ActiveTaskId(NoTaskId) # NoTaskId =>
             task[ActiveTaskId(NoTaskId)].cmd \in FileCommands \cup {"none", "list"}
      BY ActiveTaskIsLive DEF IInv, QueueInv, TaskRow, Live
    <3> QED
      BY <2>1, <3>1 DEF PickTask, Go, FileCommands
  <2>2. CASE ~PickTask
    BY <2>2 DEF BeginDownload, ReceiveFile, BreakTransfer, AfterBreak, PauseOrRetry, BeginImport, AfterCopy,
                InsertRow, ImportFails, DeletedAll, BeginRemove, FetchList, UnlinkList, RenameList, EndTask, Go
  <2> QED
    BY <2>1, <2>2
<1>3. Obsolete = {}
  <2>1. CASE DeletedAll
    BY <2>1 DEF DeletedAll, Obsolete
  <2>2. CASE ~DeletedAll
    <3>1. wpc # "delete"
      BY <2>2 DEF BeginDownload, ReceiveFile, BreakTransfer, AfterBreak, PauseOrRetry, BeginImport, AfterCopy,
                  InsertRow, ImportFails, BeginRemove, FetchList, UnlinkList, RenameList, PickTask, EndTask, Go
    <3> QED
      BY <1>2, <3>1 DEF Obsolete
  <2> QED
    BY <2>1, <2>2
<1>4. Obsolete' = {}
  <2>1. CASE BeginRemove
    <3>1. task[active].cmd = "remove" /\ UNCHANGED <<task, active>>
      BY <2>1 DEF BeginRemove, QInv, PlaceInv, notStore, queueVars
    <3> QED
      BY <3>1 DEF Obsolete
  <2>2. CASE PickTask
    <3>1. ActiveTaskId(NoTaskId) # NoTaskId =>
             task[ActiveTaskId(NoTaskId)].cmd \in FileCommands \cup {"none", "list"}
      BY ActiveTaskIsLive DEF IInv, QueueInv, TaskRow, Live
    <3>2. wpc' # "delete"
      BY <2>2, <3>1 DEF PickTask, Go, FileCommands
    <3> QED
      BY <1>2, <3>2 DEF Obsolete
  <2>3. CASE ~(BeginRemove \/ PickTask)
    <3>1. wpc' # "delete"
      BY <2>3 DEF BeginDownload, ReceiveFile, BreakTransfer, AfterBreak, PauseOrRetry, BeginImport, AfterCopy,
                  InsertRow, ImportFails, DeletedAll, FetchList, UnlinkList, RenameList, EndTask, Go
    <3> QED
      BY <1>2, <3>1 DEF Obsolete
  <2> QED
    BY <2>1, <2>2, <2>3
<1> QED
  BY <1>1, <1>2, <1>3, <1>4, Unseen

LEMMA AsideUnseen ==
    ASSUME IInv, Aside
    PROVE  Obsolete' = Obsolete /\ (wpc \in Replacing \/ wpc' \in Replacing => wpc' = wpc)
<1>1. wpc' = wpc \/ {wpc, wpc'} \subseteq Resting
  BY AsideStep
<1>2. wpc \in Replacing \/ wpc' \in Replacing => wpc' = wpc
  BY <1>1 DEF Resting, Replacing
<1>3. CASE wpc \in Replacing
  <2>1. wpc' \in Serving
    BY <1>2, <1>3 DEF Replacing, Serving, WorkerPcs
  <2>2. /\ wpc' = wpc /\ task'[active].cmd = task[active].cmd /\ aPkg' = aPkg
        /\ UNCHANGED <<rows, delVers, active>>
    BY <2>1, AsideServing, AsideStep
  <2>3. task'[active'].cmd = task[active].cmd
    BY <2>2
  <2> QED
    BY <1>2, <2>2, <2>3 DEF Obsolete
<1>4. CASE wpc \notin Replacing
  BY <1>2, <1>4 DEF Obsolete, Replacing
<1> QED
  BY <1>2, <1>3, <1>4

(* Each step is one of LocalPackages, or readers do not see it. *)
LEMMA StepImplements ==
    IInv /\ IInv' /\ QInv /\ OldInv /\ [Next]_vars => [Readers!Next]_(Readers!vars)
<1> SUFFICES ASSUME IInv, IInv', QInv, OldInv, [Next]_vars
             PROVE  Readers!Next \/ UNCHANGED Readers!vars
  OBVIOUS
<1>1. CASE importLocalPackage
  <2>1. /\ wpc = "mark" /\ wpc' = "notifyAdded" /\ UNCHANGED <<fileMutex, opened, cached>>
        /\ Obsolete = {}
    BY <1>1 DEF importLocalPackage, Go, notStore, readerVars, Obsolete
  <2>2. /\ aPkg \in Packages /\ aVer \in Versions /\ aFile \notin local
        /\ local' = (local \ ({aPkg} \X Versions)) \cup {aFile}
        /\ Obsolete' \in SUBSET (({aPkg} \X Versions) \ {aFile})
        /\ local \cap ({aPkg} \X Versions) \subseteq Obsolete'
    BY <1>1, MarkedPackages
  <2>3. Readers!Install(aPkg, aVer)
    BY <2>1, <2>2 DEF Readers!Install, Readers!VersionsOf, aFile
  <2> QED
    BY <2>2, <2>3 DEF Readers!Next
<1>2. CASE NotifyAdded
  <2>1. /\ wpc = "notifyAdded" /\ wpc' = "delete" /\ cached' = {}
        /\ UNCHANGED <<task, active, delVers, rows, local, fileMutex, opened>>
    BY <1>2 DEF NotifyAdded, Go, queueVars, storeVars
  <2>2. Obsolete' = Obsolete
    BY <2>1 DEF Obsolete, aPkg
  <2>3. Readers!TellInstalled
    BY <2>1, <2>2 DEF Readers!TellInstalled
  <2> QED
    BY <2>3 DEF Readers!Next
<1>3. CASE DeleteRow
  <2> DEFINE x == <<aPkg, Min(delVers)>>
  <2>1. /\ wpc = "delete" /\ wpc' = "notifyDeleted" /\ fileMutex = "free" /\ fileMutex' = "worker"
        /\ UNCHANGED <<opened, cached>>
    BY <1>3 DEF DeleteRow
  <2>2. /\ x \in Packages \X Versions /\ (Obsolete = {} \/ x \in Obsolete)
        /\ local' = local \ {x} /\ Obsolete' = Obsolete \ {x}
    BY <1>3, DeletedPackage
  <2> HIDE DEF x
  <2>3. Readers!GiveUp(x)
    BY <2>1, <2>2 DEF Readers!GiveUp
  <2> QED
    BY <2>2, <2>3 DEF Readers!Next
<1>4. CASE NotifyDeleted \/ UnlinkFile
  <2>1. /\ {wpc, wpc'} \subseteq Replacing \ {"notifyAdded"} /\ UNCHANGED <<task, active, rows, local, opened>>
        /\ wpc' # "notifyDeleted"
        /\ (IF wpc' = "notifyDeleted" THEN {} ELSE cached') = (IF wpc = "notifyDeleted" THEN {} ELSE cached)
        /\ fileMutex # "reader" /\ fileMutex' # "reader"
    BY <1>4 DEF NotifyDeleted, UnlinkFile, Go, queueVars, storeVars, Replacing, IInv, ReaderInv, Deleting
  <2>2. delVers' = delVers \/ (delVers' = delVers \ {Min(delVers)} /\ rows[<<aPkg, Min(delVers)>>] = "none")
    BY <1>4 DEF NotifyDeleted, UnlinkFile, Go, IInv, WorkerInv, Deleting
  <2>3. {g \in {aPkg} \X delVers' : rows[g] = "invalid"} = {g \in {aPkg} \X delVers : rows[g] = "invalid"}
    BY <2>2
  <2>4. aPkg' = aPkg /\ task'[active'] = task[active] /\ rows' = rows
    BY <2>1 DEF aPkg
  <2>5. Obsolete' = Obsolete
    BY <2>1, <2>3, <2>4 DEF Obsolete, Replacing
  <2> QED
    BY <2>1, <2>5 DEF Readers!vars
<1>5. CASE Crash
  <2>1. /\ wpc' = "off" /\ fileMutex' = "free" /\ opened' = {} /\ cached' = {} /\ local' = local
    BY <1>5 DEF Crash, IInv, StoreInv
  <2>2. Obsolete' = {}
    BY <2>1 DEF Obsolete
  <2>3. Readers!Restart
    BY <2>1, <2>2 DEF Readers!Restart
  <2> QED
    BY <2>3 DEF Readers!Next
<1>6. CASE Reader
  <2>1. UNCHANGED <<local, wpc>> /\ Obsolete' = Obsolete
    BY <1>6, AsideUnseen DEF Aside, Reader, BeginAccess, EndAccess, storeVars, workerVars
  <2>2. CASE BeginAccess
    <3>1. /\ fileMutex = "free" /\ fileMutex' = "reader" /\ opened' = local /\ cached' = cached
      BY <2>2 DEF BeginAccess
    <3>2. Readers!BeginAccess
      BY <2>1, <3>1 DEF Readers!BeginAccess
    <3> QED
      BY <3>2 DEF Readers!Next
  <2>3. CASE EndAccess
    <3>1. /\ fileMutex = "reader" /\ fileMutex' = "free" /\ opened' = {}
          /\ cached' \subseteq cached \cup opened /\ wpc # "notifyDeleted"
      BY <2>3 DEF EndAccess, IInv, ReaderInv, Deleting
    <3>2. Readers!EndAccess
      BY <2>1, <3>1 DEF Readers!EndAccess
    <3> QED
      BY <3>2 DEF Readers!Next
  <2> QED
    BY <1>6, <2>2, <2>3 DEF Reader
<1>7. CASE Aside /\ ~Reader
  <2>1. Obsolete' = Obsolete /\ (wpc \in Replacing \/ wpc' \in Replacing => wpc' = wpc)
    BY <1>7, AsideUnseen
  <2>2. UNCHANGED <<local, fileMutex, opened, cached>>
    <3>1. ASSUME NEW c \in Clients, BeginCall(c) \/ ContinueCall(c)
          PROVE  UNCHANGED <<local, fileMutex, opened, cached>>
      <4>1. CASE ContinueCall(c)
        BY <4>1 DEF ContinueCall, EachTask, EndOfLoop, InsertTask, RaisePriority, UpdateStatus, Notify,
                    storeVars, readerVars
      <4>2. CASE BeginCall(c)
        BY <4>2 DEF BeginCall, startPackageDownload, startPackageImport, startPackageListDownload,
                    startPackageRemove, cancelPackageTasks, setPackagePriority, Begin, storeVars, readerVars
      <4> QED
        BY <3>1, <4>1, <4>2
    <3>2. CASE Start \/ Stop \/ (\E p \in Packages : Publish(p)) \/ WaitForTask \/ SpuriousWakeup \/ UNCHANGED vars
      BY <3>2 DEF Start, Stop, Publish, WaitForTask, SpuriousWakeup, notStore, storeVars, readerVars, vars
    <3> QED
      BY <1>7, <3>1, <3>2 DEF Aside
  <2>3. (wpc = "notifyAdded" <=> wpc' = "notifyAdded") /\ (wpc = "notifyDeleted" <=> wpc' = "notifyDeleted")
    BY <2>1 DEF Replacing
  <2> QED
    BY <2>1, <2>2, <2>3, Unseen
<1> QED
  BY <1>1, <1>2, <1>3, <1>4, <1>5, <1>6, <1>7, WorkerStepsUnseen, NextCases DEF Serves

LEMMA InitImplements == Init => Readers!Init
<1> SUFFICES ASSUME Init PROVE Readers!Init
  OBVIOUS
<1>1. local \subseteq Packages \X Versions /\ \A x \in local : x[2] = 1
  BY DEF Init, ValidPackages
<1>2. Readers!OneOfEach(local)
  BY <1>1 DEF Readers!OneOfEach
<1> QED
  BY <1>1, <1>2 DEF Init, Readers!Init, Obsolete

LEMMA InitOldInv == Init => OldInv
BY DEF Init, OldInv, Replacing

(* The package manager implements LocalPackages: whatever the worker does  *)
(* with rows, files and locks, and wherever the process is killed, a       *)
(* version takes the place of another in one step and none is given up     *)
(* while somebody reads or keeps it.                                       *)
THEOREM Refinement == Spec => ImplementsLocalPackages
<1>1. IInv /\ IInv' /\ QInv /\ QInv' /\ OldInv /\ [Next]_vars => OldInv'
  BY OldStep DEF QInv
<1>2. Spec => []OldInv
  BY <1>1, InitOldInv, QueueInvariance, PTL DEF Spec
<1> QED
  BY <1>2, InitImplements, StepImplements, QueueInvariance, PTL
     DEF Spec, ImplementsLocalPackages, Readers!Spec

(* What LocalPackages promises of what is in use: kept by its steps, and   *)
(* so, by the refinement, by those of the package manager.                 *)
LEMMA PromiseStep == Readers!InUseIsThere /\ [Readers!Next]_(Readers!vars) => Readers!InUseIsThere'
<1> DEFINE kept == IF wpc = "notifyDeleted" THEN {} ELSE cached
           OneOfEach(S) == \A x, y \in S : x[1] = y[1] => x = y
           reading == fileMutex = "reader"
<1> SUFFICES ASSUME opened \cup kept \subseteq local \cup Obsolete, ~reading => opened = {}, OneOfEach(local),
                    local \in SUBSET (Packages \X Versions), [Readers!Next]_(Readers!vars)
             PROVE  /\ opened' \cup kept' \subseteq local' \cup Obsolete' /\ (~reading' => opened' = {})
                    /\ OneOfEach(local') /\ local' \in SUBSET (Packages \X Versions)
  BY DEF Readers!InUseIsThere, Readers!OneOfEach
<1> DEFINE Goal == /\ opened' \cup kept' \subseteq local' \cup Obsolete' /\ (~reading' => opened' = {})
                   /\ OneOfEach(local') /\ local' \in SUBSET (Packages \X Versions)
<1>1. ASSUME NEW p \in Packages, NEW v \in Versions, Readers!Install(p, v) PROVE Goal
  <2>1. /\ Obsolete = {} /\ local' = (local \ ({p} \X Versions)) \cup {<<p, v>>}
        /\ local \cap ({p} \X Versions) \subseteq Obsolete'
        /\ opened' = opened /\ kept' = kept /\ reading' = reading
    BY <1>1 DEF Readers!Install, Readers!VersionsOf
  <2> HIDE DEF kept, reading
  <2>2. opened' \cup kept' \subseteq local' \cup Obsolete'
    BY <2>1
  <2>3. OneOfEach(local')
    <3>1. ASSUME NEW x \in local', NEW y \in local', x[1] = y[1] PROVE x = y
      <4>1. (x \in local \/ x = <<p, v>>) /\ (y \in local \/ y = <<p, v>>)
        BY <2>1
      <4>2. \A z \in local : z \in local' => z[1] # p \/ z = <<p, v>>
        BY <2>1
      <4> QED
        BY <3>1, <4>1, <4>2
    <3> QED
      BY <3>1
  <2>4. local' \in SUBSET (Packages \X Versions)
    BY <2>1
  <2> QED
    BY <2>1, <2>2, <2>3, <2>4
<1>2. CASE Readers!TellInstalled
  <2>1. local' = local /\ Obsolete' = Obsolete /\ opened' = opened /\ kept' = {} /\ reading' = reading
    BY <1>2 DEF Readers!TellInstalled
  <2> HIDE DEF kept, reading
  <2> QED
    BY <2>1
<1>3. ASSUME NEW x \in Packages \X Versions, Readers!GiveUp(x) PROVE Goal
  <2>1. local' = local \ {x} /\ opened' = opened /\ kept' = {} /\ ~reading /\ reading' = reading
    BY <1>3 DEF Readers!GiveUp
  <2> HIDE DEF kept, reading
  <2> QED
    BY <2>1
<1>4. CASE Readers!BeginAccess
  <2>1. local' = local /\ Obsolete' = Obsolete /\ opened' = local /\ kept' = kept /\ reading'
    BY <1>4 DEF Readers!BeginAccess
  <2> HIDE DEF kept, reading
  <2> QED
    BY <2>1
<1>5. CASE Readers!EndAccess
  <2>1. local' = local /\ Obsolete' = Obsolete /\ opened' = {} /\ kept' \subseteq kept \cup opened
    BY <1>5 DEF Readers!EndAccess
  <2> HIDE DEF kept, reading
  <2> QED
    BY <2>1
<1>6. CASE Readers!Restart
  <2>1. local' = local /\ opened' = {} /\ kept' = {}
    BY <1>6 DEF Readers!Restart
  <2> HIDE DEF kept, reading
  <2> QED
    BY <2>1
<1>7. CASE UNCHANGED Readers!vars
  <2>1. local' = local /\ Obsolete' = Obsolete /\ opened' = opened /\ kept' = kept /\ reading' = reading
    BY <1>7 DEF Readers!vars
  <2> HIDE DEF kept, reading
  <2> QED
    BY <2>1
<1> QED
  BY <1>1, <1>2, <1>3, <1>4, <1>5, <1>6, <1>7 DEF Readers!Next

LEMMA PromiseBegins == Readers!Init => Readers!InUseIsThere
BY DEF Readers!Init, Readers!InUseIsThere, Readers!OneOfEach

(* One version of a package is installed at a time, and what is read or    *)
(* kept is installed, or is an older version that is still to be deleted.  *)
THEOREM InUseIsAlwaysThere == Spec => []Readers!InUseIsThere
<1>1. Readers!Spec => []Readers!InUseIsThere
  BY PromiseBegins, PromiseStep, PTL DEF Readers!Spec
<1> QED
  BY <1>1, Refinement DEF ImplementsLocalPackages
=============================================================================
