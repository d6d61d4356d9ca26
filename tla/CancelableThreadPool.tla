------------------------ MODULE CancelableThreadPool ------------------------
(***************************************************************************)
(* components/CancelableThreadPool.cpp: a priority queue of cancelable     *)
(* tasks and a vector of workers, each a thread with a reserved priority.  *)
(*                                                                         *)
(* Every action is one critical section of the pool's mutex, or a step a   *)
(* thread takes between two of them: the worker loop takes the mutex four  *)
(* times per round, and a client may come in between any two.              *)
(*                                                                         *)
(* A task object is submitted at most once (the layers create a new one    *)
(* per fetch) and is named by its sequence number; a worker is named by    *)
(* the task whose submission created it, so that the order of the names is *)
(* the order of the _workers vector, which only ever grows at its end.     *)
(* execute of a task that is canceled already changes nothing and is the   *)
(* stuttering step; what a cancel means to a queued task is its own affair *)
(* (TileLayer).                                                            *)
(***************************************************************************)
EXTENDS Integers, FiniteSets

CONSTANTS MaxTasks,    (* bound: tasks submitted in a behaviour            *)
          Priorities,  (* priorities the layers submit with                *)
          IntMin,      (* numeric_limits<int>::min(): an idle worker       *)
          PoolSizes,   (* sizes that Options or a data source sets         *)
          None         (* a worker that runs no task                       *)

(* Options.cpp 41-42 and the data sources set a size of 1 before any task  *)
(* is submitted; the sizes set later come from the application.            *)
ASSUME PoolSizesAssumption == PoolSizes \subseteq Nat \ {0}
ASSUME PrioritiesAssumption ==
    /\ Priorities \subseteq Int
    /\ IntMin \in Int
    /\ \A p \in Priorities : p > IntMin
ASSUME MaxTasksAssumption == MaxTasks \in Nat /\ None \notin Nat

VARIABLES
    poolSize,    (* _poolSize                                              *)
    taskCount,   (* _taskCount, the next sequence number                   *)
    stop,        (* _stop                                                  *)
    queue,       (* the tasks of _taskRecords                              *)
    taskPrio,    (* TaskRecord::_priority of each submitted task           *)
    pool,        (* the workers in _workers (and their _threads)           *)
    wpc,         (* where each worker thread is                            *)
    workerPrio,  (* TaskWorker::_priority                                  *)
    readPrio,    (* the local copy of it that getNextTask is called with   *)
    current,     (* the task each worker runs                              *)
    deinitPc,    (* how far deinit has come                                *)
    started,     (* history: tasks a worker has taken                      *)
    finished,    (* history: tasks that have run to their end              *)
    discarded    (* history: tasks cancelAll popped from the queue         *)

clientVars == <<poolSize, deinitPc>>
queueVars  == <<taskCount, queue, taskPrio>>
workerVars == <<pool, wpc, workerPrio, readPrio, current>>
history    == <<started, finished, discarded>>
vars == <<poolSize, taskCount, stop, queue, taskPrio, pool, wpc,
          workerPrio, readPrio, current, deinitPc, started, finished, discarded>>

Tasks == 0 .. MaxTasks - 1
Workers == Tasks

-----------------------------------------------------------------------------
(* Mutant: of two tasks of one priority the later one is nearer the top. *)
BeforeLifo(a, b) ==
    \/ taskPrio[a] > taskPrio[b]
    \/ taskPrio[a] = taskPrio[b] /\ a > b

(* TaskRecord::operator <, read as "a is nearer the top of the queue". *)
Before(a, b) ==
    \/ taskPrio[a] > taskPrio[b]
    \/ taskPrio[a] = taskPrio[b] /\ a < b

IsTop(t) == t \in queue /\ \A u \in queue \ {t} : Before(t, u)

(* The first worker of the vector that is marked inactive. *)
IsFirstIdle(w) ==
    /\ w \in pool /\ workerPrio[w] = IntMin
    /\ \A v \in pool : workerPrio[v] = IntMin => w <= v

(* Mutant: nobody is notified. *)
NotNotified(pcs) == pcs

(* notify_all: every waiting thread leaves the wait and goes on to the     *)
(* inner loop, whatever the queue holds by then.                           *)
Notified(pcs) == [w \in Workers |-> IF pcs[w] = "waiting" THEN "inner" ELSE pcs[w]]

GrowsPool == Cardinality(pool) < poolSize

-----------------------------------------------------------------------------
Init ==
    /\ poolSize \in PoolSizes
    /\ taskCount = 0 /\ stop = FALSE
    /\ queue = {} /\ pool = {}
    /\ taskPrio = [t \in Tasks |-> IntMin]
    /\ wpc = [w \in Workers |-> "none"]
    /\ workerPrio = [w \in Workers |-> IntMin]
    /\ readPrio = [w \in Workers |-> IntMin]
    /\ current = [w \in Workers |-> None]
    /\ deinitPc = "live"
    /\ started = {} /\ finished = {} /\ discarded = {}

(* Mutant: the size set is one too small. *)
SetPoolSizeLess(n) ==
    /\ ~stop
    /\ poolSize' = n - 1
    /\ UNCHANGED <<deinitPc, stop, queueVars, workerVars, history>>

SetPoolSize(n) ==
    /\ ~stop
    /\ poolSize' = n
    /\ UNCHANGED <<deinitPc, stop, queueVars, workerVars, history>>

(* Mutant: execute does not test the stop flag. *)
PushAlways(t, p) ==
    /\ t = taskCount
    /\ queue' = queue \cup {t}
    /\ taskPrio' = [taskPrio EXCEPT ![t] = p]
    /\ taskCount' = taskCount + 1

(* execute, first part: the record goes into the queue. *)
Push(t, p) ==
    /\ ~stop
    /\ t = taskCount
    /\ queue' = queue \cup {t}
    /\ taskPrio' = [taskPrio EXCEPT ![t] = p]
    /\ taskCount' = taskCount + 1

(* execute when it creates a worker: below the pool size, or no inactive   *)
(* worker and none reserved for this very priority.                        *)
ExecuteNewWorker(t, p) ==
    /\ Push(t, p)
    /\ GrowsPool \/ \A w \in pool : workerPrio[w] \notin {IntMin, p}
    /\ pool' = pool \cup {t}
    /\ workerPrio' = [workerPrio EXCEPT ![t] = p]
    /\ wpc' = [Notified(wpc) EXCEPT ![t] = "outer"]
    /\ UNCHANGED <<clientVars, stop, readPrio, current, history>>

(* execute when it hands the priority to the first inactive worker. *)
ExecuteIdleWorker(t, p) ==
    /\ Push(t, p)
    /\ ~GrowsPool
    /\ \E w \in pool : /\ IsFirstIdle(w)
                       /\ workerPrio' = [workerPrio EXCEPT ![w] = p]
    /\ wpc' = Notified(wpc)
    /\ UNCHANGED <<clientVars, stop, pool, readPrio, current, history>>

(* execute when it leaves the task to a worker reserved for its priority. *)
ExecuteSamePriority(t, p) ==
    /\ Push(t, p)
    /\ ~GrowsPool
    /\ \A w \in pool : workerPrio[w] # IntMin
    /\ \E w \in pool : workerPrio[w] = p
    /\ wpc' = Notified(wpc)
    /\ UNCHANGED <<clientVars, stop, pool, workerPrio, readPrio, current, history>>

Execute(t, p) ==
    \/ ExecuteNewWorker(t, p)
    \/ ExecuteIdleWorker(t, p)
    \/ ExecuteSamePriority(t, p)

DiscardQueue ==
    /\ queue' = {}
    /\ discarded' = discarded \cup queue

CancelAll ==
    /\ queue # {}
    /\ DiscardQueue
    /\ UNCHANGED <<poolSize, deinitPc, stop, taskCount, taskPrio, workerVars,
                   started, finished>>

(* deinit takes the mutex once for the flag, once in cancelAll, once to    *)
(* notify, and then clears the vectors without it.                         *)
DeinitStop ==
    /\ deinitPc = "live"
    /\ deinitPc' = "stopped"
    /\ stop' = TRUE
    /\ UNCHANGED <<poolSize, queueVars, workerVars, history>>

DeinitCancelAll ==
    /\ deinitPc = "stopped"
    /\ deinitPc' = "canceled"
    /\ DiscardQueue
    /\ UNCHANGED <<poolSize, stop, taskCount, taskPrio, workerVars,
                   started, finished>>

DeinitNotify ==
    /\ deinitPc = "canceled"
    /\ deinitPc' = "notified"
    /\ wpc' = Notified(wpc)
    /\ UNCHANGED <<poolSize, stop, queueVars, pool, workerPrio, readPrio, current,
                   history>>

DeinitClear ==
    /\ deinitPc = "notified"
    /\ deinitPc' = "cleared"
    /\ pool' = {}
    /\ UNCHANGED <<poolSize, stop, queueVars, wpc, workerPrio, readPrio, current,
                   history>>

-----------------------------------------------------------------------------
(* The worker thread, TaskWorker::operator(). *)

MoveWorker(w, from, to) ==
    /\ wpc[w] = from
    /\ wpc' = [wpc EXCEPT ![w] = to]

(* Mutant: the stop flag is not tested before the wait. *)
OuterLoopNoStop(w) ==
    /\ MoveWorker(w, "outer", IF queue = {} THEN "waiting" ELSE "inner")
    /\ UNCHANGED <<clientVars, stop, queueVars, pool, workerPrio, readPrio, current, history>>

(* Top of the outer loop: exit, wait on an empty queue, or go on. *)
OuterLoop(w) ==
    /\ MoveWorker(w, "outer", IF stop THEN "done" ELSE IF queue = {} THEN "waiting" ELSE "inner")
    /\ UNCHANGED <<clientVars, stop, queueVars, pool, workerPrio, readPrio, current, history>>

(* The wait has no predicate: a spurious wakeup passes it. *)
SpuriousWakeup(w) ==
    /\ MoveWorker(w, "waiting", "inner")
    /\ UNCHANGED <<clientVars, stop, queueVars, pool, workerPrio, readPrio, current, history>>

(* Top of the inner loop: exit, or read the reserved priority. *)
ReadPriority(w) ==
    /\ MoveWorker(w, "inner", IF stop THEN "done" ELSE "next")
    /\ readPrio' = [readPrio EXCEPT ![w] = IF stop THEN @ ELSE workerPrio[w]]
    /\ UNCHANGED <<clientVars, stop, queueVars, pool, workerPrio, current, history>>

(* getNextTask that returns the top of the queue; the local copy of the    *)
(* priority goes out of scope.                                             *)
TakeTask(w) ==
    /\ MoveWorker(w, "next", "run")
    /\ \E t \in queue : /\ IsTop(t)
                        /\ taskPrio[t] >= readPrio[w]
                        /\ queue' = queue \ {t}
                        /\ current' = [current EXCEPT ![w] = t]
                        /\ started' = started \cup {t}
    /\ readPrio' = [readPrio EXCEPT ![w] = IntMin]
    /\ UNCHANGED <<clientVars, stop, taskCount, taskPrio, pool, workerPrio, finished, discarded>>

(* getNextTask that finds the queue empty or its top below the priority. *)
FindNoTask(w) ==
    /\ MoveWorker(w, "next", "check")
    /\ \A t \in queue : IsTop(t) => taskPrio[t] < readPrio[w]
    /\ readPrio' = [readPrio EXCEPT ![w] = IntMin]
    /\ UNCHANGED <<clientVars, stop, queueVars, pool, workerPrio, current, history>>

(* The task returns; it may run for any time, a canceled one too. *)
FinishTask(w) ==
    /\ MoveWorker(w, "run", "inner")
    /\ finished' = finished \cup {current[w]}
    /\ current' = [current EXCEPT ![w] = None]
    /\ UNCHANGED <<clientVars, stop, queueVars, pool, workerPrio, readPrio, started, discarded>>

(* Mutant: a worker leaves a pool that has its size already. *)
TerminateEarly(w) ==
    /\ stop \/ Cardinality(pool) >= poolSize
    /\ MoveWorker(w, "check", "done")
    /\ pool' = IF stop THEN pool ELSE pool \ {w}
    /\ UNCHANGED <<clientVars, stop, queueVars, workerPrio, readPrio, current, history>>

(* shouldTerminateWorker returns true: the pool stops or is too large. *)
Terminate(w) ==
    /\ stop \/ Cardinality(pool) > poolSize
    /\ MoveWorker(w, "check", "done")
    /\ pool' = IF stop THEN pool ELSE pool \ {w}
    /\ UNCHANGED <<clientVars, stop, queueVars, workerPrio, readPrio, current, history>>

(* shouldTerminateWorker returns false. *)
KeepWorker(w) ==
    /\ ~stop /\ Cardinality(pool) <= poolSize
    /\ MoveWorker(w, "check", "idle")
    /\ UNCHANGED <<clientVars, stop, queueVars, pool, workerPrio, readPrio, current, history>>

(* The worker marks itself inactive, whatever was assigned meanwhile. *)
MarkIdle(w) ==
    /\ MoveWorker(w, "idle", "outer")
    /\ workerPrio' = [workerPrio EXCEPT ![w] = IntMin]
    /\ UNCHANGED <<clientVars, stop, queueVars, pool, readPrio, current, history>>

WorkerStep(w) ==
    \/ OuterLoop(w) \/ ReadPriority(w) \/ TakeTask(w) \/ FindNoTask(w)
    \/ FinishTask(w) \/ Terminate(w) \/ KeepWorker(w) \/ MarkIdle(w)

Deinit == DeinitStop \/ DeinitCancelAll \/ DeinitNotify \/ DeinitClear

Next ==
    \/ \E t \in Tasks, p \in Priorities : Execute(t, p)
    \/ \E n \in PoolSizes : SetPoolSize(n)
    \/ CancelAll
    \/ Deinit
    \/ \E w \in Workers : WorkerStep(w) \/ SpuriousWakeup(w)

(* The threads are scheduled and every task returns; a deinit that has     *)
(* begun is carried through.  Clients owe nothing.                         *)
Fairness ==
    /\ \A w \in Workers : WF_vars(WorkerStep(w))
    /\ WF_vars(DeinitCancelAll \/ DeinitNotify \/ DeinitClear)

Spec == Init /\ [][Next]_vars /\ Fairness

-----------------------------------------------------------------------------
WorkerPcs == {"none", "outer", "waiting", "inner", "next", "run", "check", "idle", "done"}
DeinitPcs == {"live", "stopped", "canceled", "notified", "cleared"}

(* Type invariant of the pool's fields, of its threads and of the history. *)
TypeOK ==
    /\ poolSize \in PoolSizes
    /\ taskCount \in 0 .. MaxTasks
    /\ stop \in BOOLEAN
    /\ queue \in SUBSET Tasks
    /\ taskPrio \in [Tasks -> Priorities \cup {IntMin}]
    /\ pool \in SUBSET Workers
    /\ wpc \in [Workers -> WorkerPcs]
    /\ workerPrio \in [Workers -> Priorities \cup {IntMin}]
    /\ readPrio \in [Workers -> Priorities \cup {IntMin}]
    /\ current \in [Workers -> Tasks \cup {None}]
    /\ deinitPc \in DeinitPcs
    /\ started \in SUBSET Tasks
    /\ finished \in SUBSET Tasks
    /\ discarded \in SUBSET Tasks

(* While a task is queued and the pool is not being stopped there is a     *)
(* worker, and no worker sleeps: the single wait without a predicate and   *)
(* the workers that leave a pool that is too large never strand a task.    *)
NoStrandedTask ==
    queue # {} /\ ~stop =>
        /\ pool # {}
        /\ \A w \in pool : wpc[w] \notin {"none", "waiting", "done"}

(* Once deinit has emptied the queue, no execute that was under way puts a *)
(* task back: the stop flag is tested under the mutex.                     *)
ClosedAfterDeinit == deinitPc \in {"canceled", "notified", "cleared"} => queue = {}

(* After deinit every worker thread leaves its loop, also one that was     *)
(* about to wait when the flag was set.                                    *)
WorkersExit == stop ~> \A w \in Workers : wpc[w] \in {"none", "done"}

(* The pool implements the abstract one: what the queue holds is pending.  *)
(* The best queued task is started first, once, and never after cancelAll  *)
(* discarded it, whichever worker comes first.                             *)
Abstract == INSTANCE TaskPool WITH
    pending <- queue, started <- started, finished <- finished, discarded <- discarded,
    priority <- taskPrio
ImplementsTaskPool == Abstract!SafeSpec

(* A submitted task is run to its end or discarded: no interleaving of     *)
(* execute with a worker that is leaving or falling asleep loses it.       *)
TasksServed == Abstract!Served
=============================================================================
