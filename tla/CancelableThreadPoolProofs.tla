--------------------- MODULE CancelableThreadPoolProofs ---------------------
(***************************************************************************)
(* For every number of tasks, every set of priorities and all positive     *)
(* pool sizes: the types, no stranded task, the queue closed by deinit,    *)
(* and the safety part of the refinement of TaskPool.                      *)
(***************************************************************************)
EXTENDS CancelableThreadPool, FiniteSetTheorems, TLAPS

(* The stop flag is what deinit sets first and never clears. *)
StopIsDeinit == stop <=> deinitPc # "live"

(* A worker of a pool that runs has started and has not left its loop. *)
PoolAlive == ~stop => \A w \in pool : wpc[w] \notin {"none", "done"}

(* Every task has been numbered, and is at one place only. *)
TasksOnce ==
    /\ \A t \in queue \cup started \cup discarded : t < taskCount
    /\ queue \cap started = {}
    /\ finished \subseteq started

(* What a worker runs is its own. *)
RunsOwnTask ==
    /\ \A w \in Workers : wpc[w] = "run" => current[w] \in started \ finished
    /\ \A w, v \in Workers : wpc[w] = "run" /\ wpc[v] = "run" /\ w # v => current[w] # current[v]

(* The inductive invariant. *)
IInv ==
    /\ TypeOK
    /\ StopIsDeinit
    /\ PoolAlive
    /\ TasksOnce
    /\ RunsOwnTask
    /\ NoStrandedTask
    /\ ClosedAfterDeinit

-----------------------------------------------------------------------------
(* A set with more than one member keeps one when another is taken out:    *)
(* the worker that leaves a pool that is too large is not the last.        *)
LEMMA LeavesAnother ==
    ASSUME NEW S, NEW w, NEW n \in Nat \ {0}, Cardinality(S) > n
    PROVE  S \ {w} # {}
<1> SUFFICES ASSUME S \ {w} = {} PROVE FALSE
  OBVIOUS
<1>1. S = {} \/ S = {w}
  OBVIOUS
<1>2. Cardinality({}) = 0 /\ Cardinality({w}) = 1
  BY FS_EmptySet, FS_Singleton
<1> QED
  BY <1>1, <1>2

(* notify_all changes no worker but the waiting ones. *)
LEMMA NotifiedType ==
    ASSUME NEW pcs \in [Workers -> WorkerPcs]
    PROVE  /\ Notified(pcs) \in [Workers -> WorkerPcs]
           /\ \A w \in Workers : /\ Notified(pcs)[w] # "waiting"
                                 /\ pcs[w] # "waiting" => Notified(pcs)[w] = pcs[w]
                                 /\ Notified(pcs)[w] \in {pcs[w], "inner"}
                                 /\ Notified(pcs)[w] \in {"none", "run", "done"} =>
                                        Notified(pcs)[w] = pcs[w]
BY DEF Notified, WorkerPcs

LEMMA InitIInv == Init => IInv
<1> SUFFICES ASSUME Init PROVE IInv
  OBVIOUS
<1>1. TypeOK
  <2>1. taskCount \in 0 .. MaxTasks
    BY MaxTasksAssumption DEF Init
  <2>2. /\ wpc \in [Workers -> WorkerPcs] /\ deinitPc \in DeinitPcs
        /\ current \in [Workers -> Tasks \cup {None}]
    BY DEF Init, WorkerPcs, DeinitPcs
  <2> QED
    BY <2>1, <2>2 DEF Init, TypeOK
<1>2. StopIsDeinit /\ PoolAlive /\ TasksOnce /\ RunsOwnTask
  BY DEF Init, StopIsDeinit, PoolAlive, TasksOnce, RunsOwnTask
<1>3. NoStrandedTask /\ ClosedAfterDeinit
  BY DEF Init, NoStrandedTask, ClosedAfterDeinit
<1> QED
  BY <1>1, <1>2, <1>3 DEF IInv

-----------------------------------------------------------------------------
(* What a submission does to the queue, whichever worker it is left to. *)
LEMMA PushFacts ==
    ASSUME IInv, NEW t \in Tasks, NEW p \in Priorities, Push(t, p)
    PROVE  /\ ~stop /\ deinitPc = "live" /\ t = taskCount
           /\ t \notin queue \cup started \cup discarded
           /\ taskCount' \in 0 .. MaxTasks /\ taskCount' = taskCount + 1
           /\ queue' = queue \cup {t} /\ queue' \in SUBSET Tasks
           /\ taskPrio' \in [Tasks -> Priorities \cup {IntMin}]
           /\ \A u \in queue : taskPrio'[u] = taskPrio[u]
<1>1. t \notin queue \cup started \cup discarded
  BY MaxTasksAssumption DEF IInv, TasksOnce, Push, TypeOK
<1> QED
  BY <1>1, MaxTasksAssumption DEF IInv, TypeOK, Push, StopIsDeinit, Tasks

LEMMA ExecuteIInv ==
    ASSUME IInv, NEW t \in Tasks, NEW p \in Priorities, Execute(t, p)
    PROVE  IInv'
<1>1. Push(t, p)
  BY DEF Execute, ExecuteNewWorker, ExecuteIdleWorker, ExecuteSamePriority
<1>2. /\ ~stop /\ deinitPc = "live" /\ t = taskCount
      /\ t \notin queue \cup started \cup discarded
      /\ taskCount' \in 0 .. MaxTasks /\ taskCount' = taskCount + 1
      /\ queue' = queue \cup {t} /\ queue' \in SUBSET Tasks
      /\ taskPrio' \in [Tasks -> Priorities \cup {IntMin}]
  BY <1>1, PushFacts
<1>3. UNCHANGED <<poolSize, stop, deinitPc, readPrio, current, started, finished, discarded>>
  BY DEF Execute, ExecuteNewWorker, ExecuteIdleWorker, ExecuteSamePriority, clientVars, history
<1>4. \/ /\ pool' = pool \cup {t}
         /\ wpc' = [Notified(wpc) EXCEPT ![t] = "outer"]
         /\ workerPrio' = [workerPrio EXCEPT ![t] = p]
      \/ /\ pool' = pool /\ pool # {}
         /\ wpc' = Notified(wpc)
         /\ \/ workerPrio' = workerPrio
            \/ \E w \in pool : workerPrio' = [workerPrio EXCEPT ![w] = p]
  BY DEF Execute, ExecuteNewWorker, ExecuteIdleWorker, ExecuteSamePriority
<1>5. /\ Notified(wpc) \in [Workers -> WorkerPcs]
      /\ \A w \in Workers : /\ Notified(wpc)[w] # "waiting"
                            /\ Notified(wpc)[w] \in {"none", "run", "done"} =>
                                   Notified(wpc)[w] = wpc[w]
  BY NotifiedType DEF IInv, TypeOK
<1>6. /\ wpc' \in [Workers -> WorkerPcs]
      /\ \A w \in Workers : /\ wpc'[w] # "waiting"
                            /\ wpc'[w] \in {"none", "run", "done"} => wpc'[w] = wpc[w]
  BY <1>4, <1>5 DEF Workers, WorkerPcs
<1>7. pool' \in SUBSET Workers /\ workerPrio' \in [Workers -> Priorities \cup {IntMin}]
  BY <1>4 DEF IInv, TypeOK, Workers
<1>8. TypeOK'
  BY <1>2, <1>3, <1>6, <1>7 DEF IInv, TypeOK
<1>9. StopIsDeinit' /\ ClosedAfterDeinit'
  BY <1>2, <1>3 DEF IInv, StopIsDeinit, ClosedAfterDeinit
<1>10. PoolAlive' /\ NoStrandedTask'
  <2>1. \A w \in pool' : wpc'[w] \notin {"none", "done", "waiting"}
    <3> TAKE w \in pool'
    <3>1. CASE w \in pool
      BY <3>1, <1>2, <1>6 DEF IInv, PoolAlive, TypeOK
    <3>2. CASE w \notin pool
      BY <3>2, <1>4, <1>5 DEF Workers
    <3> QED BY <3>1, <3>2
  <2>2. pool' # {}
    BY <1>4
  <2> QED BY <2>1, <2>2 DEF PoolAlive, NoStrandedTask
<1>11. TasksOnce'
  <2>1. \A u \in queue \cup started \cup discarded : u < taskCount + 1 /\ u # t
    BY <1>2, MaxTasksAssumption DEF IInv, TasksOnce, TypeOK, Tasks
  <2>2. t < taskCount + 1
    BY <1>2 DEF Tasks
  <2> QED
    BY <1>2, <1>3, <2>1, <2>2 DEF IInv, TasksOnce
<1>12. RunsOwnTask'
  BY <1>3, <1>6 DEF IInv, RunsOwnTask
<1> QED
  BY <1>8, <1>9, <1>10, <1>11, <1>12 DEF IInv

LEMMA SetPoolSizeIInv ==
    ASSUME IInv, NEW n \in PoolSizes, SetPoolSize(n)
    PROVE  IInv'
BY DEF SetPoolSize, IInv, TypeOK, StopIsDeinit, PoolAlive, TasksOnce, RunsOwnTask,
       NoStrandedTask, ClosedAfterDeinit, queueVars, workerVars, history

LEMMA CancelAllIInv ==
    ASSUME IInv, CancelAll
    PROVE  IInv'
<1> USE DEF CancelAll, DiscardQueue, workerVars
<1>1. TypeOK'
  BY DEF IInv, TypeOK
<1>2. TasksOnce' /\ RunsOwnTask'
  BY DEF IInv, TasksOnce, RunsOwnTask
<1>3. StopIsDeinit' /\ PoolAlive' /\ NoStrandedTask' /\ ClosedAfterDeinit'
  BY DEF IInv, StopIsDeinit, PoolAlive, NoStrandedTask, ClosedAfterDeinit
<1> QED
  BY <1>1, <1>2, <1>3 DEF IInv

(* After the first step of deinit the invariant asks of the pool only that *)
(* the queue stay empty once it has been emptied.                          *)
LEMMA DeinitIInv ==
    ASSUME IInv, Deinit
    PROVE  IInv'
<1>1. CASE DeinitStop
  BY <1>1 DEF DeinitStop, IInv, TypeOK, StopIsDeinit, PoolAlive, TasksOnce, RunsOwnTask,
       NoStrandedTask, ClosedAfterDeinit, DeinitPcs, queueVars, workerVars, history
<1>2. CASE DeinitCancelAll
  <2> USE <1>2 DEF DeinitCancelAll, DiscardQueue, workerVars
  <2>1. TypeOK'
    BY DEF IInv, TypeOK, DeinitPcs
  <2>2. TasksOnce' /\ RunsOwnTask'
    BY DEF IInv, TasksOnce, RunsOwnTask
  <2>3. StopIsDeinit' /\ PoolAlive' /\ NoStrandedTask' /\ ClosedAfterDeinit'
    BY DEF IInv, StopIsDeinit, PoolAlive, NoStrandedTask, ClosedAfterDeinit
  <2> QED
    BY <2>1, <2>2, <2>3 DEF IInv
<1>3. CASE DeinitNotify
  <2> USE <1>3 DEF DeinitNotify, queueVars, history
  <2>1. TypeOK'
    BY NotifiedType DEF IInv, TypeOK, DeinitPcs
  <2>2. \A w \in Workers : wpc'[w] = "run" => wpc[w] = "run"
    BY NotifiedType DEF IInv, TypeOK
  <2>3. TasksOnce' /\ RunsOwnTask'
    BY <2>2 DEF IInv, TasksOnce, RunsOwnTask
  <2>4. StopIsDeinit' /\ PoolAlive' /\ NoStrandedTask' /\ ClosedAfterDeinit'
    BY DEF IInv, StopIsDeinit, PoolAlive, NoStrandedTask, ClosedAfterDeinit
  <2> QED
    BY <2>1, <2>3, <2>4 DEF IInv
<1>4. CASE DeinitClear
  BY <1>4 DEF DeinitClear, IInv, TypeOK, StopIsDeinit, PoolAlive, TasksOnce, RunsOwnTask,
       NoStrandedTask, ClosedAfterDeinit, DeinitPcs, queueVars, history
<1> QED
  BY <1>1, <1>2, <1>3, <1>4 DEF Deinit

-----------------------------------------------------------------------------
(* A step of a worker that neither takes nor ends a task, nor leaves the   *)
(* vector: only its place in the loop and its priorities change.           *)
LEMMA PlaceIInv ==
    ASSUME IInv, NEW w \in Workers, NEW to \in WorkerPcs,
           wpc' = [wpc EXCEPT ![w] = to],
           to # "run" /\ to # "none",
           to = "done" => stop,
           to = "waiting" => queue = {},
           workerPrio' \in [Workers -> Priorities \cup {IntMin}],
           readPrio' \in [Workers -> Priorities \cup {IntMin}],
           UNCHANGED <<clientVars, stop, queueVars, pool, current, history>>
    PROVE  IInv'
<1> USE DEF clientVars, queueVars, history
<1>1. TypeOK'
  BY DEF IInv, TypeOK
<1>2. \A v \in Workers : wpc'[v] = IF v = w THEN to ELSE wpc[v]
  BY DEF IInv, TypeOK
<1>3. TasksOnce' /\ RunsOwnTask'
  BY <1>2 DEF IInv, TasksOnce, RunsOwnTask
<1>4. StopIsDeinit' /\ ClosedAfterDeinit'
  BY DEF IInv, StopIsDeinit, ClosedAfterDeinit
<1>5. PoolAlive' /\ NoStrandedTask'
  BY <1>2 DEF IInv, TypeOK, PoolAlive, NoStrandedTask
<1> QED
  BY <1>1, <1>3, <1>4, <1>5 DEF IInv

LEMMA WorkerIInv ==
    ASSUME IInv, NEW w \in Workers, WorkerStep(w) \/ SpuriousWakeup(w)
    PROVE  IInv'
<1> USE DEF MoveWorker
<1>1. CASE OuterLoop(w)
  <2>1. CASE stop
    BY <1>1, <2>1, PlaceIInv DEF OuterLoop, WorkerPcs, IInv, TypeOK
  <2>2. CASE ~stop /\ queue = {}
    BY <1>1, <2>2, PlaceIInv DEF OuterLoop, WorkerPcs, IInv, TypeOK
  <2>3. CASE ~stop /\ queue # {}
    BY <1>1, <2>3, PlaceIInv DEF OuterLoop, WorkerPcs, IInv, TypeOK
  <2> QED BY <2>1, <2>2, <2>3
<1>2. CASE SpuriousWakeup(w)
  BY <1>2, PlaceIInv DEF SpuriousWakeup, WorkerPcs, IInv, TypeOK
<1>3. CASE ReadPriority(w)
  <2>1. readPrio' \in [Workers -> Priorities \cup {IntMin}]
    BY <1>3 DEF ReadPriority, IInv, TypeOK
  <2>2. CASE stop
    BY <1>3, <2>1, <2>2, PlaceIInv DEF ReadPriority, WorkerPcs, IInv, TypeOK
  <2>3. CASE ~stop
    BY <1>3, <2>1, <2>3, PlaceIInv DEF ReadPriority, WorkerPcs, IInv, TypeOK
  <2> QED BY <2>2, <2>3
<1>4. CASE FindNoTask(w)
  BY <1>4, PlaceIInv DEF FindNoTask, WorkerPcs, IInv, TypeOK
<1>5. CASE KeepWorker(w)
  BY <1>5, PlaceIInv DEF KeepWorker, WorkerPcs, IInv, TypeOK
<1>6. CASE MarkIdle(w)
  BY <1>6, PlaceIInv DEF MarkIdle, WorkerPcs, IInv, TypeOK
<1>7. CASE TakeTask(w)
  <2>1. PICK t \in queue : /\ queue' = queue \ {t}
                           /\ current' = [current EXCEPT ![w] = t]
                           /\ started' = started \cup {t}
    BY <1>7 DEF TakeTask
  <2> USE <1>7, <2>1 DEF TakeTask, clientVars
  <2>2. TypeOK'
    BY DEF IInv, TypeOK, WorkerPcs
  <2>3. t \notin started /\ t \notin finished
    BY DEF IInv, TasksOnce, RunsOwnTask
  <2>4. TasksOnce' /\ RunsOwnTask'
    BY <2>3 DEF IInv, TypeOK, TasksOnce, RunsOwnTask
  <2>5. StopIsDeinit' /\ PoolAlive' /\ NoStrandedTask' /\ ClosedAfterDeinit'
    BY DEF IInv, TypeOK, StopIsDeinit, PoolAlive, NoStrandedTask, ClosedAfterDeinit
  <2> QED
    BY <2>2, <2>4, <2>5 DEF IInv
<1>8. CASE FinishTask(w)
  <2> USE <1>8 DEF FinishTask, clientVars, queueVars
  <2>1. current[w] \in started
    BY DEF IInv, RunsOwnTask
  <2>2. TypeOK'
    BY <2>1 DEF IInv, TypeOK, WorkerPcs
  <2>3. TasksOnce' /\ RunsOwnTask'
    BY <2>1 DEF IInv, TypeOK, TasksOnce, RunsOwnTask
  <2>4. StopIsDeinit' /\ PoolAlive' /\ NoStrandedTask' /\ ClosedAfterDeinit'
    BY DEF IInv, TypeOK, StopIsDeinit, PoolAlive, NoStrandedTask, ClosedAfterDeinit
  <2> QED
    BY <2>2, <2>3, <2>4 DEF IInv
<1>9. CASE Terminate(w)
  <2> USE <1>9 DEF Terminate, clientVars, queueVars, history
  <2>1. TypeOK' /\ TasksOnce' /\ RunsOwnTask'
    BY DEF IInv, TypeOK, WorkerPcs, TasksOnce, RunsOwnTask
  <2>2. StopIsDeinit' /\ ClosedAfterDeinit'
    BY DEF IInv, StopIsDeinit, ClosedAfterDeinit
  <2>3. ~stop => pool \ {w} # {}
    BY LeavesAnother, PoolSizesAssumption DEF IInv, TypeOK
  <2>4. PoolAlive' /\ NoStrandedTask'
    BY <2>3 DEF IInv, TypeOK, PoolAlive, NoStrandedTask
  <2> QED
    BY <2>1, <2>2, <2>4 DEF IInv
<1> QED
  BY <1>1, <1>2, <1>3, <1>4, <1>5, <1>6, <1>7, <1>8, <1>9 DEF WorkerStep

-----------------------------------------------------------------------------
LEMMA NextIInv == IInv /\ [Next]_vars => IInv'
<1> SUFFICES ASSUME IInv, [Next]_vars PROVE IInv'
  OBVIOUS
<1>1. CASE \E t \in Tasks, p \in Priorities : Execute(t, p)
  BY <1>1, ExecuteIInv
<1>2. CASE \E n \in PoolSizes : SetPoolSize(n)
  BY <1>2, SetPoolSizeIInv
<1>3. CASE CancelAll
  BY <1>3, CancelAllIInv
<1>4. CASE Deinit
  BY <1>4, DeinitIInv
<1>5. CASE \E w \in Workers : WorkerStep(w) \/ SpuriousWakeup(w)
  BY <1>5, WorkerIInv
<1>6. CASE UNCHANGED vars
  BY <1>6 DEF vars, IInv, TypeOK, StopIsDeinit, PoolAlive, TasksOnce, RunsOwnTask,
       NoStrandedTask, ClosedAfterDeinit
<1> QED
  BY <1>1, <1>2, <1>3, <1>4, <1>5, <1>6 DEF Next

THEOREM Invariance == Spec => []IInv
BY InitIInv, NextIInv, PTL DEF Spec

(* The fields of the pool and of its workers always have their types. *)
THEOREM TypeCorrect == Spec => []TypeOK
BY Invariance, PTL DEF IInv

(* Of any number of tasks, on a pool resized at will, none is stranded.    *)
THEOREM NeverStranded == Spec => []NoStrandedTask
BY Invariance, PTL DEF IInv

(* What deinit has closed stays closed: a submission under way comes to    *)
(* nothing.                                                                *)
THEOREM ClosedForGood == Spec => []ClosedAfterDeinit
BY Invariance, PTL DEF IInv

-----------------------------------------------------------------------------
(* Every step of the pool is a step of the abstract pool, or changes only  *)
(* its threads.                                                            *)
LEMMA StepRefines ==
    ASSUME IInv, [Next]_vars
    PROVE  [Abstract!Next]_(Abstract!vars)
<1>1. CASE \E t \in Tasks, p \in Priorities : Execute(t, p)
  <2>1. PICK t \in Tasks, p \in Priorities : Execute(t, p)
    BY <1>1
  <2>2. Push(t, p) /\ UNCHANGED <<started, finished, discarded>>
    BY <2>1 DEF Execute, ExecuteNewWorker, ExecuteIdleWorker, ExecuteSamePriority, history
  <2>3. Abstract!Submit(t, p)
    BY <2>2 DEF Abstract!Submit, Abstract!Submitted, Push, IInv, TasksOnce
  <2> QED
    BY <2>3 DEF Abstract!Next
<1>2. CASE CancelAll \/ DeinitCancelAll
  <2>1. Abstract!DiscardAll
    BY <1>2 DEF CancelAll, DeinitCancelAll, DiscardQueue, Abstract!DiscardAll
  <2> QED
    BY <2>1 DEF Abstract!Next
<1>3. ASSUME NEW w \in Workers, TakeTask(w) PROVE Abstract!Next
  <2>1. PICK t \in queue : /\ IsTop(t)
                           /\ queue' = queue \ {t}
                           /\ started' = started \cup {t}
    BY <1>3 DEF TakeTask
  <2>2. Abstract!Start(t)
    BY <1>3, <2>1 DEF TakeTask, IsTop, Before, Abstract!Start, Abstract!Better
  <2> QED
    BY <2>2 DEF Abstract!Next, IInv, TypeOK
<1>4. ASSUME NEW w \in Workers, FinishTask(w) PROVE Abstract!Next
  <2>1. current[w] \in started \ finished
    BY <1>4 DEF FinishTask, MoveWorker, IInv, RunsOwnTask
  <2>2. Abstract!Finish(current[w])
    BY <1>4, <2>1 DEF FinishTask, queueVars, Abstract!Finish
  <2> QED
    BY <2>1, <2>2 DEF Abstract!Next, IInv, TypeOK
<1>5. ASSUME NEW w \in Workers,
             \/ OuterLoop(w) \/ SpuriousWakeup(w) \/ ReadPriority(w) \/ FindNoTask(w)
             \/ Terminate(w) \/ KeepWorker(w) \/ MarkIdle(w)
      PROVE  UNCHANGED Abstract!vars
  BY <1>5 DEF OuterLoop, SpuriousWakeup, ReadPriority, FindNoTask, Terminate, KeepWorker,
              MarkIdle, queueVars, history, Abstract!vars
<1>6. CASE \E n \in PoolSizes : SetPoolSize(n)
  BY <1>6 DEF SetPoolSize, queueVars, history, Abstract!vars
<1>7. CASE DeinitStop \/ DeinitNotify \/ DeinitClear
  BY <1>7 DEF DeinitStop, DeinitNotify, DeinitClear, queueVars, history, Abstract!vars
<1>8. CASE UNCHANGED vars
  BY <1>8 DEF vars, Abstract!vars
<1> QED
  BY <1>1, <1>2, <1>3, <1>4, <1>5, <1>6, <1>7, <1>8 DEF Next, Deinit, WorkerStep

(* The pool implements the abstract pool: best pending task first, every   *)
(* task at most once, and never after it was discarded.                    *)
THEOREM Refinement == Spec => ImplementsTaskPool
<1>1. Init => Abstract!Init
  BY DEF Init, Abstract!Init
<1>2. IInv /\ [Next]_vars => [Abstract!Next]_(Abstract!vars)
  BY StepRefines
<1> QED
  BY <1>1, <1>2, Invariance, PTL DEF Spec, ImplementsTaskPool, Abstract!SafeSpec
=============================================================================
