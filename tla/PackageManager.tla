--------------------------- MODULE PackageManager ---------------------------
(***************************************************************************)
(* packagemanager/PackageManager.cpp: the persistent task queue, the one   *)
(* worker thread that serves it, the API calls that fill it, the table of  *)
(* installed packages with their files, and a reader of the packages (the  *)
(* tile data source).  The process may be killed at any step.              *)
(*                                                                         *)
(* The queue and the table of packages are two SQLite databases and, like  *)
(* the package files and the saved package list, survive a crash.          *)
(*                                                                         *)
(* Three locks: every operation of the queue is atomic under the queue's   *)
(* own mutex; _mutex guards everything else and is held across two steps   *)
(* only where the worker is about to wait or replaces the package list;    *)
(* _packageFileMutex is held while a package is deleted or read.           *)
(*                                                                         *)
(* Abstracted: bytes of a file (none, a part, all), tile masks, encryption *)
(* and meta data, progress of a task, custom packages, packages of unknown *)
(* size, and failures of SQLite or of the disk.                            *)
(***************************************************************************)
EXTENDS Integers, FiniteSets, FiniteSetsExt

CONSTANTS Packages,    (* package ids                                      *)
          ListId,      (* the empty package id that list tasks carry       *)
          Clients,     (* threads that call the API                        *)
          Commands,    (* API calls that the clients make                  *)
          Priorities,  (* arguments of setPackagePriority                  *)
          MaxVersion,  (* bound: package versions                          *)
          MaxTasks,    (* bound: tasks ever scheduled                      *)
          MaxCrashes   (* bound: times the process is killed               *)

Versions == 1 .. MaxVersion
TaskIds  == 1 .. MaxTasks
NoTaskId == -1
DefaultPriority == 0
CancelPriority  == 1000000
ListPriority    == 2147483647

Scheduling == {"download", "import", "remove", "list"}
AllCommands == Scheduling \cup {"cancel", "priority", "read"}
ASSUME CommandsAssumption == Commands \subseteq AllCommands /\ ListId \notin Packages
ASSUME BoundsAssumption ==
    /\ MaxVersion \in Nat \ {0} /\ MaxTasks \in Nat /\ MaxCrashes \in Nat
    /\ Priorities \subseteq Int

NoTask == [cmd |-> "none", pkg |-> ListId, ver |-> 0, prio |-> 0, canceled |-> FALSE]
IdleClient == [pc |-> "idle", cmd |-> "none", pkg |-> ListId, arg |-> 0, todo |-> {}]

VARIABLES
    task,       (* manager_tasks: the row of each scheduled task           *)
    nextId,     (* its AUTOINCREMENT counter                               *)
    rows,       (* packages: no row, a row with valid=0, with valid=1      *)
    file,       (* the package file of each package and version            *)
    list,       (* the saved package list: version offered, 0 for none     *)
    published,  (* external: what the server offers by now                 *)
    stopped,    (* _stopped                                                *)
    local,      (* _localPackages                                          *)
    fileMutex,  (* holder of _packageFileMutex                             *)
    wpc,        (* where the worker thread is                              *)
    active,     (* the taskId of run                                       *)
    retry,      (* the retry counter of downloadPackage                    *)
    delVers,    (* versions that deleteLocalPackage is still to delete     *)
    client,     (* the API call each client is in                          *)
    opened,     (* packages the reader's callback was given                *)
    cached,     (* _cachedOpenPackageHandlers of the tile data source      *)
    crashes,    (* times the process has been killed                       *)
    unfit       (* history: rows left without a file by a failed import    *)

queueVars  == <<task, nextId>>
storeVars  == <<rows, file, local, unfit>>
listVars   == <<list, published>>
workerVars == <<wpc, active, retry, delVers>>
readerVars == <<fileMutex, opened, cached>>
vars == <<task, nextId, rows, file, list, published, stopped, local, fileMutex,
          wpc, active, retry, delVers, client, opened, cached, crashes, unfit>>

-----------------------------------------------------------------------------
(* The task queue. *)

Live == {t \in TaskIds : task[t].cmd # "none"}
TasksOf(p) == {t \in Live : task[t].pkg = p}

(* Paused tasks (priority < 0) are not served, canceled ones always are. *)
Runnable == {t \in Live : task[t].prio >= 0 \/ task[t].canceled}

(* ORDER BY priority DESC, ordering ASC with the current task first. *)
ServedBefore(t, u, current) ==
    LET Ordering(x) == IF x = current THEN -1 ELSE x
    IN  \/ task[t].prio > task[u].prio
        \/ task[t].prio = task[u].prio /\ Ordering(t) < Ordering(u)

(* Mutant: the task served is the best one, not the first of its package. *)
BestTaskId(current) ==
    IF Runnable = {} THEN NoTaskId
    ELSE CHOOSE t \in Runnable : \A u \in Runnable \ {t} : ServedBefore(t, u, current)

(* getActiveTaskId: the first task, paused or not, of the package whose    *)
(* turn it is.                                                             *)
ActiveTaskId(current) ==
    IF Runnable = {} THEN NoTaskId
    ELSE LET best == CHOOSE t \in Runnable :
                        \A u \in Runnable \ {t} : ServedBefore(t, u, current)
         IN  Min(TasksOf(task[best].pkg))

isTaskCancelled(t) == task[t].canceled
isTaskPaused(t) == stopped \/ ActiveTaskId(t) # t

(* _mutex is free unless the worker holds it from one step to the next. *)
MutexFree == wpc \notin {"empty", "listGap"}

-----------------------------------------------------------------------------
ValidPackages(r) == {pv \in Packages \X Versions : r[pv] = "valid"}

(* The first run, or a later one on a device where version 1 of some       *)
(* packages is installed; the list offers the newest version.              *)
Init ==
    /\ task = [t \in TaskIds |-> NoTask] /\ nextId = 1
    /\ \E installed \in SUBSET Packages :
          /\ rows = [pv \in Packages \X Versions |->
                       IF pv[1] \in installed /\ pv[2] = 1 THEN "valid" ELSE "none"]
          /\ file = [pv \in Packages \X Versions |->
                       IF pv[1] \in installed /\ pv[2] = 1 THEN "full" ELSE "none"]
    /\ local = ValidPackages(rows)
    /\ published = [p \in Packages |-> IF "list" \in Commands THEN 1 ELSE MaxVersion]
    /\ list = published
    /\ stopped = TRUE /\ wpc = "off"
    /\ active = NoTaskId /\ retry = 0 /\ delVers = {}
    /\ fileMutex = "free" /\ opened = {} /\ cached = {}
    /\ client = [c \in Clients |-> IdleClient]
    /\ crashes = 0
    /\ unfit = {}

-----------------------------------------------------------------------------
(* Life cycle. *)

(* start: joins the old thread, so the new one is the only one. *)
Start ==
    /\ stopped /\ wpc = "off"
    /\ stopped' = FALSE
    /\ wpc' = "pick"
    /\ UNCHANGED <<queueVars, storeVars, listVars, active, retry, delVers, client, readerVars,
                   crashes>>

(* stop sets the flag and wakes the worker, under _mutex. *)
Stop ==
    /\ ~stopped /\ MutexFree
    /\ stopped' = TRUE
    /\ wpc' = IF wpc = "waiting" THEN "pick" ELSE wpc
    /\ UNCHANGED <<queueVars, storeVars, listVars, active, retry, delVers, client, readerVars,
                   crashes>>

(* The process dies; what is next constructed reads the two databases. *)
Crash ==
    /\ crashes < MaxCrashes
    /\ crashes' = crashes + 1
    /\ stopped' = TRUE /\ wpc' = "off"
    /\ active' = NoTaskId /\ retry' = 0 /\ delVers' = {}
    /\ client' = [c \in Clients |-> IdleClient]
    /\ fileMutex' = "free" /\ opened' = {} /\ cached' = {}
    /\ local' = ValidPackages(rows)
    /\ UNCHANGED <<queueVars, rows, file, unfit, listVars>>

(* External: the server offers a new version of a package. *)
Publish(p) ==
    /\ "list" \in Commands /\ published[p] < MaxVersion
    /\ published' = [published EXCEPT ![p] = @ + 1]
    /\ UNCHANGED <<queueVars, storeVars, list, stopped, workerVars, client, readerVars, crashes>>

-----------------------------------------------------------------------------
(* API calls.  Each reads what it needs, changes the queue one task at a   *)
(* time, and for every change takes _mutex to update the status before it  *)
(* notifies the worker.                                                    *)

(* Bound: the tasks that calls under way will schedule count, too. *)
HasRoom ==
    nextId + Cardinality({c \in Clients : /\ client[c].cmd \in Scheduling
                                          /\ client[c].pc \in {"each", "quiet", "insert"}}) <= MaxTasks

Begin(c, cmd, p, arg, pc, todo) ==
    /\ cmd \in Commands
    /\ cmd \in Scheduling => HasRoom
    /\ client[c].pc = "idle"
    /\ client' = [client EXCEPT ![c] =
                    [pc |-> pc, cmd |-> cmd, pkg |-> p, arg |-> arg, todo |-> todo]]
    /\ UNCHANGED <<task, nextId, storeVars, listVars, stopped, workerVars, readerVars, crashes>>

(* startPackageDownload: the version is the one the list offers now. *)
startPackageDownload(c, p) ==
    /\ MutexFree
    /\ list[p] # 0
    /\ Begin(c, "download", p, list[p], "insert", {})

startPackageImport(c, p, v) == Begin(c, "import", p, v, "insert", {})

startPackageListDownload(c) == Begin(c, "list", ListId, 0, "insert", {})

(* startPackageRemove: of the version that is installed now; all tasks of  *)
(* the package are canceled first.                                         *)
startPackageRemove(c, p) ==
    /\ MutexFree
    /\ \E v \in Versions : /\ <<p, v>> \in local
                           /\ Begin(c, "remove", p, v, "each", TasksOf(p))

cancelPackageTasks(c, p) == Begin(c, "cancel", p, 0, "each", TasksOf(p))

setPackagePriority(c, p, prio) == Begin(c, "priority", p, prio, "each", TasksOf(p))

(* The loop over the task ids: a task that is gone by now is passed over. *)
EachTask(c) ==
    LET cl == client[c]
        t  == Min(cl.todo)
        hit == t \in Live
        next == IF ~hit THEN "each" ELSE IF cl.cmd = "remove" THEN "quiet" ELSE "status"
    IN  /\ cl.pc = "each" /\ cl.todo # {}
        /\ task' = IF ~hit THEN task
                   ELSE IF cl.cmd = "priority" THEN [task EXCEPT ![t].prio = cl.arg]
                   ELSE [task EXCEPT ![t].prio = CancelPriority, ![t].canceled = TRUE]
        /\ client' = [client EXCEPT ![c].todo = @ \ {t}, ![c].pc = next]
        /\ UNCHANGED <<nextId, storeVars, listVars, stopped, workerVars, readerVars,
                       crashes>>

EndOfLoop(c) ==
    /\ client[c].pc = "each" /\ client[c].todo = {}
    /\ client' = [client EXCEPT ![c] =
                    IF client[c].cmd = "remove" THEN [@ EXCEPT !.pc = "insert"] ELSE IdleClient]
    /\ UNCHANGED <<queueVars, storeVars, listVars, stopped, workerVars, readerVars, crashes>>

(* scheduleTask. *)
InsertTask(c) ==
    LET cl == client[c]
    IN  /\ cl.pc = "insert" /\ nextId <= MaxTasks
        /\ task' = [task EXCEPT ![nextId] =
                      [cmd |-> cl.cmd, pkg |-> cl.pkg, ver |-> cl.arg,
                       prio |-> DefaultPriority, canceled |-> FALSE]]
        /\ nextId' = nextId + 1
        /\ client' = [client EXCEPT ![c].pc = IF cl.cmd = "list" THEN "raise" ELSE "status",
                                    ![c].arg = IF cl.cmd = "list" THEN nextId ELSE @]
        /\ UNCHANGED <<storeVars, listVars, stopped, workerVars, readerVars, crashes>>

(* setTaskPriority of a list task, a call of its own after scheduleTask. *)
RaisePriority(c) ==
    LET t == client[c].arg
    IN  /\ client[c].pc = "raise"
        /\ task' = IF t \in Live THEN [task EXCEPT ![t].prio = ListPriority] ELSE task
        /\ client' = [client EXCEPT ![c].pc = "status"]
        /\ UNCHANGED <<nextId, storeVars, listVars, stopped, workerVars, readerVars,
                       crashes>>

(* Mutant: updateTaskStatus does not take _mutex. *)
UpdateStatusUnlocked(c) ==
    /\ client[c].pc \in {"status", "quiet"}
    /\ client' = [client EXCEPT ![c].pc = IF @ = "status" THEN "notify" ELSE "each"]
    /\ UNCHANGED <<queueVars, storeVars, listVars, stopped, workerVars, readerVars, crashes>>

(* updateTaskStatus: changes nothing that matters here, but takes _mutex.  *)
(* startPackageRemove does not notify of the tasks it cancels.             *)
UpdateStatus(c) ==
    /\ client[c].pc \in {"status", "quiet"}
    /\ MutexFree
    /\ client' = [client EXCEPT ![c].pc = IF @ = "status" THEN "notify" ELSE "each"]
    /\ UNCHANGED <<queueVars, storeVars, listVars, stopped, workerVars, readerVars, crashes>>

(* Mutant: the call returns without notify_one. *)
ReturnSilently(c) ==
    /\ client[c].pc = "notify"
    /\ client' = [client EXCEPT ![c] = IdleClient]
    /\ UNCHANGED <<queueVars, storeVars, listVars, stopped, workerVars, readerVars, crashes>>

(* notify_one, without _mutex; there is only one thread to wake. *)
Notify(c) ==
    /\ client[c].pc = "notify"
    /\ wpc' = IF wpc = "waiting" THEN "pick" ELSE wpc
    /\ client' = [client EXCEPT ![c] =
                    IF @.cmd \in {"cancel", "priority"} THEN [@ EXCEPT !.pc = "each"]
                    ELSE IdleClient]
    /\ UNCHANGED <<queueVars, storeVars, listVars, stopped, active, retry, delVers, readerVars,
                   crashes>>

BeginCall(c) ==
    \/ \E p \in Packages :
          \/ startPackageDownload(c, p) \/ startPackageRemove(c, p) \/ cancelPackageTasks(c, p)
          \/ \E v \in Versions : startPackageImport(c, p, v)
          \/ \E prio \in Priorities : setPackagePriority(c, p, prio)
    \/ startPackageListDownload(c)

ContinueCall(c) ==
    EachTask(c) \/ EndOfLoop(c) \/ InsertTask(c) \/ RaisePriority(c) \/ UpdateStatus(c) \/ Notify(c)

-----------------------------------------------------------------------------
(* The worker thread: run. *)

aPkg == task[active].pkg
aVer == task[active].ver
aFile == <<aPkg, aVer>>

Go(from, to) == wpc = from /\ wpc' = to

notStore == <<queueVars, listVars, stopped, client, readerVars, crashes>>

(* The top of run: exit, find nothing (and keep _mutex), or take a task. *)
PickTask ==
    /\ LET t == ActiveTaskId(NoTaskId)
       IN  IF stopped THEN Go("pick", "off") /\ UNCHANGED active
           ELSE IF t = NoTaskId THEN Go("pick", "empty") /\ UNCHANGED active
           ELSE Go("pick", task[t].cmd) /\ active' = t
    /\ UNCHANGED <<notStore, storeVars, retry, delVers>>

(* The wait gives _mutex up. *)
WaitForTask ==
    /\ Go("empty", "waiting")
    /\ UNCHANGED <<notStore, storeVars, active, retry, delVers>>

SpuriousWakeup ==
    /\ Go("waiting", "pick")
    /\ UNCHANGED <<notStore, storeVars, active, retry, delVers>>

(* downloadPackage up to the transfer: the list may no longer offer the    *)
(* version, it may be installed already, and a partial file is reused.     *)
BeginDownload ==
    /\ wpc = "download"
    /\ retry' = 0
    /\ IF list[aPkg] # aVer THEN wpc' = "failed" /\ UNCHANGED file
       ELSE IF rows[aFile] = "valid" THEN wpc' = "finished" /\ UNCHANGED file
       ELSE IF file[aFile] = "full" THEN wpc' = "insert" /\ UNCHANGED file
       ELSE wpc' = "transfer" /\ file' = [file EXCEPT ![aFile] = "part"]
    /\ UNCHANGED <<notStore, rows, local, unfit, active, delVers>>

(* The callback of DownloadFile writes the last chunk; the transfer may    *)
(* still end with an error.                                                *)
ReceiveFile ==
    /\ wpc = "transfer"
    /\ ~isTaskCancelled(active) /\ ~isTaskPaused(active)
    /\ wpc' \in {"insert", "broken"}
    /\ file' = [file EXCEPT ![aFile] = "full"]
    /\ UNCHANGED <<notStore, rows, local, unfit, active, retry, delVers>>

(* The callback stops the transfer, or the network does. *)
BreakTransfer ==
    /\ Go("transfer", "broken")
    /\ UNCHANGED <<notStore, storeVars, active, retry, delVers>>

(* Mutant: a canceled download leaves its partial file behind. *)
AfterBreakKeep ==
    /\ wpc = "broken"
    /\ wpc' = IF isTaskCancelled(active) THEN "canceled" ELSE "broken2"
    /\ UNCHANGED <<notStore, storeVars, active, retry, delVers>>

(* A canceled task gives its partial file up. *)
AfterBreak ==
    /\ wpc = "broken"
    /\ IF isTaskCancelled(active)
       THEN wpc' = "canceled" /\ file' = [file EXCEPT ![aFile] = "none"]
       ELSE wpc' = "broken2" /\ UNCHANGED file
    /\ UNCHANGED <<notStore, rows, local, unfit, active, retry, delVers>>

(* Mutant: a failed download leaves its file behind. *)
FailAndKeep ==
    /\ wpc = "broken2"
    /\ IF isTaskPaused(active) THEN wpc' = "paused" /\ UNCHANGED <<file, retry>>
       ELSE IF retry = 0
       THEN wpc' = "transfer" /\ retry' = 1 /\ file' = [file EXCEPT ![aFile] = "part"]
       ELSE wpc' = "failed" /\ UNCHANGED <<file, retry>>
    /\ UNCHANGED <<notStore, rows, local, unfit, active, delVers>>

(* A paused task keeps it; any other error is retried once, from nothing. *)
PauseOrRetry ==
    /\ wpc = "broken2"
    /\ IF isTaskPaused(active) THEN wpc' = "paused" /\ UNCHANGED <<file, retry>>
       ELSE IF retry = 0
       THEN wpc' = "transfer" /\ retry' = 1 /\ file' = [file EXCEPT ![aFile] = "part"]
       ELSE wpc' = "failed" /\ file' = [file EXCEPT ![aFile] = "none"] /\ UNCHANGED retry
    /\ UNCHANGED <<notStore, rows, local, unfit, active, delVers>>

(* importPackage up to the copy, which truncates the file. *)
BeginImport ==
    /\ wpc = "import"
    /\ IF rows[aFile] = "valid" THEN wpc' = "finished" /\ UNCHANGED file
       ELSE wpc' = "copied" /\ \E r \in {"part", "full"} : file' = [file EXCEPT ![aFile] = r]
    /\ UNCHANGED <<notStore, rows, local, unfit, active, retry, delVers>>

(* The copy has ended, by itself or stopped; an import is never paused. *)
AfterCopy ==
    /\ wpc = "copied"
    /\ IF isTaskCancelled(active)
       THEN wpc' = "canceled" /\ file' = [file EXCEPT ![aFile] = "none"]
       ELSE IF file[aFile] = "part"
       THEN wpc' = "failed" /\ file' = [file EXCEPT ![aFile] = "none"]
       ELSE wpc' = "insert" /\ UNCHANGED file
    /\ UNCHANGED <<notStore, rows, local, unfit, active, retry, delVers>>

(* The row of the new version, with valid=0 until it is imported. *)
InsertRow ==
    /\ Go("insert", "mark")
    /\ rows' = [rows EXCEPT ![aFile] = IF @ = "none" THEN "invalid" ELSE @]
    /\ UNCHANGED <<notStore, file, local, unfit, active, retry, delVers>>

(* Mutant: the row of the version before stays valid, too. *)
AlsoValid(r, p, v) ==
    [pv \in DOMAIN r |-> IF pv = <<p, v>> THEN "valid" ELSE r[pv]]

(* UPDATE packages SET valid=(id=:id), then syncLocalPackages. *)
WithOnlyValid(r, p, v) ==
    [pv \in DOMAIN r |-> IF pv[1] # p \/ r[pv] = "none" THEN r[pv]
                         ELSE IF pv[2] = v THEN "valid" ELSE "invalid"]

importLocalPackage ==
    /\ Go("mark", "notifyAdded")
    /\ rows' = WithOnlyValid(rows, aPkg, aVer)
    /\ local' = ValidPackages(rows')
    /\ delVers' = {v \in Versions : rows'[<<aPkg, v>>] = "invalid"}
    /\ unfit' = unfit \ {aFile}
    /\ UNCHANGED <<notStore, file, active, retry>>

(* MapPackageHandler::onImportPackage rejects the file (no metadata table, *)
(* a key that is missing or does not match) and throws: downloadPackage or *)
(* importPackage unlinks the file, the task fails, the valid=0 row stays.  *)
ImportFails ==
    /\ Go("mark", "failed")
    /\ file' = [file EXCEPT ![aFile] = "none"]
    /\ unfit' = unfit \cup {aFile}
    /\ UNCHANGED <<notStore, rows, local, active, retry, delVers>>

(* notifyPackagesChanged: the tile data source drops its open packages. *)
NotifyAdded ==
    /\ Go("notifyAdded", "delete")
    /\ cached' = {}
    /\ UNCHANGED <<queueVars, storeVars, listVars, stopped, active, retry, delVers, client,
                   fileMutex, opened, crashes>>

(* Mutant: deleteLocalPackage does not lock _packageFileMutex. *)
DeleteRowUnlocked ==
    /\ wpc = "delete" /\ delVers # {}
    /\ wpc' = "notifyDeleted"
    /\ rows' = [rows EXCEPT ![<<aPkg, Min(delVers)>>] = "none"]
    /\ local' = ValidPackages(rows')
    /\ unfit' = unfit \ {<<aPkg, Min(delVers)>>}
    /\ UNCHANGED <<queueVars, file, listVars, stopped, active, retry, delVers, client,
                   readerVars, crashes>>

(* deleteLocalPackage: row and _localPackages under both mutexes, ... *)
DeleteRow ==
    /\ wpc = "delete" /\ delVers # {}
    /\ fileMutex = "free" /\ fileMutex' = "worker"
    /\ wpc' = "notifyDeleted"
    /\ rows' = [rows EXCEPT ![<<aPkg, Min(delVers)>>] = "none"]
    /\ local' = ValidPackages(rows')
    /\ unfit' = unfit \ {<<aPkg, Min(delVers)>>}
    /\ UNCHANGED <<queueVars, file, listVars, stopped, active, retry, delVers, client,
                   opened, cached, crashes>>

(* ... the listeners, with the file mutex held, ... *)
NotifyDeleted ==
    /\ Go("notifyDeleted", "unlink")
    /\ cached' = {}
    /\ UNCHANGED <<queueVars, storeVars, listVars, stopped, active, retry, delVers, client,
                   fileMutex, opened, crashes>>

(* Mutant: the file removed is the new version's. *)
UnlinkNewFile ==
    /\ Go("unlink", "delete")
    /\ file' = [file EXCEPT ![aFile] = "none"]
    /\ delVers' = delVers \ {Min(delVers)}
    /\ fileMutex' = "free"
    /\ UNCHANGED <<queueVars, rows, local, unfit, listVars, stopped, active, retry, client,
                   opened, cached, crashes>>

(* ... and then the file. *)
UnlinkFile ==
    /\ Go("unlink", "delete")
    /\ file' = [file EXCEPT ![<<aPkg, Min(delVers)>>] = "none"]
    /\ delVers' = delVers \ {Min(delVers)}
    /\ fileMutex' = "free"
    /\ UNCHANGED <<queueVars, rows, local, unfit, listVars, stopped, active, retry, client,
                   opened, cached, crashes>>

DeletedAll ==
    /\ delVers = {}
    /\ Go("delete", "finished")
    /\ UNCHANGED <<notStore, storeVars, active, retry, delVers>>

(* removePackage. *)
BeginRemove ==
    /\ wpc = "remove"
    /\ IF isTaskCancelled(active) THEN wpc' = "canceled" /\ UNCHANGED delVers
       ELSE IF rows[aFile] = "none" THEN wpc' = "failed" /\ UNCHANGED delVers
       ELSE wpc' = "delete" /\ delVers' = {aVer}
    /\ UNCHANGED <<notStore, storeVars, active, retry>>

(* downloadPackageList: the transfer with its one retry, ... *)
FetchList ==
    /\ wpc = "list"
    /\ \/ wpc' = "saveList"
       \/ wpc' = IF isTaskCancelled(active) THEN "canceled"
                 ELSE IF isTaskPaused(active) THEN "paused" ELSE "failed"
    /\ UNCHANGED <<notStore, storeVars, active, retry, delVers>>

(* ... then the old list is unlinked and the new one renamed in its place. *)
UnlinkList ==
    /\ Go("saveList", "listGap")
    /\ list' = [p \in Packages |-> 0]
    /\ UNCHANGED <<queueVars, storeVars, published, stopped, active, retry, delVers, client,
                   readerVars, crashes>>

RenameList ==
    /\ Go("listGap", "finished")
    /\ list' = published
    /\ UNCHANGED <<queueVars, storeVars, published, stopped, active, retry, delVers, client,
                   readerVars, crashes>>

(* setTaskFinished, setTaskFailed, setTaskCancelled: the row is deleted    *)
(* and the listener told; setTaskPaused leaves the row.                    *)
EndTask ==
    /\ wpc \in {"finished", "failed", "canceled", "paused"}
    /\ wpc' = "pick"
    /\ active' = NoTaskId
    /\ task' = IF wpc = "paused" THEN task ELSE [task EXCEPT ![active] = NoTask]
    /\ UNCHANGED <<nextId, storeVars, listVars, stopped, retry, delVers, client, readerVars,
                   crashes>>

Worker ==
    \/ PickTask \/ WaitForTask
    \/ BeginDownload \/ ReceiveFile \/ BreakTransfer \/ AfterBreak \/ PauseOrRetry
    \/ BeginImport \/ AfterCopy
    \/ InsertRow \/ importLocalPackage \/ ImportFails \/ NotifyAdded
    \/ DeleteRow \/ NotifyDeleted \/ UnlinkFile \/ DeletedAll
    \/ BeginRemove
    \/ FetchList \/ UnlinkList \/ RenameList
    \/ EndTask

-----------------------------------------------------------------------------
(* The reader: accessLocalPackages with the callback of the data source's  *)
(* loadTile, which keeps handlers of the packages it has opened.           *)

BeginAccess ==
    /\ "read" \in Commands
    /\ fileMutex = "free" /\ MutexFree
    /\ fileMutex' = "reader"
    /\ opened' = local
    /\ UNCHANGED <<queueVars, storeVars, listVars, stopped, workerVars, client, cached, crashes>>

EndAccess ==
    /\ fileMutex = "reader"
    /\ fileMutex' = "free"
    /\ \E pv \in SUBSET opened : Cardinality(pv) <= 1 /\ cached' = cached \cup pv
    /\ opened' = {}
    /\ UNCHANGED <<queueVars, storeVars, listVars, stopped, workerVars, client, crashes>>

Reader == BeginAccess \/ EndAccess

-----------------------------------------------------------------------------
Next ==
    \/ Start \/ Stop \/ Crash
    \/ \E p \in Packages : Publish(p)
    \/ \E c \in Clients : BeginCall(c) \/ ContinueCall(c)
    \/ Worker \/ SpuriousWakeup
    \/ Reader

(* The threads are scheduled, a call that has begun returns, a reader      *)
(* leaves its callback, and the worker gets the file mutex some time.      *)
Fairness ==
    /\ WF_vars(Worker) /\ SF_vars(DeleteRow)
    /\ WF_vars(EndAccess)
    /\ \A c \in Clients : WF_vars(ContinueCall(c))

Spec == Init /\ [][Next]_vars /\ Fairness

-----------------------------------------------------------------------------
WorkerPcs == {"off", "pick", "empty", "waiting", "download", "transfer", "broken", "broken2",
              "import", "copied", "insert", "mark", "notifyAdded", "delete", "notifyDeleted",
              "unlink", "remove", "list", "saveList", "listGap",
              "finished", "failed", "canceled", "paused"}
ClientPcs == {"idle", "each", "insert", "raise", "quiet", "status", "notify"}
TaskRecord == [cmd : {"none", "download", "import", "remove", "list"},
               pkg : Packages \cup {ListId}, ver : 0 .. MaxVersion,
               prio : Priorities \cup {DefaultPriority, CancelPriority, ListPriority},
               canceled : BOOLEAN]

(* Type invariant of the queue, the store, the worker and the callers. *)
TypeOK ==
    /\ task \in [TaskIds -> TaskRecord]
    /\ nextId \in 1 .. MaxTasks + 1
    /\ rows \in [Packages \X Versions -> {"none", "invalid", "valid"}]
    /\ file \in [Packages \X Versions -> {"none", "part", "full"}]
    /\ list \in [Packages -> 0 .. MaxVersion]
    /\ published \in [Packages -> Versions]
    /\ stopped \in BOOLEAN
    /\ local \in SUBSET (Packages \X Versions)
    /\ fileMutex \in {"free", "worker", "reader"}
    /\ wpc \in WorkerPcs
    /\ active \in TaskIds \cup {NoTaskId}
    /\ retry \in 0 .. 1
    /\ delVers \in SUBSET Versions
    /\ DOMAIN client = Clients
    /\ \A c \in Clients : client[c].pc \in ClientPcs /\ client[c].todo \subseteq TaskIds
    /\ opened \in SUBSET (Packages \X Versions)
    /\ cached \in SUBSET (Packages \X Versions)
    /\ crashes \in 0 .. MaxCrashes
    /\ unfit \in SUBSET (Packages \X Versions)

(* A package that is, or after a crash will be, offered to the readers has *)
(* its whole file: downloads go through valid=0 and deletions drop the row *)
(* first.                                                                  *)
InstalledHasFile ==
    \A pv \in local \cup ValidPackages(rows) : file[pv] = "full"

(* What a reader was given inside accessLocalPackages, and what the data   *)
(* source keeps open, stays on disk: deleteLocalPackage takes the file     *)
(* mutex and tells the listeners before it unlinks.                        *)
OpenHasFile ==
    /\ \A pv \in opened : file[pv] = "full"
    /\ wpc # "notifyDeleted" => \A pv \in cached : file[pv] = "full" /\ rows[pv] # "none"

(* The worker does not sleep on a queue that has work for it, unless a     *)
(* caller is still on its way to notify it.  scheduleTask and notify_one   *)
(* do not take _mutex; the updateTaskStatus between them does.             *)
NoLostWakeup ==
    wpc = "waiting" /\ ActiveTaskId(NoTaskId) # NoTaskId =>
        \E c \in Clients : client[c].pc \in {"raise", "status", "notify"}
                            \/ client[c].cmd = "remove"

(* At rest, with nothing to do, the disk holds the installed packages and  *)
(* nothing else, unless the process was killed or the list dropped a       *)
(* version whose partial file was kept.  Of a version whose file its       *)
(* handler rejected, and that was not installed or replaced since, the row *)
(* with valid=0 is left, but no file.                                      *)
NoOrphans ==
    Live = {} /\ crashes = 0 /\ "list" \notin Commands /\ wpc \in {"off", "pick", "waiting"} =>
        \A pv \in Packages \X Versions :
            /\ rows[pv] = "invalid" => pv \in unfit
            /\ file[pv] # "none" => rows[pv] = "valid"

(* What the listener is about to be told of a task is what became of its   *)
(* package: finished or canceled, also after a restart in its middle.      *)
ReportsTruth ==
    CASE wpc = "finished" /\ task[active].cmd \in {"download", "import"} ->
             rows[aFile] = "valid" /\ aFile \in local
      [] wpc = "finished" /\ task[active].cmd = "remove" ->
             rows[aFile] = "none" /\ file[aFile] = "none"
      [] wpc = "canceled" /\ task[active].cmd \in {"download", "import"} ->
             aFile \notin local /\ file[aFile] = "none"
      [] OTHER -> TRUE

(* The tasks of one package end in the order in which they were scheduled, *)
(* whatever their priorities, cancellations and pauses.                    *)
InOrder ==
    [][\A t, u \in TaskIds :
          t < u /\ u \in Live /\ u \notin Live' /\ t \in Live => task[t].pkg # task[u].pkg]_vars

(* A manager that runs does not leave a task that may be served unserved   *)
(* for ever: lost notifications, preemption and retries end.               *)
Drains == []<>(stopped \/ ActiveTaskId(NoTaskId) = NoTaskId)

(* Versions that the new one has replaced and that are still to be deleted. *)
Obsolete ==
    IF wpc \in {"notifyAdded", "delete", "notifyDeleted", "unlink"} /\ task[active].cmd # "remove"
    THEN {pv \in {aPkg} \X delVers : rows[pv] = "invalid"}
    ELSE {}

(* To readers the manager is LocalPackages: a version is replaced in one   *)
(* step, whatever steps the worker takes around it and wherever it is      *)
(* killed, none is given up while somebody reads or keeps it, and nothing  *)
(* is kept of one that is given up.  That the listeners are told of a      *)
(* deletion belongs to the deletion: the file mutex is held.               *)
Readers == INSTANCE LocalPackages WITH
    installed <- local, obsolete <- Obsolete, untold <- wpc = "notifyAdded",
    reading <- fileMutex = "reader", lent <- opened,
    kept <- IF wpc = "notifyDeleted" THEN {} ELSE cached
ImplementsLocalPackages == Readers!Spec
=============================================================================
