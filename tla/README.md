# A TLA+ model of the Carto mobile SDK

The SDK (`src/all/native`) draws maps on a phone. Its own logic that is worth a
model is not the drawing: it is the machinery that keeps tiles, packages and
elements coming, frames and gestures ending, while threads, users and the
operating system interfere. This directory holds that machinery as TLA+ modules,
the TLC instances that check it, and machine-checked proofs about its core.

    TaskPool                      what a pool of tasks promises
      ^ implemented by
    CancelableThreadPool          components/CancelableThreadPool.cpp
      CancelableThreadPoolProofs  proofs for all values of the constants
    LocalPackages                 what the package manager promises those who read packages
      ^ implemented by
    PackageManager                packagemanager/PackageManager.cpp (+ its tile data source)
      PackageManagerProofs        rows and files; the queue, its worker and what it tells
    PackageTileMask               packagemanager/PackageTileMask.cpp
      ^ extended by
    PackageManagerTileDataSource  datasources/PackageManagerTileDataSource.cpp;
                                  implements LocalPackages from the reader's side
      PackageTilesProofs          masks are true, tiles are found
    PersistentCacheTileDataSource datasources/PersistentCacheTileDataSource.cpp, CacheTileDataSource.cpp
      PersistentCacheProofs
    TileLayer                     layers/TileLayer.cpp, RasterTileLayer.cpp, Layer.cpp,
                                  with CullWorker, the tile pool and cancelAllTasks around it
      TileLayerProofs
    LocalVectorDataSource         datasources/LocalVectorDataSource.cpp, vectorelements/VectorElement.cpp
      ^ extended by
    VectorLayer                   layers/VectorLayer.cpp, ClusteredVectorLayer.cpp, Layer.cpp,
                                  with the culling worker and the envelope pool around it
      VectorLayerProofs
    Layers                        components/Layers.cpp
      ^ extended by
    MapRenderer                   renderers/MapRenderer.cpp with CullWorker,
                                  BillboardPlacementWorker and VTLabelPlacementWorker
      MapRendererProofs
    ClickHandlerWorker            ui/workers/ClickHandlerWorker.cpp
      ^ extended by
    TouchHandler                  ui/TouchHandler.cpp with KineticEventHandler, the frames,
                                  and the touch listener of layers/EditableVectorLayer.cpp
      TouchHandlerProofs
    MCPool, MCPackage, MCPackageTiles, MCTileCache, MCTileLayer, MCVectorLayer,
    MCMapRenderer, MCTouch        instances for TLC

`PROJECT.json` maps every definition to the lines it is translated from.

## 1. Inventory

| component | state | operations | partners |
|---|---|---|---|
| CancelableThreadPool | priority queue of tasks, workers with a reserved priority, pool size, stop flag, one mutex and one condition | `execute`, `cancelAll`, `setPoolSize`, `deinit`, worker loop | all layers, the cache's downloads, `Options`, `BaseMapView` |
| PackageManager | task queue and package table (two SQLite files), package files, saved package list, worker thread, `_stopped`, two mutexes beside the queue's | `start/stop`, `startPackage{Download,Import,Remove,ListDownload}`, `cancelPackageTasks`, `setPackagePriority`, `accessLocalPackages`, `run` | server, listeners, `PackageManagerTileDataSource` |
| PackageTileMask, PackageManagerTileDataSource | a tree of quadrants as a string; the handlers kept open | `BuildTileNode`, encoding, `getTileStatus`; `loadTile`, `onPackagesChanged` | PackageManager, layer threads |
| PersistentCacheTileDataSource | tile table, LRU index of shared pointers whose deleter deletes the row, download tasks | `loadTile`, `clear`, `close`, `setCapacity`, `setCacheOnlyMode`, `startDownloadArea`, `stopAllDownloads`, change notification | wrapped data source, layer threads, its own pool |
| TileLayer / RasterTileLayer | visible and preloading cache, table of fetch tasks, cull state, one recursive mutex | `loadData`, `updateTiles`, `refreshDrawData`, `prefetchTile`, task `run/cancel/invalidate` | data source, tile pool, culling worker |
| Layers | ordered list of layers, which may repeat, one mutex | `set`, `setAll`, `insert`, `addAll`, `removeAll`, `clear` | MapRenderer; gives its layers the pools, the renderer and the touch handler |
| Layer, CullWorker | visibility, last cull state; wakeup map, idle flag | `update`, `refresh`, `setVisible`; `init`, `run`, `stop` | MapRenderer, the layers |
| MapRenderer | surface, view state, redraw and billboard flags, capture listeners | surface callbacks, `onDrawFrame`, `requestRedraw`, `viewChanged`, `layerChanged`, `captureRendering`, `deinit` | platform, layers, three workers |
| LocalVectorDataSource, VectorElement | spatial index; the data source of each element | `add`, `addAll`, `remove`, `removeAll`, `setAll`, `clear`, the setters of elements | VectorLayer, as a listener |
| VectorLayer, ClusteredVectorLayer | fetch tasks, renderers and draw data; clusters and a refresh flag | `loadData`, `refresh`, `refreshElement`, task `run` | data source, envelope pool, culling worker |
| TouchHandler, ClickHandlerWorker | gesture mode, pointers down, camera events; mode, timer, choice, two mutexes | touch and wheel events; `init`, `pointer*`, `cancel`, `run` | each other, touch listeners, MapRenderer, listeners |
| KineticEventHandler | three movements with a speed each | `start`, `stop`, `calculate` | TouchHandler, the frames of MapRenderer |
| EditableVectorLayer | the selected element, whether it is dragged | touch listener of the drag; `setSelectedVectorElement` | TouchHandler, the data source |
| VectorTileLayer, other layers | as TileLayer | as TileLayer | tile decoders |
| other data sources, HTTP, network | connections, one lock | `loadTile`, requests | outside world |
| geometry, projections, styles, graphics, routing, geocoding, search, vector tiles | values | pure or thin calls | external libraries |
| platform glue, SWIG modules, scripts | none of their own | - | - |

What is hard here:

* **Threads.** Every layer is called by the culling worker, by the application
  and by the workers of the pool; the mutexes are given up around callbacks and
  requests, and are taken in more than one order.
* **Cancellation.** A task that is canceled may be queued, taken, running, or
  done and about to publish its result.
* **Two stores that must agree.** Package rows and files; cache rows and index;
  with a process that may be killed between any two steps (packages).
* **Sleep and wakeup.** Condition variables waited on without a predicate, or
  notified without the mutex.
* **Stale reads.** A version, a view or a pointer read before and used after an
  unlock.

For each component, correctness is: *pool* - no queued task is stranded, best
task first, nothing starts after being discarded, `deinit` ends every worker;
*packages* - what is listed as installed has its whole file, reports are true,
one package's tasks run in order, work is not left lying; a mask has the tiles of
its package, and a tile of an installed package is found; *cache* - rows do not
outlive their owner, `close` keeps them, stale tiles are not served, stopped
downloads stop; *tile layer* - no outdated tile is cached, no tile is fetched
twice or forgotten, the layer comes to rest; *vector layer* - at rest it draws
what the source holds, as it is now, wherever changes, loads and tasks met;
*renderer* - what is listed is attached and, at rest, culled for the view as it
is, and frames, workers and captures come to rest; *touches* - no press that
the touch handler saw is forgotten, a gesture ends with its fingers, the listener hears that the map is
stable. The hazards, each with its line and the properties that answer it, are
the list `hazards` of `PROJECT.json`.

## 2. The modules

### CancelableThreadPool (and TaskPool)

One action per critical section of `_mutex`, or per step of a thread between
two of them. `execute` is `Push` plus one of three ways to find a worker
(`ExecuteNewWorker`, `ExecuteIdleWorker`, `ExecuteSamePriority`; lines 78-101),
and always ends in `notify_all` (`Notified`). The worker loop takes the mutex
four times a round: `OuterLoop` (stop, wait or go on), `ReadPriority`,
`TakeTask`/`FindNoTask` (`getNextTask`), `Terminate`/`KeepWorker`
(`shouldTerminateWorker`), then `MarkIdle` in a section of its own. The wait has
no predicate, so `SpuriousWakeup` is always possible. `deinit` is four steps.
Tasks are numbered in the order of submission and a worker bears the number of
the task it was created for, which gives the order of the vector `_workers`.

`TaskPool` is the promise without threads: pending tasks are started best
first, at most once, or discarded and then never started, and none stays
pending for ever. The refinement maps `queue` to `pending`; `started`,
`finished` and `discarded` are history variables of the detailed module.

### PackageManager (and LocalPackages)

The worker thread is `wpc`, with one value per place between two steps that
others can see: `PickTask`, `WaitForTask`, the download (`BeginDownload`,
`ReceiveFile`, `BreakTransfer`, `AfterBreak`, `PauseOrRetry`), the import
(`BeginImport`, `AfterCopy`), the common end (`InsertRow`,
`importLocalPackage`, `NotifyAdded`, then `DeleteRow`, `NotifyDeleted`,
`UnlinkFile` for every older version), removal and list update. API calls are
clients that walk through their own steps (`EachTask`, `InsertTask`,
`UpdateStatus`, `Notify`), because a call takes and gives up locks several
times. The first mutex, `_mutex`, is held from one step to the next only where
the worker found the queue empty and is about to wait, or is between unlink and
rename of the list (`MutexFree`); `_packageFileMutex` is the variable
`fileMutex`. A package version has a row (none, `valid=0`, `valid=1`) and a file
(none, part, full). `importLocalPackage` may fail between the insertion of the row
and its becoming valid, when the package handler rejects the file (`ImportFails`):
the file is unlinked, the task fails, the row stays with `valid=0` (`unfit`
remembers it). `Crash` keeps databases and files and loses the rest. The
reader is the tile data source, with its handlers (`cached`).

`LocalPackages` is what this amounts to for readers: no tasks, database, files or
worker, but versions that are installed, replaced in one step (`Install`), told of
(`TellInstalled`), given up (`GiveUp`), lent to a reader (`BeginAccess`,
`EndAccess`) and kept by him after it. The refinement maps `installed` to the table
in memory (`local`), `lent` to what the reader has open, and `obsolete` to the
older versions that `importLocalPackage` still has to delete (`Obsolete`). A
deletion is its row's; that the listeners drop their handlers is part of it, because
the file mutex is held until they have been told, so handlers count as kept only
until then. A crash is `Restart`: what is installed stays.

### PackageTileMask and PackageManagerTileDataSource

What calls itself in the code is a recursive function here, over the tiles of the
supported zoom levels or over the places of the data (proofs need functions; TLC
evaluates both): the tree that `BuildTileNode` makes of a set of tiles, its bits (`EncodeTileNode`), their Base64
groups of six (`encodeBase64`, padded to 24 bits), the string in the database with
its zoom level, and all the way back to `FindTileNode` and `IsFull`. A Base64
character is its number. A mask that a server gives without its zoom level is
read with the default one: it is then clipped there, if not above
(`downloadPackage`; `clip` is a history field). The data source keeps handlers open (`open`); its
`loadTile` is two steps, because a notification that packages were added may come
after `accessLocalPackages` has read the map and before the callback searches it;
one that packages were deleted may not, because of the file mutex. Of the package
manager there is here what `LocalPackages` shows of it: an installation in one step,
the notification that it owes (`untold`), the older version that is then
deleted (`obsolete`, `deleteLocalPackage`). The data source implements `LocalPackages`,
too, with the versions of what it knows of packages in the place of the versions that
are installed, lent and kept: the two modules meet in it, the one with tasks, files
and crashes, the other with tiles and masks.

### PersistentCacheTileDataSource

`rows` is the table; `index` the tiles in the LRU cache. The deleter of an
index entry deletes the row (`Deleted`), unless the database is closed. That is
why `loadTile` is three steps: `Lookup` drops an entry that cannot be served
but keeps its pointer (`held`), `Answer` is the wrapped data source, outside
the mutex, `Return` puts and stores the tile and lets the pointer go.
`LoadedIndex` is the lazy load, which keeps what fits. A download task is
`registered` (in `_downloadTasks`), `queued` in the pool, `running`, or ended; it looks
whether it is canceled (`CheckCanceled`), reports its progress, and then begins a
tile (`DownloadTile`), without a lock. `stopAllDownloads` is three steps (copy,
cancel, drain).

### TileLayer

The layer with the threads around it. `Load` is `loadData`, in two steps
because fetching a tile takes the mutex of the pool while that of the layer is
held; `mutex` names the thread that holds it in between and
`canceling.on` says that `cancelAll` holds the pool's. `Worker` is a fetch task
from queue to end (`TakeTask` ... `layerChanged`). `updateTiles`, `refresh` and
`setVisible` are the application, `TakeWakeup`, `Load`, `SaveCullState` the
culling worker. Geometry is abstracted to a view: the sets of visible and
preloaded tiles that `calculateVisibleTiles` would give. The two caches carry
version and validity of each tile.

### LocalVectorDataSource and VectorLayer

A call of the data source (`remove`, `setAll`, ...) changes the index under its
mutex and then, without it, attaches or detaches the elements
(`attachElement`, `detachElement`) and tells the listener. `add` and `addAll` look
whether the elements are attached before they take the mutex (`Insert`). `call` says
where each thread is and what it has still to tell; `setAll` tells twice. Under the
mutex each new element gets its id, and an element that is attached by then
notifies the source of that, which locks the same mutex: the thread waits for
itself (`setAllStuck`, `Insert`; `Stuck`), and whoever needs the mutex waits with
it. `change` is a setter of an element; `notifyElementChanged` comes after it, looks
what the element is attached to, and leads to its being taken out of a KD-tree and put
in again (`Reindex`).

The layer is told by `refreshElement` (one element: draw data are built under
the layer's mutex) or by `refresh` (several: a load). `Loading` is `loadData`, in the
steps between which another thread can be: `CancelTasks`, `TestVisible`, then
`Clear` or `ExecuteTask`. The culling worker does the same after `TakeWakeup`
and stores the cull state after it (`SaveCullState`). `Worker` is a fetch task:
it reads the layer (`ReadCullState`), the source (`ReadSource`) and applies what
it read (`loadElements`; `SwapRefresh` and `rebuildClusters` in a clustered
layer), so that three threads can stand between reading and applying. Before
`rebuildClusters` puts its clusters in place it has read where the elements are, one
after the other (`createSingletonCluster`), and an older task may come last.
`over`, `astray`, `missed` and `crossed` are history variables that say exactly
which elements were applied from an overtaken reading, were not told of, or met
two calls at once; the properties speak of all others.

### Layers and MapRenderer

`Layers` is the vector with its operations, each of them one action under the
mutex, with the layers that it attaches and detaches. `remove` is the code's
`std::remove` with the one `erase` after it: entries keep their order, what was
moved is empty (`Null`), and one entry goes.

`MapRenderer` adds the rest of a call (`TellLayers`, `TellRedraw`; the
camera's `MoveCamera`, `ListLayers`, `viewChanged`), the surface callbacks, the
frame in its steps (`DrawFrame`, `DrawLayers`, `handleRendererCaptureCallbacks`,
`EndFrame`) and the three workers (`Wait`, `Leave`, `TakeLayers`, `UpdateLayer`,
`calculatePlacement`). `due` is the wakeup map: never, later or now; time passes
by itself. A worker that waits with nothing due is idle ("sleep"), one that
waits for a time is not ("doze"). A layer with data to load has a task
(`updating`), which ends and then tells the renderer (`telling`). `current` is the
set of layers whose last cull state is that of the view as it is now.

### ClickHandlerWorker and TouchHandler

The worker's loop is `TopOfRun` (the wait), `Watch` (what it sees and chooses),
`AfterChoice` (it gives its mutex up), `Call` (of the touch handler) and
`StopRunning`. The touch handler's events come one after another: `PressFirst`
and `TellPress`, `PressSecond`, `Move`, `Lift`, `CancelTouch`; each ends with
`checkCameraEvents` and `checkMapStable`, in which a frame may be as well, so
that each can see a half of what the other changes (`saw`). Positions are
reduced to what they decide: moved far or not, apart or together.

An event goes to the touch listeners first, and one that a listener takes goes no
further (`TouchHandler.cpp:81-85`). The one listener in the repository is that of an
`EditableVectorLayer` with a selected element: it takes a press that begins a drag
(`TakePress`; or one that begins none, when the application deletes what was touched), the moves of
the drag (`TakeMove`) and its lift (`TakeLift`), each as the application answers it,
but neither the events of a second pointer nor a cancel. `dragging` is its
`_overlayDragStarted`; `setSelectedVectorElement` clears it. With `Editing = FALSE`
nobody listens. What the layer took is remembered (`taken`)
until the touch handler is at rest again with no finger on the screen. `held`, `deaf`,
`late` and `unheard` are history variables of the presses that the worker was
not told of, or too late.

## 3. Runs

A liveness property is checked with the invariants of its run. Deadlock checks
are off everywhere: each system stops legitimately when bounds are used up,
after `deinit`, or with nothing to do.

| run | bounds | shows |
|---|---|---|
| `pool` | 2 tasks, 2 priorities, pool sizes 1 and 2 | `TypeOK`, `NoStrandedTask`, `ClosedAfterDeinit`, `WorkersExit`, refinement, `TasksServed` |
| `package` | 1 package, 2 versions, 2 tasks, 1 client, 1 crash; download, remove, cancel, priority, read | `InstalledHasFile`, `OpenHasFile`, `NoLostWakeup`, `NoOrphans`, `ReportsTruth`, `Drains`, refinement |
| `package_list` | 2 packages (symmetric), 2 tasks, 1 client; download, import, list, cancel, priority | `InOrder` |
| `package_tiles` | the 21 tiles down to zoom level 2, 2 packages that overlap, in 2 versions (symmetric), one of 5 shapes, masks clipped at level 0, 1 or 2, without a zoom level (the default is 1), or none; 2 open handlers | `MasksAreTrue`, `TilesAreFound`, refinement |
| `tile_cache` | 2 tiles, capacities 1 and 2, 1 map thread, 1 download of both tiles | `TypeOK`, `EveryRowIsOwned`, `CloseKeepsRows`, `StopStops`, `NoTileAfterStop` |
| `tile_layer` | 1 tile visible or preloaded, 3 events; or a tile and its parent, 2 events; 2 slots, 2 versions | `TypeOK`, `NoStaleTile`, `OneTaskPerTile`, `NothingMissing`, `ComesToRest` |
| `tile_layer_lock` | 1 tile, 2 events | counterexample to `CancelAllReturns` |
| `vector_layer` | 1 element in 2 versions, 2 views on 2 surfaces, 2 application threads with the culling worker, 2 pool threads, 2 calls; plain or clustered, R-tree or KD-tree | `AttachedIffStored`, `DrawnAtRest`, `DrawnAsItIs`, `ClustersAtRest`, `ComesToRest` |
| `map_renderer` | 2 layers, one that loads data, lists of up to 3 entries that begin with `<<l1, l1, l2>>`, 1 application thread, 2 calls of it or of the platform | `TypeOK`, `ListedIffAttached`, `CulledAtRest`, `ComesToRest` |
| `map_capture` | the same | counterexample to `CapturedWhenDone` |
| `touch` | 2 fingers, 2 touches or calls, kinetic movements of up to 2 frames, an editable layer; default options with zoom gestures, and no click detection without kinetic movement | `TypeOK`, `GuessIsWatched`, `GestureEnds`, `ComesToRest` |
| `touch_long` | 2 touches, movements of 1 frame, the default options, no editable layer | counterexample to `LongClickIsHeld` |

Why the bounds are enough to be interesting. *Pool*: two tasks and two sizes
let a worker be created, assigned, shrunk away and marked idle while it is
being assigned again; with two priorities there are reserved workers that
refuse a task. The proofs remove this bound. *Packages*: two versions make an
update, with the deletion of the older one; two tasks make preemption, ordering
and a request behind another; one crash falls between any two steps and the
restart runs on to the end. *Package tiles*: the shapes have a quadrant with
all its tiles, which is given up, one with a single tile, one with none below it,
everything and nothing; a tree of three levels has every kind of node, and the
depth only repeats it. The levels a mask is clipped to are above and at the last
one. A replaced version, the new one and the other package are three handlers for
two places. *Cache*: two tiles in an index of one make
eviction; the map thread and the download thread load the same tile at the same
time. *Layer*: two slots are a canceled task beside its successor for the same
tile; two versions make a stale answer; three events are, for example, a view
change, a change of the tiles and its notification; a tile and its parent stand in
for each other (that two missing siblings fetch their parent is left to the
proofs, which are for any parents). *Vector layer*: two calls
with the culling worker are three loads at once, and with two threads of the
pool a task that has read may be overtaken by one that reads and applies after
it; two surfaces make draw data that must be built anew. The elements do not
know of each other except in a call of several, so one shows their
interleavings, and the proofs are for any number. *Renderer*: a layer listed
twice and another are what `removeAll` can get wrong; two calls are, for example,
a move of the camera while the list changes, or a surface that is lost and comes
back. *Touches*: two touches are the first that leaves something behind and the
second that meets it; of the options two records are run, with click
detection and without; no double clicks and no input are left to the proofs, which
are for all options. `MaxEvents` and `MaxCalls` bound what users, the platform
and time begin, never what the threads do. What small bounds cannot show is
left unsaid, unless it is proved: nothing here is about more than one crash, a
second reader of packages, or three tasks of one package.

Every property of a passing run is broken by a plausible bug in the code
(`mutants`): a dropped check, a lost notification, an off-by-one, a canceled
task taken for a live one.

### What the counterexamples say

* `CancelAllReturns` - `cancelAll` (pool mutex, then layer mutex) against
  `loadData` (layer mutex, then pool mutex).
* `CapturedWhenDone` - a frame asks the layers first (`MapRenderer.cpp:914`) and
  the workers after (919): the culling worker hands out a task in between and is
  idle when it is asked. And the billboards that changed before the frame are
  given to their worker only at its end (608).
* `LongClickIsHeld` - the worker begins a pan for a finger that was lifted since
  it looked. The next tap takes itself for part of that pan: its lift ends the
  pan and is not told to the worker, whose timer runs out.

### What else was seen

The models also contain these, which no run states as a property because the
properties of the passing runs excuse them by name, or because the sentence in
the repository that they contradict is one of several:

* *Pool.* A worker decides to go idle (`CancelableThreadPool.cpp:176`),
  `execute` gives it a priority, it marks itself idle (182) and takes the task
  all the same. While it runs, the pool counts it as idle; a more urgent task is
  "given" to it and waits, against `CHANGELOG.md:584`.
* *Packages.* `startPackageRemove` fixes the version to remove when it is
  called; an update past its last cancel check installs another one first
  (`PackageManager.h:225`). Tasks of a package are served in order, so a fresh
  task of a paused package resumes the paused one (`PackageManager.h:238`).
  An import that the package handler rejects (`PackageManager.cpp:1158`) leaves a row
  with `valid=0` without a file or a task (`unfit`); a later import of the same
  version finds it and makes it valid.
* *Package tiles.* A mask says nothing of tiles below a missing one
  (`PackageTileMask.cpp:260`): an imported file without its upper zoom levels gets
  an empty mask and none of its tiles is found. A package whose mask is clipped
  above a tile ends the search for it, whether it has the tile or not
  (`PackageManagerTileDataSource.cpp:75`).
* *Cache.* The deleter of an old entry deletes by tile id and may do so after
  the tile has been stored again: an indexed tile has no row
  (`PersistentCacheTileDataSource.cpp:260`). `clear` clears the index, which may
  not be loaded, and knows nothing of requests under way: rows of an older
  version stay (`TileDataSource.h:104`). A task that passed its check before
  `stopAllDownloads` begins one more tile after the call has returned.
* *Data source.* The callbacks of `VectorDataSource.h:49,64` are said to come
  before a removal; they come after it. A KD-tree puts an element back that was
  removed while its change was notified (`crossed`). A thread that adds an element
  which another thread has just added, or replaces all by one that another thread has
  taken from the index and not yet detached, gives it its id with the mutex locked
  (`LocalVectorDataSource.cpp:109,135,157`) and locks it again in the notification
  (323): it never returns, nor does any later call of the source (`Stuck`).
* *Vector layer.* A started task never looks at its cancel flag, so the reading
  of an older task may be applied last (`astray`), and clusters built from older
  positions may replace newer ones. `hide` between the check and
  the refresh of an element leaves it drawn until the next load. The refresh
  flag of the clusters is swapped after the elements were read, so a change in
  between is lost, and a change of the projection surface alone never rebuilds
  the clusters. `Layer::update` stores the view after its task is queued, so the
  task may read the one before.
* *Layers.* After `removeAll` of a layer that is listed twice an empty entry is
  left (`doubled`), which the next loop over the list calls.
* *Touches.* A kinetic movement that begins while its option is off is never
  calculated and never ends; a press that comes while the worker still runs for
  the one before is not told to it (`deaf`); without click detection a lift that
  the worker was not told of leaves it looping. After a press that the editable
  layer took, a second finger makes the touch handler guess at a gesture of two with no
  worker running to decide it; after a cancel, of which the layer is not told, its drag
  lives on and may take the lift of the next press, whose gesture then stays
  without fingers, or whose finger stays counted, so that the map is not reported
  stable before another touch ends.

## 4. Fairness

Weak fairness of each thread of the program: workers, the package manager's
thread, calls that have begun, the data source's answer. In `VectorLayer` these
are the callers, the culling worker and the pool threads; in `MapRenderer` the
frames that the platform was asked for (`Frame`) and everybody else together
(`Background`: while any thread can go on, one does; that is less than fairness
of each, and enough); in `TouchHandler` the end of an event, the click worker
with its timer, the frames and a call under way. No fairness of users,
applications, time, crashes, servers or spurious wakeups. The code justifies it
by running each of these on a thread of its own that only stops in a wait that
the model has as a state. There is one strong fairness assumption,
`SF_vars(DeleteRow)`: the package thread gets `_packageFileMutex` even if a
reader takes it over and over; the operating system's mutexes promise no more
than that a waiter is not passed over for ever. A task of the pool, a transfer
and a request are assumed to end.

## 5. Proofs

TLAPS proves these for every value of the constants that their assumptions
allow: any number of tasks, packages, versions, clients, crashes, tiles, views,
slots, elements, layers, threads and calls.

| module | theorem | says |
|---|---|---|
| `CancelableThreadPoolProofs` | `TypeCorrect` | `Spec => []TypeOK` |
| | `NeverStranded` | `Spec => []NoStrandedTask` |
| | `ClosedForGood` | `Spec => []ClosedAfterDeinit` |
| | `Refinement` | `Spec => ImplementsTaskPool`, the safety part of `TaskPool` |
| `PackageManagerProofs` | `InstalledKeepsFile` | `Spec => []InstalledHasFile` |
| | `OpenKeepsFile` | `Spec => []OpenHasFile` |
| | `TypeCorrect` | `Spec => []TypeOK` |
| | `TasksEndInOrder` | `Spec => InOrder` |
| | `ReportsAreTrue` | `Spec => []ReportsTruth` |
| | `NoWakeupIsLost` | `Spec => []NoLostWakeup` |
| | `NothingLeftBehind` | `Spec => []NoOrphans` |
| | `Refinement` | `Spec => ImplementsLocalPackages` |
| | `InUseIsAlwaysThere` | `Spec => []Readers!InUseIsThere` |
| `PackageTilesProofs` | `MasksAreAlwaysTrue` | `Spec => []MasksAreTrue` |
| | `TilesAreAlwaysFound` | `Spec => []TilesAreFound` |
| | `Refinement` | `Spec => ReadsLocalPackages` |
| `PersistentCacheProofs` | `NoOrphanRows` | `Spec => []EveryRowIsOwned` |
| | `RowsOutliveClose` | `Spec => CloseKeepsRows` |
| | `TypeCorrect` | `Spec => []TypeOK` |
| | `StoppedForGood` | `Spec => NoTileAfterStop` |
| `TileLayerProofs` | `NeverStale` | `Spec => []NoStaleTile` |
| | `TypeCorrect` | `Spec => []TypeOK` |
| | `FetchedOnce` | `Spec => []OneTaskPerTile` |
| | `NothingForgotten` | `Spec => []NothingMissing` |
| `VectorLayerProofs` | `TypeCorrect` | `Spec => []TypeOK` |
| | `AttachedAsStored` | `Spec => []AttachedIffStored` |
| | `DrawnInTheEnd` | `Spec => []DrawnAtRest` |
| | `DrawnAsChanged` | `Spec => []DrawnAsItIs` |
| | `ClustersInTheEnd` | `Spec => []ClustersAtRest` |
| `MapRendererProofs` | `TypeCorrect` | `Spec => []TypeOK` |
| | `AttachedAsListed` | `Spec => []ListedIffAttached` |
| | `CulledInTheEnd` | `Spec => []CulledAtRest` |
| `TouchHandlerProofs` | `TypeCorrect` | `Spec => []TypeOK` |
| | `GuessWatched` | `Spec => []GuessIsWatched` |
| | `GesturesEnd` | `Spec => []GestureEnds` |

Each module has an inductive invariant `IInv`, the lemmas `InitIInv` and
`NextIInv` (one lemma per action or group of actions) and `Spec => []IInv`, as the
theorem `Invariance` or the lemma `SpecIInv`; the theorems above follow from it.
Where the properties fall into two groups, a second invariant is proved on top of
the first, from `IInv` in every step: `QInv` of the package queue, `RInv` of its readers, `LInv` of the
layer, `DInv` of the cache, `Rests` of the vector layer.

**Pool.** Assumes `PoolSizesAssumption` (sizes are positive, which `Options.cpp`
41-42 and the data sources respect), `PrioritiesAssumption` (the idle mark is
below every priority) and `MaxTasksAssumption`. `NoStrandedTask` is not inductive
as it stands. Suppose the last worker is about to leave a pool that is too
large: the property is kept only because a pool larger than a positive size has
another worker (`LeavesAnother`), and that one is of use only if it has started
and has not left (`PoolAlive`), which needs that nobody leaves but through
`stop` (`StopIsDeinit`). A task must not be taken twice or finished by another
worker for the refinement (`TasksOnce`, `RunsOwnTask`). `Refinement` shows that
initial states map to initial states and that each action maps to `Submit`,
`Start`, `Finish`, `DiscardAll` or a stutter.

**Packages.** Assumes `CommandsAssumption` and `BoundsAssumption`. The
invariant says what the worker's place tells of the row and of the file of its
task (`WorkerInv`): a file is written only while its row is not valid, the row
is inserted and marked valid only when the file is whole, and a file is
unlinked only when its row is gone. A crash may fall between any two of these
steps, so the claim about rows and files (`StoreInv`) does not mention the
worker. The worker's task is a row of a table that callers change meanwhile:
what they do to it (`TasksStay`) leaves its package and version alone. For a
reader's package there are two cases (`InUse`): it is installed, or it was
replaced under the reader and the worker, who waits for the file mutex, has it
still on its list of deletions. That `getActiveTaskId` returns a task of the
queue at all (`ActiveTaskIsLive`) rests on the order of the queue being total on
a finite set; the proof ranks a task by the number of tasks before it.

**Package queue.** From the same assumptions, on top of the first invariant
(`QInv`; the theorem is `QueueInvariance`). The place of the worker says what its
task is (`PlaceInv`) and the task is the first of its package (`FirstInv`), also
when others are scheduled or canceled meanwhile, because new tasks come last
(`NewTasksLast`): hence the order of the ends. What a task has done by the time
the worker is where it is (`ReportInv`) makes the report true; older versions
that are still to be deleted must not be the one that was installed. A wakeup can
be lost in two windows, after the queue was found empty and while the worker
waits, and in either a task that may be served is there only while the call that
scheduled it is on its way to `_mutex` or to the notification (`WakeInv`). For
`NoOrphans` every row that is not valid, and every file without a row, must be
work in progress or kept for a download that is first in the queue (`OrphanInv`),
and that download must be of the version that the list offers (`OfferInv`).

**Package readers.** That the manager implements `LocalPackages` rests on two facts
more (`RInv`): the version that is about to be made valid is not valid yet
(`NewInv`), because a download or import of an installed version ends at once, and what the worker has on its list of deletions stays
invalid until it is deleted (`OldInv`), whatever callers schedule. Every step of the
manager then is a step of `LocalPackages` or does not show to readers: the update of
the rows is `Install`, a deletion of a row is `GiveUp`, of an installed version (by a
removal) or an obsolete one, a crash is `Restart`. The
promise `InUseIsThere` is proved of `LocalPackages`, from its own steps, and holds
of the manager through the refinement: what is in use is installed or waits to be
given up.

**Package tiles.** Assumes `ZoomAssumption` (zoom levels are naturals) and
`PackagesAssumption`: packages hold tiles of the supported zoom levels, each with its
parents, which `BuildTileNode` relies on; how many packages, tiles and levels there
are is open. A recursive function is no more than what `CHOOSE` finds, so the first
lemmas (`...Def`) show that there is a function that satisfies the equation, by the
least zoom level, or the last place of the data, where there is none; the code's
recursion is that definition. Then, by induction over the zoom levels again:
what `BuildTileNode` leaves out below an undivided node is all there or all
missing (`NodeShape`); `FindTileNode` walks from the root to the node that was
built for a tile, or says of its ancestor at the last level what the set says
(`FoundNode`); where the bits of a node stand in the data, the decoder returns that
node and stops at their end (`DecodedNode`), whatever stands behind them, so the
padding of `Base64` does no harm. Hence the value of a mask is its tree
(`ValueIsTree`) and the mask is true (`MaskIsTrue`), for every way it may come: made
from the file, from the server with a zoom level or without (`TreeMaskOK`). The
inductive invariant `TilesInv` says that every `PackageInfo`, in the table, among the
open handlers or in the map of a loadTile under way, is true of its own tiles, be it
outdated or not (`InfosInv`), and that these are installed or still to be deleted
(`FreshInv`): a handler of a replaced package is dropped with its deletion and
cannot come back, because the file mutex is held. `Refinement` maps each step to one
of `LocalPackages`; that a tile of an outdated package is never served then does not
depend on how the package manager comes by its steps.

**Cache.** Assumes `CacheAssumption`. `EveryRowIsOwned` speaks of an index with
entries. It is kept by a loadTile that gives the mutex up and then fills an index
that was cleared meanwhile only if the rows are owned while the index is empty,
too, as long as a call is under way (`RowsAreOwned`, `Busy`), and a call that is
over must hold no pointer (`IdleHoldsNothing`). The second invariant (`DInv`) has
the bound on the index, for which a call under way must be about a tile of the
finite set (`WhoLoads`), and what stops a download: whatever `stopAllDownloads` has
been through with is canceled (`StopInv`), and no step takes that back, nor begins
a tile of a canceled task (`DownloadFate`).

**Layer.** Assumes `TileLayerAssumption`. A change that is notified finds
the tasks through the table, so every task that runs, or will run, must be in it
(`RunningIsKnown`), and a task that was not invalidated must hold data of the
present version from the read on (`ReadIsFresh`). The second invariant (`LInv`)
is about what is shown and fetched. `loadData` decides which tiles it wants and
fetches them in two steps with other threads' steps between them, but the mutex is
its own (`MutexInv`): what it found of the table can only have become less
(`TasksFade`), no task of the other kind is left for a wanted tile, and there are
slots for them (`FetchState`). So no tile is fetched twice, and after the second step every
tile that is shown is held or coming (`ShownState`). It stays so, or a load is due:
a task leaves the table when its tile is cached, when it gave the tile up
(`FailedGaveUp`), or canceled, and whoever cancels a task of a tile that is shown
causes a load. A tile is held also when an outdated copy in the visible cache
hides a good one in the other cache (`Held`).

**Vector layer.** Assumes `DataSourceAssumption` and `VectorLayerAssumption`.
What holds at rest is proved from what may be amiss before: an element that is
not drawn as it should be (`Settled`) has a call that will tell the layer of it
(`Coming`), or a load or task that will read it (`LoadComing`), or a task that has
read it and, unless its state changed since (`over`), read the truth (`ReadInv`).
`DrawInv`, `ClusterInv` and `BuiltInv` say this of the renderers, of the clusters
and of the draw data; `CullInv` that the first view will be culled at all. The
part about the source (`AttachInv`) is inductive by itself and proved first, with
the types (`IInv`); the rest (`Rests`) then uses it in every step. At rest nothing
is to come, and the properties are what is left.

**Renderer.** Assumes `LayersAssumption` and `MapRendererAssumption`. The list is
proved by itself, operation by operation: what each does to the length and to
the entries of a sequence, and for `remove` that an ascending numbering of the
entries that stay reaches each of them (`AscendingOnto`, a counting argument).
Then a listed layer that was not culled for the view as it is now is in the
batch of the culling worker, or is announced (`Announced`): due, named by a call
under way, or to be found by the frame that sees the surface change
(`CulledInv`). The worker is not idle while it has a batch or anything due
(`CullingInv`), and a batch for an older view keeps no layer as culled
(`FreshInv`).

**Touches.** Assumes `TouchAssumption`. `GuessIsWatched` needs to know, for each
place of the worker's loop, what it was told of the press that is being guessed
(`HeardInv`): before the choice its count of pointers is that of the touch
handler (`Watching`), after it the choice is one that begins a gesture
(`Begun`), so that `StopRunning` is reached only when another gesture has taken
over. `GestureInv` ties the gesture to the fingers that are down. What the editable
layer takes is not told to the worker either: its count may only be too high for it
(`Watching`), and a pan may be left with no finger only by a lift that was taken.

Every invariant, action property and refinement of the passing runs is proved; so
are the type invariants of `PackageManager` and `VectorLayer`, which no run repeats. Only
model-checked are the liveness properties (`WorkersExit`, `TasksServed`, `Drains`,
`StopStops`, `ComesToRest` of layer, vector layer, renderer and touches), which are
beyond this prover, and the three that are violated.

## 6. Not modelled

* Failures of SQLite and of the disk, encryption, package meta data, custom
  packages, the bounding polygon of a tile mask; the constructor's recovery from broken databases.
* A pool size of 0, which the setter accepts: with it tasks are stranded.
* Data races on containers (`_downloadTasks.erase` without the mutex, the
  unlocked cache removal of over-zoomed tiles) beyond the order of their
  effects.
* Concurrent calls of `start` and `stop` of the package manager; what listeners
  and cluster builders of the application do, which may call back into the
  library with its mutexes held.
* UTF grids, zoom ranges, opacity and rendering of layers; a vector or tile
  layer that is removed from the map while it loads; how clusters are merged,
  drawn and expanded.
* `VectorTileLayer`: as far as it is a tile layer it does what the raster layer
  does, through the same code of `TileLayer.cpp`; its own part hands tiles to the
  decoder and the label placement of an external library that is not in the
  repository (a submodule).
* The editing of `EditableVectorLayer` (but for its touch listener), several touch
  listeners or one of an application, camera animations, positions of fingers, the four ways
  two pointers move the map: geometry in floating point with little state.
* The share of the map is small because most lines of the repository are
  tables of coordinate systems and other assets in header files, values
  (geometry, styles, projections, elements), decoders, and front ends of services,
  which keep no state that threads, failures or order could spoil.
* The components with status `not_modelled` in `PROJECT.json`, each with its
  reason.

## 7. Plan

Done: pool, packages, persistent cache, raster tile layer, vector layer with its
data source, renderer with its workers and layers, and touches with the click
worker, tile masks and the data source of packages, each with proofs; the abstract
pool and the abstract packages, which their components are proved to implement.

What is left is more *composition*: an abstract specification of a tile source (a
request is answered at most once, a canceled one may go unanswered) that
`TileLayer` and the cache implement.

Runs whose question is answered by a larger one are folded into it.
