-------------------- MODULE PersistentCacheTileDataSource --------------------
(***************************************************************************)
(* datasources/PersistentCacheTileDataSource.cpp over its base class       *)
(* CacheTileDataSource.cpp: a table of tiles in an SQLite database, with   *)
(* an LRU index of it in memory.                                           *)
(*                                                                         *)
(* The index maps a tile to a shared pointer whose deleter deletes the     *)
(* tile's row: dropping an entry from the index is what removes its row,   *)
(* unless someone else still holds the pointer.  loadTile does: it reads   *)
(* the pointer into a local variable, drops the entry of an expired tile,  *)
(* gives the mutex up while it asks the wrapped data source, and lets the  *)
(* local variable go when it returns.                                      *)
(*                                                                         *)
(* Every action is one critical section of _mutex or a step outside it.    *)
(* The container is a library's and is modelled by its use: which entries  *)
(* a full index evicts is left open.  Tiles have one size.  SQLite does    *)
(* not fail.                                                               *)
(***************************************************************************)
EXTENDS Integers, Sequences, FiniteSets, Functions

CONSTANTS Tiles,
          Readers,       (* threads that call loadTile                     *)
          Worker,        (* the one thread of _downloadThreadPool          *)
          Areas,         (* areas to download, as sequences of tiles       *)
          Capacities,    (* capacities, in tiles                           *)
          MaxDownloads,  (* bound: calls of startDownloadArea              *)
          MaxVersion,    (* bound: versions of its content told apart      *)
          StoredBefore,  (* tiles an earlier process may have stored       *)
          NoTile         (* the tile of a thread that loads none           *)

ASSUME CacheAssumption ==
    /\ Worker \notin Readers /\ NoTile \notin Tiles /\ IsFiniteSet(Tiles)
    /\ Areas \subseteq Seq(Tiles) /\ Capacities \subseteq Nat
    /\ MaxDownloads \in Nat /\ MaxVersion \in Nat \ {0} /\ StoredBefore \subseteq Tiles

Loaders == Readers \cup {Worker}
Downloads == 1 .. MaxDownloads
NoRow == [ver |-> 0, expired |-> FALSE]
IdleLoader == [pc |-> "idle", tile |-> NoTile, held |-> FALSE, ver |-> 0]

VARIABLES
    rows,        (* persistent_cache: version of each tile's row, expired? *)
    open,        (* _database is not null                                  *)
    index,       (* the tiles in _cache                                    *)
    capacity,    (* its capacity                                           *)
    cacheOnly,   (* _cacheOnlyMode                                         *)
    loader,      (* where each loadTile is; does it hold an old pointer?   *)
    origin,      (* external: the version the wrapped data source serves   *)
    changed,     (* its change has not been notified yet                   *)
    download,    (* the DownloadTasks; passed: found not canceled for its  *)
                 (* next tile                                              *)
    registered,  (* _downloadTasks                                         *)
    stopping     (* stopAllDownloads: what it copied, how far it is, and   *)
                 (* history: the tasks it has been through with            *)

cacheVars    == <<rows, index>>
downloadVars == <<download, registered, stopping>>
vars == <<rows, open, index, capacity, cacheOnly, loader, origin, changed, download,
          registered, stopping>>

-----------------------------------------------------------------------------
Stored(r) == {t \in Tiles : r[t] # NoRow}

(* The deleter of createTileId, for the entries of T; with no database     *)
(* remove does nothing.                                                    *)
Deleted(r, T) == [t \in Tiles |-> IF open /\ t \in T THEN NoRow ELSE r[t]]

(* Mutant: the index evicts nothing. *)
KeptAll(s, n) == {s}

(* What of the entries s an index of capacity n may keep. *)
Kept(s, n) == {k \in SUBSET s : IF Cardinality(s) <= n THEN k = s ELSE Cardinality(k) = n}

(* loadTileInfo, called when the index is empty: the tiles that are kept,  *)
(* the other ones are deleted.                                             *)
LoadedIndex == IF index # {} \/ ~open THEN {index} ELSE Kept(Stored(rows), capacity)
LoadedRows(i) == IF index # {} THEN rows ELSE Deleted(rows, Tiles \ i)

-----------------------------------------------------------------------------
(* The database may come from an earlier process, closed or killed: only   *)
(* the rows outlive a process.                                             *)
Init ==
    /\ \E stored \in SUBSET StoredBefore :
          rows = [t \in Tiles |-> IF t \in stored THEN [ver |-> 1, expired |-> FALSE] ELSE NoRow]
    /\ open = TRUE /\ index = {}
    /\ capacity \in Capacities
    /\ cacheOnly = FALSE
    /\ loader = [l \in Loaders |-> IdleLoader]
    /\ origin = 1 /\ changed = FALSE
    /\ download = [d \in Downloads |-> [state |-> "none", area |-> <<>>, next |-> 1,
                                        passed |-> FALSE, canceled |-> FALSE]]
    /\ registered = {}
    /\ stopping = [pc |-> "idle", tasks |-> {}, told |-> {}]

-----------------------------------------------------------------------------
(* loadTile up to the place where it gives the mutex up: the index is      *)
(* loaded if need be, and an entry that cannot be served is dropped while  *)
(* its pointer is kept.                                                    *)
Served(l, t, i, r) ==
    /\ t \in i /\ open /\ r[t] # NoRow /\ ~r[t].expired
    /\ index' = i /\ rows' = r
    /\ UNCHANGED loader

(* In cache only mode it returns at once, and the pointer goes.  *)
NotRequested(l, t, i, r) ==
    /\ cacheOnly
    /\ index' = i \ {t}
    /\ rows' = Deleted(r, i \cap {t})
    /\ UNCHANGED loader

Requested(l, t, i, r) ==
    /\ ~cacheOnly
    /\ index' = i \ {t}
    /\ rows' = r
    /\ loader' = [loader EXCEPT ![l] =
                    [pc |-> "request", tile |-> t, held |-> t \in i, ver |-> 0]]

Lookup(l, t) ==
    /\ loader[l].pc = "idle"
    /\ \E i \in LoadedIndex :
          LET r == LoadedRows(i)
              usable == t \in i /\ open /\ r[t] # NoRow /\ ~r[t].expired
          IN  \/ Served(l, t, i, r)
              \/ ~usable /\ NotRequested(l, t, i, r)
              \/ ~usable /\ Requested(l, t, i, r)

(* A call of loadTile by the map. *)
loadTile(l, t) ==
    /\ Lookup(l, t)
    /\ UNCHANGED <<open, capacity, cacheOnly, origin, changed, downloadVars>>

(* External: the wrapped data source answers, with a tile or without one   *)
(* that may be cached.                                                     *)
Answer(l) ==
    /\ loader[l].pc = "request"
    /\ \E v \in {0, origin} : loader' = [loader EXCEPT ![l].pc = "answer", ![l].ver = v]
    /\ UNCHANGED <<cacheVars, open, capacity, cacheOnly, origin, changed, downloadVars>>

(* The rest of loadTile: put replaces the entry of the tile and may evict  *)
(* others, store writes the row if the tile was added, and the pointer     *)
(* held since Lookup is let go.                                            *)
Return(l) ==
    LET t == loader[l].tile
        new == [ver |-> loader[l].ver, expired |-> FALSE]
        Released(r) == IF loader[l].held THEN Deleted(r, {t}) ELSE r
    IN  /\ loader[l].pc = "answer"
        /\ IF loader[l].ver = 0 THEN rows' = Released(rows) /\ UNCHANGED index
           ELSE \E k \in Kept(index \cup {t}, capacity) :
                   LET r == Deleted(rows, ((index \cup {t}) \ k) \cup (index \cap {t}))
                   IN  /\ index' = k
                       /\ rows' = Released(IF open /\ t \in k THEN [r EXCEPT ![t] = new] ELSE r)
        /\ loader' = [loader EXCEPT ![l] = IdleLoader]
        /\ UNCHANGED <<open, capacity, cacheOnly, origin, changed, downloadVars>>

-----------------------------------------------------------------------------
(* clear drops every entry; an index that is not loaded has none. *)
Cleared ==
    /\ rows' = Deleted(rows, index)
    /\ index' = {}

clear ==
    /\ Cleared
    /\ UNCHANGED <<open, capacity, cacheOnly, loader, origin, changed, downloadVars>>

(* Mutant: the index is cleared while the database is open. *)
closeCleared ==
    /\ open /\ open' = FALSE
    /\ Cleared
    /\ UNCHANGED <<capacity, cacheOnly, loader, origin, changed, downloadVars>>

(* closeDatabase disconnects first, so that the rows stay. *)
close ==
    /\ open /\ open' = FALSE
    /\ index' = {}
    /\ UNCHANGED <<rows, capacity, cacheOnly, loader, origin, changed, downloadVars>>

(* Mutant: what a smaller index evicts keeps its row. *)
setCapacityOnly(n) ==
    /\ capacity' = n
    /\ \E k \in Kept(index, n) : index' = k
    /\ UNCHANGED <<rows, open, cacheOnly, loader, origin, changed, downloadVars>>

setCapacity(n) ==
    /\ capacity' = n
    /\ \E k \in Kept(index, n) : index' = k /\ rows' = Deleted(rows, index \ k)
    /\ UNCHANGED <<open, cacheOnly, loader, origin, changed, downloadVars>>

setCacheOnlyMode(b) ==
    /\ cacheOnly' = b
    /\ UNCHANGED <<cacheVars, open, capacity, loader, origin, changed, downloadVars>>

(* Time passes. *)
Expire(t) ==
    /\ rows[t] # NoRow
    /\ rows' = [rows EXCEPT ![t].expired = TRUE]
    /\ UNCHANGED <<open, index, capacity, cacheOnly, loader, origin, changed, downloadVars>>

(* External: the content of the wrapped data source changes, and then it   *)
(* says so.                                                                *)
ChangeOrigin ==
    /\ origin' = IF origin < MaxVersion THEN origin + 1 ELSE origin
    /\ changed' = TRUE
    /\ UNCHANGED <<cacheVars, open, capacity, cacheOnly, loader, downloadVars>>

(* onTilesChanged: notifyTilesChanged clears before it tells its listeners. *)
onTilesChanged ==
    /\ changed /\ changed' = FALSE
    /\ Cleared
    /\ UNCHANGED <<open, capacity, cacheOnly, loader, origin, downloadVars>>

-----------------------------------------------------------------------------
(* Downloads of an area. *)

MoveDownload(d, from, to) ==
    /\ download[d].state = from
    /\ download' = [download EXCEPT ![d].state = to]

notDownload == <<cacheVars, open, capacity, cacheOnly, loader, origin, changed>>

(* startDownloadArea registers the task under the mutex ...  *)
startDownloadArea(d, area) ==
    /\ download[d].state = "none" /\ \A e \in 1 .. d - 1 : download[e].state # "none"
    /\ download' = [download EXCEPT ![d].state = "registered", ![d].area = area]
    /\ registered' = registered \cup {d}
    /\ UNCHANGED <<notDownload, stopping>>

(* ... and hands it to the pool, which passes over a canceled task. *)
Enqueue(d) ==
    /\ MoveDownload(d, "registered", IF download[d].canceled THEN "dropped" ELSE "queued")
    /\ UNCHANGED <<notDownload, registered, stopping>>

(* stopAllDownloads copies the set, cancels what it copied, ... *)
stopAllDownloads ==
    /\ stopping.pc = "idle"
    /\ stopping' = [stopping EXCEPT !.pc = "cancel", !.tasks = registered]
    /\ UNCHANGED <<notDownload, download, registered>>

(* Mutant: the copied tasks are not canceled. *)
CancelNone ==
    /\ stopping.pc = "cancel"
    /\ stopping' = [stopping EXCEPT !.pc = "drain"]
    /\ UNCHANGED <<notDownload, download, registered>>

CancelCopied ==
    /\ stopping.pc = "cancel"
    /\ stopping' = [stopping EXCEPT !.pc = "drain"]
    /\ download' = [d \in Downloads |-> IF d \in stopping.tasks
                                        THEN [download[d] EXCEPT !.canceled = TRUE]
                                        ELSE download[d]]
    /\ UNCHANGED <<notDownload, registered>>

(* ... and empties the queue of the pool. *)
DrainPool ==
    /\ stopping.pc = "drain"
    /\ stopping' = [pc |-> "idle", tasks |-> {}, told |-> stopping.told \cup stopping.tasks]
    /\ download' = [d \in Downloads |->
                      IF download[d].state = "queued"
                      THEN [download[d] EXCEPT !.state = "dropped", !.canceled = TRUE]
                      ELSE download[d]]
    /\ UNCHANGED <<notDownload, registered>>

(* DownloadTask::run on the pool's only thread, in the order of the calls. *)
RunDownload(d) ==
    /\ \A e \in Downloads : download[e].state # "running"
    /\ \A e \in 1 .. d - 1 : download[e].state # "queued"
    /\ MoveDownload(d, "queued", IF open THEN "running" ELSE "skipped")
    /\ UNCHANGED <<notDownload, registered, stopping>>

AtEnd(d) == download[d].next > Len(download[d].area)

(* isCanceled, asked before each tile; the listener is told of the         *)
(* progress before the tile is loaded, and no lock is held meanwhile.      *)
CheckCanceled(d) ==
    /\ download[d].state = "running" /\ ~download[d].passed
    /\ ~download[d].canceled /\ ~AtEnd(d)
    /\ loader[Worker].pc = "idle"
    /\ download' = [download EXCEPT ![d].passed = TRUE]
    /\ UNCHANGED <<notDownload, registered, stopping>>

DownloadTile(d) ==
    /\ download[d].state = "running" /\ download[d].passed
    /\ Lookup(Worker, download[d].area[download[d].next])
    /\ download' = [download EXCEPT ![d].next = @ + 1, ![d].passed = FALSE]
    /\ UNCHANGED <<open, capacity, cacheOnly, origin, changed, registered, stopping>>

(* Mutant: a canceled task goes on waiting for its last tile. *)
EndDownloadAtEnd(d) ==
    /\ AtEnd(d) /\ ~download[d].passed
    /\ loader[Worker].pc = "idle"
    /\ MoveDownload(d, "running", "completed")
    /\ registered' = registered \ {d}
    /\ UNCHANGED <<notDownload, stopping>>

(* The task leaves _downloadTasks; it completed if it loaded every tile.  *)
EndDownload(d) ==
    /\ ~download[d].passed /\ (download[d].canceled \/ AtEnd(d))
    /\ loader[Worker].pc = "idle"
    /\ MoveDownload(d, "running", IF AtEnd(d) THEN "completed" ELSE "stopped")
    /\ registered' = registered \ {d}
    /\ UNCHANGED <<notDownload, stopping>>

DownloadStep ==
    \/ \E d \in Downloads : RunDownload(d) \/ CheckCanceled(d) \/ DownloadTile(d)
                             \/ EndDownload(d)
    \/ Answer(Worker) \/ Return(Worker)

Next ==
    \/ \E l \in Readers, t \in Tiles : loadTile(l, t)
    \/ \E l \in Readers : Answer(l) \/ Return(l)
    \/ clear \/ close \/ ChangeOrigin \/ onTilesChanged
    \/ \E n \in Capacities : setCapacity(n)
    \/ \E b \in BOOLEAN : setCacheOnlyMode(b)
    \/ \E t \in Tiles : Expire(t)
    \/ \E d \in Downloads : Enqueue(d) \/ \E a \in Areas : startDownloadArea(d, a)
    \/ stopAllDownloads \/ CancelCopied \/ DrainPool
    \/ DownloadStep

(* Calls that have begun return, the wrapped data source answers, and the  *)
(* pool's thread is scheduled.                                             *)
Fairness ==
    /\ \A l \in Readers : WF_vars(Answer(l) \/ Return(l))
    /\ \A d \in Downloads : WF_vars(Enqueue(d))
    /\ WF_vars(CancelCopied \/ DrainPool)
    /\ WF_vars(DownloadStep)

Spec == Init /\ [][Next]_vars /\ Fairness

-----------------------------------------------------------------------------
Ended == {"dropped", "skipped", "completed", "stopped"}
Row == [ver : 0 .. MaxVersion, expired : BOOLEAN]

(* Type invariant of the database, of its index and of the tasks.  *)
TypeOK ==
    /\ rows \in [Tiles -> Row]
    /\ open \in BOOLEAN /\ cacheOnly \in BOOLEAN /\ changed \in BOOLEAN
    /\ capacity \in Capacities
    /\ index \in SUBSET Tiles /\ Cardinality(index) <= capacity
    /\ loader \in [Loaders -> [pc : {"idle", "request", "answer"}, tile : Tiles \cup {NoTile},
                               held : BOOLEAN, ver : 0 .. MaxVersion]]
    /\ origin \in 1 .. MaxVersion
    /\ \A d \in Downloads :
          /\ download[d].state \in Ended \cup {"none", "registered", "queued", "running"}
          /\ download[d].next \in 1 .. Len(download[d].area) + 1
          /\ download[d].canceled \in BOOLEAN /\ download[d].passed \in BOOLEAN
    /\ registered \in SUBSET Downloads /\ stopping.tasks \in SUBSET Downloads

(* The database stays within its capacity: a row is in the index, or a     *)
(* loadTile under way deletes it when it returns, or the index is still to *)
(* be loaded.  A row that nobody points to would never be evicted.         *)
EveryRowIsOwned ==
    open /\ index # {} =>
        Stored(rows) \subseteq index \cup {loader[l].tile : l \in {k \in Loaders : loader[k].held}}

(* close keeps what is cached for the next start, and so does every call   *)
(* that is still under way: pointers that are let go later delete nothing. *)
CloseKeepsRows ==
    [][~open' => \A t \in Tiles : rows'[t] # rows[t] => rows'[t] # NoRow /\ rows'[t].expired]_vars

(* After stopAllDownloads a task that was registered ends, also one that   *)
(* had not reached the pool, waited in its queue, or was loading a tile.   *)
StopStops ==
    \A d \in Downloads : stopping.pc = "cancel" /\ d \in stopping.tasks ~> download[d].state \in Ended

(* Once stopAllDownloads has returned, a task that was registered when it  *)
(* was called passes no check any more: it begins at most the one tile     *)
(* whose check it had passed before, and does not slip through between the *)
(* set and the queue.                                                      *)
NoTileAfterStop ==
    [][\A d \in stopping.told :
          /\ download'[d].passed => download[d].passed
          /\ download'[d].next # download[d].next => download[d].passed /\ ~download'[d].passed]_vars
=============================================================================
