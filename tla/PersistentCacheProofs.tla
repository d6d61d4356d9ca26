------------------------ MODULE PersistentCacheProofs ------------------------
(***************************************************************************)
(* For all finite sets of tiles, all readers, areas and capacities: every  *)
(* row of the database is owned, closing it loses none, the index keeps    *)
(* within its capacity, and a download that was stopped begins no tile.    *)
(***************************************************************************)
EXTENDS PersistentCacheTileDataSource, FiniteSetTheorems, TLAPS

TileRow == [ver : Int, expired : BOOLEAN]
LoaderState == [pc : {"idle", "request", "answer"}, tile : Tiles \cup {NoTile}, held : BOOLEAN,
                ver : Int]
DownloadState == [state : {"none", "registered", "queued", "dropped", "running", "skipped",
                           "completed", "stopped"},
                  area : Seq(Tiles), next : Nat \ {0}, passed : BOOLEAN, canceled : BOOLEAN]

(* A download that has passed its check has a tile to load. *)
HasTile(q) == q.passed => q.state = "running" /\ q.next <= Len(q.area)

CacheTypes ==
    /\ rows \in [Tiles -> TileRow]
    /\ open \in BOOLEAN
    /\ loader \in [Loaders -> LoaderState]
    /\ origin \in Int
DownloadTypes ==
    /\ download \in [Downloads -> DownloadState]
    /\ \A d \in Downloads : HasTile(download[d])

Held == {loader[l].tile : l \in {k \in Loaders : loader[k].held}}
Busy == \E l \in Loaders : loader[l].pc # "idle"
IdleHoldsNothing == \A l \in Loaders : loader[l].held => loader[l].pc # "idle"

(* Rows are owned not only while the index has entries, but as long as a   *)
(* call is under way that has loaded it: its return may fill it again.     *)
RowsAreOwned == open /\ (index # {} \/ Busy) => Stored(rows) \subseteq index \cup Held

(* What TypeOK says beyond that.                                           *)
Version == 0 .. MaxVersion
BoundTypes ==
    /\ cacheOnly \in BOOLEAN /\ changed \in BOOLEAN
    /\ origin \in 1 .. MaxVersion
    /\ \A t \in Tiles : rows[t].ver \in Version
    /\ \A l \in Loaders : loader[l].ver \in Version
SizeInv ==
    /\ capacity \in Capacities
    /\ index \subseteq Tiles /\ Cardinality(index) <= capacity
PlaceInv ==
    \A d \in Downloads : /\ download[d].next <= Len(download[d].area) + 1
                         /\ download[d].state = "none" => download[d].next = 1

(* What stopAllDownloads has been through with is canceled.                *)
StopInv ==
    /\ registered \subseteq Downloads
    /\ stopping \in [pc : {"idle", "cancel", "drain"}, tasks : SUBSET Downloads, told : SUBSET Downloads]
    /\ \A d \in stopping.told : download[d].canceled
    /\ stopping.pc = "drain" => \A d \in stopping.tasks : download[d].canceled

WhoLoads == \A l \in Loaders : loader[l].pc # "idle" => loader[l].tile \in Tiles

DInv == BoundTypes /\ SizeInv /\ WhoLoads /\ PlaceInv /\ StopInv

IInv == CacheTypes /\ DownloadTypes /\ IdleHoldsNothing /\ RowsAreOwned

-----------------------------------------------------------------------------
LEMMA NoRowType == NoRow \in TileRow /\ IdleLoader \in LoaderState
BY DEF NoRow, TileRow, IdleLoader, LoaderState

LEMMA NewDownloadType ==
    ASSUME NEW area \in Seq(Tiles)
    PROVE  [state |-> "none", area |-> area, next |-> 1, passed |-> FALSE, canceled |-> FALSE] \in DownloadState
BY DEF DownloadState

LEMMA RequestType ==
    ASSUME NEW t \in Tiles, NEW b \in BOOLEAN
    PROVE  [pc |-> "request", tile |-> t, held |-> b, ver |-> 0] \in LoaderState
BY DEF LoaderState

(* What the deleters leave. *)
LEMMA DeletedRows ==
    ASSUME NEW r \in [Tiles -> TileRow], NEW T
    PROVE  /\ Deleted(r, T) \in [Tiles -> TileRow]
           /\ \A t \in Tiles : Deleted(r, T)[t] \in {r[t], NoRow}
           /\ open => \A t \in Tiles : t \in T => Deleted(r, T)[t] = NoRow
           /\ ~open => Deleted(r, T) = r
BY NoRowType DEF Deleted

LEMMA InitIInv == Init => IInv
<1> SUFFICES ASSUME Init PROVE IInv
  OBVIOUS
<1>1. CacheTypes
  <2>1. [ver |-> 1, expired |-> FALSE] \in TileRow
    BY DEF TileRow
  <2>2. PICK stored : rows = [t \in Tiles |-> IF t \in stored
                                             THEN [ver |-> 1, expired |-> FALSE] ELSE NoRow]
    BY DEF Init
  <2>3. rows \in [Tiles -> TileRow]
    BY <2>1, <2>2, NoRowType, Zenon
  <2>4. loader \in [Loaders -> LoaderState]
    BY NoRowType DEF Init
  <2>5. open \in BOOLEAN /\ origin \in Int
    BY DEF Init
  <2> QED
    BY <2>3, <2>4, <2>5 DEF CacheTypes
<1>2. DownloadTypes
  <2>1. <<>> \in Seq(Tiles)
    OBVIOUS
  <2>2. [state |-> "none", area |-> <<>>, next |-> 1, passed |-> FALSE, canceled |-> FALSE] \in DownloadState
    BY <2>1, NewDownloadType
  <2> QED
    BY <2>2 DEF Init, DownloadTypes, HasTile
<1>3. IdleHoldsNothing /\ RowsAreOwned
  BY DEF Init, IdleHoldsNothing, RowsAreOwned, Busy, IdleLoader
<1> QED
  BY <1>1, <1>2, <1>3 DEF IInv

-----------------------------------------------------------------------------
(* loadTile. *)

(* The index that a call finds, or loads, owns the rows it leaves. *)
LEMMA LoadedIsOwned ==
    ASSUME IInv, NEW i \in LoadedIndex
    PROVE  LET r == LoadedRows(i)
           IN  r \in [Tiles -> TileRow] /\ (open => Stored(r) \subseteq i \cup Held)
<1> DEFINE r == LoadedRows(i)
<1>1. CASE index # {}
  BY <1>1 DEF IInv, CacheTypes, RowsAreOwned, LoadedIndex, LoadedRows
<1>2. CASE index = {}
  <2>1. r = Deleted(rows, Tiles \ i)
    BY <1>2 DEF LoadedRows
  <2> QED
    BY <2>1, DeletedRows DEF IInv, CacheTypes, Stored
<1> QED
  BY <1>1, <1>2

LEMMA LookupStep ==
    ASSUME IInv, NEW l \in Loaders, NEW t \in Tiles, Lookup(l, t), open' = open, origin' = origin
    PROVE  CacheTypes' /\ IdleHoldsNothing' /\ RowsAreOwned'
<1>1. PICK i \in LoadedIndex :
          \/ Served(l, t, i, LoadedRows(i))
          \/ NotRequested(l, t, i, LoadedRows(i))
          \/ Requested(l, t, i, LoadedRows(i))
  BY DEF Lookup
<1> DEFINE r == LoadedRows(i)
<1>2. r \in [Tiles -> TileRow] /\ (open => Stored(r) \subseteq i \cup Held)
  BY LoadedIsOwned
<1>3. loader[l].pc = "idle" /\ ~loader[l].held /\ CacheTypes
  BY DEF Lookup, IInv, IdleHoldsNothing
<1> HIDE DEF r
<1>4. CASE Served(l, t, i, r)
  <2>1. index' = i /\ rows' = r /\ loader' = loader
    BY <1>4 DEF Served
  <2> QED
    BY <1>2, <2>1 DEF IInv, CacheTypes, IdleHoldsNothing, RowsAreOwned, Stored, Held
<1>5. CASE NotRequested(l, t, i, r)
  <2>1. index' = i \ {t} /\ rows' = Deleted(r, i \cap {t}) /\ loader' = loader
    BY <1>5 DEF NotRequested
  <2>2. CacheTypes' /\ IdleHoldsNothing'
    BY <1>2, <1>3, <2>1, DeletedRows DEF IInv, CacheTypes, IdleHoldsNothing
  <2>3. open => Stored(rows') \subseteq index' \cup Held
    BY <1>2, <2>1, DeletedRows DEF Stored
  <2> QED
    BY <2>1, <2>2, <2>3 DEF RowsAreOwned, Stored, Held
<1>6. CASE Requested(l, t, i, r)
  <2> DEFINE q == [pc |-> "request", tile |-> t, held |-> t \in i, ver |-> 0]
  <2>1. index' = i \ {t} /\ rows' = r /\ loader' = [loader EXCEPT ![l] = q]
    BY <1>6 DEF Requested
  <2>2. q \in LoaderState /\ q.pc = "request" /\ q.tile = t /\ (q.held <=> t \in i)
    <3>1. (t \in i) \in BOOLEAN
      OBVIOUS
    <3>2. q \in LoaderState
      BY <3>1, RequestType
    <3> QED
      BY <3>2
  <2> HIDE DEF q
  <2>3. CacheTypes' /\ IdleHoldsNothing'
    BY <1>2, <1>3, <2>1, <2>2 DEF IInv, CacheTypes, IdleHoldsNothing
  <2>4. Held \cup (i \cap {t}) \subseteq Held'
    <3>1. \A k \in Loaders : loader[k].held => loader'[k] = loader[k]
      BY <1>3, <2>1 DEF CacheTypes
    <3>2. loader'[l] = q
      BY <1>3, <2>1 DEF CacheTypes
    <3> QED
      BY <2>2, <3>1, <3>2 DEF Held
  <2> QED
    BY <1>2, <2>1, <2>3, <2>4 DEF RowsAreOwned, Stored
<1> QED
  BY <1>1, <1>4, <1>5, <1>6 DEF r

LEMMA AnswerStep == ASSUME IInv, NEW l \in Loaders, Answer(l) PROVE IInv'
<1>1. /\ UNCHANGED <<rows, index, open, origin, download>>
      /\ loader[l].pc = "request"
  BY DEF Answer, cacheVars, downloadVars
<1>2. PICK v \in {0, origin} : loader' = [loader EXCEPT ![l].pc = "answer", ![l].ver = v]
  BY DEF Answer
<1> DEFINE q == [loader[l] EXCEPT !.pc = "answer", !.ver = v]
<1>3. loader' = [loader EXCEPT ![l] = q]
  BY <1>2 DEF IInv, CacheTypes
<1>4. loader[l] \in LoaderState /\ v \in Int
  BY DEF IInv, CacheTypes
<1>5. q \in LoaderState /\ q.pc = "answer" /\ q.held = loader[l].held /\ q.tile = loader[l].tile
  BY <1>4 DEF LoaderState
<1> HIDE DEF q
<1>6. \A k \in Loaders : /\ loader'[k].held = loader[k].held
                         /\ loader'[k].tile = loader[k].tile
                         /\ loader'[k].pc = IF k = l THEN "answer" ELSE loader[k].pc
  BY <1>3, <1>5 DEF IInv, CacheTypes
<1>7. CacheTypes' /\ DownloadTypes'
  BY <1>1, <1>3, <1>5 DEF IInv, CacheTypes, DownloadTypes
<1>8. Held' = Held
  BY <1>6 DEF Held
<1>9. IdleHoldsNothing'
  BY <1>1, <1>6 DEF IInv, IdleHoldsNothing
<1>10. Busy
  BY <1>1 DEF Busy
<1>11. RowsAreOwned'
  BY <1>1, <1>8, <1>10 DEF IInv, RowsAreOwned, Stored
<1> QED
  BY <1>7, <1>9, <1>11 DEF IInv

(* The end of a call: the pointer it held is let go, and with it the row   *)
(* that only this pointer owned.                                           *)
LEMMA ReleaseStep ==
    ASSUME IInv, NEW l \in Loaders, NEW r \in [Tiles -> TileRow],
           open => Stored(r) \subseteq index' \cup Held,
           rows' = IF loader[l].held THEN Deleted(r, {loader[l].tile}) ELSE r,
           loader' = [loader EXCEPT ![l] = IdleLoader],
           open' = open, origin' = origin
    PROVE  CacheTypes' /\ IdleHoldsNothing' /\ RowsAreOwned'
<1>1. CacheTypes'
  BY NoRowType, DeletedRows DEF IInv, CacheTypes
<1>2. \A k \in Loaders : loader'[k] = IF k = l THEN IdleLoader ELSE loader[k]
  BY DEF IInv, CacheTypes
<1>3. IdleHoldsNothing'
  BY <1>2 DEF IInv, IdleHoldsNothing, IdleLoader
<1>4. \A t \in Held : t \in Held' \/ (loader[l].held /\ t = loader[l].tile)
  BY <1>2 DEF Held
<1>5. ASSUME open, NEW t \in Stored(rows') PROVE t \in index' \cup Held'
  <2>1. t \in Tiles /\ rows'[t] # NoRow
    BY <1>5 DEF Stored
  <2>2. r[t] # NoRow /\ ~(loader[l].held /\ t = loader[l].tile)
    BY <1>5, <2>1, DeletedRows
  <2>3. t \in index' \cup Held
    BY <1>5, <2>1, <2>2 DEF Stored
  <2> QED
    BY <1>4, <2>2, <2>3
<1> QED
  BY <1>1, <1>3, <1>5 DEF RowsAreOwned, Stored

LEMMA ReturnStep == ASSUME IInv, NEW l \in Loaders, Return(l) PROVE IInv'
<1> DEFINE t == loader[l].tile
           new == [ver |-> loader[l].ver, expired |-> FALSE]
<1>1. /\ UNCHANGED <<open, origin, download>>
      /\ loader[l].pc = "answer"
      /\ loader' = [loader EXCEPT ![l] = IdleLoader]
  BY DEF Return, downloadVars
<1>2. DownloadTypes'
  BY <1>1 DEF IInv, DownloadTypes
<1>3. rows \in [Tiles -> TileRow] /\ new \in TileRow
  BY DEF IInv, CacheTypes, LoaderState, TileRow
<1>4. open => Stored(rows) \subseteq index \cup Held
  BY <1>1 DEF IInv, RowsAreOwned, Busy
<1>5. CASE loader[l].ver = 0
  <2>1. index' = index /\ rows' = IF loader[l].held THEN Deleted(rows, {t}) ELSE rows
    BY <1>5 DEF Return
  <2> QED
    BY <1>1, <1>2, <1>3, <1>4, <2>1, ReleaseStep DEF IInv
<1>6. CASE loader[l].ver # 0
  <2> DEFINE Evicted(k) == ((index \cup {t}) \ k) \cup (index \cap {t})
             r(k) == Deleted(rows, Evicted(k))
             s(k) == IF open /\ t \in k THEN [r(k) EXCEPT ![t] = new] ELSE r(k)
  <2>1. PICK k \in Kept(index \cup {t}, capacity) :
            index' = k /\ rows' = IF loader[l].held THEN Deleted(s(k), {t}) ELSE s(k)
    BY <1>6, Zenon DEF Return
  <2>2. /\ r(k) \in [Tiles -> TileRow]
        /\ open => \A u \in Tiles : r(k)[u] # NoRow => u \notin Evicted(k) /\ rows[u] # NoRow
    BY <1>3, DeletedRows
  <2>3. open => Stored(r(k)) \subseteq k \cup Held
    <3>1. ASSUME open, NEW u \in Tiles, r(k)[u] # NoRow PROVE u \in k \cup Held
      <4>1. u \notin Evicted(k) /\ u \in index \cup Held
        BY <1>4, <2>2, <3>1 DEF Stored
      <4> QED
        BY <4>1
    <3> QED
      BY <3>1 DEF Stored
  <2> HIDE DEF r, new
  <2>4. s(k) \in [Tiles -> TileRow]
    BY <1>3, <2>2
  <2>5. open => Stored(s(k)) \subseteq k \cup Held
    <3>1. ASSUME open, NEW u \in Tiles, s(k)[u] # NoRow PROVE u \in k \cup Held
      BY <2>2, <2>3, <3>1 DEF Stored
    <3> QED
      BY <3>1 DEF Stored
  <2> HIDE DEF s
  <2>6. CacheTypes' /\ IdleHoldsNothing' /\ RowsAreOwned'
    BY <1>1, <2>1, <2>4, <2>5, ReleaseStep
  <2> QED
    BY <1>2, <2>6 DEF IInv
<1> QED
  BY <1>5, <1>6

-----------------------------------------------------------------------------
(* Steps that drop entries from the index and delete their rows. *)
LEMMA DropStep ==
    ASSUME IInv, NEW T, rows' = Deleted(rows, T), index \ T \subseteq index',
           index' \subseteq index, UNCHANGED <<open, loader>>, origin' \in Int,
           download' = download
    PROVE  IInv'
<1>1. CacheTypes' /\ DownloadTypes' /\ IdleHoldsNothing' /\ Held' = Held
  BY DeletedRows DEF IInv, CacheTypes, DownloadTypes, IdleHoldsNothing, Held
<1>2. ASSUME open, index' # {} \/ Busy, NEW t \in Stored(rows') PROVE t \in index' \cup Held
  <2>1. t \in Tiles /\ rows'[t] # NoRow
    BY <1>2 DEF Stored
  <2>2. t \notin T /\ rows[t] # NoRow
    BY <1>2, <2>1, DeletedRows DEF IInv, CacheTypes
  <2>3. t \in index \cup Held
    BY <1>2, <2>1, <2>2 DEF IInv, RowsAreOwned, Stored
  <2> QED
    BY <2>2, <2>3
<1>3. RowsAreOwned'
  BY <1>1, <1>2 DEF RowsAreOwned, Stored, Busy
<1> QED
  BY <1>1, <1>3 DEF IInv

LEMMA ClearedStep ==
    ASSUME IInv, Cleared, UNCHANGED <<open, loader, origin, download>>
    PROVE  IInv'
<1>1. rows' = Deleted(rows, index) /\ index' = {}
  BY DEF Cleared
<1> QED
  BY <1>1, DropStep DEF IInv, CacheTypes

LEMMA SetCapacityStep == ASSUME IInv, NEW n \in Capacities, setCapacity(n) PROVE IInv'
<1>1. PICK k \in Kept(index, n) : index' = k /\ rows' = Deleted(rows, index \ k)
  BY DEF setCapacity
<1>2. k \subseteq index
  BY DEF Kept
<1>3. UNCHANGED <<open, loader, origin, download>>
  BY DEF setCapacity, downloadVars
<1> QED
  BY <1>1, <1>2, <1>3, DropStep DEF IInv, CacheTypes

LEMMA CloseStep == IInv /\ close => IInv'
BY DEF IInv, close, CacheTypes, DownloadTypes, IdleHoldsNothing, RowsAreOwned, downloadVars

LEMMA ExpireStep == ASSUME IInv, NEW t \in Tiles, Expire(t) PROVE IInv'
<1>1. /\ UNCHANGED <<open, index, loader, origin, download>>
      /\ rows[t] # NoRow
      /\ rows' = [rows EXCEPT ![t].expired = TRUE]
  BY DEF Expire, downloadVars
<1>2. rows' \in [Tiles -> TileRow] /\ \A u \in Tiles \ {t} : rows'[u] = rows[u]
  BY <1>1 DEF IInv, CacheTypes, TileRow
<1>3. Stored(rows') \subseteq Stored(rows)
  BY <1>1, <1>2 DEF Stored
<1>4. CacheTypes' /\ DownloadTypes' /\ IdleHoldsNothing' /\ Held' = Held /\ (Busy' => Busy)
  BY <1>1, <1>2 DEF IInv, CacheTypes, DownloadTypes, IdleHoldsNothing, Held, Busy
<1>5. RowsAreOwned'
  BY <1>1, <1>3, <1>4 DEF IInv, RowsAreOwned
<1> QED
  BY <1>4, <1>5 DEF IInv

(* Steps that leave the cache alone. *)
LEMMA OtherStep ==
    ASSUME IInv, UNCHANGED <<rows, index, open, loader>>, origin' \in Int, DownloadTypes'
    PROVE  IInv'
BY DEF IInv, CacheTypes, IdleHoldsNothing, RowsAreOwned, Busy, Held, Stored

(* The downloads. *)

LEMMA DownloadMoves ==
    ASSUME DownloadTypes, NEW d \in Downloads, NEW q \in DownloadState, HasTile(q),
           download' = [download EXCEPT ![d] = q]
    PROVE  DownloadTypes'
BY DEF DownloadTypes

LEMMA MoveDownloadTypes ==
    ASSUME DownloadTypes, NEW d \in Downloads, NEW from, NEW to, MoveDownload(d, from, to),
           to \in {"queued", "dropped", "running", "skipped", "completed", "stopped"},
           from # "running" \/ ~download[d].passed
    PROVE  DownloadTypes'
<1> DEFINE q == [download[d] EXCEPT !.state = to]
<1>1. download[d] \in DownloadState /\ HasTile(download[d]) /\ download[d].state = from
  BY DEF DownloadTypes, MoveDownload
<1>2. q \in DownloadState /\ HasTile(q)
  BY <1>1 DEF DownloadState, HasTile
<1>3. download' = [download EXCEPT ![d] = q]
  BY DEF MoveDownload
<1> QED
  BY <1>2, <1>3, DownloadMoves DEF q

LEMMA StartDownloadStep ==
    ASSUME IInv, NEW d \in Downloads, NEW area \in Areas, startDownloadArea(d, area)
    PROVE  IInv'
<1> DEFINE q == [download[d] EXCEPT !.state = "registered", !.area = area]
<1>1. download' = [download EXCEPT ![d] = q]
  BY DEF startDownloadArea, IInv, DownloadTypes
<1>2. download[d] \in DownloadState /\ area \in Seq(Tiles) /\ ~download[d].passed
  BY CacheAssumption DEF IInv, DownloadTypes, HasTile, startDownloadArea
<1>3. q \in DownloadState /\ HasTile(q)
  BY <1>2 DEF DownloadState, HasTile
<1>4. DownloadTypes'
  BY <1>1, <1>3, DownloadMoves DEF IInv, q
<1> QED
  BY <1>4, OtherStep DEF startDownloadArea, notDownload, cacheVars, IInv, CacheTypes

LEMMA CancelTypes ==
    ASSUME DownloadTypes, NEW d \in Downloads
    PROVE  /\ [download[d] EXCEPT !.canceled = TRUE] \in DownloadState
           /\ [download[d] EXCEPT !.state = "dropped", !.canceled = TRUE] \in DownloadState
           /\ HasTile([download[d] EXCEPT !.canceled = TRUE])
           /\ download[d].state = "queued" =>
                 HasTile([download[d] EXCEPT !.state = "dropped", !.canceled = TRUE])
<1>1. download[d] \in DownloadState /\ HasTile(download[d])
  BY DEF DownloadTypes
<1> QED
  BY <1>1 DEF DownloadState, HasTile

LEMMA StopStep == IInv /\ (stopAllDownloads \/ CancelCopied \/ DrainPool) => IInv'
<1>1. ASSUME IInv, stopAllDownloads PROVE IInv'
  BY <1>1, OtherStep
     DEF stopAllDownloads, notDownload, cacheVars, IInv, CacheTypes, DownloadTypes
<1>2. ASSUME IInv, CancelCopied PROVE IInv'
  <2>1. DownloadTypes'
    BY <1>2, CancelTypes DEF CancelCopied, IInv, DownloadTypes
  <2> QED
    BY <1>2, <2>1, OtherStep DEF CancelCopied, notDownload, cacheVars, IInv, CacheTypes
<1>3. ASSUME IInv, DrainPool PROVE IInv'
  <2>1. DownloadTypes'
    BY <1>3, CancelTypes DEF DrainPool, IInv, DownloadTypes
  <2> QED
    BY <1>3, <2>1, OtherStep DEF DrainPool, notDownload, cacheVars, IInv, CacheTypes
<1> QED
  BY <1>1, <1>2, <1>3

LEMMA MoveStep ==
    ASSUME IInv, NEW d \in Downloads, Enqueue(d) \/ RunDownload(d) \/ EndDownload(d)
    PROVE  IInv'
<1>1. DownloadTypes'
  <2>1. CASE Enqueue(d)
    BY <2>1, MoveDownloadTypes DEF Enqueue, IInv
  <2>2. CASE RunDownload(d)
    BY <2>2, MoveDownloadTypes DEF RunDownload, IInv
  <2>3. CASE EndDownload(d)
    BY <2>3, MoveDownloadTypes DEF EndDownload, IInv
  <2> QED
    BY <2>1, <2>2, <2>3
<1>2. UNCHANGED <<rows, index, open, loader, origin>>
  BY DEF Enqueue, RunDownload, EndDownload, notDownload, cacheVars
<1> QED
  BY <1>1, <1>2, OtherStep DEF IInv, CacheTypes

LEMMA LoadTileStep ==
    ASSUME IInv, NEW l \in Readers, NEW t \in Tiles, loadTile(l, t)
    PROVE  IInv'
<1>1. Lookup(l, t) /\ UNCHANGED <<open, origin, download>> /\ l \in Loaders
  BY DEF loadTile, downloadVars, Loaders
<1>2. CacheTypes' /\ IdleHoldsNothing' /\ RowsAreOwned'
  BY <1>1, LookupStep
<1> QED
  BY <1>1, <1>2 DEF IInv, DownloadTypes

LEMMA DownloadTileStep ==
    ASSUME IInv, NEW d \in Downloads, DownloadTile(d)
    PROVE  IInv'
<1> DEFINE n == download[d].next
           q == [download[d] EXCEPT !.next = n + 1, !.passed = FALSE]
<1>1. download[d] \in DownloadState /\ n <= Len(download[d].area)
  BY DEF IInv, DownloadTypes, DownloadTile, HasTile
<1>2. download[d].area \in Seq(Tiles) /\ n \in Nat \ {0}
  BY <1>1 DEF DownloadState
<1>3. download[d].area[n] \in Tiles
  BY <1>1, <1>2
<1>4. q \in DownloadState /\ HasTile(q)
  <2> DEFINE r == [download[d] EXCEPT !.next = n + 1]
  <2>1. r \in DownloadState /\ q = [r EXCEPT !.passed = FALSE]
    BY <1>1 DEF DownloadState
  <2>2. q \in DownloadState /\ ~q.passed
    BY <2>1 DEF DownloadState
  <2> QED
    BY <2>2 DEF HasTile
<1>5. download' = [download EXCEPT ![d] = q]
  BY DEF DownloadTile
<1>6. DownloadTypes'
  BY <1>4, <1>5, DownloadMoves DEF IInv, q
<1>7. Lookup(Worker, download[d].area[n]) /\ UNCHANGED <<open, origin>> /\ Worker \in Loaders
  BY DEF DownloadTile, Loaders
<1>8. CacheTypes' /\ IdleHoldsNothing' /\ RowsAreOwned'
  BY <1>3, <1>7, LookupStep
<1> QED
  BY <1>6, <1>8 DEF IInv

LEMMA CheckStep ==
    ASSUME IInv, NEW d \in Downloads, CheckCanceled(d)
    PROVE  IInv'
<1> DEFINE q == [download[d] EXCEPT !.passed = TRUE]
<1>1. download[d] \in DownloadState /\ download[d].state = "running" /\ ~AtEnd(d)
  BY DEF IInv, DownloadTypes, CheckCanceled
<1>2. q \in DownloadState /\ HasTile(q)
  <2>1. q \in DownloadState
    BY <1>1 DEF DownloadState
  <2>2. download[d].next \in Nat /\ Len(download[d].area) \in Nat /\ download[d].next <= Len(download[d].area)
    BY <1>1 DEF DownloadState, AtEnd
  <2>3. q.state = "running" /\ q.next = download[d].next /\ q.area = download[d].area
    BY <1>1 DEF DownloadState
  <2> QED
    BY <2>1, <2>2, <2>3 DEF HasTile
<1>3. download' = [download EXCEPT ![d] = q]
  BY DEF CheckCanceled
<1>4. DownloadTypes'
  BY <1>2, <1>3, DownloadMoves DEF IInv, q
<1> QED
  BY <1>4, OtherStep DEF CheckCanceled, notDownload, cacheVars, IInv, CacheTypes

-----------------------------------------------------------------------------
LEMMA NextIInv == IInv /\ [Next]_vars => IInv'
<1> SUFFICES ASSUME IInv, [Next]_vars PROVE IInv'
  OBVIOUS
<1>1. ASSUME NEW l \in Readers, NEW t \in Tiles, loadTile(l, t) PROVE IInv'
  BY <1>1, LoadTileStep
<1>2. ASSUME NEW l \in Loaders, Answer(l) \/ Return(l) PROVE IInv'
  BY <1>2, AnswerStep, ReturnStep
<1>3. CASE clear \/ onTilesChanged
  BY <1>3, ClearedStep DEF clear, onTilesChanged, downloadVars
<1>4. CASE close
  BY <1>4, CloseStep
<1>5. CASE ChangeOrigin
  <2>1. origin' \in Int
    BY <1>5 DEF ChangeOrigin, IInv, CacheTypes
  <2> QED
    BY <1>5, <2>1, OtherStep DEF ChangeOrigin, cacheVars, downloadVars, IInv, DownloadTypes
<1>6. ASSUME NEW n \in Capacities, setCapacity(n) PROVE IInv'
  BY <1>6, SetCapacityStep
<1>7. ASSUME NEW b \in BOOLEAN, setCacheOnlyMode(b) PROVE IInv'
  BY <1>7, OtherStep
     DEF setCacheOnlyMode, cacheVars, downloadVars, IInv, CacheTypes, DownloadTypes
<1>8. ASSUME NEW t \in Tiles, Expire(t) PROVE IInv'
  BY <1>8, ExpireStep
<1>9. ASSUME NEW d \in Downloads, NEW a \in Areas, startDownloadArea(d, a) PROVE IInv'
  BY <1>9, StartDownloadStep
<1>10. ASSUME NEW d \in Downloads, Enqueue(d) \/ RunDownload(d) \/ EndDownload(d) PROVE IInv'
  BY <1>10, MoveStep
<1>11. ASSUME NEW d \in Downloads, CheckCanceled(d) \/ DownloadTile(d) PROVE IInv'
  BY <1>11, CheckStep, DownloadTileStep
<1>12. CASE stopAllDownloads \/ CancelCopied \/ DrainPool
  BY <1>12, StopStep
<1>13. CASE UNCHANGED vars
  BY <1>13 DEF vars, IInv, CacheTypes, DownloadTypes, IdleHoldsNothing, RowsAreOwned, Busy, Held,
               Stored
<1> QED
  BY <1>1, <1>2, <1>3, <1>4, <1>5, <1>6, <1>7, <1>8, <1>9, <1>10, <1>11, <1>12, <1>13
     DEF Next, DownloadStep, Loaders

(* The inductive invariant: with the types, a row is owned as long as the  *)
(* index has entries or a call is under way (loadTile, Lookup to Return).  *)
THEOREM Invariance == Spec => []IInv
<1> QED
  BY InitIInv, NextIInv, PTL DEF Spec

(* Whatever loadTile, clear, setCapacity, onTilesChanged and the download  *)
(* of an area do to each other, no row is left that neither the index nor  *)
(* a call under way points to, so that none is missed by the eviction.     *)
THEOREM NoOrphanRows == Spec => []EveryRowIsOwned
<1>1. IInv => EveryRowIsOwned
  BY DEF IInv, RowsAreOwned, EveryRowIsOwned, Held
<1> QED
  BY <1>1, Invariance, PTL

-----------------------------------------------------------------------------
KeepsRows == \A t \in Tiles : rows'[t] # rows[t] => rows'[t] # NoRow /\ rows'[t].expired

LEMMA ExpireKeepsRows == ASSUME IInv, NEW t \in Tiles, Expire(t) PROVE KeepsRows
<1>1. rows \in [Tiles -> TileRow] /\ rows' = [rows EXCEPT ![t].expired = TRUE]
  BY DEF IInv, CacheTypes, Expire
<1>2. rows'[t].expired /\ \A u \in Tiles \ {t} : rows'[u] = rows[u]
  BY <1>1 DEF TileRow
<1>3. rows'[t] # NoRow
  BY <1>2 DEF NoRow
<1> QED
  BY <1>2, <1>3 DEF KeepsRows

LEMMA ReturnKeepsRows == ASSUME IInv, NEW l \in Loaders, Return(l), ~open PROVE rows' = rows
<1>1. \A T : Deleted(rows, T) = rows
  BY DeletedRows DEF IInv, CacheTypes
<1>2. CASE loader[l].ver = 0
  BY <1>1, <1>2 DEF Return
<1>3. CASE loader[l].ver # 0
  <2> DEFINE t == loader[l].tile
             r(k) == Deleted(rows, ((index \cup {t}) \ k) \cup (index \cap {t}))
  <2>1. PICK k \in Kept(index \cup {t}, capacity) :
            rows' = IF loader[l].held THEN Deleted(r(k), {t}) ELSE r(k)
    BY <1>3, Zenon DEF Return
  <2>2. r(k) = rows
    BY <1>1
  <2> HIDE DEF r
  <2> QED
    BY <1>1, <2>1, <2>2
<1> QED
  BY <1>2, <1>3

LEMMA LookupKeepsRows ==
    ASSUME IInv, NEW l, NEW t, Lookup(l, t), ~open
    PROVE  rows' = rows
<1>1. \A T : Deleted(rows, T) = rows
  BY DeletedRows DEF IInv, CacheTypes
<1>2. \A i : LoadedRows(i) = rows
  BY <1>1 DEF LoadedRows
<1> QED
  BY <1>1, <1>2 DEF Lookup, Served, NotRequested, Requested

(* A closed database changes only by the passing of time. *)
LEMMA ClosedStep == IInv /\ [Next]_vars /\ ~open' => KeepsRows
<1> SUFFICES ASSUME IInv, [Next]_vars, ~open' PROVE KeepsRows
  OBVIOUS
<1>1. \A T : ~open => Deleted(rows, T) = rows
  BY DeletedRows DEF IInv, CacheTypes
<1>2. ASSUME rows' = rows PROVE KeepsRows
  BY <1>2 DEF KeepsRows
<1>3. ASSUME NEW l \in Readers, NEW t \in Tiles, loadTile(l, t) PROVE KeepsRows
  BY <1>2, <1>3, LookupKeepsRows DEF loadTile
<1>4. ASSUME NEW l \in Loaders, Answer(l) PROVE KeepsRows
  BY <1>2, <1>4 DEF Answer, cacheVars
<1>5. ASSUME NEW l \in Loaders, Return(l) PROVE KeepsRows
  BY <1>2, <1>5, ReturnKeepsRows DEF Return
<1>6. CASE clear \/ onTilesChanged
  BY <1>1, <1>2, <1>6 DEF clear, onTilesChanged, Cleared
<1>7. ASSUME NEW n \in Capacities, setCapacity(n) PROVE KeepsRows
  BY <1>1, <1>2, <1>7 DEF setCapacity
<1>8. ASSUME NEW t \in Tiles, Expire(t) PROVE KeepsRows
  BY <1>8, ExpireKeepsRows
<1>9. ASSUME NEW d \in Downloads, DownloadTile(d) PROVE KeepsRows
  BY <1>2, <1>9, LookupKeepsRows DEF DownloadTile
<1>10. CASE close \/ ChangeOrigin \/ stopAllDownloads \/ CancelCopied \/ DrainPool
            \/ UNCHANGED vars
  BY <1>2, <1>10
     DEF close, ChangeOrigin, stopAllDownloads, CancelCopied, DrainPool, notDownload, cacheVars,
         vars
<1>11. ASSUME NEW b \in BOOLEAN, setCacheOnlyMode(b) PROVE KeepsRows
  BY <1>2, <1>11 DEF setCacheOnlyMode, cacheVars
<1>12. ASSUME NEW d \in Downloads,
              \/ \E a \in Areas : startDownloadArea(d, a)
              \/ Enqueue(d) \/ RunDownload(d) \/ CheckCanceled(d) \/ EndDownload(d)
       PROVE  KeepsRows
  BY <1>2, <1>12
     DEF startDownloadArea, Enqueue, RunDownload, CheckCanceled, EndDownload, notDownload, cacheVars
<1> QED
  BY <1>3, <1>4, <1>5, <1>6, <1>7, <1>8, <1>9, <1>10, <1>11, <1>12 DEF Next, DownloadStep, Loaders

(* closeDatabase disconnects before it clears the index, and a loadTile    *)
(* that is under way at that time stores and deletes nothing any more: the *)
(* rows are those the next process finds.                                  *)
THEOREM RowsOutliveClose == Spec => CloseKeepsRows
<1>1. IInv /\ [Next]_vars =>
          [~open' => \A t \in Tiles : rows'[t] # rows[t] =>
                                         rows'[t] # NoRow /\ rows'[t].expired]_vars
  BY ClosedStep DEF KeepsRows
<1> QED
  BY <1>1, Invariance, PTL DEF Spec, CloseKeepsRows
-----------------------------------------------------------------------------
(* The size of the index, the versions of its rows, and the downloads.     *)

Lookups == \/ \E l \in Readers, t \in Tiles : loadTile(l, t)
           \/ \E d \in Downloads : DownloadTile(d)
Returns == \E l \in Loaders : Return(l)
Answers == \E l \in Loaders : Answer(l)
Clears == clear \/ onTilesChanged
Resizes == \E n \in Capacities : setCapacity(n)
Expires == \E t \in Tiles : Expire(t)
Moves == \E d \in Downloads : Enqueue(d) \/ RunDownload(d) \/ CheckCanceled(d) \/ EndDownload(d)
Starts == \E d \in Downloads, a \in Areas : startDownloadArea(d, a)
Stops == stopAllDownloads \/ CancelCopied \/ DrainPool
Others == close \/ ChangeOrigin \/ (\E b \in BOOLEAN : setCacheOnlyMode(b)) \/ UNCHANGED vars

LEMMA NextCases ==
    ASSUME [Next]_vars
    PROVE  \/ Lookups \/ Returns \/ Answers \/ Clears \/ Resizes \/ Expires \/ Moves \/ Starts \/ Stops
           \/ Others
BY DEF Next, DownloadStep, Loaders, Lookups, Returns, Answers, Clears, Resizes, Expires, Moves, Starts,
       Stops, Others

LEMMA KeptFits ==
    ASSUME NEW S \in SUBSET Tiles, NEW n \in Nat, NEW k \in Kept(S, n)
    PROVE  k \subseteq S /\ Cardinality(k) <= n
BY DEF Kept

LEMMA FewerFit ==
    ASSUME NEW S \in SUBSET Tiles, NEW n \in Nat, Cardinality(S) <= n, NEW k \in SUBSET S
    PROVE  Cardinality(k) <= n
<1>1. IsFiniteSet(S)
  BY CacheAssumption, FS_Subset
<1>2. Cardinality(k) <= Cardinality(S) /\ Cardinality(k) \in Nat /\ Cardinality(S) \in Nat
  BY <1>1, FS_Subset, FS_CardinalityType
<1> QED
  BY <1>2

LEMMA SomeLookup ==
    ASSUME IInv, Lookups
    PROVE  /\ \E l \in Loaders, t \in Tiles : Lookup(l, t)
           /\ UNCHANGED <<open, capacity, cacheOnly, origin, changed, registered, stopping>>
<1>1. ASSUME NEW l \in Readers, NEW t \in Tiles, loadTile(l, t)
      PROVE  /\ \E k \in Loaders, u \in Tiles : Lookup(k, u)
             /\ UNCHANGED <<open, capacity, cacheOnly, origin, changed, registered, stopping>>
  BY <1>1 DEF loadTile, Loaders, downloadVars
<1>2. ASSUME NEW d \in Downloads, DownloadTile(d)
      PROVE  /\ \E k \in Loaders, u \in Tiles : Lookup(k, u)
             /\ UNCHANGED <<open, capacity, cacheOnly, origin, changed, registered, stopping>>
  <2> DEFINE n == download[d].next
  <2>1. download[d].area \in Seq(Tiles) /\ n \in 1 .. Len(download[d].area)
    BY <1>2 DEF IInv, DownloadTypes, DownloadState, DownloadTile, HasTile
  <2>2. download[d].area[n] \in Tiles
    BY <2>1
  <2>3. Lookup(Worker, download[d].area[n]) /\ Worker \in Loaders
    BY <1>2 DEF DownloadTile, Loaders
  <2> QED
    BY <1>2, <2>2, <2>3 DEF DownloadTile
<1> QED
  BY <1>1, <1>2 DEF Lookups

LEMMA LookupShape ==
    ASSUME NEW l \in Loaders, NEW t \in Tiles, Lookup(l, t)
    PROVE  \E i \in LoadedIndex :
              /\ index' \in {i, i \ {t}}
              /\ rows' \in {LoadedRows(i), Deleted(LoadedRows(i), i \cap {t})}
              /\ \/ loader' = loader
                 \/ loader' = [loader EXCEPT ![l] = [pc |-> "request", tile |-> t, held |-> t \in i, ver |-> 0]]
BY DEF Lookup, Served, NotRequested, Requested

LEMMA SizeStep ==
    ASSUME IInv, SizeInv, WhoLoads, [Next]_vars
    PROVE  SizeInv'
<1>1. capacity \in Nat /\ index \subseteq Tiles /\ Cardinality(index) <= capacity
  BY CacheAssumption DEF SizeInv
<1>2. Cardinality({}) = 0
  BY FS_EmptySet
<1>3. CASE Lookups
  <2>1. capacity' = capacity /\ \E l \in Loaders, t \in Tiles : Lookup(l, t)
    BY <1>3, SomeLookup
  <2>2. PICK i \in LoadedIndex, t \in Tiles : index' \in {i, i \ {t}}
    BY <2>1, LookupShape
  <2>3. i \subseteq Tiles /\ Cardinality(i) <= capacity
    <3>1. CASE index # {} \/ ~open
      BY <1>1, <3>1 DEF LoadedIndex
    <3>2. CASE ~(index # {} \/ ~open)
      BY <1>1, <3>2, KeptFits DEF LoadedIndex, Stored
    <3> QED
      BY <3>1, <3>2
  <2>4. index' \subseteq i
    BY <2>2
  <2>5. Cardinality(index') <= capacity
    BY <1>1, <2>3, <2>4, FewerFit
  <2> QED
    BY <2>1, <2>3, <2>4, <2>5 DEF SizeInv
<1>4. ASSUME NEW l \in Loaders, Return(l) PROVE SizeInv'
  <2>1. capacity' = capacity
    BY <1>4 DEF Return
  <2>2. CASE index' = index
    BY <2>1, <2>2 DEF SizeInv
  <2>3. CASE loader[l].ver # 0
    <3>1. index' \in Kept(index \cup {loader[l].tile}, capacity)
      BY <1>4, <2>3 DEF Return
    <3>2. Cardinality(index') <= capacity /\ index' \subseteq index \cup {loader[l].tile}
      BY <1>1, <3>1 DEF Kept
    <3>3. loader[l].tile \in Tiles
      BY <1>4 DEF Return, WhoLoads
    <3> QED
      BY <1>1, <2>1, <3>2, <3>3 DEF SizeInv
  <2> QED
    BY <1>4, <2>2, <2>3 DEF Return
<1>5. CASE Clears \/ close
  <2>1. index' = {} /\ capacity' = capacity
    BY <1>5 DEF Clears, clear, onTilesChanged, Cleared, close
  <2>2. Cardinality(index') <= capacity
    BY <1>1, <1>2, <2>1
  <2> QED
    BY <2>1, <2>2 DEF SizeInv
<1>6. ASSUME NEW n \in Capacities, setCapacity(n) PROVE SizeInv'
  <2>1. capacity' = n /\ index' \in Kept(index, n) /\ n \in Nat
    BY <1>6, CacheAssumption DEF setCapacity
  <2>2. index' \subseteq Tiles /\ Cardinality(index') <= n
    BY <1>1, <2>1, KeptFits
  <2> QED
    BY <2>1, <2>2 DEF SizeInv
<1>7. CASE Answers \/ Expires \/ Moves \/ Starts \/ Stops \/ (Others /\ ~close)
  <2>1. UNCHANGED <<index, capacity>>
    BY <1>7 DEF Answers, Answer, Expires, Expire, Moves, Enqueue, RunDownload, CheckCanceled, EndDownload, Starts, startDownloadArea,
                Stops, stopAllDownloads, CancelCopied, DrainPool, Others, ChangeOrigin, setCacheOnlyMode, vars,
                notDownload, cacheVars
  <2> QED
    BY <2>1 DEF SizeInv
<1> QED
  BY <1>3, <1>4, <1>5, <1>6, <1>7, NextCases DEF Returns, Resizes

LEMMA BoundStep ==
    ASSUME IInv, BoundTypes, [Next]_vars
    PROVE  BoundTypes'
<1>1. /\ rows \in [Tiles -> TileRow] /\ loader \in [Loaders -> LoaderState]
      /\ MaxVersion \in Nat \ {0} /\ 0 \in Version /\ origin \in Version /\ origin \in 1 .. MaxVersion
      /\ NoRow.ver = 0 /\ IdleLoader.ver = 0
  BY CacheAssumption DEF IInv, CacheTypes, NoRow, IdleLoader, BoundTypes, Version
<1> DEFINE RowsFit(r) == \A t \in Tiles : r[t].ver \in Version
<1>2. ASSUME NEW r, NEW T, RowsFit(r) PROVE RowsFit(Deleted(r, T))
  BY <1>1, <1>2 DEF Deleted
<1>3. RowsFit(rows)
  BY DEF BoundTypes
<1>4. cacheOnly' \in BOOLEAN
  <2>1. cacheOnly' = cacheOnly \/ \E b \in BOOLEAN : cacheOnly' = b
    <3>1. CASE Lookups
      BY <3>1, SomeLookup
    <3>2. CASE ~Lookups
      BY <3>2, NextCases DEF Returns, Answers, Clears, Resizes, Expires, Moves, Starts, Stops, Others,
                Return, Answer, clear, onTilesChanged, setCapacity, Expire, Enqueue, RunDownload, CheckCanceled, EndDownload,
                startDownloadArea, stopAllDownloads, CancelCopied, DrainPool, close, ChangeOrigin, setCacheOnlyMode,
                notDownload, vars
    <3> QED
      BY <3>1, <3>2
  <2> QED
    BY <2>1 DEF BoundTypes
<1>5. changed' \in BOOLEAN /\ origin' \in 1 .. MaxVersion
  <2>1. CASE ChangeOrigin
    <3>1. changed' = TRUE /\ origin' = IF origin < MaxVersion THEN origin + 1 ELSE origin
      BY <2>1 DEF ChangeOrigin
    <3>2. origin' \in 1 .. MaxVersion
      BY <1>1, <3>1
    <3> QED
      BY <3>1, <3>2
  <2>2. CASE Lookups
    BY <2>2, SomeLookup DEF BoundTypes
  <2>3. CASE ~Lookups /\ ~ChangeOrigin
    <3>1. origin' = origin /\ changed' \in {changed, FALSE}
      BY <2>3, NextCases DEF Returns, Answers, Clears, Resizes, Expires, Moves, Starts, Stops, Others,
                Return, Answer, clear, onTilesChanged, setCapacity, Expire, Enqueue, RunDownload, CheckCanceled, EndDownload,
                startDownloadArea, stopAllDownloads, CancelCopied, DrainPool, close, setCacheOnlyMode,
                notDownload, vars
    <3> QED
      BY <3>1 DEF BoundTypes
  <2> QED
    BY <2>1, <2>2, <2>3
<1>6. RowsFit(rows)' /\ \A l \in Loaders : loader'[l].ver \in Version
  <2>1. CASE Lookups
    <3>1. PICK l \in Loaders, t \in Tiles : Lookup(l, t)
      BY <2>1, SomeLookup
    <3>2. PICK i \in LoadedIndex :
              /\ rows' \in {LoadedRows(i), Deleted(LoadedRows(i), i \cap {t})}
              /\ \/ loader' = loader
                 \/ loader' = [loader EXCEPT ![l] = [pc |-> "request", tile |-> t, held |-> t \in i, ver |-> 0]]
      BY <3>1, LookupShape
    <3>3. RowsFit(LoadedRows(i))
      BY <1>2, <1>3 DEF LoadedRows
    <3>4. RowsFit(Deleted(LoadedRows(i), i \cap {t}))
      BY <1>2, <3>3
    <3>5. RowsFit(rows')
      BY <3>2, <3>3, <3>4
    <3>6. \A k \in Loaders : loader'[k].ver \in {0, loader[k].ver}
      BY <1>1, <3>2
    <3> QED
      BY <1>1, <3>5, <3>6 DEF BoundTypes
  <2>2. ASSUME NEW l \in Loaders, Answer(l) PROVE RowsFit(rows)' /\ \A k \in Loaders : loader'[k].ver \in Version
    <3>1. PICK v \in {0, origin} : loader' = [loader EXCEPT ![l].pc = "answer", ![l].ver = v]
      BY <2>2 DEF Answer
    <3>2. \A k \in Loaders : loader'[k].ver \in {v, loader[k].ver}
      BY <1>1, <3>1 DEF LoaderState
    <3>3. rows' = rows
      BY <2>2 DEF Answer, cacheVars
    <3> QED
      BY <1>1, <1>3, <3>2, <3>3 DEF BoundTypes
  <2>3. ASSUME NEW l \in Loaders, Return(l) PROVE RowsFit(rows)' /\ \A k \in Loaders : loader'[k].ver \in Version
    <3> DEFINE t == loader[l].tile
               new == [ver |-> loader[l].ver, expired |-> FALSE]
    <3>1. \A k \in Loaders : loader'[k].ver \in {0, loader[k].ver}
      BY <1>1, <2>3 DEF Return
    <3>2. new.ver \in Version
      BY DEF BoundTypes
    <3>3. \E r, T : /\ rows' \in {Deleted(r, {t}), r}
                    /\ \/ r = rows \/ r = Deleted(rows, T)
                       \/ r = [Deleted(rows, T) EXCEPT ![t] = new]
      <4>1. CASE loader[l].ver = 0
        BY <2>3, <4>1 DEF Return
      <4>2. CASE loader[l].ver # 0
        <5>1. PICK k : LET q == Deleted(rows, ((index \cup {t}) \ k) \cup (index \cap {t}))
                           r == IF open /\ t \in k THEN [q EXCEPT ![t] = new] ELSE q
                       IN  rows' = IF loader[l].held THEN Deleted(r, {t}) ELSE r
          BY <2>3, <4>2, Zenon DEF Return
        <5> DEFINE T == ((index \cup {t}) \ k) \cup (index \cap {t})
                   q == Deleted(rows, T)
                   r == IF open /\ t \in k THEN [q EXCEPT ![t] = new] ELSE q
        <5>2. rows' \in {Deleted(r, {t}), r}
          BY <5>1
        <5>3. r = Deleted(rows, T) \/ r = [Deleted(rows, T) EXCEPT ![t] = new]
          OBVIOUS
        <5> HIDE DEF r, q, T, new, t
        <5> QED
          BY <5>2, <5>3
      <4> QED
        BY <4>1, <4>2
    <3> HIDE DEF t, new
    <3>4. PICK r, T : /\ rows' \in {Deleted(r, {t}), r}
                      /\ \/ r = rows \/ r = Deleted(rows, T)
                         \/ r = [Deleted(rows, T) EXCEPT ![t] = new]
      BY <3>3
    <3>5. RowsFit(Deleted(rows, T)) /\ DOMAIN Deleted(rows, T) = Tiles
      BY <1>2, <1>3 DEF Deleted
    <3>6. RowsFit(r)
      BY <1>3, <3>2, <3>4, <3>5
    <3>7. RowsFit(Deleted(r, {t}))
      BY <1>2, <3>6
    <3>8. RowsFit(rows')
      BY <3>4, <3>6, <3>7
    <3> QED
      BY <1>1, <3>1, <3>8 DEF BoundTypes
  <2>4. CASE Clears \/ Resizes
    <3>1. loader' = loader /\ \E T : rows' = Deleted(rows, T)
      BY <2>4 DEF Clears, clear, onTilesChanged, Cleared, Resizes, setCapacity
    <3> QED
      BY <1>2, <1>3, <3>1 DEF BoundTypes
  <2>5. ASSUME NEW t \in Tiles, Expire(t) PROVE RowsFit(rows)' /\ \A k \in Loaders : loader'[k].ver \in Version
    BY <1>1, <1>3, <2>5 DEF Expire, TileRow, BoundTypes
  <2>6. CASE Moves \/ Starts \/ Stops \/ Others
    <3>1. UNCHANGED <<rows, loader>>
      BY <2>6 DEF Moves, Enqueue, RunDownload, CheckCanceled, EndDownload, Starts, startDownloadArea, Stops, stopAllDownloads,
                  CancelCopied, DrainPool, Others, close, ChangeOrigin, setCacheOnlyMode, vars, notDownload, cacheVars
    <3> QED
      BY <1>3, <3>1 DEF BoundTypes
  <2> QED
    BY <2>1, <2>2, <2>3, <2>4, <2>5, <2>6, NextCases DEF Returns, Answers, Expires
<1> QED
  BY <1>4, <1>5, <1>6 DEF BoundTypes

LEMMA WhoLoadsStep ==
    ASSUME IInv, WhoLoads, [Next]_vars
    PROVE  WhoLoads'
<1>1. loader \in [Loaders -> LoaderState] /\ IdleLoader.pc = "idle"
  BY DEF IInv, CacheTypes, IdleLoader
<1>2. CASE Lookups
  <2>1. PICK l \in Loaders, t \in Tiles : Lookup(l, t)
    BY <1>2, SomeLookup
  <2>2. PICK i \in LoadedIndex :
            \/ loader' = loader
            \/ loader' = [loader EXCEPT ![l] = [pc |-> "request", tile |-> t, held |-> t \in i, ver |-> 0]]
    BY <2>1, LookupShape
  <2> QED
    BY <1>1, <2>2 DEF WhoLoads
<1>3. ASSUME NEW l \in Loaders, Answer(l) PROVE WhoLoads'
  <2>1. PICK v : loader' = [loader EXCEPT ![l].pc = "answer", ![l].ver = v]
    BY <1>3 DEF Answer
  <2>2. loader[l].pc = "request" /\ \A k \in Loaders : loader'[k].tile = loader[k].tile
                                      /\ (k # l => loader'[k].pc = loader[k].pc)
    BY <1>1, <1>3, <2>1 DEF Answer, LoaderState
  <2> QED
    BY <2>2 DEF WhoLoads
<1>4. ASSUME NEW l \in Loaders, Return(l) PROVE WhoLoads'
  BY <1>1, <1>4 DEF Return, WhoLoads
<1>5. CASE Clears \/ Resizes \/ Expires \/ Moves \/ Starts \/ Stops \/ Others
  <2>1. loader' = loader
    BY <1>5 DEF Clears, clear, onTilesChanged, Resizes, setCapacity, Expires, Expire, Moves, Enqueue, RunDownload,
                CheckCanceled, EndDownload, Starts, startDownloadArea, Stops, stopAllDownloads, CancelCopied, DrainPool, Others,
                close, ChangeOrigin, setCacheOnlyMode, vars, notDownload
  <2> QED
    BY <2>1 DEF WhoLoads
<1> QED
  BY <1>2, <1>3, <1>4, <1>5, NextCases DEF Returns, Answers

(* What a step may do to a download: a canceled one stays canceled and     *)
(* passes no check, a tile is begun after its check, and only a download   *)
(* that has not begun gets an area.                                        *)
DownloadFate(e) ==
    /\ download[e].canceled => download'[e].canceled
    /\ download'[e].state = "none" => download[e].state = "none"
    /\ download'[e].area = download[e].area \/ download[e].state = "none"
    /\ \/ download'[e].next = download[e].next
       \/ /\ download[e].passed /\ ~download'[e].passed /\ download[e].state = "running"
          /\ download'[e].next = download[e].next + 1 /\ download'[e].area = download[e].area
    /\ download'[e].passed => download[e].passed \/ ~download[e].canceled

LEMMA DownloadStepFate ==
    ASSUME IInv, [Next]_vars, NEW e \in Downloads
    PROVE  DownloadFate(e)
<1>1. download \in [Downloads -> DownloadState] /\ download[e] \in DownloadState
  BY DEF IInv, DownloadTypes
<1>2. CASE download' = download
  BY <1>2 DEF DownloadFate
<1>3. ASSUME NEW d \in Downloads, DownloadTile(d) PROVE DownloadFate(e)
  BY <1>1, <1>3 DEF DownloadTile, DownloadFate, DownloadState
<1>3a. ASSUME NEW d \in Downloads, CheckCanceled(d) PROVE DownloadFate(e)
  BY <1>1, <1>3a DEF CheckCanceled, DownloadFate, DownloadState
<1>4. ASSUME NEW d \in Downloads, Enqueue(d) \/ RunDownload(d) \/ EndDownload(d) PROVE DownloadFate(e)
  <2>1. PICK to \in {"queued", "dropped", "running", "skipped", "completed", "stopped"} :
            download' = [download EXCEPT ![d].state = to]
    BY <1>4 DEF Enqueue, RunDownload, EndDownload, MoveDownload
  <2> QED
    BY <1>1, <2>1 DEF DownloadFate, DownloadState
<1>5. CASE Starts
  <2>1. PICK d \in Downloads, a \in Areas : startDownloadArea(d, a)
    BY <1>5 DEF Starts
  <2> QED
    BY <1>1, <2>1 DEF startDownloadArea, DownloadFate, DownloadState
<1>6. CASE Stops
  <2>1. CASE stopAllDownloads
    BY <1>2, <2>1 DEF stopAllDownloads
  <2>2. CASE CancelCopied
    <3>1. download'[e] \in {download[e], [download[e] EXCEPT !.canceled = TRUE]}
      BY <2>2 DEF CancelCopied
    <3> QED
      BY <1>1, <3>1 DEF DownloadFate, DownloadState
  <2>3. CASE DrainPool
    <3>1. download'[e] \in {download[e], [download[e] EXCEPT !.state = "dropped", !.canceled = TRUE]}
      BY <2>3 DEF DrainPool
    <3> QED
      BY <1>1, <3>1 DEF DownloadFate, DownloadState
  <2> QED
    BY <1>6, <2>1, <2>2, <2>3 DEF Stops
<1>7. CASE Returns \/ Answers \/ Clears \/ Resizes \/ Expires \/ Others
           \/ \E l \in Readers, t \in Tiles : loadTile(l, t)
  <2>1. download' = download
    BY <1>7 DEF Returns, Return, Answers, Answer, Clears, clear, onTilesChanged, Resizes, setCapacity, Expires, Expire,
                Others, close, ChangeOrigin, setCacheOnlyMode, vars, loadTile, downloadVars
  <2> QED
    BY <1>2, <2>1
<1> QED
  BY <1>3, <1>3a, <1>4, <1>5, <1>6, <1>7, NextCases DEF Lookups, Moves

LEMMA PlaceStep ==
    ASSUME IInv, PlaceInv, [Next]_vars
    PROVE  PlaceInv'
<1> SUFFICES ASSUME NEW e \in Downloads
             PROVE  /\ download'[e].next <= Len(download'[e].area) + 1
                    /\ download'[e].state = "none" => download'[e].next = 1
  BY DEF PlaceInv
<1>1. DownloadFate(e)
  BY DownloadStepFate
<1>2. download[e] \in DownloadState /\ download'[e] \in DownloadState
  BY NextIInv DEF IInv, DownloadTypes
<1>3. /\ download[e].next \in Nat \ {0} /\ Len(download[e].area) \in Nat
      /\ download'[e].next \in Nat \ {0} /\ Len(download'[e].area) \in Nat
  BY <1>2 DEF DownloadState
<1>4. /\ download[e].next <= Len(download[e].area) + 1
      /\ download[e].state = "none" => download[e].next = 1
      /\ download[e].passed => download[e].next <= Len(download[e].area)
  BY DEF PlaceInv, IInv, DownloadTypes, HasTile
<1> QED
  BY <1>1, <1>3, <1>4 DEF DownloadFate

LEMMA StopInvStep ==
    ASSUME IInv, StopInv, [Next]_vars
    PROVE  StopInv'
<1>1. \A d \in Downloads : download[d].canceled => download'[d].canceled
  BY DownloadStepFate DEF DownloadFate
<1>2. /\ registered \subseteq Downloads
      /\ stopping \in [pc : {"idle", "cancel", "drain"}, tasks : SUBSET Downloads, told : SUBSET Downloads]
  BY DEF StopInv
<1>3. registered' \subseteq Downloads
  <2>1. CASE Lookups
    BY <1>2, <2>1, SomeLookup
  <2>2. CASE ~Lookups
    BY <1>2, <2>2, NextCases DEF Returns, Answers, Clears, Resizes, Expires, Moves, Starts, Stops, Others,
              Return, Answer, clear, onTilesChanged, setCapacity, Expire, Enqueue, RunDownload, CheckCanceled, EndDownload,
              startDownloadArea, stopAllDownloads, CancelCopied, DrainPool, close, ChangeOrigin, setCacheOnlyMode,
              downloadVars, vars
  <2> QED
    BY <2>1, <2>2
<1>4. CASE stopping' = stopping
  BY <1>1, <1>2, <1>3, <1>4 DEF StopInv
<1>5. CASE stopAllDownloads
  <2>1. /\ download' = download /\ stopping'.pc = "cancel" /\ stopping'.tasks = registered
        /\ stopping'.told = stopping.told
        /\ stopping' \in [pc : {"idle", "cancel", "drain"}, tasks : SUBSET Downloads, told : SUBSET Downloads]
    BY <1>2, <1>5 DEF stopAllDownloads
  <2> QED
    BY <1>1, <1>3, <2>1 DEF StopInv
<1>6. CASE CancelCopied
  <2>1. /\ stopping'.pc = "drain" /\ stopping'.tasks = stopping.tasks /\ stopping'.told = stopping.told
        /\ stopping' \in [pc : {"idle", "cancel", "drain"}, tasks : SUBSET Downloads, told : SUBSET Downloads]
    BY <1>2, <1>6 DEF CancelCopied
  <2>2. \A d \in stopping.tasks : download'[d].canceled
    <3>1. \A d \in Downloads : download[d] \in DownloadState
      BY DEF IInv, DownloadTypes
    <3> QED
      BY <1>2, <1>6, <3>1 DEF CancelCopied, DownloadState
  <2> QED
    BY <1>1, <1>2, <1>3, <2>1, <2>2 DEF StopInv
<1>7. CASE DrainPool
  <2>1. /\ stopping'.pc = "idle" /\ stopping'.told = stopping.told \cup stopping.tasks
        /\ stopping' \in [pc : {"idle", "cancel", "drain"}, tasks : SUBSET Downloads, told : SUBSET Downloads]
    BY <1>2, <1>7 DEF DrainPool
  <2>2. \A d \in stopping.told \cup stopping.tasks : download[d].canceled
    BY <1>7 DEF DrainPool, StopInv
  <2> QED
    BY <1>1, <1>2, <1>3, <2>1, <2>2 DEF StopInv
<1>8. CASE ~Stops
  <2>1. CASE Lookups
    BY <1>4, <2>1, SomeLookup
  <2>2. CASE ~Lookups
    <3>1. stopping' = stopping
      BY <1>8, <2>2, NextCases DEF Returns, Answers, Clears, Resizes, Expires, Moves, Starts, Others,
              Return, Answer, clear, onTilesChanged, setCapacity, Expire, Enqueue, RunDownload, CheckCanceled, EndDownload,
              startDownloadArea, close, ChangeOrigin, setCacheOnlyMode, downloadVars, vars
    <3> QED
      BY <1>4, <3>1
  <2> QED
    BY <2>1, <2>2
<1> QED
  BY <1>5, <1>6, <1>7, <1>8 DEF Stops

LEMMA InitDInv == Init => DInv
<1> SUFFICES ASSUME Init PROVE DInv
  OBVIOUS
<1>1. MaxVersion \in Nat \ {0} /\ Capacities \subseteq Nat /\ Cardinality({}) = 0
  BY CacheAssumption, FS_EmptySet
<1>2. BoundTypes
  <2>1. \A t \in Tiles : rows[t].ver \in {0, 1}
    BY DEF Init, NoRow
  <2>2. \A l \in Loaders : loader[l].ver = 0
    BY DEF Init, IdleLoader
  <2>3. {0, 1} \subseteq Version /\ 1 \in 1 .. MaxVersion
    BY <1>1 DEF Version
  <2>4. cacheOnly = FALSE /\ changed = FALSE /\ origin = 1
    BY DEF Init
  <2> QED
    BY <2>1, <2>2, <2>3, <2>4 DEF BoundTypes
<1>3. SizeInv
  <2>1. index = {} /\ capacity \in Capacities
    BY DEF Init
  <2>2. Cardinality(index) <= capacity
    BY <1>1, <2>1
  <2> QED
    BY <2>1, <2>2 DEF SizeInv
<1>4. WhoLoads
  BY DEF Init, WhoLoads, IdleLoader
<1>5. PlaceInv
  <2>1. \A d \in Downloads : download[d].next = 1 /\ download[d].area = <<>>
    BY DEF Init
  <2>2. Len(<<>>) = 0
    OBVIOUS
  <2>3. \A d \in Downloads : download[d].next = 1 /\ Len(download[d].area) = 0
    BY <2>1, <2>2
  <2> QED
    BY <2>3 DEF PlaceInv
<1>6. StopInv
  BY DEF Init, StopInv
<1> QED
  BY <1>2, <1>3, <1>4, <1>5, <1>6 DEF DInv

LEMMA NextDInv == IInv /\ DInv /\ [Next]_vars => DInv'
<1> SUFFICES ASSUME IInv, DInv, [Next]_vars PROVE DInv'
  OBVIOUS
<1>1. BoundTypes /\ SizeInv /\ WhoLoads /\ PlaceInv /\ StopInv
  BY DEF DInv
<1> QED
  BY <1>1, BoundStep, SizeStep, WhoLoadsStep, PlaceStep, StopInvStep DEF DInv

(* The second invariant: the index is within its capacity, what calls and  *)
(* downloads are about exists, and a task that stopAllDownloads has been   *)
(* through with is canceled for good.                                      *)
THEOREM CacheInvariance == Spec => [](IInv /\ DInv)
<1> QED
  BY InitIInv, NextIInv, InitDInv, NextDInv, PTL DEF Spec

LEMMA CacheTypeOK == IInv /\ DInv => TypeOK
<1> SUFFICES ASSUME IInv, DInv PROVE TypeOK
  OBVIOUS
<1>1. /\ rows \in [Tiles -> TileRow] /\ open \in BOOLEAN /\ loader \in [Loaders -> LoaderState]
      /\ \A t \in Tiles : rows[t].ver \in Version
      /\ \A l \in Loaders : loader[l].ver \in Version
  BY DEF IInv, CacheTypes, DInv, BoundTypes
<1>2. rows \in [Tiles -> Row]
  <2>1. \A t \in Tiles : rows[t] \in Row
    BY <1>1 DEF TileRow, Row, Version
  <2> QED
    BY <1>1, <2>1
<1>3. loader \in [Loaders -> [pc : {"idle", "request", "answer"}, tile : Tiles \cup {NoTile},
                              held : BOOLEAN, ver : 0 .. MaxVersion]]
  <2>1. \A l \in Loaders : loader[l] \in [pc : {"idle", "request", "answer"}, tile : Tiles \cup {NoTile},
                                          held : BOOLEAN, ver : 0 .. MaxVersion]
    BY <1>1 DEF LoaderState, Version
  <2> QED
    BY <1>1, <2>1
<1>4. \A d \in Downloads :
          /\ download[d].state \in Ended \cup {"none", "registered", "queued", "running"}
          /\ download[d].next \in 1 .. Len(download[d].area) + 1
          /\ download[d].canceled \in BOOLEAN /\ download[d].passed \in BOOLEAN
  <2> SUFFICES ASSUME NEW d \in Downloads
               PROVE  /\ download[d].state \in Ended \cup {"none", "registered", "queued", "running"}
                      /\ download[d].next \in 1 .. Len(download[d].area) + 1
                      /\ download[d].canceled \in BOOLEAN /\ download[d].passed \in BOOLEAN
    OBVIOUS
  <2>1. download[d] \in DownloadState /\ download[d].next <= Len(download[d].area) + 1
    BY DEF IInv, DownloadTypes, DInv, PlaceInv
  <2>2. download[d].next \in Nat \ {0} /\ Len(download[d].area) \in Nat
    BY <2>1 DEF DownloadState
  <2> QED
    BY <2>1, <2>2 DEF DownloadState, Ended
<1>5. /\ cacheOnly \in BOOLEAN /\ changed \in BOOLEAN /\ origin \in 1 .. MaxVersion
      /\ capacity \in Capacities /\ index \in SUBSET Tiles /\ Cardinality(index) <= capacity
      /\ registered \in SUBSET Downloads /\ stopping.tasks \in SUBSET Downloads
  BY DEF DInv, BoundTypes, SizeInv, StopInv
<1> QED
  BY <1>1, <1>2, <1>3, <1>4, <1>5 DEF TypeOK

(* The index never outgrows its capacity, whether it is filled by a call   *)
(* that returns late, loaded anew or resized under calls that are under    *)
(* way, and a download never leaves its area (the rest of TypeOK is the    *)
(* types).                                                                 *)
THEOREM TypeCorrect == Spec => []TypeOK
<1> QED
  BY CacheInvariance, CacheTypeOK, PTL

LEMMA ToldStep ==
    ASSUME IInv, DInv, [Next]_vars, NEW d \in stopping.told
    PROVE  /\ download'[d].passed => download[d].passed
           /\ download'[d].next # download[d].next => download[d].passed /\ ~download'[d].passed
<1>1. d \in Downloads /\ download[d].canceled
  BY DEF DInv, StopInv
<1> QED
  BY <1>1, DownloadStepFate DEF DownloadFate

(* A task that was in _downloadTasks when stopAllDownloads was called      *)
(* passes no check once it has returned, wherever the task was: not yet in *)
(* the pool's queue, in it, or waiting for a tile.  At most the one tile   *)
(* whose check (DownloadTask::run, isCanceled) it has passed is begun.     *)
THEOREM StoppedForGood == Spec => NoTileAfterStop
<1>1. IInv /\ DInv /\ [Next]_vars =>
          [\A d \in stopping.told :
              /\ download'[d].passed => download[d].passed
              /\ download'[d].next # download[d].next => download[d].passed /\ ~download'[d].passed]_vars
  BY ToldStep
<1> QED
  BY <1>1, CacheInvariance, PTL DEF Spec, NoTileAfterStop
=============================================================================
