-------------------- MODULE PackageManagerTileDataSource --------------------
(***************************************************************************)
(* datasources/PackageManagerTileDataSource.cpp: loadTile over the map     *)
(* packages that are installed, through their tile masks, with a few of    *)
(* their handlers kept open.  How packages are installed, and that their   *)
(* files are there as long as they are open, is the matter of              *)
(* PackageManager; here it is seen from this side of LocalPackages, which  *)
(* both implement, with what packages contain.                             *)
(***************************************************************************)
EXTENDS PackageTileMask, Functions

CONSTANTS Tiles, Packages, Versions,
          Contents,  (* the sets of tiles that each package may have        *)
          Clips,     (* zoom levels to which a server clips its masks       *)
          MAX_OPEN_PACKAGES

(* BuildTileNode assumes "that tile does not exist implies subtiles do not *)
(* exist": it looks no further.                                            *)
HasParents(c) == \A t \in c : t = RootTile \/ Parent(t) \in c

ASSUME PackagesAssumption ==
    /\ Tiles \subseteq MapTile /\ Clips \subseteq 0 .. MAX_SUPPORTED_ZOOM_LEVEL
    /\ \A p \in Packages : \A c \in Contents[p] : c \subseteq Tiles /\ HasParents(c)
    /\ MAX_OPEN_PACKAGES \in Nat

VARIABLES
    rows,     (* the valid row of each package: its version, tile_mask, and *)
              (* the tiles of its file; history: the zoom level its mask is *)
              (* clipped to                                                 *)
    untold,   (* that packages were added is still to be told               *)
    obsolete, (* the PackageInfo of a row that was valid, and that          *)
              (* importLocalPackage is still to delete                      *)
    open,     (* _cachedOpenPackageHandlers, with their PackageInfo         *)
    reader    (* the packageHandlerMap of the loadTile under way, if any    *)

vars == <<rows, untold, obsolete, open, reader>>

NoRow == [version |-> 0, tiles |-> {}, clip |-> -1, tile_mask |-> <<>>]
NoReader == [reading |-> FALSE, infos |-> {}]

(* The PackageInfo that syncLocalPackages makes of a row. *)
Info(p) == [package |-> p, version |-> rows[p].version, tiles |-> rows[p].tiles,
            clip |-> rows[p].clip, mask |-> DecodeTileMask(rows[p].tile_mask)]
HasRow == {p \in Packages : rows[p] # NoRow}
Installed == {Info(p) : p \in HasRow}

Init ==
    /\ rows = [p \in Packages |-> NoRow]
    /\ untold = FALSE /\ obsolete = {} /\ open = <<>>
    /\ reader = NoReader

-----------------------------------------------------------------------------
(* importLocalPackage, from the row on: it takes the place of the row that *)
(* was valid.  The worker then tells that packages were added and deletes  *)
(* the older version before it serves another task; a version that is      *)
(* valid is not installed again.                                           *)
Install(p, row) ==
    /\ ~untold /\ obsolete = {}
    /\ p \in HasRow => rows[p].version # row.version
    /\ rows' = [rows EXCEPT ![p] = row]
    /\ untold' = TRUE /\ obsolete' = {info \in Installed : info.package = p}
    /\ UNCHANGED <<open, reader>>

(* importPackage, or downloadPackage of one that comes without a mask: it  *)
(* is calculated from the file, unless the file cannot be opened then.     *)
importPackage(p) ==
    \E v \in Versions, c \in Contents[p] :
       \E m \in {TileMask(c, MaxZoom(c)), NoMask} :
          Install(p, [version |-> v, tiles |-> c, clip |-> MaxZoom(c), tile_mask |-> EncodeTileMask(m)])

(* downloadPackage with a mask that the server gives, with or without its  *)
(* zoom level, which then is the default one; it "may not be complete to   *)
(* the last zoom level", says MapPackageHandler::loadTile.                 *)
downloadPackage(p) ==
    \E v \in Versions, c \in Contents[p], k \in Clips :
       LET m == TileMask(c, k)
           clipped(given) == IF Len(given) > 1 \/ k <= DEFAULT_TILEMASK_ZOOMLEVEL
                             THEN k ELSE DEFAULT_TILEMASK_ZOOMLEVEL
       IN  \E given \in {<<m.value>>, <<m.value, m.maxZoom>>} :
              Install(p, [version |-> v, tiles |-> c, clip |-> clipped(given),
                          tile_mask |-> EncodeTileMask(DecodeTileMask(given))])

(* The listener, told that packages were added. *)
onPackagesChanged ==
    /\ untold /\ untold' = FALSE
    /\ open' = <<>>
    /\ UNCHANGED <<rows, obsolete, reader>>

(* What may be deleted next: the older version, or what a task removes.    *)
Deletable == IF obsolete = {} THEN Installed ELSE obsolete

Deleted(info) ==
    /\ rows' = [rows EXCEPT ![info.package] = IF @.version = info.version THEN NoRow ELSE @]
    /\ obsolete' = obsolete \ {info}

(* Mutants: without the file mutex; the listener keeps its handlers.       *)
deleteLocalPackageUnlocked(info) ==
    /\ ~untold /\ info \in Deletable
    /\ Deleted(info) /\ open' = <<>>
    /\ UNCHANGED <<untold, reader>>

deleteLocalPackageSilently(info) ==
    /\ ~untold /\ info \in Deletable /\ ~reader.reading
    /\ Deleted(info)
    /\ UNCHANGED <<untold, open, reader>>

(* The row is deleted and the listener told with the file mutex held,      *)
(* which loadTile holds while it has the map.                              *)
deleteLocalPackage(info) ==
    /\ ~untold /\ info \in Deletable /\ ~reader.reading
    /\ Deleted(info) /\ open' = <<>>
    /\ UNCHANGED <<untold, reader>>

-----------------------------------------------------------------------------
(* loadTile: accessLocalPackages takes the map under the file mutex ...    *)
BeginLoad ==
    /\ ~reader.reading
    /\ reader' = [reading |-> TRUE, infos |-> Installed]
    /\ UNCHANGED <<rows, untold, obsolete, open>>

HasData(info, t) == t \in info.tiles

(* Mutant: a package with a mask is not asked whether the mask has it. *)
EndsSearchUnasked(info, t) == info.mask # NoMask \/ HasData(info, t)

(* A package ends the search if its mask has the tile, whether its file    *)
(* does or not; one without a mask, if it has data.                        *)
EndsSearch(info, t) ==
    IF info.mask # NoMask THEN IsFull(info.mask, t) ELSE HasData(info, t)

(* The fast path takes the first open package that ends the search, the    *)
(* slow path any one of the map, which is ordered by addresses.            *)
FirstOpen(t) ==
    {i \in DOMAIN open : EndsSearch(open[i], t) /\ \A j \in 1 .. (i - 1) : ~EndsSearch(open[j], t)}

Servers(t) ==
    IF FirstOpen(t) # {} THEN {open[i] : i \in FirstOpen(t)}
    ELSE {info \in reader.infos : EndsSearch(info, t)}

(* An open package that is used comes to the front; one that is opened,    *)
(* too, and the last one may have to leave.                                *)
Rotated(i) == [j \in DOMAIN open |-> IF j = 1 THEN open[i] ELSE IF j <= i THEN open[j - 1] ELSE open[j]]

Opened(info) ==
    [j \in 1 .. (IF Len(open) < MAX_OPEN_PACKAGES THEN Len(open) + 1 ELSE MAX_OPEN_PACKAGES) |->
        IF j = 1 THEN info ELSE open[j - 1]]

(* ... and its callback searches it. *)
loadTile(t) ==
    /\ reader.reading /\ reader' = NoReader
    /\ \/ \E i \in FirstOpen(t) : open' = Rotated(i)
       \/ FirstOpen(t) = {} /\ \E info \in Servers(t) : open' = Opened(info)
       \/ Servers(t) = {} /\ UNCHANGED open
    /\ UNCHANGED <<rows, untold, obsolete>>

Next ==
    \/ \E p \in Packages : importPackage(p) \/ downloadPackage(p)
    \/ onPackagesChanged \/ \E info \in Deletable : deleteLocalPackage(info)
    \/ BeginLoad \/ \E t \in Tiles : loadTile(t)

Spec == Init /\ [][Next]_vars

-----------------------------------------------------------------------------
(* The tile at zoom level z that t is in, or t if that is not below z.     *)
Ancestor(tile, z) ==
    LET Above[t \in MapTile] == IF Zoom(t) <= z THEN t ELSE Above[Parent(t)]
    IN  Above[tile]

(* The mask of an installed package, made of its tiles or by the server,   *)
(* written to the database and read again, has exactly the tiles of the    *)
(* package down to the zoom level it was clipped to, and below it all the  *)
(* tiles under one that it has.                                            *)
MasksAreTrue ==
    \A info \in Installed : info.mask = NoMask \/
       \A t \in Tiles :
          IsFull(info.mask, t) <=> /\ Zoom(t) <= info.mask.maxZoom
                                   /\ Ancestor(t, info.clip) \in info.tiles

(* A tile of an installed package is found, whichever handlers are open    *)
(* and whatever other packages are asked first, as far as masks are not    *)
(* clipped above it; and tiles come from packages, and versions, that are  *)
(* installed or not deleted yet: a loadTile whose map is older than a      *)
(* notification brings nothing back.                                       *)
TilesAreFound ==
    reader.reading =>
       LET asked == reader.infos \cup Range(open)
           there == Installed \cup obsolete
       IN  \A t \in Tiles :
              /\ (\A info \in asked : Zoom(t) <= info.clip) /\ (\E info \in reader.infos : HasData(info, t))
                    => Servers(t) # {} /\ \A info \in Servers(t) : HasData(info, t)
              /\ Servers(t) \subseteq there

(* The data source reads its packages as LocalPackages lets it, which is   *)
(* what PackageManager implements from the other side: what it has of a    *)
(* version, it was lent, and it lets it go with the notification.          *)
VersionsIn(infos) == {<<info.package, info.version>> : info \in infos}

Manager == INSTANCE LocalPackages WITH
    installed <- {<<p, rows[p].version>> : p \in HasRow},
    obsolete <- VersionsIn(obsolete), untold <- untold,
    reading <- reader.reading, lent <- VersionsIn(reader.infos), kept <- VersionsIn(Range(open))
ReadsLocalPackages == Manager!Spec
=============================================================================
