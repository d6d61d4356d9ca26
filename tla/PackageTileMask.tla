--------------------------- MODULE PackageTileMask ---------------------------
(***************************************************************************)
(* packagemanager/PackageTileMask.cpp: which tiles a package has, as a     *)
(* tree of quadrants, the tree as a string, and the string as it is kept   *)
(* in the database and in the package list (EncodeTileMask and             *)
(* DecodeTileMask of PackageManager.cpp).                                  *)
(*                                                                         *)
(* A tile is <<zoom, x, y>>, a node a record of inside and of its four sub *)
(* nodes, or none; its place in the tree stands for its coordinates.  A    *)
(* character is its number in the alphabet of Base64, so that the two      *)
(* alphabets (getURLSafeStringValue) are one.  The functions that call     *)
(* themselves are functions here, too, over the tiles of the supported     *)
(* zoom levels or over the places of the data.                             *)
(***************************************************************************)
EXTENDS Integers, Sequences

CONSTANTS DEFAULT_TILEMASK_ZOOMLEVEL, MAX_SUPPORTED_ZOOM_LEVEL

ASSUME ZoomAssumption ==
    DEFAULT_TILEMASK_ZOOMLEVEL \in Nat /\ MAX_SUPPORTED_ZOOM_LEVEL \in Nat

MapTile == (0 .. MAX_SUPPORTED_ZOOM_LEVEL) \X Nat \X Nat
Zoom(t) == t[1]
RootTile == <<0, 0, 0>>
Parent(t) == <<t[1] - 1, t[2] \div 2, t[3] \div 2>>
SubTile(t, idx) == <<t[1] + 1, 2 * t[2] + (idx % 2), 2 * t[3] + (idx \div 2)>>

Leaf(b) == [inside |-> b, subNodes |-> <<>>]
Divided(node) == node.subNodes # <<>>

-----------------------------------------------------------------------------
(* Mutant: divided sub nodes are given up, too. *)
KeepIfOutside(sub) == \E i \in 1 .. 4 : ~sub[i].inside

(* The tree of a set of tiles, down to clipZoom.  Four sub nodes that are  *)
(* inside and undivided are given up.                                      *)
KeepSubNodes(sub) == \E i \in 1 .. 4 : ~sub[i].inside \/ Divided(sub[i])

BuildTileNode(tiles, tile, clipZoom) ==
    LET Build[t \in MapTile] ==
            IF t \notin tiles \/ Zoom(t) >= clipZoom THEN Leaf(t \in tiles)
            ELSE LET sub == [i \in 1 .. 4 |-> Build[SubTile(t, i - 1)]]
                 IN  [inside |-> TRUE, subNodes |-> IF KeepSubNodes(sub) THEN sub ELSE <<>>]
    IN  Build[tile]

-----------------------------------------------------------------------------
(* findTileNode.  An undivided node answers for all below it; one that is  *)
(* not inside stands for a null pointer, which getTileStatus does not tell *)
(* apart.                                                                  *)
FindTileNode(root, tile) ==
    LET Find[t \in MapTile] ==
            IF Zoom(t) = 0 THEN IF t = RootTile THEN root ELSE Leaf(FALSE)
            ELSE LET node == Find[Parent(t)]
                 IN  IF Divided(node) THEN node.subNodes[1 + (t[2] % 2) + 2 * (t[3] % 2)] ELSE node
    IN  Find[tile]

-----------------------------------------------------------------------------
(* The tree as bits, in preorder, and back.  The bits that encodeBase64    *)
(* appends are not read; where the data ends too early, data.at throws,    *)
(* which is not for the masks of this model.                               *)
Bit(b) == IF b THEN 1 ELSE 0

EncodeTileNode(root, tile) ==
    LET Encode[t \in MapTile] ==
            LET node == FindTileNode(root, t)
            IN  <<Bit(Divided(node)), Bit(node.inside)>> \o
                IF Divided(node)
                THEN Encode[SubTile(t, 0)] \o Encode[SubTile(t, 1)]
                     \o Encode[SubTile(t, 2)] \o Encode[SubTile(t, 3)]
                ELSE <<>>
    IN  Encode[tile]

DecodeTileNode(data, offset) ==
    LET Decode[o \in Nat] ==
            IF o + 1 > Len(data) THEN [node |-> Leaf(FALSE), offset |-> o + 2]
            ELSE IF data[o] = 0 THEN [node |-> Leaf(data[o + 1] = 1), offset |-> o + 2]
            ELSE LET a == Decode[o + 2]
                     b == Decode[a.offset]
                     c == Decode[b.offset]
                     d == Decode[c.offset]
                 IN  [node |-> [inside |-> data[o + 1] = 1,
                                subNodes |-> <<a.node, b.node, c.node, d.node>>],
                      offset |-> d.offset]
    IN  Decode[offset]

(* Six bits are a character, the first one the highest; the data is filled *)
(* up to whole groups of four characters.                                  *)
encodeBase64(data) ==
    LET padded == data \o [i \in 1 .. ((-Len(data)) % 24) |-> 0]
        bit(i, j) == padded[6 * (i - 1) + j]
    IN  [i \in 1 .. Len(padded) \div 6 |->
            32 * bit(i, 1) + 16 * bit(i, 2) + 8 * bit(i, 3) + 4 * bit(i, 4) + 2 * bit(i, 5) + bit(i, 6)]

decodeBase64(chars) ==
    [i \in 1 .. 6 * Len(chars) |->
        (chars[(i + 5) \div 6] \div <<32, 16, 8, 4, 2, 1>>[1 + ((i - 1) % 6)]) % 2]

-----------------------------------------------------------------------------
(* A mask: what the constructor makes of a list of tiles, ...              *)
MaxZoom(tiles) == CHOOSE z \in {0} \cup {Zoom(t) : t \in tiles} : \A t \in tiles : Zoom(t) <= z

TileMask(tiles, clipZoom) ==
    LET root == BuildTileNode(tiles, RootTile, clipZoom)
    IN  [value |-> encodeBase64(EncodeTileNode(root, RootTile)),
         maxZoom |-> MaxZoom(tiles), root |-> root]

(* ... no mask (a null pointer), and a mask as the parts of a string.  The *)
(* root node is decoded when it is first asked for, and kept.              *)
RootNode(value) == DecodeTileNode(decodeBase64(value), 1).node

NoMask == [value |-> <<>>, maxZoom |-> 0, root |-> Leaf(FALSE)]

EncodeTileMask(mask) == IF mask = NoMask THEN <<>> ELSE <<mask.value, mask.maxZoom>>

DecodeTileMask(parts) ==
    IF parts = <<>> THEN NoMask
    ELSE [value |-> parts[1],
          maxZoom |-> IF Len(parts) > 1 THEN parts[2] ELSE DEFAULT_TILEMASK_ZOOMLEVEL,
          root |-> RootNode(parts[1])]

(* getTileStatus is PACKAGE_TILE_STATUS_FULL. *)
IsFull(mask, t) == Zoom(t) <= mask.maxZoom /\ FindTileNode(mask.root, t).inside
=============================================================================
