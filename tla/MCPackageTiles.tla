---------------------------- MODULE MCPackageTiles ----------------------------
(* An instance of PackageManagerTileDataSource for TLC: a package with     *)
(* tiles down to zoom level 2, and another one that has some of them.      *)
EXTENDS PackageManagerTileDataSource, TLC

CONSTANTS p, q, v1, v2

TwoPackages == {p, q}
TwoVersions == {v1, v2}
VersionSymmetry == Permutations(TwoVersions)

Quadrants == {SubTile(RootTile, i) : i \in 0 .. 3}
Below(i) == {SubTile(SubTile(RootTile, i), j) : j \in 0 .. 3}
TilesToZoom2 == {RootTile} \cup Quadrants \cup UNION {Below(i) : i \in 0 .. 3}

(* All tiles of one quadrant and one of another; two quadrants, one with   *)
(* all its tiles; all quadrants and nothing below; everything; nothing.    *)
Shapes == {{RootTile} \cup Quadrants \cup Below(0) \cup {<<2, 3, 2>>},
           {RootTile, <<1, 0, 0>>, <<1, 1, 1>>} \cup Below(3),
           {RootTile} \cup Quadrants, TilesToZoom2, {}}
Some == {{RootTile, <<1, 0, 0>>, <<2, 0, 0>>}}
TwoContents == p :> Shapes @@ q :> Some
ThreeClips == 0 .. 2
=============================================================================
