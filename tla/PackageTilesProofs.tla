-------------------------- MODULE PackageTilesProofs --------------------------
(***************************************************************************)
(* For all sets of packages, tiles and contents, and all zoom levels to    *)
(* which masks are clipped: the mask of an installed package is true, and  *)
(* loadTile finds the tiles of the installed packages; and the data source *)
(* implements LocalPackages.                                               *)
(*                                                                         *)
(* The functions of PackageTileMask that call themselves are defined here  *)
(* by what they return (the lemmas on ...Def), by induction over the zoom  *)
(* levels, or over the places of the data; from these follow, in the same  *)
(* way, what BuildTileNode builds, what FindTileNode finds in it, that its *)
(* bits are decoded to the same tree, and so what a mask says of a tile.   *)
(***************************************************************************)
EXTENDS PackageManagerTileDataSource, WellFoundedInduction, TLAPS

(* A set of naturals has a least element; and the two inductions over the  *)
(* zoom levels that rest on it.                                            *)
LEMMA LeastElement ==
    ASSUME NEW S \in SUBSET Nat, S # {}
    PROVE  \E x \in S : \A y \in S : x <= y
<1> DEFINE R == {p \in Nat \X Nat : p[1] < p[2]}
<1>1. OpToRel(<, Nat) = R
  BY DEF OpToRel
<1>2. IsWellFoundedOn(R, Nat)
  BY <1>1, NatLessThanWellFounded
<1>3. PICK x \in S : \A y \in S : <<y, x>> \notin R
  <2> HIDE DEF R
  <2> QED
    BY <1>2, WFMin
<1>4. ASSUME NEW y \in S PROVE x <= y
  <2>1. x \in Nat /\ y \in Nat /\ <<y, x>> \in Nat \X Nat
    OBVIOUS
  <2>2. ~(y < x)
    BY <1>3, <1>4, <2>1
  <2> QED
    BY <2>1, <2>2
<1> QED
  BY <1>4

LEMMA Downwards ==
    ASSUME NEW n \in Nat, NEW S, n \in S, \A z \in 1 .. n : z \in S => z - 1 \in S
    PROVE  \A z \in 0 .. n : z \in S
<1> DEFINE T == {i \in 0 .. n : n - i \notin S}
<1> SUFFICES ASSUME T # {} PROVE FALSE
  <2>1. T = {} => \A z \in 0 .. n : n - (n - z) = z /\ n - z \in 0 .. n
    OBVIOUS
  <2>2. T = {} => \A z \in 0 .. n : n - (n - z) \in S
    BY <2>1
  <2> QED
    BY <2>1, <2>2
<1>1. PICK i \in T : \A j \in T : i <= j
  <2>1. T \in SUBSET Nat
    OBVIOUS
  <2> HIDE DEF T
  <2> QED
    BY <2>1, LeastElement
<1>2. i # 0
  BY <1>1
<1>3. i - 1 \in 0 .. n /\ i - 1 \notin T
  <2>1. i \in 0 .. n
    BY <1>1
  <2> HIDE DEF T
  <2> QED
    BY <1>1, <1>2, <2>1
<1>4. n - (i - 1) \in S /\ n - (i - 1) \in 1 .. n /\ n - (i - 1) - 1 = n - i
  BY <1>3, <1>2, <1>1
<1> QED
  BY <1>1, <1>4

LEMMA Upwards ==
    ASSUME NEW n \in Nat, NEW S, 0 \in S, \A z \in 1 .. n : z - 1 \in S => z \in S
    PROVE  \A z \in 0 .. n : z \in S
<1> DEFINE T == {z \in 0 .. n : z \notin S}
<1> SUFFICES ASSUME T # {} PROVE FALSE
  OBVIOUS
<1>1. PICK z \in T : \A j \in T : z <= j
  <2>1. T \in SUBSET Nat
    OBVIOUS
  <2> HIDE DEF T
  <2> QED
    BY <2>1, LeastElement
<1>2. z \in 1 .. n /\ z \notin S
  BY <1>1
<1>3. z - 1 \in 0 .. n /\ ~(z <= z - 1)
  BY <1>2
<1>4. z - 1 \in S
  BY <1>1, <1>3
<1> QED
  BY <1>2, <1>4

(* The tiles of the supported zoom levels, their sub tiles and their       *)
(* parents.                                                                *)
LEMMA TileParts ==
    ASSUME NEW t \in MapTile
    PROVE  /\ t = <<t[1], t[2], t[3]>>
           /\ t[1] \in 0 .. MAX_SUPPORTED_ZOOM_LEVEL /\ t[2] \in Nat /\ t[3] \in Nat
BY DEF MapTile

LEMMA SubTileType ==
    ASSUME NEW t \in MapTile, Zoom(t) < MAX_SUPPORTED_ZOOM_LEVEL, NEW i \in 0 .. 3
    PROVE  SubTile(t, i) \in MapTile /\ Zoom(SubTile(t, i)) = Zoom(t) + 1
BY TileParts, ZoomAssumption DEF SubTile, Zoom, MapTile

LEMMA ParentType ==
    ASSUME NEW t \in MapTile, Zoom(t) # 0
    PROVE  /\ Parent(t) \in MapTile /\ Zoom(Parent(t)) = Zoom(t) - 1
           /\ Zoom(Parent(t)) < MAX_SUPPORTED_ZOOM_LEVEL
           /\ t[2] % 2 \in 0 .. 1 /\ t[3] % 2 \in 0 .. 1
           /\ (t[2] % 2) + 2 * (t[3] % 2) \in 0 .. 3
           /\ t = SubTile(Parent(t), (t[2] % 2) + 2 * (t[3] % 2))
<1>1. t = <<t[1], t[2], t[3]>> /\ t[1] \in Nat /\ t[1] <= MAX_SUPPORTED_ZOOM_LEVEL /\ t[1] # 0
       /\ t[2] \in Nat /\ t[3] \in Nat
  BY TileParts, ZoomAssumption DEF Zoom
<1>2. ASSUME NEW n \in Nat PROVE n \div 2 \in Nat /\ n % 2 \in 0 .. 1 /\ n = 2 * (n \div 2) + (n % 2)
  OBVIOUS
<1>3. Parent(t) \in MapTile /\ Zoom(Parent(t)) = Zoom(t) - 1 /\ Zoom(Parent(t)) < MAX_SUPPORTED_ZOOM_LEVEL
  <2>1. t[2] \div 2 \in Nat /\ t[3] \div 2 \in Nat
    BY <1>1, <1>2
  <2>2. t[1] - 1 \in 0 .. MAX_SUPPORTED_ZOOM_LEVEL /\ t[1] - 1 < MAX_SUPPORTED_ZOOM_LEVEL
    BY <1>1, ZoomAssumption
  <2> QED
    BY <2>1, <2>2 DEF Parent, Zoom, MapTile
<1> DEFINE i == (t[2] % 2) + 2 * (t[3] % 2)
<1>4. t[2] % 2 \in 0 .. 1 /\ t[3] % 2 \in 0 .. 1
  BY <1>1, <1>2
<1>5. i \in 0 .. 3 /\ i % 2 = t[2] % 2 /\ i \div 2 = t[3] % 2
  BY <1>4
<1>6. SubTile(Parent(t), i) = <<t[1], t[2], t[3]>>
  <2>1. t[1] - 1 + 1 = t[1] /\ 2 * (t[2] \div 2) + (i % 2) = t[2] /\ 2 * (t[3] \div 2) + (i \div 2) = t[3]
    BY <1>1, <1>2, <1>5
  <2> HIDE DEF i
  <2> QED
    BY <2>1 DEF SubTile, Parent
<1> QED
  BY <1>1, <1>3, <1>4, <1>5, <1>6

-----------------------------------------------------------------------------
(* The node of a tile is made of the nodes of its sub tiles.               *)
LEMMA BuildTileNodeDef ==
    ASSUME NEW c, NEW k \in 0 .. MAX_SUPPORTED_ZOOM_LEVEL, NEW t \in MapTile
    PROVE  LET sub == [i \in 1 .. 4 |-> BuildTileNode(c, SubTile(t, i - 1), k)]
           IN  BuildTileNode(c, t, k) =
                 IF t \notin c \/ Zoom(t) >= k THEN Leaf(t \in c)
                 ELSE [inside |-> TRUE, subNodes |-> IF KeepSubNodes(sub) THEN sub ELSE <<>>]
<1> DEFINE Body(g, u) ==
             IF u \notin c \/ Zoom(u) >= k THEN Leaf(u \in c)
             ELSE LET sub == [i \in 1 .. 4 |-> g[SubTile(u, i - 1)]]
                  IN  [inside |-> TRUE, subNodes |-> IF KeepSubNodes(sub) THEN sub ELSE <<>>]
           Build == CHOOSE g : g = [u \in MapTile |-> Body(g, u)]
           From(z) == {u \in MapTile : Zoom(u) >= z}
           Exists(z) == \E g : g = [u \in From(z) |-> Body(g, u)]
<1>1. Exists(k)
  <2>1. \A g : \A u \in From(k) : Body(g, u) = Leaf(u \in c)
    BY TileParts, ZoomAssumption DEF Zoom
  <2>2. [u \in From(k) |-> Leaf(u \in c)] = [u \in From(k) |-> Body([v \in From(k) |-> Leaf(v \in c)], u)]
    <3> HIDE DEF Body, From
    <3> QED
      BY <2>1
  <2> QED
    BY <2>2
<1>2. ASSUME NEW z \in 0 .. k, z # 0, Exists(z) PROVE Exists(z - 1)
  <2>1. PICK g : g = [u \in From(z) |-> Body(g, u)]
    BY <1>2
  <2> DEFINE h == [u \in From(z - 1) |-> IF u \in From(z) THEN g[u] ELSE Body(g, u)]
  <2>2. ASSUME NEW u \in From(z - 1), Zoom(u) < k, NEW i \in 0 .. 3
        PROVE  SubTile(u, i) \in From(z) /\ SubTile(u, i) \in From(z - 1)
    <3>1. u \in MapTile /\ Zoom(u) >= z - 1 /\ Zoom(u) \in Int /\ z \in Int
      BY <1>2, <2>2, TileParts, ZoomAssumption DEF Zoom
    <3>2. Zoom(u) < MAX_SUPPORTED_ZOOM_LEVEL
      BY <2>2, <3>1, ZoomAssumption
    <3>3. SubTile(u, i) \in MapTile /\ Zoom(SubTile(u, i)) = Zoom(u) + 1
      BY <3>1, <3>2, SubTileType
    <3>4. Zoom(SubTile(u, i)) >= z /\ Zoom(SubTile(u, i)) >= z - 1
      BY <3>1, <3>3
    <3> QED
      BY <3>3, <3>4
  <2>3. ASSUME NEW u \in From(z - 1) PROVE Body(h, u) = Body(g, u)
    <3>1. CASE Zoom(u) >= k
      <4> HIDE DEF h
      <4> QED
        BY <3>1
    <3>2. CASE ~(Zoom(u) >= k)
      <4>1. \A i \in 1 .. 4 : i - 1 \in 0 .. 3
        OBVIOUS
      <4>2. \A i \in 1 .. 4 : h[SubTile(u, i - 1)] = g[SubTile(u, i - 1)]
        <5>1. Zoom(u) < k
          BY <3>2, TileParts, ZoomAssumption DEF Zoom
        <5> HIDE DEF From, Body
        <5> QED
          BY <2>2, <4>1, <5>1
      <4>3. [i \in 1 .. 4 |-> h[SubTile(u, i - 1)]] = [i \in 1 .. 4 |-> g[SubTile(u, i - 1)]]
        <5> HIDE DEF h
        <5> QED
          BY <4>2
      <4> HIDE DEF h
      <4> QED
        BY <4>3
    <3> QED
      BY <3>1, <3>2
  <2>4. ASSUME NEW u \in From(z - 1) PROVE h[u] = Body(h, u)
    <3> HIDE DEF From, Body
    <3>1. u \in From(z) => g[u] = Body(g, u)
      BY <2>1
    <3> QED
      BY <2>3, <3>1
  <2>5. h = [u \in From(z - 1) |-> Body(h, u)]
    <3> HIDE DEF From, Body
    <3>2. h = [u \in From(z - 1) |-> h[u]]
      OBVIOUS
    <3> HIDE DEF h
    <3> QED
      BY <2>4, <3>2
  <2> QED
    BY <2>5
<1>3. Exists(0)
  <2> HIDE DEF Exists
  <2> DEFINE S == {z \in 0 .. k : Exists(z)}
  <2>1. k \in Nat /\ k \in S /\ \A z \in 1 .. k : z \in S => z - 1 \in S
    BY <1>1, <1>2, ZoomAssumption
  <2>2. 0 \in S
    <3> HIDE DEF S
    <3> QED
      BY <2>1, Downwards
  <2> QED
    BY <2>2
<1>4. Build = [u \in MapTile |-> Body(Build, u)]
  <2>1. From(0) = MapTile
    BY TileParts, ZoomAssumption DEF Zoom
  <2> HIDE DEF Body, From
  <2> QED
    BY <1>3, <2>1
<1>5. \A u : BuildTileNode(c, u, k) = Build[u]
  BY DEF BuildTileNode
<1>6. Build[t] = Body(Build, t)
  <2> HIDE DEF Build, Body
  <2> QED
    BY <1>4
<1>7. Body(Build, t) = IF t \notin c \/ Zoom(t) >= k THEN Leaf(t \in c)
                       ELSE LET sub == [i \in 1 .. 4 |-> BuildTileNode(c, SubTile(t, i - 1), k)]
                            IN  [inside |-> TRUE, subNodes |-> IF KeepSubNodes(sub) THEN sub ELSE <<>>]
  <2>1. [i \in 1 .. 4 |-> Build[SubTile(t, i - 1)]] = [i \in 1 .. 4 |-> BuildTileNode(c, SubTile(t, i - 1), k)]
    <3> HIDE DEF Build
    <3> QED
      BY <1>5
  <2> HIDE DEF Build
  <2> QED
    BY <2>1
<1> QED
  <2> HIDE DEF Build, Body
  <2> QED
    BY <1>5, <1>6, <1>7

-----------------------------------------------------------------------------
(* The node that is found for a tile is found from that of its parent.     *)
LEMMA FindTileNodeDef ==
    ASSUME NEW root, NEW t \in MapTile
    PROVE  FindTileNode(root, t) =
             IF Zoom(t) = 0 THEN IF t = RootTile THEN root ELSE Leaf(FALSE)
             ELSE LET node == FindTileNode(root, Parent(t))
                  IN  IF Divided(node) THEN node.subNodes[1 + (t[2] % 2) + 2 * (t[3] % 2)] ELSE node
<1> DEFINE Body(g, u) ==
             IF Zoom(u) = 0 THEN IF u = RootTile THEN root ELSE Leaf(FALSE)
             ELSE LET node == g[Parent(u)]
                  IN  IF Divided(node) THEN node.subNodes[1 + (u[2] % 2) + 2 * (u[3] % 2)] ELSE node
           Find == CHOOSE g : g = [u \in MapTile |-> Body(g, u)]
           UpTo(z) == {u \in MapTile : Zoom(u) <= z}
           Exists(z) == \E g : g = [u \in UpTo(z) |-> Body(g, u)]
           Top(u) == IF u = RootTile THEN root ELSE Leaf(FALSE)
<1>1. Exists(0)
  <2>1. \A g : \A u \in UpTo(0) : Body(g, u) = Top(u)
    <3>1. \A u \in UpTo(0) : Zoom(u) = 0
      BY TileParts, ZoomAssumption DEF Zoom
    <3> HIDE DEF UpTo
    <3> QED
      BY <3>1
  <2>2. [u \in UpTo(0) |-> Top(u)] = [u \in UpTo(0) |-> Body([v \in UpTo(0) |-> Top(v)], u)]
    <3> HIDE DEF Body, UpTo, Top
    <3> QED
      BY <2>1
  <2> QED
    BY <2>2
<1>2. ASSUME NEW z \in 1 .. MAX_SUPPORTED_ZOOM_LEVEL, Exists(z - 1) PROVE Exists(z)
  <2>1. PICK g : g = [u \in UpTo(z - 1) |-> Body(g, u)]
    BY <1>2
  <2> DEFINE h == [u \in UpTo(z) |-> IF u \in UpTo(z - 1) THEN g[u] ELSE Body(g, u)]
  <2>2. ASSUME NEW u \in UpTo(z), Zoom(u) # 0
        PROVE  Parent(u) \in UpTo(z - 1) /\ Parent(u) \in UpTo(z)
    <3>1. u \in MapTile /\ Zoom(u) <= z /\ Zoom(u) \in Int /\ z \in Int
      BY <1>2, <2>2, TileParts, ZoomAssumption DEF Zoom
    <3>2. Parent(u) \in MapTile /\ Zoom(Parent(u)) = Zoom(u) - 1
      BY <2>2, <3>1, ParentType
    <3> QED
      BY <3>1, <3>2
  <2>3. ASSUME NEW u \in UpTo(z) PROVE Body(h, u) = Body(g, u)
    <3>1. Zoom(u) # 0 => h[Parent(u)] = g[Parent(u)]
      <4> HIDE DEF UpTo, Body
      <4> QED
        BY <2>2
    <3> HIDE DEF h
    <3> QED
      BY <3>1
  <2>4. ASSUME NEW u \in UpTo(z) PROVE h[u] = Body(h, u)
    <3> HIDE DEF UpTo, Body
    <3>1. u \in UpTo(z - 1) => g[u] = Body(g, u)
      BY <2>1
    <3> QED
      BY <2>3, <3>1
  <2>5. h = [u \in UpTo(z) |-> Body(h, u)]
    <3> HIDE DEF UpTo, Body
    <3>1. h = [u \in UpTo(z) |-> h[u]]
      OBVIOUS
    <3> HIDE DEF h
    <3> QED
      BY <2>4, <3>1
  <2> QED
    BY <2>5
<1>3. Exists(MAX_SUPPORTED_ZOOM_LEVEL)
  <2> HIDE DEF Exists
  <2> DEFINE S == {z \in 0 .. MAX_SUPPORTED_ZOOM_LEVEL : Exists(z)}
  <2>1. 0 \in S /\ \A z \in 1 .. MAX_SUPPORTED_ZOOM_LEVEL : z - 1 \in S => z \in S
    BY <1>1, <1>2, ZoomAssumption
  <2>2. MAX_SUPPORTED_ZOOM_LEVEL \in S
    <3> HIDE DEF S
    <3> QED
      BY <2>1, Upwards, ZoomAssumption
  <2> QED
    BY <2>2
<1>4. Find = [u \in MapTile |-> Body(Find, u)]
  <2>1. UpTo(MAX_SUPPORTED_ZOOM_LEVEL) = MapTile
    BY TileParts, ZoomAssumption DEF Zoom
  <2> HIDE DEF Body, UpTo
  <2> QED
    BY <1>3, <2>1
<1>5. \A u : FindTileNode(root, u) = Find[u]
  BY DEF FindTileNode
<1>6. Find[t] = Body(Find, t)
  <2> HIDE DEF Find, Body
  <2> QED
    BY <1>4
<1> QED
  <2> HIDE DEF Find
  <2> QED
    BY <1>5, <1>6

(* The tile above a tile, one zoom level at a time.                        *)
LEMMA AncestorDef ==
    ASSUME NEW k \in Nat, NEW t \in MapTile
    PROVE  Ancestor(t, k) = IF Zoom(t) <= k THEN t ELSE Ancestor(Parent(t), k)
<1> DEFINE Body(g, u) == IF Zoom(u) <= k THEN u ELSE g[Parent(u)]
           Above == CHOOSE g : g = [u \in MapTile |-> Body(g, u)]
           UpTo(z) == {u \in MapTile : Zoom(u) <= z}
           Exists(z) == \E g : g = [u \in UpTo(z) |-> Body(g, u)]
<1>1. Exists(0)
  <2>1. \A g : \A u \in UpTo(0) : Body(g, u) = u
    BY TileParts, ZoomAssumption DEF Zoom
  <2>2. [u \in UpTo(0) |-> u] = [u \in UpTo(0) |-> Body([v \in UpTo(0) |-> v], u)]
    <3> HIDE DEF Body, UpTo
    <3> QED
      BY <2>1
  <2> QED
    BY <2>2
<1>2. ASSUME NEW z \in 1 .. MAX_SUPPORTED_ZOOM_LEVEL, Exists(z - 1) PROVE Exists(z)
  <2>1. PICK g : g = [u \in UpTo(z - 1) |-> Body(g, u)]
    BY <1>2
  <2> DEFINE h == [u \in UpTo(z) |-> IF u \in UpTo(z - 1) THEN g[u] ELSE Body(g, u)]
  <2>2. ASSUME NEW u \in UpTo(z), ~(Zoom(u) <= k)
        PROVE  Parent(u) \in UpTo(z - 1) /\ Parent(u) \in UpTo(z)
    <3>1. u \in MapTile /\ Zoom(u) <= z /\ Zoom(u) \in Int /\ z \in Int /\ Zoom(u) # 0
      BY <1>2, <2>2, TileParts, ZoomAssumption DEF Zoom
    <3>2. Parent(u) \in MapTile /\ Zoom(Parent(u)) = Zoom(u) - 1
      BY <3>1, ParentType
    <3> QED
      BY <3>1, <3>2
  <2>3. ASSUME NEW u \in UpTo(z) PROVE Body(h, u) = Body(g, u)
    <3>1. ~(Zoom(u) <= k) => h[Parent(u)] = g[Parent(u)]
      <4> HIDE DEF UpTo, Body
      <4> QED
        BY <2>2
    <3> HIDE DEF h
    <3> QED
      BY <3>1
  <2>4. ASSUME NEW u \in UpTo(z) PROVE h[u] = Body(h, u)
    <3> HIDE DEF UpTo, Body
    <3>1. u \in UpTo(z - 1) => g[u] = Body(g, u)
      BY <2>1
    <3> QED
      BY <2>3, <3>1
  <2>5. h = [u \in UpTo(z) |-> Body(h, u)]
    <3> HIDE DEF UpTo, Body
    <3>1. h = [u \in UpTo(z) |-> h[u]]
      OBVIOUS
    <3> HIDE DEF h
    <3> QED
      BY <2>4, <3>1
  <2> QED
    BY <2>5
<1>3. Exists(MAX_SUPPORTED_ZOOM_LEVEL)
  <2> HIDE DEF Exists
  <2> DEFINE S == {z \in 0 .. MAX_SUPPORTED_ZOOM_LEVEL : Exists(z)}
  <2>1. 0 \in S /\ \A z \in 1 .. MAX_SUPPORTED_ZOOM_LEVEL : z - 1 \in S => z \in S
    BY <1>1, <1>2, ZoomAssumption
  <2>2. MAX_SUPPORTED_ZOOM_LEVEL \in S
    <3> HIDE DEF S
    <3> QED
      BY <2>1, Upwards, ZoomAssumption
  <2> QED
    BY <2>2
<1>4. Above = [u \in MapTile |-> Body(Above, u)]
  <2>1. UpTo(MAX_SUPPORTED_ZOOM_LEVEL) = MapTile
    BY TileParts, ZoomAssumption DEF Zoom
  <2> HIDE DEF Body, UpTo
  <2> QED
    BY <1>3, <2>1
<1>5. \A u : Ancestor(u, k) = Above[u]
  BY DEF Ancestor
<1>6. Above[t] = Body(Above, t)
  <2> HIDE DEF Above, Body
  <2> QED
    BY <1>4
<1> QED
  <2> HIDE DEF Above
  <2> QED
    BY <1>5, <1>6

-----------------------------------------------------------------------------
(* The encoding of a node is that of its parts, for a tree that ends at    *)
(* the last zoom level.                                                    *)
LEMMA EncodeTileNodeDef ==
    ASSUME NEW root, NEW t \in MapTile,
           \A u \in MapTile : Divided(FindTileNode(root, u)) => Zoom(u) < MAX_SUPPORTED_ZOOM_LEVEL
    PROVE  EncodeTileNode(root, t) =
             <<Bit(Divided(FindTileNode(root, t))), Bit(FindTileNode(root, t).inside)>> \o
               IF Divided(FindTileNode(root, t))
               THEN EncodeTileNode(root, SubTile(t, 0)) \o EncodeTileNode(root, SubTile(t, 1))
                    \o EncodeTileNode(root, SubTile(t, 2)) \o EncodeTileNode(root, SubTile(t, 3))
               ELSE <<>>
<1> DEFINE Node(u) == FindTileNode(root, u)
           Bits(u) == <<Bit(Divided(Node(u))), Bit(Node(u).inside)>>
           Body(g, u) ==
             LET node == FindTileNode(root, u)
             IN  <<Bit(Divided(node)), Bit(node.inside)>> \o
                 IF Divided(node)
                 THEN g[SubTile(u, 0)] \o g[SubTile(u, 1)] \o g[SubTile(u, 2)] \o g[SubTile(u, 3)]
                 ELSE <<>>
           Encode == CHOOSE g : g = [u \in MapTile |-> Body(g, u)]
           From(z) == {u \in MapTile : Zoom(u) >= z}
           Exists(z) == \E g : g = [u \in From(z) |-> Body(g, u)]
<1>1. Exists(MAX_SUPPORTED_ZOOM_LEVEL)
  <2>1. \A g : \A u \in From(MAX_SUPPORTED_ZOOM_LEVEL) : Body(g, u) = Bits(u) \o <<>>
    <3>1. \A u \in From(MAX_SUPPORTED_ZOOM_LEVEL) : ~Divided(Node(u))
      BY TileParts, ZoomAssumption DEF Zoom
    <3> HIDE DEF From
    <3> QED
      BY <3>1
  <2>2. [u \in From(MAX_SUPPORTED_ZOOM_LEVEL) |-> Bits(u) \o <<>>] =
          [u \in From(MAX_SUPPORTED_ZOOM_LEVEL) |->
              Body([v \in From(MAX_SUPPORTED_ZOOM_LEVEL) |-> Bits(v) \o <<>>], u)]
    <3> HIDE DEF Body, From, Bits
    <3> QED
      BY <2>1
  <2> QED
    BY <2>2
<1>2. ASSUME NEW z \in 1 .. MAX_SUPPORTED_ZOOM_LEVEL, Exists(z) PROVE Exists(z - 1)
  <2>1. PICK g : g = [u \in From(z) |-> Body(g, u)]
    BY <1>2
  <2> DEFINE h == [u \in From(z - 1) |-> IF u \in From(z) THEN g[u] ELSE Body(g, u)]
  <2>2. ASSUME NEW u \in From(z - 1), Divided(Node(u)), NEW i \in 0 .. 3
        PROVE  SubTile(u, i) \in From(z) /\ SubTile(u, i) \in From(z - 1)
    <3>1. u \in MapTile /\ Zoom(u) >= z - 1 /\ Zoom(u) \in Int /\ z \in Int
      BY <1>2, <2>2, TileParts, ZoomAssumption DEF Zoom
    <3>2. Zoom(u) < MAX_SUPPORTED_ZOOM_LEVEL
      BY <2>2, <3>1
    <3>3. SubTile(u, i) \in MapTile /\ Zoom(SubTile(u, i)) = Zoom(u) + 1
      BY <3>1, <3>2, SubTileType
    <3>4. Zoom(SubTile(u, i)) >= z /\ Zoom(SubTile(u, i)) >= z - 1
      BY <3>1, <3>3
    <3> QED
      BY <3>3, <3>4
  <2>3. ASSUME NEW u \in From(z - 1) PROVE Body(h, u) = Body(g, u)
    <3>1. CASE Divided(Node(u))
      <4>1. ASSUME NEW i \in 0 .. 3 PROVE h[SubTile(u, i)] = g[SubTile(u, i)]
        <5> HIDE DEF From, Body, Node
        <5> QED
          BY <2>2, <3>1
      <4>2. /\ h[SubTile(u, 0)] = g[SubTile(u, 0)] /\ h[SubTile(u, 1)] = g[SubTile(u, 1)]
            /\ h[SubTile(u, 2)] = g[SubTile(u, 2)] /\ h[SubTile(u, 3)] = g[SubTile(u, 3)]
        <5> HIDE DEF h
        <5> QED
          BY <4>1
      <4> HIDE DEF h
      <4> QED
        BY <4>2
    <3>2. CASE ~Divided(Node(u))
      <4> HIDE DEF h
      <4> QED
        BY <3>2
    <3> QED
      BY <3>1, <3>2
  <2>4. ASSUME NEW u \in From(z - 1) PROVE h[u] = Body(h, u)
    <3> HIDE DEF From, Body
    <3>1. u \in From(z) => g[u] = Body(g, u)
      BY <2>1
    <3> QED
      BY <2>3, <3>1
  <2>5. h = [u \in From(z - 1) |-> Body(h, u)]
    <3> HIDE DEF From, Body
    <3>1. h = [u \in From(z - 1) |-> h[u]]
      OBVIOUS
    <3> HIDE DEF h
    <3> QED
      BY <2>4, <3>1
  <2> QED
    BY <2>5
<1>3. Exists(0)
  <2> HIDE DEF Exists
  <2> DEFINE S == {z \in 0 .. MAX_SUPPORTED_ZOOM_LEVEL : Exists(z)}
  <2>1. MAX_SUPPORTED_ZOOM_LEVEL \in S /\ \A z \in 1 .. MAX_SUPPORTED_ZOOM_LEVEL : z \in S => z - 1 \in S
    BY <1>1, <1>2, ZoomAssumption
  <2>2. 0 \in S
    <3> HIDE DEF S
    <3> QED
      BY <2>1, Downwards, ZoomAssumption
  <2> QED
    BY <2>2
<1>4. Encode = [u \in MapTile |-> Body(Encode, u)]
  <2>1. From(0) = MapTile
    BY TileParts, ZoomAssumption DEF Zoom
  <2> HIDE DEF Body, From
  <2> QED
    BY <1>3, <2>1
<1>5. \A u : EncodeTileNode(root, u) = Encode[u]
  BY DEF EncodeTileNode
<1>6. Encode[t] = Body(Encode, t)
  <2> HIDE DEF Encode, Body
  <2> QED
    BY <1>4
<1>7. CASE Divided(Node(t))
  <2>1. Encode[t] = Bits(t) \o (Encode[SubTile(t, 0)] \o Encode[SubTile(t, 1)]
                                \o Encode[SubTile(t, 2)] \o Encode[SubTile(t, 3)])
    <3> HIDE DEF Encode
    <3> QED
      BY <1>6, <1>7
  <2> HIDE DEF Encode, Bits, Body
  <2>2. EncodeTileNode(root, t) =
          Bits(t) \o (EncodeTileNode(root, SubTile(t, 0)) \o EncodeTileNode(root, SubTile(t, 1))
                      \o EncodeTileNode(root, SubTile(t, 2)) \o EncodeTileNode(root, SubTile(t, 3)))
    <3>1. /\ EncodeTileNode(root, t) = Encode[t]
          /\ EncodeTileNode(root, SubTile(t, 0)) = Encode[SubTile(t, 0)]
          /\ EncodeTileNode(root, SubTile(t, 1)) = Encode[SubTile(t, 1)]
          /\ EncodeTileNode(root, SubTile(t, 2)) = Encode[SubTile(t, 2)]
          /\ EncodeTileNode(root, SubTile(t, 3)) = Encode[SubTile(t, 3)]
      BY <1>5
    <3> QED
      BY <2>1, <3>1, Zenon
  <2> QED
    BY <1>7, <2>2 DEF Bits
<1>8. CASE ~Divided(Node(t))
  <2>1. Encode[t] = Bits(t) \o <<>>
    <3> HIDE DEF Encode
    <3> QED
      BY <1>6, <1>8
  <2> HIDE DEF Encode
  <2> QED
    BY <1>5, <1>8, <2>1
<1> QED
  BY <1>7, <1>8

-----------------------------------------------------------------------------
(* Decoding goes on to the right, whatever the data is.                    *)
LEMMA DecodeTileNodeDef ==
    ASSUME NEW data, Len(data) \in Nat, NEW o \in Nat
    PROVE  LET a == DecodeTileNode(data, o + 2)
               b == DecodeTileNode(data, a.offset)
               c == DecodeTileNode(data, b.offset)
               d == DecodeTileNode(data, c.offset)
           IN  DecodeTileNode(data, o) =
                 IF o + 1 > Len(data) THEN [node |-> Leaf(FALSE), offset |-> o + 2]
                 ELSE IF data[o] = 0 THEN [node |-> Leaf(data[o + 1] = 1), offset |-> o + 2]
                 ELSE [node |-> [inside |-> data[o + 1] = 1,
                                 subNodes |-> <<a.node, b.node, c.node, d.node>>],
                       offset |-> d.offset]
<1> DEFINE Body(g, u) ==
            IF u + 1 > Len(data) THEN [node |-> Leaf(FALSE), offset |-> u + 2]
            ELSE IF data[u] = 0 THEN [node |-> Leaf(data[u + 1] = 1), offset |-> u + 2]
            ELSE LET a == g[u + 2]
                     b == g[a.offset]
                     c == g[b.offset]
                     d == g[c.offset]
                 IN  [node |-> [inside |-> data[u + 1] = 1,
                                subNodes |-> <<a.node, b.node, c.node, d.node>>],
                      offset |-> d.offset]
           Decode == CHOOSE g : g = [u \in Nat |-> Body(g, u)]
           From(z) == {u \in Nat : u >= z}
           Exists(z) == \E g : /\ g = [u \in From(z) |-> Body(g, u)]
                               /\ \A u \in From(z) : g[u].offset \in Nat /\ g[u].offset > u
<1>1. Exists(Len(data))
  <2> DEFINE End(u) == [node |-> Leaf(FALSE), offset |-> u + 2]
             e == [u \in From(Len(data)) |-> End(u)]
  <2>1. \A g : \A u \in From(Len(data)) : Body(g, u) = End(u)
    <3>1. \A u \in From(Len(data)) : u + 1 > Len(data)
      OBVIOUS
    <3> HIDE DEF From
    <3> QED
      BY <3>1
  <2>2. e = [u \in From(Len(data)) |-> Body(e, u)]
    <3> HIDE DEF Body, From, End
    <3> QED
      BY <2>1
  <2>3. \A u \in From(Len(data)) : e[u].offset \in Nat /\ e[u].offset > u
    OBVIOUS
  <2> HIDE DEF e, Body, From
  <2> QED
    BY <2>2, <2>3
<1>2. ASSUME NEW z \in 1 .. Len(data), Exists(z) PROVE Exists(z - 1)
  <2>1. PICK g : /\ g = [u \in From(z) |-> Body(g, u)]
                 /\ \A u \in From(z) : g[u].offset \in Nat /\ g[u].offset > u
    BY <1>2
  <2> DEFINE h == [u \in From(z - 1) |-> IF u \in From(z) THEN g[u] ELSE Body(g, u)]
  <2>2. ASSUME NEW u \in From(z)
        PROVE  h[u] = g[u] /\ u \in From(z - 1) /\ g[u].offset \in From(z) /\ g[u].offset > u
    <3>1. u \in From(z - 1)
      OBVIOUS
    <3>2. g[u].offset \in Nat /\ g[u].offset > u
      BY <2>1
    <3>3. g[u].offset \in From(z)
      BY <3>2
    <3>4. h[u] = g[u]
      <4> HIDE DEF From, Body
      <4> QED
        BY <3>1
    <3> QED
      BY <3>1, <3>2, <3>3, <3>4
  <2>3. ASSUME NEW u \in From(z - 1)
        PROVE  /\ Body(h, u) = Body(g, u)
               /\ Body(g, u).offset \in Nat /\ Body(g, u).offset > u
    <3> DEFINE a == g[u + 2]
               b == g[a.offset]
               c == g[b.offset]
               d == g[c.offset]
    <3>1. u \in Nat /\ u + 2 \in From(z)
      OBVIOUS
    <3>2. h[u + 2] = a /\ a.offset \in From(z) /\ a.offset > u + 2
      <4> HIDE DEF From, h
      <4> QED
        BY <2>2, <3>1
    <3>3. h[a.offset] = b /\ b.offset \in From(z) /\ b.offset > a.offset
      <4> HIDE DEF From, h, a
      <4> QED
        BY <2>2, <3>2
    <3>4. h[b.offset] = c /\ c.offset \in From(z) /\ c.offset > b.offset
      <4> HIDE DEF From, h, b
      <4> QED
        BY <2>2, <3>3
    <3>5. h[c.offset] = d /\ d.offset \in From(z) /\ d.offset > c.offset
      <4> HIDE DEF From, h, c
      <4> QED
        BY <2>2, <3>4
    <3>6. d.offset \in Nat /\ d.offset > u
      <4> HIDE DEF a, b, c, d, h, Body
      <4>1. a.offset \in Nat /\ b.offset \in Nat /\ c.offset \in Nat /\ d.offset \in Nat
        BY <3>2, <3>3, <3>4, <3>5
      <4>2. a.offset > u + 2 /\ b.offset > a.offset /\ c.offset > b.offset /\ d.offset > c.offset
        BY <3>2, <3>3, <3>4, <3>5
      <4> HIDE DEF From
      <4> QED
        BY <3>1, <4>1, <4>2
    <3>7. Body(h, u) = Body(g, u)
      <4> HIDE DEF h
      <4> QED
        BY <3>2, <3>3, <3>4, <3>5
    <3>8. Body(g, u).offset \in {u + 2, d.offset}
      OBVIOUS
    <3> HIDE DEF Body, a, b, c, d
    <3> QED
      BY <3>1, <3>6, <3>7, <3>8
  <2>4. ASSUME NEW u \in From(z - 1) PROVE h[u] = Body(h, u) /\ h[u] = Body(g, u)
    <3> HIDE DEF From, Body
    <3>1. u \in From(z) => g[u] = Body(g, u)
      BY <2>1
    <3> QED
      BY <2>3, <3>1
  <2>5. h = [u \in From(z - 1) |-> Body(h, u)]
    <3> HIDE DEF From, Body
    <3>1. h = [u \in From(z - 1) |-> h[u]]
      OBVIOUS
    <3> HIDE DEF h
    <3> QED
      BY <2>4, <3>1
  <2>6. \A u \in From(z - 1) : h[u].offset \in Nat /\ h[u].offset > u
    <3> HIDE DEF From, Body, h
    <3> QED
      BY <2>3, <2>4
  <2> HIDE DEF h, Body, From
  <2> QED
    BY <2>5, <2>6
<1>3. Exists(0)
  <2> HIDE DEF Exists
  <2> DEFINE S == {z \in 0 .. Len(data) : Exists(z)}
  <2>1. Len(data) \in S /\ \A z \in 1 .. Len(data) : z \in S => z - 1 \in S
    BY <1>1, <1>2
  <2>2. 0 \in S
    <3> HIDE DEF S
    <3> QED
      BY <2>1, Downwards
  <2> QED
    BY <2>2
<1>4. Decode = [u \in Nat |-> Body(Decode, u)]
  <2>1. From(0) = Nat
    OBVIOUS
  <2> HIDE DEF Body, From
  <2> QED
    BY <1>3, <2>1
<1>5. \A u : DecodeTileNode(data, u) = Decode[u]
  BY DEF DecodeTileNode
<1>6. Decode[o] = Body(Decode, o)
  <2> HIDE DEF Decode, Body
  <2> QED
    BY <1>4
<1> QED
  <2> HIDE DEF Decode
  <2> QED
    BY <1>5, <1>6

-----------------------------------------------------------------------------
(* No tile, no tiles below it: its node is a leaf that is not inside.      *)
LEMMA AbsentNode ==
    ASSUME NEW c, NEW k \in 0 .. MAX_SUPPORTED_ZOOM_LEVEL, NEW t \in MapTile, t \notin c
    PROVE  BuildTileNode(c, t, k) = Leaf(FALSE)
<1>1. BuildTileNode(c, t, k) = Leaf(t \in c)
  BY BuildTileNodeDef
<1>2. (t \in c) = FALSE
  OBVIOUS
<1> QED
  BY <1>1, <1>2

(* What BuildTileNode leaves: a leaf that says whether the tile is there,  *)
(* or a node with the nodes of its four sub tiles; and what is left out    *)
(* below a tile that is there is four leaves that are.                     *)
LEMMA NodeShape ==
    ASSUME NEW c, NEW k \in 0 .. MAX_SUPPORTED_ZOOM_LEVEL, NEW t \in MapTile
    PROVE  LET node == BuildTileNode(c, t, k)
           IN  /\ node.inside = (t \in c)
               /\ ~Divided(node) => node = Leaf(t \in c)
               /\ Divided(node) =>
                    /\ t \in c /\ Zoom(t) < k
                    /\ node = [inside |-> TRUE,
                               subNodes |-> <<BuildTileNode(c, SubTile(t, 0), k), BuildTileNode(c, SubTile(t, 1), k),
                                              BuildTileNode(c, SubTile(t, 2), k), BuildTileNode(c, SubTile(t, 3), k)>>]
               /\ ~Divided(node) /\ t \in c /\ Zoom(t) < k =>
                    \A i \in 0 .. 3 : /\ BuildTileNode(c, SubTile(t, i), k).inside
                                      /\ ~Divided(BuildTileNode(c, SubTile(t, i), k))
<1> DEFINE Node(u) == BuildTileNode(c, u, k)
           sub == [i \in 1 .. 4 |-> BuildTileNode(c, SubTile(t, i - 1), k)]
           four == <<Node(SubTile(t, 0)), Node(SubTile(t, 1)), Node(SubTile(t, 2)), Node(SubTile(t, 3))>>
<1>0. Zoom(t) \in Int /\ k \in Int
  BY TileParts, ZoomAssumption DEF Zoom
<1>1. Node(t) = IF t \notin c \/ Zoom(t) >= k THEN Leaf(t \in c)
                ELSE [inside |-> TRUE, subNodes |-> IF KeepSubNodes(sub) THEN sub ELSE <<>>]
  BY BuildTileNodeDef
<1>2. sub = four /\ sub # <<>>
  <2>1. \A i \in 1 .. 4 : i = 1 \/ i = 2 \/ i = 3 \/ i = 4
    OBVIOUS
  <2>2. 1 - 1 = 0 /\ 2 - 1 = 1 /\ 3 - 1 = 2 /\ 4 - 1 = 3
    OBVIOUS
  <2>3. \A i \in 1 .. 4 : sub[i] = four[i]
    <3> HIDE DEF Node
    <3> QED
      BY <2>1, <2>2 DEF Node
  <2> QED
    BY <2>3
<1>3. CASE t \notin c \/ Zoom(t) >= k
  <2>1. Node(t) = Leaf(t \in c)
    <3> HIDE DEF sub, Node
    <3> QED
      BY <1>1, <1>3
  <2>2. Node(t).inside = (t \in c) /\ ~Divided(Node(t))
    <3> HIDE DEF Node
    <3> QED
      BY <2>1 DEF Leaf, Divided
  <2>3. ~(t \in c /\ Zoom(t) < k)
    BY <1>0, <1>3
  <2> HIDE DEF Node
  <2>4. Node(t).inside = (t \in c) /\ Node(t) = Leaf(t \in c) /\ ~Divided(Node(t)) /\ ~(t \in c /\ Zoom(t) < k)
    BY <2>1, <2>2, <2>3
  <2> QED
    BY <2>4 DEF Node
<1>4. CASE ~(t \notin c \/ Zoom(t) >= k) /\ KeepSubNodes(sub)
  <2>1. Node(t) = [inside |-> TRUE, subNodes |-> sub]
    BY <1>1, <1>4
  <2>2. Divided(Node(t)) /\ t \in c /\ Zoom(t) < k
    BY <1>0, <1>2, <1>4, <2>1 DEF Divided
  <2> HIDE DEF sub, Node
  <2>3. Node(t) = [inside |-> TRUE, subNodes |-> four] /\ Node(t).inside = TRUE
    BY <1>2, <2>1
  <2> QED
    BY <2>2, <2>3 DEF Node
<1>5. CASE ~(t \notin c \/ Zoom(t) >= k) /\ ~KeepSubNodes(sub)
  <2>1. Node(t) = Leaf(TRUE) /\ ~Divided(Node(t))
    BY <1>1, <1>5 DEF Leaf, Divided
  <2>2. ASSUME NEW i \in 0 .. 3 PROVE Node(SubTile(t, i)).inside /\ ~Divided(Node(SubTile(t, i)))
    <3>1. i + 1 \in 1 .. 4 /\ i + 1 - 1 = i
      OBVIOUS
    <3>2. sub[i + 1] = Node(SubTile(t, i))
      BY <3>1
    <3> HIDE DEF sub, Node
    <3> QED
      BY <1>5, <3>1, <3>2 DEF KeepSubNodes
  <2>3. (t \in c) = TRUE
    BY <1>5
  <2> HIDE DEF Node
  <2>4. Node(t).inside = (t \in c) /\ Node(t) = Leaf(t \in c)
    <3>1. Leaf(TRUE).inside = TRUE
      BY DEF Leaf
    <3>2. Node(t).inside = TRUE /\ Node(t) = Leaf(TRUE)
      BY <2>1, <3>1
    <3> HIDE DEF Node, sub
    <3> QED
      BY <2>3, <3>2, Zenon
  <2>5. \A i \in 0 .. 3 : Node(SubTile(t, i)).inside /\ ~Divided(Node(SubTile(t, i)))
    BY <2>2
  <2> QED
    BY <2>1, <2>4, <2>5 DEF Node
<1> QED
  BY <1>3, <1>4, <1>5

(* findTileNode in the tree of a set of tiles: down to the zoom level of   *)
(* the tree, the node that was built for the tile; below it, a leaf that   *)
(* says whether the tile above is there.                                   *)
LEMMA FoundNode ==
    ASSUME NEW c \in SUBSET MapTile, HasParents(c), NEW k \in 0 .. MAX_SUPPORTED_ZOOM_LEVEL,
           NEW t \in MapTile
    PROVE  FindTileNode(BuildTileNode(c, RootTile, k), t) =
             IF Zoom(t) <= k THEN BuildTileNode(c, t, k) ELSE Leaf(Ancestor(t, k) \in c)
<1> DEFINE Node(u) == BuildTileNode(c, u, k)
           Found(u) == FindTileNode(BuildTileNode(c, RootTile, k), u)
           Good(u) == Found(u) = IF Zoom(u) <= k THEN Node(u) ELSE Leaf(Ancestor(u, k) \in c)
           S == {z \in 0 .. MAX_SUPPORTED_ZOOM_LEVEL : \A u \in MapTile : Zoom(u) = z => Good(u)}
<1>1. ASSUME NEW u \in MapTile, Zoom(u) = 0 PROVE Good(u)
  <2>1. Zoom(u) <= k
    BY <1>1
  <2>2. Found(u) = IF u = RootTile THEN Node(RootTile) ELSE Leaf(FALSE)
    BY <1>1, FindTileNodeDef
  <2>3. u # RootTile => u \notin c
    <3>1. Parent(u) \notin MapTile
      BY <1>1 DEF Parent, Zoom, MapTile
    <3> QED
      BY <3>1 DEF HasParents
  <2>4. u \notin c => Node(u) = Leaf(FALSE)
    BY AbsentNode
  <2> QED
    BY <2>1, <2>2, <2>3, <2>4
<1>2. ASSUME NEW u \in MapTile, Zoom(u) # 0, Good(Parent(u)) PROVE Good(u)
  <2> DEFINE p == Parent(u)
             i == (u[2] % 2) + 2 * (u[3] % 2)
  <2>1. /\ p \in MapTile /\ Zoom(p) = Zoom(u) - 1 /\ i \in 0 .. 3 /\ u = SubTile(p, i)
        /\ Zoom(u) \in Int /\ k \in Int /\ k \in Nat
    BY <1>2, ParentType, TileParts, ZoomAssumption DEF Zoom
  <2>2. 1 + (u[2] % 2) + 2 * (u[3] % 2) = i + 1
    BY <1>2, ParentType
  <2>3. Found(u) = IF Divided(Found(p)) THEN Found(p).subNodes[i + 1] ELSE Found(p)
    <3>1. Found(u) = IF Divided(Found(p)) THEN Found(p).subNodes[1 + (u[2] % 2) + 2 * (u[3] % 2)] ELSE Found(p)
      BY <1>2, FindTileNodeDef
    <3> HIDE DEF Found, p, i
    <3> QED
      BY <2>2, <3>1
  <2>4. u \in c => p \in c
    <3>1. u # RootTile
      BY <1>2 DEF RootTile, Zoom
    <3> QED
      BY <3>1 DEF HasParents
  <2> HIDE DEF Found, p, i
  <2>5. CASE Zoom(u) <= k /\ Divided(Node(p))
    <3>1. Found(p) = Node(p)
      BY <1>2, <2>1, <2>5 DEF p
    <3>2. Node(p).subNodes = <<Node(SubTile(p, 0)), Node(SubTile(p, 1)), Node(SubTile(p, 2)), Node(SubTile(p, 3))>>
      BY <2>1, <2>5, NodeShape
    <3>3. Node(p).subNodes[i + 1] = Node(SubTile(p, i))
      <4>1. i = 0 \/ i = 1 \/ i = 2 \/ i = 3
        BY <2>1
      <4> HIDE DEF Node
      <4> QED
        BY <3>2, <4>1
    <3> HIDE DEF Node
    <3> QED
      BY <2>1, <2>3, <2>5, <3>1, <3>3
  <2>6. CASE Zoom(u) <= k /\ ~Divided(Node(p)) /\ p \in c
    <3>1. Found(p) = Node(p) /\ Zoom(p) < k
      BY <1>2, <2>1, <2>6 DEF p
    <3>2. Node(p) = Leaf(TRUE)
      BY <2>1, <2>6, NodeShape
    <3>3. Node(u).inside /\ ~Divided(Node(u))
      BY <2>1, <2>6, <3>1, NodeShape
    <3>4. Node(u) = Leaf(TRUE)
      <4>1. Node(u).inside = (u \in c) /\ Node(u) = Leaf(u \in c)
        BY <2>1, <3>3, NodeShape
      <4>2. u \in c
        BY <3>3, <4>1
      <4> HIDE DEF Node
      <4> QED
        BY <4>1, <4>2
    <3> HIDE DEF Node
    <3> QED
      BY <2>3, <2>6, <3>1, <3>2, <3>4
  <2>7. CASE Zoom(u) <= k /\ p \notin c
    <3>1. Found(p) = Node(p)
      BY <1>2, <2>1, <2>7 DEF p
    <3>2. Node(p) = Leaf(FALSE) /\ Node(u) = Leaf(FALSE)
      BY <2>1, <2>4, <2>7, AbsentNode
    <3> HIDE DEF Node
    <3> QED
      BY <2>3, <2>7, <3>1, <3>2 DEF Leaf, Divided
  <2>8. CASE Zoom(u) > k
    <3>1. Found(p) = Leaf(Ancestor(p, k) \in c)
      <4>1. CASE Zoom(p) <= k
        <5>1. Zoom(p) >= k
          BY <2>1, <2>8
        <5>2. Node(p) = Leaf(p \in c)
          BY <2>1, <5>1, BuildTileNodeDef DEF Leaf
        <5>3. Ancestor(p, k) = p
          BY <2>1, <4>1, AncestorDef
        <5> HIDE DEF Node
        <5> QED
          BY <1>2, <4>1, <5>2, <5>3 DEF p
      <4>2. CASE ~(Zoom(p) <= k)
        <5> HIDE DEF Node
        <5> QED
          BY <1>2, <4>2 DEF p
      <4> QED
        BY <4>1, <4>2
    <3>2. Ancestor(u, k) = Ancestor(p, k) /\ ~(Zoom(u) <= k)
      BY <2>1, <2>8, AncestorDef DEF p
    <3> HIDE DEF Node
    <3> QED
      BY <2>3, <3>1, <3>2 DEF Leaf, Divided
  <2> QED
    <3>1. Zoom(u) <= k \/ Zoom(u) > k
      BY <2>1
    <3> QED
      BY <2>5, <2>6, <2>7, <2>8, <3>1
<1>3. 0 \in S
  <2> HIDE DEF Good
  <2> QED
    BY <1>1, ZoomAssumption
<1>4. ASSUME NEW z \in 1 .. MAX_SUPPORTED_ZOOM_LEVEL, z - 1 \in S PROVE z \in S
  <2>1. ASSUME NEW u \in MapTile, Zoom(u) = z PROVE Good(u)
    <3>1. Zoom(u) # 0
      BY <1>4, <2>1
    <3>2. Parent(u) \in MapTile /\ Zoom(Parent(u)) = z - 1
      BY <2>1, <3>1, ParentType
    <3> HIDE DEF Good
    <3>3. Good(Parent(u))
      BY <1>4, <3>2
    <3> QED
      BY <1>2, <3>1, <3>3
  <2> HIDE DEF Good
  <2> QED
    BY <1>4, <2>1
<1>5. Zoom(t) \in S
  <2>1. Zoom(t) \in 0 .. MAX_SUPPORTED_ZOOM_LEVEL
    BY TileParts DEF Zoom
  <2> HIDE DEF S
  <2> QED
    BY <1>3, <1>4, <2>1, Upwards, ZoomAssumption
<1>6. Good(t)
  <2> HIDE DEF Good
  <2> QED
    BY <1>5
<1> QED
  BY <1>6

-----------------------------------------------------------------------------
(* The bits of a tree, and where they are in the data. *)
HoldsAt(data, o, s) ==
    o + Len(s) <= Len(data) + 1 /\ \A i \in 1 .. Len(s) : data[o + i - 1] = s[i]

(* Where two strings of bits are, one after the other, each of them is.    *)
LEMMA HoldsParts ==
    ASSUME NEW data, Len(data) \in Nat, NEW o \in Nat,
           NEW r \in Seq({0, 1}), NEW s \in Seq({0, 1}), HoldsAt(data, o, r \o s)
    PROVE  HoldsAt(data, o, r) /\ HoldsAt(data, o + Len(r), s)
<1>1. Len(r \o s) = Len(r) + Len(s) /\ Len(r) \in Nat /\ Len(s) \in Nat
  OBVIOUS
<1>2. HoldsAt(data, o, r)
  <2>1. ASSUME NEW i \in 1 .. Len(r) PROVE data[o + i - 1] = r[i]
    <3>1. i \in 1 .. Len(r \o s) /\ (r \o s)[i] = r[i]
      BY <1>1
    <3> QED
      BY <3>1 DEF HoldsAt
  <2>2. o + Len(r) <= Len(data) + 1
    BY <1>1 DEF HoldsAt
  <2> QED
    BY <2>1, <2>2 DEF HoldsAt
<1>3. HoldsAt(data, o + Len(r), s)
  <2>1. ASSUME NEW i \in 1 .. Len(s) PROVE data[o + Len(r) + i - 1] = s[i]
    <3>1. /\ Len(r) + i \in 1 .. Len(r \o s) /\ (r \o s)[Len(r) + i] = s[i]
          /\ o + Len(r) + i - 1 = o + (Len(r) + i) - 1
      BY <1>1
    <3> QED
      BY <3>1 DEF HoldsAt
  <2>2. o + Len(r) + Len(s) <= Len(data) + 1
    BY <1>1 DEF HoldsAt
  <2> QED
    BY <2>1, <2>2 DEF HoldsAt
<1> QED
  BY <1>2, <1>3

(* The bits of a node of the tree of a set of tiles: whether it is         *)
(* divided, whether it is inside, and the bits of its sub nodes.           *)
LEMMA EncodedNode ==
    ASSUME NEW c \in SUBSET MapTile, HasParents(c), NEW k \in 0 .. MAX_SUPPORTED_ZOOM_LEVEL,
           NEW t \in MapTile, Zoom(t) <= k
    PROVE  LET root == BuildTileNode(c, RootTile, k)
               node == BuildTileNode(c, t, k)
           IN  EncodeTileNode(root, t) =
                 <<Bit(Divided(node)), Bit(node.inside)>> \o
                   IF Divided(node)
                   THEN EncodeTileNode(root, SubTile(t, 0)) \o EncodeTileNode(root, SubTile(t, 1))
                        \o EncodeTileNode(root, SubTile(t, 2)) \o EncodeTileNode(root, SubTile(t, 3))
                   ELSE <<>>
<1> DEFINE root == BuildTileNode(c, RootTile, k)
<1>1. ASSUME NEW u \in MapTile, Divided(FindTileNode(root, u)) PROVE Zoom(u) < MAX_SUPPORTED_ZOOM_LEVEL
  <2>1. Zoom(u) \in Int /\ k \in Int /\ k <= MAX_SUPPORTED_ZOOM_LEVEL
    BY TileParts, ZoomAssumption DEF Zoom
  <2>2. ~Divided(Leaf(Ancestor(u, k) \in c))
    BY DEF Leaf, Divided
  <2>3. Zoom(u) <= k /\ Divided(BuildTileNode(c, u, k))
    BY <1>1, <2>2, FoundNode
  <2>4. Zoom(u) < k
    BY <2>3, NodeShape
  <2> QED
    BY <2>1, <2>4, ZoomAssumption
<1>2. FindTileNode(root, t) = BuildTileNode(c, t, k)
  BY FoundNode
<1> HIDE DEF root
<1> DEFINE node == BuildTileNode(c, t, k)
<1>3. EncodeTileNode(root, t) =
        <<Bit(Divided(FindTileNode(root, t))), Bit(FindTileNode(root, t).inside)>> \o
          IF Divided(FindTileNode(root, t))
          THEN EncodeTileNode(root, SubTile(t, 0)) \o EncodeTileNode(root, SubTile(t, 1))
               \o EncodeTileNode(root, SubTile(t, 2)) \o EncodeTileNode(root, SubTile(t, 3))
          ELSE <<>>
  BY <1>1, EncodeTileNodeDef
<1> HIDE DEF node
<1>4. EncodeTileNode(root, t) =
        <<Bit(Divided(node)), Bit(node.inside)>> \o
          IF Divided(node)
          THEN EncodeTileNode(root, SubTile(t, 0)) \o EncodeTileNode(root, SubTile(t, 1))
               \o EncodeTileNode(root, SubTile(t, 2)) \o EncodeTileNode(root, SubTile(t, 3))
          ELSE <<>>
  BY <1>2, <1>3, Zenon DEF node
<1> QED
  BY <1>4, Zenon DEF node, root

(* The bits are bits.                                                      *)
LEMMA EncodedType ==
    ASSUME NEW c \in SUBSET MapTile, HasParents(c), NEW k \in 0 .. MAX_SUPPORTED_ZOOM_LEVEL,
           NEW t \in MapTile, Zoom(t) <= k
    PROVE  EncodeTileNode(BuildTileNode(c, RootTile, k), t) \in Seq({0, 1})
<1> DEFINE E(u) == EncodeTileNode(BuildTileNode(c, RootTile, k), u)
           Node(u) == BuildTileNode(c, u, k)
           S == {z \in 0 .. k : \A u \in MapTile : Zoom(u) = z => E(u) \in Seq({0, 1})}
<1>1. ASSUME NEW u \in MapTile, Zoom(u) <= k,
             Divided(Node(u)) => \A i \in 0 .. 3 : E(SubTile(u, i)) \in Seq({0, 1})
      PROVE  E(u) \in Seq({0, 1})
  <2> DEFINE bits == <<Bit(Divided(Node(u))), Bit(Node(u).inside)>>
  <2>1. bits \in Seq({0, 1})
    BY DEF Bit
  <2>2. CASE Divided(Node(u))
    <3>1. E(u) = bits \o (E(SubTile(u, 0)) \o E(SubTile(u, 1)) \o E(SubTile(u, 2)) \o E(SubTile(u, 3)))
      <4>1. E(u) = bits \o IF Divided(Node(u))
                           THEN E(SubTile(u, 0)) \o E(SubTile(u, 1)) \o E(SubTile(u, 2)) \o E(SubTile(u, 3))
                           ELSE <<>>
        BY <1>1, EncodedNode
      <4> HIDE DEF bits, Node, E
      <4> QED
        BY <2>2, <4>1
    <3>2. /\ E(SubTile(u, 0)) \in Seq({0, 1}) /\ E(SubTile(u, 1)) \in Seq({0, 1})
          /\ E(SubTile(u, 2)) \in Seq({0, 1}) /\ E(SubTile(u, 3)) \in Seq({0, 1})
      BY <1>1, <2>2
    <3> HIDE DEF bits, E
    <3> QED
      BY <2>1, <3>1, <3>2
  <2>3. CASE ~Divided(Node(u))
    <3>1. E(u) = bits \o <<>>
      <4>1. E(u) = bits \o IF Divided(Node(u))
                           THEN E(SubTile(u, 0)) \o E(SubTile(u, 1)) \o E(SubTile(u, 2)) \o E(SubTile(u, 3))
                           ELSE <<>>
        BY <1>1, EncodedNode
      <4> HIDE DEF bits, Node, E
      <4> QED
        BY <2>3, <4>1
    <3> HIDE DEF bits, E
    <3> QED
      BY <2>1, <3>1
  <2> QED
    BY <2>2, <2>3
<1>2. ASSUME NEW u \in MapTile, Divided(Node(u))
      PROVE  /\ Zoom(u) < k /\ \A i \in 0 .. 3 : SubTile(u, i) \in MapTile /\ Zoom(SubTile(u, i)) = Zoom(u) + 1
  <2>1. Zoom(u) < k
    BY <1>2, NodeShape
  <2>2. Zoom(u) < MAX_SUPPORTED_ZOOM_LEVEL
    BY <2>1, TileParts, ZoomAssumption DEF Zoom
  <2> QED
    BY <2>1, <2>2, SubTileType
<1>3. k \in S
  <2>1. ASSUME NEW u \in MapTile, Zoom(u) = k PROVE E(u) \in Seq({0, 1})
    <3>1. ~Divided(Node(u)) /\ Zoom(u) <= k
      BY <1>2, <2>1, ZoomAssumption
    <3> HIDE DEF E, Node
    <3> QED
      BY <1>1, <3>1
  <2> HIDE DEF E
  <2> QED
    BY <2>1, ZoomAssumption
<1>4. ASSUME NEW z \in 1 .. k, z \in S PROVE z - 1 \in S
  <2>1. ASSUME NEW u \in MapTile, Zoom(u) = z - 1 PROVE E(u) \in Seq({0, 1})
    <3>1. ASSUME Divided(Node(u)), NEW i \in 0 .. 3 PROVE E(SubTile(u, i)) \in Seq({0, 1})
      <4>1. SubTile(u, i) \in MapTile /\ Zoom(SubTile(u, i)) = z
        BY <1>2, <1>4, <2>1, <3>1
      <4> HIDE DEF E
      <4> QED
        BY <1>4, <4>1
    <3>2. Zoom(u) <= k
      BY <1>4, <2>1, ZoomAssumption
    <3> HIDE DEF E, Node
    <3> QED
      BY <1>1, <3>1, <3>2
  <2> HIDE DEF E
  <2> QED
    BY <1>4, <2>1
<1>5. Zoom(t) \in S
  <2>1. Zoom(t) \in 0 .. k /\ k \in Nat
    BY TileParts, ZoomAssumption DEF Zoom
  <2> HIDE DEF S
  <2> QED
    BY <1>3, <1>4, <2>1, Downwards
<1> QED
  BY <1>5

(* Where the bits of a node are in the data, the node is decoded, up to    *)
(* the end of its bits.                                                    *)
LEMMA DecodedNode ==
    ASSUME NEW c \in SUBSET MapTile, HasParents(c), NEW k \in 0 .. MAX_SUPPORTED_ZOOM_LEVEL,
           NEW data, Len(data) \in Nat,
           NEW t \in MapTile, Zoom(t) <= k, NEW o \in Nat, o # 0,
           HoldsAt(data, o, EncodeTileNode(BuildTileNode(c, RootTile, k), t))
    PROVE  DecodeTileNode(data, o) =
             [node |-> BuildTileNode(c, t, k),
              offset |-> o + Len(EncodeTileNode(BuildTileNode(c, RootTile, k), t))]
<1> DEFINE E(u) == EncodeTileNode(BuildTileNode(c, RootTile, k), u)
           Node(u) == BuildTileNode(c, u, k)
           Decoded(u, i) == HoldsAt(data, i, E(u)) =>
                              DecodeTileNode(data, i) = [node |-> Node(u), offset |-> i + Len(E(u))]
           S == {z \in 0 .. k : \A u \in MapTile : Zoom(u) = z =>
                                   \A i \in Nat \ {0} : Decoded(u, i)}
<1>1. ASSUME NEW u \in MapTile, Zoom(u) <= k, NEW i \in Nat \ {0}, HoldsAt(data, i, E(u)),
             Divided(Node(u)) => \A j \in 0 .. 3 : /\ E(SubTile(u, j)) \in Seq({0, 1})
                                                   /\ \A p \in Nat \ {0} : Decoded(SubTile(u, j), p)
      PROVE  DecodeTileNode(data, i) = [node |-> Node(u), offset |-> i + Len(E(u))]
  <2> DEFINE bits == <<Bit(Divided(Node(u))), Bit(Node(u).inside)>>
             subs == IF Divided(Node(u))
                     THEN E(SubTile(u, 0)) \o E(SubTile(u, 1)) \o E(SubTile(u, 2)) \o E(SubTile(u, 3))
                     ELSE <<>>
  <2>1. bits \in Seq({0, 1}) /\ Len(bits) = 2 /\ bits[1] = Bit(Divided(Node(u))) /\ bits[2] = Bit(Node(u).inside)
    BY DEF Bit
  <2>2. E(u) = bits \o subs
    BY <1>1, EncodedNode
  <2>3. subs \in Seq({0, 1})
    <3>1. CASE Divided(Node(u))
      <4>1. /\ E(SubTile(u, 0)) \in Seq({0, 1}) /\ E(SubTile(u, 1)) \in Seq({0, 1})
            /\ E(SubTile(u, 2)) \in Seq({0, 1}) /\ E(SubTile(u, 3)) \in Seq({0, 1})
        BY <1>1, <3>1
      <4> HIDE DEF E, Node
      <4> QED
        BY <3>1, <4>1
    <3>2. CASE ~Divided(Node(u))
      <4> HIDE DEF E, Node
      <4> QED
        BY <3>2
    <3> QED
      BY <3>1, <3>2
  <2> HIDE DEF E, Node, bits, subs
  <2>4. HoldsAt(data, i, bits) /\ HoldsAt(data, i + 2, subs)
    BY <1>1, <2>1, <2>2, <2>3, HoldsParts
  <2>5. ~(i + 1 > Len(data)) /\ data[i] = bits[1] /\ data[i + 1] = bits[2]
    <3>1. i + 2 <= Len(data) + 1
      BY <2>1, <2>4 DEF HoldsAt
    <3>2. data[i + 1 - 1] = bits[1] /\ data[i + 2 - 1] = bits[2]
      BY <2>1, <2>4 DEF HoldsAt
    <3>3. i + 1 - 1 = i /\ i + 2 - 1 = i + 1
      OBVIOUS
    <3> QED
      BY <3>1, <3>2, <3>3
  <2>6. Node(u).inside \in BOOLEAN
    <3>1. Node(u).inside = (u \in c)
      BY NodeShape DEF Node
    <3> QED
      BY <3>1
  <2>7. (data[i + 1] = 1) = Node(u).inside
    BY <2>1, <2>5, <2>6 DEF Bit
  <2>8. Len(E(u)) = 2 + Len(subs)
    <3>0. bits \in Seq({0, 1}) /\ subs \in Seq({0, 1})
      BY <2>1, <2>3
    <3>1. Len(bits \o subs) = Len(bits) + Len(subs)
      BY <3>0
    <3> QED
      BY <2>1, <2>2, <3>1
  <2>9. CASE ~Divided(Node(u))
    <3>1. data[i] = 0 /\ subs = <<>> /\ Len(E(u)) = 2
      BY <2>1, <2>5, <2>8, <2>9 DEF Bit, subs
    <3>2. Node(u) = Leaf(Node(u).inside)
      <4>1. Node(u) = Leaf(u \in c) /\ Node(u).inside = (u \in c)
        BY <2>9, NodeShape DEF Node
      <4> QED
        BY <4>1, Zenon
    <3>3. DecodeTileNode(data, i) = [node |-> Leaf(data[i + 1] = 1), offset |-> i + 2]
      BY <2>5, <3>1, DecodeTileNodeDef
    <3> QED
      BY <2>7, <3>1, <3>2, <3>3
  <2>10. CASE Divided(Node(u))
    <3> DEFINE s0 == E(SubTile(u, 0))
               s1 == E(SubTile(u, 1))
               s2 == E(SubTile(u, 2))
               s3 == E(SubTile(u, 3))
               i0 == i + 2
               i1 == i0 + Len(s0)
               i2 == i1 + Len(s1)
               i3 == i2 + Len(s2)
    <3>1. data[i] # 0 /\ subs = s0 \o s1 \o s2 \o s3
      BY <2>1, <2>5, <2>10 DEF Bit, subs
    <3>2. s0 \in Seq({0, 1}) /\ s1 \in Seq({0, 1}) /\ s2 \in Seq({0, 1}) /\ s3 \in Seq({0, 1})
      BY <1>1, <2>10
    <3>3. /\ Decoded(SubTile(u, 0), i0)
          /\ i1 \in Nat \ {0} => Decoded(SubTile(u, 1), i1)
          /\ i2 \in Nat \ {0} => Decoded(SubTile(u, 2), i2)
          /\ i3 \in Nat \ {0} => Decoded(SubTile(u, 3), i3)
      <4>1. i0 \in Nat \ {0}
        OBVIOUS
      <4> HIDE DEF Decoded, i0, i1, i2, i3
      <4> QED
        BY <1>1, <2>10, <4>1
    <3> HIDE DEF s0, s1, s2, s3
    <3>4. i1 \in Nat \ {0} /\ i2 \in Nat \ {0} /\ i3 \in Nat \ {0} /\ i0 \in Nat
      BY <3>2
    <3>5. HoldsAt(data, i0, s0 \o s1 \o s2) /\ HoldsAt(data, i0 + Len(s0 \o s1 \o s2), s3)
      <4>1. s0 \o s1 \o s2 \in Seq({0, 1})
        BY <3>2
      <4> QED
        BY <2>4, <3>1, <3>2, <3>4, <4>1, HoldsParts
    <3>6. HoldsAt(data, i0, s0 \o s1) /\ HoldsAt(data, i0 + Len(s0 \o s1), s2)
      <4>1. s0 \o s1 \in Seq({0, 1})
        BY <3>2
      <4> QED
        BY <3>2, <3>4, <3>5, <4>1, HoldsParts
    <3>7. HoldsAt(data, i0, s0) /\ HoldsAt(data, i1, s1)
      BY <3>2, <3>4, <3>6, HoldsParts
    <3>8. i0 + Len(s0 \o s1) = i2 /\ i0 + Len(s0 \o s1 \o s2) = i3 /\ i + 2 + Len(subs) = i3 + Len(s3)
      BY <3>1, <3>2
    <3> DEFINE a == DecodeTileNode(data, i + 2)
               b == DecodeTileNode(data, a.offset)
               e == DecodeTileNode(data, b.offset)
               d == DecodeTileNode(data, e.offset)
    <3>9. DecodeTileNode(data, i) = [node |-> [inside |-> data[i + 1] = 1,
                                               subNodes |-> <<a.node, b.node, e.node, d.node>>],
                                     offset |-> d.offset]
      BY <2>5, <3>1, DecodeTileNodeDef
    <3>10. a.node = Node(SubTile(u, 0)) /\ a.offset = i1
      BY <3>3, <3>7 DEF s0
    <3>11. b.node = Node(SubTile(u, 1)) /\ b.offset = i2
      <4>1. DecodeTileNode(data, i1) = [node |-> Node(SubTile(u, 1)), offset |-> i1 + Len(s1)]
        BY <3>3, <3>4, <3>7 DEF s1
      <4> HIDE DEF a, i1
      <4> QED
        BY <3>10, <4>1 DEF i2
    <3>12. e.node = Node(SubTile(u, 2)) /\ e.offset = i3
      <4>1. DecodeTileNode(data, i2) = [node |-> Node(SubTile(u, 2)), offset |-> i2 + Len(s2)]
        BY <3>3, <3>4, <3>6, <3>8 DEF s2
      <4> HIDE DEF b, i2
      <4> QED
        BY <3>11, <4>1 DEF i3
    <3>13. d.node = Node(SubTile(u, 3)) /\ d.offset = i3 + Len(s3)
      <4>1. DecodeTileNode(data, i3) = [node |-> Node(SubTile(u, 3)), offset |-> i3 + Len(s3)]
        BY <3>3, <3>4, <3>5, <3>8 DEF s3
      <4> HIDE DEF e, i3
      <4> QED
        BY <3>12, <4>1
    <3>14. Node(u) = [inside |-> TRUE,
                      subNodes |-> <<Node(SubTile(u, 0)), Node(SubTile(u, 1)),
                                     Node(SubTile(u, 2)), Node(SubTile(u, 3))>>]
      BY <2>10, NodeShape DEF Node
    <3>15. (data[i + 1] = 1) = TRUE
      <4>1. Node(u).inside = TRUE
        BY <3>14
      <4> QED
        BY <2>7, <4>1
    <3>16. d.offset = i + Len(E(u))
      <4>1. i + (2 + Len(subs)) = i + 2 + Len(subs)
        BY <2>3
      <4> HIDE DEF d, i3
      <4> QED
        BY <2>8, <3>8, <3>13, <4>1
    <3> HIDE DEF a, b, e, d
    <3> QED
      BY <3>9, <3>10, <3>11, <3>12, <3>13, <3>14, <3>15, <3>16
  <2> QED
    BY <2>9, <2>10 DEF E, Node
<1>2. ASSUME NEW u \in MapTile, Divided(Node(u))
      PROVE  /\ Zoom(u) < k
             /\ \A i \in 0 .. 3 : /\ SubTile(u, i) \in MapTile /\ Zoom(SubTile(u, i)) = Zoom(u) + 1
                                  /\ E(SubTile(u, i)) \in Seq({0, 1})
  <2>1. Zoom(u) < k
    BY <1>2, NodeShape
  <2>2. Zoom(u) \in Int /\ k \in Int /\ Zoom(u) < MAX_SUPPORTED_ZOOM_LEVEL
    BY <2>1, TileParts, ZoomAssumption DEF Zoom
  <2>3. ASSUME NEW i \in 0 .. 3
        PROVE  /\ SubTile(u, i) \in MapTile /\ Zoom(SubTile(u, i)) = Zoom(u) + 1
               /\ E(SubTile(u, i)) \in Seq({0, 1})
    <3>1. SubTile(u, i) \in MapTile /\ Zoom(SubTile(u, i)) = Zoom(u) + 1
      BY <2>2, SubTileType
    <3>2. Zoom(SubTile(u, i)) <= k
      BY <2>1, <2>2, <3>1
    <3> QED
      BY <3>1, <3>2, EncodedType
  <2> HIDE DEF E
  <2> QED
    BY <2>1, <2>3
<1>3. k \in S
  <2>1. ASSUME NEW u \in MapTile, Zoom(u) = k, NEW i \in Nat \ {0} PROVE Decoded(u, i)
    <3>1. ~Divided(Node(u)) /\ Zoom(u) <= k
      BY <1>2, <2>1, ZoomAssumption
    <3> HIDE DEF E, Node
    <3> QED
      BY <1>1, <3>1
  <2> HIDE DEF Decoded
  <2> QED
    BY <2>1, ZoomAssumption
<1>4. ASSUME NEW z \in 1 .. k, z \in S PROVE z - 1 \in S
  <2>1. ASSUME NEW u \in MapTile, Zoom(u) = z - 1, NEW i \in Nat \ {0} PROVE Decoded(u, i)
    <3>1. ASSUME Divided(Node(u)), NEW j \in 0 .. 3
          PROVE  E(SubTile(u, j)) \in Seq({0, 1}) /\ \A p \in Nat \ {0} : Decoded(SubTile(u, j), p)
      <4>1. SubTile(u, j) \in MapTile /\ Zoom(SubTile(u, j)) = z /\ E(SubTile(u, j)) \in Seq({0, 1})
        BY <1>2, <1>4, <2>1, <3>1
      <4> HIDE DEF Decoded, E
      <4> QED
        BY <1>4, <4>1
    <3>2. Zoom(u) <= k
      BY <1>4, <2>1, ZoomAssumption
    <3> HIDE DEF E, Node
    <3> QED
      BY <1>1, <3>1, <3>2
  <2> HIDE DEF Decoded
  <2> QED
    BY <1>4, <2>1
<1>5. Zoom(t) \in S
  <2>1. Zoom(t) \in 0 .. k /\ k \in Nat
    BY TileParts, ZoomAssumption DEF Zoom
  <2> HIDE DEF S
  <2> QED
    BY <1>3, <1>4, <2>1, Downwards
<1>6. Decoded(t, o)
  <2> HIDE DEF Decoded
  <2> QED
    BY <1>5
<1> QED
  BY <1>6

-----------------------------------------------------------------------------
(* Base64, and the mask that is read again. *)
LEMMA Base64 ==
    ASSUME NEW data \in Seq({0, 1})
    PROVE  /\ Len(decodeBase64(encodeBase64(data))) \in Nat
           /\ HoldsAt(decodeBase64(encodeBase64(data)), 1, data)
<1> DEFINE filled == [i \in 1 .. ((-Len(data)) % 24) |-> 0]
           padded == data \o filled
           bit(i, j) == padded[6 * (i - 1) + j]
           n == Len(padded) \div 6
           value(i) == 32 * bit(i, 1) + 16 * bit(i, 2) + 8 * bit(i, 3) + 4 * bit(i, 4) + 2 * bit(i, 5) + bit(i, 6)
           chars == [i \in 1 .. n |-> value(i)]
<1>1. chars = encodeBase64(data)
  BY DEF encodeBase64
<1>2. /\ padded \in Seq({0, 1}) /\ Len(padded) = Len(data) + ((-Len(data)) % 24)
      /\ \A i \in 1 .. Len(data) : padded[i] = data[i]
  <2>1. (-Len(data)) % 24 \in Nat
    OBVIOUS
  <2>2. filled \in Seq({0, 1}) /\ Len(filled) = (-Len(data)) % 24
    <3> DEFINE m == (-Len(data)) % 24
    <3> HIDE DEF m
    <3> SUFFICES ASSUME m \in Nat PROVE [i \in 1 .. m |-> 0] \in Seq({0, 1}) /\ Len([i \in 1 .. m |-> 0]) = m
      BY <2>1 DEF m
    <3> QED
      OBVIOUS
  <2> HIDE DEF filled
  <2> QED
    BY <2>1, <2>2
<1>3. n \in Nat /\ Len(padded) = 6 * n /\ Len(data) <= 6 * n
  <2>1. Len(data) \in Nat
    OBVIOUS
  <2> HIDE DEF padded
  <2> QED
    BY <1>2, <2>1
<1>4. Len(chars) = n
  <2> HIDE DEF n, value
  <2> QED
    BY <1>3
<1> HIDE DEF padded
<1>5. decodeBase64(chars) = [i \in 1 .. 6 * n |->
                               (chars[(i + 5) \div 6] \div <<32, 16, 8, 4, 2, 1>>[1 + ((i - 1) % 6)]) % 2]
  <2> HIDE DEF chars, n
  <2> QED
    BY <1>4 DEF decodeBase64
<1>6. Len(decodeBase64(chars)) = 6 * n
  <2> HIDE DEF chars, n
  <2> QED
    BY <1>3, <1>5
<1>7. ASSUME NEW i \in 1 .. 6 * n PROVE decodeBase64(chars)[i] = padded[i]
  <2> DEFINE q == (i + 5) \div 6
             r == (i - 1) % 6
  <2>1. q \in 1 .. n /\ r \in 0 .. 5 /\ i = 6 * (q - 1) + (r + 1)
    <3> HIDE DEF n
    <3> QED
      BY <1>3
  <2> HIDE DEF q, r
  <2>2. ASSUME NEW j \in 1 .. 6 PROVE bit(q, j) \in {0, 1}
    <3>1. 6 * (q - 1) + j \in 1 .. Len(padded)
      <4> HIDE DEF n
      <4> QED
        BY <1>3, <2>1
    <3> QED
      BY <1>2, <3>1
  <2>3. bit(q, 1) \in {0, 1} /\ bit(q, 2) \in {0, 1} /\ bit(q, 3) \in {0, 1}
        /\ bit(q, 4) \in {0, 1} /\ bit(q, 5) \in {0, 1} /\ bit(q, 6) \in {0, 1}
    <3> HIDE DEF bit
    <3> QED
      BY <2>2
  <2>4. decodeBase64(chars)[i] = (value(q) \div <<32, 16, 8, 4, 2, 1>>[1 + r]) % 2
    <3>1. decodeBase64(chars)[i] = (chars[q] \div <<32, 16, 8, 4, 2, 1>>[1 + r]) % 2
      <4> HIDE DEF chars, n
      <4> QED
        BY <1>5 DEF q, r
    <3>2. chars[q] = value(q)
      <4> HIDE DEF value, n
      <4> QED
        BY <2>1
    <3> HIDE DEF chars, value
    <3> QED
      BY <3>1, <3>2
  <2>5. /\ (value(q) \div 32) % 2 = bit(q, 1) /\ (value(q) \div 16) % 2 = bit(q, 2)
        /\ (value(q) \div 8) % 2 = bit(q, 3) /\ (value(q) \div 4) % 2 = bit(q, 4)
        /\ (value(q) \div 2) % 2 = bit(q, 5) /\ (value(q) \div 1) % 2 = bit(q, 6)
    <3> DEFINE a == bit(q, 1)
               b == bit(q, 2)
               c == bit(q, 3)
               d == bit(q, 4)
               e == bit(q, 5)
               f == bit(q, 6)
               v == 32 * a + 16 * b + 8 * c + 4 * d + 2 * e + f
    <3>1. a \in {0, 1} /\ b \in {0, 1} /\ c \in {0, 1} /\ d \in {0, 1} /\ e \in {0, 1} /\ f \in {0, 1}
      BY <2>3
    <3>2. value(q) = v
      OBVIOUS
    <3> HIDE DEF a, b, c, d, e, f, value
    <3>3. /\ (v \div 32) % 2 = a /\ (v \div 16) % 2 = b /\ (v \div 8) % 2 = c
          /\ (v \div 4) % 2 = d /\ (v \div 2) % 2 = e /\ (v \div 1) % 2 = f
      BY <3>1
    <3> HIDE DEF v
    <3> QED
      BY <3>2, <3>3 DEF a, b, c, d, e, f
  <2>6. padded[i] = bit(q, r + 1)
    BY <2>1
  <2> HIDE DEF value, bit
  <2>7. r = 0 \/ r = 1 \/ r = 2 \/ r = 3 \/ r = 4 \/ r = 5
    BY <2>1
  <2> QED
    BY <2>4, <2>5, <2>6, <2>7
<1>8. ASSUME NEW i \in 1 .. Len(data) PROVE decodeBase64(chars)[1 + i - 1] = data[i]
  <2>1. i \in 1 .. 6 * n /\ 1 + i - 1 = i /\ padded[i] = data[i]
    <3> HIDE DEF n
    <3> QED
      BY <1>2, <1>3
  <2> HIDE DEF chars, n
  <2> QED
    BY <1>7, <2>1
<1>9. 1 + Len(data) <= Len(decodeBase64(chars)) + 1 /\ Len(decodeBase64(chars)) \in Nat
  <2> HIDE DEF chars, n
  <2> QED
    BY <1>3, <1>6
<1> HIDE DEF chars
<1> QED
  BY <1>1, <1>8, <1>9 DEF HoldsAt

(* The value of a mask is its tree. *)
LEMMA ValueIsTree ==
    ASSUME NEW c \in SUBSET MapTile, HasParents(c), NEW k \in 0 .. MAX_SUPPORTED_ZOOM_LEVEL
    PROVE  RootNode(TileMask(c, k).value) = BuildTileNode(c, RootTile, k)
<1> DEFINE E == EncodeTileNode(BuildTileNode(c, RootTile, k), RootTile)
           data == decodeBase64(encodeBase64(E))
<1>1. RootTile \in MapTile /\ Zoom(RootTile) <= k
  BY ZoomAssumption DEF RootTile, MapTile, Zoom
<1>2. E \in Seq({0, 1})
  BY <1>1, EncodedType
<1>3. Len(data) \in Nat /\ HoldsAt(data, 1, E)
  <2> HIDE DEF E
  <2> QED
    BY <1>2, Base64
<1>4. TileMask(c, k).value = encodeBase64(E)
  BY DEF TileMask
<1>5. RootNode(TileMask(c, k).value) = DecodeTileNode(data, 1).node
  <2> HIDE DEF E
  <2> QED
    BY <1>4 DEF RootNode
<1> HIDE DEF data
<1>6. DecodeTileNode(data, 1) = [node |-> BuildTileNode(c, RootTile, k), offset |-> 1 + Len(E)]
  <2>1. 1 \in Nat /\ 1 # 0
    OBVIOUS
  <2> QED
    BY <1>1, <1>3, <2>1, DecodedNode
<1> QED
  BY <1>5, <1>6

(* What a mask with the tree of a set of tiles says: the tile above, at    *)
(* the zoom level of the tree, is in the set, and the tile is not below    *)
(* the last zoom level of the mask.                                        *)
LEMMA MaskIsTrue ==
    ASSUME NEW c \in SUBSET MapTile, HasParents(c), NEW k \in 0 .. MAX_SUPPORTED_ZOOM_LEVEL,
           NEW mask, mask.root = BuildTileNode(c, RootTile, k), NEW t \in MapTile
    PROVE  IsFull(mask, t) <=> Zoom(t) <= mask.maxZoom /\ Ancestor(t, k) \in c
<1> DEFINE found == FindTileNode(mask.root, t)
<1>1. found = IF Zoom(t) <= k THEN BuildTileNode(c, t, k) ELSE Leaf(Ancestor(t, k) \in c)
  BY FoundNode
<1>2. found.inside = (Ancestor(t, k) \in c)
  <2>1. CASE Zoom(t) <= k
    <3>1. Ancestor(t, k) = t
      BY <2>1, AncestorDef, ZoomAssumption
    <3>2. BuildTileNode(c, t, k).inside = (t \in c)
      BY NodeShape
    <3> HIDE DEF found
    <3> QED
      BY <1>1, <2>1, <3>1, <3>2
  <2>2. CASE ~(Zoom(t) <= k)
    <3> HIDE DEF found
    <3> QED
      BY <1>1, <2>2 DEF Leaf
  <2> QED
    BY <2>1, <2>2
<1> QED
  BY <1>2 DEF IsFull

(* The zoom level of a mask is that of the lowest of its tiles.            *)
LEMMA MaxZoomIsMax ==
    ASSUME NEW c \in SUBSET MapTile
    PROVE  MaxZoom(c) \in 0 .. MAX_SUPPORTED_ZOOM_LEVEL /\ \A t \in c : Zoom(t) <= MaxZoom(c)
<1> DEFINE Bounds == {n \in 0 .. MAX_SUPPORTED_ZOOM_LEVEL : \A t \in c : Zoom(t) <= n}
           Zooms == {0} \cup {Zoom(t) : t \in c}
<1>1. \A t \in c : Zoom(t) \in 0 .. MAX_SUPPORTED_ZOOM_LEVEL
  BY TileParts DEF Zoom
<1>2. PICK n \in Bounds : \A m \in Bounds : n <= m
  <2>1. Bounds \in SUBSET Nat /\ MAX_SUPPORTED_ZOOM_LEVEL \in Bounds
    BY <1>1, ZoomAssumption
  <2> HIDE DEF Bounds
  <2> QED
    BY <2>1, LeastElement
<1>3. n \in Zooms
  <2> SUFFICES ASSUME n # 0, \A t \in c : Zoom(t) # n PROVE FALSE
    OBVIOUS
  <2>1. n - 1 \in Bounds
    BY <1>1, <1>2, ZoomAssumption
  <2>2. n \in Int
    BY <1>2
  <2> HIDE DEF Bounds
  <2> QED
    BY <1>2, <2>1, <2>2
<1>4. \E z \in Zooms : \A t \in c : Zoom(t) <= z
  BY <1>2, <1>3
<1>5. MaxZoom(c) \in Zooms /\ \A t \in c : Zoom(t) <= MaxZoom(c)
  BY <1>4 DEF MaxZoom
<1> QED
  BY <1>1, <1>5, ZoomAssumption

-----------------------------------------------------------------------------
(* The inductive invariant: what is known of a package, wherever its       *)
(* PackageInfo is kept, is true, and what is kept is of a version that is  *)
(* installed or still to be deleted.                                       *)
IsTrue(info) ==
    /\ \A t \in Tiles : IsFull(info.mask, t) <=> /\ Zoom(t) <= info.mask.maxZoom
                                                 /\ Ancestor(t, info.clip) \in info.tiles
    /\ \A t \in info.tiles : Zoom(t) <= info.clip => Zoom(t) <= info.mask.maxZoom

InfoOK(info) == info.clip \in Nat /\ (info.mask = NoMask \/ IsTrue(info))

There == Installed \cup obsolete

TypeInv ==
    /\ DOMAIN rows = Packages /\ \A p \in HasRow : rows[p].version \in Versions
    /\ \A info \in obsolete : info.package \in Packages /\ info.version \in Versions
    /\ \A i, j \in obsolete : i = j
    /\ untold \in BOOLEAN
    /\ Len(open) \in Nat /\ DOMAIN open = 1 .. Len(open)
    /\ ~reader.reading => reader.infos = {}

InfosInv ==
    /\ \A info \in There : InfoOK(info)
    /\ \A i \in DOMAIN open : InfoOK(open[i])
    /\ \A info \in reader.infos : InfoOK(info)

FreshInv == (\A i \in DOMAIN open : open[i] \in There) /\ reader.infos \subseteq There

TilesInv == TypeInv /\ InfosInv /\ FreshInv

(* A mask that was written to a row, and one that a server gave, are read  *)
(* with the tree of their value.                                           *)
LEMMA ReadAgain ==
    ASSUME NEW v, NEW z
    PROVE  LET m == [value |-> v, maxZoom |-> z, root |-> RootNode(v)]
           IN  /\ DecodeTileMask(EncodeTileMask(m)) = m
               /\ DecodeTileMask(<<v, z>>) = m
<1> DEFINE m == [value |-> v, maxZoom |-> z, root |-> RootNode(v)]
<1>1. DecodeTileMask(<<v, z>>) = m
  <2>1. <<v, z>> # <<>> /\ Len(<<v, z>>) > 1 /\ <<v, z>>[1] = v /\ <<v, z>>[2] = z
    OBVIOUS
  <2> QED
    BY <2>1 DEF DecodeTileMask
<1>2. CASE m = NoMask
  <2>1. EncodeTileMask(m) = <<>>
    BY <1>2 DEF EncodeTileMask
  <2>2. DecodeTileMask(<<>>) = NoMask
    BY DEF DecodeTileMask
  <2> QED
    BY <1>1, <1>2, <2>1, <2>2
<1>3. CASE m # NoMask
  <2>1. EncodeTileMask(m) = <<v, z>>
    BY <1>3 DEF EncodeTileMask
  <2> QED
    BY <1>1, <2>1
<1> QED
  BY <1>2, <1>3

(* What an import or a download writes to the row of a package. *)
RowOK(row) ==
    /\ row.version \in Versions /\ row.clip \in Nat
    /\ \A p : InfoOK([package |-> p, version |-> row.version, tiles |-> row.tiles, clip |-> row.clip,
                      mask |-> DecodeTileMask(row.tile_mask)])

(* A mask is true of its tiles at the zoom level it is clipped to, be this *)
(* that of its tree or, if it is a lower number, that of the mask.         *)
LEMMA TreeMaskOK ==
    ASSUME NEW c, NEW p \in Packages, c \in Contents[p], NEW k \in 0 .. MAX_SUPPORTED_ZOOM_LEVEL,
           NEW z \in Nat, NEW clip \in Nat,
           (clip = k /\ ((\A t \in c : Zoom(t) <= z) \/ k <= z)) \/ (clip = z /\ z <= k),
           NEW info, info.tiles = c, info.clip = clip,
           info.mask = [value |-> TileMask(c, k).value, maxZoom |-> z,
                        root |-> RootNode(TileMask(c, k).value)]
    PROVE  InfoOK(info)
<1>1. c \in SUBSET MapTile /\ HasParents(c) /\ Tiles \subseteq MapTile
  BY PackagesAssumption
<1>2. info.mask.root = BuildTileNode(c, RootTile, k) /\ info.mask.maxZoom = z
  BY <1>1, ValueIsTree
<1>3. ASSUME NEW t \in Tiles
      PROVE  IsFull(info.mask, t) <=> Zoom(t) <= z /\ Ancestor(t, clip) \in c
  <2>1. IsFull(info.mask, t) <=> Zoom(t) <= z /\ Ancestor(t, k) \in c
    BY <1>1, <1>2, MaskIsTrue
  <2>2. Zoom(t) <= z /\ clip # k => Ancestor(t, k) = t /\ Ancestor(t, clip) = t
    <3>1. Zoom(t) \in Int /\ k \in Nat
      BY <1>1, TileParts, ZoomAssumption DEF Zoom
    <3>2. ASSUME Zoom(t) <= z, clip # k PROVE Zoom(t) <= k /\ Zoom(t) <= clip
      BY <3>1, <3>2
    <3> QED
      BY <1>1, <3>1, <3>2, AncestorDef
  <2> QED
    BY <2>1, <2>2
<1>4. ASSUME NEW t \in c, Zoom(t) <= clip PROVE Zoom(t) <= z
  <2>1. Zoom(t) \in Int /\ k \in Int
    BY <1>1, TileParts, ZoomAssumption DEF Zoom
  <2> QED
    BY <1>4, <2>1
<1> QED
  BY <1>2, <1>3, <1>4 DEF InfoOK, IsTrue

(* What importPackage writes is true, and what downloadPackage writes,     *)
(* with the zoom level of the mask given or not.                           *)
LEMMA ImportedRowOK ==
    ASSUME NEW p \in Packages, NEW c \in Contents[p], NEW m \in {TileMask(c, MaxZoom(c)), NoMask},
           NEW ver \in Versions
    PROVE  RowOK([version |-> ver, tiles |-> c, clip |-> MaxZoom(c), tile_mask |-> EncodeTileMask(m)])
<1> DEFINE k == MaxZoom(c)
           row == [version |-> ver, tiles |-> c, clip |-> k, tile_mask |-> EncodeTileMask(m)]
           Known(q) == [package |-> q, version |-> row.version, tiles |-> row.tiles, clip |-> row.clip,
                        mask |-> DecodeTileMask(row.tile_mask)]
           v == TileMask(c, k).value
           read == [value |-> v, maxZoom |-> k, root |-> RootNode(v)]
<1>1. k \in 0 .. MAX_SUPPORTED_ZOOM_LEVEL /\ k \in Nat /\ \A t \in c : Zoom(t) <= k
  BY MaxZoomIsMax, PackagesAssumption, ZoomAssumption
<1> HIDE DEF k
<1>2. DecodeTileMask(EncodeTileMask(m)) \in {NoMask, read}
  <2>1. CASE m = NoMask
    BY <2>1 DEF EncodeTileMask, DecodeTileMask
  <2>2. CASE m # NoMask
    <3>1. m = TileMask(c, k) /\ m.maxZoom = k
      BY <2>2 DEF TileMask, k
    <3>2. EncodeTileMask(m) = <<v, k>>
      BY <2>2, <3>1 DEF EncodeTileMask
    <3> HIDE DEF v
    <3> QED
      BY <3>2, ReadAgain
  <2> QED
    BY <2>1, <2>2
<1>3. ASSUME NEW q PROVE InfoOK(Known(q))
  <2>1. Known(q).tiles = c /\ Known(q).clip = k /\ Known(q).mask \in {NoMask, read}
    BY <1>2
  <2> HIDE DEF Known
  <2>2. CASE Known(q).mask = NoMask
    BY <1>1, <2>1, <2>2 DEF InfoOK
  <2>3. CASE Known(q).mask = read
    BY <1>1, <2>1, <2>3, TreeMaskOK
  <2> QED
    BY <2>1, <2>2, <2>3
<1>4. row.version \in Versions /\ row.clip \in Nat
  BY <1>1
<1>5. RowOK(row)
  BY <1>3, <1>4 DEF RowOK
<1> QED
  BY <1>5 DEF k

LEMMA DownloadedRowOK ==
    ASSUME NEW p \in Packages, NEW c \in Contents[p], NEW k \in Clips, NEW clip, NEW ver \in Versions,
           NEW given \in {<<TileMask(c, k).value>>, <<TileMask(c, k).value, TileMask(c, k).maxZoom>>},
           clip = IF Len(given) > 1 \/ k <= DEFAULT_TILEMASK_ZOOMLEVEL THEN k ELSE DEFAULT_TILEMASK_ZOOMLEVEL
    PROVE  RowOK([version |-> ver, tiles |-> c, clip |-> clip, tile_mask |-> EncodeTileMask(DecodeTileMask(given))])
<1> DEFINE row == [version |-> ver, tiles |-> c, clip |-> clip, tile_mask |-> EncodeTileMask(DecodeTileMask(given))]
           Known(q) == [package |-> q, version |-> row.version, tiles |-> row.tiles, clip |-> row.clip,
                        mask |-> DecodeTileMask(row.tile_mask)]
           v == TileMask(c, k).value
           Read(z) == [value |-> v, maxZoom |-> z, root |-> RootNode(v)]
<1>1. /\ k \in 0 .. MAX_SUPPORTED_ZOOM_LEVEL /\ k \in Nat /\ DEFAULT_TILEMASK_ZOOMLEVEL \in Nat
      /\ MaxZoom(c) \in Nat /\ \A t \in c : Zoom(t) <= MaxZoom(c)
  BY MaxZoomIsMax, PackagesAssumption, ZoomAssumption
<1>2. TileMask(c, k).maxZoom = MaxZoom(c)
  BY DEF TileMask
<1> HIDE DEF v
<1> DEFINE Fits(z) == /\ (clip = k /\ ((\A t \in c : Zoom(t) <= z) \/ k <= z)) \/ (clip = z /\ z <= k)
                      /\ clip \in Nat
<1>3. \E z \in Nat : DecodeTileMask(given) = Read(z) /\ Fits(z)
  <2>1. CASE given = <<v>>
    <3>1. Len(given) = 1 /\ given[1] = v /\ given # <<>>
      BY <2>1
    <3>2. DecodeTileMask(given) = Read(DEFAULT_TILEMASK_ZOOMLEVEL)
      BY <3>1 DEF DecodeTileMask
    <3>3. clip = IF k <= DEFAULT_TILEMASK_ZOOMLEVEL THEN k ELSE DEFAULT_TILEMASK_ZOOMLEVEL
      BY <3>1
    <3>4. Fits(DEFAULT_TILEMASK_ZOOMLEVEL)
      <4>1. CASE k <= DEFAULT_TILEMASK_ZOOMLEVEL
        <5>1. clip = k
          BY <3>3, <4>1
        <5> QED
          BY <1>1, <4>1, <5>1
      <4>2. CASE ~(k <= DEFAULT_TILEMASK_ZOOMLEVEL)
        <5>1. clip = DEFAULT_TILEMASK_ZOOMLEVEL /\ DEFAULT_TILEMASK_ZOOMLEVEL <= k
          BY <1>1, <3>3, <4>2
        <5> QED
          BY <1>1, <5>1
      <4> QED
        BY <4>1, <4>2
    <3> HIDE DEF Read, Fits
    <3> QED
      BY <1>1, <3>2, <3>4
  <2>2. CASE given = <<v, MaxZoom(c)>>
    <3>1. Len(given) > 1
      BY <2>2
    <3>2. DecodeTileMask(given) = Read(MaxZoom(c))
      BY <2>2, ReadAgain
    <3>3. clip = k
      BY <3>1
    <3>4. Fits(MaxZoom(c))
      BY <1>1, <3>3
    <3> HIDE DEF Read, Fits
    <3> QED
      BY <1>1, <3>2, <3>4
  <2> QED
    BY <1>2, <2>1, <2>2 DEF v
<1>4. PICK z \in Nat : DecodeTileMask(given) = Read(z) /\ Fits(z)
  BY <1>3
<1>5. DecodeTileMask(EncodeTileMask(DecodeTileMask(given))) = Read(z)
  BY <1>4, ReadAgain
<1>6. ASSUME NEW q PROVE InfoOK(Known(q))
  <2>1. Known(q).tiles = c /\ Known(q).clip = clip /\ Known(q).mask = Read(z)
    BY <1>5
  <2> HIDE DEF Known
  <2> QED
    BY <1>1, <1>4, <2>1, TreeMaskOK DEF v
<1>7. row.version \in Versions /\ row.clip \in Nat
  BY <1>4
<1> QED
  BY <1>6, <1>7 DEF RowOK

-----------------------------------------------------------------------------
(* The invariant holds in the beginning, and each action keeps it.         *)
LEMMA InitInv == Init => TilesInv
<1> SUFFICES ASSUME Init PROVE TilesInv
  OBVIOUS
<1>1. /\ rows = [p \in Packages |-> NoRow] /\ untold = FALSE /\ obsolete = {} /\ open = <<>>
      /\ reader.infos = {} /\ ~reader.reading
  BY DEF Init, NoReader
<1>2. Len(open) = 0 /\ DOMAIN open = 1 .. 0
  BY <1>1
<1>3. HasRow = {} /\ There = {}
  BY <1>1 DEF HasRow, Installed, There
<1>4. TypeInv
  BY <1>1, <1>2, <1>3 DEF TypeInv
<1>5. InfosInv /\ FreshInv
  BY <1>1, <1>2, <1>3 DEF InfosInv, FreshInv
<1> QED
  BY <1>4, <1>5 DEF TilesInv

(* An installation adds the package of its row; what was installed before  *)
(* stays, or is obsolete.                                                  *)
LEMMA InstallInv ==
    ASSUME TilesInv, NEW p \in Packages, NEW row, RowOK(row), Install(p, row)
    PROVE  TilesInv'
<1> USE DEF TilesInv, TypeInv, InfosInv, FreshInv
<1>1. /\ obsolete = {} /\ obsolete' = {info \in Installed : info.package = p}
      /\ rows' = [rows EXCEPT ![p] = row] /\ open' = open /\ reader' = reader /\ untold' = TRUE
  BY DEF Install
<1>2. /\ DOMAIN rows' = Packages /\ rows'[p] = row
      /\ \A q \in Packages : q # p => rows'[q] = rows[q]
  BY <1>1
<1>3. \A q \in Packages : q # p => Info(q)' = Info(q) /\ (q \in HasRow' <=> q \in HasRow)
  BY <1>2 DEF Info, HasRow
<1>4. InfoOK(Info(p)') /\ row.version \in Versions
  BY <1>2 DEF RowOK, Info
<1>5. \A info \in Installed' : InfoOK(info)
  <2>1. ASSUME NEW q \in HasRow' PROVE InfoOK(Info(q)')
    <3>1. q # p => Info(q) \in There
      BY <1>3 DEF HasRow, Installed, There
    <3> QED
      BY <1>3, <1>4, <3>1 DEF HasRow
  <2> QED
    BY <2>1 DEF Installed
<1>6. There \subseteq There'
  <2> SUFFICES ASSUME NEW q \in HasRow PROVE Info(q) \in There'
    BY <1>1 DEF There, Installed
  <2>1. CASE q = p
    <3>1. Info(q) \in Installed /\ Info(q).package = p
      BY <2>1 DEF Installed, Info
    <3> QED
      BY <1>1, <3>1 DEF There
  <2>2. CASE q # p
    BY <1>3, <2>2 DEF There, Installed, HasRow
  <2> QED
    BY <2>1, <2>2
<1>7. \A info \in There' : InfoOK(info)
  BY <1>1, <1>5 DEF There
<1>8. \A q \in HasRow' : rows'[q].version \in Versions
  BY <1>2, <1>3, <1>4 DEF HasRow
<1>9. /\ \A info \in obsolete' : info = Info(p) /\ p \in HasRow
      /\ \A info \in obsolete' : info.package \in Packages /\ info.version \in Versions
  <2>1. \A info \in obsolete' : info = Info(p) /\ p \in HasRow
    <3>1. \A q \in HasRow : Info(q).package = q
      BY DEF Info
    <3> QED
      BY <1>1, <3>1 DEF Installed
  <2>2. Info(p).package = p /\ Info(p).version = rows[p].version
    BY DEF Info
  <2> QED
    BY <2>1, <2>2
<1> HIDE DEF InfosInv, FreshInv
<1>10. TypeInv'
  BY <1>1, <1>2, <1>8, <1>9
<1>11. InfosInv'
  BY <1>1, <1>7 DEF InfosInv
<1>12. FreshInv'
  BY <1>1, <1>6 DEF FreshInv
<1> QED
  BY <1>10, <1>11, <1>12

(* The listener lets its handlers go, and the map of a loadTile keeps what *)
(* is there.                                                               *)
LEMMA ChangedInv ==
    ASSUME TilesInv, onPackagesChanged
    PROVE  TilesInv'
<1> USE DEF TilesInv, TypeInv, InfosInv, FreshInv
<1>1. untold' = FALSE /\ open' = <<>> /\ rows' = rows /\ obsolete' = obsolete /\ reader' = reader
  BY DEF onPackagesChanged
<1>2. Len(open') = 0 /\ DOMAIN open' = 1 .. 0
  BY <1>1
<1>3. There' = There /\ HasRow' = HasRow
  BY <1>1 DEF There, Installed, Info, HasRow
<1> HIDE DEF There, HasRow
<1>4. TypeInv'
  BY <1>1, <1>2, <1>3
<1>5. InfosInv' /\ FreshInv'
  BY <1>1, <1>2, <1>3
<1> QED
  BY <1>4, <1>5

(* A deletion takes one PackageInfo, which nobody reads or keeps then.     *)
LEMMA DeleteInv ==
    ASSUME TilesInv, NEW info \in Deletable, deleteLocalPackage(info)
    PROVE  TilesInv'
<1> USE DEF TilesInv, TypeInv, InfosInv, FreshInv
<1>1. /\ rows' = [rows EXCEPT ![info.package] = IF @.version = info.version THEN NoRow ELSE @]
      /\ obsolete' = obsolete \ {info} /\ open' = <<>> /\ untold' = untold /\ reader' = reader
      /\ ~reader.reading
  BY DEF deleteLocalPackage, Deleted
<1>2. \A q \in HasRow' : q \in HasRow /\ rows'[q] = rows[q] /\ Info(q)' = Info(q)
  <2>1. DOMAIN rows' = Packages /\ \A q \in Packages : rows'[q] \in {rows[q], NoRow}
    BY <1>1
  <2>2. ASSUME NEW q \in HasRow' PROVE q \in HasRow /\ rows'[q] = rows[q]
    BY <2>1 DEF HasRow
  <2> QED
    BY <2>2 DEF Info
<1>3. There' \subseteq There
  BY <1>1, <1>2 DEF There, Installed
<1>4. Len(open') = 0 /\ DOMAIN open' = 1 .. 0 /\ reader'.infos = {}
  BY <1>1
<1>5. DOMAIN rows' = Packages /\ \A q \in HasRow' : rows'[q].version \in Versions
  BY <1>1, <1>2
<1> HIDE DEF There
<1> QED
  BY <1>1, <1>3, <1>4, <1>5

LEMMA BeginLoadInv ==
    ASSUME TilesInv, BeginLoad
    PROVE  TilesInv'
<1> USE DEF TilesInv, TypeInv, InfosInv, FreshInv
<1>1. /\ reader' = [reading |-> TRUE, infos |-> Installed]
      /\ rows' = rows /\ untold' = untold /\ obsolete' = obsolete /\ open' = open
  BY DEF BeginLoad
<1>2. There' = There /\ HasRow' = HasRow /\ Installed \subseteq There
  BY <1>1 DEF There, Installed, Info, HasRow
<1>3. reader'.infos = Installed /\ reader'.reading
  BY <1>1
<1> HIDE DEF There, HasRow, Installed
<1> QED
  BY <1>1, <1>2, <1>3

(* What is open after a loadTile was open before or is of its map. *)
LEMMA LoadedFrom ==
    ASSUME TypeInv, NEW t, loadTile(t)
    PROVE  /\ Len(open') \in Nat /\ DOMAIN open' = 1 .. Len(open')
           /\ \A j \in DOMAIN open' : open'[j] \in reader.infos \/ \E i \in DOMAIN open : open'[j] = open[i]
<1> USE DEF TypeInv
<1>1. ASSUME NEW i \in FirstOpen(t), open' = Rotated(i)
      PROVE  /\ Len(open') \in Nat /\ DOMAIN open' = 1 .. Len(open')
             /\ \A j \in DOMAIN open' : \E n \in DOMAIN open : open'[j] = open[n]
  <2>1. i \in DOMAIN open
    BY DEF FirstOpen
  <2>2. DOMAIN open' = 1 .. Len(open) /\ Len(open') = Len(open)
    BY <1>1 DEF Rotated
  <2>3. ASSUME NEW j \in DOMAIN open' PROVE \E n \in DOMAIN open : open'[j] = open[n]
    <3>1. open'[j] = IF j = 1 THEN open[i] ELSE IF j <= i THEN open[j - 1] ELSE open[j]
      BY <1>1, <2>2 DEF Rotated
    <3>2. j # 1 => j - 1 \in DOMAIN open
      BY <2>2
    <3> QED
      BY <2>1, <2>2, <3>1, <3>2
  <2> QED
    BY <2>2, <2>3
<1>2. ASSUME NEW info \in Servers(t), FirstOpen(t) = {}, open' = Opened(info)
      PROVE  /\ Len(open') \in Nat /\ DOMAIN open' = 1 .. Len(open')
             /\ \A j \in DOMAIN open' : open'[j] \in reader.infos \/ \E n \in DOMAIN open : open'[j] = open[n]
  <2> DEFINE m == IF Len(open) < MAX_OPEN_PACKAGES THEN Len(open) + 1 ELSE MAX_OPEN_PACKAGES
  <2>1. info \in reader.infos
    BY <1>2 DEF Servers
  <2>2. m \in Nat /\ m <= Len(open) + 1
    BY PackagesAssumption
  <2>3. open' = [j \in 1 .. m |-> IF j = 1 THEN info ELSE open[j - 1]]
    BY <1>2 DEF Opened
  <2> HIDE DEF m
  <2>4. DOMAIN open' = 1 .. m /\ Len(open') = m
    BY <2>2, <2>3
  <2>5. ASSUME NEW j \in DOMAIN open'
        PROVE  open'[j] \in reader.infos \/ \E n \in DOMAIN open : open'[j] = open[n]
    <3>1. open'[j] = IF j = 1 THEN info ELSE open[j - 1]
      BY <2>3, <2>4
    <3>2. j # 1 => j - 1 \in DOMAIN open
      BY <2>2, <2>4
    <3> QED
      BY <2>1, <3>1, <3>2
  <2> QED
    BY <2>2, <2>4, <2>5
<1>3. CASE open' = open
  BY <1>3
<1> QED
  BY <1>1, <1>2, <1>3 DEF loadTile

LEMMA LoadTileInv ==
    ASSUME TilesInv, NEW t \in Tiles, loadTile(t)
    PROVE  TilesInv'
<1>1. TypeInv /\ InfosInv /\ FreshInv
  BY DEF TilesInv
<1>2. /\ Len(open') \in Nat /\ DOMAIN open' = 1 .. Len(open')
      /\ \A j \in DOMAIN open' : open'[j] \in reader.infos \/ \E i \in DOMAIN open : open'[j] = open[i]
  BY <1>1, LoadedFrom
<1>3. /\ reader' = NoReader /\ NoReader.infos = {} /\ ~NoReader.reading
      /\ rows' = rows /\ untold' = untold /\ obsolete' = obsolete
  BY DEF loadTile, NoReader
<1>4. There' = There /\ HasRow' = HasRow
  BY <1>3 DEF There, Installed, Info, HasRow
<1> QED
  BY <1>1, <1>2, <1>3, <1>4 DEF TilesInv, TypeInv, InfosInv, FreshInv

(* What an import installs, and what a download does, is true of its row.  *)
LEMMA ImportInstalls ==
    ASSUME NEW p \in Packages, importPackage(p)
    PROVE  \E row : RowOK(row) /\ Install(p, row)
<1> DEFINE Row(v, c, m) == [version |-> v, tiles |-> c, clip |-> MaxZoom(c), tile_mask |-> EncodeTileMask(m)]
<1>1. PICK v \in Versions, c \in Contents[p] :
        \E m \in {TileMask(c, MaxZoom(c)), NoMask} : Install(p, Row(v, c, m))
  BY DEF importPackage
<1>2. PICK m \in {TileMask(c, MaxZoom(c)), NoMask} : Install(p, Row(v, c, m))
  BY <1>1
<1>3. RowOK(Row(v, c, m))
  BY ImportedRowOK
<1> HIDE DEF Row
<1> QED
  BY <1>2, <1>3

LEMMA DownloadInstalls ==
    ASSUME NEW p \in Packages, downloadPackage(p)
    PROVE  \E row : RowOK(row) /\ Install(p, row)
<1> DEFINE Clip(given, k) == IF Len(given) > 1 \/ k <= DEFAULT_TILEMASK_ZOOMLEVEL
                             THEN k ELSE DEFAULT_TILEMASK_ZOOMLEVEL
           Row(v, c, given, k) == [version |-> v, tiles |-> c, clip |-> Clip(given, k),
                                   tile_mask |-> EncodeTileMask(DecodeTileMask(given))]
<1>1. PICK v \in Versions, c \in Contents[p], k \in Clips :
        \E given \in {<<TileMask(c, k).value>>, <<TileMask(c, k).value, TileMask(c, k).maxZoom>>} :
           Install(p, Row(v, c, given, k))
  BY DEF downloadPackage
<1>2. PICK given \in {<<TileMask(c, k).value>>, <<TileMask(c, k).value, TileMask(c, k).maxZoom>>} :
        Install(p, Row(v, c, given, k))
  BY <1>1
<1>3. RowOK(Row(v, c, given, k))
  BY DownloadedRowOK
<1> HIDE DEF Row
<1> QED
  BY <1>2, <1>3

LEMMA NextInv ==
    ASSUME TilesInv, [Next]_vars
    PROVE  TilesInv'
<1>1. ASSUME NEW p \in Packages, importPackage(p) \/ downloadPackage(p) PROVE TilesInv'
  BY <1>1, ImportInstalls, DownloadInstalls, InstallInv
<1>2. ASSUME NEW info \in Deletable, deleteLocalPackage(info) PROVE TilesInv'
  BY <1>2, DeleteInv
<1>3. CASE onPackagesChanged
  BY <1>3, ChangedInv
<1>4. CASE BeginLoad
  BY <1>4, BeginLoadInv
<1>5. ASSUME NEW t \in Tiles, loadTile(t) PROVE TilesInv'
  BY <1>5, LoadTileInv
<1>6. CASE UNCHANGED vars
  BY <1>6 DEF vars, TilesInv, TypeInv, InfosInv, FreshInv, There, Installed, Info, HasRow
<1> QED
  BY <1>1, <1>2, <1>3, <1>4, <1>5, <1>6 DEF Next

(* The inductive invariant: what is known of a package is true wherever a  *)
(* PackageInfo is kept, and what is kept is installed or still to be       *)
(* deleted.                                                                *)
THEOREM TilesInvariant == Spec => []TilesInv
BY InitInv, NextInv, PTL DEF Spec

(* The mask of an installed package has the tiles of the package: that it  *)
(* went through the tree, its bits, Base64, and the row of the package,    *)
(* changes nothing, whatever the tiles are.                                *)
THEOREM MasksAreAlwaysTrue == Spec => []MasksAreTrue
<1>1. TilesInv => MasksAreTrue
  BY DEF TilesInv, InfosInv, There, InfoOK, IsTrue, MasksAreTrue
<1> QED
  BY <1>1, TilesInvariant, PTL

(* If what is known is true, a tile of the map is found, in a package that *)
(* has it.                                                                 *)
LEMMA FoundInv == TilesInv => TilesAreFound
<1> SUFFICES ASSUME TilesInv, reader.reading, NEW t \in Tiles
             PROVE  LET asked == reader.infos \cup Range(open)
                    IN  /\ (\A info \in asked : Zoom(t) <= info.clip)
                              /\ (\E info \in reader.infos : HasData(info, t))
                              => Servers(t) # {} /\ \A info \in Servers(t) : HasData(info, t)
                        /\ Servers(t) \subseteq There
  BY DEF TilesAreFound, There
<1> DEFINE asked == reader.infos \cup Range(open)
<1>1. /\ \A info \in asked : InfoOK(info)
      /\ \A i \in DOMAIN open : open[i] \in asked
      /\ asked \subseteq There
  BY DEF TilesInv, InfosInv, FreshInv, Range
<1>2. /\ \A i \in FirstOpen(t) : i \in DOMAIN open /\ EndsSearch(open[i], t)
      /\ \A info \in Servers(t) : info \in asked /\ EndsSearch(info, t)
  BY <1>1 DEF FirstOpen, Servers
<1>3. ASSUME \A info \in asked : Zoom(t) <= info.clip, NEW info \in asked
      PROVE  EndsSearch(info, t) <=> HasData(info, t)
  <2>1. InfoOK(info) /\ Zoom(t) <= info.clip
    BY <1>1, <1>3
  <2>2. CASE info.mask = NoMask
    BY <2>2 DEF EndsSearch
  <2>3. CASE info.mask # NoMask
    <3>1. Ancestor(t, info.clip) = t
      BY <2>1, AncestorDef, PackagesAssumption DEF InfoOK
    <3>2. IsFull(info.mask, t) <=> t \in info.tiles
      BY <2>1, <2>3, <3>1 DEF InfoOK, IsTrue
    <3> QED
      BY <2>3, <3>2 DEF EndsSearch, HasData
  <2> QED
    BY <2>2, <2>3
<1>4. ASSUME \A info \in asked : Zoom(t) <= info.clip, NEW info \in reader.infos, HasData(info, t)
      PROVE  Servers(t) # {} /\ \A i \in Servers(t) : HasData(i, t)
  <2>1. EndsSearch(info, t)
    BY <1>3, <1>4
  <2>2. Servers(t) # {}
    BY <1>4, <2>1 DEF Servers
  <2>3. \A i \in Servers(t) : HasData(i, t)
    <3> HIDE DEF asked
    <3> QED
      BY <1>2, <1>3, <1>4
  <2> QED
    BY <2>2, <2>3
<1> QED
  BY <1>1, <1>2, <1>4

(* loadTile finds the tiles of the installed packages, whichever handlers  *)
(* are open, and finds them in packages that are installed or not deleted  *)
(* yet.                                                                    *)
THEOREM TilesAreAlwaysFound == Spec => []TilesAreFound
BY FoundInv, TilesInvariant, PTL

-----------------------------------------------------------------------------
(* The data source reads its packages as LocalPackages lets it: each step  *)
(* is one of LocalPackages, with versions in the place of what is known of *)
(* them.                                                                   *)
LEMMA InstallReads ==
    ASSUME TilesInv, NEW p \in Packages, NEW row, RowOK(row), Install(p, row)
    PROVE  Manager!Install(p, row.version)
<1> DEFINE inst == {<<q, rows[q].version>> : q \in HasRow}
           obs == VersionsIn(obsolete)
<1>1. /\ ~untold /\ untold' = TRUE /\ obsolete = {} /\ obsolete' = {info \in Installed : info.package = p}
      /\ p \in HasRow => rows[p].version # row.version
      /\ rows' = [rows EXCEPT ![p] = row] /\ open' = open /\ reader' = reader
  BY DEF Install
<1>2. DOMAIN rows = Packages /\ (\A q \in HasRow : rows[q].version \in Versions) /\ row.version \in Versions
  BY DEF TilesInv, TypeInv, RowOK
<1>3. p \in HasRow'
  <2>1. row.clip \in Nat /\ NoRow.clip = -1
    BY DEF RowOK, NoRow
  <2>2. rows'[p] = row /\ row # NoRow
    BY <1>1, <1>2, <2>1
  <2> QED
    BY <2>2 DEF HasRow
<1>4. inst' = (inst \ Manager!VersionsOf(p)) \cup {<<p, row.version>>}
  <2>1. rows'[p] = row /\ \A q \in Packages : q # p => rows'[q] = rows[q] /\ (q \in HasRow' <=> q \in HasRow)
    BY <1>1, <1>2 DEF HasRow
  <2> QED
    BY <1>2, <1>3, <2>1 DEF HasRow, Manager!VersionsOf
<1>5. obs = {}
  BY <1>1 DEF VersionsIn
<1>6. obs' = inst \cap Manager!VersionsOf(p)
  <2>1. obsolete' = IF p \in HasRow THEN {Info(p)} ELSE {}
    BY <1>1 DEF Installed, Info
  <2>2. Info(p).package = p /\ Info(p).version = rows[p].version
    BY DEF Info
  <2>3. obs' = IF p \in HasRow THEN {<<p, rows[p].version>>} ELSE {}
    BY <2>1, <2>2 DEF VersionsIn
  <2> QED
    BY <1>2, <2>3 DEF Manager!VersionsOf
<1>7. <<p, row.version>> \notin inst
  BY <1>1
<1>8. /\ reader.reading' = reader.reading /\ VersionsIn(reader.infos)' = VersionsIn(reader.infos)
      /\ VersionsIn(Range(open))' = VersionsIn(Range(open))
  BY <1>1
<1> QED
  BY <1>1, <1>4, <1>5, <1>6, <1>7, <1>8 DEF Manager!Install

LEMMA ChangedReads ==
    ASSUME onPackagesChanged
    PROVE  Manager!TellInstalled
<1>1. /\ untold /\ untold' = FALSE /\ open' = <<>> /\ rows' = rows /\ obsolete' = obsolete /\ reader' = reader
  BY DEF onPackagesChanged
<1>2. VersionsIn(Range(open))' = {}
  BY <1>1 DEF VersionsIn, Range
<1> QED
  BY <1>1, <1>2 DEF Manager!TellInstalled, HasRow

LEMMA DeleteReads ==
    ASSUME TilesInv, NEW info \in Deletable, deleteLocalPackage(info)
    PROVE  \E x \in Packages \X Versions : Manager!GiveUp(x)
<1> DEFINE inst == {<<q, rows[q].version>> : q \in HasRow}
           x == <<info.package, info.version>>
<1>1. /\ rows' = [rows EXCEPT ![info.package] = IF @.version = info.version THEN NoRow ELSE @]
      /\ obsolete' = obsolete \ {info} /\ open' = <<>> /\ untold' = untold /\ reader' = reader
      /\ ~reader.reading /\ ~untold
  BY DEF deleteLocalPackage, Deleted
<1>2. /\ DOMAIN rows = Packages /\ \A q \in HasRow : rows[q].version \in Versions
      /\ \A i \in obsolete : i.package \in Packages /\ i.version \in Versions
      /\ \A i, j \in obsolete : i = j
  BY DEF TilesInv, TypeInv
<1>3. info \in obsolete \/ (obsolete = {} /\ \E q \in HasRow : info = Info(q))
  <2>1. CASE obsolete = {}
    BY <2>1 DEF Deletable, Installed
  <2>2. CASE obsolete # {}
    BY <2>2 DEF Deletable
  <2> QED
    BY <2>1, <2>2
<1>4. info.package \in Packages /\ info.version \in Versions
  <2>1. \A q \in HasRow : Info(q).package = q /\ Info(q).version = rows[q].version /\ q \in Packages
    BY DEF Info, HasRow
  <2> QED
    BY <1>2, <1>3, <2>1
<1>5. inst' = inst \ {x}
  <2>1. \A q \in Packages : rows'[q] = IF q = info.package /\ rows[q].version = info.version
                                       THEN NoRow ELSE rows[q]
    BY <1>1, <1>2
  <2>2. \A q \in Packages : q \in HasRow' <=> q \in HasRow /\ <<q, rows[q].version>> # x
    BY <2>1 DEF HasRow
  <2>3. \A q \in HasRow' : rows'[q] = rows[q]
    BY <2>1 DEF HasRow
  <2> QED
    BY <2>2, <2>3 DEF HasRow
<1>6. /\ VersionsIn(obsolete) = {} \/ x \in VersionsIn(obsolete)
      /\ VersionsIn(obsolete)' = VersionsIn(obsolete) \ {x}
  <2>1. obsolete' = {} /\ (obsolete = {} \/ obsolete = {info})
    BY <1>1, <1>2, <1>3
  <2> QED
    BY <2>1 DEF VersionsIn
<1>7. VersionsIn(Range(open))' = {}
  BY <1>1 DEF VersionsIn, Range
<1>8. Manager!GiveUp(x)
  BY <1>1, <1>5, <1>6, <1>7 DEF Manager!GiveUp
<1> QED
  BY <1>4, <1>8

LEMMA BeginLoadReads ==
    ASSUME BeginLoad
    PROVE  Manager!BeginAccess
<1>1. /\ ~reader.reading /\ reader' = [reading |-> TRUE, infos |-> Installed]
      /\ rows' = rows /\ untold' = untold /\ obsolete' = obsolete /\ open' = open
  BY DEF BeginLoad
<1>2. reader'.reading = TRUE /\ reader'.infos = Installed
  BY <1>1
<1>3. VersionsIn(Installed) = {<<q, rows[q].version>> : q \in HasRow}
  <2>1. \A q \in HasRow : Info(q).package = q /\ Info(q).version = rows[q].version
    BY DEF Info
  <2> QED
    BY <2>1 DEF VersionsIn, Installed
<1> QED
  BY <1>1, <1>2, <1>3 DEF Manager!BeginAccess, HasRow

LEMMA LoadTileReads ==
    ASSUME TilesInv, NEW t \in Tiles, loadTile(t)
    PROVE  Manager!EndAccess
<1>1. /\ reader.reading /\ reader'.reading = FALSE /\ reader'.infos = {}
      /\ rows' = rows /\ untold' = untold /\ obsolete' = obsolete
  BY DEF loadTile, NoReader
<1>2. VersionsIn(reader.infos)' = {}
  BY <1>1 DEF VersionsIn
<1>3. Range(open)' \subseteq Range(open) \cup reader.infos
  BY LoadedFrom DEF TilesInv, Range
<1>4. VersionsIn(Range(open))' \subseteq VersionsIn(Range(open)) \cup VersionsIn(reader.infos)
  BY <1>3 DEF VersionsIn
<1> QED
  BY <1>1, <1>2, <1>4 DEF Manager!EndAccess, HasRow

LEMMA StepReads ==
    ASSUME TilesInv, [Next]_vars
    PROVE  [Manager!Next]_Manager!vars
<1>1. ASSUME NEW p \in Packages, importPackage(p) \/ downloadPackage(p) PROVE Manager!Next
  <2>1. PICK row : RowOK(row) /\ Install(p, row)
    BY <1>1, ImportInstalls, DownloadInstalls
  <2>2. Manager!Install(p, row.version) /\ row.version \in Versions
    BY <2>1, InstallReads DEF RowOK
  <2> QED
    BY <2>2 DEF Manager!Next
<1>2. ASSUME NEW info \in Deletable, deleteLocalPackage(info) PROVE Manager!Next
  BY <1>2, DeleteReads DEF Manager!Next
<1>3. CASE onPackagesChanged
  BY <1>3, ChangedReads DEF Manager!Next
<1>4. CASE BeginLoad
  BY <1>4, BeginLoadReads DEF Manager!Next
<1>5. ASSUME NEW t \in Tiles, loadTile(t) PROVE Manager!Next
  BY <1>5, LoadTileReads DEF Manager!Next
<1>6. CASE UNCHANGED vars
  BY <1>6 DEF vars, Manager!vars, HasRow
<1> QED
  BY <1>1, <1>2, <1>3, <1>4, <1>5, <1>6 DEF Next

LEMMA InitReads == Init => Manager!Init
<1> SUFFICES ASSUME Init PROVE Manager!Init
  OBVIOUS
<1>1. /\ rows = [p \in Packages |-> NoRow] /\ untold = FALSE /\ obsolete = {} /\ open = <<>>
      /\ reader.infos = {} /\ reader.reading = FALSE
  BY DEF Init, NoReader
<1>2. HasRow = {} /\ Range(open) = {}
  BY <1>1 DEF HasRow, Range
<1> QED
  BY <1>1, <1>2 DEF Manager!Init, Manager!OneOfEach, VersionsIn

(* The data source implements the reader of LocalPackages: with            *)
(* PackageManagerProofs, each side of accessLocalPackages and of the       *)
(* listener keeps to the same promise.                                     *)
THEOREM Refinement == Spec => ReadsLocalPackages
<1>1. Init => Manager!Init
  BY InitReads
<1>2. TilesInv /\ [Next]_vars => [Manager!Next]_Manager!vars
  BY StepReads
<1> QED
  BY <1>1, <1>2, TilesInvariant, PTL DEF Spec, ReadsLocalPackages, Manager!Spec
=============================================================================
