-------------------------- MODULE MapRendererProofs --------------------------
(***************************************************************************)
(* Layers and MapRenderer: TypeOK, ListedIffAttached and CulledAtRest for  *)
(* every number of layers, lists, threads and calls.  The lists are proved *)
(* first, operation by operation.  Then the invariant says that a layer of *)
(* the list which was not culled for the view of the map is in the batch   *)
(* of the worker, or due, or named by a call under way, or will be found   *)
(* by the frame that sees the surface change.                              *)
(***************************************************************************)
EXTENDS MapRenderer, FiniteSetTheorems, SequenceTheorems, TLAPS

(* Positions and entries, the list as a function.  *)
ListInv ==
    /\ layers \in Lists /\ attached \subseteq AllLayers /\ doubled \in BOOLEAN
    /\ ListedIffAttached

LEMMA ListForm ==
  ASSUME NEW s, NEW n \in 0 .. MaxList, s \in [1 .. n -> AllLayers \cup {Null}]
  PROVE  s \in Lists /\ Len(s) = n /\ s \in Seq(AllLayers \cup {Null}) /\ Entries(s) = {s[i] : i \in 1 .. n}
<1>1. n \in Nat
  BY LayersAssumption
<1>2. s \in Seq(AllLayers \cup {Null}) /\ Len(s) = n
  BY <1>1
<1>. QED
  BY <1>2 DEF Lists, Entries

LEMMA ListLen ==
  ASSUME NEW s \in Lists
  PROVE  /\ Len(s) \in 0 .. MaxList /\ s \in [1 .. Len(s) -> AllLayers \cup {Null}]
         /\ s \in Seq(AllLayers \cup {Null})
         /\ Entries(s) \subseteq AllLayers \cup {Null}
<1>1. PICK n \in 0 .. MaxList : s \in [1 .. n -> AllLayers \cup {Null}]
  BY DEF Lists
<1>2. Len(s) = n /\ s \in Seq(AllLayers \cup {Null})
  BY <1>1, ListForm
<1>. QED
  BY <1>1, <1>2 DEF Entries

LEMMA SeqIsList ==
  ASSUME NEW s \in Seq(AllLayers \cup {Null}), Len(s) <= MaxList
  PROVE  s \in Lists
  BY LayersAssumption, LenProperties DEF Lists

LEMMA SomeListIsList ==
  ASSUME NEW s \in SomeLists
  PROVE  s \in Lists /\ Null \notin Entries(s)
<1>1. PICK n \in 0 .. MaxList : s \in [1 .. n -> AllLayers]
  BY LayersAssumption
<1>2. s \in [1 .. n -> AllLayers \cup {Null}]
  BY <1>1
<1>. QED
  BY <1>1, <1>2, ListForm, LayersAssumption

LEMMA InitLists == InitLayers => ListInv
<1> SUFFICES ASSUME InitLayers PROVE ListInv
  OBVIOUS
<1>1. layers \in Lists /\ Null \notin Entries(layers)
  BY SomeListIsList DEF InitLayers
<1>. QED
  BY <1>1, ListLen, LayersAssumption DEF InitLayers, ListInv, ListedIffAttached

LEMMA ListStays == ListInv /\ UNCHANGED listVars => ListInv'
  BY DEF ListInv, ListedIffAttached, listVars, Entries

(* A list that has no other empty entries than the one it takes the place  *)
(* of keeps the invariant.                                                 *)
LEMMA BecomeLists ==
  ASSUME ListInv, NEW s \in Lists, Become(s), Null \in Entries(s) => Null \in Entries(layers)
  PROVE  ListInv' /\ Entries(layers') = Entries(s)
<1>1. layers' = s /\ doubled' = doubled
      /\ attached' = (attached \ (Entries(layers) \ Entries(s))) \cup (Entries(s) \ Entries(layers))
  BY DEF Become
<1>2. Entries(s) \subseteq AllLayers \cup {Null}
  BY ListLen
<1>3. attached = Entries(layers) \ {Null}
  BY DEF ListInv, ListedIffAttached
<1>4. attached' = Entries(s) \ {Null}
  BY <1>1, <1>3
<1>5. Entries(layers') = Entries(s)
  BY <1>1
<1>. QED
  BY <1>1, <1>2, <1>4, <1>5 DEF ListInv, ListedIffAttached

LEMMA setLists ==
  ASSUME ListInv, NEW l \in AllLayers, NEW i \in 1 .. MaxList, set(i, l)
  PROVE  ListInv' /\ Entries(layers') \subseteq Entries(layers) \cup {l}
<1> DEFINE s == [layers EXCEPT ![i] = l]
<1>1. i \in 1 .. Len(layers) /\ Become(s)
  BY DEF set
<1>2. layers \in Seq(AllLayers \cup {Null}) /\ Len(layers) \in 0 .. MaxList
  BY ListLen DEF ListInv
<1>3. /\ s \in Seq(AllLayers \cup {Null}) /\ Len(s) = Len(layers)
      /\ \A j \in 1 .. Len(layers) : s[j] = IF j = i THEN l ELSE layers[j]
  BY <1>1, <1>2, ExceptSeq
<1> HIDE DEF s
<1>4. s \in Lists
  BY <1>2, <1>3, SeqIsList
<1>5. Null \in Entries(s) => Null \in Entries(layers)
  BY <1>3, LayersAssumption DEF Entries
<1>6. Entries(s) \subseteq Entries(layers) \cup {l}
  BY <1>3 DEF Entries
<1>. QED
  BY <1>1, <1>4, <1>5, <1>6, BecomeLists

LEMMA insertLists ==
  ASSUME ListInv, NEW l \in AllLayers, NEW i \in 1 .. MaxList, insert(i, l)
  PROVE  ListInv' /\ Entries(layers') \subseteq Entries(layers) \cup {l}
<1> DEFINE T == AllLayers \cup {Null}
           a == SubSeq(layers, 1, i - 1)
           b == SubSeq(layers, i, Len(layers))
           s == a \o <<l>> \o b
<1>1. i \in 1 .. Len(layers) + 1 /\ Become(s)
  BY DEF insert
<1>2. layers \in Seq(T) /\ Len(layers) \in Nat /\ \A j \in 1 .. Len(layers) : layers[j] \in T
  BY ListLen, LenProperties DEF ListInv
<1>3. /\ a \in Seq(T) /\ Len(a) = i - 1
      /\ \A j \in 1 .. i - 1 : a[j] = layers[j]
  <2>1. \A j \in 1 .. i - 1 : layers[j] \in T
    BY <1>1, <1>2
  <2>. QED
    BY <1>1, <1>2, <2>1, SubSeqProperties
<1>4. /\ b \in Seq(T) /\ \A j \in 1 .. Len(layers) - i + 1 : b[j] = layers[i + j - 1]
      /\ Len(b) = Len(layers) - i + 1
  <2>1. \A j \in i .. Len(layers) : layers[j] \in T
    BY <1>1, <1>2
  <2>. QED
    BY <1>1, <1>2, <2>1, SubSeqProperties
<1> HIDE DEF a, b
<1>5. <<l>> \in Seq(T) /\ Len(<<l>>) = 1 /\ <<l>>[1] = l
  OBVIOUS
<1>6. /\ a \o <<l>> \in Seq(T) /\ Len(a \o <<l>>) = i
      /\ \A j \in 1 .. i : (a \o <<l>>)[j] = IF j <= i - 1 THEN a[j] ELSE <<l>>[j - (i - 1)]
  BY <1>1, <1>2, <1>3, <1>5, ConcatProperties
<1> DEFINE c == a \o <<l>>
<1> HIDE DEF c
<1>6a. /\ c \in Seq(T) /\ Len(c) = i
       /\ \A j \in 1 .. i : c[j] = IF j <= i - 1 THEN a[j] ELSE <<l>>[j - (i - 1)]
  BY <1>6 DEF c
<1>6b. \A j \in 1 .. i : c[j] = IF j < i THEN layers[j] ELSE l
  <2> SUFFICES ASSUME NEW j \in 1 .. i PROVE c[j] = IF j < i THEN layers[j] ELSE l
    OBVIOUS
  <2>1. CASE j < i
    BY <1>1, <1>2, <1>3, <1>6a, <2>1
  <2>2. CASE j = i
    <3>1. j - (i - 1) = 1 /\ ~(j <= i - 1)
      BY <1>1, <1>2, <2>2
    <3>. QED
      BY <1>5, <1>6a, <2>2, <3>1
  <2>. QED
    BY <1>1, <1>2, <2>1, <2>2
<1>7. /\ s \in Seq(T) /\ Len(s) = Len(layers) + 1
      /\ \A j \in 1 .. Len(layers) + 1 : s[j] = IF j <= i THEN c[j] ELSE b[j - i]
  <2>1. s = c \o b
    BY DEF c
  <2>2. Len(c) + Len(b) = Len(layers) + 1
    BY <1>1, <1>2, <1>4, <1>6a
  <2> HIDE DEF s, T
  <2>3. /\ c \o b \in Seq(T) /\ Len(c \o b) = Len(c) + Len(b)
        /\ \A j \in 1 .. Len(c) + Len(b) : (c \o b)[j] = IF j <= Len(c) THEN c[j] ELSE b[j - Len(c)]
    BY <1>4, <1>6a, ConcatProperties
  <2>. QED
    BY <1>6a, <2>1, <2>2, <2>3
<1> HIDE DEF s
<1>8. \A j \in 1 .. Len(layers) + 1 : s[j] = l \/ \E k \in 1 .. Len(layers) : s[j] = layers[k]
  <2> TAKE j \in 1 .. Len(layers) + 1
  <2>1. CASE j < i
    <3>1. s[j] = layers[j] /\ j \in 1 .. Len(layers)
      BY <2>1, <1>1, <1>2, <1>6b, <1>7
    <3>. QED
      BY <3>1
  <2>2. CASE j = i
    BY <2>2, <1>1, <1>2, <1>6b, <1>7
  <2>3. CASE j > i
    <3>1. s[j] = b[j - i] /\ j - i \in 1 .. Len(layers) - i + 1
      BY <2>3, <1>1, <1>2, <1>7
    <3>2. b[j - i] = layers[i + (j - i) - 1] /\ i + (j - i) - 1 \in 1 .. Len(layers)
      BY <3>1, <2>3, <1>1, <1>2, <1>4
    <3>. QED
      BY <3>1, <3>2
  <2>. QED
    BY <2>1, <2>2, <2>3, <1>2
<1>9. s \in Lists
  BY <1>1, <1>7, SeqIsList DEF Become
<1>10. Null \in Entries(s) => Null \in Entries(layers)
  <2>1. Null # l
    BY LayersAssumption
  <2>2. \A j \in 1 .. Len(s) : s[j] = Null => \E k \in 1 .. Len(layers) : layers[k] = Null
    BY <1>7, <1>8, <2>1
  <2>. QED
    BY <2>2 DEF Entries
<1>11. Entries(s) \subseteq Entries(layers) \cup {l}
  BY <1>7, <1>8 DEF Entries
<1>. QED
  BY <1>1, <1>9, <1>10, <1>11, BecomeLists

LEMMA addLists ==
  ASSUME ListInv, NEW l \in AllLayers, addAll(<<l>>)
  PROVE  ListInv' /\ Entries(layers') \subseteq Entries(layers) \cup {l}
<1> DEFINE T == AllLayers \cup {Null}
           s == layers \o <<l>>
<1>1. Become(s)
  BY DEF addAll
<1>2. layers \in Seq(T) /\ Len(layers) \in Nat
  BY ListLen, LenProperties DEF ListInv
<1>3. <<l>> \in Seq(T) /\ Len(<<l>>) = 1 /\ <<l>>[1] = l
  OBVIOUS
<1>4. /\ s \in Seq(T) /\ Len(s) = Len(layers) + 1
      /\ \A j \in 1 .. Len(layers) + 1 : s[j] = IF j <= Len(layers) THEN layers[j] ELSE <<l>>[j - Len(layers)]
  BY <1>2, <1>3, ConcatProperties
<1> HIDE DEF s
<1>5. \A j \in 1 .. Len(layers) + 1 : s[j] = l \/ \E k \in 1 .. Len(layers) : s[j] = layers[k]
  BY <1>2, <1>3, <1>4
<1>6. s \in Lists
  BY <1>1, <1>4, SeqIsList DEF Become
<1>7. Null \in Entries(s) => Null \in Entries(layers)
  BY <1>4, <1>5, LayersAssumption DEF Entries
<1>8. Entries(s) \subseteq Entries(layers) \cup {l}
  BY <1>4, <1>5 DEF Entries
<1>. QED
  BY <1>1, <1>6, <1>7, <1>8, BecomeLists

LEMMA setAllLists == ASSUME ListInv, NEW s \in SomeLists, setAll(s) PROVE ListInv'
  BY SomeListIsList, BecomeLists DEF setAll

LEMMA clearLists == ASSUME ListInv, clear PROVE ListInv' /\ Entries(layers') = {}
<1>1. <<>> \in Seq(AllLayers \cup {Null}) /\ Len(<<>>) = 0
  BY EmptySeq
<1>2. <<>> \in Lists
  <2>1. 0 <= MaxList
    BY LayersAssumption
  <2>. QED
    BY <1>1, <2>1, SeqIsList, Zenon
<1>3. Entries(<<>>) = {}
  <2>1. 1 .. Len(<<>>) = {}
    BY <1>1
  <2>. QED
    BY <2>1, Zenon DEF Entries
<1>. QED
  BY <1>2, <1>3, BecomeLists DEF clear, setAll

(* An ascending numbering of n positions reaches each of them. *)
LEMMA AscendingOnto ==
  ASSUME NEW n \in Nat, NEW S \in SUBSET (1 .. n), NEW f \in Ascending(S)
  PROVE  /\ IsFiniteSet(S) /\ Cardinality(S) \in Nat
         /\ f \in [1 .. Cardinality(S) -> S]
         /\ \A i \in S : \E k \in 1 .. Cardinality(S) : f[k] = i
<1>1. IsFiniteSet(1 .. n)
  BY FS_Interval
<1>2. IsFiniteSet(S) /\ Cardinality(S) \in Nat
  BY <1>1, FS_Subset, FS_CardinalityType
<1> DEFINE m == Cardinality(S)
<1>3. f \in [1 .. m -> S] /\ \A i, j \in 1 .. m : i < j => f[i] < f[j]
  BY DEF Ascending
<1>4. m \in Nat /\ Cardinality(1 .. m) = m
  BY <1>2, FS_Interval
<1> HIDE DEF m
<1>5. f \in Injection(1 .. m, S)
  <2>1. \A i, j \in 1 .. m : f[i] = f[j] => i = j
    <3> SUFFICES ASSUME NEW i \in 1 .. m, NEW j \in 1 .. m, f[i] = f[j] PROVE i = j
      OBVIOUS
    <3>1. f[i] \in 1 .. n /\ f[j] \in 1 .. n
      BY <1>3
    <3>2. ~(f[i] < f[j]) /\ ~(f[j] < f[i])
      BY <3>1
    <3>. QED
      BY <1>3, <1>4, <3>2
  <2>. QED
    BY <1>3, <2>1 DEF Injection, IsInjective
<1>6. f \in Surjection(1 .. m, S)
  BY <1>2, <1>4, <1>5, FS_Injection DEF m
<1>. QED
  BY <1>2, <1>3, <1>6 DEF Surjection, m

LEMMA removeLists ==
  ASSUME ListInv, NEW l \in AllLayers, remove(l)
  PROVE  ListInv' /\ Entries(layers') \subseteq Entries(layers) \cup {Null}
<1>1. PICK f \in Ascending(Staying(l)) : layers' = Removed(l, f)
  BY DEF remove
<1> DEFINE n == Len(layers)
           T == AllLayers \cup {Null}
           S == Staying(l)
           m == Cardinality(S)
<1>2. n \in 0 .. MaxList /\ n \in Nat /\ layers \in [1 .. n -> T]
  BY ListLen, LayersAssumption DEF ListInv
<1>3. PICK o \in 1 .. n : layers[o] = l
  BY DEF remove, Entries
<1>4. /\ IsFiniteSet(S) /\ m \in Nat /\ f \in [1 .. m -> S]
      /\ \A i \in S : \E k \in 1 .. m : f[k] = i
  <2>1. S \in SUBSET (1 .. n)
    BY DEF Staying
  <2>. QED
    BY <1>1, <1>2, <2>1, AscendingOnto
<1>5. S \subseteq 1 .. n /\ (\A i \in 1 .. n : i \in S <=> layers[i] # l)
  BY DEF Staying
<1> HIDE DEF S, n
<1>6. m <= n - 1 /\ ((\A i \in 1 .. n : layers[i] = l => i = o) => m = n - 1)
  <2>1. IsFiniteSet(1 .. n) /\ Cardinality(1 .. n) = n
    BY <1>2, FS_Interval
  <2>2. IsFiniteSet((1 .. n) \ {o}) /\ Cardinality((1 .. n) \ {o}) = n - 1
    <3> DEFINE N == 1 .. n
    <3>1. o \in N /\ IsFiniteSet(N) /\ Cardinality(N) = n
      BY <1>3, <2>1
    <3> HIDE DEF N
    <3>2. IsFiniteSet(N \ {o}) /\ Cardinality(N \ {o}) = Cardinality(N) - 1
      BY <3>1, FS_RemoveElement
    <3>. QED
      BY <3>1, <3>2 DEF N
  <2>3. S \subseteq (1 .. n) \ {o}
    BY <1>3, <1>5
  <2>4. (\A i \in 1 .. n : layers[i] = l => i = o) => S = (1 .. n) \ {o}
    BY <1>3, <1>5
  <2>5. Cardinality(S) <= n - 1
    BY <2>2, <2>3, FS_Subset
  <2>. QED
    BY <2>2, <2>4, <2>5
<1>7. /\ DOMAIN f = 1 .. m
      /\ layers' = [i \in 1 .. n - 1 |-> IF i \in 1 .. m THEN layers[f[i]]
                                        ELSE IF layers[i + 1] = l THEN l ELSE Null]
  BY <1>1, <1>4 DEF Removed, n
<1> HIDE DEF m
<1>8. layers' \in [1 .. n - 1 -> T]
  BY <1>2, <1>4, <1>5, <1>7
<1>9. /\ n - 1 \in 0 .. MaxList /\ layers' \in Lists /\ Len(layers') = n - 1
      /\ Entries(layers') = {layers'[i] : i \in 1 .. n - 1}
  <2>1. n - 1 \in 0 .. MaxList
    BY <1>2, <1>3, LayersAssumption
  <2>. QED
    BY <1>8, <2>1, ListForm
<1>10. Entries(layers) = {layers[i] : i \in 1 .. n}
  BY DEF Entries, n
<1>11. \A x \in Entries(layers) : x # l => x \in Entries(layers')
  <2> SUFFICES ASSUME NEW i \in 1 .. n, layers[i] # l PROVE layers[i] \in Entries(layers')
    BY <1>10
  <2>1. PICK k \in 1 .. m : f[k] = i
    BY <1>4, <1>5
  <2>2. k \in 1 .. n - 1 /\ layers'[k] = layers[i]
    BY <1>2, <1>4, <1>6, <1>7, <2>1
  <2>. QED
    BY <1>9, <2>2
<1>12. \A x \in Entries(layers') : x \in Entries(layers) \cup {Null}
  <2> SUFFICES ASSUME NEW i \in 1 .. n - 1 PROVE layers'[i] \in Entries(layers) \cup {Null}
    BY <1>9
  <2>1. CASE i \in 1 .. m
    BY <2>1, <1>2, <1>4, <1>5, <1>7, <1>10
  <2>2. CASE i \notin 1 .. m
    BY <2>2, <1>2, <1>3, <1>7, <1>10
  <2>. QED
    BY <2>1, <2>2
<1>13. Null \in Entries(layers') => Null \in Entries(layers) \/ \E i, j \in 1 .. n : layers[i] = l /\ layers[j] = l /\ i # j
  <2> SUFFICES ASSUME Null \in Entries(layers'), \A i \in 1 .. n : layers[i] = l => i = o
               PROVE  Null \in Entries(layers)
    BY <1>3
  <2>1. m = n - 1
    BY <1>6
  <2>2. PICK i \in 1 .. n - 1 : layers'[i] = Null
    BY <1>9
  <2>. QED
    BY <1>2, <1>4, <1>5, <1>7, <1>10, <2>1, <2>2
<1>14. /\ attached' = IF l \in Entries(layers') THEN attached ELSE attached \ {l}
       /\ doubled' = (doubled \/ \E i, j \in Occurrences(l, layers) : i # j)
  BY DEF remove
<1>15. doubled' \in BOOLEAN /\ (doubled => doubled')
       /\ ((\E i, j \in 1 .. n : layers[i] = l /\ layers[j] = l /\ i # j) => doubled')
  <2>1. \A i, j \in 1 .. n : layers[i] = l /\ layers[j] = l => i \in Occurrences(l, layers) /\ j \in Occurrences(l, layers)
    BY DEF Occurrences, n
  <2>. QED
    BY <1>14, <2>1, Zenon DEF ListInv
<1>16. attached = Entries(layers) \ {Null} /\ (Null \in Entries(layers) => doubled)
  BY DEF ListInv, ListedIffAttached
<1>17. l # Null
  BY LayersAssumption
<1>18. attached' = Entries(layers') \ {Null}
  BY <1>11, <1>12, <1>14, <1>16, <1>17
<1>19. attached' \subseteq AllLayers
  BY <1>14 DEF ListInv
<1>20. Null \in Entries(layers') => doubled'
  BY <1>13, <1>15, <1>16
<1>. QED
  BY <1>9, <1>12, <1>15, <1>18, <1>19, <1>20 DEF ListInv, ListedIffAttached

-----------------------------------------------------------------------------
(* TypeOK without the list, in parts, for the provers. *)
Booleans ==
    /\ sized \in BOOLEAN /\ created \in BOOLEAN /\ changed \in BOOLEAN
    /\ redraw \in BOOLEAN /\ requested \in BOOLEAN /\ billboards \in BOOLEAN
    /\ loading \in BOOLEAN /\ stop \in BOOLEAN /\ fresh \in BOOLEAN

CallTypes ==
    /\ calls \in 0 .. MaxCalls
    /\ gl \in {"none", "draw", "capture", "drawn"}
    /\ capture \in {"none", "wanted", "done"}
    /\ call \in [Threads -> [pc: {"none", "layers", "redraw", "moved", "listed"}, todo: SUBSET AllLayers]]

WorkerTypes ==
    /\ due \in [AllLayers \cup Placers -> {Never, Later, Now}]
    /\ pc \in [Workers -> {"loop", "sleep", "doze", "update", "gone"}]
    /\ idle \in [Workers -> BOOLEAN]
    /\ batch \subseteq AllLayers /\ current \subseteq AllLayers
    /\ updating \subseteq AllLayers /\ telling \subseteq AllLayers

(* The culling worker is not idle as long as it has, or will have, layers.  *)
CullingInv ==
    /\ batch # {} => pc["cull"] = "update"
    /\ pc["cull"] = "update" => ~idle["cull"]
    /\ idle["cull"] => \A l \in AllLayers : due[l] = Never

(* The worker will be told of l, or is. *)
Announced(l) ==
    \/ due[l] # Never
    \/ changed \/ ~created \/ ~sized
    \/ \E t \in Threads : call[t].pc = "moved" \/ (call[t].pc \in {"layers", "listed"} /\ l \in call[t].todo)

CulledInv ==
    \A l \in Entries(layers) \ {Null} : l \in current \/ (l \in batch /\ fresh) \/ Announced(l)

(* What was culled for an older view is not kept as culled. *)
FreshInv == batch # {} /\ ~fresh => current = {}

IInv == ListInv /\ Booleans /\ CallTypes /\ WorkerTypes /\ CullingInv /\ CulledInv /\ FreshInv

LEMMA InitIInv == Init => IInv
<1> SUFFICES ASSUME Init PROVE IInv
  OBVIOUS
<1>1. ListInv
  BY InitLists DEF Init
<1>2. Booleans
  BY Zenon DEF Init, Booleans
<1>3. CallTypes
  BY MapRendererAssumption DEF Init, NoCall, CallTypes
<1>4. WorkerTypes /\ CullingInv
  BY DEF Init, WorkerTypes, CullingInv, Workers, Placers, Never, Now, Later
<1>5. CulledInv /\ FreshInv
  BY DEF Init, CulledInv, Announced, FreshInv
<1>. QED
  BY <1>1, <1>2, <1>3, <1>4, <1>5 DEF IInv

-----------------------------------------------------------------------------
(* CullWorker::init: the worker is not idle unless there was nothing new. *)
LEMMA InitCullWakes ==
  ASSUME WorkerTypes, NEW S \in SUBSET AllLayers, NEW when \in {Now, Later}, InitCull(S, when)
  PROVE  /\ due' \in [AllLayers \cup Placers -> {Never, Later, Now}]
         /\ pc' \in [Workers -> {"loop", "sleep", "doze", "update", "gone"}]
         /\ idle' \in [Workers -> BOOLEAN]
         /\ \A l \in AllLayers : (due[l] # Never => due'[l] # Never) /\ (l \in S => due'[l] # Never)
         /\ \/ UNCHANGED <<due, pc, idle>>
            \/ idle'["cull"] = FALSE /\ (pc["cull"] = "update" <=> pc'["cull"] = "update")
<1> DEFINE new == {l \in S : due[l] # Now /\ due[l] # when}
<1>1. due' = [x \in DOMAIN due |-> IF x \in new THEN when ELSE due[x]]
  BY DEF InitCull
<1>2. \A l \in S : due[l] \in {Now, when} \/ l \in new
  OBVIOUS
<1>3. \/ new = {} /\ UNCHANGED <<pc, idle>>
      \/ /\ pc' = [pc EXCEPT !["cull"] = Notified("cull")]
         /\ idle' = [idle EXCEPT !["cull"] = FALSE]
  BY DEF InitCull
<1> HIDE DEF new
<1>4. /\ due' \in [AllLayers \cup Placers -> {Never, Later, Now}]
      /\ \A l \in AllLayers : (due[l] # Never => due'[l] # Never) /\ (l \in S => due'[l] # Never)
      /\ new = {} => due' = due
  BY <1>1, <1>2 DEF WorkerTypes, Never, Now, Later
<1>5. "cull" \in Workers /\ Notified("cull") \in {"loop", "sleep", "doze", "update", "gone"}
      /\ (Notified("cull") = "update" <=> pc["cull"] = "update")
  BY DEF WorkerTypes, Workers, Notified
<1>6. /\ pc' \in [Workers -> {"loop", "sleep", "doze", "update", "gone"}]
      /\ idle' \in [Workers -> BOOLEAN]
  BY <1>3, <1>5 DEF WorkerTypes
<1>7. \/ new = {} /\ UNCHANGED <<pc, idle>>
      \/ idle'["cull"] = FALSE /\ (pc["cull"] = "update" <=> pc'["cull"] = "update")
  BY <1>3, <1>5 DEF WorkerTypes
<1>. QED
  BY <1>4, <1>6, <1>7

(* BillboardPlacementWorker::init and VTLabelPlacementWorker::init. *)
LEMMA InitPlacementWakes ==
  ASSUME WorkerTypes, NEW p \in Placers, NEW when \in {Now, Later}, InitPlacement(p, when)
  PROVE  /\ due' \in [AllLayers \cup Placers -> {Never, Later, Now}]
         /\ pc' \in [Workers -> {"loop", "sleep", "doze", "update", "gone"}]
         /\ idle' \in [Workers -> BOOLEAN]
         /\ \A l \in AllLayers : due'[l] = due[l]
         /\ idle'["cull"] = idle["cull"] /\ pc'["cull"] = pc["cull"]
<1>1. p \in Workers /\ p # "cull" /\ p \notin AllLayers
  BY MapRendererAssumption DEF Workers, Placers
<1>2. Notified(p) \in {"loop", "sleep", "doze", "update", "gone"}
  BY <1>1 DEF WorkerTypes, Notified
<1>3. /\ due' \in [AllLayers \cup Placers -> {Never, Later, Now}]
      /\ \A l \in AllLayers : due'[l] = due[l]
  BY <1>1 DEF WorkerTypes, InitPlacement
<1>. QED
  BY <1>1, <1>2, <1>3 DEF WorkerTypes, InitPlacement, Workers

(* What the invariant needs of a wakeup. *)
LEMMA Wakeups ==
  ASSUME WorkerTypes, CullingInv, UNCHANGED <<batch, current, updating>>, telling' \subseteq telling,
         \/ \E S \in SUBSET AllLayers, when \in {Now, Later} : InitCull(S, when)
         \/ \E p \in Placers, when \in {Now, Later} : InitPlacement(p, when)
         \/ UNCHANGED <<due, pc, idle>>
  PROVE  /\ WorkerTypes' /\ CullingInv'
         /\ \A l \in AllLayers : due[l] # Never => due'[l] # Never
<1>1. ASSUME NEW S \in SUBSET AllLayers, NEW when \in {Now, Later}, InitCull(S, when)
      PROVE  /\ WorkerTypes' /\ CullingInv'
             /\ \A l \in AllLayers : due[l] # Never => due'[l] # Never
  BY <1>1, InitCullWakes DEF WorkerTypes, CullingInv
<1>2. ASSUME NEW p \in Placers, NEW when \in {Now, Later}, InitPlacement(p, when)
      PROVE  /\ WorkerTypes' /\ CullingInv'
             /\ \A l \in AllLayers : due[l] # Never => due'[l] # Never
  BY <1>2, InitPlacementWakes DEF WorkerTypes, CullingInv
<1>3. CASE UNCHANGED <<due, pc, idle>>
  BY <1>3 DEF WorkerTypes, CullingInv
<1>. QED
  BY <1>1, <1>2, <1>3

LEMMA ChangeLayersKeeps == ASSUME IInv, NEW t \in Threads, ChangeLayers(t) PROVE IInv'
<1>a. \E S \in SUBSET AllLayers, k \in {"layers", "redraw"} :
         /\ Begin(t, [pc |-> k, todo |-> S])
         /\ Entries(layers') \ {Null} \subseteq (Entries(layers) \ {Null}) \cup S /\ (S # {} => k = "layers")
  <2>1. ASSUME NEW l \in AllLayers, NEW i \in 1 .. MaxList, set(i, l) PROVE Entries(layers') \subseteq Entries(layers) \cup {l}
    BY <2>1, setLists DEF IInv
  <2>2. ASSUME NEW l \in AllLayers, NEW i \in 1 .. MaxList, insert(i, l) PROVE Entries(layers') \subseteq Entries(layers) \cup {l}
    BY <2>2, insertLists DEF IInv
  <2>3. ASSUME NEW l \in AllLayers, addAll(<<l>>) PROVE Entries(layers') \subseteq Entries(layers) \cup {l}
    BY <2>3, addLists DEF IInv
  <2>4. ASSUME NEW s \in SomeLists, setAll(s)
        PROVE  Entries(layers') = Entries(s) /\ Entries(s) \in SUBSET AllLayers
    BY <2>4, SomeListIsList, ListLen DEF setAll, Become
  <2>5. clear => Entries(layers') = {}
    BY clearLists DEF IInv
  <2>6. ASSUME NEW l \in AllLayers, remove(l) PROVE Entries(layers') \subseteq Entries(layers) \cup {Null}
    BY <2>6, removeLists DEF IInv
  <2>7. CASE \E l \in AllLayers :
                 /\ (\E i \in 1 .. MaxList : set(i, l) \/ insert(i, l)) \/ addAll(<<l>>)
                 /\ Begin(t, [pc |-> "layers", todo |-> {l}])
    BY <2>7, <2>1, <2>2, <2>3
  <2>8. CASE \E s \in SomeLists : setAll(s) /\ Begin(t, [pc |-> "layers", todo |-> Entries(s)])
    BY <2>8, <2>4
  <2>9. CASE clear /\ Begin(t, [pc |-> "layers", todo |-> {}])
    BY <2>9, <2>5
  <2>10. CASE \E l \in AllLayers : remove(l) /\ Begin(t, [pc |-> "redraw", todo |-> {}])
    BY <2>10, <2>6
  <2>. QED
    BY <2>7, <2>8, <2>9, <2>10 DEF ChangeLayers
<1>b. PICK S \in SUBSET AllLayers, k \in {"layers", "redraw"} :
         /\ Begin(t, [pc |-> k, todo |-> S])
         /\ Entries(layers') \ {Null} \subseteq (Entries(layers) \ {Null}) \cup S /\ (S # {} => k = "layers")
  BY <1>a
<1>c. UNCHANGED <<sized, created, changed, gl, loading, capture, due, pc, idle, stop, batch, fresh,
                  current, updating, telling>>
  BY DEF ChangeLayers, surfaceVars, frameVars, workerVars, taskVars
<1>1. ListInv'
  <2>1. ASSUME NEW l \in AllLayers, NEW i \in 1 .. MaxList, set(i, l) PROVE ListInv'
    BY <2>1, setLists DEF IInv
  <2>2. ASSUME NEW l \in AllLayers, NEW i \in 1 .. MaxList, insert(i, l) PROVE ListInv'
    BY <2>2, insertLists DEF IInv
  <2>3. ASSUME NEW l \in AllLayers, addAll(<<l>>) PROVE ListInv'
    BY <2>3, addLists DEF IInv
  <2>4. ASSUME NEW s \in SomeLists, setAll(s) PROVE ListInv'
    BY <2>4, setAllLists DEF IInv
  <2>5. CASE clear
    BY <2>5, clearLists DEF IInv
  <2>6. ASSUME NEW l \in AllLayers, remove(l) PROVE ListInv'
    BY <2>6, removeLists DEF IInv
  <2>. QED
    BY <2>1, <2>2, <2>3, <2>4, <2>5, <2>6 DEF ChangeLayers
<1>2. Booleans'
  BY Zenon DEF IInv, Booleans, ChangeLayers, listVars, surfaceVars, frameVars, workerVars,
     taskVars, Begin, NoCall, set, insert, addAll, setAll, clear, remove, Become
<1>3. CallTypes'
  BY <1>b, <1>c, MapRendererAssumption DEF IInv, CallTypes, Begin
<1>4. WorkerTypes'
  BY MapRendererAssumption, SMTT(30) DEF IInv, WorkerTypes, Workers, Placers, Never, Now, Later,
     ChangeLayers, listVars, surfaceVars, frameVars, workerVars, taskVars, Begin, NoCall, set,
     insert, addAll, setAll, clear, remove, Become
<1>5. CullingInv'
  BY MapRendererAssumption, SMTT(30) DEF IInv, Booleans, WorkerTypes, CullingInv, Workers,
     Placers, Never, Now, Later, ChangeLayers, listVars, surfaceVars, frameVars, workerVars,
     taskVars, Begin, NoCall, set, insert, addAll, setAll, clear, remove, Become
<1>6. CulledInv'
  <2>1. \A l : Announced(l) \/ l \in S => Announced(l)'
    BY <1>b, <1>c DEF IInv, CallTypes, Announced, Begin, NoCall
  <2>. QED
    BY <1>b, <1>c, <2>1 DEF IInv, CulledInv
<1>7. FreshInv'
  BY DEF IInv, FreshInv, ChangeLayers, listVars, surfaceVars, frameVars, workerVars, taskVars,
     Begin, NoCall, set, insert, addAll, setAll, clear, remove, Become
<1>. QED
  BY <1>1, <1>2, <1>3, <1>4, <1>5, <1>6, <1>7 DEF IInv

LEMMA TellLayersKeeps == ASSUME IInv, NEW t \in Threads, TellLayers(t) PROVE IInv'
<1>a. /\ WorkerTypes' /\ CullingInv'
      /\ \A l \in AllLayers : due[l] # Never => due'[l] # Never
  <2>1. call[t].todo \in SUBSET AllLayers
    BY DEF IInv, CallTypes
  <2>. QED
    BY <2>1, Wakeups DEF IInv, TellLayers, layerChanged, taskVars
<1>b. created => \A l \in call[t].todo : due'[l] # Never
  <2>1. call[t].todo \in SUBSET AllLayers
    BY DEF IInv, CallTypes
  <2>. QED
    BY <2>1, InitCullWakes DEF IInv, TellLayers, layerChanged
<1>c. /\ call[t].pc = "layers" /\ (\A u \in Threads : u # t => call'[u] = call[u])
      /\ UNCHANGED <<layers, sized, created, changed, batch, fresh, current>>
  BY DEF IInv, CallTypes, TellLayers, Return, listVars, surfaceVars
<1>1. ListInv'
  BY ListStays DEF IInv, listVars, TellLayers
<1>2. Booleans'
  BY Zenon DEF IInv, Booleans, TellLayers, listVars, surfaceVars, frameVars, workerVars,
     taskVars, layerChanged, Return, NoCall
<1>3. CallTypes'
  BY MapRendererAssumption, SMTT(30) DEF IInv, CallTypes, TellLayers, listVars, surfaceVars,
     frameVars, workerVars, taskVars, layerChanged, Return, NoCall
<1>4. WorkerTypes'
  BY <1>a DEF IInv
<1>5. CullingInv'
  BY <1>a DEF IInv
<1>6. CulledInv'
  <2> SUFFICES ASSUME NEW l \in Entries(layers) \ {Null}
               PROVE  l \in current \/ (l \in batch /\ fresh) \/ Announced(l)'
    BY <1>c DEF CulledInv, Entries
  <2>1. l \in AllLayers
    BY ListLen DEF IInv, ListInv
  <2>2. Announced(l) => Announced(l)'
    BY <1>a, <1>b, <1>c, <2>1 DEF Announced
  <2>. QED
    BY <2>2 DEF IInv, CulledInv
<1>7. FreshInv'
  BY DEF IInv, FreshInv, TellLayers, listVars, surfaceVars, frameVars, workerVars, taskVars,
     layerChanged, Return, NoCall
<1>. QED
  BY <1>1, <1>2, <1>3, <1>4, <1>5, <1>6, <1>7 DEF IInv

LEMMA TellRedrawKeeps == ASSUME IInv, NEW t \in Threads, TellRedraw(t) PROVE IInv'
<1>1. ListInv'
  BY ListStays DEF IInv, listVars, TellRedraw
<1>2. Booleans'
  BY Zenon DEF IInv, Booleans, TellRedraw, listVars, surfaceVars, frameVars, workerVars,
     taskVars, requestRedraw, Return, NoCall
<1>3. CallTypes'
  BY MapRendererAssumption, SMTT(30) DEF IInv, CallTypes, TellRedraw, listVars, surfaceVars,
     frameVars, workerVars, taskVars, requestRedraw, Return, NoCall
<1>4. WorkerTypes'
  BY MapRendererAssumption, SMTT(30) DEF IInv, WorkerTypes, Workers, Placers, Never, Now, Later,
     TellRedraw, listVars, surfaceVars, frameVars, workerVars, taskVars, requestRedraw, Return,
     NoCall
<1>5. CullingInv'
  BY MapRendererAssumption, SMTT(30) DEF IInv, Booleans, WorkerTypes, CullingInv, Workers,
     Placers, Never, Now, Later, TellRedraw, listVars, surfaceVars, frameVars, workerVars,
     taskVars, requestRedraw, Return, NoCall
<1>6. CulledInv'
  BY MapRendererAssumption, SMTT(30) DEF IInv, ListInv, CallTypes, WorkerTypes, CullingInv,
     CulledInv, Announced, Workers, Placers, Never, Now, Later, TellRedraw, listVars,
     surfaceVars, frameVars, workerVars, taskVars, requestRedraw, Return, NoCall
<1>7. FreshInv'
  BY DEF IInv, FreshInv, TellRedraw, listVars, surfaceVars, frameVars, workerVars, taskVars,
     requestRedraw, Return, NoCall
<1>. QED
  BY <1>1, <1>2, <1>3, <1>4, <1>5, <1>6, <1>7 DEF IInv

LEMMA MoveCameraKeeps == ASSUME IInv, NEW t \in Threads, MoveCamera(t) PROVE IInv'
<1>1. ListInv'
  BY ListStays DEF IInv, listVars, MoveCamera
<1>2. Booleans'
  BY Zenon DEF IInv, Booleans, MoveCamera, listVars, surfaceVars, frameVars, workerVars,
     taskVars, Begin, NoCall
<1>3. CallTypes'
  BY MapRendererAssumption, SMTT(30) DEF IInv, CallTypes, MoveCamera, listVars, surfaceVars,
     frameVars, workerVars, taskVars, Begin, NoCall
<1>4. WorkerTypes'
  BY MapRendererAssumption, SMTT(30) DEF IInv, WorkerTypes, Workers, Placers, Never, Now, Later,
     MoveCamera, listVars, surfaceVars, frameVars, workerVars, taskVars, Begin, NoCall
<1>5. CullingInv'
  BY MapRendererAssumption, SMTT(30) DEF IInv, Booleans, WorkerTypes, CullingInv, Workers,
     Placers, Never, Now, Later, MoveCamera, listVars, surfaceVars, frameVars, workerVars,
     taskVars, Begin, NoCall
<1>6. CulledInv'
  BY MapRendererAssumption, SMTT(30) DEF IInv, ListInv, CallTypes, WorkerTypes, CullingInv,
     CulledInv, Announced, Workers, Placers, Never, Now, Later, MoveCamera, listVars,
     surfaceVars, frameVars, workerVars, taskVars, Begin, NoCall
<1>7. FreshInv'
  BY DEF IInv, FreshInv, MoveCamera, listVars, surfaceVars, frameVars, workerVars, taskVars,
     Begin, NoCall
<1>. QED
  BY <1>1, <1>2, <1>3, <1>4, <1>5, <1>6, <1>7 DEF IInv

LEMMA ListLayersKeeps == ASSUME IInv, NEW t \in Threads, ListLayers(t) PROVE IInv'
<1>a. call' = [call EXCEPT ![t] = [pc |-> "listed", todo |-> Entries(layers) \ {Null}]]
      /\ Entries(layers) \ {Null} \subseteq AllLayers
  BY ListLen DEF IInv, ListInv, ListLayers
<1>1. ListInv'
  BY ListStays DEF IInv, listVars, ListLayers
<1>2. Booleans'
  BY Zenon DEF IInv, Booleans, ListLayers, listVars, surfaceVars, frameVars, workerVars,
     taskVars
<1>3. CallTypes'
  BY <1>a DEF IInv, CallTypes, ListLayers, frameVars
<1>4. WorkerTypes'
  BY MapRendererAssumption, SMTT(30) DEF IInv, WorkerTypes, Workers, Placers, Never, Now, Later,
     ListLayers, listVars, surfaceVars, frameVars, workerVars, taskVars
<1>5. CullingInv'
  BY MapRendererAssumption, SMTT(30) DEF IInv, Booleans, WorkerTypes, CullingInv, Workers,
     Placers, Never, Now, Later, ListLayers, listVars, surfaceVars, frameVars, workerVars,
     taskVars
<1>6. CulledInv'
  BY MapRendererAssumption, SMTT(30) DEF IInv, ListInv, CallTypes, WorkerTypes, CullingInv,
     CulledInv, Announced, Workers, Placers, Never, Now, Later, ListLayers, listVars,
     surfaceVars, frameVars, workerVars, taskVars
<1>7. FreshInv'
  BY DEF IInv, FreshInv, ListLayers, listVars, surfaceVars, frameVars, workerVars, taskVars
<1>. QED
  BY <1>1, <1>2, <1>3, <1>4, <1>5, <1>6, <1>7 DEF IInv

LEMMA viewChangedKeeps == ASSUME IInv, NEW t \in Threads, viewChanged(t) PROVE IInv'
<1> call[t].todo \in SUBSET AllLayers
  BY DEF IInv, CallTypes
<1>a. /\ WorkerTypes' /\ CullingInv'
      /\ \A l \in AllLayers : due[l] # Never => due'[l] # Never
  BY Wakeups DEF IInv, viewChanged, taskVars
<1>b. \A l \in call[t].todo : due'[l] # Never
  BY InitCullWakes DEF IInv, viewChanged
<1>c. /\ call[t].pc = "listed" /\ (\A u \in Threads : u # t => call'[u] = call[u])
      /\ UNCHANGED <<layers, sized, created, changed, batch, fresh, current>>
  BY DEF IInv, CallTypes, viewChanged, Return, listVars, surfaceVars
<1>1. ListInv'
  BY ListStays DEF IInv, listVars, viewChanged
<1>2. Booleans'
  BY Zenon DEF IInv, Booleans, viewChanged, listVars, surfaceVars, frameVars, workerVars,
     taskVars, requestRedraw, Return, NoCall
<1>3. CallTypes'
  BY MapRendererAssumption, SMTT(30) DEF IInv, CallTypes, viewChanged, listVars, surfaceVars,
     frameVars, workerVars, taskVars, requestRedraw, Return, NoCall
<1>4. WorkerTypes'
  BY <1>a DEF IInv
<1>5. CullingInv'
  BY <1>a DEF IInv
<1>6. CulledInv'
  <2> SUFFICES ASSUME NEW l \in Entries(layers) \ {Null}
               PROVE  l \in current \/ (l \in batch /\ fresh) \/ Announced(l)'
    BY <1>c DEF CulledInv, Entries
  <2>1. l \in AllLayers
    BY ListLen DEF IInv, ListInv
  <2>2. Announced(l) => Announced(l)'
    BY <1>a, <1>b, <1>c, <2>1 DEF Announced
  <2>. QED
    BY <2>2 DEF IInv, CulledInv
<1>7. FreshInv'
  BY DEF IInv, FreshInv, viewChanged, listVars, surfaceVars, frameVars, workerVars, taskVars,
     requestRedraw, Return, NoCall
<1>. QED
  BY <1>1, <1>2, <1>3, <1>4, <1>5, <1>6, <1>7 DEF IInv

LEMMA captureRenderingKeeps == ASSUME IInv, NEW t \in Threads, captureRendering(t) PROVE IInv'
<1>1. ListInv'
  BY ListStays DEF IInv, listVars, captureRendering
<1>2. Booleans'
  BY Zenon DEF IInv, Booleans, captureRendering, listVars, surfaceVars, frameVars, workerVars,
     taskVars, Begin, NoCall
<1>3. CallTypes'
  BY MapRendererAssumption, SMTT(30) DEF IInv, CallTypes, captureRendering, listVars,
     surfaceVars, frameVars, workerVars, taskVars, Begin, NoCall
<1>4. WorkerTypes'
  BY MapRendererAssumption, SMTT(30) DEF IInv, WorkerTypes, Workers, Placers, Never, Now, Later,
     captureRendering, listVars, surfaceVars, frameVars, workerVars, taskVars, Begin, NoCall
<1>5. CullingInv'
  BY MapRendererAssumption, SMTT(30) DEF IInv, Booleans, WorkerTypes, CullingInv, Workers,
     Placers, Never, Now, Later, captureRendering, listVars, surfaceVars, frameVars, workerVars,
     taskVars, Begin, NoCall
<1>6. CulledInv'
  BY MapRendererAssumption, SMTT(30) DEF IInv, ListInv, CallTypes, WorkerTypes, CullingInv,
     CulledInv, Announced, Workers, Placers, Never, Now, Later, captureRendering, listVars,
     surfaceVars, frameVars, workerVars, taskVars, Begin, NoCall
<1>7. FreshInv'
  BY DEF IInv, FreshInv, captureRendering, listVars, surfaceVars, frameVars, workerVars,
     taskVars, Begin, NoCall
<1>. QED
  BY <1>1, <1>2, <1>3, <1>4, <1>5, <1>6, <1>7 DEF IInv

LEMMA deinitKeeps == ASSUME IInv, deinit PROVE IInv'
<1>1. ListInv'
  BY ListStays DEF IInv, listVars, deinit
<1>2. Booleans'
  BY Zenon DEF IInv, Booleans, deinit, listVars, surfaceVars, frameVars, workerVars, taskVars,
     Notified
<1>3. CallTypes'
  BY MapRendererAssumption, SMTT(30) DEF IInv, CallTypes, deinit, listVars, surfaceVars,
     frameVars, workerVars, taskVars, Notified
<1>4. WorkerTypes'
  BY MapRendererAssumption, SMTT(30) DEF IInv, WorkerTypes, Workers, Placers, Never, Now, Later,
     deinit, listVars, surfaceVars, frameVars, workerVars, taskVars, Notified
<1>5. CullingInv'
  BY MapRendererAssumption, SMTT(30) DEF IInv, Booleans, WorkerTypes, CullingInv, Workers,
     Placers, Never, Now, Later, deinit, listVars, surfaceVars, frameVars, workerVars, taskVars,
     Notified
<1>6. CulledInv'
  BY MapRendererAssumption, SMTT(30) DEF IInv, ListInv, CallTypes, WorkerTypes, CullingInv,
     CulledInv, Announced, Workers, Placers, Never, Now, Later, deinit, listVars, surfaceVars,
     frameVars, workerVars, taskVars, Notified
<1>7. FreshInv'
  BY DEF IInv, FreshInv, deinit, listVars, surfaceVars, frameVars, workerVars, taskVars,
     Notified
<1>. QED
  BY <1>1, <1>2, <1>3, <1>4, <1>5, <1>6, <1>7 DEF IInv

LEMMA onSurfaceCreatedKeeps == ASSUME IInv, onSurfaceCreated PROVE IInv'
<1>1. ListInv'
  BY ListStays DEF IInv, listVars, onSurfaceCreated
<1>2. Booleans'
  BY Zenon DEF IInv, Booleans, onSurfaceCreated, listVars, surfaceVars, frameVars, workerVars,
     taskVars, Platform
<1>3. CallTypes'
  BY MapRendererAssumption, SMTT(30) DEF IInv, CallTypes, onSurfaceCreated, listVars,
     surfaceVars, frameVars, workerVars, taskVars, Platform
<1>4. WorkerTypes'
  BY MapRendererAssumption, SMTT(30) DEF IInv, WorkerTypes, Workers, Placers, Never, Now, Later,
     onSurfaceCreated, listVars, surfaceVars, frameVars, workerVars, taskVars, Platform
<1>5. CullingInv'
  BY MapRendererAssumption, SMTT(30) DEF IInv, Booleans, WorkerTypes, CullingInv, Workers,
     Placers, Never, Now, Later, onSurfaceCreated, listVars, surfaceVars, frameVars, workerVars,
     taskVars, Platform
<1>6. CulledInv'
  BY MapRendererAssumption, SMTT(30) DEF IInv, ListInv, CallTypes, WorkerTypes, CullingInv,
     CulledInv, Announced, Workers, Placers, Never, Now, Later, onSurfaceCreated, listVars,
     surfaceVars, frameVars, workerVars, taskVars, Platform
<1>7. FreshInv'
  BY DEF IInv, FreshInv, onSurfaceCreated, listVars, surfaceVars, frameVars, workerVars,
     taskVars, Platform
<1>. QED
  BY <1>1, <1>2, <1>3, <1>4, <1>5, <1>6, <1>7 DEF IInv

LEMMA onSurfaceChangedKeeps == ASSUME IInv, onSurfaceChanged PROVE IInv'
<1>1. ListInv'
  BY ListStays DEF IInv, listVars, onSurfaceChanged
<1>2. Booleans'
  BY Zenon DEF IInv, Booleans, onSurfaceChanged, listVars, surfaceVars, frameVars, workerVars,
     taskVars, Platform
<1>3. CallTypes'
  BY MapRendererAssumption, SMTT(30) DEF IInv, CallTypes, onSurfaceChanged, listVars,
     surfaceVars, frameVars, workerVars, taskVars, Platform
<1>4. WorkerTypes'
  BY MapRendererAssumption, SMTT(30) DEF IInv, WorkerTypes, Workers, Placers, Never, Now, Later,
     onSurfaceChanged, listVars, surfaceVars, frameVars, workerVars, taskVars, Platform
<1>5. CullingInv'
  BY MapRendererAssumption, SMTT(30) DEF IInv, Booleans, WorkerTypes, CullingInv, Workers,
     Placers, Never, Now, Later, onSurfaceChanged, listVars, surfaceVars, frameVars, workerVars,
     taskVars, Platform
<1>6. CulledInv'
  BY MapRendererAssumption, SMTT(30) DEF IInv, ListInv, CallTypes, WorkerTypes, CullingInv,
     CulledInv, Announced, Workers, Placers, Never, Now, Later, onSurfaceChanged, listVars,
     surfaceVars, frameVars, workerVars, taskVars, Platform
<1>7. FreshInv'
  BY DEF IInv, FreshInv, onSurfaceChanged, listVars, surfaceVars, frameVars, workerVars,
     taskVars, Platform
<1>. QED
  BY <1>1, <1>2, <1>3, <1>4, <1>5, <1>6, <1>7 DEF IInv

LEMMA onSurfaceDestroyedKeeps == ASSUME IInv, onSurfaceDestroyed PROVE IInv'
<1>1. ListInv'
  BY ListStays DEF IInv, listVars, onSurfaceDestroyed
<1>2. Booleans'
  BY Zenon DEF IInv, Booleans, onSurfaceDestroyed, listVars, surfaceVars, frameVars, workerVars,
     taskVars, Platform
<1>3. CallTypes'
  BY MapRendererAssumption, SMTT(30) DEF IInv, CallTypes, onSurfaceDestroyed, listVars,
     surfaceVars, frameVars, workerVars, taskVars, Platform
<1>4. WorkerTypes'
  BY MapRendererAssumption, SMTT(30) DEF IInv, WorkerTypes, Workers, Placers, Never, Now, Later,
     onSurfaceDestroyed, listVars, surfaceVars, frameVars, workerVars, taskVars, Platform
<1>5. CullingInv'
  BY MapRendererAssumption, SMTT(30) DEF IInv, Booleans, WorkerTypes, CullingInv, Workers,
     Placers, Never, Now, Later, onSurfaceDestroyed, listVars, surfaceVars, frameVars,
     workerVars, taskVars, Platform
<1>6. CulledInv'
  BY MapRendererAssumption, SMTT(30) DEF IInv, ListInv, CallTypes, WorkerTypes, CullingInv,
     CulledInv, Announced, Workers, Placers, Never, Now, Later, onSurfaceDestroyed, listVars,
     surfaceVars, frameVars, workerVars, taskVars, Platform
<1>7. FreshInv'
  BY DEF IInv, FreshInv, onSurfaceDestroyed, listVars, surfaceVars, frameVars, workerVars,
     taskVars, Platform
<1>. QED
  BY <1>1, <1>2, <1>3, <1>4, <1>5, <1>6, <1>7 DEF IInv

LEMMA DrawFrameKeeps == ASSUME IInv, DrawFrame PROVE IInv'
<1> DEFINE S == Entries(layers) \ {Null}
<1>1a. S \in SUBSET AllLayers
  BY ListLen DEF IInv, ListInv
<1>1b. (changed /\ InitCull(S, Now)) \/ (~changed /\ UNCHANGED <<due, pc, idle>>)
  BY Zenon DEF IInv, Booleans, DrawFrame
<1>1c. UNCHANGED <<layers, sized, created, call, batch, fresh, current, updating, telling>> /\ created
  BY DEF DrawFrame, listVars, taskVars
<1> HIDE DEF S
<1>a. /\ WorkerTypes' /\ CullingInv'
      /\ \A l \in AllLayers : due[l] # Never => due'[l] # Never
  BY <1>1a, <1>1b, <1>1c, Wakeups DEF IInv
<1>b. changed => \A l \in S : due'[l] # Never
  BY <1>1a, <1>1b, InitCullWakes DEF IInv
<1>1. ListInv'
  BY ListStays DEF IInv, listVars, DrawFrame
<1>2. Booleans'
  BY Zenon DEF IInv, Booleans, DrawFrame, listVars, surfaceVars, frameVars, workerVars, taskVars
<1>3. CallTypes'
  BY MapRendererAssumption, SMTT(30) DEF IInv, CallTypes, DrawFrame, listVars, surfaceVars,
     frameVars, workerVars, taskVars
<1>4. WorkerTypes'
  BY <1>a DEF IInv
<1>5. CullingInv'
  BY <1>a DEF IInv
<1>6. CulledInv'
  <2> SUFFICES ASSUME NEW l \in S
               PROVE  l \in current \/ (l \in batch /\ fresh) \/ Announced(l)'
    BY <1>1c DEF CulledInv, Entries, S
  <2>1. l \in AllLayers
    BY <1>1a
  <2>2. Announced(l) => Announced(l)'
    BY <1>a, <1>b, <1>1c, <2>1 DEF Announced
  <2>. QED
    BY <2>2 DEF IInv, CulledInv, S
<1>7. FreshInv'
  BY DEF IInv, FreshInv, DrawFrame, listVars, surfaceVars, frameVars, workerVars, taskVars
<1>. QED
  BY <1>1, <1>2, <1>3, <1>4, <1>5, <1>6, <1>7 DEF IInv

LEMMA DrawLayersKeeps == ASSUME IInv, DrawLayers PROVE IInv'
<1>1. ListInv'
  BY ListStays DEF IInv, listVars, DrawLayers
<1>2. Booleans'
  BY Zenon DEF IInv, Booleans, DrawLayers, listVars, surfaceVars, frameVars, workerVars,
     taskVars
<1>3. CallTypes'
  BY MapRendererAssumption, SMTT(30) DEF IInv, CallTypes, DrawLayers, listVars, surfaceVars,
     frameVars, workerVars, taskVars
<1>4. WorkerTypes'
  BY MapRendererAssumption, SMTT(30) DEF IInv, WorkerTypes, Workers, Placers, Never, Now, Later,
     DrawLayers, listVars, surfaceVars, frameVars, workerVars, taskVars
<1>5. CullingInv'
  BY MapRendererAssumption, SMTT(30) DEF IInv, Booleans, WorkerTypes, CullingInv, Workers,
     Placers, Never, Now, Later, DrawLayers, listVars, surfaceVars, frameVars, workerVars,
     taskVars
<1>6. CulledInv'
  BY MapRendererAssumption, SMTT(30) DEF IInv, ListInv, CallTypes, WorkerTypes, CullingInv,
     CulledInv, Announced, Workers, Placers, Never, Now, Later, DrawLayers, listVars,
     surfaceVars, frameVars, workerVars, taskVars
<1>7. FreshInv'
  BY DEF IInv, FreshInv, DrawLayers, listVars, surfaceVars, frameVars, workerVars, taskVars
<1>. QED
  BY <1>1, <1>2, <1>3, <1>4, <1>5, <1>6, <1>7 DEF IInv

LEMMA handleRendererCaptureCallbacksKeeps == ASSUME IInv, handleRendererCaptureCallbacks PROVE IInv'
<1>1. ListInv'
  BY ListStays DEF IInv, listVars, handleRendererCaptureCallbacks
<1>2. Booleans'
  BY Zenon DEF IInv, Booleans, handleRendererCaptureCallbacks, listVars, surfaceVars, frameVars,
     workerVars, taskVars, requestRedraw
<1>3. CallTypes'
  BY MapRendererAssumption, SMTT(30) DEF IInv, CallTypes, handleRendererCaptureCallbacks,
     listVars, surfaceVars, frameVars, workerVars, taskVars, requestRedraw
<1>4. WorkerTypes'
  BY MapRendererAssumption, SMTT(30) DEF IInv, WorkerTypes, Workers, Placers, Never, Now, Later,
     handleRendererCaptureCallbacks, listVars, surfaceVars, frameVars, workerVars, taskVars,
     requestRedraw
<1>5. CullingInv'
  BY MapRendererAssumption, SMTT(30) DEF IInv, Booleans, WorkerTypes, CullingInv, Workers,
     Placers, Never, Now, Later, handleRendererCaptureCallbacks, listVars, surfaceVars,
     frameVars, workerVars, taskVars, requestRedraw
<1>6. CulledInv'
  BY MapRendererAssumption, SMTT(30) DEF IInv, ListInv, CallTypes, WorkerTypes, CullingInv,
     CulledInv, Announced, Workers, Placers, Never, Now, Later, handleRendererCaptureCallbacks,
     listVars, surfaceVars, frameVars, workerVars, taskVars, requestRedraw
<1>7. FreshInv'
  BY DEF IInv, FreshInv, handleRendererCaptureCallbacks, listVars, surfaceVars, frameVars,
     workerVars, taskVars, requestRedraw
<1>. QED
  BY <1>1, <1>2, <1>3, <1>4, <1>5, <1>6, <1>7 DEF IInv

LEMMA EndFrameKeeps == ASSUME IInv, EndFrame PROVE IInv'
<1>a. /\ WorkerTypes' /\ CullingInv'
      /\ \A l \in AllLayers : due[l] # Never => due'[l] # Never
  <2>1. InitPlacement("billboard", Later) \/ UNCHANGED <<due, pc, idle>>
    BY DEF EndFrame
  <2>. QED
    BY <2>1, Wakeups DEF IInv, EndFrame, taskVars, Placers
<1>1. ListInv'
  BY ListStays DEF IInv, listVars, EndFrame
<1>2. Booleans'
  BY Zenon DEF IInv, Booleans, EndFrame, listVars, surfaceVars, frameVars, workerVars, taskVars
<1>3. CallTypes'
  BY MapRendererAssumption, SMTT(30) DEF IInv, CallTypes, EndFrame, listVars, surfaceVars,
     frameVars, workerVars, taskVars
<1>4. WorkerTypes'
  BY <1>a DEF IInv
<1>5. CullingInv'
  BY <1>a DEF IInv
<1>6. CulledInv'
  <2>1. UNCHANGED <<layers, sized, created, changed, call, batch, fresh, current>>
    BY DEF EndFrame, listVars, surfaceVars
  <2>2. Entries(layers) \ {Null} \subseteq AllLayers
    BY ListLen DEF IInv, ListInv
  <2>. QED
    BY <1>a, <2>1, <2>2 DEF IInv, CulledInv, Announced, Entries
<1>7. FreshInv'
  BY DEF IInv, FreshInv, EndFrame, listVars, surfaceVars, frameVars, workerVars, taskVars
<1>. QED
  BY <1>1, <1>2, <1>3, <1>4, <1>5, <1>6, <1>7 DEF IInv

LEMMA TimePassesKeeps == ASSUME IInv, NEW x \in AllLayers \cup Placers, TimePasses(x) PROVE IInv'
<1>1. ListInv'
  BY ListStays DEF IInv, listVars, TimePasses
<1>2. Booleans'
  BY Zenon DEF IInv, Booleans, TimePasses, listVars, surfaceVars, frameVars, workerVars,
     taskVars
<1>3. CallTypes'
  BY MapRendererAssumption, SMTT(30) DEF IInv, CallTypes, TimePasses, listVars, surfaceVars,
     frameVars, workerVars, taskVars
<1>4. WorkerTypes'
  BY MapRendererAssumption, SMTT(30) DEF IInv, WorkerTypes, Workers, Placers, Never, Now, Later,
     TimePasses, listVars, surfaceVars, frameVars, workerVars, taskVars
<1>5. CullingInv'
  BY MapRendererAssumption, SMTT(30) DEF IInv, Booleans, WorkerTypes, CullingInv, Workers,
     Placers, Never, Now, Later, TimePasses, listVars, surfaceVars, frameVars, workerVars,
     taskVars
<1>6. CulledInv'
  BY MapRendererAssumption, SMTT(30) DEF IInv, ListInv, CallTypes, WorkerTypes, CullingInv,
     CulledInv, Announced, Workers, Placers, Never, Now, Later, TimePasses, listVars,
     surfaceVars, frameVars, workerVars, taskVars
<1>7. FreshInv'
  BY DEF IInv, FreshInv, TimePasses, listVars, surfaceVars, frameVars, workerVars, taskVars
<1>. QED
  BY <1>1, <1>2, <1>3, <1>4, <1>5, <1>6, <1>7 DEF IInv

LEMMA WaitKeeps == ASSUME IInv, NEW w \in Workers, Wait(w) PROVE IInv'
<1>1. ListInv'
  BY ListStays DEF IInv, listVars, Wait
<1>2. Booleans'
  BY Zenon DEF IInv, Booleans, Wait, listVars, surfaceVars, frameVars, workerVars, taskVars,
     DueNow, Watched
<1>3. CallTypes'
  BY MapRendererAssumption, SMTT(30) DEF IInv, CallTypes, Wait, listVars, surfaceVars,
     frameVars, workerVars, taskVars, DueNow, Watched
<1>4. WorkerTypes'
  BY MapRendererAssumption, SMTT(30) DEF IInv, WorkerTypes, Workers, Placers, Never, Now, Later,
     Wait, listVars, surfaceVars, frameVars, workerVars, taskVars, DueNow, Watched
<1>5. CullingInv'
  BY MapRendererAssumption, SMTT(30) DEF IInv, Booleans, WorkerTypes, CullingInv, Workers,
     Placers, Never, Now, Later, Wait, listVars, surfaceVars, frameVars, workerVars, taskVars,
     DueNow, Watched
<1>6. CulledInv'
  BY MapRendererAssumption, SMTT(30) DEF IInv, ListInv, CallTypes, WorkerTypes, CullingInv,
     CulledInv, Announced, Workers, Placers, Never, Now, Later, Wait, listVars, surfaceVars,
     frameVars, workerVars, taskVars, DueNow, Watched
<1>7. FreshInv'
  BY DEF IInv, FreshInv, Wait, listVars, surfaceVars, frameVars, workerVars, taskVars, DueNow,
     Watched
<1>. QED
  BY <1>1, <1>2, <1>3, <1>4, <1>5, <1>6, <1>7 DEF IInv

LEMMA LeaveKeeps == ASSUME IInv, NEW w \in Workers, Leave(w) PROVE IInv'
<1>1. ListInv'
  BY ListStays DEF IInv, listVars, Leave
<1>2. Booleans'
  BY Zenon DEF IInv, Booleans, Leave, listVars, surfaceVars, frameVars, workerVars, taskVars
<1>3. CallTypes'
  BY MapRendererAssumption, SMTT(30) DEF IInv, CallTypes, Leave, listVars, surfaceVars,
     frameVars, workerVars, taskVars
<1>4. WorkerTypes'
  BY MapRendererAssumption, SMTT(30) DEF IInv, WorkerTypes, Workers, Placers, Never, Now, Later,
     Leave, listVars, surfaceVars, frameVars, workerVars, taskVars
<1>5. CullingInv'
  BY MapRendererAssumption, SMTT(30) DEF IInv, Booleans, WorkerTypes, CullingInv, Workers,
     Placers, Never, Now, Later, Leave, listVars, surfaceVars, frameVars, workerVars, taskVars
<1>6. CulledInv'
  BY MapRendererAssumption, SMTT(30) DEF IInv, ListInv, CallTypes, WorkerTypes, CullingInv,
     CulledInv, Announced, Workers, Placers, Never, Now, Later, Leave, listVars, surfaceVars,
     frameVars, workerVars, taskVars
<1>7. FreshInv'
  BY DEF IInv, FreshInv, Leave, listVars, surfaceVars, frameVars, workerVars, taskVars
<1>. QED
  BY <1>1, <1>2, <1>3, <1>4, <1>5, <1>6, <1>7 DEF IInv

LEMMA TakeLayersKeeps == ASSUME IInv, TakeLayers PROVE IInv'
<1>a. due' = [x \in DOMAIN due |-> IF x \in DueNow("cull") THEN Never ELSE due[x]]
      /\ DueNow("cull") = {x \in AllLayers : due[x] = Now}
  BY DEF TakeLayers, TakeDue, DueNow, Watched
<1>b. batch = {}
  BY DEF IInv, CullingInv, TakeLayers, TakeDue
<1>c. UNCHANGED <<layers, sized, created, changed, call, current>>
      /\ (sized => batch' = DueNow("cull") /\ fresh')
  BY Zenon DEF TakeLayers, listVars, surfaceVars
<1>1. ListInv'
  BY ListStays DEF IInv, listVars, TakeLayers
<1>2. Booleans'
  BY Zenon DEF IInv, Booleans, TakeLayers, listVars, surfaceVars, frameVars, workerVars,
     taskVars, TakeDue, DueNow, Watched
<1>3. CallTypes'
  BY MapRendererAssumption, SMTT(30) DEF IInv, CallTypes, TakeLayers, listVars, surfaceVars,
     frameVars, workerVars, taskVars, TakeDue, DueNow, Watched
<1>4. WorkerTypes'
  BY MapRendererAssumption, SMTT(30) DEF IInv, WorkerTypes, Workers, Placers, Never, Now, Later,
     TakeLayers, listVars, surfaceVars, frameVars, workerVars, taskVars, TakeDue, DueNow,
     Watched
<1>5. CullingInv'
  BY MapRendererAssumption, SMTT(30) DEF IInv, Booleans, WorkerTypes, CullingInv, Workers,
     Placers, Never, Now, Later, TakeLayers, listVars, surfaceVars, frameVars, workerVars,
     taskVars, TakeDue, DueNow, Watched
<1>6. CulledInv'
  <2> SUFFICES ASSUME NEW l \in Entries(layers) \ {Null}
               PROVE  l \in current' \/ (l \in batch' /\ fresh') \/ Announced(l)'
    BY <1>c DEF CulledInv, Entries
  <2>1. l \in AllLayers
    BY ListLen DEF IInv, ListInv
  <2>2. l \in current \/ Announced(l)
    BY <1>b DEF IInv, CulledInv
  <2>3. CASE ~sized \/ due[l] = Never
    BY <1>a, <1>c, <2>1, <2>2, <2>3 DEF IInv, WorkerTypes, Announced, Never, Now
  <2>4. CASE sized /\ due[l] = Now
    BY <1>a, <1>c, <2>1, <2>4
  <2>5. CASE due[l] = Later
    BY <1>a, <2>1, <2>5 DEF IInv, WorkerTypes, Announced, Never, Now, Later
  <2>. QED
    BY <2>1, <2>3, <2>4, <2>5 DEF IInv, WorkerTypes
<1>7. FreshInv'
  BY DEF IInv, FreshInv, TakeLayers, listVars, surfaceVars, frameVars, workerVars, taskVars,
     TakeDue, DueNow, Watched
<1>. QED
  BY <1>1, <1>2, <1>3, <1>4, <1>5, <1>6, <1>7 DEF IInv

LEMMA UpdateLayerKeeps == ASSUME IInv, NEW l \in AllLayers, UpdateLayer(l) PROVE IInv'
<1>1. ListInv'
  BY ListStays DEF IInv, listVars, UpdateLayer
<1>2. Booleans'
  BY Zenon DEF IInv, Booleans, UpdateLayer, listVars, surfaceVars, frameVars, workerVars,
     taskVars
<1>3. CallTypes'
  BY MapRendererAssumption, SMTT(30) DEF IInv, CallTypes, UpdateLayer, listVars, surfaceVars,
     frameVars, workerVars, taskVars
<1>4. WorkerTypes'
  BY MapRendererAssumption, SMTT(30) DEF IInv, WorkerTypes, Workers, Placers, Never, Now, Later,
     UpdateLayer, listVars, surfaceVars, frameVars, workerVars, taskVars
<1>5. CullingInv'
  BY MapRendererAssumption, SMTT(30) DEF IInv, Booleans, WorkerTypes, CullingInv, Workers,
     Placers, Never, Now, Later, UpdateLayer, listVars, surfaceVars, frameVars, workerVars,
     taskVars
<1>6. CulledInv'
  <2>1. UNCHANGED <<layers, sized, created, changed, call, due>>
    BY DEF UpdateLayer, listVars, surfaceVars
  <2>2. \A x : Announced(x) => Announced(x)'
    BY <2>1 DEF Announced
  <2>3. fresh => l \in current' /\ current \subseteq current'
    BY DEF UpdateLayer
  <2>4. ~fresh => current = {}
    BY DEF IInv, FreshInv, UpdateLayer
  <2>5. \A x \in batch : x # l /\ fresh => x \in batch' /\ fresh'
    BY Zenon DEF UpdateLayer
  <2>6. Entries(layers') = Entries(layers)
    BY <2>1
  <2>7. (CulledInv /\ \A x \in Entries(layers) \ {Null} : x \in current' \/ (x \in batch' /\ fresh') \/ Announced(x)') => CulledInv'
    BY <2>6 DEF CulledInv
  <2>8. CulledInv
    BY DEF IInv
  <2>9. \A x \in Entries(layers) \ {Null} : x \in current' \/ (x \in batch' /\ fresh') \/ Announced(x)'
    BY <2>2, <2>3, <2>4, <2>5, <2>8 DEF CulledInv
  <2>. QED
    BY <2>7, <2>8, <2>9
<1>7. FreshInv'
  BY DEF IInv, FreshInv, UpdateLayer, listVars, surfaceVars, frameVars, workerVars, taskVars
<1>. QED
  BY <1>1, <1>2, <1>3, <1>4, <1>5, <1>6, <1>7 DEF IInv

LEMMA calculatePlacementKeeps == ASSUME IInv, NEW p \in Placers, calculatePlacement(p) PROVE IInv'
<1>a. /\ \A l \in AllLayers : due'[l] = due[l]
      /\ due' \in [AllLayers \cup Placers -> {Never, Later, Now}]
  BY MapRendererAssumption DEF IInv, WorkerTypes, calculatePlacement, TakeDue, DueNow, Watched, Placers
<1>1. ListInv'
  BY ListStays DEF IInv, listVars, calculatePlacement
<1>2. Booleans'
  BY Zenon DEF IInv, Booleans, calculatePlacement, listVars, surfaceVars, frameVars, workerVars,
     taskVars, TakeDue, DueNow, Watched, requestRedraw
<1>3. CallTypes'
  BY MapRendererAssumption, SMTT(30) DEF IInv, CallTypes, calculatePlacement, listVars,
     surfaceVars, frameVars, workerVars, taskVars, TakeDue, DueNow, Watched, requestRedraw
<1>4. WorkerTypes'
  BY MapRendererAssumption, SMTT(30) DEF IInv, WorkerTypes, Workers, Placers, Never, Now, Later,
     calculatePlacement, listVars, surfaceVars, frameVars, workerVars, taskVars, TakeDue,
     DueNow, Watched, requestRedraw
<1>5. CullingInv'
  BY MapRendererAssumption, SMTT(30) DEF IInv, Booleans, WorkerTypes, CullingInv, Workers,
     Placers, Never, Now, Later, calculatePlacement, listVars, surfaceVars, frameVars,
     workerVars, taskVars, TakeDue, DueNow, Watched, requestRedraw
<1>6. CulledInv'
  <2>1. UNCHANGED <<layers, sized, created, changed, call, batch, fresh, current>>
    BY DEF calculatePlacement, listVars, surfaceVars
  <2>2. Entries(layers) \ {Null} \subseteq AllLayers
    BY ListLen DEF IInv, ListInv
  <2>. QED
    BY <1>a, <2>1, <2>2 DEF IInv, CulledInv, Announced, Entries
<1>7. FreshInv'
  BY DEF IInv, FreshInv, calculatePlacement, listVars, surfaceVars, frameVars, workerVars,
     taskVars, TakeDue, DueNow, Watched, requestRedraw
<1>. QED
  BY <1>1, <1>2, <1>3, <1>4, <1>5, <1>6, <1>7 DEF IInv

LEMMA EndFetchKeeps == ASSUME IInv, NEW l \in AllLayers, EndFetch(l) PROVE IInv'
<1>1. ListInv'
  BY ListStays DEF IInv, listVars, EndFetch
<1>2. Booleans'
  BY Zenon DEF IInv, Booleans, EndFetch, listVars, surfaceVars, frameVars, workerVars, taskVars
<1>3. CallTypes'
  BY MapRendererAssumption, SMTT(30) DEF IInv, CallTypes, EndFetch, listVars, surfaceVars,
     frameVars, workerVars, taskVars
<1>4. WorkerTypes'
  BY MapRendererAssumption, SMTT(30) DEF IInv, WorkerTypes, Workers, Placers, Never, Now, Later,
     EndFetch, listVars, surfaceVars, frameVars, workerVars, taskVars
<1>5. CullingInv'
  BY MapRendererAssumption, SMTT(30) DEF IInv, Booleans, WorkerTypes, CullingInv, Workers,
     Placers, Never, Now, Later, EndFetch, listVars, surfaceVars, frameVars, workerVars,
     taskVars
<1>6. CulledInv'
  BY MapRendererAssumption, SMTT(30) DEF IInv, ListInv, CallTypes, WorkerTypes, CullingInv,
     CulledInv, Announced, Workers, Placers, Never, Now, Later, EndFetch, listVars, surfaceVars,
     frameVars, workerVars, taskVars
<1>7. FreshInv'
  BY DEF IInv, FreshInv, EndFetch, listVars, surfaceVars, frameVars, workerVars, taskVars
<1>. QED
  BY <1>1, <1>2, <1>3, <1>4, <1>5, <1>6, <1>7 DEF IInv

LEMMA TellFetchedKeeps == ASSUME IInv, NEW l \in AllLayers, TellFetched(l) PROVE IInv'
<1>a. /\ WorkerTypes' /\ CullingInv'
      /\ \A x \in AllLayers : due[x] # Never => due'[x] # Never
  <2>1. InitPlacement("label", Now) \/ UNCHANGED <<due, pc, idle>>
    BY DEF TellFetched
  <2>2. UNCHANGED <<batch, current, updating>> /\ telling' \subseteq telling
    BY DEF TellFetched
  <2>. QED
    BY <2>1, <2>2, Wakeups DEF IInv, Placers
<1>1. ListInv'
  BY ListStays DEF IInv, listVars, TellFetched
<1>2. Booleans'
  BY Zenon DEF IInv, Booleans, TellFetched, listVars, surfaceVars, frameVars, workerVars,
     taskVars, requestRedraw
<1>3. CallTypes'
  BY MapRendererAssumption, SMTT(30) DEF IInv, CallTypes, TellFetched, listVars, surfaceVars,
     frameVars, workerVars, taskVars, requestRedraw
<1>4. WorkerTypes'
  BY <1>a DEF IInv
<1>5. CullingInv'
  BY <1>a DEF IInv
<1>6. CulledInv'
  <2>1. UNCHANGED <<layers, sized, created, changed, call, batch, fresh, current>>
    BY DEF TellFetched, listVars, surfaceVars
  <2>2. Entries(layers) \ {Null} \subseteq AllLayers
    BY ListLen DEF IInv, ListInv
  <2>. QED
    BY <1>a, <2>1, <2>2 DEF IInv, CulledInv, Announced, Entries
<1>7. FreshInv'
  BY DEF IInv, FreshInv, TellFetched, listVars, surfaceVars, frameVars, workerVars, taskVars,
     requestRedraw
<1>. QED
  BY <1>1, <1>2, <1>3, <1>4, <1>5, <1>6, <1>7 DEF IInv

LEMMA StutterKeeps == ASSUME IInv, UNCHANGED vars PROVE IInv'
<1>1. ListInv'
  BY ListStays DEF IInv, vars, listVars
<1>2. Booleans'
  BY Zenon DEF IInv, Booleans, vars
<1>. QED
  BY <1>1, <1>2 DEF IInv, vars, CallTypes, WorkerTypes, CullingInv, CulledInv, FreshInv, Announced, Entries

-----------------------------------------------------------------------------
(* The invariant is inductive. *)
LEMMA NextIInv == IInv /\ [Next]_vars => IInv'
<1> SUFFICES ASSUME IInv, [Next]_vars PROVE IInv'
  OBVIOUS
<1>1. ASSUME NEW t \in Threads, ChangeLayers(t) \/ MoveCamera(t) \/ captureRendering(t) PROVE IInv'
  BY <1>1, ChangeLayersKeeps, MoveCameraKeeps, captureRenderingKeeps
<1>2. CASE deinit \/ onSurfaceCreated \/ onSurfaceChanged \/ onSurfaceDestroyed
  BY <1>2, deinitKeeps, onSurfaceCreatedKeeps, onSurfaceChangedKeeps, onSurfaceDestroyedKeeps
<1>3. CASE Frame
  BY <1>3, DrawFrameKeeps, DrawLayersKeeps, handleRendererCaptureCallbacksKeeps, EndFrameKeeps DEF Frame
<1>4. ASSUME NEW t \in Threads, Caller(t) PROVE IInv'
  BY <1>4, TellLayersKeeps, TellRedrawKeeps, ListLayersKeeps, viewChangedKeeps DEF Caller
<1>5. CASE Culling
  BY <1>5, WaitKeeps, LeaveKeeps, TakeLayersKeeps, UpdateLayerKeeps DEF Culling, Workers
<1>6. ASSUME NEW p \in Placers, Placing(p) PROVE IInv'
  BY <1>6, WaitKeeps, LeaveKeeps, calculatePlacementKeeps DEF Placing, Workers
<1>7. CASE Fetching
  BY <1>7, EndFetchKeeps, TellFetchedKeeps DEF Fetching
<1>8. ASSUME NEW x \in AllLayers \cup Placers, TimePasses(x) PROVE IInv'
  BY <1>8, TimePassesKeeps
<1>9. CASE UNCHANGED vars
  BY <1>9, StutterKeeps
<1>. QED
  BY <1>1, <1>2, <1>3, <1>4, <1>5, <1>6, <1>7, <1>8, <1>9 DEF Next, Background

LEMMA SpecIInv == Spec => []IInv
  BY InitIInv, NextIInv, PTL DEF Spec

(* The fields keep their ranges: in particular the list keeps its length   *)
(* and the culling worker gets layers only (Layers.cpp, CullWorker.cpp).   *)
THEOREM TypeCorrect == Spec => []TypeOK
<1>1. IInv => TypeOK
  BY Zenon DEF IInv, ListInv, Booleans, CallTypes, WorkerTypes, TypeOK
<1>. QED
  BY <1>1, SpecIInv, PTL

(* The layers of the list are those that are attached, and an empty entry  *)
(* comes only of removing a layer that is listed twice (Layers.cpp).       *)
THEOREM AttachedAsListed == Spec => []ListedIffAttached
<1>1. IInv => ListedIffAttached
  BY DEF IInv, ListInv
<1>. QED
  BY <1>1, SpecIInv, PTL

(* When the culling worker is idle every layer of the list was culled for  *)
(* the view of the map (CullWorker.cpp, MapRenderer::viewChanged).         *)
THEOREM CulledInTheEnd == Spec => []CulledAtRest
<1>1. IInv => CulledAtRest
  <2> SUFFICES ASSUME IInv, CullingAtRest, created, sized, ~changed,
                      NEW l \in Entries(layers) \ {Null}
               PROVE  l \in current
    BY DEF CulledAtRest
  <2>1. l \in AllLayers
    BY ListLen DEF IInv, ListInv
  <2>2. due[l] = Never /\ batch = {}
    BY <2>1 DEF IInv, CullingInv, CullingAtRest
  <2>3. \A t \in Threads : call[t].pc = "none"
    BY DEF CullingAtRest, NoCall
  <2>. QED
    BY <2>2, <2>3 DEF IInv, CulledInv, Announced
<1>. QED
  BY <1>1, SpecIInv, PTL
=============================================================================
