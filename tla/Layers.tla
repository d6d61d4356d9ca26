-------------------------------- MODULE Layers --------------------------------
(***************************************************************************)
(* components/Layers.cpp: the ordered list of the layers of a map.  Every  *)
(* operation works under one mutex, attaches the layers that were not      *)
(* listed before (Layer::setComponents with the map renderer) and detaches *)
(* those that are listed no longer.  A layer may be listed several times.  *)
(* What an operation tells the map renderer after it has given the mutex   *)
(* up is left to the module that extends this one (MapRenderer).           *)
(***************************************************************************)
EXTENDS Naturals, Sequences, FiniteSets

CONSTANTS AllLayers,
          Null,        (* an entry of the vector that was moved from        *)
          SomeLists,   (* lists that the application begins with or sets    *)
          MaxList      (* bound: the length of the list                     *)

ASSUME LayersAssumption ==
    /\ Null \notin AllLayers /\ MaxList \in Nat
    /\ \A s \in SomeLists : \E n \in 0 .. MaxList : s \in [1 .. n -> AllLayers]

VARIABLES
    layers,      (* _layers                                                *)
    attached,    (* layers whose _mapRenderer is set                       *)
    doubled      (* history: a layer was removed while listed twice        *)

listVars == <<layers, attached, doubled>>

Lists == UNION {[1 .. n -> AllLayers \cup {Null}] : n \in 0 .. MaxList}
Entries(s) == {s[i] : i \in 1 .. Len(s)}
Occurrences(l, s) == {i \in 1 .. Len(s) : s[i] = l}

(* The application may have listed some before there is a surface. *)
InitLayers ==
    /\ layers \in SomeLists
    /\ attached = Entries(layers)
    /\ doubled = FALSE

(* A new list: old layers may go and others come. *)
Become(s) ==
    /\ Len(s) <= MaxList
    /\ layers' = s
    /\ attached' = (attached \ (Entries(layers) \ Entries(s))) \cup (Entries(s) \ Entries(layers))
    /\ UNCHANGED doubled

-----------------------------------------------------------------------------
set(i, l) == i \in 1 .. Len(layers) /\ Become([layers EXCEPT ![i] = l])

setAll(s) == Become(s)

clear == setAll(<<>>)

insert(i, l) ==
    /\ i \in 1 .. Len(layers) + 1
    /\ Become(SubSeq(layers, 1, i - 1) \o <<l>> \o SubSeq(layers, i, Len(layers)))

addAll(s) == Become(layers \o s)

(* Where the entries are that stay without l, and how to number positions. *)
Staying(l) == {i \in 1 .. Len(layers) : layers[i] # l}
Ascending(S) == {f \in [1 .. Cardinality(S) -> S] : \A i, j \in DOMAIN f : i < j => f[i] < f[j]}

(* Mutant: what std::remove leaves behind is not erased. *)
RemovedNotErased(l, f) ==
    [i \in 1 .. Len(layers) |-> IF i \in DOMAIN f THEN layers[f[i]]
                                ELSE IF layers[i] = l THEN l ELSE Null]

(* std::remove moves what stays to the front and leaves what it moved      *)
(* empty; then one entry, the first behind those that stay, is erased: all *)
(* that there is if the layer was listed once.                             *)
Removed(l, f) ==
    [i \in 1 .. Len(layers) - 1 |-> IF i \in DOMAIN f THEN layers[f[i]]
                                    ELSE IF layers[i + 1] = l THEN l ELSE Null]

remove(l) ==
    /\ l \in Entries(layers)
    /\ \E f \in Ascending(Staying(l)) : layers' = Removed(l, f)
    /\ attached' = IF l \in Entries(layers') THEN attached ELSE attached \ {l}
    /\ doubled' = (doubled \/ \E i, j \in Occurrences(l, layers) : i # j)

-----------------------------------------------------------------------------
(* The layers of the list are exactly those that were given the pools, the *)
(* renderer and the touch handler, whatever was listed twice, replaced or  *)
(* taken out; and no entry is empty, unless a layer was removed while it   *)
(* was listed more than once: removeAll erases one entry only, and the     *)
(* next loop over the list would call a layer that is not there.           *)
ListedIffAttached ==
    /\ attached = Entries(layers) \ {Null}
    /\ Null \in Entries(layers) => doubled
=============================================================================
