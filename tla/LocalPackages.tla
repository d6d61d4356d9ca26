---------------------------- MODULE LocalPackages ----------------------------
(***************************************************************************)
(* What a package manager promises those who read packages, with no tasks, *)
(* database, files or threads in sight.  One version of a package is       *)
(* installed at a time, and a new one takes its place at once.  Those who  *)
(* read or keep a package are told of that, and have what they were given  *)
(* until the version is given up: nobody reads then, and nobody keeps      *)
(* anything.                                                               *)
(***************************************************************************)
CONSTANTS Packages, Versions

VARIABLES installed,    (* the version of each package that readers get    *)
          obsolete,     (* versions that were replaced, to be given up     *)
          untold,       (* that there is a new version is still to be told *)
          reading,      (* somebody reads packages ...                     *)
          lent,         (* ... which he was given when he began            *)
          kept          (* packages that are kept open between two reads   *)

vars == <<installed, obsolete, untold, reading, lent, kept>>

VersionsOf(p) == {p} \X Versions

OneOfEach(S) == \A x, y \in S : x[1] = y[1] => x = y

Init ==
    /\ installed \in SUBSET (Packages \X Versions) /\ OneOfEach(installed)
    /\ obsolete = {} /\ untold = FALSE
    /\ reading = FALSE /\ lent = {} /\ kept = {}

(* Versions that an earlier life of the manager has left are given up with *)
(* the one that is replaced.                                               *)
Install(p, v) ==
    /\ ~untold /\ obsolete = {} /\ <<p, v>> \notin installed
    /\ installed' = (installed \ VersionsOf(p)) \cup {<<p, v>>}
    /\ untold' = TRUE
    /\ obsolete' \in SUBSET (VersionsOf(p) \ {<<p, v>>})
    /\ installed \cap VersionsOf(p) \subseteq obsolete'
    /\ UNCHANGED <<reading, lent, kept>>

TellInstalled ==
    /\ untold /\ untold' = FALSE
    /\ kept' = {}
    /\ UNCHANGED <<installed, obsolete, reading, lent>>

(* What is obsolete goes before anything else. *)
GiveUp(x) ==
    /\ ~untold /\ ~reading
    /\ obsolete = {} \/ x \in obsolete
    /\ installed' = installed \ {x} /\ obsolete' = obsolete \ {x}
    /\ kept' = {}
    /\ UNCHANGED <<untold, reading, lent>>

BeginAccess ==
    /\ ~reading /\ reading' = TRUE
    /\ lent' = installed
    /\ UNCHANGED <<installed, obsolete, untold, kept>>

EndAccess ==
    /\ reading /\ reading' = FALSE
    /\ lent' = {}
    /\ kept' \in SUBSET (kept \cup lent)
    /\ UNCHANGED <<installed, obsolete, untold>>

(* What is installed outlives the process, and nothing else does. *)
Restart ==
    /\ obsolete' = {} /\ untold' = FALSE
    /\ reading' = FALSE /\ lent' = {} /\ kept' = {}
    /\ UNCHANGED installed

Next ==
    \/ \E p \in Packages : \E v \in Versions : Install(p, v)
    \/ TellInstalled
    \/ \E x \in Packages \X Versions : GiveUp(x)
    \/ BeginAccess \/ EndAccess
    \/ Restart

Spec == Init /\ [][Next]_vars

(* What is lent or kept is installed, or not yet given up, and there is    *)
(* one version of each package.                                            *)
InUseIsThere ==
    /\ lent \cup kept \subseteq installed \cup obsolete
    /\ ~reading => lent = {}
    /\ installed \in SUBSET (Packages \X Versions) /\ OneOfEach(installed)
=============================================================================
