----------------------------- MODULE MCPackage -----------------------------
(* Instances of PackageManager for TLC; the bounds are in the .cfg files.  *)
EXTENDS PackageManager, TLC

CONSTANTS p1, p2, c1

OnePackage == {p1}
TwoPackages == {p1, p2}
OneClient == {c1}
PackageSymmetry == Permutations(TwoPackages)

PauseAndResume == {-1, 0}
Raise == {1}

(* One package: installed, updated, removed, read, across a crash.         *)
InstallCommands == {"download", "remove", "cancel", "priority", "read"}

(* Two packages beside list updates and imports.                           *)
ListCommands == {"download", "import", "list", "cancel", "priority"}
=============================================================================
