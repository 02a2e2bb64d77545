---------------------------- MODULE MCLauncher ----------------------------
(* Instances of Launcher for TLC. *)
EXTENDS Launcher, TLC

CONSTANTS first, second
TwoLaunchers == {first, second}
Symmetry == Permutations(TwoLaunchers)
=============================================================================
