------------------------------ MODULE MCLauncher ------------------------------
(* The life cycle on small instances. *)
EXTENDS Launcher, TLC

Symmetry == Permutations(Bats)
=============================================================================
