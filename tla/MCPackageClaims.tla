-------------------------- MODULE MCPackageClaims --------------------------
(* Instances of PackageClaims for TLC. *)
EXTENDS PackageClaims, TLC

\* One client repeats its commands and the other does not; the trips are alike.
Symmetry == Permutations(Trips)
=============================================================================
