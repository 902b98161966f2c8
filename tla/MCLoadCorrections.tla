------------------------- MODULE MCLoadCorrections -------------------------
(* Instances of LoadCorrections for TLC. *)
EXTENDS LoadCorrections, TLC

\* Constant functions for the instances.
OneLine == [p \in Packages |-> CHOOSE l \in Lines : TRUE]
UnitWeight == [p \in Packages |-> 1]
Payload2 == [v \in Vehicles |-> 2]
AllApproved == [l \in Lines |-> Cardinality(Packages)]

\* One of the trips has policies and the other has none: only packages are alike.
Symmetry == Permutations(Packages)

\* The fleet changes before the first trip, and is AVAILABLE from then on: the run
\* asks about the cargo.
FleetFirst ==
    /\ vehicleState' # vehicleState => \A t \in Trips : status[t] = "none"
    /\ (\E v \in Vehicles : vehicleState[v] # "AVAILABLE") => vehicleState' # vehicleState
=============================================================================
