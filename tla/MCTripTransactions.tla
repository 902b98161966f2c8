------------------------ MODULE MCTripTransactions -------------------------
(* Instances of TripTransactions for TLC. *)
EXTENDS TripTransactions, TLC

\* Trips, vehicles and drivers are interchangeable.
Symmetry == Permutations(Trips) \cup Permutations(Vehicles) \cup Permutations(Drivers)
=============================================================================
