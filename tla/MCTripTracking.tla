---------------------------- MODULE MCTripTracking ----------------------------
(* Positions, for TLC: those of trips, from the app and the trackers, and   *)
(* those of a vehicle, from the phone of its driver.  The two share no      *)
(* state here: a behaviour is about one of them.                            *)
EXTENDS TripTracking, LocationFeed, TLC

VARIABLE subject \* "trips" or "feed"

PositionsInit == Init /\ FeedInit /\ subject \in {"trips", "feed"}

PositionsNext ==
    /\ \/ subject = "trips" /\ Next /\ UNCHANGED feedVars
       \/ subject = "feed" /\ FeedNext /\ UNCHANGED trackingVars
    /\ UNCHANGED subject

PositionsSpec == PositionsInit /\ [][PositionsNext]_<<trackingVars, feedVars, subject>>

Symmetry == Permutations(Trips) \cup Permutations(Vehicles) \cup Permutations(Drivers)
              \cup Permutations(Clients) \cup Permutations(PointIds) \cup Permutations(Live)

\* A bound on what comes together: two of those who post and synchronise are at work together until
\* the first tick, with two positions taken, two synchronisations before it; none runs in the last.
Syncing ==
    LET running == {s \in Syncs : sync[s] # NoSync}
        working == running \cup {p \in Live : post[p] # NoPost}
    IN /\ Cardinality(working) <= 2
       /\ Cardinality(working) > 1 => clock <= 1 /\ taken <= 2
       /\ running = Syncs => clock = 0
       /\ clock > 2 => backlog = <<>> /\ running = {}

\* A bound on what comes together: starts and rebindings are in progress before the first point is stored.
Binding ==
    (\E t \in Trips : starting[t] # None) \/ (\E d \in Devices : changing[d] # None) => points = <<>>
===============================================================================
