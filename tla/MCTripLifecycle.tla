--------------------------- MODULE MCTripLifecycle ---------------------------
(* The fleet, for TLC: the lifecycle of logistics trips, and the tasks of    *)
(* drivers and the alarms of the vehicles.  They share no state here: a      *)
(* behaviour is about one of them.                                           *)
EXTENDS TripLifecycle, DriverTasks, GpsAlerts, FiniteSets, TLC

VARIABLE subject \* "trips", "errands" or "alerts"

FleetInit ==
    /\ Init /\ ErrandsInit /\ AlertsInit
    /\ subject \in {"trips", "errands", "alerts"}
    \* what the other subjects start from makes no difference
    /\ subject # "errands" => \A d \in Crew : crew[d] = "active"
    /\ subject # "alerts" => onTrip = {}

FleetNext ==
    /\ \/ subject = "trips" /\ Next /\ UNCHANGED <<errandVars, alertVars>>
       \/ subject = "errands" /\ ErrandsNext /\ UNCHANGED <<vars, alertVars>>
       \/ subject = "alerts" /\ AlertsNext /\ UNCHANGED <<vars, errandVars>>
    /\ UNCHANGED subject

FleetSpec == FleetInit /\ [][FleetNext]_<<vars, errandVars, alertVars, subject>>

\* Trips, vehicles, drivers and requests are interchangeable.
Symmetry ==
    Permutations(Trips) \cup Permutations(Vehicles) \cup Permutations(Drivers) \cup Permutations(Desks)

\* Bounds on what comes together.  What a task refers to is not edited while it is handled, and
\* nothing overlaps on a task whose state the office has set.
Handling ==
    LET busy == {k \in Desks : visit[k] # NoVisit}
    IN /\ \A k \in busy, f \in {"vehicle", "driver", "holder"} : visit[k].seen[f] = errand[visit[k].t][f]
       /\ steered # {} => Cardinality(busy) <= 1

\* A tracker that is no vehicle's is there or not: the job looks no further.
Foreign == \A v \in Numbers \ Known : seen[v].tracker # "out" /\ ~seen[v].old /\ ~seen[v].fast
==============================================================================
