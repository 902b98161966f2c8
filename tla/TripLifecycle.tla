---------------------------- MODULE TripLifecycle ----------------------------
(***************************************************************************)
(* The lifecycle of logistics trips and the vehicles and drivers they      *)
(* hold: what every handler does to a trip's status, vehicle and driver    *)
(* (services/trip_lifecycle.py, finished_logistics.py,                     *)
(* logistics_planning.py, shipment_execution.py, load_corrections.py).     *)
(* What a handler asks of the cargo is left open here;                     *)
(* ShipmentExecution and LoadCorrections add it and implement this module. *)
(*                                                                         *)
(* A handler locks the row of its trip and commits once, so it is one step *)
(* here; TripTransactions lets others in between its checks of the other   *)
(* rows, which it does not lock, and its commit.  The version a client     *)
(* must quote is the current one whenever its command is accepted, so      *)
(* versions are left out.                                                  *)
(***************************************************************************)

CONSTANTS
    Trips,     \* rows of mes_trips that may ever be created
    Vehicles,
    Drivers,   \* active users with role driver
    None       \* a trip with no vehicle, or no driver

ASSUME LifecycleAssumption == None \notin Vehicles /\ None \notin Drivers

VARIABLES
    status,        \* per trip; "none" before it is created
    vehicle,       \* per trip: vehicle_id
    driver,        \* per trip: driver_user_id
    vehicleState,  \* per vehicle: operational_state (is_active unless INACTIVE)
    resumed        \* history: trips that were ever in delivery_exception

vars == <<status, vehicle, driver, vehicleState, resumed>>

Statuses == {"draft", "planned", "loading", "loaded", "dispatched", "in_transit", "arrived",
             "delivery_exception", "delivered", "accepted", "cancelled"}
VehicleStates == {"AVAILABLE", "SERVICE", "INACTIVE"}

\* Mutant: a trip may be cancelled on its way.
TransitionsCancellable(s) ==
    CASE s = "draft"              -> {"planned", "cancelled"}
      [] s = "planned"            -> {"loading", "cancelled"}
      [] s \in {"loading", "loaded"} -> {"cancelled"}
      [] s = "dispatched"         -> {"in_transit", "delivery_exception", "cancelled"}
      [] OTHER                    -> {}

\* trip_lifecycle.TRIP_TRANSITIONS
Transitions(s) ==
    CASE s = "draft"              -> {"planned", "cancelled"}
      [] s = "planned"            -> {"loading", "cancelled"}
      [] s = "loading"            -> {"loaded", "cancelled"}
      [] s = "loaded"             -> {"dispatched", "cancelled"}
      [] s = "dispatched"         -> {"in_transit", "delivery_exception"}
      [] s = "in_transit"         -> {"arrived", "delivery_exception"}
      [] s = "arrived"            -> {"delivered", "delivery_exception"}
      [] s = "delivery_exception" -> {"in_transit", "arrived", "delivered", "cancelled"}
      [] s = "delivered"          -> {"accepted", "delivery_exception"}
      [] OTHER                    -> {}

\* The three sets of statuses that the code lets hold a vehicle.
CreateConflicts == {"planned", "loading", "loaded", "dispatched", "in_transit"}
Conflicting == CreateConflicts \cup {"arrived"}
ManagedTargets == {"loaded", "dispatched", "arrived", "delivered", "accepted"}
PreDispatch == {"loading", "loaded"}

Init ==
    /\ status = [t \in Trips |-> "none"]
    /\ vehicle = [t \in Trips |-> None]
    /\ driver = [t \in Trips |-> None]
    /\ vehicleState = [v \in Vehicles |-> "AVAILABLE"]
    /\ resumed = {}

\* Some trip other than t holds the vehicle (the driver) in one of the statuses S.
VehicleTaken(t, v, S) == \E u \in Trips \ {t} : vehicle[u] = v /\ status[u] \in S
DriverTaken(t, d, S) == d # None /\ \E u \in Trips \ {t} : driver[u] = d /\ status[u] \in S

SetStatus(t, s) == status' = [status EXCEPT ![t] = s]

-----------------------------------------------------------------------------
(* What a handler checks in other rows has a name of its own, as it is     *)
(* checked before the handler commits (TripTransactions).                  *)

CanCreate(t, v, d) ==
    /\ status[t] = "none"
    /\ vehicleState[v] = "AVAILABLE"
    /\ ~VehicleTaken(t, v, CreateConflicts) /\ ~DriverTaken(t, d, CreateConflicts)

Created(t, v, d, s) ==
    /\ SetStatus(t, s)
    /\ vehicle' = [vehicle EXCEPT ![t] = v]
    /\ driver' = [driver EXCEPT ![t] = d]
    /\ UNCHANGED <<vehicleState, resumed>>

\* create_trip leaves a draft; create_consolidated_trip goes on to planned.
CreateTrip(t, v, d, s) == s \in {"draft", "planned"} /\ CanCreate(t, v, d) /\ Created(t, v, d, s)

CanAssign(t, v, d) ==
    /\ status[t] \in {"draft", "planned"}
    /\ v # None => vehicleState[v] = "AVAILABLE" /\ ~VehicleTaken(t, v, Conflicting)
    /\ ~DriverTaken(t, d, Conflicting)

Assigned(t, v, d) ==
    /\ vehicle' = [vehicle EXCEPT ![t] = v]
    /\ driver' = [driver EXCEPT ![t] = d]
    /\ UNCHANGED <<status, vehicleState, resumed>>

UpdateAssignment(t, v, d) == CanAssign(t, v, d) /\ Assigned(t, v, d)

\* transition_trip: a target that moves cargo has a command of its own.
CanTransition(t, target) ==
    /\ target \in Transitions(status[t]) \ ManagedTargets
    /\ target = "loading" =>
         vehicle[t] # None /\ driver[t] # None /\ vehicleState[vehicle[t]] = "AVAILABLE"

Transitioned(t, target) ==
    /\ SetStatus(t, target)
    /\ resumed' = IF target = "delivery_exception" THEN resumed \cup {t} ELSE resumed
    /\ UNCHANGED <<vehicle, driver, vehicleState>>

TransitionTrip(t, target) == CanTransition(t, target) /\ Transitioned(t, target)

ConfirmLoading(t) ==
    /\ status[t] = "loading" /\ SetStatus(t, "loaded")
    /\ UNCHANGED <<vehicle, driver, vehicleState, resumed>>

\* unload, return, reload, transfer, replace: s is what the correction leaves.
CorrectLoading(t, s) ==
    /\ status[t] \in PreDispatch /\ s \in PreDispatch /\ SetStatus(t, s)
    /\ UNCHANGED <<vehicle, driver, vehicleState, resumed>>

CanDispatch(t) ==
    /\ status[t] = "loaded" /\ vehicle[t] # None /\ driver[t] # None
    /\ vehicleState[vehicle[t]] = "AVAILABLE"
    /\ ~VehicleTaken(t, vehicle[t], Conflicting) /\ ~DriverTaken(t, driver[t], Conflicting)

FinalDispatch(t) ==
    /\ CanDispatch(t) /\ SetStatus(t, "dispatched")
    /\ UNCHANGED <<vehicle, driver, vehicleState, resumed>>

\* A tracking point captured and received after the departure.
GpsInTransit(t) ==
    /\ status[t] = "dispatched" /\ SetStatus(t, "in_transit")
    /\ UNCHANGED <<vehicle, driver, vehicleState, resumed>>

\* The table also allows it from delivery_exception; the UPDATE does not.
ConfirmArrival(t) ==
    /\ status[t] = "in_transit" /\ SetStatus(t, "arrived")
    /\ UNCHANGED <<vehicle, driver, vehicleState, resumed>>

RecordDelivery(t, complete) ==
    /\ status[t] \in {"in_transit", "arrived"}
    /\ SetStatus(t, IF complete THEN "delivered" ELSE status[t])
    /\ UNCHANGED <<vehicle, driver, vehicleState, resumed>>

AcceptDelivery(t, complete) ==
    /\ status[t] \in {"in_transit", "arrived", "delivered"}
    /\ SetStatus(t, IF complete THEN "accepted" ELSE status[t])
    /\ UNCHANGED <<vehicle, driver, vehicleState, resumed>>

\* Mutant: only trips on the road keep a vehicle from service.
CanSetStateOffRoad(v, s) ==
    s # "AVAILABLE" => ~\E t \in Trips : vehicle[t] = v /\ status[t] \in {"dispatched", "in_transit"}

CanSetState(v, s) ==
    s # "AVAILABLE" => ~\E t \in Trips : vehicle[t] = v /\ status[t] \in Conflicting

UpdateVehicleState(v, s) ==
    /\ CanSetState(v, s)
    /\ vehicleState' = [vehicleState EXCEPT ![v] = s]
    /\ UNCHANGED <<status, vehicle, driver, resumed>>

\* update_vehicle with is_active: a second door to the same column.
CanSetActive(v, active) ==
    ~active => ~\E t \in Trips : vehicle[t] = v /\ status[t] \in CreateConflicts

StateFor(v, active) ==
    IF ~active THEN "INACTIVE" ELSE IF vehicleState[v] = "INACTIVE" THEN "AVAILABLE" ELSE vehicleState[v]

UpdateVehicle(v, active) ==
    /\ CanSetActive(v, active)
    /\ vehicleState' = [vehicleState EXCEPT ![v] = StateFor(v, active)]
    /\ UNCHANGED <<status, vehicle, driver, resumed>>

-----------------------------------------------------------------------------
TripStep(t) ==
    \/ \E v \in Vehicles, d \in Drivers \cup {None}, s \in {"draft", "planned"} : CreateTrip(t, v, d, s)
    \/ \E v \in Vehicles \cup {None}, d \in Drivers \cup {None} : UpdateAssignment(t, v, d)
    \/ \E target \in Statuses : TransitionTrip(t, target)
    \/ ConfirmLoading(t)
    \/ \E s \in PreDispatch : CorrectLoading(t, s)
    \/ FinalDispatch(t)
    \/ GpsInTransit(t)
    \/ ConfirmArrival(t)
    \/ \E complete \in BOOLEAN : RecordDelivery(t, complete) \/ AcceptDelivery(t, complete)

VehicleStep(v) ==
    \/ \E s \in VehicleStates : UpdateVehicleState(v, s)
    \/ \E active \in BOOLEAN : UpdateVehicle(v, active)

Next == (\E t \in Trips : TripStep(t)) \/ (\E v \in Vehicles : VehicleStep(v))

Spec == Init /\ [][Next]_vars

-----------------------------------------------------------------------------
Departed == {"dispatched", "in_transit", "arrived", "delivery_exception", "delivered", "accepted"}
OnRoad == {"dispatched", "in_transit", "arrived"}

TypeOK ==
    /\ status \in [Trips -> Statuses \cup {"none"}]
    /\ vehicle \in [Trips -> Vehicles \cup {None}]
    /\ driver \in [Trips -> Drivers \cup {None}]
    /\ vehicleState \in [Vehicles -> VehicleStates]
    /\ resumed \subseteq Trips

\* From the start of loading to the departure a trip keeps a driver and an
\* AVAILABLE vehicle, though the vehicle is serviced, retired and reactivated by
\* commands of its own (two of them, with different lists of statuses).
Roadworthy ==
    \A t \in Trips : status[t] \in {"loading", "loaded", "dispatched"} =>
        driver[t] # None /\ vehicle[t] # None /\ vehicleState[vehicle[t]] = "AVAILABLE"

\* Two trips on the road never share a vehicle or a driver, unless one of them
\* has been through delivery_exception: only final_dispatch puts a trip on the
\* road, and nothing changes an assignment after it.
ExclusiveOnRoad ==
    \A t, u \in Trips :
        t # u /\ {status[t], status[u]} \subseteq OnRoad /\ {t, u} \cap resumed = {}
            => vehicle[t] # vehicle[u] /\ driver[t] # driver[u]

\* A trip that has departed never goes back to loading, keeps its vehicle and
\* driver, and is cancelled only out of delivery_exception ("Dispatched cargo requires
\* the controlled logistics-exception workflow").
DepartedStaysDeparted ==
    [][\A t \in Trips : status[t] \in Departed =>
         /\ status'[t] \in Departed \/ (status[t] = "delivery_exception" /\ status'[t] = "cancelled")
         /\ vehicle'[t] = vehicle[t] /\ driver'[t] = driver[t]]_vars
=============================================================================
