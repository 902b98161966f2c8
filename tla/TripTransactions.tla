------------------------- MODULE TripTransactions --------------------------
(***************************************************************************)
(* TripLifecycle as the database runs it (read committed).  A handler      *)
(* locks the row of its trip (SELECT ... FOR UPDATE), checks the vehicle   *)
(* and the other trips in rows it has not locked, and commits: the rest of *)
(* the system goes on between the checks and the commit.  The handlers     *)
(* that look at their own trip only are still one step, but for the        *)
(* corrections of a load: their endpoint reads the trip before the service *)
(* locks it, the session keeps the object it has (SQLAlchemy overwrites    *)
(* none on SELECT ... FOR UPDATE without populate_existing), and the       *)
(* status and the version they check are those of the first read.          *)
(***************************************************************************)
EXTENDS TripLifecycle

VARIABLES
    open,   \* per trip: the command that has passed its checks, or NoCommand
    fleet,  \* per vehicle: the state a handler is about to commit, or "none"
    seen    \* per trip: the status a correction has read and not yet locked, or "none"

txvars == <<vars, open, fleet, seen>>

NoCommand == [op |-> "none", v |-> None, d |-> None]
Commands == [op : {"none", "create", "plan", "assign", "loading", "dispatch"},
             v : Vehicles \cup {None}, d : Drivers \cup {None}]

TxInit ==
    /\ Init
    /\ open = [t \in Trips |-> NoCommand]
    /\ fleet = [v \in Vehicles |-> "none"]
    /\ seen = [t \in Trips |-> "none"]

\* Mutant: the row of the trip is read without FOR UPDATE.
NeverLocked(t) == TRUE

Unlocked(t) == open[t] = NoCommand

\* On PostgreSQL an assignment also takes advisory locks on its vehicle and driver.
Advised(t, v, d) ==
    \A u \in Trips \ {t} : open[u].op = "assign" =>
        (v # None => open[u].v # v) /\ (d # None => open[u].d # d)

Check(t, c) ==
    \/ c.op \in {"create", "plan"} /\ c.v # None /\ CanCreate(t, c.v, c.d)
    \/ c.op = "assign" /\ Advised(t, c.v, c.d) /\ CanAssign(t, c.v, c.d)
    \/ c.op = "loading" /\ c.v = vehicle[t] /\ c.d = driver[t] /\ CanTransition(t, "loading")
    \/ c.op = "dispatch" /\ c.v = vehicle[t] /\ c.d = driver[t] /\ CanDispatch(t)

Begin(t, c) ==
    /\ Unlocked(t) /\ Check(t, c)
    /\ open' = [open EXCEPT ![t] = c]
    /\ UNCHANGED <<vars, fleet, seen>>

\* A new reference to a vehicle waits for the handler that has its row FOR UPDATE.
Referable(t) == open[t].v \in Vehicles /\ open[t].v # vehicle[t] => fleet[open[t].v] = "none"

Commit(t) ==
    /\ Referable(t)
    /\ \/ open[t].op = "create" /\ Created(t, open[t].v, open[t].d, "draft")
       \/ open[t].op = "plan" /\ Created(t, open[t].v, open[t].d, "planned")
       \/ open[t].op = "assign" /\ Assigned(t, open[t].v, open[t].d)
       \/ open[t].op = "loading" /\ Transitioned(t, "loading")
       \/ /\ open[t].op = "dispatch" /\ SetStatus(t, "dispatched")
          /\ UNCHANGED <<vehicle, driver, vehicleState, resumed>>
    /\ open' = [open EXCEPT ![t] = NoCommand]
    /\ UNCHANGED <<fleet, seen>>

\* A refusal further on (evidence, cargo) or a lost connection: rolled back.
Rollback(t) ==
    /\ ~Unlocked(t)
    /\ open' = [open EXCEPT ![t] = NoCommand]
    /\ UNCHANGED <<vars, fleet, seen>>

OwnRow(t) ==
    /\ Unlocked(t)
    /\ \/ \E target \in Statuses \ {"loading"} : TransitionTrip(t, target)
       \/ ConfirmLoading(t)
       \/ GpsInTransit(t)
       \/ ConfirmArrival(t)
       \/ \E complete \in BOOLEAN : RecordDelivery(t, complete) \/ AcceptDelivery(t, complete)
    /\ UNCHANGED <<open, fleet, seen>>

\* The endpoint of a correction reads the trip, for the permissions.
ReadForCorrection(t) ==
    /\ status[t] \in PreDispatch /\ seen[t] = "none"
    /\ seen' = [seen EXCEPT ![t] = status[t]]
    /\ UNCHANGED <<vars, open, fleet>>

\* The correction has the lock, and writes the status when it differs from what it
\* has seen.  It takes a loaded package off a trip it has seen loaded, which the
\* version of the item refuses once that was delivered, or completes the load of
\* one it has seen loading.
CommitCorrection(t) ==
    /\ Unlocked(t) /\ seen[t] # "none"
    /\ \E s \in PreDispatch :
        /\ s = "loading" => status[t] \notin {"delivered", "accepted"}
        /\ SetStatus(t, IF s = seen[t] THEN status[t] ELSE s)
    /\ seen' = [seen EXCEPT ![t] = "none"]
    /\ UNCHANGED <<vehicle, driver, vehicleState, resumed, open, fleet>>

\* Refused, for what its item or the rest of the load have become meanwhile.
AbandonCorrection(t) ==
    /\ seen[t] # "none"
    /\ seen' = [seen EXCEPT ![t] = "none"]
    /\ UNCHANGED <<vars, open, fleet>>

BeginFleet(v) ==
    /\ fleet[v] = "none"
    /\ \E s \in VehicleStates :
        /\ \/ CanSetState(v, s)
           \/ \E active \in BOOLEAN : CanSetActive(v, active) /\ s = StateFor(v, active)
        /\ fleet' = [fleet EXCEPT ![v] = s]
    /\ UNCHANGED <<vars, open, seen>>

CommitFleet(v) ==
    /\ fleet[v] # "none"
    /\ vehicleState' = [vehicleState EXCEPT ![v] = fleet[v]]
    /\ fleet' = [fleet EXCEPT ![v] = "none"]
    /\ UNCHANGED <<status, vehicle, driver, resumed, open, seen>>

TxNext ==
    \/ \E t \in Trips : (\E c \in Commands : Begin(t, c)) \/ Commit(t) \/ Rollback(t) \/ OwnRow(t)
    \/ \E t \in Trips : ReadForCorrection(t) \/ CommitCorrection(t) \/ AbandonCorrection(t)
    \/ \E v \in Vehicles : BeginFleet(v) \/ CommitFleet(v)

TxSpec == TxInit /\ [][TxNext]_txvars

-----------------------------------------------------------------------------
TxTypeOK ==
    /\ TypeOK
    /\ open \in [Trips -> Commands]
    /\ fleet \in [Vehicles -> VehicleStates \cup {"none"}]
    /\ seen \in [Trips -> PreDispatch \cup {"none"}]

\* The checks of a dispatch still hold when it commits, although nothing they read
\* is locked: no other trip that has not been through delivery_exception is on the
\* road with the vehicle or the driver, or about to be.
DispatchCheckHolds ==
    \A t, u \in Trips : t # u /\ open[t].op = "dispatch" =>
        /\ status[t] = "loaded" /\ vehicle[t] # None /\ driver[t] # None
        /\ vehicle[u] = vehicle[t] \/ driver[u] = driver[t] =>
             (status[u] \in OnRoad => u \in resumed) /\ open[u].op # "dispatch"

\* No two trips are on the road with one vehicle or driver, nor about to be.
RoadHolds == ExclusiveOnRoad /\ DispatchCheckHolds
=============================================================================
