----------------------- MODULE TripTransactionsProofs ------------------------
(***************************************************************************)
(* Theorems of TripLifecycle, and of TripTransactions: what the checks of  *)
(* unlocked rows still guarantee when handlers interleave, for any number  *)
(* of trips, vehicles and drivers; and of DriverTasks, whose handlers      *)
(* write over rows that they have read before, for any number of tasks,    *)
(* drivers and requests.                                                   *)
(***************************************************************************)
EXTENDS TripTransactions, DriverTasks, TLAPS

USE DEF Statuses, VehicleStates, CreateConflicts, Conflicting, ManagedTargets, PreDispatch, OnRoad

-----------------------------------------------------------------------------
(* The lifecycle: each command one step.                                   *)

\* Every status the table leads to is a status, and draft and planned are the only
\* ones from which it leads to planned and loading.
LEMMA TransitionsType ==
    ASSUME NEW s, NEW r \in Transitions(s)
    PROVE  /\ r \in Statuses
           /\ r = "loading" => s = "planned"
           /\ r \in {"in_transit"} => s \in {"dispatched", "delivery_exception"}
BY Zenon DEF Transitions

\* Columns keep the values the code gives them.
THEOREM TypeCorrect == Spec => []TypeOK
<1>1. Init => TypeOK
    BY DEF Init, TypeOK
<1>2. TypeOK /\ [Next]_vars => TypeOK'
    <2> SUFFICES ASSUME TypeOK, [Next]_vars PROVE TypeOK'
        OBVIOUS
    <2>1. ASSUME NEW t \in Trips, TripStep(t) PROVE TypeOK'
        <3> USE DEF TypeOK, SetStatus
        <3>1. ASSUME NEW v \in Vehicles, NEW d \in Drivers \cup {None}, NEW s,
                     CreateTrip(t, v, d, s)
              PROVE  TypeOK'
            BY <3>1 DEF CreateTrip, Created
        <3>2. ASSUME NEW v \in Vehicles \cup {None}, NEW d \in Drivers \cup {None},
                     UpdateAssignment(t, v, d)
              PROVE  TypeOK'
            BY <3>2 DEF UpdateAssignment, Assigned
        <3>3. ASSUME NEW target \in Statuses, TransitionTrip(t, target) PROVE TypeOK'
            BY <3>3 DEF TransitionTrip, Transitioned
        <3>4. CASE ConfirmLoading(t)
            BY <3>4 DEF ConfirmLoading
        <3>5. ASSUME NEW s \in PreDispatch, CorrectLoading(t, s) PROVE TypeOK'
            BY <3>5 DEF CorrectLoading
        <3>6. CASE FinalDispatch(t)
            BY <3>6 DEF FinalDispatch
        <3>7. CASE GpsInTransit(t) \/ ConfirmArrival(t)
            BY <3>7 DEF GpsInTransit, ConfirmArrival
        <3>8. ASSUME NEW complete \in BOOLEAN, RecordDelivery(t, complete) \/ AcceptDelivery(t, complete)
              PROVE  TypeOK'
            BY <3>8 DEF RecordDelivery, AcceptDelivery
        <3>9. QED
            BY <2>1, <3>1, <3>2, <3>3, <3>4, <3>5, <3>6, <3>7, <3>8 DEF TripStep
    <2>2. ASSUME NEW v \in Vehicles, VehicleStep(v) PROVE TypeOK'
        BY <2>2 DEF VehicleStep, UpdateVehicleState, UpdateVehicle, StateFor, TypeOK
    <2>3. CASE UNCHANGED vars
        BY <2>3 DEF vars, TypeOK
    <2>4. QED
        BY <2>1, <2>2, <2>3 DEF Next
<1>3. QED
    BY <1>1, <1>2, PTL DEF Spec

\* From loading to departure a trip has a driver and an AVAILABLE vehicle: both
\* commands that change a vehicle's state look at the trips that hold it.
THEOREM AlwaysRoadworthy == Spec => []Roadworthy
<1>1. Init => Roadworthy
    BY DEF Init, Roadworthy
<1>2. TypeOK /\ Roadworthy /\ [Next]_vars => Roadworthy'
    <2> SUFFICES ASSUME TypeOK, Roadworthy, [Next]_vars PROVE Roadworthy'
        OBVIOUS
    <2>1. ASSUME NEW t \in Trips, TripStep(t) PROVE Roadworthy'
        <3> USE DEF TypeOK, Roadworthy, SetStatus
        <3>1. ASSUME NEW v \in Vehicles, NEW d \in Drivers \cup {None}, NEW s,
                     CreateTrip(t, v, d, s)
              PROVE  Roadworthy'
            BY <3>1 DEF CreateTrip, Created
        <3>2. ASSUME NEW v \in Vehicles \cup {None}, NEW d \in Drivers \cup {None},
                     UpdateAssignment(t, v, d)
              PROVE  Roadworthy'
            BY <3>2 DEF UpdateAssignment, CanAssign, Assigned
        <3>3. ASSUME NEW target \in Statuses, TransitionTrip(t, target) PROVE Roadworthy'
            BY <3>3, TransitionsType DEF TransitionTrip, CanTransition, Transitioned
        <3>4. CASE ConfirmLoading(t)
            BY <3>4 DEF ConfirmLoading
        <3>5. ASSUME NEW s \in PreDispatch, CorrectLoading(t, s) PROVE Roadworthy'
            BY <3>5 DEF CorrectLoading
        <3>6. CASE FinalDispatch(t)
            BY <3>6 DEF FinalDispatch, CanDispatch
        <3>7. CASE GpsInTransit(t) \/ ConfirmArrival(t)
            BY <3>7 DEF GpsInTransit, ConfirmArrival
        <3>8. ASSUME NEW complete \in BOOLEAN, RecordDelivery(t, complete) \/ AcceptDelivery(t, complete)
              PROVE  Roadworthy'
            BY <3>8 DEF RecordDelivery, AcceptDelivery
        <3>9. QED
            BY <2>1, <3>1, <3>2, <3>3, <3>4, <3>5, <3>6, <3>7, <3>8 DEF TripStep
    <2>2. ASSUME NEW v \in Vehicles, NEW s \in VehicleStates, UpdateVehicleState(v, s) PROVE Roadworthy'
        BY <2>2 DEF UpdateVehicleState, CanSetState, TypeOK, Roadworthy
    <2>3. ASSUME NEW v \in Vehicles, NEW active \in BOOLEAN, UpdateVehicle(v, active) PROVE Roadworthy'
        BY <2>3 DEF UpdateVehicle, CanSetActive, StateFor, TypeOK, Roadworthy
    <2>4. CASE UNCHANGED vars
        BY <2>4 DEF vars, Roadworthy
    <2>5. QED
        BY <2>1, <2>2, <2>3, <2>4 DEF Next, VehicleStep
<1>3. QED
    BY <1>1, <1>2, TypeCorrect, PTL DEF Spec

\* Out of a departed status the table leads to departed ones, but for the cancellation
\* of a delivery exception.
LEMMA TransitionsStayOut ==
    ASSUME NEW s \in Departed, NEW r \in Transitions(s)
    PROVE  r \in Departed \/ (s = "delivery_exception" /\ r = "cancelled")
BY Zenon DEF Transitions, Departed

\* Where each command is one step, none takes a trip that has departed back to the yard or
\* gives it another vehicle or driver: the table of transitions has no such way.
THEOREM NoWayBack == Spec => DepartedStaysDeparted
<1> DEFINE Out(t) ==
        status[t] \in Departed =>
            /\ status'[t] \in Departed \/ (status[t] = "delivery_exception" /\ status'[t] = "cancelled")
            /\ vehicle'[t] = vehicle[t] /\ driver'[t] = driver[t]
<1>1. TypeOK /\ [Next]_vars => [\A t \in Trips : Out(t)]_vars
    <2> SUFFICES ASSUME TypeOK, Next, NEW u \in Trips PROVE Out(u)
        OBVIOUS
    <2>1. ASSUME NEW t \in Trips, TripStep(t) PROVE Out(u)
        <3> USE DEF TypeOK, SetStatus, Departed
        <3>1. ASSUME NEW v \in Vehicles, NEW d \in Drivers \cup {None}, NEW s,
                     CreateTrip(t, v, d, s)
              PROVE  Out(u)
            BY <3>1 DEF CreateTrip, CanCreate, Created
        <3>2. ASSUME NEW v \in Vehicles \cup {None}, NEW d \in Drivers \cup {None},
                     UpdateAssignment(t, v, d)
              PROVE  Out(u)
            BY <3>2 DEF UpdateAssignment, CanAssign, Assigned
        <3>3. ASSUME NEW target \in Statuses, TransitionTrip(t, target) PROVE Out(u)
            <4>1. target \in Transitions(status[t]) /\ Transitioned(t, target)
                BY <3>3 DEF TransitionTrip, CanTransition
            <4>2. QED
                BY <4>1, TransitionsStayOut DEF Transitioned
        <3>4. CASE ConfirmLoading(t)
            BY <3>4 DEF ConfirmLoading
        <3>5. ASSUME NEW s \in PreDispatch, CorrectLoading(t, s) PROVE Out(u)
            BY <3>5 DEF CorrectLoading
        <3>6. CASE FinalDispatch(t)
            BY <3>6 DEF FinalDispatch
        <3>7. CASE GpsInTransit(t) \/ ConfirmArrival(t)
            BY <3>7 DEF GpsInTransit, ConfirmArrival
        <3>8. ASSUME NEW complete \in BOOLEAN, RecordDelivery(t, complete) \/ AcceptDelivery(t, complete)
              PROVE  Out(u)
            BY <3>8 DEF RecordDelivery, AcceptDelivery
        <3>9. QED
            BY <2>1, <3>1, <3>2, <3>3, <3>4, <3>5, <3>6, <3>7, <3>8 DEF TripStep
    <2>2. ASSUME NEW v \in Vehicles, VehicleStep(v) PROVE Out(u)
        BY <2>2 DEF VehicleStep, UpdateVehicleState, UpdateVehicle
    <2>3. QED
        BY <2>1, <2>2 DEF Next
<1>2. QED
    BY TypeCorrect, <1>1, PTL DEF Spec, DepartedStaysDeparted

-----------------------------------------------------------------------------
(* The transactions: commands that interleave.                             *)

\* The columns, and the commands between check and commit, are well formed.
LEMMA TxTypeStep == TxTypeOK /\ [TxNext]_txvars => TxTypeOK'
<1> SUFFICES ASSUME TxTypeOK, [TxNext]_txvars PROVE TxTypeOK'
    OBVIOUS
<1> USE DEF TxTypeOK, TypeOK, SetStatus
<1>0. NoCommand \in Commands
    BY DEF NoCommand, Commands
<1>1. ASSUME NEW t \in Trips, NEW c \in Commands, Begin(t, c) PROVE TxTypeOK'
    BY <1>1 DEF Begin, vars
<1>2. ASSUME NEW t \in Trips, Commit(t) PROVE TxTypeOK'
    <2>1. open[t].v \in Vehicles \cup {None} /\ open[t].d \in Drivers \cup {None}
        BY DEF Commands
    <2>2. open' \in [Trips -> Commands] /\ fleet' = fleet /\ seen' = seen
        BY <1>0, <1>2 DEF Commit
    <2>3. TypeOK'
        BY <1>2, <2>1 DEF Commit, Created, Assigned, Transitioned
    <2>4. QED
        BY <2>2, <2>3
<1>3. ASSUME NEW t \in Trips, Rollback(t) PROVE TxTypeOK'
    BY <1>0, <1>3 DEF Rollback, vars
<1>4. ASSUME NEW t \in Trips, OwnRow(t) PROVE TxTypeOK'
    <2>1. ASSUME NEW target \in Statuses, TransitionTrip(t, target) PROVE TypeOK'
        BY <2>1 DEF TransitionTrip, Transitioned
    <2>3. ASSUME ConfirmLoading(t) \/ GpsInTransit(t) \/ ConfirmArrival(t) PROVE TypeOK'
        BY <2>3 DEF ConfirmLoading, GpsInTransit, ConfirmArrival
    <2>4. ASSUME NEW b \in BOOLEAN, RecordDelivery(t, b) \/ AcceptDelivery(t, b) PROVE TypeOK'
        BY <2>4 DEF RecordDelivery, AcceptDelivery
    <2>5. TypeOK'
        BY <1>4, <2>1, <2>3, <2>4 DEF OwnRow
    <2>6. QED
        BY <1>4, <2>5 DEF OwnRow
<1>5. ASSUME NEW v \in Vehicles, BeginFleet(v) \/ CommitFleet(v) PROVE TxTypeOK'
    BY <1>5 DEF BeginFleet, CommitFleet, vars
<1>6. ASSUME NEW t \in Trips, CommitCorrection(t) PROVE TxTypeOK'
    <2>1. PICK s \in PreDispatch : SetStatus(t, IF s = seen[t] THEN status[t] ELSE s)
        BY <1>6 DEF CommitCorrection
    <2>2. TypeOK'
        BY <1>6, <2>1 DEF CommitCorrection
    <2>3. QED
        BY <1>6, <2>2 DEF CommitCorrection
<1>7. ASSUME NEW t \in Trips, ReadForCorrection(t) \/ AbandonCorrection(t) PROVE TxTypeOK'
    BY <1>7 DEF ReadForCorrection, AbandonCorrection, vars
<1>8. CASE UNCHANGED txvars
    BY <1>8 DEF txvars, vars
<1>9. QED
    BY <1>1, <1>2, <1>3, <1>4, <1>5, <1>6, <1>7, <1>8 DEF TxNext

\* What TxTypeOK says holds of every run, whatever is interleaved.
THEOREM TxTypeCorrect == TxSpec => []TxTypeOK
<1>1. TxInit => TxTypeOK
    BY DEF TxInit, Init, TxTypeOK, TypeOK, NoCommand, Commands
<1>2. QED
    BY <1>1, TxTypeStep, PTL DEF TxSpec

-----------------------------------------------------------------------------
(* The inductive invariant: what a locked trip still looks like when its   *)
(* command commits, and which trips may come back to the road unchecked.   *)

LockedRows ==
    \A t \in Trips :
        /\ open[t].op \in {"create", "plan"} => status[t] = "none"
        /\ open[t].op = "assign" => status[t] \in {"draft", "planned"}
        /\ open[t].op = "loading" => status[t] = "planned"
        /\ open[t].op = "dispatch" => status[t] = "loaded"

ExceptionResumed == \A t \in Trips : status[t] = "delivery_exception" => t \in resumed

RoadInv == TxTypeOK /\ LockedRows /\ ExceptionResumed /\ DispatchCheckHolds /\ ExclusiveOnRoad

\* A check that lets a dispatch begin excludes every other trip on the road, and
\* every other dispatch, with its vehicle or its driver.
LEMMA DispatchChecked ==
    ASSUME RoadInv, NEW t \in Trips, CanDispatch(t), NEW u \in Trips \ {t},
           vehicle[u] = vehicle[t] \/ driver[u] = driver[t]
    PROVE  status[u] \notin OnRoad /\ open[u].op # "dispatch"
BY DEF RoadInv, LockedRows, CanDispatch, VehicleTaken, DriverTaken

\* A step of handler code on the trip's own row alone neither changes who holds a
\* vehicle nor puts a trip on the road, but out of delivery_exception.
LEMMA OwnRowStep ==
    ASSUME RoadInv, NEW t \in Trips, OwnRow(t)
    PROVE  /\ UNCHANGED <<vehicle, driver, open, fleet>>
           /\ Unlocked(t)
           /\ \A u \in Trips \ {t} : status'[u] = status[u]
           /\ status'[t] \in OnRoad => status[t] \in OnRoad \/ t \in resumed
           /\ resumed \subseteq resumed'
           /\ status'[t] = "delivery_exception" => t \in resumed'
           /\ \A u \in Trips : u \in resumed' => u \in resumed \/ u = t
<1> USE DEF RoadInv, TxTypeOK, TypeOK, ExceptionResumed, SetStatus
<1>1. ASSUME NEW target \in Statuses \ {"loading"}, TransitionTrip(t, target)
      PROVE  /\ UNCHANGED <<vehicle, driver>>
             /\ \A u \in Trips \ {t} : status'[u] = status[u]
             /\ status'[t] \in OnRoad => status[t] \in OnRoad \/ t \in resumed
             /\ resumed \subseteq resumed'
             /\ status'[t] = "delivery_exception" => t \in resumed'
             /\ \A u \in Trips : u \in resumed' => u \in resumed \/ u = t
    BY <1>1, TransitionsType DEF TransitionTrip, CanTransition, Transitioned
<1>2. ASSUME \/ ConfirmLoading(t) \/ GpsInTransit(t) \/ ConfirmArrival(t)
             \/ \E b \in BOOLEAN : RecordDelivery(t, b) \/ AcceptDelivery(t, b)
      PROVE  /\ UNCHANGED <<vehicle, driver, resumed>>
             /\ \A u \in Trips \ {t} : status'[u] = status[u]
             /\ status'[t] \in OnRoad => status[t] \in OnRoad
             /\ status'[t] # "delivery_exception"
    BY <1>2 DEF ConfirmLoading, GpsInTransit, ConfirmArrival, RecordDelivery, AcceptDelivery
<1>3. QED
    BY <1>1, <1>2 DEF OwnRow

LEMMA RoadInvInit == TxInit => RoadInv
<1>1. TxInit => TxTypeOK
    BY DEF TxInit, Init, TxTypeOK, TypeOK, NoCommand, Commands
<1>2. QED
    BY <1>1 DEF TxInit, Init, RoadInv, LockedRows, ExceptionResumed, DispatchCheckHolds, ExclusiveOnRoad,
                NoCommand

\* Beginning a command: the new one has just made its checks.
LEMMA RoadInvBegin ==
    ASSUME RoadInv, TxTypeOK', NEW t \in Trips, NEW c \in Commands, Begin(t, c)
    PROVE  RoadInv'
<1> USE DEF RoadInv, TxTypeOK, TypeOK, Begin, vars
<1>1. LockedRows' /\ ExceptionResumed' /\ ExclusiveOnRoad'
    BY TransitionsType
    DEF LockedRows, ExceptionResumed, ExclusiveOnRoad, Check, CanCreate, CanAssign, CanTransition, CanDispatch
<1>2. ASSUME c.op = "dispatch" PROVE CanDispatch(t)
    BY <1>2 DEF Check
<1>3. DispatchCheckHolds'
    <2> SUFFICES ASSUME NEW x \in Trips, NEW u \in Trips, x # u, open'[x].op = "dispatch"
                 PROVE  /\ status[x] = "loaded" /\ vehicle[x] # None /\ driver[x] # None
                        /\ vehicle[u] = vehicle[x] \/ driver[u] = driver[x] =>
                             (status[u] \in OnRoad => u \in resumed) /\ open'[u].op # "dispatch"
        BY DEF DispatchCheckHolds
    <2>1. CASE x = t
        BY <2>1, <1>2, DispatchChecked DEF CanDispatch
    <2>2. CASE u = t
        <3>1. open[x].op = "dispatch" /\ x # t
            BY <2>2
        <3>2. status[x] = "loaded" /\ vehicle[x] # None /\ driver[x] # None
              /\ (vehicle[u] = vehicle[x] \/ driver[u] = driver[x] => (status[u] \in OnRoad => u \in resumed))
            BY <3>1 DEF DispatchCheckHolds
        <3>3. c.op = "dispatch" => ~(vehicle[x] = vehicle[t] \/ driver[x] = driver[t])
            BY <1>2, <3>1, DispatchChecked
        <3>4. QED
            BY <2>2, <3>2, <3>3
    <2>3. CASE x # t /\ u # t
        BY <2>3 DEF DispatchCheckHolds
    <2>4. QED
        BY <2>1, <2>2, <2>3
<1>4. QED
    BY <1>1, <1>3

\* Committing: the locked row is still what the checks saw.
LEMMA RoadInvCommit ==
    ASSUME RoadInv, TxTypeOK', NEW t \in Trips, Commit(t)
    PROVE  RoadInv'
<1> USE DEF RoadInv, TxTypeOK, TypeOK, SetStatus
<1>1. /\ \A x \in Trips \ {t} : UNCHANGED <<status[x], vehicle[x], driver[x], open[x]>>
      /\ open'[t].op = "none" /\ resumed' = resumed
    BY DEF Commit, Created, Assigned, Transitioned, NoCommand
<1>2. CASE open[t].op = "dispatch"
    <2>1. status'[t] = "dispatched" /\ UNCHANGED <<vehicle, driver>>
        BY <1>2 DEF Commit
    <2>2. LockedRows' /\ ExceptionResumed' /\ ExclusiveOnRoad'
        BY <1>1, <1>2, <2>1 DEF LockedRows, ExceptionResumed, ExclusiveOnRoad, DispatchCheckHolds
    <2>3. DispatchCheckHolds'
        BY <1>1, <1>2, <2>1 DEF DispatchCheckHolds
    <2>4. QED
        BY <2>2, <2>3
<1>3. CASE open[t].op # "dispatch"
    <2>1. status'[t] \notin OnRoad \cup {"delivery_exception"}
        BY <1>3 DEF Commit, Created, Assigned, Transitioned, LockedRows
    <2>2. LockedRows' /\ ExceptionResumed' /\ ExclusiveOnRoad' /\ DispatchCheckHolds'
        BY <1>1, <2>1 DEF LockedRows, ExceptionResumed, ExclusiveOnRoad, DispatchCheckHolds
    <2>3. QED
        BY <2>2
<1>4. QED
    BY <1>2, <1>3

\* Rolling back, the reads of a correction, and the vehicle's own handlers, touch no trip.
LEMMA RoadInvOther ==
    ASSUME RoadInv, TxTypeOK',
           \/ \E t \in Trips : Rollback(t) \/ ReadForCorrection(t) \/ AbandonCorrection(t)
           \/ \E v \in Vehicles : BeginFleet(v) \/ CommitFleet(v)
           \/ UNCHANGED txvars
    PROVE  RoadInv'
<1>1. /\ UNCHANGED <<status, vehicle, driver, resumed>>
      /\ \A x \in Trips : open'[x].op \in {open[x].op, "none"}
    BY DEF RoadInv, TxTypeOK, Rollback, ReadForCorrection, AbandonCorrection, BeginFleet, CommitFleet,
           txvars, vars, NoCommand
<1>2. QED
    BY <1>1 DEF RoadInv, LockedRows, ExceptionResumed, ExclusiveOnRoad, DispatchCheckHolds

\* A handler that looks at its own row only.
LEMMA RoadInvOwnRow ==
    ASSUME RoadInv, TxTypeOK', NEW t \in Trips, OwnRow(t)
    PROVE  RoadInv'
<1> USE DEF RoadInv, Unlocked, NoCommand
<1>1. LockedRows' /\ ExceptionResumed'
    BY OwnRowStep DEF LockedRows, ExceptionResumed
<1>2. ExclusiveOnRoad' /\ DispatchCheckHolds'
    BY OwnRowStep DEF ExclusiveOnRoad, DispatchCheckHolds
<1>3. QED
    BY <1>1, <1>2

\* A correction, whatever it has seen, leaves its trip where it is or takes it off
\* the road: it waits for the commands that have the row.
LEMMA RoadInvCorrection ==
    ASSUME RoadInv, TxTypeOK', NEW t \in Trips, CommitCorrection(t)
    PROVE  RoadInv'
<1> USE DEF RoadInv, TxTypeOK, TypeOK, SetStatus
<1>1. PICK s \in PreDispatch : SetStatus(t, IF s = seen[t] THEN status[t] ELSE s)
    BY DEF CommitCorrection
<1>2. /\ UNCHANGED <<vehicle, driver, resumed, open>> /\ open[t].op = "none"
      /\ \A x \in Trips \ {t} : status'[x] = status[x]
      /\ status'[t] = status[t] \/ status'[t] \in PreDispatch
    BY <1>1 DEF CommitCorrection, Unlocked, NoCommand
<1>3. LockedRows' /\ ExceptionResumed' /\ ExclusiveOnRoad' /\ DispatchCheckHolds'
    BY <1>2 DEF LockedRows, ExceptionResumed, ExclusiveOnRoad, DispatchCheckHolds
<1>4. QED
    BY <1>3

LEMMA RoadInvStep == RoadInv /\ [TxNext]_txvars => RoadInv'
<1> SUFFICES ASSUME RoadInv, [TxNext]_txvars PROVE RoadInv'
    OBVIOUS
<1>1. TxTypeOK'
    BY TxTypeStep DEF RoadInv
<1>2. QED
    BY <1>1, RoadInvBegin, RoadInvCommit, RoadInvOther, RoadInvOwnRow, RoadInvCorrection DEF TxNext

\* However the handlers interleave, no two trips that were never in
\* delivery_exception are on the road with one vehicle or one driver.
THEOREM RoadExclusive == TxSpec => []ExclusiveOnRoad
<1>1. RoadInv => ExclusiveOnRoad
    BY DEF RoadInv
<1>2. QED
    BY <1>1, RoadInvInit, RoadInvStep, PTL DEF TxSpec

\* What a dispatch has checked in rows it does not lock holds until it commits.
THEOREM DispatchSafe == TxSpec => []DispatchCheckHolds
<1>1. RoadInv => DispatchCheckHolds
    BY DEF RoadInv
<1>2. QED
    BY <1>1, RoadInvInit, RoadInvStep, PTL DEF TxSpec

\* Both at once: what is on the road with a vehicle or a driver is so alone, and no dispatch under
\* way is about to change that.
THEOREM RoadHeld == TxSpec => []RoadHolds
<1>1. ExclusiveOnRoad /\ DispatchCheckHolds => RoadHolds
    BY DEF RoadHolds
<1>2. QED
    BY <1>1, RoadExclusive, DispatchSafe, PTL

-----------------------------------------------------------------------------
(* Driver tasks: a task is delivered as often as it is picked up, and is   *)
(* left as its last command left it, but for overlapping commands.         *)

Users == Crew \cup {Guest, Nobody}
Errands == [state : OfficeStates \cup {"absent", "active"}, vehicle : BOOLEAN, driver : Crew \cup {Nobody},
            holder : Users, tracking : BOOLEAN]
CrewStates == {"active", "inactive", "on_trip"}
VisitOps == {"start", "stop", "pickup", "deliver"}
Visits == [op : VisitOps, t : Tasks, driver : Crew \cup {Nobody}, seen : Errands,
           status : CrewStates \cup {"none"}, delivered : Nat]

\* What the session writes is a row again, and one attribute does not look at another.
LEMMA ChangedIs ==
    ASSUME NEW old \in Errands, NEW becomes \in Errands, NEW now \in Errands
    PROVE  /\ Changed(old, becomes, now) \in Errands
           /\ Changed(old, becomes, now).state = IF becomes.state = old.state THEN now.state ELSE becomes.state
           /\ Changed(old, becomes, now).tracking = IF becomes.tracking = old.tracking THEN now.tracking ELSE becomes.tracking
           /\ old = now => Changed(old, becomes, now) = becomes
<1>1. DOMAIN now = {"state", "vehicle", "driver", "holder", "tracking"}
    BY DEF Errands
<1>2. Changed(old, becomes, now) =
        [state |-> IF becomes.state = old.state THEN now.state ELSE becomes.state,
         vehicle |-> IF becomes.vehicle = old.vehicle THEN now.vehicle ELSE becomes.vehicle,
         driver |-> IF becomes.driver = old.driver THEN now.driver ELSE becomes.driver,
         holder |-> IF becomes.holder = old.holder THEN now.holder ELSE becomes.holder,
         tracking |-> IF becomes.tracking = old.tracking THEN now.tracking ELSE becomes.tracking]
    BY <1>1 DEF Changed
<1>3. Changed(old, becomes, now) \in Errands
    BY <1>2 DEF Errands
<1>4. old = now => Changed(old, becomes, now) = becomes
    BY <1>2 DEF Errands
<1>5. QED
    BY <1>2, <1>3, <1>4

RowsOfErrands ==
    /\ errand \in [Tasks -> Errands]
    /\ crew \in [Crew -> CrewStates]
    /\ journal \in [Tasks -> [pickups : Nat, deliveries : Nat]]
    /\ \A k \in Desks : visit[k] # NoVisit => visit[k] \in Visits
    /\ \A t \in Tasks : ~Booked(t) => ~errand[t].tracking

\* What a handler has read, it read when it was so.
VisitsOK == \A k \in Desks : visit[k] # NoVisit =>
    LET v == visit[k]
    IN /\ v.seen.state # "absent" /\ Booked(v.t)
       /\ v.driver = IF v.op \in {"start", "stop"} THEN v.seen.driver ELSE DriverOf(v.seen.holder)
       /\ v.op = "deliver" => v.seen.state = "picked_up"
       /\ v.op = "pickup" => v.seen.state = "assigned"

\* A task that is picked up has a pickup ahead of its deliveries, and so has one whose
\* delivery was read and is still the next.
Tallied(t) ==
    /\ journal[t].deliveries <= journal[t].pickups
    /\ errand[t].state = "picked_up" => journal[t].deliveries < journal[t].pickups
    /\ \A k \in Desks : visit[k] # NoVisit /\ visit[k].op = "deliver" /\ visit[k].t = t =>
          /\ visit[k].delivered <= journal[t].deliveries
          /\ visit[k].delivered = journal[t].deliveries => journal[t].deliveries < journal[t].pickups

TallyOK == \A t \in Tasks : t \notin steered \cup resent => Tallied(t)

ErrandInv == RowsOfErrands /\ VisitsOK /\ visit \in [Desks -> Visits \cup {NoVisit}] /\ TallyOK

LEMMA ErrandsStart == ErrandsInit => ErrandInv
<1> SUFFICES ASSUME ErrandsInit PROVE ErrandInv
    OBVIOUS
<1>1. \A t \in Tasks : errand[t] = NoErrand /\ journal[t] = [pickups |-> 0, deliveries |-> 0]
    BY DEF ErrandsInit
<1>2. NoErrand \in Errands /\ NoErrand.state = "absent" /\ ~NoErrand.tracking
    BY DEF NoErrand, Errands, Users
<1>3. visit \in [Desks -> Visits \cup {NoVisit}] /\ \A k \in Desks : visit[k] = NoVisit
    BY DEF ErrandsInit
<1>4. RowsOfErrands
    BY <1>1, <1>2, <1>3 DEF ErrandsInit, RowsOfErrands, Booked, CrewStates
<1>5. VisitsOK /\ TallyOK
    BY <1>1, <1>2, <1>3 DEF VisitsOK, TallyOK, Tallied
<1>6. QED
    BY <1>3, <1>4, <1>5 DEF ErrandInv

\* The office.
LEMMA CreateKeeps ==
    ASSUME ErrandInv, NEW t \in Tasks, CreateErrand(t) \/ EditErrand(t)
    PROVE  ErrandInv'
<1>1. PICK row \in Errands :
        /\ errand' = [errand EXCEPT ![t] = row] /\ row.state # "absent" /\ row.tracking = errand[t].tracking
        /\ row.state = errand[t].state \/ row.state = "assigned" \/ t \in steered'
        /\ steered \subseteq steered' /\ UNCHANGED <<crew, visit, journal, resent>>
    <2>1. errand[t] \in Errands /\ errand \in [Tasks -> Errands] /\ (~Booked(t) => ~errand[t].tracking)
        BY DEF ErrandInv, RowsOfErrands
    <2>2. CASE CreateErrand(t)
        <3>1. PICK s \in OfficeStates, v \in BOOLEAN, d \in Crew \cup {Nobody}, h \in Users :
                /\ errand' = [errand EXCEPT ![t] = [state |-> s, vehicle |-> v, driver |-> d, holder |-> h, tracking |-> FALSE]]
                /\ steered' = IF s = "assigned" THEN steered ELSE steered \cup {t}
            BY <2>2 DEF CreateErrand, Users
        <3>2. [state |-> s, vehicle |-> v, driver |-> d, holder |-> h, tracking |-> FALSE] \in Errands
            BY DEF Errands
        <3> DEFINE row == [state |-> s, vehicle |-> v, driver |-> d, holder |-> h, tracking |-> FALSE]
        <3>3. /\ row.state # "absent" /\ row.tracking = errand[t].tracking
              /\ row.state = "assigned" \/ t \in steered'
            BY <2>1, <2>2, <3>1 DEF CreateErrand, OfficeStates, Errands
        <3>4. steered \subseteq steered' /\ UNCHANGED <<crew, visit, journal, resent>>
            BY <2>2, <3>1 DEF CreateErrand
        <3>5. row \in Errands /\ errand' = [errand EXCEPT ![t] = row]
            BY <3>1, <3>2
        <3> HIDE DEF row
        <3>6. QED
            BY <3>3, <3>4, <3>5
    <2>3. CASE EditErrand(t)
        <3> DEFINE e == errand[t]
        <3>1. ASSUME NEW s \in OfficeStates, errand' = [errand EXCEPT ![t].state = s], steered' = steered \cup {t}
              PROVE  \E row \in Errands : /\ errand' = [errand EXCEPT ![t] = row] /\ row.state # "absent" /\ row.tracking = e.tracking
                                          /\ t \in steered'
            <4>1. [e EXCEPT !.state = s] \in Errands /\ [e EXCEPT !.state = s].tracking = e.tracking /\ [e EXCEPT !.state = s].state = s
                BY <2>1 DEF Errands
            <4>2. QED
                BY <3>1, <4>1 DEF OfficeStates
        <3>2. ASSUME NEW row \in Errands, errand' = [errand EXCEPT ![t] = row], row.state = e.state, row.tracking = e.tracking
              PROVE  \E r \in Errands : /\ errand' = [errand EXCEPT ![t] = r] /\ r.state # "absent" /\ r.tracking = e.tracking
                                        /\ r.state = e.state
            BY <2>3, <3>2 DEF EditErrand, Booked
        <3>3. ASSUME NEW v \in BOOLEAN PROVE [e EXCEPT !.vehicle = v] \in Errands /\ [e EXCEPT !.vehicle = v].state = e.state /\ [e EXCEPT !.vehicle = v].tracking = e.tracking
            BY <2>1 DEF Errands
        <3>4. ASSUME NEW d \in Crew \cup {Nobody} PROVE [e EXCEPT !.driver = d] \in Errands /\ [e EXCEPT !.driver = d].state = e.state /\ [e EXCEPT !.driver = d].tracking = e.tracking
            BY <2>1 DEF Errands
        <3>5. ASSUME NEW h \in Users PROVE [e EXCEPT !.holder = h] \in Errands /\ [e EXCEPT !.holder = h].state = e.state /\ [e EXCEPT !.holder = h].tracking = e.tracking
            BY <2>1 DEF Errands
        <3>6. \/ \E s \in OfficeStates : errand' = [errand EXCEPT ![t].state = s] /\ steered' = steered \cup {t}
              \/ (\E v \in BOOLEAN : errand' = [errand EXCEPT ![t].vehicle = v]) /\ steered' = steered
              \/ (\E d \in Crew \cup {Nobody} : errand' = [errand EXCEPT ![t].driver = d]) /\ steered' = steered
              \/ (\E h \in Users : errand' = [errand EXCEPT ![t].holder = h]) /\ steered' = steered
            BY <2>3 DEF EditErrand, Users
        <3>7. UNCHANGED <<crew, visit, journal, resent>>
            BY <2>3 DEF EditErrand
        <3>8. CASE \E s \in OfficeStates : errand' = [errand EXCEPT ![t].state = s] /\ steered' = steered \cup {t}
            <4>1. \E row \in Errands : errand' = [errand EXCEPT ![t] = row] /\ row.state # "absent" /\ row.tracking = e.tracking /\ t \in steered'
                BY <3>1, <3>8
            <4>2. steered \subseteq steered'
                BY <3>8
            <4>3. QED
                BY <3>7, <4>1, <4>2
        <3>9. CASE steered' = steered /\ \E row \in Errands : errand' = [errand EXCEPT ![t] = row] /\ row.state = e.state /\ row.tracking = e.tracking
            <4>1. \E r \in Errands : errand' = [errand EXCEPT ![t] = r] /\ r.state # "absent" /\ r.tracking = e.tracking /\ r.state = e.state
                BY <3>2, <3>9
            <4>2. QED
                BY <3>7, <3>9, <4>1
        <3>10. QED
            BY <3>3, <3>4, <3>5, <3>6, <3>8, <3>9
    <2>4. QED
        BY <2>2, <2>3
<1>2. errand' \in [Tasks -> Errands] /\ errand'[t] = row /\ \A u \in Tasks \ {t} : errand'[u] = errand[u]
    BY <1>1 DEF ErrandInv, RowsOfErrands
<1>3. RowsOfErrands'
    BY <1>1, <1>2 DEF ErrandInv, RowsOfErrands, Booked
<1>4. VisitsOK'
    BY <1>1, <1>2 DEF ErrandInv, VisitsOK, Booked, RowsOfErrands, Visits
<1>5. TallyOK'
    BY <1>1, <1>2 DEF ErrandInv, TallyOK, Tallied
<1>6. QED
    BY <1>1, <1>3, <1>4, <1>5 DEF ErrandInv

LEMMA ReportKeeps ==
    ASSUME ErrandInv, NEW d \in Crew, Report(d)
    PROVE  ErrandInv'
<1>1. crew' = [crew EXCEPT ![d] = "on_trip"] /\ UNCHANGED <<errand, visit, journal, steered, resent>>
    BY DEF Report
<1>2. RowsOfErrands'
    BY <1>1 DEF ErrandInv, RowsOfErrands, Booked, CrewStates
<1>3. VisitsOK' /\ TallyOK'
    BY <1>1 DEF ErrandInv, VisitsOK, TallyOK, Tallied, Booked
<1>4. QED
    BY <1>1, <1>2, <1>3 DEF ErrandInv

\* A handler reads.
LEMMA AskKeeps ==
    ASSUME ErrandInv, NEW k \in Desks, NEW t \in Tasks,
           AskStart(k, t) \/ AskStop(k, t) \/ AskPickup(k, t) \/ AskDeliver(k, t)
    PROVE  ErrandInv'
<1>1. PICK op \in VisitOps, d \in Crew \cup {Nobody} :
        /\ Ask(k, t, op, d)
        /\ d = IF op \in {"start", "stop"} THEN errand[t].driver ELSE DriverOf(errand[t].holder)
        /\ op = "deliver" => errand[t].state = "picked_up"
        /\ op = "pickup" => errand[t].state = "assigned"
    <2>1. errand[t].driver \in Crew \cup {Nobody} /\ DriverOf(errand[t].holder) \in Crew \cup {Nobody}
        BY DEF ErrandInv, RowsOfErrands, Errands, DriverOf
    <2>2. QED
        BY <2>1 DEF AskStart, AskStop, AskPickup, AskDeliver, Collectable, Deliverable, VisitOps
<1> DEFINE v == [op |-> op, t |-> t, driver |-> d, seen |-> errand[t],
                 status |-> IF d = Nobody THEN "none" ELSE crew[d],
                 delivered |-> journal[t].deliveries]
<1>2. /\ visit' = [visit EXCEPT ![k] = v] /\ Booked(t)
      /\ UNCHANGED <<errand, crew, journal, steered, resent>>
    BY <1>1 DEF Ask
<1>3. v \in Visits
    BY DEF Visits, ErrandInv, RowsOfErrands
<1>4. /\ v.op = op /\ v.t = t /\ v.driver = d /\ v.seen = errand[t] /\ v.delivered = journal[t].deliveries
    OBVIOUS
<1> HIDE DEF v
<1>5. visit' \in [Desks -> Visits \cup {NoVisit}] /\ visit'[k] = v /\ \A j \in Desks \ {k} : visit'[j] = visit[j]
    BY <1>2, <1>3 DEF ErrandInv
<1>6. RowsOfErrands'
    BY <1>2, <1>3, <1>5 DEF ErrandInv, RowsOfErrands, Booked
<1>7. VisitsOK'
    BY <1>1, <1>2, <1>4, <1>5 DEF ErrandInv, VisitsOK, Booked
<1>8. TallyOK'
    <2> SUFFICES ASSUME NEW u \in Tasks, u \notin steered' \cup resent' PROVE Tallied(u)'
        BY DEF TallyOK
    <2>1. Tallied(u) /\ journal[u] \in [pickups : Nat, deliveries : Nat]
        BY <1>2 DEF ErrandInv, TallyOK, RowsOfErrands
    <2>2. QED
        BY <1>1, <1>2, <1>4, <1>5, <2>1 DEF Tallied
<1>9. QED
    BY <1>5, <1>6, <1>7, <1>8 DEF ErrandInv

LEMMA GiveUpKeeps ==
    ASSUME ErrandInv, NEW k \in Desks, GiveUp(k)
    PROVE  ErrandInv'
<1>1. /\ visit' = [visit EXCEPT ![k] = NoVisit] /\ UNCHANGED <<errand, crew, journal, steered, resent>>
    BY DEF GiveUp
<1>2. visit' \in [Desks -> Visits \cup {NoVisit}] /\ \A j \in Desks : visit'[j] = NoVisit \/ visit'[j] = visit[j]
    BY <1>1 DEF ErrandInv
<1>3. RowsOfErrands'
    BY <1>1, <1>2 DEF ErrandInv, RowsOfErrands, Booked
<1>4. VisitsOK' /\ TallyOK'
    BY <1>1, <1>2 DEF ErrandInv, VisitsOK, TallyOK, Tallied, Booked
<1>5. QED
    BY <1>2, <1>3, <1>4 DEF ErrandInv

\* A handler writes what it has changed of the row that it read.
LEMMA AnswerIs ==
    ASSUME ErrandInv, NEW k \in Desks, visit[k].op \in VisitOps,
           NEW becomes \in Errands, Answer(k, visit[k], becomes), becomes.state # "absent"
    PROVE  /\ visit[k] \in Visits /\ visit[k] # NoVisit /\ visit[k].t \in Tasks /\ steered' = steered
           /\ visit' \in [Desks -> Visits \cup {NoVisit}] /\ visit'[k] = NoVisit
           /\ \A j \in Desks \ {k} : visit'[j] = visit[j]
           /\ errand' \in [Tasks -> Errands] /\ \A t \in Tasks \ {visit[k].t} : errand'[t] = errand[t]
           /\ errand'[visit[k].t] = Changed(visit[k].seen, becomes, errand[visit[k].t])
           /\ VisitsOK'
           /\ \A t \in Tasks : errand'[t].state = "absent" => ~errand'[t].tracking
<1> DEFINE v == visit[k]
<1>1. v # NoVisit /\ v \in Visits /\ v.t \in Tasks /\ v.seen \in Errands
    BY DEF NoVisit, VisitOps, ErrandInv, RowsOfErrands, Visits
<1>2. /\ errand' = [errand EXCEPT ![v.t] = Changed(v.seen, becomes, @)]
      /\ visit' = [visit EXCEPT ![k] = NoVisit] /\ steered' = steered
    BY DEF Answer
<1>3. errand \in [Tasks -> Errands] /\ visit \in [Desks -> Visits \cup {NoVisit}] /\ VisitsOK
    BY DEF ErrandInv, RowsOfErrands
<1>4. Booked(v.t) /\ v.seen.state # "absent"
    BY <1>1, <1>3 DEF VisitsOK
<1> DEFINE new == Changed(v.seen, becomes, errand[v.t])
<1>5. /\ new \in Errands
      /\ new.state = IF becomes.state = v.seen.state THEN errand[v.t].state ELSE becomes.state
    BY <1>1, <1>3, ChangedIs
<1> HIDE DEF v, new
<1>6. errand' \in [Tasks -> Errands] /\ errand'[v.t] = new /\ \A t \in Tasks \ {v.t} : errand'[t] = errand[t]
    BY <1>1, <1>2, <1>3, <1>5 DEF new
<1>7. new.state # "absent"
    BY <1>4, <1>5 DEF Booked
<1>8. visit' \in [Desks -> Visits \cup {NoVisit}] /\ visit'[k] = NoVisit /\ \A j \in Desks \ {k} : visit'[j] = visit[j]
    BY <1>2, <1>3
<1>9. \A t \in Tasks : Booked(t) => Booked(t)'
    BY <1>6, <1>7 DEF Booked
<1>10. VisitsOK'
    <2> SUFFICES ASSUME NEW j \in Desks, visit'[j] # NoVisit
                 PROVE  visit'[j] = visit[j] /\ visit[j] # NoVisit /\ visit[j].t \in Tasks
        BY <1>3, <1>9 DEF VisitsOK, Booked
    <2>1. j # k
        BY <1>8
    <2>2. QED
        BY <1>8, <2>1, <1>3 DEF Visits
<1>11. \A t \in Tasks : errand'[t].state = "absent" => ~errand'[t].tracking
    BY <1>6, <1>7 DEF ErrandInv, RowsOfErrands, Booked
<1>12. QED
    BY <1>1, <1>2, <1>6, <1>8, <1>10, <1>11 DEF v, new

LEMMA BecomesIs ==
    ASSUME NEW e \in Errands, NEW s \in {"active", "picked_up"}
    PROVE  /\ Begun(e, s) \in Errands /\ Begun(e, s).state = s /\ Begun(e, s).tracking = TRUE
           /\ Begun(e, s).driver = e.driver /\ Begun(e, s).holder = e.holder
           /\ Ended(e) \in Errands /\ Ended(e).state = "completed" /\ Ended(e).tracking = FALSE
           /\ Ended(e).driver = e.driver /\ Ended(e).holder = e.holder
BY DEF Begun, Ended, Errands, OfficeStates

\* How each handler answers.
LEMMA AnswerKeeps ==
    ASSUME ErrandInv, NEW k \in Desks,
           AnswerStart(k) \/ AnswerStop(k) \/ AnswerPickup(k) \/ AnswerDeliver(k)
    PROVE  ErrandInv'
<1> DEFINE v == visit[k]
<1>1. v.op \in VisitOps
    BY DEF AnswerStart, AnswerStop, AnswerPickup, AnswerDeliver, VisitOps
<1>2. v # NoVisit /\ v \in Visits /\ v.seen \in Errands
    BY <1>1 DEF NoVisit, VisitOps, ErrandInv, RowsOfErrands, Visits
<1>3. PICK becomes \in Errands :
        /\ Answer(k, v, becomes)
        /\ becomes.state = CASE v.op = "start" -> "active" [] v.op = "pickup" -> "picked_up" [] OTHER -> "completed"
    <2>1. /\ Begun(v.seen, "active") \in Errands /\ Begun(v.seen, "active").state = "active"
          /\ Begun(v.seen, "picked_up") \in Errands /\ Begun(v.seen, "picked_up").state = "picked_up"
          /\ Ended(v.seen) \in Errands /\ Ended(v.seen).state = "completed"
        BY <1>2, BecomesIs
    <2>2. QED
        BY <2>1 DEF AnswerStart, AnswerStop, AnswerPickup, AnswerDeliver
<1>4. becomes.state # "absent"
    BY <1>3
<1>5. /\ visit' \in [Desks -> Visits \cup {NoVisit}] /\ v.t \in Tasks /\ steered' = steered /\ visit'[k] = NoVisit
      /\ \A j \in Desks \ {k} : visit'[j] = visit[j]
      /\ errand' \in [Tasks -> Errands] /\ \A t \in Tasks \ {v.t} : errand'[t] = errand[t]
      /\ errand'[v.t] = Changed(v.seen, becomes, errand[v.t])
      /\ VisitsOK'
      /\ \A t \in Tasks : errand'[t].state = "absent" => ~errand'[t].tracking
    BY <1>1, <1>3, <1>4, AnswerIs
<1>6. errand[v.t] \in Errands /\ crew \in [Crew -> CrewStates] /\ journal \in [Tasks -> [pickups : Nat, deliveries : Nat]]
    BY <1>5 DEF ErrandInv, RowsOfErrands
<1>7. errand'[v.t].state = IF becomes.state = v.seen.state THEN errand[v.t].state ELSE becomes.state
    BY <1>2, <1>5, <1>6, ChangedIs
<1>8. v.op = "deliver" => v.seen.state = "picked_up"
    BY <1>2 DEF ErrandInv, VisitsOK
<1>9. crew' \in [Crew -> CrewStates]
    <2>1. v.driver \in Crew \cup {Nobody} /\ v.status \in CrewStates \cup {"none"} /\ v.driver # Nobody => crew[v.driver] \in CrewStates
        BY <1>2, <1>6 DEF Visits
    <2>2. CASE AnswerDeliver(k)
        BY <1>6, <2>1, <2>2 DEF AnswerDeliver, Freed, CrewStates
    <2>3. CASE AnswerStart(k) \/ AnswerPickup(k)
        BY <1>6, <2>1, <2>3 DEF AnswerStart, AnswerPickup, SetCrew, CrewStates
    <2>4. CASE AnswerStop(k)
        BY <1>6, <2>1, <2>4 DEF AnswerStop, SetCrew, Freed, CrewStates
    <2>5. QED
        BY <2>2, <2>3, <2>4
<1> DEFINE j == journal[v.t]
<1>10. j.pickups \in Nat /\ j.deliveries \in Nat
    BY <1>5, <1>6
<1>11. /\ journal' \in [Tasks -> [pickups : Nat, deliveries : Nat]]
       /\ \A t \in Tasks \ {v.t} : journal'[t] = journal[t]
       /\ journal'[v.t].pickups = IF v.op = "pickup" THEN j.pickups + 1 ELSE j.pickups
       /\ journal'[v.t].deliveries = IF v.op = "deliver" THEN j.deliveries + 1 ELSE j.deliveries
    <2>1. CASE v.op \in {"start", "stop"}
        <3>1. journal' = journal
            BY <2>1 DEF AnswerStart, AnswerStop, AnswerPickup, AnswerDeliver
        <3>2. QED
            BY <1>6, <2>1, <3>1
    <2>2. CASE v.op = "pickup"
        <3>1. journal' = [journal EXCEPT ![v.t].pickups = j.pickups + 1]
            BY <2>2 DEF AnswerStart, AnswerStop, AnswerPickup, AnswerDeliver
        <3>2. QED
            BY <1>5, <1>6, <1>10, <2>2, <3>1
    <2>3. CASE v.op = "deliver"
        <3>1. journal' = [journal EXCEPT ![v.t].deliveries = j.deliveries + 1]
            BY <2>3 DEF AnswerStart, AnswerStop, AnswerPickup, AnswerDeliver
        <3>2. QED
            BY <1>5, <1>6, <1>10, <2>3, <3>1
    <2>4. QED
        BY <1>1, <2>1, <2>2, <2>3 DEF VisitOps
<1>12. resent \subseteq resent' /\ (v.op = "deliver" /\ v.delivered < j.deliveries => v.t \in resent')
    BY DEF AnswerStart, AnswerStop, AnswerPickup, AnswerDeliver
<1>13. RowsOfErrands'
    <2>1. \A i \in Desks : visit'[i] # NoVisit => visit'[i] \in Visits
        BY <1>5
    <2>2. QED
        BY <1>5, <1>9, <1>11, <2>1 DEF RowsOfErrands, Booked
<1>14. TallyOK'
    <2> SUFFICES ASSUME NEW t \in Tasks, t \notin steered' \cup resent' PROVE Tallied(t)'
        BY DEF TallyOK
    <2>1. Tallied(t) /\ journal[t].pickups \in Nat /\ journal[t].deliveries \in Nat
        BY <1>5, <1>6, <1>12 DEF ErrandInv, TallyOK
    <2>2. ASSUME NEW i \in Desks, visit'[i] # NoVisit
          PROVE  i # k /\ visit'[i] = visit[i] /\ visit[i] # NoVisit /\ visit[i].delivered \in Nat
        <3>1. i # k
            BY <1>5, <2>2
        <3>2. QED
            BY <1>5, <2>2, <3>1 DEF Visits, ErrandInv, RowsOfErrands
    <2>3. CASE t # v.t
        BY <1>5, <1>11, <2>1, <2>2, <2>3 DEF Tallied
    <2>4. CASE t = v.t
        <3> HIDE DEF v
        <3>1. v.op = "deliver" => v.delivered = j.deliveries /\ j.deliveries < j.pickups
            <4>1. v.op = "deliver" => v.delivered <= journal[t].deliveries /\ (v.delivered = journal[t].deliveries => journal[t].deliveries < journal[t].pickups)
                BY <1>2, <2>1, <2>4 DEF Tallied, v
            <4>2. v.delivered \in Nat /\ j = journal[t]
                BY <1>2, <2>4 DEF Visits
            <4>3. QED
                BY <1>10, <1>12, <2>4, <4>1, <4>2
        <3>2. /\ j.deliveries <= j.pickups /\ j = journal[t]
              /\ errand[t].state = "picked_up" => j.deliveries < j.pickups
            BY <2>1, <2>4 DEF Tallied
        <3>3. journal'[t].deliveries <= journal'[t].pickups /\ j.deliveries <= journal'[t].deliveries
            BY <1>10, <1>11, <2>4, <3>1, <3>2
        <3>4. errand'[t].state = "picked_up" => journal'[t].deliveries < journal'[t].pickups
            <4>1. CASE v.op = "pickup"
                BY <1>10, <1>11, <2>4, <3>2, <4>1
            <4>2. CASE v.op = "deliver"
                BY <1>3, <1>7, <1>8, <2>4, <4>2
            <4>3. CASE v.op \in {"start", "stop"}
                BY <1>3, <1>7, <1>10, <1>11, <2>4, <3>2, <4>3
            <4>4. QED
                BY <1>1, <4>1, <4>2, <4>3 DEF VisitOps
        <3>5. ASSUME NEW i \in Desks, visit'[i] # NoVisit, visit'[i].op = "deliver", visit'[i].t = t
              PROVE  /\ visit'[i].delivered <= journal'[t].deliveries
                     /\ visit'[i].delivered = journal'[t].deliveries => journal'[t].deliveries < journal'[t].pickups
            <4>1. i # k /\ visit'[i] = visit[i] /\ visit[i] # NoVisit /\ visit[i].delivered \in Nat
                BY <2>2, <3>5
            <4>2. /\ visit[i].delivered <= j.deliveries
                  /\ visit[i].delivered = j.deliveries => j.deliveries < j.pickups
                BY <2>1, <3>2, <3>5, <4>1 DEF Tallied
            <4>3. QED
                BY <1>10, <1>11, <2>4, <3>1, <3>2, <4>1, <4>2
        <3>6. QED
            BY <3>3, <3>4, <3>5 DEF Tallied
    <2>5. QED
        BY <2>3, <2>4
<1>15. QED
    BY <1>5, <1>13, <1>14 DEF ErrandInv

LEMMA ErrandsGoOn == ErrandInv /\ [ErrandsNext]_errandVars => ErrandInv'
<1> SUFFICES ASSUME ErrandInv, [ErrandsNext]_errandVars PROVE ErrandInv'
    OBVIOUS
<1>1. CASE UNCHANGED errandVars
    <2>1. UNCHANGED <<errand, crew, visit, journal, steered, resent>>
        BY <1>1 DEF errandVars
    <2>2. QED
        BY <2>1 DEF ErrandInv, RowsOfErrands, VisitsOK, TallyOK, Tallied, Booked
<1>2. QED
    BY <1>1, CreateKeeps, ReportKeeps, AskKeeps, GiveUpKeeps, AnswerKeeps DEF ErrandsNext

\* A handler that saw the task and its driver as they are, and but one driver, leaves nothing loose.
LEMMA AnswersTidy ==
    ASSUME ErrandInv, NEW k \in Desks,
           AnswerStart(k) \/ AnswerStop(k) \/ AnswerPickup(k) \/ AnswerDeliver(k),
           visit[k].seen = errand[visit[k].t], visit[k].seen.driver = DriverOf(visit[k].seen.holder),
           visit[k].driver = Nobody \/ visit[k].status = crew[visit[k].driver]
    PROVE  Loose' \subseteq Loose
<1> DEFINE v == visit[k]
           d == v.driver
           e == errand[v.t]
           starts == v.op \in {"start", "pickup"}
<1>1. v.op \in VisitOps
    BY DEF AnswerStart, AnswerStop, AnswerPickup, AnswerDeliver, VisitOps
<1>2. /\ v # NoVisit /\ v \in Visits /\ v.seen \in Errands /\ v.t \in Tasks /\ d \in Crew \cup {Nobody}
      /\ crew \in [Crew -> CrewStates]
    BY <1>1 DEF NoVisit, VisitOps, ErrandInv, RowsOfErrands, Visits
<1>3. d = e.driver /\ d = DriverOf(e.holder)
    BY <1>2 DEF ErrandInv, VisitsOK
<1>4. PICK becomes \in Errands :
        /\ Answer(k, v, becomes) /\ becomes.driver = e.driver /\ becomes.holder = e.holder
        /\ becomes.tracking = starts /\ becomes.state \notin {"absent", "cancelled"}
        /\ starts => becomes.state # "completed"
    <2>1. /\ \A s \in {"active", "picked_up"} :
                /\ Begun(v.seen, s) \in Errands /\ Begun(v.seen, s).state = s /\ Begun(v.seen, s).tracking = TRUE
                /\ Begun(v.seen, s).driver = e.driver /\ Begun(v.seen, s).holder = e.holder
          /\ Ended(v.seen) \in Errands /\ Ended(v.seen).state = "completed" /\ Ended(v.seen).tracking = FALSE
          /\ Ended(v.seen).driver = e.driver /\ Ended(v.seen).holder = e.holder
        <3>1. v.seen = e /\ e \in Errands
            BY <1>2
        <3> HIDE DEF v, e
        <3>2. "active" \in {"active", "picked_up"}
            OBVIOUS
        <3>3. QED
            BY <3>1, <3>2, BecomesIs
    <2> DEFINE active == Begun(v.seen, "active")
               picked == Begun(v.seen, "picked_up")
               ended == Ended(v.seen)
    <2>2. /\ AnswerStart(k) => Answer(k, v, active) /\ starts
          /\ AnswerPickup(k) => Answer(k, v, picked) /\ starts
          /\ AnswerStop(k) \/ AnswerDeliver(k) => Answer(k, v, ended) /\ ~starts
        BY DEF AnswerStart, AnswerStop, AnswerPickup, AnswerDeliver
    <2>3. /\ active \in Errands /\ active.state = "active" /\ active.tracking = TRUE
          /\ active.driver = e.driver /\ active.holder = e.holder
          /\ picked \in Errands /\ picked.state = "picked_up" /\ picked.tracking = TRUE
          /\ picked.driver = e.driver /\ picked.holder = e.holder
          /\ ended \in Errands /\ ended.state = "completed" /\ ended.tracking = FALSE
          /\ ended.driver = e.driver /\ ended.holder = e.holder
        BY <2>1
    <2> HIDE DEF active, picked, ended, v, e, starts
    <2>4. starts \in BOOLEAN
        BY DEF starts
    <2>5. QED
        BY <2>2, <2>3, <2>4
<1>13. PICK task \in Tasks : task = v.t
    BY <1>2
<1>5. /\ errand' \in [Tasks -> Errands] /\ \A t \in Tasks \ {task} : errand'[t] = errand[t]
      /\ errand'[task] = Changed(v.seen, becomes, e)
    BY <1>1, <1>4, <1>13, AnswerIs
<1>6. errand'[task] = becomes
    BY <1>2, <1>5, <1>13, ChangedIs
<1>7. /\ \A c \in Crew \ {d} : crew'[c] = crew[c]
      /\ ~starts /\ d # Nobody => crew'[d] # "on_trip"
    <2>1. CASE AnswerStart(k) \/ AnswerPickup(k)
        BY <1>2, <2>1 DEF AnswerStart, AnswerPickup, SetCrew
    <2>2. CASE AnswerStop(k)
        BY <1>2, <2>2 DEF AnswerStop, SetCrew, Freed
    <2>3. CASE AnswerDeliver(k)
        BY <1>2, <2>3 DEF AnswerDeliver, Freed
    <2>4. QED
        BY <2>1, <2>2, <2>3
<1>8. Involved(task) = {d} \ {Nobody} /\ Involved(task)' = {d} \ {Nobody}
    <2>1. e = errand[task] /\ errand'[task].driver = d /\ DriverOf(errand'[task].holder) = d
        BY <1>3, <1>4, <1>6, <1>13
    <2>2. QED
        BY <1>3, <2>1 DEF Involved
<1>9. \A t \in Tasks \ {task} : Involved(t)' = Involved(t)
    BY <1>5 DEF Involved
<1> HIDE DEF v, e, starts, d
<1> SUFFICES ASSUME NEW x \in Loose' PROVE x \in Loose
    OBVIOUS
<1>10. CASE x \in Tasks /\ errand'[x].state \in {"completed", "cancelled"} /\ errand'[x].tracking
    <2>1. x # task
        BY <1>4, <1>6, <1>10
    <2>2. errand'[x] = errand[x]
        BY <1>5, <1>10, <2>1
    <2>3. QED
        BY <1>10, <2>2 DEF Loose
<1>11. CASE x \in Crew /\ crew'[x] = "on_trip" /\ ~\E t \in Tasks : errand'[t].tracking /\ x \in Involved(t)'
    <2>1. x # d
        <3>1. CASE starts
            <4>1. errand'[task].tracking /\ task \in Tasks
                BY <1>2, <1>4, <1>6, <3>1
            <4>2. x \notin Involved(task)'
                BY <1>11, <4>1
            <4>3. QED
                BY <1>8, <1>11, <4>2, DriverTasksAssumption
        <3>2. CASE ~starts
            BY <1>7, <1>11, <3>2, DriverTasksAssumption
        <3>3. QED
            BY <3>1, <3>2
    <2>2. crew[x] = "on_trip"
        BY <1>7, <1>11, <2>1
    <2>3. ASSUME NEW t \in Tasks, errand[t].tracking, x \in Involved(t) PROVE FALSE
        <3>1. t # task
            BY <1>8, <2>1, <2>3
        <3>2. errand'[t].tracking /\ x \in Involved(t)'
            BY <1>5, <1>9, <2>3, <3>1
        <3>3. QED
            BY <1>11, <3>2
    <2>4. QED
        BY <1>11, <2>2, <2>3 DEF Loose
<1>12. QED
    BY <1>10, <1>11 DEF Loose

LEMMA CreateTidy ==
    ASSUME ErrandInv, NEW t \in Tasks, CreateErrand(t)
    PROVE  Loose' \subseteq Loose
<1>1. /\ errand \in [Tasks -> Errands] /\ ~errand[t].tracking /\ crew' = crew
      /\ errand' \in [Tasks -> Errands] /\ ~errand'[t].tracking /\ \A u \in Tasks \ {t} : errand'[u] = errand[u]
    <2>1. errand \in [Tasks -> Errands] /\ ~errand[t].tracking /\ crew' = crew
        BY DEF CreateErrand, ErrandInv, RowsOfErrands
    <2>2. PICK s \in OfficeStates, w \in BOOLEAN, d \in Crew \cup {Nobody}, h \in Users :
            errand' = [errand EXCEPT ![t] = [state |-> s, vehicle |-> w, driver |-> d, holder |-> h, tracking |-> FALSE]]
        BY DEF CreateErrand, Users
    <2>3. [state |-> s, vehicle |-> w, driver |-> d, holder |-> h, tracking |-> FALSE] \in Errands
        BY DEF Errands
    <2>4. QED
        BY <2>1, <2>2, <2>3
<1>2. \A u \in Tasks : errand'[u].tracking = errand[u].tracking /\ (errand[u].tracking => errand'[u] = errand[u])
    BY <1>1 DEF Errands
<1>3. \A u \in Tasks : errand[u].tracking => Involved(u)' = Involved(u)
    BY <1>2 DEF Involved
<1>4. QED
    BY <1>1, <1>2, <1>3 DEF Loose

\* Tasks are delivered as often as they are picked up, and nothing is left loose, but for what
\* OnlyOverlapsLeaveLoose names.
THEOREM OverlapsAlone == ErrandsSpec => OnlyOverlapsLeaveLoose
<1> DEFINE Step ==
       /\ \A t \in Tasks : journal'[t].deliveries > journal'[t].pickups => t \in steered \cup resent'
       /\ ~(Loose' \subseteq Loose) =>
            \/ \E t \in Tasks : EditErrand(t)
            \/ \E d \in Crew : Report(d)
            \/ \E k \in Desks :
                  LET v == visit[k]
                  IN /\ v # NoVisit /\ visit'[k] = NoVisit
                     /\ \/ v.seen # errand[v.t]
                        \/ v.driver # Nobody /\ v.status # crew[v.driver]
                        \/ v.seen.driver # DriverOf(v.seen.holder)
<1>1. ErrandInv /\ ErrandInv' /\ [ErrandsNext]_errandVars => [Step]_errandVars
    <2> SUFFICES ASSUME ErrandInv, ErrandInv', ErrandsNext, ~UNCHANGED errandVars PROVE Step
        OBVIOUS
    <2>1. ASSUME NEW t \in Tasks, journal'[t].deliveries > journal'[t].pickups
          PROVE  t \in steered \cup resent'
        <3>1. journal'[t].pickups \in Nat /\ journal'[t].deliveries \in Nat
            BY DEF ErrandInv, RowsOfErrands
        <3>2. t \in steered' \cup resent'
            BY <2>1, <3>1 DEF ErrandInv, TallyOK, Tallied
        <3>3. CASE steered' = steered
            BY <3>2, <3>3
        <3>4. CASE journal' = journal /\ resent' = resent
            <4>1. journal[t].deliveries > journal[t].pickups /\ journal[t].pickups \in Nat /\ journal[t].deliveries \in Nat
                BY <2>1, <3>1, <3>4
            <4>2. QED
                BY <3>4, <4>1 DEF ErrandInv, TallyOK, Tallied
        <3>5. steered' = steered \/ (journal' = journal /\ resent' = resent)
            BY DEF ErrandsNext, CreateErrand, EditErrand, Report, AskStart, AskStop, AskPickup, AskDeliver, Ask,
                   AnswerStart, AnswerStop, AnswerPickup, AnswerDeliver, Answer, GiveUp
        <3>6. QED
            BY <3>3, <3>4, <3>5
    <2>2. CASE (\E t \in Tasks : EditErrand(t)) \/ \E d \in Crew : Report(d)
        BY <2>1, <2>2
    <2>3. CASE \E t \in Tasks : CreateErrand(t)
        BY <2>1, <2>3, CreateTidy
    <2>4. CASE UNCHANGED <<errand, crew>>
        BY <2>1, <2>4 DEF Loose, Involved
    <2>5. ASSUME NEW k \in Desks, AnswerStart(k) \/ AnswerStop(k) \/ AnswerPickup(k) \/ AnswerDeliver(k)
          PROVE  Step
        <3>1. visit[k] # NoVisit /\ visit'[k] = NoVisit
            <4>1. visit[k] # NoVisit
                BY <2>5 DEF NoVisit, AnswerStart, AnswerStop, AnswerPickup, AnswerDeliver
            <4>2. visit' = [visit EXCEPT ![k] = NoVisit] /\ visit \in [Desks -> Visits \cup {NoVisit}]
                BY <2>5 DEF AnswerStart, AnswerStop, AnswerPickup, AnswerDeliver, Answer, ErrandInv
            <4>3. QED
                BY <4>1, <4>2
        <3>2. \/ visit[k].seen # errand[visit[k].t]
              \/ visit[k].driver # Nobody /\ visit[k].status # crew[visit[k].driver]
              \/ visit[k].seen.driver # DriverOf(visit[k].seen.holder)
              \/ Loose' \subseteq Loose
            BY <2>5, AnswersTidy
        <3>3. QED
            BY <2>1, <3>1, <3>2
    <2>6. \/ (\E t \in Tasks : EditErrand(t)) \/ \E d \in Crew : Report(d)
          \/ \E t \in Tasks : CreateErrand(t)
          \/ UNCHANGED <<errand, crew>>
          \/ \E k \in Desks : AnswerStart(k) \/ AnswerStop(k) \/ AnswerPickup(k) \/ AnswerDeliver(k)
        BY DEF ErrandsNext, AskStart, AskStop, AskPickup, AskDeliver, Ask, GiveUp
    <2>7. QED
        BY <2>2, <2>3, <2>4, <2>5, <2>6
<1>2. QED
    BY <1>1, ErrandsStart, ErrandsGoOn, PTL DEF ErrandsSpec, OnlyOverlapsLeaveLoose
=============================================================================
