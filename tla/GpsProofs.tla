------------------------------ MODULE GpsProofs -------------------------------
(***************************************************************************)
(* Theorems of TripTracking, Immobilizer, GpsAlerts and LocationFeed, for  *)
(* any numbers of trips, devices, clients, vehicles, points, commands,     *)
(* lost connections and restarts.  An active session keeps the vehicle and *)
(* driver of its trip, and its device stays bound to them unless a start   *)
(* and a rebinding overlap; what is shown of a trip follows from all its   *)
(* points.  Commands are obeyed in order and once, and the relay is as the *)
(* last one said once all are acked.  An alarm is sent once, unless the    *)
(* run that sent it is rolled back.  A position that a phone takes is lost *)
(* only by a full queue or by who writes over a queue that has changed.    *)
(***************************************************************************)
EXTENDS TripTracking, Immobilizer, GpsAlerts, LocationFeed, FiniteSetTheorems, WellFoundedInduction, TLAPS

SessionRows ==
    [trip : Trips, vehicle : Vehicles \cup {None}, driver : Drivers \cup {None},
     device : Devices \cup {None}, client : Clients, status : {"active", "stopped", "revoked"}, live : BOOLEAN]

NotStarted == {"none", "draft", "planned"}
Bindings == [vehicle : Vehicles, driver : Drivers \cup {None}, active : BOOLEAN]

\* The columns that sessions are checked against.
RowsOK ==
    /\ status \in [Trips -> L!Statuses \cup {"none"}]
    /\ vehicle \in [Trips -> Vehicles \cup {None}]
    /\ driver \in [Trips -> Drivers \cup {None}]
    /\ devices \in [Devices -> Bindings] /\ changing \in [Devices -> Bindings \cup {None}]
    /\ sessions \in Seq(SessionRows) /\ starting \in [Trips -> Devices \cup {None}]

\* A trip that was ever tracked has left planning, where assignments change.
Started == \A s \in DOMAIN sessions : status[sessions[s].trip] \notin NotStarted

ScopeInv == RowsOK /\ Started /\ \A s \in ActiveSessions : OfItsTrip(s)

\* At the start nothing is tracked.
LEMMA ScopeInit == Init => ScopeInv
<1>1. Init => RowsOK
    <2> SUFFICES ASSUME Init PROVE RowsOK
        OBVIOUS
    <2>1. /\ status \in [Trips -> L!Statuses \cup {"none"}]
          /\ vehicle \in [Trips -> Vehicles \cup {None}] /\ driver \in [Trips -> Drivers \cup {None}]
        BY DEF Init, L!Init
    <2>2. devices \in [Devices -> Bindings] /\ changing \in [Devices -> Bindings \cup {None}]
        BY DEF Init, Bindings
    <2>3. sessions \in Seq(SessionRows) /\ starting \in [Trips -> Devices \cup {None}]
        BY DEF Init
    <2>4. QED
        BY <2>1, <2>2, <2>3 DEF RowsOK
<1>2. Init => Started /\ \A s \in ActiveSessions : OfItsTrip(s)
    BY DEF Init, Started, ActiveSessions
<1>3. QED
    BY <1>1, <1>2 DEF ScopeInv

\* The table leads no trip back into planning.
LEMMA NoWayBack ==
    ASSUME NEW s, s \notin NotStarted, NEW target \in L!Transitions(s)
    PROVE  target \notin NotStarted
BY Zenon DEF L!Transitions, NotStarted

\* What a trip step may do to one trip: change its assignment in planning only, or leave planning.
TripKept(t) ==
    /\ UNCHANGED <<devices, sessions, requests>>
    /\ vehicle' \in [Trips -> Vehicles \cup {None}] /\ driver' \in [Trips -> Drivers \cup {None}]
    /\ status' \in [Trips -> L!Statuses \cup {"none"}]
    /\ \A u \in Trips : status[u] \notin NotStarted =>
         status'[u] \notin NotStarted /\ vehicle'[u] = vehicle[u] /\ driver'[u] = driver[u]

\* Such a step takes no session away from its trip.
LEMMA KeptInScope == ASSUME ScopeInv, NEW t, TripKept(t) PROVE ScopeInv'
<1>1. RowsOK'
    BY DEF ScopeInv, RowsOK, TripKept, requests
<1>2. \A s \in DOMAIN sessions : sessions[s] \in SessionRows
    BY DEF ScopeInv, RowsOK
<1>3. \A s \in DOMAIN sessions : sessions[s].trip \in Trips /\ status[sessions[s].trip] \notin NotStarted
    BY <1>2 DEF ScopeInv, Started, SessionRows
<1>4. Started'
    BY <1>3 DEF Started, TripKept
<1>5. \A s \in ActiveSessions' : OfItsTrip(s)'
    BY <1>3 DEF OfItsTrip, TripKept, ActiveSessions, ScopeInv
<1>6. QED
    BY <1>1, <1>4, <1>5 DEF ScopeInv

\* Each command of a trip is such a step.
LEMMA CommandKept == ASSUME ScopeInv, NEW t \in Trips, TripCommand(t) \/ FinalDispatch(t) PROVE TripKept(t)
<1> USE DEF TripKept, RowsOK, ScopeInv, L!SetStatus, tracking, L!Statuses, NotStarted
<1>1. ASSUME NEW v \in Vehicles, NEW d \in Drivers \cup {None}, NEW s \in {"draft", "planned"},
             L!CreateTrip(t, v, d, s), UNCHANGED tracking
      PROVE  TripKept(t)
    BY <1>1 DEF L!CreateTrip, L!CanCreate, L!Created
<1>2. ASSUME NEW v \in Vehicles \cup {None}, NEW d \in Drivers \cup {None}, L!UpdateAssignment(t, v, d), UNCHANGED tracking
      PROVE  TripKept(t)
    BY <1>2 DEF L!UpdateAssignment, L!CanAssign, L!Assigned
<1>3. ASSUME NEW target \in L!Statuses, L!TransitionTrip(t, target), UNCHANGED tracking
      PROVE  TripKept(t)
    <2>1. target \in L!Transitions(status[t]) /\ status' = [status EXCEPT ![t] = target]
          /\ UNCHANGED <<vehicle, driver>>
        BY <1>3 DEF L!TransitionTrip, L!CanTransition, L!Transitioned
    <2>2. status[t] \notin NotStarted => target \notin NotStarted
        BY <2>1, NoWayBack
    <2>3. QED
        BY <1>3, <2>1, <2>2
<1>4. CASE L!ConfirmLoading(t) /\ UNCHANGED tracking
    BY <1>4 DEF L!ConfirmLoading
<1>5. ASSUME NEW s \in L!PreDispatch, L!CorrectLoading(t, s), UNCHANGED tracking PROVE TripKept(t)
    BY <1>5 DEF L!CorrectLoading, L!PreDispatch
<1>6. CASE L!ConfirmArrival(t) /\ UNCHANGED tracking
    BY <1>6 DEF L!ConfirmArrival
<1>7. ASSUME NEW complete \in BOOLEAN, L!RecordDelivery(t, complete) \/ L!AcceptDelivery(t, complete),
             UNCHANGED tracking
      PROVE  TripKept(t)
    BY <1>7 DEF L!RecordDelivery, L!AcceptDelivery
<1>8. CASE FinalDispatch(t)
    BY <1>8 DEF FinalDispatch, L!FinalDispatch
<1> HIDE DEF TripKept, RowsOK, ScopeInv, L!SetStatus, L!Statuses, NotStarted
<1>9. QED
    BY <1>1, <1>2, <1>3, <1>4, <1>5, <1>6, <1>7, <1>8 DEF TripCommand

\* Storing points changes at most the status of the session's trip, from dispatched to in_transit.
LEMMA PointsKept ==
    ASSUME ScopeInv, NEW s \in DOMAIN sessions, NEW batch, AppendLocations(s, batch)
    PROVE  TripKept(sessions[s].trip)
<1>1. /\ UNCHANGED <<devices, sessions, requests>>
      /\ L!GpsInTransit(sessions[s].trip) \/ UNCHANGED trips
    BY Zenon DEF AppendLocations
<1>2. sessions[s] \in SessionRows
    BY DEF ScopeInv, RowsOK
<1> sessions[s].trip \in Trips
    BY <1>2 DEF SessionRows
<1>3. CASE L!GpsInTransit(sessions[s].trip)
    BY <1>1, <1>2, <1>3 DEF L!GpsInTransit, L!SetStatus, TripKept, ScopeInv, RowsOK, L!Statuses, NotStarted
<1>4. CASE UNCHANGED trips
    BY <1>1, <1>4 DEF trips, TripKept, ScopeInv, RowsOK
<1>5. QED
    BY <1>1, <1>3, <1>4

\* What is read of sessions and devices, and what is written to a device.
LEMMA AskingKeeps ==
    ASSUME ScopeInv,
           \/ \E t \in Trips : AbandonStart(t) \/ \E d \in Devices : ReadDevice(t, d)
           \/ \E d \in Devices : \/ UnbindDevice(d) \/ CommitDevice(d)
                                 \/ \E v \in Vehicles, u \in Drivers \cup {None}, active \in BOOLEAN : UpdateDevice(d, v, u, active)
    PROVE  ScopeInv'
<1>1. UNCHANGED <<sessions, status, vehicle, driver>>
    BY DEF AbandonStart, ReadDevice, UnbindDevice, CommitDevice, UpdateDevice, Change, trips
<1>2. starting' \in [Trips -> Devices \cup {None}]
    BY DEF AbandonStart, ReadDevice, UnbindDevice, CommitDevice, UpdateDevice, Change, ScopeInv, RowsOK
<1>3. devices' \in [Devices -> Bindings]
    BY DEF AbandonStart, ReadDevice, UnbindDevice, CommitDevice, UpdateDevice, Change, ScopeInv, RowsOK
<1>4. changing' \in [Devices -> Bindings \cup {None}]
    <2>1. ASSUME NEW d \in Devices, NEW binding \in Bindings, Change(d, binding)
          PROVE  changing' \in [Devices -> Bindings \cup {None}]
        BY <2>1 DEF Change, ScopeInv, RowsOK
    <2>2. ASSUME NEW d \in Devices PROVE [devices[d] EXCEPT !.active = FALSE] \in Bindings
        BY DEF ScopeInv, RowsOK, Bindings
    <2>3. ASSUME NEW v \in Vehicles, NEW u \in Drivers \cup {None}, NEW active \in BOOLEAN
          PROVE  [vehicle |-> v, driver |-> u, active |-> active] \in Bindings
        BY DEF Bindings
    <2>4. ASSUME NEW d \in Devices, CommitDevice(d) PROVE changing' \in [Devices -> Bindings \cup {None}]
        BY <2>4 DEF CommitDevice, ScopeInv, RowsOK
    <2>5. (\E t \in Trips : AbandonStart(t) \/ \E d \in Devices : ReadDevice(t, d)) => changing' = changing
        BY DEF AbandonStart, ReadDevice
    <2>6. QED
        BY <2>1, <2>2, <2>3, <2>4, <2>5 DEF UnbindDevice, UpdateDevice, ScopeInv, RowsOK
<1>5. RowsOK'
    BY <1>1, <1>2, <1>3, <1>4 DEF ScopeInv, RowsOK
<1>6. Started' /\ \A s \in ActiveSessions' : OfItsTrip(s)'
    BY <1>1 DEF ScopeInv, Started, ActiveSessions, OfItsTrip
<1>7. QED
    BY <1>5, <1>6 DEF ScopeInv

\* A row of sessions rewritten, its trip, vehicle and driver kept.
Rewritten(s, row) ==
    /\ sessions' = [sessions EXCEPT ![s] = row] /\ UNCHANGED <<status, vehicle, driver, devices, changing>>
    /\ row.trip = sessions[s].trip /\ row.vehicle = sessions[s].vehicle /\ row.driver = sessions[s].driver
    /\ row.status = "active" => sessions[s].status = "active"

LEMMA RewriteKeeps ==
    ASSUME ScopeInv, NEW s \in DOMAIN sessions, NEW row \in SessionRows, Rewritten(s, row),
           starting' \in [Trips -> Devices \cup {None}]
    PROVE  /\ ScopeInv' /\ DOMAIN sessions' = DOMAIN sessions /\ sessions'[s] = row
           /\ \A r \in DOMAIN sessions \ {s} : sessions'[r] = sessions[r]
<1>1. /\ sessions' \in Seq(SessionRows) /\ DOMAIN sessions' = DOMAIN sessions /\ sessions'[s] = row
      /\ \A r \in DOMAIN sessions \ {s} : sessions'[r] = sessions[r]
    BY DEF ScopeInv, RowsOK, Rewritten
<1>2. RowsOK'
    BY <1>1 DEF ScopeInv, RowsOK, Rewritten
<1>3. Started'
    BY <1>1 DEF ScopeInv, Started, Rewritten
<1>4. \A r \in ActiveSessions' : OfItsTrip(r)'
    BY <1>1 DEF ScopeInv, OfItsTrip, ActiveSessions, Rewritten
<1>5. QED
    BY <1>1, <1>2, <1>3, <1>4 DEF ScopeInv

\* A session that opens is of its trip, and of the device that was read.
LEMMA OpenRow ==
    ASSUME ScopeInv, NEW t \in Trips, NEW client \in Clients, NEW d \in Devices \cup {None}, OpenSession(t, client, d)
    PROVE  LET n == Len(sessions) + 1 IN
           /\ ScopeInv' /\ DOMAIN sessions' = DOMAIN sessions \cup {n} /\ n \notin DOMAIN sessions
           /\ sessions'[n].vehicle = vehicle[t] /\ sessions'[n].driver = driver[t] /\ sessions'[n].device = d
           /\ \A s \in DOMAIN sessions : sessions'[s] = sessions[s]
           /\ devices' = devices /\ starting[t] = d /\ starting'[t] = None
<1>1. /\ sessions' = Append(sessions, Session(t, client, d)) /\ UNCHANGED <<status, vehicle, driver, devices, changing>>
      /\ status[t] \notin NotStarted /\ starting[t] = d /\ starting' = [starting EXCEPT ![t] = None]
    BY DEF OpenSession, CanStart, MayStart, Trackable, NotStarted, trips
<1>2. Session(t, client, d) \in SessionRows
    BY DEF Session, SessionRows, ScopeInv, RowsOK
<1>3. /\ sessions' \in Seq(SessionRows) /\ DOMAIN sessions' = DOMAIN sessions \cup {Len(sessions) + 1}
      /\ sessions'[Len(sessions) + 1] = Session(t, client, d) /\ Len(sessions) + 1 \notin DOMAIN sessions
      /\ \A s \in DOMAIN sessions : sessions'[s] = sessions[s]
    BY <1>1, <1>2 DEF ScopeInv, RowsOK
<1>4. RowsOK'
    BY <1>1, <1>3 DEF ScopeInv, RowsOK
<1>5. Started'
    BY <1>1, <1>3 DEF ScopeInv, Started, Session
<1>6. \A s \in ActiveSessions' : OfItsTrip(s)'
    BY <1>1, <1>3 DEF ScopeInv, OfItsTrip, ActiveSessions, Session
<1>7. starting'[t] = None
    BY <1>1 DEF ScopeInv, RowsOK
<1>8. QED
    BY <1>1, <1>3, <1>4, <1>5, <1>6, <1>7 DEF ScopeInv, Session

\* A session resumed is active, of the trip's driver, and takes the device that was read.
LEMMA ResumeRow ==
    ASSUME ScopeInv, NEW t \in Trips, NEW client \in Clients, NEW d \in Devices \cup {None},
           NEW s \in DOMAIN sessions, ResumeSession(s, t, client, d)
    PROVE  /\ ScopeInv' /\ DOMAIN sessions' = DOMAIN sessions /\ s \in ActiveSessions
           /\ sessions[s].vehicle = vehicle[t] /\ sessions[s].driver = driver[t]
           /\ sessions'[s].vehicle = vehicle[t] /\ sessions'[s].driver = driver[t]
           /\ sessions'[s].device = IF d = None THEN sessions[s].device ELSE d
           /\ \A r \in DOMAIN sessions \ {s} : sessions'[r] = sessions[r]
           /\ devices' = devices /\ starting[t] = d /\ starting'[t] = None
<1> DEFINE row == [sessions[s] EXCEPT !.live = TRUE, !.device = IF d = None THEN sessions[s].device ELSE d]
<1>1. sessions[s] \in SessionRows
    BY DEF ScopeInv, RowsOK
<1>2. sessions[s].status = "active" /\ sessions[s].trip = t /\ sessions[s].driver = driver[t] /\ s \in ActiveSessions
    BY DEF ResumeSession, CanStart, OfClient, OfTrip, ActiveSessions
<1>3. sessions[s].vehicle = vehicle[t]
    BY <1>2 DEF ScopeInv, OfItsTrip
<1>4. starting[t] = d /\ starting' = [starting EXCEPT ![t] = None]
    BY DEF ResumeSession, CanStart
<1>5. /\ row \in SessionRows /\ row.device = (IF d = None THEN sessions[s].device ELSE d) /\ row.status = "active"
      /\ row.trip = sessions[s].trip /\ row.vehicle = sessions[s].vehicle /\ row.driver = sessions[s].driver
    BY <1>1, <1>2 DEF SessionRows
<1>6. sessions' = [sessions EXCEPT ![s] = row] /\ UNCHANGED <<status, vehicle, driver, devices, changing>>
    BY <1>1 DEF ResumeSession, trips, ScopeInv, RowsOK, SessionRows
<1> HIDE DEF row
<1>7. Rewritten(s, row)
    BY <1>2, <1>5, <1>6 DEF Rewritten
<1>8. starting' \in [Trips -> Devices \cup {None}] /\ starting'[t] = None
    BY <1>4 DEF ScopeInv, RowsOK
<1>9. /\ ScopeInv' /\ DOMAIN sessions' = DOMAIN sessions /\ sessions'[s] = row
      /\ \A r \in DOMAIN sessions \ {s} : sessions'[r] = sessions[r]
    BY <1>5, <1>7, <1>8, RewriteKeeps
<1>10. QED
    BY <1>2, <1>3, <1>4, <1>5, <1>6, <1>8, <1>9

\* A session that expires or ends only loses its authorization or its status.
LEMMA EndRow ==
    ASSUME ScopeInv, NEW s \in DOMAIN sessions, Expire(s) \/ StopSession(s) \/ RevokeSession(s)
    PROVE  /\ ScopeInv' /\ devices' = devices /\ ActiveSessions' \subseteq ActiveSessions
           /\ \A r \in DOMAIN sessions : /\ sessions'[r].device = sessions[r].device
                                         /\ sessions'[r].vehicle = sessions[r].vehicle
                                         /\ sessions'[r].driver = sessions[r].driver
<1>1. sessions[s] \in SessionRows /\ UNCHANGED <<status, vehicle, driver, devices, starting, changing>>
    BY DEF ScopeInv, RowsOK, Expire, StopSession, RevokeSession, trips, requests
<1>2. PICK row \in SessionRows : Rewritten(s, row) /\ row.device = sessions[s].device
    <2>1. CASE Expire(s)
        <3> DEFINE row == [sessions[s] EXCEPT !.live = FALSE]
        <3>1. sessions' = [sessions EXCEPT ![s] = row]
            BY <2>1 DEF Expire
        <3>2. row \in SessionRows /\ row.status = sessions[s].status
              /\ row.device = sessions[s].device /\ row.trip = sessions[s].trip
              /\ row.vehicle = sessions[s].vehicle /\ row.driver = sessions[s].driver
            BY <1>1 DEF SessionRows
        <3> HIDE DEF row
        <3>3. QED
            BY <1>1, <3>1, <3>2 DEF Rewritten
    <2>2. ASSUME NEW ended \in {"stopped", "revoked"}, sessions' = [sessions EXCEPT ![s].status = ended]
          PROVE  \E row \in SessionRows : Rewritten(s, row) /\ row.device = sessions[s].device
        <3> DEFINE row == [sessions[s] EXCEPT !.status = ended]
        <3>1. sessions' = [sessions EXCEPT ![s] = row]
            BY <2>2
        <3>2. row \in SessionRows /\ row.status = ended /\ row.trip = sessions[s].trip /\ row.device = sessions[s].device
              /\ row.vehicle = sessions[s].vehicle /\ row.driver = sessions[s].driver
            BY <1>1 DEF SessionRows
        <3> HIDE DEF row
        <3>3. QED
            BY <1>1, <3>1, <3>2 DEF Rewritten
    <2>3. QED
        BY <2>1, <2>2 DEF StopSession, RevokeSession
<1>3. starting' \in [Trips -> Devices \cup {None}]
    BY <1>1 DEF ScopeInv, RowsOK
<1>4. /\ ScopeInv' /\ DOMAIN sessions' = DOMAIN sessions /\ sessions'[s] = row
      /\ \A r \in DOMAIN sessions \ {s} : sessions'[r] = sessions[r]
    BY <1>2, <1>3, RewriteKeeps
<1>5. QED
    BY <1>1, <1>2, <1>4 DEF Rewritten, ActiveSessions

\* Every step keeps the sessions with their trips.
LEMMA NextKeepsScope == ScopeInv /\ [Next]_trackingVars => ScopeInv'
<1> SUFFICES ASSUME ScopeInv, [Next]_trackingVars PROVE ScopeInv'
    OBVIOUS
<1>1. ASSUME NEW t \in Trips, TripCommand(t) \/ FinalDispatch(t) PROVE ScopeInv'
    BY <1>1, CommandKept, KeptInScope
<1>2. CASE \E v \in Vehicles : VehicleCommand(v)
    BY <1>2 DEF VehicleCommand, L!VehicleStep, L!UpdateVehicleState, L!UpdateVehicle, tracking, requests,
                ScopeInv, RowsOK, Started, OfItsTrip, ActiveSessions
<1>3. CASE Tick \/ UNCHANGED trackingVars
    BY <1>3 DEF Tick, trackingVars, trips, tracking, requests, ScopeInv, RowsOK, Started, OfItsTrip, ActiveSessions
<1>4. CASE SessionStep
    BY <1>4, OpenRow, ResumeRow, EndRow, AskingKeeps DEF SessionStep
<1>5. CASE DeviceStep
    BY <1>5, AskingKeeps DEF DeviceStep
<1>6. CASE Upload
    <2>1. ASSUME NEW s \in DOMAIN sessions, NEW batch \in Batches, AppUpload(s, batch) PROVE ScopeInv'
        BY <2>1, PointsKept, KeptInScope DEF AppUpload
    <2>2. ASSUME NEW d \in Devices, NEW batch \in Batches, TrackerUpload(d, batch) PROVE ScopeInv'
        <3>1. PICK s \in DOMAIN sessions : AppendLocations(s, batch)
            BY <2>2 DEF TrackerUpload, Tracked, ActiveSessions
        <3>2. QED
            BY <3>1, PointsKept, KeptInScope
    <2>3. QED
        BY <1>6, <2>1, <2>2 DEF Upload
<1>7. QED
    BY <1>1, <1>2, <1>3, <1>4, <1>5, <1>6 DEF Next

\* A session keeps its device bound, or has lost it before.
StaysBound(s) == Bound(s)' \/ (s \in ActiveSessions /\ ~Bound(s))

\* A start in time, a rebinding in time, and all other steps leave every device bound.
LEMMA StartBinds ==
    ASSUME ScopeInv, NEW t \in Trips, NEW client \in Clients, NEW d \in Devices \cup {None},
           OpenSession(t, client, d) \/ \E r \in DOMAIN sessions : ResumeSession(r, t, client, d),
           NEW s \in ActiveSessions', ~StaysBound(s)
    PROVE  StartOvertaken(t)
<1>1. CASE OpenSession(t, client, d)
    <2> DEFINE n == Len(sessions) + 1
    <2>1. /\ DOMAIN sessions' = DOMAIN sessions \cup {n} /\ n \notin DOMAIN sessions
          /\ sessions'[n].vehicle = vehicle[t] /\ sessions'[n].driver = driver[t] /\ sessions'[n].device = d
          /\ \A r \in DOMAIN sessions : sessions'[r] = sessions[r]
          /\ devices' = devices /\ starting[t] = d /\ starting'[t] = None
        BY <1>1, OpenRow
    <2>2. s = n
        BY <2>1 DEF StaysBound, Bound, ActiveSessions
    <2>3. QED
        BY <2>1, <2>2 DEF StaysBound, Bound, StartOvertaken, InScope
<1>2. ASSUME NEW r \in DOMAIN sessions, ResumeSession(r, t, client, d) PROVE StartOvertaken(t)
    <2>1. /\ DOMAIN sessions' = DOMAIN sessions /\ r \in ActiveSessions
          /\ sessions[r].vehicle = vehicle[t] /\ sessions[r].driver = driver[t]
          /\ sessions'[r].vehicle = vehicle[t] /\ sessions'[r].driver = driver[t]
          /\ sessions'[r].device = IF d = None THEN sessions[r].device ELSE d
          /\ \A q \in DOMAIN sessions \ {r} : sessions'[q] = sessions[q]
          /\ devices' = devices /\ starting[t] = d /\ starting'[t] = None
        BY <1>2, ResumeRow
    <2>2. s = r
        BY <2>1 DEF StaysBound, Bound, ActiveSessions
    <2>3. d # None
        BY <2>1, <2>2 DEF StaysBound, Bound
    <2>4. QED
        BY <2>1, <2>2, <2>3 DEF StaysBound, Bound, StartOvertaken, InScope
<1>3. QED
    BY <1>1, <1>2

LEMMA ChangeBinds ==
    ASSUME ScopeInv, NEW d \in Devices, CommitDevice(d), NEW s \in ActiveSessions', ~StaysBound(s)
    PROVE  ChangeOvertaken(d)
<1>1. sessions' = sessions /\ \A e \in Devices \ {d} : devices'[e] = devices[e]
    BY DEF CommitDevice, ScopeInv, RowsOK
<1>2. s \in ActiveSessions /\ Bound(s)
    BY <1>1 DEF StaysBound, ActiveSessions
<1>3. sessions[s] \in SessionRows
    BY <1>2 DEF ScopeInv, RowsOK, ActiveSessions
<1>4. sessions[s].device \in Devices \cup {None}
    BY <1>3 DEF SessionRows
<1>5. sessions[s].device = d
    BY <1>1, <1>2, <1>4 DEF StaysBound, Bound
<1>6. QED
    BY <1>2, <1>5 DEF ChangeOvertaken, InUse

LEMMA RestBinds ==
    ASSUME ScopeInv, devices' = devices, ActiveSessions' \subseteq ActiveSessions,
           \A r \in ActiveSessions : /\ sessions'[r].device = sessions[r].device
                                     /\ sessions'[r].vehicle = sessions[r].vehicle
                                     /\ sessions'[r].driver = sessions[r].driver,
           NEW s \in ActiveSessions'
    PROVE  StaysBound(s)
BY DEF StaysBound, Bound

LEMMA SameBinds ==
    ASSUME ScopeInv, devices' = devices, sessions' = sessions, NEW s \in ActiveSessions'
    PROVE  StaysBound(s)
BY DEF StaysBound, Bound, ActiveSessions

LEMMA UploadRests ==
    ASSUME ScopeInv, Upload PROVE devices' = devices /\ sessions' = sessions
<1>1. ASSUME NEW s, NEW batch, AppendLocations(s, batch)
      PROVE  devices' = devices /\ sessions' = sessions
    BY <1>1, Zenon DEF AppendLocations
<1>2. QED
    BY <1>1, Zenon DEF Upload, AppUpload, TrackerUpload

\* An active session is of its trip's vehicle and driver, and its device stays bound to them unless a
\* start and a rebinding overlap (start_session, update_gps_device).
THEOREM ScopeKept == Spec => OnlyOverlapsUnbind
<1> DEFINE Step ==
       \A s \in ActiveSessions' :
          /\ OfItsTrip(s)'
          /\ Bound(s)' \/ (s \in ActiveSessions /\ ~Bound(s))
               \/ (\E t \in Trips : StartOvertaken(t)) \/ \E d \in Devices : ChangeOvertaken(d)
<1>1. ScopeInv /\ ScopeInv' /\ Next => Step
    <2> SUFFICES ASSUME ScopeInv, ScopeInv', Next, NEW s \in ActiveSessions', ~StaysBound(s)
                 PROVE  (\E t \in Trips : StartOvertaken(t)) \/ \E d \in Devices : ChangeOvertaken(d)
        BY DEF StaysBound, ScopeInv
    <2>1. ASSUME NEW t \in Trips, TripCommand(t) \/ FinalDispatch(t) PROVE FALSE
        BY <2>1, CommandKept, SameBinds DEF TripKept
    <2>2. ASSUME (\E v \in Vehicles : VehicleCommand(v)) \/ Tick PROVE FALSE
        BY <2>2, SameBinds DEF VehicleCommand, Tick, tracking
    <2>3. CASE SessionStep
        <3>1. ASSUME NEW t \in Trips, AbandonStart(t) \/ \E d \in Devices : ReadDevice(t, d) PROVE FALSE
            BY <3>1, SameBinds DEF AbandonStart, ReadDevice
        <3>2. ASSUME NEW r \in DOMAIN sessions, Expire(r) \/ StopSession(r) \/ RevokeSession(r) PROVE FALSE
            BY <3>2, EndRow, RestBinds DEF ActiveSessions
        <3>3. QED
            BY <2>3, <3>1, <3>2, StartBinds DEF SessionStep
    <2>4. CASE DeviceStep
        <3>1. ASSUME NEW d \in Devices,
                     \/ UnbindDevice(d)
                     \/ \E v \in Vehicles, u \in Drivers \cup {None}, active \in BOOLEAN : UpdateDevice(d, v, u, active)
              PROVE  FALSE
            BY <3>1, SameBinds DEF UnbindDevice, UpdateDevice, Change
        <3>2. QED
            BY <2>4, <3>1, ChangeBinds DEF DeviceStep
    <2>5. CASE Upload
        BY <2>5, UploadRests, SameBinds
    <2>6. QED
        BY <2>1, <2>2, <2>3, <2>4, <2>5 DEF Next
<1>2. ScopeInv /\ ScopeInv' /\ [Next]_trackingVars => [Step]_trackingVars
    BY <1>1
<1>3. Spec => [][Step]_trackingVars
    BY <1>2, ScopeInit, NextKeepsScope, PTL DEF Spec
<1>4. QED
    BY <1>3 DEF OnlyOverlapsUnbind

-----------------------------------------------------------------------------
(* The newest of some points.                                              *)

LEMMA LeastOf ==
    ASSUME NEW S, S \subseteq Nat, S # {}
    PROVE  \E x \in S : \A y \in S : x <= y
<1>1. PICK x \in S : \A y \in S : ~(<<y, x>> \in OpToRel(<, Nat))
    BY NatLessThanWellFounded, WFMin
<1>2. ASSUME NEW y \in S, y < x PROVE FALSE
    <2>1. <<y, x>> \in OpToRel(<, Nat)
        BY <1>2 DEF OpToRel
    <2>2. QED
        BY <1>1, <2>1
<1>3. QED
    BY <1>2

LEMMA GreatestOf ==
    ASSUME NEW B \in Nat, NEW S, S \subseteq 0 .. B, S # {}
    PROVE  \E x \in S : \A y \in S : y <= x
<1> DEFINE mirrored == {B - y : y \in S}
<1>1. mirrored \subseteq Nat /\ mirrored # {}
    <2>1. \A y \in S : B - y \in Nat
        OBVIOUS
    <2>2. PICK y : y \in S
        OBVIOUS
    <2>3. B - y \in mirrored
        BY <2>2
    <2>4. QED
        BY <2>1, <2>3
<1> HIDE DEF mirrored
<1>2. PICK m \in mirrored : \A n \in mirrored : m <= n
    BY <1>1, LeastOf
<1>3. PICK x \in S : m = B - x
    BY DEF mirrored
<1>4. ASSUME NEW y \in S PROVE y <= x
    <2>1. B - y \in mirrored
        BY DEF mirrored
    <2>2. m <= B - y
        BY <1>2, <2>1
    <2>3. QED
        BY <1>3, <2>2
<1>5. QED
    BY <1>4

\* Of points with a capture time each, one is captured last, and of several the last stored.
LEMMA NewestIs ==
    ASSUME NEW rows, NEW n \in Nat, NEW B \in Nat, NEW S, S \subseteq 1 .. n, S # {},
           \A p \in S : rows[p].captured \in 0 .. B
    PROVE  Newest(S, rows) \in S /\ \A q \in S \ {Newest(S, rows)} : Later(Newest(S, rows), q, rows)
<1> DEFINE times == {rows[p].captured : p \in S}
<1>1. times \subseteq 0 .. B /\ times # {}
    OBVIOUS
<1> HIDE DEF times
<1>2. PICK time \in times : \A other \in times : other <= time
    BY <1>1, GreatestOf
<1>3. time \in 0 .. B /\ \A p \in S : rows[p].captured <= time
    BY <1>1, <1>2 DEF times
<1> DEFINE last == {p \in S : rows[p].captured = time}
<1>4. last \subseteq 0 .. n /\ last # {}
    <2>1. PICK p \in S : rows[p].captured = time
        BY <1>2 DEF times
    <2>2. p \in last
        BY <2>1
    <2>3. last \subseteq S /\ S \subseteq 0 .. n
        OBVIOUS
    <2> HIDE DEF last
    <2>4. QED
        BY <2>2, <2>3
<1> HIDE DEF last
<1>5. PICK p \in last : \A q \in last : q <= p
    BY <1>4, GreatestOf
<1>6. p \in S /\ rows[p].captured = time
    BY DEF last
<1>7. ASSUME NEW q \in S \ {p} PROVE Later(p, q, rows)
    <2>1. rows[q].captured \in 0 .. B /\ rows[q].captured <= time /\ q \in 1 .. n /\ p \in 1 .. n
        BY <1>3, <1>6
    <2>2. CASE rows[q].captured = time
        <3>1. q <= p /\ q # p
            BY <1>5, <2>2 DEF last
        <3>2. QED
            BY <1>6, <2>1, <2>2, <3>1 DEF Later
    <2>3. CASE rows[q].captured # time
        BY <1>3, <1>6, <2>1, <2>3 DEF Later
    <2>4. QED
        BY <2>2, <2>3
<1>8. QED
    BY <1>6, <1>7 DEF Newest

-----------------------------------------------------------------------------
(* What is shown of a trip.                                                *)

PointRows ==
    [session : Nat, trip : Trips, id : PointIds, captured : 0 .. MaxTime + Skew, received : Nat]

\* The rows of points, and the departure of a trip that is on the point of leaving.
StoredOK ==
    /\ points \in Seq(PointRows) /\ latest \in [Trips -> Nat]
    /\ now \in Nat /\ departure \in [Trips -> Nat \cup {None}]
    /\ \A p \in DOMAIN points : points[p].received <= now

TellInv == StoredOK /\ PositionsTell

LEMMA TellInit == Init => TellInv
<1> SUFFICES ASSUME Init PROVE TellInv
    OBVIOUS
<1>1. points = <<>> /\ now = 0 /\ latest = [t \in Trips |-> 0] /\ departure = [t \in Trips |-> None]
    BY DEF Init
<1>2. StoredOK
    BY <1>1 DEF StoredOK
<1>3. PositionsTell
    BY <1>1 DEF PositionsTell, LatestIsNewest, PointMovesTrip
<1>4. QED
    BY <1>2, <1>3 DEF TellInv

\* A step that stores nothing and sends no trip off.
LEMMA ElsewhereTells ==
    ASSUME TellInv, UNCHANGED <<departure, points, latest>>, now' \in Nat, now <= now',
           \A t \in Trips : status'[t] = "dispatched" => status[t] = "dispatched"
    PROVE  TellInv'
<1>1. \A p \in DOMAIN points : points[p] \in PointRows
    BY DEF TellInv, StoredOK
<1>2. StoredOK'
    <2>1. now \in Nat /\ \A p \in DOMAIN points : points[p].received <= now /\ points[p].received \in Nat
        BY <1>1 DEF TellInv, StoredOK, PointRows
    <2>2. QED
        BY <2>1 DEF TellInv, StoredOK
<1>3. LatestIsNewest'
    BY DEF TellInv, PositionsTell, LatestIsNewest, Later
<1>4. PointMovesTrip'
    <2>1. \A p \in DOMAIN points : points[p].trip \in Trips
        BY <1>1 DEF PointRows
    <2>2. QED
        BY <2>1 DEF TellInv, PositionsTell, PointMovesTrip
<1>5. QED
    BY <1>2, <1>3, <1>4 DEF TellInv, PositionsTell

\* Only the final dispatch makes a trip dispatched.
LEMMA CommandTells ==
    ASSUME RowsOK, TellInv, NEW t \in Trips, TripCommand(t)
    PROVE  TellInv'
<1>1. UNCHANGED <<departure, points, latest, now>> /\ now \in Nat /\ now <= now
    BY DEF TripCommand, tracking, TellInv, StoredOK
<1>2. status \in [Trips -> L!Statuses \cup {"none"}]
    BY DEF RowsOK
<1>3. PICK target : status' = [status EXCEPT ![t] = target] /\ (target = "dispatched" => status[t] = "dispatched")
    <2>1. ASSUME NEW v \in Vehicles, NEW d \in Drivers \cup {None}, NEW s \in {"draft", "planned"},
                 L!CreateTrip(t, v, d, s)
          PROVE  status' = [status EXCEPT ![t] = s] /\ s # "dispatched"
        BY <2>1 DEF L!CreateTrip, L!Created, L!SetStatus
    <2>2. ASSUME NEW v \in Vehicles \cup {None}, NEW d \in Drivers \cup {None}, L!UpdateAssignment(t, v, d)
          PROVE  status' = [status EXCEPT ![t] = status[t]]
        BY <1>2, <2>2 DEF L!UpdateAssignment, L!Assigned
    <2>3. ASSUME NEW s \in L!Statuses, L!TransitionTrip(t, s)
          PROVE  status' = [status EXCEPT ![t] = s] /\ s # "dispatched"
        BY <2>3 DEF L!TransitionTrip, L!CanTransition, L!Transitioned, L!SetStatus, L!ManagedTargets
    <2>4. ASSUME L!ConfirmLoading(t) PROVE status' = [status EXCEPT ![t] = "loaded"]
        BY <2>4 DEF L!ConfirmLoading, L!SetStatus
    <2>5. ASSUME NEW s \in L!PreDispatch, L!CorrectLoading(t, s)
          PROVE  status' = [status EXCEPT ![t] = s] /\ s # "dispatched"
        BY <2>5 DEF L!CorrectLoading, L!PreDispatch, L!SetStatus
    <2>6. ASSUME L!ConfirmArrival(t) PROVE status' = [status EXCEPT ![t] = "arrived"]
        BY <2>6 DEF L!ConfirmArrival, L!SetStatus
    <2>7. ASSUME NEW complete \in BOOLEAN, L!RecordDelivery(t, complete)
          PROVE  /\ status' = [status EXCEPT ![t] = IF complete THEN "delivered" ELSE status[t]]
                 /\ status[t] # "dispatched"
        BY <2>7 DEF L!RecordDelivery, L!SetStatus
    <2>8. ASSUME NEW complete \in BOOLEAN, L!AcceptDelivery(t, complete)
          PROVE  /\ status' = [status EXCEPT ![t] = IF complete THEN "accepted" ELSE status[t]]
                 /\ status[t] # "dispatched"
        BY <2>8 DEF L!AcceptDelivery, L!SetStatus
    <2>9. QED
        BY <2>1, <2>2, <2>3, <2>4, <2>5, <2>6, <2>7, <2>8 DEF TripCommand
<1>4. \A u \in Trips : status'[u] = "dispatched" => status[u] = "dispatched"
    BY <1>2, <1>3
<1>5. QED
    BY <1>1, <1>4, ElsewhereTells

\* A trip departs after whatever was received before.
LEMMA DispatchTells ==
    ASSUME RowsOK, TellInv, NEW t \in Trips, FinalDispatch(t)
    PROVE  TellInv'
<1>1. /\ status' = [status EXCEPT ![t] = "dispatched"] /\ UNCHANGED <<points, latest>>
      /\ now' = now + 1 /\ departure' = [departure EXCEPT ![t] = now + 1]
    BY DEF FinalDispatch, L!FinalDispatch, L!SetStatus, tracking
<1>2. /\ status \in [Trips -> L!Statuses \cup {"none"}] /\ departure \in [Trips -> Nat \cup {None}]
      /\ now \in Nat /\ points \in Seq(PointRows) /\ latest \in [Trips -> Nat]
    BY DEF RowsOK, TellInv, StoredOK
<1>3. \A p \in DOMAIN points : /\ points[p].trip \in Trips /\ points[p].received \in Nat
                               /\ points[p].received <= now
    <2>1. \A p \in DOMAIN points : points[p] \in PointRows
        BY <1>2
    <2>2. QED
        BY <2>1 DEF TellInv, StoredOK, PointRows
<1>4. StoredOK'
    <2>1. departure' \in [Trips -> Nat \cup {None}] /\ now' \in Nat
        BY <1>1, <1>2
    <2>2. \A p \in DOMAIN points : points[p].received <= now'
        BY <1>1, <1>2, <1>3
    <2>3. QED
        BY <1>1, <1>2, <2>1, <2>2 DEF StoredOK
<1>5. LatestIsNewest'
    BY <1>1 DEF TellInv, PositionsTell, LatestIsNewest, Later
<1>6. PointMovesTrip'
    <2> SUFFICES ASSUME NEW p \in DOMAIN points, NEW u \in Trips, u = points[p].trip, departure'[u] # None,
                        points[p].received >= departure'[u], points[p].captured >= departure'[u]
                 PROVE  status'[u] # "dispatched"
        BY <1>1, <1>3 DEF PointMovesTrip
    <2>1. CASE u = t
        BY <1>1, <1>2, <1>3, <2>1
    <2>2. CASE u # t
        <3>1. departure'[u] = departure[u] /\ status'[u] = status[u]
            BY <1>1, <1>2, <2>2
        <3>2. QED
            BY <3>1 DEF TellInv, PositionsTell, PointMovesTrip
    <2>3. QED
        BY <2>1, <2>2
<1>7. QED
    BY <1>4, <1>5, <1>6 DEF TellInv, PositionsTell

\* Points of a batch.
LEMMA FreshPoints ==
    ASSUME NEW s, NEW batch \in Batches
    PROVE  Fresh(s, batch) \in Seq(Point)
<1> DEFINE left == {k \in DOMAIN batch : Stored(s, batch[k].id) = {}}
<1>1. batch \in Seq(Point)
    <2>1. ASSUME NEW p \in Point, batch = <<p>> PROVE batch \in Seq(Point)
        BY <2>1
    <2>2. ASSUME batch \in Point \X Point PROVE batch \in Seq(Point)
        <3>1. PICK p, q \in Point : batch = <<p, q>>
            BY <2>2
        <3>2. QED
            BY <3>1
    <2>3. QED
        BY <2>1, <2>2 DEF Batches
<1>2. CASE left = DOMAIN batch
    BY <1>1, <1>2 DEF Fresh
<1>3. CASE left = {} /\ left # DOMAIN batch
    BY <1>3 DEF Fresh
<1>4. CASE left # {} /\ left # DOMAIN batch
    <2>1. (CHOOSE k \in left : TRUE) \in DOMAIN batch
        BY <1>4
    <2>2. Fresh(s, batch) = <<batch[CHOOSE k \in left : TRUE]>>
        BY <1>4 DEF Fresh
    <2> HIDE DEF left
    <2>3. batch[CHOOSE k \in left : TRUE] \in Point
        BY <1>1, <2>1
    <2>4. QED
        BY <2>2, <2>3
<1>5. QED
    BY <1>2, <1>3, <1>4

\* Storing a batch moves the trip's last position to the newest of its points, and the trip on its
\* way when a point says so.
LEMMA AppendTells ==
    ASSUME RowsOK, TellInv, NEW s \in DOMAIN sessions, NEW batch \in Batches, AppendLocations(s, batch)
    PROVE  TellInv'
<1> DEFINE t == sessions[s].trip
           fresh == Fresh(s, batch)
           row(k) == [session |-> s, trip |-> t, id |-> fresh[k].id, captured |-> fresh[k].captured, received |-> now]
           rows == points \o [k \in DOMAIN fresh |-> row(k)]
           new == DOMAIN rows \ DOMAIN points
<1>1. /\ points' = rows
      /\ latest' = (IF new = {} THEN latest ELSE [latest EXCEPT ![t] = MovedTo(t, new, rows)])
      /\ IF new # {} /\ Underway(t, rows[Newest(new, rows)]) THEN L!GpsInTransit(t) ELSE UNCHANGED trips
      /\ UNCHANGED <<now, departure>>
    BY Zenon DEF AppendLocations
<1>2. /\ points \in Seq(PointRows) /\ latest \in [Trips -> Nat] /\ now \in Nat
      /\ departure \in [Trips -> Nat \cup {None}] /\ Len(points) \in Nat /\ DOMAIN points = 1 .. Len(points)
      /\ \A p \in DOMAIN points : points[p] \in PointRows /\ points[p].received <= now
    BY DEF TellInv, StoredOK
<1>3. t \in Trips /\ s \in Nat
    <2>1. sessions \in Seq(SessionRows)
        BY DEF RowsOK
    <2>2. sessions[s] \in SessionRows /\ s \in Nat
        BY <2>1
    <2>3. QED
        BY <2>2 DEF SessionRows
<1> HIDE DEF t
<1>4. /\ fresh \in Seq(Point) /\ Len(fresh) \in Nat /\ DOMAIN fresh = 1 .. Len(fresh)
      /\ \A k \in DOMAIN fresh : row(k) \in PointRows
    <2>1. fresh \in Seq(Point)
        BY FreshPoints
    <2> HIDE DEF fresh
    <2>2. \A k \in DOMAIN fresh : fresh[k] \in Point
        BY <2>1
    <2>3. QED
        BY <1>2, <1>3, <2>1, <2>2 DEF Point, PointRows
<1> HIDE DEF fresh
<1>5. /\ rows \in Seq(PointRows) /\ Len(rows) \in Nat /\ DOMAIN rows = 1 .. Len(rows)
      /\ Len(rows) = Len(points) + Len(fresh)
      /\ \A p \in DOMAIN points : rows[p] = points[p]
      /\ \A k \in DOMAIN fresh : rows[Len(points) + k] = row(k)
    <2>1. [k \in DOMAIN fresh |-> row(k)] \in Seq(PointRows) /\ Len([k \in DOMAIN fresh |-> row(k)]) = Len(fresh)
        BY <1>4
    <2>2. QED
        BY <1>2, <1>4, <2>1
<1>6. /\ new = {p \in 1 .. Len(rows) : p > Len(points)} /\ DOMAIN points \subseteq DOMAIN rows
      /\ \A p \in new : rows[p].trip = t /\ rows[p].received = now
    <2>1. new = {p \in 1 .. Len(rows) : p > Len(points)} /\ DOMAIN points \subseteq DOMAIN rows
        BY <1>2, <1>5
    <2>2. ASSUME NEW p \in new PROVE rows[p].trip = t /\ rows[p].received = now
        <3>1. p - Len(points) \in DOMAIN fresh /\ p = Len(points) + (p - Len(points))
            BY <1>2, <1>4, <1>5, <2>1
        <3>2. rows[p] = row(p - Len(points))
            BY <1>5, <3>1
        <3>3. QED
            BY <3>2
    <2>3. QED
        BY <2>1, <2>2
<1> HIDE DEF rows
<1>7. \A p \in DOMAIN rows : /\ rows[p] \in PointRows /\ rows[p].received <= now /\ rows[p].trip \in Trips
                             /\ rows[p].captured \in 0 .. MaxTime + Skew
    <2>1. \A p \in DOMAIN rows : rows[p] \in PointRows
        BY <1>5
    <2>2. \A p \in DOMAIN rows : p \in DOMAIN points \/ p \in new
        OBVIOUS
    <2>3. QED
        <3>1. ASSUME NEW p \in DOMAIN rows PROVE rows[p].received <= now
            <4>1. CASE p \in DOMAIN points
                BY <1>2, <1>5, <4>1
            <4>2. CASE p \in new
                BY <1>2, <1>6, <4>2
            <4>3. QED
                BY <2>2, <4>1, <4>2
        <3>2. \A p \in DOMAIN rows : rows[p].trip \in Trips /\ rows[p].captured \in 0 .. MaxTime + Skew
            BY <2>1 DEF PointRows
        <3>3. QED
            BY <2>1, <3>1, <3>2
<1>8. MaxTime + Skew \in Nat
    BY TrackingAssumption
<1> DEFINE former == {p \in DOMAIN points : points[p].trip = t}
           mine == new \cup ({latest[t]} \ {0})
<1>9. /\ latest[t] = 0 <=> former = {}
      /\ former # {} => latest[t] \in former /\ \A q \in former \ {latest[t]} : Later(latest[t], q, points)
    <2>1. LatestIsNewest
        BY DEF TellInv, PositionsTell
    <2>2. IF former = {} THEN latest[t] = 0
          ELSE latest[t] \in former /\ \A q \in former \ {latest[t]} : Later(latest[t], q, points)
        BY <1>3, <2>1 DEF LatestIsNewest
    <2>3. \A p \in former : p # 0
        BY <1>2
    <2>4. QED
        BY <2>2, <2>3
<1>10. new # {} => /\ latest'[t] \in mine
                   /\ \A q \in mine \ {latest'[t]} : Later(latest'[t], q, rows)
                   /\ Newest(new, rows) \in new
                   /\ \A q \in new \ {Newest(new, rows)} : Later(Newest(new, rows), q, rows)
    <2> SUFFICES ASSUME new # {}
                 PROVE  /\ latest'[t] \in mine
                        /\ \A q \in mine \ {latest'[t]} : Later(latest'[t], q, rows)
                        /\ Newest(new, rows) \in new
                        /\ \A q \in new \ {Newest(new, rows)} : Later(Newest(new, rows), q, rows)
        OBVIOUS
    <2>1. mine \subseteq 1 .. Len(rows) /\ new \subseteq 1 .. Len(rows) /\ mine # {}
        BY <1>2, <1>5, <1>6, <1>9
    <2>2. latest'[t] = Newest(mine, rows)
        BY <1>1, <1>2, <1>3 DEF MovedTo
    <2>3. (\A p \in mine : rows[p].captured \in 0 .. MaxTime + Skew)
          /\ \A p \in new : rows[p].captured \in 0 .. MaxTime + Skew
        BY <1>5, <1>7, <2>1
    <2> HIDE DEF mine, new
    <2>4. Newest(mine, rows) \in mine /\ \A q \in mine \ {Newest(mine, rows)} : Later(Newest(mine, rows), q, rows)
        BY <1>5, <1>8, <2>1, <2>3, NewestIs
    <2>5. Newest(new, rows) \in new /\ \A q \in new \ {Newest(new, rows)} : Later(Newest(new, rows), q, rows)
        BY <1>5, <1>8, <2>1, <2>3, NewestIs
    <2>6. QED
        BY <2>2, <2>4, <2>5
<1>11. \A u \in Trips : LET ofTrip == {p \in DOMAIN rows : rows[p].trip = u}
                        IN IF ofTrip = {} THEN latest'[u] = 0
                           ELSE latest'[u] \in ofTrip /\ \A q \in ofTrip \ {latest'[u]} : Later(latest'[u], q, rows)
    <2> SUFFICES ASSUME NEW u \in Trips
                 PROVE  LET ofTrip == {p \in DOMAIN rows : rows[p].trip = u}
                        IN IF ofTrip = {} THEN latest'[u] = 0
                           ELSE latest'[u] \in ofTrip /\ \A q \in ofTrip \ {latest'[u]} : Later(latest'[u], q, rows)
        OBVIOUS
    <2> DEFINE before == {p \in DOMAIN points : points[p].trip = u}
               after == {p \in DOMAIN rows : rows[p].trip = u}
    <2>1. after = before \cup (IF u = t THEN new ELSE {})
        BY <1>5, <1>6
    <2>2. /\ before = {} => latest[u] = 0
          /\ before # {} => latest[u] \in before /\ \A q \in before \ {latest[u]} : Later(latest[u], q, points)
        BY DEF TellInv, PositionsTell, LatestIsNewest
    <2>3. \A p, q \in DOMAIN points : Later(p, q, points) => Later(p, q, rows)
        BY <1>5 DEF Later
    <2>4. CASE u # t \/ new = {}
        <3>1. latest'[u] = latest[u] /\ after = before
            BY <1>1, <1>2, <2>1, <2>4
        <3>2. QED
            BY <2>2, <2>3, <3>1
    <2>5. CASE u = t /\ new # {}
        <3>1. latest'[t] \in mine /\ \A q \in mine \ {latest'[t]} : Later(latest'[t], q, rows)
            BY <1>10, <2>5
        <3>2. before = former /\ after = former \cup new /\ mine \subseteq after /\ after # {}
            BY <1>9, <2>1, <2>5
        <3>3. ASSUME NEW q \in after \ {latest'[t]} PROVE Later(latest'[t], q, rows)
            <4>1. CASE q \in mine
                BY <3>1, <4>1
            <4>2. CASE q \notin mine
                <5>1. q \in former /\ q # latest[t] /\ latest[t] \in former /\ latest[t] \in mine
                    BY <1>9, <3>2, <4>2
                <5>2. Later(latest[t], q, rows)
                    BY <1>9, <2>3, <5>1
                <5>3. latest'[t] = latest[t] \/ Later(latest'[t], latest[t], rows)
                    BY <3>1, <5>1
                <5>4. /\ q \in DOMAIN rows /\ latest[t] \in DOMAIN rows /\ latest'[t] \in DOMAIN rows
                    BY <1>5, <3>1, <3>2, <5>1
                <5>5. QED
                    BY <1>5, <1>7, <1>8, <5>2, <5>3, <5>4 DEF Later
            <4>3. QED
                BY <4>1, <4>2
        <3>4. QED
            BY <2>5, <3>1, <3>2, <3>3
    <2>6. QED
        BY <2>4, <2>5
<1>12. LatestIsNewest'
    <2>1. points' = rows
        BY <1>1
    <2>2. \A u \in Trips :
              IF {p \in DOMAIN points' : points'[p].trip = u} = {} THEN latest'[u] = 0
              ELSE /\ latest'[u] \in {p \in DOMAIN points' : points'[p].trip = u}
                   /\ \A q \in {p \in DOMAIN points' : points'[p].trip = u} \ {latest'[u]} :
                         \/ points'[latest'[u]].captured > points'[q].captured
                         \/ points'[latest'[u]].captured = points'[q].captured /\ latest'[u] > q
        <3>1. \A u \in Trips :
                  IF {p \in DOMAIN rows : rows[p].trip = u} = {} THEN latest'[u] = 0
                  ELSE /\ latest'[u] \in {p \in DOMAIN rows : rows[p].trip = u}
                       /\ \A q \in {p \in DOMAIN rows : rows[p].trip = u} \ {latest'[u]} :
                             \/ rows[latest'[u]].captured > rows[q].captured
                             \/ rows[latest'[u]].captured = rows[q].captured /\ latest'[u] > q
            BY <1>11 DEF Later
        <3>2. QED
            BY <2>1, <3>1
    <2>3. QED
        BY <2>2, Zenon DEF LatestIsNewest, Later
<1>13. PointMovesTrip'
    <2> SUFFICES ASSUME NEW p \in DOMAIN rows, NEW u \in Trips, u = rows[p].trip, departure[u] # None,
                        rows[p].captured >= departure[u], rows[p].received >= departure[u],
                        status'[u] = "dispatched"
                 PROVE  FALSE
        BY <1>1, <1>7 DEF PointMovesTrip
    <2>1. status \in [Trips -> L!Statuses \cup {"none"}]
        BY DEF RowsOK
    <2>2. /\ status[u] = "dispatched"
          /\ u = t => new = {} \/ ~Underway(t, rows[Newest(new, rows)])
        <3>1. CASE new # {} /\ Underway(t, rows[Newest(new, rows)])
            <4>1. status' = [status EXCEPT ![t] = "in_transit"]
                BY <1>1, <3>1 DEF L!GpsInTransit, L!SetStatus
            <4>2. QED
                BY <1>3, <2>1, <4>1
        <3>2. CASE ~(new # {} /\ Underway(t, rows[Newest(new, rows)]))
            BY <1>1, <3>2 DEF trips
        <3>3. QED
            BY <3>1, <3>2
    <2>3. CASE p \in DOMAIN points
        <3>1. rows[p] = points[p]
            BY <1>5, <2>3
        <3>2. QED
            BY <2>2, <2>3, <3>1 DEF TellInv, PositionsTell, PointMovesTrip
    <2>4. CASE p \notin DOMAIN points
        <3>1. p \in new /\ u = t /\ rows[p].received = now
            BY <1>6, <2>4
        <3>2. PICK q \in new : q = Newest(new, rows) /\ (q = p \/ Later(q, p, rows))
            BY <1>10, <3>1
        <3>3. q \in DOMAIN rows /\ rows[q].received = now
            BY <1>6, <3>2
        <3>4. rows[q].captured \in Nat /\ rows[p].captured \in Nat
            BY <1>7, <1>8, <3>3
        <3>5. departure[u] \in Nat
            BY <1>2
        <3>6. rows[q].captured >= departure[u] /\ rows[q].received >= departure[u]
            BY <3>1, <3>2, <3>3, <3>4, <3>5 DEF Later
        <3>7. Underway(t, rows[Newest(new, rows)])
            BY <2>2, <3>1, <3>2, <3>6 DEF Underway
        <3>8. QED
            BY <2>2, <3>1, <3>7
    <2>5. QED
        BY <2>3, <2>4
<1>14. StoredOK'
    <2>1. latest' \in [Trips -> Nat]
        <3>1. CASE new = {}
            BY <1>1, <1>2, <3>1
        <3>2. CASE new # {}
            <4>1. latest'[t] \in Nat
                BY <1>2, <1>3, <1>5, <1>6, <1>10, <3>2
            <4>2. QED
                BY <1>1, <1>2, <1>3, <3>2, <4>1
        <3>3. QED
            BY <3>1, <3>2
    <2>2. QED
        BY <1>1, <1>2, <1>5, <1>7, <2>1 DEF StoredOK
<1>15. QED
    BY <1>12, <1>13, <1>14 DEF TellInv, PositionsTell

LEMMA NextTells == RowsOK /\ TellInv /\ [Next]_trackingVars => TellInv'
<1> SUFFICES ASSUME RowsOK, TellInv, [Next]_trackingVars PROVE TellInv'
    OBVIOUS
<1>0. now \in Nat /\ now <= now
    BY DEF TellInv, StoredOK
<1>1. ASSUME NEW t \in Trips, TripCommand(t) \/ FinalDispatch(t) PROVE TellInv'
    BY <1>1, CommandTells, DispatchTells
<1>2. CASE \E v \in Vehicles : VehicleCommand(v)
    BY <1>0, <1>2, ElsewhereTells DEF VehicleCommand, L!VehicleStep, L!UpdateVehicleState, L!UpdateVehicle, tracking
<1>3. CASE Tick \/ UNCHANGED trackingVars
    <2>1. now' \in Nat /\ now <= now'
        BY <1>0, <1>3 DEF Tick, trackingVars
    <2>2. QED
        BY <1>3, <2>1, ElsewhereTells DEF Tick, trackingVars, trips, tracking
<1>4. CASE SessionStep
    BY <1>0, <1>4, ElsewhereTells DEF SessionStep, OpenSession, ResumeSession, Expire, StopSession, RevokeSession,
                                             AbandonStart, ReadDevice, trips
<1>5. CASE DeviceStep
    BY <1>0, <1>5, ElsewhereTells DEF DeviceStep, UpdateDevice, UnbindDevice, CommitDevice, Change, trips
<1>6. CASE Upload
    <2>1. ASSUME NEW s \in DOMAIN sessions, NEW batch \in Batches, AppUpload(s, batch) PROVE TellInv'
        BY <2>1, AppendTells DEF AppUpload
    <2>2. ASSUME NEW d \in Devices, NEW batch \in Batches, TrackerUpload(d, batch) PROVE TellInv'
        <3>1. PICK s \in DOMAIN sessions : AppendLocations(s, batch)
            BY <2>2 DEF TrackerUpload, Tracked, ActiveSessions
        <3>2. QED
            BY <3>1, AppendTells
    <2>3. QED
        BY <1>6, <2>1, <2>2 DEF Upload
<1>7. QED
    BY <1>1, <1>2, <1>3, <1>4, <1>5, <1>6 DEF Next

\* The last position of a trip is that of the point captured last, and a dispatched trip with a point
\* of after its departure is on its way, in whatever order, batches and number the points came.
THEOREM PositionsFollow == Spec => []PositionsTell
<1>1. ScopeInv => RowsOK
    BY DEF ScopeInv
<1>2. TellInv => PositionsTell
    BY DEF TellInv
<1>3. QED
    BY <1>1, <1>2, ScopeInit, NextKeepsScope, TellInit, NextTells, PTL DEF Spec

-----------------------------------------------------------------------------
(* The immobilizer.                                                        *)

Commands == [action : Actions, status : CommandStates]
Places == {"recv", "evaluate", "dispatch", "send", "closed"}
Settled == {"sent", "acked"}

\* What the rows, the thread and the wire hold.
WireOK ==
    /\ queue \in Seq(Commands)
    /\ thread \in [at : Places, streak : Nat, command : Nat]
    /\ toTracker \in Seq(Nat)
    /\ obeyed \in Seq(Nat)

\* A command is claimed before those queued after it, and made ready before them.
InQueueOrder ==
    \A m, n \in DOMAIN queue : m < n =>
        /\ queue[n].status \in Settled => queue[m].status \in Settled
        /\ queue[n].status = "ready" => queue[m].status \notin Waiting

Increasing(s) == \A m, n \in DOMAIN s : m < n => s[m] < s[n]
On(s) == {s[n] : n \in DOMAIN s}

SettledIn(rows) == {c \in DOMAIN rows : rows[c].status \in Settled}

\* What was obeyed comes before what is on the wire, and that before what the thread is about to
\* send, all of it claimed.
OnTheWay ==
    /\ Increasing(obeyed) /\ Increasing(toTracker)
    /\ On(obeyed) \cup On(toTracker) \subseteq SettledIn(queue)
    /\ \A a \in On(obeyed), b \in On(toTracker) : a < b
    /\ thread.at = "send" =>
        /\ thread.command \in SettledIn(queue)
        /\ \A a \in On(obeyed) \cup On(toTracker) : a < thread.command

OrderInv == WireOK /\ InQueueOrder /\ OnTheWay

\* At the start nothing is queued, sent or obeyed.
LEMMA OrderInit == ConnectionInit => OrderInv
BY DEF ConnectionInit, OrderInv, WireOK, InQueueOrder, OnTheWay, Increasing, On, SettledIn, Commands, Places, Idle

\* A command queued after all the others of a sequence; the first of a sequence carried out.
LEMMA AppendIncreasing ==
    ASSUME NEW s \in Seq(Nat), NEW x \in Nat, Increasing(s), \A a \in On(s) : a < x
    PROVE  /\ Append(s, x) \in Seq(Nat) /\ Increasing(Append(s, x))
           /\ On(Append(s, x)) = On(s) \cup {x}
<1>1. /\ Append(s, x) \in Seq(Nat) /\ Len(s) \in Nat
      /\ DOMAIN s = 1 .. Len(s) /\ DOMAIN Append(s, x) = 1 .. (Len(s) + 1)
      /\ Append(s, x)[Len(s) + 1] = x /\ \A n \in 1 .. Len(s) : Append(s, x)[n] = s[n]
    OBVIOUS
<1>2. \A n \in DOMAIN s : s[n] < x
    BY DEF On
<1>3. Increasing(Append(s, x))
    BY <1>1, <1>2 DEF Increasing
<1>4. On(Append(s, x)) = On(s) \cup {x}
    BY <1>1 DEF On
<1>5. QED
    BY <1>1, <1>3, <1>4

\* The first of a sequence of commands comes before the rest.
LEMMA TailIncreasing ==
    ASSUME NEW s \in Seq(Nat), s # <<>>, Increasing(s)
    PROVE  /\ Tail(s) \in Seq(Nat) /\ Increasing(Tail(s)) /\ On(Tail(s)) \subseteq On(s)
           /\ Head(s) \in Nat \cap On(s) /\ \A a \in On(Tail(s)) : Head(s) < a
<1>1. /\ Tail(s) \in Seq(Nat) /\ Len(s) \in Nat \ {0} /\ Head(s) = s[1] /\ s[1] \in Nat
      /\ DOMAIN s = 1 .. Len(s) /\ DOMAIN Tail(s) = 1 .. (Len(s) - 1)
      /\ \A n \in 1 .. (Len(s) - 1) : Tail(s)[n] = s[n + 1]
    OBVIOUS
<1>2. 1 \in DOMAIN s /\ \A n \in DOMAIN Tail(s) : n + 1 \in DOMAIN s /\ 1 < n + 1
    BY <1>1
<1>3. Increasing(Tail(s))
    <2> SUFFICES ASSUME NEW m \in DOMAIN Tail(s), NEW n \in DOMAIN Tail(s), m < n PROVE Tail(s)[m] < Tail(s)[n]
        BY DEF Increasing
    <2>1. m + 1 < n + 1
        BY <1>1
    <2>2. QED
        BY <1>1, <1>2, <2>1 DEF Increasing
<1>4. On(Tail(s)) \subseteq On(s) /\ Head(s) \in On(s)
    BY <1>1, <1>2 DEF On
<1>5. \A n \in DOMAIN Tail(s) : s[1] < Tail(s)[n]
    BY <1>1, <1>2 DEF Increasing
<1>6. \A a \in On(Tail(s)) : Head(s) < a
    BY <1>1, <1>5 DEF On
<1>7. QED
    BY <1>1, <1>3, <1>4, <1>6

\* A step that settles nothing anew and neither sends nor obeys keeps what is on the way.
LEMMA StillOnTheWay ==
    ASSUME OrderInv, queue' \in Seq(Commands), UNCHANGED obeyed,
           toTracker' = toTracker \/ toTracker' = <<>>,
           \A c \in DOMAIN queue : c \in DOMAIN queue' /\ (queue[c].status \in Settled => queue'[c].status \in Settled),
           thread'.at = "send" => thread' = thread
    PROVE  OnTheWay'
<1>1. SettledIn(queue) \subseteq SettledIn(queue')
    BY DEF SettledIn
<1>2. On(<<>>) = {} /\ Increasing(<<>>)
    BY DEF On, Increasing
<1>3. QED
    BY <1>1, <1>2 DEF OrderInv, OnTheWay

\* A command is queued after all the others.
LEMMA RequestKeeps == ASSUME OrderInv, NEW action \in Actions, Request(action) PROVE OrderInv'
<1>1. PICK s \in Waiting : queue' = Append(queue, [action |-> action, status |-> s])
    BY DEF Request, Waiting
<1>2. [action |-> action, status |-> s] \in Commands
    BY DEF Commands, CommandStates, Waiting
<1>3. queue' \in Seq(Commands) /\ Len(queue') = Len(queue) + 1 /\ queue'[Len(queue) + 1].status = s
      /\ \A c \in 1 .. Len(queue) : queue'[c] = queue[c]
    BY <1>1, <1>2 DEF OrderInv, WireOK
<1>4. DOMAIN queue = 1 .. Len(queue) /\ DOMAIN queue' = 1 .. (Len(queue) + 1) /\ Len(queue) \in Nat
    BY <1>3 DEF OrderInv, WireOK
<1>5. WireOK'
    BY <1>3 DEF Request, OrderInv, WireOK, wire, onBoard
<1>6. InQueueOrder'
    BY <1>3, <1>4 DEF OrderInv, InQueueOrder, Settled, Waiting
<1>7. OnTheWay'
    BY <1>3, <1>4, StillOnTheWay DEF Request, wire, onBoard
<1>8. QED
    BY <1>5, <1>6, <1>7 DEF OrderInv

\* The commands made ready are the first that wait, and none that wait comes before them.
LEMMA ReadyKeeps == ASSUME OrderInv, MarkReady PROVE OrderInv'
<1>1. /\ queue' = [c \in DOMAIN queue |-> IF Eligible(c) THEN [queue[c] EXCEPT !.status = "ready"] ELSE queue[c]]
      /\ thread' = [thread EXCEPT !.at = "dispatch"] /\ UNCHANGED <<toTracker, obeyed>>
    BY DEF MarkReady, wire, onBoard
<1>2. queue \in Seq(Commands) /\ DOMAIN queue = 1 .. Len(queue) /\ Len(queue) \in Nat
    BY DEF OrderInv, WireOK
<1>3. \A c \in DOMAIN queue : queue[c] \in Commands
    BY <1>2
<1>4. queue' \in Seq(Commands) /\ DOMAIN queue' = DOMAIN queue
    <2>1. \A c \in DOMAIN queue : queue'[c] \in Commands
        BY <1>1, <1>3 DEF Commands, CommandStates
    <2>2. QED
        BY <1>1, <1>2, <2>1
<1>5. \A c \in DOMAIN queue : /\ Eligible(c) => queue'[c].status = "ready" /\ queue[c].status \in Waiting
                              /\ ~Eligible(c) => queue'[c] = queue[c]
    BY <1>1, <1>3 DEF Eligible, IsFirst, InState, Commands
<1>6. \A c, d \in DOMAIN queue : Eligible(c) /\ d < c => queue[d].status \notin Waiting
    BY <1>2 DEF Eligible, IsFirst, InState
<1>7. WireOK'
    BY <1>1, <1>4 DEF OrderInv, WireOK, Places
<1>8. InQueueOrder'
    <2> SUFFICES ASSUME NEW m \in DOMAIN queue, NEW n \in DOMAIN queue, m < n
                 PROVE  /\ queue'[n].status \in Settled => queue'[m].status \in Settled
                        /\ queue'[n].status = "ready" => queue'[m].status \notin Waiting
        BY <1>4 DEF InQueueOrder
    <2>1. /\ queue[n].status \in Settled => queue[m].status \in Settled
          /\ queue[n].status = "ready" => queue[m].status \notin Waiting
        BY DEF OrderInv, InQueueOrder
    <2>2. QED
        BY <1>5, <1>6, <2>1 DEF Settled, Waiting
<1>9. OnTheWay'
    BY <1>1, <1>4, <1>5, StillOnTheWay DEF OrderInv, WireOK, Settled, Waiting
<1>10. QED
    BY <1>7, <1>8, <1>9 DEF OrderInv

\* Everything on the way is before the first command that is ready.
LEMMA ClaimKeeps == ASSUME OrderInv, NEW c \in DOMAIN queue, Claim(c) PROVE OrderInv'
<1>1. /\ queue' = [queue EXCEPT ![c].status = "sent"]
      /\ thread' = [thread EXCEPT !.at = "send", !.command = c] /\ UNCHANGED <<toTracker, obeyed>>
      /\ queue[c].status = "ready" /\ \A d \in DOMAIN queue : queue[d].status = "ready" => c <= d
    BY DEF Claim, Claimed, IsFirst, InState, wire, onBoard
<1>2. queue \in Seq(Commands) /\ DOMAIN queue = 1 .. Len(queue) /\ Len(queue) \in Nat
    BY DEF OrderInv, WireOK
<1>3. \A d \in DOMAIN queue : queue[d] \in Commands
    BY <1>2
<1>4. /\ queue' \in Seq(Commands) /\ DOMAIN queue' = DOMAIN queue /\ queue'[c].status = "sent"
      /\ \A d \in DOMAIN queue \ {c} : queue'[d] = queue[d]
    <2>1. [queue[c] EXCEPT !.status = "sent"] \in Commands
        BY <1>3 DEF Commands, CommandStates
    <2>2. QED
        BY <1>1, <1>2, <1>3, <2>1 DEF Commands
<1>5. \A d \in DOMAIN queue : d < c => queue[d].status \in Settled
    <2> SUFFICES ASSUME NEW d \in DOMAIN queue, d < c PROVE queue[d].status \in Settled
        OBVIOUS
    <2>1. queue[d].status \notin Waiting
        BY <1>1 DEF OrderInv, InQueueOrder
    <2>2. queue[d].status # "ready"
        BY <1>1, <1>2
    <2>3. QED
        BY <1>3, <2>1, <2>2 DEF Commands, CommandStates, Waiting, Settled
<1>6. \A d \in SettledIn(queue) : d < c
    BY <1>1, <1>2 DEF SettledIn, OrderInv, InQueueOrder, Settled
<1>7. SettledIn(queue) \subseteq SettledIn(queue') /\ c \in SettledIn(queue')
    BY <1>4 DEF SettledIn, Settled
<1>8. thread' \in [at : Places, streak : Nat, command : Nat] /\ thread'.at = "send" /\ thread'.command = c
    <2>1. thread \in [at : Places, streak : Nat, command : Nat] /\ c \in Nat /\ "send" \in Places
        BY <1>2 DEF OrderInv, WireOK, Places
    <2>2. QED
        BY <1>1, <2>1
<1>9. WireOK'
    BY <1>1, <1>4, <1>8 DEF OrderInv, WireOK
<1>10. InQueueOrder'
    BY <1>1, <1>2, <1>4, <1>5 DEF OrderInv, InQueueOrder, Settled, Waiting
<1>11. OnTheWay'
    BY <1>1, <1>6, <1>7, <1>8 DEF OrderInv, OnTheWay
<1>12. QED
    BY <1>9, <1>10, <1>11 DEF OrderInv

\* A command is sent after everything sent before it.
LEMMA SendKeeps == ASSUME OrderInv, Send PROVE OrderInv'
<1>1. /\ thread.at = "send" /\ thread' = [thread EXCEPT !.at = "recv"] /\ UNCHANGED <<queue, obeyed>>
      /\ toTracker' = IF link THEN Append(toTracker, thread.command) ELSE toTracker
    BY DEF Send, onBoard
<1>2. thread' \in [at : Places, streak : Nat, command : Nat] /\ thread'.at = "recv" /\ thread.command \in Nat
    BY <1>1 DEF OrderInv, WireOK, Places
<1>3. /\ toTracker \in Seq(Nat) /\ Increasing(toTracker) /\ thread.command \in SettledIn(queue)
      /\ \A a \in On(obeyed) \cup On(toTracker) : a < thread.command
    BY <1>1 DEF OrderInv, WireOK, OnTheWay
<1>4. /\ toTracker' \in Seq(Nat) /\ Increasing(toTracker')
      /\ On(toTracker') \subseteq On(toTracker) \cup {thread.command}
    BY <1>1, <1>2, <1>3, AppendIncreasing
<1>5. WireOK'
    BY <1>1, <1>2, <1>4 DEF OrderInv, WireOK
<1>6. InQueueOrder'
    BY <1>1 DEF OrderInv, InQueueOrder
<1>7. OnTheWay'
    BY <1>1, <1>2, <1>3, <1>4 DEF OrderInv, OnTheWay
<1>8. QED
    BY <1>5, <1>6, <1>7 DEF OrderInv

\* The tracker carries out the first command on the wire.
LEMMA ObeyKeeps == ASSUME OrderInv, Obey PROVE OrderInv'
<1>1. /\ toTracker # <<>> /\ toTracker' = Tail(toTracker) /\ obeyed' = Append(obeyed, Head(toTracker))
      /\ UNCHANGED <<queue, thread>>
    BY DEF Obey, server
<1>2. /\ obeyed \in Seq(Nat) /\ toTracker \in Seq(Nat) /\ Increasing(obeyed) /\ Increasing(toTracker)
    BY DEF OrderInv, WireOK, OnTheWay
<1>3. /\ toTracker' \in Seq(Nat) /\ Increasing(toTracker') /\ On(toTracker') \subseteq On(toTracker)
      /\ Head(toTracker) \in Nat \cap On(toTracker) /\ \A a \in On(toTracker') : Head(toTracker) < a
    BY <1>1, <1>2, TailIncreasing
<1>4. /\ obeyed' \in Seq(Nat) /\ Increasing(obeyed') /\ On(obeyed') = On(obeyed) \cup {Head(toTracker)}
    BY <1>1, <1>2, <1>3, AppendIncreasing DEF OrderInv, OnTheWay
<1>5. WireOK'
    BY <1>1, <1>3, <1>4 DEF OrderInv, WireOK
<1>6. InQueueOrder'
    BY <1>1 DEF OrderInv, InQueueOrder
<1>7. OnTheWay'
    BY <1>1, <1>3, <1>4 DEF OrderInv, OnTheWay
<1>8. QED
    BY <1>5, <1>6, <1>7 DEF OrderInv

\* An answer settles nothing that was not sent.
LEMMA AnswerKeeps == ASSUME OrderInv, ReceiveAnswer PROVE OrderInv'
<1>1. /\ queue' = [c \in DOMAIN queue |->
                    IF \E n \in DOMAIN claimed : claimed[n] = c /\ Answered(n)
                    THEN [queue[c] EXCEPT !.status = "acked"] ELSE queue[c]]
      /\ UNCHANGED <<thread, toTracker, obeyed>>
    BY DEF ReceiveAnswer, onBoard
<1>2. queue \in Seq(Commands) /\ DOMAIN queue = 1 .. Len(queue) /\ Len(queue) \in Nat
    BY DEF OrderInv, WireOK
<1>3. \A c \in DOMAIN queue : queue[c] \in Commands
    BY <1>2
<1>4. \A c \in DOMAIN queue :
        \/ queue'[c] = queue[c]
        \/ queue[c].status = "sent" /\ queue'[c].status = "acked" /\ queue'[c] \in Commands
    BY <1>1, <1>3 DEF Answered, RecentlySent, Commands, CommandStates
<1>5. queue' \in Seq(Commands) /\ DOMAIN queue' = DOMAIN queue
    BY <1>1, <1>2, <1>3, <1>4
<1>6. WireOK'
    BY <1>1, <1>5 DEF OrderInv, WireOK
<1>7. InQueueOrder'
    BY <1>4, <1>5 DEF OrderInv, InQueueOrder, Settled, Waiting
<1>8. OnTheWay'
    BY <1>1, <1>4, <1>5, StillOnTheWay DEF Settled
<1>9. QED
    BY <1>6, <1>7, <1>8 DEF OrderInv

\* The steps that change the thread, lose what is on the wire, or move the vehicle.
LEMMA OtherKeeps ==
    ASSUME OrderInv, UNCHANGED <<queue, obeyed>>, toTracker' = toTracker \/ toTracker' = <<>>,
           thread' \in [at : Places, streak : Nat, command : Nat], thread'.at = "send" => thread' = thread
    PROVE  OrderInv'
<1>1. WireOK'
    <2>1. toTracker \in Seq(Nat) /\ <<>> \in Seq(Nat)
        BY DEF OrderInv, WireOK
    <2>2. toTracker' \in Seq(Nat)
        <3>1. CASE toTracker' = toTracker
            BY <2>1, <3>1
        <3>2. CASE toTracker' = <<>>
            BY <2>1, <3>2
        <3>3. QED
            BY <3>1, <3>2
    <2>3. QED
        BY <2>2 DEF OrderInv, WireOK
<1>2. InQueueOrder'
    BY DEF OrderInv, InQueueOrder
<1>3. OnTheWay'
    BY StillOnTheWay DEF OrderInv, WireOK
<1>4. QED
    BY <1>1, <1>2, <1>3 DEF OrderInv

\* A point moves the thread on, and no command.
LEMMA PointKeeps ==
    ASSUME OrderInv, NEW isMoving, NEW newest, ReceivePoint(isMoving, newest)
    PROVE  OrderInv'
<1>1. thread \in [at : Places, streak : Nat, command : Nat]
    BY DEF OrderInv, WireOK
<1> DEFINE streak == IF isMoving THEN 0 ELSE Lesser(thread.streak + 1, StopStreak)
           at == IF streak = StopStreak THEN "evaluate" ELSE "recv"
<1>2. streak \in Nat /\ at \in {"evaluate", "recv"}
    BY <1>1 DEF Lesser, StopStreak
<1>3. thread' \in [at : Places, streak : Nat, command : Nat] /\ thread'.at # "send"
    <2>1. thread' = [thread EXCEPT !.streak = streak, !.at = at]
        BY DEF ReceivePoint
    <2> HIDE DEF streak, at
    <2>2. QED
        BY <1>1, <1>2, <2>1 DEF Places
<1>4. UNCHANGED <<queue, obeyed, toTracker>>
    BY DEF ReceivePoint, wire, onBoard
<1>5. QED
    BY <1>3, <1>4, OtherKeeps

\* Every step keeps the order.
LEMMA NextKeeps == OrderInv /\ [ConnectionNext]_immobilizerVars => OrderInv'
<1> SUFFICES ASSUME OrderInv, [ConnectionNext]_immobilizerVars PROVE OrderInv'
    OBVIOUS
<1>1. thread \in [at : Places, streak : Nat, command : Nat]
    BY DEF OrderInv, WireOK
<1>2. CASE NothingToSend \/ Close \/ Restart \/ Connect
    <2>1. thread' \in [at : Places, streak : Nat, command : Nat] /\ thread'.at # "send"
        BY <1>1, <1>2 DEF NothingToSend, Close, Restart, Connect, Idle, Places
    <2>2. UNCHANGED <<queue, obeyed>> /\ (toTracker' = toTracker \/ toTracker' = <<>>)
        BY <1>2 DEF NothingToSend, Close, Restart, Connect, Unplugged, wire, onBoard
    <2>3. QED
        BY <2>1, <2>2, OtherKeeps
<1>3. CASE SetOff \/ Halt \/ Break \/ (\E n \in DOMAIN claimed : Age(n)) \/ UNCHANGED immobilizerVars
    <2>1. UNCHANGED <<thread, queue, obeyed>> /\ (toTracker' = toTracker \/ toTracker' = <<>>)
        BY <1>3 DEF SetOff, Halt, Break, Age, Unplugged, immobilizerVars, server, wire, onBoard
    <2>2. QED
        BY <1>1, <2>1, OtherKeeps
<1>4. QED
    BY <1>2, <1>3, RequestKeeps, ReadyKeeps, ClaimKeeps, SendKeeps, ObeyKeeps, AnswerKeeps, PointKeeps
       DEF ConnectionNext, Handle, Report, ReportLate

\* Whatever breaks or restarts, the tracker carries commands out in the order in which the office
\* queued them, and none twice.
THEOREM Obedient == ConnectionSpec => []ObeyedInOrder
<1>1. OrderInv => ObeyedInOrder
    BY DEF OrderInv, OnTheWay, Increasing, ObeyedInOrder
<1>2. QED
    BY <1>1, OrderInit, NextKeeps, PTL DEF ConnectionSpec

-----------------------------------------------------------------------------
(* What is acked was obeyed.                                               *)

AckedIn(rows) == {c \in DOMAIN rows : rows[c].status = "acked"}

\* Every acked command and every answer on its way stands for a command obeyed, though not for that
\* very one; the n-th command obeyed is the n-th queued or a later one; and the relay is as the last
\* one obeyed said.
AckInv ==
    /\ answers \in Nat /\ claimed \in Seq(Nat)
    /\ Cardinality(AckedIn(queue)) + answers <= Len(obeyed)
    /\ \A n \in DOMAIN obeyed : obeyed[n] >= n
    /\ relay = IF obeyed = <<>> THEN "UNBLOCK" ELSE queue[obeyed[Len(obeyed)]].action

\* At the start nothing is acked or obeyed.
LEMMA AckInit == ConnectionInit => AckInv
<1> SUFFICES ASSUME ConnectionInit PROVE AckInv
    OBVIOUS
<1>1. AckedIn(queue) = {}
    BY DEF ConnectionInit, AckedIn
<1>2. QED
    BY <1>1, FS_EmptySet DEF ConnectionInit, AckInv

\* The commands are numbered from one, those that are acked are finitely many, and what was obeyed is
\* among the commands.
LEMMA AckedFinite ==
    ASSUME OrderInv
    PROVE  /\ DOMAIN queue = 1 .. Len(queue) /\ Len(queue) \in Nat
           /\ IsFiniteSet(AckedIn(queue)) /\ Cardinality(AckedIn(queue)) \in Nat
           /\ obeyed \in Seq(Nat) /\ Len(obeyed) \in Nat /\ DOMAIN obeyed = 1 .. Len(obeyed)
           /\ \A n \in DOMAIN obeyed : obeyed[n] \in DOMAIN queue
<1>1. DOMAIN queue = 1 .. Len(queue) /\ Len(queue) \in Nat
    BY DEF OrderInv, WireOK
<1>2. IsFiniteSet(1 .. Len(queue)) /\ AckedIn(queue) \in SUBSET (1 .. Len(queue))
    BY <1>1, FS_Interval DEF AckedIn
<1>3. IsFiniteSet(AckedIn(queue))
    BY <1>2, FS_Subset
<1>4. Cardinality(AckedIn(queue)) \in Nat
    BY <1>3, FS_CardinalityType
<1>5. obeyed \in Seq(Nat) /\ Len(obeyed) \in Nat /\ DOMAIN obeyed = 1 .. Len(obeyed)
    BY DEF OrderInv, WireOK
<1>6. \A n \in DOMAIN obeyed : obeyed[n] \in DOMAIN queue
    BY DEF OrderInv, OnTheWay, On, SettledIn
<1>7. QED
    BY <1>1, <1>3, <1>4, <1>5, <1>6

\* A step that neither obeys nor takes an answer up, though it may lose the answers, and acks nothing.
LEMMA ElsewhereAcks ==
    ASSUME OrderInv, AckInv, UNCHANGED <<relay, obeyed>>, answers' = answers \/ answers' = 0, claimed' \in Seq(Nat),
           AckedIn(queue') = AckedIn(queue),
           \A c \in DOMAIN queue : queue'[c].action = queue[c].action
    PROVE  AckInv'
<1>1. /\ answers' \in Nat
      /\ Cardinality(AckedIn(queue')) + answers' <= Len(obeyed')
    BY AckedFinite DEF AckInv
<1>2. obeyed # <<>> => obeyed[Len(obeyed)] \in DOMAIN queue
    BY AckedFinite
<1>3. QED
    BY <1>1, <1>2 DEF AckInv

\* The tracker obeys a command queued after all those it has obeyed, and answers.
LEMMA ObeyAcks == ASSUME OrderInv, AckInv, Obey PROVE AckInv'
<1> DEFINE first == Head(toTracker)
           last == Len(obeyed)
<1>1. /\ toTracker # <<>> /\ obeyed' = Append(obeyed, first) /\ answers' = answers + 1
      /\ relay' = queue[first].action /\ UNCHANGED <<queue, claimed>>
    BY DEF Obey, server
<1>2. /\ obeyed \in Seq(Nat) /\ last \in Nat /\ DOMAIN obeyed = 1 .. last
    BY AckedFinite
<1>3. first \in Nat \cap On(toTracker)
    BY <1>1, TailIncreasing DEF OrderInv, WireOK, OnTheWay
<1>4. \A n \in DOMAIN obeyed : obeyed[n] < first
    BY <1>3 DEF OrderInv, OnTheWay, On
<1>5. first \in DOMAIN queue
    BY <1>3 DEF OrderInv, OnTheWay, SettledIn
<1>6. first >= last + 1
    <2>1. CASE last = 0
        BY <1>5, <2>1, AckedFinite
    <2>2. CASE last # 0
        <3>1. last \in DOMAIN obeyed /\ obeyed[last] \in Nat
            BY <1>2, <2>2
        <3>2. obeyed[last] < first /\ obeyed[last] >= last
            BY <1>4, <3>1 DEF AckInv
        <3>3. QED
            BY <1>2, <1>3, <3>1, <3>2
    <2>3. QED
        BY <2>1, <2>2
<1> HIDE DEF first
<1>7. /\ Len(obeyed') = last + 1 /\ DOMAIN obeyed' = 1 .. (last + 1) /\ obeyed' # <<>>
      /\ obeyed'[last + 1] = first /\ \A n \in 1 .. last : obeyed'[n] = obeyed[n]
    BY <1>1, <1>2, <1>3
<1>8. \A n \in DOMAIN obeyed' : obeyed'[n] >= n
    BY <1>2, <1>6, <1>7, SMTT(30) DEF AckInv
<1>9. /\ answers' \in Nat /\ claimed' \in Seq(Nat)
      /\ Cardinality(AckedIn(queue')) + answers' <= Len(obeyed')
    BY <1>1, <1>2, <1>7, AckedFinite DEF AckInv
<1>10. relay' = IF obeyed' = <<>> THEN "UNBLOCK" ELSE queue'[obeyed'[Len(obeyed')]].action
    BY <1>1, <1>7
<1>11. QED
    BY <1>8, <1>9, <1>10 DEF AckInv

\* An answer taken up is one less on its way, and acks one command at most: the last one claimed.
LEMMA AnswerAcks == ASSUME OrderInv, AckInv, ReceiveAnswer PROVE AckInv'
<1>1. /\ queue' = [c \in DOMAIN queue |->
                    IF \E n \in DOMAIN claimed : claimed[n] = c /\ Answered(n)
                    THEN [queue[c] EXCEPT !.status = "acked"] ELSE queue[c]]
      /\ answers > 0 /\ answers' = answers - 1 /\ UNCHANGED <<relay, obeyed, claimed>>
    BY DEF ReceiveAnswer, onBoard
<1>2. \A c \in DOMAIN queue : queue[c] \in Commands
    BY DEF OrderInv, WireOK
<1>3. DOMAIN queue' = DOMAIN queue /\ \A c \in DOMAIN queue : queue'[c].action = queue[c].action
    BY <1>1, <1>2 DEF Commands
<1>4. \E d : AckedIn(queue') \subseteq AckedIn(queue) \cup {d}
    <2>1. CASE \E n \in DOMAIN claimed : Answered(n)
        <3>1. PICK n \in DOMAIN claimed : Answered(n)
            BY <2>1
        <3>2. \A m \in DOMAIN claimed : Answered(m) => m = n
            <4>1. DOMAIN claimed \subseteq Nat
                BY DEF AckInv
            <4>2. QED
                BY <3>1, <4>1 DEF Answered, RecentlySent
        <3>3. AckedIn(queue') \subseteq AckedIn(queue) \cup {claimed[n]}
            BY <1>1, <1>3, <3>2 DEF AckedIn
        <3>4. QED
            BY <3>3
    <2>2. CASE ~\E n \in DOMAIN claimed : Answered(n)
        BY <1>1, <1>3, <2>2 DEF AckedIn
    <2>3. QED
        BY <2>1, <2>2
<1>5. PICK d : AckedIn(queue') \in SUBSET (AckedIn(queue) \cup {d})
    BY <1>4
<1>6. /\ IsFiniteSet(AckedIn(queue) \cup {d})
      /\ Cardinality(AckedIn(queue) \cup {d}) <= Cardinality(AckedIn(queue)) + 1
      /\ Cardinality(AckedIn(queue) \cup {d}) \in Nat
    <2>1. IsFiniteSet(AckedIn(queue)) /\ Cardinality(AckedIn(queue)) \in Nat
        BY AckedFinite
    <2>2. /\ IsFiniteSet(AckedIn(queue) \cup {d})
          /\ Cardinality(AckedIn(queue) \cup {d}) =
                IF d \in AckedIn(queue) THEN Cardinality(AckedIn(queue)) ELSE Cardinality(AckedIn(queue)) + 1
        BY <2>1, FS_AddElement, Zenon
    <2>3. QED
        BY <2>1, <2>2
<1>7. /\ Cardinality(AckedIn(queue')) <= Cardinality(AckedIn(queue) \cup {d})
      /\ Cardinality(AckedIn(queue')) \in Nat
    BY <1>5, <1>6, FS_Subset, FS_CardinalityType
<1>8. /\ answers' \in Nat /\ claimed' \in Seq(Nat)
      /\ Cardinality(AckedIn(queue')) + answers' <= Len(obeyed')
    BY <1>1, <1>6, <1>7, AckedFinite DEF AckInv
<1>9. obeyed # <<>> => obeyed[Len(obeyed)] \in DOMAIN queue
    BY AckedFinite
<1>10. QED
    BY <1>1, <1>3, <1>8, <1>9 DEF AckInv

\* Every step keeps the count.
LEMMA NextAcks == OrderInv /\ AckInv /\ [ConnectionNext]_immobilizerVars => AckInv'
<1> SUFFICES ASSUME OrderInv, AckInv, [ConnectionNext]_immobilizerVars PROVE AckInv'
    OBVIOUS
<1>1. /\ \A c \in DOMAIN queue : queue[c] \in Commands
      /\ queue \in Seq(Commands) /\ DOMAIN queue = 1 .. Len(queue) /\ Len(queue) \in Nat
    BY DEF OrderInv, WireOK
<1>2. ASSUME NEW action \in Actions, Request(action) PROVE AckInv'
    <2>1. PICK s \in Waiting : queue' = Append(queue, [action |-> action, status |-> s])
        BY <1>2 DEF Request, Waiting
    <2>2. DOMAIN queue' = 1 .. (Len(queue) + 1) /\ queue'[Len(queue) + 1].status = s
          /\ \A c \in 1 .. Len(queue) : queue'[c] = queue[c]
        BY <1>1, <2>1
    <2>3. AckedIn(queue') = AckedIn(queue)
        BY <1>1, <2>2 DEF AckedIn, Waiting
    <2>4. UNCHANGED <<relay, obeyed, answers>> /\ claimed' \in Seq(Nat)
        BY <1>2 DEF Request, wire, onBoard, AckInv
    <2>5. QED
        BY <1>1, <2>2, <2>3, <2>4, ElsewhereAcks
<1>3. CASE MarkReady
    <2>1. /\ queue' = [c \in DOMAIN queue |-> IF Eligible(c) THEN [queue[c] EXCEPT !.status = "ready"] ELSE queue[c]]
          /\ UNCHANGED <<relay, obeyed, answers>> /\ claimed' \in Seq(Nat)
        BY <1>3 DEF MarkReady, wire, onBoard, AckInv
    <2>2. \A c \in DOMAIN queue : queue'[c].action = queue[c].action
        BY <1>1, <2>1 DEF Commands
    <2>3. \A c \in DOMAIN queue : queue'[c].status = "acked" <=> queue[c].status = "acked"
        BY <1>1, <2>1 DEF Commands, Eligible, IsFirst, InState, Waiting
    <2>4. AckedIn(queue') = AckedIn(queue)
        BY <2>1, <2>3 DEF AckedIn
    <2>5. QED
        BY <2>1, <2>2, <2>4, ElsewhereAcks
<1>4. ASSUME NEW c \in DOMAIN queue, Claim(c) PROVE AckInv'
    <2>1. /\ queue' = [queue EXCEPT ![c].status = "sent"] /\ queue[c].status = "ready"
          /\ UNCHANGED <<relay, obeyed, answers>> /\ claimed' = Append(claimed, c)
        BY <1>4 DEF Claim, Claimed, IsFirst, InState, wire, onBoard
    <2>2. /\ DOMAIN queue' = DOMAIN queue /\ queue'[c].status = "sent" /\ queue'[c].action = queue[c].action
          /\ \A d \in DOMAIN queue \ {c} : queue'[d] = queue[d]
        BY <1>1, <2>1 DEF Commands
    <2>3. AckedIn(queue') = AckedIn(queue)
        BY <2>1, <2>2 DEF AckedIn
    <2>4. claimed' \in Seq(Nat)
        BY <1>1, <2>1 DEF AckInv
    <2>5. QED
        BY <2>1, <2>2, <2>3, <2>4, ElsewhereAcks
<1>5. CASE UNCHANGED <<queue, relay, obeyed, claimed>> /\ (answers' = answers \/ answers' = 0)
    BY <1>5, ElsewhereAcks DEF AckInv
<1>6. CASE NothingToSend \/ Send \/ Close \/ Report \/ ReportLate \/ SetOff \/ Halt \/ UNCHANGED immobilizerVars
    BY <1>5, <1>6 DEF NothingToSend, Send, Close, Report, ReportLate, ReceivePoint, SetOff, Halt,
                      immobilizerVars, server, wire, onBoard
<1>7. CASE Break \/ Restart \/ Connect \/ \E n \in DOMAIN claimed : Age(n)
    BY <1>5, <1>7 DEF Break, Restart, Connect, Age, Unplugged, server, wire, onBoard
<1>8. QED
    BY <1>2, <1>3, <1>4, <1>6, <1>7, ObeyAcks, AnswerAcks DEF ConnectionNext, Handle

\* Once every command is acked, every command was obeyed, the last one last.
LEMMA AckedIsInForce == OrderInv /\ AckInv => AllAckedInForce
<1> SUFFICES ASSUME OrderInv, AckInv, queue # <<>>, InState({"acked"}) = DOMAIN queue
             PROVE  relay = queue[Len(queue)].action
    BY DEF AllAckedInForce
<1>1. DOMAIN queue = 1 .. Len(queue) /\ Len(queue) \in Nat /\ Len(queue) > 0
    BY AckedFinite DEF OrderInv, WireOK
<1>2. AckedIn(queue) = 1 .. Len(queue)
    BY <1>1 DEF AckedIn, InState
<1>3. Cardinality(AckedIn(queue)) = Len(queue)
    BY <1>1, <1>2, FS_Interval
<1>4. Len(obeyed) \in Nat /\ Len(obeyed) >= Len(queue)
    BY <1>1, <1>3, AckedFinite DEF AckInv
<1>5. Len(obeyed) \in DOMAIN obeyed /\ obeyed # <<>>
    BY <1>1, <1>4, AckedFinite
<1>6. obeyed[Len(obeyed)] >= Len(obeyed) /\ obeyed[Len(obeyed)] \in 1 .. Len(queue)
    BY <1>1, <1>5, AckedFinite DEF AckInv
<1>7. obeyed[Len(obeyed)] = Len(queue)
    BY <1>1, <1>4, <1>6
<1>8. QED
    BY <1>5, <1>7 DEF AckInv

\* Though answers name no command, and may be lost, late or put down to a later command than they
\* were given for: once every command is acked, the relay is as the last of them said.
THEOREM AckedInForce == ConnectionSpec => []AllAckedInForce
BY AckInit, NextAcks, AckedIsInForce, OrderInit, NextKeeps, PTL DEF ConnectionSpec

-----------------------------------------------------------------------------
(* The alarms.                                                             *)

\* An alarm that was sent is remembered: by the run that sent it until it is committed,
\* and by the row afterwards.
AlertInv ==
    /\ flag \in [Numbers -> SUBSET Alarms]
    /\ told \in [Numbers -> [Alarms -> {"no", "sent", "dropped"}]]
    /\ job.open \in BOOLEAN
    /\ ~job.open => job = NoJob
    /\ job.open => job \in [open : BOOLEAN, flags : [Numbers -> SUBSET Alarms], left : SUBSET Numbers]
    /\ \A v \in Numbers, a \in Alarms : told[v][a] = "sent" => a \in (IF job.open THEN job.flags[v] ELSE flag[v])

LEMMA ToldIs ==
    ASSUME NEW flags \in SUBSET Alarms, NEW alarm \in Alarms, NEW on, NEW was \in {"no", "sent", "dropped"},
           was = "sent" => alarm \in flags
    PROVE  /\ Remembered(flags, alarm, on) \in SUBSET Alarms
           /\ Remembered(flags, alarm, on) \ {alarm} = flags \ {alarm}
           /\ Told(was, alarm \in flags, on) \in {"no", "sent", "dropped"}
           /\ Told(was, alarm \in flags, on) = "sent" => alarm \in Remembered(flags, alarm, on)
BY DEF Remembered, Told

LEMMA AlertsStart == AlertsInit => AlertInv
BY DEF AlertsInit, AlertInv, NoJob, Alarms

LEMMA RunStarts ==
    ASSUME AlertInv, CheckTrips
    PROVE  AlertInv'
<1> DEFINE watched == {v \in fenced : OnMove(v)}
           out(v) == Place(v) = "out"
           flags == [v \in Numbers |-> IF v \in watched THEN Remembered(flag[v], "fence", out(v)) ELSE flag[v]]
           new == [v \in Numbers |-> IF v \in watched THEN [told[v] EXCEPT !["fence"] = Told(told[v]["fence"], "fence" \in flag[v], out(v))] ELSE told[v]]
<1>1. /\ job = NoJob /\ flag' = flag /\ told' = new
      /\ job' = [open |-> TRUE, flags |-> flags, left |-> {v \in Numbers : seen[v].tracker # "none"}]
    BY DEF CheckTrips
<1>2. ~job.open /\ "fence" \in Alarms /\ \A v : out(v) \in BOOLEAN
    BY <1>1 DEF NoJob, Alarms
<1> HIDE DEF out, watched
<1>3. ASSUME NEW v \in Numbers
      PROVE  /\ flags[v] \in SUBSET Alarms
             /\ new[v] \in [Alarms -> {"no", "sent", "dropped"}]
             /\ \A a \in Alarms : new[v][a] = "sent" => a \in flags[v]
    <2>1. /\ flag[v] \in SUBSET Alarms /\ told[v] \in [Alarms -> {"no", "sent", "dropped"}]
          /\ \A a \in Alarms : told[v][a] = "sent" => a \in flag[v]
        BY <1>2 DEF AlertInv
    <2>2. CASE v \notin watched
        BY <2>1, <2>2
    <2>3. CASE v \in watched
        <3> DEFINE on == out(v)
                   was == told[v]["fence"]
        <3>1. flags[v] = Remembered(flag[v], "fence", on) /\ new[v] = [told[v] EXCEPT !["fence"] = Told(was, "fence" \in flag[v], on)]
            BY <2>3
        <3> HIDE DEF on, was
        <3>2. /\ Remembered(flag[v], "fence", on) \in SUBSET Alarms
              /\ Remembered(flag[v], "fence", on) \ {"fence"} = flag[v] \ {"fence"}
              /\ Told(was, "fence" \in flag[v], on) \in {"no", "sent", "dropped"}
              /\ Told(was, "fence" \in flag[v], on) = "sent" => "fence" \in Remembered(flag[v], "fence", on)
            BY <1>2, <2>1, ToldIs DEF was
        <3>3. QED
            BY <1>2, <2>1, <3>1, <3>2
    <2>4. QED
        BY <2>2, <2>3
<1> HIDE DEF flags, new
<1>4. flags \in [Numbers -> SUBSET Alarms] /\ new \in [Numbers -> [Alarms -> {"no", "sent", "dropped"}]]
    BY <1>3 DEF flags, new
<1>5. job'.open = TRUE /\ job'.flags = flags /\ job' \in [open : BOOLEAN, flags : [Numbers -> SUBSET Alarms], left : SUBSET Numbers]
    BY <1>1, <1>4
<1>6. QED
    BY <1>1, <1>3, <1>4, <1>5 DEF AlertInv

LEMMA TrackerChecked ==
    ASSUME AlertInv, NEW v \in Numbers, CheckTracker(v)
    PROVE  AlertInv'
<1> DEFINE f == job.flags[v]
           out == seen[v].tracker = "out"
           fast == seen[v].fast
           g == Remembered(f, "speed", seen[v].fast)
           h == IF v \in fenced THEN Remembered(g, "fence", out) ELSE g
           new == [a \in Alarms |-> IF a = "speed" THEN Told(told[v][a], a \in f, seen[v].fast)
                                    ELSE IF v \in fenced THEN Told(told[v][a], a \in f, out) ELSE told[v][a]]
<1>1. /\ job.open /\ flag' = flag /\ told' = [told EXCEPT ![v] = new]
      /\ job' = [job EXCEPT !.left = @ \ {v}, !.flags[v] = h]
    BY DEF CheckTracker
<1>2. job \in [open : BOOLEAN, flags : [Numbers -> SUBSET Alarms], left : SUBSET Numbers]
    BY <1>1 DEF AlertInv
<1>3. /\ f \in SUBSET Alarms /\ told[v] \in [Alarms -> {"no", "sent", "dropped"}]
      /\ \A a \in Alarms : told[v][a] = "sent" => a \in f
      /\ "speed" \in Alarms /\ "fence" \in Alarms /\ \A a \in Alarms : a = "speed" \/ a = "fence"
    BY <1>1, <1>2 DEF AlertInv, Alarms
<1>5. /\ h \in SUBSET Alarms /\ new \in [Alarms -> {"no", "sent", "dropped"}]
      /\ \A a \in Alarms : new[a] = "sent" => a \in h
    BY <1>3, ToldIs, ZenonT(40) DEF Remembered, Told
<1> HIDE DEF f, g, h, new, out
<1>6. /\ job'.open /\ job'.flags = [job.flags EXCEPT ![v] = h]
      /\ job' \in [open : BOOLEAN, flags : [Numbers -> SUBSET Alarms], left : SUBSET Numbers]
    BY <1>1, <1>2, <1>5
<1>7. told' \in [Numbers -> [Alarms -> {"no", "sent", "dropped"}]]
    BY <1>1, <1>5 DEF AlertInv
<1>8. \A w \in Numbers, a \in Alarms : told'[w][a] = "sent" => a \in job'.flags[w]
    BY <1>1, <1>2, <1>5, <1>6 DEF AlertInv
<1>9. QED
    BY <1>1, <1>6, <1>7, <1>8 DEF AlertInv

LEMMA AlertsGoOn == AlertInv /\ [AlertsNext]_alertVars => AlertInv'
<1> SUFFICES ASSUME AlertInv, [AlertsNext]_alertVars PROVE AlertInv'
    OBVIOUS
<1>1. CASE UNCHANGED <<flag, job, told>>
    BY <1>1 DEF AlertInv
<1>2. CASE CommitJob
    <2>1. /\ job.open /\ flag' = job.flags /\ job' = NoJob /\ told' = told
          /\ job \in [open : BOOLEAN, flags : [Numbers -> SUBSET Alarms], left : SUBSET Numbers]
        BY <1>2 DEF CommitJob, AlertInv
    <2>2. QED
        BY <2>1 DEF AlertInv, NoJob
<1>3. CASE FailJob
    <2> DEFINE new == [v \in Numbers |-> [a \in Alarms |->
                          IF told[v][a] = "sent" /\ a \notin flag[v] THEN "dropped" ELSE told[v][a]]]
    <2>1. job' = NoJob /\ flag' = flag /\ told' = new
        BY <1>3 DEF FailJob
    <2>2. /\ new \in [Numbers -> [Alarms -> {"no", "sent", "dropped"}]]
          /\ \A v \in Numbers, a \in Alarms : new[v][a] = "sent" => a \in flag[v]
        BY DEF AlertInv
    <2>3. QED
        BY <2>1, <2>2 DEF AlertInv, NoJob
<1>4. CASE \E v \in Numbers : See(v) \/ SwitchFence(v) \/ BeginTrip(v)
    BY <1>1, <1>4 DEF See, SwitchFence, BeginTrip
<1>5. QED
    BY <1>1, <1>2, <1>3, <1>4, RunStarts, TrackerChecked DEF AlertsNext, alertVars

\* An alarm is sent once until a source has reported the vehicle back, unless the run that
\* sent it is rolled back: what was sent and not dropped is remembered.
THEOREM AlarmsAreOnce == AlertsSpec => []OnlyRollbacksRepeat
<1>1. AlertInv => OnlyRollbacksRepeat
    BY DEF AlertInv, OnlyRollbacksRepeat
<1>2. QED
    BY <1>1, AlertsStart, AlertsGoOn, PTL DEF AlertsSpec

-----------------------------------------------------------------------------
(* Positions on their way.                                                 *)

LEMMA FixesOf ==
    ASSUME NEW F, NEW s \in Seq(F), NEW x \in F
    PROVE  /\ Append(s, x) \in Seq(F) /\ Len(Append(s, x)) = Len(s) + 1
           /\ FixNumbers(Append(s, x)) = FixNumbers(s) \cup {x.n}
           /\ s # <<>> => /\ Head(s) \in F /\ Tail(s) \in Seq(F) /\ Len(Tail(s)) = Len(s) - 1
                          /\ FixNumbers(s) = FixNumbers(Tail(s)) \cup {Head(s).n}
           /\ <<>> \in Seq(F) /\ FixNumbers(<<>>) = {} /\ Len(<<>>) = 0
           /\ Len(s) \in Nat /\ (Len(s) = 0 => s = <<>>)
<1>1. /\ Append(s, x) \in Seq(F) /\ Len(Append(s, x)) = Len(s) + 1 /\ Len(s) \in Nat
      /\ \A i \in 1 .. Len(s) : Append(s, x)[i] = s[i]
      /\ Append(s, x)[Len(s) + 1] = x
      /\ DOMAIN s = 1 .. Len(s) /\ DOMAIN Append(s, x) = 1 .. (Len(s) + 1)
    OBVIOUS
<1>2. FixNumbers(Append(s, x)) = FixNumbers(s) \cup {x.n}
    <2>1. \A i \in 1 .. (Len(s) + 1) : i \in 1 .. Len(s) \/ i = Len(s) + 1
        BY <1>1
    <2>2. 1 .. Len(s) \subseteq 1 .. (Len(s) + 1) /\ Len(s) + 1 \in 1 .. (Len(s) + 1)
        BY <1>1
    <2>3. QED
        BY <1>1, <2>1, <2>2 DEF FixNumbers
<1>3. ASSUME s # <<>>
      PROVE  /\ Head(s) \in F /\ Tail(s) \in Seq(F) /\ Len(Tail(s)) = Len(s) - 1
             /\ FixNumbers(s) = FixNumbers(Tail(s)) \cup {Head(s).n}
    <2>1. /\ Tail(s) \in Seq(F) /\ Len(s) \in Nat \ {0} /\ Head(s) = s[1] /\ s[1] \in F
          /\ Len(Tail(s)) = Len(s) - 1 /\ DOMAIN Tail(s) = 1 .. (Len(s) - 1)
          /\ \A i \in 1 .. (Len(s) - 1) : Tail(s)[i] = s[i + 1]
        BY <1>3
    <2>2. \A i \in 1 .. Len(s) : i = 1 \/ (i - 1 \in 1 .. (Len(s) - 1) /\ s[i] = Tail(s)[i - 1])
        BY <2>1
    <2>3. 1 \in 1 .. Len(s) /\ \A i \in 1 .. (Len(s) - 1) : i + 1 \in 1 .. Len(s)
        BY <2>1
    <2>4. FixNumbers(s) \subseteq FixNumbers(Tail(s)) \cup {Head(s).n}
        <3> SUFFICES ASSUME NEW i \in 1 .. Len(s) PROVE s[i].n \in FixNumbers(Tail(s)) \cup {Head(s).n}
            BY <1>1 DEF FixNumbers
        <3>1. CASE i = 1
            BY <2>1, <3>1
        <3>2. CASE i - 1 \in 1 .. (Len(s) - 1) /\ s[i] = Tail(s)[i - 1]
            <4>1. i - 1 \in DOMAIN Tail(s)
                BY <2>1, <3>2
            <4>2. QED
                BY <3>2, <4>1 DEF FixNumbers
        <3>3. QED
            BY <2>2, <3>1, <3>2
    <2>5. FixNumbers(Tail(s)) \cup {Head(s).n} \subseteq FixNumbers(s)
        BY <1>1, <2>1, <2>3 DEF FixNumbers
    <2>6. QED
        BY <2>1, <2>4, <2>5
<1>4. <<>> \in Seq(F) /\ FixNumbers(<<>>) = {} /\ Len(<<>>) = 0 /\ (Len(s) = 0 => s = <<>>)
    BY DEF FixNumbers
<1>5. QED
    BY <1>1, <1>2, <1>3, <1>4

\* The row that is read is one that was stamped last.
LEMMA LatestIs ==
    ASSUME stored # <<>>, NEW R, stored \in Seq(R), NEW B \in Nat, \A r \in R : r.stamp \in 0 .. B
    PROVE  stored[Latest] \in R
<1>1. DOMAIN stored = 1 .. Len(stored) /\ Len(stored) \in Nat \ {0} /\ \A i \in 1 .. Len(stored) : stored[i].stamp \in 0 .. B /\ stored[i] \in R
    OBVIOUS
<1> DEFINE times == {stored[i].stamp : i \in 1 .. Len(stored)}
<1>2. times \subseteq 0 .. B /\ times # {}
    BY <1>1
<1> HIDE DEF times
<1>3. PICK time \in times : \A other \in times : other <= time
    BY <1>2, GreatestOf
<1> DEFINE last == {i \in 1 .. Len(stored) : stored[i].stamp = time}
<1>4. last \subseteq 0 .. Len(stored) /\ last # {}
    BY <1>1, <1>3 DEF times
<1> HIDE DEF last
<1>5. PICK i \in last : \A k \in last : k <= i
    BY <1>1, <1>4, GreatestOf
<1>6. i \in DOMAIN stored /\ stored[i].stamp = time /\ i \in Nat
    BY <1>1, <1>5 DEF last
<1>7. ASSUME NEW k \in DOMAIN stored
      PROVE  \/ stored[i].stamp > stored[k].stamp
             \/ stored[i].stamp = stored[k].stamp /\ i >= k
    <2>1. stored[k].stamp <= time /\ stored[k].stamp \in 0 .. B /\ time \in 0 .. B /\ k \in Nat
        BY <1>1, <1>2, <1>3, <1>7 DEF times
    <2>2. stored[k].stamp = time => k <= i
        BY <1>1, <1>5, <1>7 DEF last
    <2>3. QED
        BY <1>6, <2>1, <2>2
<1>8. Latest \in DOMAIN stored
    BY <1>6, <1>7 DEF Latest
<1>9. QED
    BY <1>1, <1>8

-----------------------------------------------------------------------------
(* The location feed.                                                      *)

\* The odometer has gone on by at most one place a tick.
IsRoute(route) ==
    /\ route \in [0 .. clock -> Nat] /\ route[clock] = odometer
    /\ \A i, j \in 0 .. clock : i <= j => route[i] <= route[j] /\ route[j] - route[i] <= j - i

FixesOn(route) == {f \in [n : Nat, at : Nat, when : 0 .. clock] : f.at = route[f.when]}
RowsOn(route) == {r \in [at : Nat, when : 0 .. clock, stamp : 0 .. clock] : r.at = route[r.when] /\ r.when <= r.stamp}

Requests(F, R, tick) ==
    [step : {"sent", "done"}, fix : F]
    \cup {r \in [step : {"read"}, fix : F, stamp : 0 .. tick, prev : {<<>>} \cup {<<x>> : x \in R}] :
             r.fix.when <= r.stamp /\ (r.prev # <<>> => r.prev[1].stamp <= r.stamp)}

\* Every position, wherever it is, was taken on the route.
OnRoute(F, R) ==
    /\ backlog \in Seq(F) /\ view \in [Live -> Seq(F)] /\ stored \in Seq(R)
    /\ sync \in [Syncs -> [read : Seq(F), left : Seq(F), kept : Seq(F)]]
    /\ post \in [Posters -> {NoPost} \cup Requests(F, R, clock)]

FeedTypes ==
    /\ clock \in Nat /\ odometer \in Nat /\ taken \in Nat
    /\ \E route : IsRoute(route) /\ OnRoute(FixesOn(route), RowsOn(route))

Busy(s) == IF post[s] = NoPost THEN 0 ELSE 1
Sending(p) == IF post[p] = NoPost THEN {} ELSE {post[p].fix.n}

\* A synchronisation has each position of the queue that it read, or the server has it.
NothingDropped ==
    /\ Len(backlog) <= MaxQueue /\ \A p \in Live : Len(view[p]) <= MaxQueue
    /\ \A s \in Syncs :
        /\ Len(sync[s].kept) + Len(sync[s].left) + Busy(s) <= Len(sync[s].read)
        /\ Len(sync[s].read) <= MaxQueue
        /\ FixNumbers(sync[s].read) \subseteq heard \cup FixNumbers(sync[s].left) \cup FixNumbers(sync[s].kept) \cup Sending(s)
    /\ \A p \in Posters : post[p].step = "done" => post[p].fix.n \in heard

FeedInv == FeedTypes /\ NothingDropped

LEMMA FeedStart == FeedInit => FeedInv
<1> SUFFICES ASSUME FeedInit PROVE FeedInv
    OBVIOUS
<1>1. /\ clock = 0 /\ odometer = 0 /\ taken = 0 /\ backlog = <<>> /\ stored = <<>> /\ heard = {}
      /\ view = [p \in Live |-> <<>>] /\ sync = [s \in Syncs |-> NoSync] /\ post = [p \in Posters |-> NoPost]
    BY DEF FeedInit
<1> DEFINE route == [i \in 0 .. 0 |-> 0]
<1>2. IsRoute(route)
    BY <1>1 DEF IsRoute
<1>3. \A F, R : OnRoute(F, R)
    <2> SUFFICES ASSUME NEW F, NEW R PROVE OnRoute(F, R)
        OBVIOUS
    <2>1. <<>> \in Seq(F) /\ <<>> \in Seq(R)
        OBVIOUS
    <2>2. QED
        BY <1>1, <2>1 DEF OnRoute, NoSync
<1> HIDE DEF route
<1>4. FeedTypes
    BY <1>1, <1>2, <1>3 DEF FeedTypes
<1>5. NothingDropped
    <2>1. Len(<<>>) = 0 /\ FixNumbers(<<>>) = {} /\ NoPost.step = "none" /\ MaxQueue \in Nat
        BY FeedAssumption DEF FixNumbers, NoPost
    <2>2. \A s \in Syncs : post[s] = NoPost /\ sync[s].read = <<>> /\ sync[s].left = <<>> /\ sync[s].kept = <<>>
        BY <1>1 DEF NoSync, Posters
    <2>3. \A p \in Posters : post[p].step # "done"
        BY <1>1, <2>1
    <2>4. Len(backlog) <= MaxQueue /\ \A p \in Live : Len(view[p]) <= MaxQueue
        <3>1. Len(backlog) = 0 /\ \A p \in Live : view[p] = <<>>
            BY <1>1, <2>1
        <3>2. QED
            BY <2>1, <3>1
    <2>5. ASSUME NEW s \in Syncs
          PROVE  /\ Len(sync[s].kept) + Len(sync[s].left) + Busy(s) <= Len(sync[s].read)
                 /\ Len(sync[s].read) <= MaxQueue /\ FixNumbers(sync[s].read) = {}
        <3>1. Busy(s) = 0 /\ Len(sync[s].kept) = 0 /\ Len(sync[s].left) = 0 /\ Len(sync[s].read) = 0
            BY <2>1, <2>2 DEF Busy
        <3>2. FixNumbers(sync[s].read) = {}
            BY <2>1, <2>2
        <3>3. QED
            BY <2>1, <3>1, <3>2, FeedAssumption
    <2>6. QED
        BY <2>3, <2>4, <2>5 DEF NothingDropped
<1>6. QED
    BY <1>4, <1>5 DEF FeedInv

\* The clock goes on, and the route with it.
LEMMA DriveKeepsRoute ==
    ASSUME FeedInv, Drive
    PROVE  FeedTypes'
<1>1. PICK route : IsRoute(route) /\ OnRoute(FixesOn(route), RowsOn(route))
    BY DEF FeedInv, FeedTypes
<1>2. clock \in Nat /\ odometer \in Nat /\ taken \in Nat
    BY DEF FeedInv, FeedTypes
<1>3. /\ clock' = clock + 1 /\ odometer' \in {odometer, odometer + 1}
      /\ UNCHANGED <<taken, backlog, view, sync, post, stored, heard>>
    BY DEF Drive
<1> DEFINE becomes == [i \in 0 .. (clock + 1) |-> IF i = clock + 1 THEN odometer' ELSE route[i]]
<1>4. /\ \A i \in 0 .. clock : becomes[i] = route[i]
      /\ becomes[clock + 1] = odometer'
      /\ becomes \in [0 .. (clock + 1) -> Nat]
    <2>1. \A i \in 0 .. clock : i \in 0 .. (clock + 1) /\ i # clock + 1
        BY <1>2
    <2>2. clock + 1 \in 0 .. (clock + 1)
        BY <1>2
    <2>3. \A i \in 0 .. (clock + 1) : i = clock + 1 \/ i \in 0 .. clock
        BY <1>2
    <2>4. \A i \in 0 .. clock : route[i] \in Nat
        BY <1>1 DEF IsRoute
    <2>5. odometer' \in Nat
        BY <1>2, <1>3
    <2>6. \A i \in 0 .. (clock + 1) : becomes[i] \in Nat
        BY <2>3, <2>4, <2>5
    <2>7. QED
        BY <2>1, <2>2, <2>6
<1> HIDE DEF becomes
<1>5. PICK longer : longer = becomes
    OBVIOUS
<1>6. IsRoute(longer)'
    <2>1. ASSUME NEW i \in 0 .. (clock + 1), NEW j \in 0 .. (clock + 1), i <= j
          PROVE  longer[i] <= longer[j] /\ longer[j] - longer[i] <= j - i
        <3>1. \A m, n \in 0 .. clock : m <= n => route[m] <= route[n] /\ route[n] - route[m] <= n - m
            BY <1>1 DEF IsRoute
        <3>2. CASE j \in 0 .. clock
            <4>1. i \in 0 .. clock
                BY <1>2, <2>1, <3>2
            <4>2. QED
                BY <1>4, <1>5, <2>1, <3>1, <3>2, <4>1
        <3>3. CASE j = clock + 1 /\ i = clock + 1
            <4>1. longer[j] \in Nat
                BY <1>4, <1>5
            <4>2. QED
                BY <1>2, <3>3, <4>1
        <3>4. CASE j = clock + 1 /\ i \in 0 .. clock
            <4>1. clock \in 0 .. clock /\ i <= clock
                BY <1>2, <3>4
            <4>2. route[i] <= odometer /\ odometer - route[i] <= clock - i /\ route[i] \in Nat
                BY <1>1, <3>1, <3>4, <4>1 DEF IsRoute
            <4>3. QED
                BY <1>2, <1>3, <1>4, <1>5, <3>4, <4>2
        <3>5. QED
            BY <1>2, <3>2, <3>3, <3>4
    <2>2. longer \in [0 .. (clock + 1) -> Nat] /\ longer[clock + 1] = odometer'
        BY <1>4, <1>5
    <2>3. QED
        BY <1>3, <2>1, <2>2 DEF IsRoute
<1> DEFINE F == FixesOn(route)
           R == RowsOn(route)
<1>7. PICK G, Q :
        /\ G = {f \in [n : Nat, at : Nat, when : 0 .. (clock + 1)] : f.at = longer[f.when]}
        /\ Q = {r \in [at : Nat, when : 0 .. (clock + 1), stamp : 0 .. (clock + 1)] : r.at = longer[r.when] /\ r.when <= r.stamp}
    OBVIOUS
<1>8. FixesOn(longer)' = G /\ RowsOn(longer)' = Q
    BY <1>3, <1>7 DEF FixesOn, RowsOn
<1>9. F \subseteq G /\ R \subseteq Q
    <2>1. 0 .. clock \subseteq 0 .. (clock + 1)
        BY <1>2
    <2>2. F \subseteq G
        BY <1>4, <1>5, <1>7, <2>1 DEF FixesOn
    <2>3. R \subseteq Q
        BY <1>4, <1>5, <1>7, <2>1 DEF RowsOn
    <2>4. QED
        BY <2>2, <2>3
<1> HIDE DEF F, R
<1>10. OnRoute(G, Q)'
    <2>1. Seq(F) \subseteq Seq(G) /\ Seq(R) \subseteq Seq(Q)
        BY <1>9
    <2>2. Requests(F, R, clock) \subseteq Requests(G, Q, clock + 1)
        <3>1. 0 .. clock \subseteq 0 .. (clock + 1)
            BY <1>2
        <3>2. QED
            BY <1>9, <3>1 DEF Requests
    <2>3. /\ backlog \in Seq(F) /\ view \in [Live -> Seq(F)] /\ stored \in Seq(R)
          /\ sync \in [Syncs -> [read : Seq(F), left : Seq(F), kept : Seq(F)]]
          /\ post \in [Posters -> {NoPost} \cup Requests(F, R, clock)]
        BY <1>1 DEF OnRoute, F, R
    <2>4. sync \in [Syncs -> [read : Seq(G), left : Seq(G), kept : Seq(G)]]
        BY <2>1, <2>3
    <2>5. post \in [Posters -> {NoPost} \cup Requests(G, Q, clock + 1)]
        BY <2>2, <2>3
    <2>6. backlog \in Seq(G) /\ view \in [Live -> Seq(G)] /\ stored \in Seq(Q)
        BY <2>1, <2>3
    <2> HIDE DEF Requests
    <2>7. /\ clock' = clock + 1 /\ backlog' = backlog /\ view' = view /\ stored' = stored
          /\ sync' = sync /\ post' = post
        BY <1>3
    <2>8. QED
        BY <2>4, <2>5, <2>6, <2>7 DEF OnRoute
<1>11. clock' \in Nat /\ odometer' \in Nat /\ taken' \in Nat
    BY <1>2, <1>3
<1>12. QED
    BY <1>6, <1>8, <1>10, <1>11 DEF FeedTypes

\* What the requests under way are.
LEMMA RequestsAre ==
    ASSUME NEW F, NEW R, OnRoute(F, R), NEW p \in Posters
    PROVE  /\ post[p].step \in {"none", "sent", "done", "read"}
           /\ post[p] = NoPost <=> post[p].step = "none"
           /\ post[p] # NoPost => post[p].fix \in F /\ post[p] \in Requests(F, R, clock)
           /\ post[p].step = "read" =>
                /\ post[p].stamp \in 0 .. clock /\ post[p].fix.when <= post[p].stamp
                /\ post[p].prev = <<>> \/ \E x \in R : post[p].prev = <<x>> /\ x.stamp <= post[p].stamp
<1>1. NoPost.step = "none" /\ post[p] \in {NoPost} \cup Requests(F, R, clock)
    BY DEF NoPost, OnRoute
<1>2. \A x \in R : <<x>>[1] = x /\ <<x>> # <<>>
    OBVIOUS
<1>3. QED
    BY <1>1, <1>2 DEF Requests

\* The app and the server move positions, and change none.
LEMMA StepsKeepRoute ==
    ASSUME FeedInv,
           \/ \E p \in Live : TakeFix(p) \/ ReadQueue(p) \/ Enqueue(p) \/ Posted(p)
           \/ \E s \in Syncs : StartSync(s) \/ SyncOne(s) \/ SyncAnswered(s) \/ EndSync(s)
           \/ \E p \in Posters : ReadLatest(p) \/ SaveLocation(p)
    PROVE  FeedTypes'
<1>1. PICK route : IsRoute(route) /\ OnRoute(FixesOn(route), RowsOn(route))
    BY DEF FeedInv, FeedTypes
<1>2. PICK F, R : F = FixesOn(route) /\ R = RowsOn(route)
    OBVIOUS
<1>3. /\ clock \in Nat /\ odometer \in Nat /\ taken \in Nat
      /\ backlog \in Seq(F) /\ view \in [Live -> Seq(F)] /\ stored \in Seq(R)
      /\ sync \in [Syncs -> [read : Seq(F), left : Seq(F), kept : Seq(F)]]
      /\ post \in [Posters -> {NoPost} \cup Requests(F, R, clock)]
      /\ OnRoute(F, R)
    BY <1>1, <1>2 DEF FeedInv, FeedTypes, OnRoute
<1>4. \A x \in F : x.n \in Nat /\ x.at \in Nat /\ x.when \in 0 .. clock /\ x.at = route[x.when]
    BY <1>2 DEF FixesOn
<1>5. <<>> \in Seq(F) /\ \A q \in Seq(F) : q # <<>> => Head(q) \in F /\ Tail(q) \in Seq(F)
    OBVIOUS
<1>6. \A q \in Seq(F), x \in F : Append(q, x) \in Seq(F) /\ Queued(q, x) \in Seq(F)
    <2> SUFFICES ASSUME NEW q \in Seq(F), NEW x \in F PROVE Append(q, x) \in Seq(F) /\ Queued(q, x) \in Seq(F)
        OBVIOUS
    <2>1. Append(q, x) \in Seq(F) /\ Append(q, x) # <<>>
        OBVIOUS
    <2>2. QED
        BY <1>5, <2>1 DEF Queued
<1>7. Live \subseteq Posters /\ Syncs \subseteq Posters
    BY DEF Posters
<1>8. \A p \in Posters, x \in F : /\ [step |-> "sent", fix |-> x] \in Requests(F, R, clock)
                                  /\ [step |-> "done", fix |-> x] \in Requests(F, R, clock)
    BY DEF Requests
<1>9. \A p \in Posters : post[p].step \in {"sent", "done", "read"} => post[p].fix \in F
    BY <1>3, RequestsAre
<1>10. ASSUME NEW p \in Posters, NEW r \in {NoPost} \cup Requests(F, R, clock), SetPost(p, r)
       PROVE  post' \in [Posters -> {NoPost} \cup Requests(F, R, clock)]
    BY <1>3, <1>10 DEF SetPost
<1> HIDE DEF NoPost, Requests
<1> DEFINE Moved == /\ clock' = clock /\ odometer' = odometer /\ taken' \in Nat
                    /\ backlog' \in Seq(F) /\ view' \in [Live -> Seq(F)] /\ stored' \in Seq(R)
                    /\ sync' \in [Syncs -> [read : Seq(F), left : Seq(F), kept : Seq(F)]]
                    /\ post' \in [Posters -> {NoPost} \cup Requests(F, R, clock)]
<1>11. Moved
    <2>1. ASSUME NEW p \in Live, TakeFix(p) PROVE Moved
        <3> DEFINE x == [n |-> taken + 1, at |-> odometer, when |-> clock]
        <3>1. x \in F
            <4>1. clock \in 0 .. clock /\ route[clock] = odometer
                BY <1>1, <1>3 DEF IsRoute
            <4>2. QED
                BY <1>2, <1>3, <4>1 DEF FixesOn
        <3>2. SetPost(p, [step |-> "sent", fix |-> x]) /\ taken' = taken + 1
            BY <2>1 DEF TakeFix
        <3> HIDE DEF x
        <3>3. [step |-> "sent", fix |-> x] \in Requests(F, R, clock)
            BY <1>7, <1>8, <3>1
        <3>4. QED
            BY <1>3, <1>7, <1>10, <2>1, <3>2, <3>3 DEF TakeFix
    <2>2. ASSUME NEW p \in Live, Enqueue(p) PROVE Moved
        <3>1. post[p].fix \in F /\ view[p] \in Seq(F)
            BY <1>3, <1>7, <1>9, <2>2 DEF Enqueue
        <3>2. backlog' \in Seq(F)
            BY <1>6, <2>2, <3>1 DEF Enqueue
        <3>3. QED
            BY <1>3, <1>7, <1>10, <2>2, <3>2 DEF Enqueue
    <2>3. ASSUME NEW p \in Live, Posted(p) \/ ReadQueue(p) PROVE Moved
        BY <1>3, <1>7, <1>10, <2>3 DEF Posted, ReadQueue
    <2>4. ASSUME NEW s \in Syncs, StartSync(s) PROVE Moved
        BY <1>3, <1>5, <2>4 DEF StartSync
    <2>5. ASSUME NEW s \in Syncs, SyncOne(s) PROVE Moved
        <3>1. Head(sync[s].left) \in F /\ Tail(sync[s].left) \in Seq(F)
            BY <1>3, <1>5, <2>5 DEF SyncOne
        <3>2. SetPost(s, [step |-> "sent", fix |-> Head(sync[s].left)]) /\ sync' = [sync EXCEPT ![s].left = Tail(sync[s].left)]
            BY <2>5 DEF SyncOne
        <3>3. QED
            BY <1>3, <1>7, <1>8, <1>10, <2>5, <3>1, <3>2 DEF SyncOne
    <2>6. ASSUME NEW s \in Syncs, SyncAnswered(s) PROVE Moved
        <3>1. post[s].fix \in F /\ SetPost(s, NoPost)
            BY <1>7, <1>9, <2>6 DEF SyncAnswered
        <3>2. PICK ok \in BOOLEAN : sync' = [sync EXCEPT ![s].kept = KeptAfter(sync[s].kept, post[s].fix, ok)]
            BY <2>6 DEF SyncAnswered
        <3>3. KeptAfter(sync[s].kept, post[s].fix, ok) \in Seq(F)
            BY <1>3, <1>6, <3>1 DEF KeptAfter
        <3>4. QED
            BY <1>3, <1>7, <1>10, <2>6, <3>1, <3>2, <3>3 DEF SyncAnswered
    <2>7. ASSUME NEW s \in Syncs, EndSync(s) PROVE Moved
        BY <1>3, <1>5, <2>7 DEF EndSync, NoSync
    <2>8. ASSUME NEW p \in Posters, ReadLatest(p) PROVE Moved
        <3> DEFINE prev == IF stored = <<>> THEN <<>> ELSE <<stored[Latest]>>
                   req == [step |-> "read", fix |-> post[p].fix, stamp |-> clock, prev |-> prev]
        <3>1. SetPost(p, req)
            BY <2>8 DEF ReadLatest
        <3>2. \A x \in R : x.stamp \in 0 .. clock
            BY <1>2 DEF RowsOn
        <3>3. stored # <<>> => stored[Latest] \in R
            BY <1>3, <3>2, LatestIs
        <3>4. /\ prev \in {<<>>} \cup {<<x>> : x \in R}
              /\ prev # <<>> => prev[1].stamp <= clock
            BY <1>3, <3>2, <3>3
        <3>5. post[p].fix \in F /\ post[p].fix.when <= clock
            BY <1>3, <1>4, <1>9, <2>8 DEF ReadLatest
        <3> HIDE DEF prev
        <3>6. req \in Requests(F, R, clock)
            BY <1>3, <3>4, <3>5 DEF Requests
        <3>7. QED
            BY <1>3, <1>10, <2>8, <3>1, <3>6 DEF ReadLatest
    <2>9. ASSUME NEW p \in Posters, SaveLocation(p) PROVE Moved
        <3> DEFINE x == post[p].fix
                   row == [at |-> x.at, when |-> x.when, stamp |-> post[p].stamp]
        <3>1. x \in F /\ post[p].stamp \in 0 .. clock /\ x.when <= post[p].stamp
            BY <1>3, <1>9, <2>9, RequestsAre DEF SaveLocation
        <3>2. row \in R
            BY <1>2, <1>4, <3>1 DEF RowsOn
        <3>3. stored' \in Seq(R)
            <4>1. Append(stored, row) \in Seq(R)
                BY <1>3, <3>2
            <4>2. stored' = Append(stored, row) \/ stored' = stored
                BY <2>9 DEF SaveLocation
            <4>3. QED
                BY <1>3, <4>1, <4>2
        <3>4. SetPost(p, [step |-> "done", fix |-> x])
            BY <2>9 DEF SaveLocation
        <3>5. QED
            BY <1>3, <1>8, <1>10, <2>9, <3>1, <3>3, <3>4 DEF SaveLocation
    <2>10. QED
        BY <2>1, <2>2, <2>3, <2>4, <2>5, <2>6, <2>7, <2>8, <2>9
<1>12. OnRoute(F, R)'
    BY <1>11 DEF OnRoute
<1>13. FixesOn(route)' = F /\ RowsOn(route)' = R /\ IsRoute(route)'
    BY <1>1, <1>2, <1>11 DEF FixesOn, RowsOn, IsRoute
<1>14. QED
    BY <1>3, <1>11, <1>12, <1>13 DEF FeedTypes

IsHeld(n) ==
    \/ n \in heard
    \/ n \in FixNumbers(backlog)
    \/ \E s \in Syncs : n \in FixNumbers(sync[s].left) \cup FixNumbers(sync[s].kept)
    \/ \E p \in Posters : n \in Sending(p)

LEMMA HeldIs ==
    /\ \A n : n \in Held <=> IsHeld(n)
    /\ \A n : n \in Held' <=> IsHeld(n)'
<1>1. ASSUME NEW n PROVE n \in Held <=> IsHeld(n)
    <2> DEFINE A == UNION {FixNumbers(sync[s].left) \cup FixNumbers(sync[s].kept) : s \in Syncs}
               B == {post[p].fix.n : p \in {q \in Posters : post[q] # NoPost}}
    <2>1. n \in A <=> \E s \in Syncs : n \in FixNumbers(sync[s].left) \cup FixNumbers(sync[s].kept)
        OBVIOUS
    <2>2. n \in B <=> \E p \in Posters : n \in Sending(p)
        BY DEF Sending
    <2>3. n \in Held <=> n \in heard \/ n \in FixNumbers(backlog) \/ n \in A \/ n \in B
        BY DEF Held
    <2> HIDE DEF A, B
    <2>4. QED
        BY <2>1, <2>2, <2>3 DEF IsHeld
<1>2. ASSUME NEW n PROVE n \in Held' <=> IsHeld(n)'
    <2> DEFINE A == UNION {FixNumbers(sync'[s].left) \cup FixNumbers(sync'[s].kept) : s \in Syncs}
               B == {post'[p].fix.n : p \in {q \in Posters : post'[q] # NoPost}}
    <2>1. n \in A <=> \E s \in Syncs : n \in FixNumbers(sync'[s].left) \cup FixNumbers(sync'[s].kept)
        OBVIOUS
    <2>2. n \in B <=> \E p \in Posters : n \in Sending(p)'
        BY DEF Sending
    <2>3. n \in Held' <=> n \in heard' \/ n \in FixNumbers(backlog)' \/ n \in A \/ n \in B
        BY DEF Held
    <2> HIDE DEF A, B
    <2>4. QED
        BY <2>1, <2>2, <2>3 DEF IsHeld
<1>3. QED
    BY <1>1, <1>2

\* What concerns the synchronisations, when none of them takes a step.
LEMMA SyncsStand ==
    ASSUME FeedInv, heard \subseteq heard', sync' = sync, Len(backlog') <= MaxQueue,
           \A p \in Live : Len(view'[p]) <= MaxQueue,
           \A s \in Syncs : Busy(s)' = Busy(s) /\ Sending(s)' = Sending(s),
           \A p \in Posters : post'[p].step = "done" => post'[p].fix.n \in heard'
    PROVE  NothingDropped'
<1>1. ASSUME NEW s \in Syncs
      PROVE  /\ Len(sync'[s].kept) + Len(sync'[s].left) + Busy(s)' <= Len(sync'[s].read)
             /\ Len(sync'[s].read) <= MaxQueue
             /\ FixNumbers(sync'[s].read) \subseteq heard' \cup FixNumbers(sync'[s].left) \cup FixNumbers(sync'[s].kept) \cup Sending(s)'
    <2>1. /\ Len(sync[s].kept) + Len(sync[s].left) + Busy(s) <= Len(sync[s].read)
          /\ Len(sync[s].read) <= MaxQueue
          /\ FixNumbers(sync[s].read) \subseteq heard \cup FixNumbers(sync[s].left) \cup FixNumbers(sync[s].kept) \cup Sending(s)
        BY DEF FeedInv, NothingDropped
    <2>2. Busy(s)' = Busy(s) /\ Sending(s)' = Sending(s) /\ sync'[s] = sync[s]
        OBVIOUS
    <2>3. QED
        BY <2>1, <2>2
<1>2. QED
    BY <1>1 DEF NothingDropped

\* What the server has heard of, or still holds, it goes on holding.
LEMMA ServerDropsNothing ==
    ASSUME FeedInv, NEW p \in Posters, ReadLatest(p) \/ SaveLocation(p)
    PROVE  NothingDropped' /\ Held \subseteq Held'
<1>1. PICK F, R : OnRoute(F, R)
    BY DEF FeedInv, FeedTypes
<1>2. /\ post \in [Posters -> {NoPost} \cup Requests(F, R, clock)]
      /\ post[p] # NoPost
    <2>1. NoPost.step = "none"
        BY DEF NoPost
    <2>2. QED
        BY <1>1, <2>1 DEF OnRoute, ReadLatest, SaveLocation
<1>3. PICK req :
        /\ post' = [post EXCEPT ![p] = req] /\ req # NoPost /\ req.fix = post[p].fix
        /\ req.step \in {"read", "done"} /\ (req.step = "done" => post[p].fix.n \in heard')
        /\ heard \subseteq heard' /\ UNCHANGED <<backlog, view, sync>>
    <2>1. NoPost.step = "none"
        BY DEF NoPost
    <2>2. CASE ReadLatest(p)
        <3> DEFINE prev == IF stored = <<>> THEN <<>> ELSE <<stored[Latest]>>
                   req == [step |-> "read", fix |-> post[p].fix, stamp |-> clock, prev |-> prev]
        <3>1. post' = [post EXCEPT ![p] = req] /\ UNCHANGED <<backlog, view, sync, heard>>
            BY <2>2 DEF ReadLatest, SetPost
        <3>2. req.step = "read" /\ req.fix = post[p].fix
            OBVIOUS
        <3> HIDE DEF req
        <3>3. QED
            BY <2>1, <3>1, <3>2
    <2>3. CASE SaveLocation(p)
        <3> DEFINE req == [step |-> "done", fix |-> post[p].fix]
        <3>1. post' = [post EXCEPT ![p] = req] /\ UNCHANGED <<backlog, view, sync>> /\ heard' = heard \cup {post[p].fix.n}
            BY <2>3 DEF SaveLocation, SetPost
        <3>2. req.step = "done" /\ req.fix = post[p].fix
            OBVIOUS
        <3> HIDE DEF req
        <3>3. QED
            BY <2>1, <3>1, <3>2
    <2>4. QED
        BY <2>2, <2>3
<1>4. /\ \A q \in Posters : (post'[q] = NoPost) = (post[q] = NoPost) /\ post'[q].fix = post[q].fix
      /\ \A q \in Posters \ {p} : post'[q] = post[q]
      /\ post'[p] = req
    BY <1>2, <1>3
<1>5. \A q \in Posters : Sending(q)' = Sending(q) /\ (q \in Syncs => Busy(q)' = Busy(q))
    BY <1>4 DEF Sending, Busy
<1>6. \A q \in Posters : post'[q].step = "done" => post'[q].fix.n \in heard'
    BY <1>3, <1>4 DEF FeedInv, NothingDropped
<1>7. NothingDropped'
    <2>1. Len(backlog') <= MaxQueue /\ \A q \in Live : Len(view'[q]) <= MaxQueue
        BY <1>3 DEF FeedInv, NothingDropped
    <2>2. QED
        BY <1>3, <1>5, <1>6, <2>1, SyncsStand DEF Posters
<1>8. {post[q].fix.n : q \in {u \in Posters : post[u] # NoPost}} \subseteq {post'[q].fix.n : q \in {u \in Posters : post'[u] # NoPost}}
    BY <1>4
<1>9. Held \subseteq Held'
    BY <1>3, <1>8 DEF Held
<1>10. QED
    BY <1>7, <1>9

\* Time passes.
LEMMA DriveDropsNothing ==
    ASSUME FeedInv, Drive PROVE NothingDropped' /\ Held \subseteq Held'
<1>1. UNCHANGED <<backlog, view, sync, post, heard>> /\ Len(backlog) <= MaxQueue /\ \A q \in Live : Len(view[q]) <= MaxQueue
    BY DEF Drive, FeedInv, NothingDropped
<1>2. \A s \in Syncs : Busy(s)' = Busy(s) /\ Sending(s)' = Sending(s)
    BY <1>1 DEF Busy, Sending
<1>3. \A q \in Posters : post'[q].step = "done" => post'[q].fix.n \in heard'
    BY <1>1 DEF FeedInv, NothingDropped
<1>4. NothingDropped'
    BY <1>1, <1>2, <1>3, SyncsStand
<1>5. Held' = Held
    BY <1>1 DEF Held
<1>6. QED
    BY <1>4, <1>5

\* Nor does who takes positions drop one, unless the queue is full or not the one it knows.
LEMMA AppDropsNothing ==
    ASSUME FeedInv, NEW p \in Live, TakeFix(p) \/ ReadQueue(p) \/ Enqueue(p) \/ Posted(p)
    PROVE  /\ NothingDropped'
           /\ \/ Held \subseteq Held'
              \/ Len(backlog) = MaxQueue /\ backlog' # <<>> /\ Len(backlog') = MaxQueue
              \/ WritesOver(p)
<1>1. PICK F, R : OnRoute(F, R)
    BY DEF FeedInv, FeedTypes
<1>2. /\ post \in [Posters -> {NoPost} \cup Requests(F, R, clock)] /\ backlog \in Seq(F)
      /\ view \in [Live -> Seq(F)] /\ p \in Posters /\ p \notin Syncs /\ Live \subseteq Posters /\ MaxQueue \in Nat \ {0} /\ NoPost.step = "none"
    BY <1>1, FeedAssumption DEF OnRoute, Posters, NoPost
<1>3. ASSUME NEW req, post' = [post EXCEPT ![p] = req]
      PROVE  /\ post'[p] = req /\ \A q \in Posters \ {p} : post'[q] = post[q]
             /\ \A s \in Syncs : Busy(s)' = Busy(s) /\ Sending(s)' = Sending(s)
    <2>1. post'[p] = req /\ \A q \in Posters \ {p} : post'[q] = post[q]
        BY <1>2, <1>3
    <2>2. QED
        BY <1>2, <2>1 DEF Busy, Sending, Posters
<1>4. CASE TakeFix(p)
    <2> DEFINE req == [step |-> "sent", fix |-> [n |-> taken + 1, at |-> odometer, when |-> clock]]
    <2>1. post[p] = NoPost /\ post' = [post EXCEPT ![p] = req] /\ UNCHANGED <<backlog, view, sync, heard>> /\ req.step = "sent"
        BY <1>4 DEF TakeFix, SetPost
    <2> HIDE DEF req
    <2>2. /\ post'[p] = req /\ \A q \in Posters \ {p} : post'[q] = post[q]
          /\ \A s \in Syncs : Busy(s)' = Busy(s) /\ Sending(s)' = Sending(s)
        BY <1>3, <2>1
    <2>3. NothingDropped'
        <3>1. Len(backlog') <= MaxQueue /\ \A q \in Live : Len(view'[q]) <= MaxQueue
            BY <2>1 DEF FeedInv, NothingDropped
        <3>2. \A q \in Posters : post'[q].step = "done" => post'[q].fix.n \in heard'
            BY <2>1, <2>2 DEF FeedInv, NothingDropped
        <3>3. QED
            BY <2>1, <2>2, <3>1, <3>2, SyncsStand
    <2>4. {post[q].fix.n : q \in {u \in Posters : post[u] # NoPost}} \subseteq {post'[q].fix.n : q \in {u \in Posters : post'[u] # NoPost}}
        BY <2>1, <2>2
    <2>5. Held \subseteq Held'
        BY <2>1, <2>4 DEF Held
    <2>6. QED
        BY <2>3, <2>5
<1>5. ASSUME post' = [post EXCEPT ![p] = NoPost], UNCHANGED <<sync, heard>>, Len(backlog') <= MaxQueue,
             \A q \in Live : Len(view'[q]) <= MaxQueue
      PROVE  /\ NothingDropped'
             /\ Held \subseteq heard' \cup FixNumbers(backlog) \cup Held' \cup Sending(p)
    <2>1. /\ post'[p] = NoPost /\ \A q \in Posters \ {p} : post'[q] = post[q]
          /\ \A s \in Syncs : Busy(s)' = Busy(s) /\ Sending(s)' = Sending(s)
        BY <1>3, <1>5
    <2>2. NothingDropped'
        <3>1. \A q \in Posters : post'[q].step = "done" => post'[q].fix.n \in heard'
            BY <1>2, <1>5, <2>1 DEF FeedInv, NothingDropped
        <3>2. QED
            BY <1>5, <2>1, <3>1, SyncsStand
    <2>3. \A q \in Posters : q # p => Sending(q)' = Sending(q)
        BY <2>1 DEF Sending
    <2>4. ASSUME NEW n \in Held PROVE n \in heard' \cup FixNumbers(backlog) \cup Held' \cup Sending(p)
        BY <1>5, <2>3, HeldIs DEF IsHeld
    <2>5. QED
        BY <2>2, <2>4
<1>6. CASE Posted(p)
    <2>1. post' = [post EXCEPT ![p] = NoPost] /\ UNCHANGED <<backlog, view, sync, heard>> /\ post[p].step = "done"
        BY <1>6 DEF Posted, SetPost
    <2>2. Len(backlog') <= MaxQueue /\ \A q \in Live : Len(view'[q]) <= MaxQueue
        BY <2>1 DEF FeedInv, NothingDropped
    <2>3. NothingDropped' /\ Held \subseteq heard' \cup FixNumbers(backlog) \cup Held' \cup Sending(p)
        BY <1>5, <2>1, <2>2
    <2>4. Sending(p) \subseteq heard
        BY <1>2, <2>1 DEF FeedInv, NothingDropped, Sending
    <2>5. heard \subseteq Held' /\ FixNumbers(backlog) \subseteq Held'
        BY <2>1 DEF Held
    <2>6. QED
        BY <2>1, <2>3, <2>4, <2>5
<1>7. CASE Enqueue(p)
    <2> DEFINE x == post[p].fix
               mine == view[p]
               longer == Append(mine, x)
    <2>1. /\ post' = [post EXCEPT ![p] = NoPost] /\ UNCHANGED <<sync, heard>> /\ post[p].step \in {"sent", "done"}
          /\ backlog' = Queued(mine, x) /\ view' = [view EXCEPT ![p] = backlog']
        BY <1>7 DEF Enqueue, SetPost
    <2>2. x \in F /\ mine \in Seq(F)
        BY <1>1, <1>2, <2>1, RequestsAre
    <2>3. Len(backlog) <= MaxQueue /\ \A q \in Live : Len(view[q]) <= MaxQueue
        BY DEF FeedInv, NothingDropped
    <2>4. Len(mine) <= MaxQueue
        BY <2>3
    <2>5. post'[p] = NoPost /\ post[p] # NoPost /\ view'[p] = backlog'
        BY <1>2, <2>1
    <2>6. mine = view[p]
        OBVIOUS
    <2> HIDE DEF x, mine
    <2>7. /\ longer \in Seq(F) /\ Len(longer) = Len(mine) + 1 /\ Len(mine) \in Nat
          /\ FixNumbers(longer) = FixNumbers(mine) \cup {x.n}
        BY <2>2, FixesOf
    <2>8. backlog' = IF Len(longer) > MaxQueue THEN Tail(longer) ELSE longer
        BY <2>1 DEF Queued
    <2> HIDE DEF longer
    <2>9. longer # <<>> /\ Len(Tail(longer)) = Len(longer) - 1 /\ Tail(longer) \in Seq(F)
        BY <2>7
    <2>10. Len(backlog') <= MaxQueue
        BY <1>2, <2>4, <2>7, <2>8, <2>9
    <2>11. \A q \in Live : Len(view'[q]) <= MaxQueue
        BY <1>2, <2>1, <2>3, <2>10
    <2>12. NothingDropped' /\ Held \subseteq heard' \cup FixNumbers(backlog) \cup Held' \cup Sending(p)
        BY <1>5, <2>1, <2>10, <2>11
    <2>13. CASE mine # backlog
        BY <2>5, <2>6, <2>12, <2>13 DEF WritesOver
    <2>14. CASE mine = backlog /\ Len(longer) > MaxQueue
        <3>1. Len(backlog) = MaxQueue /\ Len(backlog') = MaxQueue
            BY <1>2, <2>4, <2>7, <2>8, <2>9, <2>14
        <3>2. backlog' # <<>>
            BY <1>2, <3>1
        <3>3. QED
            BY <2>12, <3>1, <3>2
    <2>15. CASE mine = backlog /\ ~(Len(longer) > MaxQueue)
        <3>1. FixNumbers(backlog') = FixNumbers(backlog) \cup {x.n}
            BY <2>7, <2>8, <2>15
        <3>2. Sending(p) \subseteq {x.n}
            BY DEF Sending, x
        <3>3. heard' \subseteq Held' /\ FixNumbers(backlog') \subseteq Held'
            BY DEF Held
        <3>4. QED
            BY <2>12, <3>1, <3>2, <3>3
    <2>16. QED
        BY <2>13, <2>14, <2>15
<1>8. CASE ReadQueue(p)
    <2>1. UNCHANGED <<backlog, sync, post, heard>> /\ view' = [view EXCEPT ![p] = backlog]
        BY <1>8 DEF ReadQueue
    <2>2. Len(backlog') <= MaxQueue /\ \A q \in Live : Len(view'[q]) <= MaxQueue
        BY <1>2, <2>1 DEF FeedInv, NothingDropped
    <2>3. \A s \in Syncs : Busy(s)' = Busy(s) /\ Sending(s)' = Sending(s)
        BY <2>1 DEF Busy, Sending
    <2>4. \A q \in Posters : post'[q].step = "done" => post'[q].fix.n \in heard'
        BY <2>1 DEF FeedInv, NothingDropped
    <2>5. NothingDropped'
        BY <2>1, <2>2, <2>3, <2>4, SyncsStand
    <2>6. Held' = Held
        BY <2>1 DEF Held
    <2>7. QED
        BY <2>5, <2>6
<1>9. QED
    BY <1>4, <1>6, <1>7, <1>8

\* One synchronisation takes a step.
LEMMA SyncMoves ==
    ASSUME FeedInv, NEW s \in Syncs, NEW run, sync' = [sync EXCEPT ![s] = run], heard' = heard, view' = view,
           \A p \in Posters \ {s} : post'[p] = post[p],
           post'[s].step # "done", Len(backlog') <= MaxQueue,
           Len(run.kept) + Len(run.left) + Busy(s)' <= Len(run.read), Len(run.read) <= MaxQueue,
           FixNumbers(run.read) \subseteq heard \cup FixNumbers(run.left) \cup FixNumbers(run.kept) \cup Sending(s)'
    PROVE  /\ NothingDropped' /\ sync'[s] = run
           /\ \A n \in Held : \/ n \in Held'
                              \/ n \in FixNumbers(backlog) \cup FixNumbers(sync[s].left) \cup FixNumbers(sync[s].kept) \cup Sending(s)
           /\ heard \cup FixNumbers(backlog') \cup FixNumbers(run.left) \cup FixNumbers(run.kept) \cup Sending(s)' \subseteq Held'
<1>1. PICK F, R : OnRoute(F, R)
    BY DEF FeedInv, FeedTypes
<1>2. sync'[s] = run /\ \A u \in Syncs \ {s} : sync'[u] = sync[u]
    BY <1>1 DEF OnRoute
<1>3. s \in Posters /\ Syncs \subseteq Posters
    BY DEF Posters
<1>4. \A p \in Posters \ {s} : Sending(p)' = Sending(p) /\ Busy(p)' = Busy(p)
    BY DEF Sending, Busy
<1>5. ASSUME NEW u \in Syncs
      PROVE  /\ Len(sync'[u].kept) + Len(sync'[u].left) + Busy(u)' <= Len(sync'[u].read)
             /\ Len(sync'[u].read) <= MaxQueue
             /\ FixNumbers(sync'[u].read) \subseteq heard' \cup FixNumbers(sync'[u].left) \cup FixNumbers(sync'[u].kept) \cup Sending(u)'
    <2>1. CASE u = s
        BY <1>2, <2>1
    <2>2. CASE u # s
        <3>1. /\ Len(sync[u].kept) + Len(sync[u].left) + Busy(u) <= Len(sync[u].read)
              /\ Len(sync[u].read) <= MaxQueue
              /\ FixNumbers(sync[u].read) \subseteq heard \cup FixNumbers(sync[u].left) \cup FixNumbers(sync[u].kept) \cup Sending(u)
            BY DEF FeedInv, NothingDropped
        <3>2. Busy(u)' = Busy(u) /\ Sending(u)' = Sending(u) /\ sync'[u] = sync[u]
            BY <1>2, <1>3, <1>4, <2>2
        <3>3. QED
            BY <3>1, <3>2
    <2>3. QED
        BY <2>1, <2>2
<1>6. ASSUME NEW p \in Posters, post'[p].step = "done" PROVE post'[p].fix.n \in heard'
    BY <1>6 DEF FeedInv, NothingDropped
<1>7. NothingDropped'
    <2>1. \A p \in Live : Len(view'[p]) <= MaxQueue
        BY DEF FeedInv, NothingDropped
    <2>2. QED
        BY <1>5, <1>6, <2>1 DEF NothingDropped
<1>8. ASSUME NEW n \in Held
      PROVE  \/ n \in Held'
             \/ n \in FixNumbers(backlog) \cup FixNumbers(sync[s].left) \cup FixNumbers(sync[s].kept) \cup Sending(s)
    <2>1. IsHeld(n)
        BY HeldIs
    <2>2. CASE n \in heard \/ n \in FixNumbers(backlog)
        BY <2>2, HeldIs DEF IsHeld
    <2>3. CASE \E u \in Syncs : n \in FixNumbers(sync[u].left) \cup FixNumbers(sync[u].kept)
        BY <1>2, <2>3, HeldIs DEF IsHeld
    <2>4. CASE \E p \in Posters : n \in Sending(p)
        BY <1>4, <2>4, HeldIs DEF IsHeld
    <2>5. QED
        BY <2>1, <2>2, <2>3, <2>4 DEF IsHeld
<1>9. heard \cup FixNumbers(backlog') \cup FixNumbers(run.left) \cup FixNumbers(run.kept) \cup Sending(s)' \subseteq Held'
    BY <1>2, <1>3, HeldIs DEF IsHeld
<1>10. QED
    BY <1>2, <1>7, <1>8, <1>9

\* A synchronisation drops a position only when it writes over a queue that has changed.
LEMMA SyncDropsNothing ==
    ASSUME FeedInv, NEW s \in Syncs, StartSync(s) \/ SyncOne(s) \/ SyncAnswered(s) \/ EndSync(s)
    PROVE  /\ NothingDropped'
           /\ \/ Held \subseteq Held'
              \/ sync[s].read # backlog /\ sync[s] # NoSync /\ sync'[s] = NoSync
<1>1. PICK F, R : OnRoute(F, R)
    BY DEF FeedInv, FeedTypes
<1> DEFINE k == sync[s]
<1>2. /\ backlog \in Seq(F) /\ sync \in [Syncs -> [read : Seq(F), left : Seq(F), kept : Seq(F)]]
      /\ k \in [read : Seq(F), left : Seq(F), kept : Seq(F)]
      /\ s \in Posters /\ post \in [Posters -> {NoPost} \cup Requests(F, R, clock)] /\ NoPost.step = "none"
    BY <1>1 DEF OnRoute, Posters, NoPost
<1>3. /\ \A q \in Seq(F) : Len(q) \in Nat /\ (Len(q) = 0 => q = <<>>)
      /\ Len(<<>>) = 0 /\ FixNumbers(<<>>) = {}
    BY DEF FixNumbers
<1>4. /\ Len(k.kept) + Len(k.left) + Busy(s) <= Len(k.read)
      /\ Len(k.read) <= MaxQueue /\ Len(backlog) <= MaxQueue
      /\ FixNumbers(k.read) \subseteq heard \cup FixNumbers(k.left) \cup FixNumbers(k.kept) \cup Sending(s)
      /\ post[s].step = "done" => post[s].fix.n \in heard
    BY <1>2 DEF FeedInv, NothingDropped
<1>5. /\ Len(k.kept) \in Nat /\ Len(k.left) \in Nat /\ Len(k.read) \in Nat /\ Len(backlog) \in Nat
      /\ MaxQueue \in Nat
    BY <1>2, <1>3, FeedAssumption
<1>6. \A p \in Posters : Busy(p) = (IF post[p] = NoPost THEN 0 ELSE 1) /\ Sending(p) = (IF post[p] = NoPost THEN {} ELSE {post[p].fix.n})
    BY DEF Busy, Sending
<1>7. CASE StartSync(s)
    <2> DEFINE run == [read |-> backlog, left |-> backlog, kept |-> <<>>]
    <2>1. sync' = [sync EXCEPT ![s] = run] /\ UNCHANGED <<backlog, view, post, heard>> /\ k = NoSync
        BY <1>7 DEF StartSync
    <2>2. run.read = backlog /\ run.left = backlog /\ run.kept = <<>>
        OBVIOUS
    <2>3. k.read = <<>> /\ k.left = <<>> /\ k.kept = <<>>
        BY <2>1 DEF NoSync
    <2>4. post[s] = NoPost
        BY <1>3, <1>4, <1>6, <2>3, <1>2
    <2>5. Busy(s)' = 0 /\ Sending(s)' = {} /\ Sending(s) = {} /\ post'[s].step # "done"
        BY <1>2, <2>1, <2>4 DEF Busy, Sending
    <2> HIDE DEF run, k
    <2>6. /\ Len(run.kept) + Len(run.left) + Busy(s)' <= Len(run.read) /\ Len(run.read) <= MaxQueue
          /\ FixNumbers(run.read) \subseteq heard \cup FixNumbers(run.left) \cup FixNumbers(run.kept) \cup Sending(s)'
        BY <1>3, <1>4, <1>5, <2>2, <2>5
    <2>7. \A p \in Posters \ {s} : post'[p] = post[p]
        BY <2>1
    <2>8. /\ NothingDropped'
          /\ \A n \in Held : \/ n \in Held'
                             \/ n \in FixNumbers(backlog) \cup FixNumbers(sync[s].left) \cup FixNumbers(sync[s].kept) \cup Sending(s)
          /\ heard \cup FixNumbers(backlog') \cup FixNumbers(run.left) \cup FixNumbers(run.kept) \cup Sending(s)' \subseteq Held'
        BY <1>4, <2>1, <2>5, <2>6, <2>7, SyncMoves
    <2>9. QED
        BY <1>3, <2>1, <2>3, <2>5, <2>8 DEF k
<1>8. CASE SyncOne(s)
    <2> DEFINE run == [read |-> k.read, left |-> Tail(k.left), kept |-> k.kept]
               req == [step |-> "sent", fix |-> Head(k.left)]
    <2>1. /\ sync' = [sync EXCEPT ![s].left = Tail(k.left)] /\ post' = [post EXCEPT ![s] = req]
          /\ UNCHANGED <<backlog, view, heard>> /\ post[s] = NoPost /\ k.left # <<>>
        BY <1>8 DEF SyncOne, SetPost
    <2>2. sync' = [sync EXCEPT ![s] = run]
        <3>1. [k EXCEPT !.left = Tail(k.left)] = run
            <4>1. \A rest : [k EXCEPT !.left = rest] = [read |-> k.read, left |-> rest, kept |-> k.kept]
                BY <1>2
            <4>2. QED
                BY <4>1
        <3>2. sync' = [sync EXCEPT ![s] = [k EXCEPT !.left = Tail(k.left)]]
            BY <2>1
        <3>3. QED
            BY <3>1, <3>2
    <2>3. run.read = k.read /\ run.left = Tail(k.left) /\ run.kept = k.kept
        OBVIOUS
    <2>4. /\ Len(Tail(k.left)) = Len(k.left) - 1
          /\ FixNumbers(k.left) = FixNumbers(Tail(k.left)) \cup {Head(k.left).n}
        <3>1. PICK x : x \in F
            BY <1>2, <2>1
        <3>2. QED
            BY <1>2, <2>1, <3>1, FixesOf
    <2>5. /\ req.step = "sent" /\ req.fix = Head(k.left) /\ req # NoPost /\ post'[s] = req
          /\ \A p \in Posters \ {s} : post'[p] = post[p]
        BY <1>2, <2>1
    <2> HIDE DEF run, k, req
    <2>6. Busy(s)' = 1 /\ Sending(s)' = {Head(k.left).n} /\ Busy(s) = 0 /\ Sending(s) = {} /\ post'[s].step # "done"
        BY <2>1, <2>5 DEF Busy, Sending
    <2>7. /\ Len(run.kept) + Len(run.left) + Busy(s)' <= Len(run.read) /\ Len(run.read) <= MaxQueue
          /\ FixNumbers(run.read) \subseteq heard \cup FixNumbers(run.left) \cup FixNumbers(run.kept) \cup Sending(s)'
        <3>1. Len(run.kept) + Len(run.left) + Busy(s)' <= Len(run.read)
            <4>1. /\ Len(run.kept) = Len(k.kept) /\ Len(run.left) = Len(k.left) - 1 /\ Len(run.read) = Len(k.read)
                  /\ Busy(s)' = 1 /\ Busy(s) = 0
                BY <2>3, <2>4, <2>6
            <4>2. Len(k.kept) + Len(k.left) + 0 <= Len(k.read)
                BY <1>4, <4>1
            <4>3. \A a, b, c \in Nat : a + b + 0 <= c => a + (b - 1) + 1 <= c
                OBVIOUS
            <4>4. Len(k.kept) + (Len(k.left) - 1) + 1 <= Len(k.read)
                BY <1>5, <4>2, <4>3
            <4>5. QED
                BY <4>1, <4>4
        <3>2. Len(run.read) <= MaxQueue
            BY <1>4, <1>5, <2>3, <2>4, <2>6
        <3>3. FixNumbers(run.read) \subseteq heard \cup FixNumbers(run.left) \cup FixNumbers(run.kept) \cup Sending(s)'
            BY <1>4, <1>5, <2>3, <2>4, <2>6
        <3>4. QED
            BY <3>1, <3>2, <3>3
    <2>8. /\ NothingDropped'
          /\ \A n \in Held : \/ n \in Held'
                             \/ n \in FixNumbers(backlog) \cup FixNumbers(sync[s].left) \cup FixNumbers(sync[s].kept) \cup Sending(s)
          /\ heard \cup FixNumbers(backlog') \cup FixNumbers(run.left) \cup FixNumbers(run.kept) \cup Sending(s)' \subseteq Held'
        BY <1>4, <2>1, <2>2, <2>5, <2>6, <2>7, SyncMoves
    <2>9. QED
        BY <2>1, <2>3, <2>4, <2>6, <2>8 DEF k
<1>9. CASE SyncAnswered(s)
    <2> DEFINE x == post[s].fix
    <2>1. PICK ok \in BOOLEAN :
            /\ ok => post[s].step = "done"
            /\ sync' = [sync EXCEPT ![s].kept = KeptAfter(k.kept, x, ok)]
            /\ post' = [post EXCEPT ![s] = NoPost] /\ UNCHANGED <<backlog, view, heard>>
            /\ post[s].step \in {"sent", "done"}
        BY <1>9 DEF SyncAnswered, SetPost
    <2> DEFINE kept == KeptAfter(k.kept, x, ok)
               run == [read |-> k.read, left |-> k.left, kept |-> kept]
    <2>2. sync' = [sync EXCEPT ![s] = run]
        <3>1. [k EXCEPT !.kept = kept] = run
            BY <1>2
        <3>2. sync' = [sync EXCEPT ![s] = [k EXCEPT !.kept = kept]]
            BY <2>1
        <3>3. QED
            BY <3>1, <3>2
    <2>3. run.read = k.read /\ run.left = k.left /\ run.kept = kept
        OBVIOUS
    <2>4. x \in F /\ post[s] # NoPost
        BY <1>1, <1>2, <2>1, RequestsAre
    <2>5. /\ Len(kept) <= Len(k.kept) + 1 /\ Len(kept) \in Nat
          /\ FixNumbers(k.kept) \subseteq FixNumbers(kept)
          /\ ~ok => x.n \in FixNumbers(kept)
        <3>1. /\ Append(k.kept, x) \in Seq(F) /\ Len(Append(k.kept, x)) = Len(k.kept) + 1
              /\ FixNumbers(Append(k.kept, x)) = FixNumbers(k.kept) \cup {x.n}
            BY <1>2, <2>4, FixesOf
        <3>2. QED
            BY <1>5, <3>1 DEF KeptAfter
    <2>6. /\ post'[s] = NoPost /\ post'[s].step # "done"
          /\ \A p \in Posters \ {s} : post'[p] = post[p]
        BY <1>2, <2>1
    <2> HIDE DEF run, k, x, kept
    <2>7. Busy(s)' = 0 /\ Sending(s)' = {} /\ Busy(s) = 1 /\ Sending(s) = {x.n}
        BY <2>4, <2>6 DEF Busy, Sending, x
    <2>8. ok => x.n \in heard
        BY <1>4, <2>1 DEF x
    <2>9. /\ Len(run.kept) + Len(run.left) + Busy(s)' <= Len(run.read) /\ Len(run.read) <= MaxQueue
          /\ FixNumbers(run.read) \subseteq heard \cup FixNumbers(run.left) \cup FixNumbers(run.kept) \cup Sending(s)'
        <3>1. Len(run.kept) + Len(run.left) + Busy(s)' <= Len(run.read)
            <4>1. /\ Len(run.kept) <= Len(k.kept) + 1 /\ Len(run.kept) \in Nat
                  /\ Len(run.left) = Len(k.left) /\ Len(run.read) = Len(k.read)
                  /\ Busy(s)' = 0 /\ Busy(s) = 1
                BY <2>3, <2>5, <2>7
            <4>2. Len(k.kept) + Len(k.left) + 1 <= Len(k.read)
                BY <1>4, <4>1
            <4>3. \A a, b, c, d \in Nat : a + b + 1 <= c => (d <= a + 1 => d + b + 0 <= c)
                OBVIOUS
            <4>4. Len(run.kept) + Len(k.left) + 0 <= Len(k.read)
                BY <1>5, <4>1, <4>2, <4>3
            <4>5. QED
                BY <4>1, <4>4
        <3>2. Len(run.read) <= MaxQueue
            BY <1>4, <1>5, <2>3, <2>5, <2>7, <2>8
        <3>3. FixNumbers(run.read) \subseteq heard \cup FixNumbers(run.left) \cup FixNumbers(run.kept) \cup Sending(s)'
            BY <1>4, <1>5, <2>3, <2>5, <2>7, <2>8
        <3>4. QED
            BY <3>1, <3>2, <3>3
    <2>10. /\ NothingDropped'
           /\ \A n \in Held : \/ n \in Held'
                              \/ n \in FixNumbers(backlog) \cup FixNumbers(sync[s].left) \cup FixNumbers(sync[s].kept) \cup Sending(s)
           /\ heard \cup FixNumbers(backlog') \cup FixNumbers(run.left) \cup FixNumbers(run.kept) \cup Sending(s)' \subseteq Held'
        BY <1>4, <2>1, <2>2, <2>6, <2>9, SyncMoves
    <2>11. QED
        BY <2>1, <2>3, <2>5, <2>7, <2>8, <2>10 DEF k
<1>10. CASE EndSync(s)
    <2>1. /\ k.read # <<>> /\ k.left = <<>> /\ post[s] = NoPost
          /\ backlog' = k.kept /\ sync' = [sync EXCEPT ![s] = NoSync] /\ UNCHANGED <<view, post, heard>>
        BY <1>10 DEF EndSync
    <2>2. NoSync.read = <<>> /\ NoSync.left = <<>> /\ NoSync.kept = <<>>
        BY DEF NoSync
    <2>3. /\ Busy(s)' = 0 /\ Sending(s)' = {} /\ Sending(s) = {} /\ Busy(s) = 0 /\ post'[s].step # "done"
          /\ \A p \in Posters \ {s} : post'[p] = post[p]
        BY <1>2, <2>1 DEF Busy, Sending
    <2> HIDE DEF k
    <2>4. Len(backlog') <= MaxQueue
        BY <1>3, <1>4, <1>5, <2>1, <2>3
    <2>5. /\ Len(NoSync.kept) + Len(NoSync.left) + Busy(s)' <= Len(NoSync.read) /\ Len(NoSync.read) <= MaxQueue
          /\ FixNumbers(NoSync.read) \subseteq heard \cup FixNumbers(NoSync.left) \cup FixNumbers(NoSync.kept) \cup Sending(s)'
        BY <1>3, <1>5, <2>2, <2>3
    <2>6. /\ NothingDropped' /\ sync'[s] = NoSync
          /\ \A n \in Held : \/ n \in Held'
                             \/ n \in FixNumbers(backlog) \cup FixNumbers(sync[s].left) \cup FixNumbers(sync[s].kept) \cup Sending(s)
          /\ heard \cup FixNumbers(backlog') \cup FixNumbers(NoSync.left) \cup FixNumbers(NoSync.kept) \cup Sending(s)' \subseteq Held'
        BY <2>1, <2>3, <2>4, <2>5, SyncMoves
    <2>7. CASE k.read = backlog
        <3>1. FixNumbers(backlog) \subseteq heard \cup FixNumbers(backlog')
            BY <1>3, <1>4, <2>1, <2>3, <2>7
        <3>2. QED
            BY <1>3, <2>1, <2>3, <2>6, <3>1 DEF k
    <2>8. CASE k.read # backlog
        BY <2>1, <2>2, <2>6, <2>8 DEF k
    <2>9. QED
        BY <2>7, <2>8
<1>11. QED
    BY <1>7, <1>8, <1>9, <1>10

LEMMA FeedGoesOn == FeedInv /\ [FeedNext]_feedVars => FeedInv'
<1> SUFFICES ASSUME FeedInv, [FeedNext]_feedVars PROVE FeedInv'
    OBVIOUS
<1>1. CASE UNCHANGED feedVars
    <2>1. UNCHANGED <<clock, odometer, taken, backlog, view, sync, post, stored, heard>>
        BY <1>1 DEF feedVars
    <2>2. NothingDropped'
        BY <2>1 DEF FeedInv, NothingDropped, Busy, Sending
    <2>3. FeedTypes'
        BY <2>1 DEF FeedInv, FeedTypes, IsRoute, OnRoute, FixesOn, RowsOn
    <2>4. QED
        BY <2>2, <2>3 DEF FeedInv
<1>2. CASE FeedNext
    <2>1. FeedTypes'
        BY <1>2, DriveKeepsRoute, StepsKeepRoute DEF FeedNext
    <2>2. NothingDropped'
        BY <1>2, DriveDropsNothing, AppDropsNothing, SyncDropsNothing, ServerDropsNothing DEF FeedNext
    <2>3. QED
        BY <2>1, <2>2 DEF FeedInv
<1>3. QED
    BY <1>1, <1>2

\* Two positions of the route that came in when they were taken are no repetition and no jump.
LEMMA SavedIfMoved ==
    ASSUME FeedInv, NEW p \in Posters, post[p].step = "read",
           ~ShouldSave(post[p].prev, post[p].fix, post[p].stamp)
    PROVE  \/ post[p].prev[1].at = post[p].fix.at
           \/ post[p].stamp # post[p].fix.when \/ post[p].prev[1].stamp # post[p].prev[1].when
<1>1. PICK route : IsRoute(route) /\ OnRoute(FixesOn(route), RowsOn(route))
    BY DEF FeedInv, FeedTypes
<1>2. PICK F, R : F = FixesOn(route) /\ R = RowsOn(route)
    OBVIOUS
<1>3. PICK x : x = post[p].fix
    OBVIOUS
<1>4. /\ x \in F /\ post[p].stamp \in 0 .. clock
      /\ post[p].prev = <<>> \/ \E y \in R : post[p].prev = <<y>> /\ y.stamp <= post[p].stamp
    <2>1. OnRoute(F, R) /\ NoPost.step = "none"
        BY <1>1, <1>2 DEF NoPost
    <2>2. QED
        BY <1>3, <2>1, RequestsAre
<1>5. post[p].prev # <<>>
    BY DEF ShouldSave
<1>6. PICK y \in R : post[p].prev = <<y>> /\ y.stamp <= post[p].stamp
    BY <1>4, <1>5
<1>7. post[p].prev[1] = y
    BY <1>6
<1>8. PICK stamp : stamp = post[p].stamp
    OBVIOUS
<1> SUFFICES ASSUME y.at # x.at, stamp = x.when, y.stamp = y.when PROVE FALSE
    BY <1>3, <1>7, <1>8
<1>9. /\ x.at \in Nat /\ x.when \in 0 .. clock /\ x.at = route[x.when]
      /\ y.at \in Nat /\ y.when \in 0 .. clock /\ y.at = route[y.when] /\ clock \in Nat
    BY <1>2, <1>4, <1>6 DEF FixesOn, RowsOn, FeedInv, FeedTypes
<1>10. y.when <= x.when
    BY <1>6, <1>8
<1>11. y.at <= x.at /\ x.at - y.at <= x.when - y.when
    BY <1>1, <1>9, <1>10 DEF IsRoute
<1> DEFINE dist == Distance(y.at, x.at)
           elapsed == stamp - y.stamp
<1>12. dist = x.at - y.at /\ elapsed = x.when - y.when
    BY <1>9, <1>11 DEF Distance
<1>13. elapsed > 0 /\ dist > 0 /\ dist <= elapsed /\ elapsed \in Int /\ dist \in Int
    BY <1>9, <1>10, <1>11, <1>12
<1>14. ~Jumps(dist, elapsed)
    <2> HIDE DEF dist, elapsed
    <2>1. QED
        BY <1>13 DEF Jumps
<1>15. ShouldSave(post[p].prev, x, stamp)
    <2>1. elapsed > 0 /\ ~Jumps(dist, elapsed) /\ (dist > 0 \/ elapsed >= Heartbeat)
        BY <1>13, <1>14
    <2>2. QED
        BY <1>7, <2>1 DEF ShouldSave
<1>16. QED
    BY <1>3, <1>8, <1>15

\* Only save_location answers a position whose handler has read the last row.
LEMMA OnlySaveEnds ==
    ASSUME FeedInv, FeedNext, NEW p \in Posters, post[p].step = "read", post'[p].step = "done"
    PROVE  SaveLocation(p)
<1>1. PICK F, R : OnRoute(F, R)
    BY DEF FeedInv, FeedTypes
<1>2. post \in [Posters -> {NoPost} \cup Requests(F, R, clock)] /\ NoPost.step = "none" /\ Live \subseteq Posters /\ Syncs \subseteq Posters
    BY <1>1 DEF OnRoute, NoPost, Posters
<1>3. ASSUME NEW q \in Posters, NEW req, SetPost(q, req), req.step # "done" PROVE FALSE
    <2>1. post'[p] = post[p] \/ post'[p] = req
        BY <1>2, <1>3 DEF SetPost
    <2>2. QED
        BY <1>3, <2>1
<1>4. NoPost.step # "done" /\ post' # post
    BY <1>2
<1>5. ~Drive
    BY <1>4 DEF Drive
<1>6. ASSUME NEW q \in Live PROVE ~(TakeFix(q) \/ ReadQueue(q) \/ Enqueue(q) \/ Posted(q))
    <2>1. \A x : [step |-> "sent", fix |-> x].step # "done"
        OBVIOUS
    <2>2. QED
        BY <1>2, <1>3, <1>4, <2>1 DEF TakeFix, ReadQueue, Enqueue, Posted
<1>7. ASSUME NEW s \in Syncs PROVE ~(StartSync(s) \/ SyncOne(s) \/ SyncAnswered(s) \/ EndSync(s))
    <2>1. \A x : [step |-> "sent", fix |-> x].step # "done"
        OBVIOUS
    <2>2. ~StartSync(s) /\ ~EndSync(s)
        BY <1>4 DEF StartSync, EndSync
    <2>3. ~SyncOne(s)
        BY <1>2, <1>3, <2>1 DEF SyncOne
    <2>4. ~SyncAnswered(s)
        BY <1>2, <1>3, <1>4 DEF SyncAnswered
    <2>5. QED
        BY <2>2, <2>3, <2>4
<1>8. ASSUME NEW q \in Posters PROVE ~ReadLatest(q)
    <2> DEFINE req == [step |-> "read", fix |-> post[q].fix, stamp |-> clock,
                       prev |-> IF stored = <<>> THEN <<>> ELSE <<stored[Latest]>>]
    <2>1. req.step # "done"
        OBVIOUS
    <2>2. ReadLatest(q) => SetPost(q, req)
        BY DEF ReadLatest
    <2> HIDE DEF req
    <2>3. QED
        BY <1>3, <2>1, <2>2
<1>9. ASSUME NEW q \in Posters, SaveLocation(q) PROVE q = p
    <2>1. q # p => post'[p] = post[p]
        BY <1>2, <1>9 DEF SaveLocation, SetPost
    <2>2. QED
        BY <2>1
<1>10. QED
    BY <1>5, <1>6, <1>7, <1>8, <1>9 DEF FeedNext

\* Positions are lost only by a full queue or by who writes over a changed one, be it a
\* synchronisation or the other taker of positions, and refused only when they, or the row before
\* them, came in late or the vehicle stood.
THEOREM WritersAlone == FeedSpec => OnlyOverlapsLose
<1> DEFINE Step ==
       /\ ~(Held \subseteq Held') =>
            \/ Len(backlog) = MaxQueue /\ backlog' # <<>> /\ Len(backlog') = MaxQueue
            \/ \E p \in Live : WritesOver(p)
            \/ \E s \in Syncs : sync[s].read # backlog /\ sync[s] # NoSync /\ sync'[s] = NoSync
       /\ \A p \in Posters :
            LET r == post[p]
            IN r.step = "read" /\ post'[p].step = "done" /\ stored' = stored
               => \/ r.prev[1].at = r.fix.at
                  \/ r.stamp # r.fix.when \/ r.prev[1].stamp # r.prev[1].when
<1>1. FeedInv /\ [FeedNext]_feedVars => [Step]_feedVars
    <2> SUFFICES ASSUME FeedInv, FeedNext PROVE Step
        OBVIOUS
    <2>1. \/ Held \subseteq Held'
          \/ Len(backlog) = MaxQueue /\ backlog' # <<>> /\ Len(backlog') = MaxQueue
          \/ \E p \in Live : WritesOver(p)
          \/ \E s \in Syncs : sync[s].read # backlog /\ sync[s] # NoSync /\ sync'[s] = NoSync
        BY DriveDropsNothing, AppDropsNothing, SyncDropsNothing, ServerDropsNothing DEF FeedNext
    <2>2. ASSUME NEW p \in Posters, post[p].step = "read", post'[p].step = "done", stored' = stored
          PROVE  \/ post[p].prev[1].at = post[p].fix.at
                 \/ post[p].stamp # post[p].fix.when \/ post[p].prev[1].stamp # post[p].prev[1].when
        <3>1. SaveLocation(p)
            BY <2>2, OnlySaveEnds
        <3>2. ~ShouldSave(post[p].prev, post[p].fix, post[p].stamp)
            <4> DEFINE row == [at |-> post[p].fix.at, when |-> post[p].fix.when, stamp |-> post[p].stamp]
            <4>1. PICK F, R : OnRoute(F, R)
                BY DEF FeedInv, FeedTypes
            <4>2. stored \in Seq(R \cup {row})
                BY <4>1 DEF OnRoute
            <4> HIDE DEF row
            <4>3. Append(stored, row) # stored
                <5>1. Len(Append(stored, row)) = Len(stored) + 1 /\ Len(stored) \in Nat
                    BY <4>2
                <5>2. QED
                    BY <5>1
            <4>4. QED
                BY <2>2, <3>1, <4>3 DEF SaveLocation, row
        <3>3. QED
            BY <2>2, <3>2, SavedIfMoved
    <2>3. QED
        BY <2>1, <2>2
<1>2. QED
    BY <1>1, FeedStart, FeedGoesOn, PTL DEF FeedSpec, OnlyOverlapsLose
===============================================================================
