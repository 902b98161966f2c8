----------------------------- MODULE TripTracking ------------------------------
(***************************************************************************)
(* GPS tracking of logistics trips (services/trip_tracking.py): sessions   *)
(* that a driver's app starts and stops, the devices bound to vehicles     *)
(* (logistics_master_data.py), the points that the app and the physical    *)
(* trackers upload, late, in any order and again when an answer was lost   *)
(* (physical_tracker_ingestion.py), and the last position of every trip.   *)
(* The trips are those of TripLifecycle, whose steps go on meanwhile; a    *)
(* point captured after the departure takes a dispatched trip on its way.  *)
(*                                                                         *)
(* A request locks the row it is about and commits once: the session, the  *)
(* trip of a start, the device that is rebound.  A start reads its device  *)
(* without a lock, and a rebinding the sessions: each checks first, and    *)
(* commits later.                                                          *)
(* Two payloads of one client_point_id are told apart by captured_at.      *)
(***************************************************************************)
EXTENDS Integers, Sequences

CONSTANTS
    Trips, Vehicles, Drivers, None, \* as in TripLifecycle
    Devices,    \* rows of mes_gps_devices
    Clients,    \* client_session_ids
    PointIds,   \* client_point_ids
    Skew,       \* how far ahead of the server's clock a point may be captured
    Retention,  \* offline_retention_hours
    MaxTime,    \* bound: the clock
    MaxSessions, MaxPoints \* bounds: rows

ASSUME TrackingAssumption ==
    /\ Skew \in Nat /\ Retention \in Nat /\ MaxTime \in Nat
    /\ MaxSessions \in Nat /\ MaxPoints \in Nat

VARIABLES
    status, vehicle, driver, vehicleState, resumed, \* as in TripLifecycle
    now,
    departure, \* per trip: actual_departure_at, or None
    devices,   \* per device: vehicle, driver and whether it is active
    sessions,  \* mes_trip_tracking_sessions; live: the authorization has not expired
    points,    \* mes_trip_locations
    latest,    \* per trip: location_id of its latest location, 0 for none
    starting,  \* per trip: the device that a start in progress has read, or None
    changing   \* per device: what an update in progress will write, or None

L == INSTANCE TripLifecycle

trips == <<status, vehicle, driver, vehicleState, resumed>>
requests == <<starting, changing>>
tracking == <<devices, sessions, points, latest, requests>>
trackingVars == <<trips, now, departure, tracking>>

Trackable == {"loading", "loaded", "dispatched", "in_transit"}
Final == {"delivered", "accepted", "cancelled"}

Init ==
    /\ L!Init
    /\ now = 0 /\ departure = [t \in Trips |-> None]
    /\ devices \in [Devices -> [vehicle : Vehicles, driver : {None}, active : {TRUE}]]
    /\ sessions = <<>> /\ points = <<>> /\ latest = [t \in Trips |-> 0]
    /\ starting = [t \in Trips |-> None] /\ changing = [d \in Devices |-> None]

-----------------------------------------------------------------------------
(* Trips and time.                                                         *)

\* No start holds the row of the trip.
Free(t) == starting[t] = None

\* The clock has moved on since whatever was received before.
FinalDispatch(t) ==
    /\ Free(t) /\ L!FinalDispatch(t)
    /\ now < MaxTime /\ now' = now + 1
    /\ departure' = [departure EXCEPT ![t] = now + 1]
    /\ UNCHANGED tracking

TripCommand(t) ==
    /\ Free(t)
    /\ \/ \E v \in Vehicles, d \in Drivers \cup {None}, s \in {"draft", "planned"} : L!CreateTrip(t, v, d, s)
       \/ \E v \in Vehicles \cup {None}, d \in Drivers \cup {None} : L!UpdateAssignment(t, v, d)
       \/ \E target \in L!Statuses : L!TransitionTrip(t, target)
       \/ L!ConfirmLoading(t)
       \/ \E s \in L!PreDispatch : L!CorrectLoading(t, s)
       \/ L!ConfirmArrival(t)
       \/ \E complete \in BOOLEAN : L!RecordDelivery(t, complete) \/ L!AcceptDelivery(t, complete)
    /\ UNCHANGED <<now, departure, tracking>>

\* Bound: vehicles are serviced and retired before the first session.
VehicleCommand(v) ==
    /\ sessions = <<>> /\ L!VehicleStep(v)
    /\ UNCHANGED <<now, departure, tracking>>

Tick ==
    /\ now < MaxTime /\ now' = now + 1
    /\ UNCHANGED <<trips, departure, tracking>>

-----------------------------------------------------------------------------
(* Devices.                                                                *)

ActiveSessions == {s \in DOMAIN sessions : sessions[s].status = "active"}

\* Mutant: only sessions whose authorization is valid keep a device where it is.
InUseLive(d) == \E s \in ActiveSessions : sessions[s].device = d /\ sessions[s].live

InUse(d) == \E s \in ActiveSessions : sessions[s].device = d

\* The session in use is looked for while the device is locked, and the sessions are not.
Change(d, binding) ==
    /\ changing[d] = None
    /\ changing' = [changing EXCEPT ![d] = binding]
    /\ UNCHANGED <<trips, now, departure, devices, sessions, points, latest, starting>>

UpdateDevice(d, v, u, active) ==
    /\ vehicleState[v] # "INACTIVE"
    /\ InUse(d) => v = devices[d].vehicle /\ u = devices[d].driver
    /\ Change(d, [vehicle |-> v, driver |-> u, active |-> active])

UnbindDevice(d) == ~InUse(d) /\ Change(d, [devices[d] EXCEPT !.active = FALSE])

CommitDevice(d) ==
    /\ changing[d] # None
    /\ devices' = [devices EXCEPT ![d] = changing[d]]
    /\ changing' = [changing EXCEPT ![d] = None]
    /\ UNCHANGED <<trips, now, departure, sessions, points, latest, starting>>

-----------------------------------------------------------------------------
(* Sessions.                                                               *)

Session(t, client, d) ==
    [trip |-> t, vehicle |-> vehicle[t], driver |-> driver[t], device |-> d,
     client |-> client, status |-> "active", live |-> TRUE]

OfClient(client) == {s \in DOMAIN sessions : sessions[s].client = client}
OfTrip(t) == {s \in ActiveSessions : sessions[s].trip = t /\ sessions[s].driver = driver[t]}

\* The device is bound to the trip's vehicle, and to its driver or to nobody.
InScope(d, t) ==
    devices[d].active /\ devices[d].vehicle = vehicle[t] /\ devices[d].driver \in {None, driver[t]}

MayStart(t) == status[t] \in Trackable /\ driver[t] # None

\* A start with a device reads it first, with the trip locked and the device not.
ReadDevice(t, d) ==
    /\ Free(t) /\ MayStart(t) /\ InScope(d, t)
    /\ starting' = [starting EXCEPT ![t] = d]
    /\ UNCHANGED <<trips, now, departure, devices, sessions, points, latest, changing>>

\* What a start with this device, or without any, finds when it looks at the sessions.
CanStart(t, client, d) ==
    /\ MayStart(t) /\ starting[t] = d
    /\ \A s \in OfClient(client) :
         /\ sessions[s].trip = t /\ sessions[s].driver = driver[t] /\ sessions[s].vehicle = vehicle[t]
         /\ sessions[s].status = "active"

OpenSession(t, client, d) ==
    /\ CanStart(t, client, d)
    /\ OfClient(client) \cup OfTrip(t) = {} /\ Len(sessions) < MaxSessions
    /\ sessions' = Append(sessions, Session(t, client, d))
    /\ starting' = [starting EXCEPT ![t] = None]
    /\ UNCHANGED <<trips, now, departure, devices, points, latest, changing>>

\* The client's session, or else the trip's active one, goes on with a new authorization.
ResumeSession(s, t, client, d) ==
    /\ CanStart(t, client, d)
    /\ s \in IF OfClient(client) # {} THEN OfClient(client) ELSE OfTrip(t)
    /\ d # None => sessions[s].device \in {None, d}
    /\ sessions' = [sessions EXCEPT ![s].live = TRUE, ![s].device = IF d = None THEN @ ELSE d]
    /\ starting' = [starting EXCEPT ![t] = None]
    /\ UNCHANGED <<trips, now, departure, devices, points, latest, changing>>

\* The start is refused.
AbandonStart(t) ==
    /\ starting[t] # None
    /\ starting' = [starting EXCEPT ![t] = None]
    /\ UNCHANGED <<trips, now, departure, devices, sessions, points, latest, changing>>

Expire(s) ==
    /\ sessions[s].live /\ sessions' = [sessions EXCEPT ![s].live = FALSE]
    /\ UNCHANGED <<trips, now, departure, devices, points, latest, requests>>

\* authorize_session
Authorized(s) ==
    /\ sessions[s].status # "revoked" /\ sessions[s].live
    /\ driver[sessions[s].trip] = sessions[s].driver /\ vehicle[sessions[s].trip] = sessions[s].vehicle
    /\ status[sessions[s].trip] \notin Final

StopSession(s) ==
    /\ Authorized(s)
    /\ sessions' = [sessions EXCEPT ![s].status = "stopped"]
    /\ UNCHANGED <<trips, now, departure, devices, points, latest, requests>>

RevokeSession(s) ==
    /\ sessions' = [sessions EXCEPT ![s].status = "revoked"]
    /\ UNCHANGED <<trips, now, departure, devices, points, latest, requests>>

-----------------------------------------------------------------------------
(* Points.                                                                 *)

Stored(s, id) == {p \in DOMAIN points : points[p].session = s /\ points[p].id = id}

\* Later captured, or later stored.
Later(p, q, rows) == rows[p].captured > rows[q].captured \/ (rows[p].captured = rows[q].captured /\ p > q)

\* Mutant: the point stored last.
NewestStored(S, rows) == CHOOSE p \in S : \A q \in S : p >= q

\* Of the points at these places the one captured last.
Newest(S, rows) == CHOOSE p \in S : \A q \in S \ {p} : Later(p, q, rows)

\* evaluate_gps_in_transit, on the newest of the points just stored.
Underway(t, row) ==
    status[t] = "dispatched" /\ row.captured >= departure[t] /\ row.received >= departure[t]

\* Mutant: the last position is that of the last batch.
MovedToBatch(t, new, rows) == Newest(new, rows)

\* The new last position.
MovedTo(t, new, rows) == Newest(new \cup ({latest[t]} \ {0}), rows)

InRange(captured) == captured \in now - Retention .. now + Skew

\* The points of a batch (of two at most) that are not stored already, in its order.
Fresh(s, batch) ==
    LET left == {k \in DOMAIN batch : Stored(s, batch[k].id) = {}}
    IN CASE left = DOMAIN batch -> batch
         [] left = {} -> <<>>
         [] OTHER -> <<batch[CHOOSE k \in left : TRUE]>>

\* append_locations_for_session: points stored already are skipped, the others stored in the order
\* of the batch, and the trip is locked to see whether the newest moves it.
AppendLocations(s, batch) ==
    LET t == sessions[s].trip
        fresh == Fresh(s, batch)
        rows == points \o [k \in DOMAIN fresh |->
                             [session |-> s, trip |-> t, id |-> fresh[k].id,
                              captured |-> fresh[k].captured, received |-> now]]
        new == DOMAIN rows \ DOMAIN points
    IN /\ Len(rows) <= MaxPoints
       /\ \A k \in DOMAIN batch :
            /\ InRange(batch[k].captured)
            /\ \A p \in Stored(s, batch[k].id) : points[p].captured = batch[k].captured
       /\ points' = rows
       /\ latest' = IF new = {} THEN latest ELSE [latest EXCEPT ![t] = MovedTo(t, new, rows)]
       /\ new # {} => Free(t)
       /\ IF new # {} /\ Underway(t, rows[Newest(new, rows)])
          THEN L!GpsInTransit(t) ELSE UNCHANGED trips
       /\ UNCHANGED <<now, departure, devices, sessions, requests>>

AppUpload(s, batch) ==
    /\ Authorized(s) /\ sessions[s].status = "active"
    /\ AppendLocations(s, batch)

\* resolve_active_session
Tracked(d) ==
    {s \in ActiveSessions :
        /\ sessions[s].device = d /\ sessions[s].live
        /\ sessions[s].vehicle = devices[d].vehicle
        /\ devices[d].driver \in {None, sessions[s].driver}
        /\ status[sessions[s].trip] \in Trackable}

\* With no session the points move the vehicle alone, with several they are refused.
TrackerUpload(d, batch) ==
    /\ devices[d].active
    /\ \E s \in Tracked(d) :
         /\ Tracked(d) = {s}
         /\ vehicle[sessions[s].trip] = devices[d].vehicle
         /\ driver[sessions[s].trip] = sessions[s].driver
         /\ AppendLocations(s, batch)

Point == [id : PointIds, captured : 0 .. MaxTime + Skew]

\* One point, or two of different ids, in any order.
Batches == {<<p>> : p \in Point} \cup {batch \in Point \X Point : batch[1].id # batch[2].id}

-----------------------------------------------------------------------------
SessionStep ==
    \/ \E t \in Trips, client \in Clients, d \in Devices \cup {None} :
         \/ OpenSession(t, client, d)
         \/ \E s \in DOMAIN sessions : ResumeSession(s, t, client, d)
    \/ \E t \in Trips : AbandonStart(t) \/ \E d \in Devices : ReadDevice(t, d)
    \/ \E s \in DOMAIN sessions : Expire(s) \/ StopSession(s) \/ RevokeSession(s)

DeviceStep ==
    \E d \in Devices :
        \/ \E v \in Vehicles, u \in Drivers \cup {None}, active \in BOOLEAN : UpdateDevice(d, v, u, active)
        \/ UnbindDevice(d) \/ CommitDevice(d)

Upload ==
    \E batch \in Batches :
        \/ \E s \in DOMAIN sessions : AppUpload(s, batch)
        \/ \E d \in Devices : TrackerUpload(d, batch)

Next ==
    \/ \E t \in Trips : FinalDispatch(t) \/ TripCommand(t)
    \/ \E v \in Vehicles : VehicleCommand(v)
    \/ Tick \/ SessionStep \/ DeviceStep \/ Upload

Spec == Init /\ [][Next]_trackingVars

-----------------------------------------------------------------------------
(* Properties.                                                             *)

\* The last position shown of a trip is the one captured last of all its points, whichever session,
\* app or tracker stored them, and however late and in whatever order they came.
LatestIsNewest ==
    \A t \in Trips :
        LET ofTrip == {p \in DOMAIN points : points[p].trip = t}
        IN IF ofTrip = {} THEN latest[t] = 0
           ELSE latest[t] \in ofTrip /\ \A q \in ofTrip \ {latest[t]} : Later(latest[t], q, points)

\* A dispatched trip with a point captured and received after its departure is on its way: no such
\* point is missed because it came in a batch with older ones, or again.
PointMovesTrip ==
    \A p \in DOMAIN points :
        LET t == points[p].trip
        IN departure[t] # None /\ points[p].captured >= departure[t] /\ points[p].received >= departure[t]
             => status[t] # "dispatched"

\* What is shown of a trip follows from all its points, in whatever order they came: its last
\* position, and that it is on its way.
PositionsTell == LatestIsNewest /\ PointMovesTrip

\* The session is of the vehicle and the driver its trip has, and its device is bound to them.
OfItsTrip(s) == sessions[s].vehicle = vehicle[sessions[s].trip] /\ sessions[s].driver = driver[sessions[s].trip]
Bound(s) ==
    sessions[s].device # None =>
        /\ devices[sessions[s].device].vehicle = sessions[s].vehicle
        /\ devices[sessions[s].device].driver \in {None, sessions[s].driver}

\* A start or a rebinding commits, and what it has checked does not hold any more.
StartOvertaken(t) == starting[t] # None /\ starting'[t] = None /\ ~InScope(starting[t], t)
ChangeOvertaken(d) == CommitDevice(d) /\ InUse(d)

\* An active session is of the vehicle and the driver of its trip, always; and its device stays bound
\* to them unless the start of a session and a rebinding of its device overlap, each reading what the
\* other has locked (start_session, update_gps_device).  Trips, expiries and commands in any order,
\* and requests one after the other, cut off neither the app nor the tracker.
OnlyOverlapsUnbind ==
    [][\A s \in ActiveSessions' :
          /\ OfItsTrip(s)'
          /\ Bound(s)' \/ (s \in ActiveSessions /\ ~Bound(s))
               \/ (\E t \in Trips : StartOvertaken(t)) \/ \E d \in Devices : ChangeOvertaken(d)]_trackingVars
===============================================================================
