----------------------------- MODULE DriverTasks ------------------------------
(***************************************************************************)
(* Transport tasks: the office books and edits them and switches their     *)
(* tracking (routers/gps_router.py), the driver's app picks the cargo up   *)
(* and delivers it (routers/driver_router.py), and both set the status of  *)
(* a driver, whom a location report also puts on a trip.                   *)
(*                                                                         *)
(* A handler that reads before it writes is two steps, Ask and Answer,     *)
(* with nothing locked between them: a delivery awaits its photo there.    *)
(* The session writes only the attributes that differ from what it read.   *)
(***************************************************************************)
EXTENDS Naturals

CONSTANTS
    Tasks,       \* rows of transport_tasks
    Crew,        \* rows of drivers, each with a user of its own
    Guest,       \* a user with no row in drivers
    Nobody,
    Desks,       \* requests handled at a time
    MaxJournal   \* bound: events of one kind on a task

ASSUME DriverTasksAssumption == Guest \notin Crew /\ Nobody \notin Crew \cup {Guest} /\ MaxJournal \in Nat

VARIABLES
    errand,   \* per task: state, whether it has a vehicle, driver, holder (driver_user_id), tracking
    crew,     \* per driver: "active", "inactive" or "on_trip"
    visit,    \* per desk: what the handler has read, or NoVisit
    journal,  \* per task: pickups and deliveries in transport_task_events
    steered,  \* history: tasks whose state the office has set itself
    resent    \* history: tasks of which a delivery was recorded while another one was handled

errandVars == <<errand, crew, visit, journal, steered, resent>>

OfficeStates == {"assigned", "picked_up", "delivered", "completed", "cancelled"}
NoErrand == [state |-> "absent", vehicle |-> FALSE, driver |-> Nobody, holder |-> Nobody, tracking |-> FALSE]
NoVisit == [op |-> "none"]

ErrandsInit ==
    /\ errand = [t \in Tasks |-> NoErrand]
    /\ crew \in [Crew -> {"active", "inactive"}]
    /\ visit = [k \in Desks |-> NoVisit]
    /\ journal = [t \in Tasks |-> [pickups |-> 0, deliveries |-> 0]]
    /\ steered = {} /\ resent = {}

\* _find_driver_for_user
DriverOf(u) == IF u \in Crew THEN u ELSE Nobody

Booked(t) == errand[t].state # "absent"

-----------------------------------------------------------------------------
(* The office.                                                             *)

CreateErrand(t) ==
    /\ ~Booked(t)
    /\ \E s \in OfficeStates, v \in BOOLEAN, d \in Crew \cup {Nobody}, h \in Crew \cup {Guest, Nobody} :
        /\ errand' = [errand EXCEPT ![t] = [state |-> s, vehicle |-> v, driver |-> d, holder |-> h, tracking |-> FALSE]]
        /\ steered' = IF s = "assigned" THEN steered ELSE steered \cup {t}
    /\ UNCHANGED <<crew, visit, journal, resent>>

\* Any field to any value, whatever the state; several at once are several edits.
EditErrand(t) ==
    /\ Booked(t)
    /\ \/ \E s \in OfficeStates : errand' = [errand EXCEPT ![t].state = s] /\ steered' = steered \cup {t}
       \/ /\ \/ \E v \in BOOLEAN : errand' = [errand EXCEPT ![t].vehicle = v]
             \/ \E d \in Crew \cup {Nobody} : errand' = [errand EXCEPT ![t].driver = d]
             \/ \E h \in Crew \cup {Guest, Nobody} : errand' = [errand EXCEPT ![t].holder = h]
          /\ steered' = steered
    /\ UNCHANGED <<crew, visit, journal, resent>>

\* A location report names a driver: whoever sends it, and whatever the driver's status.
Report(d) ==
    /\ crew' = [crew EXCEPT ![d] = "on_trip"]
    /\ UNCHANGED <<errand, visit, journal, steered, resent>>

-----------------------------------------------------------------------------
(* Start and stop, pickup and delivery.                                    *)

Startable(e) == e.vehicle

Collectable(e) == e.state = "assigned" /\ e.vehicle

Deliverable(e) == e.state = "picked_up"

Ask(k, t, op, driver) ==
    /\ visit[k] = NoVisit /\ Booked(t)
    /\ visit' = [visit EXCEPT ![k] =
           [op |-> op, t |-> t, driver |-> driver, seen |-> errand[t],
            status |-> IF driver = Nobody THEN "none" ELSE crew[driver],
            delivered |-> journal[t].deliveries]]
    /\ UNCHANGED <<errand, crew, journal, steered, resent>>

AskStart(k, t) == Startable(errand[t]) /\ Ask(k, t, "start", errand[t].driver)
AskStop(k, t) == Ask(k, t, "stop", errand[t].driver)
AskPickup(k, t) == errand[t].holder # Nobody /\ Collectable(errand[t]) /\ Ask(k, t, "pickup", DriverOf(errand[t].holder))
AskDeliver(k, t) == errand[t].holder # Nobody /\ Deliverable(errand[t]) /\ Ask(k, t, "deliver", DriverOf(errand[t].holder))

Begun(e, state) == [e EXCEPT !.state = state, !.tracking = TRUE]
Ended(e) == [e EXCEPT !.state = "completed", !.tracking = FALSE]

\* What the session changed of the row as it read it, over the row as it is now.
Changed(seen, becomes, now) ==
    [f \in DOMAIN now |-> IF becomes[f] = seen[f] THEN now[f] ELSE becomes[f]]

\* Mutant: a driver who has finished stays on the trip.
KeptOnTrip(status) == status

Freed(status) == IF status = "on_trip" THEN "active" ELSE status

SetCrew(d, seen, becomes) ==
    crew' = IF d = Nobody \/ becomes = seen THEN crew ELSE [crew EXCEPT ![d] = becomes]

Answer(k, v, becomes) ==
    /\ errand' = [errand EXCEPT ![v.t] = Changed(v.seen, becomes, @)]
    /\ visit' = [visit EXCEPT ![k] = NoVisit]
    /\ UNCHANGED steered

AnswerStart(k) ==
    LET v == visit[k]
    IN /\ v.op = "start"
       /\ Answer(k, v, Begun(v.seen, "active"))
       /\ SetCrew(v.driver, v.status, "on_trip")
       /\ UNCHANGED <<journal, resent>>

AnswerStop(k) ==
    LET v == visit[k]
    IN /\ v.op = "stop"
       /\ Answer(k, v, Ended(v.seen))
       /\ SetCrew(v.driver, v.status, Freed(v.status))
       /\ UNCHANGED <<journal, resent>>

AnswerPickup(k) ==
    LET v == visit[k]
    IN /\ v.op = "pickup" /\ journal[v.t].pickups < MaxJournal
       /\ Answer(k, v, Begun(v.seen, "picked_up"))
       /\ SetCrew(v.driver, v.status, "on_trip")
       /\ journal' = [journal EXCEPT ![v.t].pickups = @ + 1]
       /\ UNCHANGED resent

\* The driver is looked up after the photo has come in.
AnswerDeliver(k) ==
    LET v == visit[k]
    IN /\ v.op = "deliver" /\ journal[v.t].deliveries < MaxJournal
       /\ Answer(k, v, Ended(v.seen))
       /\ crew' = IF v.driver = Nobody THEN crew ELSE [crew EXCEPT ![v.driver] = Freed(@)]
       /\ journal' = [journal EXCEPT ![v.t].deliveries = @ + 1]
       /\ resent' = IF v.delivered < journal[v.t].deliveries THEN resent \cup {v.t} ELSE resent

\* A photo of the wrong type or size, or a lost connection.
GiveUp(k) ==
    /\ visit[k] # NoVisit
    /\ visit' = [visit EXCEPT ![k] = NoVisit]
    /\ UNCHANGED <<errand, crew, journal, steered, resent>>

ErrandsNext ==
    \/ \E t \in Tasks :
        \/ CreateErrand(t) \/ EditErrand(t)
        \/ \E k \in Desks : AskStart(k, t) \/ AskStop(k, t) \/ AskPickup(k, t) \/ AskDeliver(k, t)
    \/ \E d \in Crew : Report(d)
    \/ \E k \in Desks : AnswerStart(k) \/ AnswerStop(k) \/ AnswerPickup(k) \/ AnswerDeliver(k) \/ GiveUp(k)

ErrandsSpec == ErrandsInit /\ [][ErrandsNext]_errandVars

-----------------------------------------------------------------------------
(* Properties.                                                             *)

Involved(t) == {errand[t].driver, DriverOf(errand[t].holder)} \ {Nobody}

\* Tasks over and still tracked, and drivers on a trip with no task under way.
Loose ==
    {t \in Tasks : errand[t].state \in {"completed", "cancelled"} /\ errand[t].tracking}
    \cup {d \in Crew : crew[d] = "on_trip" /\ ~\E t \in Tasks : errand[t].tracking /\ d \in Involved(t)}

\* A task is recorded as delivered more often than as picked up only when the office has set its
\* state itself, or when a delivery was sent again while the first one was still handled; it goes on
\* being tracked after its end, or a driver stays on a trip, only by an edit or a report, when the task
\* is held by another than its driver, or when two commands overlap.
OnlyOverlapsLeaveLoose ==
    [][/\ \A t \in Tasks : journal'[t].deliveries > journal'[t].pickups => t \in steered \cup resent'
       /\ ~(Loose' \subseteq Loose) =>
            \/ \E t \in Tasks : EditErrand(t)
            \/ \E d \in Crew : Report(d)
            \/ \E k \in Desks :
                  LET v == visit[k]
                  IN /\ v # NoVisit /\ visit'[k] = NoVisit
                     /\ \/ v.seen # errand[v.t]
                        \/ v.driver # Nobody /\ v.status # crew[v.driver]
                        \/ v.seen.driver # DriverOf(v.seen.holder)]_errandVars
===============================================================================
