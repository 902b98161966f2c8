------------------------------ MODULE GpsAlerts -------------------------------
(***************************************************************************)
(* The alarms of the vehicles (services/gps_alerts.py): a job runs every   *)
(* minute, one at a time, first over the vehicles with an active trip and  *)
(* then over the physical trackers, sends what it finds to Telegram, and   *)
(* remembers in one row per vehicle number what it has sent.               *)
(*                                                                         *)
(* Trips number the rows of vehicles, trackers those of mes_vehicles; the  *)
(* row of alarms refers to vehicles, so that the job cannot be committed   *)
(* once it has met a tracker whose number no vehicle has.                  *)
(***************************************************************************)
CONSTANTS
    Numbers, \* numbers of vehicles, of either table
    Known    \* those of table vehicles

ASSUME AlertsAssumption == Known \subseteq Numbers

VARIABLES
    onTrip,  \* numbers with an active trip
    seen,    \* per number: where phone and tracker are ("none", "in" or "out" of the fence), which
             \* of them is newest, whether that is over ten minutes old, and whether it is too fast
    fenced,  \* numbers whose fence is enabled
    flag,    \* per number: the alarms sent, in gps_alert_state
    job,     \* the run under way: the flags in its session and the trackers left, or NoJob
    told     \* history, per number and alarm: "no", "sent", "dropped" with the flag by a rollback,
             \* or "again"

alertVars == <<onTrip, seen, fenced, flag, job, told>>

Alarms == {"fence", "speed"}
NoJob == [open |-> FALSE]

AlertsInit ==
    /\ onTrip \in SUBSET Known
    /\ seen = [v \in Numbers |-> [phone |-> "none", tracker |-> "none", newest |-> "phone", old |-> FALSE, fast |-> FALSE]]
    /\ fenced = {}
    /\ flag = [v \in Numbers |-> {}]
    /\ job = NoJob
    /\ told = [v \in Numbers |-> [a \in Alarms |-> "no"]]

\* A position comes in, or none does for ten minutes.  Phones are of vehicles that are known.
See(v) ==
    /\ \E p \in {"none", "in", "out"}, q \in {"none", "in", "out"}, n \in {"phone", "tracker"}, old, fast \in BOOLEAN :
        /\ p # "none" => v \in Known
        /\ fast => q # "none"
        /\ (n = "phone") = (q = "none" \/ (p # "none" /\ n = "phone"))
        /\ seen' = [seen EXCEPT ![v] = [phone |-> p, tracker |-> q, newest |-> n, old |-> old, fast |-> fast]]
    /\ UNCHANGED <<onTrip, fenced, flag, job, told>>

\* PUT /safety/settings leaves the flags as they are.
SwitchFence(v) ==
    /\ v \in Known
    /\ fenced' = IF v \in fenced THEN fenced \ {v} ELSE fenced \cup {v}
    /\ UNCHANGED <<onTrip, seen, flag, job, told>>

\* create_trip
BeginTrip(v) ==
    /\ v \in Known \ onTrip
    /\ onTrip' = onTrip \cup {v}
    /\ UNCHANGED <<seen, fenced, flag, job, told>>

-----------------------------------------------------------------------------
\* latest_location_for_vehicle
Place(v) == IF seen[v].newest = "phone" THEN seen[v].phone ELSE seen[v].tracker

\* Mutant: an alarm is sent and not remembered.
RememberedNot(flags, alarm, on) == IF on THEN flags ELSE flags \ {alarm}

Remembered(flags, alarm, on) == IF on THEN flags \cup {alarm} ELSE flags \ {alarm}

Told(was, flagged, on) ==
    IF ~on THEN "no"
    ELSE IF flagged THEN was
    ELSE IF was = "sent" THEN "again" ELSE "sent"

\* A vehicle that is silent gets the alarm of that and no other: _notify returns nothing, so that
\* this alarm, and those of the destination and the border, are sent by every run.
OnMove(v) == v \in onTrip /\ Place(v) # "none" /\ ~seen[v].old

CheckTrips ==
    LET watched == {v \in fenced : OnMove(v)}
        out(v) == Place(v) = "out"
    IN /\ job = NoJob
       /\ job' = [open |-> TRUE,
                  flags |-> [v \in Numbers |-> IF v \in watched THEN Remembered(flag[v], "fence", out(v)) ELSE flag[v]],
                  left |-> {v \in Numbers : seen[v].tracker # "none"}]
       /\ told' = [v \in Numbers |->
              IF v \in watched THEN [told[v] EXCEPT !["fence"] = Told(@, "fence" \in flag[v], out(v))] ELSE told[v]]
       /\ UNCHANGED <<onTrip, seen, fenced, flag>>

\* A tracker is looked at with or without a trip, and however old its position is.
CheckTracker(v) ==
    LET f == job.flags[v]
        out == seen[v].tracker = "out"
        g == Remembered(f, "speed", seen[v].fast)
    IN /\ job.open /\ v \in job.left \cap Known
       /\ job' = [job EXCEPT !.left = @ \ {v}, !.flags[v] = IF v \in fenced THEN Remembered(g, "fence", out) ELSE g]
       /\ told' = [told EXCEPT ![v] = [a \in Alarms |->
              IF a = "speed" THEN Told(@[a], a \in f, seen[v].fast)
              ELSE IF v \in fenced THEN Told(@[a], a \in f, out) ELSE @[a]]]
       /\ UNCHANGED <<onTrip, seen, fenced, flag>>

CommitJob ==
    /\ job.open /\ job.left = {}
    /\ flag' = job.flags
    /\ job' = NoJob
    /\ UNCHANGED <<onTrip, seen, fenced, told>>

\* The row of a tracker's alarms refers to no vehicle: everything is rolled back but what was sent.
FailJob ==
    /\ job.open /\ job.left \ Known # {}
    /\ job' = NoJob
    /\ told' = [v \in Numbers |-> [a \in Alarms |->
           IF told[v][a] = "sent" /\ a \notin flag[v] THEN "dropped" ELSE told[v][a]]]
    /\ UNCHANGED <<onTrip, seen, fenced, flag>>

AlertsNext ==
    \/ \E v \in Numbers : See(v) \/ SwitchFence(v) \/ BeginTrip(v) \/ CheckTracker(v)
    \/ CheckTrips \/ CommitJob \/ FailJob

AlertsSpec == AlertsInit /\ [][AlertsNext]_alertVars

-----------------------------------------------------------------------------
(* Properties.                                                             *)

\* While no source has reported the vehicle back inside its fence, or below its limit, it gets one
\* alarm, unless the run that sent it was rolled back.
OnlyRollbacksRepeat == \A v \in Numbers, a \in Alarms : told[v][a] # "again"
===============================================================================
