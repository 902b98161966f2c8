------------------------------ MODULE Immobilizer ------------------------------
(***************************************************************************)
(* The immobilizer of one vehicle: commands that the office queues         *)
(* (routers/gps_router.py), and the thread of the SinoTrack server that    *)
(* serves the vehicle's tracker (services/sinotrack_tcp_server.py), makes  *)
(* a command ready once the vehicle stands still, claims it and sends it   *)
(* (services/gps_immobilizer_dispatcher.py).  The tracker switches the     *)
(* relay and answers; the connection may break and the server restart at   *)
(* any time, and what was under way on the connection is then lost.        *)
(*                                                                         *)
(* Each step of the thread commits to the database on its own.  The thread *)
(* of an old connection has ended when the tracker connects again, and the *)
(* device stays active on its vehicle.                                     *)
(***************************************************************************)
EXTENDS Integers, Sequences

CONSTANTS
    MaxCommands, \* bound: commands queued
    MaxBreaks,   \* bound: connections broken and servers restarted
    MaxBuffered  \* bound: points reported late

ASSUME ImmobilizerAssumption ==
    MaxCommands \in Nat /\ MaxBreaks \in Nat /\ MaxBuffered \in Nat

VARIABLES
    queue,      \* rows of mes_gps_command_queue: action and status
    lastMoving, \* MesGpsDevice.last_speed_kmh > 0
    claimed,    \* commands in the order of their sent_at
    old,        \* commands whose sent_at is more than 120 seconds ago
    thread,     \* where the handler is, its zero_speed_streak, the command it has claimed
    link,       \* the connection is up
    toTracker,  \* commands on their way to the tracker
    answers,    \* number of answers (V4) on their way to the server
    liveSend,   \* IMMOBILIZER_LIVE_SEND of the running server
    relay, moving, \* the vehicle
    obeyed,     \* history: commands the tracker has carried out
    breaks, buffered

server == <<queue, lastMoving, claimed, thread>>
wire == <<link, toTracker, answers>>
onBoard == <<relay, moving, obeyed>>
immobilizerVars == <<server, old, wire, liveSend, onBoard, breaks, buffered>>

Actions == {"BLOCK", "UNBLOCK"}
CommandStates == {"pending", "armed", "ready", "sent", "acked"}
StopStreak == 3

Idle == [at |-> "recv", streak |-> 0, command |-> 0]

ConnectionInit ==
    /\ queue = <<>> /\ lastMoving = FALSE /\ claimed = <<>> /\ old = {}
    /\ thread = Idle /\ link = TRUE /\ toTracker = <<>> /\ answers = 0
    /\ liveSend \in BOOLEAN
    /\ relay = "UNBLOCK" /\ moving = FALSE /\ obeyed = <<>>
    /\ breaks = 0 /\ buffered = 0

Waiting == {"pending", "armed"}
InState(S) == {c \in DOMAIN queue : queue[c].status \in S}
IsFirst(c, S) == c \in S /\ \A other \in S : c <= other

-----------------------------------------------------------------------------
(* The office.                                                             *)

\* A request like one that waits already is answered with that one.
Request(action) ==
    /\ Len(queue) < MaxCommands
    /\ ~\E c \in InState(Waiting) : queue[c].action = action
    /\ queue' = Append(queue, [action |-> action,
                               status |-> IF action = "BLOCK" /\ lastMoving THEN "armed" ELSE "pending"])
    /\ UNCHANGED <<lastMoving, claimed, thread, old, wire, liveSend, onBoard, breaks, buffered>>

-----------------------------------------------------------------------------
(* The thread of the connection.                                           *)

Listening == thread.at = "recv" /\ link

Lesser(a, b) == IF a <= b THEN a ELSE b

\* A point; one captured before the last point known changes the streak alone.
ReceivePoint(isMoving, newest) ==
    LET streak == IF isMoving THEN 0 ELSE Lesser(thread.streak + 1, StopStreak)
    IN /\ Listening
       /\ lastMoving' = IF newest THEN isMoving ELSE lastMoving
       /\ thread' = [thread EXCEPT !.streak = streak,
                                   !.at = IF streak = StopStreak THEN "evaluate" ELSE "recv"]
       /\ UNCHANGED <<queue, claimed, old, wire, liveSend, onBoard, breaks>>

\* Mutant: a command armed while the vehicle moved is never taken up.
EligibleUnarmed(c) ==
    /\ IsFirst(c, InState(Waiting)) /\ queue[c].status = "pending"
    /\ queue[c].action = "BLOCK" => ~lastMoving

\* evaluate_pending_command: the first command decides, whatever waits behind it.
Eligible(c) ==
    /\ IsFirst(c, InState(Waiting))
    /\ queue[c].action = "BLOCK" => ~lastMoving

MarkReady ==
    /\ thread.at = "evaluate" /\ thread' = [thread EXCEPT !.at = "dispatch"]
    /\ queue' = [c \in DOMAIN queue |-> IF Eligible(c) THEN [queue[c] EXCEPT !.status = "ready"] ELSE queue[c]]
    /\ UNCHANGED <<lastMoving, claimed, old, wire, liveSend, onBoard, breaks, buffered>>

\* Mutant: a command is sent first and marked afterwards, when it is answered.
ClaimedUnmarked(c) == queue

Claimed(c) == [queue EXCEPT ![c].status = "sent"]

\* mark_command_sent, before anything is on the wire.
Claim(c) ==
    /\ thread.at = "dispatch" /\ liveSend /\ IsFirst(c, InState({"ready"}))
    /\ queue' = Claimed(c)
    /\ claimed' = Append(claimed, c)
    /\ thread' = [thread EXCEPT !.at = "send", !.command = c]
    /\ UNCHANGED <<lastMoving, old, wire, liveSend, onBoard, breaks, buffered>>

NothingToSend ==
    /\ thread.at = "dispatch" /\ (~liveSend \/ InState({"ready"}) = {})
    /\ thread' = [thread EXCEPT !.at = "recv"]
    /\ UNCHANGED <<queue, lastMoving, claimed, old, wire, liveSend, onBoard, breaks, buffered>>

Send ==
    /\ thread.at = "send" /\ thread' = [thread EXCEPT !.at = "recv"]
    /\ toTracker' = IF link THEN Append(toTracker, thread.command) ELSE toTracker
    /\ UNCHANGED <<queue, lastMoving, claimed, old, link, answers, liveSend, onBoard, breaks, buffered>>

RecentlySent == {n \in DOMAIN claimed : queue[claimed[n]].status = "sent" /\ claimed[n] \notin old}

\* Mutant: an answer settles every command sent lately.
AnsweredAll(n) == n \in RecentlySent

\* ack_latest_sent_command
Answered(n) == n \in RecentlySent /\ \A m \in RecentlySent : m <= n

\* An answer names no command: it is taken for the last one sent in the last 120 seconds.
ReceiveAnswer ==
    /\ Listening /\ answers > 0 /\ answers' = answers - 1
    /\ queue' = [c \in DOMAIN queue |->
                    IF \E n \in DOMAIN claimed : claimed[n] = c /\ Answered(n)
                    THEN [queue[c] EXCEPT !.status = "acked"] ELSE queue[c]]
    /\ UNCHANGED <<lastMoving, claimed, thread, old, link, toTracker, liveSend, onBoard, breaks, buffered>>

Close ==
    /\ thread.at = "recv" /\ ~link /\ thread' = [thread EXCEPT !.at = "closed"]
    /\ UNCHANGED <<queue, lastMoving, claimed, old, wire, liveSend, onBoard, breaks, buffered>>

Handle == MarkReady \/ (\E c \in DOMAIN queue : Claim(c)) \/ NothingToSend \/ Send \/ Close

-----------------------------------------------------------------------------
(* The tracker, its vehicle, the connection and the clock.                 *)

Report == ReceivePoint(moving, TRUE) /\ UNCHANGED buffered

\* A point the tracker kept while it was out of reach.
ReportLate ==
    /\ buffered < MaxBuffered /\ buffered' = buffered + 1
    /\ \E was \in BOOLEAN : ReceivePoint(was, FALSE)

Obey ==
    /\ toTracker # <<>> /\ toTracker' = Tail(toTracker)
    /\ relay' = queue[Head(toTracker)].action
    /\ obeyed' = Append(obeyed, Head(toTracker))
    /\ answers' = answers + 1
    /\ UNCHANGED <<server, old, link, liveSend, moving, breaks, buffered>>

SetOff ==
    /\ ~moving /\ relay = "UNBLOCK" /\ moving' = TRUE
    /\ UNCHANGED <<server, old, wire, liveSend, relay, obeyed, breaks, buffered>>

Halt ==
    /\ moving /\ moving' = FALSE
    /\ UNCHANGED <<server, old, wire, liveSend, relay, obeyed, breaks, buffered>>

Unplugged == link' = FALSE /\ toTracker' = <<>> /\ answers' = 0

Break ==
    /\ link /\ breaks < MaxBreaks /\ breaks' = breaks + 1 /\ Unplugged
    /\ UNCHANGED <<server, old, liveSend, onBoard, buffered>>

Restart ==
    /\ breaks < MaxBreaks /\ breaks' = breaks + 1 /\ Unplugged
    /\ thread' = [thread EXCEPT !.at = "closed"]
    /\ liveSend' \in BOOLEAN
    /\ UNCHANGED <<queue, lastMoving, claimed, old, onBoard, buffered>>

Connect ==
    /\ thread.at = "closed" /\ thread' = Idle /\ link' = TRUE
    /\ UNCHANGED <<queue, lastMoving, claimed, old, toTracker, answers, liveSend, onBoard, breaks, buffered>>

\* 120 seconds have passed since a command was claimed.
Age(n) ==
    /\ claimed[n] \notin old
    /\ old' = old \cup {claimed[m] : m \in 1 .. n}
    /\ UNCHANGED <<server, wire, liveSend, onBoard, breaks, buffered>>

-----------------------------------------------------------------------------
ConnectionNext ==
    \/ \E action \in Actions : Request(action)
    \/ Handle \/ ReceiveAnswer
    \/ Report \/ ReportLate \/ Obey \/ SetOff \/ Halt
    \/ Break \/ Restart \/ Connect
    \/ \E n \in DOMAIN claimed : Age(n)

\* The thread runs on; the tracker reports at intervals, obeys, and connects again when it is cut
\* off; a blocked vehicle comes to a halt.
Fairness ==
    /\ WF_immobilizerVars(Handle) /\ WF_immobilizerVars(Report) /\ WF_immobilizerVars(Connect)
    /\ WF_immobilizerVars(relay = "BLOCK" /\ Halt)

ConnectionSpec == ConnectionInit /\ [][ConnectionNext]_immobilizerVars /\ Fairness

-----------------------------------------------------------------------------
(* Properties.                                                             *)

\* Whatever breaks or restarts, the tracker carries commands out in the order in which the office
\* queued them and no command twice: the thread claims a command before it sends it, and takes the
\* first that waits, then the first that is ready.
ObeyedInOrder == \A m, n \in DOMAIN obeyed : m < n => obeyed[m] < obeyed[n]

\* Answers name no command and may be lost or late, so one may be put down to a later command than it
\* was given for.  Still, once every command is acked, the relay is as the last of them said.
AllAckedInForce ==
    queue # <<>> /\ InState({"acked"}) = DOMAIN queue => relay = queue[Len(queue)].action

\* A blocked vehicle is not forgotten: a command to unblock it is sent in the end, though commands
\* wait before it, the streak starts anew with every connection and points arrive late.
ReleaseIsSent ==
    \A c \in 1 .. MaxCommands :
        (relay = "BLOCK" /\ c \in DOMAIN queue /\ queue[c].action = "UNBLOCK")
            ~> (c \in InState({"sent", "acked"}) \/ relay = "UNBLOCK" \/ ~liveSend)
===============================================================================
