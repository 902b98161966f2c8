----------------------------- MODULE PrintQueue -----------------------------
(***************************************************************************)
(* The cloud print queue (services/print_jobs.py, routers/printing_        *)
(* router.py) and the Windows agents that poll it (print-agent/agent.py).  *)
(*                                                                         *)
(* A handler of the API reads the job row, decides, and commits: two steps *)
(* here, because no row is locked between them.  A package has one label   *)
(* (unique package_id), so a job is for a label.  A call whose client has  *)
(* given up (60 s timeout, crash) may still commit: it stays in "calls"    *)
(* with nobody waiting for it.                                             *)
(***************************************************************************)
EXTENDS Naturals, Sequences, FiniteSets

CONSTANTS
    Labels,      \* package labels
    Agents,      \* running copies of agent.py that share one PRINTER_NAME
    Printers,    \* printers the settings may name: "cloud", the agents', and "lan"
    Clerks,      \* users who label, reprint and retry
    MaxJobs,     \* bound: rows ever inserted in print_jobs
    MaxLosses,   \* bound: agent calls whose answer never arrives
    MaxCrashes,  \* bound: agent crashes
    MaxRetries   \* bound: retries of one job

Nobody == "nobody"

ASSUME PrintAssumption ==
    /\ {MaxJobs, MaxLosses, MaxCrashes, MaxRetries} \subseteq Nat
    /\ Printers \subseteq {"cloud", "lan"}
    /\ Agents \cap Clerks = {} /\ Nobody \notin Agents \cup Clerks

JobIds == 1 .. MaxJobs
NoJob == 0
Statuses == {"pending", "printing", "completed", "failed"}
Waiting == {"starting", "completing", "failing"}

VARIABLES
    jobs,     \* the print_jobs table, in creation order
    printed,  \* labels whose printed_at is set
    calls,    \* handlers between their read and their commit
    agent,    \* per agent: where process_job stands, what is left of the polled list
    paper,    \* labels that came out of a printer, per job
    losses, crashes, retries

vars == <<jobs, printed, calls, agent, paper, losses, crashes, retries>>

Idle == [pc |-> "idle", todo |-> {}]

Init ==
    /\ jobs = <<>> /\ printed = {} /\ calls = {}
    /\ agent = [a \in Agents |-> Idle]
    /\ paper = [j \in JobIds |-> 0]
    /\ losses = 0 /\ crashes = 0 /\ retries = [j \in JobIds |-> 0]

SetStatus(j, s) == [jobs EXCEPT ![j].status = s]

-----------------------------------------------------------------------------
(* A package is labelled once, with a job; a reprint reuses an open job of *)
(* the label (create_print_job), or adds one.                              *)

OpenJobs(l) == {j \in DOMAIN jobs : jobs[j].label = l /\ jobs[j].status \in {"pending", "printing"}}
Labelled == {jobs[j].label : j \in DOMAIN jobs}
Inserts == {"label", "reprint"}
Inserting == {c \in calls : c.op \in Inserts}
Free(u) == \A c \in calls : c.by # u

Insert(op, u, l) ==
    /\ Free(u) /\ Len(jobs) + Cardinality(Inserting) < MaxJobs
    /\ calls' = calls \cup {[op |-> op, by |-> u, job |-> NoJob, label |-> l, seen |-> "pending"]}
    /\ UNCHANGED <<jobs, printed, agent, paper, losses, crashes, retries>>

\* The unique package_id lets one of two concurrent calls insert the label.
CreateLabel(u, l) ==
    /\ l \notin Labelled \cup {c.label : c \in {c \in calls : c.op = "label"}}
    /\ Insert("label", u, l)

ReprintLabel(u, l) ==
    /\ l \in Labelled /\ OpenJobs(l) = {}
    /\ Insert("reprint", u, l)

Add(c, printer, s) == jobs' = Append(jobs, [label |-> c.label, printer |-> printer, status |-> s])

\* The printer is the one the settings name at the time.  One on the network is
\* driven inside the request that labels the package; a reprint only queues a job.
CommitInsert(c) ==
    /\ c.op \in Inserts
    /\ \E printer \in Printers :
        LET driven == printer = "lan" /\ c.op = "label" IN
        \/ ~driven /\ Add(c, printer, "pending") /\ UNCHANGED <<printed, paper>>
        \/ driven /\ Add(c, printer, "failed") /\ UNCHANGED <<printed, paper>>
        \/ /\ driven /\ Add(c, printer, "completed")
           /\ printed' = printed \cup {c.label}
           /\ paper' = [paper EXCEPT ![Len(jobs) + 1] = @ + 1]
    /\ calls' = calls \ {c}
    /\ UNCHANGED <<agent, losses, crashes, retries>>

-----------------------------------------------------------------------------
(* start, complete, fail and retry: read, check the status read, commit.   *)

\* Mutant: a start of failed jobs only.
AcceptsFailedStart(op, s) ==
    CASE op \in {"start", "retry"} -> s = "failed"
      [] op = "complete"           -> s \in {"printing", "pending"}
      [] op = "fail"               -> TRUE

Accepts(op, s) ==
    CASE op = "start"    -> s \in {"pending", "failed"}
      [] op = "complete" -> s \in {"printing", "pending"}
      [] op = "fail"     -> TRUE
      [] op = "retry"    -> s = "failed"

\* Mutant: a failure queues the job again.
OutcomeRequeued(op) ==
    CASE op = "start" -> "printing" [] op = "complete" -> "completed" [] OTHER -> "pending"

Outcome(op) ==
    CASE op = "start" -> "printing" [] op = "complete" -> "completed"
      [] op = "fail"  -> "failed"   [] op = "retry"    -> "pending"

Call(op, by, j) ==
    [op |-> op, by |-> by, job |-> j, label |-> jobs[j].label, seen |-> jobs[j].status]

AdminRetry(u, j) ==
    /\ Free(u) /\ Accepts("retry", jobs[j].status)
    /\ retries[j] + Cardinality({c \in calls : c.op = "retry" /\ c.job = j}) < MaxRetries
    /\ calls' = calls \cup {Call("retry", u, j)}
    /\ UNCHANGED <<jobs, printed, agent, paper, losses, crashes, retries>>

Answered(c) ==
    IF c.by \notin Agents THEN agent
    ELSE IF c.op = "start" THEN [agent EXCEPT ![c.by].pc = "started"]
    ELSE [agent EXCEPT ![c.by] = [pc |-> "next", todo |-> @.todo \ {c.job}]]

\* The session writes a status only when it differs from the one it read.
Commit(c) ==
    /\ c.op \notin Inserts
    /\ jobs' = IF c.seen = Outcome(c.op) THEN jobs ELSE SetStatus(c.job, Outcome(c.op))
    /\ printed' = IF c.op = "complete" THEN printed \cup {c.label} ELSE printed
    /\ retries' = IF c.op = "retry" THEN [retries EXCEPT ![c.job] = @ + 1] ELSE retries
    /\ calls' = calls \ {c}
    /\ agent' = Answered(c)
    /\ UNCHANGED <<paper, losses, crashes>>

-----------------------------------------------------------------------------
(* agent.py: poll_once and process_job.                                    *)

Server == <<jobs, printed, calls, retries>>

Polled(j) == jobs[j].printer = "cloud" /\ jobs[j].status = "pending"

\* The list is in the order of creation, and the job at hand its first.
Current(a) == CHOOSE j \in agent[a].todo : \A k \in agent[a].todo : j <= k

Poll(a) ==
    /\ agent[a].pc = "idle"
    /\ \E j \in DOMAIN jobs : Polled(j)
    /\ agent' = [agent EXCEPT ![a] =
            [pc |-> "next", todo |-> {j \in DOMAIN jobs : Polled(j)}]]
    /\ UNCHANGED <<Server, paper, losses, crashes>>

PollDone(a) ==
    /\ agent[a].pc = "next" /\ agent[a].todo = {}
    /\ agent' = [agent EXCEPT ![a] = Idle]
    /\ UNCHANGED <<Server, paper, losses, crashes>>

\* An api_post: the handler is entered and the agent waits, or is refused with a 400.
Post(a, op, pcWait, refused) ==
    /\ LET j == Current(a) IN
        IF Accepts(op, jobs[j].status)
        THEN /\ calls' = calls \cup {Call(op, a, j)}
             /\ agent' = [agent EXCEPT ![a].pc = pcWait]
        ELSE /\ agent' = [agent EXCEPT ![a] = refused]
             /\ UNCHANGED calls
    /\ UNCHANGED <<jobs, printed, retries, paper, losses, crashes>>

\* A refused start is raised outside the try: the whole poll is abandoned.
PostStart(a) ==
    /\ agent[a].pc = "next" /\ agent[a].todo # {}
    /\ Post(a, "start", "starting", Idle)

\* Mutant: an error of the printer is not reported.
PrintLabelSilently(a) ==
    /\ agent[a].pc = "started"
    /\ \/ /\ agent' = [agent EXCEPT ![a].pc = "printed"]
          /\ paper' = [paper EXCEPT ![Current(a)] = @ + 1]
       \/ /\ agent' = [agent EXCEPT ![a] = Idle]
          /\ UNCHANGED paper
    /\ UNCHANGED <<Server, losses, crashes>>

PrintLabel(a) ==
    /\ agent[a].pc = "started"
    /\ \/ /\ agent' = [agent EXCEPT ![a].pc = "printed"]
          /\ paper' = [paper EXCEPT ![Current(a)] = @ + 1]
       \/ /\ agent' = [agent EXCEPT ![a].pc = "report"]
          /\ UNCHANGED paper
    /\ UNCHANGED <<Server, losses, crashes>>

PostComplete(a) ==
    /\ agent[a].pc = "printed"
    /\ Post(a, "complete", "completing", [agent[a] EXCEPT !.pc = "report"])

PostFailed(a) ==
    /\ agent[a].pc = "report"
    /\ Post(a, "fail", "failing", Idle)

-----------------------------------------------------------------------------
(* Timeouts and crashes of the agent.                                      *)

\* The call never reached the server, or its handler goes on with no client.
Abandoned(a) ==
    \E c \in {c \in calls : c.by = a} :
        calls' \in {calls \ {c}, (calls \ {c}) \cup {[c EXCEPT !.by = Nobody]}}

TimeOut(a) ==
    /\ losses < MaxLosses /\ agent[a].pc \in Waiting
    /\ Abandoned(a)
    /\ losses' = losses + 1
    /\ agent' = [agent EXCEPT ![a] = IF @.pc = "completing" THEN [@ EXCEPT !.pc = "report"] ELSE Idle]
    /\ UNCHANGED <<jobs, printed, retries, paper, crashes>>

Crash(a) ==
    /\ crashes < MaxCrashes /\ agent[a].pc # "idle"
    /\ IF agent[a].pc \in Waiting THEN Abandoned(a) ELSE UNCHANGED calls
    /\ crashes' = crashes + 1
    /\ agent' = [agent EXCEPT ![a] = Idle]
    /\ UNCHANGED <<jobs, printed, retries, paper, losses>>

-----------------------------------------------------------------------------
AgentStep(a) ==
    Poll(a) \/ PollDone(a) \/ PostStart(a) \/ PrintLabel(a) \/ PostComplete(a) \/ PostFailed(a)

ServerStep == \E c \in calls : CommitInsert(c) \/ Commit(c)

Next ==
    \/ \E u \in Clerks, l \in Labels : CreateLabel(u, l) \/ ReprintLabel(u, l)
    \/ \E u \in Clerks, j \in DOMAIN jobs : AdminRetry(u, j)
    \/ \E a \in Agents : AgentStep(a) \/ TimeOut(a) \/ Crash(a)
    \/ ServerStep

Spec == Init /\ [][Next]_vars

\* Uvicorn runs every accepted request; the agent's main loop never stops.
FairSpec == Spec /\ WF_vars(ServerStep) /\ \A a \in Agents : WF_vars(AgentStep(a))

-----------------------------------------------------------------------------
\* What the queue calls printed was printed: a completed job, and a label with
\* printed_at, have a label that came out of a printer, whatever was lost,
\* abandoned or committed late.
PrintedWasPrinted ==
    /\ \A j \in DOMAIN jobs : jobs[j].status = "completed" => paper[j] > 0
    /\ \A l \in printed : \E j \in DOMAIN jobs : jobs[j].label = l /\ paper[j] > 0

\* One agent per PRINTER_NAME prints a job once, and once more for each retry an
\* administrator asked for, even when calls are lost and the agent restarts.
PrintedOncePerRequest == \A j \in JobIds : paper[j] <= 1 + retries[j]

\* The table of jobs and the paper agree, each way: what is recorded as printed was,
\* and what came out was asked for.
PrintedAsRecorded == PrintedWasPrinted /\ PrintedOncePerRequest

Undisturbed == losses = 0 /\ crashes = 0

\* With no answer lost and no crash, a job the agent is printing is reported:
\* nothing else leaves "printing", so a job left there is never printed again.
PrintingIsReported ==
    \A j \in JobIds :
        (Undisturbed /\ j \in DOMAIN jobs /\ jobs[j].status = "printing")
            ~> (~Undisturbed \/ (j \in DOMAIN jobs /\ jobs[j].status \in {"completed", "failed"}))

\* A pending job of the agents' printer is taken up in the end.  (One of a printer
\* on the network is not, when a reprint queued it or a retry queued it again.)
PendingIsTaken ==
    \A j \in JobIds : (j \in DOMAIN jobs /\ Polled(j)) ~> (j \in DOMAIN jobs /\ ~Polled(j))
=============================================================================
