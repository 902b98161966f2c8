-------------------------- MODULE PrintQueueProofs ---------------------------
(***************************************************************************)
(* Theorems of PrintQueue: what the queue calls printed was printed, for   *)
(* any number of agents, clerks, labels, lost calls and crashes; and one   *)
(* agent prints a job once for each time it was asked for.                 *)
(***************************************************************************)
EXTENDS PrintQueue, FiniteSetTheorems, WellFoundedInduction, TLAPS

Jobs == [label : Labels, printer : Printers, status : Statuses]
AgentOps == {"start", "complete", "fail"}
Ops == AgentOps \cup Inserts \cup {"retry"}
Callers == Agents \cup Clerks \cup {Nobody}
Steps == {"idle", "next", "started", "printed", "report"} \cup Waiting
AtHand == Steps \ {"idle", "next"}

\* The rows, the calls and the agents.
RowsOK ==
    /\ jobs \in Seq(Jobs)
    /\ calls \subseteq [op : Ops, by : Callers, job : Nat, label : Labels, seen : Statuses]
    /\ IsFiniteSet(calls)
    /\ Len(jobs) + Cardinality(Inserting) <= MaxJobs
    /\ agent \in [Agents -> [pc : Steps, todo : SUBSET Nat]]
    /\ paper \in [JobIds -> Nat] /\ retries \in [JobIds -> Nat]
    /\ printed \subseteq Labels

\* What an agent waits for is the one call it has, about the job at hand.
WaitsFor(op) == CASE op = "start" -> "starting" [] op = "complete" -> "completing" [] op = "fail" -> "failing"

CallsOK ==
    /\ \A c \in calls : c.op \notin Inserts => c.job \in DOMAIN jobs /\ c.label = jobs[c.job].label
    /\ \A c \in calls : c.by \in Agents =>
         /\ c.op \in AgentOps
         /\ agent[c.by].pc = WaitsFor(c.op) /\ c.job = Current(c.by)
    /\ \A c, d \in calls : c.by = d.by /\ c.by \in Agents => c = d
    /\ \A a \in Agents : agent[a].todo \subseteq DOMAIN jobs
    /\ \A a \in Agents : agent[a].pc \in AtHand => agent[a].todo # {}

\* What says that a job was printed follows its paper.
PaperOK ==
    /\ \A c \in calls : c.op = "complete" => paper[c.job] > 0
    /\ \A a \in Agents : agent[a].pc \in {"printed", "completing"} => paper[Current(a)] > 0

QueueInv == RowsOK /\ CallsOK /\ PaperOK /\ PrintedWasPrinted

\* Some numbers have a least one.
LEMMA LeastOf ==
    ASSUME NEW S, S \subseteq Nat, S # {}
    PROVE  \E x \in S : \A y \in S : x <= y
<1>1. PICK x \in S : \A y \in S : ~(<<y, x>> \in OpToRel(<, Nat))
    BY NatLessThanWellFounded, WFMin
<1>2. ASSUME NEW y \in S, y < x PROVE FALSE
    <2>1. <<y, x>> \in OpToRel(<, Nat)
        BY <1>2 DEF OpToRel
    <2>2. QED
        BY <1>1, <2>1
<1>3. QED
    BY <1>2

\* The job at hand is on the list, as long as the list is not empty.
LEMMA CurrentListed ==
    ASSUME RowsOK, NEW a \in Agents, agent[a].todo # {}
    PROVE  Current(a) \in agent[a].todo
<1>1. agent[a].todo \subseteq Nat
    BY DEF RowsOK
<1>2. \E j \in agent[a].todo : \A k \in agent[a].todo : j <= k
    BY <1>1, LeastOf
<1>3. QED
    BY <1>2 DEF Current

\* A status is written: the same jobs, of the same labels.
LEMMA StatusWritten ==
    ASSUME jobs \in Seq(Jobs), NEW j \in DOMAIN jobs, NEW s \in Statuses
    PROVE  /\ SetStatus(j, s) \in Seq(Jobs) /\ DOMAIN SetStatus(j, s) = DOMAIN jobs /\ Len(SetStatus(j, s)) = Len(jobs)
           /\ \A k \in DOMAIN jobs : /\ SetStatus(j, s)[k].label = jobs[k].label
                                     /\ SetStatus(j, s)[k].status = IF k = j THEN s ELSE jobs[k].status
<1> DEFINE new == SetStatus(j, s)
<1>1. /\ DOMAIN jobs = 1 .. Len(jobs) /\ Len(jobs) \in Nat
      /\ \A k \in DOMAIN jobs : jobs[k] \in Jobs
    OBVIOUS
<1>2. /\ DOMAIN new = 1 .. Len(jobs)
      /\ \A k \in DOMAIN jobs : new[k] = IF k = j THEN [jobs[j] EXCEPT !.status = s] ELSE jobs[k]
    BY <1>1 DEF SetStatus
<1>3. \A k \in DOMAIN jobs : new[k] \in Jobs
    BY <1>1, <1>2 DEF Jobs
<1>4. new \in [1 .. Len(jobs) -> Jobs]
    BY <1>1, <1>2, <1>3 DEF SetStatus
<1>5. new \in Seq(Jobs) /\ Len(new) = Len(jobs)
    BY <1>1, <1>4
<1>6. QED
    BY <1>1, <1>2, <1>5 DEF Jobs

\* A job is added.
LEMMA JobAdded ==
    ASSUME jobs \in Seq(Jobs), NEW row \in Jobs
    PROVE  /\ Append(jobs, row) \in Seq(Jobs) /\ Len(Append(jobs, row)) = Len(jobs) + 1 /\ Len(jobs) \in Nat
           /\ DOMAIN jobs = 1 .. Len(jobs) /\ DOMAIN Append(jobs, row) = 1 .. (Len(jobs) + 1)
           /\ Append(jobs, row)[Len(jobs) + 1] = row
           /\ \A k \in DOMAIN jobs : Append(jobs, row)[k] = jobs[k]
OBVIOUS

\* The jobs there are, as the paper counts them.
LEMMA JobsCounted ==
    ASSUME RowsOK
    PROVE  DOMAIN jobs = 1 .. Len(jobs) /\ DOMAIN jobs \subseteq JobIds /\ Len(jobs) \in Nat /\ MaxJobs \in Nat
           /\ \A j \in DOMAIN jobs : jobs[j] \in Jobs
<1>1. IsFiniteSet(Inserting) /\ Cardinality(Inserting) \in Nat
    BY FS_Subset, FS_CardinalityType DEF RowsOK, Inserting
<1>2. Len(jobs) <= MaxJobs /\ Len(jobs) \in Nat /\ MaxJobs \in Nat
    BY <1>1, PrintAssumption DEF RowsOK
<1>3. QED
    BY <1>2 DEF RowsOK, JobIds

\* Calls that insert nothing come and go.
LEMMA QuotaKept ==
    ASSUME RowsOK, NEW gone, NEW come, calls' = (calls \ gone) \cup come, IsFiniteSet(come),
           \A c \in gone \cup come : c.op \notin Inserts
    PROVE  IsFiniteSet(calls') /\ Inserting' = Inserting
<1>1. IsFiniteSet(calls \ gone)
    BY FS_Subset DEF RowsOK
<1>2. IsFiniteSet(calls')
    BY <1>1, FS_Union
<1>3. QED
    BY <1>2 DEF Inserting

-----------------------------------------------------------------------------
(* The commands of clerks.                                                 *)

LEMMA InsertKeeps ==
    ASSUME QueueInv, NEW op \in Inserts, NEW u \in Clerks, NEW l \in Labels, Insert(op, u, l)
    PROVE  QueueInv'
<1> DEFINE c == [op |-> op, by |-> u, job |-> NoJob, label |-> l, seen |-> "pending"]
<1>1. /\ calls' = calls \cup {c} /\ UNCHANGED <<jobs, printed, agent, paper, losses, crashes, retries>>
      /\ Len(jobs) + Cardinality(Inserting) < MaxJobs
    BY DEF Insert
<1>2. u \notin Agents /\ c \in [op : Ops, by : Callers, job : Nat, label : Labels, seen : Statuses]
    BY PrintAssumption DEF Ops, Callers, NoJob, Statuses
<1>3. IsFiniteSet(calls') /\ Len(jobs') + Cardinality(Inserting') <= MaxJobs
    <2>1. Inserting' = Inserting \cup {c} /\ IsFiniteSet(Inserting)
        BY <1>1, FS_Subset DEF Inserting, QueueInv, RowsOK
    <2>2. c \notin Inserting
        BY DEF Insert, Free, Inserting
    <2>3. Cardinality(Inserting') = Cardinality(Inserting) + 1 /\ Cardinality(Inserting) \in Nat
        BY <2>1, <2>2, FS_AddElement, FS_CardinalityType
    <2>4. IsFiniteSet(calls')
        BY <1>1, FS_AddElement DEF QueueInv, RowsOK
    <2>5. Len(jobs) \in Nat /\ MaxJobs \in Nat
        BY JobsCounted DEF QueueInv
    <2>6. QED
        BY <1>1, <2>3, <2>4, <2>5
<1>4. RowsOK'
    BY <1>1, <1>2, <1>3 DEF QueueInv, RowsOK
<1>5. CallsOK'
    BY <1>1, <1>2 DEF QueueInv, CallsOK, Current
<1>6. PaperOK' /\ PrintedWasPrinted'
    BY <1>1 DEF QueueInv, PaperOK, PrintedWasPrinted, Current, Inserts
<1>7. QED
    BY <1>4, <1>5, <1>6 DEF QueueInv

LEMMA RetryKeeps ==
    ASSUME QueueInv, NEW u \in Clerks, NEW j \in DOMAIN jobs, AdminRetry(u, j)
    PROVE  QueueInv'
<1> DEFINE c == Call("retry", u, j)
<1>1. calls' = calls \cup {c} /\ UNCHANGED <<jobs, printed, agent, paper, losses, crashes, retries>>
    BY DEF AdminRetry
<1>2. /\ u \notin Agents /\ c \in [op : Ops, by : Callers, job : Nat, label : Labels, seen : Statuses]
      /\ c.op = "retry" /\ c.by = u /\ c.job = j /\ c.label = jobs[j].label
    <2>1. jobs[j] \in Jobs /\ j \in Nat
        BY JobsCounted DEF QueueInv
    <2>2. QED
        BY <2>1, PrintAssumption DEF Ops, Callers, Call, Jobs
<1> HIDE DEF c
<1>3. IsFiniteSet(calls') /\ Inserting' = Inserting
    <2>1. calls' = (calls \ {}) \cup {c} /\ \A d \in {} \cup {c} : d.op \notin Inserts
        BY <1>1, <1>2 DEF Inserts
    <2>2. QED
        BY <2>1, QuotaKept, FS_Singleton DEF QueueInv
<1>4. RowsOK'
    BY <1>1, <1>2, <1>3 DEF QueueInv, RowsOK
<1>5. CallsOK'
    BY <1>1, <1>2 DEF QueueInv, CallsOK, Current
<1>6. PaperOK' /\ PrintedWasPrinted'
    BY <1>1, <1>2 DEF QueueInv, PaperOK, PrintedWasPrinted, Current
<1>7. QED
    BY <1>4, <1>5, <1>6 DEF QueueInv

-----------------------------------------------------------------------------
(* What the server commits.                                                *)

\* An inserting call of the quota becomes a job.
LEMMA QuotaSpent ==
    ASSUME RowsOK, NEW c \in calls, c.op \in Inserts, calls' = calls \ {c}, Len(jobs') = Len(jobs) + 1
    PROVE  IsFiniteSet(calls') /\ Len(jobs') + Cardinality(Inserting') <= MaxJobs /\ Len(jobs) + 1 \in JobIds
<1>1. Inserting' = Inserting \ {c} /\ c \in Inserting /\ IsFiniteSet(Inserting)
    BY FS_Subset DEF Inserting, RowsOK
<1>2. /\ Cardinality(Inserting') = Cardinality(Inserting) - 1
      /\ Cardinality(Inserting) \in Nat /\ Cardinality(Inserting') \in Nat /\ IsFiniteSet(calls')
    BY <1>1, FS_RemoveElement, FS_CardinalityType DEF RowsOK
<1>3. Len(jobs) \in Nat /\ MaxJobs \in Nat /\ Len(jobs) + Cardinality(Inserting) <= MaxJobs
    BY JobsCounted DEF RowsOK
<1>4. QED
    BY <1>2, <1>3 DEF JobIds

LEMMA CommitInsertKeeps ==
    ASSUME QueueInv, NEW c \in calls, CommitInsert(c)
    PROVE  QueueInv'
<1> DEFINE n == Len(jobs) + 1
<1>1. PICK printer \in Printers, s \in Statuses :
        /\ jobs' = Append(jobs, [label |-> c.label, printer |-> printer, status |-> s])
        /\ \/ s # "completed" /\ UNCHANGED <<printed, paper>>
           \/ s = "completed" /\ printed' = printed \cup {c.label} /\ paper' = [paper EXCEPT ![n] = @ + 1]
    BY DEF CommitInsert, Add, Statuses
<1>2. c.op \in Inserts /\ calls' = calls \ {c} /\ UNCHANGED <<agent, losses, crashes, retries>>
    BY DEF CommitInsert
<1>3. c.label \in Labels /\ [label |-> c.label, printer |-> printer, status |-> s] \in Jobs
    BY DEF QueueInv, RowsOK, Jobs
<1>4. /\ jobs' \in Seq(Jobs) /\ Len(jobs') = n /\ DOMAIN jobs = 1 .. Len(jobs) /\ DOMAIN jobs' = 1 .. n
      /\ Len(jobs) \in Nat /\ jobs'[n].label = c.label /\ jobs'[n].status = s /\ \A k \in DOMAIN jobs : jobs'[k] = jobs[k]
    BY <1>1, <1>3, JobAdded DEF QueueInv, RowsOK
<1>5. IsFiniteSet(calls') /\ Len(jobs') + Cardinality(Inserting') <= MaxJobs /\ n \in JobIds
    BY <1>2, <1>4, QuotaSpent DEF QueueInv
<1>6. /\ paper' \in [JobIds -> Nat] /\ \A j \in JobIds : paper'[j] >= paper[j]
      /\ s = "completed" => paper'[n] > 0
    <2>1. paper \in [JobIds -> Nat]
        BY DEF QueueInv, RowsOK
    <2>2. CASE s # "completed"
        BY <1>1, <2>1, <2>2
    <2>3. CASE paper' = [paper EXCEPT ![n] = @ + 1]
        BY <1>5, <2>1, <2>3
    <2>4. QED
        BY <1>1, <2>2, <2>3
<1>7. RowsOK'
    BY <1>1, <1>2, <1>3, <1>4, <1>5, <1>6 DEF QueueInv, RowsOK
<1>8. DOMAIN jobs \subseteq DOMAIN jobs' /\ DOMAIN jobs \subseteq JobIds
    BY <1>4, JobsCounted DEF QueueInv
<1>9. CallsOK'
    BY <1>2, <1>4, <1>8 DEF QueueInv, CallsOK, Current
<1>10. PaperOK'
    <2>1. \A d \in calls : d.op = "complete" => d.job \in DOMAIN jobs
        BY DEF QueueInv, CallsOK, Inserts
    <2>2. \A a \in Agents : agent[a].pc \in {"printed", "completing"} => Current(a) \in DOMAIN jobs
        BY CurrentListed DEF QueueInv, CallsOK, AtHand, Steps, Waiting
    <2>3. \A j \in DOMAIN jobs : paper[j] > 0 => paper'[j] > 0
        BY <1>6, <1>8 DEF QueueInv, RowsOK
    <2>4. QED
        BY <1>2, <2>1, <2>2, <2>3 DEF QueueInv, PaperOK, Current
<1>11. PrintedWasPrinted'
    <2>1. \A j \in DOMAIN jobs : paper[j] > 0 => paper'[j] > 0
        BY <1>6, <1>8 DEF QueueInv, RowsOK
    <2>2. \A j \in DOMAIN jobs' : j \in DOMAIN jobs \/ j = n
        BY <1>4
    <2>3. \A j \in DOMAIN jobs' : jobs'[j].status = "completed" => paper'[j] > 0
        BY <1>4, <1>6, <2>1, <2>2 DEF QueueInv, PrintedWasPrinted
    <2>4. \A l \in printed : \E j \in DOMAIN jobs' : jobs'[j].label = l /\ paper'[j] > 0
        BY <1>4, <1>8, <2>1 DEF QueueInv, PrintedWasPrinted
    <2>5. printed' = printed \/ (printed' = printed \cup {c.label} /\ n \in DOMAIN jobs' /\ paper'[n] > 0)
        BY <1>1, <1>4, <1>6
    <2>6. QED
        BY <1>4, <2>3, <2>4, <2>5 DEF PrintedWasPrinted
<1>12. QED
    BY <1>7, <1>9, <1>10, <1>11 DEF QueueInv

\* What a committed call leaves of the agent that waits for it.
LEMMA AnsweredIs ==
    ASSUME QueueInv, NEW c \in calls, c.op \notin Inserts
    PROVE  /\ Answered(c) \in [Agents -> [pc : Steps, todo : SUBSET Nat]]
           /\ \A a \in Agents : IF a = c.by
                THEN IF c.op = "start"
                     THEN Answered(c)[a] = [pc |-> "started", todo |-> agent[a].todo]
                     ELSE Answered(c)[a] = [pc |-> "next", todo |-> agent[a].todo \ {c.job}]
                ELSE Answered(c)[a] = agent[a]
<1>1. agent \in [Agents -> [pc : Steps, todo : SUBSET Nat]]
    BY DEF QueueInv, RowsOK
<1>2. CASE c.by \notin Agents
    BY <1>1, <1>2 DEF Answered
<1>3. CASE c.by \in Agents /\ c.op = "start"
    BY <1>1, <1>3 DEF Answered, Steps
<1>4. CASE c.by \in Agents /\ c.op # "start"
    BY <1>1, <1>4 DEF Answered, Steps
<1>5. QED
    BY <1>2, <1>3, <1>4

LEMMA CommitKeeps ==
    ASSUME QueueInv, NEW c \in calls, Commit(c)
    PROVE  QueueInv'
<1>1. /\ c.op \notin Inserts /\ calls' = calls \ {c} /\ agent' = Answered(c) /\ paper' = paper
      /\ jobs' = IF c.seen = Outcome(c.op) THEN jobs ELSE SetStatus(c.job, Outcome(c.op))
      /\ printed' = IF c.op = "complete" THEN printed \cup {c.label} ELSE printed
      /\ retries' = IF c.op = "retry" THEN [retries EXCEPT ![c.job] = @ + 1] ELSE retries
    BY DEF Commit
<1>2. /\ c.op \in AgentOps \cup {"retry"} /\ c.job \in DOMAIN jobs /\ c.label = jobs[c.job].label
      /\ c.label \in Labels /\ Outcome(c.op) \in Statuses
      /\ Outcome(c.op) = "completed" <=> c.op = "complete"
      /\ c.op = "complete" => paper[c.job] > 0
    BY <1>1 DEF QueueInv, RowsOK, CallsOK, PaperOK, Ops, AgentOps, Outcome, Statuses
<1>3. /\ jobs' \in Seq(Jobs) /\ DOMAIN jobs' = DOMAIN jobs /\ Len(jobs') = Len(jobs)
      /\ \A k \in DOMAIN jobs : /\ jobs'[k].label = jobs[k].label
                                /\ jobs'[k].status # jobs[k].status => k = c.job /\ jobs'[k].status = Outcome(c.op)
    <2>1. jobs \in Seq(Jobs)
        BY DEF QueueInv, RowsOK
    <2>2. QED
        BY <1>1, <1>2, <2>1, StatusWritten
<1>4. retries' \in [JobIds -> Nat]
    <2>1. retries \in [JobIds -> Nat] /\ c.job \in JobIds
        BY <1>2, JobsCounted DEF QueueInv, RowsOK
    <2>2. QED
        BY <1>1, <2>1
<1>5. IsFiniteSet(calls') /\ Inserting' = Inserting
    <2>1. calls' = (calls \ {c}) \cup {} /\ \A d \in {c} \cup {} : d.op \notin Inserts
        BY <1>1
    <2>2. QED
        BY <2>1, QuotaKept, FS_EmptySet DEF QueueInv
<1>6. RowsOK'
    BY <1>1, <1>2, <1>3, <1>4, <1>5, AnsweredIs DEF QueueInv, RowsOK
<1>7. \A a \in Agents :
        /\ agent'[a].todo \subseteq agent[a].todo
        /\ a # c.by => agent'[a] = agent[a] /\ Current(a)' = Current(a)
        /\ a = c.by => \/ agent'[a].pc = "next"
                       \/ agent'[a].pc = "started" /\ agent'[a].todo = agent[a].todo /\ agent[a].pc = "starting"
    <2>1. SUFFICES ASSUME NEW a \in Agents
                   PROVE  /\ agent'[a].todo \subseteq agent[a].todo
                          /\ a # c.by => agent'[a] = agent[a] /\ Current(a)' = Current(a)
                          /\ a = c.by => \/ agent'[a].pc = "next"
                                         \/ agent'[a].pc = "started" /\ agent'[a].todo = agent[a].todo /\ agent[a].pc = "starting"
        OBVIOUS
    <2>2. CASE a # c.by
        BY <1>1, <2>2, AnsweredIs DEF Current
    <2>3. CASE a = c.by /\ c.op = "start"
        <3>1. agent[a].pc = "starting"
            BY <2>3 DEF QueueInv, CallsOK, WaitsFor
        <3>2. agent'[a] = [pc |-> "started", todo |-> agent[a].todo]
            BY <1>1, <2>3, AnsweredIs
        <3>3. QED
            BY <2>3, <3>1, <3>2
    <2>4. CASE a = c.by /\ c.op # "start"
        <3>1. agent'[a] = [pc |-> "next", todo |-> agent[a].todo \ {c.job}]
            BY <1>1, <2>4, AnsweredIs
        <3>2. QED
            BY <2>4, <3>1
    <2>5. QED
        BY <2>2, <2>3, <2>4
<1>8. CallsOK'
    <2>1. \A d \in calls' : d.by \in Agents => d.by # c.by
        BY <1>1 DEF QueueInv, CallsOK
    <2>2. \A a \in Agents : agent'[a].pc \in AtHand => agent'[a].todo # {}
        BY <1>7 DEF QueueInv, CallsOK, AtHand, Steps, Waiting
    <2>3. QED
        BY <1>1, <1>3, <1>7, <2>1, <2>2 DEF QueueInv, CallsOK
<1>9. PaperOK'
    BY <1>1, <1>7 DEF QueueInv, PaperOK
<1>10. PrintedWasPrinted'
    <2>1. \A j \in DOMAIN jobs' : jobs'[j].status = "completed" => paper'[j] > 0
        BY <1>1, <1>2, <1>3 DEF QueueInv, PrintedWasPrinted
    <2>2. \A l \in printed' : \E j \in DOMAIN jobs' : jobs'[j].label = l /\ paper'[j] > 0
        BY <1>1, <1>2, <1>3 DEF QueueInv, PrintedWasPrinted
    <2>3. QED
        BY <2>1, <2>2 DEF PrintedWasPrinted
<1>11. QED
    BY <1>6, <1>8, <1>9, <1>10 DEF QueueInv

-----------------------------------------------------------------------------
(* The agents.                                                             *)

\* An agent goes on by itself: only its own row and its own calls change.
LEMMA AgentGoesOn ==
    ASSUME QueueInv, NEW a \in Agents, NEW row \in [pc : Steps, todo : SUBSET Nat],
           UNCHANGED <<jobs, printed, calls, retries>>,
           agent' = [agent EXCEPT ![a] = row], row.todo \subseteq DOMAIN jobs,
           row.pc \in AtHand => row.todo = agent[a].todo /\ row.todo # {},
           agent[a].pc \notin Waiting,
           paper' \in [JobIds -> Nat], \A j \in JobIds : paper'[j] >= paper[j],
           row.pc \in {"printed", "completing"} => paper'[Current(a)] > 0
    PROVE  QueueInv'
<1>1. /\ agent' \in [Agents -> [pc : Steps, todo : SUBSET Nat]]
      /\ \A b \in Agents : agent'[b] = IF b = a THEN row ELSE agent[b]
    BY DEF QueueInv, RowsOK
<1>2. RowsOK'
    <2>1. Inserting' = Inserting
        BY DEF Inserting
    <2>2. QED
        BY <1>1, <2>1 DEF QueueInv, RowsOK
<1>3. \A c \in calls : c.by # a
    BY DEF QueueInv, CallsOK, WaitsFor, Waiting, AgentOps
<1>4. /\ \A b \in Agents \ {a} : Current(b)' = Current(b)
      /\ row.pc \in AtHand => Current(a)' = Current(a)
    BY <1>1 DEF Current
<1>5. CallsOK'
    BY <1>1, <1>3, <1>4 DEF QueueInv, CallsOK
<1>6. \A j \in DOMAIN jobs : paper[j] > 0 => paper'[j] > 0
    BY JobsCounted DEF QueueInv, RowsOK
<1>7. PaperOK'
    <2>1. \A c \in calls : c.op = "complete" => c.job \in DOMAIN jobs
        BY DEF QueueInv, CallsOK, Inserts
    <2>2. \A b \in Agents : agent[b].pc \in {"printed", "completing"} => Current(b) \in DOMAIN jobs
        BY CurrentListed DEF QueueInv, CallsOK, AtHand, Steps, Waiting
    <2>3. {"printed", "completing"} \subseteq AtHand
        BY DEF AtHand, Steps, Waiting
    <2>4. QED
        BY <1>1, <1>4, <1>6, <2>1, <2>2, <2>3 DEF QueueInv, PaperOK
<1>8. PrintedWasPrinted'
    BY <1>6 DEF QueueInv, PrintedWasPrinted
<1>9. QED
    BY <1>2, <1>5, <1>7, <1>8 DEF QueueInv

\* A step of an agent between its calls: those it has are settled or abandoned, and
\* it waits for one more at most, about the job at hand.
LEMMA AgentCalls ==
    ASSUME QueueInv, NEW a \in Agents, NEW row \in [pc : Steps, todo : SUBSET Nat], NEW gone, NEW come,
           UNCHANGED <<jobs, printed, paper, retries>>,
           agent' = [agent EXCEPT ![a] = row], row.todo \subseteq agent[a].todo,
           row.pc \in AtHand => row.todo = agent[a].todo /\ row.todo # {},
           row.pc \in {"printed", "completing"} => agent[a].pc \in {"printed", "completing"},
           calls' = (calls \ gone) \cup come, \A c \in calls : c.by = a <=> c \in gone,
           IsFiniteSet(come), come \subseteq [op : AgentOps, by : {a, Nobody}, job : Nat, label : Labels, seen : Statuses],
           \A c, d \in come : c = d,
           \A c \in come : /\ c.job \in DOMAIN jobs /\ c.label = jobs[c.job].label
                           /\ c.op = "complete" => paper[c.job] > 0
                           /\ c.by = a => row.pc = WaitsFor(c.op) /\ c.job = Current(a)
    PROVE  QueueInv'
<1>1. /\ agent' \in [Agents -> [pc : Steps, todo : SUBSET Nat]]
      /\ \A b \in Agents : agent'[b] = IF b = a THEN row ELSE agent[b]
    BY DEF QueueInv, RowsOK
<1>2. \A c \in gone \cap calls : c.op \notin Inserts
    BY DEF QueueInv, CallsOK, AgentOps, Inserts
<1>3. \A c \in come : c.op \notin Inserts
    BY DEF AgentOps, Inserts
<1>4. IsFiniteSet(calls') /\ Inserting' = Inserting
    <2>1. calls' = (calls \ (gone \cap calls)) \cup come
        OBVIOUS
    <2>2. QED
        BY <1>2, <1>3, <2>1, QuotaKept DEF QueueInv
<1>5. RowsOK'
    <2>1. come \subseteq [op : Ops, by : Callers, job : Nat, label : Labels, seen : Statuses]
        BY DEF Ops, Callers
    <2>2. QED
        BY <1>1, <1>4, <2>1 DEF QueueInv, RowsOK
<1>6. /\ \A b \in Agents \ {a} : Current(b)' = Current(b)
      /\ row.pc \in AtHand => Current(a)' = Current(a)
    BY <1>1 DEF Current
<1>7. \A c \in AgentOps : WaitsFor(c) \in AtHand
    BY DEF AgentOps, WaitsFor, AtHand, Steps, Waiting
<1>8. CallsOK'
    <2>1. \A c \in calls' : c.op \notin Inserts => c.job \in DOMAIN jobs' /\ c.label = jobs'[c.job].label
        BY <1>3 DEF QueueInv, CallsOK
    <2>2. \A c \in calls' : c.by \in Agents =>
            /\ c.op \in AgentOps
            /\ agent'[c.by].pc = WaitsFor(c.op) /\ c.job = Current(c.by)'
        <3>1. \A c \in come : c.by \in Agents => c.by = a
            BY PrintAssumption
        <3>2. QED
            BY <1>1, <1>6, <1>7, <3>1 DEF QueueInv, CallsOK
    <2>3. \A c, d \in calls' : c.by = d.by /\ c.by \in Agents => c = d
        <3>1. \A c \in come : c.by \in Agents => c.by = a
            BY PrintAssumption
        <3>2. QED
            BY <3>1 DEF QueueInv, CallsOK
    <2>4. /\ \A b \in Agents : agent'[b].todo \subseteq DOMAIN jobs'
          /\ \A b \in Agents : agent'[b].pc \in AtHand => agent'[b].todo # {}
        BY <1>1 DEF QueueInv, CallsOK
    <2>5. QED
        BY <2>1, <2>2, <2>3, <2>4 DEF CallsOK
<1>9. PaperOK'
    <2>1. {"printed", "completing"} \subseteq AtHand
        BY DEF AtHand, Steps, Waiting
    <2>2. QED
        BY <1>1, <1>6, <2>1 DEF QueueInv, PaperOK
<1>10. PrintedWasPrinted'
    BY DEF QueueInv, PrintedWasPrinted
<1>11. QED
    BY <1>5, <1>8, <1>9, <1>10 DEF QueueInv

LEMMA PollKeeps ==
    ASSUME QueueInv, NEW a \in Agents, Poll(a) \/ PollDone(a)
    PROVE  QueueInv'
<1>1. UNCHANGED <<jobs, printed, calls, retries, paper>>
    BY DEF Poll, PollDone, Server
<1>2. paper' \in [JobIds -> Nat] /\ \A j \in JobIds : paper'[j] >= paper[j]
    BY <1>1 DEF QueueInv, RowsOK
<1>3. PICK row \in [pc : Steps, todo : SUBSET Nat] :
        /\ agent' = [agent EXCEPT ![a] = row] /\ row.todo \subseteq DOMAIN jobs
        /\ row.pc \in {"idle", "next"} /\ agent[a].pc \in {"idle", "next"}
    <2>1. {j \in DOMAIN jobs : Polled(j)} \in SUBSET Nat
        BY JobsCounted DEF QueueInv
    <2>2. CASE Poll(a)
        BY <2>1, <2>2 DEF Poll, Steps
    <2>3. CASE PollDone(a)
        BY <2>3 DEF PollDone, Idle, Steps
    <2>4. QED
        BY <2>2, <2>3
<1>4. QED
    BY <1>1, <1>2, <1>3, AgentGoesOn DEF AtHand, Steps, Waiting

LEMMA PrintKeeps ==
    ASSUME QueueInv, NEW a \in Agents, PrintLabel(a)
    PROVE  QueueInv'
<1> DEFINE Row(pc) == [pc |-> pc, todo |-> agent[a].todo]
<1>1. UNCHANGED <<jobs, printed, calls, retries>> /\ agent[a].pc = "started"
    BY DEF PrintLabel, Server
<1>2. /\ agent[a] \in [pc : Steps, todo : SUBSET Nat] /\ agent[a].todo \subseteq DOMAIN jobs /\ agent[a].todo # {}
      /\ agent \in [Agents -> [pc : Steps, todo : SUBSET Nat]] /\ paper \in [JobIds -> Nat]
    BY <1>1 DEF QueueInv, RowsOK, CallsOK, AtHand, Steps, Waiting
<1>3. Current(a) \in JobIds
    BY <1>2, CurrentListed, JobsCounted DEF QueueInv
<1>4. \A pc \in Steps : Row(pc) \in [pc : Steps, todo : SUBSET Nat] /\ [agent EXCEPT ![a].pc = pc] = [agent EXCEPT ![a] = Row(pc)]
    <2>1. \A pc \in Steps : [pc |-> pc, todo |-> agent[a].todo] \in [pc : Steps, todo : SUBSET Nat]
        BY <1>2
    <2>2. \A pc \in Steps : [agent EXCEPT ![a].pc = pc] = [agent EXCEPT ![a] = [pc |-> pc, todo |-> agent[a].todo]]
        <3>1. \A pc \in Steps : [agent[a] EXCEPT !.pc = pc] = [pc |-> pc, todo |-> agent[a].todo]
            BY <1>2
        <3>2. QED
            BY <3>1
    <2>3. QED
        BY <2>1, <2>2
<1>5. CASE agent' = [agent EXCEPT ![a].pc = "printed"] /\ paper' = [paper EXCEPT ![Current(a)] = @ + 1]
    <2>1. agent' = [agent EXCEPT ![a] = Row("printed")] /\ Row("printed") \in [pc : Steps, todo : SUBSET Nat]
        BY <1>4, <1>5 DEF Steps
    <2>2. paper' \in [JobIds -> Nat] /\ paper'[Current(a)] > 0 /\ \A j \in JobIds : paper'[j] >= paper[j]
        BY <1>2, <1>3, <1>5
    <2>3. QED
        BY <1>1, <1>2, <2>1, <2>2, AgentGoesOn DEF Waiting
<1>6. CASE agent' = [agent EXCEPT ![a].pc = "report"] /\ paper' = paper
    <2>1. agent' = [agent EXCEPT ![a] = Row("report")] /\ Row("report") \in [pc : Steps, todo : SUBSET Nat]
        BY <1>4, <1>6 DEF Steps
    <2>2. paper' \in [JobIds -> Nat] /\ \A j \in JobIds : paper'[j] >= paper[j]
        BY <1>2, <1>6
    <2>3. QED
        BY <1>1, <1>2, <2>1, <2>2, AgentGoesOn DEF Waiting
<1>7. QED
    BY <1>5, <1>6 DEF PrintLabel

\* A post is accepted and the agent waits for it, or it is refused.
LEMMA PostIs ==
    ASSUME QueueInv, NEW a \in Agents, PostStart(a) \/ PostComplete(a) \/ PostFailed(a)
    PROVE  \E op \in AgentOps, row \in [pc : Steps, todo : SUBSET Nat] :
              /\ agent' = [agent EXCEPT ![a] = row] /\ agent[a].todo # {} /\ UNCHANGED <<jobs, printed, retries, paper>>
              /\ agent[a].pc \notin Waiting /\ agent[a].pc # "idle" /\ agent[a].pc # "started"
              /\ op = "complete" => agent[a].pc = "printed"
              /\ op = "start" <=> agent[a].pc = "next"
              /\ \/ /\ calls' = calls \cup {Call(op, a, Current(a))} /\ Accepts(op, jobs[Current(a)].status)
                    /\ row = [pc |-> WaitsFor(op), todo |-> agent[a].todo]
                 \/ /\ calls' = calls
                    /\ row = Idle \/ row = [pc |-> "report", todo |-> agent[a].todo]
<1>1. agent \in [Agents -> [pc : Steps, todo : SUBSET Nat]] /\ agent[a] \in [pc : Steps, todo : SUBSET Nat]
    BY DEF QueueInv, RowsOK
<1>2. /\ \A pc \in Steps : [agent EXCEPT ![a].pc = pc] = [agent EXCEPT ![a] = [pc |-> pc, todo |-> agent[a].todo]]
      /\ [agent[a] EXCEPT !.pc = "report"] = [pc |-> "report", todo |-> agent[a].todo]
      /\ Idle \in [pc : Steps, todo : SUBSET Nat]
      /\ \A pc \in Steps : [pc |-> pc, todo |-> agent[a].todo] \in [pc : Steps, todo : SUBSET Nat]
    BY <1>1 DEF Idle, Steps
<1>3. \A op \in AgentOps : WaitsFor(op) \in Steps
    BY DEF AgentOps, WaitsFor, Steps, Waiting
<1>4. agent[a].pc \in AtHand => agent[a].todo # {}
    BY DEF QueueInv, CallsOK
<1>5. ASSUME NEW op \in AgentOps, NEW refused, Post(a, op, WaitsFor(op), refused)
      PROVE  /\ UNCHANGED <<jobs, printed, retries, paper>>
             /\ \/ /\ calls' = calls \cup {Call(op, a, Current(a))} /\ Accepts(op, jobs[Current(a)].status)
                   /\ agent' = [agent EXCEPT ![a] = [pc |-> WaitsFor(op), todo |-> agent[a].todo]]
                \/ calls' = calls /\ agent' = [agent EXCEPT ![a] = refused]
    BY <1>2, <1>3, <1>5 DEF Post
<1>6. CASE PostStart(a)
    <2>1. Post(a, "start", WaitsFor("start"), Idle) /\ agent[a].pc = "next" /\ agent[a].todo # {} /\ "start" \in AgentOps
        BY <1>6 DEF PostStart, WaitsFor, AgentOps
    <2>2. QED
        BY <1>2, <1>3, <1>5, <2>1, ZenonT(40) DEF Waiting
<1>7. CASE PostComplete(a)
    <2>1. /\ Post(a, "complete", WaitsFor("complete"), [agent[a] EXCEPT !.pc = "report"])
          /\ agent[a].pc = "printed" /\ agent[a].todo # {} /\ "complete" \in AgentOps /\ "report" \in Steps
        BY <1>4, <1>7 DEF PostComplete, WaitsFor, AgentOps, AtHand, Steps, Waiting
    <2>2. QED
        BY <1>2, <1>3, <1>5, <2>1, ZenonT(40) DEF Waiting
<1>8. CASE PostFailed(a)
    <2>1. Post(a, "fail", WaitsFor("fail"), Idle) /\ agent[a].pc = "report" /\ agent[a].todo # {} /\ "fail" \in AgentOps
        BY <1>4, <1>8 DEF PostFailed, WaitsFor, AgentOps, AtHand, Steps, Waiting
    <2>2. QED
        BY <1>2, <1>3, <1>5, <2>1 DEF Waiting
<1>9. QED
    BY <1>6, <1>7, <1>8

LEMMA PostKeeps ==
    ASSUME QueueInv, NEW a \in Agents, PostStart(a) \/ PostComplete(a) \/ PostFailed(a)
    PROVE  QueueInv'
<1>1. PICK op \in AgentOps, row \in [pc : Steps, todo : SUBSET Nat] :
        /\ agent' = [agent EXCEPT ![a] = row] /\ agent[a].todo # {} /\ UNCHANGED <<jobs, printed, retries, paper>>
        /\ agent[a].pc \notin Waiting
        /\ op = "complete" => agent[a].pc = "printed"
        /\ \/ /\ calls' = calls \cup {Call(op, a, Current(a))} /\ row = [pc |-> WaitsFor(op), todo |-> agent[a].todo]
           \/ /\ calls' = calls
              /\ row = Idle \/ row = [pc |-> "report", todo |-> agent[a].todo]
    BY PostIs
<1>2. \A c \in calls : c.by # a
    BY <1>1 DEF QueueInv, CallsOK, WaitsFor, Waiting, AgentOps
<1>3. Current(a) \in DOMAIN jobs /\ jobs[Current(a)] \in Jobs /\ Current(a) \in Nat
    BY <1>1, CurrentListed, JobsCounted DEF QueueInv, CallsOK
<1>4. CASE calls' = calls /\ (row = Idle \/ row = [pc |-> "report", todo |-> agent[a].todo])
    <2>1. /\ row.todo \subseteq agent[a].todo /\ row.pc \notin {"printed", "completing"}
          /\ row.pc \in AtHand => row.todo = agent[a].todo /\ row.todo # {}
        BY <1>1, <1>4 DEF Idle, AtHand
    <2>2. calls' = (calls \ {}) \cup {} /\ \A c \in calls : c.by = a <=> c \in {}
        BY <1>2, <1>4
    <2>3. agent' = [agent EXCEPT ![a] = row] /\ UNCHANGED <<jobs, printed, paper, retries>>
        BY <1>1
    <2>4. QED
        BY <2>1, <2>2, <2>3, AgentCalls, FS_EmptySet
<1>5. CASE calls' = calls \cup {Call(op, a, Current(a))} /\ row = [pc |-> WaitsFor(op), todo |-> agent[a].todo]
    <2> DEFINE c == Call(op, a, Current(a))
    <2>1. /\ c \in [op : AgentOps, by : {a, Nobody}, job : Nat, label : Labels, seen : Statuses]
          /\ c.op = op /\ c.by = a /\ c.job = Current(a) /\ c.label = jobs[Current(a)].label
        BY <1>3 DEF Call, Jobs
    <2>2. op = "complete" => paper[c.job] > 0
        BY <1>1, <2>1 DEF QueueInv, PaperOK
    <2>3. row.pc \in {"printed", "completing"} => agent[a].pc \in {"printed", "completing"}
        BY <1>1, <1>5 DEF WaitsFor, AgentOps
    <2>4. calls' = (calls \ {}) \cup {c} /\ (\A d \in calls : d.by = a <=> d \in {})
        BY <1>2, <1>5
    <2>5. /\ row.todo = agent[a].todo /\ row.pc = WaitsFor(op) /\ agent[a].todo # {}
          /\ agent' = [agent EXCEPT ![a] = row] /\ UNCHANGED <<jobs, printed, paper, retries>>
        BY <1>1, <1>5
    <2> HIDE DEF c
    <2> DEFINE come == {c}
               gone == {}
    <2>6. IsFiniteSet(come) /\ (\A x, y \in come : x = y) /\ calls' = (calls \ gone) \cup come /\ (\A d \in calls : d.by = a <=> d \in gone)
        BY <2>4, FS_Singleton
    <2>7. \A x \in come :
            /\ x.job \in DOMAIN jobs /\ x.label = jobs[x.job].label
            /\ x.op = "complete" => paper[x.job] > 0
            /\ x.by = a => row.pc = WaitsFor(x.op) /\ x.job = Current(a)
        BY <1>3, <2>1, <2>2, <2>5
    <2>8. come \subseteq [op : AgentOps, by : {a, Nobody}, job : Nat, label : Labels, seen : Statuses]
        BY <2>1
    <2> HIDE DEF come, gone
    <2>9. QED
        BY <2>3, <2>5, <2>6, <2>7, <2>8, AgentCalls
<1>6. QED
    BY <1>1, <1>4, <1>5

LEMMA BreakIs ==
    ASSUME QueueInv, NEW a \in Agents, TimeOut(a) \/ Crash(a)
    PROVE  /\ UNCHANGED <<jobs, printed, retries, paper>>
           /\ \/ agent' = [agent EXCEPT ![a] = Idle]
              \/ agent[a].pc = "completing" /\ agent' = [agent EXCEPT ![a] = [pc |-> "report", todo |-> agent[a].todo]]
           /\ \/ calls' = calls /\ agent[a].pc \notin Waiting
              \/ Abandoned(a)
<1>1. agent \in [Agents -> [pc : Steps, todo : SUBSET Nat]] /\ agent[a] \in [pc : Steps, todo : SUBSET Nat]
    BY DEF QueueInv, RowsOK
<1>2. CASE TimeOut(a)
    <2>1. Abandoned(a) /\ UNCHANGED <<jobs, printed, retries, paper>>
        BY <1>2 DEF TimeOut
    <2>2. agent' = [agent EXCEPT ![a] = IF agent[a].pc = "completing" THEN [agent[a] EXCEPT !.pc = "report"] ELSE Idle]
        BY <1>1, <1>2 DEF TimeOut
    <2>3. [agent[a] EXCEPT !.pc = "report"] = [pc |-> "report", todo |-> agent[a].todo]
        BY <1>1
    <2>4. QED
        BY <2>1, <2>2, <2>3
<1>3. CASE Crash(a)
    BY <1>3 DEF Crash
<1>4. QED
    BY <1>2, <1>3

LEMMA BreakKeeps ==
    ASSUME QueueInv, NEW a \in Agents, TimeOut(a) \/ Crash(a)
    PROVE  QueueInv'
<1>1. PICK row \in [pc : Steps, todo : SUBSET Nat] :
        /\ agent' = [agent EXCEPT ![a] = row] /\ row.todo \subseteq agent[a].todo
        /\ row.pc \in AtHand => row.todo = agent[a].todo /\ row.todo # {}
        /\ row.pc \notin {"printed", "completing"}
        /\ \A op \in AgentOps : row.pc # WaitsFor(op)
    <2>1. Idle \in [pc : Steps, todo : SUBSET Nat] /\ Idle.pc = "idle" /\ Idle.todo = {}
        BY DEF Idle, Steps
    <2>2. agent[a].pc = "completing" => /\ agent[a].todo # {}
                                        /\ [pc |-> "report", todo |-> agent[a].todo] \in [pc : Steps, todo : SUBSET Nat]
        BY DEF QueueInv, RowsOK, CallsOK, AtHand, Steps, Waiting
    <2>3. QED
        BY <2>1, <2>2, BreakIs DEF AtHand, WaitsFor, AgentOps
<1>2. UNCHANGED <<jobs, printed, retries, paper>>
    BY BreakIs
<1>3. CASE calls' = calls /\ agent[a].pc \notin Waiting
    <2>1. calls' = (calls \ {}) \cup {} /\ \A c \in calls : c.by = a <=> c \in {}
        BY <1>3 DEF QueueInv, CallsOK, WaitsFor, Waiting, AgentOps
    <2>2. QED
        BY <1>1, <1>2, <2>1, AgentCalls, FS_EmptySet
<1>4. ASSUME NEW c \in calls, c.by = a, calls' \in {calls \ {c}, (calls \ {c}) \cup {[c EXCEPT !.by = Nobody]}}
      PROVE  QueueInv'
    <2> DEFINE d == [c EXCEPT !.by = Nobody]
    <2>1. \A e \in calls : e.by = a <=> e \in {c}
        BY <1>4 DEF QueueInv, CallsOK
    <2>2. /\ d \in [op : AgentOps, by : {a, Nobody}, job : Nat, label : Labels, seen : Statuses]
          /\ d.op = c.op /\ d.by = Nobody /\ d.job = c.job /\ d.label = c.label
        BY <1>4 DEF QueueInv, RowsOK, CallsOK
    <2>3. /\ c.job \in DOMAIN jobs /\ c.label = jobs[c.job].label
          /\ c.op = "complete" => paper[c.job] > 0
        BY <1>4 DEF QueueInv, CallsOK, PaperOK, AgentOps, Inserts
    <2>4. a # Nobody
        BY PrintAssumption
    <2> HIDE DEF d
    <2>5. CASE calls' = (calls \ {c}) \cup {}
        BY <1>1, <1>2, <2>1, <2>5, AgentCalls, FS_EmptySet
    <2>6. CASE calls' = (calls \ {c}) \cup {d}
        <3> DEFINE come == {d}
                   gone == {c}
        <3>1. IsFiniteSet(come) /\ (\A x, y \in come : x = y) /\ calls' = (calls \ gone) \cup come /\ (\A e \in calls : e.by = a <=> e \in gone)
            BY <2>1, <2>6, FS_Singleton
        <3>2. \A x \in come :
                /\ x.job \in DOMAIN jobs /\ x.label = jobs[x.job].label
                /\ x.op = "complete" => paper[x.job] > 0
                /\ x.by = a => row.pc = WaitsFor(x.op) /\ x.job = Current(a)
            BY <2>2, <2>3, <2>4
        <3>3. come \subseteq [op : AgentOps, by : {a, Nobody}, job : Nat, label : Labels, seen : Statuses]
            BY <2>2
        <3> HIDE DEF come, gone
        <3>4. QED
            BY <1>1, <1>2, <3>1, <3>2, <3>3, AgentCalls
    <2>7. QED
        BY <1>4, <2>5, <2>6 DEF d
<1>5. QED
    BY <1>3, <1>4, BreakIs DEF Abandoned

-----------------------------------------------------------------------------
(* Together.                                                               *)

LEMMA NothingPrintedYet == Init => QueueInv
<1> SUFFICES ASSUME Init PROVE QueueInv
    OBVIOUS
<1>1. jobs = <<>> /\ DOMAIN jobs = {} /\ Len(jobs) = 0 /\ calls = {} /\ Inserting = {} /\ printed = {}
    BY DEF Init, Inserting
<1>2. RowsOK
    <2>1. IsFiniteSet(calls) /\ Cardinality(Inserting) = 0 /\ MaxJobs \in Nat
        BY <1>1, FS_EmptySet, PrintAssumption
    <2>2. /\ agent \in [Agents -> [pc : Steps, todo : SUBSET Nat]]
          /\ paper \in [JobIds -> Nat] /\ retries \in [JobIds -> Nat]
        BY DEF Init, Idle, Steps
    <2>3. jobs \in Seq(Jobs)
        BY <1>1
    <2>4. QED
        BY <1>1, <2>1, <2>2, <2>3 DEF RowsOK
<1>3. CallsOK /\ PaperOK
    BY <1>1 DEF Init, Idle, CallsOK, PaperOK, AtHand, Steps, Waiting
<1>4. PrintedWasPrinted
    BY <1>1 DEF PrintedWasPrinted
<1>5. QED
    BY <1>2, <1>3, <1>4 DEF QueueInv

LEMMA QueueInvKept == QueueInv /\ [Next]_vars => QueueInv'
<1> SUFFICES ASSUME QueueInv, [Next]_vars PROVE QueueInv'
    OBVIOUS
<1>1. CASE \E u \in Clerks, l \in Labels : CreateLabel(u, l) \/ ReprintLabel(u, l)
    <2>1. PICK u \in Clerks, l \in Labels, op \in Inserts : Insert(op, u, l)
        BY <1>1 DEF CreateLabel, ReprintLabel, Inserts
    <2>2. QED
        BY <2>1, InsertKeeps
<1>2. CASE \E u \in Clerks, j \in DOMAIN jobs : AdminRetry(u, j)
    BY <1>2, RetryKeeps
<1>3. CASE \E a \in Agents : AgentStep(a) \/ TimeOut(a) \/ Crash(a)
    BY <1>3, PollKeeps, PrintKeeps, PostKeeps, BreakKeeps DEF AgentStep
<1>4. CASE ServerStep
    BY <1>4, CommitInsertKeeps, CommitKeeps DEF ServerStep
<1>5. CASE UNCHANGED vars
    <2>1. UNCHANGED <<jobs, printed, calls, agent, paper, retries>>
        BY <1>5 DEF vars
    <2>2. RowsOK'
        BY <2>1 DEF QueueInv, RowsOK, Inserting
    <2>3. CallsOK' /\ PaperOK'
        BY <2>1 DEF QueueInv, CallsOK, PaperOK, Current
    <2>4. PrintedWasPrinted'
        BY <2>1 DEF QueueInv, PrintedWasPrinted
    <2>5. QED
        BY <2>2, <2>3, <2>4 DEF QueueInv
<1>6. QED
    BY <1>1, <1>2, <1>3, <1>4, <1>5 DEF Next

\* What the queue calls printed was printed: a completed job and a label with printed_at
\* have a label that came out of a printer, for any number of agents that share one.
THEOREM CalledPrintedWasPrinted == Spec => []PrintedWasPrinted
<1>1. QueueInv => PrintedWasPrinted
    BY DEF QueueInv
<1>2. QED
    BY <1>1, NothingPrintedYet, QueueInvKept, PTL DEF Spec

-----------------------------------------------------------------------------
(* One agent prints a job once for each time it was asked for.  A job is   *)
(* at the printer, or due: pending, or on the list ahead of the agent.     *)
(* Each of these uses up one of the times.                                 *)

AtPrinter(a, j) == agent[a].pc = "started" /\ Current(a) = j

Due(a, j) ==
    \/ j \in DOMAIN jobs /\ jobs[j].status = "pending"
    \/ j \in agent[a].todo /\ (agent[a].pc \in {"next", "starting"} \/ j # Current(a))

One(b) == IF b THEN 1 ELSE 0

OnceInv(a) ==
    /\ \A j \in JobIds : paper[j] + One(AtPrinter(a, j)) + One(Due(a, j)) <= 1 + retries[j]
    /\ \A j \in JobIds \ DOMAIN jobs : paper[j] = 0
    /\ \A c \in calls : c.op \notin Inserts => Accepts(c.op, c.seen)

\* A step that puts no job to the printer and makes none due that was not.
LEMMA QuietKeeps ==
    ASSUME NEW a \in Agents, QueueInv, QueueInv', OnceInv(a), paper' = paper, retries' = retries,
           DOMAIN jobs' = DOMAIN jobs,
           \A j \in JobIds : AtPrinter(a, j)' => AtPrinter(a, j),
           \A j \in JobIds : Due(a, j)' => Due(a, j),
           \A c \in calls' : c.op \notin Inserts => Accepts(c.op, c.seen)
    PROVE  OnceInv(a)'
<1>1. \A j \in JobIds : paper[j] \in Nat /\ retries[j] \in Nat
    BY DEF QueueInv, RowsOK
<1>2. ASSUME NEW j \in JobIds
      PROVE  paper[j] + One(AtPrinter(a, j)') + One(Due(a, j)') <= 1 + retries[j]
    <2>1. /\ paper[j] + One(AtPrinter(a, j)) + One(Due(a, j)) <= 1 + retries[j]
          /\ paper[j] \in Nat /\ retries[j] \in Nat
        BY <1>1 DEF OnceInv
    <2>2. One(AtPrinter(a, j)') <= One(AtPrinter(a, j)) /\ One(Due(a, j)') <= One(Due(a, j))
        BY DEF One
    <2>3. /\ One(AtPrinter(a, j)) \in Nat /\ One(Due(a, j)) \in Nat
          /\ One(AtPrinter(a, j)') \in Nat /\ One(Due(a, j)') \in Nat
        BY DEF One
    <2>4. QED
        BY <2>1, <2>2, <2>3
<1>3. \A j \in JobIds : paper'[j] + One(AtPrinter(a, j))' + One(Due(a, j))' <= 1 + retries'[j]
    BY <1>2 DEF One
<1>4. QED
    BY <1>3 DEF OnceInv

LEMMA OnceClerk ==
    ASSUME NEW a \in Agents, QueueInv, QueueInv', OnceInv(a), NEW u \in Clerks,
           (\E l \in Labels : CreateLabel(u, l) \/ ReprintLabel(u, l)) \/ (\E j \in DOMAIN jobs : AdminRetry(u, j))
    PROVE  OnceInv(a)'
<1>1. /\ UNCHANGED <<jobs, printed, agent, paper, losses, crashes, retries>>
      /\ \A c \in calls' \ calls : c.op \notin Inserts => Accepts(c.op, c.seen)
    <2>1. CASE \E l \in Labels : CreateLabel(u, l) \/ ReprintLabel(u, l)
        BY <2>1 DEF CreateLabel, ReprintLabel, Insert, Inserts
    <2>2. CASE \E j \in DOMAIN jobs : AdminRetry(u, j)
        BY <2>2 DEF AdminRetry, Call
    <2>3. QED
        BY <2>1, <2>2
<1>2. \A j \in JobIds : (AtPrinter(a, j)' => AtPrinter(a, j)) /\ (Due(a, j)' => Due(a, j))
    BY <1>1 DEF AtPrinter, Due, Current
<1>3. \A c \in calls' : c.op \notin Inserts => Accepts(c.op, c.seen)
    BY <1>1 DEF OnceInv
<1>4. QED
    BY <1>1, <1>2, <1>3, QuietKeeps

LEMMA OncePost ==
    ASSUME NEW a \in Agents, QueueInv, QueueInv', OnceInv(a), PostStart(a) \/ PostComplete(a) \/ PostFailed(a)
    PROVE  OnceInv(a)'
<1>1. PICK op \in AgentOps, row \in [pc : Steps, todo : SUBSET Nat] :
        /\ agent' = [agent EXCEPT ![a] = row] /\ UNCHANGED <<jobs, printed, retries, paper>>
        /\ op = "start" <=> agent[a].pc = "next"
        /\ \/ /\ calls' = calls \cup {Call(op, a, Current(a))} /\ Accepts(op, jobs[Current(a)].status)
              /\ row = [pc |-> WaitsFor(op), todo |-> agent[a].todo]
           \/ /\ calls' = calls
              /\ row = Idle \/ row = [pc |-> "report", todo |-> agent[a].todo]
    BY PostIs
<1>2. agent'[a] = row
    BY <1>1 DEF QueueInv, RowsOK
<1>3. /\ row.pc # "started" /\ row.pc # "next"
      /\ row.todo = agent[a].todo \/ row.todo = {}
      /\ row.pc = "starting" => agent[a].pc = "next"
    <2>1. CASE row = [pc |-> WaitsFor(op), todo |-> agent[a].todo]
        BY <1>1, <2>1 DEF WaitsFor, AgentOps
    <2>2. CASE row = Idle \/ row = [pc |-> "report", todo |-> agent[a].todo]
        BY <2>2 DEF Idle
    <2>3. QED
        BY <1>1, <2>1, <2>2
<1>4. \A j \in JobIds : (AtPrinter(a, j)' => AtPrinter(a, j)) /\ (Due(a, j)' => Due(a, j))
    <2>1. row.todo = agent[a].todo => Current(a)' = Current(a)
        BY <1>2 DEF Current
    <2>2. QED
        BY <1>1, <1>2, <1>3, <2>1 DEF AtPrinter, Due
<1>5. \A c \in calls' : c.op \notin Inserts => Accepts(c.op, c.seen)
    BY <1>1 DEF OnceInv, Call
<1>6. QED
    BY <1>1, <1>4, <1>5, QuietKeeps

LEMMA OnceBreak ==
    ASSUME NEW a \in Agents, QueueInv, QueueInv', OnceInv(a), TimeOut(a) \/ Crash(a)
    PROVE  OnceInv(a)'
<1>1. /\ UNCHANGED <<jobs, printed, retries, paper>>
      /\ agent'[a] = Idle \/ agent'[a] = [pc |-> "report", todo |-> agent[a].todo]
    BY BreakIs DEF QueueInv, RowsOK
<1>2. \A j \in JobIds : (AtPrinter(a, j)' => AtPrinter(a, j)) /\ (Due(a, j)' => Due(a, j))
    <2>1. CASE agent'[a] = Idle
        BY <1>1, <2>1 DEF AtPrinter, Due, Idle
    <2>2. CASE agent'[a] = [pc |-> "report", todo |-> agent[a].todo]
        BY <1>1, <2>2 DEF AtPrinter, Due, Current
    <2>3. QED
        BY <1>1, <2>1, <2>2
<1>3. \A c \in calls' : \E d \in calls : c.op = d.op /\ c.seen = d.seen
    <2>1. CASE calls' = calls
        BY <2>1
    <2>2. ASSUME NEW c \in calls, calls' \in {calls \ {c}, (calls \ {c}) \cup {[c EXCEPT !.by = Nobody]}}
          PROVE  \A e \in calls' : \E d \in calls : e.op = d.op /\ e.seen = d.seen
        BY <2>2 DEF QueueInv, RowsOK
    <2>3. QED
        BY <2>1, <2>2, BreakIs DEF Abandoned
<1>4. \A c \in calls' : c.op \notin Inserts => Accepts(c.op, c.seen)
    BY <1>3 DEF OnceInv
<1>5. QED
    BY <1>1, <1>2, <1>4, QuietKeeps

LEMMA OncePoll ==
    ASSUME NEW a \in Agents, QueueInv, QueueInv', OnceInv(a), Poll(a) \/ PollDone(a)
    PROVE  OnceInv(a)'
<1>1. /\ UNCHANGED <<jobs, printed, calls, retries, paper>>
      /\ agent'[a].pc # "started" /\ \A j \in agent'[a].todo : j \in DOMAIN jobs /\ jobs[j].status = "pending"
    <2>1. agent \in [Agents -> [pc : Steps, todo : SUBSET Nat]]
        BY DEF QueueInv, RowsOK
    <2>2. CASE Poll(a)
        BY <2>1, <2>2 DEF Poll, Server, Polled
    <2>3. CASE PollDone(a)
        BY <2>1, <2>3 DEF PollDone, Server, Idle
    <2>4. QED
        BY <2>2, <2>3
<1>2. \A j \in JobIds : (AtPrinter(a, j)' => AtPrinter(a, j)) /\ (Due(a, j)' => Due(a, j))
    BY <1>1 DEF AtPrinter, Due
<1>3. \A c \in calls' : c.op \notin Inserts => Accepts(c.op, c.seen)
    BY <1>1 DEF OnceInv
<1>4. QED
    BY <1>1, <1>2, <1>3, QuietKeeps

\* The label comes out, or does not: the job leaves the printer.
LEMMA OncePrint ==
    ASSUME NEW a \in Agents, QueueInv, OnceInv(a), PrintLabel(a)
    PROVE  OnceInv(a)'
<1>1. /\ UNCHANGED <<jobs, printed, calls, retries>> /\ agent[a].pc = "started"
      /\ agent'[a].pc \in {"printed", "report"} /\ agent'[a].todo = agent[a].todo
      /\ paper' = paper \/ paper' = [paper EXCEPT ![Current(a)] = @ + 1]
    <2>1. agent \in [Agents -> [pc : Steps, todo : SUBSET Nat]] /\ agent[a] \in [pc : Steps, todo : SUBSET Nat]
        BY DEF QueueInv, RowsOK
    <2>2. QED
        BY <2>1 DEF PrintLabel, Server
<1>2. Current(a)' = Current(a) /\ Current(a) \in DOMAIN jobs /\ DOMAIN jobs \subseteq JobIds
    BY <1>1, CurrentListed, JobsCounted DEF QueueInv, CallsOK, AtHand, Steps, Waiting, Current
<1>3. \A j \in JobIds : paper[j] \in Nat /\ retries[j] \in Nat /\ DOMAIN paper = JobIds
    BY DEF QueueInv, RowsOK
<1>4. ASSUME NEW j \in JobIds
      PROVE  /\ paper'[j] + One(AtPrinter(a, j)') + One(Due(a, j)') <= 1 + retries[j]
             /\ j \notin DOMAIN jobs => paper'[j] = 0
    <2>1. /\ paper[j] + One(AtPrinter(a, j)) + One(Due(a, j)) <= 1 + retries[j]
          /\ paper[j] \in Nat /\ retries[j] \in Nat
        BY <1>3 DEF OnceInv
    <2>2. ~AtPrinter(a, j)' /\ (Due(a, j)' => Due(a, j))
        BY <1>1, <1>2 DEF AtPrinter, Due
    <2>3. AtPrinter(a, j) <=> Current(a) = j
        BY <1>1 DEF AtPrinter
    <2>4. /\ j = Current(a) => paper'[j] \in {paper[j], paper[j] + 1}
          /\ j # Current(a) => paper'[j] = paper[j]
        BY <1>1, <1>2, <1>3
    <2>5. /\ One(AtPrinter(a, j)') = 0 /\ One(Due(a, j)') <= One(Due(a, j)) /\ One(Due(a, j)) \in Nat /\ One(Due(a, j)') \in Nat
          /\ j = Current(a) => One(AtPrinter(a, j)) = 1
          /\ One(AtPrinter(a, j)) \in Nat
        BY <2>2, <2>3 DEF One
    <2>6. paper'[j] + One(AtPrinter(a, j)') + One(Due(a, j)') <= 1 + retries[j]
        BY <2>1, <2>4, <2>5
    <2>7. j \notin DOMAIN jobs => paper'[j] = 0
        BY <1>2, <2>4 DEF OnceInv
    <2>8. QED
        BY <2>6, <2>7
<1>5. \A j \in JobIds : paper'[j] + One(AtPrinter(a, j))' + One(Due(a, j))' <= 1 + retries'[j]
    BY <1>1, <1>4 DEF One
<1>6. QED
    BY <1>1, <1>4, <1>5 DEF OnceInv

\* A call committed: a start takes the job to the printer, a retry is one more time.
LEMMA OnceCommit ==
    ASSUME NEW a \in Agents, Agents = {a}, QueueInv, OnceInv(a), NEW c \in calls, Commit(c)
    PROVE  OnceInv(a)'
<1>1. /\ c.op \notin Inserts /\ calls' = calls \ {c} /\ agent' = Answered(c) /\ paper' = paper
      /\ jobs' = IF c.seen = Outcome(c.op) THEN jobs ELSE SetStatus(c.job, Outcome(c.op))
      /\ retries' = IF c.op = "retry" THEN [retries EXCEPT ![c.job] = @ + 1] ELSE retries
    BY DEF Commit
<1>2. /\ c.op \in AgentOps \cup {"retry"} /\ c.job \in DOMAIN jobs /\ Accepts(c.op, c.seen)
      /\ Outcome(c.op) \in Statuses
    BY <1>1 DEF QueueInv, RowsOK, CallsOK, OnceInv, Ops, AgentOps, Outcome, Statuses
<1>3. /\ DOMAIN jobs' = DOMAIN jobs
      /\ \A k \in DOMAIN jobs : k # c.job => jobs'[k].status = jobs[k].status
      /\ jobs'[c.job].status \in {jobs[c.job].status, Outcome(c.op)}
      /\ c.op = "start" => jobs'[c.job].status = "printing"
    <2>1. jobs \in Seq(Jobs)
        BY DEF QueueInv, RowsOK
    <2>2. CASE c.seen = Outcome(c.op)
        BY <1>1, <1>2, <2>2 DEF Accepts, Outcome
    <2>3. CASE c.seen # Outcome(c.op)
        <3>1. jobs' = SetStatus(c.job, Outcome(c.op))
            BY <1>1, <2>3
        <3>2. c.op = "start" => Outcome(c.op) = "printing"
            BY DEF Outcome
        <3>3. QED
            BY <1>2, <2>1, <3>1, <3>2, StatusWritten
    <2>4. QED
        BY <2>2, <2>3
<1>4. /\ \A j \in JobIds : paper[j] \in Nat /\ retries[j] \in Nat
      /\ \A j \in JobIds : retries'[j] = IF j = c.job /\ c.op = "retry" THEN retries[j] + 1 ELSE retries[j]
    BY <1>1 DEF QueueInv, RowsOK
<1>5. \/ c.by # a /\ agent'[a] = agent[a] /\ Current(a)' = Current(a)
      \/ /\ c.by = a /\ c.op = "start" /\ agent[a].pc = "starting" /\ c.job = Current(a)
         /\ agent'[a].pc = "started" /\ agent'[a].todo = agent[a].todo
         /\ Current(a)' = Current(a) /\ Current(a) \in agent[a].todo
      \/ /\ c.by = a /\ c.op \in {"complete", "fail"} /\ c.job = Current(a)
         /\ agent'[a].pc = "next" /\ agent'[a].todo = agent[a].todo \ {c.job}
    <2>1. CASE c.by # a
        BY <1>1, <2>1, AnsweredIs DEF Current
    <2>2. CASE c.by = a
        <3>1. c.op \in AgentOps /\ agent[a].pc = WaitsFor(c.op) /\ c.job = Current(a)
            BY <2>2 DEF QueueInv, CallsOK
        <3>2. CASE c.op = "start"
            <4>1. agent[a].pc = "starting" /\ agent[a].todo # {}
                BY <3>1, <3>2 DEF WaitsFor, QueueInv, CallsOK, AtHand, Steps, Waiting
            <4>2. agent'[a] = [pc |-> "started", todo |-> agent[a].todo]
                BY <1>1, <2>2, <3>2, AnsweredIs
            <4>3. Current(a)' = Current(a)
                BY <4>2 DEF Current
            <4>4. QED
                BY <2>2, <3>1, <3>2, <4>1, <4>2, <4>3, CurrentListed DEF QueueInv
        <3>3. CASE c.op # "start"
            <4>1. agent'[a] = [pc |-> "next", todo |-> agent[a].todo \ {c.job}]
                BY <1>1, <2>2, <3>3, AnsweredIs
            <4>2. QED
                BY <2>2, <3>1, <3>3, <4>1 DEF AgentOps
        <3>4. QED
            BY <3>2, <3>3
    <2>3. QED
        BY <2>1, <2>2
<1>6. ASSUME NEW j \in JobIds
      PROVE  paper[j] + One(AtPrinter(a, j)') + One(Due(a, j)') <= 1 + retries'[j]
    <2>1. /\ paper[j] + One(AtPrinter(a, j)) + One(Due(a, j)) <= 1 + retries[j]
          /\ paper[j] \in Nat /\ retries[j] \in Nat
        BY <1>4 DEF OnceInv
    <2>2. /\ \A b : One(b) \in {0, 1}
          /\ AtPrinter(a, j) \in BOOLEAN /\ Due(a, j) \in BOOLEAN /\ AtPrinter(a, j)' \in BOOLEAN /\ Due(a, j)' \in BOOLEAN
        BY DEF One, AtPrinter, Due
    <2>3. CASE (AtPrinter(a, j)' => AtPrinter(a, j)) /\ (Due(a, j)' => Due(a, j))
        <3>1. One(AtPrinter(a, j)') <= One(AtPrinter(a, j)) /\ One(Due(a, j)') <= One(Due(a, j))
            BY <2>3 DEF One
        <3>2. retries'[j] >= retries[j] /\ retries'[j] \in Nat
            BY <1>4
        <3>3. QED
            BY <2>1, <2>2, <3>1, <3>2
    <2>4. CASE j # c.job
        <3>1. (AtPrinter(a, j)' => AtPrinter(a, j)) /\ (Due(a, j)' => Due(a, j))
            BY <1>3, <1>5, <2>4 DEF AtPrinter, Due
        <3>2. QED
            BY <2>3, <3>1
    <2>5. CASE j = c.job /\ c.op = "retry"
        <3>1. AtPrinter(a, j)' => AtPrinter(a, j)
            BY <1>5, <2>5 DEF AtPrinter
        <3>2. One(AtPrinter(a, j)') <= One(AtPrinter(a, j)) /\ retries'[j] = retries[j] + 1
            BY <1>4, <2>5, <3>1 DEF One
        <3>3. QED
            BY <2>1, <2>2, <3>2
    <2>6. CASE j = c.job /\ c.op = "start"
        <3>1. jobs'[j].status # "pending" /\ j \in DOMAIN jobs'
            BY <1>2, <1>3, <2>6
        <3>2. CASE c.by # a
            <4>1. (AtPrinter(a, j)' => AtPrinter(a, j)) /\ (Due(a, j)' => Due(a, j))
                BY <1>5, <3>1, <3>2 DEF AtPrinter, Due
            <4>2. QED
                BY <2>3, <4>1
        <3>3. CASE c.by = a
            <4>1. ~AtPrinter(a, j) /\ Due(a, j) /\ ~Due(a, j)'
                BY <1>5, <2>6, <3>1, <3>3 DEF AtPrinter, Due
            <4>2. One(AtPrinter(a, j)) = 0 /\ One(Due(a, j)) = 1 /\ One(Due(a, j)') = 0 /\ retries'[j] = retries[j]
                BY <1>4, <2>6, <4>1 DEF One
            <4>3. QED
                BY <2>1, <2>2, <4>2
        <3>4. QED
            BY <3>2, <3>3
    <2>7. CASE j = c.job /\ c.op \in {"complete", "fail"}
        <3>1. j \in DOMAIN jobs /\ jobs'[j].status = "pending" => j \in DOMAIN jobs /\ jobs[j].status = "pending"
            BY <1>2, <1>3, <2>7 DEF Outcome
        <3>2. (AtPrinter(a, j)' => AtPrinter(a, j)) /\ (Due(a, j)' => Due(a, j))
            BY <1>3, <1>5, <2>7, <3>1 DEF AtPrinter, Due
        <3>3. QED
            BY <2>3, <3>2
    <2>8. QED
        BY <1>2, <2>4, <2>5, <2>6, <2>7 DEF AgentOps
<1>7. \A j \in JobIds : paper'[j] + One(AtPrinter(a, j))' + One(Due(a, j))' <= 1 + retries'[j]
    BY <1>1, <1>6 DEF One
<1>8. QED
    BY <1>1, <1>3, <1>7 DEF OnceInv

\* A job is added: it is due or nothing is, and one label came out at most.
LEMMA OnceInsert ==
    ASSUME NEW a \in Agents, QueueInv, OnceInv(a), NEW c \in calls, CommitInsert(c)
    PROVE  OnceInv(a)'
<1> DEFINE n == Len(jobs) + 1
<1>1. PICK printer \in Printers, s \in Statuses :
        /\ jobs' = Append(jobs, [label |-> c.label, printer |-> printer, status |-> s])
        /\ \/ paper' = paper
           \/ s = "completed" /\ paper' = [paper EXCEPT ![n] = @ + 1]
    BY DEF CommitInsert, Add, Statuses
<1>2. c.op \in Inserts /\ calls' = calls \ {c} /\ UNCHANGED <<agent, losses, crashes, retries>>
    BY DEF CommitInsert
<1>3. c.label \in Labels /\ [label |-> c.label, printer |-> printer, status |-> s] \in Jobs
    BY DEF QueueInv, RowsOK, Jobs
<1>4. /\ Len(jobs') = n /\ DOMAIN jobs = 1 .. Len(jobs) /\ DOMAIN jobs' = 1 .. n
      /\ Len(jobs) \in Nat /\ jobs'[n].status = s /\ \A k \in DOMAIN jobs : jobs'[k] = jobs[k]
    BY <1>1, <1>3, JobAdded DEF QueueInv, RowsOK
<1>5. n \in JobIds /\ n \notin DOMAIN jobs /\ DOMAIN jobs' = DOMAIN jobs \cup {n}
    BY <1>2, <1>4, QuotaSpent DEF QueueInv
<1>6. /\ \A j \in JobIds : paper[j] \in Nat /\ retries[j] \in Nat
      /\ \A j \in JobIds \ {n} : paper'[j] = paper[j]
      /\ paper[n] = 0 /\ paper'[n] \in {0, 1} /\ (paper'[n] = 1 => s = "completed")
    <2>1. paper \in [JobIds -> Nat] /\ paper[n] = 0
        BY <1>5 DEF QueueInv, RowsOK, OnceInv
    <2>2. QED
        BY <1>1, <1>5, <2>1 DEF QueueInv, RowsOK
<1>7. /\ agent[a].todo \subseteq DOMAIN jobs /\ Current(a)' = Current(a)
      /\ agent[a].pc = "started" => Current(a) \in DOMAIN jobs
    BY <1>2, CurrentListed DEF QueueInv, CallsOK, AtHand, Steps, Waiting, Current
<1>8. ASSUME NEW j \in JobIds
      PROVE  paper'[j] + One(AtPrinter(a, j)') + One(Due(a, j)') <= 1 + retries[j]
    <2>1. CASE j # n
        <3>1. (AtPrinter(a, j)' <=> AtPrinter(a, j)) /\ (Due(a, j)' <=> Due(a, j))
            BY <1>2, <1>4, <1>5, <1>7, <2>1 DEF AtPrinter, Due
        <3>2. One(AtPrinter(a, j)') = One(AtPrinter(a, j)) /\ One(Due(a, j)') = One(Due(a, j))
            BY <3>1 DEF One
        <3>3. QED
            BY <1>6, <2>1, <3>2 DEF OnceInv
    <2>2. CASE j = n
        <3>1. ~AtPrinter(a, j)' /\ (Due(a, j)' <=> s = "pending")
            BY <1>2, <1>4, <1>5, <1>7, <2>2 DEF AtPrinter, Due
        <3>2. One(AtPrinter(a, j)') = 0 /\ One(Due(a, j)') = IF s = "pending" THEN 1 ELSE 0
            BY <3>1 DEF One
        <3>3. paper'[j] \in {0, 1} /\ (paper'[j] = 1 => s # "pending") /\ retries[j] \in Nat
            BY <1>6, <2>2
        <3>4. QED
            BY <3>2, <3>3
    <2>3. QED
        BY <2>1, <2>2
<1>9. \A j \in JobIds : paper'[j] + One(AtPrinter(a, j))' + One(Due(a, j))' <= 1 + retries'[j]
    BY <1>2, <1>8 DEF One
<1>10. QED
    BY <1>2, <1>5, <1>6, <1>9 DEF OnceInv

LEMMA OnceKept ==
    ASSUME NEW a \in Agents, Agents = {a}
    PROVE  /\ Init => OnceInv(a)
           /\ QueueInv /\ QueueInv' /\ OnceInv(a) /\ [Next]_vars => OnceInv(a)'
<1>1. ASSUME Init PROVE OnceInv(a)
    <2>1. jobs = <<>> /\ DOMAIN jobs = {} /\ calls = {} /\ agent[a].pc = "idle" /\ agent[a].todo = {}
        BY <1>1 DEF Init, Idle
    <2>2. \A j \in JobIds : paper[j] = 0 /\ retries[j] = 0
        BY <1>1 DEF Init
    <2>3. \A j \in JobIds : One(AtPrinter(a, j)) = 0 /\ One(Due(a, j)) = 0
        BY <2>1 DEF AtPrinter, Due, One
    <2>4. QED
        BY <2>1, <2>2, <2>3 DEF OnceInv
<1>2. ASSUME QueueInv, QueueInv', OnceInv(a), [Next]_vars PROVE OnceInv(a)'
    <2>1. CASE (\E u \in Clerks, l \in Labels : CreateLabel(u, l) \/ ReprintLabel(u, l)) \/ (\E u \in Clerks, j \in DOMAIN jobs : AdminRetry(u, j))
        BY <1>2, <2>1, OnceClerk
    <2>2. CASE \E b \in Agents : AgentStep(b) \/ TimeOut(b) \/ Crash(b)
        <3>1. AgentStep(a) \/ TimeOut(a) \/ Crash(a)
            BY <2>2
        <3>2. QED
            BY <1>2, <3>1, OncePoll, OncePrint, OncePost, OnceBreak DEF AgentStep
    <2>3. CASE ServerStep
        BY <1>2, <2>3, OnceCommit, OnceInsert DEF ServerStep
    <2>4. CASE UNCHANGED vars
        <3>1. UNCHANGED <<jobs, calls, agent, paper, retries>>
            BY <2>4 DEF vars
        <3>2. \A j \in JobIds : (AtPrinter(a, j)' => AtPrinter(a, j)) /\ (Due(a, j)' => Due(a, j))
            BY <3>1 DEF AtPrinter, Due, Current
        <3>3. \A c \in calls' : c.op \notin Inserts => Accepts(c.op, c.seen)
            BY <1>2, <3>1 DEF OnceInv
        <3>4. QED
            BY <1>2, <3>1, <3>2, <3>3, QuietKeeps
    <2>5. QED
        BY <1>2, <2>1, <2>2, <2>3, <2>4 DEF Next
<1>3. QED
    BY <1>1, <1>2

\* The jobs and the paper agree both ways when one agent serves the printer:
\* what is recorded as printed was, and a job came out once, and once
\* more for each retry, whatever calls were lost and however often the agent crashed.
THEOREM PrintedIsRecorded ==
    ASSUME NEW a, Agents = {a}
    PROVE  Spec => []PrintedAsRecorded
<1>1. QueueInv /\ OnceInv(a) => PrintedAsRecorded
    <2>1. SUFFICES ASSUME QueueInv, OnceInv(a), NEW j \in JobIds PROVE paper[j] <= 1 + retries[j]
        BY DEF PrintedAsRecorded, PrintedOncePerRequest, QueueInv
    <2>2. /\ paper[j] + One(AtPrinter(a, j)) + One(Due(a, j)) <= 1 + retries[j]
          /\ paper[j] \in Nat /\ retries[j] \in Nat
        BY <2>1 DEF OnceInv, QueueInv, RowsOK
    <2>3. One(AtPrinter(a, j)) \in Nat /\ One(Due(a, j)) \in Nat
        BY DEF One
    <2>4. QED
        BY <2>2, <2>3
<1>2. Init => QueueInv /\ OnceInv(a)
    BY NothingPrintedYet, OnceKept
<1>3. QueueInv /\ OnceInv(a) /\ [Next]_vars => QueueInv' /\ OnceInv(a)'
    BY QueueInvKept, OnceKept
<1>4. QED
    BY <1>1, <1>2, <1>3, PTL DEF Spec
==============================================================================
