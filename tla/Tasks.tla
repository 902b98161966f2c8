-------------------------------- MODULE Tasks ---------------------------------
(***************************************************************************)
(* The task board (routers/tasks_router.py): an administrator assigns a    *)
(* task to operators, an operator moves his assignment on, and every move  *)
(* leaves a comment.                                                       *)
(*                                                                         *)
(* A handler reads the task with all that belongs to it (the Ask actions)  *)
(* and commits; nothing is locked in between.  The session inserts and     *)
(* deletes rows, and updates in a row what differs from what it read: an   *)
(* update of a row that is gone fails, a deletion does not.  No constraint *)
(* keeps an operator from being assigned to a task twice.                  *)
(***************************************************************************)
EXTENDS Naturals, Sequences

CONSTANTS
    Tasks, Operators,
    Desks,      \* requests handled at a time
    MaxAssignments,    \* bound: assignments of one operator to one task, ever
    MaxNotes    \* bound: comments and attachments of a task

ASSUME TasksAssumption == MaxNotes \in Nat

VARIABLES
    task,      \* per task: whether it is there, and archived
    duties,    \* per task and operator: the assignments so far
    notes,     \* per task: how many comments and attachments it has
    working    \* per desk: what the handler has read, or NoTurn

taskVars == <<task, duties, notes, working>>

\* An operator cannot make it "new" again.
OperatorStatuses == {"accepted", "in_progress", "completed", "cancelled"}
NoTurn == [op |-> "none"]

\* An assignment: whether it is there, its status, and that of its last comment.
NewRow == [there |-> TRUE, status |-> "new", last |-> "new"]

TasksInit ==
    /\ task = [t \in Tasks |-> [state |-> "absent", archived |-> FALSE]]
    /\ duties = [t \in Tasks |-> [u \in Operators |-> <<>>]]
    /\ notes = [t \in Tasks |-> 0]
    /\ working = [c \in Desks |-> NoTurn]

IsTask(t) == task[t].state = "there"
Assigned(t, u) == {k \in DOMAIN duties[t][u] : duties[t][u][k].there}
Assignments(t) == [u \in Operators |-> Assigned(t, u)]

-----------------------------------------------------------------------------
(* Rows that come and go in one request.                                   *)

\* The names are those of the list, each once, or of all active operators.
CreateTask(t, who) ==
    /\ task[t].state = "absent"
    /\ task' = [task EXCEPT ![t].state = "there"]
    /\ duties' = [duties EXCEPT ![t] = [u \in Operators |-> IF u \in who THEN <<NewRow>> ELSE <<>>]]
    /\ \E n \in 0 .. MaxNotes : notes' = [notes EXCEPT ![t] = n]
    /\ UNCHANGED working

AddNote(t) ==
    /\ IsTask(t) /\ notes[t] < MaxNotes
    /\ notes' = [notes EXCEPT ![t] = @ + 1]
    /\ UNCHANGED <<task, duties, working>>

-----------------------------------------------------------------------------
(* Requests that read first.                                               *)

Ask(c, w) ==
    /\ working[c] = NoTurn
    /\ working' = [working EXCEPT ![c] = w]
    /\ UNCHANGED <<task, duties, notes>>

\* Other attributes, a list of operators, or both; the attributes make the task itself written.
AskUpdate(c, t, edit, listed, who) ==
    /\ IsTask(t)
    /\ Ask(c, [op |-> "update", t |-> t, edit |-> edit, listed |-> listed, who |-> who, seen |-> Assignments(t)])

AskDelete(c, t) ==
    /\ IsTask(t)
    /\ Ask(c, [op |-> "delete", t |-> t, seen |-> Assignments(t), notes |-> notes[t]])

AskArchive(c, t) ==
    /\ IsTask(t)
    /\ Ask(c, [op |-> "archive", t |-> t, seen |-> task[t].archived])

AskStatus(c, t, u, k, status) ==
    /\ k \in Assigned(t, u)
    /\ Ask(c, [op |-> "status", t |-> t, u |-> u, k |-> k, status |-> status, seen |-> duties[t][u][k].status])

-----------------------------------------------------------------------------
(* Committing.                                                             *)

\* Mutant: whoever is on the list is assigned.
Everyone(who, seen) == who

\* Operators on the list who had no assignment, and those with one who are not on it.
Added(who, seen) == {u \in who : seen[u] = {}}
Dropped(who, seen) == {u \in Operators \ who : seen[u] # {}}

\* Of an operator who is assigned twice, the handler knows one assignment.
CommitTask(c) ==
    LET w == working[c]
        added == IF w.listed THEN Added(w.who, w.seen) ELSE {}
        dropped == IF w.listed THEN Dropped(w.who, w.seen) ELSE {}
    IN
    /\ w.op = "update"
    /\ w.edit \/ added # {} => IsTask(w.t)
    /\ \A u \in added : Len(duties[w.t][u]) < MaxAssignments
    /\ \E known \in [dropped -> 1 .. MaxAssignments] :
         /\ \A u \in dropped : known[u] \in w.seen[u]
         /\ duties' = [duties EXCEPT ![w.t] = [u \in Operators |->
                CASE u \in added -> Append(duties[w.t][u], NewRow)
                  [] u \in dropped -> [duties[w.t][u] EXCEPT ![known[u]].there = FALSE]
                  [] OTHER -> duties[w.t][u]]]
    /\ working' = [working EXCEPT ![c] = NoTurn]
    /\ UNCHANGED <<task, notes>>

\* The rows it has read are deleted, and the task; a row it has not read still refers to the task.
CommitDelete(c) ==
    LET w == working[c] IN
    /\ w.op = "delete"
    /\ IsTask(w.t) => (\A u \in Operators : Assigned(w.t, u) \subseteq w.seen[u]) /\ notes[w.t] = w.notes
    /\ task' = [task EXCEPT ![w.t].state = "deleted"]
    /\ duties' = [duties EXCEPT ![w.t] = [u \in Operators |->
                                      [k \in DOMAIN duties[w.t][u] |-> [duties[w.t][u][k] EXCEPT !.there = FALSE]]]]
    /\ working' = [working EXCEPT ![c] = NoTurn]
    /\ UNCHANGED notes

CommitArchive(c) ==
    LET w == working[c] IN
    /\ w.op = "archive" /\ IsTask(w.t)
    /\ task' = [task EXCEPT ![w.t].archived = ~w.seen]
    /\ working' = [working EXCEPT ![c] = NoTurn]
    /\ UNCHANGED <<duties, notes>>

\* "completed" stamps the time anew, whatever the status was.
Stamped(w) == w.status # w.seen \/ w.status = "completed"

\* The comment names the assignment, there or not.
CommitMove(c) ==
    LET w == working[c] IN
    /\ w.op = "status" /\ IsTask(w.t) /\ notes[w.t] < MaxNotes
    /\ Stamped(w) => w.k \in Assigned(w.t, w.u)
    /\ duties' = [duties EXCEPT ![w.t][w.u][w.k] =
                  [there |-> @.there, status |-> IF w.status # w.seen THEN w.status ELSE @.status, last |-> w.status]]
    /\ notes' = [notes EXCEPT ![w.t] = @ + 1]
    /\ working' = [working EXCEPT ![c] = NoTurn]
    /\ UNCHANGED task

\* A row is gone that the request updates or refers to.
Fail(c) ==
    /\ working[c] # NoTurn
    /\ working' = [working EXCEPT ![c] = NoTurn]
    /\ UNCHANGED <<task, duties, notes>>

TasksNext ==
    \/ \E t \in Tasks : AddNote(t) \/ \E who \in SUBSET Operators : CreateTask(t, who)
    \/ \E c \in Desks :
         \/ \E t \in Tasks :
              \/ AskDelete(c, t) \/ AskArchive(c, t)
              \/ AskUpdate(c, t, TRUE, FALSE, {})
              \/ \E edit \in BOOLEAN, who \in SUBSET Operators : AskUpdate(c, t, edit, TRUE, who)
              \/ \E u \in Operators, status \in OperatorStatuses : \E k \in Assigned(t, u) :
                     AskStatus(c, t, u, k, status)
         \/ CommitTask(c) \/ CommitDelete(c) \/ CommitArchive(c) \/ CommitMove(c) \/ Fail(c)

TasksSpec == TasksInit /\ [][TasksNext]_taskVars

-----------------------------------------------------------------------------
(* Properties.                                                             *)

Twice(t, u) == \E k, l \in Assigned(t, u) : k # l

\* The status is not what the operator last said.
Mislogged(t, u) == \E k \in Assigned(t, u) : duties[t][u][k].status # duties[t][u][k].last

\* What a request has read is not so any more.
Surpassed(c) ==
    LET w == working[c] IN
    CASE w.op \in {"update", "delete"} -> w.seen # Assignments(w.t)
      [] w.op = "archive" -> w.seen # task[w.t].archived
      [] w.op = "status" -> w.k \notin Assigned(w.t, w.u) \/ w.seen # duties[w.t][w.u][w.k].status
      [] OTHER -> FALSE

\* Only a request that was overtaken by another one assigns an operator twice, leaves a status
\* that the operator did not say last, or does not leave the list that it was sent.
OnlyOverlapsMisassign ==
    [][\/ \E c \in Desks : working[c] # NoTurn /\ working'[c] = NoTurn /\ Surpassed(c)
       \/ /\ \A t \in Tasks, u \in Operators : (Twice(t, u)' => Twice(t, u)) /\ (Mislogged(t, u)' => Mislogged(t, u))
          /\ \A c \in Desks, t \in Tasks, u \in Operators :
               CommitTask(c) /\ working[c].listed /\ working[c].t = t /\ ~Twice(t, u) =>
                   (Assigned(t, u)' # {} <=> u \in working[c].who)
          /\ \A c \in Desks, t \in Tasks :
               CommitArchive(c) /\ working[c].t = t => task'[t].archived # task[t].archived]_taskVars
===============================================================================
