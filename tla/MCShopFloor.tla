------------------------------ MODULE MCShopFloor ------------------------------
(* The plant at work, for TLC: the shop floor with details as model values, *)
(* some of them in stock, the task board, and the brigades of the assembly  *)
(* terminal.  They share no state here: a behaviour is about one of them.   *)
EXTENDS ShopFloor, Tasks, Brigades, FiniteSets, TLC

CONSTANTS
    Kept,       \* details in stock
    KeptPieces  \* how many pieces of each

MCStock == [l \in Lines |-> IF l \in Kept THEN KeptPieces ELSE 0]

VARIABLE subject \* "floor", "tasks" or "brigades"

plantVars == <<floor, taskVars, brigadeVars, subject>>

PlantInit ==
    /\ Init /\ TasksInit /\ BrigadesInit
    /\ subject \in {"floor", "tasks", "brigades"} /\ (project \/ subject = "floor")

PlantNext ==
    /\ \/ subject = "floor" /\ Next /\ UNCHANGED <<taskVars, brigadeVars>>
       \/ subject = "tasks" /\ TasksNext /\ UNCHANGED <<floor, brigadeVars>>
       \/ subject = "brigades" /\ BrigadesNext /\ UNCHANGED <<floor, taskVars>>
    /\ UNCHANGED subject

PlantSpec == PlantInit /\ [][PlantNext]_plantVars

\* The same names stand for the requests at the task board and at the brigades, and for operators and
\* members of brigades.  The properties are about states and single steps.
Symmetry == Permutations(Hands) \cup Permutations(People) \cup Permutations(Brigades)

-----------------------------------------------------------------------------
(* Bounds on what comes together.                                          *)

\* Three statuses and one operator who reports tell the cases apart; the archive is used before
\* anybody is assigned, and a task that is deleted meets one request more.
Board ==
    LET followed == {"new", "accepted", "completed"} IN
    subject = "tasks" =>
        /\ \A t \in Tasks, u \in Operators : \A k \in DOMAIN duties[t][u] :
             duties[t][u][k].status \in followed /\ duties[t][u][k].last \in followed
        /\ \A c \in Desks : working[c].op = "status" => working[c].status \in followed
        /\ \A t \in Tasks :
             /\ task[t].archived => \A u \in Operators : duties[t][u] = <<>>
             /\ Cardinality({u \in Operators : \E k \in DOMAIN duties[t][u] : duties[t][u][k].last # "new"}) <= 1
             /\ task[t].state = "deleted" => Cardinality({c \in Desks : working[c] # NoTurn}) <= 1

\* A second brigade without members disputes a job that nothing is recorded for; users come and go
\* between requests.  Two edits of an active brigade overlap while no job is taken on, and an edit
\* overlaps what is done at the terminal when it leaves the brigade its brigadier alone, at the
\* station, with no member.
Scope ==
    LET busy == {c \in Hands : acting[c] # NoAct}
        edits == {c \in busy : acting[c].op = "edit"}
        there == {b \in Brigades : brigade[b].there}
    IN subject = "brigades" =>
        /\ Cardinality(there) = 2 =>
             /\ edits = {} /\ employed = People
             /\ \A j \in Assemblies : operations[j] = <<>>
             /\ \A b \in Brigades, u \in People : member[b][u] = "none"
        /\ Cardinality(busy) = 2 => employed = People
        /\ Cardinality(edits) = 2 =>
             /\ \A j \in Assemblies : assembly[j].state = "waiting"
             /\ \A b \in there : brigade[b].active
             /\ \A c \in edits : acting[c].wanted
        /\ Cardinality(edits) = 1 /\ Cardinality(busy) = 2 =>
             \A c \in edits :
                 /\ acting[c].chief = brigade[acting[c].b].chief
                 /\ acting[c].on = {} /\ acting[c].wanted
===============================================================================
