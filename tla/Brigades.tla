------------------------------- MODULE Brigades -------------------------------
(***************************************************************************)
(* Brigades of the assembly terminal: the pages of the administrators      *)
(* (routers/mes_brigades_router.py), and what the terminal does with a     *)
(* brigade (services/production_brigades.py, routers/                      *)
(* mes_yigish_terminal_router.py): the brigadier of a brigade takes on a   *)
(* job, and with the completion of the job the workers he names are        *)
(* credited with its operations.                                           *)
(*                                                                         *)
(* A request reads first (the Open actions) and commits; nothing is locked *)
(* in between, and the session writes only what differs from what it read. *)
(* Quantities are not followed here: an entry adds an operation.           *)
(***************************************************************************)
EXTENDS Naturals, Sequences

CONSTANTS
    Brigades, NoBrigade,
    People, Nobody,
    Seated,          \* users with the permission mes_terminal_yigish
    Executors,       \* users with the permission production_projects_execute
    Assemblies,      \* jobs at the assembly station
    Hands,           \* requests handled at a time
    MaxOperations    \* bound: operations recorded for the step of a job

ASSUME BrigadesAssumption == NoBrigade \notin Brigades /\ Nobody \notin People

VARIABLES
    brigade,     \* per brigade: whether it is there, active, and its brigadier
    member,      \* per brigade and user: the row of the member
    posted,      \* per brigade: the row that assigns it to the station
    employed,    \* users that are active
    assembly,    \* per job: its step at the station
    operations,  \* per job: the participants of each operation of the step
    acting       \* per hand: what the handler has read, or NoAct

brigadeVars == <<brigade, member, posted, employed, assembly, operations, acting>>

\* A row once written stays, and is switched.
Switches == {"none", "on", "off"}
Switch(wanted) == IF wanted THEN "on" ELSE "off"
NoAct == [op |-> "none"]

BrigadesInit ==
    /\ brigade = [b \in Brigades |-> [there |-> FALSE, active |-> FALSE, chief |-> Nobody]]
    /\ member = [b \in Brigades |-> [u \in People |-> "none"]]
    /\ posted = [b \in Brigades |-> "none"]
    /\ employed = People
    /\ assembly = [j \in Assemblies |-> [state |-> "waiting", brigade |-> NoBrigade, by |-> Nobody]]
    /\ operations = [j \in Assemblies |-> <<>>]
    /\ acting = [c \in Hands |-> NoAct]

-----------------------------------------------------------------------------
(* Brigades, as administrators enter them.                                 *)

\* The brigadier and the members are active users.
CreateBrigade(b, chief, on, wanted) ==
    /\ ~brigade[b].there /\ {chief} \cup on \subseteq employed
    /\ brigade' = [brigade EXCEPT ![b] = [there |-> TRUE, active |-> TRUE, chief |-> chief]]
    /\ member' = [member EXCEPT ![b] = [u \in People |-> IF u \in on THEN "on" ELSE "none"]]
    /\ posted' = [posted EXCEPT ![b] = IF wanted THEN "on" ELSE "none"]
    /\ UNCHANGED <<employed, assembly, operations, acting>>

SetBrigadeStatus(b) ==
    /\ brigade[b].there
    /\ \E active \in BOOLEAN : brigade' = [brigade EXCEPT ![b].active = active]
    /\ UNCHANGED <<member, posted, employed, assembly, operations, acting>>

\* The administration of users.
Engage(u) ==
    /\ employed' = IF u \in employed THEN employed \ {u} ELSE employed \cup {u}
    /\ UNCHANGED <<brigade, member, posted, assembly, operations, acting>>

Act(c, a) ==
    /\ acting[c] = NoAct
    /\ acting' = [acting EXCEPT ![c] = a]
    /\ UNCHANGED <<brigade, member, posted, employed, assembly, operations>>

OpenEdit(c, b, chief, on, wanted) ==
    /\ brigade[b].there /\ {chief} \cup on \subseteq employed
    /\ Act(c, [op |-> "edit", b |-> b, chief |-> chief, on |-> on, wanted |-> wanted,
                seen |-> [chief |-> brigade[b].chief, member |-> member[b], posted |-> posted[b]]])

\* A row that was not there is inserted, when it is wanted; one that was is switched when it differs.
Switched(now, seen, wanted) ==
    IF seen = "none" THEN (IF wanted THEN "on" ELSE now)
    ELSE IF Switch(wanted) = seen THEN now ELSE Switch(wanted)

\* A pair of keys is unique: an insertion fails when the row is there by now.
Insertable(now, seen, wanted) == seen = "none" /\ wanted => now = "none"

CommitEdit(c) ==
    LET a == acting[c]
        b == a.b
    IN
    /\ a.op = "edit"
    /\ \A u \in People : Insertable(member[b][u], a.seen.member[u], u \in a.on)
    /\ Insertable(posted[b], a.seen.posted, a.wanted)
    /\ brigade' = [brigade EXCEPT ![b].chief = IF a.chief = a.seen.chief THEN @ ELSE a.chief]
    /\ member' = [member EXCEPT ![b] = [u \in People |-> Switched(member[b][u], a.seen.member[u], u \in a.on)]]
    /\ posted' = [posted EXCEPT ![b] = Switched(posted[b], a.seen.posted, a.wanted)]
    /\ acting' = [acting EXCEPT ![c] = NoAct]
    /\ UNCHANGED <<employed, assembly, operations>>

-----------------------------------------------------------------------------
(* The assembly terminal.                                                  *)

OnPost(b) == b \in Brigades /\ brigade[b].active /\ posted[b] = "on"
Leads(u, b) == OnPost(b) /\ brigade[b].chief = u
Works(u, b) == u \in employed /\ member[b][u] = "on"

\* The terminal is open to administrators, and to whoever leads a brigade assigned to it.
MayEnter(u) == u \in employed /\ (u \in Seated \/ \E b \in Brigades : Leads(u, b))

\* A project is executed by those with the permission, or by the brigade that has the job.
MayExecute(u, j) ==
    \/ u \in Executors
    \/ LET b == assembly[j].brigade IN OnPost(b) /\ (brigade[b].chief = u \/ member[b][u] = "on")

\* Mutant: whoever has the job.
Ours(j, b) == TRUE

\* Taken on by no brigade, or by this one.
Takeable(j, b) == assembly[j].brigade \in {NoBrigade, b}

\* The user leads exactly one brigade.
OpenAccept(c, u, j, b) ==
    /\ MayEnter(u) /\ {x \in Brigades : Leads(u, x)} = {b}
    /\ assembly[j].state # "completed" /\ Takeable(j, b)
    /\ Act(c, [op |-> "accept", u |-> u, j |-> j, b |-> b, seen |-> assembly[j]])

\* A job accepted before stays as it is, but for the user.
CommitAccept(c) ==
    LET a == acting[c] IN
    /\ a.op = "accept"
    /\ assembly' = [assembly EXCEPT
            ![a.j] = [state   |-> IF @.state = "waiting" THEN "accepted" ELSE @.state,
                      brigade |-> IF a.b = a.seen.brigade THEN @.brigade ELSE a.b,
                      by      |-> IF a.u = a.seen.by THEN @.by ELSE a.u]]
    /\ acting' = [acting EXCEPT ![c] = NoAct]
    /\ UNCHANGED <<brigade, member, posted, employed, operations>>

StartAssembly(u, j) ==
    /\ MayEnter(u) /\ MayExecute(u, j) /\ assembly[j].state = "accepted"
    /\ assembly' = [assembly EXCEPT ![j].state = "started"]
    /\ UNCHANGED <<brigade, member, posted, employed, operations, acting>>

OpenEntry(c, u, j) ==
    /\ MayEnter(u) /\ MayExecute(u, j) /\ assembly[j].state = "started"
    /\ Act(c, [op |-> "entry", u |-> u, j |-> j])

\* What is assembled is recorded by an operation, without participants.
CommitEntry(c) ==
    LET a == acting[c] IN
    /\ a.op = "entry" /\ Len(operations[a.j]) < MaxOperations
    /\ operations' = [operations EXCEPT ![a.j] = Append(@, {})]
    /\ acting' = [acting EXCEPT ![c] = NoAct]
    /\ UNCHANGED <<brigade, member, posted, employed, assembly>>

\* All is assembled, which some operation has recorded; the user took the job on, and names
\* workers of the brigade.
OpenComplete(c, u, j, workers) ==
    LET b == assembly[j].brigade IN
    /\ MayEnter(u) /\ MayExecute(u, j)
    /\ assembly[j].state = "started" /\ operations[j] # <<>>
    /\ assembly[j].by = u /\ OnPost(b)
    /\ workers # {} /\ \A w \in workers : Works(w, b)
    /\ Act(c, [op |-> "complete", u |-> u, j |-> j, workers |-> workers, seen |-> operations[j]])

Crew(a) == {<<a.u, "brigadier">>} \cup (a.workers \X {"worker"})

\* Participants are added to the operations that were read; operation, user and role are unique.
CommitComplete(c) ==
    LET a == acting[c]
        now == operations[a.j]
    IN
    /\ a.op = "complete"
    /\ \A n \in DOMAIN a.seen : (Crew(a) \ a.seen[n]) \cap now[n] = {}
    /\ operations' = [operations EXCEPT ![a.j] =
            [n \in DOMAIN now |-> IF n \in DOMAIN a.seen THEN now[n] \cup Crew(a) ELSE now[n]]]
    /\ assembly' = [assembly EXCEPT ![a.j].state = "completed"]
    /\ acting' = [acting EXCEPT ![c] = NoAct]
    /\ UNCHANGED <<brigade, member, posted, employed>>

\* A manager opens the stage again, which an operation records.
ReopenAssembly(j) ==
    /\ assembly[j].state = "completed" /\ Len(operations[j]) < MaxOperations
    /\ assembly' = [assembly EXCEPT ![j].state = "started"]
    /\ operations' = [operations EXCEPT ![j] = Append(@, {})]
    /\ UNCHANGED <<brigade, member, posted, employed, acting>>

\* A row to be inserted is there by now.
Drop(c) ==
    /\ acting[c] # NoAct
    /\ acting' = [acting EXCEPT ![c] = NoAct]
    /\ UNCHANGED <<brigade, member, posted, employed, assembly, operations>>

Administration ==
    \/ \E u \in People : Engage(u)
    \/ \E b \in Brigades :
         \/ SetBrigadeStatus(b)
         \/ \E chief \in People, on \in SUBSET People, wanted \in BOOLEAN :
              CreateBrigade(b, chief, on, wanted) \/ \E c \in Hands : OpenEdit(c, b, chief, on, wanted)

AtTerminal ==
    \E u \in People, j \in Assemblies :
        \/ StartAssembly(u, j)
        \/ \E c \in Hands :
             \/ OpenEntry(c, u, j)
             \/ \E b \in Brigades : OpenAccept(c, u, j, b)
             \/ \E workers \in SUBSET People : OpenComplete(c, u, j, workers)

BrigadesNext ==
    \/ Administration \/ AtTerminal \/ \E j \in Assemblies : ReopenAssembly(j)
    \/ \E c \in Hands : CommitEdit(c) \/ CommitAccept(c) \/ CommitEntry(c) \/ CommitComplete(c) \/ Drop(c)

BrigadesSpec == BrigadesInit /\ [][BrigadesNext]_brigadeVars

-----------------------------------------------------------------------------
(* Properties.                                                             *)

\* What a request has read, or found allowed, is not so any more.
Superseded(c) ==
    LET a == acting[c] IN
    CASE a.op = "edit" -> a.seen # [chief |-> brigade[a.b].chief, member |-> member[a.b], posted |-> posted[a.b]]
      [] a.op = "accept" -> a.seen # assembly[a.j] \/ ~Leads(a.u, a.b)
      [] a.op = "entry" -> assembly[a.j].state # "started"
      [] a.op = "complete" ->
            \/ a.seen # operations[a.j] \/ assembly[a.j].state # "started" \/ assembly[a.j].by # a.u
            \/ ~OnPost(assembly[a.j].brigade) \/ \E w \in a.workers : ~Works(w, assembly[a.j].brigade)
      [] OTHER -> FALSE

Participants(j, n) == IF n \in DOMAIN operations[j] THEN operations[j][n] ELSE {}

Uncredited(j) == assembly[j].state = "completed" /\ \E n \in DOMAIN operations[j] : operations[j][n] = {}

\* Only a request that was overtaken by another one hands a job from brigade to brigade or to
\* somebody who does not lead the brigade, credits anybody but the user who took the job on and
\* active workers of its brigade, leaves an operation of a completed assembly without
\* participants, or leaves a brigade that is not as it was sent.
OnlyOverlapsMiscredit ==
    [][\/ \E c \in Hands : acting[c] # NoAct /\ acting'[c] = NoAct /\ Superseded(c)
       \/ /\ \A j \in Assemblies : LET b == assembly'[j].brigade IN
               /\ assembly[j].brigade \in {NoBrigade, b}
               /\ assembly'[j].by # assembly[j].by => Leads(assembly'[j].by, b)
          /\ \A j \in Assemblies, u \in People, n \in 1 .. MaxOperations :
               /\ <<u, "brigadier">> \in Participants(j, n)' \ Participants(j, n) => u = assembly[j].by
               /\ <<u, "worker">> \in Participants(j, n)' \ Participants(j, n) =>
                    OnPost(assembly[j].brigade) /\ Works(u, assembly[j].brigade)
          /\ \A j \in Assemblies : Uncredited(j)' => Uncredited(j)
          /\ \A c \in Hands, b \in Brigades : CommitEdit(c) /\ acting[c].b = b =>
               /\ brigade'[b].chief = acting[c].chief
               /\ \A u \in People : member'[b][u] = "on" <=> u \in acting[c].on
               /\ posted'[b] = "on" <=> acting[c].wanted]_brigadeVars
===============================================================================
