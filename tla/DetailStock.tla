----------------------------- MODULE DetailStock ------------------------------
(***************************************************************************)
(* The warehouse of reusable details (services/warehouse_stock.py), seen   *)
(* for one detail: rows of pieces, reserved for production jobs when they  *)
(* are released, allocated to projects when those are                      *)
(* (production_projects.py), issued to the jobs of a project when welding  *)
(* starts (project_execution.py), given back on cancellation, and changed  *)
(* by hand at any time (warehouse_router.py).                              *)
(*                                                                         *)
(* A release lists the rows it may take from before it takes from them.    *)
(* PostgreSQL locks the rows it lists, SQLite does not; the step between   *)
(* is here.  Everything else a request does is one step: an adjustment, or *)
(* a row given up, is so only where the row is locked when it is read, on  *)
(* PostgreSQL.  Whether a row is READY, RESERVED or USED follows from its  *)
(* two quantities.                                                         *)
(***************************************************************************)
EXTENDS Amounts, Sequences

CONSTANTS
    Jobs,        \* production jobs
    Projects,    \* production projects
    JobsOf,      \* per project: its jobs, in the order of its lines
    Need,        \* per job: pieces its BOM line asks for
    InitialRows, \* quantities in stock at the start, oldest row first
    MaxRows,     \* bound: rows
    MaxPieces,   \* bound: pieces of a manual change, and pieces cut for a job
    MaxManual    \* bound: manual changes

\* A job is on one line of one project at most.
ASSUME DetailStockAssumption ==
    /\ IsFiniteSet(Jobs) /\ IsFiniteSet(Projects)
    /\ Need \in [Jobs -> Nat \ {0}]
    /\ JobsOf \in [Projects -> Seq(Jobs)]
    /\ \A p, o \in Projects : \A k \in DOMAIN JobsOf[p], m \in DOMAIN JobsOf[o] :
         JobsOf[p][k] = JobsOf[o][m] => p = o /\ k = m
    /\ InitialRows \in Seq(Nat \ {0})
    /\ MaxRows \in Nat /\ MaxPieces \in Nat /\ MaxManual \in Nat

VARIABLES
    rows,    \* WarehouseStock in order of creation: quantity and reserved_quantity
    jobs,    \* status of each job, with the quantities of its line: surplus
             \* (surplus_stocked_quantity), covered (stock_reserved_quantity), and issued (the
             \* stock_issued operation of a project)
    claims,  \* per job: RESERVE transactions in its name, oldest first
    project, \* ProductionProject.status
    alloc,   \* per project: ProjectStockAllocation in order of row
    listed,  \* per job or project being released: pieces free in each row when it listed them
    manual   \* manual changes so far

stockVars == <<rows, jobs, claims, project, alloc, listed, manual>>

OfProject == {j \in Jobs : \E p \in Projects : \E k \in DOMAIN JobsOf[p] : JobsOf[p][k] = j}
Standalone == Jobs \ OfProject
ProjectOf(j) == CHOOSE p \in Projects : \E k \in DOMAIN JobsOf[p] : JobsOf[p][k] = j

Lines(p) == DOMAIN JobsOf[p]

StockInit ==
    /\ rows = [i \in DOMAIN InitialRows |-> [quantity |-> InitialRows[i], reserved |-> 0]]
    /\ jobs = [j \in Jobs |-> [status |-> "draft", surplus |-> 0, covered |-> 0, issued |-> 0]]
    /\ claims = [j \in Jobs |-> <<>>]
    /\ project = [p \in Projects |-> "planned"]
    /\ alloc = [p \in Projects |-> <<>>]
    /\ listed = [x \in Standalone \cup Projects |-> <<>>]
    /\ manual = 0

Smaller(a, b) == IF a <= b THEN a ELSE b
Larger(a, b) == IF a >= b THEN a ELSE b
Total(f) == Amount(f, DOMAIN f)

Free(i) == rows[i].quantity - rows[i].reserved

-----------------------------------------------------------------------------
(* change_stock: a conditional UPDATE per operation.                       *)

CanTake(i, q) == Free(i) >= q
CanRelease(i, q) == rows[i].reserved >= q

\* An adjustment sets the quantity and cuts the reservation down to it.
Adjusted(row, q) == [quantity |-> q, reserved |-> Smaller(row.reserved, q)]

-----------------------------------------------------------------------------
(* Pieces cut beyond what the job needs become a row of their own, once.   *)
(* The laser may have entered any number of pieces cut.                    *)

AddSurplus(j, cut, q) ==
    /\ jobs[j].status # "draft"
    /\ q <= cut - Need[j] - jobs[j].surplus
    /\ Len(rows) < MaxRows
    /\ rows' = Append(rows, [quantity |-> q, reserved |-> 0])
    /\ jobs' = [jobs EXCEPT ![j].surplus = @ + q]
    /\ UNCHANGED <<claims, project, alloc, listed, manual>>

-----------------------------------------------------------------------------
(* Reservation at the release.                                             *)

ListRows(x) ==
    /\ IF x \in Projects THEN project[x] = "planned" ELSE jobs[x].status = "draft"
    /\ listed[x] = <<>>
    /\ listed' = [listed EXCEPT ![x] = [i \in DOMAIN rows |-> Free(i)]]
    /\ UNCHANGED <<rows, jobs, claims, project, alloc, manual>>

\* What is still needed after the first i listed rows: each gives what it had free when listed,
\* unless somebody else took it since.
Left(x, need) ==
    LET left[i \in 0 .. Len(listed[x])] ==
            IF i = 0 THEN need
            ELSE LET take == Smaller(left[i - 1], listed[x][i])
                 IN IF take > 0 /\ CanTake(i, take) THEN left[i - 1] - take ELSE left[i - 1]
    IN left

Taken(x, need) == [i \in DOMAIN listed[x] |-> Left(x, need)[i - 1] - Left(x, need)[i]]

Reserve(taken) ==
    rows' = [i \in DOMAIN rows |->
                [rows[i] EXCEPT !.reserved = @ + (IF i \in DOMAIN taken THEN taken[i] ELSE 0)]]

\* The rows that pieces are taken from, oldest first.
RowsTaken(taken) ==
    LET some == {i \in DOMAIN taken : taken[i] > 0}
    IN {of \in [1 .. Cardinality(some) -> some] : \A k, m \in DOMAIN of : k < m => of[k] < of[m]}

\* reserve_for_job goes on with the next row when one is no longer free.
ReleaseJob(j) ==
    LET taken == Taken(j, Need[j])
    IN /\ jobs[j].status = "draft" /\ listed[j] # <<>>
       /\ Reserve(taken)
       /\ \E of \in RowsTaken(taken) :
            claims' = [claims EXCEPT ![j] = @ \o [k \in DOMAIN of |-> [row |-> of[k], quantity |-> taken[of[k]]]]]
       /\ jobs' = [jobs EXCEPT ![j].status = "released", ![j].covered = Need[j] - Left(j, Need[j])[Len(listed[j])]]
       /\ listed' = [listed EXCEPT ![j] = <<>>]
       /\ UNCHANGED <<project, alloc, manual>>

Needs(p) == [k \in Lines(p) |-> Need[JobsOf[p][k]]]
Gross(p) == Total(Needs(p))

\* What the k-th of several quantities gets of q pieces, when those before it come first.
Share(f, k, q) == Smaller(f[k], Larger(0, q - Amount(f, 1 .. k - 1)))

\* Mutant: every line counts on all of it.
CoverEach(p, k, total) == Smaller(Needs(p)[k], total)

\* What is taken covers the lines of the project in their order.
Cover(p, k, total) == Share(Needs(p), k, total)

\* release_project fails on the first row that is no longer free.
ReleaseProject(p) ==
    LET taken == Taken(p, Gross(p))
        left == Left(p, Gross(p))
        total == Gross(p) - left[Len(listed[p])]
    IN /\ project[p] = "planned" /\ listed[p] # <<>>
       /\ \A i \in DOMAIN taken : taken[i] = Smaller(left[i - 1], listed[p][i])
       /\ Reserve(taken)
       /\ \E of \in RowsTaken(taken) :
            alloc' = [alloc EXCEPT ![p] = [k \in DOMAIN of |->
                        [row |-> of[k], reserved |-> taken[of[k]], consumed |-> 0, released |-> 0]]]
       /\ jobs' = [j \in Jobs |->
                    IF \E k \in Lines(p) : JobsOf[p][k] = j
                    THEN [jobs[j] EXCEPT !.status = "released",
                            !.covered = Cover(p, CHOOSE k \in Lines(p) : JobsOf[p][k] = j, total)]
                    ELSE jobs[j]]
       /\ project' = [project EXCEPT ![p] = "released"]
       /\ listed' = [listed EXCEPT ![p] = <<>>]
       /\ UNCHANGED <<claims, manual>>

\* The failed release is rolled back, and may be tried again.
ReleaseFails(p) ==
    LET left == Left(p, Gross(p))
    IN /\ project[p] = "planned" /\ listed[p] # <<>>
       /\ \E i \in DOMAIN listed[p] : left[i - 1] - left[i] # Smaller(left[i - 1], listed[p][i])
       /\ listed' = [listed EXCEPT ![p] = <<>>]
       /\ UNCHANGED <<rows, jobs, claims, project, alloc, manual>>

-----------------------------------------------------------------------------
(* Welding starts: the pieces the project holds for the job are issued,    *)
(* from its allocations in the order of their rows.                        *)

Outstanding(a) == a.reserved - a.consumed - a.released

Held(p) == [k \in DOMAIN alloc[p] |-> Outstanding(alloc[p][k])]
OnRow(p, i) == {k \in DOMAIN alloc[p] : alloc[p][k].row = i}

StartWelding(j) ==
    LET p == ProjectOf(j)
        q == jobs[j].covered
        take == [k \in DOMAIN alloc[p] |-> Share(Held(p), k, q)]
        from(i) == Amount(take, OnRow(p, i))
    IN /\ j \in OfProject
       /\ jobs[j].status = "released"
       /\ q > 0 => project[p] # "cancelled" /\ Total(Held(p)) >= q
       /\ \A i \in DOMAIN rows : from(i) <= rows[i].quantity /\ from(i) <= rows[i].reserved
       /\ rows' = [i \in DOMAIN rows |->
                    [quantity |-> rows[i].quantity - from(i), reserved |-> rows[i].reserved - from(i)]]
       /\ alloc' = [alloc EXCEPT ![p] = [k \in DOMAIN alloc[p] |-> [alloc[p][k] EXCEPT !.consumed = @ + take[k]]]]
       /\ jobs' = [jobs EXCEPT ![j].status = "in_progress", ![j].issued = q]
       /\ UNCHANGED <<claims, project, listed, manual>>

\* A job of no project starts and takes nothing from the stock: its reservation stays for good.
StartStandalone(j) ==
    /\ j \in Standalone /\ jobs[j].status = "released"
    /\ jobs' = [jobs EXCEPT ![j].status = "in_progress"]
    /\ UNCHANGED <<rows, claims, project, alloc, listed, manual>>

CompleteJob(j) ==
    /\ jobs[j].status = "in_progress"
    /\ jobs' = [jobs EXCEPT ![j].status = "completed"]
    /\ UNCHANGED <<rows, claims, project, alloc, listed, manual>>

-----------------------------------------------------------------------------
(* Cancellation.                                                           *)

\* release_job_reservations goes through the job's transactions and takes from each row as much
\* as is still to be given back, though no more than the row has reserved for anybody.
GivenBack(j) ==
    LET step[k \in 0 .. Len(claims[j])] ==
            IF k = 0 THEN [rows |-> rows, left |-> jobs[j].covered]
            ELSE LET i == claims[j][k].row
                     take == Smaller(step[k - 1].left, step[k - 1].rows[i].reserved)
                 IN [rows |-> [step[k - 1].rows EXCEPT ![i].reserved = @ - take],
                     left |-> step[k - 1].left - take]
    IN step[Len(claims[j])].rows

\* The manager's cancellation, of a job of a project too: what the project holds for it stays held.
CancelJob(j) ==
    /\ jobs[j].status \in {"draft", "released", "in_progress"}
    /\ j \in OfProject => jobs[j].status # "draft"
    /\ rows' = GivenBack(j)
    /\ jobs' = [jobs EXCEPT ![j].status = "cancelled", ![j].covered = 0]
    /\ UNCHANGED <<claims, project, alloc, listed, manual>>

\* Mutant: what was issued is given back too.
GivesBackAll(a) == a.reserved - a.released

GivesBack(a) == Outstanding(a)

\* All or nothing: an allocation larger than what its row has reserved stops the cancellation.
CancelProject(p) ==
    LET gives == [k \in DOMAIN alloc[p] |-> GivesBack(alloc[p][k])]
        back(i) == Amount(gives, OnRow(p, i))
    IN /\ project[p] \in {"planned", "released", "in_production"}
       /\ \A i \in DOMAIN rows : CanRelease(i, back(i))
       /\ rows' = [i \in DOMAIN rows |-> [rows[i] EXCEPT !.reserved = @ - back(i)]]
       /\ alloc' = [alloc EXCEPT ![p] = [k \in DOMAIN alloc[p] |->
                        [alloc[p][k] EXCEPT !.released = @ + gives[k]]]]
       /\ jobs' = [j \in Jobs |->
                    IF (\E k \in Lines(p) : JobsOf[p][k] = j)
                       /\ jobs[j].status \notin {"draft", "completed", "cancelled"}
                    THEN [jobs[j] EXCEPT !.status = "cancelled"] ELSE jobs[j]]
       /\ project' = [project EXCEPT ![p] = "cancelled"]
       /\ UNCHANGED <<claims, listed, manual>>

\* synchronize_project: from what was produced, and then packed, of a released project.
Synchronize(p) ==
    /\ project[p] \in {"released", "in_production", "ready_to_ship"}
    /\ \E s \in {"released", "in_production", "ready_to_ship"} \ {project[p]} :
         project' = [project EXCEPT ![p] = s]
    /\ UNCHANGED <<rows, jobs, claims, alloc, listed, manual>>

-----------------------------------------------------------------------------
(* By hand.                                                                *)

Manual == manual < MaxManual /\ manual' = manual + 1 /\ UNCHANGED <<project, alloc, listed, jobs>>

StockOut(i, q) ==
    /\ Manual /\ CanTake(i, q)
    /\ rows' = [rows EXCEPT ![i].quantity = @ - q]
    /\ UNCHANGED claims

\* In the name of a job, or of none.
StockReserve(i, q) ==
    /\ Manual /\ CanTake(i, q)
    /\ rows' = [rows EXCEPT ![i].reserved = @ + q]
    /\ \/ UNCHANGED claims
       \/ \E j \in Jobs : claims' = [claims EXCEPT ![j] = Append(@, [row |-> i, quantity |-> q])]

StockRelease(i, q) ==
    /\ Manual /\ CanRelease(i, q)
    /\ rows' = [rows EXCEPT ![i].reserved = @ - q]
    /\ UNCHANGED claims

StockAdjustment(i, q) ==
    /\ Manual
    /\ rows' = [rows EXCEPT ![i] = Adjusted(@, q)]
    /\ UNCHANGED claims

ByHand ==
    \E i \in DOMAIN rows, q \in 1 .. MaxPieces :
        StockOut(i, q) \/ StockReserve(i, q) \/ StockRelease(i, q) \/ StockAdjustment(i, q)

-----------------------------------------------------------------------------
StockNext ==
    \/ \E j \in Jobs :
         \/ StartWelding(j) \/ StartStandalone(j) \/ CompleteJob(j) \/ CancelJob(j)
         \/ \E cut, q \in 1 .. MaxPieces : AddSurplus(j, cut, q)
    \/ \E x \in Standalone \cup Projects : ListRows(x)
    \/ \E j \in Standalone : ReleaseJob(j)
    \/ \E p \in Projects : ReleaseProject(p) \/ ReleaseFails(p) \/ CancelProject(p) \/ Synchronize(p)
    \/ ByHand

StockSpec == StockInit /\ [][StockNext]_stockVars

-----------------------------------------------------------------------------
(* Properties.                                                             *)

\* No row goes below zero or has more reserved than it has, and no allocation is overdrawn, however
\* releases, issues and manual changes of stale lists interleave (change_stock, "makes a stale
\* concurrent reader fail safely instead of taking stock below zero").
NeverOverdrawn ==
    /\ \A i \in DOMAIN rows : rows[i].quantity \in Nat /\ rows[i].reserved \in 0 .. rows[i].quantity
    /\ \A p \in Projects : \A k \in DOMAIN alloc[p] :
         alloc[p][k].row \in DOMAIN rows /\ Outstanding(alloc[p][k]) >= 0
    /\ \A j \in Jobs : jobs[j].covered \in 0 .. Need[j] /\ jobs[j].issued \in 0 .. Need[j]

\* What a row owes: to projects, and to the other jobs.
OwedByProject(p, i) == Amount([k \in DOMAIN alloc[p] |-> Larger(0, Outstanding(alloc[p][k]))], OnRow(p, i))
OwedToProjects(i) == Total([p \in Projects |-> OwedByProject(p, i)])
ClaimsOn(j, i) == {k \in DOMAIN claims[j] : claims[j][k].row = i}
ClaimedBy(j, i) == Amount([k \in DOMAIN claims[j] |-> claims[j][k].quantity], ClaimsOn(j, i))
OwedToJobs(i) ==
    Amount([j \in Jobs |-> ClaimedBy(j, i)], {j \in Standalone : jobs[j].status # "cancelled"})
Shortage(i) == Larger(0, OwedToProjects(i) + OwedToJobs(i) - rows[i].reserved)

\* Pieces that a row has reserved for somebody are not given away behind his back: only a manual
\* release or adjustment, and the cancellation of a job (which may release the row of its first
\* transaction for all of them), leave a row with less reserved than it owes; releases, issues,
\* cancelled projects and other jobs never do.
OnlyOverridesShorten ==
    [][\A i \in DOMAIN rows : Shortage(i)' > Shortage(i) =>
          \/ \E q \in 1 .. MaxPieces : StockRelease(i, q) \/ StockAdjustment(i, q)
          \/ \E j \in Jobs : CancelJob(j)]_stockVars

\* Per line: the pieces its job still counts on, and those it was issued.
Counted(p) == [k \in Lines(p) |-> IF jobs[JobsOf[p][k]].status = "released" THEN jobs[JobsOf[p][k]].covered ELSE 0]
Issued(p) == [k \in Lines(p) |-> jobs[JobsOf[p][k]].issued]
Consumed(p) == [k \in DOMAIN alloc[p] |-> alloc[p][k].consumed]

\* The jobs of a project that is not cancelled count on no more pieces of stock than the project
\* holds for them or has issued to them, so that welding finds what the release promised; and what
\* was issued is what left the allocations.
PromiseIsHeld ==
    \A p \in Projects :
        /\ Total(Consumed(p)) = Total(Issued(p))
        /\ project[p] # "cancelled" => Total(Counted(p)) <= Total(Held(p))

\* No overlap of releases, issues and changes by hand overdraws a row or breaks a promise.
StockHolds == NeverOverdrawn /\ PromiseIsHeld
===============================================================================
