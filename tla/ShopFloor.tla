------------------------------ MODULE ShopFloor ------------------------------
(***************************************************************************)
(* One production job on the shop floor: the seven terminals that move it  *)
(* along its route (services/mes_lazer_, mes_svarshik_, mes_kraska_,       *)
(* mes_yigish_, mes_qc_, mes_packaging_, mes_warehouse_terminal.py), the   *)
(* append-only evidence a project job keeps beside its quantity columns    *)
(* (project_execution.py), the backward corrections (stage_corrections.py) *)
(* and the manager's status changes (mes_jobs.py).                         *)
(*                                                                         *)
(* A request loads the job, runs one service function and commits; one     *)
(* that raises commits nothing.  So an action is a request that succeeds.  *)
(* It names one detail and, but for painting, one field: a request with    *)
(* more is as many steps, in the order that closes the step last.          *)
(* Quantities are whole pieces, of a detail that each product needs once;  *)
(* a percentage rounded to two decimals is exact below 20,000 pieces.      *)
(***************************************************************************)
EXTENDS Amounts, Sequences, FiniteSetsExt

CONSTANTS
    Lines,        \* BOM details of the job
    Quantity,     \* products to make, and pieces to make of each detail
    Stock,        \* per detail: pieces reserved from the detail warehouse at the release
    RouteStages,  \* stations the route of the job requires
    MaxCut,       \* bound: pieces of a detail entered at the laser
    MaxReworks,   \* bound: rework records
    MaxPackages,  \* bound: packages the operator asks for
    MaxReturned   \* bound: pieces returned and stages reopened

Stages == {"lazer", "svarka", "kraska", "yigish", "qc", "packaging", "warehouse"}

ASSUME ShopFloorAssumption ==
    /\ IsFiniteSet(Lines) /\ Quantity \in Nat \ {0}
    /\ Stock \in [Lines -> 0 .. Quantity]
    /\ RouteStages \subseteq Stages
    /\ RouteStages \cap {"svarka", "kraska"} # {}
    /\ MaxCut \in Nat /\ MaxReworks \in Nat /\ MaxPackages \in Nat /\ MaxReturned \in Nat

VARIABLES
    project,   \* TRUE iff the job belongs to a production project
    status,    \* MesProductionJob.status
    step,      \* per stage: pending, accepted, started, drying or completed
    stock,     \* per detail: stock_reserved_quantity
    line,      \* per detail: the quantity columns of MesJobBomLine
    assembled, \* completed quantity of the assembly lines
    led,       \* per detail: ProjectProductionOperation summed by operation_type
    jobLed,    \* the same for the operations of the job as a whole
    reworks,   \* MesJobRework rows in order of creation
    reworked,  \* per detail: quantity of the completed rows, summed
    pkgCount,  \* MesProductionJob.package_count
    pkgs       \* MesJobPackage rows; position i has number PACK-<job>-i

quantities == <<stock, line, assembled, led, jobLed>>
packing == <<pkgCount, pkgs>>
repairs == <<reworks, reworked>>
floor == <<project, status, step, quantities, repairs, packing>>

Columns == {"completed", "accepted", "rejected", "painted", "paint_accepted", "paint_rejected",
            "qc_accepted", "qc_rejected", "qc_rework"}
Operations == {"lazer_completed", "svarka_completed", "svarka_accepted", "svarka_rejected",
               "painting_completed", "painting_accepted", "painting_rejected",
               "qc_approved", "qc_rejected", "rework_created", "rework_completed",
               "qc_return", "qc_return_accepted", "painting_return", "svarka_return", "packaging_return"}
StepStates == {"pending", "accepted", "started", "drying", "completed"}
JobStatuses == {"draft", "released", "in_progress", "on_hold", "completed", "cancelled"}

Init ==
    /\ project \in BOOLEAN
    /\ status = "draft"
    /\ step = [g \in Stages |-> "pending"]
    /\ stock = [l \in Lines |-> 0]
    /\ line = [l \in Lines |-> [c \in Columns |-> 0]]
    /\ assembled = 0
    /\ led = [l \in Lines |-> [o \in Operations |-> 0]]
    /\ jobLed = [yigish_completed |-> 0, packaged |-> 0, stage_reopened |-> 0]
    /\ reworks = <<>> /\ reworked = [l \in Lines |-> 0] /\ pkgCount = 0 /\ pkgs = <<>>

Least(a, b) == IF a <= b THEN a ELSE b
Most(a, b) == IF a >= b THEN a ELSE b

Total(f) == Amount(f, Lines)
Fewest(f) == Min({f[l] : l \in Lines})

-----------------------------------------------------------------------------
(* The route.                                                              *)

Rank(g) == CASE g = "lazer" -> 1 [] g = "svarka" -> 2 [] g = "kraska" -> 3 [] g = "yigish" -> 4
             [] g = "qc" -> 5 [] g = "packaging" -> 6 [] g = "warehouse" -> 7

\* The job waits at g: it is active, and g is its first required step not completed.
WaitsAt(g) ==
    /\ status \in {"released", "in_progress"}
    /\ g \in RouteStages /\ step[g] # "completed"
    /\ \A h \in RouteStages : Rank(h) < Rank(g) => step[h] = "completed"

Working(g) == WaitsAt(g) /\ step[g] \in {"started", "drying"}

Accept(g) ==
    /\ WaitsAt(g) /\ step[g] = "pending"
    /\ step' = [step EXCEPT ![g] = "accepted"]
    /\ UNCHANGED <<project, status, quantities, repairs, pkgCount>>

Start(g) ==
    /\ WaitsAt(g) /\ step[g] = "accepted"
    /\ step' = [step EXCEPT ![g] = "started"]
    /\ status' = "in_progress"
    /\ UNCHANGED <<project, quantities, repairs, packing>>

\* The step is done; the job too when nothing else is required.
Finish(g) ==
    /\ step' = [step EXCEPT ![g] = "completed"]
    /\ status' = IF \A h \in RouteStages \ {g} : step[h] = "completed" THEN "completed" ELSE status

\* All the pieces of all details together: those of one detail can stand in for another.
Full(done) == Total(done) >= Quantity * Cardinality(Lines)

Progress(g, cols) ==
    CASE g = "lazer"  -> [l \in Lines |-> cols[l]["completed"]]
      [] g = "svarka" -> [l \in Lines |-> cols[l]["accepted"]]
      [] g = "kraska" -> [l \in Lines |-> cols[l]["painted"]]
      [] g = "qc"     -> [l \in Lines |-> IF project
            THEN cols[l]["qc_accepted"] + cols[l]["qc_rejected"] + cols[l]["qc_rework"]
            ELSE cols[l]["accepted"] + cols[l]["rejected"] + cols[l]["qc_rework"]]

\* The columns take their new values, and a station that is through with all pieces closes its step.
Enter(g, cols, closes) ==
    /\ line' = cols
    /\ IF Full(Progress(g, cols)) /\ closes THEN Finish(g) ELSE UNCHANGED <<step, status>>

-----------------------------------------------------------------------------
(* The evidence of a project job.                                          *)

LazerReady(l) == led[l]["lazer_completed"] + stock[l]

\* Completed quantity of the stage before quality control (the larger of column and evidence).
QcPredecessor(l) ==
    Least(Quantity,
          IF "kraska" \in RouteStages
          THEN IF project THEN Most(line[l]["paint_accepted"], led[l]["painting_accepted"]) ELSE line[l]["accepted"]
          ELSE IF project THEN Most(line[l]["accepted"], led[l]["svarka_accepted"]) ELSE line[l]["accepted"])

Open == {"pending", "in_progress"}

Disposed(l, op, q) ==
    LET value(o) == IF o = op THEN q ELSE led[l][o]
        back == Most(reworked[l], led[l]["rework_completed"])
    IN value("qc_approved") + value("qc_rejected") + Most(0, value("rework_created") - back)

\* What an operation of a detail may add up to.
Ceiling(l, op) ==
    CASE op = "lazer_completed" -> Quantity - stock[l]
      [] op \in {"svarka_completed", "svarka_accepted", "svarka_rejected"} -> Least(Quantity, LazerReady(l))
      [] op \in {"painting_completed", "painting_accepted", "painting_rejected"} ->
            Least(Quantity, IF "svarka" \in RouteStages THEN led[l]["svarka_accepted"] ELSE LazerReady(l))
      [] OTHER -> Quantity

\* Mutants: a smaller sum is recorded; no check of what quality control disposes of.
RecordableShrinking(l, op, q) ==
    project /\ q > led[l][op] =>
        /\ q <= Ceiling(l, op)
        /\ op \in {"qc_approved", "qc_rejected", "rework_created"} => Disposed(l, op, q) <= QcPredecessor(l)
RecordableUndisposed(l, op, q) ==
    project => q >= led[l][op] /\ (q > led[l][op] => q <= Ceiling(l, op))

\* record_absolute_operation accepts q as the new sum: sums never shrink, a repeated one is no
\* operation, and a larger one keeps to the ceiling.
Recordable(l, op, q) ==
    project =>
        /\ q >= led[l][op]
        /\ q > led[l][op] =>
            /\ q <= Ceiling(l, op)
            /\ op \in {"qc_approved", "qc_rejected", "rework_created"} => Disposed(l, op, q) <= QcPredecessor(l)

Recorded(l, op, q) == IF project THEN [led EXCEPT ![l][op] = q] ELSE led

\* A column that changes is recorded, one that keeps its value is not.
EnterColumn(g, l, column, op, q, closes) ==
    /\ q # line[l][column] => Recordable(l, op, q)
    /\ led' = IF q # line[l][column] THEN Recorded(l, op, q) ELSE led
    /\ Enter(g, [line EXCEPT ![l][column] = q], closes)

-----------------------------------------------------------------------------
(* Laser: any quantity is accepted; a project records no more than it has  *)
(* to produce.                                                             *)

LazerAccept == Accept("lazer") /\ UNCHANGED pkgs
LazerStart == Start("lazer")
LazerComplete ==
    /\ Working("lazer") /\ Full(Progress("lazer", line)) /\ Finish("lazer")
    /\ UNCHANGED <<project, quantities, repairs, packing>>

LazerQuantity(l, q) ==
    LET output == Least(q, Quantity - stock[l])
        changed == q # line[l]["completed"]
    IN /\ Working("lazer")
       /\ changed => Recordable(l, "lazer_completed", output)
       /\ led' = IF changed THEN Recorded(l, "lazer_completed", output) ELSE led
       /\ Enter("lazer", [line EXCEPT ![l]["completed"] = q], TRUE)
       /\ UNCHANGED <<project, stock, assembled, jobLed, repairs, packing>>

LazerTerminal == LazerAccept \/ LazerStart \/ LazerComplete \/ \E l \in Lines, q \in 0 .. MaxCut : LazerQuantity(l, q)

-----------------------------------------------------------------------------
(* Welding shares the column of completed pieces with the laser; what it   *)
(* starts on it takes from the reserved stock, as DetailStock says.        *)

SvarkaAccept == Accept("svarka") /\ UNCHANGED pkgs
SvarkaStart == Start("svarka")
SvarkaComplete ==
    /\ Working("svarka") /\ Full(Progress("svarka", line)) /\ Finish("svarka")
    /\ UNCHANGED <<project, quantities, repairs, packing>>

SvarkaQuantity(l, column, q) ==
    /\ Working("svarka")
    /\ EnterColumn("svarka", l, column,
                   CASE column = "completed" -> "svarka_completed" [] column = "accepted" -> "svarka_accepted"
                     [] column = "rejected" -> "svarka_rejected", q, TRUE)
    /\ line'[l]["accepted"] + line'[l]["rejected"] <= line'[l]["completed"]
    /\ UNCHANGED <<project, stock, assembled, jobLed, repairs, packing>>

SvarkaTerminal ==
    \/ SvarkaAccept \/ SvarkaStart \/ SvarkaComplete
    \/ \E l \in Lines, c \in {"completed", "accepted", "rejected"}, q \in 0 .. Quantity : SvarkaQuantity(l, c, q)

-----------------------------------------------------------------------------
(* Painting: a project has columns of its own, any other job goes on with  *)
(* those of welding.  The last piece painted dries and closes the step, so *)
(* that send_to_drying never finds one to send.                            *)

PaintAccepted == IF project THEN "paint_accepted" ELSE "accepted"
PaintRejected == IF project THEN "paint_rejected" ELSE "rejected"
PaintOperations == {"painting_completed", "painting_accepted", "painting_rejected"}

KraskaAccept == Accept("kraska") /\ UNCHANGED pkgs
KraskaStart == Start("kraska")
KraskaComplete ==
    /\ Working("kraska") /\ step["kraska"] = "drying" /\ Full(Progress("kraska", line)) /\ Finish("kraska")
    /\ UNCHANGED <<project, quantities, repairs, packing>>

PaintColumn(op) ==
    CASE op = "painting_completed" -> "painted" [] op = "painting_accepted" -> PaintAccepted
      [] op = "painting_rejected" -> PaintRejected

\* The three fields of a detail are one request, since the last piece painted closes the step.
KraskaQuantities(l, entry) ==
    LET changed == {op \in PaintOperations : entry[op] # line[l][PaintColumn(op)]}
    IN /\ Working("kraska")
       /\ \A op \in changed : Recordable(l, op, entry[op])
       /\ led' = IF project
                 THEN [led EXCEPT ![l] = [o \in Operations |-> IF o \in changed THEN entry[o] ELSE @[o]]]
                 ELSE led
       /\ entry["painting_accepted"] + entry["painting_rejected"] <= entry["painting_completed"]
       /\ Enter("kraska", [line EXCEPT ![l]["painted"] = entry["painting_completed"],
                                       ![l][PaintAccepted] = entry["painting_accepted"],
                                       ![l][PaintRejected] = entry["painting_rejected"]], TRUE)
       /\ UNCHANGED <<project, stock, assembled, jobLed, repairs, packing>>

KraskaTerminal ==
    \/ KraskaAccept \/ KraskaStart \/ KraskaComplete
    \/ \E l \in Lines, entry \in [PaintOperations -> 0 .. Quantity] : KraskaQuantities(l, entry)

-----------------------------------------------------------------------------
(* Assembly has lines of its own (one here), and is completed by hand.     *)

YigishAccept == Accept("yigish") /\ UNCHANGED pkgs
YigishStart == Start("yigish")
YigishComplete ==
    /\ Working("yigish") /\ assembled = Quantity /\ Finish("yigish")
    /\ UNCHANGED <<project, quantities, repairs, packing>>

\* The share assembled is recorded as products; no output at all is not recorded.
YigishQuantity(q) ==
    /\ Working("yigish") /\ q # assembled
    /\ assembled' = q
    /\ project /\ q > 0 => q >= jobLed.yigish_completed
    /\ jobLed' = IF project /\ q > 0 THEN [jobLed EXCEPT !.yigish_completed = q] ELSE jobLed
    /\ UNCHANGED <<project, status, step, stock, line, led, repairs, packing>>

YigishTerminal == YigishAccept \/ YigishStart \/ YigishComplete \/ \E q \in 0 .. Quantity : YigishQuantity(q)

-----------------------------------------------------------------------------
(* Quality control disposes of what the stage before it completed, and     *)
(* sends pieces to rework by records of their own.                         *)

QcAccepted == IF project THEN "qc_accepted" ELSE "accepted"
QcRejected == IF project THEN "qc_rejected" ELSE "rejected"
OpenReworks == {i \in DOMAIN reworks : reworks[i].status \in Open}

QcAccept == Accept("qc") /\ UNCHANGED pkgs
QcStart == Start("qc")
QcComplete ==
    /\ Working("qc") /\ Full(Progress("qc", line)) /\ OpenReworks = {} /\ Finish("qc")
    /\ UNCHANGED <<project, quantities, repairs, packing>>

Proposed(l, column, q) ==
    LET value(c) == IF c = column THEN q ELSE line[l][c]
    IN value(QcAccepted) + value(QcRejected) + value("qc_rework")

\* The step closes by itself only when every piece in rework has its record, and none is open
\* (so that the records are the completed ones).
QcQuantity(l, column, q) ==
    /\ Working("qc")
    /\ Proposed(l, column, q) <= QcPredecessor(l)
    /\ EnterColumn("qc", l, column, IF column = QcAccepted THEN "qc_approved" ELSE "qc_rejected", q,
                   /\ OpenReworks = {}
                   /\ Total([k \in Lines |-> line[k]["qc_rework"]]) <= Total(reworked))
    /\ UNCHANGED <<project, stock, assembled, jobLed, repairs, packing>>

\* A column of rework never exceeds the records, so a completed step has nothing to recover.
CreateRework(l, q) ==
    /\ Working("qc") /\ Len(reworks) < MaxReworks
    /\ Proposed(l, "qc_rework", line[l]["qc_rework"] + q) <= Quantity
    /\ Recordable(l, "rework_created", line[l]["qc_rework"] + q)
    /\ led' = Recorded(l, "rework_created", line[l]["qc_rework"] + q)
    /\ line' = [line EXCEPT ![l]["qc_rework"] = @ + q]
    /\ reworks' = Append(reworks, [line |-> l, qty |-> q, status |-> "pending"])
    /\ UNCHANGED <<project, status, step, stock, assembled, jobLed, reworked, packing>>

StartRework(i) ==
    /\ reworks[i].status = "pending"
    /\ reworks' = [reworks EXCEPT ![i].status = "in_progress"]
    /\ UNCHANGED <<project, status, step, quantities, reworked, packing>>

\* Mutant: the pieces stay in rework.
CompleteReworkKeeping(i) ==
    LET l == reworks[i].line
    IN /\ reworks[i].status \in Open
       /\ Recordable(l, "rework_completed", reworked[l])
       /\ led' = Recorded(l, "rework_completed", reworked[l])
       /\ reworks' = [reworks EXCEPT ![i].status = "completed"]
       /\ reworked' = [reworked EXCEPT ![l] = @ + reworks[i].qty]
       /\ UNCHANGED <<project, status, step, stock, line, assembled, jobLed, packing>>

\* Whatever the job's status and step; a project takes the pieces back to quality control.  The sum
\* is queried before this record's status is flushed, so the evidence is that of those before it.
CompleteRework(i) ==
    LET l == reworks[i].line
    IN /\ reworks[i].status \in Open
       /\ Recordable(l, "rework_completed", reworked[l])
       /\ led' = Recorded(l, "rework_completed", reworked[l])
       /\ reworks' = [reworks EXCEPT ![i].status = "completed"]
       /\ reworked' = [reworked EXCEPT ![l] = @ + reworks[i].qty]
       /\ line' = IF project THEN [line EXCEPT ![l]["qc_rework"] = Most(0, @ - reworks[i].qty)] ELSE line
       /\ UNCHANGED <<project, status, step, stock, assembled, jobLed, packing>>

QcTerminal ==
    \/ QcAccept \/ QcStart \/ QcComplete
    \/ \E l \in Lines, c \in {QcAccepted, QcRejected}, q \in 0 .. Quantity : QcQuantity(l, c, q)
    \/ \E l \in Lines, q \in 1 .. Quantity : CreateRework(l, q)
    \/ \E i \in DOMAIN reworks : StartRework(i) \/ CompleteRework(i)

-----------------------------------------------------------------------------
(* What the evidence of a project job comes to in products.                *)

Produced == Least(Quantity, Fewest([l \in Lines |-> LazerReady(l)]))
ApprovedOf(l) == Most(0, led[l]["qc_approved"] - led[l]["qc_return_accepted"])
Approved == Least(Produced, Fewest([l \in Lines |-> ApprovedOf(l)]))
ReworkPending ==
    LET created == Fewest([l \in Lines |-> led[l]["rework_created"]])
        completed == Most(Fewest([l \in Lines |-> led[l]["rework_completed"]]),
                          Total(reworked))
    IN Most(0, Least(Quantity, created - completed))

Active == {i \in DOMAIN pkgs : pkgs[i].status # "cancelled"}
PackedQuantity(S) == Amount([i \in DOMAIN pkgs |-> pkgs[i].qty], S)
PackEligible == Most(0, Approved - ReworkPending)
Packaged == Least(Least(jobLed.packaged, PackedQuantity(Active)), PackEligible)
FinishedEligible == IF project THEN Most(0, Least(Approved - ReworkPending, Packaged)) ELSE Quantity

-----------------------------------------------------------------------------
(* Packaging.  The packages not cancelled come first.  A number is used    *)
(* once, so packages that were cancelled cannot be added again.            *)

PackagingAccept == Accept("packaging") /\ UNCHANGED pkgs
PackagingStart == Start("packaging")
PackagingComplete ==
    /\ Working("packaging") /\ 0 < pkgCount /\ pkgCount <= Cardinality(Active) /\ Finish("packaging")
    /\ pkgs' = [i \in DOMAIN pkgs |-> IF i \in Active THEN [pkgs[i] EXCEPT !.status = "packed"] ELSE pkgs[i]]
    /\ UNCHANGED <<project, quantities, repairs, pkgCount>>

\* sync_package_records: n packages of q pieces each.
Synced(n, q) ==
    [i \in 1 .. Most(n, Len(pkgs)) |->
        IF i > n THEN [pkgs[i] EXCEPT !.status = "cancelled"]
        ELSE IF i \in Active THEN [pkgs[i] EXCEPT !.qty = q]
        ELSE [qty |-> q, status |-> "pending"]]

\* n packages for a total of t; no packages at all only sets the count.
PackagingData(n, t) ==
    /\ Working("packaging")
    /\ pkgCount' = n
    /\ IF n = 0 THEN UNCHANGED <<pkgs, jobLed>>
       ELSE /\ t % n = 0
            /\ project => t <= PackEligible /\ t >= jobLed.packaged
            /\ n > Cardinality(Active) => Active = DOMAIN pkgs
            /\ pkgs' = Synced(n, t \div n)
            /\ jobLed' = IF project THEN [jobLed EXCEPT !.packaged = t] ELSE jobLed
    /\ UNCHANGED <<project, status, step, stock, line, assembled, led, repairs>>

PackagingTerminal ==
    \/ PackagingAccept \/ PackagingStart \/ PackagingComplete
    \/ \E n \in 0 .. MaxPackages, t \in 1 .. Quantity : PackagingData(n, t)

-----------------------------------------------------------------------------
(* The warehouse receives the packed packages and places them one by one.  *)

Receivable == {i \in DOMAIN pkgs : pkgs[i].status \in {"packed", "received", "placed"}}
PlacedPackages == {i \in DOMAIN pkgs : pkgs[i].status = "placed"}

WarehouseAccept ==
    /\ Accept("warehouse")
    /\ Receivable # {}
    /\ project => PackedQuantity(Receivable) <= FinishedEligible
    /\ pkgs' = [i \in DOMAIN pkgs |-> IF i \in Receivable THEN [pkgs[i] EXCEPT !.status = "received"] ELSE pkgs[i]]
WarehouseStart == Start("warehouse")

Place(i) ==
    /\ Working("warehouse")
    /\ pkgs[i].status = "received" /\ pkgs[i].qty > 0
    /\ project => PackedQuantity(PlacedPackages) + pkgs[i].qty <= FinishedEligible
    /\ pkgs' = [pkgs EXCEPT ![i].status = "placed"]
    /\ UNCHANGED <<project, status, step, quantities, repairs, pkgCount>>

WarehouseComplete ==
    /\ Working("warehouse") /\ Receivable # {} /\ Receivable = PlacedPackages /\ Finish("warehouse")
    /\ UNCHANGED <<project, quantities, repairs, packing>>

WarehouseTerminal == WarehouseAccept \/ WarehouseStart \/ WarehouseComplete \/ \E i \in DOMAIN pkgs : Place(i)

-----------------------------------------------------------------------------
(* Corrections of a project job, allowed until something is packed.        *)

\* Mutant: packages are not looked at.
NothingDownstreamEver == TRUE

NothingDownstream == PackedQuantity(Active) = 0

ReturnKinds == {"qc_return", "painting_return", "svarka_return", "packaging_return"}
ReturnsLeft ==
    MaxReturned - jobLed.stage_reopened
        - Amount([k \in ReturnKinds |-> Total([l \in Lines |-> led[l][k]])], ReturnKinds)

\* return_stage; the job is in progress again, whatever it was.
Return(kind, l, q) ==
    LET column == CASE kind = "qc_return" -> "qc_accepted" [] kind = "packaging_return" -> "qc_accepted"
                    [] kind = "painting_return" -> "paint_accepted" [] kind = "svarka_return" -> "accepted"
        fromRework == IF kind = "qc_return" THEN Least(q, line[l]["qc_rework"]) ELSE 0
        held == line[l][column] + (IF kind = "qc_return" THEN line[l]["qc_rework"] ELSE 0)
    IN /\ project /\ NothingDownstream
       /\ q <= ReturnsLeft
       /\ q <= held - led[l][kind]
       /\ led' = [led EXCEPT ![l][kind] = @ + q,
                             ![l]["qc_return_accepted"] = @ + (IF kind = "qc_return" THEN q - fromRework ELSE 0)]
       /\ line' = IF kind = "packaging_return" THEN line
                  ELSE [line EXCEPT ![l]["qc_rework"] = @ - fromRework,
                                    ![l][column] = Most(0, @ - (q - fromRework))]
       /\ IF kind = "qc_return"
          THEN /\ Len(reworks) < MaxReworks
               /\ reworks' = Append(reworks, [line |-> l, qty |-> q, status |-> "pending"])
          ELSE UNCHANGED reworks
       /\ status' = "in_progress"
       /\ UNCHANGED <<project, step, stock, assembled, jobLed, reworked, packing>>

\* reopen_stage: the step is where it was before it was completed.
Reopen(g) ==
    /\ project /\ NothingDownstream /\ step[g] = "completed"
    /\ ReturnsLeft > 0
    /\ jobLed' = [jobLed EXCEPT !.stage_reopened = @ + 1]
    /\ step' = [step EXCEPT ![g] = IF g = "kraska" THEN "drying" ELSE "started"]
    /\ status' = "in_progress"
    /\ UNCHANGED <<project, stock, line, assembled, led, repairs, packing>>

Corrections ==
    \/ \E kind \in ReturnKinds, l \in Lines, q \in 1 .. Quantity : Return(kind, l, q)
    \/ \E g \in RouteStages : Reopen(g)

-----------------------------------------------------------------------------
(* The manager releases the job and changes its status by hand.            *)

Release ==
    /\ status = "draft" /\ status' = "released"
    /\ stock' = Stock
    /\ UNCHANGED <<project, step, line, assembled, led, jobLed, repairs, packing>>

ManualTransitions(s) ==
    CASE s = "draft"       -> {"cancelled"}
      [] s = "released"    -> {"in_progress", "on_hold", "cancelled"}
      [] s = "in_progress" -> {"on_hold", "completed", "cancelled"}
      [] s = "on_hold"     -> {"in_progress", "cancelled"}
      [] OTHER             -> {}

SetJobStatus(s) ==
    /\ s \in ManualTransitions(status)
    /\ status' = s
    /\ stock' = IF s = "cancelled" THEN [l \in Lines |-> 0] ELSE stock
    /\ UNCHANGED <<project, step, line, assembled, led, jobLed, repairs, packing>>

Manager == Release \/ \E s \in JobStatuses : SetJobStatus(s)

Next ==
    \/ LazerTerminal \/ SvarkaTerminal \/ KraskaTerminal \/ YigishTerminal
    \/ QcTerminal \/ PackagingTerminal \/ WarehouseTerminal \/ Corrections \/ Manager

Spec == Init /\ [][Next]_floor

-----------------------------------------------------------------------------
(* Properties.                                                             *)

Packages == [qty : 0 .. Quantity, status : {"pending", "packed", "received", "placed", "cancelled"}]
Reworks == [line : Lines, qty : 1 .. Quantity, status : Open \cup {"completed"}]

\* Every column, sum of evidence and status is one the tables can hold.
TypeOK ==
    /\ project \in BOOLEAN /\ status \in JobStatuses /\ step \in [Stages -> StepStates]
    /\ stock \in [Lines -> 0 .. Quantity] /\ line \in [Lines -> [Columns -> Nat]]
    /\ assembled \in 0 .. Quantity /\ led \in [Lines -> [Operations -> Nat]]
    /\ jobLed \in [yigish_completed : 0 .. Quantity, packaged : 0 .. Quantity, stage_reopened : Nat]
    /\ reworks \in Seq(Reworks) /\ reworked \in [Lines -> Nat] /\ pkgCount \in 0 .. MaxPackages /\ pkgs \in Seq(Packages)

\* The evidence of a detail, station by station; a station the route leaves out passes all on.
Welded(l) == IF "svarka" \in RouteStages THEN led[l]["svarka_accepted"] ELSE led[l]["lazer_completed"] + Stock[l]
Painted(l) == IF "kraska" \in RouteStages THEN led[l]["painting_accepted"] ELSE Welded(l)
Evidence(l) == <<led[l]["lazer_completed"] + Stock[l], Welded(l), Painted(l), led[l]["qc_approved"]>>

\* The evidence of a job is a conveyor: nothing is recorded as approved that was not painted,
\* painted that was not welded, or welded that was neither cut nor in stock, and no correction
\* takes evidence back.
C == INSTANCE Conveyor WITH Lines <- Lines, Stations <- 4, Batch <- Quantity,
                            through <- [l \in Lines |-> Evidence(l)]
EvidenceFlows == C!Spec

\* What quality control recorded of a detail (approved, rejected, and sent to rework and not
\* back) never exceeds what it was handed.
DispositionsWithinPredecessor ==
    project => \A l \in Lines : Disposed(l, "qc_approved", led[l]["qc_approved"]) <= QcPredecessor(l)

\* The pieces of a detail in open rework records.
InRework(l) == Amount([i \in DOMAIN reworks |-> reworks[i].qty], {i \in OpenReworks : reworks[i].line = l})

\* Every piece in a rework column has a rework record: that of a project an open one.
ReworkOnRecord ==
    \A l \in Lines : line[l]["qc_rework"] <= InRework(l) + (IF project THEN 0 ELSE reworked[l])

\* What a project job has packed stays approved, piece by piece and through every correction,
\* and is never at the same time in rework.
PackedIsApproved ==
    project /\ Active # {} => \A l \in Lines :
        /\ PackedQuantity(Active) <= line[l]["qc_accepted"]
        /\ PackedQuantity(Active) + InRework(l) <= Quantity
===============================================================================
