------------------------------ MODULE Materials -------------------------------
(***************************************************************************)
(* The warehouse of one profile material: its balance in metres, and the   *)
(* physical bars the balance stands for (services/materials_warehouse.py   *)
(* and material_cutting.py).  Receipts bring bars in and may be reversed;  *)
(* an issue document reserves bars, takes them out and cuts them, and what *)
(* is left of a bar comes back as an offcut or is scrap.  Bulk issues,     *)
(* adjustments and the automatic consumption at the start of a stage       *)
(* (material_auto_consumption.py) change the balance and no bar.           *)
(*                                                                         *)
(* An action is a request that succeeds.  Lengths are multiples of one     *)
(* unit; a receipt has one row, so one lot.                                *)
(***************************************************************************)
EXTENDS Amounts, Sequences

CONSTANTS
    Receipts,  \* receipts that may be written
    Issues,    \* issue documents that may be written
    Jobs,      \* jobs that need the material
    Required,  \* length a job needs
    BarLength, \* length of a bar
    MinOffcut, \* Material.min_reusable_offcut_m
    MaxBars,   \* bound: bars of a receipt
    MaxKerf,   \* bound: length lost in a cut
    MaxRows,   \* bound: rows of physical pieces
    MaxBulk    \* bound: bulk issues and adjustments

ASSUME MaterialsAssumption ==
    /\ IsFiniteSet(Receipts) /\ IsFiniteSet(Issues)
    /\ Required \in Nat \ {0} /\ BarLength \in Nat \ {0} /\ MinOffcut \in Nat
    /\ MaxBars \in Nat /\ MaxKerf \in Nat /\ MaxRows \in Nat /\ MaxBulk \in Nat

VARIABLES
    balance,  \* Material.quantity
    receipts, \* per receipt: status, and bars on its row
    lots,     \* per receipt: MaterialStockLengthLot.pieces_on_hand and pieces_reserved
    pieces,   \* MaterialStockPiece rows in order of creation; those deleted keep their place
    issues,   \* per document: status, planned length, pieces linked, length cut, kerf and scrap
    jobs,     \* per job: status, reserved length, and whether the stage has consumed
    bulk      \* bulk issues and adjustments so far

materialVars == <<balance, receipts, lots, pieces, issues, jobs, bulk>>

ReceiptStates == {"none", "DRAFT", "CONFIRMED", "REVERSED", "CANCELLED"}
IssueStates == {"none", "DRAFT", "RESERVED", "ISSUED", "COMPLETED"}
PieceStates == {"AVAILABLE", "RESERVED", "ISSUED", "CONSUMED", "OFFCUT", "deleted"}

Init ==
    /\ balance = 0
    /\ receipts = [r \in Receipts |-> [status |-> "none", bars |-> 0]]
    /\ lots = [r \in Receipts |-> [onHand |-> 0, reserved |-> 0]]
    /\ pieces = <<>>
    /\ issues = [i \in Issues |-> [status |-> "none", planned |-> 0, links |-> {}, cut |-> 0, lost |-> 0]]
    /\ jobs = [j \in Jobs |-> [status |-> "draft", reserved |-> 0, consumed |-> FALSE]]
    /\ bulk = 0

Smaller(a, b) == IF a <= b THEN a ELSE b
Larger(a, b) == IF a >= b THEN a ELSE b

\* Every piece of a receipt's lot, offcuts of its bars included; the bars themselves.
OfLot(r) == {k \in DOMAIN pieces : pieces[k].lot = r /\ pieces[k].status # "deleted"}
BarsOf(r) == {k \in OfLot(r) : ~pieces[k].offcut}
LengthOf(S) == Amount([k \in DOMAIN pieces |-> pieces[k].length], S)

-----------------------------------------------------------------------------
(* Receipts.                                                               *)

CreateReceipt(r, bars) ==
    /\ receipts[r].status = "none"
    /\ receipts' = [receipts EXCEPT ![r] = [status |-> "DRAFT", bars |-> bars]]
    /\ UNCHANGED <<balance, lots, pieces, issues, jobs, bulk>>

UpdateDraft(r, bars) ==
    /\ receipts[r].status = "DRAFT" /\ bars # receipts[r].bars
    /\ receipts' = [receipts EXCEPT ![r].bars = bars]
    /\ UNCHANGED <<balance, lots, pieces, issues, jobs, bulk>>

Bar(r) == [lot |-> r, length |-> BarLength, status |-> "AVAILABLE", issue |-> {}, offcut |-> FALSE]

\* confirm_receipt, with the lot and a piece for each of its bars (materialize_lot).
ConfirmReceipt(r) ==
    LET bars == receipts[r].bars
    IN /\ receipts[r].status = "DRAFT"
       /\ Len(pieces) + bars <= MaxRows
       /\ receipts' = [receipts EXCEPT ![r].status = "CONFIRMED"]
       /\ lots' = [lots EXCEPT ![r] = [onHand |-> bars, reserved |-> 0]]
       /\ pieces' = pieces \o [k \in 1 .. bars |-> Bar(r)]
       /\ balance' = balance + bars * BarLength
       /\ UNCHANGED <<issues, jobs, bulk>>

CancelDraft(r) ==
    /\ receipts[r].status = "DRAFT"
    /\ receipts' = [receipts EXCEPT ![r].status = "CANCELLED"]
    /\ UNCHANGED <<balance, lots, pieces, issues, jobs, bulk>>

\* No bar is reserved, gone or cut.
Untouched(r) ==
    /\ lots[r].reserved = 0 /\ lots[r].onHand >= receipts[r].bars
    /\ \A k \in OfLot(r) : pieces[k].status = "AVAILABLE" /\ ~pieces[k].offcut

ReverseReceipt(r) ==
    LET bars == receipts[r].bars
    IN /\ receipts[r].status = "CONFIRMED"
       /\ Untouched(r)
       /\ balance >= bars * BarLength
       /\ receipts' = [receipts EXCEPT ![r].status = "REVERSED"]
       /\ lots' = [lots EXCEPT ![r].onHand = @ - bars]
       /\ pieces' = [k \in DOMAIN pieces |->
                        IF k \in OfLot(r) THEN [pieces[k] EXCEPT !.status = "deleted"] ELSE pieces[k]]
       /\ balance' = balance - bars * BarLength
       /\ UNCHANGED <<issues, jobs, bulk>>

Receiving ==
    \E r \in Receipts :
        \/ \E bars \in 1 .. MaxBars : CreateReceipt(r, bars) \/ UpdateDraft(r, bars)
        \/ ConfirmReceipt(r) \/ CancelDraft(r) \/ ReverseReceipt(r)

-----------------------------------------------------------------------------
(* Issue documents.                                                        *)

CreateIssueDocument(i, planned) ==
    /\ issues[i].status = "none"
    /\ issues' = [issues EXCEPT ![i].status = "DRAFT", ![i].planned = planned]
    /\ UNCHANGED <<balance, receipts, lots, pieces, jobs, bulk>>

\* A bar counts in its lot, an offcut does not.
ReservePiece(i, k) ==
    /\ issues[i].status \in {"DRAFT", "RESERVED", "ISSUED"}
    /\ pieces[k].status \in {"AVAILABLE", "OFFCUT"}
    /\ pieces' = [pieces EXCEPT ![k].status = "RESERVED", ![k].issue = {i}]
    /\ issues' = [issues EXCEPT ![i].links = @ \cup {k},
                                ![i].status = IF @ = "ISSUED" THEN @ ELSE "RESERVED"]
    /\ lots' = IF pieces[k].offcut THEN lots ELSE [lots EXCEPT ![pieces[k].lot].reserved = @ + 1]
    /\ UNCHANGED <<balance, receipts, jobs, bulk>>

ReservedFor(i) == {k \in issues[i].links : pieces[k].status = "RESERVED" /\ pieces[k].issue = {i}}
BarsAmong(S, r) == Cardinality({k \in S : pieces[k].lot = r /\ ~pieces[k].offcut})

\* Mutant: the links are kept.
ReleaseKeepingLinks(i) ==
    /\ issues[i].status = "RESERVED"
    /\ pieces' = [k \in DOMAIN pieces |->
                    IF k \notin ReservedFor(i) THEN pieces[k]
                    ELSE [pieces[k] EXCEPT !.status = IF pieces[k].offcut THEN "OFFCUT" ELSE "AVAILABLE",
                                           !.issue = {}]]
    /\ lots' = [r \in Receipts |->
                    [lots[r] EXCEPT !.reserved = Larger(0, @ - BarsAmong(ReservedFor(i), r))]]
    /\ issues' = [issues EXCEPT ![i].status = "DRAFT"]
    /\ UNCHANGED <<balance, receipts, jobs, bulk>>

\* Refused once anything was issued.
ReleaseReservation(i) ==
    /\ issues[i].status = "RESERVED"
    /\ pieces' = [k \in DOMAIN pieces |->
                    IF k \notin ReservedFor(i) THEN pieces[k]
                    ELSE [pieces[k] EXCEPT !.status = IF pieces[k].offcut THEN "OFFCUT" ELSE "AVAILABLE",
                                           !.issue = {}]]
    /\ lots' = [r \in Receipts |->
                    [lots[r] EXCEPT !.reserved = Larger(0, @ - BarsAmong(ReservedFor(i), r))]]
    /\ issues' = [issues EXCEPT ![i].status = "DRAFT", ![i].links = {}]
    /\ UNCHANGED <<balance, receipts, jobs, bulk>>

TakenFrom(lot, n) == [onHand |-> Larger(0, lot.onHand - n), reserved |-> Larger(0, lot.reserved - n)]

\* The reserved pieces leave the warehouse; more may be reserved and issued later.
IssueReserved(i) ==
    LET out == ReservedFor(i)
    IN /\ issues[i].status \in {"RESERVED", "ISSUED"} /\ out # {}
       /\ balance >= LengthOf(out)
       /\ pieces' = [k \in DOMAIN pieces |->
                        IF k \in out THEN [pieces[k] EXCEPT !.status = "ISSUED"] ELSE pieces[k]]
       /\ lots' = [r \in Receipts |-> TakenFrom(lots[r], BarsAmong(out, r))]
       /\ balance' = balance - LengthOf(out)
       /\ issues' = [issues EXCEPT ![i].status = "ISSUED"]
       /\ UNCHANGED <<receipts, jobs, bulk>>

\* Mutant: the offcut copies the length of its bar.
OffcutCopied(k, length) ==
    [lot |-> pieces[k].lot, length |-> pieces[k].length, status |-> "OFFCUT", issue |-> {}, offcut |-> TRUE]

Offcut(k, length) ==
    [lot |-> pieces[k].lot, length |-> length, status |-> "OFFCUT", issue |-> {}, offcut |-> TRUE]

Remainder(length, cut, kerf) == length - cut - kerf

Reusable(remainder) == remainder >= MinOffcut

\* One cut uses up a piece: what remains is an offcut in stock again, or scrap.  The document is
\* completed by the length cut, whatever else is reserved or issued for it.
RecordCut(i, k, cut, kerf) ==
    LET remainder == Remainder(pieces[k].length, cut, kerf)
        total == issues[i].cut + cut
        waste == kerf + (IF Reusable(remainder) THEN 0 ELSE remainder)
        used == [pieces EXCEPT ![k].length = 0, ![k].status = "CONSUMED"]
    IN /\ issues[i].status \in {"ISSUED", "COMPLETED"}
       /\ pieces[k].issue = {i} /\ pieces[k].status = "ISSUED"
       /\ cut + kerf <= pieces[k].length
       /\ Len(pieces) < MaxRows
       /\ pieces' = IF Reusable(remainder) THEN Append(used, Offcut(k, remainder)) ELSE used
       /\ balance' = IF Reusable(remainder) THEN balance + remainder ELSE balance
       /\ issues' = [issues EXCEPT ![i].cut = total, ![i].lost = @ + waste,
                                   ![i].status = IF total >= issues[i].planned THEN "COMPLETED" ELSE "ISSUED"]
       /\ UNCHANGED <<receipts, lots, jobs, bulk>>

Cutting ==
    \E i \in Issues :
        \/ \E planned \in 1 .. BarLength : CreateIssueDocument(i, planned)
        \/ ReleaseReservation(i) \/ IssueReserved(i)
        \/ \E k \in DOMAIN pieces :
             \/ ReservePiece(i, k)
             \/ \E cut \in 1 .. BarLength, kerf \in 0 .. MaxKerf : RecordCut(i, k, cut, kerf)

-----------------------------------------------------------------------------
(* Bulk changes of the balance.                                            *)

CreateIssue(q) ==
    /\ bulk < MaxBulk /\ balance >= q
    /\ balance' = balance - q /\ bulk' = bulk + 1
    /\ UNCHANGED <<receipts, lots, pieces, issues, jobs>>

CreateAdjustment(q) ==
    /\ bulk < MaxBulk /\ q # balance
    /\ balance' = q /\ bulk' = bulk + 1
    /\ UNCHANGED <<receipts, lots, pieces, issues, jobs>>

Active == {j \in Jobs : jobs[j].status = "active"}
Committed(S) == Amount([j \in Jobs |-> jobs[j].reserved], S)

\* sync_job_material_reservations: what active jobs leave of the balance, at the release.
ReleaseJob(j) ==
    /\ jobs[j].status = "draft"
    /\ jobs' = [jobs EXCEPT ![j].status = "active",
                            ![j].reserved = Smaller(Required, Larger(0, balance - Committed(Active)))]
    /\ UNCHANGED <<balance, receipts, lots, pieces, issues, bulk>>

\* auto_consume_on_stage_start takes the whole requirement, reserved or not, and once.
StartStage(j) ==
    /\ jobs[j].status = "active" /\ ~jobs[j].consumed
    /\ balance >= Required
    /\ balance' = balance - Required
    /\ jobs' = [jobs EXCEPT ![j].consumed = TRUE, ![j].reserved = Larger(0, @ - Required)]
    /\ UNCHANGED <<receipts, lots, pieces, issues, bulk>>

EndJob(j) ==
    /\ jobs[j].status = "active"
    /\ jobs' = [jobs EXCEPT ![j].status = "ended"]
    /\ UNCHANGED <<balance, receipts, lots, pieces, issues, bulk>>

BulkChange ==
    \/ \E q \in 1 .. BarLength : CreateIssue(q)
    \/ \E q \in 0 .. BarLength : CreateAdjustment(q)
    \/ \E j \in Jobs : StartStage(j)

-----------------------------------------------------------------------------
Next == Receiving \/ Cutting \/ BulkChange \/ \E j \in Jobs : ReleaseJob(j) \/ EndJob(j)

Spec == Init /\ [][Next]_materialVars

-----------------------------------------------------------------------------
(* Properties.                                                             *)

\* A piece an issue document lists is held by that document alone, and is neither offered to others
\* nor deleted with its receipt: whatever is reserved, released, issued, cut and reversed, no bar is
\* used twice (reserve_piece, release_reservation, reverse_receipt).
HeldByOneIssue ==
    \A i \in Issues : \A k \in issues[i].links :
        /\ k \in DOMAIN pieces
        /\ pieces[k].issue = {i}
        /\ pieces[k].status \in {"RESERVED", "ISSUED", "CONSUMED"}

\* The counters of a lot are those of its bars: what a receipt may be reversed by, and the list of
\* lots shows, is what the bars themselves say.
LotCountsBars ==
    \A r \in Receipts :
        /\ lots[r].onHand = Cardinality({k \in BarsOf(r) : pieces[k].status \in {"AVAILABLE", "RESERVED"}})
        /\ lots[r].reserved = Cardinality({k \in BarsOf(r) : pieces[k].status = "RESERVED"})

InWarehouse == {k \in DOMAIN pieces : pieces[k].status \in {"AVAILABLE", "RESERVED", "OFFCUT"}}
Out == {k \in DOMAIN pieces : pieces[k].status = "ISSUED"}

\* Receipts, reversals, reservations, issues and cuts keep the balance at the length of the pieces in
\* the warehouse; only a bulk change makes the two differ by more or less than they did.
OnlyBulkDiverges ==
    [][balance' - LengthOf(InWarehouse)' # balance - LengthOf(InWarehouse) => BulkChange]_materialVars

\* Every metre received is in the warehouse, on a document, in a detail that was cut, or lost in kerf
\* and scrap that the cuts recorded.
MetresAccounted ==
    LET received == [r \in Receipts |-> IF receipts[r].status = "CONFIRMED" THEN receipts[r].bars * BarLength ELSE 0]
        used == [i \in Issues |-> issues[i].cut + issues[i].lost]
    IN Amount(received, Receipts) = LengthOf(InWarehouse) + LengthOf(Out) + Amount(used, Issues)

BarsAccounted == LotCountsBars /\ MetresAccounted

\* No bar is used twice, and no bar and no metre is lost or counted twice.
SteelAccounted == HeldByOneIssue /\ BarsAccounted
===============================================================================
