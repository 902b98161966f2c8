----------------------------- MODULE OfficeProofs -----------------------------
(***************************************************************************)
(* Theorems of the offices: the warehouse of a material (a piece of        *)
(* profile is held by one issue document, and no bar and no metre is       *)
(* lost), and what only requests that overlap can do to accounts, loading  *)
(* plans, orders and export shipments, and that the books balance; for any *)
(* numbers of rows and of requests.                                        *)
(***************************************************************************)
EXTENDS Materials, Accounts, Loading, Orders, Exports, Finance, AmountProofs, WellFoundedInduction

-----------------------------------------------------------------------------
(* The warehouse of a material.                                            *)

PieceRows == [lot : Receipts, length : Int, status : PieceStates, issue : SUBSET Issues, offcut : BOOLEAN]
IssueRows == [status : IssueStates, planned : Int, links : SUBSET Nat, cut : Int, lost : Int]

\* The rows that name each other.
RowsOK ==
    /\ receipts \in [Receipts -> [status : ReceiptStates, bars : Nat]]
    /\ pieces \in Seq(PieceRows)
    /\ issues \in [Issues -> IssueRows]

HeldInv == RowsOK /\ HeldByOneIssue

\* At the start there is no document and no piece.
LEMMA HeldInit == Init => HeldInv
<1>1. Init => RowsOK
    BY DEF Init, RowsOK, IssueRows, ReceiptStates, IssueStates
<1>2. Init => HeldByOneIssue
    BY DEF Init, HeldByOneIssue
<1>3. QED
    BY <1>1, <1>2 DEF HeldInv

\* The pieces, one by one.
LEMMA PiecesTyped ==
    ASSUME RowsOK
    PROVE  /\ DOMAIN pieces = 1 .. Len(pieces) /\ Len(pieces) \in Nat
           /\ \A k \in DOMAIN pieces : pieces[k] \in PieceRows
BY DEF RowsOK

\* Rows of pieces rewritten in place are rows.
LEMMA RewrittenPieces ==
    ASSUME RowsOK, NEW F(_), \A k \in DOMAIN pieces : F(k) \in PieceRows
    PROVE  [k \in DOMAIN pieces |-> F(k)] \in Seq(PieceRows)
BY PiecesTyped

\* A step that leaves the documents alone, and the pieces on them, holds nothing anew.
LEMMA HoldsNothingNew ==
    ASSUME HeldInv, UNCHANGED issues, pieces' \in Seq(PieceRows),
           receipts' \in [Receipts -> [status : ReceiptStates, bars : Nat]],
           \A i \in Issues : \A k \in issues[i].links : k \in DOMAIN pieces' /\ pieces'[k] = pieces[k]
    PROVE  HeldInv'
BY DEF HeldInv, RowsOK, HeldByOneIssue

\* Receipts bring in pieces on no document, and take out only such pieces.
LEMMA ReceivingKeeps == ASSUME HeldInv, Receiving PROVE HeldInv'
<1>1. PICK r \in Receipts :
        \/ \E bars \in 1 .. MaxBars : CreateReceipt(r, bars) \/ UpdateDraft(r, bars)
        \/ ConfirmReceipt(r) \/ CancelDraft(r) \/ ReverseReceipt(r)
    BY DEF Receiving
<1>2. UNCHANGED issues /\ receipts' \in [Receipts -> [status : ReceiptStates, bars : Nat]]
    <2>1. receipts \in [Receipts -> [status : ReceiptStates, bars : Nat]] /\ 1 .. MaxBars \subseteq Nat
        BY MaterialsAssumption DEF HeldInv, RowsOK
    <2>2. QED
        BY <1>1, <2>1 DEF CreateReceipt, UpdateDraft, ConfirmReceipt, CancelDraft, ReverseReceipt, ReceiptStates
<1>3. \A i \in Issues : \A k \in issues[i].links :
        k \in DOMAIN pieces /\ pieces[k].status \in {"RESERVED", "ISSUED", "CONSUMED"}
    BY DEF HeldInv, HeldByOneIssue
<1>4. CASE UNCHANGED pieces
    BY <1>2, <1>3, <1>4, HoldsNothingNew DEF HeldInv, RowsOK
<1>5. CASE ConfirmReceipt(r)
    <2> DEFINE bars == receipts[r].bars
               new == [k \in 1 .. bars |-> Bar(r)]
    <2>1. bars \in Nat /\ Bar(r) \in PieceRows
        BY MaterialsAssumption DEF HeldInv, RowsOK, Bar, PieceRows, PieceStates
    <2>2. pieces' = pieces \o new
        BY <1>5 DEF ConfirmReceipt
    <2>3. new \in Seq(PieceRows)
        BY <2>1
    <2> HIDE DEF new
    <2>4. pieces \in Seq(PieceRows)
        BY DEF HeldInv, RowsOK
    <2>5. pieces' \in Seq(PieceRows) /\ \A k \in DOMAIN pieces : k \in DOMAIN pieces' /\ pieces'[k] = pieces[k]
        BY <2>2, <2>3, <2>4
    <2>6. QED
        BY <1>2, <1>3, <2>5, HoldsNothingNew
<1>6. CASE ReverseReceipt(r)
    <2> DEFINE F(k) == IF k \in OfLot(r) THEN [pieces[k] EXCEPT !.status = "deleted"] ELSE pieces[k]
    <2>1. \A k \in DOMAIN pieces : F(k) \in PieceRows
        BY PiecesTyped DEF HeldInv, PieceRows, PieceStates
    <2>2. pieces' = [k \in DOMAIN pieces |-> F(k)]
        BY <1>6 DEF ReverseReceipt
    <2>3. \A k \in OfLot(r) : pieces[k].status = "AVAILABLE"
        BY <1>6 DEF ReverseReceipt, Untouched
    <2> HIDE DEF F
    <2>4. pieces' \in Seq(PieceRows)
        BY <2>1, <2>2, RewrittenPieces DEF HeldInv
    <2>5. \A i \in Issues : \A k \in issues[i].links : k \in DOMAIN pieces' /\ pieces'[k] = pieces[k]
        BY <1>3, <2>2, <2>3 DEF F
    <2>6. QED
        BY <1>2, <2>4, <2>5, HoldsNothingNew
<1>7. QED
    BY <1>1, <1>4, <1>5, <1>6 DEF CreateReceipt, UpdateDraft, CancelDraft

\* A new document lists nothing.
LEMMA CreateKeeps ==
    ASSUME HeldInv, NEW i \in Issues, NEW planned \in 1 .. BarLength, CreateIssueDocument(i, planned)
    PROVE  HeldInv'
<1>1. /\ issues' = [issues EXCEPT ![i].status = "DRAFT", ![i].planned = planned]
      /\ UNCHANGED <<pieces, receipts>> /\ planned \in Int
    BY MaterialsAssumption DEF CreateIssueDocument
<1>2. issues \in [Issues -> IssueRows]
    BY DEF HeldInv, RowsOK
<1>3. issues' \in [Issues -> IssueRows] /\ \A j \in Issues : issues'[j].links = issues[j].links
    BY <1>1, <1>2 DEF IssueRows, IssueStates
<1>4. QED
    BY <1>1, <1>3 DEF HeldInv, RowsOK, HeldByOneIssue

\* A piece offered is on no document, and one reserved is on one.
LEMMA ReserveKeeps ==
    ASSUME HeldInv, NEW i \in Issues, NEW k \in DOMAIN pieces, ReservePiece(i, k)
    PROVE  HeldInv'
<1>1. /\ pieces' = [pieces EXCEPT ![k].status = "RESERVED", ![k].issue = {i}]
      /\ issues' = [issues EXCEPT ![i].links = @ \cup {k},
                                  ![i].status = IF @ = "ISSUED" THEN @ ELSE "RESERVED"]
      /\ pieces[k].status \in {"AVAILABLE", "OFFCUT"} /\ UNCHANGED receipts
    BY DEF ReservePiece
<1>2. /\ pieces[k] \in PieceRows /\ k \in Nat /\ pieces \in Seq(PieceRows) /\ issues \in [Issues -> IssueRows]
      /\ issues[i] \in IssueRows
    BY PiecesTyped DEF HeldInv, RowsOK
<1>3. /\ pieces' \in Seq(PieceRows) /\ DOMAIN pieces' = DOMAIN pieces
      /\ pieces'[k].issue = {i} /\ pieces'[k].status = "RESERVED"
      /\ \A n \in DOMAIN pieces \ {k} : pieces'[n] = pieces[n]
    <2> DEFINE row == [[pieces[k] EXCEPT !.status = "RESERVED"] EXCEPT !.issue = {i}]
    <2>1. row \in PieceRows /\ row.status = "RESERVED" /\ row.issue = {i}
        BY <1>2 DEF PieceRows, PieceStates
    <2>2. pieces' = [pieces EXCEPT ![k] = row]
        BY <1>1, <1>2 DEF PieceRows
    <2> HIDE DEF row
    <2>3. QED
        BY <1>2, <2>1, <2>2
<1>4. /\ issues' \in [Issues -> IssueRows] /\ issues'[i].links = issues[i].links \cup {k}
      /\ \A j \in Issues \ {i} : issues'[j] = issues[j]
    BY <1>1, <1>2 DEF IssueRows, IssueStates
<1>5. \A j \in Issues : k \notin issues[j].links
    BY <1>1 DEF HeldInv, HeldByOneIssue
<1>6. HeldByOneIssue'
    BY <1>3, <1>4, <1>5 DEF HeldInv, HeldByOneIssue
<1>7. QED
    BY <1>1, <1>3, <1>4, <1>6 DEF HeldInv, RowsOK

\* What a document reserved goes back, and the document lists nothing any more.
LEMMA ReleaseKeeps == ASSUME HeldInv, NEW i \in Issues, ReleaseReservation(i) PROVE HeldInv'
<1> DEFINE F(k) == IF k \notin ReservedFor(i) THEN pieces[k]
                   ELSE [pieces[k] EXCEPT !.status = IF pieces[k].offcut THEN "OFFCUT" ELSE "AVAILABLE",
                                          !.issue = {}]
<1>1. /\ pieces' = [k \in DOMAIN pieces |-> F(k)]
      /\ issues' = [issues EXCEPT ![i].status = "DRAFT", ![i].links = {}] /\ UNCHANGED receipts
    BY DEF ReleaseReservation
<1>2. \A k \in DOMAIN pieces : F(k) \in PieceRows
    BY PiecesTyped DEF HeldInv, PieceRows, PieceStates
<1>3. \A k \in DOMAIN pieces : pieces[k].issue # {i} => F(k) = pieces[k]
    BY DEF ReservedFor
<1> HIDE DEF F
<1>4. pieces' \in Seq(PieceRows)
    BY <1>1, <1>2, RewrittenPieces DEF HeldInv
<1>5. issues' \in [Issues -> IssueRows] /\ issues'[i].links = {} /\ \A j \in Issues \ {i} : issues'[j] = issues[j]
    BY <1>1 DEF HeldInv, RowsOK, IssueRows, IssueStates
<1>6. HeldByOneIssue'
    <2> SUFFICES ASSUME NEW j \in Issues, NEW k \in issues'[j].links
                 PROVE  /\ k \in DOMAIN pieces' /\ pieces'[k].issue = {j}
                        /\ pieces'[k].status \in {"RESERVED", "ISSUED", "CONSUMED"}
        BY DEF HeldByOneIssue
    <2>1. j # i /\ k \in issues[j].links
        BY <1>5
    <2>2. k \in DOMAIN pieces /\ pieces[k].issue = {j} /\ pieces[k].status \in {"RESERVED", "ISSUED", "CONSUMED"}
        BY <2>1 DEF HeldInv, HeldByOneIssue
    <2>3. pieces'[k] = pieces[k]
        BY <1>1, <1>3, <2>1, <2>2
    <2>4. QED
        BY <1>1, <2>2, <2>3
<1>7. QED
    BY <1>1, <1>4, <1>5, <1>6 DEF HeldInv, RowsOK

\* What a document reserved leaves the warehouse, still on the document.
LEMMA IssueKeeps == ASSUME HeldInv, NEW i \in Issues, IssueReserved(i) PROVE HeldInv'
<1> DEFINE F(k) == IF k \in ReservedFor(i) THEN [pieces[k] EXCEPT !.status = "ISSUED"] ELSE pieces[k]
<1>1. /\ pieces' = [k \in DOMAIN pieces |-> F(k)]
      /\ issues' = [issues EXCEPT ![i].status = "ISSUED"] /\ UNCHANGED receipts
    BY DEF IssueReserved
<1>2. \A k \in DOMAIN pieces : /\ F(k) \in PieceRows /\ F(k).issue = pieces[k].issue
                               /\ F(k).status \in {pieces[k].status, "ISSUED"}
    BY PiecesTyped DEF HeldInv, PieceRows, PieceStates
<1> HIDE DEF F
<1>3. pieces' \in Seq(PieceRows)
    BY <1>1, <1>2, RewrittenPieces DEF HeldInv
<1>4. issues' \in [Issues -> IssueRows] /\ \A j \in Issues : issues'[j].links = issues[j].links
    BY <1>1 DEF HeldInv, RowsOK, IssueRows, IssueStates
<1>5. HeldByOneIssue'
    BY <1>1, <1>2, <1>4 DEF HeldInv, HeldByOneIssue
<1>6. QED
    BY <1>1, <1>3, <1>4, <1>5 DEF HeldInv, RowsOK

\* A piece cut up stays on its document, and what remains of it is a new piece on none.
LEMMA CutKeeps ==
    ASSUME HeldInv, NEW i \in Issues, NEW k \in DOMAIN pieces, NEW cut \in 1 .. BarLength, NEW kerf \in 0 .. MaxKerf,
           RecordCut(i, k, cut, kerf)
    PROVE  HeldInv'
<1> DEFINE remainder == Remainder(pieces[k].length, cut, kerf)
           row == [[pieces[k] EXCEPT !.length = 0] EXCEPT !.status = "CONSUMED"]
           used == [pieces EXCEPT ![k].length = 0, ![k].status = "CONSUMED"]
           rest == Offcut(k, remainder)
           waste == kerf + (IF Reusable(remainder) THEN 0 ELSE remainder)
           lost == issues[i].lost + waste
           total == issues[i].cut + cut
           after == IF total >= issues[i].planned THEN "COMPLETED" ELSE "ISSUED"
<1>1. /\ pieces' = used \/ pieces' = Append(used, rest)
      /\ issues' = [issues EXCEPT ![i].cut = total, ![i].lost = lost, ![i].status = after]
      /\ UNCHANGED receipts
    BY DEF RecordCut
<1>2. pieces[k] \in PieceRows /\ pieces \in Seq(PieceRows) /\ issues[i] \in IssueRows /\ cut \in Int /\ kerf \in Int
    BY PiecesTyped, MaterialsAssumption DEF HeldInv, RowsOK
<1>3. remainder \in Int /\ lost \in Int /\ total \in Int
    BY <1>2, SMTT(30) DEF Remainder, PieceRows, IssueRows
<1>4. row \in PieceRows /\ row.issue = pieces[k].issue /\ row.status = "CONSUMED"
    <2> DEFINE empty == [pieces[k] EXCEPT !.length = 0]
    <2>1. empty \in PieceRows /\ empty.issue = pieces[k].issue
        BY <1>2 DEF PieceRows
    <2> HIDE DEF empty
    <2>2. [empty EXCEPT !.status = "CONSUMED"] \in PieceRows
          /\ [empty EXCEPT !.status = "CONSUMED"].issue = empty.issue
          /\ [empty EXCEPT !.status = "CONSUMED"].status = "CONSUMED"
        BY <2>1 DEF PieceRows, PieceStates
    <2>3. row = [empty EXCEPT !.status = "CONSUMED"]
        BY DEF empty
    <2>4. QED
        BY <2>1, <2>2, <2>3
<1>5. used = [pieces EXCEPT ![k] = row]
    BY <1>2, Zenon DEF PieceRows
<1>6. rest \in PieceRows
    BY <1>2, <1>3 DEF Offcut, PieceRows, PieceStates
<1>7. issues' \in [Issues -> IssueRows] /\ \A j \in Issues : issues'[j].links = issues[j].links
    <2>1. after \in IssueStates
        BY DEF IssueStates
    <2>2. issues \in [Issues -> IssueRows]
        BY DEF HeldInv, RowsOK
    <2> DEFINE issue == [[[issues[i] EXCEPT !.cut = total] EXCEPT !.lost = lost] EXCEPT !.status = after]
    <2> HIDE DEF after, lost, total
    <2>3. issue \in IssueRows /\ issue.links = issues[i].links
        BY <1>2, <1>3, <2>1 DEF IssueRows
    <2>4. issues' = [issues EXCEPT ![i] = issue]
        BY <1>1, <2>2 DEF IssueRows
    <2> HIDE DEF issue
    <2>5. QED
        BY <2>2, <2>3, <2>4
<1> HIDE DEF row, rest, remainder, waste, lost, total, after
<1>8. /\ used \in Seq(PieceRows) /\ DOMAIN used = DOMAIN pieces
      /\ used[k].issue = pieces[k].issue /\ used[k].status = "CONSUMED"
      /\ \A n \in DOMAIN pieces \ {k} : used[n] = pieces[n]
    BY <1>2, <1>4, <1>5
<1> HIDE DEF used
<1>9. pieces' \in Seq(PieceRows) /\ \A n \in DOMAIN used : n \in DOMAIN pieces' /\ pieces'[n] = used[n]
    <2>1. CASE pieces' = used
        BY <1>8, <2>1
    <2>2. CASE pieces' = Append(used, rest)
        BY <1>6, <1>8, <2>2
    <2>3. QED
        BY <1>1, <2>1, <2>2
<1>10. \A n \in DOMAIN pieces :
        /\ n \in DOMAIN pieces' /\ pieces'[n].issue = pieces[n].issue
        /\ pieces'[n].status \in {pieces[n].status, "CONSUMED"}
    BY <1>8, <1>9
<1>11. HeldByOneIssue'
    BY <1>7, <1>10 DEF HeldInv, HeldByOneIssue
<1>12. QED
    BY <1>1, <1>7, <1>9, <1>11 DEF HeldInv, RowsOK

\* Every step keeps each piece on one document.
LEMMA NextKeepsHeld == HeldInv /\ [Next]_materialVars => HeldInv'
<1> SUFFICES ASSUME HeldInv, [Next]_materialVars PROVE HeldInv'
    OBVIOUS
<1>1. CASE Receiving
    BY <1>1, ReceivingKeeps
<1>2. CASE Cutting
    BY <1>2, CreateKeeps, ReserveKeeps, ReleaseKeeps, IssueKeeps, CutKeeps DEF Cutting
<1>3. CASE BulkChange \/ (\E j \in Jobs : ReleaseJob(j) \/ EndJob(j)) \/ UNCHANGED materialVars
    <2>1. UNCHANGED <<receipts, pieces, issues>>
        BY <1>3 DEF BulkChange, CreateIssue, CreateAdjustment, StartStage, ReleaseJob, EndJob, materialVars
    <2>2. QED
        BY <2>1 DEF HeldInv, RowsOK, HeldByOneIssue
<1>4. QED
    BY <1>1, <1>2, <1>3 DEF Next

\* Whatever is reserved, released, issued, cut and reversed, no piece is on two documents, offered
\* while it is on one, or deleted with its receipt.
THEOREM HeldByOne == Spec => []HeldByOneIssue
<1>1. HeldInv => HeldByOneIssue
    BY DEF HeldInv
<1>2. QED
    BY <1>1, HeldInit, NextKeepsHeld, PTL DEF Spec

-----------------------------------------------------------------------------
(* Bars and metres.  BarsOK is what makes the accounts inductive: a bar    *)
(* keeps its length until it is cut, only what was cut is an offcut, and a *)
(* receipt that is confirmed has as many bars as its row says.             *)

BarsOK ==
    /\ \A k \in DOMAIN pieces :
         /\ pieces[k].length \in Nat
         /\ pieces[k].status = "OFFCUT" => pieces[k].offcut
         /\ ~pieces[k].offcut /\ pieces[k].status \in {"AVAILABLE", "RESERVED", "ISSUED"}
              => pieces[k].length = BarLength
         /\ receipts[pieces[k].lot].status \in {"CONFIRMED", "REVERSED"}
    /\ \A r \in Receipts : receipts[r].status = "CONFIRMED" => Cardinality(BarsOf(r)) = receipts[r].bars
    /\ \A i \in Issues : issues[i].cut \in Nat /\ issues[i].lost \in Nat
    /\ lots \in [Receipts -> [onHand : Nat, reserved : Nat]]
    /\ balance \in Int

MetalInv == HeldInv /\ BarsOK /\ BarsAccounted

Lengths == [k \in DOMAIN pieces |-> pieces[k].length]
InRoom == LengthOf(InWarehouse)
OnHand(r) == {k \in BarsOf(r) : pieces[k].status \in {"AVAILABLE", "RESERVED"}}
Reserved(r) == {k \in BarsOf(r) : pieces[k].status = "RESERVED"}
ReceivedBy == [r \in Receipts |-> IF receipts[r].status = "CONFIRMED" THEN receipts[r].bars * BarLength ELSE 0]
UsedBy == [i \in Issues |-> issues[i].cut + issues[i].lost]

\* What the accounts say, in these terms.
LEMMA Accounts ==
    /\ InRoom = Amount(Lengths, InWarehouse) /\ LengthOf(Out) = Amount(Lengths, Out)
    /\ LotCountsBars <=> \A r \in Receipts : /\ lots[r].onHand = Cardinality(OnHand(r))
                                             /\ lots[r].reserved = Cardinality(Reserved(r))
    /\ MetresAccounted <=> Amount(ReceivedBy, Receipts)
                              = Amount(Lengths, InWarehouse) + Amount(Lengths, Out) + Amount(UsedBy, Issues)
BY DEF InRoom, LengthOf, Lengths, LotCountsBars, OnHand, Reserved, MetresAccounted, ReceivedBy, UsedBy

\* A step keeps the accounts, and the balance as far from the metres in the warehouse as it was.
Booked == BarsOK' /\ LotCountsBars' /\ MetresAccounted' /\ balance' - InRoom' = balance - InRoom

\* There are finitely many pieces, and whatever is counted or measured of them is a number.
LEMMA FinitePieces ==
    ASSUME MetalInv
    PROVE  /\ IsFiniteSet(DOMAIN pieces) /\ DOMAIN pieces = 1 .. Len(pieces) /\ Len(pieces) \in Nat
           /\ \A k \in DOMAIN pieces : pieces[k] \in PieceRows /\ Lengths[k] = pieces[k].length /\ Lengths[k] \in Nat
           /\ \A S \in SUBSET DOMAIN pieces : IsFiniteSet(S) /\ Cardinality(S) \in Nat /\ Amount(Lengths, S) \in Nat
<1>1. DOMAIN pieces = 1 .. Len(pieces) /\ Len(pieces) \in Nat /\ \A k \in DOMAIN pieces : pieces[k] \in PieceRows
    BY PiecesTyped DEF MetalInv, HeldInv
<1>2. IsFiniteSet(DOMAIN pieces)
    BY <1>1, FS_Interval
<1>3. \A k \in DOMAIN pieces : Lengths[k] = pieces[k].length /\ Lengths[k] \in Nat
    BY DEF MetalInv, BarsOK, Lengths
<1>4. ASSUME NEW S \in SUBSET DOMAIN pieces
      PROVE  IsFiniteSet(S) /\ Cardinality(S) \in Nat /\ Amount(Lengths, S) \in Nat
    <2>1. IsFiniteSet(S)
        BY <1>2, FS_Subset
    <2>2. \A k \in S : Lengths[k] \in Nat
        BY <1>3
    <2>3. QED
        BY <2>1, <2>2, FS_CardinalityType, PiecesFinite
<1>5. QED
    BY <1>1, <1>2, <1>3, <1>4

\* What was received and what was used are numbers.
LEMMA NumbersBooked ==
    ASSUME MetalInv
    PROVE  /\ IsFiniteSet(Receipts) /\ IsFiniteSet(Issues) /\ BarLength \in Nat
           /\ \A r \in Receipts : ReceivedBy[r] \in Nat
           /\ \A i \in Issues : UsedBy[i] \in Nat
           /\ Amount(ReceivedBy, Receipts) \in Nat /\ Amount(UsedBy, Issues) \in Nat
<1>1. IsFiniteSet(Receipts) /\ IsFiniteSet(Issues) /\ BarLength \in Nat
    BY MaterialsAssumption
<1>2. \A r \in Receipts : ReceivedBy[r] \in Nat
    <2>1. \A r \in Receipts : receipts[r].bars \in Nat
        BY DEF MetalInv, HeldInv, RowsOK
    <2>2. \A r \in Receipts : receipts[r].bars * BarLength \in Nat
        BY <1>1, <2>1
    <2>3. QED
        BY <2>2 DEF ReceivedBy
<1>3. \A i \in Issues : UsedBy[i] \in Nat
    BY DEF MetalInv, BarsOK, UsedBy
<1>4. QED
    BY <1>1, <1>2, <1>3, PiecesFinite

\* At the start there is nothing.
LEMMA MetalInit == Init => MetalInv
<1> SUFFICES ASSUME Init PROVE MetalInv
    OBVIOUS
<1>1. HeldInv
    BY HeldInit
<1>2. BarsOK
    BY DEF Init, BarsOK
<1>3. LotCountsBars
    <2>1. \A r \in Receipts : OnHand(r) = {} /\ Reserved(r) = {}
        BY DEF Init, OnHand, Reserved, BarsOf, OfLot
    <2>2. QED
        BY <2>1, Accounts, FS_EmptySet DEF Init
<1>4. MetresAccounted
    <2>1. InWarehouse = {} /\ Out = {}
        BY DEF Init, InWarehouse, Out
    <2>2. Amount(Lengths, {}) = 0
        BY AmountOfNone
    <2>3. Amount(ReceivedBy, Receipts) = Cardinality(Receipts) * 0
        <3>1. \A r \in Receipts : ReceivedBy[r] = 0
            BY DEF Init, ReceivedBy
        <3>2. QED
            BY <3>1, AmountOfSame, MaterialsAssumption
    <2>4. Amount(UsedBy, Issues) = Cardinality(Issues) * 0
        <3>1. \A i \in Issues : UsedBy[i] = 0
            BY DEF Init, UsedBy
        <3>2. QED
            BY <3>1, AmountOfSame, MaterialsAssumption
    <2>5. Cardinality(Receipts) \in Nat /\ Cardinality(Issues) \in Nat
        BY MaterialsAssumption, FS_CardinalityType
    <2>6. QED
        BY <2>1, <2>2, <2>3, <2>4, <2>5, Accounts
<1>5. QED
    BY <1>1, <1>2, <1>3, <1>4 DEF MetalInv, BarsAccounted

\* A step that changes no piece, no lot, no balance and nothing that was received or used.
LEMMA NothingBooked ==
    ASSUME MetalInv, UNCHANGED <<balance, pieces, lots>>,
           \A r \in Receipts : \/ receipts'[r] = receipts[r]
                               \/ {receipts[r].status, receipts'[r].status} \cap {"CONFIRMED", "REVERSED"} = {},
           \A i \in Issues : issues'[i].cut = issues[i].cut /\ issues'[i].lost = issues[i].lost
    PROVE  Booked
<1>1. BarsOK'
    <2>1. \A k \in DOMAIN pieces : pieces[k].lot \in Receipts
        BY FinitePieces DEF PieceRows
    <2>2. \A r \in Receipts : BarsOf(r)' = BarsOf(r)
        BY DEF BarsOf, OfLot
    <2>3. QED
        BY <2>1, <2>2 DEF MetalInv, BarsOK
<1>2. LotCountsBars'
    BY DEF MetalInv, BarsAccounted, LotCountsBars, BarsOf, OfLot
<1>3. Amount(ReceivedBy', Receipts) = Amount(ReceivedBy, Receipts)
    <2>1. \A r \in Receipts : ReceivedBy'[r] = ReceivedBy[r]
        BY DEF ReceivedBy
    <2>2. QED
        BY <2>1, AmountSame
<1>4. Amount(UsedBy', Issues) = Amount(UsedBy, Issues)
    <2>1. \A i \in Issues : UsedBy'[i] = UsedBy[i]
        BY DEF UsedBy
    <2>2. QED
        BY <2>1, AmountSame
<1>5. Lengths' = Lengths /\ InWarehouse' = InWarehouse /\ Out' = Out
    BY DEF Lengths, InWarehouse, Out
<1>6. MetresAccounted' /\ InRoom' = InRoom
    <2>1. MetresAccounted
        BY DEF MetalInv, BarsAccounted
    <2>2. Amount(ReceivedBy, Receipts) = Amount(Lengths, InWarehouse) + Amount(Lengths, Out) + Amount(UsedBy, Issues)
        BY <2>1, Accounts
    <2>3. Amount(ReceivedBy', Receipts)
            = Amount(Lengths', InWarehouse') + Amount(Lengths', Out') + Amount(UsedBy', Issues)
        BY <1>3, <1>4, <1>5, <2>2
    <2>4. MetresAccounted'
        BY <2>3 DEF MetresAccounted, ReceivedBy, LengthOf, Lengths, UsedBy
    <2>5. InRoom' = InRoom
        BY <1>5 DEF InRoom, LengthOf, Lengths
    <2>6. QED
        BY <2>4, <2>5
<1>7. QED
    BY <1>1, <1>2, <1>6 DEF Booked

\* The accounts before a step and after it.
LEMMA BookedBefore ==
    ASSUME MetalInv
    PROVE  /\ Amount(ReceivedBy, Receipts) = Amount(Lengths, InWarehouse) + Amount(Lengths, Out) + Amount(UsedBy, Issues)
           /\ Amount(Lengths, InWarehouse) \in Nat /\ Amount(Lengths, Out) \in Nat
           /\ \A r \in Receipts : /\ lots[r].onHand = Cardinality(OnHand(r)) /\ lots[r].onHand \in Nat
                                  /\ lots[r].reserved = Cardinality(Reserved(r)) /\ lots[r].reserved \in Nat
<1>1. InWarehouse \in SUBSET DOMAIN pieces /\ Out \in SUBSET DOMAIN pieces
    BY DEF InWarehouse, Out
<1>2. \A r \in Receipts : lots[r].onHand \in Nat /\ lots[r].reserved \in Nat
    BY DEF MetalInv, BarsOK
<1>3. QED
    BY <1>1, <1>2, Accounts, FinitePieces DEF MetalInv, BarsAccounted

LEMMA BookedAfter ==
    ASSUME BarsOK', balance' - Amount(Lengths', InWarehouse') = balance - Amount(Lengths, InWarehouse),
           Amount(ReceivedBy', Receipts)
             = Amount(Lengths', InWarehouse') + Amount(Lengths', Out') + Amount(UsedBy', Issues),
           \A r \in Receipts : /\ lots'[r].onHand = Cardinality(OnHand(r)')
                               /\ lots'[r].reserved = Cardinality(Reserved(r)')
    PROVE  Booked
<1>1. MetresAccounted'
    BY DEF MetresAccounted, ReceivedBy, LengthOf, Lengths, UsedBy
<1>2. LotCountsBars'
    BY DEF LotCountsBars, OnHand, Reserved
<1>3. InRoom' = Amount(Lengths', InWarehouse') /\ InRoom = Amount(Lengths, InWarehouse)
    BY DEF InRoom, LengthOf, Lengths
<1>4. QED
    BY <1>1, <1>2, <1>3 DEF Booked

\* What is left of a finite set when some members are taken away.
LEMMA FewerLeft ==
    ASSUME NEW S, NEW T, IsFiniteSet(S), T \subseteq S
    PROVE  /\ Cardinality(S \ T) = Cardinality(S) - Cardinality(T)
           /\ Cardinality(T) <= Cardinality(S) /\ Cardinality(T) \in Nat /\ Cardinality(S) \in Nat
<1>1. T \in SUBSET S /\ S \ T \in SUBSET S
    OBVIOUS
<1>2. IsFiniteSet(T) /\ IsFiniteSet(S \ T) /\ Cardinality(T) <= Cardinality(S)
    BY <1>1, FS_Subset
<1>3. Cardinality(T) \in Nat /\ Cardinality(S) \in Nat /\ Cardinality(S \ T) \in Nat
    BY <1>2, FS_CardinalityType
<1>4. (S \ T) \cup T = S /\ (S \ T) \cap T = {}
    OBVIOUS
<1>5. Cardinality((S \ T) \cup T) = Cardinality(S \ T) + Cardinality(T) - Cardinality((S \ T) \cap T)
    BY <1>2, FS_Union
<1>6. Cardinality((S \ T) \cap T) = 0
    BY <1>4, FS_EmptySet
<1>7. Cardinality(S) = Cardinality(S \ T) + Cardinality(T) - 0
    BY <1>4, <1>5, <1>6
<1>8. QED
    BY <1>2, <1>3, <1>7

\* A step that rewrites pieces in place, keeps their lots and lengths and gives them a state that
\* suits them.
Restated ==
    /\ DOMAIN pieces' = DOMAIN pieces
    /\ \A k \in DOMAIN pieces :
         /\ pieces'[k].lot = pieces[k].lot /\ pieces'[k].offcut = pieces[k].offcut
         /\ pieces'[k].length = pieces[k].length
         /\ pieces'[k].status = "OFFCUT" => pieces[k].offcut
         /\ pieces'[k].status \in {"AVAILABLE", "RESERVED", "ISSUED"} /\ ~pieces[k].offcut
              => pieces[k].status \in {"AVAILABLE", "RESERVED", "ISSUED"}
         /\ pieces'[k].status = "deleted" <=> pieces[k].status = "deleted"

LEMMA RestatedKeeps ==
    ASSUME MetalInv, Restated, UNCHANGED receipts, balance' \in Int, lots' \in [Receipts -> [onHand : Nat, reserved : Nat]],
           \A i \in Issues : issues'[i].cut = issues[i].cut /\ issues'[i].lost = issues[i].lost
    PROVE  /\ BarsOK' /\ Lengths' = Lengths /\ \A r \in Receipts : BarsOf(r)' = BarsOf(r)
           /\ Amount(ReceivedBy', Receipts) = Amount(ReceivedBy, Receipts)
           /\ Amount(UsedBy', Issues) = Amount(UsedBy, Issues)
<1>1. \A r \in Receipts : BarsOf(r)' = BarsOf(r)
    BY DEF Restated, BarsOf, OfLot
<1>2. BarsOK'
    BY <1>1 DEF MetalInv, BarsOK, Restated
<1>3. Lengths' = Lengths
    BY DEF Restated, Lengths
<1>4. ReceivedBy' = ReceivedBy
    BY DEF ReceivedBy
<1>5. \A i \in Issues : UsedBy'[i] = UsedBy[i]
    BY DEF UsedBy
<1>6. QED
    BY <1>1, <1>2, <1>3, <1>4, <1>5, AmountSame

\* A piece reserved stays where it is; a bar counts as reserved in its lot.
LEMMA ReserveBooks ==
    ASSUME MetalInv, NEW i \in Issues, NEW k \in DOMAIN pieces, ReservePiece(i, k)
    PROVE  Booked
<1>1. /\ pieces' = [pieces EXCEPT ![k].status = "RESERVED", ![k].issue = {i}]
      /\ issues' = [issues EXCEPT ![i].links = @ \cup {k},
                                  ![i].status = IF @ = "ISSUED" THEN @ ELSE "RESERVED"]
      /\ lots' = IF pieces[k].offcut THEN lots ELSE [lots EXCEPT ![pieces[k].lot].reserved = @ + 1]
      /\ pieces[k].status \in {"AVAILABLE", "OFFCUT"} /\ UNCHANGED <<receipts, balance>>
    BY DEF ReservePiece
<1>2. pieces[k] \in PieceRows /\ issues \in [Issues -> IssueRows]
    BY FinitePieces DEF MetalInv, HeldInv, RowsOK
<1>3. /\ DOMAIN pieces' = DOMAIN pieces /\ \A n \in DOMAIN pieces \ {k} : pieces'[n] = pieces[n]
      /\ pieces'[k].status = "RESERVED" /\ pieces'[k].lot = pieces[k].lot
      /\ pieces'[k].offcut = pieces[k].offcut /\ pieces'[k].length = pieces[k].length
    BY <1>1, <1>2 DEF PieceRows
<1>4. \A j \in Issues : issues'[j].cut = issues[j].cut /\ issues'[j].lost = issues[j].lost
    BY <1>1, <1>2 DEF IssueRows
<1>5. \A n \in DOMAIN pieces : pieces[n].status = "OFFCUT" => pieces[n].offcut
    BY DEF MetalInv, BarsOK
<1>6. Restated
    BY <1>1, <1>3, <1>5 DEF Restated
<1>7. /\ lots' \in [Receipts -> [onHand : Nat, reserved : Nat]]
      /\ \A r \in Receipts : /\ lots'[r].onHand = lots[r].onHand
                             /\ lots'[r].reserved = lots[r].reserved
                                  + IF r = pieces[k].lot /\ ~pieces[k].offcut THEN 1 ELSE 0
    <2>1. lots \in [Receipts -> [onHand : Nat, reserved : Nat]] /\ pieces[k].lot \in Receipts
        BY <1>2 DEF MetalInv, BarsOK, PieceRows
    <2>2. QED
        BY <1>1, <2>1
<1>8. balance' \in Int
    BY <1>1 DEF MetalInv, BarsOK
<1>9. /\ BarsOK' /\ Lengths' = Lengths /\ \A r \in Receipts : BarsOf(r)' = BarsOf(r)
      /\ Amount(ReceivedBy', Receipts) = Amount(ReceivedBy, Receipts)
      /\ Amount(UsedBy', Issues) = Amount(UsedBy, Issues)
    BY <1>1, <1>4, <1>6, <1>7, <1>8, RestatedKeeps
<1>10. InWarehouse' = InWarehouse /\ Out' = Out
    BY <1>1, <1>3 DEF InWarehouse, Out
<1>11. ASSUME NEW r \in Receipts
       PROVE  /\ lots'[r].onHand = Cardinality(OnHand(r)')
              /\ lots'[r].reserved = Cardinality(Reserved(r)')
    <2>1. OnHand(r)' = OnHand(r)
        BY <1>1, <1>3, <1>5, <1>9 DEF OnHand, BarsOf, OfLot
    <2>2. Reserved(r)' = IF r = pieces[k].lot /\ ~pieces[k].offcut THEN Reserved(r) \cup {k} ELSE Reserved(r)
        BY <1>1, <1>3, <1>9 DEF Reserved, BarsOf, OfLot
    <2>3. k \notin Reserved(r) /\ IsFiniteSet(Reserved(r))
        <3>1. Reserved(r) \in SUBSET DOMAIN pieces
            BY DEF Reserved, BarsOf, OfLot
        <3>2. QED
            BY <1>1, <3>1, FinitePieces DEF Reserved
    <2>4. Cardinality(Reserved(r) \cup {k}) = Cardinality(Reserved(r)) + 1
        BY <2>3, FS_AddElement
    <2>5. QED
        BY <1>7, <2>1, <2>2, <2>4, BookedBefore
<1>12. QED
    BY <1>1, <1>9, <1>10, <1>11, BookedBefore, BookedAfter

\* The pieces reserved by a document, and the bars of a lot among them.
LEMMA ReservedPieces ==
    ASSUME MetalInv, NEW i \in Issues
    PROVE  /\ ReservedFor(i) \in SUBSET DOMAIN pieces
           /\ \A k \in ReservedFor(i) : pieces[k].status = "RESERVED"
           /\ \A r \in Receipts :
                LET mine == {k \in ReservedFor(i) : pieces[k].lot = r /\ ~pieces[k].offcut}
                IN /\ BarsAmong(ReservedFor(i), r) = Cardinality(mine)
                   /\ mine \subseteq Reserved(r) /\ mine \subseteq OnHand(r)
                   /\ Cardinality(mine) \in Nat
                   /\ Cardinality(mine) <= lots[r].reserved /\ Cardinality(mine) <= lots[r].onHand
                   /\ Cardinality(Reserved(r) \ mine) = lots[r].reserved - Cardinality(mine)
                   /\ Cardinality(OnHand(r) \ mine) = lots[r].onHand - Cardinality(mine)
<1>1. ReservedFor(i) \in SUBSET DOMAIN pieces /\ \A k \in ReservedFor(i) : pieces[k].status = "RESERVED"
    BY DEF ReservedFor, MetalInv, HeldInv, HeldByOneIssue
<1>2. ASSUME NEW r \in Receipts
      PROVE  LET mine == {k \in ReservedFor(i) : pieces[k].lot = r /\ ~pieces[k].offcut}
             IN /\ BarsAmong(ReservedFor(i), r) = Cardinality(mine)
                /\ mine \subseteq Reserved(r) /\ mine \subseteq OnHand(r)
                /\ Cardinality(mine) \in Nat
                /\ Cardinality(mine) <= lots[r].reserved /\ Cardinality(mine) <= lots[r].onHand
                /\ Cardinality(Reserved(r) \ mine) = lots[r].reserved - Cardinality(mine)
                /\ Cardinality(OnHand(r) \ mine) = lots[r].onHand - Cardinality(mine)
    <2> DEFINE mine == {k \in ReservedFor(i) : pieces[k].lot = r /\ ~pieces[k].offcut}
    <2>1. BarsAmong(ReservedFor(i), r) = Cardinality(mine)
        BY DEF BarsAmong
    <2>2. mine \subseteq Reserved(r) /\ mine \subseteq OnHand(r)
        BY <1>1 DEF Reserved, OnHand, BarsOf, OfLot
    <2> HIDE DEF mine
    <2>3. Reserved(r) \in SUBSET DOMAIN pieces /\ OnHand(r) \in SUBSET DOMAIN pieces
        BY DEF Reserved, OnHand, BarsOf, OfLot
    <2>4. IsFiniteSet(Reserved(r)) /\ IsFiniteSet(OnHand(r))
        BY <2>3, FinitePieces
    <2>5. /\ Cardinality(mine) \in Nat
          /\ Cardinality(mine) <= Cardinality(Reserved(r)) /\ Cardinality(mine) <= Cardinality(OnHand(r))
          /\ Cardinality(Reserved(r) \ mine) = Cardinality(Reserved(r)) - Cardinality(mine)
          /\ Cardinality(OnHand(r) \ mine) = Cardinality(OnHand(r)) - Cardinality(mine)
        BY <2>2, <2>4, FewerLeft
    <2>6. lots[r].onHand = Cardinality(OnHand(r)) /\ lots[r].reserved = Cardinality(Reserved(r))
        BY BookedBefore
    <2>7. /\ Cardinality(mine) <= lots[r].reserved /\ Cardinality(mine) <= lots[r].onHand
          /\ Cardinality(Reserved(r) \ mine) = lots[r].reserved - Cardinality(mine)
          /\ Cardinality(OnHand(r) \ mine) = lots[r].onHand - Cardinality(mine)
        BY <2>5, <2>6
    <2>8. QED
        BY <2>1, <2>2, <2>5, <2>7 DEF mine
<1>3. QED
    BY <1>1, <1>2

\* What a document reserved goes back, bar by bar.
LEMMA ReleaseBooks == ASSUME MetalInv, NEW i \in Issues, ReleaseReservation(i) PROVE Booked
<1> DEFINE mine(r) == {k \in ReservedFor(i) : pieces[k].lot = r /\ ~pieces[k].offcut}
<1>1. /\ pieces' = [k \in DOMAIN pieces |->
                    IF k \notin ReservedFor(i) THEN pieces[k]
                    ELSE [pieces[k] EXCEPT !.status = IF pieces[k].offcut THEN "OFFCUT" ELSE "AVAILABLE",
                                           !.issue = {}]]
      /\ lots' = [r \in Receipts |->
                    [lots[r] EXCEPT !.reserved = Larger(0, @ - BarsAmong(ReservedFor(i), r))]]
      /\ issues' = [issues EXCEPT ![i].status = "DRAFT", ![i].links = {}]
      /\ UNCHANGED <<balance, receipts>>
    BY DEF ReleaseReservation
<1>2. /\ \A k \in DOMAIN pieces : pieces[k] \in PieceRows
      /\ issues \in [Issues -> IssueRows] /\ lots \in [Receipts -> [onHand : Nat, reserved : Nat]]
    BY FinitePieces DEF MetalInv, HeldInv, RowsOK, BarsOK
<1>3. /\ DOMAIN pieces' = DOMAIN pieces /\ \A k \in DOMAIN pieces \ ReservedFor(i) : pieces'[k] = pieces[k]
      /\ \A k \in ReservedFor(i) :
           /\ pieces'[k].status = IF pieces[k].offcut THEN "OFFCUT" ELSE "AVAILABLE"
           /\ pieces'[k].lot = pieces[k].lot /\ pieces'[k].offcut = pieces[k].offcut
           /\ pieces'[k].length = pieces[k].length /\ pieces[k].status = "RESERVED"
    BY <1>1, <1>2, ReservedPieces DEF PieceRows
<1>4. \A j \in Issues : issues'[j].cut = issues[j].cut /\ issues'[j].lost = issues[j].lost
    BY <1>1, <1>2 DEF IssueRows
<1>5. \A n \in DOMAIN pieces : pieces[n].status = "OFFCUT" => pieces[n].offcut
    BY DEF MetalInv, BarsOK
<1>6. Restated
    BY <1>3, <1>5 DEF Restated
<1>7. /\ lots' \in [Receipts -> [onHand : Nat, reserved : Nat]]
      /\ \A r \in Receipts : lots'[r].onHand = lots[r].onHand
                             /\ lots'[r].reserved = lots[r].reserved - Cardinality(mine(r))
    <2>1. ASSUME NEW r \in Receipts
          PROVE  /\ [lots[r] EXCEPT !.reserved = Larger(0, @ - BarsAmong(ReservedFor(i), r))]
                      \in [onHand : Nat, reserved : Nat]
                 /\ lots'[r].onHand = lots[r].onHand
                 /\ lots'[r].reserved = lots[r].reserved - Cardinality(mine(r))
        <3>1. /\ BarsAmong(ReservedFor(i), r) = Cardinality(mine(r))
              /\ Cardinality(mine(r)) \in Nat /\ Cardinality(mine(r)) <= lots[r].reserved
            BY ReservedPieces
        <3> HIDE DEF mine
        <3>2. Larger(0, lots[r].reserved - BarsAmong(ReservedFor(i), r)) = lots[r].reserved - Cardinality(mine(r))
              /\ lots[r].reserved - Cardinality(mine(r)) \in Nat
            BY <1>2, <3>1 DEF Larger
        <3>3. QED
            BY <1>1, <1>2, <3>2
    <2>2. QED
        BY <1>1, <2>1
<1>8. /\ BarsOK' /\ Lengths' = Lengths /\ \A r \in Receipts : BarsOf(r)' = BarsOf(r)
      /\ Amount(ReceivedBy', Receipts) = Amount(ReceivedBy, Receipts)
      /\ Amount(UsedBy', Issues) = Amount(UsedBy, Issues)
    <2>1. balance' \in Int
        BY <1>1 DEF MetalInv, BarsOK
    <2>2. QED
        BY <1>1, <1>4, <1>6, <1>7, <2>1, RestatedKeeps
<1>9. InWarehouse' = InWarehouse /\ Out' = Out
    BY <1>3, ReservedPieces DEF InWarehouse, Out
<1>10. ASSUME NEW r \in Receipts
       PROVE  lots'[r].onHand = Cardinality(OnHand(r)') /\ lots'[r].reserved = Cardinality(Reserved(r)')
    <2>1. OnHand(r)' = OnHand(r)
        BY <1>3, <1>8, ReservedPieces DEF OnHand, BarsOf, OfLot
    <2>2. Reserved(r)' = Reserved(r) \ mine(r)
        BY <1>3, <1>8, ReservedPieces DEF Reserved, BarsOf, OfLot
    <2>3. Cardinality(Reserved(r) \ mine(r)) = lots[r].reserved - Cardinality(mine(r))
        BY ReservedPieces
    <2> HIDE DEF mine
    <2>4. QED
        BY <1>7, <2>1, <2>2, <2>3, BookedBefore
<1>11. QED
    BY <1>1, <1>8, <1>9, <1>10, BookedBefore, BookedAfter

\* What a document reserved leaves the warehouse, and its lots, for the document.
LEMMA IssueBooks == ASSUME MetalInv, NEW i \in Issues, IssueReserved(i) PROVE Booked
<1> DEFINE out == ReservedFor(i)
           mine(r) == {k \in ReservedFor(i) : pieces[k].lot = r /\ ~pieces[k].offcut}
<1>1. /\ pieces' = [k \in DOMAIN pieces |-> IF k \in out THEN [pieces[k] EXCEPT !.status = "ISSUED"] ELSE pieces[k]]
      /\ lots' = [r \in Receipts |-> TakenFrom(lots[r], BarsAmong(out, r))]
      /\ balance' = balance - Amount(Lengths, out)
      /\ issues' = [issues EXCEPT ![i].status = "ISSUED"]
      /\ UNCHANGED receipts
    BY DEF IssueReserved, LengthOf, Lengths
<1>2. /\ \A k \in DOMAIN pieces : pieces[k] \in PieceRows
      /\ issues \in [Issues -> IssueRows] /\ lots \in [Receipts -> [onHand : Nat, reserved : Nat]]
      /\ out \in SUBSET DOMAIN pieces /\ \A k \in out : pieces[k].status = "RESERVED"
    BY FinitePieces, ReservedPieces DEF MetalInv, HeldInv, RowsOK, BarsOK
<1>3. /\ DOMAIN pieces' = DOMAIN pieces /\ \A k \in DOMAIN pieces \ out : pieces'[k] = pieces[k]
      /\ \A k \in out :
           /\ pieces'[k].status = "ISSUED"
           /\ pieces'[k].lot = pieces[k].lot /\ pieces'[k].offcut = pieces[k].offcut
           /\ pieces'[k].length = pieces[k].length
    BY <1>1, <1>2 DEF PieceRows
<1>4. \A j \in Issues : issues'[j].cut = issues[j].cut /\ issues'[j].lost = issues[j].lost
    BY <1>1, <1>2 DEF IssueRows
<1>5. \A n \in DOMAIN pieces : pieces[n].status = "OFFCUT" => pieces[n].offcut
    BY DEF MetalInv, BarsOK
<1>6. Restated
    BY <1>2, <1>3, <1>5 DEF Restated
<1>7. /\ lots' \in [Receipts -> [onHand : Nat, reserved : Nat]]
      /\ \A r \in Receipts : lots'[r].onHand = lots[r].onHand - Cardinality(mine(r))
                             /\ lots'[r].reserved = lots[r].reserved - Cardinality(mine(r))
    <2>1. ASSUME NEW r \in Receipts
          PROVE  /\ TakenFrom(lots[r], BarsAmong(out, r)) \in [onHand : Nat, reserved : Nat]
                 /\ lots'[r].onHand = lots[r].onHand - Cardinality(mine(r))
                 /\ lots'[r].reserved = lots[r].reserved - Cardinality(mine(r))
        <3>1. /\ BarsAmong(out, r) = Cardinality(mine(r)) /\ Cardinality(mine(r)) \in Nat
              /\ Cardinality(mine(r)) <= lots[r].reserved /\ Cardinality(mine(r)) <= lots[r].onHand
            BY ReservedPieces
        <3> HIDE DEF mine, out
        <3>2. /\ Larger(0, lots[r].reserved - BarsAmong(out, r)) = lots[r].reserved - Cardinality(mine(r))
              /\ Larger(0, lots[r].onHand - BarsAmong(out, r)) = lots[r].onHand - Cardinality(mine(r))
              /\ lots[r].reserved - Cardinality(mine(r)) \in Nat /\ lots[r].onHand - Cardinality(mine(r)) \in Nat
            BY <1>2, <3>1 DEF Larger
        <3>3. QED
            BY <1>1, <3>2 DEF TakenFrom
    <2>2. QED
        BY <1>1, <2>1
<1>8. /\ InWarehouse \in SUBSET DOMAIN pieces /\ out \subseteq InWarehouse
      /\ InWarehouse' = InWarehouse \ out /\ Out' = Out \cup out /\ Out \cap out = {} /\ Out \in SUBSET DOMAIN pieces
    BY <1>2, <1>3 DEF InWarehouse, Out
<1> HIDE DEF out
<1>9. /\ Amount(Lengths, InWarehouse) = Amount(Lengths, InWarehouse \ out) + Amount(Lengths, out)
      /\ Amount(Lengths, InWarehouse \ out) \in Nat /\ Amount(Lengths, out) \in Nat
      /\ Amount(Lengths, Out \cup out) = Amount(Lengths, Out) + Amount(Lengths, out)
    <2>1. IsFiniteSet(InWarehouse) /\ IsFiniteSet(Out) /\ IsFiniteSet(out)
        BY <1>2, <1>8, FinitePieces
    <2>2. \A k \in DOMAIN pieces : Lengths[k] \in Nat
        BY FinitePieces
    <2>3. (\A k \in InWarehouse : Lengths[k] \in Nat) /\ \A k \in Out \cup out : Lengths[k] \in Nat
        BY <1>2, <1>8, <2>2
    <2>4. /\ Amount(Lengths, InWarehouse) = Amount(Lengths, InWarehouse \ out) + Amount(Lengths, out)
          /\ Amount(Lengths, InWarehouse \ out) \in Nat /\ Amount(Lengths, out) \in Nat
        BY <1>8, <2>1, <2>3, AmountLess
    <2>5. Amount(Lengths, Out \cup out) = Amount(Lengths, Out) + Amount(Lengths, out)
        BY <1>8, <2>1, <2>3, AmountUnion
    <2>6. QED
        BY <2>4, <2>5
<1>10. balance \in Int /\ balance' \in Int
    BY <1>1, <1>9 DEF MetalInv, BarsOK
<1>11. /\ BarsOK' /\ Lengths' = Lengths /\ \A r \in Receipts : BarsOf(r)' = BarsOf(r)
       /\ Amount(ReceivedBy', Receipts) = Amount(ReceivedBy, Receipts)
       /\ Amount(UsedBy', Issues) = Amount(UsedBy, Issues)
    BY <1>1, <1>4, <1>6, <1>7, <1>10, RestatedKeeps
<1>12. ASSUME NEW r \in Receipts
       PROVE  lots'[r].onHand = Cardinality(OnHand(r)') /\ lots'[r].reserved = Cardinality(Reserved(r)')
    <2>1. OnHand(r)' = OnHand(r) \ mine(r)
        BY <1>2, <1>3, <1>11 DEF OnHand, BarsOf, OfLot, out
    <2>2. Reserved(r)' = Reserved(r) \ mine(r)
        BY <1>2, <1>3, <1>11 DEF Reserved, BarsOf, OfLot, out
    <2>3. /\ Cardinality(Reserved(r) \ mine(r)) = lots[r].reserved - Cardinality(mine(r))
          /\ Cardinality(OnHand(r) \ mine(r)) = lots[r].onHand - Cardinality(mine(r))
        BY ReservedPieces
    <2> HIDE DEF mine
    <2>4. QED
        BY <1>7, <2>1, <2>2, <2>3
<1>13. /\ Amount(ReceivedBy', Receipts)
            = Amount(Lengths', InWarehouse') + Amount(Lengths', Out') + Amount(UsedBy', Issues)
       /\ balance' - Amount(Lengths', InWarehouse') = balance - Amount(Lengths, InWarehouse)
    BY <1>1, <1>8, <1>9, <1>10, <1>11, BookedBefore, NumbersBooked
<1>14. QED
    BY <1>11, <1>12, <1>13, BookedAfter

\* A sequence followed by copies of one value.
LEMMA FollowedByCopies ==
    ASSUME NEW T, NEW s \in Seq(T), NEW x \in T, NEW b \in Nat, NEW t, t = s \o [k \in 1 .. b |-> x]
    PROVE  /\ t \in Seq(T) /\ DOMAIN t = 1 .. (Len(s) + b)
           /\ \A k \in 1 .. Len(s) : t[k] = s[k]
           /\ \A k \in Len(s) + 1 .. Len(s) + b : t[k] = x
<1> DEFINE u == [k \in 1 .. b |-> x]
<1>1. u \in Seq(T) /\ Len(u) = b /\ \A k \in 1 .. b : u[k] = x
    OBVIOUS
<1>2. t = s \o u
    OBVIOUS
<1> HIDE DEF u
<1>3. /\ t \in Seq(T) /\ Len(t) = Len(s) + b
      /\ \A k \in 1 .. Len(t) : t[k] = IF k <= Len(s) THEN s[k] ELSE u[k - Len(s)]
    BY <1>1, <1>2
<1>4. QED
    BY <1>1, <1>3

\* A receipt confirmed brings its bars, all of them whole, into the warehouse.
LEMMA ConfirmBooks == ASSUME MetalInv, NEW r \in Receipts, ConfirmReceipt(r) PROVE Booked
<1> DEFINE bars == receipts[r].bars
           n == Len(pieces)
           new == n + 1 .. n + bars
<1>1. /\ receipts' = [receipts EXCEPT ![r].status = "CONFIRMED"] /\ receipts[r].status = "DRAFT"
      /\ lots' = [lots EXCEPT ![r] = [onHand |-> bars, reserved |-> 0]]
      /\ pieces' = pieces \o [k \in 1 .. bars |-> Bar(r)]
      /\ balance' = balance + bars * BarLength /\ UNCHANGED issues
    BY DEF ConfirmReceipt
<1>2. /\ receipts \in [Receipts -> [status : ReceiptStates, bars : Nat]] /\ bars \in Nat
      /\ n \in Nat /\ DOMAIN pieces = 1 .. n /\ pieces \in Seq(PieceRows)
      /\ \A k \in DOMAIN pieces : pieces[k] \in PieceRows
      /\ lots \in [Receipts -> [onHand : Nat, reserved : Nat]] /\ balance \in Int
      /\ BarLength \in Nat /\ bars * BarLength \in Nat
    <2>1. receipts \in [Receipts -> [status : ReceiptStates, bars : Nat]] /\ pieces \in Seq(PieceRows)
        BY DEF MetalInv, HeldInv, RowsOK
    <2>2. bars \in Nat /\ BarLength \in Nat
        BY <2>1, MaterialsAssumption
    <2>3. bars * BarLength \in Nat
        BY <2>2
    <2>4. QED
        BY <2>1, <2>2, <2>3, FinitePieces DEF MetalInv, BarsOK
<1>3. /\ receipts'[r].status = "CONFIRMED" /\ receipts'[r].bars = bars
      /\ \A s \in Receipts \ {r} : receipts'[s] = receipts[s]
    BY <1>1, <1>2
<1>4. /\ DOMAIN pieces' = 1 .. (n + bars) /\ \A k \in DOMAIN pieces : pieces'[k] = pieces[k]
      /\ \A k \in new : pieces'[k] = Bar(r)
    <2>1. Bar(r) \in PieceRows
        BY MaterialsAssumption DEF Bar, PieceRows, PieceStates
    <2> HIDE DEF n, bars
    <2>2. /\ DOMAIN pieces' = 1 .. (Len(pieces) + bars)
          /\ \A k \in 1 .. Len(pieces) : pieces'[k] = pieces[k]
          /\ \A k \in Len(pieces) + 1 .. Len(pieces) + bars : pieces'[k] = Bar(r)
        BY <1>1, <1>2, <2>1, FollowedByCopies
    <2>3. QED
        BY <1>2, <2>2 DEF n
<1>5. \A k \in DOMAIN pieces : pieces[k].lot # r
    BY <1>1 DEF MetalInv, BarsOK
<1>6. /\ DOMAIN pieces \cap new = {} /\ DOMAIN pieces' = DOMAIN pieces \cup new
      /\ IsFiniteSet(new) /\ Cardinality(new) = bars
    <2>1. IsFiniteSet(new) /\ Cardinality(new) = IF n + 1 > n + bars THEN 0 ELSE (n + bars) - (n + 1) + 1
        <3>1. n + 1 \in Int /\ n + bars \in Int
            BY <1>2
        <3>2. QED
            BY <3>1, FS_Interval
    <2>2. n \in Nat /\ bars \in Nat /\ DOMAIN pieces = 1 .. n /\ DOMAIN pieces' = 1 .. (n + bars)
        BY <1>2, <1>4
    <2> HIDE DEF n, bars
    <2>3. Cardinality(new) = bars
        BY <2>1, <2>2
    <2>4. DOMAIN pieces \cap new = {} /\ DOMAIN pieces' = DOMAIN pieces \cup new
        BY <2>2
    <2>5. QED
        BY <2>1, <2>3, <2>4
<1>7. /\ Bar(r).lot = r /\ Bar(r).length = BarLength /\ Bar(r).status = "AVAILABLE" /\ Bar(r).offcut = FALSE
    BY DEF Bar
<1> HIDE DEF new, n
<1>8. /\ BarsOf(r)' = new /\ OnHand(r)' = new /\ Reserved(r)' = {}
      /\ \A s \in Receipts \ {r} : BarsOf(s)' = BarsOf(s) /\ OnHand(s)' = OnHand(s) /\ Reserved(s)' = Reserved(s)
    <2>1. BarsOf(r)' = new
        BY <1>4, <1>5, <1>6, <1>7 DEF BarsOf, OfLot
    <2>2. OnHand(r)' = new /\ Reserved(r)' = {}
        BY <1>4, <1>7, <2>1 DEF OnHand, Reserved
    <2>3. ASSUME NEW s \in Receipts \ {r}
          PROVE  BarsOf(s)' = BarsOf(s) /\ OnHand(s)' = OnHand(s) /\ Reserved(s)' = Reserved(s)
        <3>1. BarsOf(s)' = BarsOf(s)
            BY <1>4, <1>6, <1>7 DEF BarsOf, OfLot
        <3>2. QED
            BY <1>4, <3>1 DEF OnHand, Reserved, BarsOf, OfLot
    <2>4. QED
        BY <2>1, <2>2, <2>3
<1>9. InWarehouse' = InWarehouse \cup new /\ Out' = Out
    BY <1>4, <1>6, <1>7 DEF InWarehouse, Out
<1>10. \A k \in DOMAIN pieces : Lengths'[k] = Lengths[k] /\ Lengths'[k] \in Nat
    BY <1>4, <1>6, FinitePieces DEF Lengths
<1>11. \A k \in new : Lengths'[k] = BarLength
    BY <1>4, <1>6, <1>7 DEF Lengths
<1>12. /\ Amount(Lengths', InWarehouse') = Amount(Lengths, InWarehouse) + bars * BarLength
       /\ Amount(Lengths', Out') = Amount(Lengths, Out)
    <2>1. InWarehouse \in SUBSET DOMAIN pieces /\ Out \in SUBSET DOMAIN pieces
        BY DEF InWarehouse, Out
    <2>2. Amount(Lengths', InWarehouse) = Amount(Lengths, InWarehouse) /\ Amount(Lengths', Out) = Amount(Lengths, Out)
        BY <1>10, <2>1, AmountSame
    <2>3. Amount(Lengths', new) = bars * BarLength
        BY <1>2, <1>6, <1>11, AmountOfSame
    <2>4. /\ IsFiniteSet(InWarehouse) /\ InWarehouse \cap new = {}
          /\ \A k \in InWarehouse \cup new : Lengths'[k] \in Nat
        BY <1>2, <1>6, <1>10, <1>11, <2>1, FinitePieces
    <2>5. Amount(Lengths', InWarehouse \cup new) = Amount(Lengths', InWarehouse) + Amount(Lengths', new)
        BY <1>6, <2>4, AmountUnion
    <2>6. QED
        BY <1>9, <2>2, <2>3, <2>5
<1>13. Amount(ReceivedBy', Receipts) = Amount(ReceivedBy, Receipts) + bars * BarLength
    <2>1. /\ ReceivedBy[r] = 0 /\ ReceivedBy'[r] = bars * BarLength
          /\ \A s \in Receipts \ {r} : ReceivedBy'[s] = ReceivedBy[s]
        BY <1>1, <1>3 DEF ReceivedBy
    <2>2. Amount(ReceivedBy', Receipts) + ReceivedBy[r] = Amount(ReceivedBy, Receipts) + ReceivedBy'[r]
          /\ Amount(ReceivedBy', Receipts) \in Nat
        <3>1. ReceivedBy'[r] \in Nat
            BY <1>2, <2>1
        <3>2. QED
            BY <2>1, <3>1, NumbersBooked, AmountChanged
    <2>3. QED
        BY <1>2, <2>1, <2>2, NumbersBooked
<1>14. Amount(UsedBy', Issues) = Amount(UsedBy, Issues)
    <2>1. UsedBy' = UsedBy
        BY <1>1 DEF UsedBy
    <2>2. QED
        BY <2>1
<1>15. BarsOK'
    <2>1. ASSUME NEW k \in DOMAIN pieces'
          PROVE  /\ pieces'[k].length \in Nat
                 /\ pieces'[k].status = "OFFCUT" => pieces'[k].offcut
                 /\ ~pieces'[k].offcut /\ pieces'[k].status \in {"AVAILABLE", "RESERVED", "ISSUED"}
                      => pieces'[k].length = BarLength
                 /\ receipts'[pieces'[k].lot].status \in {"CONFIRMED", "REVERSED"}
        <3>1. CASE k \in DOMAIN pieces
            <4>1. pieces'[k] = pieces[k] /\ pieces[k].lot \in Receipts \ {r}
                BY <1>2, <1>4, <1>5, <3>1 DEF PieceRows
            <4>2. QED
                BY <1>3, <3>1, <4>1 DEF MetalInv, BarsOK
        <3>2. CASE k \in new
            BY <1>2, <1>3, <1>4, <1>7, <3>2
        <3>3. QED
            BY <1>6, <3>1, <3>2
    <2>2. ASSUME NEW s \in Receipts, receipts'[s].status = "CONFIRMED"
          PROVE  Cardinality(BarsOf(s)') = receipts'[s].bars
        BY <1>3, <1>6, <1>8, <2>2 DEF MetalInv, BarsOK
    <2>3. lots' \in [Receipts -> [onHand : Nat, reserved : Nat]] /\ balance' \in Int
        BY <1>1, <1>2
    <2>4. \A i \in Issues : issues'[i].cut \in Nat /\ issues'[i].lost \in Nat
        BY <1>1 DEF MetalInv, BarsOK
    <2>5. QED
        BY <2>1, <2>2, <2>3, <2>4 DEF BarsOK
<1>16. ASSUME NEW s \in Receipts
       PROVE  lots'[s].onHand = Cardinality(OnHand(s)') /\ lots'[s].reserved = Cardinality(Reserved(s)')
    <2>1. CASE s = r
        <3>1. lots'[s].onHand = bars /\ lots'[s].reserved = 0
            BY <1>1, <1>2, <2>1
        <3>2. QED
            BY <1>6, <1>8, <2>1, <3>1, FS_EmptySet
    <2>2. CASE s # r
        <3>1. lots'[s] = lots[s]
            BY <1>1, <1>2, <2>2
        <3>2. QED
            BY <1>8, <2>2, <3>1, BookedBefore
    <2>3. QED
        BY <2>1, <2>2
<1>17. /\ Amount(ReceivedBy', Receipts)
            = Amount(Lengths', InWarehouse') + Amount(Lengths', Out') + Amount(UsedBy', Issues)
       /\ balance' - Amount(Lengths', InWarehouse') = balance - Amount(Lengths, InWarehouse)
    <2> DEFINE m == bars * BarLength
    <2>1. /\ m \in Nat /\ balance' = balance + m /\ balance \in Int
          /\ Amount(Lengths', InWarehouse') = Amount(Lengths, InWarehouse) + m
          /\ Amount(ReceivedBy', Receipts) = Amount(ReceivedBy, Receipts) + m
        BY <1>1, <1>2, <1>12, <1>13
    <2> HIDE DEF m
    <2>2. QED
        BY <1>12, <1>14, <2>1, BookedBefore, NumbersBooked
<1>18. QED
    BY <1>15, <1>16, <1>17, BookedAfter

\* A receipt reversed takes its bars out again, all of them whole and none reserved.
LEMMA ReverseBooks == ASSUME MetalInv, NEW r \in Receipts, ReverseReceipt(r) PROVE Booked
<1> DEFINE bars == receipts[r].bars
           gone == OfLot(r)
<1>1. /\ receipts' = [receipts EXCEPT ![r].status = "REVERSED"] /\ receipts[r].status = "CONFIRMED"
      /\ lots' = [lots EXCEPT ![r].onHand = @ - bars]
      /\ pieces' = [k \in DOMAIN pieces |-> IF k \in gone THEN [pieces[k] EXCEPT !.status = "deleted"] ELSE pieces[k]]
      /\ balance' = balance - bars * BarLength /\ UNCHANGED issues
      /\ lots[r].reserved = 0 /\ lots[r].onHand >= bars
      /\ \A k \in gone : pieces[k].status = "AVAILABLE" /\ ~pieces[k].offcut
    BY DEF ReverseReceipt, Untouched
<1>2. /\ receipts \in [Receipts -> [status : ReceiptStates, bars : Nat]] /\ bars \in Nat
      /\ \A k \in DOMAIN pieces : pieces[k] \in PieceRows
      /\ lots \in [Receipts -> [onHand : Nat, reserved : Nat]] /\ balance \in Int
      /\ BarLength \in Nat /\ bars * BarLength \in Nat
    <2>1. receipts \in [Receipts -> [status : ReceiptStates, bars : Nat]]
        BY DEF MetalInv, HeldInv, RowsOK
    <2>2. bars \in Nat /\ BarLength \in Nat
        BY <2>1, MaterialsAssumption
    <2>3. bars * BarLength \in Nat
        BY <2>2
    <2>4. QED
        BY <2>1, <2>2, <2>3, FinitePieces DEF MetalInv, BarsOK
<1>3. /\ receipts'[r].status = "REVERSED" /\ receipts'[r].bars = bars
      /\ \A s \in Receipts \ {r} : receipts'[s] = receipts[s]
    BY <1>1, <1>2
<1>4. /\ gone \in SUBSET DOMAIN pieces /\ gone = BarsOf(r) /\ gone = OnHand(r) /\ gone \subseteq InWarehouse
      /\ \A k \in DOMAIN pieces : k \in gone <=> pieces[k].lot = r /\ pieces[k].status # "deleted"
    BY <1>1 DEF BarsOf, OfLot, OnHand, InWarehouse
<1> HIDE DEF gone
<1>5. /\ DOMAIN pieces' = DOMAIN pieces /\ \A k \in DOMAIN pieces \ gone : pieces'[k] = pieces[k]
      /\ \A k \in gone :
           /\ pieces'[k].status = "deleted"
           /\ pieces'[k].lot = pieces[k].lot /\ pieces'[k].offcut = pieces[k].offcut
           /\ pieces'[k].length = pieces[k].length
    BY <1>1, <1>2, <1>4 DEF PieceRows
<1>6. IsFiniteSet(gone) /\ Cardinality(gone) = bars /\ lots[r].onHand = bars
    <2>1. Cardinality(BarsOf(r)) = bars
        BY <1>1 DEF MetalInv, BarsOK
    <2>2. QED
        BY <1>4, <2>1, BookedBefore, FinitePieces
<1>7. /\ BarsOf(r)' = {} /\ OnHand(r)' = {} /\ Reserved(r)' = {}
      /\ \A s \in Receipts \ {r} : BarsOf(s)' = BarsOf(s) /\ OnHand(s)' = OnHand(s) /\ Reserved(s)' = Reserved(s)
    <2>1. BarsOf(r)' = {}
        BY <1>4, <1>5 DEF BarsOf, OfLot
    <2>2. OnHand(r)' = {} /\ Reserved(r)' = {}
        BY <2>1 DEF OnHand, Reserved
    <2>3. ASSUME NEW s \in Receipts \ {r}
          PROVE  BarsOf(s)' = BarsOf(s) /\ OnHand(s)' = OnHand(s) /\ Reserved(s)' = Reserved(s)
        <3>1. BarsOf(s)' = BarsOf(s) /\ BarsOf(s) \cap gone = {}
            BY <1>4, <1>5 DEF BarsOf, OfLot
        <3>2. \A k \in BarsOf(s) : pieces'[k] = pieces[k]
            BY <1>5, <3>1 DEF BarsOf, OfLot
        <3>3. QED
            BY <3>1, <3>2 DEF OnHand, Reserved
    <2>4. QED
        BY <2>1, <2>2, <2>3
<1>8. InWarehouse' = InWarehouse \ gone /\ Out' = Out /\ Lengths' = Lengths
    <2>1. InWarehouse' = InWarehouse \ gone
        BY <1>5 DEF InWarehouse
    <2>2. Out' = Out
        BY <1>1, <1>5 DEF Out
    <2>3. Lengths' = Lengths
        BY <1>5 DEF Lengths
    <2>4. QED
        BY <2>1, <2>2, <2>3
<1>9. /\ Amount(Lengths, InWarehouse) = Amount(Lengths, InWarehouse \ gone) + bars * BarLength
      /\ Amount(Lengths, InWarehouse \ gone) \in Nat
    <2>1. InWarehouse \in SUBSET DOMAIN pieces
        BY DEF InWarehouse
    <2>2. IsFiniteSet(InWarehouse) /\ \A k \in InWarehouse : Lengths[k] \in Nat
        BY <2>1, FinitePieces
    <2>3. Amount(Lengths, gone) = bars * BarLength
        <3>1. \A k \in gone : Lengths[k] = BarLength
            BY <1>1, <1>4 DEF MetalInv, BarsOK, Lengths
        <3>2. QED
            BY <1>2, <1>6, <3>1, AmountOfSame
    <2>4. /\ Amount(Lengths, InWarehouse) = Amount(Lengths, InWarehouse \ gone) + Amount(Lengths, gone)
          /\ Amount(Lengths, InWarehouse \ gone) \in Nat
        BY <1>4, <2>2, AmountLess
    <2>5. QED
        BY <2>3, <2>4
<1>10. Amount(ReceivedBy', Receipts) + bars * BarLength = Amount(ReceivedBy, Receipts)
       /\ Amount(ReceivedBy', Receipts) \in Nat
    <2>1. /\ ReceivedBy'[r] = 0 /\ ReceivedBy[r] = bars * BarLength
          /\ \A s \in Receipts \ {r} : ReceivedBy'[s] = ReceivedBy[s]
        BY <1>1, <1>3 DEF ReceivedBy
    <2>2. Amount(ReceivedBy', Receipts) + ReceivedBy[r] = Amount(ReceivedBy, Receipts) + ReceivedBy'[r]
          /\ Amount(ReceivedBy', Receipts) \in Nat
        <3>1. ReceivedBy'[r] \in Nat
            BY <2>1
        <3>2. QED
            BY <2>1, <3>1, NumbersBooked, AmountChanged
    <2>3. QED
        BY <1>2, <2>1, <2>2, NumbersBooked
<1>11. Amount(UsedBy', Issues) = Amount(UsedBy, Issues)
    <2>1. UsedBy' = UsedBy
        BY <1>1 DEF UsedBy
    <2>2. QED
        BY <2>1
<1>12. lots' \in [Receipts -> [onHand : Nat, reserved : Nat]] /\ lots'[r].onHand = 0 /\ lots'[r].reserved = 0
       /\ \A s \in Receipts \ {r} : lots'[s] = lots[s]
    <2> HIDE DEF bars
    <2>1. /\ DOMAIN lots' = Receipts /\ \A s \in Receipts \ {r} : lots'[s] = lots[s]
          /\ lots'[r] = [lots[r] EXCEPT !.onHand = @ - bars]
        BY <1>1, <1>2
    <2>2. lots[r] \in [onHand : Nat, reserved : Nat] /\ lots[r].onHand - bars = 0
        BY <1>2, <1>6
    <2>3. lots'[r] \in [onHand : Nat, reserved : Nat] /\ lots'[r].onHand = 0 /\ lots'[r].reserved = lots[r].reserved
        BY <2>1, <2>2
    <2>4. lots' = [s \in Receipts |-> lots'[s]]
        BY <1>1, <1>2
    <2>5. \A s \in Receipts : lots'[s] \in [onHand : Nat, reserved : Nat]
        BY <1>2, <2>1, <2>3
    <2>6. QED
        BY <1>1, <2>1, <2>3, <2>4, <2>5
<1>13. BarsOK'
    <2>1. ASSUME NEW k \in DOMAIN pieces
          PROVE  /\ pieces'[k].length \in Nat
                 /\ pieces'[k].status = "OFFCUT" => pieces'[k].offcut
                 /\ ~pieces'[k].offcut /\ pieces'[k].status \in {"AVAILABLE", "RESERVED", "ISSUED"}
                      => pieces'[k].length = BarLength
                 /\ receipts'[pieces'[k].lot].status \in {"CONFIRMED", "REVERSED"}
        <3>1. pieces'[k].lot = pieces[k].lot /\ pieces'[k].length = pieces[k].length
              /\ pieces[k].lot \in Receipts
              /\ (k \notin gone => pieces'[k] = pieces[k]) /\ (k \in gone => pieces'[k].status = "deleted")
            BY <1>2, <1>5 DEF PieceRows
        <3>2. QED
            BY <1>3, <3>1 DEF MetalInv, BarsOK
    <2>2. ASSUME NEW s \in Receipts, receipts'[s].status = "CONFIRMED"
          PROVE  Cardinality(BarsOf(s)') = receipts'[s].bars
        BY <1>3, <1>7, <2>2 DEF MetalInv, BarsOK
    <2>3. balance' \in Int
        BY <1>1, <1>2
    <2>4. \A i \in Issues : issues'[i].cut \in Nat /\ issues'[i].lost \in Nat
        BY <1>1 DEF MetalInv, BarsOK
    <2>5. QED
        BY <1>5, <1>12, <2>1, <2>2, <2>3, <2>4 DEF BarsOK
<1>14. ASSUME NEW s \in Receipts
       PROVE  lots'[s].onHand = Cardinality(OnHand(s)') /\ lots'[s].reserved = Cardinality(Reserved(s)')
    BY <1>7, <1>12, BookedBefore, FS_EmptySet
<1>15. /\ Amount(ReceivedBy', Receipts)
            = Amount(Lengths', InWarehouse') + Amount(Lengths', Out') + Amount(UsedBy', Issues)
       /\ balance' - Amount(Lengths', InWarehouse') = balance - Amount(Lengths, InWarehouse)
    <2> DEFINE m == bars * BarLength
    <2>1. /\ m \in Nat /\ balance' = balance - m /\ balance \in Int
          /\ Amount(Lengths, InWarehouse) = Amount(Lengths', InWarehouse') + m
          /\ Amount(Lengths', InWarehouse') \in Nat /\ Amount(Lengths', Out') = Amount(Lengths, Out)
          /\ Amount(ReceivedBy', Receipts) + m = Amount(ReceivedBy, Receipts)
          /\ Amount(ReceivedBy', Receipts) \in Nat
        BY <1>1, <1>2, <1>8, <1>9, <1>10
    <2> HIDE DEF m
    <2>2. QED
        BY <1>11, <2>1, BookedBefore, NumbersBooked
<1>16. QED
    BY <1>13, <1>14, <1>15, BookedAfter

\* What a cut keeps of a piece, and the place of the offcut it makes.
Kept(k, cut, kerf) ==
    LET remainder == Remainder(pieces[k].length, cut, kerf) IN IF Reusable(remainder) THEN remainder ELSE 0
OffcutAt(k, cut, kerf) ==
    IF Reusable(Remainder(pieces[k].length, cut, kerf)) THEN {Len(pieces) + 1} ELSE {}

\* The rows a cut writes: the length of the piece is in the detail, in what was lost and in the offcut.
CutWrites(i, k, cut, kerf) ==
    /\ Kept(k, cut, kerf) \in Nat /\ balance' = balance + Kept(k, cut, kerf)
    /\ Kept(k, cut, kerf) <= pieces[k].length /\ pieces[k].length \in Nat /\ pieces[k].status = "ISSUED"
    /\ pieces'[k].length = 0 /\ pieces'[k].status = "CONSUMED"
    /\ pieces'[k].lot = pieces[k].lot /\ pieces'[k].offcut = pieces[k].offcut
    /\ \A n \in DOMAIN pieces \ {k} : pieces'[n] = pieces[n]
    /\ DOMAIN pieces' = DOMAIN pieces \cup OffcutAt(k, cut, kerf)
    /\ OffcutAt(k, cut, kerf) \cap DOMAIN pieces = {}
    /\ \A n \in OffcutAt(k, cut, kerf) :
         pieces'[n].lot = pieces[k].lot /\ pieces'[n].length = Kept(k, cut, kerf)
         /\ pieces'[n].status = "OFFCUT" /\ pieces'[n].offcut = TRUE
    /\ \A j \in Issues \ {i} : issues'[j].cut = issues[j].cut /\ issues'[j].lost = issues[j].lost
    /\ issues'[i].cut \in Nat /\ issues'[i].lost \in Nat
    /\ issues'[i].cut + issues'[i].lost + Kept(k, cut, kerf)
         = issues[i].cut + issues[i].lost + pieces[k].length

\* A cut writes these rows.
LEMMA CutRows ==
    ASSUME MetalInv, NEW i \in Issues, NEW k \in DOMAIN pieces, NEW cut \in 1 .. BarLength, NEW kerf \in 0 .. MaxKerf,
           RecordCut(i, k, cut, kerf)
    PROVE  CutWrites(i, k, cut, kerf)
<1> DEFINE remainder == Remainder(pieces[k].length, cut, kerf)
           used == [pieces EXCEPT ![k].length = 0, ![k].status = "CONSUMED"]
           rest == Offcut(k, remainder)
           waste == kerf + (IF Reusable(remainder) THEN 0 ELSE remainder)
           lost == issues[i].lost + waste
           total == issues[i].cut + cut
           after == IF total >= issues[i].planned THEN "COMPLETED" ELSE "ISSUED"
           kept == Kept(k, cut, kerf)
           at == OffcutAt(k, cut, kerf)
<1>1. /\ pieces' = IF Reusable(remainder) THEN Append(used, rest) ELSE used
      /\ balance' = IF Reusable(remainder) THEN balance + remainder ELSE balance
      /\ issues' = [issues EXCEPT ![i].cut = total, ![i].lost = lost, ![i].status = after]
      /\ cut + kerf <= pieces[k].length /\ pieces[k].status = "ISSUED"
    BY DEF RecordCut
<1>2. /\ pieces[k] \in PieceRows /\ pieces \in Seq(PieceRows) /\ DOMAIN pieces = 1 .. Len(pieces) /\ Len(pieces) \in Nat
      /\ cut \in Nat /\ kerf \in Nat /\ pieces[k].length \in Nat /\ balance \in Int
      /\ issues[i].cut \in Nat /\ issues[i].lost \in Nat /\ issues \in [Issues -> IssueRows]
    BY FinitePieces, MaterialsAssumption DEF MetalInv, HeldInv, RowsOK, BarsOK
<1>3. /\ remainder \in Nat /\ remainder = pieces[k].length - (cut + kerf) /\ kept \in Nat
      /\ kept = IF Reusable(remainder) THEN remainder ELSE 0
    BY <1>1, <1>2 DEF Remainder, Kept
<1>4. /\ waste \in Nat /\ lost \in Nat /\ total \in Nat
      /\ total + lost + kept = issues[i].cut + issues[i].lost + pieces[k].length
    <2> HIDE DEF remainder, kept
    <2>1. waste \in Nat /\ waste + kept = pieces[k].length - cut
        <3>1. CASE Reusable(remainder)
            <4>1. waste = kerf /\ kept = remainder
                BY <1>2, <1>3, <3>1
            <4> HIDE DEF waste
            <4>2. QED
                BY <1>2, <1>3, <4>1
        <3>2. CASE ~Reusable(remainder)
            <4>1. waste = kerf + remainder /\ kept = 0
                BY <1>3, <3>2
            <4> HIDE DEF waste
            <4>2. QED
                BY <1>2, <1>3, <4>1
        <3>3. QED
            BY <3>1, <3>2
    <2>2. /\ cut \in Nat /\ kept \in Nat /\ pieces[k].length \in Nat
          /\ issues[i].cut \in Nat /\ issues[i].lost \in Nat
        BY <1>2, <1>3
    <2> HIDE DEF waste, kept, remainder
    <2>3. QED
        BY <2>1, <2>2
<1>5. /\ issues'[i].cut = total /\ issues'[i].lost = lost
      /\ \A j \in Issues \ {i} : issues'[j].cut = issues[j].cut /\ issues'[j].lost = issues[j].lost
    <2> HIDE DEF total, lost, after
    <2>1. issues[i] \in IssueRows /\ DOMAIN issues = Issues
        BY <1>2
    <2>2. issues' = [issues EXCEPT ![i] = [[[issues[i] EXCEPT !.cut = total] EXCEPT !.lost = lost] EXCEPT !.status = after]]
        BY <1>1, <1>2 DEF IssueRows
    <2>3. QED
        BY <2>1, <2>2 DEF IssueRows
<1>6. /\ used \in Seq(PieceRows) /\ DOMAIN used = DOMAIN pieces /\ Len(used) = Len(pieces)
      /\ used[k].length = 0 /\ used[k].status = "CONSUMED"
      /\ used[k].lot = pieces[k].lot /\ used[k].offcut = pieces[k].offcut
      /\ \A n \in DOMAIN pieces \ {k} : used[n] = pieces[n]
    <2> DEFINE row == [[pieces[k] EXCEPT !.length = 0] EXCEPT !.status = "CONSUMED"]
    <2>1. used = [pieces EXCEPT ![k] = row]
        BY <1>2, Zenon DEF PieceRows
    <2>2. /\ row \in PieceRows /\ row.length = 0 /\ row.status = "CONSUMED"
          /\ row.lot = pieces[k].lot /\ row.offcut = pieces[k].offcut
        <3> DEFINE empty == [pieces[k] EXCEPT !.length = 0]
        <3>1. empty \in PieceRows /\ empty.lot = pieces[k].lot /\ empty.offcut = pieces[k].offcut
            <4>1. pieces[k] \in PieceRows
                BY <1>2
            <4>2. empty \in PieceRows
                BY <4>1 DEF PieceRows
            <4>3. empty.lot = pieces[k].lot /\ empty.offcut = pieces[k].offcut
                BY <4>1 DEF PieceRows
            <4>4. QED
                BY <4>2, <4>3
        <3>2. empty.length = 0
            <4>1. pieces[k] \in PieceRows
                BY <1>2
            <4>2. QED
                BY <4>1 DEF PieceRows
        <3>3. row = [empty EXCEPT !.status = "CONSUMED"]
            OBVIOUS
        <3> HIDE DEF empty, row
        <3>4. QED
            BY <3>1, <3>2, <3>3 DEF PieceRows, PieceStates
    <2> HIDE DEF row, used
    <2>3. QED
        BY <1>2, <2>1, <2>2
<1>7. /\ rest \in PieceRows /\ rest.lot = pieces[k].lot /\ rest.length = remainder
      /\ rest.status = "OFFCUT" /\ rest.offcut = TRUE
    <2> HIDE DEF remainder
    <2>1. QED
        BY <1>2, <1>3 DEF Offcut, PieceRows, PieceStates
<1>8. at = IF Reusable(remainder) THEN {Len(pieces) + 1} ELSE {}
    BY DEF OffcutAt
<1> HIDE DEF remainder, used, rest, waste, lost, total, after, kept, at
<1>9. /\ DOMAIN pieces' = DOMAIN pieces \cup at /\ at \cap DOMAIN pieces = {}
      /\ \A n \in DOMAIN pieces : pieces'[n] = used[n]
      /\ \A n \in at : pieces'[n] = rest /\ kept = remainder
    <2>1. CASE Reusable(remainder)
        <3>1. /\ DOMAIN Append(used, rest) = 1 .. Len(pieces) + 1
              /\ \A n \in 1 .. Len(pieces) : Append(used, rest)[n] = used[n]
              /\ Append(used, rest)[Len(pieces) + 1] = rest
            <4>1. used \in Seq(PieceRows) /\ rest \in PieceRows /\ Len(used) = Len(pieces) /\ Len(pieces) \in Nat
                BY <1>2, <1>6, <1>7
            <4>2. QED
                BY <4>1
        <3>2. QED
            <4>1. pieces' = Append(used, rest) /\ at = {Len(pieces) + 1} /\ kept = remainder
                BY <1>1, <1>3, <1>8, <2>1
            <4>2. QED
                BY <1>2, <3>1, <4>1
    <2>2. CASE ~Reusable(remainder)
        BY <1>1, <1>6, <1>8, <2>2
    <2>3. QED
        BY <2>1, <2>2
<1>10. balance' = balance + kept /\ kept <= pieces[k].length
    BY <1>1, <1>2, <1>3
<1>11. QED
    BY <1>1, <1>2, <1>3, <1>4, <1>5, <1>6, <1>7, <1>9, <1>10, ZenonT(40) DEF kept, at, CutWrites

\* A cut empties a piece that was out; what it keeps comes back as an offcut, the rest is used.
LEMMA CutBooks ==
    ASSUME MetalInv, NEW i \in Issues, NEW k \in DOMAIN pieces, NEW cut \in 1 .. BarLength, NEW kerf \in 0 .. MaxKerf,
           RecordCut(i, k, cut, kerf)
    PROVE  Booked
<1> DEFINE kept == Kept(k, cut, kerf)
           at == OffcutAt(k, cut, kerf)
<1>0. CutWrites(i, k, cut, kerf)
    BY CutRows
<1>1. /\ kept \in Nat /\ balance' = balance + kept
      /\ kept <= pieces[k].length /\ pieces[k].length \in Nat /\ pieces[k].status = "ISSUED"
      /\ pieces'[k].length = 0 /\ pieces'[k].status = "CONSUMED"
      /\ pieces'[k].lot = pieces[k].lot /\ pieces'[k].offcut = pieces[k].offcut
      /\ \A n \in DOMAIN pieces \ {k} : pieces'[n] = pieces[n]
      /\ DOMAIN pieces' = DOMAIN pieces \cup at /\ at \cap DOMAIN pieces = {}
      /\ \A n \in at :
           pieces'[n].lot = pieces[k].lot /\ pieces'[n].length = kept
           /\ pieces'[n].status = "OFFCUT" /\ pieces'[n].offcut = TRUE
      /\ \A j \in Issues \ {i} : issues'[j].cut = issues[j].cut /\ issues'[j].lost = issues[j].lost
      /\ issues'[i].cut \in Nat /\ issues'[i].lost \in Nat
      /\ issues'[i].cut + issues'[i].lost + kept = issues[i].cut + issues[i].lost + pieces[k].length
    BY <1>0 DEF CutWrites
<1>2. (at = {} /\ kept = 0) \/ at = {Len(pieces) + 1}
    BY DEF Kept, OffcutAt
<1> HIDE DEF kept, at
<1>3. UNCHANGED <<receipts, lots>>
    BY DEF RecordCut
<1>4. ASSUME NEW r \in Receipts
      PROVE  BarsOf(r)' = BarsOf(r) /\ OnHand(r)' = OnHand(r) /\ Reserved(r)' = Reserved(r)
    <2>1. BarsOf(r)' = BarsOf(r)
        BY <1>1 DEF BarsOf, OfLot
    <2>2. BarsOf(r) \subseteq DOMAIN pieces
        BY DEF BarsOf, OfLot
    <2>3. QED
        BY <1>1, <2>1, <2>2 DEF OnHand, Reserved
<1>5. BarsOK'
    <2>1. ASSUME NEW n \in DOMAIN pieces'
          PROVE  /\ pieces'[n].length \in Nat
                 /\ pieces'[n].status = "OFFCUT" => pieces'[n].offcut
                 /\ ~pieces'[n].offcut /\ pieces'[n].status \in {"AVAILABLE", "RESERVED", "ISSUED"}
                      => pieces'[n].length = BarLength
                 /\ receipts'[pieces'[n].lot].status \in {"CONFIRMED", "REVERSED"}
        <3>1. CASE n \in DOMAIN pieces \ {k}
            BY <1>1, <1>3, <3>1 DEF MetalInv, BarsOK
        <3>2. CASE n = k
            BY <1>1, <1>3, <3>2 DEF MetalInv, BarsOK
        <3>3. CASE n \in at
            BY <1>1, <1>3, <3>3 DEF MetalInv, BarsOK
        <3>4. QED
            BY <1>1, <3>1, <3>2, <3>3
    <2>2. \A r \in Receipts : receipts'[r].status = "CONFIRMED" => Cardinality(BarsOf(r)') = receipts'[r].bars
        BY <1>3, <1>4 DEF MetalInv, BarsOK
    <2>3. \A j \in Issues : issues'[j].cut \in Nat /\ issues'[j].lost \in Nat
        BY <1>1 DEF MetalInv, BarsOK
    <2>4. lots' \in [Receipts -> [onHand : Nat, reserved : Nat]] /\ balance' \in Int
        BY <1>1, <1>3 DEF MetalInv, BarsOK
    <2>5. QED
        BY <2>1, <2>2, <2>3, <2>4 DEF BarsOK
<1>6. /\ InWarehouse' = InWarehouse \cup at /\ Out' = Out \ {k} /\ k \in Out
      /\ InWarehouse \in SUBSET DOMAIN pieces /\ k \notin InWarehouse /\ InWarehouse \cap at = {}
      /\ Out \in SUBSET DOMAIN pieces
    <2>1. InWarehouse' = InWarehouse \cup at
        BY <1>1 DEF InWarehouse
    <2>2. Out' = Out \ {k}
        BY <1>1 DEF Out
    <2>3. QED
        BY <1>1, <2>1, <2>2 DEF InWarehouse, Out
<1>7. /\ \A n \in DOMAIN pieces \ {k} : Lengths'[n] = Lengths[n] /\ Lengths'[n] \in Nat
      /\ \A n \in at : Lengths'[n] = kept
      /\ Lengths[k] = pieces[k].length
    BY <1>1, FinitePieces DEF Lengths
<1>8. Amount(Lengths', InWarehouse') = Amount(Lengths, InWarehouse) + kept
    <2>1. Amount(Lengths', InWarehouse) = Amount(Lengths, InWarehouse) /\ Amount(Lengths, InWarehouse) \in Nat
        BY <1>6, <1>7, AmountSame, FinitePieces
    <2>2. CASE at = {Len(pieces) + 1}
        <3> DEFINE x == Len(pieces) + 1
        <3>1. IsFiniteSet(InWarehouse) /\ x \notin InWarehouse /\ \A n \in InWarehouse \cup {x} : Lengths'[n] \in Nat
            BY <1>1, <1>6, <1>7, <2>2, FinitePieces
        <3>2. Lengths'[x] = kept /\ InWarehouse' = InWarehouse \cup {x}
            BY <1>6, <1>7, <2>2
        <3> HIDE DEF x
        <3>3. Amount(Lengths', InWarehouse \cup {x}) = Amount(Lengths', InWarehouse) + Lengths'[x]
            BY <3>1, AmountAdds
        <3>4. QED
            BY <2>1, <3>2, <3>3
    <2>3. CASE at = {} /\ kept = 0
        <3>1. InWarehouse' = InWarehouse
            BY <1>6, <2>3
        <3>2. QED
            BY <2>1, <2>3, <3>1
    <2>4. QED
        BY <1>2, <2>2, <2>3
<1>9. Amount(Lengths, Out) = Amount(Lengths', Out') + pieces[k].length /\ Amount(Lengths', Out') \in Nat
    <2>1. IsFiniteSet(Out) /\ {k} \subseteq Out /\ \A n \in Out : Lengths[n] \in Nat
        BY <1>6, FinitePieces
    <2>2. Amount(Lengths, Out) = Amount(Lengths, Out \ {k}) + Amount(Lengths, {k}) /\ Amount(Lengths, Out \ {k}) \in Nat
        BY <2>1, AmountLess
    <2>3. Amount(Lengths, {k}) = Lengths[k]
        BY <2>1, AmountOne
    <2>4. Amount(Lengths', Out \ {k}) = Amount(Lengths, Out \ {k})
        BY <1>6, <1>7, AmountSame
    <2>5. QED
        BY <1>6, <1>7, <2>2, <2>3, <2>4
<1>10. Amount(UsedBy', Issues) + kept = Amount(UsedBy, Issues) + pieces[k].length /\ Amount(UsedBy', Issues) \in Nat
    <2>1. /\ UsedBy'[i] + kept = UsedBy[i] + pieces[k].length /\ UsedBy'[i] \in Nat
          /\ \A j \in Issues \ {i} : UsedBy'[j] = UsedBy[j]
        BY <1>1 DEF UsedBy
    <2>2. Amount(UsedBy', Issues) + UsedBy[i] = Amount(UsedBy, Issues) + UsedBy'[i] /\ Amount(UsedBy', Issues) \in Nat
        BY <2>1, NumbersBooked, AmountChanged
    <2>3. UsedBy[i] \in Nat /\ Amount(UsedBy, Issues) \in Nat
        BY NumbersBooked
    <2>4. kept \in Nat /\ pieces[k].length \in Nat
        BY <1>1
    <2>5. QED
        BY <2>1, <2>2, <2>3, <2>4
<1>11. Amount(ReceivedBy', Receipts) = Amount(ReceivedBy, Receipts)
    <2>1. ReceivedBy' = ReceivedBy
        BY <1>3 DEF ReceivedBy
    <2>2. QED
        BY <2>1
<1>12. /\ Amount(ReceivedBy', Receipts)
            = Amount(Lengths', InWarehouse') + Amount(Lengths', Out') + Amount(UsedBy', Issues)
       /\ balance' - Amount(Lengths', InWarehouse') = balance - Amount(Lengths, InWarehouse)
    <2>1. balance \in Int /\ kept \in Nat /\ balance' = balance + kept /\ pieces[k].length \in Nat
        BY <1>1 DEF MetalInv, BarsOK
    <2>2. QED
        BY <1>8, <1>9, <1>10, <1>11, <2>1, BookedBefore, NumbersBooked
<1>13. \A r \in Receipts : lots'[r].onHand = Cardinality(OnHand(r)') /\ lots'[r].reserved = Cardinality(Reserved(r)')
    BY <1>3, <1>4, BookedBefore
<1>14. QED
    BY <1>5, <1>12, <1>13, BookedAfter

\* Every request but a bulk change books what it does.
LEMMA StepBooks ==
    ASSUME MetalInv, [Next]_materialVars, ~BulkChange
    PROVE  Booked
<1>1. CASE Receiving
    <2>1. PICK r \in Receipts :
            \/ \E bars \in 1 .. MaxBars : CreateReceipt(r, bars) \/ UpdateDraft(r, bars)
            \/ ConfirmReceipt(r) \/ CancelDraft(r) \/ ReverseReceipt(r)
        BY <1>1 DEF Receiving
    <2>2. CASE (\E bars \in 1 .. MaxBars : CreateReceipt(r, bars) \/ UpdateDraft(r, bars)) \/ CancelDraft(r)
        <3>1. receipts \in [Receipts -> [status : ReceiptStates, bars : Nat]]
            BY DEF MetalInv, HeldInv, RowsOK
        <3>2. /\ UNCHANGED <<balance, pieces, lots, issues>>
              /\ \A s \in Receipts \ {r} : receipts'[s] = receipts[s]
              /\ {receipts[r].status, receipts'[r].status} \cap {"CONFIRMED", "REVERSED"} = {}
            BY <2>2, <3>1 DEF CreateReceipt, UpdateDraft, CancelDraft
        <3>3. QED
            BY <3>2, NothingBooked
    <2>3. QED
        BY <2>1, <2>2, ConfirmBooks, ReverseBooks
<1>2. CASE Cutting
    <2>1. PICK i \in Issues :
            \/ \E planned \in 1 .. BarLength : CreateIssueDocument(i, planned)
            \/ ReleaseReservation(i) \/ IssueReserved(i)
            \/ \E k \in DOMAIN pieces :
                 \/ ReservePiece(i, k)
                 \/ \E cut \in 1 .. BarLength, kerf \in 0 .. MaxKerf : RecordCut(i, k, cut, kerf)
        BY <1>2 DEF Cutting
    <2>2. ASSUME NEW planned \in 1 .. BarLength, CreateIssueDocument(i, planned)
          PROVE  Booked
        <3>1. issues \in [Issues -> IssueRows]
            BY DEF MetalInv, HeldInv, RowsOK
        <3>2. UNCHANGED <<balance, pieces, lots, receipts>>
            BY <2>2 DEF CreateIssueDocument
        <3>3. \A j \in Issues : issues'[j].cut = issues[j].cut /\ issues'[j].lost = issues[j].lost
            BY <2>2, <3>1 DEF CreateIssueDocument, IssueRows
        <3>4. QED
            BY <3>2, <3>3, NothingBooked
    <2>3. QED
        BY <2>1, <2>2, ReleaseBooks, IssueBooks, ReserveBooks, CutBooks
<1>3. CASE (\E j \in Jobs : ReleaseJob(j) \/ EndJob(j)) \/ UNCHANGED materialVars
    <2>1. UNCHANGED <<balance, receipts, pieces, lots, issues>>
        BY <1>3 DEF ReleaseJob, EndJob, materialVars
    <2>2. QED
        BY <2>1, NothingBooked
<1>4. QED
    BY <1>1, <1>2, <1>3 DEF Next

\* A bulk change moves the balance and nothing the accounts are made of.
LEMMA BulkKeeps ==
    ASSUME MetalInv, BulkChange
    PROVE  BarsOK' /\ BarsAccounted'
<1>1. UNCHANGED <<receipts, pieces, lots, issues>> /\ balance' \in Int
    <2>1. balance \in Int /\ Required \in Int /\ BarLength \in Int
        BY MaterialsAssumption DEF MetalInv, BarsOK
    <2>2. CASE \E q \in 1 .. BarLength : CreateIssue(q)
        <3>1. PICK q \in 1 .. BarLength : CreateIssue(q)
            BY <2>2
        <3>2. QED
            BY <2>1, <3>1 DEF CreateIssue
    <2>3. CASE \E q \in 0 .. BarLength : CreateAdjustment(q)
        <3>1. PICK q \in 0 .. BarLength : CreateAdjustment(q)
            BY <2>3
        <3>2. QED
            BY <2>1, <3>1 DEF CreateAdjustment
    <2>4. CASE \E j \in Jobs : StartStage(j)
        BY <2>1, <2>4 DEF StartStage
    <2>5. QED
        BY <2>2, <2>3, <2>4 DEF BulkChange
<1>2. BarsOK'
    BY <1>1 DEF MetalInv, BarsOK, BarsOf, OfLot
<1>3. LotCountsBars'
    BY <1>1 DEF MetalInv, BarsAccounted, LotCountsBars, BarsOf, OfLot
<1>4. MetresAccounted'
    BY <1>1 DEF MetalInv, BarsAccounted, MetresAccounted, LengthOf, InWarehouse, Out
<1>5. QED
    BY <1>2, <1>3, <1>4 DEF BarsAccounted

\* Every step keeps the accounts.
LEMMA NextBooks == MetalInv /\ [Next]_materialVars => MetalInv'
<1> SUFFICES ASSUME MetalInv, [Next]_materialVars PROVE MetalInv'
    OBVIOUS
<1>1. HeldInv'
    BY NextKeepsHeld DEF MetalInv
<1>2. BarsOK' /\ BarsAccounted'
    BY StepBooks, BulkKeeps DEF Booked, BarsAccounted
<1>3. QED
    BY <1>1, <1>2 DEF MetalInv

\* No bar is used twice, and no bar and no metre is lost or counted twice: a piece that an issue
\* document lists is its own, the counters of a lot are those of its bars, and every metre received
\* is in the warehouse, out, in a detail or in a recorded loss.
THEOREM AllAccounted == Spec => []SteelAccounted
<1>1. MetalInv => SteelAccounted
    BY DEF MetalInv, HeldInv, SteelAccounted
<1>2. QED
    BY <1>1, MetalInit, NextBooks, PTL DEF Spec

\* The balance moves with the metres in the warehouse; only a bulk issue, an adjustment or the
\* consumption at a stage's start makes the two differ by more or less than they did.
THEOREM BalanceFollowsBars == Spec => OnlyBulkDiverges
<1>1. MetalInv /\ [Next]_materialVars
        => [balance' - LengthOf(InWarehouse)' # balance - LengthOf(InWarehouse) => BulkChange]_materialVars
    BY StepBooks DEF Booked, InRoom
<1>2. QED
    BY <1>1, MetalInit, NextBooks, PTL DEF Spec, OnlyBulkDiverges

-----------------------------------------------------------------------------
(* Accounts of users.                                                      *)

AccountRows ==
    [state : {"absent", "active", "inactive"}, role : Roles, dept : Departments, own : {"none", "granted", "denied"}]
DepartmentOps == {"add", "rename", "remove"}
RoleOps == {"role", "grant", "deny", "drop"}

DepartmentAsks ==
    [op : DepartmentOps, at : {"checked", "prepared"}, actor : Users, d : Departments, name : Departments,
     list : SUBSET Departments, rows : SUBSET Users, refilled : BOOLEAN]

\* The department that is written is on the list it was checked against, and nobody takes from
\* himself more than an administrator's account.
UserAskOK(v) ==
    /\ v.op = "user" /\ v.actor \in Users /\ v.user \in Users
    /\ v.seen \in AccountRows /\ v.new \in AccountRows /\ v.new.state # "absent"
    /\ v.seen.state = "absent" => v.seen = NoAccount
    /\ v.new.dept \in v.list \/ (v.new.dept = v.seen.dept /\ v.seen.state # "absent")
    /\ v.actor = v.user => v.seen.state = "active" /\ v.new.state = "active" /\ v.new.role \in BuiltIn

AskOK(v) ==
    \/ v = NoAsking
    \/ v.op = "login" /\ v.user \in Users
    \/ UserAskOK(v)
    \/ v \in DepartmentAsks /\ (v.rows # {} => v.op = "rename" /\ v.at = "prepared")
    \/ v \in [op : RoleOps, actor : Users, r : Roles]

PeopleOK ==
    /\ account \in [Users -> AccountRows]
    /\ \A u \in Users : account[u].state = "absent" => account[u] = NoAccount

ListsOK ==
    /\ roles \subseteq Roles /\ grants \in [Roles -> BOOLEAN]
    /\ \A r \in Roles : grants[r] => r \in roles
    /\ departments \subseteq Departments /\ cached \subseteq Departments

AsksOK == DOMAIN asking = Clerks /\ \A c \in Clerks : AskOK(asking[c])

Prepared(v) == v.op \in DepartmentOps /\ v.at = "prepared"

\* The users that a rename moves are there until it commits, and a cache that is not empty was
\* filled after all that is prepared had emptied it.
MovesOK == \A c \in Clerks : Prepared(asking[c]) => \A u \in asking[c].rows : IsUser(u)
CacheOK == \A c \in Clerks : Prepared(asking[c]) /\ ~asking[c].refilled => cached = NoList

AccountInv == PeopleOK /\ ListsOK /\ AsksOK /\ MovesOK /\ CacheOK

\* The first account.
LEMMA AccountStart == AccountsInit => AccountInv
<1> SUFFICES ASSUME AccountsInit PROVE AccountInv
    OBVIOUS
<1>1. NoAccount \in AccountRows /\ [NoAccount EXCEPT !.state = "active"] \in AccountRows
    BY AccountsAssumption DEF NoAccount, AccountRows, Roles, BuiltIn
<1>2. PeopleOK
    BY <1>1 DEF AccountsInit, PeopleOK, NoAccount
<1>3. ListsOK
    <2>1. grants \in [Roles -> BOOLEAN] /\ \A r \in Roles : grants[r] <=> r \in BuiltIn
        <3>1. grants = [r \in Roles |-> r \in BuiltIn]
            BY DEF AccountsInit
        <3>2. \A r \in Roles : (r \in BuiltIn) \in BOOLEAN
            OBVIOUS
        <3>3. \A r \in Roles : grants[r] = (r \in BuiltIn)
            BY <3>1
        <3>4. grants \in [Roles -> BOOLEAN]
            BY <3>1, <3>2
        <3>5. QED
            BY <3>3, <3>4
    <2>2. roles = BuiltIn /\ BuiltIn \subseteq Roles /\ departments \subseteq Departments /\ cached = {}
        BY AccountsAssumption DEF AccountsInit, Roles, NoList
    <2>3. QED
        BY <2>1, <2>2 DEF ListsOK
<1>4. AsksOK /\ MovesOK /\ CacheOK
    BY DEF AccountsInit, AsksOK, AskOK, MovesOK, CacheOK, Prepared, NoAsking, DepartmentOps
<1>5. QED
    BY <1>2, <1>3, <1>4 DEF AccountInv

\* A request that begins or ends otherwise than by preparing a department.
LEMMA AsksFollow ==
    ASSUME AccountInv, NEW c \in Clerks, NEW v, AskOK(v), ~Prepared(v), asking' = [asking EXCEPT ![c] = v]
    PROVE  /\ AsksOK'
           /\ (\A u \in Users : IsUser(u) => IsUser(u)') => MovesOK'
           /\ (cached = NoList => cached' = NoList) => CacheOK'
<1>1. AsksOK'
    BY DEF AccountInv, AsksOK
<1>2. ASSUME NEW k \in Clerks, Prepared(asking'[k]) PROVE asking'[k] = asking[k] /\ Prepared(asking[k]) /\ asking[k].rows \subseteq Users
    BY <1>2 DEF AccountInv, AsksOK, AskOK, UserAskOK, Prepared, DepartmentAsks, DepartmentOps, RoleOps, NoAsking
<1>3. QED
    BY <1>1, <1>2 DEF AccountInv, MovesOK, CacheOK

\* What a department request has prepared.
LEMMA DepartmentAsked ==
    ASSUME NEW v, AskOK(v), v.op \in DepartmentOps
    PROVE  v \in DepartmentAsks /\ (v.rows # {} => v.op = "rename" /\ v.at = "prepared")
BY DEF AskOK, UserAskOK, DepartmentAsks, DepartmentOps, RoleOps, NoAsking

\* Reading the list through the cache.
LEMMA Read ==
    ASSUME AccountInv, NEW as, DOMAIN as = Clerks, \A c \in Clerks : AskOK(as[c]),
           \A c \in Clerks : Prepared(as[c]) => as[c] = asking[c],
           asking' = Refilled(as), cached' = Listed,
           UNCHANGED <<account, roles, grants, departments, signed>>
    PROVE  AccountInv'
<1>1. ASSUME NEW c \in Clerks
      PROVE  /\ asking'[c] = IF cached = NoList /\ Prepared(as[c]) THEN [as[c] EXCEPT !.refilled = TRUE] ELSE as[c]
             /\ Prepared(as[c]) => as[c] \in DepartmentAsks
    <2>1. asking'[c] = IF cached = NoList /\ Prepared(as[c]) THEN [as[c] EXCEPT !.refilled = TRUE] ELSE as[c]
        BY DEF Refilled, Prepared, DepartmentOps
    <2>2. Prepared(as[c]) => as[c] \in DepartmentAsks
        BY DepartmentAsked DEF Prepared
    <2>3. QED
        BY <2>1, <2>2
<1>2. AsksOK'
    <2>1. ASSUME NEW c \in Clerks PROVE AskOK(asking'[c])
        <3>1. CASE cached = NoList /\ Prepared(as[c])
            <4>1. /\ as[c] \in DepartmentAsks /\ asking'[c] = [as[c] EXCEPT !.refilled = TRUE]
                BY <1>1, <3>1
            <4>2. as[c].rows # {} => as[c].op = "rename" /\ as[c].at = "prepared"
                BY <3>1, DepartmentAsked DEF Prepared
            <4>3. QED
                BY <4>1, <4>2 DEF AskOK, DepartmentAsks
        <3>2. CASE ~(cached = NoList /\ Prepared(as[c]))
            BY <1>1, <3>2
        <3>3. QED
            BY <3>1, <3>2
    <2>2. QED
        BY <2>1 DEF AsksOK, Refilled
<1>3. ASSUME NEW c \in Clerks, Prepared(asking'[c])
      PROVE  /\ Prepared(asking[c]) /\ asking'[c].rows = asking[c].rows /\ asking[c].rows \subseteq Users
             /\ cached = NoList => asking'[c].refilled
             /\ cached # NoList => asking'[c] = asking[c]
    <2>1. Prepared(as[c])
        BY <1>1, <1>3 DEF Prepared, DepartmentAsks
    <2>2. as[c] \in DepartmentAsks /\ as[c] = asking[c]
        BY <1>1, <2>1
    <2>3. CASE cached = NoList
        <3>1. asking'[c] = [asking[c] EXCEPT !.refilled = TRUE]
            BY <1>1, <2>1, <2>2, <2>3
        <3>2. QED
            BY <2>1, <2>2, <2>3, <3>1 DEF DepartmentAsks
    <2>4. CASE cached # NoList
        <3>1. asking'[c] = asking[c]
            BY <1>1, <2>1, <2>2, <2>4
        <3>2. QED
            BY <2>1, <2>2, <2>4, <3>1 DEF DepartmentAsks
    <2>5. QED
        BY <2>3, <2>4
<1>4. MovesOK' /\ CacheOK'
    BY <1>3 DEF AccountInv, MovesOK, CacheOK, IsUser, Listed
<1>5. PeopleOK' /\ ListsOK'
    BY DEF AccountInv, PeopleOK, ListsOK, Listed
<1>6. QED
    BY <1>2, <1>4, <1>5 DEF AccountInv

\* A request whose handler has read the list.
LEMMA OpenKeeps ==
    ASSUME AccountInv, NEW c \in Clerks, NEW v, AskOK(v), ~Prepared(v), Open(c, v)
    PROVE  AccountInv'
<1> DEFINE as == [asking EXCEPT ![c] = v]
<1>1. DOMAIN as = Clerks /\ \A k \in Clerks : AskOK(as[k]) /\ (Prepared(as[k]) => as[k] = asking[k])
    BY DEF AccountInv, AsksOK
<1>2. asking' = Refilled(as) /\ cached' = Listed /\ UNCHANGED <<account, roles, grants, departments, signed>>
    BY DEF Open
<1> HIDE DEF as
<1>3. QED
    BY <1>1, <1>2, Read

\* The older page.
LEMMA OlderPageKeeps == ASSUME AccountInv, ByOlderPage PROVE AccountInv'
<1>1. PICK a \in Users, u \in Users : AdminCreateUser(a, u) \/ AdminUpdateUser(a, u) \/ AdminDeleteUser(a, u)
    BY DEF ByOlderPage
<1>2. UNCHANGED <<roles, grants, departments, cached, asking>>
    BY <1>1 DEF AdminCreateUser, AdminUpdateUser, AdminDeleteUser
<1>3. PeopleOK' /\ (\A x \in Users \ {u} : account'[x] = account[x]) /\ (IsUser(u)' \/ Unlocked(u))
    <2>1. CASE AdminCreateUser(a, u)
        <3>1. PICK r \in Roles, d \in Configured, s \in {"active", "inactive"} :
                   account' = [account EXCEPT ![u] = [state |-> s, role |-> r, dept |-> d, own |-> "none"]]
            BY <2>1 DEF AdminCreateUser
        <3>2. [state |-> s, role |-> r, dept |-> d, own |-> "none"] \in AccountRows
            BY AccountsAssumption DEF AccountRows
        <3>3. QED
            BY <3>1, <3>2 DEF AccountInv, PeopleOK, IsUser
    <2>2. CASE AdminUpdateUser(a, u)
        <3>1. PICK row \in AccountRows : account' = [account EXCEPT ![u] = row] /\ row.state # "absent"
            <4>1. account[u] \in AccountRows /\ IsUser(u) /\ account \in [Users -> AccountRows]
                BY <2>2 DEF AdminUpdateUser, AccountInv, PeopleOK
            <4>2. CASE \E r \in Roles : account' = [account EXCEPT ![u].role = r]
                <5>1. PICK r \in Roles : account' = [account EXCEPT ![u].role = r]
                    BY <4>2
                <5>2. [account[u] EXCEPT !.role = r] \in AccountRows /\ [account[u] EXCEPT !.role = r].state # "absent"
                    BY <4>1 DEF AccountRows, IsUser
                <5>3. QED
                    BY <5>1, <5>2
            <4>3. CASE \E d \in Configured : account' = [account EXCEPT ![u].dept = d]
                <5>1. PICK d \in Configured : account' = [account EXCEPT ![u].dept = d]
                    BY <4>3
                <5>2. [account[u] EXCEPT !.dept = d] \in AccountRows /\ [account[u] EXCEPT !.dept = d].state # "absent"
                    BY <4>1, AccountsAssumption DEF AccountRows, IsUser
                <5>3. QED
                    BY <5>1, <5>2
            <4>4. CASE \E s \in {"active", "inactive"} : account' = [account EXCEPT ![u].state = s]
                <5>1. PICK s \in {"active", "inactive"} : account' = [account EXCEPT ![u].state = s]
                    BY <4>4
                <5>2. [account[u] EXCEPT !.state = s] \in AccountRows /\ [account[u] EXCEPT !.state = s].state # "absent"
                    BY <4>1 DEF AccountRows
                <5>3. QED
                    BY <5>1, <5>2
            <4>5. CASE \E o \in {"granted", "denied"} : account' = [account EXCEPT ![u].own = o]
                <5>1. PICK o \in {"granted", "denied"} : account' = [account EXCEPT ![u].own = o]
                    BY <4>5
                <5>2. [account[u] EXCEPT !.own = o] \in AccountRows /\ [account[u] EXCEPT !.own = o].state # "absent"
                    BY <4>1 DEF AccountRows, IsUser
                <5>3. QED
                    BY <5>1, <5>2
            <4>6. QED
                BY <2>2, <4>2, <4>3, <4>4, <4>5 DEF AdminUpdateUser
        <3>2. Unlocked(u)
            BY <2>2 DEF AdminUpdateUser
        <3>3. QED
            BY <3>1, <3>2 DEF AccountInv, PeopleOK
    <2>3. CASE AdminDeleteUser(a, u)
        <3>1. NoAccount \in AccountRows
            BY AccountsAssumption DEF NoAccount, AccountRows, Roles, BuiltIn
        <3>2. QED
            BY <2>3, <3>1 DEF AdminDeleteUser, AccountInv, PeopleOK
    <2>4. QED
        BY <1>1, <2>1, <2>2, <2>3
<1>4. MovesOK'
    <2> SUFFICES ASSUME NEW c \in Clerks, Prepared(asking[c]), NEW x \in asking[c].rows PROVE IsUser(x)'
        BY <1>2 DEF MovesOK, Prepared
    <2>1. asking[c] \in DepartmentAsks /\ asking[c].op = "rename" /\ asking[c].at = "prepared" /\ x \in Users
        BY DEF AccountInv, AsksOK, AskOK, UserAskOK, DepartmentAsks, DepartmentOps, RoleOps, NoAsking, Prepared
    <2>2. IsUser(x)
        BY DEF AccountInv, MovesOK
    <2>3. x = u => ~Unlocked(u)
        BY <2>1 DEF Unlocked
    <2>4. QED
        BY <1>3, <2>1, <2>2, <2>3 DEF IsUser
<1>5. ListsOK' /\ AsksOK' /\ CacheOK'
    BY <1>2 DEF AccountInv, ListsOK, AsksOK, CacheOK
<1>6. QED
    BY <1>3, <1>4, <1>5 DEF AccountInv

\* What a user request finds, and what it writes.
LEMMA UserAsks ==
    ASSUME AccountInv, NEW c \in Clerks, NEW a \in Users, NEW u \in Users, OpenUpdate(c, a, u) \/ OpenStatus(c, a, u)
    PROVE  AccountInv'
<1>0. /\ account[u] \in AccountRows /\ account[a] \in AccountRows
      /\ account[u].state = "absent" => account[u] = NoAccount
    BY DEF AccountInv, PeopleOK
<1>1. CASE OpenUpdate(c, a, u)
    <2>1. PICK r \in roles, d \in Listed, s \in {"active", "inactive"} :
               LET new == [account[u] EXCEPT !.state = s, !.role = r, !.dept = d] IN
               /\ IsUser(u) => KeepsOwnAccess(a, u, new)
               /\ Open(c, [op |-> "user", actor |-> a, user |-> u, seen |-> account[u], new |-> new, list |-> Listed])
        BY <1>1 DEF OpenUpdate
    <2> DEFINE new == [account[u] EXCEPT !.state = s, !.role = r, !.dept = d]
               v == [op |-> "user", actor |-> a, user |-> u, seen |-> account[u], new |-> new, list |-> Listed]
    <2>2. r \in Roles /\ d \in Departments
        BY DEF AccountInv, ListsOK, Listed
    <2>3. new \in AccountRows /\ new.state = s /\ new.role = r /\ new.dept = d
        BY <1>0, <2>2 DEF AccountRows
    <2>4. a = u => account[u].state = "active" /\ new.state = "active" /\ new.role \in BuiltIn
        BY <2>1 DEF Open, MayManage, Manages, IsActive, IsUser, KeepsOwnAccess
    <2> HIDE DEF new
    <2>5. UserAskOK(v)
        BY <1>0, <2>3, <2>4 DEF UserAskOK
    <2>6. Open(c, v)
        BY <2>1 DEF new
    <2>7. ~Prepared(v) /\ AskOK(v)
        BY <2>5 DEF Prepared, DepartmentOps, AskOK
    <2> HIDE DEF v
    <2>8. QED
        BY <2>6, <2>7, OpenKeeps
<1>2. CASE OpenStatus(c, a, u)
    <2>1. PICK s \in {"active", "inactive"} \ {account[u].state} :
               /\ a = u => s = "active"
               /\ MayManage(a)
               /\ asking' = [asking EXCEPT ![c] = [op |-> "user", actor |-> a, user |-> u, seen |-> account[u],
                                             new |-> [account[u] EXCEPT !.state = s], list |-> departments]]
        BY <1>2 DEF OpenStatus
    <2> DEFINE new == [account[u] EXCEPT !.state = s]
               v == [op |-> "user", actor |-> a, user |-> u, seen |-> account[u], new |-> new, list |-> departments]
    <2>2. new \in AccountRows /\ new.state = s /\ new.dept = account[u].dept
        BY <1>0 DEF AccountRows
    <2>3. IsUser(u) /\ a # u
        BY <1>2, <2>1 DEF OpenStatus, MayManage, Manages, IsActive
    <2> HIDE DEF new
    <2>4. UserAskOK(v)
        BY <1>0, <2>2, <2>3 DEF UserAskOK, IsUser
    <2>5. asking' = [asking EXCEPT ![c] = v]
        BY <2>1 DEF new
    <2>6. ~Prepared(v) /\ AskOK(v)
        BY <2>4 DEF Prepared, DepartmentOps, AskOK
    <2> HIDE DEF v
    <2>7. UNCHANGED <<account, roles, grants, departments, cached, signed>>
        BY <1>2 DEF OpenStatus
    <2>8. AsksOK' /\ MovesOK' /\ CacheOK'
        BY <2>5, <2>6, <2>7, AsksFollow DEF IsUser
    <2>9. QED
        BY <2>7, <2>8 DEF AccountInv, PeopleOK, ListsOK
<1>3. QED
    BY <1>1, <1>2

\* The row a user request commits.
LEMMA UserWritten ==
    ASSUME AccountInv, NEW c \in Clerks, CommitUser(c)
    PROVE  LET v == asking[c]
               u == v.user
               row == account'[u]
           IN /\ UserAskOK(v) /\ u \in Users /\ row \in AccountRows /\ row.state # "absent"
              /\ account' = [account EXCEPT ![u] = row]
              /\ row.state = Updated(account[u].state, v.seen.state, v.new.state)
              /\ row.role = Updated(account[u].role, v.seen.role, v.new.role)
              /\ row.dept = Updated(account[u].dept, v.seen.dept, v.new.dept)
              /\ row.own = account[u].own
<1> DEFINE v == asking[c]
           u == v.user
           row == [state |-> Updated(account[u].state, v.seen.state, v.new.state),
                   role  |-> Updated(account[u].role, v.seen.role, v.new.role),
                   dept  |-> Updated(account[u].dept, v.seen.dept, v.new.dept),
                   own   |-> account[u].own]
<1>1. UserAskOK(v)
    BY DEF CommitUser, AccountInv, AsksOK, AskOK, DepartmentAsks, DepartmentOps, RoleOps, NoAsking
<1>2. u \in Users /\ account[u] \in AccountRows /\ account \in [Users -> AccountRows]
    BY <1>1 DEF UserAskOK, AccountInv, PeopleOK
<1>3. account' = [account EXCEPT ![u] = row]
    BY DEF CommitUser
<1>4. row \in AccountRows
    BY <1>1, <1>2 DEF UserAskOK, AccountRows, Updated
<1>5. row.state # "absent"
    BY <1>1, <1>2 DEF UserAskOK, AccountRows, Updated, CommitUser
<1> HIDE DEF row
<1>6. account'[u] = row
    BY <1>2, <1>3
<1>7. /\ row.state = Updated(account[u].state, v.seen.state, v.new.state)
      /\ row.role = Updated(account[u].role, v.seen.role, v.new.role)
      /\ row.dept = Updated(account[u].dept, v.seen.dept, v.new.dept)
      /\ row.own = account[u].own
    BY DEF row
<1>8. QED
    BY <1>1, <1>2, <1>3, <1>4, <1>5, <1>6, <1>7

\* Ends of requests.
LEMMA CommitUserKeeps == ASSUME AccountInv, NEW c \in Clerks, CommitUser(c) PROVE AccountInv'
<1>1. PICK u \in Users, row \in AccountRows : account' = [account EXCEPT ![u] = row] /\ row.state # "absent"
    BY UserWritten
<1>2. asking' = [asking EXCEPT ![c] = NoAsking] /\ UNCHANGED <<roles, grants, departments, cached, signed>>
    BY DEF CommitUser
<1>3. PeopleOK' /\ \A x \in Users : IsUser(x) => IsUser(x)'
    BY <1>1 DEF AccountInv, PeopleOK, IsUser, AccountRows
<1>4. AskOK(NoAsking) /\ ~Prepared(NoAsking)
    BY DEF AskOK, Prepared, NoAsking, DepartmentOps
<1>5. AsksOK' /\ MovesOK' /\ CacheOK'
    BY <1>2, <1>3, <1>4, AsksFollow
<1>6. QED
    BY <1>2, <1>3, <1>5 DEF AccountInv, ListsOK

LEMMA CommitRoleKeeps == ASSUME AccountInv, NEW c \in Clerks, CommitRole(c) PROVE AccountInv'
<1>1. asking[c] \in [op : RoleOps, actor : Users, r : Roles]
    BY DEF CommitRole, AccountInv, AsksOK, AskOK, UserAskOK, DepartmentAsks, DepartmentOps, RoleOps, NoAsking
<1>2. asking' = [asking EXCEPT ![c] = NoAsking] /\ UNCHANGED <<account, departments, cached, signed>>
    BY DEF CommitRole
<1>3. ListsOK'
    BY <1>1, <1>2 DEF CommitRole, AccountInv, ListsOK, RoleOps
<1>4. AskOK(NoAsking) /\ ~Prepared(NoAsking)
    BY DEF AskOK, Prepared, NoAsking, DepartmentOps
<1>5. AsksOK' /\ MovesOK' /\ CacheOK'
    BY <1>2, <1>4, AsksFollow DEF IsUser
<1>6. QED
    BY <1>2, <1>3, <1>5 DEF AccountInv, PeopleOK

LEMMA CommitDepartmentKeeps == ASSUME AccountInv, NEW c \in Clerks, CommitDepartment(c) PROVE AccountInv'
<1> DEFINE v == asking[c]
<1>1. v \in DepartmentAsks /\ Prepared(v)
    BY DepartmentAsked DEF CommitDepartment, DepartmentOps, Prepared, AccountInv, AsksOK
<1>2. /\ departments' = NewList(v) /\ asking' = [asking EXCEPT ![c] = NoAsking]
      /\ account' = [u \in Users |-> IF u \in v.rows THEN [account[u] EXCEPT !.dept = v.name] ELSE account[u]]
      /\ UNCHANGED <<roles, grants, cached, signed>>
    BY DEF CommitDepartment
<1>3. PeopleOK' /\ \A x \in Users : IsUser(x) => IsUser(x)'
    <2>1. ASSUME NEW u \in Users
          PROVE  /\ account'[u] \in AccountRows /\ account'[u].state = account[u].state
                 /\ account[u].state = "absent" => account'[u] = account[u]
        <3>1. account[u] \in AccountRows /\ v.name \in Departments
            BY <1>1 DEF AccountInv, PeopleOK, DepartmentAsks
        <3>2. u \in v.rows => IsUser(u)
            BY <1>1 DEF AccountInv, MovesOK
        <3>3. QED
            BY <1>2, <3>1, <3>2 DEF AccountRows, IsUser
    <2>2. QED
        BY <1>2, <2>1 DEF AccountInv, PeopleOK, IsUser
<1>4. ListsOK'
    BY <1>1, <1>2 DEF AccountInv, ListsOK, NewList, DepartmentAsks, DepartmentOps
<1>5. AskOK(NoAsking) /\ ~Prepared(NoAsking)
    BY DEF AskOK, Prepared, NoAsking, DepartmentOps
<1>6. AsksOK' /\ MovesOK' /\ CacheOK'
    BY <1>2, <1>3, <1>5, AsksFollow
<1>7. QED
    BY <1>3, <1>4, <1>6 DEF AccountInv

LEMMA PrepareKeeps == ASSUME AccountInv, NEW c \in Clerks, PrepareDepartment(c) PROVE AccountInv'
<1> DEFINE v == asking[c]
<1>1. PICK rows \in SUBSET Users : /\ rows # {} => v.op = "rename"
                                   /\ \A u \in rows : IsUser(u)
                                   /\ asking' = [asking EXCEPT ![c] = [v EXCEPT !.at = "prepared", !.rows = rows]]
    <2>1. Members(v.d) \in SUBSET Users /\ \A u \in Members(v.d) : IsUser(u)
        BY DEF Members
    <2>2. QED
        BY <2>1 DEF PrepareDepartment
<1>2. v \in DepartmentAsks
    BY DepartmentAsked DEF PrepareDepartment, DepartmentOps, AccountInv, AsksOK
<1> DEFINE w == [v EXCEPT !.at = "prepared", !.rows = rows]
<1>3. w \in DepartmentAsks /\ w.op = v.op /\ w.at = "prepared" /\ w.rows = rows
    BY <1>2 DEF DepartmentAsks
<1>4. asking' = [asking EXCEPT ![c] = w] /\ cached' = NoList /\ UNCHANGED <<account, roles, grants, departments, signed>>
    BY <1>1 DEF PrepareDepartment
<1> HIDE DEF w
<1>5. AskOK(w)
    BY <1>1, <1>3 DEF AskOK
<1>6. AsksOK'
    BY <1>4, <1>5 DEF AccountInv, AsksOK
<1>7. MovesOK'
    BY <1>1, <1>3, <1>4 DEF AccountInv, AsksOK, MovesOK, IsUser
<1>8. CacheOK' /\ ListsOK' /\ PeopleOK'
    BY <1>4 DEF AccountInv, CacheOK, ListsOK, PeopleOK, NoList
<1>9. QED
    BY <1>6, <1>7, <1>8 DEF AccountInv

\* Every step keeps them.
LEMMA AccountStep == AccountInv /\ [AccountsNext]_accountVars => AccountInv'
<1> SUFFICES ASSUME AccountInv, [AccountsNext]_accountVars PROVE AccountInv'
    OBVIOUS
<1>1. CASE ByOlderPage
    BY <1>1, OlderPageKeeps
<1>2. CASE Refill
    <2>1. DOMAIN asking = Clerks /\ \A c \in Clerks : AskOK(asking[c])
        BY DEF AccountInv, AsksOK
    <2>2. asking' = Refilled(asking) /\ cached' = Listed /\ UNCHANGED <<account, roles, grants, departments, signed>>
        BY <1>2 DEF Refill, Listed
    <2>3. QED
        BY <2>1, <2>2, Read
<1>3. CASE Expire \/ (\E a, u \in Users : ForceLogout(a, u)) \/ UNCHANGED accountVars
    <2>1. UNCHANGED <<account, roles, grants, departments, asking>> /\ (cached' = cached \/ cached' = NoList)
        BY <1>3 DEF Expire, ForceLogout, accountVars
    <2>2. QED
        BY <2>1 DEF AccountInv, PeopleOK, ListsOK, AsksOK, MovesOK, CacheOK, Prepared, IsUser, NoList
<1>4. ASSUME NEW c \in Clerks, StartSession(c) \/ Withdraw(c) \/ \E u \in Users : CheckLogin(c, u) PROVE AccountInv'
    <2>1. PICK v : AskOK(v) /\ ~Prepared(v) /\ asking' = [asking EXCEPT ![c] = v]
        <3>1. AskOK(NoAsking) /\ ~Prepared(NoAsking)
            BY DEF AskOK, Prepared, NoAsking, DepartmentOps
        <3>2. ASSUME NEW u \in Users PROVE AskOK([op |-> "login", user |-> u]) /\ ~Prepared([op |-> "login", user |-> u])
            BY DEF AskOK, Prepared, DepartmentOps
        <3>3. QED
            BY <1>4, <3>1, <3>2 DEF StartSession, Withdraw, CheckLogin
    <2>2. UNCHANGED <<account, roles, grants, departments, cached>>
        BY <1>4 DEF StartSession, Withdraw, CheckLogin
    <2>3. AsksOK' /\ MovesOK' /\ CacheOK'
        BY <2>1, <2>2, AsksFollow DEF IsUser
    <2>4. QED
        BY <2>2, <2>3 DEF AccountInv, PeopleOK, ListsOK
<1>5. ASSUME NEW c \in Clerks, NEW a \in Users, NEW d \in Departments, NEW name \in Departments, NEW op \in DepartmentOps,
             OpenDepartment(c, a, op, d, name)
      PROVE  AccountInv'
    <2> DEFINE v == [op |-> op, at |-> "checked", actor |-> a, d |-> d, name |-> name, list |-> Listed, rows |-> {}, refilled |-> FALSE]
    <2>1. v \in DepartmentAsks
        BY DEF DepartmentAsks, AccountInv, ListsOK, Listed
    <2>2. AskOK(v) /\ ~Prepared(v)
        BY <2>1 DEF AskOK, Prepared
    <2>3. Open(c, v)
        BY <1>5 DEF OpenDepartment
    <2> HIDE DEF v
    <2>4. QED
        BY <2>2, <2>3, OpenKeeps
<1>6. ASSUME NEW c \in Clerks, NEW a \in Users, NEW r \in Roles, NEW op \in RoleOps, OpenRole(c, a, r, op) PROVE AccountInv'
    <2> DEFINE v == [op |-> op, actor |-> a, r |-> r]
    <2>1. AskOK(v) /\ ~Prepared(v)
        BY DEF AskOK, Prepared, RoleOps, DepartmentOps
    <2>2. asking' = [asking EXCEPT ![c] = v] /\ UNCHANGED <<account, roles, grants, departments, cached, signed>>
        BY <1>6 DEF OpenRole
    <2> HIDE DEF v
    <2>3. AsksOK' /\ MovesOK' /\ CacheOK'
        BY <2>1, <2>2, AsksFollow DEF IsUser
    <2>4. QED
        BY <2>2, <2>3 DEF AccountInv, PeopleOK, ListsOK
<1>7. CASE ByConfiguration
    <2>1. PICK a \in Users, r \in Roles : RewriteRole(a, r)
        BY <1>7 DEF ByConfiguration
    <2>2. PICK g \in BOOLEAN : grants' = [grants EXCEPT ![r] = g]
        BY <2>1 DEF RewriteRole
    <2>3. r \in roles /\ UNCHANGED <<account, roles, departments, cached, asking>>
        BY <2>1 DEF RewriteRole
    <2>4. ListsOK'
        BY <2>2, <2>3 DEF AccountInv, ListsOK
    <2>5. QED
        BY <2>3, <2>4 DEF AccountInv, PeopleOK, AsksOK, MovesOK, CacheOK, Prepared, IsUser
<1>8. QED
    BY <1>1, <1>2, <1>3, <1>4, <1>5, <1>6, <1>7, UserAsks, CommitUserKeeps, CommitRoleKeeps, CommitDepartmentKeeps, PrepareKeeps
       DEF AccountsNext, DepartmentOps, RoleOps

\* Somebody still manages, and who is misfiled was.
InOrder == (Managed => Managed') /\ \A u \in Users : Misfiled(u)' => Misfiled(u)

\* A user request in time.
LEMMA UserInTime ==
    ASSUME AccountInv, NEW c \in Clerks, CommitUser(c), ~Superseded(asking[c]), ~StepsDown(asking[c])
    PROVE  InOrder
<1> DEFINE v == asking[c]
<1>1. PICK u \in Users, row \in AccountRows :
           /\ u = v.user /\ UserAskOK(v) /\ account' = [account EXCEPT ![u] = row] /\ row.state # "absent"
           /\ row.state = Updated(account[u].state, v.seen.state, v.new.state)
           /\ row.role = Updated(account[u].role, v.seen.role, v.new.role)
           /\ row.dept = Updated(account[u].dept, v.seen.dept, v.new.dept)
           /\ row.own = account[u].own
    <2> DEFINE r == account'[v.user]
    <2>1. /\ v.user \in Users /\ r \in AccountRows /\ UserAskOK(v) /\ account' = [account EXCEPT ![v.user] = r] /\ r.state # "absent"
          /\ r.state = Updated(account[v.user].state, v.seen.state, v.new.state)
          /\ r.role = Updated(account[v.user].role, v.seen.role, v.new.role)
          /\ r.dept = Updated(account[v.user].dept, v.seen.dept, v.new.dept)
          /\ r.own = account[v.user].own
        BY UserWritten
    <2> HIDE DEF r
    <2>2. QED
        BY <2>1
<1>2. UNCHANGED <<roles, grants, departments>> /\ (v.seen.state = "absent" <=> account[u].state = "absent")
    BY <1>1 DEF CommitUser
<1>3. PICK a \in Users : a = v.actor /\ Manages(a) /\ v.new.role \in roles /\ v.list = departments
    BY <1>1 DEF Superseded, UserAskOK
<1>4. account \in [Users -> AccountRows] /\ (account[u].state = "absent" => account[u] = NoAccount)
    BY DEF AccountInv, PeopleOK
<1>5. account'[u] = row /\ \A x \in Users \ {u} : account'[x] = account[x]
    BY <1>1, <1>4
<1>6. Manages(a)'
    <2>1. CASE a # u
        BY <1>2, <1>3, <1>5, <2>1 DEF Manages, IsActive
    <2>2. CASE a = u
        <3>1. /\ account[u].state = "active" /\ v.seen.state = "active" /\ v.new.state = "active" /\ v.new.role \in BuiltIn
            BY <1>1, <1>3, <2>2 DEF UserAskOK, Manages, IsActive
        <3>2. row.state = "active"
            BY <1>1, <3>1 DEF Updated
        <3>3. CASE row.role = account[u].role
            BY <1>1, <1>2, <1>3, <1>5, <2>2, <3>2, <3>3 DEF Manages, IsActive
        <3>4. CASE row.role = RootRole
            BY <1>5, <2>2, <3>2, <3>4 DEF Manages, IsActive
        <3>5. CASE row.role = AdminRole /\ v.new.role = AdminRole
            <4>1. grants[AdminRole] /\ account[u].own # "denied"
                BY <1>1, <1>3, <2>2, <3>5 DEF StepsDown, UserAskOK
            <4>2. account[u].own \in {"none", "granted"}
                BY <1>4, <4>1 DEF AccountRows
            <4>3. QED
                BY <1>1, <1>2, <1>5, <2>2, <3>2, <3>5, <4>1, <4>2 DEF Manages, IsActive
        <3>6. QED
            BY <1>1, <3>1, <3>3, <3>4, <3>5 DEF Updated, BuiltIn
    <2>3. QED
        BY <2>1, <2>2
<1>7. ASSUME NEW x \in Users, Misfiled(x)' PROVE Misfiled(x)
    <2>1. CASE x # u
        BY <1>2, <1>5, <1>7, <2>1 DEF Misfiled, IsUser
    <2>2. CASE x = u /\ account[u].state = "absent"
        <3>1. account[u] = NoAccount /\ v.seen = NoAccount
            BY <1>1, <1>2, <1>4, <2>2 DEF UserAskOK
        <3>2. row.role = v.new.role /\ row.dept = v.new.dept
            BY <1>1, <3>1 DEF Updated
        <3>3. v.new.dept \in departments
            BY <1>1, <1>2, <1>3, <2>2 DEF UserAskOK
        <3>4. QED
            BY <1>2, <1>3, <1>5, <1>7, <2>2, <3>2, <3>3 DEF Misfiled
    <2>3. CASE x = u /\ account[u].state # "absent"
        <3>1. IsUser(u)
            BY <1>4, <2>3 DEF IsUser, AccountRows
        <3>2. row.role \notin roles => row.role = account[u].role
            BY <1>1, <1>3 DEF Updated
        <3>3. row.dept \notin departments => row.dept = account[u].dept
            BY <1>1, <1>3 DEF Updated, UserAskOK
        <3>4. QED
            BY <1>2, <1>5, <1>7, <2>3, <3>1, <3>2, <3>3 DEF Misfiled
    <2>4. QED
        BY <2>1, <2>2, <2>3
<1>8. QED
    BY <1>3, <1>6, <1>7 DEF InOrder, Managed

\* A department request in time.
LEMMA DepartmentInTime ==
    ASSUME AccountInv, NEW c \in Clerks, CommitDepartment(c), ~Superseded(asking[c])
    PROVE  InOrder
<1> DEFINE v == asking[c]
<1>1. v \in DepartmentAsks /\ v.op \in DepartmentOps /\ (v.rows # {} => v.op = "rename")
    BY DepartmentAsked DEF CommitDepartment, DepartmentOps, AccountInv, AsksOK
<1>2. v.list = departments /\ Members(v.d) = v.rows
    BY <1>1 DEF Superseded, DepartmentOps
<1>3. /\ departments' = NewList(v) /\ UNCHANGED <<roles, grants>>
      /\ \A u \in Users : account'[u] = IF u \in v.rows THEN [account[u] EXCEPT !.dept = v.name] ELSE account[u]
    BY DEF CommitDepartment
<1>4. ASSUME NEW u \in Users
      PROVE  /\ account'[u].state = account[u].state /\ account'[u].role = account[u].role /\ account'[u].own = account[u].own
             /\ account'[u].dept = IF u \in v.rows THEN v.name ELSE account[u].dept
    <2>1. account[u] \in AccountRows
        BY DEF AccountInv, PeopleOK
    <2>2. QED
        BY <1>3, <2>1 DEF AccountRows
<1>5. Managed => Managed'
    BY <1>3, <1>4 DEF Managed, Manages, IsActive
<1>6. ASSUME NEW u \in Users, Misfiled(u)', ~Misfiled(u) PROVE FALSE
    <2>1. IsUser(u) /\ account[u].dept \in departments /\ account'[u].dept \notin NewList(v)
        BY <1>3, <1>4, <1>6 DEF Misfiled, IsUser
    <2>2. u \in v.rows <=> account[u].dept = v.d
        BY <1>2, <2>1 DEF Members
    <2>3. CASE u \in v.rows
        BY <1>1, <1>4, <2>1, <2>3 DEF NewList
    <2>4. CASE u \notin v.rows
        BY <1>1, <1>2, <1>4, <2>1, <2>2, <2>4 DEF NewList, DepartmentOps
    <2>5. QED
        BY <2>3, <2>4
<1>7. QED
    BY <1>5, <1>6 DEF InOrder

\* A role request in time.
LEMMA RoleInTime ==
    ASSUME AccountInv, NEW c \in Clerks, CommitRole(c), ~Superseded(asking[c])
    PROVE  InOrder
<1> DEFINE v == asking[c]
<1>1. v \in [op : RoleOps, actor : Users, r : Roles]
    BY DEF CommitRole, AccountInv, AsksOK, AskOK, UserAskOK, DepartmentAsks, DepartmentOps, RoleOps, NoAsking
<1>2. PICK a \in Users :
      /\ UNCHANGED <<account, departments>> /\ Manages(a)
      /\ grants' = [grants EXCEPT ![v.r] = v.op = "grant"]
      /\ v.op = "role" => v.r \notin roles
      /\ v.op = "drop" => Bearers(v.r) = {}
      /\ v.op = "deny" => account[a].role # v.r
      /\ v.op # "drop" => roles \subseteq roles'
      /\ v.op = "drop" => roles' = roles \ {v.r}
    <2>1. v.actor \in Users
        BY <1>1
    <2>2. QED
        BY <2>1 DEF CommitRole, Superseded
<1>3. account[a].role \in Roles /\ IsUser(a) /\ grants \in [Roles -> BOOLEAN] /\ (grants[v.r] => v.r \in roles)
    BY <1>1, <1>2 DEF AccountInv, PeopleOK, ListsOK, AccountRows, IsUser, Manages, IsActive
<1>4. Manages(a)'
    <2>1. CASE account[a].role # v.r
        BY <1>2, <1>3, <2>1 DEF Manages, IsActive
    <2>2. CASE account[a].role = v.r
        <3>1. v.op # "drop" /\ v.op # "deny"
            BY <1>2, <1>3, <2>2 DEF Bearers
        <3>2. v.op = "grant" \/ ~grants[v.r]
            BY <1>1, <1>2, <1>3, <3>1 DEF RoleOps
        <3>3. v.op = "grant" => grants'[v.r]
            BY <1>1, <1>2, <1>3
        <3>4. QED
            BY <1>2, <2>2, <3>2, <3>3 DEF Manages, IsActive
    <2>3. QED
        BY <2>1, <2>2
<1>5. ASSUME NEW u \in Users, Misfiled(u)' PROVE Misfiled(u)
    BY <1>2, <1>5 DEF Misfiled, IsUser, Bearers
<1>6. QED
    BY <1>2, <1>4, <1>5 DEF InOrder, Managed

\* All other steps of the newer pages leave accounts, roles and departments as they are.
LEMMA OthersRest ==
    ASSUME AccountsNext, ~ByOlderPage, ~ByConfiguration, ~\E c \in Clerks : CommitUser(c) \/ CommitDepartment(c) \/ CommitRole(c)
    PROVE  UNCHANGED <<account, roles, grants, departments>>
<1>1. Refill \/ Expire \/ (\E a, u \in Users : ForceLogout(a, u)) => UNCHANGED <<account, roles, grants, departments>>
    BY DEF Refill, Expire, ForceLogout
<1>2. ASSUME NEW c \in Clerks, StartSession(c) \/ PrepareDepartment(c) \/ Withdraw(c) \/ \E u \in Users : CheckLogin(c, u)
      PROVE  UNCHANGED <<account, roles, grants, departments>>
    BY <1>2 DEF StartSession, PrepareDepartment, Withdraw, CheckLogin
<1>3. ASSUME NEW c, NEW v, Open(c, v) PROVE UNCHANGED <<account, roles, grants, departments>>
    BY <1>3 DEF Open
<1>4. ASSUME NEW c \in Clerks, \E a, u \in Users : OpenUpdate(c, a, u) \/ OpenStatus(c, a, u)
      PROVE  UNCHANGED <<account, roles, grants, departments>>
    BY <1>3, <1>4 DEF OpenUpdate, OpenStatus
<1>5. ASSUME NEW c, NEW a, NEW d, NEW name, NEW op, OpenDepartment(c, a, op, d, name)
      PROVE  UNCHANGED <<account, roles, grants, departments>>
    BY <1>3, <1>5 DEF OpenDepartment
<1>6. ASSUME NEW c, NEW a, NEW r, NEW op, OpenRole(c, a, r, op) PROVE UNCHANGED <<account, roles, grants, departments>>
    BY <1>6 DEF OpenRole
<1>7. QED
    BY <1>1, <1>2, <1>4, <1>5, <1>6 DEF AccountsNext

\* What a step makes of the cache.
LEMMA CacheMoves ==
    ASSUME AccountsNext PROVE cached' \in {cached, NoList, departments}
<1>0. ByConfiguration => cached' = cached
    BY DEF ByConfiguration, RewriteRole
<1>1. ByOlderPage \/ Refill \/ Expire \/ (\E a, u \in Users : ForceLogout(a, u)) => cached' \in {cached, NoList, departments}
    BY DEF ByOlderPage, AdminCreateUser, AdminUpdateUser, AdminDeleteUser, Refill, Expire, ForceLogout
<1>2. ASSUME NEW c \in Clerks,
             \/ StartSession(c) \/ CommitUser(c) \/ PrepareDepartment(c) \/ CommitDepartment(c) \/ CommitRole(c) \/ Withdraw(c)
             \/ \E u \in Users : CheckLogin(c, u)
      PROVE  cached' \in {cached, NoList}
    BY <1>2 DEF StartSession, CommitUser, PrepareDepartment, CommitDepartment, CommitRole, Withdraw, CheckLogin
<1>3. ASSUME NEW c, NEW v, Open(c, v) PROVE cached' \in {cached, departments}
    BY <1>3 DEF Open, Listed
<1>4. ASSUME NEW c \in Clerks, \E a, u \in Users : OpenUpdate(c, a, u) \/ OpenStatus(c, a, u) PROVE cached' \in {cached, departments}
    BY <1>3, <1>4, ZenonT(40) DEF OpenUpdate, OpenStatus
<1>5. ASSUME NEW c, NEW a, NEW d, NEW name, NEW op, OpenDepartment(c, a, op, d, name) PROVE cached' \in {cached, departments}
    BY <1>3, <1>5 DEF OpenDepartment
<1>6. ASSUME NEW c, NEW a, NEW r, NEW op, OpenRole(c, a, r, op) PROVE cached' = cached
    BY <1>6 DEF OpenRole
<1>7. QED
    BY <1>0, <1>1, <1>2, <1>4, <1>5, <1>6 DEF AccountsNext

\* The identity and role pages keep somebody who can administer the platform, every user in a
\* department and a role that exist, every department, and the cache with the list, except by a
\* request whose checks were overtaken (update_user, rename_department, delete_department,
\* delete_role, _save_departments); the older page and the configuration pages keep no manager.
THEOREM SupersededAlone == AccountsSpec => OnlySupersededStrand
<1> DEFINE Step ==
       /\ (Managed /\ ~Managed') \/ (\E u \in Users : Misfiled(u)' /\ ~Misfiled(u)) =>
            \/ ByOlderPage \/ ByConfiguration
            \/ \E c \in Clerks : /\ asking[c] # NoAsking /\ asking'[c] = NoAsking /\ asking[c].op # "login"
                                 /\ Superseded(asking[c]) \/ StepsDown(asking[c])
       /\ \A d \in departments \ departments' :
            \E c \in Clerks : CommitDepartment(c) /\ (asking[c].d = d \/ asking[c].list # departments)
       /\ ~Stale /\ Stale' =>
            \E c \in Clerks : CommitDepartment(c) /\ asking[c].refilled
<1>1. AccountInv /\ AccountsNext => Step
    <2> SUFFICES ASSUME AccountInv, AccountsNext PROVE Step
        OBVIOUS
    <2>1. ASSUME NEW c \in Clerks, CommitUser(c) \/ CommitDepartment(c) \/ CommitRole(c)
          PROVE  asking[c] # NoAsking /\ asking'[c] = NoAsking /\ asking[c].op # "login"
        BY <2>1 DEF CommitUser, CommitDepartment, CommitRole, NoAsking, AccountInv, AsksOK
    <2>2. ASSUME ~InOrder, ~ByOlderPage, ~ByConfiguration
          PROVE  \E c \in Clerks : /\ asking[c] # NoAsking /\ asking'[c] = NoAsking /\ asking[c].op # "login"
                                   /\ Superseded(asking[c]) \/ StepsDown(asking[c])
        <3>1. ~UNCHANGED <<account, roles, grants, departments>>
            BY <2>2 DEF InOrder, Managed, Manages, IsActive, Misfiled, IsUser
        <3>2. PICK c \in Clerks : CommitUser(c) \/ CommitDepartment(c) \/ CommitRole(c)
            BY <2>2, <3>1, OthersRest
        <3>3. QED
            BY <2>1, <2>2, <3>2, UserInTime, DepartmentInTime, RoleInTime
    <2>3. ASSUME NEW d \in departments \ departments'
          PROVE  \E c \in Clerks : CommitDepartment(c) /\ (asking[c].d = d \/ asking[c].list # departments)
        <3>1. PICK c \in Clerks : CommitDepartment(c)
            <4>1. ByOlderPage \/ ByConfiguration => UNCHANGED departments
                BY DEF ByOlderPage, AdminCreateUser, AdminUpdateUser, AdminDeleteUser, ByConfiguration, RewriteRole
            <4>2. \A c \in Clerks : CommitUser(c) \/ CommitRole(c) => UNCHANGED departments
                BY DEF CommitUser, CommitRole
            <4>3. QED
                BY <2>3, <4>1, <4>2, OthersRest
        <3>2. asking[c].op \in DepartmentOps /\ departments' = NewList(asking[c])
            BY <3>1 DEF CommitDepartment, DepartmentOps
        <3>3. asking[c].list \ {asking[c].d} \subseteq departments'
            BY <3>2 DEF NewList, DepartmentOps
        <3>4. QED
            BY <2>3, <3>1, <3>3
    <2>4. ASSUME ~Stale, Stale' PROVE \E c \in Clerks : CommitDepartment(c) /\ asking[c].refilled
        <3>1. ASSUME NEW c \in Clerks, CommitDepartment(c) PROVE asking[c].refilled
            <4>1. Prepared(asking[c]) /\ cached' = cached
                BY <3>1 DEF CommitDepartment, Prepared, DepartmentOps
            <4>2. asking[c].refilled \/ cached = NoList
                BY <4>1 DEF AccountInv, CacheOK
            <4>3. asking[c] \in DepartmentAsks
                BY <4>1, DepartmentAsked DEF Prepared, AccountInv, AsksOK
            <4>4. QED
                BY <2>4, <4>1, <4>2, <4>3 DEF Stale, DepartmentAsks
        <3>2. ASSUME ~\E c \in Clerks : CommitDepartment(c) PROVE FALSE
            <4>1. departments' = departments
                <5>1. ByOlderPage \/ ByConfiguration => UNCHANGED departments
                    BY DEF ByOlderPage, AdminCreateUser, AdminUpdateUser, AdminDeleteUser, ByConfiguration, RewriteRole
                <5>2. \A c \in Clerks : CommitUser(c) \/ CommitRole(c) => UNCHANGED departments
                    BY DEF CommitUser, CommitRole
                <5>3. QED
                    BY <3>2, <5>1, <5>2, OthersRest
            <4>2. cached' \in {cached, NoList, departments}
                BY <3>2, CacheMoves
            <4>3. QED
                BY <2>4, <4>1, <4>2 DEF Stale
        <3>3. QED
            BY <3>1, <3>2
    <2>5. QED
        BY <2>2, <2>3, <2>4 DEF InOrder
<1>2. AccountInv /\ [AccountsNext]_accountVars => [Step]_accountVars
    BY <1>1
<1>3. AccountsSpec => [][Step]_accountVars
    BY <1>2, AccountStart, AccountStep, PTL DEF AccountsSpec
<1>4. QED
    BY <1>3 DEF OnlySupersededStrand

-----------------------------------------------------------------------------
(* Loading plans.                                                          *)

ProductRows == [quantity : Nat, status : ProductStatuses \cup {"absent"}]
LorryRows == [status : LorryStatuses \cup {"absent"}, event : LorryStatuses \cup {"absent"}]
LoadEntries ==
    [op : {"load"}, s : Loads, p : Products, q : Nat, seen : ProductRows, first : BOOLEAN]

\* What is loaded was there when it was read.
EntryOK(v) ==
    \/ v = NoEntry
    \/ v \in LoadEntries /\ v.q <= v.seen.quantity
    \/ v.op = "deliver"
    \/ v \in [op : {"lorry"}, t : Lorries, status : LorryStatuses, seen : LorryStatuses \cup {"absent"}]

LoadingInv ==
    /\ product \in [Products -> ProductRows]
    /\ loaded \in [Loads -> [Products -> Nat]]
    /\ lorry \in [Lorries -> LorryRows]
    /\ DOMAIN entering = Loaders /\ \A l \in Loaders : EntryOK(entering[l])

\* At the start the warehouse is empty and nobody works.
LEMMA LoadingStart == LoadingInit => LoadingInv
BY DEF LoadingInit, LoadingInv, ProductRows, LorryRows, EntryOK

\* A request that begins has read what is there.
LEMMA BeginKeeps ==
    ASSUME LoadingInv, NEW l \in Loaders,
           \/ \E s \in Loads, p \in Products, q \in 1 .. MaxQuantity : AskAdd(l, s, p, q) \/ AskScan(l, s, p, q)
           \/ \E s \in Loads : AskDeliver(l, s)
           \/ \E t \in Lorries, st \in LorryStatuses : AskLorryStatus(l, t, st)
    PROVE  LoadingInv'
<1>1. ASSUME NEW v, EntryOK(v), Begin(l, v) PROVE LoadingInv'
    BY <1>1 DEF LoadingInv, Begin, EntryOK
<1>2. ASSUME NEW s \in Loads, NEW p \in Products, NEW q \in Nat, q <= product[p].quantity
      PROVE  EntryOK(Entry(s, p, q))
    BY <1>2 DEF LoadingInv, EntryOK, Entry, LoadEntries, ProductRows
<1>3. ASSUME NEW s \in Loads, NEW p \in Products, NEW q \in 1 .. MaxQuantity, AskAdd(l, s, p, q) \/ AskScan(l, s, p, q)
      PROVE  LoadingInv'
    <2>1. q \in Nat /\ product[p].quantity \in Nat
        BY LoadingAssumption DEF LoadingInv, ProductRows
    <2>2. CASE Enough(p, q)
        <3>1. Begin(l, Entry(s, p, q))
            BY <1>3, <2>2 DEF AskAdd, AskScan
        <3>2. EntryOK(Entry(s, p, q))
            BY <1>2, <2>1, <2>2 DEF Enough
        <3>3. QED
            BY <1>1, <3>1, <3>2
    <2>3. CASE ~Enough(p, q)
        <3>1. Begin(l, Entry(s, p, product[p].quantity))
            BY <1>3, <2>3 DEF AskAdd, AskScan
        <3>2. EntryOK(Entry(s, p, product[p].quantity))
            BY <1>2, <2>1
        <3>3. QED
            BY <1>1, <3>1, <3>2
    <2>4. QED
        BY <2>2, <2>3
<1>4. ASSUME NEW s \in Loads, AskDeliver(l, s) PROVE LoadingInv'
    BY <1>1, <1>4 DEF AskDeliver, EntryOK
<1>5. ASSUME NEW t \in Lorries, NEW st \in LorryStatuses, AskLorryStatus(l, t, st) PROVE LoadingInv'
    <2>1. EntryOK([op |-> "lorry", t |-> t, status |-> st, seen |-> lorry[t].status])
        BY DEF EntryOK, LoadingInv, LorryRows
    <2>2. QED
        BY <1>1, <1>5, <2>1 DEF AskLorryStatus
<1>6. QED
    BY <1>3, <1>4, <1>5

\* The rows of the two commits.
LEMMA EnterKeeps ==
    ASSUME LoadingInv, NEW l \in Loaders, EnterItem(l) \/ EnterDelivery(l) \/ EnterLorryStatus(l)
    PROVE  LoadingInv'
<1> DEFINE v == entering[l]
<1>0. EntryOK(v) /\ entering' = [entering EXCEPT ![l] = NoEntry]
    BY DEF LoadingInv, EnterItem, EnterDelivery, EnterLorryStatus
<1>1. DOMAIN entering' = Loaders /\ \A k \in Loaders : EntryOK(entering'[k])
    BY <1>0 DEF LoadingInv, EntryOK
<1>2. CASE EnterItem(l)
    <2>1. v \in LoadEntries
        BY <1>0, <1>2 DEF EntryOK, EnterItem, NoEntry
    <2>2. product' \in [Products -> ProductRows]
        BY <1>2, <2>1 DEF EnterItem, LoadEntries, LoadingInv, ProductRows, ProductStatuses, Changed, StatusLeft
    <2>3. loaded' \in [Loads -> [Products -> Nat]]
        BY <1>2, <2>1 DEF EnterItem, LoadEntries, LoadingInv
    <2>4. QED
        BY <1>1, <1>2, <2>2, <2>3 DEF LoadingInv, EnterItem
<1>3. CASE EnterDelivery(l)
    <2>1. product' \in [Products -> ProductRows]
        BY <1>3 DEF EnterDelivery, LoadingInv, ProductRows, ProductStatuses, Changed
    <2>2. QED
        BY <1>1, <1>3, <2>1 DEF LoadingInv, EnterDelivery
<1>4. CASE EnterLorryStatus(l)
    <2>1. v \in [op : {"lorry"}, t : Lorries, status : LorryStatuses, seen : LorryStatuses \cup {"absent"}]
        BY <1>0, <1>4 DEF EntryOK, EnterLorryStatus, NoEntry, LoadEntries
    <2>2. lorry' \in [Lorries -> LorryRows]
        BY <1>4, <2>1 DEF EnterLorryStatus, LoadingInv, LorryRows, Changed
    <2>3. QED
        BY <1>1, <1>4, <2>2 DEF LoadingInv, EnterLorryStatus
<1>5. QED
    BY <1>2, <1>3, <1>4

\* Every step keeps the types and what the requests know.
LEMMA LoadingStep == LoadingInv /\ [LoadingNext]_loadingVars => LoadingInv'
<1> SUFFICES ASSUME LoadingInv, [LoadingNext]_loadingVars PROVE LoadingInv'
    OBVIOUS
<1>1. ASSUME NEW p \in Products, CreateProduct(p) \/ UpdateProduct(p) PROVE LoadingInv'
    <2>1. product' \in [Products -> ProductRows]
        BY <1>1, LoadingAssumption DEF CreateProduct, UpdateProduct, LoadingInv, ProductRows
    <2>2. UNCHANGED <<loaded, lorry, entering>>
        BY <1>1 DEF CreateProduct, UpdateProduct
    <2>3. QED
        BY <2>1, <2>2 DEF LoadingInv
<1>2. ASSUME NEW s \in Loads, CreateLoad(s) \/ DepartLoad(s) PROVE LoadingInv'
    BY <1>2 DEF CreateLoad, DepartLoad, LoadingInv
<1>3. ASSUME NEW t \in Lorries, CreateLorry(t) PROVE LoadingInv'
    BY <1>3 DEF CreateLorry, LoadingInv, LorryRows, LorryStatuses
<1>4. CASE UNCHANGED loadingVars
    BY <1>4 DEF loadingVars, LoadingInv
<1>5. QED
    BY <1>1, <1>2, <1>3, <1>4, BeginKeeps, EnterKeeps DEF LoadingNext

\* A request that nobody has outrun moves pieces from the warehouse into its shipment.
LEMMA ItemMoves ==
    ASSUME LoadingInv, NEW l \in Loaders, EnterItem(l), NEW p \in Products,
           entering[l].p # p \/ ~Outrun(entering[l])
    PROVE  InAndOut(p)' = InAndOut(p) /\ (SoldOut(p)' => SoldOut(p))
<1> DEFINE v == entering[l]
           f == [s \in Loads |-> loaded[s][p]]
           g == [s \in Loads |-> loaded'[s][p]]
<1>1. v \in LoadEntries /\ v.q <= v.seen.quantity
    BY DEF LoadingInv, EntryOK, EnterItem, NoEntry
<1>2. /\ v.s \in Loads /\ v.p \in Products /\ v.q \in Nat /\ v.seen.quantity \in Nat
      /\ v.seen = [quantity |-> v.seen.quantity, status |-> v.seen.status]
    BY <1>1 DEF LoadEntries, ProductRows
<1>3. /\ f \in [Loads -> Nat] /\ g \in [Loads -> Nat]
      /\ \A s \in Loads \ {v.s} : g[s] = f[s]
      /\ g[v.s] = IF p = v.p THEN f[v.s] + v.q ELSE f[v.s]
    BY <1>2 DEF EnterItem, LoadingInv
<1>4. Amount(g, Loads) + f[v.s] = Amount(f, Loads) + g[v.s] /\ Amount(g, Loads) \in Nat
    BY <1>2, <1>3, AmountChanged, LoadingAssumption
<1>5. Amount(f, Loads) \in Nat
    BY <1>3, PiecesFinite, LoadingAssumption
<1>6. CASE p # v.p
    <2>1. product'[p] = product[p] /\ Amount(g, Loads) = Amount(f, Loads)
        BY <1>2, <1>3, <1>4, <1>5, <1>6 DEF EnterItem, LoadingInv
    <2>2. QED
        BY <2>1 DEF InAndOut, SoldOut
<1>7. CASE p = v.p
    <2>1. product[p] = v.seen /\ product[p] \in ProductRows
        BY <1>1, <1>7 DEF Outrun, LoadEntries, LoadingInv
    <2> DEFINE left == IF v.seen.quantity > v.q THEN v.seen.quantity - v.q ELSE 0
    <2>2. left = v.seen.quantity - v.q /\ left \in Nat
        BY <1>1, <1>2
    <2>3. product'[p] = [quantity |-> left, status |-> StatusLeft(left)]
        BY <1>2, <1>7, <2>1 DEF EnterItem, LoadingInv, Changed, ProductRows
    <2>4. Amount(g, Loads) = Amount(f, Loads) + v.q
        BY <1>2, <1>3, <1>4, <1>5, <1>7
    <2>5. ~SoldOut(p)'
        BY <2>2, <2>3 DEF SoldOut, StatusLeft
    <2> HIDE DEF left
    <2>6. InAndOut(p)' = InAndOut(p)
        BY <1>2, <1>5, <2>1, <2>2, <2>3, <2>4 DEF InAndOut
    <2>7. QED
        BY <2>5, <2>6
<1>8. QED
    BY <1>6, <1>7

\* The others leave the count and what is on offer alone, save an edit and a new product.
LEMMA OthersMove ==
    ASSUME LoadingInv, LoadingNext, NEW p \in Products,
           ~UpdateProduct(p), ~\E l \in Loaders : EnterItem(l)
    PROVE  (IsProduct(p) => InAndOut(p)' = InAndOut(p)) /\ (SoldOut(p)' => SoldOut(p))
<1>1. CASE UNCHANGED <<product, loaded>>
    BY <1>1 DEF InAndOut, SoldOut
<1>2. ASSUME NEW q \in Products, CreateProduct(q) PROVE (IsProduct(p) => product'[p] = product[p]) /\ (SoldOut(p)' => SoldOut(p))
    BY <1>2 DEF CreateProduct, IsProduct, SoldOut, LoadingInv
<1>3. ASSUME NEW q \in Products, UpdateProduct(q) PROVE product'[p] = product[p]
    BY <1>3 DEF UpdateProduct, LoadingInv
<1>4. ASSUME NEW l \in Loaders, EnterDelivery(l) PROVE product'[p].quantity = product[p].quantity /\ (SoldOut(p)' => SoldOut(p))
    BY <1>4 DEF EnterDelivery, LoadingInv, ProductRows, SoldOut, Changed
<1>5. /\ (\E q \in Products : CreateProduct(q) \/ UpdateProduct(q)) \/ (\E l \in Loaders : EnterDelivery(l)) => UNCHANGED loaded
      /\ \/ \E q \in Products : CreateProduct(q) \/ UpdateProduct(q)
         \/ \E l \in Loaders : EnterDelivery(l)
         \/ UNCHANGED <<product, loaded>>
    BY ZenonT(40) DEF LoadingNext, CreateProduct, UpdateProduct, EnterDelivery, CreateLoad, DepartLoad, CreateLorry,
           AskAdd, AskScan, AskDeliver, AskLorryStatus, Begin, EnterLorryStatus
<1>6. QED
    BY <1>1, <1>2, <1>3, <1>4, <1>5 DEF InAndOut, SoldOut

\* A transport's status and its last event go apart by a request that was outrun.
LEMMA LorriesTimely ==
    ASSUME LoadingInv, LoadingNext, NEW t \in Lorries, Untimely(t)', ~Untimely(t)
    PROVE  \E l \in Loaders : EnterLorryStatus(l) /\ Outrun(entering[l])
<1>1. CASE UNCHANGED lorry
    BY <1>1 DEF Untimely
<1>2. ASSUME NEW u \in Lorries, CreateLorry(u) PROVE FALSE
    BY <1>2 DEF CreateLorry, LoadingInv, Untimely
<1>3. ASSUME NEW l \in Loaders, EnterLorryStatus(l), ~Outrun(entering[l]) PROVE FALSE
    BY <1>3 DEF EnterLorryStatus, LoadingInv, LorryRows, Untimely, Outrun, Changed
<1>4. \/ UNCHANGED lorry
      \/ \E u \in Lorries : CreateLorry(u)
      \/ \E l \in Loaders : EnterLorryStatus(l)
    BY ZenonT(40) DEF LoadingNext, CreateProduct, UpdateProduct, EnterItem, EnterDelivery, CreateLoad, DepartLoad,
           AskAdd, AskScan, AskDeliver, AskLorryStatus, Begin
<1>5. QED
    BY <1>1, <1>2, <1>3, <1>4

\* Loading makes no piece and loses none, leaves nothing on offer that is sold out, and keeps a
\* transport's status with its last event, unless the office edits the product or a request was
\* outrun (add_shipment_item, loading_scan, update_transport_status).
THEOREM CountedAlone == LoadingSpec => OnlyOverlapsMiscount
<1> DEFINE Step ==
       /\ \A p \in Products :
            (IsProduct(p) /\ InAndOut(p)' # InAndOut(p)) \/ (SoldOut(p)' /\ ~SoldOut(p)) =>
                \/ UpdateProduct(p)
                \/ \E l \in Loaders : EnterItem(l) /\ entering[l].p = p /\ Outrun(entering[l])
       /\ \A t \in Lorries : Untimely(t)' /\ ~Untimely(t) =>
                \E l \in Loaders : EnterLorryStatus(l) /\ Outrun(entering[l])
<1>1. LoadingInv /\ LoadingNext => Step
    <2> SUFFICES ASSUME LoadingInv, LoadingNext PROVE Step
        OBVIOUS
    <2>1. ASSUME NEW p \in Products,
                 (IsProduct(p) /\ InAndOut(p)' # InAndOut(p)) \/ (SoldOut(p)' /\ ~SoldOut(p)), ~UpdateProduct(p)
          PROVE  \E l \in Loaders : EnterItem(l) /\ entering[l].p = p /\ Outrun(entering[l])
        BY <2>1, ItemMoves, OthersMove
    <2>2. QED
        BY <2>1, LorriesTimely
<1>2. UNCHANGED loadingVars => \/ Step
                                \/ UNCHANGED loadingVars
    OBVIOUS
<1>3. LoadingInv /\ [LoadingNext]_loadingVars => [Step]_loadingVars
    BY <1>1
<1>4. LoadingSpec => [][Step]_loadingVars
    BY <1>3, LoadingStart, LoadingStep, PTL DEF LoadingSpec
<1>5. QED
    BY <1>4 DEF OnlyOverlapsMiscount

-----------------------------------------------------------------------------
(* Orders of customers.                                                    *)

OrderRows == [state : {"none", "there", "deleted"}, stage : StageSet, inWarehouse : BOOLEAN, trashed : BOOLEAN]
Shipped == [order : Orders, row : Nat]
GroupRows == [archived : BOOLEAN, items : Seq(Shipped)]
Readings == [order : Orders, seen : OrderRows, row : Nat, looked : BOOLEAN]
Services == [op : {"complete", "verify", "dispatch"}, items : Seq(Readings)]

OrdersTyped ==
    /\ order \in [Orders -> OrderRows] /\ shelf \in [Orders -> Nat] /\ stored \in [Orders -> Nat]
    /\ groups \in Seq(GroupRows)

\* Rows are numbered as they come, and an order with a row is not deleted.
ShelfOK == \A o \in Orders : shelf[o] <= stored[o] /\ (shelf[o] # NoRow => There(o))

\* What was shipped is not on the shelf.
Gone(i) == i.row # NoRow /\ i.row <= stored[i.order] /\ i.row # shelf[i.order]
ShippedOK == \A g \in DOMAIN groups : \A k \in DOMAIN groups[g].items : Gone(groups[g].items[k])

\* A row that a dispatch has read was there once, and so was its order, unless it is deleted.
ReadingOK(op, i) ==
    /\ i.row <= stored[i.order]
    /\ op = "dispatch" => /\ i.row # NoRow /\ order[i.order].state # "none"
                          /\ i.looked => i.seen.state = "there" \/ order[i.order].state = "deleted"

ServiceOK(v) ==
    \/ v = NoService
    \/ /\ v \in Services /\ Len(v.items) >= 1 /\ (v.op # "dispatch" => Len(v.items) = 1)
       /\ \A k \in DOMAIN v.items : ReadingOK(v.op, v.items[k])

ServingOK == DOMAIN serving = Counters /\ \A c \in Counters : ServiceOK(serving[c])

OrderInv == OrdersTyped /\ ShelfOK /\ ShippedOK /\ ServingOK

\* The stages in their order.
LEMMA StagesInOrder ==
    /\ \A s \in StageSet : /\ NextStage(s) \in StageSet
                           /\ Position(s) \in 1 .. 6 /\ Position(NextStage(s)) \in 1 .. 6
                           /\ Position(s) <= Position(NextStage(s)) /\ Position(s) <= Position(FinalStage)
    /\ FinalStage \in StageSet
<1>1. DOMAIN ProductionStages = 1 .. 6
    BY DEF ProductionStages
<1>2. \A k, l \in 1 .. 6 : ProductionStages[k] = ProductionStages[l] => k = l
    BY DEF ProductionStages
<1>3. ASSUME NEW s \in StageSet PROVE Position(s) \in 1 .. 6 /\ ProductionStages[Position(s)] = s
    <2>1. PICK k \in 1 .. 6 : ProductionStages[k] = s
        BY <1>1 DEF StageSet
    <2>2. Position(s) = CHOOSE l \in 1 .. 6 : ProductionStages[l] = s
        BY <1>1 DEF Position
    <2>3. QED
        BY <2>1, <2>2
<1>4. ProductionStages[6] = FinalStage
    BY DEF ProductionStages, FinalStage
<1>5. \A k \in 1 .. 6 : ProductionStages[k] \in StageSet
    BY <1>1 DEF StageSet
<1>6. Position(FinalStage) = 6 /\ FinalStage \in StageSet
    BY <1>2, <1>3, <1>4, <1>5
<1>7. ASSUME NEW s \in StageSet PROVE NextStage(s) \in StageSet /\ Position(s) <= Position(NextStage(s))
    <2>1. CASE s = FinalStage
        BY <1>6, <2>1 DEF NextStage
    <2>2. CASE s # FinalStage
        <3>1. Position(s) \in 1 .. 5
            BY <1>3, <1>4, <2>2
        <3>2. Position(s) + 1 \in 1 .. 6 /\ NextStage(s) = ProductionStages[Position(s) + 1]
            BY <2>2, <3>1 DEF NextStage
        <3>3. NextStage(s) \in StageSet
            BY <1>5, <3>2
        <3>4. Position(NextStage(s)) = Position(s) + 1
            BY <1>2, <1>3, <3>2, <3>3
        <3>5. QED
            BY <3>1, <3>3, <3>4
    <2>3. QED
        BY <2>1, <2>2
<1>8. QED
    BY <1>3, <1>6, <1>7

\* A new order is well formed, and so is a deleted one.
LEMMA NoOrderRow == NoOrder \in OrderRows /\ [NoOrder EXCEPT !.state = "deleted"] \in OrderRows
<1>1. 1 \in DOMAIN ProductionStages /\ ProductionStages[1] = "Kesish"
    BY DEF ProductionStages
<1>2. "Kesish" \in StageSet
    BY <1>1 DEF StageSet
<1>3. QED
    BY <1>2 DEF NoOrder, OrderRows

\* At the start there is no order.
LEMMA OrdersStart == OrdersInit => OrderInv
BY NoOrderRow DEF OrdersInit, OrderInv, OrdersTyped, ShelfOK, ShippedOK, ServingOK, ServiceOK, NoRow

\* What a request in progress has read.
LEMMA ItemsRead ==
    ASSUME OrderInv, NEW c \in Counters, serving[c] # NoService
    PROVE  LET v == serving[c] IN
           /\ v \in Services /\ v.items \in Seq(Readings) /\ v.op \in {"complete", "verify", "dispatch"}
           /\ DOMAIN v.items = 1 .. Len(v.items) /\ Len(v.items) \in Nat /\ Len(v.items) >= 1
           /\ v.op # "dispatch" => Len(v.items) = 1
           /\ \A k \in DOMAIN v.items :
                 /\ v.items[k] \in Readings /\ v.items[k].order \in Orders /\ v.items[k].row \in Nat
                 /\ v.items[k].seen \in OrderRows /\ ReadingOK(v.op, v.items[k])
<1> DEFINE v == serving[c]
<1>1. v \in Services /\ Len(v.items) >= 1 /\ (v.op # "dispatch" => Len(v.items) = 1)
    BY DEF OrderInv, ServingOK, ServiceOK
<1>2. \A k \in DOMAIN v.items : ReadingOK(v.op, v.items[k])
    BY DEF OrderInv, ServingOK, ServiceOK
<1>3. v.items \in Seq(Readings) /\ v.op \in {"complete", "verify", "dispatch"}
    BY <1>1 DEF Services
<1>4. \A i \in Readings : i.order \in Orders /\ i.row \in Nat /\ i.seen \in OrderRows
    BY DEF Readings
<1> HIDE DEF v
<1>5. DOMAIN v.items = 1 .. Len(v.items) /\ Len(v.items) \in Nat /\ \A k \in DOMAIN v.items : v.items[k] \in Readings
    BY <1>3
<1>6. QED
    BY <1>1, <1>2, <1>3, <1>4, <1>5 DEF v

\* Orders grow older, and rows are stored or leave the shelf: nothing else moves them.
Ages ==
    \A x \in Orders :
       /\ \/ order'[x].state = order[x].state
          \/ order[x].state = "none" /\ order'[x].state = "there" /\ shelf[x] = NoRow
          \/ order'[x].state = "deleted" /\ shelf[x] = NoRow
       /\ \/ shelf'[x] \in {shelf[x], NoRow} /\ stored'[x] = stored[x]
          \/ shelf'[x] = stored[x] + 1 /\ stored'[x] = stored[x] + 1 /\ order'[x].state = "there"

\* Then what was read or shipped stays what it was, and the rows stay rows of orders.
StillOK(op, i) ==
    /\ i.row <= stored'[i.order]
    /\ op = "dispatch" => /\ i.row # NoRow /\ order'[i.order].state # "none"
                          /\ i.looked => i.seen.state = "there" \/ order'[i.order].state = "deleted"

StillGone(i) == i.row # NoRow /\ i.row <= stored'[i.order] /\ i.row # shelf'[i.order]

LEMMA ReadingsAge ==
    ASSUME OrderInv, OrdersTyped', Ages, NEW op, NEW i \in Readings, ReadingOK(op, i)
    PROVE  StillOK(op, i)
<1> DEFINE o == i.order
<1>1. o \in Orders /\ i.row \in Nat
    BY DEF Readings
<1>2. stored[o] \in Nat /\ order[o] \in OrderRows /\ order'[o] \in OrderRows
    BY <1>1 DEF OrderInv, OrdersTyped
<1>3. stored'[o] = stored[o] \/ stored'[o] = stored[o] + 1
    BY <1>1 DEF Ages
<1>4. i.row <= stored'[o]
    BY <1>1, <1>2, <1>3 DEF ReadingOK
<1>5. order[o].state # "none" => order'[o].state # "none" /\ (order[o].state = "deleted" => order'[o].state = "deleted")
    BY <1>1, <1>2 DEF Ages
<1>6. QED
    BY <1>4, <1>5 DEF ReadingOK, StillOK

LEMMA ShippedAges ==
    ASSUME OrderInv, Ages
    PROVE  \A g \in DOMAIN groups : /\ groups[g].items \in Seq(Shipped)
                                    /\ \A k \in DOMAIN groups[g].items : StillGone(groups[g].items[k])
<1> SUFFICES ASSUME NEW g \in DOMAIN groups
             PROVE  /\ groups[g].items \in Seq(Shipped)
                    /\ \A k \in DOMAIN groups[g].items : StillGone(groups[g].items[k])
    OBVIOUS
<1>1. groups \in Seq(GroupRows)
    BY DEF OrderInv, OrdersTyped
<1>2. groups[g] \in GroupRows
    BY <1>1
<1>3. groups[g].items \in Seq(Shipped)
    BY <1>2 DEF GroupRows
<1>4. ASSUME NEW k \in DOMAIN groups[g].items PROVE StillGone(groups[g].items[k])
    <2>1. PICK i \in Shipped : i = groups[g].items[k]
        BY <1>3, <1>4
    <2>2. Gone(i)
        BY <2>1, <1>4 DEF OrderInv, ShippedOK
    <2>3. i.order \in Orders /\ i.row \in Nat
        BY DEF Shipped
    <2>4. stored[i.order] \in Nat /\ shelf[i.order] \in Nat
        BY <2>3 DEF OrderInv, OrdersTyped
    <2>5. StillGone(i)
        BY <2>2, <2>3, <2>4 DEF Ages, Gone, StillGone, NoRow
    <2>6. QED
        BY <2>1, <2>5
<1>5. QED
    BY <1>3, <1>4

LEMMA ShelfAges ==
    ASSUME OrderInv, OrdersTyped', Ages
    PROVE  ShelfOK'
<1> SUFFICES ASSUME NEW o \in Orders PROVE shelf'[o] <= stored'[o] /\ (shelf'[o] # NoRow => order'[o].state = "there")
    BY DEF ShelfOK, There
<1>1. stored[o] \in Nat /\ shelf[o] \in Nat /\ shelf[o] <= stored[o] /\ (shelf[o] # NoRow => order[o].state = "there")
    BY DEF OrderInv, OrdersTyped, ShelfOK, There
<1>2. QED
    BY <1>1 DEF Ages, NoRow

\* A request that ends, or none, leaves the others with what they have read.
LEMMA ServicesAge ==
    ASSUME OrderInv, OrdersTyped', Ages,
           serving' = serving \/ \E c \in Counters : serving' = [serving EXCEPT ![c] = NoService]
    PROVE  ServingOK'
<1>1. DOMAIN serving' = Counters /\ \A d \in Counters : serving'[d] = serving[d] \/ serving'[d] = NoService
    BY DEF OrderInv, ServingOK
<1> SUFFICES ASSUME NEW d \in Counters, serving'[d] # NoService
             PROVE  /\ serving'[d] \in Services /\ Len(serving'[d].items) >= 1
                    /\ serving'[d].op # "dispatch" => Len(serving'[d].items) = 1
                    /\ \A k \in DOMAIN serving'[d].items : StillOK(serving'[d].op, serving'[d].items[k])
    BY <1>1 DEF ServingOK, ServiceOK, ReadingOK, StillOK
<1>2. serving'[d] = serving[d] /\ serving[d] # NoService
    BY <1>1
<1>3. serving[d] \in Services /\ Len(serving[d].items) >= 1 /\ (serving[d].op # "dispatch" => Len(serving[d].items) = 1)
    BY <1>2, ItemsRead
<1>4. ASSUME NEW k \in DOMAIN serving[d].items
      PROVE  StillOK(serving[d].op, serving[d].items[k])
    <2>1. serving[d].items[k] \in Readings /\ ReadingOK(serving[d].op, serving[d].items[k])
        BY <1>2, <1>4, ItemsRead
    <2>2. QED
        BY <2>1, ReadingsAge
<1>5. QED
    BY <1>2, <1>3, <1>4

\* The orders, as those who set them directly leave them.
LEMMA OfficeRow ==
    ASSUME OrderInv, NEW o \in Orders, CreateOrder(o) \/ AdminUpdate(o) \/ SoftDelete(o) \/ DeleteOrder(o)
    PROVE  /\ OrdersTyped' /\ Ages /\ UNCHANGED <<shelf, stored, groups, serving>>
           /\ \A x \in Orders :
                 /\ order'[x].inWarehouse = order[x].inWarehouse \/ (order'[x].inWarehouse = FALSE /\ shelf[x] = NoRow)
                 /\ order'[x].state = "there" /\ ~AdminUpdate(x) => order'[x].stage = order[x].stage
<1>0. order \in [Orders -> OrderRows] /\ order[o] \in OrderRows
    BY DEF OrderInv, OrdersTyped
<1>1. UNCHANGED <<shelf, stored, groups, serving>>
    BY DEF CreateOrder, AdminUpdate, SoftDelete, DeleteOrder
<1>2. PICK row \in OrderRows :
           /\ order' = [order EXCEPT ![o] = row]
           /\ \/ row.state = order[o].state
              \/ order[o].state = "none" /\ row.state = "there"
              \/ row.state = "deleted" /\ shelf[o] = NoRow
           /\ row.inWarehouse = order[o].inWarehouse \/ (row.inWarehouse = FALSE /\ shelf[o] = NoRow)
           /\ row.state = "there" /\ ~AdminUpdate(o) => row.stage = order[o].stage
    <2>1. CASE CreateOrder(o)
        <3> DEFINE row == [order[o] EXCEPT !.state = "there"]
        <3>1. row \in OrderRows /\ row.state = "there" /\ row.inWarehouse = order[o].inWarehouse /\ row.stage = order[o].stage
            BY <1>0 DEF OrderRows
        <3>2. order' = [order EXCEPT ![o] = row] /\ order[o].state = "none"
            BY <1>0, <2>1 DEF CreateOrder
        <3> HIDE DEF row
        <3>3. QED
            BY <3>1, <3>2
    <2>2. CASE AdminUpdate(o)
        <3>1. PICK s \in StageSet : order' = [order EXCEPT ![o] = [order[o] EXCEPT !.stage = s]]
            BY <1>0, <2>2 DEF AdminUpdate
        <3> DEFINE row == [order[o] EXCEPT !.stage = s]
        <3>2. row \in OrderRows /\ row.state = order[o].state /\ row.inWarehouse = order[o].inWarehouse
            BY <1>0 DEF OrderRows
        <3>3. order' = [order EXCEPT ![o] = row]
            BY <3>1
        <3> HIDE DEF row
        <3>4. QED
            BY <2>2, <3>2, <3>3
    <2>3. CASE SoftDelete(o)
        <3>1. PICK t \in BOOLEAN : order' = [order EXCEPT ![o] = [order[o] EXCEPT !.trashed = t]]
            BY <1>0, <2>3 DEF SoftDelete
        <3> DEFINE row == [order[o] EXCEPT !.trashed = t]
        <3>2. /\ row \in OrderRows /\ row.state = order[o].state /\ row.inWarehouse = order[o].inWarehouse
              /\ row.stage = order[o].stage
            BY <1>0 DEF OrderRows
        <3>3. order' = [order EXCEPT ![o] = row]
            BY <3>1
        <3> HIDE DEF row
        <3>4. QED
            BY <3>2, <3>3
    <2>4. CASE DeleteOrder(o)
        <3> DEFINE row == [NoOrder EXCEPT !.state = "deleted"]
        <3>1. row \in OrderRows /\ row.state = "deleted" /\ row.inWarehouse = FALSE
            BY NoOrderRow DEF NoOrder
        <3>2. order' = [order EXCEPT ![o] = row] /\ shelf[o] = NoRow
            BY <2>4 DEF DeleteOrder
        <3> HIDE DEF row
        <3>3. QED
            BY <3>1, <3>2
    <2>5. QED
        BY <2>1, <2>2, <2>3, <2>4
<1>3. OrdersTyped'
    BY <1>0, <1>1, <1>2 DEF OrderInv, OrdersTyped
<1>4. \A x \in Orders : order'[x] = IF x = o THEN row ELSE order[x]
    BY <1>0, <1>2
<1>5. Ages
    <2>1. shelf' = shelf /\ stored' = stored
        BY <1>1
    <2>2. ASSUME NEW x \in Orders
          PROVE  \/ order'[x].state = order[x].state
                 \/ order[x].state = "none" /\ order'[x].state = "there" /\ shelf[x] = NoRow
                 \/ order'[x].state = "deleted" /\ shelf[x] = NoRow
        <3>1. order[x].state = "none" => shelf[x] = NoRow
            BY DEF OrderInv, ShelfOK, There
        <3>2. QED
            BY <1>2, <1>4, <3>1
    <2>3. QED
        BY <2>1, <2>2 DEF Ages
<1>6. QED
    BY <1>1, <1>2, <1>3, <1>4, <1>5

LEMMA OfficeKeeps ==
    ASSUME OrderInv, NEW o \in Orders, CreateOrder(o) \/ AdminUpdate(o) \/ SoftDelete(o) \/ DeleteOrder(o)
    PROVE  OrderInv'
<1>1. OrdersTyped' /\ Ages /\ UNCHANGED <<shelf, stored, groups, serving>>
    BY OfficeRow
<1>2. ShelfOK' /\ ServingOK'
    BY <1>1, ShelfAges, ServicesAge
<1>3. ShippedOK'
    BY <1>1, ShippedAges DEF ShippedOK, Gone, StillGone
<1>4. QED
    BY <1>1, <1>2, <1>3 DEF OrderInv

\* What is read joins what is known of a request.
LEMMA AddReading ==
    ASSUME NEW op \in {"complete", "verify", "dispatch"}, NEW items \in Seq(Readings), NEW i \in Readings,
           \A k \in DOMAIN items : ReadingOK(op, items[k]), ReadingOK(op, i), op # "dispatch" => Len(items) = 0
    PROVE  ServiceOK([op |-> op, items |-> Append(items, i)])
<1>1. Append(items, i) \in Seq(Readings) /\ Len(Append(items, i)) = Len(items) + 1 /\ Len(items) \in Nat
    OBVIOUS
<1>2. \A k \in DOMAIN Append(items, i) : Append(items, i)[k] = i \/ (k \in DOMAIN items /\ Append(items, i)[k] = items[k])
    OBVIOUS
<1> DEFINE all == Append(items, i)
<1> HIDE DEF all
<1>3. [op |-> op, items |-> all] \in Services
    BY <1>1 DEF Services, all
<1>4. \A k \in DOMAIN all : ReadingOK(op, all[k])
    BY <1>2 DEF all
<1>5. Len(all) >= 1 /\ (op # "dispatch" => Len(all) = 1)
    BY <1>1 DEF all
<1>6. ServiceOK([op |-> op, items |-> all])
    BY <1>3, <1>4, <1>5 DEF ServiceOK
<1>7. QED
    BY <1>6 DEF all

LEMMA ServeReads ==
    ASSUME OrderInv, NEW o \in Orders, NEW op \in {"complete", "verify"}, NEW c \in Counters, Serve(c, op, o)
    PROVE  \E v : ServiceOK(v) /\ serving' = [serving EXCEPT ![c] = v]
<1> DEFINE i == Reading(o, order[o], NoRow)
<1>1. i \in Readings /\ i.row = NoRow /\ i.order = o
    BY DEF Reading, Readings, OrderInv, OrdersTyped, NoRow
<1>2. stored[o] \in Nat
    BY DEF OrderInv, OrdersTyped
<1>3. serving' = [serving EXCEPT ![c] = [op |-> op, items |-> <<i>>]]
    BY DEF Serve
<1> HIDE DEF i
<1>4. ReadingOK(op, i)
    BY <1>1, <1>2 DEF ReadingOK, NoRow
<1>5. <<>> \in Seq(Readings) /\ Append(<<>>, i) = <<i>> /\ Len(<<>>) = 0 /\ DOMAIN (<<>>) = {}
    BY <1>1
<1>6. ServiceOK([op |-> op, items |-> <<i>>])
    BY <1>1, <1>4, <1>5, AddReading
<1>7. QED
    BY <1>3, <1>6

LEMMA DispatchReads ==
    ASSUME OrderInv, NEW o \in Orders, NEW c \in Counters, Dispatch(c, o)
    PROVE  \E v : ServiceOK(v) /\ serving' = [serving EXCEPT ![c] = v]
<1> DEFINE i == Reading(o, NoOrder, shelf[o])
           items == Items(serving[c])
<1>1. i \in Readings /\ i.row = shelf[o] /\ i.order = o /\ i.looked = FALSE
    BY NoOrderRow DEF Reading, Readings, OrderInv, OrdersTyped
<1>2. shelf[o] # NoRow /\ shelf[o] <= stored[o] /\ order[o].state = "there"
    BY DEF Dispatch, OrderInv, ShelfOK, There
<1>3. serving' = [serving EXCEPT ![c] = [op |-> "dispatch", items |-> Append(items, i)]]
    BY DEF Dispatch
<1> HIDE DEF i
<1>4. ReadingOK("dispatch", i)
    BY <1>1, <1>2 DEF ReadingOK
<1>5. items \in Seq(Readings) /\ \A k \in DOMAIN items : ReadingOK("dispatch", items[k])
    <2>1. CASE serving[c] = NoService
        <3>1. items = <<>>
            BY <2>1 DEF Items
        <3>2. QED
            BY <3>1
    <2>2. CASE serving[c] # NoService
        <3>1. items = serving[c].items /\ serving[c].op = "dispatch"
            BY <2>2 DEF Items, Dispatch
        <3>2. QED
            BY <2>2, <3>1, ItemsRead
    <2>3. QED
        BY <2>1, <2>2
<1> HIDE DEF items
<1>6. ServiceOK([op |-> "dispatch", items |-> Append(items, i)])
    BY <1>1, <1>4, <1>5, AddReading
<1>7. QED
    BY <1>3, <1>6

\* The order that the session of a dispatch has is one that was there, or is deleted by now.
LEMMA SeenOK ==
    ASSUME OrderInv, NEW c \in Counters, serving[c] # NoService, serving[c].op = "dispatch",
           NEW k \in DOMAIN serving[c].items
    PROVE  LET o == serving[c].items[k].order IN
           /\ Seen(serving[c], o) \in OrderRows
           /\ Seen(serving[c], o).state = "there" \/ order[o].state = "deleted"
           /\ Loaded(serving[c], o) # {} =>
                 \E j \in DOMAIN serving[c].items : serving[c].items[j].order = o /\ Seen(serving[c], o) = serving[c].items[j].seen
<1> DEFINE v == serving[c]
           o == v.items[k].order
<1>1. o \in Orders /\ order[o] \in OrderRows /\ order[o].state # "none"
    BY ItemsRead DEF OrderInv, OrdersTyped, ReadingOK
<1>2. CASE Loaded(v, o) = {}
    BY <1>1, <1>2 DEF Seen, OrderRows
<1>3. CASE Loaded(v, o) # {}
    <2>1. PICK j \in Loaded(v, o) : Seen(v, o) = v.items[j].seen
        BY <1>3 DEF Seen
    <2>2. j \in DOMAIN v.items /\ v.items[j].order = o /\ v.items[j].looked
        BY <2>1 DEF Loaded
    <2>3. v.items[j].seen \in OrderRows /\ ReadingOK(v.op, v.items[j])
        BY <2>2, ItemsRead
    <2>4. QED
        BY <2>1, <2>2, <2>3 DEF ReadingOK
<1>4. QED
    BY <1>2, <1>3

LEMMA LookReads ==
    ASSUME OrderInv, NEW c \in Counters, Look(c)
    PROVE  \E v : ServiceOK(v) /\ serving' = [serving EXCEPT ![c] = v]
<1> DEFINE v == serving[c]
           n == Len(v.items)
           i == v.items[n]
           j == IF v.op = "dispatch" THEN [i EXCEPT !.seen = Seen(v, i.order), !.looked = TRUE]
                ELSE [i EXCEPT !.row = shelf[i.order], !.looked = TRUE]
           w == [v EXCEPT !.items = [v.items EXCEPT ![n] = j]]
<1>1. v # NoService /\ serving' = [serving EXCEPT ![c] = w]
    BY DEF Look
<1>2. /\ v \in Services /\ v.items \in Seq(Readings) /\ v.op \in {"complete", "verify", "dispatch"}
      /\ DOMAIN v.items = 1 .. n /\ n \in Nat /\ n >= 1 /\ (v.op # "dispatch" => n = 1)
      /\ \A k \in DOMAIN v.items : ReadingOK(v.op, v.items[k])
    BY <1>1, ItemsRead
<1>3. n \in DOMAIN v.items
    BY <1>2
<1>4. i \in Readings /\ i.order \in Orders /\ i.row \in Nat /\ ReadingOK(v.op, i)
    BY <1>1, <1>3, ItemsRead
<1>5. j \in Readings /\ ReadingOK(v.op, j)
    <2>1. CASE v.op = "dispatch"
        <3>1. Seen(v, i.order) \in OrderRows /\ (Seen(v, i.order).state = "there" \/ order[i.order].state = "deleted")
            BY <1>1, <1>3, <2>1, SeenOK
        <3>2. j = [i EXCEPT !.seen = Seen(v, i.order), !.looked = TRUE]
            BY <2>1
        <3> HIDE DEF v, j, i
        <3>3. /\ j \in Readings /\ j.order = i.order /\ j.row = i.row /\ j.seen = Seen(v, i.order)
            BY <1>4, <3>1, <3>2 DEF Readings
        <3>4. QED
            BY <1>4, <2>1, <3>1, <3>3 DEF ReadingOK
    <2>2. CASE v.op # "dispatch"
        <3>1. shelf[i.order] \in Nat /\ shelf[i.order] <= stored[i.order]
            BY <1>4 DEF OrderInv, OrdersTyped, ShelfOK
        <3>2. j = [i EXCEPT !.row = shelf[i.order], !.looked = TRUE]
            BY <2>2
        <3> HIDE DEF v, j, i
        <3>3. /\ j \in Readings /\ j.order = i.order /\ j.row = shelf[i.order]
            BY <1>4, <3>1, <3>2 DEF Readings
        <3>4. QED
            BY <2>2, <3>1, <3>3 DEF ReadingOK
    <2>3. QED
        BY <2>1, <2>2
<1> DEFINE items == [v.items EXCEPT ![n] = j]
<1> HIDE DEF j
<1>6. items \in Seq(Readings) /\ Len(items) = n /\ DOMAIN items = DOMAIN v.items
    BY <1>2, <1>5
<1>7. \A k \in DOMAIN items : items[k] = j \/ items[k] = v.items[k]
    BY <1>2
<1>8. w \in Services /\ w.op = v.op /\ w.items = items
    BY <1>2, <1>6 DEF Services
<1> HIDE DEF items, w, v
<1>9. ServiceOK(w)
    BY <1>2, <1>5, <1>6, <1>7, <1>8 DEF ServiceOK
<1>10. QED
    BY <1>1, <1>9

\* Reads, and requests that end without a commit.
LEMMA ReadsKeep ==
    ASSUME OrderInv, NEW c \in Counters,
           \/ \E o \in Orders, op \in {"complete", "verify"} : Serve(c, op, o)
           \/ \E o \in Orders : Dispatch(c, o)
           \/ Look(c) \/ Refuse(c)
    PROVE  OrderInv' /\ UNCHANGED <<order, shelf, stored, groups>>
<1>1. UNCHANGED <<order, shelf, stored, groups>>
    BY DEF Serve, Dispatch, Look, Refuse
<1>2. PICK v : ServiceOK(v) /\ serving' = [serving EXCEPT ![c] = v]
    <2>1. ServiceOK(NoService)
        BY DEF ServiceOK
    <2>2. CASE Refuse(c)
        BY <2>1, <2>2 DEF Refuse
    <2>3. QED
        BY <2>2, ServeReads, DispatchReads, LookReads
<1>3. ServingOK'
    BY <1>1, <1>2 DEF OrderInv, ServingOK, ServiceOK, ReadingOK
<1>4. QED
    BY <1>1, <1>3 DEF OrderInv, OrdersTyped, ShelfOK, ShippedOK, Gone, There

\* The row of an order that a request writes, and what it stores.
LEMMA PassRow ==
    ASSUME OrderInv, NEW c \in Counters, Pass(c)
    PROVE  LET v == serving[c]
               i == v.items[1]
               o == i.order
           IN /\ v # NoService /\ v.op \in {"complete", "verify"} /\ 1 \in DOMAIN v.items /\ o \in Orders /\ order[o].state = "there"
              /\ OrdersTyped' /\ Ages
              /\ i.seen \in OrderRows /\ Flagged(v.op, i.seen) \in BOOLEAN /\ Target(v.op, i.seen) \in StageSet
              /\ order'[o].stage = Written(order[o].stage, i.seen.stage, Target(v.op, i.seen))
              /\ order'[o].inWarehouse = Written(order[o].inWarehouse, i.seen.inWarehouse, Flagged(v.op, i.seen))
              /\ \A x \in Orders \ {o} : order'[x] = order[x] /\ shelf'[x] = shelf[x]
              /\ IF Stores(v.op, i.seen) /\ i.row = NoRow THEN shelf'[o] = stored[o] + 1 ELSE shelf' = shelf
              /\ serving' = [serving EXCEPT ![c] = NoService] /\ groups' = groups
<1> DEFINE v == serving[c]
           i == v.items[1]
           o == i.order
<1>1. v.op \in {"complete", "verify"} /\ v # NoService
    BY DEF Pass, NoService
<1>2. 1 \in DOMAIN v.items
    BY <1>1, ItemsRead
<1>3. o \in Orders /\ i.seen \in OrderRows
    BY <1>1, <1>2, ItemsRead
<1>4. order[o] \in OrderRows /\ order \in [Orders -> OrderRows] /\ stored[o] \in Nat /\ shelf \in [Orders -> Nat] /\ stored \in [Orders -> Nat]
    BY <1>3 DEF OrderInv, OrdersTyped
<1>5. Flagged(v.op, i.seen) \in BOOLEAN /\ Target(v.op, i.seen) \in StageSet
    BY <1>3, StagesInOrder DEF Flagged, Stores, Target, OrderRows
<1> DEFINE row == [order[o] EXCEPT !.stage = Written(order[o].stage, i.seen.stage, Target(v.op, i.seen)),
                                   !.inWarehouse = Written(order[o].inWarehouse, i.seen.inWarehouse, Flagged(v.op, i.seen))]
<1>6. row \in OrderRows
    BY <1>3, <1>4, <1>5 DEF OrderRows, Written
<1>7. order' = [order EXCEPT ![o] = row] /\ order[o].state = "there"
    BY <1>4 DEF Pass, There
<1>8. /\ row.state = order[o].state
      /\ row.stage = Written(order[o].stage, i.seen.stage, Target(v.op, i.seen))
      /\ row.inWarehouse = Written(order[o].inWarehouse, i.seen.inWarehouse, Flagged(v.op, i.seen))
    BY <1>4 DEF OrderRows
<1> HIDE DEF row
<1>9. \A x \in Orders : order'[x] = IF x = o THEN row ELSE order[x]
    BY <1>4, <1>7
<1>10. serving' = [serving EXCEPT ![c] = NoService] /\ groups' = groups /\ Stored(v.op, i)
    BY DEF Pass
<1>11. \/ /\ Stores(v.op, i.seen) /\ i.row = NoRow
          /\ shelf' = [shelf EXCEPT ![o] = stored[o] + 1] /\ stored' = [stored EXCEPT ![o] = stored[o] + 1]
       \/ ~(Stores(v.op, i.seen) /\ i.row = NoRow) /\ shelf' = shelf /\ stored' = stored
    BY <1>10 DEF Stored
<1>12. OrdersTyped'
    <2>1. order' \in [Orders -> OrderRows]
        BY <1>4, <1>6, <1>7
    <2>2. shelf' \in [Orders -> Nat] /\ stored' \in [Orders -> Nat]
        <3> HIDE DEF v, i
        <3>1. QED
            BY <1>4, <1>11
    <2>3. QED
        BY <1>10, <2>1, <2>2 DEF OrderInv, OrdersTyped
<1>13. /\ \A x \in Orders \ {o} : shelf'[x] = shelf[x] /\ stored'[x] = stored[x]
       /\ IF Stores(v.op, i.seen) /\ i.row = NoRow THEN shelf'[o] = stored[o] + 1 /\ stored'[o] = stored[o] + 1
          ELSE shelf' = shelf /\ stored' = stored
    BY <1>3, <1>4, <1>11
<1>14. Ages
    BY <1>7, <1>8, <1>9, <1>13 DEF Ages
<1>15. QED
    BY <1>1, <1>2, <1>3, <1>5, <1>7, <1>8, <1>9, <1>10, <1>12, <1>13, <1>14

LEMMA PassKeeps == ASSUME OrderInv, NEW c \in Counters, Pass(c) PROVE OrderInv'
<1>1. OrdersTyped' /\ Ages /\ serving' = [serving EXCEPT ![c] = NoService] /\ groups' = groups
    BY PassRow
<1>2. ShelfOK' /\ ServingOK'
    BY <1>1, ShelfAges, ServicesAge
<1>3. ShippedOK'
    BY <1>1, ShippedAges DEF ShippedOK, Gone, StillGone
<1>4. QED
    BY <1>1, <1>2, <1>3 DEF OrderInv

\* What a shipment leaves.
Parcel(v) == [k \in DOMAIN v.items |-> [order |-> v.items[k].order, row |-> v.items[k].row]]

Named(v, o) == \E k \in DOMAIN v.items : v.items[k].order = o
Took(v, o) == \E k \in DOMAIN v.items : v.items[k].order = o /\ v.items[k].row = shelf[o]

LEMMA ShipRow ==
    ASSUME OrderInv, NEW c \in Counters, Ship(c)
    PROVE  LET v == serving[c] IN
           /\ v # NoService /\ v.op = "dispatch" /\ Looked(v)
           /\ OrdersTyped' /\ Ages
           /\ \A o \in Orders :
                 /\ order'[o].stage = order[o].stage
                 /\ order'[o].inWarehouse = IF Named(v, o) THEN FlagShipped(v, o) ELSE order[o].inWarehouse
                 /\ shelf'[o] = IF Took(v, o) THEN NoRow ELSE shelf[o]
           /\ Parcel(v) \in Seq(Shipped) /\ DOMAIN Parcel(v) = DOMAIN v.items
           /\ groups' = Append(groups, [archived |-> FALSE, items |-> Parcel(v)])
           /\ serving' = [serving EXCEPT ![c] = NoService]
<1> DEFINE v == serving[c]
<1>1. v.op = "dispatch" /\ v # NoService /\ Looked(v)
    BY DEF Ship, NoService
<1>2. /\ DOMAIN v.items = 1 .. Len(v.items) /\ Len(v.items) \in Nat
      /\ \A k \in DOMAIN v.items : v.items[k].order \in Orders /\ v.items[k].row \in Nat
    BY <1>1, ItemsRead
<1>3. ASSUME NEW k \in DOMAIN v.items PROVE FlagShipped(v, v.items[k].order) \in BOOLEAN
    <2>1. Seen(v, v.items[k].order) \in OrderRows
        BY <1>1, <1>3, SeenOK
    <2>2. order[v.items[k].order] \in OrderRows
        BY <1>2, <1>3 DEF OrderInv, OrdersTyped
    <2>3. QED
        BY <2>1, <2>2 DEF FlagShipped, Written, Unflagged, OrderRows
<1> DEFINE Row(o) == IF Named(v, o) THEN [order[o] EXCEPT !.inWarehouse = FlagShipped(v, o)] ELSE order[o]
<1>4. order' = [o \in Orders |-> Row(o)] /\ shelf' = [o \in Orders |-> IF Took(v, o) THEN NoRow ELSE shelf[o]]
    BY DEF Ship, Named, Took
<1>5. stored' = stored /\ groups' = Append(groups, [archived |-> FALSE, items |-> Parcel(v)])
      /\ serving' = [serving EXCEPT ![c] = NoService]
    BY DEF Ship, Parcel
<1>6. \A o \in Orders : Named(v, o) => FlagShipped(v, o) \in BOOLEAN
    BY <1>3 DEF Named
<1>7. Parcel(v) \in Seq(Shipped) /\ DOMAIN Parcel(v) = DOMAIN v.items
    <2>1. \A k \in 1 .. Len(v.items) : [order |-> v.items[k].order, row |-> v.items[k].row] \in Shipped
        BY <1>2 DEF Shipped
    <2>2. Parcel(v) = [k \in 1 .. Len(v.items) |-> [order |-> v.items[k].order, row |-> v.items[k].row]]
        BY <1>2 DEF Parcel
    <2>3. QED
        BY <1>2, <2>1, <2>2
<1> HIDE DEF v
<1>8. ASSUME NEW o \in Orders
      PROVE  /\ Row(o) \in OrderRows /\ Row(o).state = order[o].state /\ Row(o).stage = order[o].stage
             /\ Row(o).inWarehouse = IF Named(v, o) THEN FlagShipped(v, o) ELSE order[o].inWarehouse
    <2>1. order[o] \in OrderRows
        BY DEF OrderInv, OrdersTyped
    <2>2. QED
        BY <1>6, <2>1 DEF OrderRows
<1> HIDE DEF Row
<1>9. \A o \in Orders : order'[o] = Row(o) /\ shelf'[o] = (IF Took(v, o) THEN NoRow ELSE shelf[o]) /\ stored'[o] = stored[o]
    BY <1>4, <1>5
<1>10. groups' \in Seq(GroupRows)
    <2>1. [archived |-> FALSE, items |-> Parcel(v)] \in GroupRows
        BY <1>7 DEF GroupRows
    <2>2. groups \in Seq(GroupRows)
        BY DEF OrderInv, OrdersTyped
    <2> DEFINE g == [archived |-> FALSE, items |-> Parcel(v)]
    <2> HIDE DEF g
    <2>3. Append(groups, g) \in Seq(GroupRows)
        BY <2>1, <2>2 DEF g
    <2>4. QED
        BY <1>5, <2>3 DEF g
<1>11. OrdersTyped'
    <2>1. order' \in [Orders -> OrderRows]
        BY <1>4, <1>8
    <2>2. shelf' \in [Orders -> Nat]
        BY <1>4 DEF OrderInv, OrdersTyped, NoRow
    <2>3. QED
        BY <1>5, <1>10, <2>1, <2>2 DEF OrderInv, OrdersTyped
<1>12. Ages
    BY <1>8, <1>9 DEF Ages
<1>13. QED
    BY <1>1, <1>5, <1>7, <1>8, <1>9, <1>11, <1>12 DEF v

LEMMA ShipKeeps == ASSUME OrderInv, NEW c \in Counters, Ship(c) PROVE OrderInv'
<1> DEFINE v == serving[c]
<1>1. /\ OrdersTyped' /\ Ages /\ v # NoService /\ v.op = "dispatch"
      /\ Parcel(v) \in Seq(Shipped) /\ DOMAIN Parcel(v) = DOMAIN v.items
      /\ groups' = Append(groups, [archived |-> FALSE, items |-> Parcel(v)])
      /\ serving' = [serving EXCEPT ![c] = NoService]
    BY ShipRow
<1>2. ShelfOK' /\ ServingOK'
    BY <1>1, ShelfAges, ServicesAge
<1>3. ASSUME NEW k \in DOMAIN v.items
      PROVE  Parcel(v)[k].row = v.items[k].row /\ Parcel(v)[k].order = v.items[k].order /\ StillGone(Parcel(v)[k])
    <2>1. Parcel(v)[k].row = v.items[k].row /\ Parcel(v)[k].order = v.items[k].order
        BY <1>3 DEF Parcel
    <2>2. PICK o \in Orders, r \in Nat : o = v.items[k].order /\ r = v.items[k].row /\ r # NoRow /\ r <= stored[o]
        BY <1>1, <1>3, ItemsRead DEF ReadingOK
    <2>3. shelf'[o] = IF Took(v, o) THEN NoRow ELSE shelf[o]
        BY ShipRow
    <2>4. r # shelf'[o]
        BY <1>3, <2>2, <2>3 DEF Took
    <2>5. r <= stored'[o]
        BY <2>2 DEF Ages, OrderInv, OrdersTyped, Ship
    <2>6. QED
        BY <2>1, <2>2, <2>4, <2>5 DEF StillGone
<1>4. ShippedOK'
    <2> DEFINE new == [archived |-> FALSE, items |-> Parcel(v)]
    <2>1. new.items = Parcel(v)
        OBVIOUS
    <2>2. groups \in Seq(GroupRows) /\ groups' = Append(groups, new)
        BY <1>1 DEF OrderInv, OrdersTyped
    <2> HIDE DEF new, v
    <2>3. ASSUME NEW g \in DOMAIN groups', NEW k \in DOMAIN groups'[g].items PROVE StillGone(groups'[g].items[k])
        <3>1. CASE g \in DOMAIN groups
            <4>1. groups'[g] = groups[g]
                BY <2>2, <3>1
            <4>2. QED
                BY <1>1, <2>3, <3>1, <4>1, ShippedAges
        <3>2. CASE g \notin DOMAIN groups
            <4>1. groups'[g] = new
                BY <2>2, <2>3, <3>2
            <4>2. QED
                BY <1>1, <1>3, <2>1, <2>3, <4>1
        <3>3. QED
            BY <3>1, <3>2
    <2>4. QED
        BY <2>3 DEF ShippedOK, Gone, StillGone
<1>5. QED
    BY <1>1, <1>2, <1>4 DEF OrderInv

LEMMA ArchiveRow ==
    ASSUME OrderInv, NEW g \in DOMAIN groups, ArchiveGroup(g)
    PROVE  /\ DOMAIN groups' = DOMAIN groups /\ groups' \in Seq(GroupRows)
           /\ \A h \in DOMAIN groups : groups'[h].items = groups[h].items
           /\ UNCHANGED <<order, shelf, stored, serving>>
<1>1. groups \in Seq(GroupRows)
    BY DEF OrderInv, OrdersTyped
<1>2. groups[g] \in GroupRows
    BY <1>1
<1> DEFINE row == [groups[g] EXCEPT !.archived = ~groups[g].archived]
<1>3. row \in GroupRows /\ row.items = groups[g].items
    BY <1>2 DEF GroupRows
<1>4. groups' = [groups EXCEPT ![g] = row] /\ UNCHANGED <<order, shelf, stored, serving>>
    BY DEF ArchiveGroup
<1> HIDE DEF row
<1>5. DOMAIN groups' = DOMAIN groups /\ groups' \in Seq(GroupRows)
    BY <1>1, <1>3, <1>4
<1>6. \A h \in DOMAIN groups : groups'[h].items = groups[h].items
    BY <1>1, <1>3, <1>4
<1>7. QED
    BY <1>4, <1>5, <1>6

LEMMA ArchiveKeeps == ASSUME OrderInv, NEW g \in DOMAIN groups, ArchiveGroup(g) PROVE OrderInv'
BY ArchiveRow DEF OrderInv, OrdersTyped, ShelfOK, ShippedOK, ServingOK, ServiceOK, ReadingOK, Gone, There

\* Every step keeps the rows in agreement with what the requests know of them.
LEMMA OrdersStep == OrderInv /\ [OrdersNext]_orderVars => OrderInv'
<1> SUFFICES ASSUME OrderInv, [OrdersNext]_orderVars PROVE OrderInv'
    OBVIOUS
<1>1. CASE UNCHANGED orderVars
    BY <1>1 DEF orderVars, OrderInv, OrdersTyped, ShelfOK, ShippedOK, ServingOK, ServiceOK, ReadingOK, Gone, There
<1>2. CASE OrdersNext
    BY <1>2, OfficeKeeps, ReadsKeep, PassKeeps, ShipKeeps, ArchiveKeeps DEF OrdersNext
<1>3. QED
    BY <1>1, <1>2

\* What the property says of one order: it strays, or a row of it is shipped again.
Strays(o) ==
    \/ Misplaced(o)' /\ ~Misplaced(o)
    \/ There(o)' /\ Position(order'[o].stage) < Position(order[o].stage) /\ ~AdminUpdate(o)

Again(o) == ShippedTwice(o)' /\ ~ShippedTwice(o)

LEMMA PositionsKnown == ASSUME OrderInv, NEW o \in Orders PROVE Position(order[o].stage) \in 1 .. 6
BY StagesInOrder DEF OrderInv, OrdersTyped, OrderRows

\* A request that nobody has overtaken keeps what it handles, and all keep the others.
LEMMA PassInTime ==
    ASSUME OrderInv, NEW c \in Counters, Pass(c), NEW o \in Orders
    PROVE  (Strays(o) => Overtaken(serving[c], o)) /\ ~Again(o)
<1> DEFINE v == serving[c]
           i == v.items[1]
<1>1. groups' = groups /\ ~Again(o)
    BY PassRow DEF ShippedTwice, Again
<1>2. ASSUME i.order # o PROVE ~Strays(o)
    <2>1. order'[o] = order[o] /\ shelf'[o] = shelf[o]
        BY <1>2, PassRow
    <2>2. QED
        BY <2>1, PositionsKnown DEF Strays, Misplaced
<1>3. ASSUME i.order = o, ~Overtaken(v, o) PROVE ~Strays(o)
    <2>1. 1 \in DOMAIN v.items /\ v.op \in {"complete", "verify"} /\ i.seen \in OrderRows
        BY PassRow
    <2>2. i.seen.stage = order[o].stage /\ i.seen.inWarehouse = order[o].inWarehouse /\ i.row = shelf[o]
        BY <1>3, <2>1 DEF Overtaken
    <2>3. order[o] \in OrderRows /\ shelf[o] \in Nat /\ stored[o] \in Nat
        BY DEF OrderInv, OrdersTyped
    <2>4. order'[o].stage = Target(v.op, i.seen) /\ order'[o].inWarehouse = Flagged(v.op, i.seen)
        BY <1>3, <2>2, PassRow DEF Written
    <2>5. i.seen.stage \in StageSet /\ (Target(v.op, i.seen) = FinalStage \/ Target(v.op, i.seen) = NextStage(i.seen.stage))
        BY <2>1 DEF OrderRows, Target
    <2>6. ~(Position(order'[o].stage) < Position(order[o].stage))
        BY <2>2, <2>4, <2>5, StagesInOrder
    <2>7. Misplaced(o)' => Misplaced(o)
        <3>1. CASE Stores(v.op, i.seen)
            <4>1. order'[o].inWarehouse = TRUE
                BY <2>4, <3>1 DEF Flagged
            <4>2. shelf'[o] # NoRow
                BY <1>3, <2>2, <2>3, <3>1, PassRow DEF NoRow
            <4>3. QED
                BY <4>1, <4>2 DEF Misplaced
        <3>2. CASE ~Stores(v.op, i.seen)
            <4>1. order'[o].inWarehouse = order[o].inWarehouse
                <5>1. Flagged(v.op, i.seen) = i.seen.inWarehouse
                    BY <2>1, <3>2 DEF Flagged, OrderRows
                <5>2. QED
                    BY <2>2, <2>4, <5>1
            <4>2. shelf'[o] = shelf[o]
                BY <3>2, PassRow
            <4>3. QED
                BY <4>1, <4>2 DEF Misplaced
        <3>3. QED
            BY <3>1, <3>2
    <2>8. QED
        BY <2>6, <2>7 DEF Strays
<1>4. QED
    BY <1>1, <1>2, <1>3

LEMMA ShipInTime ==
    ASSUME OrderInv, NEW c \in Counters, Ship(c), NEW o \in Orders, ~Overtaken(serving[c], o)
    PROVE  ~Strays(o)
<1> DEFINE v == serving[c]
<1>1. /\ v # NoService /\ v.op = "dispatch" /\ Looked(v)
      /\ order'[o].stage = order[o].stage
      /\ order'[o].inWarehouse = IF Named(v, o) THEN FlagShipped(v, o) ELSE order[o].inWarehouse
      /\ shelf'[o] = IF Took(v, o) THEN NoRow ELSE shelf[o]
    BY ShipRow
<1>2. CASE ~Named(v, o)
    <2>1. order'[o].inWarehouse = order[o].inWarehouse /\ shelf'[o] = shelf[o]
        BY <1>1, <1>2 DEF Named, Took
    <2>2. QED
        BY <1>1, <2>1, PositionsKnown DEF Strays, Misplaced
<1>3. CASE Named(v, o)
    <2>1. PICK k \in DOMAIN v.items : v.items[k].order = o
        BY <1>3 DEF Named
    <2>2. v.items[k].row = shelf[o] /\ v.items[k].looked
        BY <1>1, <2>1 DEF Overtaken, Looked
    <2>3. Loaded(v, o) # {}
        BY <2>1, <2>2 DEF Loaded
    <2>4. PICK j \in DOMAIN v.items : v.items[j].order = o /\ Seen(v, o) = v.items[j].seen
        BY <1>1, <2>1, <2>3, SeenOK
    <2>5. Seen(v, o).inWarehouse = order[o].inWarehouse
        BY <2>4 DEF Overtaken
    <2>6. shelf[o] # NoRow
        BY <1>1, <2>1, <2>2, ItemsRead DEF ReadingOK
    <2>7. order[o].state = "there"
        BY <2>6 DEF OrderInv, ShelfOK, There
    <2>8. Seen(v, o).state = "there"
        BY <1>1, <2>1, <2>7, SeenOK
    <2>9. order[o] \in OrderRows
        BY DEF OrderInv, OrdersTyped
    <2>10. FlagShipped(v, o) = FALSE
        BY <2>5, <2>8, <2>9 DEF FlagShipped, Written, Unflagged, OrderRows
    <2>11. order'[o].inWarehouse = FALSE /\ shelf'[o] = NoRow
        BY <1>1, <1>3, <2>1, <2>2, <2>10 DEF Took
    <2>12. ~Misplaced(o)'
        BY <2>11 DEF Misplaced
    <2>13. QED
        BY <1>1, <2>12, PositionsKnown DEF Strays
<1>4. QED
    BY <1>2, <1>3

LEMMA ShipsOnce ==
    ASSUME OrderInv, NEW c \in Counters, Ship(c), NEW o \in Orders,
           ~Overtaken(serving[c], o), ~Repeats(serving[c], o)
    PROVE  ~Again(o)
<1> SUFFICES ASSUME ShippedTwice(o)' PROVE ShippedTwice(o)
    BY DEF Again
<1> DEFINE v == serving[c]
           new == [archived |-> FALSE, items |-> Parcel(v)]
           n == Len(groups)
<1>1. /\ DOMAIN Parcel(v) = DOMAIN v.items /\ groups' = Append(groups, new) /\ new.items = Parcel(v)
      /\ groups \in Seq(GroupRows)
    BY ShipRow DEF OrderInv, OrdersTyped
<1>2. \A k \in DOMAIN v.items : Parcel(v)[k].row = v.items[k].row /\ Parcel(v)[k].order = v.items[k].order
    BY DEF Parcel
<1> HIDE DEF new
<1>3. /\ \A g \in DOMAIN groups' : g \in DOMAIN groups \/ g = n + 1
      /\ \A g \in DOMAIN groups : groups'[g] = groups[g] /\ g # n + 1
      /\ n + 1 \in DOMAIN groups' /\ groups'[n + 1] = new
    BY <1>1
<1>4. PICK g, h \in DOMAIN groups' : \E k \in DOMAIN groups'[g].items, l \in DOMAIN groups'[h].items :
          <<g, k>> # <<h, l>> /\ groups'[g].items[k].order = o /\ groups'[h].items[l] = groups'[g].items[k]
    BY DEF ShippedTwice
<1>5. PICK k \in DOMAIN groups'[g].items, l \in DOMAIN groups'[h].items :
          <<g, k>> # <<h, l>> /\ groups'[g].items[k].order = o /\ groups'[h].items[l] = groups'[g].items[k]
    BY <1>4
<1>6. ASSUME NEW j \in DOMAIN v.items, v.items[j].order = o PROVE v.items[j].row = shelf[o]
    BY <1>6 DEF Overtaken
<1>7. ASSUME NEW e \in DOMAIN groups, NEW j \in DOMAIN groups[e].items, groups[e].items[j].order = o
      PROVE  groups[e].items[j].row # shelf[o]
    BY <1>7 DEF OrderInv, ShippedOK, Gone
<1>8. ~(g = n + 1 /\ h = n + 1)
    <2> SUFFICES ASSUME g = n + 1, h = n + 1 PROVE FALSE
        OBVIOUS
    <2>1. k \in DOMAIN v.items /\ l \in DOMAIN v.items /\ k # l /\ Parcel(v)[l] = Parcel(v)[k] /\ Parcel(v)[k].order = o
        BY <1>1, <1>3, <1>5
    <2>2. v.items[k].order = o /\ v.items[l].order = o /\ v.items[k].row = v.items[l].row
        BY <1>2, <2>1
    <2>3. QED
        BY <2>1, <2>2 DEF Repeats
<1>9. ~(g = n + 1 /\ h \in DOMAIN groups)
    <2> SUFFICES ASSUME g = n + 1, h \in DOMAIN groups PROVE FALSE
        OBVIOUS
    <2>1. k \in DOMAIN v.items /\ Parcel(v)[k].order = o /\ Parcel(v)[k].row = shelf[o]
        BY <1>1, <1>2, <1>3, <1>5, <1>6
    <2>2. l \in DOMAIN groups[h].items /\ groups[h].items[l] = Parcel(v)[k]
        BY <1>1, <1>3, <1>5
    <2>3. QED
        BY <1>7, <2>1, <2>2
<1>10. ~(h = n + 1 /\ g \in DOMAIN groups)
    <2> SUFFICES ASSUME h = n + 1, g \in DOMAIN groups PROVE FALSE
        OBVIOUS
    <2>1. l \in DOMAIN v.items /\ Parcel(v)[l] = groups[g].items[k] /\ k \in DOMAIN groups[g].items /\ groups[g].items[k].order = o
        BY <1>1, <1>3, <1>5
    <2>2. Parcel(v)[l].row = shelf[o]
        BY <1>2, <1>6, <2>1
    <2>3. QED
        BY <1>7, <2>1, <2>2
<1>11. g \in DOMAIN groups /\ h \in DOMAIN groups
    BY <1>3, <1>8, <1>9, <1>10
<1>12. QED
    BY <1>3, <1>5, <1>11 DEF ShippedTwice

LEMMA OthersInPlace ==
    ASSUME OrderInv, OrdersNext, ~\E c \in Counters : Pass(c) \/ Ship(c), NEW o \in Orders
    PROVE  ~Strays(o) /\ ~Again(o)
<1>1. CASE UNCHANGED <<order, shelf, groups>>
    BY <1>1, PositionsKnown DEF Strays, Again, Misplaced, ShippedTwice
<1>2. ASSUME NEW u \in Orders, CreateOrder(u) \/ AdminUpdate(u) \/ SoftDelete(u) \/ DeleteOrder(u)
      PROVE  ~Strays(o) /\ ~Again(o)
    <2>1. UNCHANGED <<shelf, groups>>
        BY <1>2, OfficeRow
    <2>2. /\ order'[o].inWarehouse = order[o].inWarehouse \/ (order'[o].inWarehouse = FALSE /\ shelf[o] = NoRow)
          /\ order'[o].state = "there" /\ ~AdminUpdate(o) => order'[o].stage = order[o].stage
        BY <1>2, OfficeRow
    <2>3. Misplaced(o)' => Misplaced(o)
        <3>1. shelf' = shelf /\ order[o] \in OrderRows
            BY <2>1 DEF OrderInv, OrdersTyped
        <3>2. QED
            BY <2>2, <3>1 DEF Misplaced, OrderRows
    <2>4. ~(There(o)' /\ Position(order'[o].stage) < Position(order[o].stage) /\ ~AdminUpdate(o))
        BY <2>2, PositionsKnown DEF There
    <2>5. ~Again(o)
        BY <2>1 DEF Again, ShippedTwice
    <2>6. QED
        BY <2>3, <2>4, <2>5 DEF Strays
<1>3. ASSUME NEW e \in DOMAIN groups, ArchiveGroup(e) PROVE ~Strays(o) /\ ~Again(o)
    <2>1. /\ DOMAIN groups' = DOMAIN groups /\ order' = order /\ shelf' = shelf
          /\ \A h \in DOMAIN groups : groups'[h].items = groups[h].items
        BY <1>3, ArchiveRow
    <2>2. ~Strays(o)
        BY <2>1, PositionsKnown DEF Strays, Misplaced
    <2>3. ~Again(o)
        BY <2>1 DEF Again, ShippedTwice
    <2>4. QED
        BY <2>2, <2>3
<1>4. \/ UNCHANGED <<order, shelf, groups>>
      \/ \E u \in Orders : CreateOrder(u) \/ AdminUpdate(u) \/ SoftDelete(u) \/ DeleteOrder(u)
      \/ \E e \in DOMAIN groups : ArchiveGroup(e)
    BY DEF OrdersNext, Serve, Dispatch, Look, Refuse
<1>5. QED
    BY <1>1, <1>2, <1>3, <1>4

\* The flag of an order agrees with its warehouse row and no order falls back, except by a request
\* that was overtaken, or by an administrator; and only an overtaken request, or one that names a
\* row twice, ships a row again (move_to_warehouse, dispatch_grouped_shipment).
THEOREM PlacedAlone == OrdersSpec => OnlyOverlapsMisplace
<1> DEFINE Step ==
       \A o \in Orders :
          /\ (Misplaced(o)' /\ ~Misplaced(o)) \/ FallsBack(o) =>
                \E c \in Counters : Commits(c) /\ Overtaken(serving[c], o)
          /\ ShippedTwice(o)' /\ ~ShippedTwice(o) =>
                \E c \in Counters : Commits(c) /\ (Overtaken(serving[c], o) \/ Repeats(serving[c], o))
<1>1. OrderInv /\ OrdersNext => Step
    <2> SUFFICES ASSUME OrderInv, OrdersNext, NEW o \in Orders
                 PROVE  /\ Strays(o) => \E c \in Counters : Commits(c) /\ Overtaken(serving[c], o)
                        /\ Again(o) => \E c \in Counters : Commits(c) /\ (Overtaken(serving[c], o) \/ Repeats(serving[c], o))
        BY DEF Strays, Again, FallsBack
    <2>1. CASE ~\E c \in Counters : Pass(c) \/ Ship(c)
        BY <2>1, OthersInPlace
    <2>2. ASSUME NEW c \in Counters, Pass(c) \/ Ship(c)
          PROVE  /\ Strays(o) => Commits(c) /\ Overtaken(serving[c], o)
                 /\ Again(o) => Commits(c) /\ (Overtaken(serving[c], o) \/ Repeats(serving[c], o))
        <3>1. Commits(c)
            BY <2>2 DEF Commits, Pass, Ship, NoService, OrderInv, ServingOK
        <3>2. QED
            BY <2>2, <3>1, PassInTime, ShipInTime, ShipsOnce
    <2>3. QED
        BY <2>1, <2>2
<1>2. OrderInv /\ [OrdersNext]_orderVars => [Step]_orderVars
    BY <1>1
<1>3. OrdersSpec => [][Step]_orderVars
    BY <1>2, OrdersStart, OrdersStep, PTL DEF OrdersSpec
<1>4. QED
    BY <1>3 DEF OnlyOverlapsMisplace

-----------------------------------------------------------------------------
(* Export shipments and the library.                                       *)

ExportRows == [items : SUBSET Nat, totals : SUBSET Nat, status : ExportStatuses \cup {"absent"}]
PaperRows == [n : DocumentIds, e : Shipments, shows : SUBSET Nat, doc : DocumentIds \cup {NoLibraryRow}]
LibraryRows ==
    [folder : Folders \cup {NoFolder}, of : Shipments \cup {NoShipment}, read : BOOLEAN, state : {"unused", "filed", "removed"}]

ExportsTyped ==
    /\ export \in [Shipments -> ExportRows] /\ \A e \in Shipments : IsFiniteSet(export[e].items)
    /\ library \in [DocumentIds -> LibraryRows]
    /\ editions \in Nat

\* A paper has the number of a document that was inserted with it, and no two have the same.
PapersOK ==
    /\ papers \subseteq PaperRows /\ IsFiniteSet(papers)
    /\ \A r \in papers : r.n \notin Fresh /\ IsShipment(r.e)
    /\ \A r, s \in papers : r.n = s.n => r = s

\* What a request that nobody has disturbed knows of the shipment: it deletes all the products,
\* or papers, that there are, and its totals are those of its own products.
UpdateOK(v) ==
    /\ {"op", "at", "e", "edition", "disturbed"} \subseteq DOMAIN v
    /\ v.e \in Shipments /\ IsShipment(v.e) /\ v.edition \in Nat /\ v.disturbed \in BOOLEAN
    /\ v.at \in {"loaded", "erased", "summed"}
    /\ v.at # "loaded" => "rows" \in DOMAIN v /\ v.rows \subseteq Nat /\ (~v.disturbed => v.rows = export[v.e].items)
    /\ v.at = "summed" =>
            /\ {"sum", "seen"} \subseteq DOMAIN v /\ v.sum \subseteq Nat
            /\ ~v.disturbed => v.sum = {v.edition} /\ v.seen = export[v.e].totals

GenerateOK(v) ==
    /\ {"op", "at", "e", "shows", "disturbed"} \subseteq DOMAIN v
    /\ v.e \in Shipments /\ IsShipment(v.e) /\ v.shows \subseteq Nat /\ v.disturbed \in BOOLEAN
    /\ v.at \in {"loaded", "erased", "purged"}
    /\ ~v.disturbed => v.shows = export[v.e].items
    /\ v.at # "loaded" =>
            /\ "rows" \in DOMAIN v /\ v.rows \cap Fresh = {}
            /\ \A r \in papers : r.n \in v.rows => r.e = v.e
            /\ ~v.disturbed => \A r \in papers : r.e = v.e => r.n \in v.rows
    /\ v.at = "purged" =>
            /\ "docs" \in DOMAIN v /\ v.docs \subseteq DocumentIds \ Fresh
            /\ \A d \in v.docs : d \in Filed => library[d].of = v.e

DeleteOK(v) ==
    /\ {"op", "f", "joined"} \subseteq DOMAIN v
    /\ v.f \in Folders /\ v.joined \in BOOLEAN /\ (~v.joined => Empty(v.f))

WriteOK(v) ==
    /\ "op" \in DOMAIN v /\ v.op \in {"none", "update", "generate", "upload", "delete"}
    /\ v.op = "update" => UpdateOK(v)
    /\ v.op = "generate" => GenerateOK(v)
    /\ v.op = "delete" => DeleteOK(v)
    /\ v.op = "upload" => "f" \in DOMAIN v /\ v.f \in Folders \cup {NoFolder}

WritingOK == DOMAIN writing = Writers /\ \A w \in Writers : WriteOK(writing[w])

ExportInv == ExportsTyped /\ PapersOK /\ WritingOK

\* At the start nothing is written.
LEMMA ExportsStart == ExportsInit => ExportInv
<1> SUFFICES ASSUME ExportsInit PROVE ExportInv
    OBVIOUS
<1>1. ExportsTyped
    <2>1. Unused \in LibraryRows
        BY DEF Unused, LibraryRows
    <2>2. IsFiniteSet({})
        BY FS_EmptySet
    <2>3. QED
        BY <2>1, <2>2 DEF ExportsInit, ExportsTyped, ExportRows
<1>2. PapersOK
    BY FS_EmptySet DEF ExportsInit, PapersOK
<1>3. WritingOK
    BY DEF ExportsInit, WritingOK, WriteOK, NoWriting
<1>4. QED
    BY <1>1, <1>2, <1>3 DEF ExportInv

\* A set with one member at most.
LEMMA AtMostOne ==
    ASSUME NEW S, IsFiniteSet(S)
    PROVE  Cardinality(S) > 1 <=> \E x, y \in S : x # y
<1>1. Cardinality(S) \in Nat /\ (Cardinality(S) = 0 <=> S = {}) /\ (Cardinality(S) = 1 <=> \E x : S = {x})
    BY FS_CardinalityType, FS_EmptySet, FS_Singleton
<1>2. ASSUME S # {}, ~\E x, y \in S : x # y PROVE \E x : S = {x}
    <2>1. PICK x \in S : TRUE
        BY <1>2
    <2>2. S = {x}
        BY <1>2, <2>1
    <2>3. QED
        BY <2>2
<1>3. QED
    BY <1>1, <1>2

\* The first number that is free.
LEMMA FreshIsThere == ASSUME Fresh # {} PROVE FirstFresh \in Fresh
<1>1. Fresh \subseteq Nat
    BY ExportsAssumption DEF Fresh, DocumentIds
<1>2. PICK x \in Fresh : \A y \in Fresh : ~(<<y, x>> \in OpToRel(<, Nat))
    <2>1. IsWellFoundedOn(OpToRel(<, Nat), Nat)
        BY NatLessThanWellFounded
    <2>2. QED
        BY <1>1, <2>1, WFMin
<1>3. \A y \in Fresh : x <= y
    <2>1. ASSUME NEW y \in Fresh, y < x PROVE FALSE
        <3>1. <<y, x>> \in OpToRel(<, Nat)
            BY <1>1, <2>1 DEF OpToRel
        <3>2. QED
            BY <1>2, <3>1
    <2>2. QED
        BY <1>1, <2>1
<1>4. QED
    BY <1>3 DEF FirstFresh

\* What every step leaves: shipments, numbers that were used, and whose a document or a paper is.
Steady ==
    /\ \A e \in Shipments : IsShipment(e) => IsShipment(e)'
    /\ Fresh' \subseteq Fresh
    /\ \A d \in DocumentIds \ Fresh : d \in Filed' => d \in Filed /\ library'[d].of = library[d].of
    /\ \A r \in papers' : r.n \in Fresh \/ \E s \in papers : s.n = r.n /\ s.e = r.e

ItemsKept(e) == export'[e].items = export[e].items /\ export'[e].totals = export[e].totals
PapersKept(e) == \A r \in papers' : r.e = e => \E s \in papers : s.n = r.n /\ s.e = e
FolderKept(f) == \A d \in Filed' : library'[d].folder = f => d \in Filed /\ library[d].folder = f

\* A request goes on with what it has read, and may have been disturbed.
Continued(v, u) ==
    /\ DOMAIN u = DOMAIN v
    /\ \A a \in DOMAIN v \ {"waits", "disturbed", "joined"} : u[a] = v[a]
    /\ v.op \in {"update", "generate"} =>
            u.disturbed \in BOOLEAN /\ (~u.disturbed => ~v.disturbed /\ ItemsKept(v.e) /\ PapersKept(v.e))
    /\ v.op = "delete" => u.joined \in BOOLEAN /\ (~u.joined => ~v.joined /\ FolderKept(v.f))

LEMMA GoesOn ==
    ASSUME Steady, NEW v, NEW u, WriteOK(v), Continued(v, u)
    PROVE  WriteOK(u)'
<1>1. "op" \in DOMAIN v /\ u.op = v.op /\ "op" \in DOMAIN u /\ u.op \in {"none", "update", "generate", "upload", "delete"}
    BY DEF WriteOK, Continued
<1>2. CASE v.op = "update"
    <2>1. UpdateOK(v)
        BY <1>2 DEF WriteOK
    <2>2. u.at = v.at /\ u.e = v.e /\ u.edition = v.edition
        BY <2>1 DEF UpdateOK, Continued
    <2>3. u.disturbed \in BOOLEAN /\ (~u.disturbed => ~v.disturbed /\ ItemsKept(v.e))
        BY <1>2 DEF Continued
    <2>4. v.at # "loaded" => "rows" \in DOMAIN u /\ u.rows = v.rows
        BY <2>1 DEF UpdateOK, Continued
    <2>5. v.at = "summed" => {"sum", "seen"} \subseteq DOMAIN u /\ u.sum = v.sum /\ u.seen = v.seen
        BY <2>1 DEF UpdateOK, Continued
    <2>6. DOMAIN u = DOMAIN v
        BY DEF Continued
    <2>7. UpdateOK(u)'
        BY <2>1, <2>2, <2>3, <2>4, <2>5, <2>6 DEF UpdateOK, ItemsKept, Steady
    <2>8. QED
        BY <1>1, <1>2, <2>7 DEF WriteOK
<1>3. CASE v.op = "generate"
    <2>1. GenerateOK(v)
        BY <1>3 DEF WriteOK
    <2>2. u.at = v.at /\ u.e = v.e /\ u.shows = v.shows
        BY <2>1 DEF GenerateOK, Continued
    <2>3. u.disturbed \in BOOLEAN /\ (~u.disturbed => ~v.disturbed /\ ItemsKept(v.e) /\ PapersKept(v.e))
        BY <1>3 DEF Continued
    <2>4. v.at # "loaded" => "rows" \in DOMAIN u /\ u.rows = v.rows
        BY <2>1 DEF GenerateOK, Continued
    <2>5. v.at = "purged" => "docs" \in DOMAIN u /\ u.docs = v.docs
        BY <2>1 DEF GenerateOK, Continued
    <2>6. DOMAIN u = DOMAIN v
        BY DEF Continued
    <2>7. ASSUME v.at # "loaded"
          PROVE  /\ v.rows \cap Fresh' = {}
                 /\ \A r \in papers' : r.n \in v.rows => r.e = v.e
                 /\ ~u.disturbed => \A r \in papers' : r.e = v.e => r.n \in v.rows
        BY <2>1, <2>3, <2>7 DEF GenerateOK, Steady, PapersKept
    <2>8. ASSUME v.at = "purged"
          PROVE  v.docs \subseteq DocumentIds \ Fresh' /\ \A d \in v.docs : d \in Filed' => library'[d].of = v.e
        BY <2>1, <2>8 DEF GenerateOK, Steady
    <2>9. IsShipment(v.e)' /\ (~u.disturbed => v.shows = export'[v.e].items)
        BY <2>1, <2>3 DEF GenerateOK, Steady, ItemsKept
    <2>10. GenerateOK(u)'
        BY <2>1, <2>2, <2>3, <2>4, <2>5, <2>6, <2>7, <2>8, <2>9 DEF GenerateOK
    <2>11. QED
        BY <1>1, <1>3, <2>10 DEF WriteOK
<1>4. CASE v.op = "delete"
    <2>1. DeleteOK(v)
        BY <1>4 DEF WriteOK
    <2>2. u.f = v.f /\ DOMAIN u = DOMAIN v
        BY <2>1 DEF DeleteOK, Continued
    <2>3. u.joined \in BOOLEAN /\ (~u.joined => ~v.joined /\ FolderKept(v.f))
        BY <1>4 DEF Continued
    <2>4. DeleteOK(u)'
        BY <2>1, <2>2, <2>3 DEF DeleteOK, FolderKept, Empty
    <2>5. QED
        BY <1>1, <1>4, <2>4 DEF WriteOK
<1>5. CASE v.op = "upload"
    <2>1. "f" \in DOMAIN v /\ v.f \in Folders \cup {NoFolder}
        BY <1>5 DEF WriteOK
    <2>2. u.f = v.f /\ "f" \in DOMAIN u
        BY <2>1 DEF Continued
    <2>3. QED
        BY <1>1, <1>5, <2>1, <2>2 DEF WriteOK
<1>6. CASE v.op = "none"
    BY <1>1, <1>6 DEF WriteOK
<1>7. QED
    BY <1>2, <1>3, <1>4, <1>5, <1>6 DEF WriteOK

\* All requests go on, or end.
LEMMA AllGoOn ==
    ASSUME WritingOK, Steady, DOMAIN writing' = Writers,
           \A x \in Writers : writing'[x] = NoWriting \/ Continued(writing[x], writing'[x])
    PROVE  WritingOK'
<1>1. ASSUME NEW x \in Writers, NEW u, u = writing'[x] PROVE WriteOK(u)'
    <2>1. CASE u = NoWriting
        BY <2>1 DEF WriteOK, NoWriting
    <2>2. CASE u # NoWriting
        <3>1. PICK v : v = writing[x] /\ WriteOK(v)
            BY DEF WritingOK
        <3>2. Continued(v, u)
            BY <1>1, <2>2, <3>1
        <3>3. QED
            BY <3>1, <3>2, GoesOn
    <2>3. QED
        BY <2>1, <2>2
<1>2. QED
    BY <1>1 DEF WritingOK, WriteOK, UpdateOK, GenerateOK, DeleteOK

\* A request that has read something goes on as it is.
LEMMA Unmoved ==
    ASSUME NEW v, WriteOK(v),
           \A e \in Shipments : IsShipment(e) => ItemsKept(e) /\ PapersKept(e),
           \A f \in Folders : FolderKept(f)
    PROVE  Continued(v, v)
BY DEF Continued, WriteOK, UpdateOK, GenerateOK, DeleteOK

\* A read.
LEMMA ReadsOnly ==
    ASSUME ExportInv, NEW w \in Writers, NEW v, WriteOK(v), writing' = [writing EXCEPT ![w] = v],
           UNCHANGED <<export, papers, library>>, editions' \in Nat
    PROVE  ExportInv'
<1>1. Fresh' = Fresh /\ Filed' = Filed
    BY DEF Fresh, Filed
<1>2. Steady /\ (\A e \in Shipments : ItemsKept(e) /\ PapersKept(e)) /\ (\A f \in Folders : FolderKept(f))
    BY <1>1 DEF Steady, ItemsKept, PapersKept, FolderKept, IsShipment
<1>3. ASSUME NEW x \in Writers, NEW u, u = writing'[x] PROVE WriteOK(u)'
    <2>1. WriteOK(u)
        BY <1>3 DEF ExportInv, WritingOK
    <2>2. Continued(u, u)
        BY <1>2, <2>1, Unmoved
    <2>3. QED
        BY <1>2, <2>1, <2>2, GoesOn
<1>4. WritingOK'
    BY <1>3 DEF ExportInv, WritingOK, WriteOK, UpdateOK, GenerateOK, DeleteOK
<1>5. PapersOK'
    BY <1>1 DEF ExportInv, PapersOK, IsShipment
<1>6. ExportsTyped'
    BY DEF ExportInv, ExportsTyped
<1>7. QED
    BY <1>4, <1>5, <1>6 DEF ExportInv

\* Requests that begin.
LEMMA BeginsKeep ==
    ASSUME ExportInv, NEW w \in Writers,
           \/ \E e \in Shipments : LoadForUpdate(w, e) \/ LoadForGenerate(w, e)
           \/ \E f \in Folders \cup {NoFolder} : CheckUpload(w, f)
           \/ \E f \in Folders : CountFolder(w, f)
    PROVE  ExportInv'
<1>0. editions \in Nat /\ \A e \in Shipments : export[e].items \subseteq Nat
    BY DEF ExportInv, ExportsTyped, ExportRows
<1>1. ASSUME NEW v, WriteOK(v), Start(w, v), editions' \in Nat PROVE ExportInv'
    BY <1>1, ReadsOnly DEF Start
<1>2. ASSUME NEW e \in Shipments, LoadForUpdate(w, e) PROVE ExportInv'
    <2> DEFINE v == [op |-> "update", at |-> "loaded", e |-> e, edition |-> editions + 1, disturbed |-> FALSE]
    <2>1. UpdateOK(v)
        BY <1>0, <1>2 DEF UpdateOK, LoadForUpdate
    <2>2. WriteOK(v)
        BY <2>1 DEF WriteOK
    <2>3. Start(w, v) /\ editions' \in Nat
        BY <1>0, <1>2 DEF LoadForUpdate
    <2> HIDE DEF v
    <2>4. QED
        BY <1>1, <2>2, <2>3
<1>3. ASSUME NEW e \in Shipments, LoadForGenerate(w, e) PROVE ExportInv'
    <2> DEFINE v == [op |-> "generate", at |-> "loaded", e |-> e, shows |-> export[e].items, disturbed |-> FALSE]
    <2>1. GenerateOK(v)
        BY <1>0, <1>3 DEF GenerateOK, LoadForGenerate
    <2>2. WriteOK(v)
        BY <2>1 DEF WriteOK
    <2>3. Start(w, v) /\ editions' \in Nat
        BY <1>0, <1>3 DEF LoadForGenerate
    <2> HIDE DEF v
    <2>4. QED
        BY <1>1, <2>2, <2>3
<1>4. ASSUME NEW f \in Folders \cup {NoFolder}, CheckUpload(w, f) PROVE ExportInv'
    <2> DEFINE v == [op |-> "upload", f |-> f]
    <2>1. WriteOK(v)
        BY DEF WriteOK
    <2>2. Start(w, v) /\ editions' \in Nat
        BY <1>0, <1>4 DEF CheckUpload
    <2> HIDE DEF v
    <2>3. QED
        BY <1>1, <2>1, <2>2
<1>5. ASSUME NEW f \in Folders, CountFolder(w, f) PROVE ExportInv'
    <2> DEFINE v == [op |-> "delete", f |-> f, joined |-> FALSE]
    <2>1. DeleteOK(v)
        BY <1>5 DEF DeleteOK, CountFolder
    <2>2. WriteOK(v)
        BY <2>1 DEF WriteOK
    <2>3. Start(w, v) /\ editions' \in Nat
        BY <1>0, <1>5 DEF CountFolder
    <2> HIDE DEF v
    <2>4. QED
        BY <1>1, <2>2, <2>3
<1>6. QED
    BY <1>2, <1>3, <1>4, <1>5

\* The statements before the commit.
LEMMA EraseKeeps == ASSUME ExportInv, NEW w \in Writers, Erase(w) PROVE ExportInv'
<1>1. PICK v : v = writing[w] /\ WriteOK(v) /\ v.op \in {"update", "generate"} /\ v.at = "loaded"
    BY DEF Erase, ExportInv, WritingOK
<1>2. PICK busy : writing' = [writing EXCEPT ![w] =
            [a \in DOMAIN v \cup {"rows", "waits"} |->
                CASE a = "at" -> "erased" [] a = "rows" -> DeletedRows(v) [] a = "waits" -> busy [] OTHER -> v[a]]]
    BY <1>1 DEF Erase
<1> DEFINE u == [a \in DOMAIN v \cup {"rows", "waits"} |->
                CASE a = "at" -> "erased" [] a = "rows" -> DeletedRows(v) [] a = "waits" -> busy [] OTHER -> v[a]]
<1>3. /\ DOMAIN u = DOMAIN v \cup {"rows", "waits"} /\ ("at" \in DOMAIN v => u.at = "erased")
      /\ u.rows = DeletedRows(v) /\ \A a \in DOMAIN v \ {"at", "rows", "waits"} : u[a] = v[a]
    OBVIOUS
<1>0. writing' = [writing EXCEPT ![w] = u]
    BY <1>2
<1> HIDE DEF u
<1>4. ASSUME v.op = "update" PROVE WriteOK(u)
    <2>1. UpdateOK(v)
        BY <1>1, <1>4 DEF WriteOK
    <2>2. u.op = v.op /\ u.at = "erased" /\ u.e = v.e /\ u.edition = v.edition /\ u.disturbed = v.disturbed /\ u.rows = DeletedRows(v)
        BY <1>3, <2>1 DEF UpdateOK
    <2>3. DeletedRows(v) = export[v.e].items /\ export[v.e].items \subseteq Nat
        BY <1>4, <2>1 DEF DeletedRows, UpdateOK, ExportInv, ExportsTyped, ExportRows
    <2>4. UpdateOK(u)
        BY <1>3, <2>1, <2>2, <2>3 DEF UpdateOK
    <2>5. QED
        <3>1. "op" \in DOMAIN u
            BY <2>4 DEF UpdateOK
        <3>2. QED
            BY <1>4, <2>2, <2>4, <3>1 DEF WriteOK
<1>5. ASSUME v.op = "generate" PROVE WriteOK(u)
    <2>1. GenerateOK(v)
        BY <1>1, <1>5 DEF WriteOK
    <2>2. u.op = v.op /\ u.at = "erased" /\ u.e = v.e /\ u.shows = v.shows /\ u.disturbed = v.disturbed /\ u.rows = DeletedRows(v)
        BY <1>3, <2>1 DEF GenerateOK
    <2>3. DeletedRows(v) = {r.n : r \in PapersOf(v.e)}
        BY <1>5 DEF DeletedRows
    <2>4. /\ u.rows \cap Fresh = {}
          /\ \A r \in papers : r.n \in u.rows => r.e = v.e
          /\ \A r \in papers : r.e = v.e => r.n \in u.rows
        BY <2>2, <2>3 DEF PapersOf, ExportInv, PapersOK
    <2>5. GenerateOK(u)
        BY <1>3, <2>1, <2>2, <2>4 DEF GenerateOK
    <2>6. QED
        <3>1. "op" \in DOMAIN u
            BY <2>5 DEF GenerateOK
        <3>2. QED
            BY <1>5, <2>2, <2>5, <3>1 DEF WriteOK
<1>6. WriteOK(u)
    BY <1>1, <1>4, <1>5
<1>7. UNCHANGED <<export, papers, library>> /\ editions' \in Nat
    BY DEF Erase, ExportInv, ExportsTyped
<1>8. QED
    BY <1>0, <1>6, <1>7, ReadsOnly

LEMMA SumKeeps == ASSUME ExportInv, NEW w \in Writers, Sum(w) PROVE ExportInv'
<1>1. PICK v : v = writing[w] /\ WriteOK(v) /\ v.op = "update" /\ v.at = "erased"
    BY DEF Sum, ExportInv, WritingOK
<1> DEFINE sum == (export[v.e].items \ v.rows) \cup {v.edition}
           u == [a \in DOMAIN v \cup {"sum", "seen"} |->
                CASE a = "at" -> "summed" [] a = "seen" -> export[v.e].totals [] a = "sum" -> sum [] OTHER -> v[a]]
<1>2. writing' = [writing EXCEPT ![w] = u]
    BY <1>1 DEF Sum
<1>3. DOMAIN u = DOMAIN v \cup {"sum", "seen"}
    OBVIOUS
<1>4. UpdateOK(v)
    BY <1>1 DEF WriteOK
<1>5. /\ u.op = v.op /\ u.at = "summed" /\ u.e = v.e /\ u.edition = v.edition /\ u.disturbed = v.disturbed
      /\ u.rows = v.rows /\ u.seen = export[v.e].totals /\ u.sum = sum
    BY <1>1, <1>4 DEF UpdateOK
<1> HIDE DEF u
<1>6. sum \subseteq Nat /\ (~v.disturbed => sum = {v.edition})
    <2>1. export[v.e].items \subseteq Nat
        BY <1>4 DEF UpdateOK, ExportInv, ExportsTyped, ExportRows
    <2>2. QED
        BY <1>1, <1>4, <2>1 DEF UpdateOK
<1> HIDE DEF sum
<1>7. UpdateOK(u)
    BY <1>1, <1>3, <1>4, <1>5, <1>6 DEF UpdateOK
<1>8. WriteOK(u)
    BY <1>1, <1>3, <1>4, <1>5, <1>7 DEF WriteOK, UpdateOK
<1>9. UNCHANGED <<export, papers, library>> /\ editions' \in Nat
    BY DEF Sum, ExportInv, ExportsTyped
<1>10. QED
    BY <1>2, <1>8, <1>9, ReadsOnly

LEMMA PurgeKeeps == ASSUME ExportInv, NEW w \in Writers, Purge(w) PROVE ExportInv'
<1>1. PICK v : v = writing[w] /\ WriteOK(v) /\ v.op = "generate" /\ v.at = "erased"
    BY DEF Purge, ExportInv, WritingOK
<1> DEFINE docs == {d \in Filed : library[d].of = v.e}
           u == [a \in DOMAIN v \cup {"docs"} |-> CASE a = "at" -> "purged" [] a = "docs" -> docs [] OTHER -> v[a]]
<1>2. writing' = [writing EXCEPT ![w] = u]
    BY <1>1 DEF Purge
<1>3. DOMAIN u = DOMAIN v \cup {"docs"}
    OBVIOUS
<1>4. GenerateOK(v)
    BY <1>1 DEF WriteOK
<1>5. u.op = v.op /\ u.at = "purged" /\ u.e = v.e /\ u.shows = v.shows /\ u.disturbed = v.disturbed /\ u.rows = v.rows /\ u.docs = docs
    BY <1>1, <1>4 DEF GenerateOK
<1> HIDE DEF u
<1>6. docs \subseteq DocumentIds \ Fresh /\ \A d \in docs : library[d].of = v.e
    BY DEF Filed, Fresh
<1> HIDE DEF docs
<1>7. GenerateOK(u)
    BY <1>1, <1>3, <1>4, <1>5, <1>6 DEF GenerateOK
<1>8. WriteOK(u)
    BY <1>1, <1>3, <1>4, <1>5, <1>7 DEF WriteOK, GenerateOK
<1>9. UNCHANGED <<export, papers, library>> /\ editions' \in Nat
    BY DEF Purge, ExportInv, ExportsTyped
<1>10. QED
    BY <1>2, <1>8, <1>9, ReadsOnly

\* Papers whose library rows go.
LEMMA UnlinkedAlike ==
    ASSUME NEW rows \in SUBSET PaperRows, NEW docs, IsFiniteSet(rows), \A r, s \in rows : r.n = s.n => r = s
    PROVE  LET left == Unlinked(rows, docs)
           IN /\ left \subseteq PaperRows /\ IsFiniteSet(left)
              /\ \A q \in left : \E r \in rows : q.n = r.n /\ q.e = r.e /\ q.shows = r.shows
              /\ \A p, q \in left : p.n = q.n => p = q
<1> DEFINE Left(r) == IF r.doc \in docs THEN [r EXCEPT !.doc = NoLibraryRow] ELSE r
           f == [r \in rows |-> Left(r)]
<1>1. ASSUME NEW r \in rows PROVE Left(r) \in PaperRows /\ Left(r).n = r.n /\ Left(r).e = r.e /\ Left(r).shows = r.shows
    <2>1. r \in PaperRows
        OBVIOUS
    <2>2. QED
        BY <2>1 DEF PaperRows
<1>2. Unlinked(rows, docs) = {Left(r) : r \in rows}
    BY DEF Unlinked
<1> HIDE DEF Left
<1>3. f \in Surjection(rows, Unlinked(rows, docs))
    BY <1>2 DEF Surjection
<1>4. IsFiniteSet(Unlinked(rows, docs))
    BY <1>3, FS_Surjection
<1>5. QED
    BY <1>1, <1>2, <1>4

\* The end of one request, as another one sees it.
LEMMA DoneContinues ==
    ASSUME WritingOK, NEW w \in Writers, NEW x \in Writers \ {w}, NEW ws, NEW g,
           ws[x] = Done(w)[x],
           \A e \in Shipments : IsShipment(e) /\ ~(writing[w].op \in {"update", "generate"} /\ e = writing[w].e)
                                    => ItemsKept(e) /\ PapersKept(e),
           \A f \in Folders \ {g} : FolderKept(f)
    PROVE  Continued(writing[x], Into(g, ws)[x])
<1>1. PICK v : v = writing[x] /\ WriteOK(v)
    BY DEF WritingOK
<1>2. PICK z : z = ws[x]
    OBVIOUS
<1>3. z = [a \in DOMAIN v |->
                    CASE a = "waits" -> v.waits \ {w}
                      [] a = "disturbed" -> v.disturbed \/ (writing[w].op \in {"update", "generate"} /\ v.e = writing[w].e)
                      [] OTHER -> v[a]]
    BY <1>1, <1>2 DEF Done
<1>4. /\ DOMAIN z = DOMAIN v /\ \A a \in DOMAIN v \ {"waits", "disturbed"} : z[a] = v[a]
      /\ "disturbed" \in DOMAIN v /\ v.disturbed \in BOOLEAN =>
            z.disturbed \in BOOLEAN /\ (z.disturbed <=> v.disturbed \/ (writing[w].op \in {"update", "generate"} /\ v.e = writing[w].e))
    <2>1. DOMAIN z = DOMAIN v /\ \A a \in DOMAIN v \ {"waits", "disturbed"} : z[a] = v[a]
        BY <1>3
    <2>2. "disturbed" \in DOMAIN v => z.disturbed = (v.disturbed \/ (writing[w].op \in {"update", "generate"} /\ v.e = writing[w].e))
        BY <1>3
    <2>3. QED
        BY <2>1, <2>2
<1>5. PICK u : u = Into(g, ws)[x] /\ u = IF z.op = "delete" /\ z.f = g THEN [z EXCEPT !.joined = TRUE] ELSE z
    BY <1>2 DEF Into
<1>6. "op" \in DOMAIN v /\ z.op = v.op
    BY <1>1, <1>4 DEF WriteOK
<1>7. CASE v.op = "delete"
    <2>1. DeleteOK(v)
        BY <1>1, <1>7 DEF WriteOK
    <2>2. z.f = v.f /\ z.joined = v.joined
        BY <1>4, <2>1 DEF DeleteOK
    <2>3. DOMAIN u = DOMAIN v /\ \A a \in DOMAIN v \ {"waits", "disturbed", "joined"} : u[a] = v[a]
        BY <1>4, <1>5
    <2>4. u.joined \in BOOLEAN /\ (~u.joined => ~v.joined /\ FolderKept(v.f))
        <3>1. CASE v.f = g
            <4>1. u.joined = TRUE
                BY <1>4, <1>5, <1>6, <1>7, <2>1, <2>2, <3>1 DEF DeleteOK
            <4>2. QED
                BY <4>1
        <3>2. CASE v.f # g
            <4>1. u = z
                BY <1>5, <2>2, <3>2
            <4>2. QED
                BY <2>1, <2>2, <3>2, <4>1 DEF DeleteOK
        <3>3. QED
            BY <3>1, <3>2
    <2>5. QED
        BY <1>1, <1>5, <1>7, <2>3, <2>4 DEF Continued
<1>8. CASE v.op # "delete"
    <2>1. u = z
        BY <1>5, <1>6, <1>8
    <2>2. ASSUME v.op \in {"update", "generate"}
          PROVE  u.disturbed \in BOOLEAN /\ (~u.disturbed => ~v.disturbed /\ ItemsKept(v.e) /\ PapersKept(v.e))
        <3>1. "disturbed" \in DOMAIN v /\ v.disturbed \in BOOLEAN /\ v.e \in Shipments /\ IsShipment(v.e)
            BY <1>1, <2>2 DEF WriteOK, UpdateOK, GenerateOK
        <3>2. QED
            BY <1>4, <2>1, <3>1
    <2>3. QED
        BY <1>1, <1>4, <1>5, <1>8, <2>1, <2>2 DEF Continued
<1>9. QED
    BY <1>7, <1>8

\* A document that comes into a folder, as a request sees it.
LEMMA IntoContinues ==
    ASSUME WritingOK, NEW x \in Writers, NEW ws, NEW g, ws[x] = writing[x],
           \A e \in Shipments : IsShipment(e) => ItemsKept(e) /\ PapersKept(e),
           \A f \in Folders \ {g} : FolderKept(f)
    PROVE  Continued(writing[x], Into(g, ws)[x])
<1>1. PICK v : v = writing[x] /\ WriteOK(v)
    BY DEF WritingOK
<1>2. PICK u : u = Into(g, ws)[x] /\ u = IF v.op = "delete" /\ v.f = g THEN [v EXCEPT !.joined = TRUE] ELSE v
    BY <1>1 DEF Into
<1>3. DOMAIN u = DOMAIN v /\ \A a \in DOMAIN v \ {"waits", "disturbed", "joined"} : u[a] = v[a]
    BY <1>2
<1>4. ASSUME v.op = "delete" PROVE u.joined \in BOOLEAN /\ (~u.joined => ~v.joined /\ FolderKept(v.f))
    <2>1. DeleteOK(v)
        BY <1>1, <1>4 DEF WriteOK
    <2>2. CASE v.f = g
        <3>1. u.joined = TRUE
            BY <1>2, <1>4, <2>1, <2>2 DEF DeleteOK
        <3>2. QED
            BY <3>1
    <2>3. CASE v.f # g
        BY <1>2, <2>1, <2>3 DEF DeleteOK
    <2>4. QED
        BY <2>2, <2>3
<1>5. ASSUME v.op \in {"update", "generate"}
      PROVE  u.disturbed \in BOOLEAN /\ (~u.disturbed => ~v.disturbed /\ ItemsKept(v.e) /\ PapersKept(v.e))
    <2>1. u = v
        BY <1>2, <1>5
    <2>2. v.disturbed \in BOOLEAN /\ v.e \in Shipments /\ IsShipment(v.e)
        BY <1>1, <1>5 DEF WriteOK, UpdateOK, GenerateOK
    <2>3. QED
        BY <2>1, <2>2
<1>6. Continued(v, u)
    BY <1>3, <1>4, <1>5 DEF Continued
<1>7. QED
    BY <1>1, <1>2, <1>6

\* Requests that go on while one of them ends, and a document comes into a folder.
LEMMA DoneIntoKeeps ==
    ASSUME WritingOK, Steady, NEW w \in Writers, NEW g, writing' = Into(g, Done(w)),
           \A e \in Shipments : IsShipment(e) /\ ~(writing[w].op \in {"update", "generate"} /\ e = writing[w].e)
                                    => ItemsKept(e) /\ PapersKept(e),
           \A f \in Folders \ {g} : FolderKept(f)
    PROVE  WritingOK'
<1>1. ASSUME NEW x \in Writers \ {w} PROVE Continued(writing[x], writing'[x])
    BY <1>1, DoneContinues
<1>2. Done(w)[w] = NoWriting
    BY DEF Done
<1>3. DOMAIN writing' = Writers /\ writing'[w] = NoWriting
    BY <1>2 DEF Into, NoWriting
<1>4. QED
    BY <1>1, <1>3, AllGoOn

LEMMA DoneKeeps ==
    ASSUME WritingOK, Steady, NEW w \in Writers, writing' = Done(w),
           \A e \in Shipments : IsShipment(e) /\ ~(writing[w].op \in {"update", "generate"} /\ e = writing[w].e)
                                    => ItemsKept(e) /\ PapersKept(e),
           \A f \in Folders : FolderKept(f)
    PROVE  WritingOK'
<1>1. ASSUME NEW x \in Writers \ {w} PROVE Into(NoFolder, Done(w))[x] = Done(w)[x]
    <2>1. WriteOK(writing[x]) /\ Done(w)[x].op = writing[x].op
        BY DEF WritingOK, WriteOK, Done
    <2>2. writing[x].op = "delete" => Done(w)[x].f # NoFolder
        BY <2>1, ExportsAssumption DEF WriteOK, DeleteOK, Done
    <2>3. QED
        BY <2>1, <2>2 DEF Into
<1>2. DOMAIN Done(w) = Writers /\ Done(w)[w] = NoWriting /\ DOMAIN Into(NoFolder, Done(w)) = Writers
    BY DEF Done, Into
<1>3. Into(NoFolder, Done(w))[w] = Done(w)[w]
    BY <1>2 DEF Into, NoWriting
<1>4. ASSUME NEW x \in Writers \ {w} PROVE Continued(writing[x], writing'[x])
    <2>1. Continued(writing[x], Into(NoFolder, Done(w))[x])
        BY DoneContinues
    <2>2. QED
        BY <1>1, <2>1
<1>5. QED
    BY <1>2, <1>4, AllGoOn

\* Shipments.
LEMMA ShipmentsKeep == ASSUME ExportInv, NEW e \in Shipments, CreateShipment(e) \/ SetStatus(e) PROVE ExportInv'
<1>1. UNCHANGED <<papers, library, folders, writing>> /\ Fresh' = Fresh /\ Filed' = Filed
    BY DEF CreateShipment, SetStatus, Fresh, Filed
<1>2. ExportsTyped' /\ (\A x \in Shipments : IsShipment(x) => IsShipment(x)' /\ ItemsKept(x))
    <2>0. /\ export \in [Shipments -> ExportRows] /\ (\A x \in Shipments : IsFiniteSet(export[x].items)) /\ editions \in Nat
          /\ library \in [DocumentIds -> LibraryRows]
        BY DEF ExportInv, ExportsTyped
    <2>1. CASE CreateShipment(e)
        <3> DEFINE row == [items |-> {editions + 1}, totals |-> {editions + 1}, status |-> "Draft"]
        <3>1. row \in ExportRows /\ row.status # "absent" /\ row.items = {editions + 1}
            BY <2>0 DEF ExportRows, ExportStatuses
        <3>2. IsFiniteSet(row.items)
            BY <3>1, FS_Singleton
        <3>3. export' = [export EXCEPT ![e] = row] /\ editions' \in Nat /\ ~IsShipment(e)
            BY <2>0, <2>1 DEF CreateShipment
        <3> HIDE DEF row
        <3>4. QED
            BY <1>1, <2>0, <3>1, <3>2, <3>3 DEF ExportsTyped, IsShipment, ItemsKept
    <2>2. CASE SetStatus(e)
        <3>1. PICK st \in ExportStatuses : export' = [export EXCEPT ![e].status = st] /\ editions' = editions
            BY <2>0, <2>2 DEF SetStatus
        <3> DEFINE row == [export[e] EXCEPT !.status = st]
        <3>2. export[e] \in ExportRows
            BY <2>0
        <3>3. row \in ExportRows /\ row.status # "absent" /\ row.items = export[e].items /\ row.totals = export[e].totals
            BY <3>2 DEF ExportRows, ExportStatuses
        <3>4. export' = [export EXCEPT ![e] = row]
            BY <2>0, <3>1
        <3> HIDE DEF row
        <3>5. QED
            BY <1>1, <2>0, <3>1, <3>3, <3>4 DEF ExportsTyped, IsShipment, ItemsKept
    <2>3. QED
        BY <2>1, <2>2
<1>3. Steady /\ (\A x \in Shipments : PapersKept(x)) /\ (\A f \in Folders : FolderKept(f))
    BY <1>1, <1>2 DEF Steady, PapersKept, FolderKept
<1>4. WritingOK'
    <2>1. ASSUME NEW x \in Writers PROVE Continued(writing[x], writing'[x])
        <3>1. WriteOK(writing[x])
            BY DEF ExportInv, WritingOK
        <3>2. Continued(writing[x], writing[x])
            BY <1>2, <1>3, <3>1, Unmoved
        <3>3. QED
            BY <1>1, <3>2
    <2>2. QED
        BY <1>1, <1>3, <2>1, AllGoOn DEF ExportInv, WritingOK
<1>5. PapersOK'
    BY <1>1, <1>2 DEF ExportInv, PapersOK, PaperRows
<1>6. QED
    BY <1>2, <1>4, <1>5 DEF ExportInv

\* What an update writes.
LEMMA CommitUpdateKeeps == ASSUME ExportInv, NEW w \in Writers, CommitUpdate(w) PROVE ExportInv'
<1>1. PICK v : v = writing[w] /\ WriteOK(v) /\ v.op = "update" /\ v.at = "summed"
    BY DEF CommitUpdate, ExportInv, WritingOK
<1>2. UpdateOK(v)
    BY <1>1 DEF WriteOK
<1>3. v.e \in Shipments /\ IsShipment(v.e) /\ v.edition \in Nat /\ v.sum \subseteq Nat
    BY <1>1, <1>2 DEF UpdateOK
<1>4. UNCHANGED <<papers, library, folders, editions>> /\ writing' = Done(w) /\ Fresh' = Fresh /\ Filed' = Filed
    BY DEF CommitUpdate, Fresh, Filed
<1>5. export \in [Shipments -> ExportRows] /\ export[v.e] \in ExportRows /\ \A x \in Shipments : IsFiniteSet(export[x].items)
    BY <1>3 DEF ExportInv, ExportsTyped
<1> DEFINE row == [export[v.e] EXCEPT !.items = (@ \ v.rows) \cup {v.edition}, !.totals = IF v.sum = v.seen THEN @ ELSE v.sum]
<1>6. export' = [export EXCEPT ![v.e] = row]
    BY <1>1, <1>3, <1>5 DEF CommitUpdate
<1>7. row \in ExportRows /\ row.status = export[v.e].status /\ IsFiniteSet(row.items)
    <2>1. row.items = (export[v.e].items \ v.rows) \cup {v.edition} /\ row.status = export[v.e].status
        BY <1>5 DEF ExportRows
    <2>2. IsFiniteSet(export[v.e].items \ v.rows)
        BY <1>3, <1>5, FS_Difference
    <2>3. IsFiniteSet((export[v.e].items \ v.rows) \cup {v.edition})
        BY <2>2, FS_AddElement
    <2>4. row \in ExportRows
        BY <1>3, <1>5 DEF ExportRows
    <2>5. QED
        BY <2>1, <2>3, <2>4
<1> HIDE DEF row
<1>8. ExportsTyped' /\ (\A x \in Shipments : IsShipment(x) => IsShipment(x)') /\ (\A x \in Shipments \ {v.e} : ItemsKept(x))
    BY <1>3, <1>4, <1>5, <1>6, <1>7 DEF ExportInv, ExportsTyped, IsShipment, ItemsKept
<1>9. Steady /\ (\A x \in Shipments : PapersKept(x)) /\ (\A f \in Folders : FolderKept(f))
    BY <1>4, <1>8 DEF Steady, PapersKept, FolderKept
<1>10. WritingOK'
    BY <1>1, <1>4, <1>8, <1>9, DoneKeeps DEF ExportInv
<1>11. PapersOK'
    BY <1>4, <1>8 DEF ExportInv, PapersOK, PaperRows
<1>12. QED
    BY <1>8, <1>10, <1>11 DEF ExportInv

\* A request that fails writes nothing.
LEMMA AbortKeeps == ASSUME ExportInv, NEW w \in Writers, Abort(w) PROVE ExportInv'
<1>1. UNCHANGED <<export, papers, library, folders, editions>> /\ writing' = Done(w) /\ Fresh' = Fresh /\ Filed' = Filed
    BY DEF Abort, Fresh, Filed
<1>2. Steady /\ (\A x \in Shipments : ItemsKept(x) /\ PapersKept(x)) /\ (\A f \in Folders : FolderKept(f))
    BY <1>1 DEF Steady, ItemsKept, PapersKept, FolderKept, IsShipment
<1>3. WritingOK'
    BY <1>1, <1>2, DoneKeeps DEF ExportInv
<1>4. PapersOK' /\ ExportsTyped'
    BY <1>1 DEF ExportInv, PapersOK, ExportsTyped, IsShipment
<1>5. QED
    BY <1>3, <1>4 DEF ExportInv

\* What documents that are generated leave of the library and the papers.
LEMMA Generates ==
    ASSUME ExportInv, NEW w \in Writers, CommitGenerate(w)
    PROVE  \E v, d :
             /\ v = writing[w] /\ v.op = "generate" /\ v.at = "purged" /\ GenerateOK(v)
             /\ d \in Fresh /\ d \in DocumentIds
             /\ papers' = Unlinked({r \in papers : r.n \notin v.rows}, v.docs) \cup {[n |-> d, e |-> v.e, shows |-> v.shows, doc |-> d]}
             /\ library' \in [DocumentIds -> LibraryRows] /\ library'[d] = File(ExportsFolder, v.e)
             /\ \A x \in DocumentIds \ {d} :
                    IF x \in v.docs THEN library'[x].state = "removed" ELSE library'[x] = library[x]
             /\ \A x \in Shipments : ItemsKept(x) /\ (IsShipment(x) => IsShipment(x)')
             /\ export' \in [Shipments -> ExportRows] /\ editions' = editions /\ writing' = Into(ExportsFolder, Done(w))
<1>1. PICK v : v = writing[w] /\ v.op = "generate" /\ v.at = "purged" /\ GenerateOK(v)
    BY DEF CommitGenerate, ExportInv, WritingOK, WriteOK
<1>2. PICK d : d = FirstFresh /\ d \in Fresh
    BY FreshIsThere DEF CommitGenerate
<1>3. /\ papers' = Unlinked({r \in papers : r.n \notin v.rows}, v.docs) \cup {[n |-> d, e |-> v.e, shows |-> v.shows, doc |-> d]}
      /\ library' = [Removed(v.docs) EXCEPT ![d] = File(ExportsFolder, v.e)]
      /\ export' = [export EXCEPT ![v.e].status = "Ready"] /\ editions' = editions /\ writing' = Into(ExportsFolder, Done(w))
    BY <1>1, <1>2 DEF CommitGenerate
<1>4. d \in DocumentIds
    BY <1>2 DEF Fresh
<1>5. library \in [DocumentIds -> LibraryRows] /\ export \in [Shipments -> ExportRows] /\ v.e \in Shipments /\ export[v.e] \in ExportRows
    BY <1>1 DEF ExportInv, ExportsTyped, GenerateOK
<1> DEFINE gone == [Unused EXCEPT !.state = "removed"]
<1>6. gone \in LibraryRows /\ gone.state = "removed" /\ File(ExportsFolder, v.e) \in LibraryRows
    BY <1>5, ExportsAssumption DEF LibraryRows, Unused, File
<1>7. Removed(v.docs) = [x \in DocumentIds |-> IF x \in v.docs THEN gone ELSE library[x]]
    BY DEF Removed
<1> HIDE DEF gone
<1>8. /\ library' \in [DocumentIds -> LibraryRows] /\ library'[d] = File(ExportsFolder, v.e)
      /\ \A x \in DocumentIds \ {d} : IF x \in v.docs THEN library'[x].state = "removed" ELSE library'[x] = library[x]
    BY <1>3, <1>4, <1>5, <1>6, <1>7
<1> DEFINE row == [export[v.e] EXCEPT !.status = "Ready"]
<1>9. row \in ExportRows /\ row.status # "absent" /\ row.items = export[v.e].items /\ row.totals = export[v.e].totals
    BY <1>5 DEF ExportRows, ExportStatuses
<1>10. export' = [export EXCEPT ![v.e] = row]
    BY <1>3, <1>5
<1> HIDE DEF row
<1>11. export' \in [Shipments -> ExportRows] /\ \A x \in Shipments : ItemsKept(x) /\ (IsShipment(x) => IsShipment(x)')
    BY <1>5, <1>9, <1>10 DEF ItemsKept, IsShipment
<1>12. QED
    BY <1>1, <1>2, <1>3, <1>4, <1>8, <1>11

LEMMA CommitGenerateKeeps == ASSUME ExportInv, NEW w \in Writers, CommitGenerate(w) PROVE ExportInv'
<1>1. PICK v, d :
             /\ v = writing[w] /\ v.op = "generate" /\ v.at = "purged" /\ GenerateOK(v)
             /\ d \in Fresh /\ d \in DocumentIds
             /\ papers' = Unlinked({r \in papers : r.n \notin v.rows}, v.docs) \cup {[n |-> d, e |-> v.e, shows |-> v.shows, doc |-> d]}
             /\ library' \in [DocumentIds -> LibraryRows] /\ library'[d] = File(ExportsFolder, v.e)
             /\ \A x \in DocumentIds \ {d} :
                    IF x \in v.docs THEN library'[x].state = "removed" ELSE library'[x] = library[x]
             /\ \A x \in Shipments : ItemsKept(x) /\ (IsShipment(x) => IsShipment(x)')
             /\ export' \in [Shipments -> ExportRows] /\ editions' = editions /\ writing' = Into(ExportsFolder, Done(w))
    BY Generates
<1> DEFINE rows == {r \in papers : r.n \notin v.rows}
           left == Unlinked(rows, v.docs)
           new == [n |-> d, e |-> v.e, shows |-> v.shows, doc |-> d]
<1>2. v.e \in Shipments /\ IsShipment(v.e) /\ v.shows \subseteq Nat
    BY <1>1 DEF GenerateOK
<1>3. /\ papers \subseteq PaperRows /\ IsFiniteSet(papers) /\ (\A r \in papers : r.n \notin Fresh /\ IsShipment(r.e))
      /\ \A r, s \in papers : r.n = s.n => r = s
    BY DEF ExportInv, PapersOK
<1>4. rows \subseteq PaperRows /\ IsFiniteSet(rows) /\ \A r, s \in rows : r.n = s.n => r = s
    BY <1>3, FS_Subset
<1>5. /\ left \subseteq PaperRows /\ IsFiniteSet(left)
      /\ \A q \in left : \E r \in rows : q.n = r.n /\ q.e = r.e /\ q.shows = r.shows
      /\ \A p, q \in left : p.n = q.n => p = q
    BY <1>4, UnlinkedAlike
<1>6. papers' = left \cup {new} /\ new \in PaperRows /\ new.n = d /\ new.e = v.e
    BY <1>1, <1>2 DEF PaperRows
<1>7. \A q \in left : \E r \in papers : q.n = r.n /\ q.e = r.e
    BY <1>5
<1> HIDE DEF left, new, rows
<1>8. /\ Fresh' \subseteq Fresh /\ d \notin Fresh'
      /\ \A x \in DocumentIds \ {d} : x \in Filed' => x \in Filed /\ library'[x] = library[x]
    BY <1>1 DEF Fresh, Filed, File
<1>9. Steady
    BY <1>1, <1>6, <1>7, <1>8 DEF Steady
<1>10. \A x \in Shipments \ {v.e} : PapersKept(x)
    BY <1>6, <1>7 DEF PapersKept
<1>11. \A f \in Folders \ {ExportsFolder} : FolderKept(f)
    <2>1. library'[d].folder = ExportsFolder
        BY <1>1 DEF File
    <2>2. Filed' \subseteq DocumentIds
        BY DEF Filed
    <2>3. QED
        BY <1>8, <2>1, <2>2 DEF FolderKept
<1>12. WritingOK'
    BY <1>1, <1>9, <1>10, <1>11, DoneIntoKeeps DEF ExportInv
<1>13. PapersOK'
    <2>1. IsFiniteSet(papers')
        BY <1>5, <1>6, FS_AddElement
    <2>2. \A r \in papers' : r.n \notin Fresh' /\ IsShipment(r.e)'
        BY <1>1, <1>2, <1>3, <1>6, <1>7, <1>8 DEF PaperRows
    <2>3. \A r, s \in papers' : r.n = s.n => r = s
        BY <1>1, <1>3, <1>5, <1>6, <1>7
    <2>4. QED
        BY <1>5, <1>6, <2>1, <2>2, <2>3 DEF PapersOK
<1>14. ExportsTyped'
    BY <1>1 DEF ExportInv, ExportsTyped, ItemsKept
<1>15. QED
    BY <1>12, <1>13, <1>14 DEF ExportInv

\* Documents that are deleted, with the links to them.
LEMMA RemovesKeep ==
    ASSUME ExportInv, NEW docs \in SUBSET Filed, library' = Removed(docs), papers' = Unlinked(papers, docs),
           UNCHANGED <<export, editions>>
    PROVE  /\ ExportsTyped' /\ PapersOK' /\ Steady
           /\ (\A x \in Shipments : ItemsKept(x) /\ PapersKept(x)) /\ (\A f \in Folders : FolderKept(f))
<1>1. /\ papers \subseteq PaperRows /\ IsFiniteSet(papers) /\ (\A r \in papers : r.n \notin Fresh /\ IsShipment(r.e))
      /\ \A r, s \in papers : r.n = s.n => r = s
    BY DEF ExportInv, PapersOK
<1>2. /\ papers' \subseteq PaperRows /\ IsFiniteSet(papers')
      /\ \A q \in papers' : \E r \in papers : q.n = r.n /\ q.e = r.e
      /\ \A p, q \in papers' : p.n = q.n => p = q
    BY <1>1, UnlinkedAlike
<1> DEFINE gone == [Unused EXCEPT !.state = "removed"]
<1>3. gone \in LibraryRows /\ gone.state = "removed"
    BY DEF LibraryRows, Unused
<1>4. library' = [x \in DocumentIds |-> IF x \in docs THEN gone ELSE library[x]]
    BY DEF Removed
<1> HIDE DEF gone
<1>5. library' \in [DocumentIds -> LibraryRows]
    BY <1>3, <1>4 DEF ExportInv, ExportsTyped
<1>6. Fresh' = Fresh /\ \A x \in Filed' : x \in Filed /\ library'[x] = library[x]
    BY <1>3, <1>4 DEF Fresh, Filed
<1>7. ExportsTyped'
    BY <1>5 DEF ExportInv, ExportsTyped
<1>8. Steady /\ (\A x \in Shipments : ItemsKept(x) /\ PapersKept(x)) /\ (\A f \in Folders : FolderKept(f))
    BY <1>2, <1>6 DEF Steady, ItemsKept, PapersKept, FolderKept, IsShipment
<1>9. PapersOK'
    BY <1>1, <1>2, <1>6 DEF PapersOK, IsShipment
<1>10. QED
    BY <1>7, <1>8, <1>9

LEMMA DeleteDocumentKeeps == ASSUME ExportInv, NEW d \in DocumentIds, DeleteDocument(d) PROVE ExportInv'
<1>1. {d} \in SUBSET Filed /\ library' = Removed({d}) /\ papers' = Unlinked(papers, {d}) /\ UNCHANGED <<export, editions, writing>>
    BY DEF DeleteDocument
<1>2. /\ ExportsTyped' /\ PapersOK' /\ Steady
      /\ (\A x \in Shipments : ItemsKept(x) /\ PapersKept(x)) /\ (\A f \in Folders : FolderKept(f))
    BY <1>1, RemovesKeep
<1>3. \A x \in Writers : Continued(writing[x], writing[x])
    BY <1>2, Unmoved DEF ExportInv, WritingOK
<1>4. WritingOK'
    BY <1>1, <1>2, <1>3, AllGoOn DEF ExportInv, WritingOK
<1>5. QED
    BY <1>2, <1>4 DEF ExportInv

LEMMA DeleteFolderKeeps == ASSUME ExportInv, NEW w \in Writers, DeleteFolder(w) PROVE ExportInv'
<1>1. PICK docs \in SUBSET Filed : library' = Removed(docs) /\ papers' = Unlinked(papers, docs)
    BY DEF DeleteFolder
<1>2. UNCHANGED <<export, editions>> /\ writing' = [writing EXCEPT ![w] = NoWriting]
    BY DEF DeleteFolder
<1>3. /\ ExportsTyped' /\ PapersOK' /\ Steady
      /\ (\A x \in Shipments : ItemsKept(x) /\ PapersKept(x)) /\ (\A f \in Folders : FolderKept(f))
    BY <1>1, <1>2, RemovesKeep
<1>4. \A x \in Writers : Continued(writing[x], writing[x])
    BY <1>3, Unmoved DEF ExportInv, WritingOK
<1>5. DOMAIN writing' = Writers /\ \A x \in Writers : writing'[x] = NoWriting \/ Continued(writing[x], writing'[x])
    BY <1>2, <1>4 DEF ExportInv, WritingOK
<1>6. WritingOK'
    BY <1>3, <1>5, AllGoOn DEF ExportInv
<1>7. QED
    BY <1>3, <1>6 DEF ExportInv

\* A document that comes into the library, or into another folder of it.
LEMMA ComesKeeps ==
    ASSUME ExportInv, NEW g, NEW d \in DocumentIds, NEW row \in LibraryRows, library' = [library EXCEPT ![d] = row],
           row.folder = g, row.state = "filed", d \notin Fresh => d \in Filed /\ row.of = library[d].of,
           UNCHANGED <<export, papers, editions>>,
           NEW ws, DOMAIN ws = Writers, \A x \in Writers : ws[x] = NoWriting \/ ws[x] = writing[x],
           writing' = Into(g, ws)
    PROVE  ExportInv'
<1>1. library \in [DocumentIds -> LibraryRows]
    BY DEF ExportInv, ExportsTyped
<1>2. library'[d] = row /\ (\A x \in DocumentIds \ {d} : library'[x] = library[x]) /\ library' \in [DocumentIds -> LibraryRows]
    BY <1>1
<1>3. Fresh' \subseteq Fresh /\ (\A x \in DocumentIds \ Fresh : x \in Filed' => x \in Filed /\ library'[x].of = library[x].of)
    BY <1>2 DEF Fresh, Filed
<1>4. Steady /\ (\A x \in Shipments : ItemsKept(x) /\ PapersKept(x))
    BY <1>3 DEF Steady, ItemsKept, PapersKept, IsShipment
<1>5. \A f \in Folders \ {g} : FolderKept(f)
    BY <1>2 DEF FolderKept, Filed
<1>6. ASSUME NEW x \in Writers PROVE writing'[x] = NoWriting \/ Continued(writing[x], writing'[x])
    <2>1. CASE ws[x] = writing[x]
        <3>1. Continued(writing[x], Into(g, ws)[x])
            BY <1>4, <1>5, <2>1, IntoContinues DEF ExportInv
        <3>2. QED
            BY <3>1
    <2>2. CASE ws[x] = NoWriting
        BY <2>2 DEF Into, NoWriting
    <2>3. QED
        BY <2>1, <2>2
<1>7. DOMAIN writing' = Writers
    BY DEF Into
<1>8. WritingOK'
    BY <1>4, <1>6, <1>7, AllGoOn DEF ExportInv
<1>9. ExportsTyped' /\ PapersOK'
    BY <1>2, <1>3 DEF ExportInv, ExportsTyped, PapersOK, IsShipment
<1>10. QED
    BY <1>8, <1>9 DEF ExportInv

LEMMA SaveUploadKeeps == ASSUME ExportInv, NEW w \in Writers, SaveUpload(w) PROVE ExportInv'
<1>1. PICK f, d : f = writing[w].f /\ d = FirstFresh /\ d \in Fresh /\ f \in Folders \cup {NoFolder}
    BY FreshIsThere DEF SaveUpload, ExportInv, WritingOK, WriteOK
<1> DEFINE row == File(f, NoShipment)
           ws == [writing EXCEPT ![w] = NoWriting]
<1>2. row \in LibraryRows /\ row.folder = f /\ row.state = "filed"
    BY <1>1 DEF LibraryRows, File
<1>3. library' = [library EXCEPT ![d] = row] /\ writing' = Into(f, ws) /\ UNCHANGED <<export, papers, editions>>
    BY <1>1 DEF SaveUpload
<1>4. DOMAIN ws = Writers /\ \A x \in Writers : ws[x] = NoWriting \/ ws[x] = writing[x]
    BY DEF ExportInv, WritingOK
<1>5. d \in DocumentIds
    BY <1>1 DEF Fresh
<1> HIDE DEF row, ws
<1>6. QED
    BY <1>1, <1>2, <1>3, <1>4, <1>5, ComesKeeps

LEMMA MoveDocumentKeeps ==
    ASSUME ExportInv, NEW d \in DocumentIds, NEW f \in Folders, MoveDocument(d, f)
    PROVE  ExportInv'
<1> DEFINE row == [library[d] EXCEPT !.folder = f]
<1>1. library \in [DocumentIds -> LibraryRows] /\ library[d] \in LibraryRows /\ library[d].state = "filed" /\ d \in Filed
    BY DEF MoveDocument, Filed, ExportInv, ExportsTyped
<1>2. row \in LibraryRows /\ row.folder = f /\ row.state = "filed" /\ row.of = library[d].of
    BY <1>1 DEF LibraryRows
<1>3. library' = [library EXCEPT ![d] = row] /\ writing' = Into(f, writing) /\ UNCHANGED <<export, papers, editions>>
    BY <1>1 DEF MoveDocument
<1>4. DOMAIN writing = Writers
    BY DEF ExportInv, WritingOK
<1> HIDE DEF row
<1>5. QED
    BY <1>1, <1>2, <1>3, <1>4, ComesKeeps

LEMMA MarkReadKeeps == ASSUME ExportInv, NEW d \in DocumentIds, MarkRead(d) PROVE ExportInv'
<1> DEFINE row == [library[d] EXCEPT !.read = TRUE]
<1>1. library \in [DocumentIds -> LibraryRows] /\ library[d] \in LibraryRows /\ library[d].state = "filed" /\ d \in Filed
    BY DEF MarkRead, Filed, ExportInv, ExportsTyped
<1>2. row \in LibraryRows /\ row.folder = library[d].folder /\ row.state = "filed" /\ row.of = library[d].of
    BY <1>1 DEF LibraryRows
<1>3. library' = [library EXCEPT ![d] = row] /\ UNCHANGED <<export, papers, editions, writing>>
    BY <1>1 DEF MarkRead
<1> HIDE DEF row
<1>4. /\ Fresh' = Fresh /\ Filed' = Filed /\ library' \in [DocumentIds -> LibraryRows]
      /\ \A x \in DocumentIds : library'[x].of = library[x].of /\ library'[x].folder = library[x].folder
    BY <1>1, <1>2, <1>3 DEF Fresh, Filed
<1>5. /\ Steady /\ (\A x \in Shipments : ItemsKept(x) /\ PapersKept(x)) /\ (\A f \in Folders : FolderKept(f))
    <2>1. Filed \subseteq DocumentIds
        BY DEF Filed
    <2>2. QED
        BY <1>3, <1>4, <2>1 DEF Steady, ItemsKept, PapersKept, FolderKept, IsShipment
<1>6. \A x \in Writers : Continued(writing[x], writing[x])
    BY <1>5, Unmoved DEF ExportInv, WritingOK
<1>7. WritingOK'
    BY <1>3, <1>5, <1>6, AllGoOn DEF ExportInv, WritingOK
<1>8. ExportsTyped' /\ PapersOK'
    BY <1>3, <1>4 DEF ExportInv, ExportsTyped, PapersOK, IsShipment
<1>9. QED
    BY <1>7, <1>8 DEF ExportInv

LEMMA ExportStands ==
    ASSUME ExportInv, UNCHANGED <<export, papers, library, writing, editions>>
    PROVE  ExportInv'
BY DEF ExportInv, ExportsTyped, PapersOK, WritingOK, WriteOK, UpdateOK, GenerateOK, DeleteOK, IsShipment, Fresh, Filed, Empty

\* Every step.
LEMMA ExportStep == ASSUME ExportInv, [ExportsNext]_exportVars PROVE ExportInv'
<1>1. ASSUME NEW e \in Shipments, CreateShipment(e) \/ SetStatus(e) PROVE ExportInv'
    BY <1>1, ShipmentsKeep
<1>2. ASSUME NEW w \in Writers,
             \/ \E e \in Shipments : LoadForUpdate(w, e) \/ LoadForGenerate(w, e)
             \/ \E f \in Folders \cup {NoFolder} : CheckUpload(w, f)
             \/ \E f \in Folders : CountFolder(w, f)
      PROVE  ExportInv'
    BY <1>2, BeginsKeep
<1>3. ASSUME NEW w \in Writers, Erase(w) \/ Sum(w) \/ Purge(w) PROVE ExportInv'
    BY <1>3, EraseKeeps, SumKeeps, PurgeKeeps
<1>4. ASSUME NEW w \in Writers, CommitUpdate(w) \/ CommitGenerate(w) \/ Abort(w) PROVE ExportInv'
    BY <1>4, CommitUpdateKeeps, CommitGenerateKeeps, AbortKeeps
<1>5. ASSUME NEW w \in Writers, SaveUpload(w) \/ DeleteFolder(w) PROVE ExportInv'
    BY <1>5, SaveUploadKeeps, DeleteFolderKeeps
<1>6. ASSUME NEW f \in Folders, CreateFolder(f) PROVE ExportInv'
    BY <1>6, ExportStands DEF CreateFolder
<1>7. ASSUME NEW d \in DocumentIds, DeleteDocument(d) \/ MarkRead(d) \/ \E f \in Folders : MoveDocument(d, f) PROVE ExportInv'
    BY <1>7, DeleteDocumentKeeps, MarkReadKeeps, MoveDocumentKeeps
<1>8. CASE UNCHANGED exportVars
    BY <1>8, ExportStands DEF exportVars
<1>9. QED
    BY <1>1, <1>2, <1>3, <1>4, <1>5, <1>6, <1>7, <1>8 DEF ExportsNext

\* The papers of a shipment stay those it had.
PapersAlike(e) == \A r \in papers' : r.e = e => \E s \in papers : s.n = r.n /\ s.e = e /\ s.shows = r.shows

LEMMA RowsAlike ==
    ASSUME ExportInv, NEW rows \in SUBSET papers, NEW docs, NEW e, \A r \in papers' : r \in Unlinked(rows, docs) \/ r.e # e
    PROVE  /\ PapersAlike(e)
           /\ \A r \in papers' : r.e = e => \E s \in rows : s.n = r.n /\ s.e = e /\ s.shows = r.shows
<1>1. papers \subseteq PaperRows /\ IsFiniteSet(papers) /\ \A r, s \in papers : r.n = s.n => r = s
    BY DEF ExportInv, PapersOK
<1>2. rows \in SUBSET PaperRows /\ IsFiniteSet(rows) /\ \A r, s \in rows : r.n = s.n => r = s
    BY <1>1, FS_Subset
<1>3. \A q \in Unlinked(rows, docs) : \E r \in rows : q.n = r.n /\ q.e = r.e /\ q.shows = r.shows
    BY <1>2, UnlinkedAlike
<1>4. QED
    BY <1>3 DEF PapersAlike

\* Only a request that commits, for this shipment, changes its products, totals or papers.
LEMMA OthersAlike ==
    ASSUME ExportInv, ExportsNext, NEW e \in Shipments, ~CreateShipment(e),
           \A w \in Writers : CommitUpdate(w) \/ CommitGenerate(w) => writing[w].e # e
    PROVE  ItemsKept(e) /\ PapersAlike(e)
<1>0. export \in [Shipments -> ExportRows]
    BY DEF ExportInv, ExportsTyped
<1>1. ASSUME UNCHANGED <<export, papers>> PROVE ItemsKept(e) /\ PapersAlike(e)
    BY <1>1 DEF ItemsKept, PapersAlike
<1>2. ASSUME NEW x \in Shipments, CreateShipment(x) PROVE ItemsKept(e) /\ PapersAlike(e)
    BY <1>0, <1>2 DEF ItemsKept, PapersAlike, CreateShipment
<1>3. ASSUME NEW x \in Shipments, SetStatus(x) PROVE ItemsKept(e) /\ PapersAlike(e)
    <2>1. PICK st : export' = [export EXCEPT ![x].status = st]
        BY <1>3 DEF SetStatus
    <2>2. export[e] \in ExportRows /\ export[x] \in ExportRows
        BY <1>0
    <2>3. ItemsKept(e)
        BY <1>0, <2>1, <2>2 DEF ItemsKept, ExportRows
    <2>4. QED
        BY <1>3, <2>3 DEF SetStatus, PapersAlike
<1>4. ASSUME NEW w \in Writers, CommitUpdate(w) PROVE ItemsKept(e) /\ PapersAlike(e)
    <2>1. writing[w].e # e /\ papers' = papers
        BY <1>4 DEF CommitUpdate
    <2>2. export'[e] = export[e]
        BY <1>0, <1>4, <2>1 DEF CommitUpdate
    <2>3. QED
        BY <2>1, <2>2 DEF ItemsKept, PapersAlike
<1>5. ASSUME NEW w \in Writers, CommitGenerate(w) PROVE ItemsKept(e) /\ PapersAlike(e)
    <2>1. PICK v, d : /\ v = writing[w]
             /\ papers' = Unlinked({r \in papers : r.n \notin v.rows}, v.docs) \cup {[n |-> d, e |-> v.e, shows |-> v.shows, doc |-> d]}
             /\ \A x \in Shipments : ItemsKept(x)
        BY <1>5, Generates
    <2>2. v.e # e
        BY <1>5, <2>1
    <2>3. PICK rows \in SUBSET papers : \A r \in papers' : r \in Unlinked(rows, v.docs) \/ r.e # e
        BY <2>1, <2>2
    <2>4. QED
        BY <2>1, <2>3, RowsAlike
<1>6. ASSUME NEW docs, papers' = Unlinked(papers, docs), export' = export PROVE ItemsKept(e) /\ PapersAlike(e)
    BY <1>6, RowsAlike DEF ItemsKept
<1>7. \/ UNCHANGED <<export, papers>>
      \/ \E x \in Shipments : CreateShipment(x) \/ SetStatus(x)
      \/ \E w \in Writers : CommitUpdate(w) \/ CommitGenerate(w)
      \/ export' = export /\ \E docs : papers' = Unlinked(papers, docs)
    <2>1. ASSUME NEW w \in Writers,
                 \/ \E x \in Shipments : LoadForUpdate(w, x) \/ LoadForGenerate(w, x)
                 \/ Erase(w) \/ Sum(w) \/ Purge(w) \/ Abort(w) \/ SaveUpload(w)
                 \/ \E f \in Folders \cup {NoFolder} : CheckUpload(w, f)
                 \/ \E f \in Folders : CountFolder(w, f)
          PROVE  UNCHANGED <<export, papers>>
        BY <2>1 DEF LoadForUpdate, LoadForGenerate, Erase, Sum, Purge, Abort, SaveUpload, CheckUpload, CountFolder, Start
    <2>2. ASSUME NEW w \in Writers, DeleteFolder(w) PROVE export' = export /\ \E docs : papers' = Unlinked(papers, docs)
        BY <2>2 DEF DeleteFolder
    <2>3. ASSUME NEW d \in DocumentIds, DeleteDocument(d) PROVE export' = export /\ \E docs : papers' = Unlinked(papers, docs)
        BY <2>3 DEF DeleteDocument
    <2>4. ASSUME NEW d \in DocumentIds, MarkRead(d) \/ \E f \in Folders : MoveDocument(d, f) PROVE UNCHANGED <<export, papers>>
        BY <2>4 DEF MarkRead, MoveDocument
    <2>5. ASSUME NEW f \in Folders, CreateFolder(f) PROVE UNCHANGED <<export, papers>>
        BY <2>5 DEF CreateFolder
    <2>6. QED
        BY <2>1, <2>2, <2>3, <2>4, <2>5 DEF ExportsNext
<1>8. QED
    BY <1>1, <1>2, <1>3, <1>4, <1>5, <1>6, <1>7

\* Papers, or products, of two editions.
Doubled(e) == \E r, s \in papers : r.e = e /\ s.e = e /\ r # s
Uneven(e) == export[e].totals # export[e].items \/ \E x, y \in export[e].items : x # y

LEMMA MeansMixed == ASSUME ExportInv, NEW e \in Shipments PROVE Uneven(e) \/ Doubled(e) => Mixed(e)
<1>1. IsFiniteSet(export[e].items) /\ IsFiniteSet(PapersOf(e))
    BY FS_Subset DEF ExportInv, ExportsTyped, PapersOK, PapersOf
<1>2. Cardinality(export[e].items) > 1 <=> \E x, y \in export[e].items : x # y
    BY <1>1, AtMostOne
<1>3. Cardinality(PapersOf(e)) > 1 <=> \E x, y \in PapersOf(e) : x # y
    BY <1>1, AtMostOne
<1>4. QED
    BY <1>2, <1>3 DEF Mixed, Uneven, Doubled, PapersOf

LEMMA DoubledStays ==
    ASSUME ExportInv, ExportInv', NEW e, PapersAlike(e), Doubled(e)'
    PROVE  Doubled(e)
<1>1. PICK r \in papers', s \in papers' : r.e = e /\ s.e = e /\ r # s
    BY DEF Doubled
<1>2. r.n # s.n
    BY <1>1 DEF ExportInv, PapersOK
<1>3. QED
    BY <1>1, <1>2 DEF PapersAlike, Doubled

\* A shipment that is new has no papers.
LEMMA CreatedAlone ==
    ASSUME ExportInv, NEW e \in Shipments, CreateShipment(e)
    PROVE  ~Uneven(e)' /\ ~Doubled(e)' /\ PapersOf(e)' = {}
<1>1. export \in [Shipments -> ExportRows] /\ \A r \in papers : IsShipment(r.e)
    BY DEF ExportInv, ExportsTyped, PapersOK
<1>2. papers' = papers /\ ~IsShipment(e) /\ export'[e].items = {editions + 1} /\ export'[e].totals = {editions + 1}
    BY <1>1 DEF CreateShipment
<1>3. QED
    BY <1>1, <1>2 DEF Uneven, Doubled, PapersOf

\* An update that nobody has disturbed leaves its products only, and their totals.
LEMMA UpdatedAlone ==
    ASSUME ExportInv, NEW w \in Writers, CommitUpdate(w), ~writing[w].disturbed, NEW e, e = writing[w].e
    PROVE  ~Uneven(e)'
<1>1. PICK v : v = writing[w] /\ UpdateOK(v) /\ v.at = "summed"
    BY DEF CommitUpdate, ExportInv, WritingOK, WriteOK
<1>2. /\ v.e \in Shipments /\ v.rows = export[v.e].items /\ v.sum = {v.edition} /\ v.seen = export[v.e].totals
    BY <1>1 DEF UpdateOK
<1>3. export \in [Shipments -> ExportRows] /\ export[v.e] \in ExportRows
    BY <1>2 DEF ExportInv, ExportsTyped
<1> DEFINE row == [export[v.e] EXCEPT !.items = (@ \ v.rows) \cup {v.edition}, !.totals = IF v.sum = v.seen THEN @ ELSE v.sum]
<1>4. export' = [export EXCEPT ![v.e] = row]
    BY <1>1, <1>2, <1>3 DEF CommitUpdate
<1>5. row.items = {v.edition} /\ row.totals = {v.edition}
    BY <1>2, <1>3 DEF ExportRows
<1> HIDE DEF row
<1>6. export'[v.e].items = {v.edition} /\ export'[v.e].totals = {v.edition}
    BY <1>2, <1>3, <1>4, <1>5
<1>7. QED
    BY <1>1, <1>6 DEF Uneven

\* Documents that are generated undisturbed are the only ones, and show what there is.
LEMMA GeneratedAlone ==
    ASSUME ExportInv, NEW w \in Writers, CommitGenerate(w), ~writing[w].disturbed, NEW e, e = writing[w].e
    PROVE  \E new : PapersOf(e)' = {new} /\ new.shows = export'[e].items
<1>1. PICK v, d :
             /\ v = writing[w] /\ v.at = "purged" /\ GenerateOK(v)
             /\ papers' = Unlinked({r \in papers : r.n \notin v.rows}, v.docs) \cup {[n |-> d, e |-> v.e, shows |-> v.shows, doc |-> d]}
             /\ \A x \in Shipments : ItemsKept(x)
    BY Generates
<1> DEFINE rows == {r \in papers : r.n \notin v.rows}
           new == [n |-> d, e |-> v.e, shows |-> v.shows, doc |-> d]
<1>2. v.e \in Shipments /\ v.shows = export[v.e].items /\ \A r \in papers : r.e = v.e => r.n \in v.rows
    BY <1>1 DEF GenerateOK
<1>3. rows \in SUBSET PaperRows /\ IsFiniteSet(rows) /\ \A r, s \in rows : r.n = s.n => r = s
    BY FS_Subset DEF ExportInv, PapersOK
<1>4. \A q \in Unlinked(rows, v.docs) : \E r \in rows : q.e = r.e
    BY <1>3, UnlinkedAlike
<1>5. \A q \in Unlinked(rows, v.docs) : q.e # v.e
    BY <1>2, <1>4
<1>6. papers' = Unlinked(rows, v.docs) \cup {new} /\ new.e = v.e /\ new.shows = v.shows
    BY <1>1
<1> HIDE DEF rows, new
<1>7. PapersOf(e)' = {new}
    BY <1>1, <1>5, <1>6 DEF PapersOf
<1>8. new.shows = export'[e].items
    BY <1>1, <1>2, <1>6 DEF ItemsKept
<1>9. QED
    BY <1>7, <1>8

\* Products and documents of one request: the steps that could mix two of them.
LEMMA MixesByOverlap ==
    ASSUME ExportInv, ExportInv', ExportsNext, NEW e \in Shipments, Mixed(e)', ~Mixed(e)
    PROVE  \E w \in Writers : (CommitUpdate(w) \/ CommitGenerate(w)) /\ writing[w].e = e /\ writing[w].disturbed
<1>1. Uneven(e)' \/ Doubled(e)'
    <2>1. IsFiniteSet(export'[e].items) /\ IsFiniteSet(PapersOf(e)')
        BY FS_Subset DEF ExportInv, ExportsTyped, PapersOK, PapersOf
    <2>2. Cardinality(export'[e].items) > 1 <=> \E x, y \in export'[e].items : x # y
        BY <2>1, AtMostOne
    <2>3. Cardinality(PapersOf(e)') > 1 <=> \E x, y \in PapersOf(e)' : x # y
        BY <2>1, AtMostOne
    <2>4. QED
        BY <2>2, <2>3 DEF Mixed, Uneven, Doubled, PapersOf
<1>2. ~Uneven(e) /\ ~Doubled(e)
    BY MeansMixed
<1>3. ~CreateShipment(e)
    BY <1>1, CreatedAlone
<1>4. PICK w \in Writers : (CommitUpdate(w) \/ CommitGenerate(w)) /\ writing[w].e = e
    <2>1. SUFFICES ASSUME \A w \in Writers : CommitUpdate(w) \/ CommitGenerate(w) => writing[w].e # e PROVE FALSE
        OBVIOUS
    <2>2. ItemsKept(e) /\ PapersAlike(e)
        BY <1>3, <2>1, OthersAlike
    <2>3. ~Doubled(e)'
        BY <1>2, <2>2, DoubledStays
    <2>4. QED
        BY <1>1, <1>2, <2>2, <2>3 DEF Uneven, ItemsKept
<1>5. ASSUME CommitUpdate(w), ~writing[w].disturbed PROVE FALSE
    <2>1. ~Uneven(e)'
        BY <1>4, <1>5, UpdatedAlone
    <2>2. PapersAlike(e)
        BY <1>5 DEF CommitUpdate, PapersAlike
    <2>3. QED
        BY <1>1, <1>2, <2>1, <2>2, DoubledStays
<1>6. ASSUME CommitGenerate(w), ~writing[w].disturbed PROVE FALSE
    <2>1. PICK new : PapersOf(e)' = {new}
        BY <1>4, <1>6, GeneratedAlone
    <2>2. ~Doubled(e)'
        BY <2>1 DEF Doubled, PapersOf
    <2>3. ItemsKept(e)
        BY <1>6, Generates
    <2>4. QED
        BY <1>1, <1>2, <2>2, <2>3 DEF Uneven, ItemsKept
<1>7. QED
    BY <1>4, <1>5, <1>6

LEMMA OutdatesByOverlap ==
    ASSUME ExportInv, ExportsNext, NEW e \in Shipments, Outdated(e)', ~Outdated(e)
    PROVE  \E w \in Writers : CommitUpdate(w) \/ (CommitGenerate(w) /\ writing[w].disturbed)
<1>1. ~CreateShipment(e)
    BY CreatedAlone DEF Outdated
<1>2. PICK w \in Writers : (CommitUpdate(w) \/ CommitGenerate(w)) /\ writing[w].e = e
    <2>1. SUFFICES ASSUME \A w \in Writers : CommitUpdate(w) \/ CommitGenerate(w) => writing[w].e # e PROVE FALSE
        OBVIOUS
    <2>2. ItemsKept(e) /\ PapersAlike(e)
        BY <1>1, <2>1, OthersAlike
    <2>3. QED
        BY <2>2 DEF Outdated, PapersOf, ItemsKept, PapersAlike
<1>3. ASSUME CommitGenerate(w), ~writing[w].disturbed PROVE FALSE
    <2>1. PICK new : PapersOf(e)' = {new} /\ new.shows = export'[e].items
        BY <1>2, <1>3, GeneratedAlone
    <2>2. QED
        BY <2>1 DEF Outdated
<1>4. QED
    BY <1>2, <1>3

\* A document that leaves the library.
LEMMA LeavesByName ==
    ASSUME ExportInv, ExportsNext, NEW d \in DocumentIds, Orphaned(d)
    PROVE  \/ DeleteDocument(d)
           \/ \E w \in Writers : CommitGenerate(w) /\ writing[w].e = library[d].of
           \/ \E w \in Writers : DeleteFolder(w) /\ writing[w].joined
<1>0. d \in Filed /\ d \notin Filed' /\ library[d].state = "filed" /\ library'[d].state # "filed" /\ library \in [DocumentIds -> LibraryRows]
    BY DEF Orphaned, Filed, ExportInv, ExportsTyped
<1>1. ASSUME NEW x \in DocumentIds, DeleteDocument(x) PROVE DeleteDocument(d)
    <2>1. library'[d] = IF d \in {x} THEN [Unused EXCEPT !.state = "removed"] ELSE library[d]
        BY <1>1 DEF DeleteDocument, Removed
    <2>2. QED
        BY <1>0, <1>1, <2>1
<1>2. ASSUME NEW w \in Writers, CommitGenerate(w) PROVE writing[w].e = library[d].of
    <2>1. PICK v, n :
             /\ v = writing[w] /\ v.at = "purged" /\ GenerateOK(v) /\ library'[n] = File(ExportsFolder, v.e)
             /\ \A x \in DocumentIds \ {n} :
                    IF x \in v.docs THEN library'[x].state = "removed" ELSE library'[x] = library[x]
        BY <1>2, Generates
    <2>2. d # n /\ d \in v.docs
        BY <1>0, <2>1 DEF File
    <2>3. QED
        BY <1>0, <2>1, <2>2 DEF GenerateOK
<1>3. ASSUME NEW w \in Writers, DeleteFolder(w) PROVE writing[w].joined
    <2>1. PICK v : v = writing[w] /\ DeleteOK(v)
        BY <1>3 DEF DeleteFolder, ExportInv, WritingOK, WriteOK
    <2>2. library'[d] = IF d \in {x \in Filed : library[x].folder = v.f} THEN [Unused EXCEPT !.state = "removed"] ELSE library[d]
        BY <1>3, <2>1 DEF DeleteFolder, Removed
    <2>3. library[d].folder = v.f
        BY <1>0, <2>2
    <2>4. ~Empty(v.f)
        BY <1>0, <2>3 DEF Empty
    <2>5. v.joined
        BY <2>1, <2>4 DEF DeleteOK
    <2>6. QED
        BY <2>1, <2>5
<1>4. ASSUME NEW w \in Writers, SaveUpload(w) PROVE FALSE
    BY <1>0, <1>4, FreshIsThere DEF SaveUpload, File
<1>5. ASSUME NEW x \in DocumentIds, MarkRead(x) \/ \E f \in Folders : MoveDocument(x, f) PROVE FALSE
    <2>1. library[x] \in LibraryRows /\ library[d] \in LibraryRows
        BY <1>0
    <2>2. CASE MarkRead(x)
        BY <1>0, <2>1, <2>2 DEF MarkRead, LibraryRows
    <2>3. ASSUME NEW f \in Folders, MoveDocument(x, f) PROVE FALSE
        BY <1>0, <2>1, <2>3 DEF MoveDocument, LibraryRows
    <2>4. QED
        BY <1>5, <2>2, <2>3
<1>6. ASSUME library' = library PROVE FALSE
    BY <1>0, <1>6
<1>7. \/ library' = library
      \/ \E x \in DocumentIds : DeleteDocument(x) \/ MarkRead(x) \/ \E f \in Folders : MoveDocument(x, f)
      \/ \E w \in Writers : CommitGenerate(w) \/ DeleteFolder(w) \/ SaveUpload(w)
    BY DEF ExportsNext, CreateShipment, SetStatus, LoadForUpdate, LoadForGenerate, Erase, Sum, Purge, CommitUpdate, Abort,
           CheckUpload, CountFolder, Start, CreateFolder
<1>8. QED
    BY <1>1, <1>2, <1>3, <1>4, <1>5, <1>6, <1>7

\* A shipment mixes the products, totals or documents of two requests only when they overlap, and
\* a document leaves the library only when it is deleted, replaced or came into its folder while
\* that was being deleted (_replace_items, generate_documents, delete_folder).
THEOREM MixedAlone == ExportsSpec => OnlyOverlapsMix
<1> DEFINE Step ==
       /\ \A e \in Shipments :
            /\ Mixed(e)' /\ ~Mixed(e) =>
                 \E w \in Writers : (CommitUpdate(w) \/ CommitGenerate(w)) /\ writing[w].e = e /\ writing[w].disturbed
            /\ Outdated(e)' /\ ~Outdated(e) =>
                 \E w \in Writers : CommitUpdate(w) \/ (CommitGenerate(w) /\ writing[w].disturbed)
       /\ \A d \in DocumentIds : Orphaned(d) =>
            \/ DeleteDocument(d)
            \/ \E w \in Writers : CommitGenerate(w) /\ writing[w].e = library[d].of
            \/ \E w \in Writers : DeleteFolder(w) /\ writing[w].joined
<1>1. ExportInv /\ ExportsNext => Step
    <2> SUFFICES ASSUME ExportInv, ExportsNext PROVE Step
        OBVIOUS
    <2>1. ExportInv'
        BY ExportStep
    <2>2. QED
        BY <2>1, MixesByOverlap, OutdatesByOverlap, LeavesByName
<1>2. ExportInv /\ [ExportsNext]_exportVars => [Step]_exportVars
    BY <1>1
<1>3. ExportsSpec => [][Step]_exportVars
    BY <1>2, ExportsStart, ExportStep, PTL DEF ExportsSpec
<1>4. QED
    BY <1>3 DEF OnlyOverlapsMix

-----------------------------------------------------------------------------
(* Accounts and debts of the finance pages.                                *)

Ends == Wallets \cup {Outside}
DebtRows == [kind : Kinds, foreign : BOOLEAN, original : Nat, initial : Nat, paid : Nat,
             status : {"open", "partial", "paid"}]

\* A document is between two ends, one of them an account or none, and for a debt that is there.
IsDocument(d) ==
    /\ d.from \in Ends /\ d.to \in Ends /\ d.amount \in Nat /\ d.fee \in Int
    /\ d.from \in Wallets => d.from # d.to
    /\ d.for \in Debts => IsDebt(d.for)

\* A request holds rows that its document touches, and has read what is in them.
Holding(c) ==
    IsPaying(c) =>
        /\ IsDocument(paying[c].doc) /\ paying[c].held \subseteq Touched(paying[c].doc)
        /\ \A r \in paying[c].held : paying[c].seen[r] = Content(r)

FinanceTypes ==
    /\ funds \in [Wallets -> Int] /\ booked \in [Wallets -> Int]
    /\ debt \in [Debts -> DebtRows \cup {NoRecord}] /\ settled \in [Debts -> Int]
    /\ DOMAIN paying = Cashiers /\ paying = [c \in Cashiers |-> paying[c]]

\* The status of a debt says whether it is paid, and a debt not entered has no payment.
Stated ==
    \A o \in Debts :
        /\ IsDebt(o) => (debt[o].status = "paid" <=> debt[o].paid >= debt[o].original)
        /\ ~IsDebt(o) => settled[o] = 0

Balanced ==
    /\ \A a \in Wallets : funds[a] = Opening[a] + booked[a] /\ funds[a] >= 0
    /\ \A o \in Debts : IsDebt(o) => debt[o].paid = debt[o].initial + settled[o] /\ debt[o].paid <= debt[o].original

\* A row is held by one request.
Exclusive == \A c, e \in Cashiers : c # e /\ IsPaying(c) /\ IsPaying(e) => paying[c].held \cap paying[e].held = {}

FinanceInv == FinanceTypes /\ Stated /\ Balanced /\ Exclusive /\ \A c \in Cashiers : Holding(c)

LEMMA FinanceStart == FinanceInit => FinanceInv
<1> SUFFICES ASSUME FinanceInit PROVE FinanceInv
    OBVIOUS
<1>1. FinanceTypes
    BY FinanceAssumption DEF FinanceInit, FinanceTypes
<1>2. Stated /\ Balanced
    BY FinanceAssumption DEF FinanceInit, Stated, Balanced, IsDebt
<1>3. \A c \in Cashiers : ~IsPaying(c)
    BY DEF FinanceInit, IsPaying
<1>4. QED
    BY <1>1, <1>2, <1>3 DEF FinanceInv, Exclusive, Holding

\* The two pages agree where the status does.
LEMMA PagesAgree ==
    ASSUME FinanceInv
    PROVE  BooksBalance
<1>1. ASSUME NEW o \in Owed("receivable") PROVE debt[o].status \notin {"paid", "cancelled"} <=> Remaining(o) > 0
    <2>1. IsDebt(o) /\ debt[o] \in DebtRows
        BY DEF Owed, FinanceInv, FinanceTypes, IsDebt, NoRecord
    <2>2. debt[o].status # "cancelled" /\ debt[o].paid \in Nat /\ debt[o].original \in Nat
        BY <2>1 DEF DebtRows
    <2>3. debt[o].status = "paid" <=> debt[o].paid >= debt[o].original
        BY <2>1 DEF FinanceInv, Stated, Owed
    <2>4. QED
        BY <2>2, <2>3 DEF Remaining
<1>2. OnDashboard = {o \in OnSummary : ~debt[o].foreign}
    BY <1>1 DEF OnDashboard, OnSummary
<1>3. QED
    BY <1>2 DEF BooksBalance, FinanceInv, Balanced

\* A step that leaves accounts and debts alone, and lets one request go on or end.
LEMMA Handled ==
    ASSUME FinanceInv, UNCHANGED <<funds, booked, debt, settled>>, NEW c \in Cashiers, NEW p,
           paying' = [paying EXCEPT ![c] = p],
           Holding(c)', \A e \in Cashiers \ {c} : IsPaying(c)' /\ IsPaying(e) => p.held \cap paying[e].held = {}
    PROVE  FinanceInv'
<1>1. FinanceTypes' /\ Stated' /\ Balanced'
    BY DEF FinanceInv, FinanceTypes, Stated, Balanced, IsDebt
<1>2. \A e \in Cashiers \ {c} : paying'[e] = paying[e]
    BY DEF FinanceInv, FinanceTypes
<1>3. paying'[c] = p
    BY DEF FinanceInv, FinanceTypes
<1>4. Exclusive'
    BY <1>2, <1>3 DEF FinanceInv, Exclusive, IsPaying
<1>5. \A e \in Cashiers : Holding(e)'
    <2> SUFFICES ASSUME NEW e \in Cashiers \ {c} PROVE Holding(e)'
        OBVIOUS
    <2>1. Holding(e)
        BY DEF FinanceInv
    <2>2. QED
        BY <2>1, <1>2 DEF Holding, IsPaying, IsDocument, IsDebt, Content
<1>6. QED
    BY <1>1, <1>4, <1>5 DEF FinanceInv

\* What the pages send is a document.
LEMMA Sent ==
    ASSUME FinanceInv, NEW d \in Incomes \cup Expenses \cup Transfers \cup Payments
    PROVE  IsDocument(d)
<1>1. 1 .. MaxAmount \subseteq Nat /\ Commissions \subseteq Int /\ 0 \in Int /\ Outside \notin Wallets /\ NoDebt \notin Debts
    BY FinanceAssumption
<1>2. \A o \in Debts : debt[o].kind \in {"receivable", "payable"} => IsDebt(o)
    BY DEF IsDebt, NoRecord
<1>3. CASE d \in Incomes
    BY <1>1, <1>3 DEF Incomes, Document, IsDocument, Ends
<1>4. CASE d \in Expenses
    BY <1>1, <1>4 DEF Expenses, Document, IsDocument, Ends
<1>5. CASE d \in Transfers
    BY <1>1, <1>5 DEF Transfers, Document, IsDocument, Ends
<1>6. CASE d \in Payments
    BY <1>1, <1>2, <1>6 DEF Payments, Owed, Document, IsDocument, Ends
<1>7. QED
    BY <1>3, <1>4, <1>5, <1>6

LEMMA SubmitKeeps ==
    ASSUME FinanceInv, NEW c \in Cashiers, NEW d \in Incomes \cup Expenses \cup Transfers \cup Payments, Submit(c, d)
    PROVE  FinanceInv'
<1> DEFINE p == [doc |-> d, held |-> {}, seen |-> [r \in {} |-> 0]]
<1>1. paying' = [paying EXCEPT ![c] = p] /\ UNCHANGED <<funds, booked, debt, settled>>
    BY DEF Submit
<1>2. paying'[c] = p
    BY <1>1 DEF FinanceInv, FinanceTypes
<1>3. IsDocument(d)
    BY Sent
<1>4. Holding(c)'
    BY <1>1, <1>2, <1>3 DEF Holding, IsDocument, IsDebt
<1>5. p.held = {}
    OBVIOUS
<1> HIDE DEF p
<1>6. QED
    BY <1>1, <1>4, <1>5, Handled

LEMMA LockKeeps ==
    ASSUME FinanceInv, NEW c \in Cashiers, NEW r \in Wallets \cup Debts, LockRow(c, r)
    PROVE  FinanceInv'
<1> DEFINE old == paying[c]
           p == [doc |-> old.doc, held |-> old.held \cup {r},
                 seen |-> [x \in old.held \cup {r} |-> IF x = r THEN Content(r) ELSE old.seen[x]]]
<1>1. paying' = [paying EXCEPT ![c] = p] /\ UNCHANGED <<funds, booked, debt, settled>>
    BY DEF LockRow
<1>2. IsPaying(c) /\ r \in Touched(old.doc) /\ Free(r) /\ Holding(c)
    BY DEF LockRow, FinanceInv
<1>3. paying'[c] = p
    BY <1>1 DEF FinanceInv, FinanceTypes
<1>4. p.held = old.held \cup {r} /\ p.doc = old.doc
      /\ \A x \in p.held : p.seen[x] = IF x = r THEN Content(r) ELSE old.seen[x]
    OBVIOUS
<1> HIDE DEF p
<1>5. Holding(c)'
    <2>1. \A x \in p.held : p.seen[x] = Content(x)
        BY <1>2, <1>4 DEF Holding
    <2>2. p.held \subseteq Touched(p.doc) /\ IsDocument(p.doc)
        BY <1>2, <1>4 DEF Holding
    <2>3. QED
        BY <1>1, <1>3, <2>1, <2>2 DEF Holding, IsDocument, IsDebt, Content
<1>6. \A e \in Cashiers \ {c} : IsPaying(c)' /\ IsPaying(e) => p.held \cap paying[e].held = {}
    BY <1>2, <1>4 DEF FinanceInv, Exclusive, Free
<1>7. QED
    BY <1>1, <1>5, <1>6, Handled

LEMMA GiveUpKeeps == ASSUME FinanceInv, NEW c \in Cashiers, GiveUp(c) PROVE FinanceInv'
<1>1. paying' = [paying EXCEPT ![c] = NoPayment] /\ UNCHANGED <<funds, booked, debt, settled>>
    BY DEF GiveUp
<1>2. ~IsPaying(c)'
    BY <1>1 DEF FinanceInv, FinanceTypes, IsPaying
<1>3. QED
    BY <1>1, <1>2, Handled DEF Holding

\* A debt that is entered belongs to no document.
LEMMA ObligationKeeps == ASSUME FinanceInv, NEW o \in Debts, CreateObligation(o) PROVE FinanceInv'
<1>1. PICK kind \in Kinds, foreign \in BOOLEAN, original \in 1 .. MaxAmount : \E paid \in 0 .. original :
         debt' = [debt EXCEPT ![o] =
                    [kind |-> kind, foreign |-> foreign, original |-> original, initial |-> paid, paid |-> paid,
                     status |-> IF paid >= original THEN "paid" ELSE "open"]]
    BY DEF CreateObligation
<1>2. PICK paid \in 0 .. original :
         debt' = [debt EXCEPT ![o] =
                    [kind |-> kind, foreign |-> foreign, original |-> original, initial |-> paid, paid |-> paid,
                     status |-> IF paid >= original THEN "paid" ELSE "open"]]
    BY <1>1
<1> DEFINE row == [kind |-> kind, foreign |-> foreign, original |-> original, initial |-> paid, paid |-> paid,
                   status |-> IF paid >= original THEN "paid" ELSE "open"]
<1>3. ~IsDebt(o) /\ UNCHANGED <<funds, booked, settled, paying>>
    BY DEF CreateObligation
<1>4. original \in Nat /\ paid \in Nat /\ paid <= original
    BY FinanceAssumption
<1>5. row \in DebtRows /\ row # NoRecord /\ (row.status = "paid" <=> row.paid >= row.original)
      /\ row.paid = row.initial /\ row.paid <= row.original
    BY <1>4 DEF DebtRows, NoRecord, Kinds
<1>6. debt' = [debt EXCEPT ![o] = row]
    BY <1>2
<1> HIDE DEF row
<1>7. debt'[o] = row /\ \A x \in Debts \ {o} : debt'[x] = debt[x]
    BY <1>6 DEF FinanceInv, FinanceTypes
<1>8. FinanceTypes'
    BY <1>3, <1>5, <1>6 DEF FinanceInv, FinanceTypes
<1>9. \A x \in Debts : IsDebt(x)' <=> IsDebt(x) \/ x = o
    BY <1>3, <1>5, <1>7 DEF IsDebt
<1>10. Stated'
    <2>1. settled[o] = 0
        BY <1>3 DEF FinanceInv, Stated
    <2>2. \A x \in Debts \ {o} : IsDebt(x)' <=> IsDebt(x)
        BY <1>9
    <2>3. \A x \in Debts \ {o} :
            /\ IsDebt(x)' => (debt'[x].status = "paid" <=> debt'[x].paid >= debt'[x].original)
            /\ (~IsDebt(x))' => settled'[x] = 0
        BY <1>3, <1>7, <2>2 DEF FinanceInv, Stated
    <2>4. QED
        BY <1>5, <1>7, <1>9, <2>3 DEF Stated
<1>11. Balanced'
    <2>1. settled'[o] = 0
        BY <1>3 DEF FinanceInv, Stated
    <2>2. debt'[o].paid = debt'[o].initial + settled'[o] /\ debt'[o].paid <= debt'[o].original
        BY <1>4, <1>5, <1>7, <2>1 DEF DebtRows
    <2>3. QED
        BY <1>3, <1>7, <1>9, <2>2 DEF FinanceInv, Balanced
<1>12. \A c \in Cashiers : Holding(c)'
    <2> SUFFICES ASSUME NEW c \in Cashiers, IsPaying(c) PROVE Holding(c)'
        BY <1>3 DEF Holding, IsPaying
    <2>1. Holding(c)
        BY DEF FinanceInv
    <2>2. \A r \in paying[c].held : Content(r)' = Content(r)
        BY <1>3, <1>7, <2>1 DEF Holding, Touched, IsDocument, Content, IsDebt
    <2>3. QED
        BY <1>3, <1>9, <2>1, <2>2 DEF Holding, IsDocument, IsPaying
<1>13. QED
    BY <1>3, <1>8, <1>10, <1>11, <1>12 DEF FinanceInv, Exclusive, IsPaying

\* The status of a payment: "paid" when nothing is left to pay, and only then.
LEMMA StatusTold ==
    ASSUME NEW x \in Nat, NEW y \in Nat
    PROVE  /\ StatusPaid(x, y) \in {"open", "partial", "paid"}
           /\ StatusPaid(x, y) = "paid" <=> x >= y
    BY DEF StatusPaid

\* What a document does to an account.
LEMMA Moved ==
    ASSUME NEW d, IsDocument(d), NEW a \in Wallets, NEW x \in Int
    PROVE  /\ a = d.from => Balance(d, a, x) = x - (d.amount + d.fee)
           /\ a = d.to => Balance(d, a, x) = x + d.amount
           /\ a \notin {d.from, d.to} => Balance(d, a, x) = x
           /\ Balance(d, a, x) \in Int
BY DEF IsDocument, Balance

LEMMA CommitKeeps == ASSUME FinanceInv, NEW c \in Cashiers, Commit(c) PROVE FinanceInv'
<1> DEFINE p == paying[c]
           d == p.doc
           o == d.for
           paid == p.seen[o] + d.amount
           row == [[debt[o] EXCEPT !.paid = paid] EXCEPT !.status = StatusPaid(paid, debt[o].original)]
<1>1. /\ IsPaying(c) /\ p.held = Touched(d) /\ Permitted(d, p.seen) /\ IsDocument(d)
      /\ \A r \in Touched(d) : p.seen[r] = Content(r)
    BY DEF Commit, FinanceInv, Holding
<1>2. /\ funds' = [a \in Wallets |-> IF a \in p.held THEN Balance(d, a, p.seen[a]) ELSE funds[a]]
      /\ booked' = [a \in Wallets |-> Balance(d, a, booked[a])]
      /\ debt' = IF o \in Debts THEN [debt EXCEPT ![o].paid = paid,
                                               ![o].status = StatusPaid(paid, debt[o].original)]
                ELSE debt
      /\ settled' = [x \in Debts |-> IF x = o THEN settled[x] + d.amount ELSE settled[x]]
      /\ paying' = [paying EXCEPT ![c] = NoPayment]
    BY DEF Commit
<1>3. Wallets \cap Debts = {} /\ FinanceTypes
    BY FinanceAssumption DEF FinanceInv
<1>4. \A a \in Wallets : funds'[a] = Balance(d, a, funds[a])
    <2> SUFFICES ASSUME NEW a \in Wallets PROVE funds'[a] = Balance(d, a, funds[a])
        OBVIOUS
    <2>1. funds'[a] = IF a \in p.held THEN Balance(d, a, p.seen[a]) ELSE funds[a]
        BY <1>2
    <2>2. CASE a \in p.held
        BY <1>1, <2>1, <2>2 DEF Content
    <2>3. CASE a \notin p.held
        <3>1. a \notin {d.from, d.to} /\ funds[a] \in Int
            BY <1>1, <1>3, <2>3 DEF Touched, FinanceTypes
        <3>2. QED
            BY <1>1, <2>1, <2>3, <3>1, Moved
    <2>4. QED
        BY <2>2, <2>3
<1>5. funds' \in [Wallets -> Int] /\ booked' \in [Wallets -> Int]
    <2>1. \A a \in Wallets : Balance(d, a, funds[a]) \in Int /\ Balance(d, a, booked[a]) \in Int
        BY <1>1, <1>3, Moved DEF FinanceTypes
    <2>2. QED
        BY <1>2, <1>4, <2>1
<1>6. ASSUME NEW a \in Wallets
      PROVE  funds'[a] = Opening[a] + booked'[a] /\ funds'[a] >= 0
    <2>1. funds[a] = Opening[a] + booked[a] /\ funds[a] >= 0 /\ funds[a] \in Int /\ booked[a] \in Int /\ Opening[a] \in Int
        BY <1>3, FinanceAssumption DEF FinanceInv, Balanced, FinanceTypes
    <2>2. funds'[a] = Balance(d, a, funds[a]) /\ booked'[a] = Balance(d, a, booked[a])
        BY <1>2, <1>4
    <2>3. d.amount \in Nat /\ d.fee \in Int
        BY <1>1 DEF IsDocument
    <2>4. CASE a = d.from
        <3>1. p.seen[a] >= d.amount + d.fee /\ p.seen[a] = funds[a]
            BY <1>1, <2>4 DEF Permitted, Touched, Content
        <3>2. funds'[a] = funds[a] - (d.amount + d.fee) /\ booked'[a] = booked[a] - (d.amount + d.fee)
            BY <1>1, <2>1, <2>2, <2>4, Moved
        <3>3. QED
            BY <2>1, <2>3, <3>1, <3>2
    <2>5. CASE a = d.to
        <3>1. funds'[a] = funds[a] + d.amount /\ booked'[a] = booked[a] + d.amount
            BY <1>1, <2>1, <2>2, <2>5, Moved
        <3>2. QED
            BY <2>1, <2>3, <3>1
    <2>6. CASE a \notin {d.from, d.to}
        BY <1>1, <2>1, <2>2, <2>6, Moved
    <2>7. QED
        BY <2>4, <2>5, <2>6
<1>7. ASSUME o \in Debts
      PROVE  /\ debt' = [debt EXCEPT ![o] = row] /\ row \in DebtRows /\ row # NoRecord
             /\ row.status = "paid" <=> row.paid >= row.original
             /\ row.paid = debt[o].paid + d.amount /\ row.initial = debt[o].initial /\ row.paid <= row.original
    <2>1. IsDebt(o) /\ o \in Touched(d) /\ o \notin Wallets /\ d.amount \in Nat
        BY <1>1, <1>3, <1>7 DEF IsDocument, Touched
    <2>2. debt[o] \in DebtRows
        BY <1>3, <1>7, <2>1 DEF FinanceTypes, IsDebt
    <2>3. paid = debt[o].paid + d.amount /\ d.amount <= debt[o].original - debt[o].paid
        BY <1>1, <1>7, <2>1 DEF Content, Permitted
    <2>4. debt[o].paid \in Nat /\ debt[o].original \in Nat /\ paid \in Nat /\ paid <= debt[o].original
        BY <2>1, <2>2, <2>3 DEF DebtRows
    <2>5. StatusPaid(paid, debt[o].original) \in {"open", "partial", "paid"}
          /\ (StatusPaid(paid, debt[o].original) = "paid" <=> paid >= debt[o].original)
        BY <2>4, StatusTold
    <2> HIDE DEF paid
    <2>6. /\ row \in DebtRows /\ row.paid = paid /\ row.status = StatusPaid(paid, debt[o].original)
          /\ row.original = debt[o].original /\ row.initial = debt[o].initial
        BY <2>2, <2>4, <2>5 DEF DebtRows
    <2>7. debt' = [debt EXCEPT ![o] = row]
        BY <1>2, <1>3, <1>7, <2>2 DEF FinanceTypes, DebtRows
    <2>8. row # NoRecord
        BY <2>6 DEF DebtRows, NoRecord, Kinds
    <2> HIDE DEF row
    <2>9. QED
        BY <2>3, <2>4, <2>5, <2>6, <2>7, <2>8
<1> HIDE DEF row, paid
<1>8. /\ debt' \in [Debts -> DebtRows \cup {NoRecord}]
      /\ o \in Debts => debt'[o] = row
      /\ \A x \in Debts \ {o} : debt'[x] = debt[x]
    BY <1>2, <1>3, <1>7 DEF FinanceTypes
<1>9. /\ settled' \in [Debts -> Int]
      /\ o \in Debts => settled'[o] = settled[o] + d.amount
      /\ \A x \in Debts \ {o} : settled'[x] = settled[x]
    BY <1>1, <1>2, <1>3 DEF FinanceTypes, IsDocument
<1>10. \A x \in Debts : IsDebt(x)' <=> IsDebt(x)
    BY <1>1, <1>7, <1>8 DEF IsDebt, IsDocument
<1>11. FinanceTypes'
    BY <1>2, <1>3, <1>5, <1>8, <1>9, ZenonT(40) DEF FinanceTypes
<1>12. ASSUME NEW x \in Debts
       PROVE  /\ IsDebt(x)' => (debt'[x].status = "paid" <=> debt'[x].paid >= debt'[x].original)
              /\ (~IsDebt(x))' => settled'[x] = 0
              /\ IsDebt(x)' => debt'[x].paid = debt'[x].initial + settled'[x] /\ debt'[x].paid <= debt'[x].original
    <2>1. /\ IsDebt(x) => (debt[x].status = "paid" <=> debt[x].paid >= debt[x].original)
          /\ ~IsDebt(x) => settled[x] = 0
          /\ IsDebt(x) => debt[x].paid = debt[x].initial + settled[x] /\ debt[x].paid <= debt[x].original
        BY DEF FinanceInv, Stated, Balanced
    <2>2. CASE x # o
        BY <1>8, <1>9, <1>10, <2>1, <2>2
    <2>3. CASE x = o
        <3>1. IsDebt(x) /\ d.amount \in Nat
            BY <1>1, <2>3 DEF IsDocument
        <3>2. debt[x].paid \in Nat /\ debt[x].initial \in Nat /\ settled[x] \in Int
            BY <1>3, <3>1 DEF FinanceTypes, IsDebt, DebtRows
        <3>3. row.paid = row.initial + settled'[x]
            BY <1>7, <1>9, <2>1, <2>3, <3>1, <3>2
        <3>4. QED
            BY <1>7, <1>8, <1>10, <2>3, <3>1, <3>3
    <2>4. QED
        BY <2>2, <2>3
<1>13. Stated' /\ Balanced'
    BY <1>6, <1>12 DEF Stated, Balanced
<1>14. (~IsPaying(c))' /\ \A e \in Cashiers \ {c} : paying'[e] = paying[e]
    BY <1>2, <1>3 DEF FinanceTypes, IsPaying
<1>15. Exclusive'
    BY <1>14 DEF FinanceInv, Exclusive, IsPaying
<1>16. \A e \in Cashiers : Holding(e)'
    <2> SUFFICES ASSUME NEW e \in Cashiers \ {c}, IsPaying(e) PROVE Holding(e)'
        BY <1>14 DEF Holding, IsPaying
    <2>1. Holding(e) /\ paying[e].held \cap Touched(d) = {}
        BY <1>1 DEF FinanceInv, Exclusive
    <2>2. ASSUME NEW r \in paying[e].held PROVE Content(r)' = Content(r)
        <3>1. r \in Wallets \/ (r \in Debts /\ r \notin Wallets)
            BY <1>3, <2>1 DEF Holding, Touched
        <3>2. CASE r \in Wallets
            <4>1. r \notin {d.from, d.to} /\ funds[r] \in Int
                BY <1>3, <2>1, <3>2 DEF Touched, FinanceTypes
            <4>2. funds'[r] = funds[r]
                BY <1>1, <1>4, <3>2, <4>1, Moved
            <4>3. QED
                BY <3>2, <4>2 DEF Content
        <3>3. CASE r \in Debts /\ r \notin Wallets
            <4>1. r # o
                BY <2>1, <3>3 DEF Touched
            <4>2. QED
                BY <1>8, <3>3, <4>1 DEF Content
        <3>4. QED
            BY <3>1, <3>2, <3>3
    <2>3. IsDocument(paying[e].doc)'
        BY <1>10, <1>14, <2>1 DEF Holding, IsDocument
    <2>4. QED
        BY <1>14, <2>1, <2>2, <2>3 DEF Holding, IsPaying
<1>17. QED
    BY <1>11, <1>13, <1>15, <1>16 DEF FinanceInv

LEMMA FinanceStep == FinanceInv /\ [FinanceNext]_financeVars => FinanceInv'
<1> SUFFICES ASSUME FinanceInv, [FinanceNext]_financeVars PROVE FinanceInv'
    OBVIOUS
<1>1. CASE UNCHANGED financeVars
    BY <1>1 DEF financeVars, FinanceInv, FinanceTypes, Stated, Balanced, Exclusive, Holding, IsPaying, IsDocument,
                IsDebt, Content
<1>2. CASE FinanceNext
    BY <1>2, ObligationKeeps, SubmitKeeps, LockKeeps, CommitKeeps, GiveUpKeeps DEF FinanceNext
<1>3. QED
    BY <1>1, <1>2

\* The accounts and the debts agree with their documents, and no account is overdrawn, however
\* requests follow one another; for any numbers of accounts, debts and requests.
THEOREM BooksKept == FinanceSpec => []BooksBalance
<1>1. FinanceSpec => []FinanceInv
    BY FinanceStart, FinanceStep, PTL DEF FinanceSpec
<1>2. FinanceInv => BooksBalance
    BY PagesAgree
<1>3. QED
    BY <1>1, <1>2, PTL
===============================================================================
