-------------------------- MODULE ProductionProofs ---------------------------
(***************************************************************************)
(* Theorems of production.  ShopFloor, for any details, quantities and     *)
(* stock: the evidence of a job whose route welds and paints is a          *)
(* conveyor, and on any route the evidence of a station never exceeds      *)
(* that of the one before it; quality control never disposes of more than  *)
(* it was handed; pieces in rework are on record; and what is packed stays *)
(* approved.  ProductTemplates and ProductCatalogue, for any templates,    *)
(* jobs and sessions: only requests that overlap put a template out of     *)
(* step or double a job, and these, edits and copies strand a row.  Tasks   *)
(* and Brigades: only requests that overlap assign an operator twice, lose *)
(* what he said, hand a job                                                *)
(* over, or credit somebody who had no part in it.                         *)
(***************************************************************************)
EXTENDS ShopFloor, ProductTemplates, ProductCatalogue, Tasks, Brigades, AmountProofs, SequenceTheorems,
        WellFoundedInduction

\* The part of TypeOK the evidence depends on.
NumbersOK ==
    /\ project \in BOOLEAN
    /\ stock \in [Lines -> 0 .. Quantity]
    /\ line \in [Lines -> [Columns -> Nat]]
    /\ led \in [Lines -> [Operations -> Nat]]
    /\ reworks \in Seq(Reworks)
    /\ reworked \in [Lines -> Nat]

\* A column a later station relies on never exceeds the evidence, and evidence keeps the order
\* of the stations.
Backed(l) ==
    /\ stock[l] <= Stock[l]
    /\ project => /\ line[l]["accepted"] <= led[l]["svarka_accepted"]
                  /\ line[l]["paint_accepted"] <= led[l]["painting_accepted"]
    /\ led[l]["svarka_accepted"] <= led[l]["lazer_completed"] + Stock[l]
    /\ led[l]["painting_accepted"] <= Welded(l)
    /\ led[l]["qc_approved"] <= Painted(l)

IInv == NumbersOK /\ \A l \in Lines : Backed(l)

\* What NumbersOK says of one detail.
LEMMA Numbers ==
    ASSUME NumbersOK, NEW l \in Lines
    PROVE  /\ Quantity \in Nat /\ stock[l] \in Nat /\ stock[l] <= Quantity /\ reworked[l] \in Nat
           /\ \A o \in Operations : led[l][o] \in Nat
           /\ \A c \in Columns : line[l][c] \in Nat
           /\ led[l]["lazer_completed"] \in Nat /\ led[l]["svarka_accepted"] \in Nat
           /\ led[l]["painting_accepted"] \in Nat /\ led[l]["qc_approved"] \in Nat
           /\ Stock[l] \in Nat /\ LazerReady(l) \in Nat
<1>1. Quantity \in Nat /\ Stock[l] \in Nat /\ stock[l] \in Nat /\ stock[l] <= Quantity /\ reworked[l] \in Nat
    BY ShopFloorAssumption DEF NumbersOK
<1>2. led[l] \in [Operations -> Nat] /\ line[l] \in [Columns -> Nat]
    BY DEF NumbersOK
<1>3. /\ \A o \in Operations : led[l][o] \in Nat
      /\ \A c \in Columns : line[l][c] \in Nat
    BY <1>2
<1>4. {"lazer_completed", "svarka_accepted", "painting_accepted", "qc_approved"} \subseteq Operations
    BY DEF Operations
<1>5. QED
    BY <1>1, <1>3, <1>4 DEF LazerReady

LEMMA Init_IInv == Init => IInv
<1> SUFFICES ASSUME Init PROVE IInv
    OBVIOUS
<1>1. NumbersOK
    BY ShopFloorAssumption DEF Init, NumbersOK
<1>2. ASSUME NEW l \in Lines PROVE Backed(l)
    <2>1. \A o \in Operations : led[l][o] = 0
        BY DEF Init
    <2>2. \A c \in Columns : line[l][c] = 0
        BY DEF Init
    <2>3. /\ led[l]["lazer_completed"] = 0 /\ led[l]["svarka_accepted"] = 0
          /\ led[l]["painting_accepted"] = 0 /\ led[l]["qc_approved"] = 0
        BY <2>1 DEF Operations
    <2>4. line[l]["accepted"] = 0 /\ line[l]["paint_accepted"] = 0
        BY <2>2 DEF Columns
    <2>5. stock[l] = 0 /\ Stock[l] \in Nat
        BY ShopFloorAssumption DEF Init
    <2>6. QED
        BY <2>3, <2>4, <2>5 DEF Backed, Welded, Painted
<1>3. QED
    BY <1>1, <1>2 DEF IInv

-----------------------------------------------------------------------------

\* One sum of a detail grows, to no more than the quantity of the job.
Grows(l, op, q) ==
    /\ led[l][op] <= q /\ q <= Quantity
    /\ led' = [led EXCEPT ![l][op] = q]

LEMMA CeilingBound ==
    ASSUME NumbersOK, NEW l \in Lines, NEW op \in Operations
    PROVE  Ceiling(l, op) \in Int /\ Ceiling(l, op) <= Quantity
<1>1. op = "lazer_completed" => Ceiling(l, op) = Quantity - stock[l]
    BY DEF Ceiling
<1>2. op \in {"svarka_completed", "svarka_accepted", "svarka_rejected"} =>
        Ceiling(l, op) = Least(Quantity, LazerReady(l))
    BY DEF Ceiling
<1>3. op \in {"painting_completed", "painting_accepted", "painting_rejected"} =>
        \/ Ceiling(l, op) = Least(Quantity, led[l]["svarka_accepted"])
        \/ Ceiling(l, op) = Least(Quantity, LazerReady(l))
    BY DEF Ceiling
<1>4. /\ op # "lazer_completed"
      /\ op \notin {"svarka_completed", "svarka_accepted", "svarka_rejected"}
      /\ op \notin {"painting_completed", "painting_accepted", "painting_rejected"}
      => Ceiling(l, op) = Quantity
    BY DEF Ceiling
<1>5. QED
    BY <1>1, <1>2, <1>3, <1>4, Numbers DEF Least

\* Recording a sum of a detail leaves the evidence alone, or makes one sum grow to its ceiling.
LEMMA RecordGrows ==
    ASSUME NumbersOK, NEW l \in Lines, NEW op \in Operations, NEW q \in Nat,
           Recordable(l, op, q), led' = Recorded(l, op, q)
    PROVE  /\ led' = led \/ (project /\ Grows(l, op, q) /\ q <= Ceiling(l, op) /\ led[l][op] < q)
           /\ project => q <= led'[l][op]
<1>0. led[l][op] \in Nat /\ led[l] \in [Operations -> Nat] /\ led \in [Lines -> [Operations -> Nat]]
    BY DEF NumbersOK
<1>1. CASE ~project
    BY <1>1 DEF Recorded
<1>2. CASE project /\ q = led[l][op]
    <2>1. led' = [led EXCEPT ![l][op] = led[l][op]]
        BY <1>2 DEF Recorded
    <2>2. led' = led
        BY <1>0, <2>1
    <2>3. QED
        BY <1>2, <2>2, <1>0
<1>3. CASE project /\ q > led[l][op]
    <2>1. q <= Ceiling(l, op)
        BY <1>3 DEF Recordable
    <2>2. led' = [led EXCEPT ![l][op] = q] /\ led'[l][op] = q
        BY <1>3, <1>0 DEF Recorded
    <2>3. QED
        BY <1>3, <1>0, <2>1, <2>2, CeilingBound, Numbers DEF Grows
<1>4. QED
    BY <1>0, <1>1, <1>2, <1>3 DEF Recordable

-----------------------------------------------------------------------------
(* A step and the evidence: it leaves every station's share alone, or one  *)
(* sum of one detail grows to what its ceiling, or the disposition check   *)
(* of quality control, allows.                                             *)

SameEvidence ==
    \A l \in Lines : /\ led'[l]["lazer_completed"] = led[l]["lazer_completed"]
                     /\ led'[l]["svarka_accepted"] = led[l]["svarka_accepted"]
                     /\ led'[l]["painting_accepted"] = led[l]["painting_accepted"]
                     /\ led'[l]["qc_approved"] = led[l]["qc_approved"]

EvidenceOps == {"lazer_completed", "svarka_accepted", "painting_accepted", "qc_approved"}

GrowsBacked(l, op, q) ==
    /\ project /\ led[l][op] < q /\ q <= Quantity /\ q <= Ceiling(l, op)
    /\ \A k \in Lines, o \in EvidenceOps : led'[k][o] = IF k = l /\ o = op THEN q ELSE led[k][o]
    /\ op = "qc_approved" => q <= Painted(l)

EvidenceStep == SameEvidence \/ \E l \in Lines, op \in EvidenceOps, q \in Nat : GrowsBacked(l, op, q)

\* The columns later stations rely on stay within the evidence.
ColumnsStep ==
    project => \A l \in Lines : /\ line'[l]["accepted"] <= led'[l]["svarka_accepted"]
                                /\ line'[l]["paint_accepted"] <= led'[l]["painting_accepted"]

LEMMA StepKeeps ==
    ASSUME IInv, NumbersOK', project' = project, \A l \in Lines : stock'[l] <= Stock[l],
           EvidenceStep, ColumnsStep
    PROVE  IInv'
<1>1. SUFFICES ASSUME NEW k \in Lines PROVE Backed(k)'
    BY DEF IInv
<1>2. NumbersOK /\ Backed(k)
    BY DEF IInv
<1>3. CASE SameEvidence
    BY <1>2, <1>3 DEF Backed, ColumnsStep, SameEvidence, Welded, Painted
<1>4. ASSUME NEW l \in Lines, NEW op \in EvidenceOps, NEW q \in Nat, GrowsBacked(l, op, q)
      PROVE  Backed(k)'
    <2>1. \A o \in EvidenceOps : led'[k][o] = IF k = l /\ o = op THEN q ELSE led[k][o]
        BY <1>4 DEF GrowsBacked
    <2>2. k # l => /\ led'[k]["lazer_completed"] = led[k]["lazer_completed"]
                   /\ led'[k]["svarka_accepted"] = led[k]["svarka_accepted"]
                   /\ led'[k]["painting_accepted"] = led[k]["painting_accepted"]
                   /\ led'[k]["qc_approved"] = led[k]["qc_approved"]
        BY <2>1 DEF EvidenceOps
    <2>3. \A o \in EvidenceOps : led'[l][o] = IF o = op THEN q ELSE led[l][o]
        BY <1>4 DEF GrowsBacked
    <2>4. /\ led'[l]["lazer_completed"] = IF "lazer_completed" = op THEN q ELSE led[l]["lazer_completed"]
          /\ led'[l]["svarka_accepted"] = IF "svarka_accepted" = op THEN q ELSE led[l]["svarka_accepted"]
          /\ led'[l]["painting_accepted"] = IF "painting_accepted" = op THEN q ELSE led[l]["painting_accepted"]
          /\ led'[l]["qc_approved"] = IF "qc_approved" = op THEN q ELSE led[l]["qc_approved"]
        BY <2>3 DEF EvidenceOps
    <2>5. op = "svarka_accepted" => q <= LazerReady(l)
        BY <1>2, <1>4, Numbers DEF GrowsBacked, Ceiling, Least
    <2>6. op = "painting_accepted" =>
            q <= IF "svarka" \in RouteStages THEN led[l]["svarka_accepted"] ELSE LazerReady(l)
        BY <1>2, <1>4, Numbers DEF GrowsBacked, Ceiling, Least
    <2>7. led[l][op] < q /\ (op = "qc_approved" => q <= Painted(l)) /\ Backed(l)
        BY <1>4 DEF GrowsBacked, IInv
    <2>8. CASE k # l
        BY <1>2, <2>2, <2>8 DEF Backed, ColumnsStep, Welded, Painted
    <2>9. CASE k = l
        <3>1. /\ led[l]["svarka_accepted"] <= led[l]["lazer_completed"] + Stock[l]
              /\ led[l]["painting_accepted"] <= Welded(l) /\ led[l]["qc_approved"] <= Painted(l)
              /\ stock[l] <= Stock[l]
            BY <2>7 DEF Backed
        <3>2. /\ led'[l]["svarka_accepted"] <= led'[l]["lazer_completed"] + Stock[l]
              /\ led'[l]["painting_accepted"] <= Welded(l)' /\ led'[l]["qc_approved"] <= Painted(l)'
            BY <3>1, <2>4, <2>5, <2>6, <2>7, <1>2, Numbers DEF Welded, Painted, LazerReady
        <3>3. QED
            BY <3>2, <2>9 DEF Backed, ColumnsStep
    <2>10. QED
        BY <2>8, <2>9
<1>5. QED
    BY <1>3, <1>4 DEF EvidenceStep

-----------------------------------------------------------------------------
(* What every step does to the evidence: one lemma per kind of request.    *)

Kept ==
    /\ NumbersOK' /\ project' = project /\ \A l \in Lines : stock'[l] <= Stock[l]
    /\ EvidenceStep /\ ColumnsStep

\* Requests that leave columns and sums alone.
LEMMA Quiet ==
    ASSUME IInv, UNCHANGED <<project, line, led, reworked>>, reworks' \in Seq(Reworks),
           stock' \in [Lines -> 0 .. Quantity], \A l \in Lines : stock'[l] <= Stock[l]
    PROVE  Kept
<1>1. NumbersOK'
    BY DEF IInv, NumbersOK
<1>2. SameEvidence
    BY DEF SameEvidence
<1>3. ColumnsStep
    BY DEF ColumnsStep, IInv, Backed
<1>4. QED
    BY <1>1, <1>2, <1>3 DEF Kept, EvidenceStep

LEMMA ReworksAlone ==
    ASSUME IInv, UNCHANGED <<project, stock, line, led, repairs>>
    PROVE  Kept
<1>1. \A l \in Lines : stock[l] <= Stock[l]
    BY DEF IInv, Backed
<1>2. QED
    BY <1>1, Quiet DEF IInv, NumbersOK, repairs

LEMMA AcceptKept == ASSUME IInv, NEW g, Accept(g) PROVE Kept
BY ReworksAlone DEF Accept, quantities, repairs

LEMMA StartKept == ASSUME IInv, NEW g, Start(g) PROVE Kept
BY ReworksAlone DEF Start, quantities, repairs

\* A sum the evidence does not depend on, or one within its ceiling.
LEMMA RecordedStep ==
    ASSUME IInv, NEW l \in Lines, NEW op \in Operations, NEW q \in Nat,
           led' = led \/ (project /\ Grows(l, op, q) /\ q <= Ceiling(l, op) /\ led[l][op] < q),
           op = "qc_approved" /\ led' # led => q <= Painted(l)
    PROVE  EvidenceStep /\ led' \in [Lines -> [Operations -> Nat]]
<1>1. led \in [Lines -> [Operations -> Nat]]
    BY DEF IInv, NumbersOK
<1>2. CASE led' = led
    BY <1>1, <1>2 DEF EvidenceStep, SameEvidence
<1>3. CASE led' # led
    <2>1. led' = [led EXCEPT ![l][op] = q] /\ EvidenceOps \subseteq Operations
        BY <1>3 DEF Grows, EvidenceOps, Operations
    <2>2. led' \in [Lines -> [Operations -> Nat]]
        BY <1>1, <2>1
    <2>3. \A k \in Lines, o \in EvidenceOps : led'[k][o] = IF k = l /\ o = op THEN q ELSE led[k][o]
        BY <1>1, <2>1
    <2>4. CASE op \in EvidenceOps
        BY <1>3, <2>2, <2>3, <2>4 DEF EvidenceStep, GrowsBacked, Grows
    <2>5. CASE op \notin EvidenceOps
        <3>1. SameEvidence
            BY <2>3, <2>5 DEF SameEvidence, EvidenceOps
        <3>2. QED
            BY <2>2, <3>1 DEF EvidenceStep
    <2>6. QED
        BY <2>4, <2>5
<1>4. QED
    BY <1>2, <1>3

\* A quantity column, and the sum that belongs to it.
LEMMA ColumnKept ==
    ASSUME IInv, NEW l \in Lines, NEW column \in Columns, NEW op \in Operations, NEW q \in Nat,
           q # line[l][column] => Recordable(l, op, q),
           led' = IF q # line[l][column] THEN Recorded(l, op, q) ELSE led,
           line' = [line EXCEPT ![l][column] = q],
           UNCHANGED <<project, stock, repairs>>,
           project => /\ column = "accepted" => op = "svarka_accepted"
                      /\ column = "paint_accepted" => op = "painting_accepted",
           op = "qc_approved" /\ led' # led => q <= Painted(l)
    PROVE  Kept
<1>1. NumbersOK /\ line \in [Lines -> [Columns -> Nat]] /\ led \in [Lines -> [Operations -> Nat]]
    BY DEF IInv, NumbersOK
<1>2. /\ led' = led \/ (project /\ Grows(l, op, q) /\ q <= Ceiling(l, op) /\ led[l][op] < q)
      /\ project /\ q # line[l][column] => q <= led'[l][op]
    <2>1. CASE q = line[l][column]
        BY <2>1
    <2>2. CASE q # line[l][column]
        BY <1>1, <2>2, RecordGrows
    <2>3. QED
        BY <2>1, <2>2
<1>3. EvidenceStep /\ led' \in [Lines -> [Operations -> Nat]]
    BY <1>2, RecordedStep
<1>4. line' \in [Lines -> [Columns -> Nat]]
    BY <1>1
<1>5. NumbersOK'
    BY <1>1, <1>3, <1>4 DEF NumbersOK, repairs
<1>6. ASSUME project, NEW k \in Lines
      PROVE  /\ line'[k]["accepted"] <= led'[k]["svarka_accepted"]
             /\ line'[k]["paint_accepted"] <= led'[k]["painting_accepted"]
    <2>1. /\ line[k]["accepted"] <= led[k]["svarka_accepted"]
          /\ line[k]["paint_accepted"] <= led[k]["painting_accepted"]
        BY <1>6 DEF IInv, Backed
    <2>2. "accepted" \in Columns /\ "paint_accepted" \in Columns
        BY DEF Columns
    <2>3. \A o \in Operations : led[k][o] <= led'[k][o]
        <3>1. \A o \in Operations : led[k][o] \in Nat
            BY <1>1
        <3>2. CASE led' = led
            BY <3>1, <3>2
        <3>3. CASE Grows(l, op, q)
            BY <1>1, <3>1, <3>3 DEF Grows
        <3>4. QED
            BY <1>2, <3>2, <3>3
    <2>4. /\ led[k]["svarka_accepted"] <= led'[k]["svarka_accepted"]
          /\ led[k]["painting_accepted"] <= led'[k]["painting_accepted"]
        BY <2>3 DEF Operations
    <2>5. \A c \in Columns : line'[k][c] = IF k = l /\ c = column THEN q ELSE line[k][c]
        BY <1>1
    <2>6. line'[k]["accepted"] <= led'[k]["svarka_accepted"]
        <3>1. CASE k = l /\ column = "accepted" /\ q # line[l][column]
            BY <1>2, <1>6, <2>2, <2>5, <3>1
        <3>2. CASE ~(k = l /\ column = "accepted" /\ q # line[l][column])
            <4>1. line'[k]["accepted"] = line[k]["accepted"]
                BY <2>2, <2>5, <3>2
            <4>2. led[k]["svarka_accepted"] \in Nat /\ led'[k]["svarka_accepted"] \in Nat /\ line[k]["accepted"] \in Nat
                BY <1>1, <1>3, <2>2 DEF Operations
            <4>3. QED
                BY <4>1, <4>2, <2>1, <2>4
        <3>3. QED
            BY <3>1, <3>2
    <2>7. line'[k]["paint_accepted"] <= led'[k]["painting_accepted"]
        <3>1. CASE k = l /\ column = "paint_accepted" /\ q # line[l][column]
            BY <1>2, <1>6, <2>2, <2>5, <3>1
        <3>2. CASE ~(k = l /\ column = "paint_accepted" /\ q # line[l][column])
            <4>1. line'[k]["paint_accepted"] = line[k]["paint_accepted"]
                BY <2>2, <2>5, <3>2
            <4>2. led[k]["painting_accepted"] \in Nat /\ led'[k]["painting_accepted"] \in Nat /\ line[k]["paint_accepted"] \in Nat
                BY <1>1, <1>3, <2>2 DEF Operations
            <4>3. QED
                BY <4>1, <4>2, <2>1, <2>4
        <3>3. QED
            BY <3>1, <3>2
    <2>8. QED
        BY <2>6, <2>7
<1>7. \A k \in Lines : stock'[k] <= Stock[k]
    BY DEF IInv, Backed
<1>8. QED
    BY <1>3, <1>5, <1>6, <1>7 DEF Kept, ColumnsStep

-----------------------------------------------------------------------------
(* The stations.                                                           *)

LEMMA LazerKept == ASSUME IInv, LazerTerminal PROVE Kept
<1>1. ASSUME NEW l \in Lines, NEW q \in 0 .. MaxCut, LazerQuantity(l, q) PROVE Kept
    <2> DEFINE output == Least(q, Quantity - stock[l])
    <2>1. NumbersOK /\ q \in Nat /\ output \in Nat
        BY ShopFloorAssumption, Numbers DEF IInv, Least
    <2>2. /\ line' = [line EXCEPT ![l]["completed"] = q] /\ UNCHANGED <<project, stock, repairs>>
          /\ q # line[l]["completed"] => Recordable(l, "lazer_completed", output)
          /\ led' = IF q # line[l]["completed"] THEN Recorded(l, "lazer_completed", output) ELSE led
        BY <1>1 DEF LazerQuantity, Enter
    <2>3. "lazer_completed" \in Operations
        BY DEF Operations
    <2> HIDE DEF output
    <2>4. \/ led' = led
          \/ project /\ Grows(l, "lazer_completed", output) /\ output <= Ceiling(l, "lazer_completed")
             /\ led[l]["lazer_completed"] < output
        <3>1. CASE q = line[l]["completed"]
            BY <2>2, <3>1
        <3>2. CASE q # line[l]["completed"]
            BY <2>1, <2>2, <2>3, <3>2, RecordGrows
        <3>3. QED
            BY <3>1, <3>2
    <2>5. EvidenceStep /\ led' \in [Lines -> [Operations -> Nat]]
        BY <2>1, <2>3, <2>4, RecordedStep
    <2>6. line' \in [Lines -> [Columns -> Nat]] /\ \A k \in Lines :
            line'[k]["accepted"] = line[k]["accepted"] /\ line'[k]["paint_accepted"] = line[k]["paint_accepted"]
        BY <2>1, <2>2 DEF NumbersOK, Columns
    <2>7. NumbersOK'
        BY <2>1, <2>2, <2>5, <2>6 DEF NumbersOK, repairs
    <2>8. \A k \in Lines : /\ led'[k]["svarka_accepted"] = led[k]["svarka_accepted"]
                           /\ led'[k]["painting_accepted"] = led[k]["painting_accepted"]
        <3>1. \A k \in Lines : \A o \in Operations \ {"lazer_completed"} : led'[k][o] = led[k][o]
            <4>1. led \in [Lines -> [Operations -> Nat]]
                BY <2>1 DEF NumbersOK
            <4>2. led' = led \/ led' = [led EXCEPT ![l]["lazer_completed"] = output]
                BY <2>4 DEF Grows
            <4>3. QED
                BY <4>1, <4>2
        <3>2. QED
            BY <3>1 DEF Operations
    <2>9. ColumnsStep
        BY <2>6, <2>8 DEF ColumnsStep, IInv, Backed
    <2>10. QED
        BY <2>2, <2>5, <2>7, <2>9 DEF Kept, IInv, Backed
<1>2. CASE LazerComplete
    BY <1>2, ReworksAlone DEF LazerComplete, quantities
<1>3. QED
    BY <1>1, <1>2, AcceptKept, StartKept DEF LazerTerminal, LazerAccept, LazerStart

LEMMA SvarkaKept == ASSUME IInv, SvarkaTerminal PROVE Kept
<1>1. ASSUME NEW l \in Lines, NEW c \in {"completed", "accepted", "rejected"}, NEW q \in 0 .. Quantity,
             SvarkaQuantity(l, c, q)
      PROVE  Kept
    <2>1. PICK op \in {"svarka_completed", "svarka_accepted", "svarka_rejected"} :
            (c = "accepted" <=> op = "svarka_accepted") /\ EnterColumn("svarka", l, c, op, q, TRUE)
        BY <1>1 DEF SvarkaQuantity
    <2>2. op \in Operations /\ op # "qc_approved" /\ c \in Columns /\ q \in Nat /\ c # "paint_accepted"
        BY ShopFloorAssumption DEF Operations, Columns
    <2>3. /\ q # line[l][c] => Recordable(l, op, q)
          /\ led' = IF q # line[l][c] THEN Recorded(l, op, q) ELSE led
          /\ line' = [line EXCEPT ![l][c] = q]
        BY <2>1 DEF EnterColumn, Enter
    <2>4. UNCHANGED <<project, stock, repairs>>
        BY <1>1 DEF SvarkaQuantity
    <2>5. QED
        BY <2>1, <2>2, <2>3, <2>4, ColumnKept
<1>2. CASE SvarkaComplete
    BY <1>2, ReworksAlone DEF SvarkaComplete, quantities
<1>3. QED
    BY <1>1, <1>2, AcceptKept, StartKept DEF SvarkaTerminal, SvarkaAccept, SvarkaStart

LEMMA KraskaKept == ASSUME IInv, KraskaTerminal PROVE Kept
<1>1. ASSUME NEW l \in Lines, NEW entry \in [PaintOperations -> 0 .. Quantity], KraskaQuantities(l, entry)
      PROVE  Kept
    <2> DEFINE changed == {op \in PaintOperations : entry[op] # line[l][PaintColumn(op)]}
               sums == [o \in Operations |-> IF o \in changed THEN entry[o] ELSE led[l][o]]
               q == entry["painting_accepted"]
    <2>1. NumbersOK /\ line \in [Lines -> [Columns -> Nat]] /\ led \in [Lines -> [Operations -> Nat]]
        BY DEF IInv, NumbersOK
    <2>2. /\ \A op \in changed : Recordable(l, op, entry[op])
          /\ led' = IF project THEN [led EXCEPT ![l] = sums] ELSE led
          /\ line' = [line EXCEPT ![l]["painted"] = entry["painting_completed"], ![l][PaintAccepted] = q,
                                  ![l][PaintRejected] = entry["painting_rejected"]]
          /\ UNCHANGED <<project, stock, repairs>>
        BY <1>1 DEF KraskaQuantities, Enter
    <2>3. /\ \A op \in PaintOperations : entry[op] \in Nat
          /\ PaintOperations \subseteq Operations
          /\ "painting_accepted" \in PaintOperations /\ "painting_completed" \in PaintOperations
          /\ "painting_rejected" \in PaintOperations
        BY ShopFloorAssumption DEF PaintOperations, Operations
    <2>4. changed \subseteq PaintOperations /\ sums \in [Operations -> Nat] /\ q \in Nat
        BY <2>1, <2>3
    <2>5. "painted" \in Columns /\ PaintAccepted \in Columns /\ PaintRejected \in Columns
        BY DEF Columns, PaintAccepted, PaintRejected
    <2>6. line' \in [Lines -> [Columns -> Nat]]
        BY <2>1, <2>2, <2>3, <2>4, <2>5
    <2>7. led' \in [Lines -> [Operations -> Nat]]
        BY <2>1, <2>2, <2>4
    <2>8. NumbersOK'
        BY <2>1, <2>2, <2>6, <2>7 DEF NumbersOK, repairs
    <2>9. ASSUME ~project PROVE Kept
        <3>1. led' = led
            BY <2>2, <2>9
        <3>2. SameEvidence
            BY <3>1 DEF SameEvidence
        <3>3. QED
            BY <2>2, <2>8, <2>9, <3>2 DEF Kept, EvidenceStep, ColumnsStep, IInv, Backed
    <2>10. ASSUME project PROVE Kept
        <3>1. /\ led'[l] = sums /\ \A k \in Lines \ {l} : led'[k] = led[k] /\ line'[k] = line[k]
              /\ line'[l] = [line[l] EXCEPT !["painted"] = entry["painting_completed"], !["paint_accepted"] = q,
                                            !["paint_rejected"] = entry["painting_rejected"]]
            BY <2>1, <2>2, <2>10 DEF PaintAccepted, PaintRejected
        <3>2. /\ line'[l]["accepted"] = line[l]["accepted"] /\ line'[l]["paint_accepted"] = q
            BY <2>1, <3>1 DEF Columns
        <3>3. "painting_accepted" \in changed <=> q # line[l]["paint_accepted"]
            BY <2>3, <2>10 DEF PaintColumn, PaintAccepted
        <3>4. /\ led'[l]["lazer_completed"] = led[l]["lazer_completed"]
              /\ led'[l]["svarka_accepted"] = led[l]["svarka_accepted"]
              /\ led'[l]["qc_approved"] = led[l]["qc_approved"]
              /\ led'[l]["painting_accepted"] = IF q # line[l]["paint_accepted"] THEN q ELSE led[l]["painting_accepted"]
            BY <2>4, <3>1, <3>3 DEF Operations, PaintOperations
        <3> HIDE DEF q, sums, changed
        <3>5. ColumnsStep
            <4>1. ASSUME NEW k \in Lines
                  PROVE  /\ line'[k]["accepted"] <= led'[k]["svarka_accepted"]
                         /\ line'[k]["paint_accepted"] <= led'[k]["painting_accepted"]
                <5>1. /\ line[k]["accepted"] <= led[k]["svarka_accepted"]
                      /\ line[k]["paint_accepted"] <= led[k]["painting_accepted"]
                    BY <2>10 DEF IInv, Backed
                <5>2. CASE k # l
                    BY <3>1, <5>1, <5>2
                <5>3. CASE k = l
                    BY <2>4, <3>2, <3>4, <5>1, <5>3
                <5>4. QED
                    BY <5>2, <5>3
            <4>2. QED
                BY <4>1 DEF ColumnsStep
        <3>6. CASE q = line[l]["paint_accepted"] \/ q = led[l]["painting_accepted"]
            <4>1. SameEvidence
                BY <3>1, <3>4, <3>6 DEF SameEvidence
            <4>2. QED
                BY <2>2, <2>8, <3>5, <4>1 DEF Kept, EvidenceStep, IInv, Backed
        <3>7. CASE q # line[l]["paint_accepted"] /\ q # led[l]["painting_accepted"]
            <4>1. Recordable(l, "painting_accepted", q) /\ "painting_accepted" \in Operations
                BY <2>2, <2>3, <3>3, <3>7 DEF q
            <4>2. led[l]["painting_accepted"] < q /\ q <= Ceiling(l, "painting_accepted")
                <5>1. /\ q >= led[l]["painting_accepted"]
                      /\ q > led[l]["painting_accepted"] => q <= Ceiling(l, "painting_accepted")
                    BY <2>10, <4>1 DEF Recordable
                <5>2. led[l]["painting_accepted"] \in Nat
                    BY <2>1, Numbers
                <5>3. QED
                    BY <2>4, <3>7, <5>1, <5>2
            <4>3. q <= Quantity
                BY <2>1, <2>4, <4>1, <4>2, CeilingBound, Numbers
            <4>4. \A k \in Lines, o \in EvidenceOps :
                    led'[k][o] = IF k = l /\ o = "painting_accepted" THEN q ELSE led[k][o]
                BY <3>1, <3>4, <3>7 DEF EvidenceOps
            <4>5. GrowsBacked(l, "painting_accepted", q) /\ "painting_accepted" \in EvidenceOps
                BY <2>10, <4>2, <4>3, <4>4 DEF GrowsBacked, EvidenceOps
            <4>6. EvidenceStep
                BY <2>4, <4>5 DEF EvidenceStep
            <4>7. QED
                BY <2>2, <2>8, <3>5, <4>6 DEF Kept, IInv, Backed
        <3>8. QED
            BY <3>6, <3>7
    <2>11. QED
        BY <2>9, <2>10
<1>2. CASE KraskaComplete
    BY <1>2, ReworksAlone DEF KraskaComplete, quantities
<1>3. QED
    BY <1>1, <1>2, AcceptKept, StartKept DEF KraskaTerminal, KraskaAccept, KraskaStart

LEMMA YigishKept == ASSUME IInv, YigishTerminal PROVE Kept
<1>1. ASSUME NEW q \in 0 .. Quantity, YigishQuantity(q) PROVE Kept
    BY <1>1, ReworksAlone DEF YigishQuantity
<1>2. CASE YigishComplete
    BY <1>2, ReworksAlone DEF YigishComplete, quantities
<1>3. QED
    BY <1>1, <1>2, AcceptKept, StartKept DEF YigishTerminal, YigishAccept, YigishStart

\* What quality control was handed is on the record of the station before it.
LEMMA PredecessorPainted ==
    ASSUME IInv, project, NEW l \in Lines
    PROVE  QcPredecessor(l) \in Int /\ QcPredecessor(l) <= Painted(l)
<1>1. /\ line[l]["accepted"] <= led[l]["svarka_accepted"]
      /\ line[l]["paint_accepted"] <= led[l]["painting_accepted"] /\ NumbersOK
    BY DEF IInv, Backed
<1>2. "accepted" \in Columns /\ "paint_accepted" \in Columns
    BY DEF Columns
<1>3. RouteStages \cap {"svarka", "kraska"} # {}
    BY ShopFloorAssumption
<1>4. QED
    BY <1>1, <1>2, <1>3, Numbers DEF QcPredecessor, Painted, Welded, Least, Most

LEMMA QcQuantityKept ==
    ASSUME IInv, NEW l \in Lines, NEW c \in {QcAccepted, QcRejected}, NEW q \in 0 .. Quantity, QcQuantity(l, c, q)
    PROVE  Kept
<1>1. PICK op \in {"qc_approved", "qc_rejected"}, closes \in BOOLEAN : EnterColumn("qc", l, c, op, q, closes)
    BY DEF QcQuantity, EnterColumn, Enter
<1>2. op \in Operations /\ q \in Nat /\ op # "svarka_accepted" /\ op # "painting_accepted"
    BY ShopFloorAssumption DEF Operations
<1>3. c \in Columns /\ (project => c # "accepted" /\ c # "paint_accepted")
    BY DEF Columns, QcAccepted, QcRejected
<1>4. /\ q # line[l][c] => Recordable(l, op, q)
      /\ led' = IF q # line[l][c] THEN Recorded(l, op, q) ELSE led
      /\ line' = [line EXCEPT ![l][c] = q]
    BY <1>1 DEF EnterColumn, Enter
<1>5. UNCHANGED <<project, stock, repairs>>
    BY DEF QcQuantity
<1>6. ASSUME op = "qc_approved", led' # led PROVE q <= Painted(l)
    <2>1. q # line[l][c] /\ NumbersOK /\ led \in [Lines -> [Operations -> Nat]]
        BY <1>4, <1>6 DEF IInv, NumbersOK
    <2>2. project /\ Grows(l, op, q) /\ led[l][op] < q
        BY <1>2, <1>4, <1>6, <2>1, RecordGrows
    <2>3. Disposed(l, "qc_approved", q) <= QcPredecessor(l)
        BY <1>2, <1>4, <1>6, <2>1, <2>2 DEF Recordable
    <2>4. \A o \in Operations : led[l][o] \in Nat
        BY <2>1
    <2>5. led[l]["qc_rejected"] \in Nat /\ led[l]["rework_created"] \in Nat /\ led[l]["rework_completed"] \in Nat
        BY <2>4 DEF Operations
    <2>6. q <= Disposed(l, "qc_approved", q) /\ Disposed(l, "qc_approved", q) \in Int
        BY <1>2, <2>1, <2>5, Numbers DEF Disposed, Most
    <2>7. Painted(l) \in Int
        BY <2>1, Numbers DEF Painted, Welded
    <2>8. QED
        BY <1>2, <2>2, <2>3, <2>6, <2>7, PredecessorPainted
<1>7. QED
    BY <1>2, <1>3, <1>4, <1>5, <1>6, ColumnKept

LEMMA CreateReworkKept ==
    ASSUME IInv, NEW l \in Lines, NEW q \in 1 .. Quantity, CreateRework(l, q)
    PROVE  Kept
<1> DEFINE n == line[l]["qc_rework"] + q
<1>1. NumbersOK /\ line \in [Lines -> [Columns -> Nat]] /\ led \in [Lines -> [Operations -> Nat]]
    BY DEF IInv, NumbersOK
<1>2. "qc_rework" \in Columns /\ "rework_created" \in Operations /\ n \in Nat /\ q \in Nat
    BY <1>1, ShopFloorAssumption DEF Columns, Operations
<1>3. /\ Recordable(l, "rework_created", n) /\ led' = Recorded(l, "rework_created", n)
      /\ line' = [line EXCEPT ![l]["qc_rework"] = n]
      /\ reworks' = Append(reworks, [line |-> l, qty |-> q, status |-> "pending"])
      /\ UNCHANGED <<project, stock, reworked>>
    BY DEF CreateRework
<1> HIDE DEF n
<1>4. \/ led' = led
      \/ project /\ Grows(l, "rework_created", n) /\ n <= Ceiling(l, "rework_created") /\ led[l]["rework_created"] < n
    BY <1>1, <1>2, <1>3, RecordGrows
<1>5. EvidenceStep /\ led' \in [Lines -> [Operations -> Nat]]
    BY <1>2, <1>4, RecordedStep
<1>6. reworks' \in Seq(Reworks)
    BY <1>1, <1>3 DEF NumbersOK, Reworks, Open
<1>7. line' \in [Lines -> [Columns -> Nat]] /\ \A k \in Lines : \A c \in Columns \ {"qc_rework"} : line'[k][c] = line[k][c]
    BY <1>1, <1>2, <1>3
<1>8. NumbersOK'
    BY <1>1, <1>3, <1>5, <1>6, <1>7 DEF NumbersOK
<1>9. \A k \in Lines : \A o \in Operations \ {"rework_created"} : led'[k][o] = led[k][o]
    BY <1>1, <1>4 DEF Grows
<1>10. \A k \in Lines : /\ led'[k]["svarka_accepted"] = led[k]["svarka_accepted"]
                        /\ led'[k]["painting_accepted"] = led[k]["painting_accepted"]
                        /\ line'[k]["accepted"] = line[k]["accepted"]
                        /\ line'[k]["paint_accepted"] = line[k]["paint_accepted"]
    BY <1>7, <1>9 DEF Operations, Columns
<1>11. ColumnsStep
    BY <1>10 DEF ColumnsStep, IInv, Backed
<1>12. QED
    BY <1>3, <1>5, <1>8, <1>11 DEF Kept, IInv, Backed

LEMMA CompleteReworkKept ==
    ASSUME IInv, NEW i \in DOMAIN reworks, CompleteRework(i)
    PROVE  Kept
<1> DEFINE l == reworks[i].line
           n == reworked[l]
           back == Most(0, line[l]["qc_rework"] - reworks[i].qty)
<1>1. NumbersOK /\ line \in [Lines -> [Columns -> Nat]] /\ led \in [Lines -> [Operations -> Nat]]
    BY DEF IInv, NumbersOK
<1>2. reworks[i] \in Reworks /\ l \in Lines /\ reworks[i].qty \in Nat
    <2>1. reworks \in Seq(Reworks) /\ reworks[i] \in Reworks
        BY <1>1 DEF NumbersOK
    <2>2. QED
        BY <2>1, ShopFloorAssumption DEF Reworks
<1>3. "qc_rework" \in Columns /\ "rework_completed" \in Operations /\ n \in Nat /\ back \in Nat
    <2>1. "qc_rework" \in Columns /\ "rework_completed" \in Operations
        BY DEF Columns, Operations
    <2>2. line[l]["qc_rework"] \in Nat /\ reworked[l] \in Nat
        BY <1>1, <1>2, <2>1 DEF NumbersOK
    <2>3. QED
        BY <1>2, <2>1, <2>2 DEF Most
<1>4. /\ Recordable(l, "rework_completed", n) /\ led' = Recorded(l, "rework_completed", n)
      /\ reworks' = [reworks EXCEPT ![i].status = "completed"] /\ reworked' = [reworked EXCEPT ![l] = @ + reworks[i].qty]
      /\ line' = IF project THEN [line EXCEPT ![l]["qc_rework"] = back] ELSE line
      /\ UNCHANGED <<project, stock>>
    BY DEF CompleteRework
<1>5. reworks' \in Seq(Reworks) /\ reworked' \in [Lines -> Nat]
    <2>1. [reworks[i] EXCEPT !.status = "completed"] \in Reworks
        BY <1>2 DEF Reworks
    <2>2. reworks' = [reworks EXCEPT ![i] = [reworks[i] EXCEPT !.status = "completed"]]
        BY <1>4
    <2>3. reworked[l] + reworks[i].qty \in Nat /\ reworked \in [Lines -> Nat]
        BY <1>1, <1>2, <1>3 DEF NumbersOK
    <2>4. QED
        BY <1>1, <1>2, <1>4, <2>1, <2>2, <2>3 DEF NumbersOK
<1> HIDE DEF l, n, back
<1>6. \/ led' = led
      \/ project /\ Grows(l, "rework_completed", n) /\ n <= Ceiling(l, "rework_completed")
         /\ led[l]["rework_completed"] < n
    BY <1>1, <1>2, <1>3, <1>4, RecordGrows
<1>7. EvidenceStep /\ led' \in [Lines -> [Operations -> Nat]]
    BY <1>2, <1>3, <1>6, RecordedStep
<1>8. line' \in [Lines -> [Columns -> Nat]] /\ \A k \in Lines : \A c \in Columns \ {"qc_rework"} : line'[k][c] = line[k][c]
    BY <1>1, <1>2, <1>3, <1>4
<1>9. NumbersOK'
    BY <1>1, <1>2, <1>3, <1>4, <1>5, <1>7, <1>8 DEF NumbersOK
<1>10. \A k \in Lines : \A o \in Operations \ {"rework_completed"} : led'[k][o] = led[k][o]
    BY <1>1, <1>2, <1>6 DEF Grows
<1>11. \A k \in Lines : /\ led'[k]["svarka_accepted"] = led[k]["svarka_accepted"]
                        /\ led'[k]["painting_accepted"] = led[k]["painting_accepted"]
                        /\ line'[k]["accepted"] = line[k]["accepted"]
                        /\ line'[k]["paint_accepted"] = line[k]["paint_accepted"]
    BY <1>8, <1>10 DEF Operations, Columns
<1>12. ColumnsStep
    BY <1>11 DEF ColumnsStep, IInv, Backed
<1>13. QED
    BY <1>4, <1>7, <1>9, <1>12 DEF Kept, IInv, Backed

LEMMA QcKept == ASSUME IInv, QcTerminal PROVE Kept
<1>1. CASE QcComplete
    BY <1>1, ReworksAlone DEF QcComplete, quantities
<1>2. ASSUME NEW i \in DOMAIN reworks, StartRework(i) PROVE Kept
    <2>1. reworks \in Seq(Reworks) /\ reworks[i] \in Reworks
        BY DEF IInv, NumbersOK
    <2>2. reworks' \in Seq(Reworks)
        <3>1. [reworks[i] EXCEPT !.status = "in_progress"] \in Reworks
            BY <2>1 DEF Reworks, Open
        <3>2. reworks' = [reworks EXCEPT ![i] = [reworks[i] EXCEPT !.status = "in_progress"]]
            BY <1>2 DEF StartRework
        <3>3. QED
            BY <2>1, <3>1, <3>2
    <2>3. UNCHANGED <<project, line, led, reworked, stock>>
        BY <1>2 DEF StartRework, quantities
    <2>4. QED
        BY <2>2, <2>3, Quiet DEF IInv, NumbersOK, Backed
<1>3. QED
    BY <1>1, <1>2, AcceptKept, StartKept, QcQuantityKept, CreateReworkKept, CompleteReworkKept
       DEF QcTerminal, QcAccept, QcStart

LEMMA PackagingKept == ASSUME IInv, PackagingTerminal PROVE Kept
<1>1. ASSUME NEW n \in 0 .. MaxPackages, NEW t \in 1 .. Quantity, PackagingData(n, t) PROVE Kept
    BY <1>1, ReworksAlone DEF PackagingData
<1>2. CASE PackagingComplete
    BY <1>2, ReworksAlone DEF PackagingComplete, quantities
<1>3. QED
    BY <1>1, <1>2, AcceptKept, StartKept DEF PackagingTerminal, PackagingAccept, PackagingStart

LEMMA WarehouseKept == ASSUME IInv, WarehouseTerminal PROVE Kept
<1>1. ASSUME NEW i \in DOMAIN pkgs, Place(i) PROVE Kept
    BY <1>1, ReworksAlone DEF Place, quantities
<1>2. CASE WarehouseComplete
    BY <1>2, ReworksAlone DEF WarehouseComplete, quantities
<1>3. QED
    BY <1>1, <1>2, AcceptKept, StartKept DEF WarehouseTerminal, WarehouseAccept, WarehouseStart

LEMMA ManagerKept == ASSUME IInv, Manager PROVE Kept
<1>1. \A l \in Lines : Stock[l] \in 0 .. Quantity /\ stock[l] <= Stock[l]
    BY ShopFloorAssumption DEF IInv, Backed
<1>2. stock' \in [Lines -> 0 .. Quantity] /\ \A l \in Lines : stock'[l] <= Stock[l]
    BY <1>1, ShopFloorAssumption DEF Manager, Release, SetJobStatus, IInv, NumbersOK
<1>3. UNCHANGED <<project, line, led, repairs>>
    BY DEF Manager, Release, SetJobStatus
<1>4. QED
    BY <1>2, <1>3, Quiet DEF IInv, NumbersOK, repairs

\* A return takes pieces out of a column, and adds to sums no station relies on.
LEMMA ReturnKept ==
    ASSUME IInv, NEW kind \in ReturnKinds, NEW l \in Lines, NEW q \in 1 .. Quantity, Return(kind, l, q)
    PROVE  Kept
<1> DEFINE column == CASE kind = "qc_return" -> "qc_accepted" [] kind = "packaging_return" -> "qc_accepted"
                       [] kind = "painting_return" -> "paint_accepted" [] kind = "svarka_return" -> "accepted"
           fromRework == IF kind = "qc_return" THEN Least(q, line[l]["qc_rework"]) ELSE 0
           more == IF kind = "qc_return" THEN q - fromRework ELSE 0
           left == line[l][column] - (q - fromRework)
<1>1. NumbersOK /\ line \in [Lines -> [Columns -> Nat]] /\ led \in [Lines -> [Operations -> Nat]] /\ q \in Nat
    BY ShopFloorAssumption DEF IInv, NumbersOK
<1>2. column \in Columns /\ kind \in Operations /\ "qc_return_accepted" \in Operations /\ "qc_rework" \in Columns
      /\ kind # "qc_return_accepted" /\ column # "qc_rework"
    BY DEF Columns, Operations, ReturnKinds
<1>3. \A c \in Columns : line[l][c] \in Nat
    BY <1>1
<1>4. line[l]["qc_rework"] \in Nat
    BY <1>2, <1>3
<1>5. fromRework \in Nat /\ fromRework <= q /\ fromRework <= line[l]["qc_rework"]
    BY <1>1, <1>4 DEF Least
<1>6. more \in Nat /\ left \in Int /\ left <= line[l][column]
    <2>1. line[l][column] \in Nat
        BY <1>2, <1>3
    <2> HIDE DEF column, fromRework
    <2>2. QED
        BY <1>1, <1>5, <2>1
<1>7. /\ led' = [led EXCEPT ![l][kind] = @ + q, ![l]["qc_return_accepted"] = @ + more]
      /\ line' = IF kind = "packaging_return" THEN line
                 ELSE [line EXCEPT ![l]["qc_rework"] = @ - fromRework, ![l][column] = Most(0, @ - (q - fromRework))]
      /\ reworks' = Append(reworks, [line |-> l, qty |-> q, status |-> "pending"]) \/ UNCHANGED reworks
      /\ UNCHANGED <<project, stock, reworked>>
    BY DEF Return
<1> HIDE DEF column, fromRework, more
<1>8. /\ led' \in [Lines -> [Operations -> Nat]]
      /\ \A k \in Lines : \A o \in Operations \ {kind, "qc_return_accepted"} : led'[k][o] = led[k][o]
    BY <1>1, <1>2, <1>6, <1>7
<1>9. /\ line' \in [Lines -> [Columns -> Nat]]
      /\ \A k \in Lines : \A c \in Columns \ {"qc_rework"} : line'[k][c] <= line[k][c]
    <2>1. CASE line' = line
        BY <1>1, <2>1
    <2>2. CASE line' = [line EXCEPT ![l]["qc_rework"] = @ - fromRework, ![l][column] = Most(0, @ - (q - fromRework))]
        <3>1. Most(0, left) \in Nat /\ Most(0, left) <= line[l][column] /\ line[l]["qc_rework"] - fromRework \in Nat
            BY <1>2, <1>3, <1>4, <1>5, <1>6 DEF Most
        <3>2. line' = [line EXCEPT ![l] = [line[l] EXCEPT !["qc_rework"] = line[l]["qc_rework"] - fromRework,
                                                          ![column] = Most(0, left)]]
            BY <1>1, <1>2, <2>2
        <3>3. \A k \in Lines \ {l} : line'[k] = line[k]
            BY <1>1, <3>2
        <3>4. line'[l] = [line[l] EXCEPT !["qc_rework"] = line[l]["qc_rework"] - fromRework, ![column] = Most(0, left)]
            BY <1>1, <3>2
        <3>5. line[l] \in [Columns -> Nat]
            BY <1>1
        <3>6. line'[l] \in [Columns -> Nat] /\ \A c \in Columns \ {"qc_rework"} : line'[l][c] <= line[l][c]
            BY <1>2, <1>3, <3>1, <3>4, <3>5
        <3>7. line' \in [Lines -> [Columns -> Nat]]
            BY <1>1, <3>2, <3>4, <3>6
        <3>8. QED
            BY <1>1, <3>3, <3>6, <3>7
    <2>3. QED
        BY <1>7, <2>1, <2>2
<1>10. reworks' \in Seq(Reworks)
    <2>1. [line |-> l, qty |-> q, status |-> "pending"] \in Reworks
        BY DEF Reworks, Open
    <2>2. reworks \in Seq(Reworks)
        BY <1>1 DEF NumbersOK
    <2>3. reworks' = Append(reworks, [line |-> l, qty |-> q, status |-> "pending"]) \/ reworks' = reworks
        BY <1>7
    <2>4. QED
        BY <2>1, <2>2, <2>3
<1>11. NumbersOK'
    BY <1>1, <1>7, <1>8, <1>9, <1>10 DEF NumbersOK
<1>12. \A k \in Lines : /\ led'[k]["lazer_completed"] = led[k]["lazer_completed"]
                        /\ led'[k]["svarka_accepted"] = led[k]["svarka_accepted"]
                        /\ led'[k]["painting_accepted"] = led[k]["painting_accepted"]
                        /\ led'[k]["qc_approved"] = led[k]["qc_approved"]
    BY <1>8 DEF Operations, ReturnKinds
<1>13. \A k \in Lines : /\ line'[k]["accepted"] <= line[k]["accepted"] /\ line'[k]["paint_accepted"] <= line[k]["paint_accepted"]
                        /\ line[k]["accepted"] \in Nat /\ line'[k]["accepted"] \in Nat
                        /\ line[k]["paint_accepted"] \in Nat /\ line'[k]["paint_accepted"] \in Nat
                        /\ led[k]["svarka_accepted"] \in Nat /\ led[k]["painting_accepted"] \in Nat
    BY <1>1, <1>9 DEF Columns, Operations
<1>14. ColumnsStep
    <2>1. project => \A k \in Lines : /\ line[k]["accepted"] <= led[k]["svarka_accepted"]
                                     /\ line[k]["paint_accepted"] <= led[k]["painting_accepted"]
        BY DEF IInv, Backed
    <2>2. QED
        BY <1>12, <1>13, <2>1 DEF ColumnsStep
<1>15. QED
    BY <1>7, <1>11, <1>12, <1>14 DEF Kept, EvidenceStep, SameEvidence, IInv, Backed

LEMMA CorrectionsKept == ASSUME IInv, Corrections PROVE Kept
<1>1. ASSUME NEW g \in RouteStages, Reopen(g) PROVE Kept
    BY <1>1, ReworksAlone DEF Reopen
<1>2. QED
    BY <1>1, ReturnKept DEF Corrections

-----------------------------------------------------------------------------

LEMMA NextKept == ASSUME IInv, [Next]_floor PROVE Kept
<1>1. CASE Next
    BY <1>1, LazerKept, SvarkaKept, KraskaKept, YigishKept, QcKept, PackagingKept, WarehouseKept,
       CorrectionsKept, ManagerKept DEF Next
<1>2. CASE UNCHANGED floor
    BY <1>2, ReworksAlone DEF floor, quantities
<1>3. QED
    BY <1>1, <1>2

\* The strengthened invariant is inductive.
THEOREM EvidenceBacked == Spec => []IInv
<1>1. ASSUME IInv, [Next]_floor PROVE IInv'
    BY <1>1, NextKept, StepKeeps DEF Kept
<1>2. QED
    BY <1>1, Init_IInv, PTL DEF Spec

\* What each station has on record is at most what the station before it has.
EvidenceOrdered == \A l \in Lines, i \in 1 .. 3 : Evidence(l)[i + 1] <= Evidence(l)[i]

\* On any route that welds or paints: what is approved was painted, what is painted was welded,
\* and what is welded was cut or in stock.
THEOREM EvidenceInOrder == Spec => []EvidenceOrdered
<1>1. IInv => EvidenceOrdered
    <2> SUFFICES ASSUME IInv, NEW l \in Lines, NEW i \in 1 .. 3 PROVE Evidence(l)[i + 1] <= Evidence(l)[i]
        BY DEF EvidenceOrdered
    <2>1. /\ Welded(l) <= led[l]["lazer_completed"] + Stock[l] /\ Painted(l) <= Welded(l)
          /\ led[l]["qc_approved"] <= Painted(l)
        BY Numbers DEF IInv, Backed, Welded, Painted
    <2>2. i = 1 \/ i = 2 \/ i = 3
        OBVIOUS
    <2>3. QED
        BY <2>1, <2>2 DEF Evidence
<1>2. QED
    BY <1>1, EvidenceBacked, PTL

\* The detailed specification of a job that is both welded and painted implements the conveyor.
THEOREM FlowsLikeConveyor ==
    ASSUME {"svarka", "kraska"} \subseteq RouteStages
    PROVE  Spec => EvidenceFlows
<1> DEFINE through == [l \in Lines |-> Evidence(l)]
<1>1. \A l \in Lines : Evidence(l) = <<led[l]["lazer_completed"] + Stock[l], led[l]["svarka_accepted"],
                                      led[l]["painting_accepted"], led[l]["qc_approved"]>>
    BY DEF Evidence, Welded, Painted
<1>2. ASSUME NumbersOK PROVE through \in [Lines -> [1 .. 4 -> Nat]]
    <2>1. ASSUME NEW l \in Lines PROVE Evidence(l) \in [1 .. 4 -> Nat]
        BY <1>1, <1>2, Numbers
    <2>2. QED
        BY <2>1
<1>3. ASSUME IInv, NEW l \in Lines PROVE C!InOrder(through[l])
    <2>1. /\ led[l]["svarka_accepted"] <= led[l]["lazer_completed"] + Stock[l]
          /\ led[l]["painting_accepted"] <= led[l]["svarka_accepted"]
          /\ led[l]["qc_approved"] <= led[l]["painting_accepted"]
        BY <1>3 DEF IInv, Backed, Welded, Painted
    <2>2. through[l] = <<led[l]["lazer_completed"] + Stock[l], led[l]["svarka_accepted"],
                         led[l]["painting_accepted"], led[l]["qc_approved"]>>
        BY <1>1
    <2>3. 1 .. 4 - 1 = {1, 2, 3}
        OBVIOUS
    <2>4. QED
        BY <2>1, <2>2, <2>3 DEF C!InOrder
<1>4. Init => C!Init
    BY <1>2, <1>3, Init_IInv DEF C!Init, IInv
<1>5. ASSUME IInv, IInv', [Next]_floor PROVE [C!Next]_through
    <2>1. EvidenceStep
        BY <1>5, NextKept DEF Kept
    <2>2. CASE SameEvidence
        <3>1. \A l \in Lines : Evidence(l)' = Evidence(l)
            BY <2>2 DEF SameEvidence, Evidence, Welded, Painted
        <3>2. QED
            BY <3>1
    <2>3. ASSUME NEW l \in Lines, NEW op \in EvidenceOps, NEW q \in Nat, GrowsBacked(l, op, q)
          PROVE  [C!Next]_through
        <3>1. led[l][op] < q /\ q <= Quantity /\ Quantity \in Nat /\ led[l][op] \in Nat
            BY <1>5, <2>3, Numbers DEF IInv, GrowsBacked, EvidenceOps
        <3>2. \A k \in Lines \ {l} : Evidence(k)' = Evidence(k)
            <4>1. \A k \in Lines \ {l} : \A o \in EvidenceOps : led'[k][o] = led[k][o]
                BY <2>3 DEF GrowsBacked
            <4>2. QED
                BY <4>1 DEF Evidence, Welded, Painted, EvidenceOps
        <3>3. \A o \in EvidenceOps : led'[l][o] = IF o = op THEN q ELSE led[l][o]
            BY <2>3 DEF GrowsBacked
        <3>4. \A k \in Lines : Evidence(k)' = <<led'[k]["lazer_completed"] + Stock[k], led'[k]["svarka_accepted"],
                                              led'[k]["painting_accepted"], led'[k]["qc_approved"]>>
            BY DEF Evidence, Welded, Painted
        <3> DEFINE n == q - led[l][op]
        <3>5. n \in 1 .. Quantity
            BY <3>1
        <3>6. through \in [Lines -> [1 .. 4 -> Nat]]
            BY <1>2, <1>5 DEF IInv
        <3>7. ASSUME NEW i \in 1 .. 4, Evidence(l)' = [Evidence(l) EXCEPT ![i] = @ + n]
              PROVE  C!Next
            <4>1. through' = [through EXCEPT ![l][i] = @ + n]
                BY <3>2, <3>7, <3>6
            <4>2. C!InOrder(through'[l])
                <5>1. /\ led'[l]["svarka_accepted"] <= led'[l]["lazer_completed"] + Stock[l]
                      /\ led'[l]["painting_accepted"] <= led'[l]["svarka_accepted"]
                      /\ led'[l]["qc_approved"] <= led'[l]["painting_accepted"]
                    BY <1>5 DEF IInv, Backed, Welded, Painted
                <5>2. through'[l] = <<led'[l]["lazer_completed"] + Stock[l], led'[l]["svarka_accepted"],
                                      led'[l]["painting_accepted"], led'[l]["qc_approved"]>>
                    BY <3>4
                <5>3. 1 .. 4 - 1 = {1, 2, 3}
                    OBVIOUS
                <5>4. QED
                    BY <5>1, <5>2, <5>3 DEF C!InOrder
            <4>3. C!PassOn(l, i, n)
                BY <4>1, <4>2 DEF C!PassOn
            <4>4. QED
                BY <4>3, <3>5 DEF C!Next
        <3>9. /\ led'[l]["lazer_completed"] = IF op = "lazer_completed" THEN led[l]["lazer_completed"] + n ELSE led[l]["lazer_completed"]
              /\ led'[l]["svarka_accepted"] = IF op = "svarka_accepted" THEN led[l]["svarka_accepted"] + n ELSE led[l]["svarka_accepted"]
              /\ led'[l]["painting_accepted"] = IF op = "painting_accepted" THEN led[l]["painting_accepted"] + n ELSE led[l]["painting_accepted"]
              /\ led'[l]["qc_approved"] = IF op = "qc_approved" THEN led[l]["qc_approved"] + n ELSE led[l]["qc_approved"]
              /\ led[l]["lazer_completed"] \in Nat /\ Stock[l] \in Nat /\ n \in Nat
            BY <1>5, <3>1, <3>3, Numbers DEF EvidenceOps, IInv
        <3> HIDE DEF n
        <3>10. CASE op = "lazer_completed"
            <4>1. Evidence(l)' = [Evidence(l) EXCEPT ![1] = @ + n]
                BY <1>1, <3>4, <3>9, <3>10
            <4>2. QED
                BY <3>7, <4>1
        <3>11. CASE op = "svarka_accepted"
            <4>1. Evidence(l)' = [Evidence(l) EXCEPT ![2] = @ + n]
                BY <1>1, <3>4, <3>9, <3>11
            <4>2. QED
                BY <3>7, <4>1
        <3>12. CASE op = "painting_accepted"
            <4>1. Evidence(l)' = [Evidence(l) EXCEPT ![3] = @ + n]
                BY <1>1, <3>4, <3>9, <3>12
            <4>2. QED
                BY <3>7, <4>1
        <3>13. CASE op = "qc_approved"
            <4>1. Evidence(l)' = [Evidence(l) EXCEPT ![4] = @ + n]
                BY <1>1, <3>4, <3>9, <3>13
            <4>2. QED
                BY <3>7, <4>1
        <3>14. QED
            BY <3>10, <3>11, <3>12, <3>13 DEF EvidenceOps
    <2>4. QED
        BY <2>1, <2>2, <2>3 DEF EvidenceStep
<1>6. QED
    BY <1>4, <1>5, EvidenceBacked, PTL DEF Spec, EvidenceFlows, C!Spec

-----------------------------------------------------------------------------
(* What quality control disposes of.  The pieces a detail is sent back for *)
(* and the stage before it are read from columns that corrections reduce;  *)
(* on record there is a ceiling that never does.                           *)

\* What the station before quality control has on record, at most one batch of it.
Handed(l) ==
    Least(Quantity, IF "kraska" \in RouteStages THEN led[l]["painting_accepted"] ELSE led[l]["svarka_accepted"])

\* Approved, rejected, and in rework.
Dispositions(l) ==
    led[l]["qc_approved"] + led[l]["qc_rejected"]
        + Most(0, led[l]["rework_created"] - Most(reworked[l], led[l]["rework_completed"]))

DispositionsHanded == project => \A l \in Lines : Dispositions(l) <= Handed(l)

LEMMA PredecessorHanded ==
    ASSUME IInv, project, NEW l \in Lines
    PROVE  QcPredecessor(l) = Handed(l) /\ Handed(l) \in Nat
<1>1. /\ line[l]["accepted"] <= led[l]["svarka_accepted"]
      /\ line[l]["paint_accepted"] <= led[l]["painting_accepted"] /\ NumbersOK
    BY DEF IInv, Backed
<1>2. line[l]["accepted"] \in Nat /\ line[l]["paint_accepted"] \in Nat
    BY <1>1, Numbers DEF Columns
<1>3. QED
    BY <1>1, <1>2, Numbers DEF QcPredecessor, Handed, Least, Most

LEMMA DispositionNumbers ==
    ASSUME NumbersOK, NEW l \in Lines
    PROVE  /\ led[l]["qc_approved"] \in Nat /\ led[l]["qc_rejected"] \in Nat /\ led[l]["rework_created"] \in Nat
           /\ led[l]["rework_completed"] \in Nat /\ reworked[l] \in Nat /\ Dispositions(l) \in Nat
           /\ Disposed(l, "qc_approved", led[l]["qc_approved"]) = Dispositions(l)
<1>1. /\ led[l]["qc_approved"] \in Nat /\ led[l]["qc_rejected"] \in Nat /\ led[l]["rework_created"] \in Nat
      /\ led[l]["rework_completed"] \in Nat /\ reworked[l] \in Nat
    BY Numbers DEF Operations
<1>2. QED
    BY <1>1 DEF Dispositions, Disposed, Most

\* A step leaves the dispositions of a detail alone, or adds one that was checked.
DispositionsChecked ==
    project => \A l \in Lines : Dispositions(l)' <= Dispositions(l) \/ Dispositions(l)' <= Handed(l)

LEMMA NothingDisposed ==
    ASSUME NumbersOK, NumbersOK',
           \A l \in Lines : /\ led'[l]["qc_approved"] = led[l]["qc_approved"]
                            /\ led'[l]["qc_rejected"] = led[l]["qc_rejected"]
                            /\ led'[l]["rework_created"] = led[l]["rework_created"]
                            /\ led'[l]["rework_completed"] >= led[l]["rework_completed"]
                            /\ reworked'[l] >= reworked[l]
    PROVE  DispositionsChecked
<1>1. SUFFICES ASSUME NEW l \in Lines PROVE Dispositions(l)' <= Dispositions(l)
    BY DEF DispositionsChecked
<1>2. /\ led[l]["qc_approved"] \in Nat /\ led[l]["qc_rejected"] \in Nat /\ led[l]["rework_created"] \in Nat
      /\ led[l]["rework_completed"] \in Nat /\ reworked[l] \in Nat
    BY DispositionNumbers
<1>3. led'[l]["rework_completed"] \in Nat /\ reworked'[l] \in Nat
    BY DEF NumbersOK, Operations
<1>4. QED
    BY <1>2, <1>3 DEF Dispositions, Most

\* One sum is recorded, or one that is there already is repeated.
LEMMA RecordDisposes ==
    ASSUME IInv, NumbersOK', NEW l \in Lines, NEW op \in Operations, NEW q \in Nat,
           Recordable(l, op, q), led' = Recorded(l, op, q), \A k \in Lines : reworked'[k] >= reworked[k],
           op \in {"qc_approved", "qc_rejected", "rework_created"} => reworked' = reworked
    PROVE  DispositionsChecked
<1>1. NumbersOK /\ led \in [Lines -> [Operations -> Nat]]
    BY DEF IInv, NumbersOK
<1>2. SUFFICES ASSUME project PROVE DispositionsChecked
    BY DEF DispositionsChecked
<1>3. led' = [led EXCEPT ![l][op] = q] /\ q >= led[l][op] /\ led[l][op] \in Nat
    BY <1>1, <1>2 DEF Recordable, Recorded
<1>4. \A k \in Lines, o \in Operations : led'[k][o] = IF k = l /\ o = op THEN q ELSE led[k][o]
    BY <1>1, <1>3
<1>5. CASE op \notin {"qc_approved", "qc_rejected", "rework_created"} \/ q = led[l][op]
    <2>1. \A k \in Lines : \A o \in Operations : led[k][o] \in Nat
        BY <1>1
    <2>2. \A k \in Lines : /\ led'[k]["qc_approved"] = led[k]["qc_approved"]
                           /\ led'[k]["qc_rejected"] = led[k]["qc_rejected"]
                           /\ led'[k]["rework_created"] = led[k]["rework_created"]
                           /\ led'[k]["rework_completed"] >= led[k]["rework_completed"]
        BY <1>3, <1>4, <1>5, <2>1 DEF Operations
    <2>3. QED
        BY <1>1, <2>2, NothingDisposed
<1>6. CASE op \in {"qc_approved", "qc_rejected", "rework_created"} /\ q # led[l][op]
    <2>1. Disposed(l, op, q) <= QcPredecessor(l)
        BY <1>2, <1>3, <1>6 DEF Recordable
    <2>2. Dispositions(l)' = Disposed(l, op, q)
        BY <1>4, <1>6 DEF Dispositions, Disposed, Operations
    <2>3. \A k \in Lines \ {l} : Dispositions(k)' = Dispositions(k)
        BY <1>4, <1>6 DEF Dispositions, Operations
    <2>4. \A k \in Lines : Dispositions(k) \in Nat
        BY <1>1, DispositionNumbers
    <2>5. QED
        BY <1>2, <2>1, <2>2, <2>3, <2>4, PredecessorHanded DEF DispositionsChecked
<1>7. QED
    BY <1>5, <1>6

LEMMA LedgerAloneDisposes ==
    ASSUME NumbersOK, NumbersOK', UNCHANGED <<led, reworked>>
    PROVE  DispositionsChecked
<1>1. \A l \in Lines : led[l]["rework_completed"] \in Nat /\ reworked[l] \in Nat
    BY DispositionNumbers
<1>2. QED
    BY <1>1, NothingDisposed

\* A column and its sum.
LEMMA ColumnDisposes ==
    ASSUME IInv, NumbersOK', NEW l \in Lines, NEW column \in Columns, NEW op \in Operations, NEW q \in Nat,
           q # line[l][column] => Recordable(l, op, q),
           led' = IF q # line[l][column] THEN Recorded(l, op, q) ELSE led, reworked' = reworked
    PROVE  DispositionsChecked
<1>1. NumbersOK /\ \A k \in Lines : reworked'[k] >= reworked[k]
    BY DispositionNumbers DEF IInv
<1>2. CASE q = line[l][column]
    BY <1>1, <1>2, LedgerAloneDisposes
<1>3. CASE q # line[l][column]
    BY <1>1, <1>3, RecordDisposes
<1>4. QED
    BY <1>2, <1>3

LEMMA StationsDispose ==
    ASSUME IInv, NumbersOK', LazerTerminal \/ SvarkaTerminal \/ KraskaTerminal \/ YigishTerminal
    PROVE  DispositionsChecked
<1>0. NumbersOK /\ \A l \in Lines : reworked[l] \in Nat
    BY DispositionNumbers DEF IInv
<1>1. ASSUME NEW l \in Lines, NEW q \in 0 .. MaxCut, LazerQuantity(l, q) PROVE DispositionsChecked
    <2> DEFINE output == Least(q, Quantity - stock[l])
    <2>1. output \in Nat /\ "lazer_completed" \in Operations
        BY <1>0, ShopFloorAssumption, Numbers DEF Least, Operations
    <2>2. /\ q # line[l]["completed"] => Recordable(l, "lazer_completed", output)
          /\ led' = IF q # line[l]["completed"] THEN Recorded(l, "lazer_completed", output) ELSE led
          /\ reworked' = reworked
        BY <1>1 DEF LazerQuantity, repairs
    <2> HIDE DEF output
    <2>3. CASE q = line[l]["completed"]
        BY <1>0, <2>2, <2>3, LedgerAloneDisposes
    <2>4. CASE q # line[l]["completed"]
        BY <1>0, <2>1, <2>2, <2>4, RecordDisposes
    <2>5. QED
        BY <2>3, <2>4
<1>2. ASSUME NEW l \in Lines, NEW c \in {"completed", "accepted", "rejected"}, NEW q \in 0 .. Quantity,
             SvarkaQuantity(l, c, q)
      PROVE  DispositionsChecked
    <2>1. PICK op \in {"svarka_completed", "svarka_accepted", "svarka_rejected"} :
            EnterColumn("svarka", l, c, op, q, TRUE)
        BY <1>2 DEF SvarkaQuantity
    <2>2. op \in Operations /\ c \in Columns /\ q \in Nat /\ reworked' = reworked
        BY <1>2, ShopFloorAssumption DEF Operations, Columns, SvarkaQuantity, repairs
    <2>3. QED
        BY <2>1, <2>2, ColumnDisposes DEF EnterColumn
<1>3. ASSUME NEW l \in Lines, NEW entry \in [PaintOperations -> 0 .. Quantity], KraskaQuantities(l, entry)
      PROVE  DispositionsChecked
    <2> DEFINE changed == {op \in PaintOperations : entry[op] # line[l][PaintColumn(op)]}
               sums == [o \in Operations |-> IF o \in changed THEN entry[o] ELSE led[l][o]]
    <2>1. led' = (IF project THEN [led EXCEPT ![l] = sums] ELSE led) /\ reworked' = reworked
        BY <1>3 DEF KraskaQuantities, repairs
    <2>2. led \in [Lines -> [Operations -> Nat]] /\ changed \subseteq PaintOperations
        BY <1>0 DEF NumbersOK
    <2>3. \A k \in Lines : \A o \in Operations \ PaintOperations : led'[k][o] = led[k][o] /\ led[k][o] \in Nat
        <3>1. \A o \in Operations \ PaintOperations : sums[o] = led[l][o]
            BY <2>2
        <3> HIDE DEF sums
        <3>2. QED
            BY <2>1, <2>2, <3>1
    <2>4. \A k \in Lines : /\ led'[k]["qc_approved"] = led[k]["qc_approved"]
                           /\ led'[k]["qc_rejected"] = led[k]["qc_rejected"]
                           /\ led'[k]["rework_created"] = led[k]["rework_created"]
                           /\ led'[k]["rework_completed"] >= led[k]["rework_completed"]
        BY <2>3 DEF Operations, PaintOperations
    <2>5. \A k \in Lines : reworked'[k] >= reworked[k]
        BY <1>0, <2>1
    <2>6. QED
        BY <1>0, <2>4, <2>5, NothingDisposed
<1>4. CASE UNCHANGED <<led, reworked>>
    BY <1>0, <1>4, LedgerAloneDisposes
<1>5. QED
    BY <1>1, <1>2, <1>3, <1>4 DEF LazerTerminal, SvarkaTerminal, KraskaTerminal, YigishTerminal,
       LazerAccept, LazerStart, LazerComplete, SvarkaAccept, SvarkaStart, SvarkaComplete,
       KraskaAccept, KraskaStart, KraskaComplete, YigishAccept, YigishStart, YigishComplete,
       YigishQuantity, Accept, Start, quantities, repairs

LEMMA QcDisposes ==
    ASSUME IInv, NumbersOK', QcTerminal
    PROVE  DispositionsChecked
<1>0. NumbersOK /\ \A l \in Lines : reworked[l] \in Nat
    BY DispositionNumbers DEF IInv
<1>1. ASSUME NEW l \in Lines, NEW c \in {QcAccepted, QcRejected}, NEW q \in 0 .. Quantity, QcQuantity(l, c, q)
      PROVE  DispositionsChecked
    <2>1. PICK op \in {"qc_approved", "qc_rejected"}, closes \in BOOLEAN : EnterColumn("qc", l, c, op, q, closes)
        BY <1>1 DEF QcQuantity, EnterColumn, Enter
    <2>2. op \in Operations /\ c \in Columns /\ q \in Nat /\ reworked' = reworked
        BY <1>1, ShopFloorAssumption DEF Operations, Columns, QcAccepted, QcRejected, QcQuantity, repairs
    <2>3. QED
        BY <2>1, <2>2, ColumnDisposes DEF EnterColumn
<1>2. ASSUME NEW l \in Lines, NEW q \in 1 .. Quantity, CreateRework(l, q) PROVE DispositionsChecked
    <2> DEFINE n == line[l]["qc_rework"] + q
    <2>1. line[l]["qc_rework"] \in Nat /\ "rework_created" \in Operations /\ q \in Nat
        BY <1>0, Numbers, ShopFloorAssumption DEF Columns, Operations
    <2>2. Recordable(l, "rework_created", n) /\ led' = Recorded(l, "rework_created", n) /\ reworked' = reworked
        BY <1>2 DEF CreateRework
    <2>3. n \in Nat
        BY <2>1
    <2> HIDE DEF n
    <2>4. \A k \in Lines : reworked'[k] >= reworked[k]
        BY <1>0, <2>2
    <2>5. QED
        BY <2>1, <2>2, <2>3, <2>4, RecordDisposes
<1>3. ASSUME NEW i \in DOMAIN reworks, CompleteRework(i) PROVE DispositionsChecked
    <2> DEFINE l == reworks[i].line
               n == reworked[l]
    <2>1. l \in Lines /\ reworks[i].qty \in Nat /\ "rework_completed" \in Operations
        <3>1. reworks[i] \in Reworks
            BY <1>0 DEF NumbersOK
        <3>2. QED
            BY <3>1, ShopFloorAssumption DEF Reworks, Operations
    <2>2. /\ Recordable(l, "rework_completed", n) /\ led' = Recorded(l, "rework_completed", n)
          /\ reworked' = [reworked EXCEPT ![l] = @ + reworks[i].qty]
        BY <1>3 DEF CompleteRework
    <2>3. n \in Nat
        BY <1>0, <2>1
    <2>4. \A k \in Lines : reworked'[k] >= reworked[k]
        BY <1>0, <2>1, <2>2 DEF NumbersOK
    <2> HIDE DEF l, n
    <2>5. QED
        BY <2>1, <2>2, <2>3, <2>4, RecordDisposes
<1>4. CASE UNCHANGED <<led, reworked>>
    BY <1>0, <1>4, LedgerAloneDisposes
<1>5. QED
    BY <1>1, <1>2, <1>3, <1>4 DEF QcTerminal, QcAccept, QcStart, QcComplete, StartRework, Accept, Start,
       quantities, repairs

LEMMA RestDisposes ==
    ASSUME IInv, NumbersOK', PackagingTerminal \/ WarehouseTerminal \/ Corrections \/ Manager
    PROVE  DispositionsChecked
<1>0. NumbersOK
    BY DEF IInv
<1>1. ASSUME NEW kind \in ReturnKinds, NEW l \in Lines, NEW q \in 1 .. Quantity, Return(kind, l, q)
      PROVE  DispositionsChecked
    <2>1. PICK more : led' = [led EXCEPT ![l][kind] = @ + q, ![l]["qc_return_accepted"] = @ + more]
        BY <1>1 DEF Return
    <2>2. led \in [Lines -> [Operations -> Nat]]
        BY <1>0 DEF NumbersOK
    <2>3. \A k \in Lines : \A o \in Operations \ {kind, "qc_return_accepted"} : led'[k][o] = led[k][o] /\ led[k][o] \in Nat
        BY <2>1, <2>2
    <2>4. reworked' = reworked /\ \A k \in Lines : reworked[k] \in Nat
        BY <1>0, <1>1, DispositionNumbers DEF Return
    <2>5. QED
        BY <1>0, <2>3, <2>4, NothingDisposed DEF Operations, ReturnKinds
<1>2. CASE UNCHANGED <<led, reworked>>
    BY <1>0, <1>2, LedgerAloneDisposes
<1>3. QED
    BY <1>1, <1>2 DEF PackagingTerminal, PackagingAccept, PackagingStart, PackagingComplete, PackagingData,
       WarehouseTerminal, WarehouseAccept, WarehouseStart, WarehouseComplete, Place, Corrections, Reopen,
       Manager, Release, SetJobStatus, Accept, Start, quantities, repairs

\* What a station has handed over on record is never taken back.
LEMMA HandedGrows ==
    ASSUME NumbersOK, NumbersOK', EvidenceStep, NEW l \in Lines
    PROVE  Handed(l) <= Handed(l)'
<1>1. led[l]["painting_accepted"] <= led'[l]["painting_accepted"] /\ led[l]["svarka_accepted"] <= led'[l]["svarka_accepted"]
    <2>1. led[l]["painting_accepted"] \in Nat /\ led[l]["svarka_accepted"] \in Nat
        BY Numbers
    <2>2. CASE SameEvidence
        BY <2>1, <2>2 DEF SameEvidence
    <2>3. ASSUME NEW k \in Lines, NEW op \in EvidenceOps, NEW q \in Nat, GrowsBacked(k, op, q)
          PROVE  /\ led[l]["painting_accepted"] <= led'[l]["painting_accepted"]
                 /\ led[l]["svarka_accepted"] <= led'[l]["svarka_accepted"]
        BY <2>1, <2>3 DEF GrowsBacked, EvidenceOps
    <2>4. QED
        BY <2>2, <2>3 DEF EvidenceStep
<1>2. led'[l]["painting_accepted"] \in Nat /\ led'[l]["svarka_accepted"] \in Nat /\ Quantity \in Nat
    <2>1. led'[l] \in [Operations -> Nat]
        BY DEF NumbersOK
    <2>2. QED
        BY <2>1, ShopFloorAssumption DEF Operations
<1>3. QED
    BY <1>1, <1>2, Numbers DEF Handed, Least

\* Quality control never approves, rejects and keeps in rework more of a detail than the
\* station before it has on record, whatever corrections take out of the columns.
THEOREM DispositionsBounded == Spec => []DispositionsWithinPredecessor
<1>1. Init => DispositionsHanded
    <2> SUFFICES ASSUME Init, NEW l \in Lines PROVE Dispositions(l) <= Handed(l)
        BY DEF DispositionsHanded
    <2>1. \A o \in Operations : led[l][o] = 0
        BY DEF Init
    <2>2. reworked[l] = 0 /\ Quantity \in Nat
        BY ShopFloorAssumption DEF Init
    <2>3. /\ led[l]["qc_approved"] = 0 /\ led[l]["qc_rejected"] = 0 /\ led[l]["rework_created"] = 0
          /\ led[l]["rework_completed"] = 0 /\ led[l]["painting_accepted"] = 0 /\ led[l]["svarka_accepted"] = 0
        BY <2>1 DEF Operations
    <2>4. QED
        BY <2>2, <2>3 DEF Dispositions, Handed, Least, Most
<1>2. ASSUME IInv, DispositionsHanded, [Next]_floor PROVE DispositionsHanded'
    <2>1. Kept /\ NumbersOK /\ NumbersOK' /\ project' = project
        BY <1>2, NextKept DEF Kept, IInv
    <2>2. DispositionsChecked
        <3>1. CASE UNCHANGED floor
            BY <2>1, <3>1, LedgerAloneDisposes DEF floor, quantities, repairs
        <3>2. QED
            BY <1>2, <2>1, <3>1, StationsDispose, QcDisposes, RestDisposes DEF Next
    <2>3. SUFFICES ASSUME project, NEW l \in Lines PROVE Dispositions(l)' <= Handed(l)'
        BY <2>1 DEF DispositionsHanded
    <2>4. Dispositions(l) \in Nat /\ Dispositions(l)' \in Nat
        <3>1. Dispositions(l) \in Nat
            BY <2>1, DispositionNumbers
        <3>2. /\ led'[l]["qc_approved"] \in Nat /\ led'[l]["qc_rejected"] \in Nat
              /\ led'[l]["rework_created"] \in Nat /\ led'[l]["rework_completed"] \in Nat /\ reworked'[l] \in Nat
            BY <2>1 DEF NumbersOK, Operations
        <3>3. QED
            BY <3>1, <3>2 DEF Dispositions, Most
    <2>5. Dispositions(l) <= Handed(l) /\ Handed(l) <= Handed(l)' /\ Handed(l) \in Nat
        BY <1>2, <2>1, <2>3, HandedGrows, PredecessorHanded DEF DispositionsHanded, Kept
    <2>6. Handed(l)' \in Nat
        <3>1. led'[l]["painting_accepted"] \in Nat /\ led'[l]["svarka_accepted"] \in Nat /\ Quantity \in Nat
            BY <2>1, ShopFloorAssumption DEF NumbersOK, Operations
        <3>2. QED
            BY <3>1 DEF Handed, Least
    <2>7. QED
        BY <2>2, <2>3, <2>4, <2>5, <2>6 DEF DispositionsChecked
<1>3. IInv /\ DispositionsHanded => DispositionsWithinPredecessor
    BY PredecessorHanded, DispositionNumbers DEF DispositionsWithinPredecessor, DispositionsHanded, IInv
<1>4. QED
    BY <1>1, <1>2, <1>3, EvidenceBacked, PTL DEF Spec

-----------------------------------------------------------------------------
\* The smallest of some numbers.
LEMMA MinOfNaturals ==
    ASSUME NEW S, S \subseteq Nat, S # {}
    PROVE  Min(S) \in S /\ \A y \in S : Min(S) <= y
<1>1. PICK x \in S : \A y \in S : ~(<<y, x>> \in OpToRel(<, Nat))
    BY NatLessThanWellFounded, WFMin
<1>2. \A y \in S : x <= y
    <2>1. ASSUME NEW y \in S, y < x PROVE FALSE
        <3>1. <<y, x>> \in OpToRel(<, Nat)
            BY <2>1 DEF OpToRel
        <3>2. QED
            BY <1>1, <3>1
    <2>2. QED
        BY <2>1
<1>3. QED
    BY <1>2 DEF Min

-----------------------------------------------------------------------------
(* Rework records.                                                         *)

\* The open records of a detail, and the pieces of every record.
OpenOf(l) == {i \in OpenReworks : reworks[i].line = l}
PiecesOf == [i \in DOMAIN reworks |-> reworks[i].qty]

LEMMA OpenRecords ==
    ASSUME NumbersOK, NEW l
    PROVE  /\ IsFiniteSet(OpenOf(l)) /\ InRework(l) = Amount(PiecesOf, OpenOf(l)) /\ InRework(l) \in Nat
           /\ \A i \in DOMAIN reworks : PiecesOf[i] \in Nat
<1>1. reworks \in Seq(Reworks) /\ Len(reworks) \in Nat /\ DOMAIN reworks = 1 .. Len(reworks)
    BY DEF NumbersOK
<1>2. \A i \in DOMAIN reworks : reworks[i] \in Reworks
    BY <1>1
<1>3. \A i \in DOMAIN reworks : PiecesOf[i] \in Nat
    BY <1>2, ShopFloorAssumption DEF PiecesOf, Reworks
<1>4. IsFiniteSet(OpenOf(l))
    <2>1. IsFiniteSet(1 .. Len(reworks))
        BY <1>1, FS_Interval
    <2>2. OpenOf(l) \in SUBSET (1 .. Len(reworks))
        BY <1>1 DEF OpenOf, OpenReworks
    <2>3. QED
        BY <2>1, <2>2, FS_Subset
<1>5. InRework(l) = Amount(PiecesOf, OpenOf(l))
    BY DEF InRework, PiecesOf, OpenOf
<1>6. \A i \in OpenOf(l) : PiecesOf[i] \in Nat
    BY <1>3 DEF OpenOf, OpenReworks
<1>7. QED
    BY <1>3, <1>4, <1>5, <1>6, PiecesFinite

LEMMA RecordCreated ==
    ASSUME NumbersOK, NEW l \in Lines, NEW q \in 1 .. Quantity,
           reworks' = Append(reworks, [line |-> l, qty |-> q, status |-> "pending"])
    PROVE  \A k \in Lines : InRework(k)' = InRework(k) + (IF k = l THEN q ELSE 0)
<1> DEFINE n == Len(reworks) + 1
<1>1. /\ reworks \in Seq(Reworks) /\ Len(reworks) \in Nat /\ DOMAIN reworks = 1 .. Len(reworks) /\ q \in Nat
      /\ DOMAIN reworks' = 1 .. n /\ reworks'[n] = [line |-> l, qty |-> q, status |-> "pending"]
      /\ \A i \in DOMAIN reworks : reworks'[i] = reworks[i]
    BY ShopFloorAssumption DEF NumbersOK
<1>2. DOMAIN reworks' = DOMAIN reworks \cup {n} /\ n \notin DOMAIN reworks
    BY <1>1
<1> HIDE DEF n
<1>3. \A i \in DOMAIN reworks : PiecesOf'[i] = PiecesOf[i] /\ PiecesOf'[i] \in Nat
    BY <1>1, <1>2, OpenRecords DEF PiecesOf
<1>4. PiecesOf'[n] = q
    BY <1>1, <1>2 DEF PiecesOf
<1>5. SUFFICES ASSUME NEW k \in Lines PROVE InRework(k)' = InRework(k) + (IF k = l THEN q ELSE 0)
    OBVIOUS
<1>6. /\ InRework(k)' = Amount(PiecesOf', OpenOf(k)') /\ InRework(k) = Amount(PiecesOf, OpenOf(k))
      /\ OpenOf(k) \subseteq DOMAIN reworks /\ IsFiniteSet(OpenOf(k)) /\ InRework(k) \in Nat
    BY OpenRecords DEF InRework, PiecesOf, OpenOf, OpenReworks
<1>7. Amount(PiecesOf', OpenOf(k)) = Amount(PiecesOf, OpenOf(k))
    BY <1>3, <1>6, AmountSame
<1>8. CASE k # l
    <2>1. OpenOf(k)' = OpenOf(k)
        BY <1>1, <1>2, <1>8 DEF OpenOf, OpenReworks
    <2>2. QED
        BY <1>6, <1>7, <1>8, <2>1
<1>9. CASE k = l
    <2>1. OpenOf(k)' = OpenOf(k) \cup {n} /\ n \notin OpenOf(k)
        BY <1>1, <1>2, <1>9 DEF OpenOf, OpenReworks, Open
    <2>2. \A i \in OpenOf(k) \cup {n} : PiecesOf'[i] \in Nat
        BY <1>1, <1>3, <1>4, <1>6
    <2>3. Amount(PiecesOf', OpenOf(k) \cup {n}) = Amount(PiecesOf', OpenOf(k)) + PiecesOf'[n]
        BY <1>6, <2>1, <2>2, AmountAdds
    <2>4. QED
        BY <1>4, <1>6, <1>7, <1>9, <2>1, <2>3
<1>10. QED
    BY <1>8, <1>9

\* A record that changes its status to s.
LEMMA RecordSet ==
    ASSUME NumbersOK, NEW i \in DOMAIN reworks, NEW s, reworks' = [reworks EXCEPT ![i].status = s]
    PROVE  /\ DOMAIN reworks' = DOMAIN reworks /\ PiecesOf' = PiecesOf
           /\ \A k : OpenOf(k)' = {j \in DOMAIN reworks : /\ reworks[j].line = k
                                                          /\ (IF j = i THEN s ELSE reworks[j].status) \in Open}
<1>1. reworks \in Seq(Reworks) /\ \A j \in DOMAIN reworks : reworks[j] \in Reworks
    BY DEF NumbersOK
<1>2. DOMAIN reworks' = DOMAIN reworks
    BY <1>1
<1>3. \A j \in DOMAIN reworks : /\ reworks'[j].line = reworks[j].line /\ reworks'[j].qty = reworks[j].qty
                                /\ reworks'[j].status = IF j = i THEN s ELSE reworks[j].status
    BY <1>1 DEF Reworks
<1>4. PiecesOf' = PiecesOf
    BY <1>2, <1>3 DEF PiecesOf
<1>5. QED
    BY <1>2, <1>3, <1>4 DEF OpenOf, OpenReworks

LEMMA RecordStarted ==
    ASSUME NumbersOK, NEW i \in DOMAIN reworks, StartRework(i)
    PROVE  \A k \in Lines : InRework(k)' = InRework(k)
<1>1. reworks' = [reworks EXCEPT ![i].status = "in_progress"] /\ reworks[i].status = "pending"
    BY DEF StartRework
<1>2. PiecesOf' = PiecesOf
    BY <1>1, RecordSet
<1>3. ASSUME NEW k \in Lines PROVE OpenOf(k)' = OpenOf(k)
    <2>1. OpenOf(k)' = {j \in DOMAIN reworks : /\ reworks[j].line = k
                                               /\ (IF j = i THEN "in_progress" ELSE reworks[j].status) \in Open}
        BY <1>1, RecordSet, ZenonT(40)
    <2>2. QED
        BY <1>1, <2>1 DEF OpenOf, OpenReworks, Open
<1>4. QED
    BY <1>2, <1>3 DEF InRework, PiecesOf, OpenOf

LEMMA RecordCompleted ==
    ASSUME NumbersOK, NEW i \in DOMAIN reworks, CompleteRework(i)
    PROVE  /\ \A k \in Lines : InRework(k) = InRework(k)' + (IF k = reworks[i].line THEN reworks[i].qty ELSE 0)
           /\ \A k \in Lines : InRework(k)' \in Nat
<1>1. reworks' = [reworks EXCEPT ![i].status = "completed"] /\ reworks[i].status \in Open
    BY DEF CompleteRework
<1>2. PiecesOf' = PiecesOf /\ PiecesOf[i] = reworks[i].qty
    BY <1>1, RecordSet DEF PiecesOf
<1>3. ASSUME NEW k PROVE OpenOf(k)' = OpenOf(k) \ {i}
    <2>1. OpenOf(k)' = {j \in DOMAIN reworks : /\ reworks[j].line = k
                                               /\ (IF j = i THEN "completed" ELSE reworks[j].status) \in Open}
        BY <1>1, RecordSet, ZenonT(40)
    <2>2. QED
        BY <2>1 DEF OpenOf, OpenReworks, Open
<1>4. SUFFICES ASSUME NEW k \in Lines
               PROVE  /\ InRework(k) = InRework(k)' + (IF k = reworks[i].line THEN reworks[i].qty ELSE 0)
                      /\ InRework(k)' \in Nat
    OBVIOUS
<1>5. /\ InRework(k)' = Amount(PiecesOf, OpenOf(k) \ {i}) /\ InRework(k) = Amount(PiecesOf, OpenOf(k))
      /\ IsFiniteSet(OpenOf(k)) /\ \A j \in DOMAIN reworks : PiecesOf[j] \in Nat
    BY <1>2, <1>3, OpenRecords DEF InRework, PiecesOf, OpenOf
<1>6. IsFiniteSet(OpenOf(k) \ {i}) /\ \A j \in OpenOf(k) : PiecesOf[j] \in Nat
    BY <1>5, FS_RemoveElement DEF OpenOf, OpenReworks
<1>7. InRework(k)' \in Nat
    BY <1>5, <1>6, PiecesFinite
<1>8. CASE k # reworks[i].line
    <2>1. OpenOf(k) \ {i} = OpenOf(k)
        BY <1>8 DEF OpenOf
    <2>2. InRework(k) = InRework(k)'
        BY <1>5, <2>1
    <2>3. QED
        BY <1>7, <1>8, <2>2
<1>9. CASE k = reworks[i].line
    <2>1. i \in OpenOf(k) /\ (OpenOf(k) \ {i}) \cup {i} = OpenOf(k)
        BY <1>1, <1>9 DEF OpenOf, OpenReworks
    <2>2. Amount(PiecesOf, (OpenOf(k) \ {i}) \cup {i}) = Amount(PiecesOf, OpenOf(k) \ {i}) + PiecesOf[i]
        BY <1>6, <2>1, AmountAdds
    <2>3. QED
        BY <1>2, <1>5, <1>7, <1>9, <2>1, <2>2
<1>10. QED
    BY <1>8, <1>9

-----------------------------------------------------------------------------
(* What a step does to the columns and the record of quality control, to   *)
(* its rework and to the packages.                                         *)

PackingOK == step \in [Stages -> StepStates] /\ pkgs \in Seq(Packages)

\* What has been accepted and rejected is left alone, and the step stays completed or open.
QcAlone ==
    /\ project' = project /\ step' \in [Stages -> StepStates]
    /\ step'["qc"] = "completed" <=> step["qc"] = "completed"
    /\ \A l \in Lines : /\ line'[l]["qc_accepted"] = line[l]["qc_accepted"]
                        /\ line'[l]["qc_rejected"] = line[l]["qc_rejected"]
                        /\ led'[l]["qc_approved"] = led[l]["qc_approved"]
                        /\ led'[l]["qc_return_accepted"] = led[l]["qc_return_accepted"]

ReworkAlone ==
    /\ \A l \in Lines : line'[l]["qc_rework"] = line[l]["qc_rework"]
    /\ UNCHANGED repairs

\* Packages only change a status that is not "cancelled".
PackagesAlone ==
    /\ pkgs' \in Seq(Packages) /\ DOMAIN pkgs' = DOMAIN pkgs
    /\ \A i \in DOMAIN pkgs : /\ pkgs'[i].qty = pkgs[i].qty
                              /\ pkgs'[i].status = "cancelled" <=> pkgs[i].status = "cancelled"

AllAlone == QcAlone /\ ReworkAlone /\ PackagesAlone

LEMMA PackagesSame == ASSUME PackingOK, UNCHANGED pkgs PROVE PackagesAlone
BY DEF PackingOK, PackagesAlone

\* A station's step is accepted, started or finished.
LEMMA StepSet ==
    ASSUME PackingOK, NEW g \in Stages, step' = step \/ Accept(g) \/ Start(g) \/ Finish(g)
    PROVE  /\ step' \in [Stages -> StepStates]
           /\ g # "qc" \/ ~Finish(g) => (step'["qc"] = "completed" <=> step["qc"] = "completed")
<1>1. "qc" \in Stages /\ step \in [Stages -> StepStates]
    BY DEF Stages, PackingOK
<1>2. CASE step' = step
    BY <1>1, <1>2
<1>3. CASE Accept(g)
    BY <1>1, <1>3 DEF Accept, StepStates
<1>4. CASE Start(g)
    BY <1>1, <1>4 DEF Start, StepStates
<1>5. CASE Finish(g)
    BY <1>1, <1>5 DEF Finish, StepStates
<1>6. QED
    BY <1>2, <1>3, <1>4, <1>5

\* One column, one sum.
LEMMA ColumnSet ==
    ASSUME NumbersOK, NEW l \in Lines, NEW c \in Columns, NEW q, line' = [line EXCEPT ![l][c] = q]
    PROVE  \A k \in Lines, d \in Columns : line'[k][d] = IF k = l /\ d = c THEN q ELSE line[k][d]
<1>1. line \in [Lines -> [Columns -> Nat]]
    BY DEF NumbersOK
<1>2. QED
    BY <1>1

LEMMA SumRecorded ==
    ASSUME NumbersOK, NEW l \in Lines, NEW op \in Operations, NEW q, led' = led \/ led' = Recorded(l, op, q)
    PROVE  \A k \in Lines : \A o \in Operations : o # op => led'[k][o] = led[k][o]
<1>1. led \in [Lines -> [Operations -> Nat]]
    BY DEF NumbersOK
<1>2. CASE led' = led
    BY <1>2
<1>3. CASE led' = [led EXCEPT ![l][op] = q]
    BY <1>1, <1>3
<1>4. QED
    BY <1>2, <1>3 DEF Recorded

LEMMA LedgerQuiet ==
    ASSUME NumbersOK, PackingOK, NEW g \in Stages, UNCHANGED <<project, line, led, repairs>>,
           step' = step \/ Accept(g) \/ Start(g) \/ (Finish(g) /\ g # "qc"),
           pkgs' = pkgs \/ PackagesAlone
    PROVE  AllAlone
<1>1. PackagesAlone
    BY PackagesSame
<1>2. step' \in [Stages -> StepStates] /\ (step'["qc"] = "completed" <=> step["qc"] = "completed")
    <2>1. CASE Finish(g) /\ g # "qc"
        BY <2>1, StepSet
    <2>2. CASE step' = step \/ Accept(g) \/ Start(g)
        <3>1. step' \in [Stages -> StepStates] /\ "qc" \in Stages
            BY <2>2, StepSet DEF Stages
        <3>2. QED
            BY <2>2, <3>1 DEF Accept, Start, PackingOK, StepStates
    <2>3. QED
        BY <2>1, <2>2
<1>3. QED
    BY <1>1, <1>2 DEF AllAlone, QcAlone, ReworkAlone

\* A station before or after quality control enters a quantity of its own.
LEMMA ColumnAlone ==
    ASSUME NumbersOK, PackingOK, NEW g \in Stages \ {"qc"}, NEW l \in Lines,
           NEW c \in Columns \ {"qc_accepted", "qc_rejected", "qc_rework"},
           NEW op \in Operations \ {"qc_approved", "qc_return_accepted"}, NEW q, NEW r,
           line' = [line EXCEPT ![l][c] = q], led' = led \/ led' = Recorded(l, op, r),
           step' = step \/ Finish(g), UNCHANGED <<project, repairs, pkgs>>
    PROVE  AllAlone
<1>1. \A k \in Lines : \A d \in {"qc_accepted", "qc_rejected", "qc_rework"} : line'[k][d] = line[k][d]
    BY ColumnSet DEF Columns
<1>2. \A k \in Lines : \A o \in {"qc_approved", "qc_return_accepted"} : led'[k][o] = led[k][o]
    <2>1. op \in Operations /\ op # "qc_approved" /\ op # "qc_return_accepted"
        OBVIOUS
    <2>2. \A k \in Lines : \A o \in Operations : o # op => led'[k][o] = led[k][o]
        BY <2>1, SumRecorded
    <2>3. "qc_approved" \in Operations /\ "qc_return_accepted" \in Operations
        BY DEF Operations
    <2>4. QED
        BY <2>1, <2>2, <2>3
<1>3. step' \in [Stages -> StepStates] /\ (step'["qc"] = "completed" <=> step["qc"] = "completed")
    BY StepSet
<1>4. QED
    BY <1>1, <1>2, <1>3, PackagesSame DEF AllAlone, QcAlone, ReworkAlone

LEMMA StationsAlone ==
    ASSUME NumbersOK, PackingOK, LazerTerminal \/ SvarkaTerminal \/ KraskaTerminal \/ YigishTerminal
    PROVE  AllAlone
<1>0. {"lazer", "svarka", "kraska", "yigish"} \subseteq Stages \ {"qc"}
    BY DEF Stages
<1>1. ASSUME NEW l \in Lines, NEW q \in 0 .. MaxCut, LazerQuantity(l, q) PROVE AllAlone
    <2>1. /\ line' = [line EXCEPT ![l]["completed"] = q]
          /\ led' = led \/ led' = Recorded(l, "lazer_completed", Least(q, Quantity - stock[l]))
          /\ step' = step \/ Finish("lazer")
          /\ UNCHANGED <<project, repairs, pkgs>>
        BY <1>1 DEF LazerQuantity, Enter, packing
    <2>2. /\ "completed" \in Columns \ {"qc_accepted", "qc_rejected", "qc_rework"}
          /\ "lazer_completed" \in Operations \ {"qc_approved", "qc_return_accepted"}
        BY DEF Columns, Operations
    <2>3. QED
        BY <1>0, <2>1, <2>2, ColumnAlone
<1>2. ASSUME NEW l \in Lines, NEW c \in {"completed", "accepted", "rejected"}, NEW q \in 0 .. Quantity,
             SvarkaQuantity(l, c, q)
      PROVE  AllAlone
    <2>1. PICK op \in {"svarka_completed", "svarka_accepted", "svarka_rejected"} :
            EnterColumn("svarka", l, c, op, q, TRUE)
        BY <1>2 DEF SvarkaQuantity
    <2>2. /\ line' = [line EXCEPT ![l][c] = q]
          /\ led' = led \/ led' = Recorded(l, op, q)
          /\ step' = step \/ Finish("svarka")
          /\ UNCHANGED <<project, repairs, pkgs>>
        BY <1>2, <2>1 DEF SvarkaQuantity, EnterColumn, Enter, packing
    <2>3. /\ c \in Columns \ {"qc_accepted", "qc_rejected", "qc_rework"}
          /\ op \in Operations \ {"qc_approved", "qc_return_accepted"}
        BY DEF Columns, Operations
    <2>4. QED
        BY <1>0, <2>2, <2>3, ColumnAlone
<1>3. ASSUME NEW l \in Lines, NEW entry \in [PaintOperations -> 0 .. Quantity], KraskaQuantities(l, entry)
      PROVE  AllAlone
    <2> DEFINE changed == {op \in PaintOperations : entry[op] # line[l][PaintColumn(op)]}
               sums == [o \in Operations |-> IF o \in changed THEN entry[o] ELSE led[l][o]]
    <2>1. /\ led' = (IF project THEN [led EXCEPT ![l] = sums] ELSE led)
          /\ line' = [line EXCEPT ![l]["painted"] = entry["painting_completed"],
                                  ![l][PaintAccepted] = entry["painting_accepted"],
                                  ![l][PaintRejected] = entry["painting_rejected"]]
          /\ step' = step \/ Finish("kraska")
          /\ UNCHANGED <<project, repairs, pkgs>>
        BY <1>3 DEF KraskaQuantities, Enter, packing
    <2>2. led \in [Lines -> [Operations -> Nat]] /\ line \in [Lines -> [Columns -> Nat]]
        BY DEF NumbersOK
    <2>3. \A k \in Lines : \A o \in {"qc_approved", "qc_return_accepted"} : led'[k][o] = led[k][o]
        <3>1. \A o \in {"qc_approved", "qc_return_accepted"} : o \in Operations /\ o \notin PaintOperations
            BY DEF Operations, PaintOperations
        <3>2. \A o \in {"qc_approved", "qc_return_accepted"} : sums[o] = led[l][o]
            BY <3>1
        <3> HIDE DEF sums
        <3>3. QED
            BY <2>1, <2>2, <3>2
    <2>4. \A k \in Lines : \A d \in {"qc_accepted", "qc_rejected", "qc_rework"} : line'[k][d] = line[k][d]
        BY <2>1, <2>2 DEF Columns, PaintAccepted, PaintRejected
    <2>5. step' \in [Stages -> StepStates] /\ (step'["qc"] = "completed" <=> step["qc"] = "completed")
        BY <1>0, <2>1, StepSet
    <2>6. QED
        BY <2>1, <2>3, <2>4, <2>5, PackagesSame DEF AllAlone, QcAlone, ReworkAlone
<1>4. ASSUME NEW q \in 0 .. Quantity, YigishQuantity(q) PROVE AllAlone
    BY <1>0, <1>4, LedgerQuiet DEF YigishQuantity, packing
<1>5. CASE LazerAccept \/ LazerStart \/ LazerComplete
    BY <1>0, <1>5, LedgerQuiet DEF LazerAccept, LazerStart, LazerComplete, Accept, Start, quantities, packing
<1>6. CASE SvarkaAccept \/ SvarkaStart \/ SvarkaComplete
    BY <1>0, <1>6, LedgerQuiet DEF SvarkaAccept, SvarkaStart, SvarkaComplete, Accept, Start, quantities, packing
<1>7. CASE KraskaAccept \/ KraskaStart \/ KraskaComplete
    BY <1>0, <1>7, LedgerQuiet DEF KraskaAccept, KraskaStart, KraskaComplete, Accept, Start, quantities, packing
<1>8. CASE YigishAccept \/ YigishStart \/ YigishComplete
    BY <1>0, <1>8, LedgerQuiet DEF YigishAccept, YigishStart, YigishComplete, Accept, Start, quantities, packing
<1>9. QED
    BY <1>1, <1>2, <1>3, <1>4, <1>5, <1>6, <1>7, <1>8
       DEF LazerTerminal, SvarkaTerminal, KraskaTerminal, YigishTerminal

\* Packages that are not cancelled take another such status.
LEMMA PackagesMarked ==
    ASSUME PackingOK, NEW S \in SUBSET Active, NEW s \in {"packed", "received", "placed"},
           \/ pkgs' = [i \in DOMAIN pkgs |-> IF i \in S THEN [pkgs[i] EXCEPT !.status = s] ELSE pkgs[i]]
           \/ \E i \in S : pkgs' = [pkgs EXCEPT ![i].status = s]
    PROVE  PackagesAlone
<1>1. /\ pkgs \in Seq(Packages) /\ Len(pkgs) \in Nat /\ DOMAIN pkgs = 1 .. Len(pkgs)
      /\ \A i \in DOMAIN pkgs : pkgs[i] \in Packages
    BY DEF PackingOK
<1>2. PICK T : /\ T \subseteq S
               /\ pkgs' = [i \in DOMAIN pkgs |-> IF i \in T THEN [pkgs[i] EXCEPT !.status = s] ELSE pkgs[i]]
    <2>1. ASSUME NEW i \in S, pkgs' = [pkgs EXCEPT ![i].status = s]
          PROVE  pkgs' = [j \in DOMAIN pkgs |-> IF j \in {i} THEN [pkgs[j] EXCEPT !.status = s] ELSE pkgs[j]]
        BY <1>1, <2>1 DEF Active
    <2>2. ASSUME NEW i \in S, pkgs' = [pkgs EXCEPT ![i].status = s]
          PROVE  \E T : /\ T \subseteq S
                        /\ pkgs' = [j \in DOMAIN pkgs |-> IF j \in T THEN [pkgs[j] EXCEPT !.status = s] ELSE pkgs[j]]
        <3>1. {i} \subseteq S
            OBVIOUS
        <3>2. QED
            BY <2>1, <2>2, <3>1
    <2>3. QED
        BY <2>2
<1>3. \A i \in DOMAIN pkgs : IF i \in T THEN [pkgs[i] EXCEPT !.status = s] \in Packages ELSE pkgs[i] \in Packages
    BY <1>1 DEF Packages
<1>4. pkgs' \in Seq(Packages) /\ DOMAIN pkgs' = DOMAIN pkgs
    BY <1>1, <1>2, <1>3
<1>5. ASSUME NEW i \in DOMAIN pkgs
      PROVE  pkgs'[i].qty = pkgs[i].qty /\ (pkgs'[i].status = "cancelled" <=> pkgs[i].status = "cancelled")
    <2>1. pkgs[i] \in Packages /\ pkgs'[i] = IF i \in T THEN [pkgs[i] EXCEPT !.status = s] ELSE pkgs[i]
        BY <1>1, <1>2
    <2>2. i \in T => pkgs[i].status # "cancelled"
        BY <1>2 DEF Active
    <2>3. QED
        BY <2>1, <2>2 DEF Packages
<1>6. QED
    BY <1>4, <1>5 DEF PackagesAlone

LEMMA RestAlone ==
    ASSUME NumbersOK, PackingOK,
           \/ QcAccept \/ QcStart \/ PackagingAccept \/ PackagingStart \/ PackagingComplete
           \/ WarehouseTerminal \/ Manager \/ UNCHANGED floor
    PROVE  AllAlone
<1>0. {"qc", "packaging", "warehouse"} \subseteq Stages
    BY DEF Stages
<1>1. CASE QcAccept \/ QcStart
    BY <1>0, <1>1, LedgerQuiet DEF QcAccept, QcStart, Accept, Start, quantities, packing
<1>2. CASE PackagingAccept \/ PackagingStart
    BY <1>0, <1>2, LedgerQuiet DEF PackagingAccept, PackagingStart, Accept, Start, quantities, packing
<1>3. CASE PackagingComplete
    <2>1. PackagesAlone
        <3>1. Active \in SUBSET Active
            OBVIOUS
        <3>2. QED
            BY <1>3, <3>1, PackagesMarked DEF PackagingComplete
    <2>2. QED
        BY <1>0, <1>3, <2>1, LedgerQuiet DEF PackagingComplete, quantities
<1>4. CASE WarehouseAccept
    <2>1. PackagesAlone
        <3>1. Receivable \in SUBSET Active
            BY DEF Receivable, Active
        <3>2. QED
            BY <1>4, <3>1, PackagesMarked DEF WarehouseAccept
    <2>2. QED
        BY <1>0, <1>4, <2>1, LedgerQuiet DEF WarehouseAccept, Accept, quantities
<1>5. CASE WarehouseStart \/ WarehouseComplete
    BY <1>0, <1>5, LedgerQuiet DEF WarehouseStart, WarehouseComplete, Start, quantities, packing
<1>6. ASSUME NEW i \in DOMAIN pkgs, Place(i) PROVE AllAlone
    <2>1. PackagesAlone
        <3>1. i \in Active /\ pkgs' = [pkgs EXCEPT ![i].status = "placed"]
            BY <1>6 DEF Place, Active
        <3>2. \E j \in Active : pkgs' = [pkgs EXCEPT ![j].status = "placed"]
            BY <3>1
        <3>3. Active \in SUBSET Active
            OBVIOUS
        <3>4. QED
            BY <3>2, <3>3, PackagesMarked
    <2>2. QED
        BY <1>0, <1>6, <2>1, LedgerQuiet DEF Place, quantities
<1>7. CASE Manager \/ UNCHANGED floor
    BY <1>0, <1>7, LedgerQuiet DEF Manager, Release, SetJobStatus, floor, quantities, packing
<1>8. QED
    BY <1>1, <1>2, <1>3, <1>4, <1>5, <1>6, <1>7 DEF WarehouseTerminal

-----------------------------------------------------------------------------
(* ReworkOnRecord: what every step does to the column of rework and to the *)
(* records.                                                                *)

LEMMA ReworkStays ==
    ASSUME ReworkOnRecord, ReworkAlone, project' = project
    PROVE  ReworkOnRecord'
<1>1. reworks' = reworks /\ reworked' = reworked /\ \A l \in Lines : line'[l]["qc_rework"] = line[l]["qc_rework"]
    BY DEF ReworkAlone, repairs
<1>2. \A l \in Lines : InRework(l)' = InRework(l)
    BY <1>1 DEF InRework, OpenReworks
<1>3. QED
    BY <1>1, <1>2 DEF ReworkOnRecord

\* An entry of quality control leaves rework alone.
LEMMA QcEntry ==
    ASSUME NumbersOK, NEW l \in Lines, NEW c \in {QcAccepted, QcRejected}, NEW q, QcQuantity(l, c, q)
    PROVE  ReworkAlone /\ project' = project /\ c \in Columns
<1>1. c \in Columns /\ c # "qc_rework" /\ "qc_rework" \in Columns
    BY DEF QcAccepted, QcRejected, Columns
<1>2. line' = [line EXCEPT ![l][c] = q] /\ UNCHANGED <<project, repairs>>
    BY DEF QcQuantity, EnterColumn, Enter
<1>3. \A k \in Lines, d \in Columns : line'[k][d] = IF k = l /\ d = c THEN q ELSE line[k][d]
    <2>1. line \in [Lines -> [Columns -> Nat]]
        BY DEF NumbersOK
    <2>2. QED
        BY <1>1, <1>2, <2>1
<1>4. QED
    BY <1>1, <1>2, <1>3 DEF ReworkAlone

\* Creating a rework, by hand or by a return, puts as much on record.
LEMMA ReworkCreated ==
    ASSUME NumbersOK, NEW l \in Lines, NEW q \in 1 .. Quantity, CreateRework(l, q)
    PROVE  /\ \A k \in Lines : line'[k]["qc_rework"] = line[k]["qc_rework"] + (IF k = l THEN q ELSE 0)
           /\ \A k \in Lines : InRework(k)' = InRework(k) + (IF k = l THEN q ELSE 0)
           /\ \A k \in Lines : /\ line'[k]["qc_accepted"] = line[k]["qc_accepted"]
                               /\ line'[k]["qc_rejected"] = line[k]["qc_rejected"]
<1>1. line' = [line EXCEPT ![l]["qc_rework"] = line[l]["qc_rework"] + q]
    BY DEF CreateRework
<1>2. "qc_rework" \in Columns /\ "qc_accepted" \in Columns /\ "qc_rejected" \in Columns
    BY DEF Columns
<1>3. \A k \in Lines, d \in Columns :
        line'[k][d] = IF k = l /\ d = "qc_rework" THEN line[l]["qc_rework"] + q ELSE line[k][d]
    <2>1. line \in [Lines -> [Columns -> Nat]]
        BY DEF NumbersOK
    <2>2. QED
        BY <1>1, <1>2, <2>1
<1>4. reworks' = Append(reworks, [line |-> l, qty |-> q, status |-> "pending"])
    BY DEF CreateRework
<1>5. \A k \in Lines : line[k]["qc_rework"] \in Nat /\ q \in Nat
    BY <1>2, Numbers
<1>6. QED
    BY <1>2, <1>3, <1>4, <1>5, RecordCreated

\* A rework that is started or completed takes nothing to rework, and leaves what was accepted.
ReworkEased ==
    \A l \in Lines : /\ line'[l]["qc_rework"] <= line[l]["qc_rework"]
                     /\ InRework(l)' \in Nat /\ InRework(l)' <= InRework(l)

LEMMA EasedWhenAlone == ASSUME NumbersOK, ReworkAlone PROVE ReworkEased
<1>1. reworks' = reworks /\ \A l \in Lines : line'[l]["qc_rework"] = line[l]["qc_rework"]
    BY DEF ReworkAlone, repairs
<1>2. \A l \in Lines : InRework(l)' = InRework(l)
    BY <1>1 DEF InRework, OpenReworks
<1>3. \A l \in Lines : line[l]["qc_rework"] \in Nat /\ InRework(l) \in Nat
    BY Numbers, OpenRecords DEF Columns
<1>4. QED
    BY <1>1, <1>2, <1>3 DEF ReworkEased

LEMMA ReworkStarted ==
    ASSUME NumbersOK, PackingOK, NEW i \in DOMAIN reworks, StartRework(i)
    PROVE  QcAlone /\ ReworkEased /\ PackagesAlone /\ (ReworkOnRecord => ReworkOnRecord')
<1>1. UNCHANGED <<project, step, line, led, reworked, pkgs>>
    BY DEF StartRework, quantities, packing
<1>2. \A k \in Lines : InRework(k)' = InRework(k) /\ InRework(k) \in Nat /\ line[k]["qc_rework"] \in Nat
    BY RecordStarted, OpenRecords, Numbers DEF Columns
<1>3. QcAlone /\ PackagesAlone
    BY <1>1, PackagesSame DEF QcAlone, PackingOK
<1>4. ReworkEased
    BY <1>1, <1>2 DEF ReworkEased
<1>5. ReworkOnRecord => ReworkOnRecord'
    BY <1>1, <1>2 DEF ReworkOnRecord
<1>6. QED
    BY <1>3, <1>4, <1>5

LEMMA ReworkCompleted ==
    ASSUME NumbersOK, PackingOK, NEW i \in DOMAIN reworks, CompleteRework(i)
    PROVE  QcAlone /\ ReworkEased /\ PackagesAlone /\ (ReworkOnRecord => ReworkOnRecord')
<1> DEFINE l == reworks[i].line
           q == reworks[i].qty
<1>0. reworks[i] \in Reworks
    BY DEF NumbersOK
<1>1. l \in Lines /\ q \in Nat
    BY <1>0, ShopFloorAssumption DEF Reworks
<1>2. /\ UNCHANGED <<project, step, pkgs>> /\ led' = Recorded(l, "rework_completed", reworked[l])
      /\ reworked' = [reworked EXCEPT ![l] = reworked[l] + q]
      /\ line' = (IF project THEN [line EXCEPT ![l]["qc_rework"] = Most(0, line[l]["qc_rework"] - q)] ELSE line)
    BY DEF CompleteRework, packing
<1>3. \A k \in Lines : /\ InRework(k) = InRework(k)' + (IF k = l THEN q ELSE 0)
                       /\ InRework(k)' \in Nat
    BY RecordCompleted
<1> HIDE DEF l, q
<1>4. \A k \in Lines : /\ line'[k]["qc_accepted"] = line[k]["qc_accepted"]
                       /\ line'[k]["qc_rejected"] = line[k]["qc_rejected"]
                       /\ line'[k]["qc_rework"] = IF k = l /\ project THEN Most(0, line[l]["qc_rework"] - q)
                                                  ELSE line[k]["qc_rework"]
    <2>1. {"qc_accepted", "qc_rejected", "qc_rework"} \subseteq Columns
        BY DEF Columns
    <2>2. CASE project
        <3>1. \A k \in Lines, d \in Columns :
                line'[k][d] = IF k = l /\ d = "qc_rework" THEN Most(0, line[l]["qc_rework"] - q) ELSE line[k][d]
            <4>1. line \in [Lines -> [Columns -> Nat]] /\ line' = [line EXCEPT ![l]["qc_rework"] = Most(0, line[l]["qc_rework"] - q)]
                BY <1>2, <2>2 DEF NumbersOK
            <4>2. QED
                BY <1>1, <2>1, <4>1
        <3>2. QED
            BY <2>1, <2>2, <3>1
    <2>3. CASE ~project
        BY <1>2, <2>3
    <2>4. QED
        BY <2>2, <2>3
<1>5. \A k \in Lines : line[k]["qc_rework"] \in Nat
    BY Numbers DEF Columns
<1>6. QcAlone /\ PackagesAlone
    <2>1. "rework_completed" \in Operations /\ {"qc_approved", "qc_return_accepted"} \subseteq Operations
        BY DEF Operations
    <2>2. \A k \in Lines : \A o \in Operations : o # "rework_completed" => led'[k][o] = led[k][o]
        BY <1>1, <1>2, <2>1, SumRecorded
    <2>3. QED
        BY <1>2, <1>4, <2>1, <2>2, PackagesSame DEF QcAlone, PackingOK
<1>7. ReworkEased
    <2>1. ASSUME NEW k \in Lines PROVE /\ line'[k]["qc_rework"] <= line[k]["qc_rework"]
                                     /\ InRework(k)' \in Nat /\ InRework(k)' <= InRework(k)
        BY <1>1, <1>3, <1>4, <1>5 DEF Most
    <2>2. QED
        BY <2>1 DEF ReworkEased
<1>8. ASSUME ReworkOnRecord, NEW k \in Lines
      PROVE  line'[k]["qc_rework"] <= InRework(k)' + (IF project' THEN 0 ELSE reworked'[k])
    <2>1. line[k]["qc_rework"] <= InRework(k) + (IF project THEN 0 ELSE reworked[k])
        BY <1>8 DEF ReworkOnRecord
    <2>2. reworked[k] \in Nat /\ reworked'[k] = IF k = l THEN reworked[k] + q ELSE reworked[k]
        BY <1>1, <1>2 DEF NumbersOK
    <2>3. CASE project
        BY <1>1, <1>2, <1>3, <1>4, <1>5, <2>1, <2>3 DEF Most
    <2>4. CASE ~project
        BY <1>1, <1>2, <1>3, <1>4, <1>5, <2>1, <2>2, <2>4
    <2>5. QED
        BY <2>3, <2>4
<1>9. QED
    BY <1>6, <1>7, <1>8 DEF ReworkOnRecord

\* A return from any station but quality control leaves quality control alone.
LEMMA OtherReturns ==
    ASSUME NumbersOK, PackingOK, NEW kind \in ReturnKinds \ {"qc_return"}, NEW l \in Lines, NEW q \in 1 .. Quantity,
           Return(kind, l, q)
    PROVE  AllAlone
<1> DEFINE column == CASE kind = "packaging_return" -> "qc_accepted"
                       [] kind = "painting_return" -> "paint_accepted" [] kind = "svarka_return" -> "accepted"
<1>1. kind \in {"painting_return", "svarka_return", "packaging_return"}
    BY DEF ReturnKinds
<1>2. /\ UNCHANGED <<project, step, repairs, pkgs>>
      /\ led' = [led EXCEPT ![l][kind] = @ + q, ![l]["qc_return_accepted"] = @ + 0]
      /\ line' = IF kind = "packaging_return" THEN line
                 ELSE [line EXCEPT ![l]["qc_rework"] = @ - 0, ![l][column] = Most(0, @ - (q - 0))]
    BY <1>1 DEF Return, repairs, packing
<1>3. /\ led \in [Lines -> [Operations -> Nat]] /\ line \in [Lines -> [Columns -> Nat]]
      /\ kind \in Operations /\ {"qc_approved", "qc_return_accepted"} \subseteq Operations
      /\ {"qc_accepted", "qc_rejected", "qc_rework", "accepted", "paint_accepted"} \subseteq Columns
    BY <1>1 DEF NumbersOK, Operations, Columns
<1>4. \A k \in Lines : \A o \in {"qc_approved", "qc_return_accepted"} : led'[k][o] = led[k][o]
    BY <1>1, <1>2, <1>3
<1>5. \A k \in Lines : \A c \in {"qc_accepted", "qc_rejected", "qc_rework"} : line'[k][c] = line[k][c]
    <2>1. CASE kind = "packaging_return"
        BY <1>2, <2>1
    <2>2. CASE kind # "packaging_return"
        <3>1. column \in {"accepted", "paint_accepted"}
            BY <1>1, <2>2
        <3> HIDE DEF column
        <3>2. QED
            BY <1>2, <1>3, <2>2, <3>1
    <2>3. QED
        BY <2>1, <2>2
<1>6. QED
    BY <1>2, <1>4, <1>5, PackagesSame DEF AllAlone, QcAlone, ReworkAlone, PackingOK

\* A return from quality control takes rework columns first and approved pieces for the rest,
\* and puts all of them on record.
LEMMA QcReturned ==
    ASSUME NumbersOK, NEW l \in Lines, NEW q \in 1 .. Quantity, NEW w,
           Return("qc_return", l, q), w = Least(q, line[l]["qc_rework"])
    PROVE  /\ w \in Nat /\ w <= q /\ w <= line[l]["qc_rework"]
           /\ q <= line[l]["qc_accepted"] + line[l]["qc_rework"]
           /\ \A k \in Lines :
                /\ line'[k]["qc_rework"] = line[k]["qc_rework"] - (IF k = l THEN w ELSE 0)
                /\ line'[k]["qc_accepted"] = IF k = l THEN Most(0, line[l]["qc_accepted"] - (q - w))
                                             ELSE line[k]["qc_accepted"]
                /\ line'[k]["qc_rejected"] = line[k]["qc_rejected"]
                /\ led'[k]["qc_approved"] = led[k]["qc_approved"]
                /\ led'[k]["qc_return_accepted"] = led[k]["qc_return_accepted"] + (IF k = l THEN q - w ELSE 0)
                /\ InRework(k)' = InRework(k) + (IF k = l THEN q ELSE 0)
<1>1. /\ q <= (line[l]["qc_accepted"] + line[l]["qc_rework"]) - led[l]["qc_return"]
      /\ led' = [led EXCEPT ![l]["qc_return"] = @ + q, ![l]["qc_return_accepted"] = @ + (q - w)]
      /\ line' = [line EXCEPT ![l]["qc_rework"] = @ - w, ![l]["qc_accepted"] = Most(0, @ - (q - w))]
      /\ reworks' = Append(reworks, [line |-> l, qty |-> q, status |-> "pending"])
    <2>1. (IF "qc_return" = "qc_return" THEN Least(q, line[l]["qc_rework"]) ELSE 0) = w
        OBVIOUS
    <2>2. (CASE "qc_return" = "qc_return" -> "qc_accepted" [] "qc_return" = "packaging_return" -> "qc_accepted"
             [] "qc_return" = "painting_return" -> "paint_accepted" [] "qc_return" = "svarka_return" -> "accepted")
          = "qc_accepted"
        OBVIOUS
    <2>3. q <= (line[l]["qc_accepted"] + line[l]["qc_rework"]) - led[l]["qc_return"]
        <3>1. (IF "qc_return" = "qc_return" THEN line[l]["qc_rework"] ELSE 0) = line[l]["qc_rework"]
            OBVIOUS
        <3>2. QED
            BY <2>2, <3>1 DEF Return
    <2>4. led' = [led EXCEPT ![l]["qc_return"] = @ + q, ![l]["qc_return_accepted"] = @ + (q - w)]
        BY <2>1 DEF Return
    <2>5. line' = [line EXCEPT ![l]["qc_rework"] = @ - w, ![l]["qc_accepted"] = Most(0, @ - (q - w))]
        BY <2>1, <2>2 DEF Return
    <2>6. reworks' = Append(reworks, [line |-> l, qty |-> q, status |-> "pending"])
        BY DEF Return
    <2>7. QED
        BY <2>3, <2>4, <2>5, <2>6
<1>2. /\ led \in [Lines -> [Operations -> Nat]] /\ line \in [Lines -> [Columns -> Nat]]
      /\ {"qc_return", "qc_approved", "qc_return_accepted"} \subseteq Operations
      /\ {"qc_accepted", "qc_rejected", "qc_rework"} \subseteq Columns
    BY DEF NumbersOK, Operations, Columns
<1>3. \A k \in Lines : /\ line[k]["qc_rework"] \in Nat /\ line[k]["qc_accepted"] \in Nat
                       /\ led[k]["qc_return"] \in Nat /\ led[k]["qc_return_accepted"] \in Nat
    BY <1>2
<1>4. q \in Nat /\ w \in Nat /\ w <= q /\ w <= line[l]["qc_rework"]
    BY <1>3, Numbers DEF Least
<1>5. \A k \in Lines : InRework(k)' = InRework(k) + (IF k = l THEN q ELSE 0)
    BY <1>1, RecordCreated
<1>6. \A k \in Lines :
        /\ line'[k]["qc_rework"] = IF k = l THEN line[k]["qc_rework"] - w ELSE line[k]["qc_rework"]
        /\ line'[k]["qc_accepted"] = IF k = l THEN Most(0, line[l]["qc_accepted"] - (q - w))
                                     ELSE line[k]["qc_accepted"]
        /\ line'[k]["qc_rejected"] = line[k]["qc_rejected"]
    BY <1>1, <1>2
<1>7. \A k \in Lines :
        /\ led'[k]["qc_approved"] = led[k]["qc_approved"]
        /\ led'[k]["qc_return_accepted"] = IF k = l THEN led[k]["qc_return_accepted"] + (q - w)
                                           ELSE led[k]["qc_return_accepted"]
    BY <1>1, <1>2
<1>8. q <= line[l]["qc_accepted"] + line[l]["qc_rework"]
    BY <1>1, <1>3, <1>4
<1>9. QED
    BY <1>3, <1>4, <1>5, <1>6, <1>7, <1>8

-----------------------------------------------------------------------------
(* The packages an operator asks for.                                      *)

LEMMA Parts ==
    ASSUME NEW n \in Nat, n # 0, NEW t \in Nat, t # 0, t % n = 0
    PROVE  t \div n \in Nat /\ n * (t \div n) = t /\ 1 <= t \div n /\ t \div n <= t
<1> DEFINE q == t \div n
<1>1. t \div n \in Int
    OBVIOUS
<1>2. t = n * (t \div n) + (t % n)
    BY Z3T(20)
<1> HIDE DEF q
<1>3. q \in Int /\ n * q = t
    BY <1>1, <1>2 DEF q
<1>4. q \in Nat /\ 1 <= q
    BY <1>3
<1>5. q <= t
    BY <1>3, <1>4
<1>6. QED
    BY <1>3, <1>4, <1>5 DEF q

\* n packages share t pieces evenly; those numbered beyond n are cancelled.
LEMMA PackagesAsked ==
    ASSUME PackingOK, NEW n \in 0 .. MaxPackages, NEW t \in 1 .. Quantity, PackagingData(n, t)
    PROVE  /\ pkgs' \in Seq(Packages)
           /\ n = 0 => pkgs' = pkgs
           /\ n # 0 => /\ Active' = 1 .. n /\ PackedQuantity(Active)' = t
                       /\ \A i \in Active' : pkgs'[i].qty >= 1
<1>1. CASE n = 0
    BY <1>1 DEF PackagingData, PackingOK
<1>2. CASE n # 0
    <2> DEFINE q == t \div n
    <2>1. n \in Nat /\ t \in Nat /\ t # 0 /\ Quantity \in Nat /\ t <= Quantity
        BY ShopFloorAssumption
    <2>2. t % n = 0 /\ pkgs' = Synced(n, q)
        BY <1>2 DEF PackagingData
    <2>3. q \in Nat /\ n * q = t /\ 1 <= q /\ q <= Quantity
        BY <1>2, <2>1, <2>2, Parts
    <2> HIDE DEF q
    <2>4. /\ pkgs \in Seq(Packages) /\ Len(pkgs) \in Nat /\ DOMAIN pkgs = 1 .. Len(pkgs)
          /\ \A i \in DOMAIN pkgs : pkgs[i] \in Packages
        BY DEF PackingOK
    <2> DEFINE m == Most(n, Len(pkgs))
    <2>5. m \in Nat /\ n <= m /\ Len(pkgs) <= m /\ (m = n \/ m = Len(pkgs))
        BY <2>1, <2>4 DEF Most
    <2>6. pkgs' = [i \in 1 .. m |-> IF i > n THEN [pkgs[i] EXCEPT !.status = "cancelled"]
                                    ELSE IF i \in Active THEN [pkgs[i] EXCEPT !.qty = q]
                                    ELSE [qty |-> q, status |-> "pending"]]
        BY <2>2 DEF Synced
    <2> HIDE DEF m
    <2>7. ASSUME NEW i \in 1 .. m
          PROVE  /\ pkgs'[i] \in Packages
                 /\ pkgs'[i].status # "cancelled" <=> i <= n
                 /\ i <= n => pkgs'[i].qty = q
        <3>1. CASE i > n
            <4>1. pkgs[i] \in Packages /\ pkgs'[i] = [pkgs[i] EXCEPT !.status = "cancelled"]
                BY <2>1, <2>4, <2>5, <2>6, <3>1
            <4>2. QED
                BY <2>1, <2>5, <3>1, <4>1 DEF Packages
        <3>2. CASE i <= n /\ i \in Active
            <4>1. pkgs[i] \in Packages /\ pkgs[i].status # "cancelled" /\ pkgs'[i] = [pkgs[i] EXCEPT !.qty = q]
                BY <2>1, <2>4, <2>5, <2>6, <3>2 DEF Active
            <4>2. QED
                BY <2>1, <2>3, <3>2, <4>1 DEF Packages
        <3>3. CASE i <= n /\ i \notin Active
            <4>1. pkgs'[i] = [qty |-> q, status |-> "pending"]
                BY <2>1, <2>5, <2>6, <3>3
            <4>2. QED
                BY <2>1, <2>3, <3>3, <4>1 DEF Packages
        <3>4. QED
            BY <2>1, <2>5, <3>1, <3>2, <3>3
    <2>8. pkgs' \in Seq(Packages) /\ DOMAIN pkgs' = 1 .. m
        <3>1. DOMAIN pkgs' = 1 .. m /\ pkgs' = [i \in 1 .. m |-> pkgs'[i]]
            BY <2>6
        <3>2. pkgs' \in [1 .. m -> Packages]
            BY <2>7, <3>1
        <3>3. QED
            BY <2>5, <3>1, <3>2
    <2>9. Active' = 1 .. n
        BY <2>1, <2>5, <2>7, <2>8 DEF Active
    <2>10. \A i \in 1 .. n : i \in 1 .. m /\ pkgs'[i].qty = q
        BY <2>1, <2>5, <2>7
    <2>11. PackedQuantity(Active)' = t
        <3> DEFINE each == [i \in DOMAIN pkgs' |-> pkgs'[i].qty]
        <3>1. \A i \in 1 .. n : each[i] = q
            BY <2>8, <2>10
        <3>2. PackedQuantity(Active)' = Amount(each, 1 .. n)
            BY <2>9 DEF PackedQuantity
        <3> HIDE DEF each
        <3>3. QED
            BY <2>1, <2>3, <3>1, <3>2, AmountOfAlike
    <2>12. QED
        BY <1>2, <2>3, <2>8, <2>9, <2>10, <2>11
<1>3. QED
    BY <1>1, <1>2

\* With nothing packed there are no packages, since none is empty.
PackagesFull == \A i \in Active : pkgs[i].qty >= 1

LEMMA PackedNumber ==
    ASSUME PackingOK
    PROVE  /\ IsFiniteSet(Active) /\ PackedQuantity(Active) \in Nat
           /\ \A i \in Active : [j \in DOMAIN pkgs |-> pkgs[j].qty][i] \in Nat
<1> DEFINE each == [j \in DOMAIN pkgs |-> pkgs[j].qty]
<1>1. /\ pkgs \in Seq(Packages) /\ Len(pkgs) \in Nat /\ DOMAIN pkgs = 1 .. Len(pkgs)
      /\ Active \in SUBSET (1 .. Len(pkgs)) /\ \A j \in DOMAIN pkgs : pkgs[j] \in Packages
    BY DEF PackingOK, Active
<1>2. IsFiniteSet(Active)
    <2>1. IsFiniteSet(1 .. Len(pkgs))
        BY <1>1, FS_Interval
    <2>2. QED
        BY <1>1, <2>1, FS_Subset
<1>3. \A j \in Active : each[j] \in Nat
    BY <1>1, ShopFloorAssumption DEF Packages
<1>4. PackedQuantity(Active) = Amount(each, Active)
    BY DEF PackedQuantity
<1> HIDE DEF each
<1>5. PackedQuantity(Active) \in Nat
    BY <1>2, <1>3, <1>4, PiecesFinite
<1>6. QED
    BY <1>2, <1>3, <1>5 DEF each

LEMMA NothingPacked ==
    ASSUME PackingOK, PackagesFull, NothingDownstream
    PROVE  Active = {}
<1>1. SUFFICES ASSUME NEW i \in Active PROVE FALSE
    OBVIOUS
<1> DEFINE each == [j \in DOMAIN pkgs |-> pkgs[j].qty]
<1>2. IsFiniteSet(Active) /\ \A j \in Active : each[j] \in Nat
    BY PackedNumber
<1>3. each[i] >= 1 /\ Amount(each, Active) = 0
    BY DEF PackagesFull, NothingDownstream, PackedQuantity, Active
<1> HIDE DEF each
<1>4. each[i] <= Amount(each, Active)
    BY <1>2, AmountAtLeast
<1>5. QED
    BY <1>2, <1>3, <1>4

LEMMA PackagesKept ==
    ASSUME PackingOK, PackagesAlone
    PROVE  /\ Active' = Active /\ PackedQuantity(Active)' = PackedQuantity(Active)
           /\ \A i \in Active : pkgs'[i].qty = pkgs[i].qty
<1>1. Active' = Active
    BY DEF PackagesAlone, Active
<1>2. [i \in DOMAIN pkgs' |-> pkgs'[i].qty] = [i \in DOMAIN pkgs |-> pkgs[i].qty]
    BY DEF PackagesAlone
<1>3. QED
    BY <1>1, <1>2 DEF PackedQuantity, PackagesAlone, Active

-----------------------------------------------------------------------------
(* PackedIsApproved.  What quality control approved and did not get back   *)
(* is in its column; a step it has completed has nothing in rework; and    *)
(* what is packed was approved by then.                                    *)

ColumnsOK(l) ==
    /\ led[l]["qc_approved"] <= line[l]["qc_accepted"] + led[l]["qc_return_accepted"]
    /\ line[l]["qc_accepted"] + line[l]["qc_rejected"] + line[l]["qc_rework"] <= Quantity
    /\ step["qc"] = "completed" => /\ line[l]["qc_rework"] = 0
                                   /\ line[l]["qc_accepted"] + InRework(l) <= Quantity
    /\ "qc" \notin RouteStages => led[l]["qc_approved"] = 0

PackedOK(l) ==
    Active # {} => /\ "qc" \in RouteStages /\ step["qc"] = "completed"
                   /\ PackedQuantity(Active) <= line[l]["qc_accepted"]

LEMMA PredecessorBounded ==
    ASSUME NumbersOK, NEW l \in Lines
    PROVE  QcPredecessor(l) \in Int /\ QcPredecessor(l) <= Quantity
<1>1. {"accepted", "paint_accepted"} \subseteq Columns
    BY DEF Columns
<1>2. line[l]["accepted"] \in Nat /\ line[l]["paint_accepted"] \in Nat
    BY <1>1, Numbers
<1>3. QED
    BY <1>2, Numbers DEF QcPredecessor, Least, Most

\* The numbers of quality control.
LEMMA QcNumbers ==
    ASSUME NumbersOK, NEW l \in Lines
    PROVE  /\ line[l]["qc_accepted"] \in Nat /\ line[l]["qc_rejected"] \in Nat /\ line[l]["qc_rework"] \in Nat
           /\ led[l]["qc_approved"] \in Nat /\ led[l]["qc_return_accepted"] \in Nat
           /\ InRework(l) \in Nat /\ Quantity \in Nat
<1>1. {"qc_accepted", "qc_rejected", "qc_rework"} \subseteq Columns /\ {"qc_approved", "qc_return_accepted"} \subseteq Operations
    BY DEF Columns, Operations
<1>2. line[l] \in [Columns -> Nat] /\ led[l] \in [Operations -> Nat]
    BY DEF NumbersOK
<1>3. QED
    BY <1>1, <1>2, OpenRecords, ShopFloorAssumption

LEMMA ColumnsKept ==
    ASSUME NumbersOK, NEW l \in Lines, ColumnsOK(l), QcAlone, ReworkEased,
           line'[l]["qc_rework"] \in Nat
    PROVE  ColumnsOK(l)'
<1>1. /\ line'[l]["qc_accepted"] = line[l]["qc_accepted"] /\ line'[l]["qc_rejected"] = line[l]["qc_rejected"]
      /\ led'[l]["qc_approved"] = led[l]["qc_approved"]
      /\ led'[l]["qc_return_accepted"] = led[l]["qc_return_accepted"]
      /\ step'["qc"] = "completed" <=> step["qc"] = "completed"
    BY DEF QcAlone
<1>2. line'[l]["qc_rework"] <= line[l]["qc_rework"] /\ InRework(l)' \in Nat /\ InRework(l)' <= InRework(l)
    BY DEF ReworkEased
<1>3. QED
    BY <1>1, <1>2, QcNumbers DEF ColumnsOK

LEMMA PackedKept ==
    ASSUME PackingOK, NEW l \in Lines, PackedOK(l), QcAlone, PackagesAlone
    PROVE  PackedOK(l)'
<1>1. Active' = Active /\ PackedQuantity(Active)' = PackedQuantity(Active)
    BY PackagesKept
<1>2. QED
    BY <1>1 DEF PackedOK, QcAlone

LEMMA NoOpenReworks == ASSUME OpenReworks = {}, NEW l PROVE InRework(l) = 0
<1>1. {i \in OpenReworks : reworks[i].line = l} = {}
    OBVIOUS
<1>2. QED
    BY <1>1, AmountOfNone DEF InRework

\* Quality control that is through: nothing is open, so nothing is in rework.
LEMMA QcThrough ==
    ASSUME NumbersOK, NumbersOK', ReworkOnRecord', project', UNCHANGED reworks, OpenReworks = {}, NEW l \in Lines,
           line'[l]["qc_rework"] \in Nat
    PROVE  line'[l]["qc_rework"] = 0 /\ InRework(l)' = 0
<1>1. InRework(l)' = InRework(l) /\ InRework(l) = 0
    BY NoOpenReworks DEF InRework, OpenReworks
<1>2. QED
    BY <1>1 DEF ReworkOnRecord

LEMMA QcEntryColumns ==
    ASSUME NumbersOK, NumbersOK', ReworkOnRecord', project, NEW l \in Lines, NEW c \in {QcAccepted, QcRejected},
           NEW q \in 0 .. Quantity, QcQuantity(l, c, q), NEW k \in Lines, ColumnsOK(k)
    PROVE  ColumnsOK(k)'
<1>1. c \in {"qc_accepted", "qc_rejected"} /\ QcAccepted = "qc_accepted" /\ QcRejected = "qc_rejected"
    BY DEF QcAccepted, QcRejected
<1>2. PICK op : /\ op = IF c = "qc_accepted" THEN "qc_approved" ELSE "qc_rejected"
                /\ led' = IF q # line[l][c] THEN Recorded(l, op, q) ELSE led
                /\ q # line[l][c] => Recordable(l, op, q)
    BY <1>1 DEF QcQuantity, EnterColumn
<1>3. /\ line' = [line EXCEPT ![l][c] = q] /\ UNCHANGED <<project, reworks>>
      /\ Proposed(l, c, q) <= QcPredecessor(l)
      /\ Working("qc")
      /\ step' = step \/ OpenReworks = {}
    BY DEF QcQuantity, EnterColumn, Enter, repairs
<1>4. /\ line \in [Lines -> [Columns -> Nat]] /\ led \in [Lines -> [Operations -> Nat]]
      /\ {"qc_accepted", "qc_rejected", "qc_rework"} \subseteq Columns
      /\ {"qc_approved", "qc_rejected", "qc_return_accepted"} \subseteq Operations /\ q \in Nat
    <2>1. {"qc_accepted", "qc_rejected", "qc_rework"} \subseteq Columns
        BY DEF Columns
    <2>2. {"qc_approved", "qc_rejected", "qc_return_accepted"} \subseteq Operations
        BY DEF Operations
    <2>3. line \in [Lines -> [Columns -> Nat]] /\ led \in [Lines -> [Operations -> Nat]]
        BY DEF NumbersOK
    <2>4. q \in Nat
        BY ShopFloorAssumption
    <2>5. QED
        BY <2>1, <2>2, <2>3, <2>4
<1>5. \A d \in {"qc_accepted", "qc_rejected", "qc_rework"} :
        line'[k][d] = IF k = l /\ d = c THEN q ELSE line[k][d]
    BY <1>1, <1>3, <1>4
<1>6. /\ led'[k]["qc_return_accepted"] = led[k]["qc_return_accepted"]
      /\ ~(k = l /\ c = "qc_accepted") => led'[k]["qc_approved"] = led[k]["qc_approved"]
      /\ k = l /\ c = "qc_accepted" => \/ led'[k]["qc_approved"] = q
                                       \/ led'[k]["qc_approved"] = led[k]["qc_approved"] /\ q = line[l][c]
    <2>1. op \in Operations /\ op # "qc_return_accepted"
        BY <1>2, <1>4
    <2>2. CASE q = line[l][c]
        BY <1>2, <2>2
    <2>3. CASE q # line[l][c]
        <3>1. led' = [led EXCEPT ![l][op] = q]
            BY <1>2, <2>3 DEF Recorded
        <3>2. \A o \in Operations : led'[k][o] = IF k = l /\ o = op THEN q ELSE led[k][o]
            BY <1>4, <2>1, <3>1
        <3>3. QED
            BY <1>1, <1>2, <1>4, <3>2
    <2>4. QED
        BY <2>2, <2>3
<1>7. Proposed(l, c, q) = (IF c = "qc_accepted" THEN q ELSE line[l]["qc_accepted"])
                          + (IF c = "qc_rejected" THEN q ELSE line[l]["qc_rejected"]) + line[l]["qc_rework"]
    BY <1>1 DEF Proposed
<1>8. QcPredecessor(l) \in Int /\ QcPredecessor(l) <= Quantity
    BY PredecessorBounded
<1>9. line'[k]["qc_accepted"] + line'[k]["qc_rejected"] + line'[k]["qc_rework"] <= Quantity
    BY <1>1, <1>3, <1>4, <1>5, <1>7, <1>8, QcNumbers DEF ColumnsOK
<1>10. led'[k]["qc_approved"] <= line'[k]["qc_accepted"] + led'[k]["qc_return_accepted"]
    BY <1>1, <1>4, <1>5, <1>6, QcNumbers DEF ColumnsOK
<1>11. step'["qc"] = "completed" => line'[k]["qc_rework"] = 0 /\ InRework(k)' = 0
    <2>1. step["qc"] # "completed"
        BY <1>3 DEF Working
    <2>2. line'[k]["qc_rework"] \in Nat
        BY <1>4, <1>5
    <2>3. QED
        BY <1>3, <2>1, <2>2, QcThrough
<1>12. "qc" \in RouteStages
    BY <1>3 DEF Working, WaitsAt
<1>13. line'[k]["qc_accepted"] \in Nat /\ line'[k]["qc_rejected"] \in Nat /\ line'[k]["qc_rework"] \in Nat
    BY <1>1, <1>4, <1>5
<1>14. QED
    BY <1>9, <1>10, <1>11, <1>12, <1>13, ShopFloorAssumption DEF ColumnsOK

LEMMA QcReturnColumns ==
    ASSUME NumbersOK, NEW l \in Lines, NEW q \in 1 .. Quantity, Return("qc_return", l, q),
           NEW k \in Lines, ColumnsOK(k)
    PROVE  ColumnsOK(k)'
<1> DEFINE w == Least(q, line[l]["qc_rework"])
<1>1. step' = step
    BY DEF Return
<1>2. /\ w \in Nat /\ w <= q /\ w <= line[l]["qc_rework"]
      /\ q <= line[l]["qc_accepted"] + line[l]["qc_rework"]
      /\ line'[k]["qc_rework"] = line[k]["qc_rework"] - (IF k = l THEN w ELSE 0)
      /\ line'[k]["qc_accepted"] = IF k = l THEN Most(0, line[l]["qc_accepted"] - (q - w))
                                   ELSE line[k]["qc_accepted"]
      /\ line'[k]["qc_rejected"] = line[k]["qc_rejected"]
      /\ led'[k]["qc_approved"] = led[k]["qc_approved"]
      /\ led'[k]["qc_return_accepted"] = led[k]["qc_return_accepted"] + (IF k = l THEN q - w ELSE 0)
      /\ InRework(k)' = InRework(k) + (IF k = l THEN q ELSE 0)
    BY QcReturned
<1> HIDE DEF w
<1>3. q \in Nat
    BY ShopFloorAssumption
<1>4. CASE k # l
    BY <1>1, <1>2, <1>4, QcNumbers DEF ColumnsOK
<1>5. CASE k = l
    <2>1. /\ line[l]["qc_accepted"] \in Nat /\ line[l]["qc_rejected"] \in Nat /\ line[l]["qc_rework"] \in Nat
          /\ led[l]["qc_approved"] \in Nat /\ led[l]["qc_return_accepted"] \in Nat
          /\ InRework(l) \in Nat /\ Quantity \in Nat
        BY QcNumbers
    <2>2. /\ line'[l]["qc_rework"] = line[l]["qc_rework"] - w
          /\ line'[l]["qc_accepted"] = Most(0, line[l]["qc_accepted"] - (q - w))
          /\ line'[l]["qc_rejected"] = line[l]["qc_rejected"]
          /\ led'[l]["qc_approved"] = led[l]["qc_approved"]
          /\ led'[l]["qc_return_accepted"] = led[l]["qc_return_accepted"] + (q - w)
          /\ InRework(l)' = InRework(l) + q
        BY <1>2, <1>5
    <2>3. ColumnsOK(l)
        BY <1>5
    <2>4. led'[l]["qc_approved"] <= line'[l]["qc_accepted"] + led'[l]["qc_return_accepted"]
        BY <1>2, <1>3, <2>1, <2>2, <2>3 DEF ColumnsOK, Most
    <2>5. line'[l]["qc_accepted"] + line'[l]["qc_rejected"] + line'[l]["qc_rework"] <= Quantity
        BY <1>2, <1>3, <2>1, <2>2, <2>3 DEF ColumnsOK, Most
    <2>6. step["qc"] = "completed" => /\ line'[l]["qc_rework"] = 0
                                      /\ line'[l]["qc_accepted"] + InRework(l)' <= Quantity
        <3>1. SUFFICES ASSUME step["qc"] = "completed"
                       PROVE  line'[l]["qc_rework"] = 0 /\ line'[l]["qc_accepted"] + InRework(l)' <= Quantity
            OBVIOUS
        <3>2. line[l]["qc_rework"] = 0 /\ line[l]["qc_accepted"] + InRework(l) <= Quantity
            BY <2>3, <3>1 DEF ColumnsOK
        <3>3. w = 0 /\ q <= line[l]["qc_accepted"]
            BY <1>2, <1>3, <2>1, <3>2
        <3>4. QED
            BY <1>3, <2>1, <2>2, <3>2, <3>3 DEF Most
    <2>7. QED
        BY <1>1, <1>5, <2>2, <2>3, <2>4, <2>5, <2>6 DEF ColumnsOK
<1>6. QED
    BY <1>4, <1>5

\* What may be packed was approved, of every detail.
LEMMA FewestIs ==
    ASSUME NEW f \in [Lines -> Nat], NEW l \in Lines
    PROVE  Fewest(f) \in Nat /\ Fewest(f) <= f[l]
<1> DEFINE values == {f[k] : k \in Lines}
<1>1. values \subseteq Nat /\ values # {} /\ f[l] \in values
    OBVIOUS
<1> HIDE DEF values
<1>2. Min(values) \in values /\ Min(values) <= f[l]
    BY <1>1, MinOfNaturals
<1>3. QED
    BY <1>1, <1>2 DEF Fewest, values

LEMMA EligibleApproved ==
    ASSUME NumbersOK, NEW l \in Lines
    PROVE  PackEligible \in Nat /\ PackEligible <= ApprovedOf(l)
<1>1. \A k \in Lines : ApprovedOf(k) \in Nat /\ LazerReady(k) \in Nat
    BY QcNumbers, Numbers DEF ApprovedOf, Most
<1>2. /\ Fewest([k \in Lines |-> ApprovedOf(k)]) \in Nat
      /\ Fewest([k \in Lines |-> ApprovedOf(k)]) <= ApprovedOf(l)
    <2> DEFINE f == [k \in Lines |-> ApprovedOf(k)]
    <2>1. f \in [Lines -> Nat] /\ f[l] = ApprovedOf(l)
        BY <1>1
    <2> HIDE DEF f
    <2>2. Fewest(f) \in Nat /\ Fewest(f) <= f[l]
        BY <2>1, FewestIs
    <2>3. QED
        BY <2>1, <2>2 DEF f
<1>3. Fewest([k \in Lines |-> LazerReady(k)]) \in Nat
    <2> DEFINE f == [k \in Lines |-> LazerReady(k)]
    <2>1. f \in [Lines -> Nat]
        BY <1>1
    <2> HIDE DEF f
    <2>2. Fewest(f) \in Nat
        BY <2>1, FewestIs
    <2>3. QED
        BY <2>2 DEF f
<1>4. Approved \in Nat /\ Approved <= ApprovedOf(l)
    BY <1>1, <1>2, <1>3, ShopFloorAssumption DEF Approved, Produced, Least
<1>5. ReworkPending \in Nat
    <2> DEFINE f == [k \in Lines |-> led[k]["rework_created"]]
               g == [k \in Lines |-> led[k]["rework_completed"]]
    <2>1. f \in [Lines -> Nat] /\ g \in [Lines -> Nat]
        BY Numbers DEF Operations
    <2>2. Total(reworked) \in Nat
        BY ShopFloorAssumption, PiecesFinite DEF Total, NumbersOK
    <2> HIDE DEF f, g
    <2>3. Fewest(f) \in Nat /\ Fewest(g) \in Nat
        BY <2>1, FewestIs
    <2>4. ReworkPending = Most(0, Least(Quantity, Fewest(f) - Most(Fewest(g), Total(reworked))))
        BY DEF ReworkPending, f, g
    <2>5. QED
        BY <2>2, <2>3, <2>4, ShopFloorAssumption DEF Most, Least
<1>6. QED
    BY <1>1, <1>4, <1>5 DEF PackEligible, Most

\* The invariant with nothing packed, and the whole of it, of a project job.
Unpacked == Active = {} /\ pkgs' = pkgs

ProjectOK == PackagesFull /\ \A l \in Lines : ColumnsOK(l) /\ PackedOK(l)

LEMMA UnpackedKept ==
    ASSUME Unpacked, \A l \in Lines : ColumnsOK(l)'
    PROVE  ProjectOK'
<1>1. Active' = {}
    BY DEF Unpacked, Active
<1>2. QED
    BY <1>1 DEF ProjectOK, PackagesFull, PackedOK

LEMMA AloneKept ==
    ASSUME NumbersOK, NumbersOK', PackingOK, ProjectOK, QcAlone, ReworkEased, PackagesAlone
    PROVE  ProjectOK'
<1>1. \A l \in Lines : line'[l]["qc_rework"] \in Nat
    BY DEF NumbersOK, Columns
<1>2. \A l \in Lines : ColumnsOK(l)' /\ PackedOK(l)'
    BY <1>1, ColumnsKept, PackedKept DEF ProjectOK
<1>3. PackagesFull'
    BY PackagesKept DEF PackagesFull, ProjectOK
<1>4. QED
    BY <1>2, <1>3 DEF ProjectOK

\* While quality control is at work, nothing is packed.
LEMMA QcUnpacked ==
    ASSUME ProjectOK, Working("qc"), NEW l \in Lines
    PROVE  Active = {}
BY DEF ProjectOK, PackedOK, Working

LEMMA QcEntryKept ==
    ASSUME NumbersOK, NumbersOK', ReworkOnRecord', project, ProjectOK, NEW l \in Lines,
           NEW c \in {QcAccepted, QcRejected}, NEW q \in 0 .. Quantity, QcQuantity(l, c, q)
    PROVE  ProjectOK'
<1>1. Working("qc") /\ pkgs' = pkgs
    BY DEF QcQuantity, packing
<1>2. Unpacked
    BY <1>1, QcUnpacked DEF Unpacked
<1>3. \A k \in Lines : ColumnsOK(k)'
    BY QcEntryColumns DEF ProjectOK
<1>4. QED
    BY <1>2, <1>3, UnpackedKept

LEMMA QcCompleteKept ==
    ASSUME NumbersOK, NumbersOK', ReworkOnRecord', project, PackingOK, ProjectOK, QcComplete
    PROVE  ProjectOK'
<1>1. /\ Working("qc") /\ UNCHANGED <<project, line, led, reworks, pkgs>> /\ OpenReworks = {}
      /\ step' = [step EXCEPT !["qc"] = "completed"]
    BY DEF QcComplete, Finish, quantities, repairs, packing
<1>2. "qc" \in RouteStages
    BY <1>1 DEF Working, WaitsAt
<1>3. ASSUME NEW l \in Lines PROVE ColumnsOK(l)'
    <2>1. line'[l]["qc_rework"] \in Nat
        BY DEF NumbersOK, Columns
    <2>2. line'[l]["qc_rework"] = 0 /\ InRework(l)' = 0
        BY <1>1, <2>1, QcThrough
    <2>3. ColumnsOK(l)
        BY DEF ProjectOK
    <2>4. QED
        BY <1>1, <1>2, <2>2, <2>3, QcNumbers DEF ColumnsOK
<1>4. CASE Lines = {}
    BY <1>1, <1>4 DEF ProjectOK, PackagesFull, Active
<1>5. CASE Lines # {}
    <2>1. Unpacked
        BY <1>1, <1>5, QcUnpacked DEF Unpacked
    <2>2. QED
        BY <1>3, <2>1, UnpackedKept
<1>6. QED
    BY <1>4, <1>5

LEMMA CreateKept ==
    ASSUME NumbersOK, project, ProjectOK, NEW l \in Lines, NEW q \in 1 .. Quantity, CreateRework(l, q)
    PROVE  ProjectOK'
<1>1. /\ Working("qc") /\ UNCHANGED <<project, step, pkgs>>
      /\ Proposed(l, "qc_rework", line[l]["qc_rework"] + q) <= Quantity
      /\ led' = Recorded(l, "rework_created", line[l]["qc_rework"] + q)
    BY DEF CreateRework, packing
<1>2. Unpacked
    BY <1>1, QcUnpacked DEF Unpacked
<1>3. ASSUME NEW k \in Lines PROVE ColumnsOK(k)'
    <2>1. /\ line'[k]["qc_rework"] = line[k]["qc_rework"] + (IF k = l THEN q ELSE 0)
          /\ line'[k]["qc_accepted"] = line[k]["qc_accepted"] /\ line'[k]["qc_rejected"] = line[k]["qc_rejected"]
        BY ReworkCreated
    <2>2. led'[k]["qc_approved"] = led[k]["qc_approved"] /\ led'[k]["qc_return_accepted"] = led[k]["qc_return_accepted"]
        <3>1. "rework_created" \in Operations /\ {"qc_approved", "qc_return_accepted"} \subseteq Operations
            BY DEF Operations
        <3>2. \A j \in Lines : \A o \in Operations : o # "rework_created" => led'[j][o] = led[j][o]
            BY <1>1, <3>1, SumRecorded
        <3>3. QED
            BY <3>1, <3>2
    <2>3. line[l]["qc_accepted"] + line[l]["qc_rejected"] + (line[l]["qc_rework"] + q) <= Quantity
        BY <1>1 DEF Proposed, QcAccepted, QcRejected
    <2>4. step'["qc"] # "completed" /\ "qc" \in RouteStages
        BY <1>1 DEF Working, WaitsAt
    <2>5. ColumnsOK(k)
        BY DEF ProjectOK
    <2>6. line'[k]["qc_accepted"] + line'[k]["qc_rejected"] + line'[k]["qc_rework"] <= Quantity
        <3>1. CASE k = l
            BY <2>1, <2>3, <3>1
        <3>2. CASE k # l
            BY <2>1, <2>5, <3>2, QcNumbers DEF ColumnsOK
        <3>3. QED
            BY <3>1, <3>2
    <2>7. QED
        BY <2>1, <2>2, <2>4, <2>5, <2>6 DEF ColumnsOK
<1>4. QED
    BY <1>2, <1>3, UnpackedKept

LEMMA DataKept ==
    ASSUME NumbersOK, NumbersOK', PackingOK, project, ProjectOK, NEW n \in 0 .. MaxPackages, NEW t \in 1 .. Quantity,
           PackagingData(n, t)
    PROVE  ProjectOK'
<1>1. QcAlone /\ ReworkAlone
    BY DEF PackagingData, QcAlone, ReworkAlone, PackingOK
<1>2. ReworkEased
    BY <1>1, EasedWhenAlone
<1>3. CASE n = 0
    BY <1>1, <1>2, <1>3, PackagesAsked, PackagesSame, AloneKept
<1>4. CASE n # 0
    <2>1. /\ Active' = 1 .. n /\ PackedQuantity(Active)' = t
          /\ \A i \in Active' : pkgs'[i].qty >= 1
        BY <1>4, PackagesAsked
    <2>2. /\ Working("packaging") /\ t <= PackEligible /\ step' = step /\ line' = line
        BY <1>4 DEF PackagingData
    <2>3. ASSUME NEW l \in Lines PROVE ColumnsOK(l)' /\ PackedOK(l)'
        <3>1. line'[l]["qc_rework"] \in Nat /\ ColumnsOK(l)
            BY DEF NumbersOK, Columns, ProjectOK
        <3>2. ColumnsOK(l)'
            BY <1>1, <1>2, <3>1, ColumnsKept
        <3>3. t <= ApprovedOf(l) /\ t \in Nat /\ t # 0
            <4>1. t \in Nat /\ t # 0
                BY ShopFloorAssumption
            <4>2. ApprovedOf(l) \in Nat
                BY QcNumbers DEF ApprovedOf, Most
            <4>3. PackEligible <= ApprovedOf(l) /\ PackEligible \in Int
                BY EligibleApproved
            <4>4. QED
                BY <2>2, <4>1, <4>2, <4>3
        <3>4. "qc" \in RouteStages /\ t <= line[l]["qc_accepted"]
            BY <3>1, <3>3, QcNumbers DEF ColumnsOK, ApprovedOf, Most
        <3>5. step["qc"] = "completed"
            BY <2>2, <3>4 DEF Working, WaitsAt, Rank
        <3>6. QED
            BY <2>1, <2>2, <3>2, <3>4, <3>5 DEF PackedOK
    <2>4. QED
        BY <2>1, <2>3 DEF ProjectOK, PackagesFull
<1>5. QED
    BY <1>3, <1>4

LEMMA ReturnPacked ==
    ASSUME NumbersOK, NumbersOK', PackingOK, ProjectOK, NEW kind \in ReturnKinds, NEW l \in Lines, NEW q \in 1 .. Quantity,
           Return(kind, l, q)
    PROVE  ProjectOK'
<1>1. CASE kind # "qc_return"
    <2>1. AllAlone
        BY <1>1, OtherReturns
    <2>2. ReworkEased
        BY <2>1, EasedWhenAlone DEF AllAlone
    <2>3. QED
        BY <2>1, <2>2, AloneKept DEF AllAlone
<1>2. CASE kind = "qc_return"
    <2>1. Return("qc_return", l, q)
        BY <1>2
    <2>2. NothingDownstream /\ pkgs' = pkgs
        BY <2>1 DEF Return, packing
    <2>3. Unpacked
        BY <2>2, NothingPacked DEF Unpacked, ProjectOK
    <2>4. \A k \in Lines : ColumnsOK(k)'
        BY <2>1, QcReturnColumns DEF ProjectOK
    <2>5. QED
        BY <2>3, <2>4, UnpackedKept
<1>3. QED
    BY <1>1, <1>2

LEMMA ReopenPacked ==
    ASSUME NumbersOK, PackingOK, ProjectOK, NEW g \in RouteStages, Reopen(g)
    PROVE  ProjectOK'
<1>1. /\ NothingDownstream /\ UNCHANGED <<line, led, reworks, pkgs>>
      /\ step' = [step EXCEPT ![g] = IF g = "kraska" THEN "drying" ELSE "started"]
    BY DEF Reopen, repairs, packing
<1>2. Unpacked
    BY <1>1, NothingPacked DEF Unpacked, ProjectOK
<1>3. step'["qc"] = "completed" => step["qc"] = "completed"
    <2>1. step \in [Stages -> StepStates] /\ "qc" \in Stages
        BY DEF PackingOK, Stages
    <2>2. QED
        BY <1>1, <2>1
<1>4. \A l \in Lines : InRework(l)' = InRework(l)
    BY <1>1 DEF InRework, OpenReworks
<1>5. \A l \in Lines : ColumnsOK(l)'
    BY <1>1, <1>3, <1>4 DEF ProjectOK, ColumnsOK
<1>6. QED
    BY <1>2, <1>5, UnpackedKept

\* Types of steps and packages.
LEMMA PackingKept ==
    ASSUME NumbersOK, PackingOK, [Next]_floor
    PROVE  PackingOK'
<1>0. "qc" \in Stages /\ step \in [Stages -> StepStates] /\ RouteStages \subseteq Stages
    BY ShopFloorAssumption DEF Stages, PackingOK
<1>1. ASSUME AllAlone PROVE PackingOK'
    BY <1>1 DEF AllAlone, QcAlone, PackagesAlone, PackingOK
<1>2. ASSUME NEW l \in Lines, NEW c \in {QcAccepted, QcRejected}, NEW q \in 0 .. Quantity, QcQuantity(l, c, q)
      PROVE  PackingOK'
    BY <1>0, <1>2, StepSet DEF QcQuantity, EnterColumn, Enter, packing, PackingOK
<1>3. CASE QcComplete
    BY <1>0, <1>3, StepSet DEF QcComplete, packing, PackingOK
<1>4. ASSUME NEW l \in Lines, NEW q \in 1 .. Quantity, CreateRework(l, q) PROVE PackingOK'
    BY <1>4 DEF CreateRework, packing, PackingOK
<1>5. ASSUME NEW i \in DOMAIN reworks, StartRework(i) \/ CompleteRework(i) PROVE PackingOK'
    BY <1>5 DEF StartRework, CompleteRework, packing, PackingOK
<1>6. ASSUME NEW n \in 0 .. MaxPackages, NEW t \in 1 .. Quantity, PackagingData(n, t) PROVE PackingOK'
    <2>1. pkgs' \in Seq(Packages) /\ step' = step
        BY <1>6, PackagesAsked DEF PackagingData
    <2>2. QED
        BY <2>1 DEF PackingOK
<1>7. ASSUME NEW kind, NEW l, NEW q, Return(kind, l, q) PROVE PackingOK'
    BY <1>7 DEF Return, packing, PackingOK
<1>8. ASSUME NEW g \in RouteStages, Reopen(g) PROVE PackingOK'
    BY <1>0, <1>8 DEF Reopen, packing, PackingOK, StepStates
<1>9. CASE QcTerminal
    BY <1>1, <1>2, <1>3, <1>4, <1>5, <1>9, RestAlone DEF QcTerminal
<1>10. CASE PackagingTerminal
    BY <1>1, <1>6, <1>10, RestAlone DEF PackagingTerminal
<1>11. CASE Corrections
    BY <1>7, <1>8, <1>11 DEF Corrections
<1>12. QED
    BY <1>1, <1>9, <1>10, <1>11, StationsAlone, RestAlone DEF Next

\* Every piece in rework stays on record.
LEMMA RecordKept ==
    ASSUME NumbersOK, PackingOK, ReworkOnRecord, [Next]_floor
    PROVE  ReworkOnRecord'
<1>1. ASSUME ReworkAlone, project' = project PROVE ReworkOnRecord'
    BY <1>1, ReworkStays
<1>2. ASSUME AllAlone PROVE ReworkOnRecord'
    BY <1>1, <1>2 DEF AllAlone, QcAlone
<1>3. ASSUME NEW l \in Lines, NEW c \in {QcAccepted, QcRejected}, NEW q \in 0 .. Quantity, QcQuantity(l, c, q)
      PROVE  ReworkOnRecord'
    BY <1>1, <1>3, QcEntry
<1>4. CASE QcComplete
    BY <1>1, <1>4 DEF QcComplete, quantities, ReworkAlone
<1>5. ASSUME NEW l \in Lines, NEW q \in 1 .. Quantity, CreateRework(l, q) PROVE ReworkOnRecord'
    <2>1. /\ \A k \in Lines : line'[k]["qc_rework"] = line[k]["qc_rework"] + (IF k = l THEN q ELSE 0)
          /\ \A k \in Lines : InRework(k)' = InRework(k) + (IF k = l THEN q ELSE 0)
        BY <1>5, ReworkCreated
    <2>2. UNCHANGED <<project, reworked>> /\ q \in Nat
        BY <1>5, ShopFloorAssumption DEF CreateRework
    <2>3. ASSUME NEW k \in Lines
          PROVE  line'[k]["qc_rework"] <= InRework(k)' + (IF project' THEN 0 ELSE reworked'[k])
        <3>1. line[k]["qc_rework"] <= InRework(k) + (IF project THEN 0 ELSE reworked[k])
            BY DEF ReworkOnRecord
        <3>2. reworked[k] \in Nat
            BY Numbers
        <3>3. CASE project
            BY <2>1, <2>2, <3>1, <3>3, QcNumbers
        <3>4. CASE ~project
            BY <2>1, <2>2, <3>1, <3>2, <3>4, QcNumbers
        <3>5. QED
            BY <3>3, <3>4
    <2>4. QED
        BY <2>3 DEF ReworkOnRecord
<1>6. ASSUME NEW i \in DOMAIN reworks, StartRework(i) \/ CompleteRework(i) PROVE ReworkOnRecord'
    BY <1>6, ReworkStarted, ReworkCompleted
<1>7. ASSUME NEW n \in 0 .. MaxPackages, NEW t \in 1 .. Quantity, PackagingData(n, t) PROVE ReworkOnRecord'
    BY <1>1, <1>7 DEF PackagingData, ReworkAlone
<1>8. ASSUME NEW kind \in ReturnKinds, NEW l \in Lines, NEW q \in 1 .. Quantity, Return(kind, l, q)
      PROVE  ReworkOnRecord'
    <2>1. CASE kind # "qc_return"
        BY <1>2, <1>8, <2>1, OtherReturns
    <2>2. CASE kind = "qc_return"
        <3> DEFINE w == Least(q, line[l]["qc_rework"])
        <3>1. Return("qc_return", l, q)
            BY <1>8, <2>2
        <3>2. /\ w \in Nat /\ w <= q /\ w <= line[l]["qc_rework"]
              /\ \A k \in Lines : /\ line'[k]["qc_rework"] = line[k]["qc_rework"] - (IF k = l THEN w ELSE 0)
                                  /\ InRework(k)' = InRework(k) + (IF k = l THEN q ELSE 0)
            BY <3>1, QcReturned
        <3> HIDE DEF w
        <3>3. project /\ project' = project /\ q \in Nat
            BY <3>1, ShopFloorAssumption DEF Return
        <3>4. ASSUME NEW k \in Lines PROVE line'[k]["qc_rework"] <= InRework(k)'
            <4>1. line[k]["qc_rework"] <= InRework(k) + 0
                BY <3>3 DEF ReworkOnRecord
            <4>2. QED
                BY <3>2, <3>3, <4>1, QcNumbers
        <3>5. \A k \in Lines : InRework(k)' \in Nat
            BY <3>2, <3>3, QcNumbers
        <3>6. QED
            BY <3>3, <3>4, <3>5 DEF ReworkOnRecord
    <2>3. QED
        BY <2>1, <2>2
<1>9. ASSUME NEW g \in RouteStages, Reopen(g) PROVE ReworkOnRecord'
    BY <1>1, <1>9 DEF Reopen, ReworkAlone
<1>10. CASE QcTerminal
    BY <1>2, <1>3, <1>4, <1>5, <1>6, <1>10, RestAlone DEF QcTerminal
<1>11. CASE PackagingTerminal
    BY <1>2, <1>7, <1>11, RestAlone DEF PackagingTerminal
<1>12. CASE Corrections
    BY <1>8, <1>9, <1>12 DEF Corrections
<1>13. QED
    BY <1>2, <1>10, <1>11, <1>12, StationsAlone, RestAlone DEF Next

\* What is packed stays approved.
LEMMA ProjectKept ==
    ASSUME NumbersOK, NumbersOK', PackingOK, ReworkOnRecord, ReworkOnRecord', project, ProjectOK, [Next]_floor
    PROVE  ProjectOK'
<1>1. ASSUME QcAlone, ReworkEased, PackagesAlone PROVE ProjectOK'
    BY <1>1, AloneKept
<1>2. ASSUME AllAlone PROVE ProjectOK'
    BY <1>1, <1>2, EasedWhenAlone DEF AllAlone
<1>3. CASE QcTerminal
    <2>1. CASE QcAccept \/ QcStart
        BY <1>2, <2>1, RestAlone
    <2>2. ASSUME NEW i \in DOMAIN reworks, StartRework(i) \/ CompleteRework(i) PROVE ProjectOK'
        BY <1>1, <2>2, ReworkStarted, ReworkCompleted
    <2>3. QED
        BY <1>3, <2>1, <2>2, QcCompleteKept, QcEntryKept, CreateKept DEF QcTerminal
<1>4. CASE PackagingTerminal
    BY <1>2, <1>4, RestAlone, DataKept DEF PackagingTerminal
<1>5. CASE Corrections
    BY <1>5, ReturnPacked, ReopenPacked DEF Corrections
<1>6. QED
    BY <1>2, <1>3, <1>4, <1>5, StationsAlone, RestAlone DEF Next

\* The two invariants together.
PackInv == PackingOK /\ ReworkOnRecord /\ (project => ProjectOK)

LEMMA InitPacking == Init => PackInv
<1> SUFFICES ASSUME Init PROVE PackInv
    OBVIOUS
<1>1. reworks = <<>> /\ pkgs = <<>> /\ step = [g \in Stages |-> "pending"]
    BY DEF Init
<1>2. PackingOK /\ Active = {} /\ OpenReworks = {}
    BY <1>1 DEF PackingOK, StepStates, Active, OpenReworks
<1>3. \A l \in Lines : /\ \A c \in Columns : line[l][c] = 0
                       /\ \A o \in Operations : led[l][o] = 0
                       /\ reworked[l] = 0
    BY DEF Init
<1>4. \A l \in Lines : /\ line[l]["qc_accepted"] = 0 /\ line[l]["qc_rejected"] = 0 /\ line[l]["qc_rework"] = 0
                       /\ led[l]["qc_approved"] = 0 /\ led[l]["qc_return_accepted"] = 0 /\ reworked[l] = 0
    BY <1>3 DEF Columns, Operations
<1>5. \A l \in Lines : InRework(l) = 0
    BY <1>2, NoOpenReworks
<1>6. ReworkOnRecord
    BY <1>4, <1>5 DEF ReworkOnRecord
<1>7. step["qc"] = "pending" /\ Quantity \in Nat
    BY <1>1, ShopFloorAssumption DEF Stages
<1>8. ProjectOK
    BY <1>2, <1>4, <1>7 DEF ProjectOK, PackagesFull, ColumnsOK, PackedOK
<1>9. QED
    BY <1>2, <1>6, <1>8 DEF PackInv

THEOREM PackedInvariant == Spec => []PackInv
<1>1. Init => PackInv
    BY InitPacking
<1>2. IInv /\ PackInv /\ [Next]_floor => PackInv'
    <2> SUFFICES ASSUME IInv, PackInv, [Next]_floor PROVE PackInv'
        OBVIOUS
    <2>1. NumbersOK /\ NumbersOK' /\ project' = project
        BY NextKept DEF Kept, IInv
    <2>2. PackingOK' /\ ReworkOnRecord'
        BY <2>1, PackingKept, RecordKept DEF PackInv
    <2>3. project' => ProjectOK'
        BY <2>1, <2>2, ProjectKept DEF PackInv
    <2>4. QED
        BY <2>2, <2>3 DEF PackInv
<1>3. QED
    BY <1>1, <1>2, EvidenceBacked, PTL DEF Spec

\* No piece is ever in a rework column without a record that brings it back: of a project job an
\* open one, whatever is returned, completed or corrected in between.
THEOREM ReworkAlwaysRecorded == Spec => []ReworkOnRecord
<1>1. PackInv => ReworkOnRecord
    BY DEF PackInv
<1>2. QED
    BY <1>1, PackedInvariant, PTL

\* What a project job has packed stays approved, of every detail, and out of rework.
THEOREM PackedStaysApproved == Spec => []PackedIsApproved
<1>1. IInv /\ PackInv => PackedIsApproved
    <2> SUFFICES ASSUME IInv, PackInv, project, Active # {}, NEW l \in Lines
                 PROVE  /\ PackedQuantity(Active) <= line[l]["qc_accepted"]
                        /\ PackedQuantity(Active) + InRework(l) <= Quantity
        BY DEF PackedIsApproved
    <2>1. ColumnsOK(l) /\ PackedOK(l) /\ NumbersOK /\ PackingOK
        BY DEF PackInv, ProjectOK, IInv
    <2>2. PackedQuantity(Active) <= line[l]["qc_accepted"] /\ line[l]["qc_accepted"] + InRework(l) <= Quantity
        BY <2>1 DEF ColumnsOK, PackedOK
    <2>3. PackedQuantity(Active) \in Nat
        BY <2>1, PackedNumber
    <2>4. QED
        BY <2>1, <2>2, <2>3, QcNumbers
<1>2. QED
    BY <1>1, PackedInvariant, EvidenceBacked, PTL

-----------------------------------------------------------------------------
(* Product templates: the rows, and the designs a session reads and writes. *)

StepLists == UNION {[D -> {"planned", "copied"}] : D \in SUBSET Orders}
RouteRows == [template : Templates, version : 1 .. MaxVersion, active : BOOLEAN, flag : BOOLEAN, steps : StepLists]
FlagRows == [template : Templates, version : 1 .. MaxVersion, active : BOOLEAN, flag : BOOLEAN]
DrawingRows == [template : Templates, active : BOOLEAN, primary : BOOLEAN]
Designs == [routes : Seq(FlagRows), default : Nat, drawings : Seq(DrawingRows)]

\* The rows of a template agree: the default route is the only active one that is flagged, and one
\* drawing is primary at most.
RoutesAgree(rows, default, t) ==
    /\ \A i \in DOMAIN rows : rows[i].template = t /\ rows[i].active => (rows[i].flag <=> i = default)
    /\ (\E i \in DOMAIN rows : rows[i].template = t /\ rows[i].active) =>
            default \in DOMAIN rows /\ rows[default].template = t /\ rows[default].active
DrawingsAgree(rows, t) ==
    \A i, k \in DOMAIN rows :
        /\ rows[i].template = t /\ rows[i].active /\ rows[i].primary
        /\ rows[k].template = t /\ rows[k].active /\ rows[k].primary
        => i = k

\* The least of some numbers, and the first of some rows by version.
LEMMA LeastNumber == ASSUME NEW S \in SUBSET Nat, S # {} PROVE \E x \in S : \A y \in S : x <= y
<1>1. PICK x \in S : \A y \in S : ~(<<y, x>> \in OpToRel(<, Nat))
    <2>1. IsWellFoundedOn(OpToRel(<, Nat), Nat)
        BY NatLessThanWellFounded
    <2>2. QED
        BY <2>1, WFMin
<1>2. ASSUME NEW y \in S, y < x PROVE FALSE
    <2>1. <<y, x>> \in OpToRel(<, Nat)
        BY <1>2 DEF OpToRel
    <2>2. QED
        BY <1>1, <2>1
<1>3. QED
    BY <1>2

LEMMA FirstByVersion ==
    ASSUME NEW S \in SUBSET Nat, S # {}, NEW v, \A i \in S : v[i] \in 1 .. MaxVersion
    PROVE  \E i \in S : \A k \in S : v[i] > v[k] \/ (v[i] = v[k] /\ i <= k)
<1>0. MaxVersion \in Nat
    BY TemplatesAssumption
<1> DEFINE T == {MaxVersion - v[i] : i \in S}
<1>1. T \in SUBSET Nat /\ T # {}
    BY <1>0
<1>2. PICK m \in T : \A y \in T : m <= y
    BY <1>1, LeastNumber
<1> DEFINE U == {i \in S : MaxVersion - v[i] = m}
<1>3. U \in SUBSET Nat /\ U # {}
    BY <1>2
<1>4. PICK i \in U : \A y \in U : i <= y
    BY <1>3, LeastNumber
<1>5. ASSUME NEW k \in S PROVE v[i] > v[k] \/ (v[i] = v[k] /\ i <= k)
    <2>1. MaxVersion - v[i] = m /\ m <= MaxVersion - v[k] /\ v[i] \in 1 .. MaxVersion /\ v[k] \in 1 .. MaxVersion
        BY <1>2
    <2>2. v[i] >= v[k]
        BY <1>0, <2>1
    <2>3. v[i] = v[k] => k \in U
        BY <2>1
    <2>4. QED
        BY <1>0, <1>4, <2>1, <2>2, <2>3
<1>6. QED
    BY <1>5

LEMMA FirstRouteThere ==
    ASSUME NEW d, NEW t, DOMAIN d.routes \subseteq Nat, \A i \in DOMAIN d.routes : d.routes[i].version \in 1 .. MaxVersion,
           RoutesOf(d, t) # {}
    PROVE  FirstRoute(d, t) \in RoutesOf(d, t)
<1> DEFINE R == RoutesOf(d, t)
           v == [i \in R |-> d.routes[i].version]
<1>1. R \in SUBSET Nat /\ \A i \in R : v[i] \in 1 .. MaxVersion
    BY DEF RoutesOf
<1>2. \E i \in R : \A k \in R : v[i] > v[k] \/ (v[i] = v[k] /\ i <= k)
    <2> HIDE DEF R, v
    <2>1. QED
        BY <1>1, FirstByVersion DEF R
<1>3. QED
    BY <1>2 DEF FirstRoute

LEMMA FirstDrawingThere ==
    ASSUME NEW d, NEW t, DOMAIN d.drawings \subseteq Nat, \A i \in DOMAIN d.drawings : d.drawings[i].primary \in BOOLEAN,
           DrawingsOf(d, t) # {}
    PROVE  FirstDrawing(d, t) \in DrawingsOf(d, t)
<1> DEFINE D == DrawingsOf(d, t)
           P == {i \in D : d.drawings[i].primary}
<1>1. D \in SUBSET Nat /\ P \in SUBSET Nat /\ \A i \in D : d.drawings[i].primary \in BOOLEAN
    BY DEF DrawingsOf
<1>2. \E i \in D : \A k \in D :
        \/ d.drawings[i].primary /\ ~d.drawings[k].primary
        \/ d.drawings[i].primary = d.drawings[k].primary /\ i <= k
    <2>1. CASE P # {}
        <3>1. PICK i \in P : \A k \in P : i <= k
            BY <1>1, <2>1, LeastNumber
        <3>2. ASSUME NEW k \in D PROVE \/ d.drawings[i].primary /\ ~d.drawings[k].primary
                                       \/ d.drawings[i].primary = d.drawings[k].primary /\ i <= k
            <4>1. CASE k \in P
                BY <1>1, <3>1, <4>1
            <4>2. CASE k \notin P
                BY <3>1, <4>2
            <4>3. QED
                BY <4>1, <4>2
        <3>3. QED
            BY <3>2
    <2>2. CASE P = {}
        <3>1. PICK i \in D : \A k \in D : i <= k
            BY <1>1, LeastNumber
        <3>2. \A k \in D : d.drawings[i].primary = d.drawings[k].primary
            BY <1>1, <2>2
        <3>3. QED
            BY <3>1, <3>2
    <2>3. QED
        BY <2>1, <2>2
<1>3. QED
    BY <1>2 DEF FirstDrawing

\* What a handler makes of the routes it has read.
Extends(rows, more) ==
    /\ Len(more) \in {Len(rows), Len(rows) + 1}
    /\ DOMAIN more = 1 .. Len(more)

RoutesChange(rows, more, t) ==
    /\ Extends(rows, more)
    /\ \A i \in DOMAIN rows :
        /\ more[i] \in FlagRows /\ more[i].template = rows[i].template
        /\ rows[i].template # t => more[i] = rows[i]
    /\ Len(more) = Len(rows) + 1 => more[Len(more)] \in RouteRows /\ more[Len(more)].template = t

DrawingsChange(rows, more, t) ==
    /\ Extends(rows, more)
    /\ \A i \in DOMAIN rows :
        /\ more[i] \in DrawingRows /\ more[i].template = rows[i].template
        /\ rows[i].template # t => more[i] = rows[i]
    /\ Len(more) = Len(rows) + 1 => more[Len(more)] \in DrawingRows /\ more[Len(more)].template = t

LEMMA MarkedDefault ==
    ASSUME NEW d, NEW t, NEW r \in DOMAIN d.routes, "routes" \in DOMAIN d, "default" \in DOMAIN d,
           \A i \in DOMAIN d.routes : {"template", "active", "flag"} \subseteq DOMAIN d.routes[i],
           d.routes[r].template = t, d.routes[r].active
    PROVE  LET e == MarkDefault(d, t, r)
           IN /\ e.default = r /\ DOMAIN e.routes = DOMAIN d.routes
              /\ \A i \in DOMAIN d.routes :
                    e.routes[i] = IF i \in RoutesOf(d, t) THEN [d.routes[i] EXCEPT !.flag = (i = r)] ELSE d.routes[i]
              /\ RoutesAgree(e.routes, e.default, t)
<1> DEFINE e == MarkDefault(d, t, r)
<1>1. r \in RoutesOf(d, t)
    BY DEF RoutesOf
<1>2. e.default = r /\ e.routes = [i \in DOMAIN d.routes |-> IF i \in RoutesOf(d, t) THEN [d.routes[i] EXCEPT !.flag = (i = r)] ELSE d.routes[i]]
    BY <1>1 DEF MarkDefault
<1> HIDE DEF e
<1>3. ASSUME NEW i \in RoutesOf(d, t) PROVE e.routes[i].template = d.routes[i].template /\ e.routes[i].active = d.routes[i].active /\ e.routes[i].flag = (i = r)
    <2>1. i \in DOMAIN d.routes
        BY DEF RoutesOf
    <2>2. e.routes[i] = [d.routes[i] EXCEPT !.flag = (i = r)]
        BY <1>2, <2>1
    <2>3. QED
        BY <2>1, <2>2
<1>4. \A i \in DOMAIN d.routes \ RoutesOf(d, t) : e.routes[i] = d.routes[i]
    BY <1>2
<1>5. DOMAIN e.routes = DOMAIN d.routes
    BY <1>2
<1>6. RoutesAgree(e.routes, r, t)
    BY <1>1, <1>3, <1>4, <1>5 DEF RoutesAgree, RoutesOf
<1>7. QED
    BY <1>2, <1>5, <1>6 DEF e

LEMMA DesignFields ==
    ASSUME NEW d \in Designs
    PROVE  /\ DOMAIN d = {"routes", "default", "drawings"} /\ d.routes \in Seq(FlagRows) /\ d.default \in Nat /\ d.drawings \in Seq(DrawingRows)
           /\ DOMAIN d.routes = 1 .. Len(d.routes) /\ Len(d.routes) \in Nat /\ DOMAIN d.drawings = 1 .. Len(d.drawings) /\ Len(d.drawings) \in Nat
           /\ \A i \in DOMAIN d.routes : d.routes[i] \in FlagRows
           /\ \A i \in DOMAIN d.drawings : d.drawings[i] \in DrawingRows
BY DEF Designs

\* Marking a route of a design, once its rows are.
LEMMA MarkedChange ==
    ASSUME NEW d, NEW t, NEW rows \in Seq(FlagRows), NEW r \in DOMAIN d.routes, "routes" \in DOMAIN d, "default" \in DOMAIN d,
           RoutesChange(rows, d.routes, t), d.routes[r].template = t, d.routes[r].active
    PROVE  LET e == MarkDefault(d, t, r)
           IN RoutesChange(rows, e.routes, t) /\ RoutesAgree(e.routes, e.default, t) /\ e.default = r
<1> DEFINE e == MarkDefault(d, t, r)
<1>0. DOMAIN rows = 1 .. Len(rows) /\ Len(rows) \in Nat
    OBVIOUS
<1>1. ASSUME NEW i \in DOMAIN d.routes PROVE d.routes[i] \in FlagRows \cup RouteRows
    BY <1>0 DEF RoutesChange, Extends
<1>2. \A i \in DOMAIN d.routes : {"template", "active", "flag"} \subseteq DOMAIN d.routes[i]
    BY <1>1 DEF FlagRows, RouteRows
<1>3. /\ e.default = r /\ DOMAIN e.routes = DOMAIN d.routes
      /\ \A i \in DOMAIN d.routes :
            e.routes[i] = IF i \in RoutesOf(d, t) THEN [d.routes[i] EXCEPT !.flag = (i = r)] ELSE d.routes[i]
      /\ RoutesAgree(e.routes, e.default, t)
    BY <1>2, MarkedDefault
<1>4. e.routes = [i \in DOMAIN d.routes |-> IF i \in RoutesOf(d, t) \cup {r} THEN [d.routes[i] EXCEPT !.flag = (i = r)] ELSE d.routes[i]]
    BY DEF MarkDefault
<1>5. Len(e.routes) = Len(d.routes)
    BY <1>0, <1>3, <1>4 DEF RoutesChange, Extends
<1> HIDE DEF e
<1>6. ASSUME NEW i \in DOMAIN d.routes
      PROVE  /\ e.routes[i].template = d.routes[i].template
             /\ d.routes[i] \in FlagRows => e.routes[i] \in FlagRows
             /\ d.routes[i] \in RouteRows => e.routes[i] \in RouteRows
             /\ d.routes[i].template # t => e.routes[i] = d.routes[i]
    <2>1. d.routes[i].template # t => i \notin RoutesOf(d, t)
        BY DEF RoutesOf
    <2>2. [d.routes[i] EXCEPT !.flag = (i = r)].template = d.routes[i].template
        BY <1>1 DEF FlagRows, RouteRows
    <2>3. d.routes[i] \in FlagRows => [d.routes[i] EXCEPT !.flag = (i = r)] \in FlagRows
        BY DEF FlagRows
    <2>4. d.routes[i] \in RouteRows => [d.routes[i] EXCEPT !.flag = (i = r)] \in RouteRows
        BY DEF RouteRows
    <2>5. QED
        BY <1>3, <2>1, <2>2, <2>3, <2>4
<1>7. RoutesChange(rows, e.routes, t)
    BY <1>0, <1>3, <1>5, <1>6 DEF RoutesChange, Extends
<1>8. QED
    BY <1>3, <1>7 DEF e

LEMMA EmptySteps == <<>> \in StepLists
<1>1. <<>> \in [{} -> {"planned", "copied"}]
    OBVIOUS
<1>2. {} \in SUBSET Orders
    OBVIOUS
<1>3. QED
    BY <1>1, <1>2 DEF StepLists

\* What a handler makes of a design.
DesignChange(d, e, t) ==
    /\ RoutesChange(d.routes, e.routes, t) /\ DrawingsChange(d.drawings, e.drawings, t)
    /\ e.default \in Nat /\ (e.default = d.default \/ e.default = 0 \/ e.default \in DOMAIN e.routes)
    /\ RoutesAgree(d.routes, d.default, t) => RoutesAgree(e.routes, e.default, t)
    /\ DrawingsAgree(d.drawings, t) => DrawingsAgree(e.drawings, t)

LEMMA RouteAdded ==
    ASSUME NEW d \in Designs, NEW t \in Templates, NEW version \in 1 .. MaxVersion, NEW wanted \in BOOLEAN
    PROVE  LET e == AddRoute(d, t, version, wanted)
           IN /\ RoutesChange(d.routes, e.routes, t) /\ e.drawings = d.drawings
              /\ e.default \in Nat /\ (e.default = d.default \/ e.default \in DOMAIN e.routes)
              /\ RoutesAgree(d.routes, d.default, t) => RoutesAgree(e.routes, e.default, t)
<1> DEFINE new == [template |-> t, version |-> version, active |-> TRUE, flag |-> FALSE, steps |-> <<>>]
           a == [d EXCEPT !.routes = Append(@, new)]
           e == AddRoute(d, t, version, wanted)
           n == Len(d.routes)
<1>1. new \in RouteRows /\ new.template = t /\ new.active /\ ~new.flag
    BY EmptySteps DEF RouteRows
<1>2. e = IF wanted \/ RoutesOf(d, t) = {} THEN MarkDefault(a, t, Len(a.routes)) ELSE a
    BY DEF AddRoute
<1> HIDE DEF new, e
<1>3. /\ a.routes = Append(d.routes, new) /\ a.default = d.default /\ a.drawings = d.drawings
      /\ "routes" \in DOMAIN a /\ "default" \in DOMAIN a
    BY DesignFields
<1> HIDE DEF a
<1>4. /\ DOMAIN a.routes = 1 .. n + 1 /\ Len(a.routes) = n + 1 /\ n \in Nat /\ a.routes[n + 1] = new
      /\ \A i \in 1 .. n : a.routes[i] = d.routes[i] /\ d.routes[i] \in FlagRows
      /\ DOMAIN d.routes = 1 .. n /\ d.routes \in Seq(FlagRows)
    BY <1>3, DesignFields
<1>5. RoutesChange(d.routes, a.routes, t)
    BY <1>1, <1>4 DEF RoutesChange, Extends
<1>6. CASE wanted \/ RoutesOf(d, t) = {}
    <2>1. e = MarkDefault(a, t, n + 1)
        BY <1>2, <1>4, <1>6
    <2>2. RoutesChange(d.routes, e.routes, t) /\ RoutesAgree(e.routes, e.default, t) /\ e.default = n + 1
        <3>1. n + 1 \in DOMAIN a.routes /\ a.routes[n + 1].template = t /\ a.routes[n + 1].active
            BY <1>1, <1>4
        <3>2. d.routes \in Seq(FlagRows)
            BY <1>4
        <3>3. PICK m : m = n + 1
            OBVIOUS
        <3> HIDE DEF n
        <3>4. LET x == MarkDefault(a, t, m)
              IN RoutesChange(d.routes, x.routes, t) /\ RoutesAgree(x.routes, x.default, t) /\ x.default = m
            BY <1>3, <1>5, <3>1, <3>2, <3>3, MarkedChange
        <3>5. QED
            BY <2>1, <3>3, <3>4
    <2>3. e.drawings = d.drawings /\ DOMAIN e.routes = 1 .. n + 1
        <3>1. e.drawings = a.drawings
            BY <2>1 DEF MarkDefault
        <3>2. DOMAIN e.routes = DOMAIN a.routes
            BY <1>3, <2>1 DEF MarkDefault
        <3>3. QED
            BY <1>3, <1>4, <3>1, <3>2
    <2>4. QED
        BY <1>4, <2>2, <2>3 DEF e
<1>7. CASE ~(wanted \/ RoutesOf(d, t) = {})
    <2>1. e = a
        BY <1>2, <1>7
    <2>2. RoutesAgree(d.routes, d.default, t) => RoutesAgree(a.routes, d.default, t)
        <3>1. SUFFICES ASSUME RoutesAgree(d.routes, d.default, t) PROVE RoutesAgree(a.routes, d.default, t)
            OBVIOUS
        <3>2. d.default \in 1 .. n /\ d.routes[d.default].template = t /\ d.routes[d.default].active
            BY <1>4, <1>7, <3>1 DEF RoutesAgree, RoutesOf
        <3>3. \A i \in 1 .. n + 1 : i \in 1 .. n \/ i = n + 1
            BY <1>4
        <3>4. n + 1 # d.default /\ 1 .. n \subseteq 1 .. n + 1
            BY <1>4, <3>2
        <3>5. QED
            BY <1>1, <1>4, <3>1, <3>2, <3>3, <3>4 DEF RoutesAgree
    <2>3. d.default \in Nat
        BY DesignFields
    <2>4. QED
        BY <1>3, <1>5, <2>1, <2>2, <2>3 DEF e
<1>8. QED
    BY <1>6, <1>7

LEMMA RouteMarked ==
    ASSUME NEW d \in Designs, NEW t \in Templates, NEW r \in RoutesOf(d, t)
    PROVE  LET e == MarkDefault(d, t, r)
           IN /\ RoutesChange(d.routes, e.routes, t) /\ e.drawings = d.drawings
              /\ e.default \in Nat /\ e.default \in DOMAIN e.routes /\ RoutesAgree(e.routes, e.default, t)
<1> DEFINE e == MarkDefault(d, t, r)
<1>1. r \in DOMAIN d.routes /\ d.routes[r].template = t /\ d.routes[r].active
    BY DEF RoutesOf
<1>2. RoutesChange(d.routes, d.routes, t)
    BY DesignFields DEF RoutesChange, Extends
<1>3. RoutesChange(d.routes, e.routes, t) /\ RoutesAgree(e.routes, e.default, t) /\ e.default = r
    BY <1>1, <1>2, DesignFields, MarkedChange
<1>4. e.drawings = d.drawings
    BY DesignFields DEF MarkDefault
<1>5. r \in DOMAIN e.routes /\ r \in Nat
    BY <1>1, <1>3, DesignFields DEF RoutesChange, Extends
<1>6. QED
    BY <1>3, <1>4, <1>5

LEMMA RouteRemoved ==
    ASSUME NEW d \in Designs, NEW t \in Templates, NEW r \in RoutesOf(d, t)
    PROVE  LET e == RemoveRoute(d, t, r)
           IN /\ RoutesChange(d.routes, e.routes, t) /\ e.drawings = d.drawings
              /\ e.default \in Nat /\ (e.default = d.default \/ e.default = 0 \/ e.default \in DOMAIN e.routes)
              /\ RoutesAgree(d.routes, d.default, t) => RoutesAgree(e.routes, e.default, t)
<1> DEFINE a == [d EXCEPT !.routes[r].active = FALSE, !.routes[r].flag = FALSE]
           row == [d.routes[r] EXCEPT !.active = FALSE, !.flag = FALSE]
           e == RemoveRoute(d, t, r)
<1>1. r \in DOMAIN d.routes /\ d.routes[r].template = t /\ d.routes[r].active /\ d.routes[r] \in FlagRows
    BY DesignFields DEF RoutesOf
<1>2. a.routes = [d.routes EXCEPT ![r] = row] /\ a.default = d.default /\ a.drawings = d.drawings /\ DOMAIN a = DOMAIN d
    BY <1>1, DesignFields
<1>3. row \in FlagRows /\ row.template = t /\ row.active = FALSE /\ row.flag = FALSE
    BY <1>1 DEF FlagRows
<1>4. e = IF a.default # r THEN a ELSE IF RoutesOf(a, t) = {} THEN [a EXCEPT !.default = 0] ELSE MarkDefault(a, t, FirstRoute(a, t))
    <2>1. e = IF d.default # r THEN a ELSE IF RoutesOf(a, t) = {} THEN [a EXCEPT !.default = 0] ELSE MarkDefault(a, t, FirstRoute(a, t))
        BY DEF RemoveRoute
    <2>2. QED
        BY <1>2, <2>1
<1> HIDE DEF a, row, e
<1>5. a \in Designs
    <2>1. a.routes \in Seq(FlagRows)
        BY <1>1, <1>2, <1>3, DesignFields
    <2>2. a = [routes |-> a.routes, default |-> a.default, drawings |-> a.drawings]
        <3>1. a = [d EXCEPT !.routes = a.routes]
            BY <1>1, <1>2, DesignFields DEF a
        <3>2. QED
            BY <1>2, <3>1, DesignFields DEF Designs
    <2>3. QED
        BY <1>2, <2>1, <2>2, DesignFields DEF Designs
<1>6. /\ Len(a.routes) = Len(d.routes) /\ DOMAIN a.routes = DOMAIN d.routes /\ a.routes[r] = row
      /\ \A i \in DOMAIN d.routes \ {r} : a.routes[i] = d.routes[i]
    BY <1>1, <1>2, <1>5, DesignFields
<1>7. RoutesChange(d.routes, a.routes, t)
    BY <1>1, <1>3, <1>6, DesignFields DEF RoutesChange, Extends
<1>8. CASE a.default # r
    <2>1. e = a
        BY <1>4, <1>8
    <2>2. RoutesAgree(d.routes, d.default, t) => RoutesAgree(a.routes, d.default, t)
        BY <1>1, <1>2, <1>3, <1>6, <1>8 DEF RoutesAgree
    <2>3. QED
        BY <1>2, <1>7, <2>1, <2>2, DesignFields DEF e
<1>9. CASE a.default = r /\ RoutesOf(a, t) = {}
    <2>1. e.routes = a.routes /\ e.default = 0 /\ e.drawings = a.drawings
        BY <1>2, <1>4, <1>9, DesignFields
    <2>2. RoutesAgree(a.routes, 0, t)
        BY <1>9 DEF RoutesAgree, RoutesOf
    <2>3. QED
        BY <1>2, <1>7, <2>1, <2>2 DEF e
<1>10. CASE a.default = r /\ RoutesOf(a, t) # {}
    <2>1. e = MarkDefault(a, t, FirstRoute(a, t))
        BY <1>4, <1>10
    <2>2. FirstRoute(a, t) \in RoutesOf(a, t)
        <3>1. DOMAIN a.routes \subseteq Nat /\ \A i \in DOMAIN a.routes : a.routes[i].version \in 1 .. MaxVersion
            BY <1>5, DesignFields DEF FlagRows
        <3>2. QED
            BY <1>10, <3>1, FirstRouteThere
    <2>3. PICK f : f = FirstRoute(a, t) /\ f \in DOMAIN a.routes /\ a.routes[f].template = t /\ a.routes[f].active
        BY <2>2 DEF RoutesOf
    <2>4. RoutesChange(d.routes, e.routes, t) /\ RoutesAgree(e.routes, e.default, t) /\ e.default = f
        BY <1>2, <1>7, <2>1, <2>3, DesignFields, MarkedChange
    <2>5. e.drawings = d.drawings /\ DOMAIN e.routes = DOMAIN a.routes
        BY <1>2, <2>1, DesignFields DEF MarkDefault
    <2>6. f \in Nat
        BY <1>5, <2>3, DesignFields
    <2>7. QED
        BY <2>3, <2>4, <2>5, <2>6 DEF e
<1>11. QED
    BY <1>8, <1>9, <1>10

\* Drawings of a design.
LEMMA PrimaryCleared ==
    ASSUME NEW d \in Designs, NEW t
    PROVE  LET e == ClearPrimary(d, t)
           IN /\ e.routes = d.routes /\ e.default = d.default /\ DOMAIN e = DOMAIN d /\ e.drawings \in Seq(DrawingRows)
              /\ DrawingsChange(d.drawings, e.drawings, t) /\ Len(e.drawings) = Len(d.drawings)
              /\ \A i \in DOMAIN d.drawings :
                    /\ e.drawings[i].template = d.drawings[i].template /\ e.drawings[i].active = d.drawings[i].active
                    /\ d.drawings[i].template = t /\ d.drawings[i].active => ~e.drawings[i].primary
                    /\ d.drawings[i].template # t => e.drawings[i] = d.drawings[i]
<1> DEFINE e == ClearPrimary(d, t)
           n == Len(d.drawings)
<1>1. n \in Nat /\ DOMAIN d.drawings = 1 .. n /\ \A i \in 1 .. n : d.drawings[i] \in DrawingRows
    BY DesignFields
<1>2. e.drawings = [i \in 1 .. n |-> IF i \in DrawingsOf(d, t) THEN [d.drawings[i] EXCEPT !.primary = FALSE] ELSE d.drawings[i]]
    BY <1>1, DesignFields DEF ClearPrimary
<1>3. e.routes = d.routes /\ e.default = d.default /\ DOMAIN e = DOMAIN d
    BY DesignFields DEF ClearPrimary
<1> HIDE DEF e, n
<1>4. ASSUME NEW i \in 1 .. n
      PROVE  /\ e.drawings[i] \in DrawingRows
             /\ e.drawings[i].template = d.drawings[i].template /\ e.drawings[i].active = d.drawings[i].active
             /\ d.drawings[i].template = t /\ d.drawings[i].active => ~e.drawings[i].primary
             /\ d.drawings[i].template # t => e.drawings[i] = d.drawings[i]
    <2>1. d.drawings[i] \in DrawingRows
        BY <1>1
    <2>2. CASE i \in DrawingsOf(d, t)
        <3>1. e.drawings[i] = [d.drawings[i] EXCEPT !.primary = FALSE] /\ d.drawings[i].template = t
            BY <1>2, <2>2 DEF DrawingsOf
        <3>2. QED
            BY <2>1, <3>1 DEF DrawingRows
    <2>3. CASE i \notin DrawingsOf(d, t)
        <3>1. e.drawings[i] = d.drawings[i]
            BY <1>2, <2>3
        <3>2. QED
            BY <1>1, <2>1, <2>3, <3>1 DEF DrawingsOf
    <2>4. QED
        BY <2>2, <2>3
<1>5. e.drawings \in Seq(DrawingRows) /\ Len(e.drawings) = n /\ DOMAIN e.drawings = 1 .. n
    BY <1>1, <1>2, <1>4
<1>6. DrawingsChange(d.drawings, e.drawings, t)
    BY <1>1, <1>4, <1>5 DEF DrawingsChange, Extends, n
<1>7. QED
    BY <1>1, <1>3, <1>4, <1>5, <1>6 DEF e, n

LEMMA DrawingAdded ==
    ASSUME NEW d \in Designs, NEW t \in Templates, NEW wanted \in BOOLEAN
    PROVE  LET e == AddDrawing(d, t, wanted)
           IN /\ e.routes = d.routes /\ e.default = d.default /\ DrawingsChange(d.drawings, e.drawings, t)
              /\ DrawingsAgree(d.drawings, t) => DrawingsAgree(e.drawings, t)
<1> DEFINE first == wanted \/ DrawingsOf(d, t) = {}
           a == IF first THEN ClearPrimary(d, t) ELSE d
           new == [template |-> t, active |-> TRUE, primary |-> first]
           e == AddDrawing(d, t, wanted)
           n == Len(d.drawings)
<1>0. n \in Nat /\ DOMAIN d.drawings = 1 .. n /\ \A i \in 1 .. n : d.drawings[i] \in DrawingRows
    BY DesignFields
<1>1. first \in BOOLEAN
    OBVIOUS
<1>2. new \in DrawingRows /\ new.template = t /\ new.active /\ (new.primary <=> first)
    BY <1>1 DEF DrawingRows
<1>3. e = [a EXCEPT !.drawings = Append(@, new)]
    BY DEF AddDrawing
<1>4. /\ a.routes = d.routes /\ a.default = d.default /\ DOMAIN a = DOMAIN d /\ a.drawings \in Seq(DrawingRows)
      /\ DrawingsChange(d.drawings, a.drawings, t) /\ Len(a.drawings) = n
      /\ \A i \in 1 .. n :
            /\ a.drawings[i].template = d.drawings[i].template /\ a.drawings[i].active = d.drawings[i].active
            /\ a.drawings[i].template = t /\ a.drawings[i].active => ~(first /\ a.drawings[i].primary)
            /\ ~first => a.drawings[i] = d.drawings[i]
    <2>1. CASE first
        BY <1>0, <2>1, PrimaryCleared
    <2>2. CASE ~first
        BY <1>0, <2>2, DesignFields DEF DrawingsChange, Extends
    <2>3. QED
        BY <2>1, <2>2
<1> HIDE DEF first, a, new, e, n
<1>5. e.routes = d.routes /\ e.default = d.default /\ e.drawings = Append(a.drawings, new)
    BY <1>3, <1>4, DesignFields
<1>6. /\ Len(e.drawings) = n + 1 /\ DOMAIN e.drawings = 1 .. n + 1 /\ e.drawings[n + 1] = new
      /\ \A i \in 1 .. n : e.drawings[i] = a.drawings[i]
    BY <1>0, <1>4, <1>5
<1>7. DrawingsChange(d.drawings, e.drawings, t)
    BY <1>0, <1>2, <1>4, <1>6 DEF DrawingsChange, Extends, n
<1>8. ASSUME DrawingsAgree(d.drawings, t) PROVE DrawingsAgree(e.drawings, t)
    <2>1. ASSUME NEW i \in 1 .. n + 1, NEW k \in 1 .. n + 1, i # k,
                 e.drawings[i].template = t, e.drawings[i].active, e.drawings[i].primary,
                 e.drawings[k].template = t, e.drawings[k].active, e.drawings[k].primary
          PROVE  FALSE
        <3>1. ~(i \in 1 .. n /\ k \in 1 .. n)
            BY <1>0, <1>4, <1>6, <1>8, <2>1, SMTT(30) DEF DrawingsAgree
        <3>2. PICK m \in 1 .. n : m \in {i, k} /\ n + 1 \in {i, k}
            <4>1. n \in Nat
                BY <1>0
            <4>2. (i \in 1 .. n \/ i = n + 1) /\ (k \in 1 .. n \/ k = n + 1)
                BY <4>1
            <4>3. QED
                BY <2>1, <3>1, <4>2
        <3>3. first
            BY <1>2, <1>6, <2>1, <3>2
        <3>4. QED
            BY <1>4, <1>6, <2>1, <3>2, <3>3
    <2>2. QED
        BY <1>6, <2>1 DEF DrawingsAgree
<1>9. QED
    BY <1>5, <1>7, <1>8 DEF e

\* One drawing gets another row.
LEMMA DrawingSet ==
    ASSUME NEW rows \in Seq(DrawingRows), NEW t, NEW x \in DOMAIN rows, rows[x].template = t,
           NEW row \in DrawingRows, row.template = t
    PROVE  LET more == [rows EXCEPT ![x] = row]
           IN /\ more \in Seq(DrawingRows) /\ Len(more) = Len(rows) /\ more[x] = row /\ DOMAIN more = DOMAIN rows
              /\ \A i \in DOMAIN rows \ {x} : more[i] = rows[i]
              /\ DrawingsChange(rows, more, t)
<1>1. DOMAIN rows = 1 .. Len(rows) /\ Len(rows) \in Nat /\ \A i \in DOMAIN rows : rows[i] \in DrawingRows
    OBVIOUS
<1> DEFINE more == [rows EXCEPT ![x] = row]
<1>2. more \in Seq(DrawingRows) /\ Len(more) = Len(rows) /\ more[x] = row /\ DOMAIN more = DOMAIN rows /\ \A i \in DOMAIN rows \ {x} : more[i] = rows[i]
    BY <1>1
<1> HIDE DEF more
<1>3. Extends(rows, more) /\ Len(more) # Len(rows) + 1
    <2>1. DOMAIN more = 1 .. Len(more)
        BY <1>1, <1>2
    <2>2. Len(more) = Len(rows) /\ Len(rows) \in Nat
        BY <1>1, <1>2
    <2>3. ASSUME NEW n, NEW m \in Nat, n = m PROVE n \in {m, m + 1} /\ n # m + 1
        BY <2>3
    <2>4. QED
        BY <2>1, <2>2, <2>3, Zenon DEF Extends
<1>4. ASSUME NEW i \in DOMAIN rows
      PROVE  more[i] \in DrawingRows /\ more[i].template = rows[i].template /\ (rows[i].template # t => more[i] = rows[i])
    <2>1. CASE i = x
        BY <1>2, <2>1
    <2>2. CASE i # x
        BY <1>1, <1>2, <2>2
    <2>3. QED
        BY <2>1, <2>2
<1>5. DrawingsChange(rows, more, t)
    BY <1>3, <1>4 DEF DrawingsChange
<1>6. QED
    BY <1>2, <1>5 DEF more

\* A drawing that is made the primary one, or no longer is it, and one that is removed.
LEMMA PrimarySet ==
    ASSUME NEW d \in Designs, NEW t, NEW x \in DrawingsOf(d, t), NEW wanted \in BOOLEAN
    PROVE  LET e == SetPrimary(d, t, x, wanted)
           IN /\ e.routes = d.routes /\ e.default = d.default /\ DrawingsChange(d.drawings, e.drawings, t)
              /\ DrawingsAgree(d.drawings, t) => DrawingsAgree(e.drawings, t)
<1> DEFINE a == IF wanted THEN ClearPrimary(d, t) ELSE d
           row == [a.drawings[x] EXCEPT !.primary = wanted]
           e == SetPrimary(d, t, x, wanted)
<1>1. x \in DOMAIN d.drawings /\ d.drawings[x].template = t /\ d.drawings[x].active /\ DOMAIN d.drawings = 1 .. Len(d.drawings)
    BY DesignFields DEF DrawingsOf
<1>2. /\ a.routes = d.routes /\ a.default = d.default /\ DOMAIN a = DOMAIN d /\ a.drawings \in Seq(DrawingRows)
      /\ DrawingsChange(d.drawings, a.drawings, t) /\ Len(a.drawings) = Len(d.drawings)
      /\ \A i \in DOMAIN d.drawings :
            /\ a.drawings[i].template = d.drawings[i].template /\ a.drawings[i].active = d.drawings[i].active
            /\ wanted /\ d.drawings[i].template = t /\ d.drawings[i].active => ~a.drawings[i].primary
            /\ ~wanted \/ d.drawings[i].template # t => a.drawings[i] = d.drawings[i]
    <2>1. CASE wanted
        BY <2>1, PrimaryCleared
    <2>2. CASE ~wanted
        BY <2>2, DesignFields DEF DrawingsChange, Extends
    <2>3. QED
        BY <2>1, <2>2
<1>3. e.drawings = [a.drawings EXCEPT ![x] = row] /\ e.routes = d.routes /\ e.default = d.default
    BY <1>1, <1>2, DesignFields DEF SetPrimary
<1> HIDE DEF a, e
<1>4. x \in DOMAIN a.drawings /\ DOMAIN a.drawings = DOMAIN d.drawings /\ a.drawings[x] \in DrawingRows
    BY <1>1, <1>2
<1>5. row \in DrawingRows /\ row.template = t /\ row.active = a.drawings[x].active /\ row.active /\ row.primary = wanted
    BY <1>1, <1>2, <1>4 DEF DrawingRows
<1> HIDE DEF row
<1>6. /\ Len(e.drawings) = Len(a.drawings) /\ e.drawings[x] = row /\ DOMAIN e.drawings = DOMAIN a.drawings
      /\ \A i \in DOMAIN a.drawings \ {x} : e.drawings[i] = a.drawings[i]
      /\ DrawingsChange(a.drawings, e.drawings, t)
    BY <1>1, <1>2, <1>3, <1>4, <1>5, DrawingSet
<1>7. DrawingsChange(d.drawings, e.drawings, t)
    <2>1. Extends(d.drawings, e.drawings) /\ Len(e.drawings) # Len(d.drawings) + 1
        BY <1>1, <1>2, <1>4, <1>6, DesignFields DEF Extends
    <2>2. \A i \in DOMAIN d.drawings :
            /\ e.drawings[i] \in DrawingRows /\ e.drawings[i].template = d.drawings[i].template
            /\ d.drawings[i].template # t => e.drawings[i] = d.drawings[i]
        BY <1>2, <1>4, <1>6 DEF DrawingsChange
    <2>3. QED
        BY <2>1, <2>2 DEF DrawingsChange
<1>8. ASSUME DrawingsAgree(d.drawings, t) PROVE DrawingsAgree(e.drawings, t)
    <2>1. ASSUME NEW i \in DOMAIN d.drawings, e.drawings[i].template = t, e.drawings[i].active, e.drawings[i].primary
          PROVE  /\ wanted => i = x
                 /\ ~wanted => d.drawings[i].template = t /\ d.drawings[i].active /\ d.drawings[i].primary
        BY <1>1, <1>2, <1>4, <1>5, <1>6, <2>1
    <2>2. QED
        BY <1>4, <1>6, <1>8, <2>1 DEF DrawingsAgree
<1>9. QED
    BY <1>3, <1>7, <1>8 DEF e

LEMMA DrawingRemoved ==
    ASSUME NEW d \in Designs, NEW t, NEW x \in DrawingsOf(d, t)
    PROVE  LET e == RemoveDrawing(d, t, x)
           IN /\ e.routes = d.routes /\ e.default = d.default /\ DrawingsChange(d.drawings, e.drawings, t)
              /\ DrawingsAgree(d.drawings, t) => DrawingsAgree(e.drawings, t)
<1> DEFINE a == [d EXCEPT !.drawings[x].active = FALSE, !.drawings[x].primary = FALSE]
           row == [d.drawings[x] EXCEPT !.active = FALSE, !.primary = FALSE]
           first == FirstDrawing(a, t)
           e == RemoveDrawing(d, t, x)
<1>0. /\ x \in DOMAIN d.drawings /\ d.drawings[x].template = t /\ d.drawings[x].active /\ d.drawings[x] \in DrawingRows
      /\ DOMAIN d.drawings = 1 .. Len(d.drawings) /\ Len(d.drawings) \in Nat /\ d.drawings \in Seq(DrawingRows)
    BY DesignFields DEF DrawingsOf
<1>1. a.drawings = [d.drawings EXCEPT ![x] = row] /\ a.routes = d.routes /\ a.default = d.default /\ DOMAIN a = DOMAIN d
    BY <1>0, DesignFields
<1>2. e = IF d.drawings[x].primary /\ DrawingsOf(a, t) # {} THEN [a EXCEPT !.drawings[first].primary = TRUE] ELSE a
    BY DEF RemoveDrawing
<1> HIDE DEF a, e, first
<1>3. row \in DrawingRows /\ row.template = t /\ row.active = FALSE /\ row.primary = FALSE
    BY <1>0 DEF DrawingRows
<1> HIDE DEF row
<1>4. /\ a.drawings \in Seq(DrawingRows) /\ Len(a.drawings) = Len(d.drawings) /\ a.drawings[x] = row
      /\ DOMAIN a.drawings = DOMAIN d.drawings
      /\ \A i \in DOMAIN d.drawings \ {x} : a.drawings[i] = d.drawings[i]
      /\ DrawingsChange(d.drawings, a.drawings, t)
    BY <1>0, <1>1, <1>3, DrawingSet
<1>5. CASE ~(d.drawings[x].primary /\ DrawingsOf(a, t) # {})
    <2>1. e = a
        BY <1>2, <1>5
    <2>2. DrawingsAgree(d.drawings, t) => DrawingsAgree(a.drawings, t)
        BY <1>3, <1>4 DEF DrawingsAgree
    <2>3. QED
        BY <1>1, <1>4, <2>1, <2>2 DEF e
<1>6. CASE d.drawings[x].primary /\ DrawingsOf(a, t) # {}
    <2>1. first \in DrawingsOf(a, t)
        <3>1. DOMAIN a.drawings \subseteq Nat /\ \A i \in DOMAIN a.drawings : a.drawings[i] \in DrawingRows
            BY <1>0, <1>4
        <3>2. \A i \in DOMAIN a.drawings : a.drawings[i].primary \in BOOLEAN
            BY <3>1 DEF DrawingRows
        <3>3. QED
            BY <1>6, <3>1, <3>2, FirstDrawingThere DEF first
    <2>2. /\ first \in DOMAIN a.drawings /\ a.drawings[first].template = t /\ a.drawings[first].active
          /\ first # x /\ a.drawings[first] \in DrawingRows
        BY <1>3, <1>4, <2>1 DEF DrawingsOf
    <2>3. PICK new : new = [a.drawings[first] EXCEPT !.primary = TRUE]
        OBVIOUS
    <2>4. e.drawings = [a.drawings EXCEPT ![first] = new] /\ e.routes = d.routes /\ e.default = d.default
        BY <1>1, <1>2, <1>6, <2>2, <2>3, DesignFields
    <2>5. new \in DrawingRows /\ new.template = t /\ new.active = a.drawings[first].active /\ new.primary
        BY <2>2, <2>3 DEF DrawingRows
    <2>6. /\ Len(e.drawings) = Len(a.drawings) /\ e.drawings[first] = new /\ DOMAIN e.drawings = DOMAIN a.drawings
          /\ \A i \in DOMAIN a.drawings \ {first} : e.drawings[i] = a.drawings[i]
          /\ DrawingsChange(a.drawings, e.drawings, t)
        BY <1>4, <2>2, <2>4, <2>5, DrawingSet
    <2>7. DrawingsChange(d.drawings, e.drawings, t)
        <3>1. Extends(d.drawings, e.drawings) /\ Len(e.drawings) # Len(d.drawings) + 1
            BY <1>0, <1>4, <2>6 DEF Extends
        <3>2. \A i \in DOMAIN d.drawings :
                /\ e.drawings[i] \in DrawingRows /\ e.drawings[i].template = d.drawings[i].template
                /\ d.drawings[i].template # t => e.drawings[i] = d.drawings[i]
            BY <1>4, <2>6 DEF DrawingsChange
        <3>3. QED
            BY <3>1, <3>2 DEF DrawingsChange
    <2>8. ASSUME DrawingsAgree(d.drawings, t) PROVE DrawingsAgree(e.drawings, t)
        <3>1. ASSUME NEW i \in DOMAIN d.drawings, e.drawings[i].template = t, e.drawings[i].active, e.drawings[i].primary
              PROVE  i = first
            <4>1. CASE i = x
                BY <1>3, <1>4, <2>2, <2>6, <3>1, <4>1
            <4>2. CASE i # x /\ i # first
                <5>1. e.drawings[i] = d.drawings[i]
                    BY <1>4, <2>6, <4>2
                <5>2. QED
                    BY <1>0, <1>6, <2>8, <3>1, <4>2, <5>1 DEF DrawingsAgree
            <4>3. QED
                BY <4>1, <4>2
        <3>2. QED
            BY <1>4, <2>6, <3>1 DEF DrawingsAgree
    <2>9. QED
        BY <2>4, <2>7, <2>8 DEF e
<1>7. QED
    BY <1>5, <1>6

\* What a session may have been asked of a design that it has read.
Asked(c, d) ==
    /\ c.op \in DesignOps /\ c.t \in Templates
    /\ c.op = "create_route" => c.x \in 1 .. MaxVersion
    /\ c.op \in {"create_route", "upload", "set_primary"} => c.on \in BOOLEAN
    /\ c.op \in {"delete_route", "set_default"} => c.x \in RoutesOf(d, c.t)
    /\ c.op \in {"set_primary", "remove"} => c.x \in DrawingsOf(d, c.t)

LEMMA SameChange ==
    ASSUME NEW d \in Designs, NEW t
    PROVE  RoutesChange(d.routes, d.routes, t) /\ DrawingsChange(d.drawings, d.drawings, t)
BY DesignFields DEF RoutesChange, DrawingsChange, Extends

LEMMA HandledChange ==
    ASSUME NEW d \in Designs, NEW c, Asked(c, d)
    PROVE  /\ DesignChange(d, Handled(d, c), c.t)
           /\ c.op \in RouteOps => Handled(d, c).drawings = d.drawings
           /\ c.op \in DrawingOps => Handled(d, c).routes = d.routes /\ Handled(d, c).default = d.default
<1>0. d.default \in Nat /\ RoutesChange(d.routes, d.routes, c.t) /\ DrawingsChange(d.drawings, d.drawings, c.t)
    BY DesignFields, SameChange
<1>1. CASE c.op = "create_route"
    <2>1. Handled(d, c) = AddRoute(d, c.t, c.x, c.on)
        BY <1>1 DEF Handled
    <2>2. QED
        BY <1>0, <1>1, <2>1, RouteAdded DEF DesignChange, Asked, RouteOps, DrawingOps
<1>2. CASE c.op = "delete_route"
    <2>1. Handled(d, c) = RemoveRoute(d, c.t, c.x)
        BY <1>2 DEF Handled
    <2>2. QED
        BY <1>0, <1>2, <2>1, RouteRemoved DEF DesignChange, Asked, RouteOps, DrawingOps
<1>3. CASE c.op = "set_default"
    <2>1. Handled(d, c) = MarkDefault(d, c.t, c.x)
        BY <1>3 DEF Handled
    <2>2. QED
        BY <1>0, <1>3, <2>1, RouteMarked DEF DesignChange, Asked, RouteOps, DrawingOps
<1>4. CASE c.op = "upload"
    <2>1. Handled(d, c) = AddDrawing(d, c.t, c.on)
        BY <1>4 DEF Handled
    <2>2. QED
        BY <1>0, <1>4, <2>1, DrawingAdded DEF DesignChange, Asked, RouteOps, DrawingOps
<1>5. CASE c.op = "set_primary"
    <2>1. Handled(d, c) = SetPrimary(d, c.t, c.x, c.on)
        BY <1>5 DEF Handled
    <2>2. QED
        BY <1>0, <1>5, <2>1, PrimarySet DEF DesignChange, Asked, RouteOps, DrawingOps
<1>6. CASE c.op = "remove"
    <2>1. Handled(d, c) = RemoveDrawing(d, c.t, c.x)
        BY <1>6 DEF Handled
    <2>2. QED
        BY <1>0, <1>6, <2>1, DrawingRemoved DEF DesignChange, Asked, RouteOps, DrawingOps
<1>7. QED
    BY <1>1, <1>2, <1>3, <1>4, <1>5, <1>6 DEF Asked, DesignOps, RouteOps, DrawingOps

-----------------------------------------------------------------------------
(* What a session writes of the rows it has read.                          *)

\* Rows that were read keep their templates, and more may have come since.
RowsGrow(was, now) == Len(was) <= Len(now) /\ \A i \in DOMAIN was : now[i].template = was[i].template

RowWritten(was, becomes, now) ==
    [f \in DOMAIN now |-> IF f \in DOMAIN was THEN Written(was[f], becomes[f], now[f]) ELSE now[f]]

LEMMA RouteWritten ==
    ASSUME NEW was \in FlagRows, NEW becomes \in FlagRows, NEW now \in RouteRows,
           now.template = was.template, becomes.template = was.template
    PROVE  LET w == RowWritten(was, becomes, now)
           IN /\ w \in RouteRows /\ w.template = now.template
              /\ was = becomes => w = now
              /\ was = Flags(now) => Flags(w) = becomes
<1> DEFINE w == RowWritten(was, becomes, now)
<1>1. /\ DOMAIN was = {"template", "version", "active", "flag"} /\ DOMAIN now = {"template", "version", "active", "flag", "steps"}
      /\ was.template \in Templates /\ becomes.template \in Templates /\ now.template \in Templates
      /\ becomes.version \in 1 .. MaxVersion /\ now.version \in 1 .. MaxVersion
      /\ becomes.active \in BOOLEAN /\ now.active \in BOOLEAN /\ becomes.flag \in BOOLEAN /\ now.flag \in BOOLEAN
      /\ now.steps \in StepLists
    BY DEF FlagRows, RouteRows
<1>2. /\ DOMAIN w = {"template", "version", "active", "flag", "steps"} /\ w.steps = now.steps
      /\ w.template = Written(was.template, becomes.template, now.template)
      /\ w.version = Written(was.version, becomes.version, now.version)
      /\ w.active = Written(was.active, becomes.active, now.active)
      /\ w.flag = Written(was.flag, becomes.flag, now.flag)
    BY <1>1 DEF RowWritten
<1>3. w = [template |-> w.template, version |-> w.version, active |-> w.active, flag |-> w.flag, steps |-> w.steps]
    BY <1>2 DEF RowWritten
<1> HIDE DEF w
<1>4. w.template = now.template /\ w.version \in 1 .. MaxVersion /\ w.active \in BOOLEAN /\ w.flag \in BOOLEAN
    BY <1>1, <1>2 DEF Written
<1>5. w \in RouteRows
    BY <1>1, <1>2, <1>3, <1>4 DEF RouteRows
<1>6. now = [template |-> now.template, version |-> now.version, active |-> now.active, flag |-> now.flag, steps |-> now.steps]
    BY DEF RouteRows
<1>7. becomes = [template |-> becomes.template, version |-> becomes.version, active |-> becomes.active, flag |-> becomes.flag]
    BY DEF FlagRows
<1>8. ASSUME was = becomes PROVE w = now
    BY <1>2, <1>3, <1>6, <1>8 DEF Written
<1>9. ASSUME was = Flags(now) PROVE Flags(w) = becomes
    <2>1. was.version = now.version /\ was.active = now.active /\ was.flag = now.flag
        BY <1>9 DEF Flags
    <2>2. w.version = becomes.version /\ w.active = becomes.active /\ w.flag = becomes.flag
        BY <1>2, <2>1 DEF Written
    <2>3. QED
        BY <1>4, <1>7, <2>2 DEF Flags
<1>10. QED
    BY <1>4, <1>5, <1>8, <1>9 DEF w

LEMMA DrawingWritten ==
    ASSUME NEW was \in DrawingRows, NEW becomes \in DrawingRows, NEW now \in DrawingRows,
           now.template = was.template, becomes.template = was.template
    PROVE  LET w == RowWritten(was, becomes, now)
           IN /\ w \in DrawingRows /\ w.template = now.template
              /\ was = becomes => w = now
              /\ was = now => w = becomes
<1> DEFINE w == RowWritten(was, becomes, now)
<1>1. /\ DOMAIN was = {"template", "active", "primary"} /\ DOMAIN now = {"template", "active", "primary"}
      /\ now.template \in Templates
      /\ becomes.active \in BOOLEAN /\ now.active \in BOOLEAN /\ becomes.primary \in BOOLEAN /\ now.primary \in BOOLEAN
    BY DEF DrawingRows
<1>2. /\ DOMAIN w = {"template", "active", "primary"}
      /\ w.template = Written(was.template, becomes.template, now.template)
      /\ w.active = Written(was.active, becomes.active, now.active)
      /\ w.primary = Written(was.primary, becomes.primary, now.primary)
    BY <1>1 DEF RowWritten
<1>3. w = [template |-> w.template, active |-> w.active, primary |-> w.primary]
    BY <1>2 DEF RowWritten
<1> HIDE DEF w
<1>4. w.template = now.template /\ w.active \in BOOLEAN /\ w.primary \in BOOLEAN
    BY <1>1, <1>2 DEF Written
<1>5. w \in DrawingRows
    BY <1>1, <1>3, <1>4 DEF DrawingRows
<1>6. now = [template |-> now.template, active |-> now.active, primary |-> now.primary]
    BY DEF DrawingRows
<1>7. becomes = [template |-> becomes.template, active |-> becomes.active, primary |-> becomes.primary]
    BY DEF DrawingRows
<1>8. ASSUME was = becomes PROVE w = now
    BY <1>2, <1>3, <1>6, <1>8 DEF Written
<1>9. ASSUME was = now PROVE w = becomes
    BY <1>2, <1>3, <1>4, <1>7, <1>9 DEF Written
<1>10. QED
    BY <1>4, <1>5, <1>8, <1>9 DEF w

\* Rows written, and after them those that a handler has added.
AddsOne(R, more, n) == Len(more) = n \/ (Len(more) = n + 1 /\ more[n + 1] \in R)

WithAdded(head, more, n) == head \o SubSeq(more, n + 1, Len(more))

RowAt(w, k, row) == w[k] = row

LEMMA Appended ==
    ASSUME NEW R, NEW head \in Seq(R), NEW more, NEW n \in Nat,
           AddsOne(R, more, n)
    PROVE  LET w == WithAdded(head, more, n)
           IN /\ w \in Seq(R) /\ Len(w) = Len(head) + (Len(more) - n)
              /\ \A i \in DOMAIN head : w[i] = head[i] /\ i \in DOMAIN w
              /\ Len(more) > n => RowAt(w, Len(head) + 1, more[n + 1])
<1> DEFINE tail == SubSeq(more, n + 1, Len(more))
           w == head \o tail
<1>0. Len(more) = n \/ (Len(more) = n + 1 /\ more[n + 1] \in R)
    BY DEF AddsOne
<1>1. tail \in Seq(R) /\ Len(tail) = Len(more) - n /\ (Len(more) = n + 1 => tail[1] = more[n + 1])
    <2>1. \A i \in n + 1 .. Len(more) : more[i] \in R
        BY <1>0
    <2>2. Len(more) \in Int /\ n + 1 \in Int
        BY <1>0
    <2>3. PICK a, b : a = n + 1 /\ b = Len(more) /\ (b = n \/ b = n + 1)
        BY <1>0
    <2>4. /\ SubSeq(more, a, b) \in Seq(R) /\ Len(SubSeq(more, a, b)) = (IF a <= b THEN b - a + 1 ELSE 0)
          /\ \A i \in 1 .. b - a + 1 : SubSeq(more, a, b)[i] = more[a + i - 1]
        BY <2>1, <2>2, <2>3, SubSeqProperties
    <2>5. b = n + 1 => 1 \in 1 .. b - a + 1 /\ a + 1 - 1 = n + 1
        BY <2>3
    <2>6. (IF a <= b THEN b - a + 1 ELSE 0) = b - n
        BY <2>3
    <2>7. tail = SubSeq(more, a, b)
        BY <2>3
    <2>8. b = n + 1 => tail[1] = more[n + 1]
        BY <2>4, <2>5, <2>7
    <2>9. QED
        BY <2>3, <2>4, <2>6, <2>7, <2>8
<1> HIDE DEF tail
<1>2. /\ w \in Seq(R) /\ Len(w) = Len(head) + Len(tail) /\ Len(head) \in Nat /\ Len(tail) \in Nat
      /\ \A i \in 1 .. Len(head) + Len(tail) : w[i] = IF i <= Len(head) THEN head[i] ELSE tail[i - Len(head)]
      /\ DOMAIN head = 1 .. Len(head)
    <2>1. Len(head) \in Nat /\ Len(tail) \in Nat /\ DOMAIN head = 1 .. Len(head)
        BY <1>1
    <2>2. /\ head \o tail \in Seq(R) /\ Len(head \o tail) = Len(head) + Len(tail)
          /\ \A i \in 1 .. Len(head) + Len(tail) : (head \o tail)[i] = IF i <= Len(head) THEN head[i] ELSE tail[i - Len(head)]
        BY <1>1, ConcatProperties, Zenon
    <2>3. QED
        BY <2>1, <2>2, Zenon
<1> HIDE DEF w
<1>3. DOMAIN w = 1 .. Len(w)
    BY <1>2
<1>4. ASSUME NEW i \in DOMAIN head PROVE w[i] = head[i] /\ i \in DOMAIN w
    BY <1>2, <1>3
<1>5. ASSUME Len(more) = n + 1 PROVE w[Len(head) + 1] = more[n + 1]
    <2>1. Len(tail) = 1
        BY <1>1, <1>5
    <2>2. w[Len(head) + 1] = tail[1]
        BY <1>2, <2>1
    <2>3. QED
        BY <1>1, <1>5, <2>2
<1>6. Len(more) > n => Len(more) = n + 1
    BY <1>0
<1>7. QED
    BY <1>6, <1>1, <1>2, <1>4, <1>5 DEF w, tail, WithAdded, RowAt

AddedLast(was, more, now, w) == Len(more) = Len(was) + 1 => w[Len(now) + 1] = more[Len(more)]

LEMMA RoutesWritten ==
    ASSUME NEW was \in Seq(FlagRows), NEW more, NEW t \in Templates, RoutesChange(was, more, t),
           NEW now \in Seq(RouteRows), RowsGrow(was, now)
    PROVE  LET w == RowsWritten(was, more, now)
           IN /\ w \in Seq(RouteRows) /\ Len(w) = Len(now) + (Len(more) - Len(was)) /\ RowsGrow(now, w)
              /\ \A i \in DOMAIN now :
                    /\ now[i].template # t \/ i \notin DOMAIN was => w[i] = now[i]
                    /\ i \in DOMAIN was /\ was[i] = Flags(now[i]) => Flags(w[i]) = more[i]
              /\ AddedLast(was, more, now, w)
<1>1. /\ Len(was) \in Nat /\ DOMAIN was = 1 .. Len(was) /\ Len(now) \in Nat /\ DOMAIN now = 1 .. Len(now)
      /\ \A i \in DOMAIN was : was[i] \in FlagRows
      /\ \A i \in DOMAIN now : now[i] \in RouteRows
    OBVIOUS
<1>2. Len(more) = Len(was) \/ (Len(more) = Len(was) + 1 /\ more[Len(was) + 1] \in RouteRows)
    <2>1. Len(more) = Len(was) \/ Len(more) = Len(was) + 1
        BY Zenon DEF RoutesChange, Extends
    <2>2. Len(more) = Len(was) + 1 => more[Len(was) + 1] \in RouteRows
        BY Zenon DEF RoutesChange
    <2>3. QED
        BY <2>1, <2>2, Zenon
<1> DEFINE head == [i \in DOMAIN now |->
                      IF i \in DOMAIN was
                      THEN [f \in DOMAIN now[i] |->
                               IF f \in DOMAIN was[i] THEN Written(was[i][f], more[i][f], now[i][f]) ELSE now[i][f]]
                      ELSE now[i]]
           w == RowsWritten(was, more, now)
<1>3. w = WithAdded(head, more, Len(was))
    BY DEF RowsWritten, WithAdded
<1>4. ASSUME NEW i \in DOMAIN now
      PROVE  /\ head[i] \in RouteRows /\ head[i].template = now[i].template
             /\ now[i].template # t \/ i \notin DOMAIN was => head[i] = now[i]
             /\ i \in DOMAIN was /\ was[i] = Flags(now[i]) => Flags(head[i]) = more[i]
    <2>1. CASE i \in DOMAIN was
        <3>1. /\ was[i] \in FlagRows /\ more[i] \in FlagRows /\ now[i] \in RouteRows
              /\ now[i].template = was[i].template /\ more[i].template = was[i].template
              /\ was[i].template # t => more[i] = was[i]
            BY <1>1, <2>1 DEF RoutesChange, RowsGrow
        <3>2. head[i] = RowWritten(was[i], more[i], now[i])
            BY <2>1 DEF RowWritten
        <3> HIDE DEF head
        <3>3. LET h == RowWritten(was[i], more[i], now[i])
              IN /\ h \in RouteRows /\ h.template = now[i].template
                 /\ was[i] = more[i] => h = now[i]
                 /\ was[i] = Flags(now[i]) => Flags(h) = more[i]
            BY <3>1, RouteWritten, Zenon
        <3>4. QED
            BY <2>1, <3>1, <3>2, <3>3, Zenon
    <2>2. CASE i \notin DOMAIN was
        <3>1. head[i] = now[i]
            BY <2>2
        <3>2. QED
            BY <1>1, <2>2, <3>1
    <2>3. QED
        BY <2>1, <2>2
<1>5. DOMAIN head = DOMAIN now
    OBVIOUS
<1>6. head \in Seq(RouteRows) /\ Len(head) = Len(now)
    BY <1>1, <1>4
<1> HIDE DEF head, w
<1>7. /\ w \in Seq(RouteRows) /\ Len(w) = Len(head) + (Len(more) - Len(was))
      /\ \A i \in DOMAIN head : w[i] = head[i] /\ i \in DOMAIN w
      /\ Len(more) = Len(was) + 1 => w[Len(head) + 1] = more[Len(was) + 1]
    <2>1. PICK n \in Nat : n = Len(was)
        BY <1>1
    <2>2. AddsOne(RouteRows, more, n)
        BY <1>2, <2>1 DEF AddsOne
    <2>3. w = WithAdded(head, more, n)
        BY <1>3, <2>1
    <2>4. LET x == WithAdded(head, more, n)
          IN /\ x \in Seq(RouteRows) /\ Len(x) = Len(head) + (Len(more) - n)
             /\ \A i \in DOMAIN head : x[i] = head[i] /\ i \in DOMAIN x
             /\ Len(more) > n => RowAt(x, Len(head) + 1, more[n + 1])
        BY <1>6, <2>2, Appended, Zenon
    <2>5. Len(more) = n + 1 => Len(more) > n
        OBVIOUS
    <2>6. QED
        BY <2>1, <2>3, <2>4, <2>5 DEF RowAt
<1>8. RowsGrow(now, w)
    BY <1>1, <1>2, <1>4, <1>5, <1>6, <1>7 DEF RowsGrow
<1>9. AddedLast(was, more, now, w)
    BY <1>6, <1>7 DEF AddedLast
<1>10. QED
    BY <1>4, <1>5, <1>6, <1>7, <1>8, <1>9 DEF w

LEMMA DrawingsWritten ==
    ASSUME NEW was \in Seq(DrawingRows), NEW more, NEW t \in Templates, DrawingsChange(was, more, t),
           NEW now \in Seq(DrawingRows), RowsGrow(was, now)
    PROVE  LET w == RowsWritten(was, more, now)
           IN /\ w \in Seq(DrawingRows) /\ Len(w) = Len(now) + (Len(more) - Len(was)) /\ RowsGrow(now, w)
              /\ \A i \in DOMAIN now :
                    /\ now[i].template # t \/ i \notin DOMAIN was => w[i] = now[i]
                    /\ i \in DOMAIN was /\ was[i] = now[i] => w[i] = more[i]
              /\ AddedLast(was, more, now, w)
<1>1. /\ Len(was) \in Nat /\ DOMAIN was = 1 .. Len(was) /\ Len(now) \in Nat /\ DOMAIN now = 1 .. Len(now)
      /\ \A i \in DOMAIN was : was[i] \in DrawingRows
      /\ \A i \in DOMAIN now : now[i] \in DrawingRows
    OBVIOUS
<1>2. Len(more) = Len(was) \/ (Len(more) = Len(was) + 1 /\ more[Len(was) + 1] \in DrawingRows)
    <2>1. Len(more) = Len(was) \/ Len(more) = Len(was) + 1
        BY Zenon DEF DrawingsChange, Extends
    <2>2. Len(more) = Len(was) + 1 => more[Len(was) + 1] \in DrawingRows
        BY Zenon DEF DrawingsChange
    <2>3. QED
        BY <2>1, <2>2, Zenon
<1> DEFINE head == [i \in DOMAIN now |->
                      IF i \in DOMAIN was
                      THEN [f \in DOMAIN now[i] |->
                               IF f \in DOMAIN was[i] THEN Written(was[i][f], more[i][f], now[i][f]) ELSE now[i][f]]
                      ELSE now[i]]
           w == RowsWritten(was, more, now)
<1>3. w = WithAdded(head, more, Len(was))
    BY DEF RowsWritten, WithAdded
<1>4. ASSUME NEW i \in DOMAIN now
      PROVE  /\ head[i] \in DrawingRows /\ head[i].template = now[i].template
             /\ now[i].template # t \/ i \notin DOMAIN was => head[i] = now[i]
             /\ i \in DOMAIN was /\ was[i] = now[i] => head[i] = more[i]
    <2>1. CASE i \in DOMAIN was
        <3>1. /\ was[i] \in DrawingRows /\ more[i] \in DrawingRows /\ now[i] \in DrawingRows
              /\ now[i].template = was[i].template /\ more[i].template = was[i].template
              /\ was[i].template # t => more[i] = was[i]
            BY <1>1, <2>1 DEF DrawingsChange, RowsGrow
        <3>2. head[i] = RowWritten(was[i], more[i], now[i])
            BY <2>1 DEF RowWritten
        <3> HIDE DEF head
        <3>3. LET h == RowWritten(was[i], more[i], now[i])
              IN /\ h \in DrawingRows /\ h.template = now[i].template
                 /\ was[i] = more[i] => h = now[i]
                 /\ was[i] = now[i] => h = more[i]
            BY <3>1, DrawingWritten, ZenonT(40)
        <3>4. QED
            BY <2>1, <3>1, <3>2, <3>3, Zenon
    <2>2. CASE i \notin DOMAIN was
        <3>1. head[i] = now[i]
            BY <2>2
        <3>2. QED
            BY <1>1, <2>2, <3>1
    <2>3. QED
        BY <2>1, <2>2
<1>5. DOMAIN head = DOMAIN now
    OBVIOUS
<1>6. head \in Seq(DrawingRows) /\ Len(head) = Len(now)
    BY <1>1, <1>4
<1> HIDE DEF head, w
<1>7. /\ w \in Seq(DrawingRows) /\ Len(w) = Len(head) + (Len(more) - Len(was))
      /\ \A i \in DOMAIN head : w[i] = head[i] /\ i \in DOMAIN w
      /\ Len(more) = Len(was) + 1 => w[Len(head) + 1] = more[Len(was) + 1]
    <2>1. PICK n \in Nat : n = Len(was)
        BY <1>1
    <2>2. AddsOne(DrawingRows, more, n)
        BY <1>2, <2>1 DEF AddsOne
    <2>3. w = WithAdded(head, more, n)
        BY <1>3, <2>1
    <2>4. LET x == WithAdded(head, more, n)
          IN /\ x \in Seq(DrawingRows) /\ Len(x) = Len(head) + (Len(more) - n)
             /\ \A i \in DOMAIN head : x[i] = head[i] /\ i \in DOMAIN x
             /\ Len(more) > n => RowAt(x, Len(head) + 1, more[n + 1])
        BY <1>6, <2>2, Appended, Zenon
    <2>5. Len(more) = n + 1 => Len(more) > n
        OBVIOUS
    <2>6. QED
        BY <2>1, <2>3, <2>4, <2>5 DEF RowAt
<1>8. RowsGrow(now, w)
    BY <1>1, <1>2, <1>4, <1>5, <1>6, <1>7 DEF RowsGrow
<1>9. AddedLast(was, more, now, w)
    BY <1>6, <1>7 DEF AddedLast
<1>10. QED
    BY <1>4, <1>5, <1>6, <1>7, <1>8, <1>9 DEF w

\* Rows of other templates, and rows whose flags are alike, agree as before.
FlagsAlike(rows, more, t, n) ==
    \A i \in 1 .. n : /\ more[i].template = rows[i].template
                      /\ rows[i].template = t => (more[i].active <=> rows[i].active) /\ (more[i].flag <=> rows[i].flag)
AddsUnmarked(rows, more, t, n, m) ==
    \A i \in n + 1 .. m :
        more[i].template # t \/ (~more[i].flag /\ \E k \in 1 .. n : rows[k].template = t /\ rows[k].active)

LEMMA RoutesAlike ==
    ASSUME NEW rows, NEW more, NEW t, NEW default, NEW n \in Nat, NEW m \in Nat, n <= m, default \in 0 .. n,
           DOMAIN rows = 1 .. n, DOMAIN more = 1 .. m,
           FlagsAlike(rows, more, t, n), AddsUnmarked(rows, more, t, n, m),
           RoutesAgree(rows, default, t)
    PROVE  RoutesAgree(more, default, t)
<1>1. 1 .. n \subseteq 1 .. m /\ \A i \in 1 .. m : i \in 1 .. n \/ (i \in n + 1 .. m /\ i # default)
    OBVIOUS
<1>2. ASSUME NEW i \in 1 .. m, more[i].template = t, more[i].active PROVE more[i].flag <=> i = default
    <2>1. CASE i \in 1 .. n
        <3>1. rows[i].template = t /\ rows[i].active /\ (more[i].flag <=> rows[i].flag)
            BY <1>2, <2>1, Zenon DEF FlagsAlike
        <3>2. i \in DOMAIN rows
            BY <2>1
        <3>3. QED
            BY <3>1, <3>2, Zenon DEF RoutesAgree
    <2>2. CASE i \in n + 1 .. m /\ i # default
        BY <1>2, <2>2, Zenon DEF AddsUnmarked
    <2>3. QED
        BY <1>1, <2>1, <2>2, Zenon
<1>3. ASSUME NEW i \in 1 .. m, more[i].template = t, more[i].active
      PROVE  default \in 1 .. m /\ more[default].template = t /\ more[default].active
    <2>1. \E k \in 1 .. n : rows[k].template = t /\ rows[k].active
        <3>1. CASE i \in 1 .. n
            BY <1>3, <3>1, Zenon DEF FlagsAlike
        <3>2. CASE i \in n + 1 .. m
            BY <1>3, <3>2, Zenon DEF AddsUnmarked
        <3>3. QED
            BY <1>1, <3>1, <3>2, Zenon
    <2>2. default \in 1 .. n /\ rows[default].template = t /\ rows[default].active
        BY <2>1, Zenon DEF RoutesAgree
    <2>3. default \in 1 .. m
        BY <1>1, <2>2, Zenon
    <2>4. default \in 1 .. n
        BY <2>2, Zenon
    <2>5. QED
        BY <2>2, <2>3, <2>4, Zenon DEF FlagsAlike
<1>4. QED
    BY <1>2, <1>3, Zenon DEF RoutesAgree

PrimaryAlike(rows, more, t, n) ==
    \A i \in 1 .. n : /\ more[i].template = rows[i].template
                      /\ rows[i].template = t => (more[i].active <=> rows[i].active) /\ (more[i].primary <=> rows[i].primary)

LEMMA DrawingsAlike ==
    ASSUME NEW rows, NEW more, NEW t, NEW n \in Nat, NEW m \in Nat, n <= m,
           DOMAIN rows = 1 .. n, DOMAIN more = 1 .. m,
           PrimaryAlike(rows, more, t, n), \A i \in n + 1 .. m : more[i].template # t,
           DrawingsAgree(rows, t)
    PROVE  DrawingsAgree(more, t)
<1>1. \A i \in 1 .. m : i \in 1 .. n \/ i \in n + 1 .. m
    OBVIOUS
<1>2. ASSUME NEW i \in 1 .. m, more[i].template = t, more[i].active, more[i].primary
      PROVE  i \in 1 .. n /\ rows[i].template = t /\ rows[i].active /\ rows[i].primary
    <2>1. i \in 1 .. n
        BY <1>1, <1>2, Zenon
    <2>2. QED
        BY <1>2, <2>1, Zenon DEF PrimaryAlike
<1>3. QED
    BY <1>2, Zenon DEF DrawingsAgree

-----------------------------------------------------------------------------
(* Positions in order, and agreement as the properties state it.           *)

LEMMA InOrderCounts ==
    ASSUME NEW S \in SUBSET Nat, IsFiniteSet(S)
    PROVE  /\ Cardinality(S) \in Nat /\ InOrder(S) \in [1 .. Cardinality(S) -> S]
           /\ \A i \in S : \E k \in 1 .. Cardinality(S) : InOrder(S)[k] = i
           /\ \A k, m \in 1 .. Cardinality(S) : InOrder(S)[k] = InOrder(S)[m] => k = m
<1> DEFINE Upto(i) == {n \in S : n <= i}
           rank == [i \in S |-> Cardinality(Upto(i))]
           c == Cardinality(S)
<1>1. c \in Nat
    BY FS_CardinalityType
<1>2. ASSUME NEW i \in S
      PROVE  IsFiniteSet(Upto(i)) /\ Cardinality(Upto(i)) \in 1 .. c
    <2>1. Upto(i) \in SUBSET S /\ i \in Upto(i)
        OBVIOUS
    <2>2. IsFiniteSet(Upto(i)) /\ Cardinality(Upto(i)) <= c
        BY <2>1, FS_Subset
    <2>3. Cardinality(Upto(i)) \in Nat /\ Cardinality(Upto(i)) # 0
        BY <2>1, <2>2, FS_CardinalityType, FS_EmptySet
    <2>4. QED
        BY <1>1, <2>2, <2>3
<1>3. ASSUME NEW i \in S, NEW k \in S, i < k PROVE Cardinality(Upto(i)) # Cardinality(Upto(k))
    <2>0. \A n \in S : n \in Nat
        OBVIOUS
    <2>1. Upto(i) \in SUBSET Upto(k) /\ k \in Upto(k) /\ k \notin Upto(i)
        <3>1. \A n \in Upto(i) : n \in Upto(k)
            BY <1>3, <2>0
        <3>2. k \in Upto(k) /\ k \notin Upto(i)
            BY <1>3, <2>0
        <3>3. QED
            BY <3>1, <3>2
    <2>2. IsFiniteSet(Upto(k))
        BY <1>2
    <2>3. QED
        BY <2>1, <2>2, FS_Subset
<1>4. rank \in Injection(S, 1 .. c)
    <2>1. rank \in [S -> 1 .. c]
        BY <1>2
    <2>2. ASSUME NEW i \in S, NEW k \in S, rank[i] = rank[k] PROVE i = k
        BY <1>3, <2>2
    <2> HIDE DEF rank
    <2>3. QED
        BY <2>1, <2>2, Zenon DEF Injection, IsInjective
<1>5. IsFiniteSet(1 .. c) /\ Cardinality(1 .. c) = c
    BY <1>1, FS_Interval
<1>6. rank \in Surjection(S, 1 .. c)
    <2> HIDE DEF rank
    <2>1. QED
        BY <1>4, <1>5, FS_Injection
<1>7. ASSUME NEW k \in 1 .. c PROVE \E i \in S : rank[i] = k
    BY <1>6 DEF Surjection
<1>8. ASSUME NEW k \in 1 .. c PROVE InOrder(S)[k] \in S /\ rank[InOrder(S)[k]] = k
    <2>1. \E i \in S : Cardinality({n \in S : n <= i}) = k
        BY <1>7
    <2>2. InOrder(S)[k] = CHOOSE i \in S : Cardinality({n \in S : n <= i}) = k
        BY DEF InOrder
    <2>3. QED
        BY <2>1, <2>2
<1>9. InOrder(S) \in [1 .. c -> S]
    BY <1>8 DEF InOrder
<1>10. ASSUME NEW i \in S PROVE \E k \in 1 .. c : InOrder(S)[k] = i
    <2>1. rank[i] \in 1 .. c
        BY <1>2
    <2>2. InOrder(S)[rank[i]] \in S /\ rank[InOrder(S)[rank[i]]] = rank[i]
        BY <1>8, <2>1
    <2>3. InOrder(S)[rank[i]] = i
        <3> HIDE DEF rank
        <3>1. QED
            BY <1>4, <2>2, Zenon DEF Injection, IsInjective
    <2>4. QED
        BY <2>1, <2>3
<1>11. ASSUME NEW k \in 1 .. c, NEW m \in 1 .. c, InOrder(S)[k] = InOrder(S)[m] PROVE k = m
    <2>1. rank[InOrder(S)[k]] = k /\ rank[InOrder(S)[m]] = m
        BY <1>8
    <2>2. QED
        BY <1>11, <2>1
<1>12. QED
    BY <1>1, <1>9, <1>10, <1>11

ActiveRows(rows, t) == {i \in DOMAIN rows : rows[i].template = t /\ rows[i].active}

LEMMA AgreementRead ==
    ASSUME NEW rows \in Seq(RouteRows), NEW default, NEW t
    PROVE  LET R == ActiveRows(rows, t)
           IN ({i \in R : rows[i].flag} = R \cap {default} /\ (R # {} => default \in R)) <=> RoutesAgree(rows, default, t)
BY DEF ActiveRows, RoutesAgree

LEMMA OneAtMost ==
    ASSUME NEW S, IsFiniteSet(S)
    PROVE  Cardinality(S) <= 1 <=> \A x, y \in S : x = y
<1>1. Cardinality(S) \in Nat /\ (Cardinality(S) = 0 <=> S = {}) /\ (Cardinality(S) = 1 <=> \E x : S = {x})
    BY FS_CardinalityType, FS_EmptySet, FS_Singleton
<1>2. ASSUME S # {}, \A x, y \in S : x = y PROVE \E x : S = {x}
    <2>1. PICK x \in S : TRUE
        BY <1>2
    <2>2. S = {x}
        BY <1>2, <2>1
    <2>3. QED
        BY <2>2
<1>3. QED
    BY <1>1, <1>2

LEMMA PrimaryRead ==
    ASSUME NEW rows \in Seq(DrawingRows), NEW t
    PROVE  Cardinality({i \in ActiveRows(rows, t) : rows[i].primary}) <= 1 <=> DrawingsAgree(rows, t)
<1> DEFINE P == {i \in ActiveRows(rows, t) : rows[i].primary}
<1>1. IsFiniteSet(P)
    <2>1. P \in SUBSET (1 .. Len(rows)) /\ Len(rows) \in Nat
        BY DEF ActiveRows
    <2>2. IsFiniteSet(1 .. Len(rows))
        BY <2>1, FS_Interval
    <2>3. QED
        BY <2>1, <2>2, FS_Subset
<1>2. DrawingsAgree(rows, t) <=> \A i, k \in P : i = k
    BY DEF DrawingsAgree, ActiveRows
<1> HIDE DEF P
<1>3. Cardinality(P) <= 1 <=> \A i, k \in P : i = k
    BY <1>1, OneAtMost
<1>4. QED
    BY <1>2, <1>3 DEF P

LEMMA RoutesRead ==
    ASSUME NEW t, routes \in Seq(RouteRows)
    PROVE  RoutesOf(Routes(t), t) = ActiveRows(routes, t) /\ Routes(t).routes = [i \in DOMAIN routes |-> Flags(routes[i])]
<1>1. Routes(t).routes = [i \in DOMAIN routes |-> Flags(routes[i])]
    BY DEF Routes
<1>2. \A i \in DOMAIN routes : Flags(routes[i]).template = routes[i].template /\ Flags(routes[i]).active = routes[i].active
    BY DEF Flags
<1>3. QED
    BY <1>1, <1>2 DEF RoutesOf, ActiveRows

LEMMA AgreesRead ==
    ASSUME NEW t, routes \in Seq(RouteRows), drawings \in Seq(DrawingRows)
    PROVE  Agrees(t) <=> RoutesAgree(routes, defaultRoute[t], t) /\ DrawingsAgree(drawings, t)
<1>1. DrawingsOf(Drawings, t) = ActiveRows(drawings, t)
    BY DEF DrawingsOf, Drawings, ActiveRows
<1>2. RoutesOf(Routes(t), t) = ActiveRows(routes, t)
    BY RoutesRead
<1>3. Agrees(t) <=> /\ {i \in ActiveRows(routes, t) : routes[i].flag} = ActiveRows(routes, t) \cap {defaultRoute[t]}
                    /\ ActiveRows(routes, t) # {} => defaultRoute[t] \in ActiveRows(routes, t)
                    /\ Cardinality({i \in ActiveRows(drawings, t) : drawings[i].primary}) <= 1
    BY <1>1, <1>2, Zenon DEF Agrees
<1>4. QED
    BY <1>3, AgreementRead, PrimaryRead, Zenon

LEMMA RoutesReadLater ==
    ASSUME NEW t, routes' \in Seq(RouteRows)
    PROVE  RoutesOf(Routes(t), t)' = ActiveRows(routes', t)
<1>1. Routes(t).routes' = [i \in DOMAIN routes' |-> Flags(routes'[i])]
    BY DEF Routes
<1>2. \A i \in DOMAIN routes' : Flags(routes'[i]).template = routes'[i].template /\ Flags(routes'[i]).active = routes'[i].active
    BY DEF Flags
<1>3. QED
    BY <1>1, <1>2 DEF RoutesOf, ActiveRows

LEMMA AgreesReadLater ==
    ASSUME NEW t, routes' \in Seq(RouteRows), drawings' \in Seq(DrawingRows)
    PROVE  Agrees(t)' <=> RoutesAgree(routes', defaultRoute'[t], t) /\ DrawingsAgree(drawings', t)
<1>1. DrawingsOf(Drawings, t)' = ActiveRows(drawings', t)
    BY DEF DrawingsOf, Drawings, ActiveRows
<1>2. RoutesOf(Routes(t), t)' = ActiveRows(routes', t)
    BY RoutesReadLater
<1>3. Agrees(t)' <=> /\ {i \in ActiveRows(routes', t) : routes'[i].flag} = ActiveRows(routes', t) \cap {defaultRoute'[t]}
                     /\ ActiveRows(routes', t) # {} => defaultRoute'[t] \in ActiveRows(routes', t)
                     /\ Cardinality({i \in ActiveRows(drawings', t) : drawings'[i].primary}) <= 1
    BY <1>1, <1>2, Zenon DEF Agrees
<1>4. QED
    BY <1>3, AgreementRead, PrimaryRead, Zenon

-----------------------------------------------------------------------------
(* The inductive invariant.                                                *)

Stands == {"absent", "active", "inactive", "deleted"}
Statuses == {"absent", "draft", "released", "in_progress", "on_hold", "completed", "cancelled"}
WorkRows == [template : Templates \cup {"none"}, status : Statuses, snapshots : Seq(Nat), reserved : BOOLEAN]

TemplatesTyped ==
    /\ template \in [Templates -> Stands]
    /\ routes \in Seq(RouteRows)
    /\ defaultRoute \in [Templates -> Nat]
    /\ drawings \in Seq(DrawingRows)
    /\ work \in [Drafts -> WorkRows]
    /\ DOMAIN reading = Sessions

\* Rows and pointers of a template that is there.
OfPresent(rows, stand) == \A i \in DOMAIN rows : stand[rows[i].template] # "absent"
PointsIn(rows, default) == \A t \in Templates : default[t] <= Len(rows)

\* A job has no snapshot before it is released.
Unreleased(w) == w.status \in {"absent", "draft"} => w.snapshots = <<>>

\* What a session has read is a part of what there is now.
DesignRead(r, rows, sheets, stand) ==
    /\ r.was \in Designs /\ r.op = r.cmd.op /\ Asked(r.cmd, r.was)
    /\ RowsGrow(r.was.routes, rows) /\ RowsGrow(r.was.drawings, sheets)
    /\ r.was.default <= Len(r.was.routes)
    /\ stand[r.cmd.t] # "absent"

ReadOf(r, rows, sheets, stand) ==
    /\ r.op \in DesignOps => DesignRead(r, rows, sheets, stand)
    /\ r.op = "release" => r.job \in Drafts /\ r.was.status = "draft" /\ r.route \in 1 .. Len(rows)
    /\ r.op = "status" => r.job \in Drafts /\ r.new \in Follows(r.was.status)

TemplatesInv ==
    /\ TemplatesTyped
    /\ PointsIn(routes, defaultRoute)
    /\ OfPresent(routes, template) /\ OfPresent(drawings, template)
    /\ \A j \in Drafts : Unreleased(work[j])
    /\ \A s \in Sessions : ReadOf(reading[s], routes, drawings, template)

\* Later templates, and what a step leaves of them and of the jobs.
StandsOn(stand, then) == \A t \in Templates : stand[t] # "absent" => then[t] # "absent"

DesignsKept ==
    \A t \in Templates :
        /\ RoutesAgree(routes, defaultRoute[t], t) => RoutesAgree(routes', defaultRoute'[t], t)
        /\ DrawingsAgree(drawings, t) => DrawingsAgree(drawings', t)
JobsKept == \A j \in Drafts : Whole(j) => Whole(j)'

LEMMA StillGrows ==
    ASSUME NEW A, NEW B, NEW D, NEW was \in Seq(A), NEW now \in Seq(B), NEW then \in Seq(D), RowsGrow(was, now), RowsGrow(now, then)
    PROVE  RowsGrow(was, then)
<1>1. /\ DOMAIN was = 1 .. Len(was) /\ DOMAIN now = 1 .. Len(now)
      /\ Len(was) \in Nat /\ Len(now) \in Nat /\ Len(then) \in Nat
    OBVIOUS
<1>2. Len(was) <= Len(now) /\ Len(now) <= Len(then)
    BY DEF RowsGrow
<1>3. \A i \in DOMAIN was : i \in DOMAIN now
    BY <1>1, <1>2
<1>4. \A i \in DOMAIN was : then[i].template = was[i].template
    BY <1>3 DEF RowsGrow
<1>5. QED
    BY <1>1, <1>2, <1>4 DEF RowsGrow

LEMMA StillRead ==
    ASSUME NEW r, NEW rows \in Seq(RouteRows), NEW more \in Seq(RouteRows), NEW sheets \in Seq(DrawingRows), NEW others \in Seq(DrawingRows),
           NEW stand, NEW then, RowsGrow(rows, more), RowsGrow(sheets, others), StandsOn(stand, then),
           ReadOf(r, rows, sheets, stand)
    PROVE  ReadOf(r, more, others, then)
<1>1. ASSUME r.op \in DesignOps PROVE DesignRead(r, more, others, then)
    <2>1. DesignRead(r, rows, sheets, stand)
        BY <1>1 DEF ReadOf
    <2>2. r.was.routes \in Seq(FlagRows) /\ r.was.drawings \in Seq(DrawingRows) /\ r.cmd.t \in Templates
        BY <2>1, DesignFields DEF DesignRead, Asked
    <2>3. RowsGrow(r.was.routes, more) /\ RowsGrow(r.was.drawings, others)
        BY <2>1, <2>2, StillGrows DEF DesignRead
    <2>4. QED
        BY <2>1, <2>2, <2>3 DEF DesignRead, StandsOn
<1>2. ASSUME r.op = "release" PROVE r.route \in 1 .. Len(more)
    <2>1. r.route \in 1 .. Len(rows) /\ Len(rows) \in Nat /\ Len(more) \in Nat /\ Len(rows) <= Len(more)
        BY <1>2 DEF ReadOf, RowsGrow
    <2>2. QED
        BY <2>1
<1>3. QED
    BY <1>1, <1>2 DEF ReadOf

LEMMA SameGrows == ASSUME NEW A, NEW rows \in Seq(A) PROVE RowsGrow(rows, rows)
BY DEF RowsGrow

\* A step that reads and commits nothing keeps what the sessions have read.
LEMMA ReadingsKept ==
    ASSUME TemplatesInv, UNCHANGED reading, routes' \in Seq(RouteRows), drawings' \in Seq(DrawingRows),
           RowsGrow(routes, routes'), RowsGrow(drawings, drawings'), StandsOn(template, template')
    PROVE  \A s \in Sessions : ReadOf(reading'[s], routes', drawings', template')
<1>1. TAKE s \in Sessions
<1>2. ReadOf(reading[s], routes, drawings, template) /\ routes \in Seq(RouteRows) /\ drawings \in Seq(DrawingRows)
    BY DEF TemplatesInv, TemplatesTyped
<1>3. ReadOf(reading[s], routes', drawings', template')
    BY <1>2, StillRead
<1>4. QED
    BY <1>3

LEMMA Unchanging ==
    ASSUME TemplatesInv, UNCHANGED <<routes, defaultRoute, drawings>>
    PROVE  DesignsKept
BY DEF DesignsKept

LEMMA JobsUnchanging == ASSUME UNCHANGED work PROVE JobsKept
BY DEF JobsKept, Whole

LEMMA TemplateSteps ==
    ASSUME TemplatesInv, NEW t \in Templates, CreateTemplate(t) \/ UpdateTemplate(t) \/ DeleteTemplate(t)
    PROVE  TemplatesInv' /\ DesignsKept /\ JobsKept
<1>1. PICK x \in Stands : /\ x # "absent" /\ template' = [template EXCEPT ![t] = x]
                          /\ UNCHANGED <<routes, defaultRoute, drawings, work, reading>>
    BY DEF CreateTemplate, UpdateTemplate, DeleteTemplate, Stands
<1>2. template \in [Templates -> Stands] /\ routes \in Seq(RouteRows) /\ drawings \in Seq(DrawingRows)
    BY DEF TemplatesInv, TemplatesTyped
<1>3. template' \in [Templates -> Stands] /\ StandsOn(template, template')
    BY <1>1, <1>2 DEF StandsOn
<1>4. TemplatesTyped'
    BY <1>1, <1>3 DEF TemplatesInv, TemplatesTyped
<1>5. OfPresent(routes', template') /\ OfPresent(drawings', template')
    <2>1. (\A i \in DOMAIN routes : routes[i].template \in Templates) /\ (\A i \in DOMAIN drawings : drawings[i].template \in Templates)
        <3>1. (\A i \in DOMAIN routes : routes[i] \in RouteRows) /\ (\A i \in DOMAIN drawings : drawings[i] \in DrawingRows)
            BY <1>2
        <3>2. (\A r \in RouteRows : r.template \in Templates) /\ (\A r \in DrawingRows : r.template \in Templates)
            BY DEF RouteRows, DrawingRows
        <3>3. QED
            BY <3>1, <3>2
    <2>2. QED
        BY <1>1, <1>3, <2>1 DEF TemplatesInv, OfPresent, StandsOn
<1>6. RowsGrow(routes, routes') /\ RowsGrow(drawings, drawings') /\ routes' \in Seq(RouteRows) /\ drawings' \in Seq(DrawingRows)
    BY <1>1, <1>2, SameGrows
<1>7. \A s \in Sessions : ReadOf(reading'[s], routes', drawings', template')
    BY <1>1, <1>3, <1>6, ReadingsKept
<1>8. TemplatesInv'
    BY <1>1, <1>4, <1>5, <1>7 DEF TemplatesInv
<1>9. QED
    BY <1>1, <1>8, Unchanging, JobsUnchanging

LEMMA JobSteps ==
    ASSUME TemplatesInv, NEW t \in Templates, NEW j \in Drafts, CreateJob(j, t) \/ UpdateJob(j, t)
    PROVE  TemplatesInv' /\ DesignsKept /\ JobsKept
<1>1. PICK w : /\ work[j].status \in {"absent", "draft"} /\ w = [work[j] EXCEPT !.status = "draft", !.template = t]
               /\ work' = [work EXCEPT ![j] = w] /\ UNCHANGED <<template, routes, defaultRoute, drawings, reading>>
    <2>1. work[j] \in WorkRows /\ work \in [Drafts -> WorkRows]
        BY DEF TemplatesInv, TemplatesTyped
    <2>2. CASE CreateJob(j, t)
        BY <2>1, <2>2 DEF CreateJob, WorkRows
    <2>3. CASE UpdateJob(j, t)
        <3>1. [work[j] EXCEPT !.status = "draft", !.template = t] = [work[j] EXCEPT !.template = t]
            BY <2>1, <2>3 DEF UpdateJob, WorkRows
        <3>2. QED
            BY <2>1, <2>3, <3>1 DEF UpdateJob
    <2>4. QED
        BY <2>2, <2>3
<1>2. work \in [Drafts -> WorkRows] /\ work[j] \in WorkRows /\ Unreleased(work[j])
    BY DEF TemplatesInv, TemplatesTyped
<1>3. w \in WorkRows /\ w.status = "draft" /\ w.snapshots = <<>>
    BY <1>1, <1>2 DEF WorkRows, Unreleased, Statuses
<1>4. TemplatesTyped'
    BY <1>1, <1>2, <1>3 DEF TemplatesInv, TemplatesTyped
<1>5. \A k \in Drafts : Unreleased(work'[k])
    BY <1>1, <1>2, <1>3 DEF TemplatesInv, Unreleased
<1>6. TemplatesInv'
    BY <1>1, <1>4, <1>5 DEF TemplatesInv
<1>7. JobsKept
    <2>1. Whole(j)'
        BY <1>1, <1>2, <1>3 DEF Whole
    <2>2. ASSUME NEW k \in Drafts, k # j PROVE Whole(k) => Whole(k)'
        BY <1>1, <1>2, <2>2 DEF Whole
    <2>3. QED
        BY <2>1, <2>2 DEF JobsKept
<1>8. QED
    BY <1>1, <1>6, <1>7, Unchanging

\* Only the steps of routes change.
LEMMA StepsOnly ==
    ASSUME TemplatesInv, NEW r \in DOMAIN routes, NEW steps \in StepLists,
           routes' = [routes EXCEPT ![r].steps = steps], UNCHANGED <<template, defaultRoute, drawings>>
    PROVE  /\ routes' \in Seq(RouteRows) /\ RowsGrow(routes, routes') /\ Len(routes') = Len(routes)
           /\ OfPresent(routes', template') /\ OfPresent(drawings', template') /\ PointsIn(routes', defaultRoute')
           /\ DesignsKept
<1>1. /\ routes \in Seq(RouteRows) /\ DOMAIN routes = 1 .. Len(routes) /\ Len(routes) \in Nat
      /\ \A i \in DOMAIN routes : routes[i] \in RouteRows
      /\ PointsIn(routes, defaultRoute) /\ OfPresent(routes, template) /\ OfPresent(drawings, template)
      /\ defaultRoute \in [Templates -> Nat]
    BY DEF TemplatesInv, TemplatesTyped
<1>2. PICK row : row = [routes[r] EXCEPT !.steps = steps]
    OBVIOUS
<1>3. /\ row \in RouteRows /\ row.template = routes[r].template /\ (row.active <=> routes[r].active) /\ (row.flag <=> routes[r].flag)
    BY <1>1, <1>2 DEF RouteRows
<1>4. routes' = [routes EXCEPT ![r] = row]
    BY <1>2
<1>5. /\ routes' \in Seq(RouteRows) /\ Len(routes') = Len(routes) /\ DOMAIN routes' = DOMAIN routes
      /\ \A i \in DOMAIN routes : /\ routes'[i].template = routes[i].template
                                  /\ (routes'[i].active <=> routes[i].active) /\ (routes'[i].flag <=> routes[i].flag)
    <2>1. routes' \in Seq(RouteRows) /\ Len(routes') = Len(routes) /\ DOMAIN routes' = DOMAIN routes
        BY <1>1, <1>3, <1>4
    <2>2. routes'[r] = row /\ \A i \in DOMAIN routes \ {r} : routes'[i] = routes[i]
        BY <1>1, <1>4
    <2>3. ASSUME NEW i \in DOMAIN routes
          PROVE  routes'[i].template = routes[i].template /\ (routes'[i].active <=> routes[i].active) /\ (routes'[i].flag <=> routes[i].flag)
        <3>1. CASE i = r
            BY <1>3, <2>2, <3>1
        <3>2. CASE i # r
            BY <2>2, <3>2
        <3>3. QED
            BY <3>1, <3>2
    <2>4. QED
        BY <2>1, <2>3
<1>6. RowsGrow(routes, routes')
    BY <1>1, <1>5 DEF RowsGrow
<1>7. OfPresent(routes', template') /\ OfPresent(drawings', template') /\ PointsIn(routes', defaultRoute')
    BY <1>1, <1>5 DEF OfPresent, PointsIn
<1>8. ASSUME NEW t \in Templates, RoutesAgree(routes, defaultRoute[t], t) PROVE RoutesAgree(routes', defaultRoute'[t], t)
    <2>1. PICK n \in Nat, k \in Nat : n = Len(routes) /\ k \in 0 .. n /\ k = defaultRoute[t]
        BY <1>1 DEF PointsIn
    <2>2. DOMAIN routes = 1 .. n /\ DOMAIN routes' = 1 .. n /\ RoutesAgree(routes, k, t)
        BY <1>1, <1>5, <1>8, <2>1
    <2>3. RoutesAgree(routes', k, t)
        BY <1>5, <2>2 DEF RoutesAgree
    <2>4. QED
        BY <2>1, <2>3
<1>9. DesignsKept
    BY <1>8 DEF DesignsKept
<1>10. QED
    BY <1>5, <1>6, <1>7, <1>9

LEMMA StepLengths ==
    /\ \A steps \in StepLists : DOMAIN steps \subseteq Orders /\ \A k \in DOMAIN steps : steps[k] \in {"planned", "copied"}
    /\ \A D \in SUBSET Orders : \A f \in [D -> {"planned", "copied"}] : f \in StepLists
BY DEF StepLists

LEMMA RouteSteps ==
    ASSUME TemplatesInv, NEW t \in Templates, NEW r \in DOMAIN routes, AddStep(t, r) \/ DeleteStep(t, r) \/ ReorderSteps(t, r)
    PROVE  TemplatesInv' /\ DesignsKept /\ JobsKept
<1>1. routes[r] \in RouteRows /\ routes[r].steps \in StepLists
    <2>1. routes[r] \in RouteRows
        BY DEF TemplatesInv, TemplatesTyped
    <2>2. QED
        BY <2>1 DEF RouteRows
<1>2. /\ DOMAIN routes[r].steps \subseteq Orders
      /\ \A k \in DOMAIN routes[r].steps : routes[r].steps[k] \in {"planned", "copied"}
    BY <1>1, StepLengths
<1>3. PICK steps \in StepLists : StepsChange(t, r, steps)
    <2>1. CASE AddStep(t, r)
        <3>1. PICK n \in Orders \ DOMAIN routes[r].steps :
                StepsChange(t, r, [k \in DOMAIN routes[r].steps \cup {n} |-> IF k = n THEN "planned" ELSE routes[r].steps[k]])
            BY <2>1 DEF AddStep
        <3>2. DOMAIN routes[r].steps \cup {n} \in SUBSET Orders
            BY <1>2
        <3>3. [k \in DOMAIN routes[r].steps \cup {n} |-> IF k = n THEN "planned" ELSE routes[r].steps[k]]
                \in [DOMAIN routes[r].steps \cup {n} -> {"planned", "copied"}]
            BY <1>2
        <3>4. QED
            BY <3>1, <3>2, <3>3, StepLengths
    <2>2. CASE DeleteStep(t, r)
        <3>1. PICK n \in DOMAIN routes[r].steps :
                StepsChange(t, r, [k \in DOMAIN routes[r].steps \ {n} |-> routes[r].steps[k]])
            BY <2>2 DEF DeleteStep
        <3>2. DOMAIN routes[r].steps \ {n} \in SUBSET Orders
            BY <1>2
        <3>3. [k \in DOMAIN routes[r].steps \ {n} |-> routes[r].steps[k]]
                \in [DOMAIN routes[r].steps \ {n} -> {"planned", "copied"}]
            BY <1>2
        <3>4. QED
            BY <3>1, <3>2, <3>3, StepLengths
    <2>3. CASE ReorderSteps(t, r)
        <3> DEFINE old == DOMAIN routes[r].steps
        <3>1. PICK order \in [old -> Orders] :
                StepsChange(t, r, [k \in {order[n] : n \in old} |-> routes[r].steps[CHOOSE n \in old : order[n] = k]])
            BY <2>3 DEF ReorderSteps
        <3>2. {order[n] : n \in old} \in SUBSET Orders
            OBVIOUS
        <3>3. ASSUME NEW k \in {order[n] : n \in old}
              PROVE  routes[r].steps[CHOOSE n \in old : order[n] = k] \in {"planned", "copied"}
            <4>1. \E n \in old : order[n] = k
                OBVIOUS
            <4>2. (CHOOSE n \in old : order[n] = k) \in old
                BY <4>1
            <4>3. QED
                BY <1>2, <4>2
        <3>4. [k \in {order[n] : n \in old} |-> routes[r].steps[CHOOSE n \in old : order[n] = k]]
                \in [{order[n] : n \in old} -> {"planned", "copied"}]
            BY <3>3
        <3>5. QED
            BY <3>1, <3>2, <3>4, StepLengths
    <2>4. QED
        BY <2>1, <2>2, <2>3
<1>4. routes' = [routes EXCEPT ![r].steps = steps] /\ UNCHANGED <<template, defaultRoute, drawings, work, reading>>
    BY <1>3 DEF StepsChange
<1>5. /\ routes' \in Seq(RouteRows) /\ RowsGrow(routes, routes') /\ OfPresent(routes', template') /\ OfPresent(drawings', template')
      /\ PointsIn(routes', defaultRoute') /\ DesignsKept
    BY <1>4, StepsOnly
<1>6. TemplatesTyped'
    BY <1>4, <1>5 DEF TemplatesInv, TemplatesTyped
<1>7. \A s \in Sessions : ReadOf(reading'[s], routes', drawings', template')
    <2>1. drawings' \in Seq(DrawingRows) /\ RowsGrow(drawings, drawings') /\ StandsOn(template, template')
        BY <1>4, SameGrows DEF TemplatesInv, TemplatesTyped, StandsOn
    <2>2. QED
        BY <1>4, <1>5, <2>1, ReadingsKept
<1>8. TemplatesInv'
    BY <1>4, <1>5, <1>6, <1>7 DEF TemplatesInv
<1>9. QED
    BY <1>4, <1>5, <1>8, JobsUnchanging

LEMMA VersionSteps ==
    ASSUME TemplatesInv, NEW t \in Templates, NEW r \in DOMAIN routes, NewVersion(t, r)
    PROVE  TemplatesInv' /\ DesignsKept /\ JobsKept
<1>0. /\ routes \in Seq(RouteRows) /\ DOMAIN routes = 1 .. Len(routes) /\ Len(routes) \in Nat
      /\ \A i \in DOMAIN routes : routes[i] \in RouteRows
      /\ PointsIn(routes, defaultRoute) /\ OfPresent(routes, template) /\ defaultRoute \in [Templates -> Nat]
      /\ drawings \in Seq(DrawingRows) /\ OfPresent(drawings, template)
    BY DEF TemplatesInv, TemplatesTyped
<1> DEFINE highest == CHOOSE v \in 1 .. MaxVersion :
                /\ \E i \in RoutesOf(Routes(t), t) : routes[i].version = v
                /\ \A i \in RoutesOf(Routes(t), t) : routes[i].version <= v
           new == [template |-> t, version |-> highest + 1, active |-> TRUE, flag |-> FALSE, steps |-> Planned(routes[r].steps)]
<1>1. /\ Live(t) /\ r \in RoutesOf(Routes(t), t) /\ highest < MaxVersion /\ routes' = Append(routes, new)
      /\ UNCHANGED <<template, defaultRoute, drawings, work, reading>>
    BY DEF NewVersion
<1>2. RoutesOf(Routes(t), t) = ActiveRows(routes, t)
    BY <1>0, RoutesRead
<1>3. highest \in 1 .. MaxVersion
    <2> DEFINE R == ActiveRows(routes, t)
               v == [i \in R |-> routes[i].version]
    <2>1. R \in SUBSET Nat /\ R # {} /\ \A i \in R : v[i] \in 1 .. MaxVersion
        BY <1>0, <1>1, <1>2 DEF ActiveRows, RouteRows
    <2>2. \E i \in R : \A k \in R : v[i] > v[k] \/ (v[i] = v[k] /\ i <= k)
        <3> HIDE DEF R, v
        <3>1. QED
            BY <2>1, FirstByVersion
    <2>3. PICK i \in R : \A k \in R : v[i] > v[k] \/ v[i] = v[k]
        BY <2>2
    <2>4. \A k \in R : v[k] <= v[i]
        BY <2>1, <2>3, TemplatesAssumption
    <2>5. v[i] \in 1 .. MaxVersion /\ (\E k \in R : routes[k].version = v[i]) /\ \A k \in R : routes[k].version <= v[i]
        BY <2>1, <2>4
    <2> HIDE DEF R, v
    <2>6. \E x \in 1 .. MaxVersion : (\E k \in R : routes[k].version = x) /\ \A k \in R : routes[k].version <= x
        BY <2>5
    <2>7. QED
        BY <1>2, <2>6 DEF R
<1>4. new \in RouteRows /\ new.template = t /\ ~new.flag
    <2>1. highest + 1 \in 1 .. MaxVersion
        <3> HIDE DEF highest
        <3>1. QED
            BY <1>1, <1>3, TemplatesAssumption
    <2>2. Planned(routes[r].steps) \in StepLists
        <3>1. DOMAIN routes[r].steps \subseteq Orders
            BY <1>0, StepLengths DEF RouteRows
        <3>2. Planned(routes[r].steps) \in [DOMAIN routes[r].steps -> {"planned", "copied"}]
            BY DEF Planned
        <3>3. QED
            BY <3>1, <3>2, StepLengths
    <2> HIDE DEF highest
    <2>3. QED
        BY <2>1, <2>2 DEF RouteRows
<1> HIDE DEF highest, new
<1>5. /\ routes' \in Seq(RouteRows) /\ Len(routes') = Len(routes) + 1 /\ DOMAIN routes' = 1 .. Len(routes) + 1
      /\ routes'[Len(routes) + 1] = new /\ \A i \in DOMAIN routes : routes'[i] = routes[i]
    BY <1>0, <1>1, <1>4
<1>6. RowsGrow(routes, routes') /\ RowsGrow(drawings, drawings') /\ StandsOn(template, template') /\ drawings' \in Seq(DrawingRows)
    BY <1>0, <1>1, <1>5, SameGrows DEF RowsGrow, StandsOn
<1>7. template[t] # "absent"
    BY <1>1 DEF Live
<1>8. OfPresent(routes', template') /\ OfPresent(drawings', template') /\ PointsIn(routes', defaultRoute')
    <2>1. ASSUME NEW i \in 1 .. Len(routes) + 1 PROVE template'[routes'[i].template] # "absent"
        <3>1. i \in DOMAIN routes \/ i = Len(routes) + 1
            BY <1>0
        <3>2. QED
            BY <1>0, <1>1, <1>4, <1>5, <1>7, <3>1 DEF OfPresent
    <2>2. PointsIn(routes', defaultRoute')
        BY <1>0, <1>1, <1>5 DEF PointsIn
    <2>3. QED
        BY <1>0, <1>1, <1>5, <2>1, <2>2 DEF OfPresent
<1>9. TemplatesInv'
    <2>1. TemplatesTyped'
        BY <1>1, <1>5, <1>6 DEF TemplatesInv, TemplatesTyped
    <2>2. \A s \in Sessions : ReadOf(reading'[s], routes', drawings', template')
        BY <1>1, <1>5, <1>6, ReadingsKept
    <2>3. QED
        BY <1>1, <1>8, <2>1, <2>2 DEF TemplatesInv
<1>10. DesignsKept
    <2>1. ASSUME NEW u \in Templates, RoutesAgree(routes, defaultRoute[u], u) PROVE RoutesAgree(routes', defaultRoute[u], u)
        <3>0. defaultRoute[u] \in Nat /\ defaultRoute[u] <= Len(routes) /\ Len(routes) \in Nat
            BY <1>0 DEF PointsIn
        <3>1. PICK n \in Nat, k \in Nat : n = Len(routes) /\ k \in 0 .. n /\ k = defaultRoute[u]
            BY <3>0
        <3>2. DOMAIN routes = 1 .. n /\ DOMAIN routes' = 1 .. n + 1 /\ RoutesAgree(routes, k, u)
            BY <1>0, <1>5, <2>1, <3>1
        <3>3. PICK m \in Nat : m = n + 1 /\ n <= m
            OBVIOUS
        <3>4. AddsUnmarked(routes, routes', u, n, m)
            <4>1. ASSUME NEW i \in n + 1 .. m PROVE i = n + 1 /\ routes'[i] = new
                BY <1>5, <3>1, <3>3
            <4>2. r \in 1 .. n /\ routes[r].template = t /\ routes[r].active
                BY <1>1, <1>2, <3>2 DEF ActiveRows
            <4>3. QED
                BY <1>4, <4>1, <4>2 DEF AddsUnmarked
        <3>5. FlagsAlike(routes, routes', u, n)
            BY <1>5, <3>2 DEF FlagsAlike
        <3>6. RoutesAgree(routes', k, u)
            BY <3>1, <3>2, <3>3, <3>4, <3>5, RoutesAlike
        <3>7. QED
            BY <3>1, <3>6
    <2>2. QED
        BY <1>1, <2>1 DEF DesignsKept
<1>11. QED
    BY <1>1, <1>9, <1>10, JobsUnchanging

\* A session has read, or lets go of what it has read.
LEMMA ReadingSet ==
    ASSUME TemplatesInv, NEW s \in Sessions, NEW r, ReadOf(r, routes, drawings, template),
           reading' = [reading EXCEPT ![s] = r], UNCHANGED <<template, routes, defaultRoute, drawings, work>>
    PROVE  TemplatesInv' /\ DesignsKept /\ JobsKept
<1>1. DOMAIN reading = Sessions
    BY DEF TemplatesInv, TemplatesTyped
<1>2. TemplatesTyped'
    BY <1>1 DEF TemplatesInv, TemplatesTyped
<1>3. ASSUME NEW x \in Sessions PROVE ReadOf(reading'[x], routes, drawings, template)
    <2>1. CASE x = s
        BY <1>1, <2>1
    <2>2. CASE x # s
        <3>1. reading'[x] = reading[x]
            BY <1>1, <2>2
        <3>2. QED
            BY <3>1 DEF TemplatesInv
    <2>3. QED
        BY <2>1, <2>2
<1>4. TemplatesInv'
    BY <1>2, <1>3 DEF TemplatesInv
<1>5. QED
    BY <1>4, Unchanging, JobsUnchanging

LEMMA AbandonSteps ==
    ASSUME TemplatesInv, NEW s \in Sessions, Abandon(s)
    PROVE  TemplatesInv' /\ DesignsKept /\ JobsKept
<1>1. ReadOf(Idle, routes, drawings, template)
    BY DEF ReadOf, Idle, DesignOps, RouteOps, DrawingOps
<1>2. QED
    BY <1>1, ReadingSet DEF Abandon

LEMMA LoadedThere ==
    ASSUME TemplatesInv, NEW t \in Templates
    PROVE  /\ Routes(t) \in Designs /\ Drawings \in Designs
           /\ RowsGrow(Routes(t).routes, routes) /\ RowsGrow(Routes(t).drawings, drawings)
           /\ RowsGrow(Drawings.routes, routes) /\ RowsGrow(Drawings.drawings, drawings)
           /\ Routes(t).default <= Len(Routes(t).routes) /\ Drawings.default <= Len(Drawings.routes)
<1>1. /\ routes \in Seq(RouteRows) /\ DOMAIN routes = 1 .. Len(routes) /\ Len(routes) \in Nat
      /\ \A i \in DOMAIN routes : routes[i] \in RouteRows
      /\ drawings \in Seq(DrawingRows) /\ Len(drawings) \in Nat /\ DOMAIN drawings = 1 .. Len(drawings)
      /\ defaultRoute[t] \in Nat /\ defaultRoute[t] <= Len(routes)
    BY DEF TemplatesInv, TemplatesTyped, PointsIn
<1> DEFINE flags == [i \in DOMAIN routes |-> Flags(routes[i])]
<1>2. \A r \in RouteRows : Flags(r) \in FlagRows /\ Flags(r).template = r.template
    BY DEF RouteRows, FlagRows, Flags
<1>3. /\ flags \in Seq(FlagRows) /\ Len(flags) = Len(routes) /\ DOMAIN flags = DOMAIN routes
      /\ \A i \in DOMAIN flags : flags[i].template = routes[i].template
    BY <1>1, <1>2
<1> HIDE DEF flags
<1>4. Routes(t) = [routes |-> flags, default |-> defaultRoute[t], drawings |-> <<>>]
    BY DEF Routes, flags
<1>5. Drawings = [routes |-> <<>>, default |-> 0, drawings |-> drawings]
    BY DEF Drawings
<1>6. Routes(t) \in Designs /\ Drawings \in Designs
    BY <1>1, <1>3, <1>4, <1>5 DEF Designs
<1>7. RowsGrow(flags, routes) /\ RowsGrow(drawings, drawings) /\ RowsGrow(<<>>, routes) /\ RowsGrow(<<>>, drawings)
    BY <1>1, <1>3 DEF RowsGrow
<1>8. QED
    BY <1>1, <1>3, <1>4, <1>5, <1>6, <1>7

LEMMA ReadDesignSteps ==
    ASSUME TemplatesInv, NEW s \in Sessions, NEW t \in Templates, ReadDesign(s, t)
    PROVE  TemplatesInv' /\ DesignsKept /\ JobsKept
<1>1. PICK c \in Commands(t) : /\ reading' = [reading EXCEPT ![s] = [op |-> c.op, cmd |-> c, was |-> Loaded(c.op, c.t)]]
                               /\ Live(t) /\ UNCHANGED <<template, routes, defaultRoute, drawings, work>>
    BY DEF ReadDesign
<1>2. PICK r : r = [op |-> c.op, cmd |-> c, was |-> Loaded(c.op, c.t)]
    OBVIOUS
<1>3. /\ c.t = t /\ c.op \in DesignOps
      /\ c.op = "create_route" => c.x \in 1 .. MaxVersion
      /\ c.op \in {"create_route", "upload", "set_primary"} => c.on \in BOOLEAN
      /\ c.op \in {"delete_route", "set_default"} => c.x \in RoutesOf(Routes(t), t)
      /\ c.op \in {"set_primary", "remove"} => c.x \in DrawingsOf(Drawings, t)
    BY DEF Commands, DesignOps, RouteOps, DrawingOps
<1>4. Asked(c, Loaded(c.op, c.t))
    <2>1. Loaded(c.op, c.t) = IF c.op \in RouteOps THEN Routes(t) ELSE Drawings
        BY <1>3 DEF Loaded
    <2>2. CASE c.op \in RouteOps
        BY <1>3, <2>1, <2>2 DEF Asked, RouteOps
    <2>3. CASE c.op \notin RouteOps
        BY <1>3, <2>1, <2>3 DEF Asked, RouteOps
    <2>4. QED
        BY <2>2, <2>3
<1>5. /\ Loaded(c.op, c.t) \in Designs
      /\ RowsGrow(Loaded(c.op, c.t).routes, routes) /\ RowsGrow(Loaded(c.op, c.t).drawings, drawings)
      /\ Loaded(c.op, c.t).default <= Len(Loaded(c.op, c.t).routes)
    BY <1>3, LoadedThere DEF Loaded
<1>6. template[t] # "absent"
    BY <1>1 DEF Live
<1>7. DesignRead(r, routes, drawings, template)
    BY <1>2, <1>3, <1>4, <1>5, <1>6 DEF DesignRead
<1>8. ReadOf(r, routes, drawings, template)
    BY <1>2, <1>3, <1>7 DEF ReadOf, DesignOps, RouteOps, DrawingOps
<1>9. QED
    BY <1>1, <1>2, <1>8, ReadingSet

LEMMA DefaultThere ==
    ASSUME NEW t, routes \in Seq(RouteRows), RoutesOf(Routes(t), t) # {}
    PROVE  DefaultOf(t) \in ActiveRows(routes, t)
<1> DEFINE R == ActiveRows(routes, t)
           F == {i \in R : routes[i].flag}
<1>1. DOMAIN routes = 1 .. Len(routes) /\ Len(routes) \in Nat /\ \A i \in DOMAIN routes : routes[i] \in RouteRows
    OBVIOUS
<1>2. RoutesOf(Routes(t), t) = R /\ Routes(t).routes = [i \in DOMAIN routes |-> Flags(routes[i])]
    BY RoutesRead
<1>3. R \in SUBSET Nat /\ F \in SUBSET R /\ R \in SUBSET DOMAIN routes
    BY <1>1 DEF ActiveRows
<1>4. \A i \in DOMAIN routes : routes[i].version \in 1 .. MaxVersion
    BY <1>1 DEF RouteRows
<1> HIDE DEF R
<1>5. DefaultOf(t) = IF defaultRoute[t] \in R THEN defaultRoute[t]
                     ELSE IF F # {}
                     THEN CHOOSE i \in F : \A k \in F :
                              \/ routes[i].version > routes[k].version
                              \/ routes[i].version = routes[k].version /\ i <= k
                     ELSE FirstRoute(Routes(t), t)
    BY <1>2 DEF DefaultOf
<1>6. CASE defaultRoute[t] \in R
    BY <1>5, <1>6 DEF R
<1>7. CASE defaultRoute[t] \notin R /\ F # {}
    <2> DEFINE v == [i \in F |-> routes[i].version]
    <2>1. F \in SUBSET Nat /\ \A i \in F : v[i] \in 1 .. MaxVersion
        BY <1>3, <1>4
    <2>2. \E i \in F : \A k \in F : v[i] > v[k] \/ (v[i] = v[k] /\ i <= k)
        <3> HIDE DEF F, v
        <3>1. QED
            BY <1>7, <2>1, FirstByVersion
    <2>3. \E i \in F : \A k \in F : \/ routes[i].version > routes[k].version
                                    \/ routes[i].version = routes[k].version /\ i <= k
        BY <2>2
    <2> HIDE DEF F
    <2>4. DefaultOf(t) \in F
        BY <1>5, <1>7, <2>3
    <2>5. QED
        BY <1>3, <2>4 DEF R
<1>8. CASE defaultRoute[t] \notin R /\ F = {}
    <2>1. DefaultOf(t) = FirstRoute(Routes(t), t)
        BY <1>5, <1>8
    <2>2. DOMAIN Routes(t).routes \subseteq Nat /\ \A i \in DOMAIN Routes(t).routes : Routes(t).routes[i].version \in 1 .. MaxVersion
        BY <1>1, <1>2, <1>4 DEF Flags
    <2>3. FirstRoute(Routes(t), t) \in RoutesOf(Routes(t), t)
        BY <2>2, FirstRouteThere
    <2>4. QED
        BY <1>2, <2>1, <2>3 DEF R
<1>9. QED
    BY <1>6, <1>7, <1>8

LEMMA ReadReleaseSteps ==
    ASSUME TemplatesInv, NEW s \in Sessions, NEW j \in Drafts, ReadRelease(s, j)
    PROVE  TemplatesInv' /\ DesignsKept /\ JobsKept
<1> DEFINE t == work[j].template
           r == [op |-> "release", job |-> j, was |-> work[j], route |-> DefaultOf(t), steps |-> DOMAIN routes[DefaultOf(t)].steps]
<1>1. /\ work[j].status = "draft" /\ RoutesOf(Routes(t), t) # {} /\ reading' = [reading EXCEPT ![s] = r]
      /\ UNCHANGED <<template, routes, defaultRoute, drawings, work>>
    BY DEF ReadRelease, Releasable
<1>2. DefaultOf(t) \in DOMAIN routes /\ DOMAIN routes = 1 .. Len(routes)
    <2>1. routes \in Seq(RouteRows)
        BY DEF TemplatesInv, TemplatesTyped
    <2>2. DefaultOf(t) \in ActiveRows(routes, t)
        BY <1>1, <2>1, DefaultThere
    <2>3. QED
        BY <2>1, <2>2 DEF ActiveRows
<1>3. ReadOf(r, routes, drawings, template)
    BY <1>1, <1>2 DEF ReadOf, DesignOps, RouteOps, DrawingOps
<1>4. QED
    <2> HIDE DEF r
    <2>1. QED
        BY <1>1, <1>3, ReadingSet

LEMMA ReadStatusSteps ==
    ASSUME TemplatesInv, NEW s \in Sessions, NEW j \in Drafts, ReadStatus(s, j)
    PROVE  TemplatesInv' /\ DesignsKept /\ JobsKept
<1>1. PICK new \in Follows(work[j].status) :
            /\ reading' = [reading EXCEPT ![s] = [op |-> "status", job |-> j, was |-> work[j], new |-> new]]
            /\ UNCHANGED <<template, routes, defaultRoute, drawings, work>>
    BY DEF ReadStatus
<1>2. PICK r : r = [op |-> "status", job |-> j, was |-> work[j], new |-> new]
    OBVIOUS
<1>3. ReadOf(r, routes, drawings, template)
    BY <1>2 DEF ReadOf, DesignOps, RouteOps, DrawingOps
<1>4. QED
    BY <1>1, <1>2, <1>3, ReadingSet

-----------------------------------------------------------------------------
(* Releases and changes of status.                                         *)

\* A job splits when a session commits what it read of another job, as it were.
JobSplit(j, s) == reading[s].op \in {"release", "status"} /\ reading[s].job = j /\ reading[s].was # work[j] /\ reading'[s] = Idle

LEMMA IdleRead ==
    ASSUME NEW rows, NEW sheets, NEW stand
    PROVE  ReadOf(Idle, rows, sheets, stand)
BY DEF ReadOf, Idle, DesignOps, RouteOps, DrawingOps

\* A session commits: the others have read what they had read.
LEMMA OthersRead ==
    ASSUME TemplatesInv, NEW s \in Sessions, reading' = [reading EXCEPT ![s] = Idle],
           routes' \in Seq(RouteRows), drawings' \in Seq(DrawingRows),
           RowsGrow(routes, routes'), RowsGrow(drawings, drawings'), StandsOn(template, template')
    PROVE  /\ DOMAIN reading' = Sessions /\ reading'[s] = Idle
           /\ \A x \in Sessions : ReadOf(reading'[x], routes', drawings', template')
<1>1. DOMAIN reading = Sessions /\ routes \in Seq(RouteRows) /\ drawings \in Seq(DrawingRows)
    BY DEF TemplatesInv, TemplatesTyped
<1>2. ASSUME NEW x \in Sessions PROVE ReadOf(reading'[x], routes', drawings', template')
    <2>1. CASE x = s
        BY <1>1, <2>1, IdleRead
    <2>2. CASE x # s
        <3>1. reading'[x] = reading[x] /\ ReadOf(reading[x], routes, drawings, template)
            BY <1>1, <2>2 DEF TemplatesInv
        <3>2. ReadOf(reading[x], routes', drawings', template')
            BY <1>1, <3>1, StillRead
        <3>3. QED
            BY <3>1, <3>2
    <2>3. QED
        BY <2>1, <2>2
<1>3. QED
    BY <1>1, <1>2

LEMMA ReleaseSteps ==
    ASSUME TemplatesInv, NEW s \in Sessions, CommitRelease(s)
    PROVE  TemplatesInv' /\ DesignsKept /\ \A j \in Drafts : Whole(j) /\ ~Whole(j)' => JobSplit(j, s)
<1> DEFINE c == reading[s]
<1>1. /\ c.op = "release" /\ c.job \in Drafts /\ c.was.status = "draft" /\ c.route \in 1 .. Len(routes)
    BY DEF CommitRelease, TemplatesInv, ReadOf
<1>2. PICK x \in Drafts : x = c.job
    BY <1>1
<1>3. PICK r \in DOMAIN routes : r = c.route
    BY <1>1 DEF TemplatesInv, TemplatesTyped
<1>4. PICK w : w = [work[x] EXCEPT !.status = "released", !.reserved = TRUE, !.snapshots = Append(@, r)]
    OBVIOUS
<1>5. PICK steps : steps = [k \in DOMAIN routes[r].steps |-> IF k \in c.steps THEN "copied" ELSE routes[r].steps[k]]
    OBVIOUS
<1>6. work \in [Drafts -> WorkRows] /\ work[x] \in WorkRows /\ routes[r] \in RouteRows /\ Unreleased(work[x])
    BY DEF TemplatesInv, TemplatesTyped
<1>7. /\ work' = [work EXCEPT ![x] = w] /\ routes' = [routes EXCEPT ![r].steps = steps]
      /\ reading' = [reading EXCEPT ![s] = Idle] /\ UNCHANGED <<template, defaultRoute, drawings>>
    <2>1. work' = [work EXCEPT ![x].status = "released", ![x].reserved = TRUE, ![x].snapshots = Append(@, r)]
        BY <1>2, <1>3 DEF CommitRelease
    <2>2. work' = [work EXCEPT ![x] = w]
        BY <1>4, <1>6, <2>1 DEF WorkRows
    <2>3. QED
        BY <1>2, <1>3, <1>5, <2>2 DEF CommitRelease
<1>8. steps \in StepLists
    <2>1. routes[r].steps \in StepLists
        BY <1>6 DEF RouteRows
    <2>2. steps \in [DOMAIN routes[r].steps -> {"planned", "copied"}] /\ DOMAIN routes[r].steps \in SUBSET Orders
        BY <1>5, <2>1, StepLengths
    <2>3. QED
        BY <2>2, StepLengths
<1>9. w \in WorkRows /\ w.status = "released" /\ w.snapshots = Append(work[x].snapshots, r)
    <2>1. r \in Nat
        BY DEF TemplatesInv, TemplatesTyped
    <2>2. QED
        <3>1. Append(work[x].snapshots, r) \in Seq(Nat)
            BY <1>6, <2>1 DEF WorkRows
        <3>2. PICK more \in Seq(Nat) : more = Append(work[x].snapshots, r)
            BY <3>1
        <3>3. w = [work[x] EXCEPT !.status = "released", !.reserved = TRUE, !.snapshots = more]
            BY <1>4, <1>6, <3>2 DEF WorkRows
        <3>4. QED
            BY <1>6, <3>2, <3>3 DEF WorkRows, Statuses
<1>10. /\ routes' \in Seq(RouteRows) /\ RowsGrow(routes, routes') /\ OfPresent(routes', template') /\ OfPresent(drawings', template')
       /\ PointsIn(routes', defaultRoute') /\ DesignsKept
    BY <1>7, <1>8, StepsOnly
<1>11. drawings' \in Seq(DrawingRows) /\ RowsGrow(drawings, drawings') /\ StandsOn(template, template')
    BY <1>7, SameGrows DEF TemplatesInv, TemplatesTyped, StandsOn
<1>12. DOMAIN reading' = Sessions /\ reading'[s] = Idle /\ \A y \in Sessions : ReadOf(reading'[y], routes', drawings', template')
    BY <1>7, <1>10, <1>11, OthersRead
<1>13. work' \in [Drafts -> WorkRows] /\ \A j \in Drafts : Unreleased(work'[j])
    BY <1>6, <1>7, <1>9 DEF TemplatesInv, Unreleased
<1>14. TemplatesInv'
    <2>1. TemplatesTyped'
        BY <1>7, <1>10, <1>12, <1>13 DEF TemplatesInv, TemplatesTyped
    <2>2. QED
        BY <1>10, <1>12, <1>13, <2>1 DEF TemplatesInv
<1>15. ASSUME NEW j \in Drafts, Whole(j), ~Whole(j)' PROVE JobSplit(j, s)
    <2>1. j = x
        BY <1>6, <1>7, <1>15 DEF Whole
    <2>2. ASSUME c.was = work[x] PROVE FALSE
        <3>1. work[x].snapshots = <<>>
            BY <1>1, <1>6, <2>2 DEF Unreleased
        <3>2. work'[x] = w
            BY <1>6, <1>7
        <3>3. Len(w.snapshots) <= 1
            BY <1>9, <3>1
        <3>4. QED
            BY <1>9, <1>15, <2>1, <3>2, <3>3 DEF Whole
    <2>3. QED
        BY <1>1, <1>2, <1>12, <2>1, <2>2 DEF JobSplit
<1>16. QED
    BY <1>10, <1>14, <1>15

LEMMA StatusSteps ==
    ASSUME TemplatesInv, NEW s \in Sessions, CommitStatus(s)
    PROVE  TemplatesInv' /\ DesignsKept /\ \A j \in Drafts : Whole(j) /\ ~Whole(j)' => JobSplit(j, s)
<1> DEFINE c == reading[s]
<1>1. c.op = "status" /\ c.job \in Drafts /\ c.new \in Follows(c.was.status)
    BY DEF CommitStatus, TemplatesInv, ReadOf
<1>2. PICK x \in Drafts : x = c.job
    BY <1>1
<1>3. PICK new \in Statuses \ {"absent", "draft"} : new = c.new
    BY <1>1 DEF Follows, Statuses
<1>4. work \in [Drafts -> WorkRows] /\ work[x] \in WorkRows /\ Unreleased(work[x])
    BY DEF TemplatesInv, TemplatesTyped
<1>5. PICK kept \in BOOLEAN : kept = (work[x].reserved /\ ~(new = "cancelled" /\ c.was.reserved))
    OBVIOUS
<1>6. PICK w : w = [work[x] EXCEPT !.status = new, !.reserved = kept]
    OBVIOUS
<1>7. work' = [work EXCEPT ![x] = w] /\ reading' = [reading EXCEPT ![s] = Idle] /\ UNCHANGED <<template, routes, defaultRoute, drawings>>
    <2>1. work' = [work EXCEPT ![x].status = new, ![x].reserved = @ /\ ~(new = "cancelled" /\ c.was.reserved)]
        BY <1>2, <1>3 DEF CommitStatus
    <2>2. work' = [work EXCEPT ![x] = w]
        BY <1>4, <1>5, <1>6, <2>1 DEF WorkRows
    <2>3. QED
        BY <2>2 DEF CommitStatus
<1>8. w \in WorkRows /\ w.status = new /\ w.reserved = kept /\ w.snapshots = work[x].snapshots
    BY <1>4, <1>6 DEF WorkRows
<1>9. /\ routes' \in Seq(RouteRows) /\ RowsGrow(routes, routes') /\ drawings' \in Seq(DrawingRows) /\ RowsGrow(drawings, drawings')
      /\ StandsOn(template, template')
    BY <1>7, SameGrows DEF TemplatesInv, TemplatesTyped, StandsOn
<1>10. DOMAIN reading' = Sessions /\ reading'[s] = Idle /\ \A y \in Sessions : ReadOf(reading'[y], routes', drawings', template')
    BY <1>7, <1>9, OthersRead
<1>11. work' \in [Drafts -> WorkRows] /\ \A j \in Drafts : Unreleased(work'[j])
    BY <1>3, <1>4, <1>7, <1>8 DEF TemplatesInv, Unreleased
<1>12. TemplatesInv'
    <2>1. TemplatesTyped'
        BY <1>7, <1>10, <1>11 DEF TemplatesInv, TemplatesTyped
    <2>2. QED
        BY <1>7, <1>10, <1>11, <2>1 DEF TemplatesInv
<1>13. ASSUME NEW j \in Drafts, Whole(j), ~Whole(j)' PROVE JobSplit(j, s)
    <2>1. j = x
        BY <1>4, <1>7, <1>13 DEF Whole
    <2>2. ASSUME c.was = work[x] PROVE FALSE
        <3>1. work'[x] = w
            BY <1>4, <1>7
        <3>2. w.status = "cancelled" => ~w.reserved
            BY <1>5, <1>8, <2>2
        <3>3. QED
            BY <1>8, <1>13, <2>1, <3>1, <3>2 DEF Whole
    <2>3. QED
        BY <1>1, <1>2, <1>10, <2>1, <2>2 DEF JobSplit
<1>14. QED
    BY <1>7, <1>12, <1>13, Unchanging

-----------------------------------------------------------------------------
(* Commits of what a session has made of a design.                         *)

LEMMA FlagsAgree ==
    ASSUME NEW rows, NEW flags, NEW default, NEW t, DOMAIN flags = DOMAIN rows,
           \A i \in DOMAIN rows : /\ flags[i].template = rows[i].template
                                  /\ (flags[i].active <=> rows[i].active) /\ (flags[i].flag <=> rows[i].flag)
    PROVE  RoutesAgree(rows, default, t) <=> RoutesAgree(flags, default, t)
BY DEF RoutesAgree

\* The default route that a commit leaves is one of the routes it leaves.
LEMMA DefaultWritten ==
    ASSUME NEW a \in Designs, NEW b, NEW t, DesignChange(a, b, t), a.default <= Len(a.routes),
           NEW n \in Nat, Len(a.routes) <= n, NEW now \in 0 .. n
    PROVE  LET new == IF b.default > Len(a.routes) THEN n + 1 ELSE b.default
           IN /\ new \in Nat /\ new <= n + (Len(b.routes) - Len(a.routes))
              /\ Len(a.routes) = n => new = b.default
              /\ Written(a.default, new, now) \in Nat /\ Written(a.default, new, now) <= n + (Len(b.routes) - Len(a.routes))
<1>1. /\ Len(a.routes) \in Nat /\ a.default \in Nat
      /\ b.default \in Nat /\ (b.default = a.default \/ b.default = 0 \/ b.default \in DOMAIN b.routes)
      /\ Len(b.routes) \in {Len(a.routes), Len(a.routes) + 1} /\ DOMAIN b.routes = 1 .. Len(b.routes)
    BY DesignFields DEF DesignChange, RoutesChange, Extends
<1>2. PICK l, m, d, e \in Nat : l = Len(a.routes) /\ m = Len(b.routes) /\ d = a.default /\ e = b.default
    BY <1>1
<1>3. m \in {l, l + 1} /\ (e = d \/ e = 0 \/ e \in 1 .. m) /\ d <= l /\ l <= n
    BY <1>1, <1>2
<1> DEFINE new == IF e > l THEN n + 1 ELSE e
<1>4. new \in Nat /\ new <= n + (m - l) /\ (l = n => new = e)
    BY <1>3
<1>5. now <= n + (m - l) /\ now \in Nat
    BY <1>3
<1>6. Written(d, new, now) \in {new, now}
    BY DEF Written
<1>7. Written(d, new, now) \in Nat /\ Written(d, new, now) <= n + (m - l)
    <2> HIDE DEF new
    <2>1. QED
        BY <1>4, <1>5, <1>6
<1>8. QED
    BY <1>2, <1>4, <1>7

LEMMA DesignSteps ==
    ASSUME TemplatesInv, NEW s \in Sessions, CommitDesign(s)
    PROVE  /\ TemplatesInv' /\ JobsKept /\ reading[s].op \in DesignOps /\ reading'[s] = Idle
           /\ \A t \in Templates :
                \/ Overlapped(s, t)
                \/ /\ RoutesAgree(routes, defaultRoute[t], t) => RoutesAgree(routes', defaultRoute'[t], t)
                   /\ DrawingsAgree(drawings, t) => DrawingsAgree(drawings', t)
<1>1. PICK c, a, b : c = reading[s].cmd /\ a = reading[s].was /\ b = Handled(a, c)
    OBVIOUS
<1>2. reading[s].op \in DesignOps /\ DesignRead(reading[s], routes, drawings, template)
    BY DEF CommitDesign, TemplatesInv, ReadOf
<1>3. /\ a \in Designs /\ reading[s].op = c.op /\ Asked(c, a) /\ RowsGrow(a.routes, routes) /\ RowsGrow(a.drawings, drawings)
      /\ a.default <= Len(a.routes) /\ template[c.t] # "absent"
    BY <1>1, <1>2 DEF DesignRead
<1>4. PICK t \in Templates : t = c.t
    BY <1>3 DEF Asked
<1>5. /\ DesignChange(a, b, t)
      /\ c.op \in RouteOps => b.drawings = a.drawings
      /\ c.op \in DrawingOps => b.routes = a.routes /\ b.default = a.default
    BY <1>1, <1>3, <1>4, HandledChange
<1>6. /\ routes \in Seq(RouteRows) /\ DOMAIN routes = 1 .. Len(routes) /\ Len(routes) \in Nat
      /\ drawings \in Seq(DrawingRows) /\ DOMAIN drawings = 1 .. Len(drawings) /\ Len(drawings) \in Nat
      /\ defaultRoute \in [Templates -> Nat] /\ \A u \in Templates : defaultRoute[u] <= Len(routes)
      /\ OfPresent(routes, template) /\ OfPresent(drawings, template)
    BY DEF TemplatesInv, TemplatesTyped, PointsIn
<1>7. PICK n \in Nat, m \in Nat, l \in {0, 1}, k \in {0, 1} :
            n = Len(routes) /\ m = Len(drawings) /\ l = Len(b.routes) - Len(a.routes) /\ k = Len(b.drawings) - Len(a.drawings)
    <2>1. /\ Len(a.routes) \in Nat /\ Len(a.drawings) \in Nat
          /\ Len(b.routes) \in {Len(a.routes), Len(a.routes) + 1} /\ Len(b.drawings) \in {Len(a.drawings), Len(a.drawings) + 1}
        BY <1>3, <1>5, DesignFields DEF DesignChange, RoutesChange, DrawingsChange, Extends
    <2>2. Len(b.routes) - Len(a.routes) \in {0, 1} /\ Len(b.drawings) - Len(a.drawings) \in {0, 1}
        BY <2>1
    <2>3. QED
        BY <1>6, <2>2
<1>8. PICK new, d : new = (IF b.default > Len(a.routes) THEN n + 1 ELSE b.default) /\ d = Written(a.default, new, defaultRoute[t])
    OBVIOUS
<1>9. /\ routes' = RowsWritten(a.routes, b.routes, routes) /\ drawings' = RowsWritten(a.drawings, b.drawings, drawings)
      /\ defaultRoute' = [defaultRoute EXCEPT ![t] = d]
      /\ reading' = [reading EXCEPT ![s] = Idle] /\ UNCHANGED <<template, work>>
    BY <1>1, <1>4, <1>7, <1>8 DEF CommitDesign
<1>10. /\ routes' \in Seq(RouteRows) /\ Len(routes') = n + l /\ RowsGrow(routes, routes')
       /\ \A i \in DOMAIN routes :
            /\ routes[i].template # t \/ i \notin DOMAIN a.routes => routes'[i] = routes[i]
            /\ i \in DOMAIN a.routes /\ a.routes[i] = Flags(routes[i]) => Flags(routes'[i]) = b.routes[i]
       /\ l = 1 => routes'[n + 1] = b.routes[Len(b.routes)] /\ routes'[n + 1].template = t
    <2>1. a.routes \in Seq(FlagRows) /\ RoutesChange(a.routes, b.routes, t) /\ Len(a.routes) \in Nat
        BY <1>3, <1>5, DesignFields DEF DesignChange
    <2>2. Len(b.routes) \in {Len(a.routes), Len(a.routes) + 1} /\ (Len(b.routes) = Len(a.routes) + 1 => b.routes[Len(b.routes)].template = t)
        BY <2>1 DEF RoutesChange, Extends
    <2>3. PICK w : w = RowsWritten(a.routes, b.routes, routes)
        OBVIOUS
    <2>4. w = routes'
        BY <1>9, <2>3
    <2>5. /\ w \in Seq(RouteRows) /\ Len(w) = Len(routes) + (Len(b.routes) - Len(a.routes)) /\ RowsGrow(routes, w)
          /\ \A i \in DOMAIN routes :
                /\ routes[i].template # t \/ i \notin DOMAIN a.routes => w[i] = routes[i]
                /\ i \in DOMAIN a.routes /\ a.routes[i] = Flags(routes[i]) => Flags(w[i]) = b.routes[i]
          /\ AddedLast(a.routes, b.routes, routes, w)
        <3>1. RowsGrow(a.routes, routes) /\ routes \in Seq(RouteRows)
            BY <1>3, <1>6
        <3>2. LET x == RowsWritten(a.routes, b.routes, routes)
              IN /\ x \in Seq(RouteRows) /\ Len(x) = Len(routes) + (Len(b.routes) - Len(a.routes)) /\ RowsGrow(routes, x)
                 /\ \A i \in DOMAIN routes :
                       /\ routes[i].template # t \/ i \notin DOMAIN a.routes => x[i] = routes[i]
                       /\ i \in DOMAIN a.routes /\ a.routes[i] = Flags(routes[i]) => Flags(x[i]) = b.routes[i]
                 /\ AddedLast(a.routes, b.routes, routes, x)
            BY <2>1, <3>1, RoutesWritten, Zenon
        <3>3. QED
            BY <2>3, <3>2, Zenon
    <2>6. l = 1 => Len(b.routes) = Len(a.routes) + 1
        BY <1>7, <2>1, <2>2
    <2>7. l = 1 => routes'[n + 1] = b.routes[Len(b.routes)]
        BY <1>7, <2>4, <2>5, <2>6 DEF AddedLast
    <2>8. l = 1 => routes'[n + 1].template = t
        BY <2>2, <2>6, <2>7
    <2>9. routes' \in Seq(RouteRows) /\ Len(routes') = n + l /\ RowsGrow(routes, routes')
        BY <1>7, <2>4, <2>5
    <2>10. \A i \in DOMAIN routes :
            /\ routes[i].template # t \/ i \notin DOMAIN a.routes => routes'[i] = routes[i]
            /\ i \in DOMAIN a.routes /\ a.routes[i] = Flags(routes[i]) => Flags(routes'[i]) = b.routes[i]
        BY <2>4, <2>5, Zenon
    <2>11. QED
        BY <2>7, <2>8, <2>9, <2>10, Zenon
<1>11. /\ drawings' \in Seq(DrawingRows) /\ Len(drawings') = m + k /\ RowsGrow(drawings, drawings')
       /\ \A i \in DOMAIN drawings :
            /\ drawings[i].template # t \/ i \notin DOMAIN a.drawings => drawings'[i] = drawings[i]
            /\ i \in DOMAIN a.drawings /\ a.drawings[i] = drawings[i] => drawings'[i] = b.drawings[i]
       /\ k = 1 => drawings'[m + 1] = b.drawings[Len(b.drawings)] /\ drawings'[m + 1].template = t
    <2>1. a.drawings \in Seq(DrawingRows) /\ DrawingsChange(a.drawings, b.drawings, t) /\ Len(a.drawings) \in Nat
        BY <1>3, <1>5, DesignFields DEF DesignChange
    <2>2. Len(b.drawings) \in {Len(a.drawings), Len(a.drawings) + 1} /\ (Len(b.drawings) = Len(a.drawings) + 1 => b.drawings[Len(b.drawings)].template = t)
        BY <2>1 DEF DrawingsChange, Extends
    <2>3. PICK w : w = RowsWritten(a.drawings, b.drawings, drawings)
        OBVIOUS
    <2>4. w = drawings'
        BY <1>9, <2>3
    <2>5. /\ w \in Seq(DrawingRows) /\ Len(w) = Len(drawings) + (Len(b.drawings) - Len(a.drawings)) /\ RowsGrow(drawings, w)
          /\ \A i \in DOMAIN drawings :
                /\ drawings[i].template # t \/ i \notin DOMAIN a.drawings => w[i] = drawings[i]
                /\ i \in DOMAIN a.drawings /\ a.drawings[i] = drawings[i] => w[i] = b.drawings[i]
          /\ AddedLast(a.drawings, b.drawings, drawings, w)
        <3>1. RowsGrow(a.drawings, drawings) /\ drawings \in Seq(DrawingRows)
            BY <1>3, <1>6
        <3>2. LET x == RowsWritten(a.drawings, b.drawings, drawings)
              IN /\ x \in Seq(DrawingRows) /\ Len(x) = Len(drawings) + (Len(b.drawings) - Len(a.drawings)) /\ RowsGrow(drawings, x)
                 /\ \A i \in DOMAIN drawings :
                       /\ drawings[i].template # t \/ i \notin DOMAIN a.drawings => x[i] = drawings[i]
                       /\ i \in DOMAIN a.drawings /\ a.drawings[i] = drawings[i] => x[i] = b.drawings[i]
                 /\ AddedLast(a.drawings, b.drawings, drawings, x)
            BY <2>1, <3>1, DrawingsWritten, Zenon
        <3>3. QED
            BY <2>3, <3>2, Zenon
    <2>6. k = 1 => Len(b.drawings) = Len(a.drawings) + 1
        BY <1>7, <2>1, <2>2
    <2>7. k = 1 => drawings'[m + 1] = b.drawings[Len(b.drawings)]
        BY <1>7, <2>4, <2>5, <2>6 DEF AddedLast
    <2>8. k = 1 => drawings'[m + 1].template = t
        BY <2>2, <2>6, <2>7
    <2>9. drawings' \in Seq(DrawingRows) /\ Len(drawings') = m + k /\ RowsGrow(drawings, drawings')
        BY <1>7, <2>4, <2>5
    <2>10. \A i \in DOMAIN drawings :
            /\ drawings[i].template # t \/ i \notin DOMAIN a.drawings => drawings'[i] = drawings[i]
            /\ i \in DOMAIN a.drawings /\ a.drawings[i] = drawings[i] => drawings'[i] = b.drawings[i]
        BY <2>4, <2>5, Zenon
    <2>11. QED
        BY <2>7, <2>8, <2>9, <2>10, Zenon
<1>12. /\ d \in Nat /\ d <= n + l
       /\ Len(a.routes) = n => new = b.default
    <2>1. defaultRoute[t] \in 0 .. n /\ Len(a.routes) <= n
        BY <1>3, <1>6, <1>7 DEF RowsGrow
    <2>2. PICK now \in 0 .. n : now = defaultRoute[t]
        BY <2>1
    <2>3. /\ Len(a.routes) = n => new = b.default
          /\ Written(a.default, new, now) \in Nat /\ Written(a.default, new, now) <= n + (Len(b.routes) - Len(a.routes))
        BY <1>3, <1>5, <1>7, <1>8, <2>1, DefaultWritten
    <2>4. QED
        BY <1>7, <1>8, <2>2, <2>3
<1>13. DOMAIN routes' = 1 .. n + l /\ DOMAIN drawings' = 1 .. m + k /\ DOMAIN routes = 1 .. n /\ DOMAIN drawings = 1 .. m
    <2>1. Len(routes') = n + l /\ Len(drawings') = m + k /\ routes' \in Seq(RouteRows) /\ drawings' \in Seq(DrawingRows)
        BY <1>10, <1>11
    <2>2. DOMAIN routes' = 1 .. Len(routes') /\ DOMAIN drawings' = 1 .. Len(drawings')
        BY <2>1
    <2>3. QED
        BY <1>6, <1>7, <2>1, <2>2, Zenon
<1>14. defaultRoute' \in [Templates -> Nat] /\ defaultRoute'[t] = d /\ \A u \in Templates \ {t} : defaultRoute'[u] = defaultRoute[u]
    BY <1>6, <1>9, <1>12
<1>15. PointsIn(routes', defaultRoute')
    <2>1. ASSUME NEW u \in Templates PROVE defaultRoute'[u] <= n + l
        <3>1. CASE u = t
            BY <1>12, <1>14, <3>1
        <3>2. CASE u # t
            <4>1. defaultRoute[u] \in Nat /\ defaultRoute[u] <= n
                BY <1>6, <1>7
            <4>2. PICK p \in Nat : p = defaultRoute[u] /\ p <= n
                BY <4>1
            <4>3. p <= n + l
                <5>1. l = 0 \/ l = 1
                    BY <1>7
                <5>2. p <= n + 0 /\ p <= n + 1
                    BY <4>2
                <5>3. QED
                    BY <5>1, <5>2
            <4>4. defaultRoute'[u] = p
                BY <1>14, <3>2, <4>2
            <4>5. QED
                BY <4>3, <4>4
        <3>3. QED
            BY <3>1, <3>2
    <2>2. QED
        BY <1>10, <2>1 DEF PointsIn
<1>16. OfPresent(routes', template') /\ OfPresent(drawings', template')
    <2>1. ASSUME NEW i \in 1 .. n + l PROVE template[routes'[i].template] # "absent"
        <3>1. CASE i \in 1 .. n
            BY <1>6, <1>10, <1>13, <3>1 DEF OfPresent, RowsGrow
        <3>2. CASE i \notin 1 .. n
            <4>1. l = 1 /\ i = n + 1
                BY <1>7, <3>2, SMTT(30)
            <4>2. QED
                BY <1>3, <1>4, <1>10, <4>1
        <3>3. QED
            BY <3>1, <3>2
    <2>2. ASSUME NEW i \in 1 .. m + k PROVE template[drawings'[i].template] # "absent"
        <3>1. CASE i \in 1 .. m
            BY <1>6, <1>11, <1>13, <3>1 DEF OfPresent, RowsGrow
        <3>2. CASE i \notin 1 .. m
            <4>1. k = 1 /\ i = m + 1
                BY <1>7, <3>2
            <4>2. QED
                BY <1>3, <1>4, <1>11, <4>1
        <3>3. QED
            BY <3>1, <3>2
    <2>3. QED
        BY <1>9, <1>13, <2>1, <2>2 DEF OfPresent
<1>17. DOMAIN reading' = Sessions /\ reading'[s] = Idle /\ \A x \in Sessions : ReadOf(reading'[x], routes', drawings', template')
    <2>1. StandsOn(template, template')
        BY <1>9 DEF StandsOn
    <2>2. QED
        BY <1>9, <1>10, <1>11, <2>1, OthersRead
<1>18. TemplatesInv'
    <2>1. TemplatesTyped'
        BY <1>9, <1>10, <1>11, <1>14, <1>17 DEF TemplatesInv, TemplatesTyped
    <2>2. QED
        BY <1>9, <1>15, <1>16, <1>17, <2>1 DEF TemplatesInv
<1>19. ASSUME NEW u \in Templates, u # t
       PROVE  /\ RoutesAgree(routes, defaultRoute[u], u) => RoutesAgree(routes', defaultRoute'[u], u)
              /\ DrawingsAgree(drawings, u) => DrawingsAgree(drawings', u)
    <2>1. PICK p \in Nat : p = defaultRoute[u] /\ p = defaultRoute'[u] /\ p \in 0 .. n
        BY <1>6, <1>7, <1>14, <1>19
    <2>2. PICK x \in Nat, y \in Nat : x = n + l /\ y = m + k /\ n <= x /\ m <= y
        <3>1. n + l \in Nat /\ m + k \in Nat /\ n <= n + l /\ m <= m + k
            BY <1>7
        <3>2. QED
            BY <3>1
    <2>3. \A i \in 1 .. n : routes'[i].template = routes[i].template
        BY <1>10, <1>13 DEF RowsGrow
    <2>4. \A i \in 1 .. m : drawings'[i].template = drawings[i].template
        BY <1>11, <1>13 DEF RowsGrow
    <2>5. FlagsAlike(routes, routes', u, n)
        BY <1>10, <1>13, <1>19, <2>3 DEF FlagsAlike
    <2>6. PrimaryAlike(drawings, drawings', u, m)
        BY <1>11, <1>13, <1>19, <2>4 DEF PrimaryAlike
    <2>7. AddsUnmarked(routes, routes', u, n, x)
        <3>1. ASSUME NEW i \in n + 1 .. x PROVE routes'[i].template # u
            <4>1. l = 1 /\ i = n + 1
                BY <1>7, <2>2, SMTT(30)
            <4>2. QED
                BY <1>10, <1>19, <4>1
        <3>2. QED
            BY <3>1 DEF AddsUnmarked
    <2>8. \A i \in m + 1 .. y : drawings'[i].template # u
        <3>1. ASSUME NEW i \in m + 1 .. y PROVE drawings'[i].template # u
            <4>1. k = 1 /\ i = m + 1
                BY <1>7, <2>2
            <4>2. QED
                BY <1>11, <1>19, <4>1
        <3>2. QED
            BY <3>1
    <2>9. DOMAIN routes' = 1 .. x /\ DOMAIN drawings' = 1 .. y
        BY <1>13, <2>2
    <2>10. RoutesAgree(routes, p, u) => RoutesAgree(routes', p, u)
        BY <1>13, <2>1, <2>2, <2>5, <2>7, <2>9, RoutesAlike
    <2>11. DrawingsAgree(drawings, u) => DrawingsAgree(drawings', u)
        BY <1>13, <2>2, <2>6, <2>8, <2>9, DrawingsAlike
    <2>12. QED
        BY <2>1, <2>10, <2>11
<1>20. ASSUME ~Overlapped(s, t)
       PROVE  /\ RoutesAgree(routes, defaultRoute[t], t) => RoutesAgree(routes', defaultRoute'[t], t)
              /\ DrawingsAgree(drawings, t) => DrawingsAgree(drawings', t)
    <2>1. a = Loaded(c.op, t) /\ c.op \in RouteOps \cup DrawingOps
        BY <1>1, <1>2, <1>3, <1>4, <1>20 DEF Overlapped, DesignOps
    <2>2. CASE c.op \in RouteOps
        <3>1. a = Routes(t)
            BY <2>1, <2>2 DEF Loaded
        <3>2. a.routes = [i \in DOMAIN routes |-> Flags(routes[i])] /\ a.default = defaultRoute[t] /\ a.drawings = <<>> /\ b.drawings = <<>>
            BY <1>5, <2>2, <3>1 DEF Routes
        <3>3. DOMAIN a.routes = DOMAIN routes /\ Len(a.routes) = n
            BY <1>6, <1>7, <3>2
        <3>4. ASSUME RoutesAgree(routes, defaultRoute[t], t) PROVE RoutesAgree(routes', d, t)
            <4>1. RoutesAgree(a.routes, a.default, t)
                <5>1. \A i \in DOMAIN routes : /\ a.routes[i].template = routes[i].template
                                               /\ (a.routes[i].active <=> routes[i].active) /\ (a.routes[i].flag <=> routes[i].flag)
                    BY <3>2 DEF Flags
                <5>2. QED
                    BY <3>2, <3>3, <3>4, <5>1, FlagsAgree
            <4>2. RoutesAgree(b.routes, b.default, t)
                BY <1>5, <4>1 DEF DesignChange
            <4>3. d = b.default
                BY <1>8, <1>12, <3>2, <3>3 DEF Written
            <4>4. Len(b.routes) = n + l /\ DOMAIN b.routes = 1 .. n + l
                <5>1. DOMAIN b.routes = 1 .. Len(b.routes) /\ Len(b.routes) \in {Len(a.routes), Len(a.routes) + 1}
                    BY <1>5 DEF DesignChange, RoutesChange, Extends
                <5>2. QED
                    BY <1>7, <3>3, <5>1
            <4>5. ASSUME NEW i \in 1 .. n + l
                  PROVE  /\ b.routes[i].template = routes'[i].template
                         /\ (b.routes[i].active <=> routes'[i].active) /\ (b.routes[i].flag <=> routes'[i].flag)
                <5>1. CASE i \in 1 .. n
                    <6>1. Flags(routes'[i]) = b.routes[i]
                        BY <1>10, <1>13, <3>2, <3>3, <5>1
                    <6>2. QED
                        BY <6>1 DEF Flags
                <5>2. CASE i \notin 1 .. n
                    <6>1. l = 1 /\ i = n + 1
                        BY <1>7, <5>2, SMTT(30)
                    <6>2. QED
                        BY <1>10, <4>4, <6>1
                <5>3. QED
                    BY <5>1, <5>2
            <4>6. QED
                <5>1. DOMAIN routes' = DOMAIN b.routes
                    BY <1>13, <4>4
                <5>2. \A i \in DOMAIN b.routes :
                        /\ routes'[i].template = b.routes[i].template
                        /\ (routes'[i].active <=> b.routes[i].active) /\ (routes'[i].flag <=> b.routes[i].flag)
                    BY <4>4, <4>5
                <5>3. RoutesAgree(b.routes, b.default, t) <=> RoutesAgree(routes', b.default, t)
                    BY <5>1, <5>2, FlagsAgree
                <5>4. QED
                    BY <4>2, <4>3, <5>3
        <3>5. ASSUME DrawingsAgree(drawings, t) PROVE DrawingsAgree(drawings', t)
            <4>1. DOMAIN a.drawings = {} /\ k = 0
                BY <1>7, <3>2
            <4>2. DOMAIN drawings' = 1 .. m /\ \A i \in 1 .. m : drawings'[i] = drawings[i]
                <5>1. m + k = m
                    BY <1>7, <4>1
                <5>2. \A i \in 1 .. m : i \notin DOMAIN a.drawings
                    BY <4>1
                <5>3. QED
                    BY <1>11, <1>13, <5>1, <5>2
            <4>3. QED
                BY <1>13, <3>5, <4>2 DEF DrawingsAgree
        <3>6. QED
            BY <1>14, <3>4, <3>5
    <2>3. CASE c.op \notin RouteOps
        <3>1. a = Drawings /\ c.op \in DrawingOps
            BY <2>1, <2>3 DEF Loaded
        <3>2. a.routes = <<>> /\ b.routes = <<>> /\ a.default = 0 /\ b.default = 0 /\ a.drawings = drawings
            BY <1>5, <3>1 DEF Drawings
        <3>3. DOMAIN a.routes = {} /\ l = 0 /\ Len(a.routes) = 0
            BY <1>7, <3>2
        <3>4. d = defaultRoute[t]
            BY <1>7, <1>8, <3>2, <3>3 DEF Written
        <3>5. ASSUME RoutesAgree(routes, defaultRoute[t], t) PROVE RoutesAgree(routes', d, t)
            <4>1. DOMAIN routes' = 1 .. n /\ \A i \in 1 .. n : routes'[i] = routes[i]
                BY <1>7, <1>10, <1>13, <3>3
            <4>2. QED
                BY <1>13, <3>4, <3>5, <4>1 DEF RoutesAgree
        <3>6. ASSUME DrawingsAgree(drawings, t) PROVE DrawingsAgree(drawings', t)
            <4>1. DrawingsAgree(b.drawings, t)
                BY <1>5, <3>2, <3>6 DEF DesignChange
            <4>2. DOMAIN b.drawings = 1 .. m + k /\ Len(b.drawings) = m + k
                <5>1. DOMAIN b.drawings = 1 .. Len(b.drawings) /\ Len(b.drawings) \in {Len(a.drawings), Len(a.drawings) + 1}
                    BY <1>5 DEF DesignChange, DrawingsChange, Extends
                <5>2. QED
                    BY <1>7, <3>2, <5>1
            <4>3. ASSUME NEW i \in 1 .. m + k PROVE drawings'[i] = b.drawings[i]
                <5>1. CASE i \in 1 .. m
                    BY <1>11, <1>13, <3>2, <5>1
                <5>2. CASE i \notin 1 .. m
                    <6>1. k = 1 /\ i = m + 1
                        BY <1>7, <5>2
                    <6>2. QED
                        BY <1>11, <4>2, <6>1
                <5>3. QED
                    BY <5>1, <5>2
            <4>4. QED
                BY <1>13, <4>1, <4>2, <4>3 DEF DrawingsAgree
        <3>7. QED
            BY <1>14, <3>5, <3>6
    <2>4. QED
        BY <2>2, <2>3
<1>21. JobsKept
    BY <1>9, JobsUnchanging
<1>22. QED
    BY <1>2, <1>17, <1>18, <1>19, <1>20, <1>21

-----------------------------------------------------------------------------
(* Copies of templates.                                                    *)

LEMMA GreatestNumber ==
    ASSUME NEW S \in SUBSET Nat, NEW n \in Nat, S # {}, \A x \in S : x <= n
    PROVE  \E x \in S : \A y \in S : y <= x
<1> DEFINE T == {n - x : x \in S}
<1>0. \A x \in S : x \in Nat /\ n - x \in Nat
    OBVIOUS
<1>1. T \in SUBSET Nat /\ T # {}
    BY <1>0
<1>2. PICK m \in T : \A y \in T : m <= y
    BY <1>1, LeastNumber
<1>3. PICK x \in S : m = n - x
    OBVIOUS
<1>4. ASSUME NEW y \in S PROVE y <= x
    <2>1. n - y \in T /\ n - x <= n - y
        BY <1>2, <1>3
    <2>2. QED
        BY <2>1
<1>5. QED
    BY <1>4

\* The positions of a set of rows, each once.
Enumerates(of, S, q) ==
    /\ of \in [1 .. q -> S]
    /\ \A i \in S : \E k \in 1 .. q : of[k] = i
    /\ \A k, m \in 1 .. q : of[k] = of[m] => k = m

LEMMA RowsEnumerated ==
    ASSUME NEW rows, NEW n \in Nat, DOMAIN rows = 1 .. n, NEW S \in SUBSET DOMAIN rows
    PROVE  Cardinality(S) \in Nat /\ Enumerates(InOrder(S), S, Cardinality(S))
<1>1. S \in SUBSET (1 .. n) /\ S \in SUBSET Nat
    OBVIOUS
<1>2. IsFiniteSet(S)
    BY <1>1, FS_Interval, FS_Subset
<1>3. QED
    BY <1>1, <1>2, InOrderCounts DEF Enumerates

\* Rows that others follow.
Joined(more, rows, added, n, q) ==
    /\ DOMAIN more = 1 .. n + q
    /\ \A i \in 1 .. n : more[i] = rows[i]
    /\ \A k \in 1 .. q : more[n + k] = added[k]

LEMMA RowsJoined ==
    ASSUME NEW R, NEW rows \in Seq(R), NEW added \in Seq(R)
    PROVE  /\ rows \o added \in Seq(R) /\ Len(rows \o added) = Len(rows) + Len(added)
           /\ Joined(rows \o added, rows, added, Len(rows), Len(added))
<1> DEFINE w == rows \o added
<1>1. /\ w \in Seq(R) /\ Len(w) = Len(rows) + Len(added)
      /\ \A i \in 1 .. Len(rows) + Len(added) : w[i] = IF i <= Len(rows) THEN rows[i] ELSE added[i - Len(rows)]
    BY ConcatProperties, Zenon
<1>2. Len(rows) \in Nat /\ Len(added) \in Nat
    OBVIOUS
<1> HIDE DEF w
<1>3. DOMAIN w = 1 .. Len(rows) + Len(added)
    BY <1>1
<1>4. PICK n, q \in Nat : n = Len(rows) /\ q = Len(added)
    BY <1>2
<1>5. ASSUME NEW i \in 1 .. n PROVE w[i] = rows[i]
    BY <1>1, <1>4
<1>6. ASSUME NEW k \in 1 .. q PROVE w[n + k] = added[k]
    <2>1. n + k \in 1 .. n + q /\ ~(n + k <= n) /\ (n + k) - n = k
        OBVIOUS
    <2>2. QED
        BY <1>1, <1>4, <2>1
<1>7. QED
    BY <1>1, <1>3, <1>4, <1>5, <1>6 DEF w, Joined

CopiesFrom(rows, of, u) == [k \in DOMAIN of |-> Copied(rows[of[k]], u)]
MarkedIn(copies) == {k \in DOMAIN copies : copies[k].flag}
LastMarked(copies, n) ==
    IF MarkedIn(copies) = {} THEN 0 ELSE n + CHOOSE k \in MarkedIn(copies) : \A m \in MarkedIn(copies) : m <= k

\* Each copy is like the route it copies.
CopyEach(copies, rows, of, u, q) ==
    /\ DOMAIN copies = 1 .. q
    /\ \A k \in 1 .. q : /\ copies[k].template = u /\ copies[k].active /\ (copies[k].flag <=> rows[of[k]].flag)
                         /\ DOMAIN copies[k].steps = DOMAIN rows[of[k]].steps

LEMMA RoutesCopied ==
    ASSUME NEW rows \in Seq(RouteRows), NEW t, NEW u \in Templates, NEW of, NEW q \in Nat, Enumerates(of, ActiveRows(rows, t), q)
    PROVE  LET c == CopiesFrom(rows, of, u) IN c \in Seq(RouteRows) /\ Len(c) = q /\ CopyEach(c, rows, of, u, q)
<1> DEFINE c == CopiesFrom(rows, of, u)
<1>1. DOMAIN of = 1 .. q /\ \A k \in 1 .. q : of[k] \in DOMAIN rows
    BY DEF Enumerates, ActiveRows
<1>2. DOMAIN c = 1 .. q /\ c = [k \in 1 .. q |-> Copied(rows[of[k]], u)]
    BY <1>1 DEF CopiesFrom
<1>3. ASSUME NEW r \in RouteRows
      PROVE  /\ Copied(r, u) \in RouteRows /\ Copied(r, u).template = u /\ Copied(r, u).active /\ (Copied(r, u).flag <=> r.flag)
             /\ DOMAIN Copied(r, u).steps = DOMAIN r.steps
    <2>1. Planned(r.steps) \in StepLists /\ DOMAIN Planned(r.steps) = DOMAIN r.steps
        <3>1. DOMAIN r.steps \subseteq Orders
            BY StepLengths DEF RouteRows
        <3>2. Planned(r.steps) \in [DOMAIN r.steps -> {"planned", "copied"}]
            BY DEF Planned
        <3>3. QED
            BY <3>1, <3>2, StepLengths
    <2>2. QED
        BY <2>1 DEF RouteRows, Copied
<1>4. ASSUME NEW k \in 1 .. q
      PROVE  /\ c[k] \in RouteRows /\ c[k].template = u /\ c[k].active /\ (c[k].flag <=> rows[of[k]].flag)
             /\ DOMAIN c[k].steps = DOMAIN rows[of[k]].steps
    <2>1. rows[of[k]] \in RouteRows /\ c[k] = Copied(rows[of[k]], u)
        BY <1>1, <1>2
    <2>2. QED
        BY <1>3, <2>1
<1> HIDE DEF c
<1>5. c \in Seq(RouteRows) /\ Len(c) = q
    <2>1. c \in [1 .. q -> RouteRows]
        BY <1>2, <1>4
    <2>2. QED
        BY <2>1
<1>6. QED
    BY <1>2, <1>4, <1>5 DEF c, CopyEach

LEMMA LastMarkedIn ==
    ASSUME NEW c, NEW q \in Nat, NEW n \in Nat, DOMAIN c = 1 .. q
    PROVE  /\ LastMarked(c, n) \in 0 .. n + q
           /\ \A k \in 1 .. q : MarkedIn(c) = {k} => LastMarked(c, n) = n + k
<1>1. MarkedIn(c) \in SUBSET (1 .. q)
    BY DEF MarkedIn
<1>2. CASE MarkedIn(c) = {}
    BY <1>2 DEF LastMarked
<1>3. CASE MarkedIn(c) # {}
    <2>1. PICK x \in MarkedIn(c) : \A y \in MarkedIn(c) : y <= x
        <3>1. MarkedIn(c) \in SUBSET Nat /\ \A x \in MarkedIn(c) : x <= q
            BY <1>1
        <3>2. QED
            BY <1>3, <3>1, GreatestNumber
    <2> DEFINE l == CHOOSE k \in MarkedIn(c) : \A m \in MarkedIn(c) : m <= k
    <2>2. l \in MarkedIn(c)
        BY <2>1
    <2>3. LastMarked(c, n) = n + l
        BY <1>3 DEF LastMarked
    <2> HIDE DEF l
    <2>4. l \in 1 .. q
        BY <1>1, <2>2
    <2>5. QED
        BY <2>2, <2>3, <2>4
<1>4. QED
    BY <1>2, <1>3

\* The copy of a template whose routes agree: they agree, and its default route is the copy of that one's.
NoneOf(rows, n, u) == \A i \in 1 .. n : rows[i].template # u
CopiedDefault(of, default, c, n, q) == \E k \in 1 .. q : of[k] = default /\ LastMarked(c, n) = n + k

LEMMA RoutesCopiedAgree ==
    ASSUME NEW rows, NEW more, NEW c, NEW of, NEW n \in Nat, NEW q \in Nat, NEW t, NEW u, NEW default,
           DOMAIN rows = 1 .. n, Enumerates(of, ActiveRows(rows, t), q), CopyEach(c, rows, of, u, q), Joined(more, rows, c, n, q),
           NoneOf(rows, n, u), RoutesAgree(rows, default, t)
    PROVE  /\ RoutesAgree(more, LastMarked(c, n), u)
           /\ ActiveRows(rows, t) # {} => CopiedDefault(of, default, c, n, q)
<1>1. /\ DOMAIN of = 1 .. q /\ \A k \in 1 .. q : of[k] \in 1 .. n /\ rows[of[k]].template = t /\ rows[of[k]].active
      /\ \A k, m \in 1 .. q : of[k] = of[m] => k = m
    BY DEF Enumerates, ActiveRows
<1>2. \A k \in 1 .. q : c[k].template = u /\ c[k].active /\ (c[k].flag <=> of[k] = default)
    BY <1>1 DEF CopyEach, RoutesAgree
<1>3. ASSUME NEW i \in DOMAIN more, more[i].template = u, more[i].active PROVE \E k \in 1 .. q : i = n + k /\ more[i] = c[k]
    <2>1. i \notin 1 .. n
        BY <1>3 DEF Joined, NoneOf
    <2>2. i \in 1 .. n + q
        BY <1>3 DEF Joined
    <2>3. PICK k \in 1 .. q : i = n + k
        <3>1. i - n \in 1 .. q /\ i = n + (i - n)
            BY <2>1, <2>2
        <3>2. QED
            BY <3>1
    <2>4. QED
        BY <2>3 DEF Joined
<1>4. CASE ActiveRows(rows, t) = {}
    <2>1. q = 0
        <3>1. ASSUME q # 0 PROVE FALSE
            <4>1. 1 \in 1 .. q
                BY <3>1
            <4>2. QED
                BY <1>4, <4>1 DEF Enumerates
        <3>2. QED
            BY <3>1
    <2>2. \A i \in DOMAIN more : ~(more[i].template = u /\ more[i].active)
        BY <1>3, <2>1
    <2>3. QED
        BY <1>4, <2>2 DEF RoutesAgree
<1>5. CASE ActiveRows(rows, t) # {}
    <2>1. default \in ActiveRows(rows, t)
        BY <1>5 DEF RoutesAgree, ActiveRows
    <2>2. PICK k \in 1 .. q : of[k] = default
        BY <2>1 DEF Enumerates
    <2>3. MarkedIn(c) = {k}
        BY <1>1, <1>2, <2>2 DEF MarkedIn, CopyEach
    <2>4. LastMarked(c, n) = n + k
        <3>1. k \in MarkedIn(c) /\ \A m \in MarkedIn(c) : m <= k
            BY <2>3
        <3>2. (CHOOSE x \in MarkedIn(c) : \A m \in MarkedIn(c) : m <= x) \in MarkedIn(c)
            BY <3>1
        <3>3. QED
            BY <2>3, <3>2 DEF LastMarked
    <2>5. n + k \in DOMAIN more /\ more[n + k].template = u /\ more[n + k].active
        <3>1. n + k \in 1 .. n + q
            OBVIOUS
        <3>2. QED
            BY <1>2, <3>1 DEF Joined
    <2>6. ASSUME NEW i \in DOMAIN more, more[i].template = u, more[i].active PROVE more[i].flag <=> i = n + k
        <3>1. PICK x \in 1 .. q : i = n + x /\ more[i] = c[x]
            BY <1>3, <2>6
        <3>2. c[x].flag <=> x = k
            BY <1>1, <1>2, <2>2
        <3>3. i = n + k <=> x = k
            BY <3>1
        <3>4. QED
            BY <3>1, <3>2, <3>3
    <2>7. RoutesAgree(more, n + k, u)
        BY <2>5, <2>6 DEF RoutesAgree
    <2>8. QED
        BY <2>2, <2>4, <2>7 DEF CopiedDefault
<1>6. QED
    BY <1>4, <1>5

SheetsFrom(rows, of, q, u) == [k \in 1 .. q |-> [rows[of[k]] EXCEPT !.template = u]]

SheetEach(copies, rows, of, u, q) ==
    \A k \in 1 .. q : copies[k].template = u /\ (copies[k].active <=> rows[of[k]].active) /\ (copies[k].primary <=> rows[of[k]].primary)

LEMMA DrawingsCopied ==
    ASSUME NEW rows \in Seq(DrawingRows), NEW S \in SUBSET DOMAIN rows, NEW u \in Templates, NEW of, NEW q \in Nat, Enumerates(of, S, q)
    PROVE  LET c == SheetsFrom(rows, of, q, u) IN c \in Seq(DrawingRows) /\ Len(c) = q /\ SheetEach(c, rows, of, u, q)
<1> DEFINE c == SheetsFrom(rows, of, q, u)
<1>1. ASSUME NEW k \in 1 .. q
      PROVE  c[k] \in DrawingRows /\ c[k].template = u /\ (c[k].active <=> rows[of[k]].active) /\ (c[k].primary <=> rows[of[k]].primary)
    <2>1. PICK r \in DrawingRows : r = rows[of[k]]
        BY DEF Enumerates
    <2>2. c[k] = [r EXCEPT !.template = u]
        BY <2>1 DEF SheetsFrom
    <2> HIDE DEF c
    <2>3. QED
        BY <2>1, <2>2 DEF DrawingRows
<1>2. c \in [1 .. q -> DrawingRows]
    <2>1. c = [k \in 1 .. q |-> c[k]]
        BY DEF SheetsFrom
    <2> HIDE DEF c
    <2>2. QED
        BY <1>1, <2>1
<1> HIDE DEF c
<1>3. c \in Seq(DrawingRows) /\ Len(c) = q
    BY <1>2
<1>4. QED
    BY <1>1, <1>3 DEF c, SheetEach

LEMMA DrawingsCopiedAgree ==
    ASSUME NEW rows, NEW more, NEW c, NEW of, NEW n \in Nat, NEW q \in Nat, NEW t, NEW u, NEW S \in SUBSET ActiveRows(rows, t),
           DOMAIN rows = 1 .. n, Enumerates(of, S, q), SheetEach(c, rows, of, u, q), Joined(more, rows, c, n, q),
           \A i \in 1 .. n : rows[i].template # u, DrawingsAgree(rows, t)
    PROVE  DrawingsAgree(more, u)
<1>1. /\ \A k \in 1 .. q : of[k] \in DOMAIN rows /\ rows[of[k]].template = t /\ rows[of[k]].active
      /\ \A k, m \in 1 .. q : of[k] = of[m] => k = m
    BY DEF Enumerates, ActiveRows
<1>2. ASSUME NEW i \in DOMAIN more, more[i].template = u PROVE \E k \in 1 .. q : i = n + k /\ more[i] = c[k]
    <2>1. i \notin 1 .. n /\ i \in 1 .. n + q
        BY <1>2 DEF Joined
    <2>2. i - n \in 1 .. q /\ i = n + (i - n)
        BY <2>1
    <2>3. QED
        BY <2>2 DEF Joined
<1>3. ASSUME NEW i \in DOMAIN more, NEW j \in DOMAIN more,
             more[i].template = u, more[i].active, more[i].primary, more[j].template = u, more[j].active, more[j].primary
      PROVE  i = j
    <2>1. PICK k \in 1 .. q : i = n + k /\ more[i] = c[k]
        BY <1>2, <1>3
    <2>2. PICK m \in 1 .. q : j = n + m /\ more[j] = c[m]
        BY <1>2, <1>3
    <2>3. rows[of[k]].primary /\ rows[of[m]].primary
        BY <1>3, <2>1, <2>2 DEF SheetEach
    <2>4. of[k] = of[m]
        BY <1>1, <2>3 DEF DrawingsAgree
    <2>5. QED
        BY <1>1, <2>1, <2>2, <2>4
<1>4. QED
    BY <1>3 DEF DrawingsAgree

\* The default route of a copy, and that of what it copies.
SameSteps(t, u) == DOMAIN routes'[DefaultOf(u)'].steps = DOMAIN routes[DefaultOf(t)].steps

LEMMA DuplicateSteps ==
    ASSUME TemplatesInv, NEW t \in Templates, NEW u \in Templates, Duplicate(t, u)
    PROVE  /\ TemplatesInv' /\ JobsKept /\ template[u] = "absent" /\ t # u
           /\ \A x \in Templates \ {u} :
                /\ RoutesAgree(routes, defaultRoute[x], x) => RoutesAgree(routes', defaultRoute'[x], x)
                /\ DrawingsAgree(drawings, x) => DrawingsAgree(drawings', x)
           /\ RoutesAgree(routes, defaultRoute[t], t) =>
                /\ RoutesAgree(routes', defaultRoute'[u], u)
                /\ ActiveRows(routes, t) # {} => SameSteps(t, u)
           /\ DrawingsAgree(drawings, t) => DrawingsAgree(drawings', u)
<1>1. /\ routes \in Seq(RouteRows) /\ DOMAIN routes = 1 .. Len(routes) /\ Len(routes) \in Nat
      /\ drawings \in Seq(DrawingRows) /\ DOMAIN drawings = 1 .. Len(drawings) /\ Len(drawings) \in Nat
      /\ template \in [Templates -> Stands] /\ defaultRoute \in [Templates -> Nat]
      /\ \A x \in Templates : defaultRoute[x] <= Len(routes)
      /\ OfPresent(routes, template) /\ OfPresent(drawings, template)
      /\ \A j \in Drafts : Unreleased(work[j])
    BY DEF TemplatesInv, TemplatesTyped, PointsIn
<1>2. PICK n \in Nat, m \in Nat : n = Len(routes) /\ m = Len(drawings)
    BY <1>1
<1>3. PICK R, of : R = ActiveRows(routes, t) /\ of = InOrder(R)
    OBVIOUS
<1>4. PICK q \in Nat : Enumerates(of, R, q)
    <2>1. R \in SUBSET DOMAIN routes
        BY <1>3 DEF ActiveRows
    <2>2. Cardinality(R) \in Nat /\ Enumerates(InOrder(R), R, Cardinality(R))
        BY <1>1, <2>1, RowsEnumerated
    <2>3. QED
        BY <1>3, <2>2
<1>5. PICK c, e : c = CopiesFrom(routes, of, u) /\ e = LastMarked(c, n)
    OBVIOUS
<1>6. /\ Live(t) /\ template[u] = "absent" /\ template' = [template EXCEPT ![u] = "active"]
      /\ routes' = routes \o c /\ defaultRoute' = [defaultRoute EXCEPT ![u] = e]
      /\ UNCHANGED <<work, reading>>
    <2>1. RoutesOf(Routes(t), t) = R
        BY <1>1, <1>3, RoutesRead
    <2> DEFINE order == InOrder(RoutesOf(Routes(t), t))
               copies == [k \in DOMAIN order |-> Copied(routes[order[k]], u)]
               marked == {k \in DOMAIN copies : copies[k].flag}
               last == IF marked = {} THEN 0 ELSE Len(routes) + CHOOSE k \in marked : \A x \in marked : x <= k
    <2>2. /\ Live(t) /\ template[u] = "absent" /\ template' = [template EXCEPT ![u] = "active"]
          /\ routes' = routes \o copies /\ defaultRoute' = [defaultRoute EXCEPT ![u] = last]
          /\ UNCHANGED <<work, reading>>
        BY Zenon DEF Duplicate
    <2>3. order = of
        BY <1>3, <2>1
    <2>4. copies = c
        BY <1>5, <2>3 DEF CopiesFrom
    <2>5. marked = MarkedIn(c)
        BY <2>4 DEF MarkedIn
    <2>6. last = e
        <3> HIDE DEF marked
        <3>1. QED
            BY <1>2, <1>5, <2>5 DEF LastMarked
    <2> HIDE DEF order, copies, marked, last
    <2>7. QED
        BY <2>2, <2>4, <2>6
<1>7. PICK S \in SUBSET ActiveRows(drawings, t) :
            drawings' = drawings \o [k \in 1 .. Cardinality(S) |-> [drawings[InOrder(S)[k]] EXCEPT !.template = u]]
    <2>1. DrawingsOf(Drawings, t) = ActiveRows(drawings, t)
        BY DEF DrawingsOf, Drawings, ActiveRows
    <2>2. QED
        BY <2>1, Zenon DEF Duplicate
<1>8. PICK p \in Nat, g \in {InOrder(S)} : p = Cardinality(S) /\ Enumerates(g, S, p)
    <2>1. S \in SUBSET DOMAIN drawings
        BY DEF ActiveRows
    <2>2. QED
        BY <1>1, <2>1, RowsEnumerated
<1>9. PICK h : h = SheetsFrom(drawings, g, p, u)
    OBVIOUS
<1>10. drawings' = drawings \o h
    BY <1>7, <1>8, <1>9, Zenon DEF SheetsFrom
<1>11. c \in Seq(RouteRows) /\ Len(c) = q /\ CopyEach(c, routes, of, u, q)
    BY <1>1, <1>3, <1>4, <1>5, RoutesCopied
<1>12. h \in Seq(DrawingRows) /\ Len(h) = p /\ SheetEach(h, drawings, g, u, p)
    <2>1. S \in SUBSET DOMAIN drawings
        BY DEF ActiveRows
    <2>2. QED
        BY <1>1, <1>8, <1>9, <2>1, DrawingsCopied
<1>13. routes' \in Seq(RouteRows) /\ Len(routes') = n + q /\ Joined(routes', routes, c, n, q)
    BY <1>1, <1>2, <1>6, <1>11, RowsJoined
<1>14. drawings' \in Seq(DrawingRows) /\ Len(drawings') = m + p /\ Joined(drawings', drawings, h, m, p)
    BY <1>1, <1>2, <1>10, <1>12, RowsJoined
<1>15. e \in 0 .. n + q /\ n <= n + q /\ m <= m + p
    <2>1. DOMAIN c = 1 .. q
        BY <1>11, Zenon DEF CopyEach
    <2>2. LastMarked(c, n) \in 0 .. n + q
        BY <2>1, LastMarkedIn
    <2>3. n <= n + q /\ m <= m + p
        OBVIOUS
    <2>4. QED
        BY <1>5, <2>2, <2>3, Zenon
<1>16. t # u
    BY <1>6 DEF Live
<1>17. (\A i \in 1 .. n : routes[i].template # u) /\ (\A i \in 1 .. m : drawings[i].template # u)
    BY <1>1, <1>2, <1>6 DEF OfPresent
<1>18. /\ \A i \in n + 1 .. n + q : routes'[i].template = u
       /\ \A i \in m + 1 .. m + p : drawings'[i].template = u
    <2>1. ASSUME NEW i \in n + 1 .. n + q PROVE routes'[i].template = u
        <3>1. i - n \in 1 .. q /\ i = n + (i - n)
            OBVIOUS
        <3>2. QED
            BY <1>11, <1>13, <3>1, ZenonT(40) DEF Joined, CopyEach
    <2>2. ASSUME NEW i \in m + 1 .. m + p PROVE drawings'[i].template = u
        <3>1. i - m \in 1 .. p /\ i = m + (i - m)
            OBVIOUS
        <3>2. QED
            BY <1>12, <1>14, <3>1 DEF Joined, SheetEach
    <2>3. QED
        BY <2>1, <2>2
<1>19. RowsGrow(routes, routes') /\ RowsGrow(drawings, drawings') /\ StandsOn(template, template')
    <2>1. RowsGrow(routes, routes')
        BY <1>1, <1>2, <1>13, <1>15 DEF RowsGrow, Joined
    <2>2. RowsGrow(drawings, drawings')
        BY <1>1, <1>2, <1>14, <1>15 DEF RowsGrow, Joined
    <2>3. StandsOn(template, template')
        BY <1>1, <1>6 DEF StandsOn
    <2>4. QED
        BY <2>1, <2>2, <2>3
<1>20. OfPresent(routes', template') /\ OfPresent(drawings', template')
    <2>1. (\A i \in 1 .. n : routes[i].template \in Templates) /\ (\A i \in 1 .. m : drawings[i].template \in Templates)
        <3>1. (\A i \in DOMAIN routes : routes[i] \in RouteRows) /\ (\A i \in DOMAIN drawings : drawings[i] \in DrawingRows)
            BY <1>1
        <3>2. (\A r \in RouteRows : r.template \in Templates) /\ (\A r \in DrawingRows : r.template \in Templates)
            BY DEF RouteRows, DrawingRows
        <3>3. QED
            BY <1>1, <1>2, <3>1, <3>2
    <2>2. ASSUME NEW x \in Templates, x = u \/ template[x] # "absent" PROVE template'[x] # "absent"
        BY <1>1, <1>6, <2>2
    <2>3. ASSUME NEW i \in DOMAIN routes' PROVE template'[routes'[i].template] # "absent"
        <3>1. i \in 1 .. n \/ i \in n + 1 .. n + q
            BY <1>13 DEF Joined
        <3>2. CASE i \in 1 .. n
            BY <1>1, <1>2, <1>13, <2>1, <2>2, <3>2 DEF OfPresent, Joined
        <3>3. CASE i \in n + 1 .. n + q
            BY <1>18, <2>2, <3>3
        <3>4. QED
            BY <3>1, <3>2, <3>3
    <2>4. ASSUME NEW i \in DOMAIN drawings' PROVE template'[drawings'[i].template] # "absent"
        <3>1. i \in 1 .. m \/ i \in m + 1 .. m + p
            BY <1>14 DEF Joined
        <3>2. CASE i \in 1 .. m
            BY <1>1, <1>2, <1>14, <2>1, <2>2, <3>2 DEF OfPresent, Joined
        <3>3. CASE i \in m + 1 .. m + p
            BY <1>18, <2>2, <3>3
        <3>4. QED
            BY <3>1, <3>2, <3>3
    <2>5. QED
        BY <2>3, <2>4 DEF OfPresent
<1>21. defaultRoute' \in [Templates -> Nat] /\ defaultRoute'[u] = e /\ \A x \in Templates \ {u} : defaultRoute'[x] = defaultRoute[x]
    BY <1>1, <1>6, <1>15
<1>22. PointsIn(routes', defaultRoute')
    <2>1. ASSUME NEW x \in Templates PROVE defaultRoute'[x] <= n + q
        <3>1. CASE x = u
            BY <1>15, <1>21, <3>1
        <3>2. CASE x # u
            <4>1. PICK d \in Nat : d = defaultRoute[x] /\ d <= n
                BY <1>1, <1>2
            <4>2. d <= n + q
                BY <4>1
            <4>3. QED
                BY <1>21, <3>2, <4>1, <4>2
        <3>3. QED
            BY <3>1, <3>2
    <2>2. QED
        BY <1>13, <2>1 DEF PointsIn
<1>23. TemplatesInv'
    <2>1. template' \in [Templates -> Stands]
        BY <1>1, <1>6 DEF Stands
    <2>2. TemplatesTyped'
        BY <1>6, <1>13, <1>14, <1>21, <2>1 DEF TemplatesInv, TemplatesTyped
    <2>3. \A s \in Sessions : ReadOf(reading'[s], routes', drawings', template')
        BY <1>6, <1>13, <1>14, <1>19, ReadingsKept
    <2>4. QED
        BY <1>1, <1>6, <1>20, <1>22, <2>2, <2>3 DEF TemplatesInv
<1>24. ASSUME NEW x \in Templates \ {u}
       PROVE  /\ RoutesAgree(routes, defaultRoute[x], x) => RoutesAgree(routes', defaultRoute'[x], x)
              /\ DrawingsAgree(drawings, x) => DrawingsAgree(drawings', x)
    <2>1. PICK d \in Nat : d = defaultRoute[x] /\ d = defaultRoute'[x] /\ d \in 0 .. n
        BY <1>1, <1>2, <1>21
    <2>2. PICK a \in Nat, b \in Nat : a = n + q /\ b = m + p /\ n <= a /\ m <= b
        BY <1>15
    <2>3. FlagsAlike(routes, routes', x, n) /\ PrimaryAlike(drawings, drawings', x, m)
        BY <1>13, <1>14 DEF FlagsAlike, PrimaryAlike, Joined
    <2>4. AddsUnmarked(routes, routes', x, n, a) /\ \A i \in m + 1 .. b : drawings'[i].template # x
        BY <1>18, <2>2 DEF AddsUnmarked
    <2>5. DOMAIN routes = 1 .. n /\ DOMAIN drawings = 1 .. m /\ DOMAIN routes' = 1 .. a /\ DOMAIN drawings' = 1 .. b
        BY <1>1, <1>2, <1>13, <1>14, <2>2 DEF Joined
    <2>6. RoutesAgree(routes, d, x) => RoutesAgree(routes', d, x)
        BY <2>1, <2>2, <2>3, <2>4, <2>5, RoutesAlike
    <2>7. DrawingsAgree(drawings, x) => DrawingsAgree(drawings', x)
        BY <2>2, <2>3, <2>4, <2>5, DrawingsAlike
    <2>8. QED
        BY <2>1, <2>6, <2>7
<1>25. DrawingsAgree(drawings, t) => DrawingsAgree(drawings', u)
    <2>1. DOMAIN drawings = 1 .. m
        BY <1>1, <1>2
    <2>2. QED
        BY <1>8, <1>12, <1>14, <1>17, <2>1, DrawingsCopiedAgree
<1>26. ASSUME RoutesAgree(routes, defaultRoute[t], t)
       PROVE  RoutesAgree(routes', defaultRoute'[u], u) /\ (ActiveRows(routes, t) # {} => SameSteps(t, u))
    <2>1. DOMAIN routes = 1 .. n
        BY <1>1, <1>2
    <2>2. /\ RoutesAgree(routes', LastMarked(c, n), u)
          /\ ActiveRows(routes, t) # {} => CopiedDefault(of, defaultRoute[t], c, n, q)
        <3>1. Enumerates(of, ActiveRows(routes, t), q)
            BY <1>3, <1>4
        <3>2. /\ DOMAIN routes = 1 .. n /\ CopyEach(c, routes, of, u, q) /\ Joined(routes', routes, c, n, q)
              /\ NoneOf(routes, n, u) /\ RoutesAgree(routes, defaultRoute[t], t)
            BY <1>11, <1>13, <1>17, <1>26, <2>1 DEF NoneOf
        <3>3. QED
            BY <3>1, <3>2, RoutesCopiedAgree, Zenon
    <2>3. RoutesAgree(routes', defaultRoute'[u], u)
        BY <1>5, <1>21, <2>2
    <2>4. ASSUME ActiveRows(routes, t) # {} PROVE SameSteps(t, u)
        <3>1. PICK k \in 1 .. q : of[k] = defaultRoute[t] /\ e = n + k
            BY <1>5, <2>2, <2>4 DEF CopiedDefault
        <3>2. DOMAIN c[k].steps = DOMAIN routes[defaultRoute[t]].steps /\ c[k].template = u /\ c[k].active
            BY <1>11, <3>1 DEF CopyEach
        <3>3. routes'[e] = c[k] /\ e \in DOMAIN routes'
            <4>1. n + k \in 1 .. n + q
                OBVIOUS
            <4>2. QED
                BY <1>13, <3>1, <4>1 DEF Joined
        <3>4. DefaultOf(u)' = e
            <4>1. RoutesOf(Routes(u), u)' = ActiveRows(routes', u)
                BY <1>13, RoutesReadLater
            <4>2. e \in ActiveRows(routes', u)
                BY <3>2, <3>3 DEF ActiveRows
            <4>3. QED
                BY <1>21, <4>1, <4>2 DEF DefaultOf
        <3>5. DefaultOf(t) = defaultRoute[t]
            <4>1. defaultRoute[t] \in ActiveRows(routes, t)
                BY <1>26, <2>4 DEF RoutesAgree, ActiveRows
            <4>2. RoutesOf(Routes(t), t) = ActiveRows(routes, t)
                BY <1>1, RoutesRead
            <4>3. QED
                BY <4>1, <4>2 DEF DefaultOf
        <3>6. QED
            BY <3>2, <3>3, <3>4, <3>5 DEF SameSteps
    <2>5. QED
        BY <2>3, <2>4
<1>27. JobsKept
    BY <1>6, JobsUnchanging
<1>28. QED
    BY <1>6, <1>16, <1>23, <1>24, <1>25, <1>26, <1>27

-----------------------------------------------------------------------------
(* The specification.                                                      *)

LEMMA TemplatesStart == TemplatesInit => TemplatesInv
<1> SUFFICES ASSUME TemplatesInit PROVE TemplatesInv
    OBVIOUS
<1>1. \A s \in Sessions : ReadOf(reading[s], routes, drawings, template)
    BY IdleRead DEF TemplatesInit
<1>2. NoWork \in WorkRows /\ Unreleased(NoWork)
    BY DEF NoWork, WorkRows, Statuses, Unreleased
<1>3. routes \in Seq(RouteRows) /\ drawings \in Seq(DrawingRows) /\ DOMAIN routes = {} /\ DOMAIN drawings = {} /\ Len(routes) = 0
    BY DEF TemplatesInit
<1>4. TemplatesTyped
    BY <1>2, <1>3 DEF TemplatesInit, TemplatesTyped, Stands
<1>5. PointsIn(routes, defaultRoute) /\ OfPresent(routes, template) /\ OfPresent(drawings, template)
    BY <1>3 DEF TemplatesInit, PointsIn, OfPresent
<1>6. \A j \in Drafts : Unreleased(work[j])
    BY <1>2 DEF TemplatesInit
<1>7. QED
    BY <1>1, <1>4, <1>5, <1>6 DEF TemplatesInv

\* What a step may split.
DesignSplits(t) ==
    \/ /\ RoutesAgree(routes, defaultRoute[t], t) => RoutesAgree(routes', defaultRoute'[t], t)
       /\ DrawingsAgree(drawings, t) => DrawingsAgree(drawings', t)
    \/ \E s \in Sessions : reading[s].op \in DesignOps /\ reading'[s] = Idle /\ Overlapped(s, t)
    \/ template[t] = "absent" /\ \E u \in Templates :
            ~(RoutesAgree(routes, defaultRoute[u], u) /\ DrawingsAgree(drawings, u))
JobSplits(j) == (Whole(j) => Whole(j)') \/ \E s \in Sessions : JobSplit(j, s)

StepSplits == (\A t \in Templates : DesignSplits(t)) /\ (\A j \in Drafts : JobSplits(j))

LEMMA KeptSplits == ASSUME DesignsKept, JobsKept PROVE StepSplits
BY DEF StepSplits, DesignsKept, JobsKept, DesignSplits, JobSplits

LEMMA TemplatesStep ==
    ASSUME TemplatesInv, TemplatesNext
    PROVE  TemplatesInv' /\ StepSplits
<1>1. CASE \E t \in Templates : CreateTemplate(t) \/ UpdateTemplate(t) \/ DeleteTemplate(t)
    BY <1>1, TemplateSteps, KeptSplits
<1>2. CASE \E t \in Templates, u \in Templates : Duplicate(t, u)
    <2>1. PICK t \in Templates, u \in Templates : Duplicate(t, u)
        BY <1>2
    <2>2. /\ TemplatesInv' /\ JobsKept /\ template[u] = "absent" /\ t # u
          /\ \A x \in Templates \ {u} :
                /\ RoutesAgree(routes, defaultRoute[x], x) => RoutesAgree(routes', defaultRoute'[x], x)
                /\ DrawingsAgree(drawings, x) => DrawingsAgree(drawings', x)
          /\ RoutesAgree(routes, defaultRoute[t], t) => RoutesAgree(routes', defaultRoute'[u], u)
          /\ DrawingsAgree(drawings, t) => DrawingsAgree(drawings', u)
        BY <2>1, DuplicateSteps
    <2>3. ASSUME NEW x \in Templates PROVE DesignSplits(x)
        <3>1. CASE x = u
            BY <2>2, <3>1 DEF DesignSplits
        <3>2. CASE x # u
            BY <2>2, <3>2 DEF DesignSplits
        <3>3. QED
            BY <3>1, <3>2
    <2>4. QED
        BY <2>2, <2>3 DEF StepSplits, JobsKept, JobSplits
<1>3. CASE \E t \in Templates, r \in DOMAIN routes : NewVersion(t, r)
    BY <1>3, VersionSteps, KeptSplits
<1>4. CASE \E t \in Templates, r \in DOMAIN routes : AddStep(t, r) \/ DeleteStep(t, r) \/ ReorderSteps(t, r)
    BY <1>4, RouteSteps, KeptSplits
<1>5. CASE \E t \in Templates, j \in Drafts : CreateJob(j, t) \/ UpdateJob(j, t)
    BY <1>5, JobSteps, KeptSplits
<1>6. CASE \E t \in Templates, s \in Sessions : ReadDesign(s, t)
    BY <1>6, ReadDesignSteps, KeptSplits
<1>7. CASE \E s \in Sessions : CommitDesign(s)
    <2>1. PICK s \in Sessions : CommitDesign(s)
        BY <1>7
    <2>2. /\ TemplatesInv' /\ JobsKept /\ reading[s].op \in DesignOps /\ reading'[s] = Idle
          /\ \A t \in Templates :
                \/ Overlapped(s, t)
                \/ /\ RoutesAgree(routes, defaultRoute[t], t) => RoutesAgree(routes', defaultRoute'[t], t)
                   /\ DrawingsAgree(drawings, t) => DrawingsAgree(drawings', t)
        BY <2>1, DesignSteps
    <2>3. QED
        BY <2>2 DEF StepSplits, DesignSplits, JobsKept, JobSplits
<1>8. CASE \E s \in Sessions, j \in Drafts : ReadRelease(s, j) \/ ReadStatus(s, j)
    BY <1>8, ReadReleaseSteps, ReadStatusSteps, KeptSplits
<1>9. CASE \E s \in Sessions : CommitRelease(s) \/ CommitStatus(s)
    <2>1. PICK s \in Sessions : CommitRelease(s) \/ CommitStatus(s)
        BY <1>9
    <2>2. TemplatesInv' /\ DesignsKept /\ \A j \in Drafts : Whole(j) /\ ~Whole(j)' => JobSplit(j, s)
        BY <2>1, ReleaseSteps, StatusSteps
    <2>3. QED
        BY <2>2 DEF StepSplits, DesignsKept, DesignSplits, JobSplits
<1>10. CASE \E s \in Sessions : Abandon(s)
    BY <1>10, AbandonSteps, KeptSplits
<1>11. QED
    BY <1>1, <1>2, <1>3, <1>4, <1>5, <1>6, <1>7, <1>8, <1>9, <1>10 DEF TemplatesNext

LEMMA TemplatesStutter ==
    ASSUME TemplatesInv, UNCHANGED templateVars
    PROVE  TemplatesInv' /\ DesignsKept /\ JobsKept
<1>1. UNCHANGED <<template, routes, defaultRoute, drawings, work, reading>>
    BY DEF templateVars
<1>2. DesignsKept /\ JobsKept
    BY <1>1, Unchanging, JobsUnchanging
<1>3. TemplatesInv'
    BY <1>1 DEF TemplatesInv, TemplatesTyped
<1>4. QED
    BY <1>2, <1>3

\* Rows and pointers of templates stay in range and belong to templates that are there, a job has no
\* snapshot before its release, and what a session has read of a design is a part of what there is now:
\* nothing is ever erased under it.
THEOREM TemplatesHold == TemplatesSpec => []TemplatesInv
<1>1. TemplatesInv /\ [TemplatesNext]_templateVars => TemplatesInv'
    BY TemplatesStep, TemplatesStutter
<1>2. QED
    BY <1>1, TemplatesStart, PTL DEF TemplatesSpec

LEMMA SplitsStep ==
    ASSUME TemplatesInv, [TemplatesNext]_templateVars
    PROVE  /\ \A t \in Templates : Agrees(t) /\ ~Agrees(t)' =>
                \/ \E s \in Sessions : reading[s].op \in DesignOps /\ reading'[s] = Idle /\ Overlapped(s, t)
                \/ template[t] = "absent" /\ \E u \in Templates : ~Agrees(u)
           /\ \A j \in Drafts : Whole(j) /\ ~Whole(j)' =>
                \E s \in Sessions : /\ reading[s].op \in {"release", "status"} /\ reading[s].job = j
                                   /\ reading[s].was # work[j] /\ reading'[s] = Idle
<1>1. TemplatesInv' /\ StepSplits
    BY TemplatesStep, TemplatesStutter, KeptSplits
<1>2. /\ routes \in Seq(RouteRows) /\ drawings \in Seq(DrawingRows)
      /\ routes' \in Seq(RouteRows) /\ drawings' \in Seq(DrawingRows)
    BY <1>1 DEF TemplatesInv, TemplatesTyped
<1>3. \A t : Agrees(t) <=> RoutesAgree(routes, defaultRoute[t], t) /\ DrawingsAgree(drawings, t)
    BY <1>2, AgreesRead
<1>4. ASSUME NEW t \in Templates, Agrees(t), ~Agrees(t)'
      PROVE  \/ \E s \in Sessions : reading[s].op \in DesignOps /\ reading'[s] = Idle /\ Overlapped(s, t)
             \/ template[t] = "absent" /\ \E u \in Templates : ~Agrees(u)
    <2>1. RoutesAgree(routes, defaultRoute[t], t) /\ DrawingsAgree(drawings, t)
        BY <1>3, <1>4
    <2>2. ~(RoutesAgree(routes', defaultRoute'[t], t) /\ DrawingsAgree(drawings', t))
        BY <1>2, <1>4, AgreesReadLater
    <2>3. DesignSplits(t)
        BY <1>1 DEF StepSplits
    <2>4. QED
        BY <1>3, <2>1, <2>2, <2>3 DEF DesignSplits
<1>5. ASSUME NEW j \in Drafts, Whole(j), ~Whole(j)'
      PROVE  \E s \in Sessions : /\ reading[s].op \in {"release", "status"} /\ reading[s].job = j
                                 /\ reading[s].was # work[j] /\ reading'[s] = Idle
    BY <1>1, <1>5 DEF StepSplits, JobSplits, JobSplit
<1>6. QED
    BY <1>4, <1>5

\* No history of commands puts the two copies of the default route of a template out of step, marks two
\* drawings as primary, doubles the lines of a job or leaves it a reservation once it is cancelled, unless
\* a session commits what it read of a row that another one has changed since, or a template is copied
\* that was out of step.
THEOREM SplitsAlone == TemplatesSpec => OnlyOverlapsSplit
<1>1. TemplatesInv /\ [TemplatesNext]_templateVars =>
        /\ \A t \in Templates : Agrees(t) /\ ~Agrees(t)' =>
                \/ \E s \in Sessions : reading[s].op \in DesignOps /\ reading'[s] = Idle /\ Overlapped(s, t)
                \/ template[t] = "absent" /\ \E u \in Templates : ~Agrees(u)
        /\ \A j \in Drafts : Whole(j) /\ ~Whole(j)' =>
                \E s \in Sessions : /\ reading[s].op \in {"release", "status"} /\ reading[s].job = j
                                   /\ reading[s].was # work[j] /\ reading'[s] = Idle
    BY SplitsStep
<1>2. QED
    BY <1>1, TemplatesHold, PTL DEF TemplatesSpec, OnlyOverlapsSplit

LEMMA CopiesStep ==
    ASSUME TemplatesInv, NEW t \in Templates, NEW u \in Templates, Duplicate(t, u), Agrees(t), RoutesOf(Routes(t), t) # {}
    PROVE  Agrees(u)' /\ DOMAIN routes'[DefaultOf(u)'].steps = DOMAIN routes[DefaultOf(t)].steps
<1>1. /\ TemplatesInv'
      /\ RoutesAgree(routes, defaultRoute[t], t) =>
            /\ RoutesAgree(routes', defaultRoute'[u], u)
            /\ ActiveRows(routes, t) # {} => SameSteps(t, u)
      /\ DrawingsAgree(drawings, t) => DrawingsAgree(drawings', u)
    BY DuplicateSteps
<1>2. /\ routes \in Seq(RouteRows) /\ drawings \in Seq(DrawingRows)
      /\ routes' \in Seq(RouteRows) /\ drawings' \in Seq(DrawingRows)
    BY <1>1 DEF TemplatesInv, TemplatesTyped
<1>3. RoutesAgree(routes, defaultRoute[t], t) /\ DrawingsAgree(drawings, t) /\ ActiveRows(routes, t) # {}
    BY <1>2, AgreesRead, RoutesRead
<1>4. Agrees(u)'
    BY <1>1, <1>2, <1>3, AgreesReadLater
<1>5. QED
    BY <1>1, <1>3, <1>4 DEF SameSteps

\* A copy of a template whose default route is told the same way twice is one itself, and its jobs are
\* released along the same steps as those of the template it was copied from.
THEOREM CopiesAlike == TemplatesSpec => CopyReleasesAlike
<1>1. TemplatesInv /\ [TemplatesNext]_templateVars =>
        \A t, u \in Templates : Duplicate(t, u) /\ Agrees(t) /\ RoutesOf(Routes(t), t) # {} =>
            /\ Agrees(u)'
            /\ DOMAIN routes'[DefaultOf(u)'].steps = DOMAIN routes[DefaultOf(t)].steps
    BY CopiesStep
<1>2. QED
    BY <1>1, TemplatesHold, PTL DEF TemplatesSpec, CopyReleasesAlike

-----------------------------------------------------------------------------
(* The catalogue: what a commit leaves of the rows its checks have seen.   *)

CategoryRows == [state : {"absent", "active", "inactive"}, parent : Categories \cup {NoCategory}]
ProductRows == [state : {"absent", "active", "inactive", "deleted"}, category : Categories \cup {NoCategory}]

CatalogueTyped ==
    /\ category \in [Categories -> CategoryRows]
    /\ product \in [Products -> ProductRows]
    /\ part \in [PartRows -> {"absent", "active", "inactive", "deleted"}]
    /\ stage \in [StageRows -> {"absent", "active", "inactive"}]
    /\ planned \subseteq StageRows
    /\ listing \in [Products -> [Lists -> [PartRows \cup Stocked -> {"none", "active", "removed"}]]]
    /\ DOMAIN request = Clerks /\ \A k \in Clerks : request[k] \in Requests \cup {NoRequest}

LEMMA CatalogueStart == CatalogueInit => CatalogueTyped
BY DEF CatalogueInit, CatalogueTyped, CategoryRows, ProductRows, Lists

\* Which request it is.
LEMMA RequestFields ==
    ASSUME NEW r \in Requests
    PROVE  /\ r.op \in {"create_category", "delete_category"} => r.c \in Categories
           /\ r.op = "create_category" => r.parent \in Categories \cup {NoCategory}
           /\ r.op \in {"create_template", "move_template", "add_line"} => r.p \in Products
           /\ r.op = "create_template" => r.c \in Categories \cup {NoCategory} /\ r.state \in {"active", "inactive"}
           /\ r.op = "move_template" => r.c \in Categories
           /\ r.op \in {"delete_stage", "add_step"} => r.s \in StageRows
           /\ r.op = "add_line" => r.l \in Lists /\ r.i \in PartRows \cup Stocked
           /\ r.op = "copy_template" =>
                /\ r.q \in Products /\ r.c \in Categories \cup {NoCategory}
                /\ r.parts \subseteq PartRows /\ r.steps \subseteq StageRows
           /\ r # NoRequest
BY DEF Requests, NoRequest

\* What a request writes keeps the types.
LEMMA CommitTyped ==
    ASSUME CatalogueTyped, NEW k \in Clerks, CommitRequest(k)
    PROVE  CatalogueTyped'
<1>1. PICK r \in Requests : r = request[k]
    BY DEF CatalogueTyped, CommitRequest, NoRequest
<1>2. DOMAIN request' = Clerks /\ \A x \in Clerks : request'[x] \in Requests \cup {NoRequest}
    BY DEF CatalogueTyped, CommitRequest
<1>3. CASE r.op = "create_category" /\ CreateCategory(r)
    <2>1. [state |-> "active", parent |-> r.parent] \in CategoryRows
        BY <1>3, RequestFields DEF CategoryRows
    <2>2. QED
        BY <1>2, <1>3, <2>1 DEF CatalogueTyped, CreateCategory
<1>4. CASE r.op = "delete_category" /\ DeleteCategory(r)
    <2>1. [category[r.c] EXCEPT !.state = "inactive"] \in CategoryRows
        <3>1. r.c \in Categories
            BY <1>4, RequestFields
        <3>2. QED
            BY <3>1 DEF CatalogueTyped, CategoryRows
    <2>2. category' = [category EXCEPT ![r.c] = [category[r.c] EXCEPT !.state = "inactive"]]
        BY <1>4 DEF DeleteCategory
    <2>3. QED
        BY <1>2, <1>4, <2>1, <2>2 DEF CatalogueTyped, DeleteCategory
<1>5. CASE r.op = "create_template" /\ CreateProduct(r)
    <2>1. [state |-> r.state, category |-> r.c] \in ProductRows
        BY <1>5, RequestFields DEF ProductRows
    <2>2. QED
        BY <1>2, <1>5, <2>1 DEF CatalogueTyped, CreateProduct
<1>6. CASE r.op = "move_template" /\ MoveProduct(r)
    <2>1. [product[r.p] EXCEPT !.category = r.c] \in ProductRows
        <3>1. r.p \in Products /\ r.c \in Categories
            BY <1>6, RequestFields
        <3>2. product[r.p] \in ProductRows
            BY <3>1 DEF CatalogueTyped
        <3>3. QED
            BY <3>1, <3>2 DEF ProductRows
    <2>2. product' = [product EXCEPT ![r.p] = [product[r.p] EXCEPT !.category = r.c]]
        BY <1>6 DEF MoveProduct
    <2>3. QED
        BY <1>2, <1>6, <2>1, <2>2 DEF CatalogueTyped, MoveProduct
<1>7. CASE r.op = "delete_stage" /\ DeleteStage(r)
    BY <1>2, <1>7 DEF CatalogueTyped, DeleteStage
<1>8. CASE r.op = "add_step" /\ PlanStage(r)
    BY <1>2, <1>8, RequestFields DEF CatalogueTyped, PlanStage
<1>9. CASE r.op = "add_line" /\ AddLine(r)
    BY <1>2, <1>9, RequestFields DEF CatalogueTyped, AddLine
<1>10. CASE r.op = "copy_template" /\ CopyProduct(r)
    <2> DEFINE copied == [i \in PartRows \cup Stocked |-> IF i \in r.parts THEN "active" ELSE listing[r.q]["bom"][i]]
    <2>1. /\ r.q \in Products /\ r.steps \subseteq StageRows /\ "bom" \in Lists
          /\ [state |-> "active", category |-> r.c] \in ProductRows
        BY <1>10, RequestFields DEF ProductRows, Lists
    <2>2. copied \in [PartRows \cup Stocked -> {"none", "active", "removed"}]
        BY <2>1 DEF CatalogueTyped
    <2>3. listing' = [listing EXCEPT ![r.q]["bom"] = copied]
        BY <1>10 DEF CopyProduct
    <2> HIDE DEF copied
    <2>4. listing' \in [Products -> [Lists -> [PartRows \cup Stocked -> {"none", "active", "removed"}]]]
        BY <2>1, <2>2, <2>3 DEF CatalogueTyped
    <2>5. QED
        BY <1>2, <1>10, <2>1, <2>4 DEF CatalogueTyped, CopyProduct
<1>11. QED
    BY <1>1, <1>3, <1>4, <1>5, <1>6, <1>7, <1>8, <1>9, <1>10 DEF CommitRequest

\* The other steps.
LEMMA EditsTyped ==
    ASSUME CatalogueTyped, EditCategory \/ EditProduct \/ (\E p \in Products : DeleteProduct(p))
    PROVE  CatalogueTyped'
<1>1. ASSUME NEW c \in Categories, UpdateCategory(c) PROVE CatalogueTyped'
    <2>1. PICK row : category' = [category EXCEPT ![c] = row] /\ row \in CategoryRows
        <3>1. PICK active \in {"active", "inactive"}, d \in Categories \cup {category[c].parent} :
                    category' = [category EXCEPT ![c] = [state |-> active, parent |-> d]]
            BY <1>1 DEF UpdateCategory
        <3>2. [state |-> active, parent |-> d] \in CategoryRows
            BY DEF CatalogueTyped, CategoryRows
        <3>3. QED
            BY <3>1, <3>2
    <2>2. QED
        BY <1>1, <2>1 DEF UpdateCategory, CatalogueTyped
<1>2. ASSUME NEW p \in Products, UpdateProduct(p) \/ DeleteProduct(p) PROVE CatalogueTyped'
    <2>1. PICK s \in {"active", "inactive", "deleted"} : product' = [product EXCEPT ![p].state = s]
        BY <1>2 DEF UpdateProduct, DeleteProduct
    <2>2. [product[p] EXCEPT !.state = s] \in ProductRows
        BY DEF CatalogueTyped, ProductRows
    <2>3. product' = [product EXCEPT ![p] = [product[p] EXCEPT !.state = s]]
        BY <2>1
    <2>4. QED
        BY <1>2, <2>2, <2>3 DEF UpdateProduct, DeleteProduct, CatalogueTyped
<1>3. QED
    BY <1>1, <1>2 DEF EditCategory, EditProduct

LEMMA CatalogueStep == ASSUME CatalogueTyped, [CatalogueNext]_catalogueVars PROVE CatalogueTyped'
<1>1. ASSUME NEW k \in Clerks, Check(k) \/ DropRequest(k) PROVE CatalogueTyped'
    BY <1>1 DEF Check, DropRequest, CatalogueTyped
<1>2. ASSUME EditStage \/ \E s \in StageRows : CreateStage(s) \/ ForgetStep(s) PROVE CatalogueTyped'
    BY <1>2 DEF EditStage, UpdateStage, CreateStage, StageChange, ForgetStep, CatalogueTyped
<1>3. ASSUME EditPart \/ \E i \in PartRows : CreatePart(i) PROVE CatalogueTyped'
    BY <1>3 DEF EditPart, UpdatePart, DeletePart, CreatePart, PartChange, CatalogueTyped
<1>4. ASSUME NEW p \in Products, RemoveBomLine(p) \/ RemoveYigishLine(p) PROVE CatalogueTyped'
    <2>1. PICK l \in Lists : RemoveLine(p, l)
        BY <1>4 DEF RemoveBomLine, RemoveYigishLine, Lists
    <2>2. PICK i \in PartRows \cup Stocked : listing' = [listing EXCEPT ![p][l][i] = "removed"]
        BY <2>1 DEF RemoveLine
    <2>3. listing' \in [Products -> [Lists -> [PartRows \cup Stocked -> {"none", "active", "removed"}]]]
        BY <2>2 DEF CatalogueTyped
    <2>4. QED
        BY <2>1, <2>3 DEF RemoveLine, CatalogueTyped
<1>5. CASE UNCHANGED catalogueVars
    BY <1>5 DEF catalogueVars, CatalogueTyped
<1>6. QED
    BY <1>1, <1>2, <1>3, <1>4, <1>5, EditsTyped, CommitTyped DEF CatalogueNext

\* What is in use goes on referring to what is in use.
ProductStranded(p) == product[p].state = "active" /\ ~InUse(product[p].category)
CategoryStranded(c) == category[c].state = "active" /\ ~InUse(category[c].parent)
ProductsKept == \A p \in Products : ProductStranded(p)' => ProductStranded(p)
CategoriesKept == \A c \in Categories : CategoryStranded(c)' => CategoryStranded(c)
StagesKept == \A s \in planned' : stage'[s] # "active" => s \in planned /\ stage[s] # "active"
LinesKept == \A p \in Products, l \in Lists, i \in PartRows : listing'[p][l][i] = "active" /\ part'[i] # "active" =>
                                        listing[p][l][i] = "active" /\ part[i] # "active"

Kempt == ProductsKept /\ CategoriesKept /\ StagesKept /\ LinesKept

LEMMA KemptStrandsNone == ASSUME Kempt PROVE Stranded' \subseteq Stranded
<1>1. \A e \in Products \X Lists \X PartRows : e[1] \in Products /\ e[2] \in Lists /\ e[3] \in PartRows
    OBVIOUS
<1>2. \A e \in Products \X Lists \X PartRows :
        listing'[e[1]][e[2]][e[3]] = "active" /\ part'[e[3]] # "active" => listing[e[1]][e[2]][e[3]] = "active" /\ part[e[3]] # "active"
    BY <1>1 DEF Kempt, LinesKept
<1>3. QED
    BY <1>2 DEF Kempt, Stranded, ProductsKept, ProductStranded, CategoriesKept, CategoryStranded, StagesKept

\* A request whose checks still hold when it commits strands nothing, a copy apart.
LEMMA CheckedStrandsNone ==
    ASSUME CatalogueTyped, NEW k \in Clerks, CommitRequest(k), Checks(request[k]), request[k].op # "copy_template"
    PROVE  Kempt
<1>0. CatalogueAssumption /\ CatalogueTyped
    BY CatalogueAssumption
<1>1. PICK r \in Requests : r = request[k] /\ Checks(r)
    BY DEF CatalogueTyped, CommitRequest, NoRequest
<1>2. CASE r.op = "create_category" /\ CreateCategory(r)
    <2>1. category[r.c].state = "absent" /\ InUse(r.parent) /\ r.c \in Categories /\ r.parent \in Categories \cup {NoCategory}
        BY <1>1, <1>2, RequestFields DEF Checks, CategoryCreatable
    <2>2. category'[r.c] = [state |-> "active", parent |-> r.parent] /\ \A c \in Categories \ {r.c} : category'[c] = category[c]
        BY <1>2, <2>1 DEF CreateCategory, CatalogueTyped
    <2>3. \A c \in Categories \cup {NoCategory} : InUse(c) => InUse(c)'
        BY <2>1, <2>2 DEF InUse
    <2>4. ProductsKept
        BY <1>2, <2>3 DEF ProductsKept, ProductStranded, CatalogueTyped, ProductRows, CreateCategory
    <2>5. CategoriesKept
        BY <2>1, <2>2, <2>3 DEF CategoriesKept, CategoryStranded, CatalogueTyped, CategoryRows
    <2>6. QED
        BY <1>2, <2>4, <2>5 DEF Kempt, StagesKept, LinesKept, CreateCategory
<1>3. CASE r.op = "delete_category" /\ DeleteCategory(r)
    <2>1. Childless(r.c) /\ Unfilled(r.c) /\ r.c \in Categories
        BY <1>1, <1>3, RequestFields DEF Checks
    <2>2. /\ category'[r.c].state = "inactive"
          /\ \A c \in Categories \ {r.c} : category'[c] = category[c]
        BY <1>3, <2>1 DEF DeleteCategory, CatalogueTyped, CategoryRows
    <2>3. \A c \in (Categories \cup {NoCategory}) \ {r.c} : InUse(c) => InUse(c)'
        BY <2>2 DEF InUse
    <2>4. ProductsKept
        BY <1>3, <2>1, <2>3 DEF ProductsKept, ProductStranded, CatalogueTyped, ProductRows, DeleteCategory, Unfilled
    <2>5. CategoriesKept
        BY <2>1, <2>2, <2>3 DEF CategoriesKept, CategoryStranded, CatalogueTyped, CategoryRows, Childless
    <2>6. QED
        BY <1>3, <2>4, <2>5 DEF Kempt, StagesKept, LinesKept, DeleteCategory
<1>4. CASE r.op = "create_template" /\ CreateProduct(r)
    <2>1. InUse(r.c) /\ r.p \in Products
        BY <1>1, <1>4, RequestFields DEF Checks
    <2>2. product'[r.p].category = r.c /\ (\A p \in Products \ {r.p} : product'[p] = product[p]) /\ category' = category
        BY <1>4, <2>1 DEF CreateProduct, CatalogueTyped
    <2>3. ProductsKept /\ CategoriesKept
        BY <2>1, <2>2 DEF ProductsKept, ProductStranded, CategoriesKept, CategoryStranded, InUse
    <2>4. QED
        BY <1>4, <2>3 DEF Kempt, StagesKept, LinesKept, CreateProduct
<1>5. CASE r.op = "move_template" /\ MoveProduct(r)
    <2>1. InUse(r.c) /\ r.p \in Products
        BY <1>1, <1>5, RequestFields DEF Checks
    <2>2. product'[r.p].category = r.c /\ (\A p \in Products \ {r.p} : product'[p] = product[p]) /\ category' = category
        BY <1>5, <2>1 DEF MoveProduct, CatalogueTyped, ProductRows
    <2>3. ProductsKept /\ CategoriesKept
        BY <2>1, <2>2 DEF ProductsKept, ProductStranded, CategoriesKept, CategoryStranded, InUse
    <2>4. QED
        BY <1>5, <2>3 DEF Kempt, StagesKept, LinesKept, MoveProduct
<1>6. CASE r.op = "delete_stage" /\ DeleteStage(r)
    <2>1. r.s \notin planned
        BY <1>1, <1>6 DEF Checks, StageUnplanned
    <2>2. StagesKept
        BY <1>6, <2>1 DEF StagesKept, DeleteStage, CatalogueTyped
    <2>3. QED
        BY <1>6, <2>2 DEF Kempt, ProductsKept, ProductStranded, CategoriesKept, CategoryStranded, LinesKept, InUse, DeleteStage
<1>7. CASE r.op = "add_step" /\ PlanStage(r)
    <2>1. stage[r.s] = "active"
        BY <1>1, <1>7 DEF Checks
    <2>2. StagesKept
        BY <1>7, <2>1 DEF StagesKept, PlanStage
    <2>3. QED
        BY <1>7, <2>2 DEF Kempt, ProductsKept, ProductStranded, CategoriesKept, CategoryStranded, LinesKept, InUse, PlanStage
<1>8. CASE r.op = "add_line" /\ AddLine(r)
    <2>1. r.i \in PartRows => part[r.i] = "active"
        BY <1>0, <1>1, <1>8, RequestFields DEF Checks, BomAddable, YigishAddable, PartActive, CatalogueAssumption
    <2>2. r.p \in Products /\ r.l \in Lists /\ r.i \in PartRows \cup Stocked
        BY <1>8, RequestFields
    <2>3. \A p \in Products, l \in Lists, i \in PartRows : listing'[p][l][i] = IF p = r.p /\ l = r.l /\ i = r.i THEN "active" ELSE listing[p][l][i]
        BY <1>8, <2>2 DEF AddLine, CatalogueTyped
    <2>4. LinesKept
        BY <1>8, <2>1, <2>3 DEF LinesKept, AddLine
    <2>5. QED
        BY <1>8, <2>4 DEF Kempt, ProductsKept, ProductStranded, CategoriesKept, CategoryStranded, StagesKept, InUse, AddLine
<1>9. QED
    BY <1>1, <1>2, <1>3, <1>4, <1>5, <1>6, <1>7, <1>8 DEF CommitRequest

\* The steps that strand nothing whatever there is.
LEMMA OthersStrandNone ==
    ASSUME CatalogueTyped,
           \/ \E k \in Clerks : Check(k) \/ DropRequest(k)
           \/ \E p \in Products : DeleteProduct(p) \/ RemoveBomLine(p) \/ RemoveYigishLine(p)
           \/ \E i \in PartRows : CreatePart(i)
           \/ \E s \in StageRows : CreateStage(s) \/ ForgetStep(s)
    PROVE  Kempt
<1>1. ASSUME NEW k \in Clerks, Check(k) \/ DropRequest(k) PROVE Kempt
    BY <1>1 DEF Check, DropRequest, Kempt, ProductsKept, ProductStranded, CategoriesKept, CategoryStranded, StagesKept, LinesKept, InUse
<1>2. ASSUME NEW p \in Products, DeleteProduct(p) PROVE Kempt
    <2>1. product'[p].state = "deleted" /\ \A q \in Products \ {p} : product'[q] = product[q]
        BY <1>2 DEF DeleteProduct, CatalogueTyped, ProductRows
    <2>2. ProductsKept
        BY <1>2, <2>1 DEF DeleteProduct, ProductsKept, ProductStranded, InUse
    <2>3. QED
        BY <1>2, <2>2 DEF DeleteProduct, Kempt, CategoriesKept, CategoryStranded, StagesKept, LinesKept, InUse
<1>3. ASSUME NEW p \in Products, NEW l \in Lists, RemoveLine(p, l) PROVE Kempt
    <2>1. PICK i \in PartRows \cup Stocked : listing' = [listing EXCEPT ![p][l][i] = "removed"]
        BY <1>3 DEF RemoveLine
    <2>2. \A q \in Products, m \in Lists, j \in PartRows : listing'[q][m][j] = IF q = p /\ m = l /\ j = i THEN "removed" ELSE listing[q][m][j]
        BY <2>1 DEF CatalogueTyped
    <2>3. LinesKept
        BY <1>3, <2>2 DEF LinesKept, RemoveLine
    <2>4. QED
        BY <1>3, <2>3 DEF RemoveLine, Kempt, ProductsKept, ProductStranded, CategoriesKept, CategoryStranded, StagesKept, InUse
<1>4. ASSUME NEW i \in PartRows, CreatePart(i) PROVE Kempt
    <2>1. part' = [part EXCEPT ![i] = "active"]
        BY <1>4 DEF CreatePart, PartChange
    <2>2. LinesKept
        BY <1>4, <2>1 DEF CatalogueTyped, LinesKept, CreatePart, PartChange
    <2>3. QED
        BY <1>4, <2>2 DEF CreatePart, PartChange, Kempt, ProductsKept, ProductStranded, CategoriesKept, CategoryStranded, StagesKept, InUse
<1>5. ASSUME NEW s \in StageRows, CreateStage(s) \/ ForgetStep(s) PROVE Kempt
    <2>1. \/ stage' = [stage EXCEPT ![s] = "active"] /\ planned' = planned
          \/ stage' = stage /\ planned' \subseteq planned
        BY <1>5 DEF CreateStage, StageChange, ForgetStep
    <2>2. StagesKept
        BY <2>1 DEF CatalogueTyped, StagesKept
    <2>3. QED
        BY <1>5, <2>2 DEF CreateStage, StageChange, ForgetStep, Kempt, ProductsKept, ProductStranded, CategoriesKept, CategoryStranded, LinesKept, InUse
<1>6. QED
    BY <1>1, <1>2, <1>3, <1>4, <1>5 DEF RemoveBomLine, RemoveYigishLine, Lists

\* What is in use comes to refer to what is out of use only by an edit, by a copy (duplicate_template), or
\* by a handler whose checks do not hold any more when it commits (delete_category, add_route_step,
\* add_template_bom_line).
THEOREM UncheckedAlone == CatalogueSpec => OnlyUncheckedStrand
<1> DEFINE Step ==
       ~(Stranded' \subseteq Stranded) =>
          \/ EditCategory \/ EditProduct \/ EditStage \/ EditPart
          \/ \E k \in Clerks :
                /\ request[k] # NoRequest /\ request'[k] = NoRequest
                /\ request[k].op = "copy_template" \/ ~Checks(request[k])
<1>1. ASSUME CatalogueTyped, NEW k \in Clerks, CommitRequest(k) PROVE request[k] # NoRequest /\ request'[k] = NoRequest
    BY <1>1 DEF CatalogueTyped, CommitRequest, NoRequest
<1>2. CatalogueTyped /\ CatalogueNext => Step
    BY <1>1, CheckedStrandsNone, OthersStrandNone, KemptStrandsNone DEF CatalogueNext
<1>3. CatalogueTyped /\ [CatalogueNext]_catalogueVars => [Step]_catalogueVars
    BY <1>2
<1>4. CatalogueSpec => [][Step]_catalogueVars
    BY <1>3, CatalogueStart, CatalogueStep, PTL DEF CatalogueSpec
<1>5. QED
    BY <1>4 DEF OnlyUncheckedStrand

-----------------------------------------------------------------------------
(* The task board.                                                         *)

TaskStatuses == {"new"} \cup OperatorStatuses
RowsOfTasks == [there : BOOLEAN, status : TaskStatuses, last : TaskStatuses]

\* A request that waits at a desk.
Turns ==
    [op : {"update"}, t : Tasks, edit : BOOLEAN, listed : BOOLEAN, who : SUBSET Operators,
     seen : [Operators -> SUBSET Nat]]
    \cup [op : {"delete"}, t : Tasks, seen : [Operators -> SUBSET Nat], notes : Nat]
    \cup [op : {"archive"}, t : Tasks, seen : BOOLEAN]
    \cup [op : {"status"}, t : Tasks, u : Operators, k : Nat, status : OperatorStatuses, seen : TaskStatuses]

BoardTypes ==
    /\ task \in [Tasks -> [state : {"absent", "there", "deleted"}, archived : BOOLEAN]]
    /\ duties \in [Tasks -> [Operators -> Seq(RowsOfTasks)]]
    /\ notes \in [Tasks -> Nat]
    /\ working \in [Desks -> Turns \cup {NoTurn}]

\* Of a list of assignments: the ones that are there, and the two ways it can be wrong.
Present(s) == {k \in DOMAIN s : s[k].there}
Doubled(s) == \E k, l \in Present(s) : k # l
Muddled(s) == \E k \in Present(s) : s[k].status # s[k].last

\* A list becomes no worse than it was.
NoWorse(s, z) == (Doubled(z) => Doubled(s)) /\ (Muddled(z) => Muddled(s))

LEMMA Without ==
    ASSUME NEW r \in RowsOfTasks
    PROVE  /\ [r EXCEPT !.there = FALSE] \in RowsOfTasks /\ ~[r EXCEPT !.there = FALSE].there
           /\ [r EXCEPT !.there = FALSE].status = r.status /\ [r EXCEPT !.there = FALSE].last = r.last
    BY DEF RowsOfTasks

\* The ways the list of an operator changes.
LEMMA OneAdded ==
    ASSUME NEW s \in Seq(RowsOfTasks), Present(s) = {}
    PROVE  /\ Append(s, NewRow) \in Seq(RowsOfTasks) /\ NoWorse(s, Append(s, NewRow))
           /\ Present(Append(s, NewRow)) # {}
<1> DEFINE z == Append(s, NewRow)
<1>1. NewRow \in RowsOfTasks /\ NewRow.there /\ NewRow.status = NewRow.last
    BY DEF NewRow, RowsOfTasks, TaskStatuses
<1>2. z \in Seq(RowsOfTasks) /\ DOMAIN z = 1 .. Len(s) + 1 /\ z[Len(s) + 1] = NewRow
      /\ \A k \in 1 .. Len(s) : z[k] = s[k]
    BY <1>1
<1> HIDE DEF z
<1>3. Present(z) = {Len(s) + 1}
    BY <1>1, <1>2 DEF Present
<1>4. QED
    BY <1>1, <1>2, <1>3 DEF NoWorse, Doubled, Muddled, z

LEMMA OneGone ==
    ASSUME NEW s \in Seq(RowsOfTasks), NEW n \in Nat
    PROVE  /\ [s EXCEPT ![n].there = FALSE] \in Seq(RowsOfTasks)
           /\ NoWorse(s, [s EXCEPT ![n].there = FALSE])
           /\ Present([s EXCEPT ![n].there = FALSE]) = Present(s) \ {n}
<1> DEFINE z == [s EXCEPT ![n].there = FALSE]
<1> DEFINE gone == [s[n] EXCEPT !.there = FALSE]
<1>a. z = [s EXCEPT ![n] = gone]
    OBVIOUS
<1> HIDE DEF gone
<1>b. DOMAIN s = 1 .. Len(s) /\ s = [k \in DOMAIN s |-> s[k]]
    OBVIOUS
<1>c. z = [k \in DOMAIN s |-> IF k = n THEN gone ELSE s[k]]
    BY <1>a, <1>b, Zenon
<1>1. /\ DOMAIN z = 1 .. Len(s)
      /\ \A k \in 1 .. Len(s) : z[k] = IF k = n THEN gone ELSE s[k]
    BY <1>b, <1>c
<1> HIDE DEF z
<1>2. \A k \in 1 .. Len(s) :
        /\ s[k] \in RowsOfTasks /\ z[k] \in RowsOfTasks /\ z[k].status = s[k].status /\ z[k].last = s[k].last
        /\ z[k].there <=> s[k].there /\ k # n
    <2> TAKE k \in 1 .. Len(s)
    <2>1. s[k] \in RowsOfTasks
        OBVIOUS
    <2>2. CASE k = n
        BY <1>1, <2>1, <2>2, Without DEF gone
    <2>3. CASE k # n
        BY <1>1, <2>1, <2>3
    <2>4. QED
        BY <2>2, <2>3
<1>3. z \in Seq(RowsOfTasks)
    <2>1. z = [k \in 1 .. Len(s) |-> z[k]]
        BY <1>1 DEF z
    <2>2. QED
        BY <1>1, <1>2, <2>1
<1>4. Present(z) = Present(s) \ {n}
    BY <1>1, <1>2 DEF Present
<1>5. NoWorse(s, z)
    BY <1>1, <1>2, <1>4 DEF NoWorse, Doubled, Muddled, Present
<1>6. QED
    BY <1>3, <1>4, <1>5 DEF z

LEMMA AllGone ==
    ASSUME NEW s \in Seq(RowsOfTasks)
    PROVE  /\ [k \in DOMAIN s |-> [s[k] EXCEPT !.there = FALSE]] \in Seq(RowsOfTasks)
           /\ NoWorse(s, [k \in DOMAIN s |-> [s[k] EXCEPT !.there = FALSE]])
<1> DEFINE z == [k \in DOMAIN s |-> [s[k] EXCEPT !.there = FALSE]]
<1>1. \A k \in 1 .. Len(s) : s[k] \in RowsOfTasks /\ z[k] \in RowsOfTasks /\ ~z[k].there
    BY Without
<1>a. DOMAIN s = 1 .. Len(s) /\ DOMAIN z = DOMAIN s
    OBVIOUS
<1>b. z = [k \in 1 .. Len(s) |-> z[k]]
    BY <1>a
<1> HIDE DEF z
<1>2. DOMAIN z = 1 .. Len(s) /\ z \in Seq(RowsOfTasks)
    BY <1>1, <1>a, <1>b
<1>3. Present(z) = {}
    BY <1>1, <1>2 DEF Present
<1>4. QED
    BY <1>2, <1>3 DEF NoWorse, Doubled, Muddled, z

LEMMA OneStamped ==
    ASSUME NEW s \in Seq(RowsOfTasks), NEW n \in Nat, NEW v \in TaskStatuses, NEW l \in TaskStatuses
    PROVE  LET z == [s EXCEPT ![n] = [there |-> @.there, status |-> IF l # v THEN l ELSE @.status, last |-> l]]
           IN  /\ z \in Seq(RowsOfTasks)
               /\ (n \in DOMAIN s => v = s[n].status) => NoWorse(s, z)
<1> DEFINE z == [s EXCEPT ![n] = [there |-> @.there, status |-> IF l # v THEN l ELSE @.status, last |-> l]]
<1>1. /\ DOMAIN z = 1 .. Len(s)
      /\ \A k \in 1 .. Len(s) :
           z[k] = IF k = n THEN [there |-> s[k].there, status |-> IF l # v THEN l ELSE s[k].status, last |-> l] ELSE s[k]
    OBVIOUS
<1>2. z = [k \in 1 .. Len(s) |-> z[k]]
    BY <1>1
<1> HIDE DEF z
<1>3. \A k \in 1 .. Len(s) :
        /\ s[k] \in RowsOfTasks /\ z[k] \in RowsOfTasks /\ (z[k].there <=> s[k].there)
        /\ k # n => z[k] = s[k]
    <2> TAKE k \in 1 .. Len(s)
    <2>1. s[k] \in RowsOfTasks
        OBVIOUS
    <2>2. CASE k = n
        <3>1. z[k] = [there |-> s[k].there, status |-> IF l # v THEN l ELSE s[k].status, last |-> l]
            BY <1>1, <2>2
        <3>2. s[k].there \in BOOLEAN /\ s[k].status \in TaskStatuses
            BY <2>1 DEF RowsOfTasks
        <3>3. QED
            BY <2>1, <2>2, <3>1, <3>2 DEF RowsOfTasks
    <2>3. CASE k # n
        BY <1>1, <2>1, <2>3
    <2>4. QED
        BY <2>2, <2>3
<1>4. z \in Seq(RowsOfTasks)
    BY <1>1, <1>2, <1>3
<1>5. Present(z) = Present(s)
    BY <1>1, <1>3 DEF Present
<1>6. ASSUME n \in DOMAIN s => v = s[n].status PROVE n \in DOMAIN s => z[n].status = z[n].last
    BY <1>1, <1>6
<1>7. ASSUME n \in DOMAIN s => v = s[n].status PROVE NoWorse(s, z)
    BY <1>3, <1>5, <1>6, <1>7, <1>1 DEF NoWorse, Doubled, Muddled, Present
<1>8. QED
    BY <1>4, <1>7 DEF z

LEMMA RowsAtStart ==
    /\ <<>> \in Seq(RowsOfTasks) /\ <<NewRow>> \in Seq(RowsOfTasks)
    /\ ~Doubled(<<>>) /\ ~Muddled(<<>>) /\ ~Doubled(<<NewRow>>) /\ ~Muddled(<<NewRow>>)
    BY DEF RowsOfTasks, TaskStatuses, NewRow, Doubled, Muddled, Present

LEMMA Grown ==
    ASSUME NEW s \in Seq(RowsOfTasks)
    PROVE  Append(s, NewRow) \in Seq(RowsOfTasks)
<1>1. NewRow \in RowsOfTasks
    BY DEF NewRow, RowsOfTasks, TaskStatuses
<1>2. QED
    BY <1>1

LEMMA TurnFields ==
    ASSUME NEW w \in Turns \cup {NoTurn}
    PROVE  /\ w.op = "update" =>
                w.t \in Tasks /\ w.listed \in BOOLEAN /\ w.who \in SUBSET Operators
                /\ w.seen \in [Operators -> SUBSET Nat]
           /\ w.op = "delete" => w.t \in Tasks
           /\ w.op = "archive" => w.t \in Tasks /\ w.seen \in BOOLEAN
           /\ w.op = "status" =>
                w.t \in Tasks /\ w.u \in Operators /\ w.k \in Nat /\ w.status \in OperatorStatuses
                /\ w.seen \in TaskStatuses
    BY DEF Turns, NoTurn

\* What the requests at the desks do to the list of one operator.
LEMMA UpdateRows ==
    ASSUME BoardTypes, NEW c \in Desks, CommitTask(c), NEW t \in Tasks, NEW u \in Operators
    PROVE  /\ duties' \in [Tasks -> [Operators -> Seq(RowsOfTasks)]]
           /\ ~Surpassed(c) => NoWorse(duties[t][u], duties'[t][u])
           /\ ~Surpassed(c) /\ working[c].listed /\ working[c].t = t /\ ~Twice(t, u) =>
                (Present(duties'[t][u]) # {} <=> u \in working[c].who)
<1> DEFINE w == working[c]
           added == IF w.listed THEN Added(w.who, w.seen) ELSE {}
           dropped == IF w.listed THEN Dropped(w.who, w.seen) ELSE {}
<1>1. PICK known \in [dropped -> 1 .. MaxAssignments] :
        /\ \A v \in dropped : known[v] \in w.seen[v]
        /\ duties' = [duties EXCEPT ![w.t] = [v \in Operators |->
               CASE v \in added -> Append(duties[w.t][v], NewRow)
                 [] v \in dropped -> [duties[w.t][v] EXCEPT ![known[v]].there = FALSE]
                 [] OTHER -> duties[w.t][v]]]
    BY DEF CommitTask
<1>2. /\ w.t \in Tasks /\ w.listed \in BOOLEAN /\ w.who \in SUBSET Operators /\ w.op = "update"
      /\ w.seen \in [Operators -> SUBSET Nat]
    BY TurnFields DEF BoardTypes, CommitTask
<1>3. /\ added \subseteq Operators /\ dropped \subseteq Operators /\ added \cap dropped = {}
      /\ \A v \in dropped : known[v] \in Nat
    BY <1>1, <1>2 DEF Added, Dropped
<1>4. \A v \in Operators : duties[w.t][v] \in Seq(RowsOfTasks)
    BY <1>2 DEF BoardTypes
<1> DEFINE next(v) == CASE v \in added -> Append(duties[w.t][v], NewRow)
                        [] v \in dropped -> [duties[w.t][v] EXCEPT ![known[v]].there = FALSE]
                        [] OTHER -> duties[w.t][v]
<1>5. \A v \in Operators : next(v) \in Seq(RowsOfTasks)
    <2> TAKE v \in Operators
    <2>1. CASE v \in added
        BY <1>3, <1>4, <2>1, Grown
    <2>2. CASE v \in dropped
        BY <1>3, <1>4, <2>2, OneGone
    <2>3. CASE v \notin added /\ v \notin dropped
        BY <1>4, <2>3
    <2>4. QED
        BY <2>1, <2>2, <2>3
<1>6. /\ DOMAIN duties' = Tasks /\ \A s \in Tasks : s # w.t => duties'[s] = duties[s]
      /\ duties'[w.t] = [v \in Operators |-> next(v)]
      /\ duties' = [s \in Tasks |-> duties'[s]]
    BY <1>1, <1>2 DEF BoardTypes
<1>7. duties'[w.t] \in [Operators -> Seq(RowsOfTasks)]
    <2> HIDE DEF next
    <2> QED
        BY <1>5, <1>6
<1>8. duties' \in [Tasks -> [Operators -> Seq(RowsOfTasks)]]
    BY <1>6, <1>7 DEF BoardTypes
<1>9. CASE t # w.t
    BY <1>6, <1>8, <1>9 DEF NoWorse
<1>10. CASE t = w.t
    <2>1. /\ u \in added => duties'[t][u] = Append(duties[t][u], NewRow)
          /\ u \in dropped => duties'[t][u] = [duties[t][u] EXCEPT ![known[u]].there = FALSE]
          /\ u \notin added /\ u \notin dropped => duties'[t][u] = duties[t][u]
        BY <1>3, <1>6, <1>10
    <2>2. ASSUME ~Surpassed(c) PROVE w.seen[u] = Present(duties[t][u])
        BY <1>2, <1>10, <2>2 DEF Surpassed, Assignments, Assigned, Present
    <2>3. duties[t][u] \in Seq(RowsOfTasks)
        BY <1>4, <1>10
    <2> HIDE DEF w
    <2>4. ASSUME ~Surpassed(c), u \in added
          PROVE  NoWorse(duties[t][u], duties'[t][u]) /\ Present(duties'[t][u]) # {} /\ u \in w.who
        BY <2>1, <2>2, <2>3, <2>4, OneAdded DEF Added
    <2>5. ASSUME ~Surpassed(c), u \in dropped
          PROVE  /\ NoWorse(duties[t][u], duties'[t][u]) /\ Present(duties'[t][u]) = Present(duties[t][u]) \ {known[u]}
                 /\ u \notin w.who /\ known[u] \in Present(duties[t][u])
        <3>1. u \notin w.who /\ known[u] \in w.seen[u] /\ known[u] \in Nat
            BY <1>1, <1>3, <2>5 DEF Dropped, w
        <3>2. duties'[t][u] = [duties[t][u] EXCEPT ![known[u]].there = FALSE]
            BY <2>1, <2>5
        <3> HIDE DEF dropped
        <3>3. NoWorse(duties[t][u], duties'[t][u]) /\ Present(duties'[t][u]) = Present(duties[t][u]) \ {known[u]}
            BY <2>3, <3>1, <3>2, OneGone
        <3>4. QED
            BY <2>2, <2>5, <3>1, <3>3
    <2>6. ASSUME ~Surpassed(c), u \notin added, u \notin dropped
          PROVE  NoWorse(duties[t][u], duties'[t][u]) /\ (w.listed => (Present(duties'[t][u]) # {} <=> u \in w.who))
        BY <2>1, <2>2, <2>6 DEF NoWorse, Added, Dropped
    <2>7. ~Twice(t, u) => \A k, l \in Present(duties[t][u]) : k = l
        BY DEF Twice, Assigned, Present
    <2> HIDE DEF added, dropped
    <2>8. ~Surpassed(c) /\ w.listed /\ ~Twice(t, u) => (Present(duties'[t][u]) # {} <=> u \in w.who)
        BY <2>4, <2>5, <2>6, <2>7
    <2>9. QED
        BY <1>8, <2>4, <2>5, <2>6, <2>8 DEF w
<1>11. QED
    BY <1>9, <1>10

LEMMA MoveRows ==
    ASSUME BoardTypes, NEW c \in Desks, CommitMove(c), NEW t \in Tasks, NEW u \in Operators
    PROVE  /\ duties' \in [Tasks -> [Operators -> Seq(RowsOfTasks)]]
           /\ ~Surpassed(c) => NoWorse(duties[t][u], duties'[t][u])
<1> DEFINE w == working[c]
           changed(r) == [there |-> r.there, status |-> IF w.status # w.seen THEN w.status ELSE r.status,
                          last |-> w.status]
           list == [duties[w.t][w.u] EXCEPT ![w.k] = changed(@)]
<1>1. /\ w.op = "status" /\ w.t \in Tasks /\ w.u \in Operators /\ w.k \in Nat /\ w.status \in OperatorStatuses
      /\ w.seen \in TaskStatuses /\ w.status \in TaskStatuses
    BY TurnFields DEF BoardTypes, CommitMove, TaskStatuses
<1>2. duties[w.t][w.u] \in Seq(RowsOfTasks)
    BY <1>1 DEF BoardTypes
<1>3. duties' = [duties EXCEPT ![w.t][w.u] = list]
    BY <1>1, <1>2 DEF CommitMove, BoardTypes
<1>4. /\ list \in Seq(RowsOfTasks)
      /\ (w.k \in DOMAIN duties[w.t][w.u] => w.seen = duties[w.t][w.u][w.k].status) => NoWorse(duties[w.t][w.u], list)
    <2> DEFINE s == duties[w.t][w.u]
               n == w.k
               v == w.seen
               l == w.status
    <2>1. list = [s EXCEPT ![n] = [there |-> @.there, status |-> IF l # v THEN l ELSE @.status, last |-> l]]
        OBVIOUS
    <2>2. s \in Seq(RowsOfTasks) /\ n \in Nat /\ v \in TaskStatuses /\ l \in TaskStatuses
        BY <1>1, <1>2
    <2> HIDE DEF s, n, v, l, list
    <2>3. list \in Seq(RowsOfTasks) /\ ((n \in DOMAIN s => v = s[n].status) => NoWorse(s, list))
        BY <2>1, <2>2, OneStamped
    <2>4. QED
        BY <2>3 DEF s, n, v
<1>6. ~Surpassed(c) => w.k \in DOMAIN duties[w.t][w.u] /\ w.seen = duties[w.t][w.u][w.k].status
    BY <1>1 DEF Surpassed, Assigned
<1> HIDE DEF list
<1>7. /\ duties' \in [Tasks -> [Operators -> Seq(RowsOfTasks)]]
      /\ duties'[t][u] = IF t = w.t /\ u = w.u THEN list ELSE duties[t][u]
    BY <1>1, <1>3, <1>4 DEF BoardTypes
<1>8. QED
    BY <1>4, <1>6, <1>7 DEF NoWorse

LEMMA DeleteRows ==
    ASSUME BoardTypes, NEW c \in Desks, CommitDelete(c), NEW t \in Tasks, NEW u \in Operators
    PROVE  /\ duties' \in [Tasks -> [Operators -> Seq(RowsOfTasks)]]
           /\ NoWorse(duties[t][u], duties'[t][u])
<1> DEFINE w == working[c]
           list(v) == [k \in DOMAIN duties[w.t][v] |-> [duties[w.t][v][k] EXCEPT !.there = FALSE]]
<1>1. w.t \in Tasks
    BY TurnFields DEF BoardTypes, CommitDelete
<1>2. \A v \in Operators : duties[w.t][v] \in Seq(RowsOfTasks)
    BY <1>1 DEF BoardTypes
<1>3. \A v \in Operators : list(v) \in Seq(RowsOfTasks) /\ NoWorse(duties[w.t][v], list(v))
    BY <1>2, AllGone
<1>4. duties' = [duties EXCEPT ![w.t] = [v \in Operators |-> list(v)]]
    BY DEF CommitDelete
<1> HIDE DEF list
<1>5. duties' \in [Tasks -> [Operators -> Seq(RowsOfTasks)]]
    BY <1>1, <1>3, <1>4 DEF BoardTypes
<1>6. duties'[t][u] = IF t = w.t THEN list(u) ELSE duties[t][u]
    BY <1>1, <1>4 DEF BoardTypes
<1>7. QED
    BY <1>3, <1>5, <1>6 DEF NoWorse

LEMMA CreateRows ==
    ASSUME BoardTypes, NEW s \in Tasks, NEW who \in SUBSET Operators, CreateTask(s, who),
           NEW t \in Tasks, NEW u \in Operators
    PROVE  /\ duties' \in [Tasks -> [Operators -> Seq(RowsOfTasks)]]
           /\ NoWorse(duties[t][u], duties'[t][u])
<1>1. /\ duties' \in [Tasks -> [Operators -> Seq(RowsOfTasks)]]
      /\ duties'[t][u] = IF t = s THEN (IF u \in who THEN <<NewRow>> ELSE <<>>) ELSE duties[t][u]
    BY RowsAtStart DEF BoardTypes, CreateTask
<1>2. QED
    BY <1>1, RowsAtStart DEF NoWorse

-----------------------------------------------------------------------------
LEMMA BoardStart == TasksInit => BoardTypes
    BY RowsAtStart DEF TasksInit, BoardTypes, Turns

LEMMA AskedTurns ==
    ASSUME BoardTypes, NEW c \in Desks, NEW t \in Tasks
    PROVE  /\ \A edit, listed \in BOOLEAN, who \in SUBSET Operators :
                [op |-> "update", t |-> t, edit |-> edit, listed |-> listed, who |-> who, seen |-> Assignments(t)] \in Turns
           /\ [op |-> "delete", t |-> t, seen |-> Assignments(t), notes |-> notes[t]] \in Turns
           /\ [op |-> "archive", t |-> t, seen |-> task[t].archived] \in Turns
           /\ \A u \in Operators : \A k \in Assigned(t, u), said \in OperatorStatuses :
                [op |-> "status", t |-> t, u |-> u, k |-> k, status |-> said, seen |-> duties[t][u][k].status] \in Turns
<1>1. \A u \in Operators : duties[t][u] \in Seq(RowsOfTasks)
    BY DEF BoardTypes
<1>2. \A u \in Operators : \A k \in Assigned(t, u) : k \in Nat /\ duties[t][u][k] \in RowsOfTasks
    BY <1>1 DEF Assigned
<1>3. Assignments(t) \in [Operators -> SUBSET Nat]
    BY <1>2 DEF Assignments
<1>4. notes[t] \in Nat /\ task[t].archived \in BOOLEAN
    BY DEF BoardTypes
<1>5. \A u \in Operators : \A k \in Assigned(t, u) : k \in Nat /\ duties[t][u][k].status \in TaskStatuses
    BY <1>2 DEF RowsOfTasks
<1>6. QED
    BY <1>3, <1>4, <1>5 DEF Turns

LEMMA BoardKept == BoardTypes /\ [TasksNext]_taskVars => BoardTypes'
<1> SUFFICES ASSUME BoardTypes, [TasksNext]_taskVars PROVE BoardTypes'
    OBVIOUS
<1>1. CASE UNCHANGED taskVars
    BY <1>1 DEF BoardTypes, taskVars
<1>2. ASSUME NEW t \in Tasks, AddNote(t) PROVE BoardTypes'
    BY <1>2 DEF BoardTypes, AddNote
<1>3. ASSUME NEW t \in Tasks, NEW who \in SUBSET Operators, CreateTask(t, who) PROVE BoardTypes'
    <2>1. duties' \in [Tasks -> [Operators -> Seq(RowsOfTasks)]]
        <3>1. [u \in Operators |-> IF u \in who THEN <<NewRow>> ELSE <<>>] \in [Operators -> Seq(RowsOfTasks)]
            BY RowsAtStart
        <3>2. QED
            BY <1>3, <3>1 DEF BoardTypes, CreateTask
    <2>2. notes' \in [Tasks -> Nat] /\ working' = working
          /\ task' \in [Tasks -> [state : {"absent", "there", "deleted"}, archived : BOOLEAN]]
        <3>1. PICK n \in 0 .. MaxNotes : notes' = [notes EXCEPT ![t] = n]
            BY <1>3, Zenon DEF CreateTask
        <3>2. notes' \in [Tasks -> Nat]
            BY <3>1, TasksAssumption DEF BoardTypes
        <3>3. /\ task' = [task EXCEPT ![t].state = "there"] /\ working' = working
              /\ task[t] \in [state : {"absent", "there", "deleted"}, archived : BOOLEAN]
            BY <1>3 DEF BoardTypes, CreateTask
        <3>4. task' \in [Tasks -> [state : {"absent", "there", "deleted"}, archived : BOOLEAN]]
            BY <3>3 DEF BoardTypes
        <3>5. QED
            BY <3>2, <3>3, <3>4
    <2>3. QED
        BY <2>1, <2>2 DEF BoardTypes
<1>4. ASSUME NEW c \in Desks, NEW w \in Turns, Ask(c, w) PROVE BoardTypes'
    BY <1>4 DEF BoardTypes, Ask
<1>5. ASSUME NEW c \in Desks, NEW t \in Tasks, AskDelete(c, t) \/ AskArchive(c, t) PROVE BoardTypes'
    BY <1>4, <1>5, AskedTurns DEF AskDelete, AskArchive
<1>6. ASSUME NEW c \in Desks, NEW t \in Tasks, NEW edit \in BOOLEAN, NEW listed \in BOOLEAN,
             NEW who \in SUBSET Operators, AskUpdate(c, t, edit, listed, who) PROVE BoardTypes'
    BY <1>4, <1>6, AskedTurns DEF AskUpdate
<1>7. ASSUME NEW c \in Desks, NEW t \in Tasks, NEW u \in Operators, NEW said \in OperatorStatuses,
             NEW k \in Assigned(t, u), AskStatus(c, t, u, k, said) PROVE BoardTypes'
    BY <1>4, <1>7, AskedTurns DEF AskStatus
<1>8. ASSUME NEW c \in Desks, CommitTask(c) PROVE BoardTypes'
    <2>1. task' = task /\ notes' = notes /\ working' \in [Desks -> Turns \cup {NoTurn}]
        BY <1>8 DEF BoardTypes, CommitTask
    <2>2. duties' \in [Tasks -> [Operators -> Seq(RowsOfTasks)]]
        <3>1. working[c].t \in Tasks
            BY <1>8, TurnFields DEF BoardTypes, CommitTask
        <3>2. CASE Operators = {}
            BY <1>8, <3>1, <3>2 DEF BoardTypes, CommitTask
        <3>3. CASE Operators # {}
            BY <1>8, <3>1, <3>3, UpdateRows
        <3>4. QED
            BY <3>2, <3>3
    <2>3. QED
        BY <2>1, <2>2 DEF BoardTypes
<1>9. ASSUME NEW c \in Desks, CommitDelete(c) PROVE BoardTypes'
    <2>1. working[c].t \in Tasks
        BY <1>9, TurnFields DEF BoardTypes, CommitDelete
    <2>2. /\ notes' = notes /\ working' \in [Desks -> Turns \cup {NoTurn}]
          /\ task' \in [Tasks -> [state : {"absent", "there", "deleted"}, archived : BOOLEAN]]
        BY <1>9, <2>1 DEF BoardTypes, CommitDelete
    <2>3. duties' \in [Tasks -> [Operators -> Seq(RowsOfTasks)]]
        <3>1. CASE Operators = {}
            BY <1>9, <2>1, <3>1 DEF BoardTypes, CommitDelete
        <3>2. CASE Operators # {}
            BY <1>9, <2>1, <3>2, DeleteRows
        <3>3. QED
            BY <3>1, <3>2
    <2>4. QED
        BY <2>2, <2>3 DEF BoardTypes
<1>10. ASSUME NEW c \in Desks, CommitArchive(c) PROVE BoardTypes'
    <2>1. working[c].t \in Tasks /\ working[c].seen \in BOOLEAN
        BY <1>10, TurnFields DEF BoardTypes, CommitArchive
    <2>2. QED
        BY <1>10, <2>1 DEF BoardTypes, CommitArchive
<1>11. ASSUME NEW c \in Desks, CommitMove(c) PROVE BoardTypes'
    <2>1. working[c].t \in Tasks /\ working[c].u \in Operators
        BY <1>11, TurnFields DEF BoardTypes, CommitMove
    <2>2. task' = task /\ working' \in [Desks -> Turns \cup {NoTurn}] /\ notes' \in [Tasks -> Nat]
        BY <1>11, <2>1 DEF BoardTypes, CommitMove
    <2>3. duties' \in [Tasks -> [Operators -> Seq(RowsOfTasks)]]
        BY <1>11, <2>1, MoveRows
    <2>4. QED
        BY <2>2, <2>3 DEF BoardTypes
<1>12. ASSUME NEW c \in Desks, Fail(c) PROVE BoardTypes'
    BY <1>12 DEF BoardTypes, Fail
<1>13. ASSUME NEW c \in Desks, NEW t \in Tasks, AskUpdate(c, t, TRUE, FALSE, {}) PROVE BoardTypes'
    <2>1. TRUE \in BOOLEAN /\ FALSE \in BOOLEAN /\ {} \in SUBSET Operators
        OBVIOUS
    <2>2. QED
        BY <1>6, <1>13, <2>1, Zenon
<1>14. ASSUME NEW c \in Desks, NEW t \in Tasks, NEW edit \in BOOLEAN, NEW who \in SUBSET Operators,
              AskUpdate(c, t, edit, TRUE, who) PROVE BoardTypes'
    BY <1>6, <1>14
<1>15. QED
    BY <1>1, <1>2, <1>3, <1>5, <1>7, <1>8, <1>9, <1>10, <1>11, <1>12, <1>13, <1>14 DEF TasksNext

\* One step: only an overtaken request spoils a list, and every other does as it was told.
LEMMA TaskStep ==
    ASSUME BoardTypes, [TasksNext]_taskVars
    PROVE  \/ \E c \in Desks : working[c] # NoTurn /\ working'[c] = NoTurn /\ Surpassed(c)
           \/ /\ \A t \in Tasks, u \in Operators : NoWorse(duties[t][u], duties'[t][u])
              /\ \A c \in Desks, t \in Tasks, u \in Operators :
                   CommitTask(c) /\ working[c].listed /\ working[c].t = t /\ ~Twice(t, u) =>
                       (Present(duties'[t][u]) # {} <=> u \in working[c].who)
              /\ \A c \in Desks, t \in Tasks :
                   CommitArchive(c) /\ working[c].t = t => task'[t].archived # task[t].archived
<1> SUFFICES ASSUME \A c \in Desks : working[c] # NoTurn /\ working'[c] = NoTurn => ~Surpassed(c)
             PROVE  /\ \A t \in Tasks, u \in Operators : NoWorse(duties[t][u], duties'[t][u])
                    /\ \A c \in Desks, t \in Tasks, u \in Operators :
                         CommitTask(c) /\ working[c].listed /\ working[c].t = t /\ ~Twice(t, u) =>
                             (Present(duties'[t][u]) # {} <=> u \in working[c].who)
                    /\ \A c \in Desks, t \in Tasks :
                         CommitArchive(c) /\ working[c].t = t => task'[t].archived # task[t].archived
    OBVIOUS
<1>1. ASSUME NEW c \in Desks, CommitTask(c) \/ CommitArchive(c) \/ CommitMove(c) PROVE ~Surpassed(c)
    <2>1. working[c].op \in {"update", "archive", "status"} /\ working' = [working EXCEPT ![c] = NoTurn]
        <3>1. CASE CommitTask(c)
            BY <3>1 DEF CommitTask
        <3>2. CASE CommitArchive(c)
            BY <3>2 DEF CommitArchive
        <3>3. CASE CommitMove(c)
            BY <3>3 DEF CommitMove
        <3>4. QED
            BY <1>1, <3>1, <3>2, <3>3
    <2>2. working[c] # NoTurn
        BY <2>1 DEF NoTurn
    <2>3. working'[c] = NoTurn
        BY <2>1 DEF BoardTypes
    <2>4. QED
        BY <2>2, <2>3
<1>2. ASSUME NEW t \in Tasks, NEW u \in Operators PROVE NoWorse(duties[t][u], duties'[t][u])
    <2>1. ASSUME duties' = duties PROVE NoWorse(duties[t][u], duties'[t][u])
        BY <2>1 DEF NoWorse
    <2>2. ASSUME NEW c \in Desks, CommitTask(c) PROVE NoWorse(duties[t][u], duties'[t][u])
        BY <1>1, <1>2, <2>2, UpdateRows
    <2>3. ASSUME NEW c \in Desks, CommitDelete(c) PROVE NoWorse(duties[t][u], duties'[t][u])
        BY <1>2, <2>3, DeleteRows
    <2>4. ASSUME NEW c \in Desks, CommitMove(c) PROVE NoWorse(duties[t][u], duties'[t][u])
        BY <1>1, <1>2, <2>4, MoveRows
    <2>5. ASSUME NEW s \in Tasks, NEW who \in SUBSET Operators, CreateTask(s, who) PROVE NoWorse(duties[t][u], duties'[t][u])
        BY <1>2, <2>5, CreateRows
    <2>6. QED
        BY <2>1, <2>2, <2>3, <2>4, <2>5
        DEF TasksNext, taskVars, AddNote, Ask, AskDelete, AskArchive, AskUpdate, AskStatus, CommitArchive, Fail
<1>3. ASSUME NEW c \in Desks, NEW t \in Tasks, NEW u \in Operators,
             CommitTask(c), working[c].listed, working[c].t = t, ~Twice(t, u)
      PROVE  Present(duties'[t][u]) # {} <=> u \in working[c].who
    BY <1>1, <1>3, UpdateRows
<1>4. ASSUME NEW c \in Desks, NEW t \in Tasks, CommitArchive(c), working[c].t = t
      PROVE  task'[t].archived # task[t].archived
    <2>1. working[c].op = "archive" /\ working[c].seen = task[t].archived
        BY <1>1, <1>4 DEF CommitArchive, Surpassed
    <2>2. task[t].archived \in BOOLEAN /\ task'[t].archived = ~task[t].archived
        BY <1>4, <2>1 DEF CommitArchive, BoardTypes
    <2>3. QED
        BY <2>2
<1>5. QED
    BY <1>2, <1>3, <1>4

THEOREM MisassignedAlone == TasksSpec => OnlyOverlapsMisassign
<1>1. BoardTypes /\ [TasksNext]_taskVars =>
        [\/ \E c \in Desks : working[c] # NoTurn /\ working'[c] = NoTurn /\ Surpassed(c)
         \/ /\ \A t \in Tasks, u \in Operators : (Twice(t, u)' => Twice(t, u)) /\ (Mislogged(t, u)' => Mislogged(t, u))
            /\ \A c \in Desks, t \in Tasks, u \in Operators :
                 CommitTask(c) /\ working[c].listed /\ working[c].t = t /\ ~Twice(t, u) =>
                     (Assigned(t, u)' # {} <=> u \in working[c].who)
            /\ \A c \in Desks, t \in Tasks :
                 CommitArchive(c) /\ working[c].t = t => task'[t].archived # task[t].archived]_taskVars
    <2> SUFFICES ASSUME BoardTypes, [TasksNext]_taskVars, 
                        ~\E c \in Desks : working[c] # NoTurn /\ working'[c] = NoTurn /\ Surpassed(c)
                 PROVE  /\ \A t \in Tasks, u \in Operators :
                             (Twice(t, u)' => Twice(t, u)) /\ (Mislogged(t, u)' => Mislogged(t, u))
                        /\ \A c \in Desks, t \in Tasks, u \in Operators :
                             CommitTask(c) /\ working[c].listed /\ working[c].t = t /\ ~Twice(t, u) =>
                                 (Assigned(t, u)' # {} <=> u \in working[c].who)
                        /\ \A c \in Desks, t \in Tasks :
                             CommitArchive(c) /\ working[c].t = t => task'[t].archived # task[t].archived
        OBVIOUS
    <2>1. /\ \A t \in Tasks, u \in Operators : NoWorse(duties[t][u], duties'[t][u])
          /\ \A c \in Desks, t \in Tasks, u \in Operators :
               CommitTask(c) /\ working[c].listed /\ working[c].t = t /\ ~Twice(t, u) =>
                   (Present(duties'[t][u]) # {} <=> u \in working[c].who)
          /\ \A c \in Desks, t \in Tasks :
               CommitArchive(c) /\ working[c].t = t => task'[t].archived # task[t].archived
        BY TaskStep
    <2>2. ASSUME NEW t \in Tasks, NEW u \in Operators
          PROVE  (Twice(t, u)' => Twice(t, u)) /\ (Mislogged(t, u)' => Mislogged(t, u))
        BY <2>1 DEF NoWorse, Twice, Mislogged, Doubled, Muddled, Assigned, Present
    <2>3. \A t \in Tasks, u \in Operators : Assigned(t, u)' = Present(duties'[t][u])
        BY DEF Assigned, Present
    <2>4. QED
        BY <2>1, <2>2, <2>3
<1>2. QED
    BY <1>1, BoardStart, BoardKept, PTL DEF TasksSpec, OnlyOverlapsMisassign

-----------------------------------------------------------------------------
(* Brigades.                                                               *)

CrewRows == SUBSET (People \X {"brigadier", "worker"})
BrigadeRows == [there : BOOLEAN, active : BOOLEAN, chief : People \cup {Nobody}]
AssemblyRows == [state : {"waiting", "accepted", "started", "completed"}, brigade : Brigades \cup {NoBrigade},
                 by : People \cup {Nobody}]
EditRead == [chief : People \cup {Nobody}, member : [People -> Switches], posted : Switches]

\* A request under way.
Acts ==
    [op : {"edit"}, b : Brigades, chief : People, on : SUBSET People, wanted : BOOLEAN, seen : EditRead]
    \cup [op : {"accept"}, u : People, j : Assemblies, b : Brigades, seen : AssemblyRows]
    \cup [op : {"entry"}, u : People, j : Assemblies]
    \cup [op : {"complete"}, u : People, j : Assemblies, workers : SUBSET People, seen : Seq(CrewRows)]

CrewTypes ==
    /\ brigade \in [Brigades -> BrigadeRows]
    /\ member \in [Brigades -> [People -> Switches]]
    /\ posted \in [Brigades -> Switches]
    /\ employed \subseteq People
    /\ assembly \in [Assemblies -> AssemblyRows]
    /\ operations \in [Assemblies -> Seq(CrewRows)]
    /\ acting \in [Hands -> Acts \cup {NoAct}]

\* A job that a brigade takes on was nobody's, or its own.
Own(c) == acting[c].op = "accept" => acting[c].seen.brigade \in {NoBrigade, acting[c].b}

BrigadesInv == CrewTypes /\ \A c \in Hands : Own(c)

LEMMA ActFields ==
    ASSUME NEW a \in Acts \cup {NoAct}
    PROVE  /\ a.op = "edit" =>
                a.b \in Brigades /\ a.chief \in People /\ a.on \in SUBSET People /\ a.wanted \in BOOLEAN
                /\ a.seen \in EditRead
           /\ a.op = "accept" =>
                a.u \in People /\ a.j \in Assemblies /\ a.b \in Brigades /\ a.seen \in AssemblyRows
           /\ a.op = "entry" => a.u \in People /\ a.j \in Assemblies
           /\ a.op = "complete" =>
                a.u \in People /\ a.j \in Assemblies /\ a.workers \in SUBSET People /\ a.seen \in Seq(CrewRows)
           /\ a.op \in {"edit", "accept", "entry", "complete"} => a # NoAct
    BY DEF Acts, NoAct

LEMMA BrigadesStart == BrigadesInit => BrigadesInv
<1> SUFFICES ASSUME BrigadesInit PROVE BrigadesInv
    OBVIOUS
<1>1. brigade \in [Brigades -> BrigadeRows] /\ member \in [Brigades -> [People -> Switches]]
    BY DEF BrigadesInit, BrigadeRows, Switches
<1>2. posted \in [Brigades -> Switches] /\ employed \subseteq People
    BY DEF BrigadesInit, Switches
<1>3. assembly \in [Assemblies -> AssemblyRows] /\ operations \in [Assemblies -> Seq(CrewRows)]
    BY DEF BrigadesInit, AssemblyRows
<1>4. acting \in [Hands -> Acts \cup {NoAct}] /\ \A c \in Hands : acting[c].op = "none"
    BY DEF BrigadesInit, NoAct
<1>5. QED
    BY <1>1, <1>2, <1>3, <1>4 DEF BrigadesInv, CrewTypes, Own

\* A request that is sent.
LEMMA ActKeeps ==
    ASSUME BrigadesInv, NEW c \in Hands, NEW a \in Acts, Act(c, a),
           a.op = "accept" => a.seen.brigade \in {NoBrigade, a.b}
    PROVE  BrigadesInv'
<1>1. acting' = [acting EXCEPT ![c] = a]
    BY DEF Act
<1>2. CrewTypes'
    BY DEF Act, BrigadesInv, CrewTypes
<1>3. ASSUME NEW e \in Hands PROVE Own(e)'
    BY <1>1, <1>3 DEF BrigadesInv, CrewTypes, Own
<1>4. QED
    BY <1>2, <1>3 DEF BrigadesInv

\* A request that is done.
LEMMA DoneKeeps ==
    ASSUME BrigadesInv, NEW c \in Hands, acting' = [acting EXCEPT ![c] = NoAct]
    PROVE  /\ acting' \in [Hands -> Acts \cup {NoAct}] /\ \A e \in Hands : Own(e)'
           /\ acting'[c] = NoAct
<1>1. acting' \in [Hands -> Acts \cup {NoAct}] /\ acting'[c] = NoAct
    BY DEF BrigadesInv, CrewTypes
<1>2. ASSUME NEW e \in Hands PROVE Own(e)'
    BY <1>2 DEF BrigadesInv, CrewTypes, Own, NoAct
<1>3. QED
    BY <1>1, <1>2

\* What a step of the administrators leaves of the rows.
LEMMA SwitchedRow ==
    ASSUME NEW now \in Switches, NEW seen \in Switches, NEW wanted \in BOOLEAN
    PROVE  /\ Switched(now, seen, wanted) \in Switches
           /\ seen = now => (Switched(now, seen, wanted) = "on" <=> wanted)
    BY DEF Switched, Switch, Switches

LEMMA EditKeeps ==
    ASSUME BrigadesInv, NEW c \in Hands, CommitEdit(c)
    PROVE  /\ BrigadesInv'
           /\ ~Superseded(c) =>
                LET b == acting[c].b IN
                /\ brigade'[b].chief = acting[c].chief
                /\ \A u \in People : member'[b][u] = "on" <=> u \in acting[c].on
                /\ posted'[b] = "on" <=> acting[c].wanted
<1> DEFINE a == acting[c]
           b == a.b
<1>1. /\ a.op = "edit" /\ b \in Brigades /\ a.chief \in People /\ a.on \in SUBSET People /\ a.wanted \in BOOLEAN
      /\ a.seen \in EditRead
    BY ActFields DEF CommitEdit, BrigadesInv, CrewTypes
<1>2. /\ a.seen.member \in [People -> Switches] /\ a.seen.posted \in Switches
      /\ a.seen.chief \in People \cup {Nobody}
    BY <1>1 DEF EditRead
<1>3. /\ member[b] \in [People -> Switches] /\ posted[b] \in Switches /\ brigade[b] \in BrigadeRows
    BY <1>1 DEF BrigadesInv, CrewTypes
<1>4. /\ brigade' = [brigade EXCEPT ![b].chief = IF a.chief = a.seen.chief THEN @ ELSE a.chief]
      /\ member' = [member EXCEPT ![b] = [u \in People |-> Switched(member[b][u], a.seen.member[u], u \in a.on)]]
      /\ posted' = [posted EXCEPT ![b] = Switched(posted[b], a.seen.posted, a.wanted)]
      /\ acting' = [acting EXCEPT ![c] = NoAct]
      /\ employed' = employed /\ assembly' = assembly /\ operations' = operations
    BY DEF CommitEdit
<1>5. \A u \in People :
        /\ Switched(member[b][u], a.seen.member[u], u \in a.on) \in Switches
        /\ a.seen.member[u] = member[b][u] =>
             (Switched(member[b][u], a.seen.member[u], u \in a.on) = "on" <=> u \in a.on)
    <2> TAKE u \in People
    <2>1. member[b][u] \in Switches /\ a.seen.member[u] \in Switches /\ (u \in a.on) \in BOOLEAN
        BY <1>2, <1>3
    <2>2. QED
        BY <2>1, SwitchedRow
<1>6. /\ Switched(posted[b], a.seen.posted, a.wanted) \in Switches
      /\ a.seen.posted = posted[b] => (Switched(posted[b], a.seen.posted, a.wanted) = "on" <=> a.wanted)
    BY <1>1, <1>2, <1>3, SwitchedRow
<1>7. ~Superseded(c) => a.seen = [chief |-> brigade[b].chief, member |-> member[b], posted |-> posted[b]]
    BY <1>1 DEF Superseded
<1> DEFINE chief == IF a.chief = a.seen.chief THEN brigade[b].chief ELSE a.chief
           list == [u \in People |-> Switched(member[b][u], a.seen.member[u], u \in a.on)]
           sign == Switched(posted[b], a.seen.posted, a.wanted)
<1>8. chief \in People \cup {Nobody} /\ list \in [People -> Switches] /\ sign \in Switches
    BY <1>1, <1>3, <1>5, <1>6 DEF BrigadeRows
<1>9. /\ brigade' = [brigade EXCEPT ![b].chief = chief] /\ member' = [member EXCEPT ![b] = list]
      /\ posted' = [posted EXCEPT ![b] = sign]
    BY <1>4
<1>10. /\ a.seen.chief = brigade[b].chief => chief = a.chief
       /\ \A u \in People : a.seen.member[u] = member[b][u] => (list[u] = "on" <=> u \in a.on)
       /\ a.seen.posted = posted[b] => (sign = "on" <=> a.wanted)
    BY <1>5, <1>6
<1> HIDE DEF chief, list, sign
<1>11. brigade' \in [Brigades -> BrigadeRows] /\ brigade'[b].chief = chief
    BY <1>1, <1>3, <1>8, <1>9 DEF BrigadesInv, CrewTypes, BrigadeRows
<1>12. /\ member' \in [Brigades -> [People -> Switches]] /\ posted' \in [Brigades -> Switches]
       /\ member'[b] = list /\ posted'[b] = sign
    BY <1>1, <1>8, <1>9 DEF BrigadesInv, CrewTypes
<1>13. BrigadesInv'
    BY <1>4, <1>11, <1>12, DoneKeeps DEF BrigadesInv, CrewTypes
<1>14. ASSUME ~Superseded(c)
       PROVE  a.seen.chief = brigade[b].chief /\ a.seen.member = member[b] /\ a.seen.posted = posted[b]
    BY <1>7, <1>14
<1>15. QED
    BY <1>10, <1>11, <1>12, <1>13, <1>14

LEMMA AcceptKeeps ==
    ASSUME BrigadesInv, NEW c \in Hands, CommitAccept(c)
    PROVE  /\ BrigadesInv'
           /\ ~Superseded(c) => \A j \in Assemblies :
                /\ assembly[j].brigade \in {NoBrigade, assembly'[j].brigade}
                /\ assembly'[j].by # assembly[j].by => Leads(assembly'[j].by, assembly'[j].brigade)
           /\ \A j \in Assemblies : assembly'[j].state = "completed" => assembly[j].state = "completed"
<1> DEFINE a == acting[c]
           j == a.j
           next == [state   |-> IF assembly[j].state = "waiting" THEN "accepted" ELSE assembly[j].state,
                    brigade |-> IF a.b = a.seen.brigade THEN assembly[j].brigade ELSE a.b,
                    by      |-> IF a.u = a.seen.by THEN assembly[j].by ELSE a.u]
<1>1. /\ a.op = "accept" /\ a.u \in People /\ j \in Assemblies /\ a.b \in Brigades /\ a.seen \in AssemblyRows
      /\ a.seen.brigade \in {NoBrigade, a.b}
    BY ActFields DEF CommitAccept, BrigadesInv, CrewTypes, Own
<1>2. assembly[j] \in AssemblyRows
    BY <1>1 DEF BrigadesInv, CrewTypes
<1>3. /\ assembly' = [assembly EXCEPT ![j] = next] /\ acting' = [acting EXCEPT ![c] = NoAct]
      /\ UNCHANGED <<brigade, member, posted, employed, operations>>
    BY DEF CommitAccept
<1>4. /\ next \in AssemblyRows /\ (next.state = "completed" => assembly[j].state = "completed")
      /\ next.brigade = (IF a.b = a.seen.brigade THEN assembly[j].brigade ELSE a.b)
      /\ next.by = (IF a.u = a.seen.by THEN assembly[j].by ELSE a.u)
    BY <1>1, <1>2 DEF AssemblyRows
<1> HIDE DEF next
<1>5. /\ assembly' \in [Assemblies -> AssemblyRows]
      /\ \A i \in Assemblies : assembly'[i] = IF i = j THEN next ELSE assembly[i]
    BY <1>1, <1>3, <1>4 DEF BrigadesInv, CrewTypes
<1>6. BrigadesInv'
    BY <1>3, <1>5, DoneKeeps DEF BrigadesInv, CrewTypes
<1>7. ~Superseded(c) => a.seen = assembly[j] /\ Leads(a.u, a.b)
    BY <1>1 DEF Superseded
<1>8. ASSUME ~Superseded(c), NEW i \in Assemblies
      PROVE  /\ assembly[i].brigade \in {NoBrigade, assembly'[i].brigade}
             /\ assembly'[i].by # assembly[i].by => Leads(assembly'[i].by, assembly'[i].brigade)
    <2>1. CASE i # j
        BY <1>5, <1>8, <2>1
    <2>2. CASE i = j
        BY <1>1, <1>4, <1>5, <1>7, <1>8, <2>2
    <2>3. QED
        BY <2>1, <2>2
<1>9. QED
    BY <1>4, <1>5, <1>6, <1>8

\* Participants are only added by a completion, and those of its crew.
LEMMA CompleteKeeps ==
    ASSUME BrigadesInv, NEW c \in Hands, CommitComplete(c)
    PROVE  /\ BrigadesInv'
           /\ ~Superseded(c) => \A j \in Assemblies :
                /\ \A u \in People, n \in 1 .. MaxOperations :
                     /\ <<u, "brigadier">> \in Participants(j, n)' \ Participants(j, n) => u = assembly[j].by
                     /\ <<u, "worker">> \in Participants(j, n)' \ Participants(j, n) =>
                          OnPost(assembly[j].brigade) /\ Works(u, assembly[j].brigade)
                /\ Uncredited(j)' => Uncredited(j)
           /\ \A j \in Assemblies :
                assembly'[j].brigade = assembly[j].brigade /\ assembly'[j].by = assembly[j].by
<1> DEFINE a == acting[c]
           k == a.j
           now == operations[k]
           list == [n \in DOMAIN now |-> IF n \in DOMAIN a.seen THEN now[n] \cup Crew(a) ELSE now[n]]
<1>1. a.op = "complete" /\ a.u \in People /\ k \in Assemblies /\ a.workers \in SUBSET People /\ a.seen \in Seq(CrewRows)
    BY ActFields DEF CommitComplete, BrigadesInv, CrewTypes
<1>2. now \in Seq(CrewRows) /\ assembly[k] \in AssemblyRows
    BY <1>1 DEF BrigadesInv, CrewTypes
<1>3. /\ operations' = [operations EXCEPT ![k] = list]
      /\ assembly' = [assembly EXCEPT ![k].state = "completed"]
      /\ acting' = [acting EXCEPT ![c] = NoAct]
      /\ UNCHANGED <<brigade, member, posted, employed>>
    BY DEF CommitComplete
<1>4. /\ Crew(a) \in CrewRows /\ <<a.u, "brigadier">> \in Crew(a)
      /\ \A u \in People : <<u, "brigadier">> \in Crew(a) => u = a.u
      /\ \A u \in People : <<u, "worker">> \in Crew(a) => u \in a.workers
    BY <1>1 DEF Crew, CrewRows
<1>5. /\ DOMAIN list = DOMAIN now
      /\ \A n \in DOMAIN now : list[n] = IF n \in DOMAIN a.seen THEN now[n] \cup Crew(a) ELSE now[n]
    OBVIOUS
<1>6. DOMAIN now = 1 .. Len(now) /\ \A n \in DOMAIN now : now[n] \in CrewRows
    BY <1>2
<1>7. \A n \in DOMAIN now : list[n] \in CrewRows
    BY <1>4, <1>5, <1>6 DEF CrewRows
<1>8. list \in Seq(CrewRows)
    <2>1. list = [n \in 1 .. Len(now) |-> list[n]] /\ Len(now) \in Nat
        BY <1>2, <1>6
    <2>2. \A n \in 1 .. Len(now) : list[n] \in CrewRows
        BY <1>6, <1>7
    <2> HIDE DEF list
    <2>3. [n \in 1 .. Len(now) |-> list[n]] \in Seq(CrewRows)
        BY <2>1, <2>2
    <2>4. QED
        BY <2>1, <2>3
<1> HIDE DEF list
<1>9. /\ operations' \in [Assemblies -> Seq(CrewRows)]
      /\ \A j \in Assemblies : operations'[j] = IF j = k THEN list ELSE operations[j]
    BY <1>1, <1>3, <1>8 DEF BrigadesInv, CrewTypes
<1>10. /\ assembly' \in [Assemblies -> AssemblyRows]
       /\ \A j \in Assemblies : j # k => assembly'[j] = assembly[j]
       /\ \A j \in Assemblies : assembly'[j].brigade = assembly[j].brigade /\ assembly'[j].by = assembly[j].by
    BY <1>1, <1>2, <1>3 DEF BrigadesInv, CrewTypes, AssemblyRows
<1>11. BrigadesInv'
    BY <1>3, <1>9, <1>10, DoneKeeps DEF BrigadesInv, CrewTypes
<1>12. ~Superseded(c) => /\ a.seen = now /\ assembly[k].by = a.u
                         /\ OnPost(assembly[k].brigade) /\ \A w \in a.workers : Works(w, assembly[k].brigade)
    BY <1>1 DEF Superseded
<1>13. ASSUME ~Superseded(c), NEW j \in Assemblies, NEW u \in People, NEW n \in 1 .. MaxOperations
       PROVE  /\ <<u, "brigadier">> \in Participants(j, n)' \ Participants(j, n) => u = assembly[j].by
              /\ <<u, "worker">> \in Participants(j, n)' \ Participants(j, n) =>
                   OnPost(assembly[j].brigade) /\ Works(u, assembly[j].brigade)
    <2>1. Participants(j, n)' = IF n \in DOMAIN operations'[j] THEN operations'[j][n] ELSE {}
        BY DEF Participants
    <2>2. CASE j # k
        BY <1>9, <2>1, <2>2 DEF Participants
    <2>3. CASE j = k
        <3>1. Participants(j, n)' \ Participants(j, n) \subseteq Crew(a)
            BY <1>5, <1>9, <2>1, <2>3 DEF Participants
        <3>2. QED
            BY <1>4, <1>12, <1>13, <2>3, <3>1
    <2>4. QED
        BY <2>2, <2>3
<1>14. ASSUME ~Superseded(c), NEW j \in Assemblies PROVE Uncredited(j)' => Uncredited(j)
    <2>1. CASE j # k
        BY <1>9, <1>10, <2>1 DEF Uncredited
    <2>2. CASE j = k
        <3>1. \A n \in DOMAIN operations'[j] : operations'[j][n] # {}
            BY <1>4, <1>5, <1>9, <1>12, <1>14, <2>2
        <3>2. QED
            BY <3>1 DEF Uncredited
    <2>3. QED
        BY <2>1, <2>2
<1>15. QED
    BY <1>10, <1>11, <1>13, <1>14

\* An operation is recorded, for which nobody is credited yet.
LEMMA Logged ==
    ASSUME BrigadesInv, NEW k \in Assemblies, operations' = [operations EXCEPT ![k] = Append(@, {})]
    PROVE  /\ operations' \in [Assemblies -> Seq(CrewRows)]
           /\ \A j \in Assemblies, n \in 1 .. MaxOperations : Participants(j, n)' \subseteq Participants(j, n)
           /\ \A j \in Assemblies : j # k => operations'[j] = operations[j]
<1>1. operations[k] \in Seq(CrewRows) /\ {} \in CrewRows
    BY DEF BrigadesInv, CrewTypes, CrewRows
<1>2. /\ Append(operations[k], {}) \in Seq(CrewRows)
      /\ DOMAIN Append(operations[k], {}) = 1 .. Len(operations[k]) + 1 /\ DOMAIN operations[k] = 1 .. Len(operations[k])
      /\ \A n \in 1 .. Len(operations[k]) : Append(operations[k], {})[n] = operations[k][n]
      /\ Append(operations[k], {})[Len(operations[k]) + 1] = {}
    BY <1>1
<1>3. /\ operations' \in [Assemblies -> Seq(CrewRows)] /\ operations'[k] = Append(operations[k], {})
      /\ \A j \in Assemblies : j # k => operations'[j] = operations[j]
    BY <1>2 DEF BrigadesInv, CrewTypes
<1>4. ASSUME NEW j \in Assemblies, NEW n \in 1 .. MaxOperations PROVE Participants(j, n)' \subseteq Participants(j, n)
    <2>1. Participants(j, n)' = IF n \in DOMAIN operations'[j] THEN operations'[j][n] ELSE {}
        BY DEF Participants
    <2>2. CASE j # k
        BY <1>3, <2>1, <2>2 DEF Participants
    <2>3. CASE j = k
        BY <1>1, <1>2, <1>3, <2>1, <2>3 DEF Participants
    <2>4. QED
        BY <2>2, <2>3
<1>5. QED
    BY <1>3, <1>4

LEMMA EntryKeeps ==
    ASSUME BrigadesInv, NEW c \in Hands, CommitEntry(c)
    PROVE  /\ BrigadesInv' /\ assembly' = assembly
           /\ \A j \in Assemblies, n \in 1 .. MaxOperations : Participants(j, n)' \subseteq Participants(j, n)
           /\ ~Superseded(c) => \A j \in Assemblies : Uncredited(j)' => Uncredited(j)
<1>1. acting[c].op = "entry" /\ acting[c].j \in Assemblies
    BY ActFields DEF CommitEntry, BrigadesInv, CrewTypes
<1>2. /\ operations' = [operations EXCEPT ![acting[c].j] = Append(@, {})]
      /\ acting' = [acting EXCEPT ![c] = NoAct] /\ UNCHANGED <<brigade, member, posted, employed, assembly>>
    BY DEF CommitEntry
<1>3. BrigadesInv'
    BY <1>1, <1>2, DoneKeeps, Logged DEF BrigadesInv, CrewTypes
<1>4. ~Superseded(c) => assembly[acting[c].j].state = "started"
    BY <1>1 DEF Superseded
<1>5. ASSUME ~Superseded(c), NEW j \in Assemblies PROVE Uncredited(j)' => Uncredited(j)
    BY <1>1, <1>2, <1>4, <1>5, Logged DEF Uncredited
<1>6. QED
    BY <1>1, <1>2, <1>3, <1>5, Logged

LEMMA ReopenKeeps ==
    ASSUME BrigadesInv, NEW k \in Assemblies, ReopenAssembly(k)
    PROVE  /\ BrigadesInv'
           /\ \A j \in Assemblies : assembly'[j].brigade = assembly[j].brigade /\ assembly'[j].by = assembly[j].by
           /\ \A j \in Assemblies, n \in 1 .. MaxOperations : Participants(j, n)' \subseteq Participants(j, n)
           /\ \A j \in Assemblies : Uncredited(j)' => Uncredited(j)
<1>1. /\ operations' = [operations EXCEPT ![k] = Append(@, {})]
      /\ assembly' = [assembly EXCEPT ![k].state = "started"]
      /\ UNCHANGED <<brigade, member, posted, employed, acting>>
    BY DEF ReopenAssembly
<1>2. assembly[k] \in AssemblyRows
    BY DEF BrigadesInv, CrewTypes
<1>3. /\ assembly' \in [Assemblies -> AssemblyRows] /\ assembly'[k].state = "started"
      /\ \A j \in Assemblies : assembly'[j].brigade = assembly[j].brigade /\ assembly'[j].by = assembly[j].by
      /\ \A j \in Assemblies : j # k => assembly'[j] = assembly[j]
    BY <1>1, <1>2 DEF BrigadesInv, CrewTypes, AssemblyRows
<1>4. BrigadesInv'
    BY <1>1, <1>3, Logged DEF BrigadesInv, CrewTypes, Own
<1>5. ASSUME NEW j \in Assemblies PROVE Uncredited(j)' => Uncredited(j)
    BY <1>1, <1>3, <1>5, Logged DEF Uncredited
<1>6. QED
    BY <1>1, <1>3, <1>4, <1>5, Logged

LEMMA StartKeeps ==
    ASSUME BrigadesInv, NEW u \in People, NEW k \in Assemblies, StartAssembly(u, k)
    PROVE  /\ BrigadesInv' /\ operations' = operations
           /\ \A j \in Assemblies : assembly'[j].brigade = assembly[j].brigade /\ assembly'[j].by = assembly[j].by
           /\ \A j \in Assemblies : Uncredited(j)' => Uncredited(j)
<1>1. /\ assembly' = [assembly EXCEPT ![k].state = "started"]
      /\ UNCHANGED <<brigade, member, posted, employed, operations, acting>>
    BY DEF StartAssembly
<1>2. assembly[k] \in AssemblyRows
    BY DEF BrigadesInv, CrewTypes
<1>3. /\ assembly' \in [Assemblies -> AssemblyRows] /\ assembly'[k].state = "started"
      /\ \A j \in Assemblies : assembly'[j].brigade = assembly[j].brigade /\ assembly'[j].by = assembly[j].by
      /\ \A j \in Assemblies : j # k => assembly'[j] = assembly[j]
    BY <1>1, <1>2 DEF BrigadesInv, CrewTypes, AssemblyRows
<1>4. QED
    BY <1>1, <1>3 DEF BrigadesInv, CrewTypes, Own, Uncredited

\* Administrators leave the jobs alone.
LEMMA OfficeKeeps ==
    ASSUME BrigadesInv,
           \/ \E u \in People : Engage(u)
           \/ \E b \in Brigades : SetBrigadeStatus(b)
           \/ \E b \in Brigades, chief \in People, on \in SUBSET People, wanted \in BOOLEAN :
                CreateBrigade(b, chief, on, wanted)
    PROVE  BrigadesInv' /\ assembly' = assembly /\ operations' = operations
<1>1. ASSUME NEW u \in People, Engage(u) PROVE BrigadesInv' /\ assembly' = assembly /\ operations' = operations
    BY <1>1 DEF Engage, BrigadesInv, CrewTypes, Own
<1>2. ASSUME NEW b \in Brigades, SetBrigadeStatus(b)
      PROVE  BrigadesInv' /\ assembly' = assembly /\ operations' = operations
    <2>1. PICK active \in BOOLEAN : brigade' = [brigade EXCEPT ![b].active = active]
        BY <1>2 DEF SetBrigadeStatus
    <2>2. brigade' \in [Brigades -> BrigadeRows]
        BY <2>1 DEF BrigadesInv, CrewTypes, BrigadeRows
    <2>3. QED
        BY <1>2, <2>2 DEF SetBrigadeStatus, BrigadesInv, CrewTypes, Own
<1>3. ASSUME NEW b \in Brigades, NEW chief \in People, NEW on \in SUBSET People, NEW wanted \in BOOLEAN,
             CreateBrigade(b, chief, on, wanted)
      PROVE  BrigadesInv' /\ assembly' = assembly /\ operations' = operations
    <2> DEFINE first == [there |-> TRUE, active |-> TRUE, chief |-> chief]
               list == [u \in People |-> IF u \in on THEN "on" ELSE "none"]
               sign == IF wanted THEN "on" ELSE "none"
    <2>1. first \in BrigadeRows /\ list \in [People -> Switches] /\ sign \in Switches
        BY DEF BrigadeRows, Switches
    <2>2. /\ brigade' = [brigade EXCEPT ![b] = first] /\ member' = [member EXCEPT ![b] = list]
          /\ posted' = [posted EXCEPT ![b] = sign] /\ UNCHANGED <<employed, assembly, operations, acting>>
        BY <1>3 DEF CreateBrigade
    <2> HIDE DEF first, list, sign
    <2>3. QED
        BY <2>1, <2>2 DEF BrigadesInv, CrewTypes, Own
<1>4. QED
    BY <1>1, <1>2, <1>3

\* Requests are sent with what they have read.
LEMMA SentActs ==
    ASSUME BrigadesInv, NEW c \in Hands,
           \/ \E b \in Brigades, chief \in People, on \in SUBSET People, wanted \in BOOLEAN :
                OpenEdit(c, b, chief, on, wanted)
           \/ \E u \in People, j \in Assemblies, b \in Brigades : OpenAccept(c, u, j, b)
           \/ \E u \in People, j \in Assemblies : OpenEntry(c, u, j)
           \/ \E u \in People, j \in Assemblies, workers \in SUBSET People : OpenComplete(c, u, j, workers)
    PROVE  BrigadesInv' /\ assembly' = assembly /\ operations' = operations
<1>1. ASSUME NEW a \in Acts, Act(c, a), a.op = "accept" => a.seen.brigade \in {NoBrigade, a.b}
      PROVE  BrigadesInv' /\ assembly' = assembly /\ operations' = operations
    BY <1>1, ActKeeps DEF Act
<1>2. ASSUME NEW b \in Brigades, NEW chief \in People, NEW on \in SUBSET People, NEW wanted \in BOOLEAN,
             OpenEdit(c, b, chief, on, wanted)
      PROVE  BrigadesInv' /\ assembly' = assembly /\ operations' = operations
    <2> DEFINE seen == [chief |-> brigade[b].chief, member |-> member[b], posted |-> posted[b]]
               a == [op |-> "edit", b |-> b, chief |-> chief, on |-> on, wanted |-> wanted, seen |-> seen]
    <2>1. seen \in EditRead
        BY DEF BrigadesInv, CrewTypes, BrigadeRows, EditRead
    <2>2. Act(c, a)
        BY <1>2 DEF OpenEdit
    <2> HIDE DEF seen
    <2>3. a \in Acts /\ a.op = "edit"
        BY <2>1 DEF Acts
    <2>4. QED
        BY <1>1, <2>2, <2>3
<1>3. ASSUME NEW u \in People, NEW j \in Assemblies, NEW b \in Brigades, OpenAccept(c, u, j, b)
      PROVE  BrigadesInv' /\ assembly' = assembly /\ operations' = operations
    <2> DEFINE a == [op |-> "accept", u |-> u, j |-> j, b |-> b, seen |-> assembly[j]]
    <2>1. a \in Acts
        BY DEF BrigadesInv, CrewTypes, Acts
    <2>2. Act(c, a) /\ a.seen.brigade \in {NoBrigade, a.b}
        BY <1>3 DEF OpenAccept, Takeable
    <2>3. QED
        BY <1>1, <2>1, <2>2
<1>4. ASSUME NEW u \in People, NEW j \in Assemblies, OpenEntry(c, u, j)
      PROVE  BrigadesInv' /\ assembly' = assembly /\ operations' = operations
    <2> DEFINE a == [op |-> "entry", u |-> u, j |-> j]
    <2>1. a \in Acts /\ a.op = "entry" /\ Act(c, a)
        BY <1>4 DEF Acts, OpenEntry
    <2>2. QED
        BY <1>1, <2>1
<1>5. ASSUME NEW u \in People, NEW j \in Assemblies, NEW workers \in SUBSET People, OpenComplete(c, u, j, workers)
      PROVE  BrigadesInv' /\ assembly' = assembly /\ operations' = operations
    <2> DEFINE a == [op |-> "complete", u |-> u, j |-> j, workers |-> workers, seen |-> operations[j]]
    <2>1. a \in Acts /\ a.op = "complete"
        BY DEF BrigadesInv, CrewTypes, Acts
    <2>2. Act(c, a)
        BY <1>5 DEF OpenComplete
    <2>3. QED
        BY <1>1, <2>1, <2>2
<1>6. QED
    BY <1>2, <1>3, <1>4, <1>5

LEMMA BrigadesStep == BrigadesInv /\ [BrigadesNext]_brigadeVars => BrigadesInv'
<1> SUFFICES ASSUME BrigadesInv, [BrigadesNext]_brigadeVars PROVE BrigadesInv'
    OBVIOUS
<1>1. CASE UNCHANGED brigadeVars
    BY <1>1 DEF brigadeVars, BrigadesInv, CrewTypes, Own
<1>2. ASSUME NEW c \in Hands, Drop(c) PROVE BrigadesInv'
    BY <1>2, DoneKeeps DEF Drop, BrigadesInv, CrewTypes
<1>3. CASE BrigadesNext
    BY <1>2, <1>3, OfficeKeeps, SentActs, StartKeeps, ReopenKeeps, EditKeeps, AcceptKeeps, EntryKeeps, CompleteKeeps
    DEF BrigadesNext, Administration, AtTerminal
<1>4. QED
    BY <1>1, <1>3

\* What a step does to the jobs when it overtakes nobody: the jobs, their participants, the brigade.
HandsOver ==
    \A j \in Assemblies :
        /\ assembly[j].brigade \in {NoBrigade, assembly'[j].brigade}
        /\ assembly'[j].by # assembly[j].by => Leads(assembly'[j].by, assembly'[j].brigade)
CreditsCrew ==
    \A j \in Assemblies, u \in People, n \in 1 .. MaxOperations :
        /\ <<u, "brigadier">> \in Participants(j, n)' \ Participants(j, n) => u = assembly[j].by
        /\ <<u, "worker">> \in Participants(j, n)' \ Participants(j, n) =>
             OnPost(assembly[j].brigade) /\ Works(u, assembly[j].brigade)
CreditsAll == \A j \in Assemblies : Uncredited(j)' => Uncredited(j)

LEMMA IdleJobs ==
    ASSUME assembly' = assembly, operations' = operations
    PROVE  HandsOver /\ CreditsCrew /\ CreditsAll
    BY DEF HandsOver, CreditsCrew, CreditsAll, Participants, Uncredited

LEMMA KeptJobs ==
    ASSUME \A j \in Assemblies : assembly'[j].brigade = assembly[j].brigade /\ assembly'[j].by = assembly[j].by
    PROVE  HandsOver
    BY DEF HandsOver

LEMMA KeptParticipants ==
    ASSUME \A j \in Assemblies, n \in 1 .. MaxOperations : Participants(j, n)' \subseteq Participants(j, n)
    PROVE  CreditsCrew
    BY DEF CreditsCrew

\* An acceptance or a departure: no operation, and no job is completed by it.
LEMMA JobsMove ==
    ASSUME BrigadesInv, [BrigadesNext]_brigadeVars,
           \A c \in Hands : acting[c] # NoAct /\ acting'[c] = NoAct => ~Superseded(c)
    PROVE  HandsOver /\ CreditsCrew /\ CreditsAll
<1>1. CASE UNCHANGED brigadeVars
    BY <1>1, IdleJobs DEF brigadeVars
<1>2. ASSUME NEW c \in Hands, CommitAccept(c) \/ CommitEntry(c) \/ CommitComplete(c) PROVE ~Superseded(c)
    <2>1. acting' = [acting EXCEPT ![c] = NoAct] /\ acting[c].op \in {"accept", "entry", "complete"}
        BY <1>2 DEF CommitAccept, CommitEntry, CommitComplete
    <2>2. acting[c] # NoAct /\ acting'[c] = NoAct
        <3>1. acting[c] # NoAct
            BY <2>1 DEF NoAct
        <3>2. QED
            BY <2>1, <3>1, DoneKeeps
    <2>3. QED
        BY <2>2
<1>3. ASSUME NEW c \in Hands, CommitAccept(c) PROVE HandsOver /\ CreditsCrew /\ CreditsAll
    <2>1. operations' = operations
        BY <1>3 DEF CommitAccept
    <2>2. HandsOver
        BY <1>2, <1>3, AcceptKeeps DEF HandsOver
    <2>3. CreditsCrew
        BY <2>1 DEF CreditsCrew, Participants
    <2>4. CreditsAll
        BY <1>3, <2>1, AcceptKeeps DEF CreditsAll, Uncredited
    <2>5. QED
        BY <2>2, <2>3, <2>4
<1>4. ASSUME NEW c \in Hands, CommitEntry(c) PROVE HandsOver /\ CreditsCrew /\ CreditsAll
    BY <1>2, <1>4, EntryKeeps, KeptJobs, KeptParticipants DEF CreditsAll
<1>5. ASSUME NEW c \in Hands, CommitComplete(c) PROVE HandsOver /\ CreditsCrew /\ CreditsAll
    BY <1>2, <1>5, CompleteKeeps, KeptJobs DEF CreditsCrew, CreditsAll
<1>6. ASSUME NEW k \in Assemblies, ReopenAssembly(k) PROVE HandsOver /\ CreditsCrew /\ CreditsAll
    BY <1>6, ReopenKeeps, KeptJobs, KeptParticipants DEF CreditsAll
<1>7. ASSUME NEW u \in People, NEW k \in Assemblies, StartAssembly(u, k) PROVE HandsOver /\ CreditsCrew /\ CreditsAll
    <2>1. CreditsCrew
        BY <1>7, StartKeeps DEF CreditsCrew, Participants
    <2>2. QED
        BY <1>7, <2>1, StartKeeps, KeptJobs DEF CreditsAll
<1>8. ASSUME NEW c \in Hands, CommitEdit(c) \/ Drop(c) PROVE HandsOver /\ CreditsCrew /\ CreditsAll
    BY <1>8, IdleJobs DEF CommitEdit, Drop
<1>9. CASE BrigadesNext
    BY <1>3, <1>4, <1>5, <1>6, <1>7, <1>8, <1>9, OfficeKeeps, SentActs, IdleJobs
    DEF BrigadesNext, Administration, AtTerminal
<1>10. QED
    BY <1>1, <1>9

THEOREM MiscreditedAlone == BrigadesSpec => OnlyOverlapsMiscredit
<1>1. BrigadesInv /\ [BrigadesNext]_brigadeVars =>
        [\/ \E c \in Hands : acting[c] # NoAct /\ acting'[c] = NoAct /\ Superseded(c)
         \/ /\ \A j \in Assemblies : LET b == assembly'[j].brigade IN
                 /\ assembly[j].brigade \in {NoBrigade, b}
                 /\ assembly'[j].by # assembly[j].by => Leads(assembly'[j].by, b)
            /\ \A j \in Assemblies, u \in People, n \in 1 .. MaxOperations :
                 /\ <<u, "brigadier">> \in Participants(j, n)' \ Participants(j, n) => u = assembly[j].by
                 /\ <<u, "worker">> \in Participants(j, n)' \ Participants(j, n) =>
                      OnPost(assembly[j].brigade) /\ Works(u, assembly[j].brigade)
            /\ \A j \in Assemblies : Uncredited(j)' => Uncredited(j)
            /\ \A c \in Hands, b \in Brigades : CommitEdit(c) /\ acting[c].b = b =>
                 /\ brigade'[b].chief = acting[c].chief
                 /\ \A u \in People : member'[b][u] = "on" <=> u \in acting[c].on
                 /\ posted'[b] = "on" <=> acting[c].wanted]_brigadeVars
    <2> SUFFICES ASSUME BrigadesInv, [BrigadesNext]_brigadeVars,
                        ~\E c \in Hands : acting[c] # NoAct /\ acting'[c] = NoAct /\ Superseded(c)
                 PROVE  /\ HandsOver /\ CreditsCrew /\ CreditsAll
                        /\ \A c \in Hands, b \in Brigades : CommitEdit(c) /\ acting[c].b = b =>
                             /\ brigade'[b].chief = acting[c].chief
                             /\ \A u \in People : member'[b][u] = "on" <=> u \in acting[c].on
                             /\ posted'[b] = "on" <=> acting[c].wanted
        BY DEF HandsOver, CreditsCrew, CreditsAll
    <2>1. HandsOver /\ CreditsCrew /\ CreditsAll
        BY JobsMove
    <2>2. ASSUME NEW c \in Hands, CommitEdit(c) PROVE ~Superseded(c)
        <3>1. acting' = [acting EXCEPT ![c] = NoAct] /\ acting[c].op = "edit"
            BY <2>2 DEF CommitEdit
        <3>2. acting[c] # NoAct
            BY <3>1 DEF NoAct
        <3>3. acting'[c] = NoAct
            BY <3>1, DoneKeeps
        <3>4. QED
            BY <3>2, <3>3
    <2>3. QED
        BY <2>1, <2>2, EditKeeps
<1>2. QED
    BY <1>1, BrigadesStart, BrigadesStep, PTL DEF BrigadesSpec, OnlyOverlapsMiscredit
==============================================================================
