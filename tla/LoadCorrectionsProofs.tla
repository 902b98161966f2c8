----------------------- MODULE LoadCorrectionsProofs -------------------------
(***************************************************************************)
(* Theorems of LoadCorrections, for any number of trips and packages: a    *)
(* loaded trip has nothing left to load, and nothing touches the cargo of  *)
(* a departed one; the loading plan names only cargo of its trip, and no   *)
(* trip is loaded or departs without the evidence that its policy          *)
(* requires; the trips and the warehouse agree where each package is,      *)
(* until a reload breaks that; and the orders are told what the trips      *)
(* carried and brought.                                                    *)
(***************************************************************************)
EXTENDS LoadCorrections, AmountProofs

\* A correction is the lifecycle's correction of one trip.
LEMMA CorrectionRefines ==
    ASSUME NEW t \in Trips, Correction(t) PROVE L!TripStep(t)
<1>1. \E s \in L!PreDispatch : L!CorrectLoading(t, s)
    BY DEF Correction, UnloadPackage, ReturnToWarehouse, ReloadPackage, TransferPackage, ReplacePackage,
           L!CorrectLoading
<1>2. QED
    BY <1>1 DEF L!TripStep

\* A command on cargo is the lifecycle's command of the same name, or leaves trips alone.
LEMMA ExecutionRefines ==
    ASSUME NEW t \in Trips, Execution(t) PROVE L!TripStep(t) \/ UNCHANGED L!vars
<1> USE DEF L!TripStep
<1>1. CASE Command(t)
    BY <1>1 DEF Command
<1>2. ASSUME NEW v \in Vehicles, NEW d \in Drivers \cup {None}, NEW S \in SUBSET Packages,
             CreateConsolidatedTrip(t, v, d, S)
      PROVE  L!TripStep(t)
    BY <1>2 DEF CreateConsolidatedTrip
<1>3. ASSUME NEW p \in Packages, AssignPlacement(t, p) \/ RemoveAssignment(t, p)
      PROVE  UNCHANGED L!vars
    BY <1>3 DEF AssignPlacement, RemoveAssignment, lifecycle, L!vars
<1>4. ASSUME NEW S \in SUBSET Active(t), SavePlan(t, S) PROVE UNCHANGED L!vars
    BY <1>4 DEF SavePlan, lifecycle, L!vars
<1>5. ASSUME NEW stage \in Stages, SaveTripEvidence(t, stage) PROVE UNCHANGED L!vars
    BY <1>5 DEF SaveTripEvidence, lifecycle, L!vars
<1>6. CASE ConfirmLoading(t) \/ FinalDispatch(t)
    BY <1>6 DEF ConfirmLoading, FinalDispatch
<1>7. ASSUME NEW S \in SUBSET Active(t), NEW d \in [S -> Dispositions], RecordDelivery(t, S, d)
      PROVE  L!TripStep(t)
    <2> DEFINE complete == \A p \in Active(t) : item'[t][p].delivered >= Loaded(item[t][p])
    <2>1. L!RecordDelivery(t, complete) /\ complete \in BOOLEAN
        BY <1>7 DEF RecordDelivery
    <2>2. QED
        BY <2>1
<1>8. ASSUME NEW S \in SUBSET Active(t), NEW r \in [S -> BOOLEAN], AcceptDelivery(t, S, r)
      PROVE  L!TripStep(t)
    <2> DEFINE complete == \A p \in Active(t) : item'[t][p].signed
    <2>1. L!AcceptDelivery(t, complete)
        BY <1>8 DEF AcceptDelivery
    <2>2. QED
        BY <2>1
<1>9. QED
    BY <1>1, <1>2, <1>3, <1>4, <1>5, <1>6, <1>7, <1>8 DEF Execution

LEMMA StepRefines == [Next]_vars => [L!Next]_L!vars
<1> SUFFICES ASSUME [Next]_vars PROVE [L!Next]_L!vars
    OBVIOUS
<1>1. CASE Fleet
    BY <1>1 DEF Fleet, L!Next
<1>2. CASE UNCHANGED vars
    BY <1>2 DEF vars, lifecycle, L!vars
<1>3. QED
    BY <1>1, <1>2, CorrectionRefines, ExecutionRefines DEF Next, L!Next

-----------------------------------------------------------------------------
(* The cargo of a trip.  CargoInv is inductive: the types of the rows that *)
(* the commands update, and the invariant.                                 *)

RowsTyped ==
    /\ status \in [Trips -> L!Statuses \cup {"none"}]
    /\ item \in [Trips -> [Packages -> Item]]
    /\ plan \in [Trips -> SUBSET Packages]

CargoInv == RowsTyped /\ LoadedTripFullyLoaded

LEMMA StatusTyped ==
    ASSUME status \in [Trips -> L!Statuses \cup {"none"}], [Next]_vars
    PROVE  status' \in [Trips -> L!Statuses \cup {"none"}]
<1>1. [L!Next]_L!vars
    BY StepRefines
<1> USE DEF L!SetStatus, L!Statuses
<1>2. ASSUME NEW t \in Trips, L!TripStep(t) PROVE status' \in [Trips -> L!Statuses \cup {"none"}]
    BY <1>2 DEF L!TripStep, L!CreateTrip, L!Created, L!UpdateAssignment, L!Assigned, L!TransitionTrip,
                L!Transitioned, L!ConfirmLoading, L!CorrectLoading, L!PreDispatch, L!FinalDispatch,
                L!GpsInTransit, L!ConfirmArrival, L!RecordDelivery, L!AcceptDelivery
<1>3. ASSUME NEW v \in Vehicles, L!VehicleStep(v) PROVE UNCHANGED status
    BY <1>3 DEF L!VehicleStep, L!UpdateVehicleState, L!UpdateVehicle
<1>4. QED
    BY <1>1, <1>2, <1>3 DEF L!Next, L!vars

\* An update of some columns of a row leaves the others.
LEMMA StatusUpdate ==
    ASSUME NEW r \in Item, NEW s \in ItemStatuses
    PROVE  /\ [r EXCEPT !.status = s] \in Item /\ [r EXCEPT !.status = s].status = s
           /\ [r EXCEPT !.status = s].delivered = r.delivered
           /\ [r EXCEPT !.status = s].accepted = r.accepted
BY DEF Item

LEMMA DeliveryUpdate ==
    ASSUME NEW r \in Item, NEW n \in 0 .. Qty, NEW m \in 0 .. Qty
    PROVE  /\ [r EXCEPT !.delivered = n, !.accepted = m] \in Item
           /\ [r EXCEPT !.delivered = n, !.accepted = m].status = r.status
BY DEF Item

LEMMA DeliveryUpdated ==
    ASSUME NEW r \in Item, NEW n, NEW m
    PROVE  /\ [r EXCEPT !.delivered = n, !.accepted = m].delivered = n
           /\ [r EXCEPT !.delivered = n, !.accepted = m].accepted = m
           /\ [r EXCEPT !.delivered = n, !.accepted = m].signed = r.signed
           /\ [r EXCEPT !.delivered = n, !.accepted = m].resolved = r.resolved
BY DEF Item

LEMMA AcceptanceUpdate ==
    ASSUME NEW r \in Item, NEW b \in BOOLEAN
    PROVE  /\ [r EXCEPT !.signed = TRUE, !.resolved = b] \in Item
           /\ [r EXCEPT !.signed = TRUE, !.resolved = b].status = r.status
           /\ [r EXCEPT !.signed = TRUE, !.resolved = b].delivered = r.delivered
           /\ [r EXCEPT !.signed = TRUE, !.resolved = b].accepted = r.accepted
BY DEF Item

LEMMA NoItemTyped == NoItem \in Item /\ NoItem.status = "none" /\ NoItem.delivered = 0 /\ NoItem.accepted = 0
BY ShipmentAssumption DEF Item, NoItem, ItemStatuses, ActiveStatuses

\* The row of one trip and package gets a status.
LEMMA SetItemEffect ==
    ASSUME RowsTyped, NEW t \in Trips, NEW p \in Packages, NEW s \in ItemStatuses, SetItem(t, p, s)
    PROVE  /\ item' \in [Trips -> [Packages -> Item]]
           /\ item'[t][p].status = s
           /\ item'[t][p].delivered = item[t][p].delivered /\ item'[t][p].accepted = item[t][p].accepted
           /\ \A x \in Trips, q \in Packages : x # t \/ q # p => item'[x][q] = item[x][q]
<1> DEFINE r == [item[t][p] EXCEPT !.status = s]
<1>1. r \in Item /\ r.status = s /\ r.delivered = item[t][p].delivered /\ r.accepted = item[t][p].accepted
    BY StatusUpdate DEF RowsTyped
<1>2. item' = [item EXCEPT ![t] = [item[t] EXCEPT ![p] = r]]
    BY DEF SetItem
<1> HIDE DEF r
<1>3. QED
    BY <1>1, <1>2 DEF RowsTyped

\* The statuses of two rows change, and what that means for all the rows.
SetTwo(t, p, s, u, q, s2) == item' = [item EXCEPT ![t][p].status = s, ![u][q].status = s2]
TwoRows(t, p, s, u, q, s2) ==
    /\ item' \in [Trips -> [Packages -> Item]]
    /\ item'[t][p].status = s /\ item'[u][q].status = s2
    /\ item'[t][p].delivered = item[t][p].delivered /\ item'[t][p].accepted = item[t][p].accepted
    /\ item'[u][q].delivered = item[u][q].delivered /\ item'[u][q].accepted = item[u][q].accepted
    /\ \A x \in Trips, y \in Packages :
         ~(x = t /\ y = p) /\ ~(x = u /\ y = q) => item'[x][y] = item[x][y]

LEMMA SetTwoEffect ==
    ASSUME RowsTyped, NEW t \in Trips, NEW u \in Trips, NEW p \in Packages, NEW q \in Packages,
           t # u \/ p # q, NEW s \in ItemStatuses, NEW s2 \in ItemStatuses, SetTwo(t, p, s, u, q, s2)
    PROVE  TwoRows(t, p, s, u, q, s2)
<1>0. item' = [item EXCEPT ![t][p].status = s, ![u][q].status = s2]
    BY DEF SetTwo
<1> DEFINE mid == [item EXCEPT ![t] = [item[t] EXCEPT ![p] = [item[t][p] EXCEPT !.status = s]]]
<1> DEFINE r == [item[t][p] EXCEPT !.status = s]
<1>1. r \in Item /\ r.status = s /\ r.delivered = item[t][p].delivered /\ r.accepted = item[t][p].accepted
    BY StatusUpdate DEF RowsTyped
<1>2. /\ mid \in [Trips -> [Packages -> Item]] /\ mid[t][p].status = s
      /\ mid[t][p].delivered = item[t][p].delivered /\ mid[t][p].accepted = item[t][p].accepted
      /\ \A x \in Trips, y \in Packages : x # t \/ y # p => mid[x][y] = item[x][y]
    <2>1. mid = [item EXCEPT ![t] = [item[t] EXCEPT ![p] = r]]
        OBVIOUS
    <2> HIDE DEF r, mid
    <2>2. QED
        BY <1>1, <2>1 DEF RowsTyped
<1>3. item' = [mid EXCEPT ![u] = [mid[u] EXCEPT ![q] = [mid[u][q] EXCEPT !.status = s2]]]
    BY <1>0
<1> HIDE DEF mid, r
<1> DEFINE r2 == [mid[u][q] EXCEPT !.status = s2]
<1>4. r2 \in Item /\ r2.status = s2 /\ r2.delivered = item[u][q].delivered /\ r2.accepted = item[u][q].accepted
    BY <1>2, StatusUpdate
<1>5. item' = [mid EXCEPT ![u] = [mid[u] EXCEPT ![q] = r2]]
    BY <1>3
<1> HIDE DEF r2
<1> DEFINE row == [mid[u] EXCEPT ![q] = r2]
<1>6. row \in [Packages -> Item] /\ row[q] = r2 /\ \A y \in Packages \ {q} : row[y] = mid[u][y]
    BY <1>2, <1>4
<1>7. item' = [mid EXCEPT ![u] = row]
    BY <1>5
<1> HIDE DEF row
<1>8. /\ item' \in [Trips -> [Packages -> Item]] /\ item'[u] = row
      /\ \A x \in Trips \ {u} : item'[x] = mid[x]
    BY <1>2, <1>6, <1>7
<1>9. ASSUME NEW x \in Trips, NEW y \in Packages, ~(x = u /\ y = q)
      PROVE  item'[x][y] = mid[x][y]
    <2>1. CASE x = u
        BY <1>6, <1>8, <1>9, <2>1
    <2>2. CASE x # u
        BY <1>8, <2>2
    <2>3. QED
        BY <2>1, <2>2
<1>10. /\ item'[u][q].status = s2
       /\ item'[u][q].delivered = item[u][q].delivered /\ item'[u][q].accepted = item[u][q].accepted
    BY <1>4, <1>6, <1>8
<1>11. /\ item'[t][p].status = s
       /\ item'[t][p].delivered = item[t][p].delivered /\ item'[t][p].accepted = item[t][p].accepted
    BY <1>2, <1>9
<1>12. ASSUME NEW x \in Trips, NEW y \in Packages, ~(x = t /\ y = p), ~(x = u /\ y = q)
       PROVE  item'[x][y] = item[x][y]
    <2>1. item'[x][y] = mid[x][y]
        BY <1>9, <1>12
    <2>2. mid[x][y] = item[x][y]
        BY <1>2, <1>12
    <2>3. QED
        BY <2>1, <2>2
<1>13. QED
    BY <1>8, <1>10, <1>11, <1>12 DEF TwoRows

\* All rows of one trip.
LEMMA RowEffect ==
    ASSUME RowsTyped, NEW t \in Trips, NEW row \in [Packages -> Item], item' = [item EXCEPT ![t] = row]
    PROVE  /\ item' \in [Trips -> [Packages -> Item]]
           /\ item'[t] = row
           /\ \A x \in Trips \ {t} : item'[x] = item[x]
BY DEF RowsTyped

-----------------------------------------------------------------------------
(* One step: the rows stay typed, a loaded trip has nothing left to load,  *)
(* and the cargo of a departed trip stays what it is.                      *)

FrozenStep ==
    \A t \in Trips : status[t] \in L!Departed =>
        /\ plan'[t] = plan[t]
        /\ \A p \in Packages : item'[t][p].status = item[t][p].status

CargoStep ==
    /\ item' \in [Trips -> [Packages -> Item]]
    /\ plan' \in [Trips -> SUBSET Packages]
    /\ LoadedTripFullyLoaded'
    /\ FrozenStep

\* Commands of the lifecycle: none of them reaches loaded, and none departs.
LEMMA CommandStep ==
    ASSUME CargoInv, NEW t \in Trips, Command(t) PROVE CargoStep
<1> USE DEF CargoInv, RowsTyped, LoadedTripFullyLoaded, L!SetStatus, L!Departed
<1>1. UNCHANGED <<item, plan>>
    BY DEF Command, cargo
<1>2. ASSUME NEW target \in L!Statuses, L!TransitionTrip(t, target)
      PROVE  status'[t] \in {"loaded"} \cup L!Departed => status[t] \in L!Departed
    BY <1>2, Zenon DEF L!TransitionTrip, L!CanTransition, L!Transitioned, L!Transitions, L!ManagedTargets
<1>3. \A x \in Trips : status'[x] \in {"loaded"} \cup L!Departed => status[x] \in {"loaded"} \cup L!Departed
    BY <1>2 DEF Command, L!CreateTrip, L!Created, L!UpdateAssignment, L!Assigned, L!TransitionTrip,
                L!Transitioned, L!GpsInTransit, L!ConfirmArrival
<1>4. QED
    BY <1>1, <1>3 DEF CargoStep, FrozenStep

LEMMA AssignStep ==
    ASSUME CargoInv, NEW t \in Trips, NEW p \in Packages, AssignPlacement(t, p) PROVE CargoStep
<1>1. status[t] \in {"draft", "planned", "loading"} /\ SetItem(t, p, "assigned") /\ UNCHANGED <<status, plan>>
    BY DEF AssignPlacement, lifecycle
<1>2. RowsTyped /\ "assigned" \in ItemStatuses
    BY DEF CargoInv, ItemStatuses, ActiveStatuses
<1>3. /\ item' \in [Trips -> [Packages -> Item]]
      /\ \A x \in Trips \ {t}, q \in Packages : item'[x][q] = item[x][q]
    BY <1>1, <1>2, SetItemEffect
<1>4. QED
    BY <1>1, <1>3 DEF CargoInv, RowsTyped, LoadedTripFullyLoaded, CargoStep, FrozenStep, L!Departed

LEMMA CreateConsolidatedStep ==
    ASSUME CargoInv, NEW t \in Trips, NEW v \in Vehicles, NEW d \in Drivers \cup {None},
           NEW S \in SUBSET Packages, CreateConsolidatedTrip(t, v, d, S)
    PROVE  CargoStep
<1> DEFINE row == [p \in Packages |-> IF p \in S THEN [item[t][p] EXCEPT !.status = "assigned"] ELSE item[t][p]]
<1>1. RowsTyped /\ "assigned" \in ItemStatuses
    BY DEF CargoInv, ItemStatuses, ActiveStatuses
<1>2. row \in [Packages -> Item]
    BY <1>1, StatusUpdate DEF RowsTyped
<1>3. item' = [item EXCEPT ![t] = row]
    BY DEF CreateConsolidatedTrip
<1>4. /\ status[t] = "none" /\ status' = [status EXCEPT ![t] = "planned"]
      /\ UNCHANGED plan
    BY DEF CreateConsolidatedTrip, L!CreateTrip, L!CanCreate, L!Created, L!SetStatus
<1> HIDE DEF row
<1>5. QED
    BY <1>1, <1>2, <1>3, <1>4, RowEffect
    DEF CargoInv, RowsTyped, LoadedTripFullyLoaded, CargoStep, FrozenStep, L!Departed

LEMMA RemoveStep ==
    ASSUME CargoInv, NEW t \in Trips, NEW p \in Packages, RemoveAssignment(t, p) PROVE CargoStep
<1> DEFINE row == [item[t] EXCEPT ![p] = NoItem]
<1>1. row \in [Packages -> Item] /\ item' = [item EXCEPT ![t] = row]
    BY NoItemTyped DEF CargoInv, RowsTyped, RemoveAssignment
<1>2. /\ status[t] \in {"draft", "planned"} /\ UNCHANGED status
      /\ plan' = [plan EXCEPT ![t] = @ \ {p}]
    BY DEF RemoveAssignment, lifecycle
<1> HIDE DEF row
<1>3. QED
    BY <1>1, <1>2, RowEffect
    DEF CargoInv, RowsTyped, LoadedTripFullyLoaded, CargoStep, FrozenStep, L!Departed

\* Saving a plan or evidence moves no cargo.
LEMMA PaperStep ==
    ASSUME CargoInv, NEW t \in Trips,
           \/ \E S \in SUBSET Active(t) : SavePlan(t, S)
           \/ \E stage \in Stages : SaveTripEvidence(t, stage)
    PROVE  CargoStep
<1>1. UNCHANGED <<status, item>>
    BY DEF SavePlan, SaveTripEvidence, lifecycle
<1>2. plan' \in [Trips -> SUBSET Packages]
      /\ \A x \in Trips : status[x] \in L!Departed => plan'[x] = plan[x]
    BY DEF CargoInv, RowsTyped, SavePlan, SaveTripEvidence, Active, L!Departed
<1>3. QED
    BY <1>1, <1>2 DEF CargoInv, RowsTyped, LoadedTripFullyLoaded, CargoStep, FrozenStep

LEMMA ConfirmStep ==
    ASSUME CargoInv, NEW t \in Trips, ConfirmLoading(t) PROVE CargoStep
<1> DEFINE new == {p \in Active(t) : item[t][p].status = "assigned"}
<1> DEFINE row == [p \in Packages |-> IF p \in new THEN [item[t][p] EXCEPT !.status = "loaded"] ELSE item[t][p]]
<1>1. RowsTyped /\ "loaded" \in ItemStatuses
    BY DEF CargoInv, ItemStatuses, ActiveStatuses
<1>2. row \in [Packages -> Item] /\ \A p \in Packages : row[p].status # "assigned"
    BY <1>1, StatusUpdate DEF RowsTyped, Active, ActiveStatuses
<1>3. item' = [item EXCEPT ![t] = row]
    BY DEF ConfirmLoading
<1>4. status[t] = "loading" /\ status' = [status EXCEPT ![t] = "loaded"] /\ UNCHANGED plan
    BY DEF ConfirmLoading, L!ConfirmLoading, L!SetStatus
<1> HIDE DEF row, new
<1>5. QED
    BY <1>1, <1>2, <1>3, <1>4, RowEffect
    DEF CargoInv, RowsTyped, LoadedTripFullyLoaded, CargoStep, FrozenStep, L!Departed

LEMMA DispatchStep ==
    ASSUME CargoInv, NEW t \in Trips, FinalDispatch(t) PROVE CargoStep
<1>1. status[t] = "loaded" /\ status' = [status EXCEPT ![t] = "dispatched"] /\ UNCHANGED <<item, plan>>
    BY DEF FinalDispatch, L!FinalDispatch, L!CanDispatch, L!SetStatus
<1>2. QED
    BY <1>1 DEF CargoInv, RowsTyped, LoadedTripFullyLoaded, CargoStep, FrozenStep

LEMMA DeliveryStep ==
    ASSUME CargoInv, NEW t \in Trips, NEW S \in SUBSET Active(t), NEW d \in [S -> Dispositions],
           RecordDelivery(t, S, d)
    PROVE  CargoStep
<1> DEFINE row == [p \in Packages |-> IF p \in S
            THEN [item[t][p] EXCEPT !.delivered = d[p].delivered, !.accepted = d[p].accepted] ELSE item[t][p]]
<1> DEFINE complete == \A p \in Active(t) : item'[t][p].delivered >= Loaded(item[t][p])
<1>1. row \in [Packages -> Item] /\ \A p \in Packages : row[p].status = item[t][p].status
    <2>1. ASSUME NEW p \in S
          PROVE  d[p].delivered \in 0 .. Qty /\ d[p].accepted \in 0 .. Qty /\ item[t][p] \in Item
        BY DEF CargoInv, RowsTyped, Dispositions, Active
    <2>2. ASSUME NEW p \in S
          PROVE  /\ [item[t][p] EXCEPT !.delivered = d[p].delivered, !.accepted = d[p].accepted] \in Item
                 /\ [item[t][p] EXCEPT !.delivered = d[p].delivered, !.accepted = d[p].accepted].status
                      = item[t][p].status
        BY <2>1, DeliveryUpdate, Zenon
    <2>3. ASSUME NEW p \in Packages PROVE row[p] \in Item /\ row[p].status = item[t][p].status
        <3>1. CASE p \in S
            BY <2>2, <3>1, Zenon
        <3>2. CASE p \notin S
            BY <3>2 DEF CargoInv, RowsTyped
        <3>3. QED
            BY <3>1, <3>2
    <2> HIDE DEF row
    <2>4. QED
        BY <2>3, Zenon DEF row
<1>2. item' = [item EXCEPT ![t] = row]
    BY DEF RecordDelivery
<1>3. L!RecordDelivery(t, complete) /\ UNCHANGED plan
    BY DEF RecordDelivery
<1> HIDE DEF row, complete
<1>4. status[t] \in L!Departed /\ \A x \in Trips \ {t} : status'[x] = status[x]
    BY <1>3 DEF L!RecordDelivery, L!SetStatus, L!Departed, CargoInv, RowsTyped
<1>5. QED
    BY <1>1, <1>2, <1>3, <1>4, RowEffect DEF CargoInv, RowsTyped, LoadedTripFullyLoaded, CargoStep, FrozenStep

LEMMA AcceptanceStep ==
    ASSUME CargoInv, NEW t \in Trips, NEW S \in SUBSET Active(t), NEW r \in [S -> BOOLEAN], AcceptDelivery(t, S, r)
    PROVE  CargoStep
<1> DEFINE row == [p \in Packages |-> IF p \in S
            THEN [item[t][p] EXCEPT !.signed = TRUE, !.resolved = r[p]] ELSE item[t][p]]
<1> DEFINE complete == \A p \in Active(t) : item'[t][p].signed
<1>1. row \in [Packages -> Item] /\ \A p \in Packages : row[p].status = item[t][p].status
    <2>1. ASSUME NEW p \in S PROVE item[t][p] \in Item /\ r[p] \in BOOLEAN
        BY DEF CargoInv, RowsTyped, Active
    <2>2. ASSUME NEW p \in S
          PROVE  /\ [item[t][p] EXCEPT !.signed = TRUE, !.resolved = r[p]] \in Item
                 /\ [item[t][p] EXCEPT !.signed = TRUE, !.resolved = r[p]].status = item[t][p].status
        BY <2>1, AcceptanceUpdate, Zenon
    <2>3. ASSUME NEW p \in Packages PROVE row[p] \in Item /\ row[p].status = item[t][p].status
        <3>1. CASE p \in S
            BY <2>2, <3>1, Zenon
        <3>2. CASE p \notin S
            BY <3>2 DEF CargoInv, RowsTyped
        <3>3. QED
            BY <3>1, <3>2
    <2> HIDE DEF row
    <2>4. QED
        BY <2>3, Zenon DEF row
<1>2. item' = [item EXCEPT ![t] = row]
    BY DEF AcceptDelivery
<1>3. L!AcceptDelivery(t, complete) /\ UNCHANGED plan
    BY DEF AcceptDelivery
<1> HIDE DEF row, complete
<1>4. status[t] \in L!Departed /\ \A x \in Trips \ {t} : status'[x] = status[x]
    BY <1>3 DEF L!AcceptDelivery, L!SetStatus, L!Departed, CargoInv, RowsTyped
<1>5. QED
    BY <1>1, <1>2, <1>3, <1>4, RowEffect DEF CargoInv, RowsTyped, LoadedTripFullyLoaded, CargoStep, FrozenStep

\* A correction of trip t leaves it loaded only when nothing waits to be loaded.
LEMMA UnloadStep ==
    ASSUME CargoInv, NEW t \in Trips, NEW p \in Packages, NEW hold \in BOOLEAN, UnloadPackage(t, p, hold)
    PROVE  CargoStep
<1> DEFINE s == IF hold THEN "hold" ELSE "unloaded"
<1>1. RowsTyped /\ s \in ItemStatuses /\ SetItem(t, p, s) /\ plan' = [plan EXCEPT ![t] = @ \ {p}]
    BY DEF CargoInv, UnloadPackage, ItemStatuses, ActiveStatuses
<1>2. status[t] \in {"loading", "loaded"} /\ status' = [status EXCEPT ![t] = "loading"]
    BY DEF UnloadPackage, L!CorrectLoading, L!PreDispatch, L!SetStatus
<1>3. /\ item' \in [Trips -> [Packages -> Item]]
      /\ \A x \in Trips \ {t}, q \in Packages : item'[x][q] = item[x][q]
    BY <1>1, SetItemEffect
<1>4. QED
    BY <1>1, <1>2, <1>3 DEF CargoInv, RowsTyped, LoadedTripFullyLoaded, CargoStep, FrozenStep, L!Departed

LEMMA ReturnStep ==
    ASSUME CargoInv, NEW t \in Trips, NEW p \in Packages, NEW hold \in BOOLEAN, ReturnToWarehouse(t, p, hold)
    PROVE  CargoStep
<1> DEFINE s == IF hold \/ item[t][p].status = "hold" THEN "hold" ELSE "returned"
<1>1. RowsTyped /\ s \in ItemStatuses /\ s # "assigned" /\ SetItem(t, p, s) /\ UNCHANGED plan
    BY DEF CargoInv, ReturnToWarehouse, ItemStatuses, ActiveStatuses
<1>2. status[t] \in {"loading", "loaded"} /\ status' = status
    BY DEF ReturnToWarehouse, L!CorrectLoading, L!PreDispatch, L!SetStatus, CargoInv, RowsTyped
<1> HIDE DEF s
<1>3. /\ item' \in [Trips -> [Packages -> Item]] /\ item'[t][p].status # "assigned"
      /\ \A x \in Trips, q \in Packages : x # t \/ q # p => item'[x][q] = item[x][q]
    BY <1>1, SetItemEffect
<1>4. LoadedTripFullyLoaded'
    BY <1>2, <1>3 DEF CargoInv, LoadedTripFullyLoaded
<1>5. QED
    BY <1>1, <1>2, <1>3, <1>4 DEF CargoInv, RowsTyped, CargoStep, FrozenStep, L!Departed

LEMMA ReloadStep ==
    ASSUME CargoInv, NEW t \in Trips, NEW p \in Packages, ReloadPackage(t, p) PROVE CargoStep
<1>1. RowsTyped /\ "loaded" \in ItemStatuses /\ SetItem(t, p, "loaded")
      /\ plan' = [plan EXCEPT ![t] = Active(t)] /\ Active(t) \subseteq Packages
    BY DEF CargoInv, ReloadPackage, ItemStatuses, ActiveStatuses, Active
<1>2. status[t] = "loading" /\ status' = [status EXCEPT ![t] = StatusAfter(t)]
    BY DEF ReloadPackage, L!CorrectLoading, L!SetStatus
<1>3. /\ item' \in [Trips -> [Packages -> Item]]
      /\ \A x \in Trips \ {t}, q \in Packages : item'[x][q] = item[x][q]
    BY <1>1, SetItemEffect
<1>4. status'[t] \in {"loaded"} \cup L!Departed => \A q \in Packages : item'[t][q].status # "assigned"
    BY <1>2 DEF StatusAfter, CargoInv, RowsTyped, L!Departed
<1>5. QED
    BY <1>1, <1>2, <1>3, <1>4 DEF CargoInv, RowsTyped, LoadedTripFullyLoaded, CargoStep, FrozenStep, L!Departed

LEMMA TransferStep ==
    ASSUME CargoInv, NEW t \in Trips, NEW u \in Trips, NEW p \in Packages, TransferPackage(t, u, p)
    PROVE  CargoStep
<1>0. SetTwo(t, p, "transferred", u, p, "assigned")
    BY DEF TransferPackage, SetTwo
<1>1. RowsTyped /\ "transferred" \in ItemStatuses /\ "assigned" \in ItemStatuses /\ t # u
    BY DEF CargoInv, TransferPackage, ItemStatuses, ActiveStatuses
<1>2. /\ status[t] \in {"loading", "loaded"} /\ status[u] \in {"planned", "loading"}
      /\ status' = [status EXCEPT ![t] = "loading"] /\ plan' = [plan EXCEPT ![t] = @ \ {p}]
    BY DEF TransferPackage, L!CorrectLoading, L!PreDispatch, L!SetStatus
<1>3. /\ item' \in [Trips -> [Packages -> Item]]
      /\ \A x \in Trips \ {t, u}, q \in Packages : item'[x][q] = item[x][q]
    <2>1. TwoRows(t, p, "transferred", u, p, "assigned")
        BY <1>0, <1>1, SetTwoEffect
    <2>2. QED
        BY <2>1 DEF TwoRows
<1>4. QED
    BY <1>1, <1>2, <1>3 DEF CargoInv, RowsTyped, LoadedTripFullyLoaded, CargoStep, FrozenStep, L!Departed

LEMMA ReplaceStep ==
    ASSUME CargoInv, NEW t \in Trips, NEW p \in Packages, NEW q \in Packages, NEW hold \in BOOLEAN,
           ReplacePackage(t, p, q, hold)
    PROVE  CargoStep
<1> DEFINE cargoAfter == (Active(t) \ {p}) \cup {q}
<1>0. SetTwo(t, p, "replaced", t, q, "loaded")
    BY DEF ReplacePackage, SetTwo
<1>1. RowsTyped /\ "replaced" \in ItemStatuses /\ "loaded" \in ItemStatuses /\ p # q
    BY DEF CargoInv, ReplacePackage, IsLoaded, Assignable, ItemStatuses, ActiveStatuses
<1>2. /\ status[t] \in {"loading", "loaded"} /\ status' = [status EXCEPT ![t] = StatusAfter(t)]
      /\ plan' = [plan EXCEPT ![t] = cargoAfter] /\ cargoAfter \subseteq Packages
    BY DEF ReplacePackage, L!CorrectLoading, L!PreDispatch, L!SetStatus, Active
<1>3. /\ item' \in [Trips -> [Packages -> Item]]
      /\ \A x \in Trips \ {t}, y \in Packages : item'[x][y] = item[x][y]
    <2>1. TwoRows(t, p, "replaced", t, q, "loaded")
        BY <1>0, <1>1, SetTwoEffect
    <2>2. QED
        BY <2>1 DEF TwoRows
<1>4. status'[t] \in {"loaded"} \cup L!Departed => \A y \in Packages : item'[t][y].status # "assigned"
    BY <1>2 DEF StatusAfter, CargoInv, RowsTyped, L!Departed
<1> HIDE DEF cargoAfter
<1>5. QED
    BY <1>1, <1>2, <1>3, <1>4 DEF CargoInv, RowsTyped, LoadedTripFullyLoaded, CargoStep, FrozenStep, L!Departed

LEMMA NextStep == CargoInv /\ [Next]_vars => CargoStep /\ CargoInv'
<1> SUFFICES ASSUME CargoInv, [Next]_vars PROVE CargoStep /\ CargoInv'
    OBVIOUS
<1>1. ASSUME NEW t \in Trips, Execution(t) PROVE CargoStep
    BY <1>1, CommandStep, AssignStep, CreateConsolidatedStep, RemoveStep, PaperStep, ConfirmStep, DispatchStep,
       DeliveryStep, AcceptanceStep
    DEF Execution
<1>2. ASSUME NEW t \in Trips, Correction(t) PROVE CargoStep
    BY <1>2, UnloadStep, ReturnStep, ReloadStep, TransferStep, ReplaceStep DEF Correction
<1>3. CASE Fleet \/ UNCHANGED vars
    <2>1. UNCHANGED <<status, item, plan>>
        BY <1>3 DEF Fleet, L!VehicleStep, L!UpdateVehicleState, L!UpdateVehicle, cargo, vars, lifecycle
    <2>2. QED
        BY <2>1 DEF CargoInv, RowsTyped, LoadedTripFullyLoaded, CargoStep, FrozenStep
<1>4. CargoStep
    BY <1>1, <1>2, <1>3 DEF Next
<1>5. QED
    BY <1>4, StatusTyped DEF CargoInv, CargoStep, RowsTyped

LEMMA InitialCargo == Init => CargoInv
<1>1. Init => RowsTyped
    BY NoItemTyped DEF Init, L!Init, CargoInit, RowsTyped
<1>2. Init => LoadedTripFullyLoaded
    BY NoItemTyped DEF Init, CargoInit, LoadedTripFullyLoaded
<1>3. QED
    BY <1>1, <1>2 DEF CargoInv

\* A loaded or departed trip has no package still to be loaded, whatever was
\* assigned to it, transferred, replaced or reloaded.
THEOREM NothingLeftToLoad == Spec => []LoadedTripFullyLoaded
<1>1. CargoInv => LoadedTripFullyLoaded
    BY DEF CargoInv
<1>2. QED
    BY <1>1, InitialCargo, NextStep, PTL DEF Spec

\* No command changes what a departed trip carries, nor its plan.
THEOREM CargoFrozen == Spec => DepartedCargoFrozen
<1>1. CargoStep => (\A t \in Trips : status[t] \in L!Departed =>
                        /\ plan'[t] = plan[t]
                        /\ \A p \in Packages : item'[t][p].status = item[t][p].status)
    BY DEF CargoStep, FrozenStep
<1>2. QED
    BY <1>1, InitialCargo, NextStep, PTL DEF Spec, DepartedCargoFrozen
-----------------------------------------------------------------------------
(* The plan and the evidence. *)

\* Some package of the trip was loaded, now or once.
Handled(x) == \E p \in Packages : item[x][p].status \notin {"none", "assigned"}

\* Nothing is loaded before the evidence of the loading, so what is reloaded or replaced has it.
HandledWithEvidence == \A x \in EvidenceRequired : Handled(x) => "loading" \in evidence[x]

PaperInv ==
    /\ CargoInv /\ evidence \in [Trips -> SUBSET Stages]
    /\ PlanOnActive /\ EvidenceBeforeStage /\ HandledWithEvidence

\* What a step must find in the evidence of a trip, and leave in its plan.
Kept(x) ==
    /\ plan'[x] \subseteq Active(x)'
    /\ x \in EvidenceRequired =>
         /\ Handled(x)' => "loading" \in evidence[x]
         /\ status'[x] \in {"loaded"} \cup L!Departed => "loading" \in evidence[x]
         /\ status'[x] \in L!Departed => "dispatch" \in evidence[x]

\* A trip the step is not about, or only changes within its stage.
Same(x) ==
    /\ plan'[x] \subseteq plan[x]
    /\ status'[x] \in {"loaded"} \cup L!Departed => status[x] \in {"loaded"} \cup L!Departed
    /\ status'[x] \in L!Departed => status[x] \in L!Departed
    /\ \A p \in Packages : item'[x][p].status = item[x][p].status

Aside(t) == \A x \in Trips \ {t} : plan'[x] = plan[x] /\ status'[x] = status[x] /\ item'[x] = item[x]

\* Such a trip stays within its evidence.
LEMMA SameKept == ASSUME PaperInv, NEW x \in Trips, Same(x) PROVE Kept(x)
BY DEF PaperInv, Same, Kept, PlanOnActive, EvidenceBeforeStage, HandledWithEvidence, Handled, Active

\* The trips beside the one a step is about.
LEMMA AsideKept == ASSUME PaperInv, NEW t \in Trips, Aside(t) PROVE \A x \in Trips \ {t} : Kept(x)
BY SameKept DEF Aside, Same

\* Evidence is only ever added.
LEMMA EvidenceGrows ==
    ASSUME PaperInv, [Next]_vars
    PROVE  evidence' \in [Trips -> SUBSET Stages] /\ \A x \in Trips : evidence[x] \subseteq evidence'[x]
<1>1. ASSUME NEW t \in Trips, NEW stage \in Stages, SaveTripEvidence(t, stage)
      PROVE  evidence' \in [Trips -> SUBSET Stages] /\ \A x \in Trips : evidence[x] \subseteq evidence'[x]
    BY <1>1 DEF SaveTripEvidence, PaperInv
<1>2. ASSUME NEW t \in Trips, Correction(t) PROVE UNCHANGED evidence
    BY <1>2 DEF Correction, UnloadPackage, ReturnToWarehouse, ReloadPackage, TransferPackage, ReplacePackage
<1>3. ASSUME NEW t \in Trips, Execution(t)
      PROVE  UNCHANGED evidence \/ \E stage \in Stages : SaveTripEvidence(t, stage)
    BY <1>3 DEF Execution, Command, AssignPlacement, RemoveAssignment, CreateConsolidatedTrip, SavePlan,
                ConfirmLoading, FinalDispatch, RecordDelivery, AcceptDelivery, cargo
<1>4. CASE Fleet \/ UNCHANGED vars
    BY <1>4 DEF Fleet, vars, cargo, PaperInv
<1>5. QED
    BY <1>1, <1>2, <1>3, <1>4 DEF Next, PaperInv

\* Commands of the lifecycle load nothing and dispatch nothing.
LEMMA CommandPaper ==
    ASSUME PaperInv, NEW t \in Trips, Command(t) PROVE \A x \in Trips : Kept(x)
<1>1. UNCHANGED <<item, plan>> /\ status \in [Trips -> L!Statuses \cup {"none"}]
    BY DEF Command, cargo, PaperInv, CargoInv, RowsTyped
<1>2. ASSUME NEW target \in L!Statuses, L!TransitionTrip(t, target)
      PROVE  /\ target # "loaded" /\ (target \in L!Departed => status[t] \in L!Departed)
             /\ status' = [status EXCEPT ![t] = target]
    BY <1>2, Zenon DEF L!TransitionTrip, L!CanTransition, L!Transitioned, L!Transitions, L!ManagedTargets,
                       L!SetStatus, L!Departed
<1>3. \A x \in Trips : /\ status'[x] \in {"loaded"} \cup L!Departed => status[x] \in {"loaded"} \cup L!Departed
                       /\ status'[x] \in L!Departed => status[x] \in L!Departed
    BY <1>1, <1>2 DEF Command, L!CreateTrip, L!Created, L!UpdateAssignment, L!Assigned, L!GpsInTransit,
                      L!ConfirmArrival, L!SetStatus, L!Departed
<1>4. QED
    BY <1>1, <1>3, SameKept DEF Same

\* A package assigned is not handled yet, and one removed leaves the plan.
LEMMA AssignPaper ==
    ASSUME PaperInv, NEW t \in Trips, NEW p \in Packages, AssignPlacement(t, p) PROVE \A x \in Trips : Kept(x)
<1>1. status[t] \in {"draft", "planned", "loading"} /\ SetItem(t, p, "assigned") /\ UNCHANGED <<status, plan>>
    BY DEF AssignPlacement, lifecycle
<1>2. RowsTyped /\ "assigned" \in ItemStatuses
    BY DEF PaperInv, CargoInv, ItemStatuses, ActiveStatuses
<1>3. item'[t][p].status = "assigned" /\ \A x \in Trips, q \in Packages : x # t \/ q # p => item'[x][q] = item[x][q]
    BY <1>1, <1>2, SetItemEffect
<1>4. Kept(t)
    BY <1>1, <1>3 DEF Kept, Handled, Active, ActiveStatuses, L!Departed, PaperInv, PlanOnActive, HandledWithEvidence
<1>5. \A x \in Trips \ {t} : Kept(x)
    BY <1>1, <1>3, SameKept DEF Same
<1>6. QED
    BY <1>4, <1>5

\* A consolidated trip starts with packages assigned and none handled.
LEMMA CreateConsolidatedPaper ==
    ASSUME PaperInv, NEW t \in Trips, NEW v \in Vehicles, NEW d \in Drivers \cup {None},
           NEW S \in SUBSET Packages, CreateConsolidatedTrip(t, v, d, S)
    PROVE  \A x \in Trips : Kept(x)
<1> DEFINE row == [p \in Packages |-> IF p \in S THEN [item[t][p] EXCEPT !.status = "assigned"] ELSE item[t][p]]
<1>1. RowsTyped /\ "assigned" \in ItemStatuses
    BY DEF PaperInv, CargoInv, ItemStatuses, ActiveStatuses
<1>2. row \in [Packages -> Item] /\ \A p \in Packages : row[p].status \in {item[t][p].status, "assigned"}
    BY <1>1, StatusUpdate DEF RowsTyped
<1>3. item' = [item EXCEPT ![t] = row]
    BY DEF CreateConsolidatedTrip
<1>4. status' = [status EXCEPT ![t] = "planned"] /\ UNCHANGED plan
    BY DEF CreateConsolidatedTrip, L!CreateTrip, L!CanCreate, L!Created, L!SetStatus
<1> HIDE DEF row
<1>5. item'[t] = row /\ status'[t] = "planned" /\ Aside(t)
    BY <1>1, <1>2, <1>3, <1>4, RowEffect DEF RowsTyped, Aside
<1>6. Kept(t)
    BY <1>2, <1>4, <1>5 DEF Kept, Handled, Active, ActiveStatuses, L!Departed, PaperInv, PlanOnActive, HandledWithEvidence
<1>7. QED
    BY <1>5, <1>6, AsideKept

\* A package removed leaves the plan with its row.
LEMMA RemovePaper ==
    ASSUME PaperInv, NEW t \in Trips, NEW p \in Packages, RemoveAssignment(t, p) PROVE \A x \in Trips : Kept(x)
<1> DEFINE row == [item[t] EXCEPT ![p] = NoItem]
<1>1. /\ row \in [Packages -> Item] /\ item' = [item EXCEPT ![t] = row]
      /\ row[p].status = "none" /\ \A q \in Packages \ {p} : row[q] = item[t][q]
    BY NoItemTyped DEF PaperInv, CargoInv, RowsTyped, RemoveAssignment
<1>2. /\ status[t] \in {"draft", "planned"} /\ UNCHANGED status
      /\ plan' = [plan EXCEPT ![t] = @ \ {p}] /\ RowsTyped
    BY DEF RemoveAssignment, lifecycle, PaperInv, CargoInv
<1> HIDE DEF row
<1>3. item'[t] = row /\ plan'[t] = plan[t] \ {p} /\ Aside(t)
    BY <1>1, <1>2, RowEffect DEF RowsTyped, Aside
<1>4. Kept(t)
    BY <1>1, <1>2, <1>3 DEF Kept, Handled, Active, L!Departed, PaperInv, PlanOnActive, HandledWithEvidence
<1>5. QED
    BY <1>3, <1>4, AsideKept

\* A plan is saved of the trip's own cargo; evidence moves nothing.
LEMMA SavePaper ==
    ASSUME PaperInv, NEW t \in Trips,
           \/ \E S \in SUBSET Active(t) : SavePlan(t, S)
           \/ \E stage \in Stages : SaveTripEvidence(t, stage)
    PROVE  \A x \in Trips : Kept(x)
<1>1. UNCHANGED <<status, item>>
    BY DEF SavePlan, SaveTripEvidence, lifecycle
<1>2. ASSUME NEW S \in SUBSET Active(t), SavePlan(t, S) PROVE \A x \in Trips : Kept(x)
    <2>1. plan' = [plan EXCEPT ![t] = @ \cup S] /\ plan[t] \cup S \subseteq Active(t) /\ plan \in [Trips -> SUBSET Packages]
        BY <1>2 DEF SavePlan, PaperInv, CargoInv, RowsTyped
    <2>2. Kept(t)
        BY <1>1, <2>1 DEF Kept, Handled, Active, PaperInv, EvidenceBeforeStage, HandledWithEvidence
    <2>3. QED
        BY <1>1, <2>1, <2>2, AsideKept DEF Aside
<1>3. ASSUME NEW stage \in Stages, SaveTripEvidence(t, stage) PROVE \A x \in Trips : Kept(x)
    BY <1>1, <1>3, SameKept DEF Same, SaveTripEvidence
<1>4. QED
    BY <1>2, <1>3

\* Loading and dispatch ask for the evidence of their stage.
LEMMA ConfirmPaper ==
    ASSUME PaperInv, NEW t \in Trips, ConfirmLoading(t) PROVE \A x \in Trips : Kept(x)
<1> DEFINE new == {p \in Active(t) : item[t][p].status = "assigned"}
<1> DEFINE row == [p \in Packages |-> IF p \in new THEN [item[t][p] EXCEPT !.status = "loaded"] ELSE item[t][p]]
<1>1. RowsTyped /\ "loaded" \in ItemStatuses
    BY DEF PaperInv, CargoInv, ItemStatuses, ActiveStatuses
<1>2. row \in [Packages -> Item] /\ \A p \in Packages : row[p].status \in {item[t][p].status, "loaded"}
    BY <1>1, StatusUpdate DEF RowsTyped, Active, ActiveStatuses
<1>3. item' = [item EXCEPT ![t] = row]
    BY DEF ConfirmLoading
<1>4. status' = [status EXCEPT ![t] = "loaded"] /\ UNCHANGED plan /\ (t \in EvidenceRequired => "loading" \in evidence[t])
    BY DEF ConfirmLoading, L!ConfirmLoading, L!SetStatus, Evident
<1> HIDE DEF row, new
<1>5. item'[t] = row /\ status'[t] = "loaded" /\ Aside(t)
    BY <1>1, <1>2, <1>3, <1>4, RowEffect DEF RowsTyped, Aside
<1>6. Kept(t)
    BY <1>2, <1>4, <1>5 DEF Kept, Active, ActiveStatuses, L!Departed, PaperInv, PlanOnActive
<1>7. QED
    BY <1>5, <1>6, AsideKept

\* A dispatched trip was loaded, with the evidence of both stages.
LEMMA DispatchPaper ==
    ASSUME PaperInv, NEW t \in Trips, FinalDispatch(t) PROVE \A x \in Trips : Kept(x)
<1>1. /\ status[t] = "loaded" /\ status' = [status EXCEPT ![t] = "dispatched"] /\ UNCHANGED <<item, plan>>
      /\ t \in EvidenceRequired => "dispatch" \in evidence[t]
    BY DEF FinalDispatch, L!FinalDispatch, L!CanDispatch, L!SetStatus, Evident
<1>2. Kept(t)
    BY <1>1 DEF Kept, Handled, Active, PaperInv, PlanOnActive, EvidenceBeforeStage, HandledWithEvidence
<1>3. Aside(t)
    BY <1>1 DEF Aside, PaperInv, CargoInv, RowsTyped
<1>4. QED
    BY <1>2, <1>3, AsideKept

\* Deliveries and acceptances change no status of cargo, and are of departed trips.
LEMMA DeliveredPaper ==
    ASSUME PaperInv, NEW t \in Trips,
           \/ \E S \in SUBSET Active(t) : \E d \in [S -> Dispositions] : RecordDelivery(t, S, d)
           \/ \E S \in SUBSET Active(t) : \E r \in [S -> BOOLEAN] : AcceptDelivery(t, S, r)
    PROVE  \A x \in Trips : Kept(x)
<1>1. CargoStep /\ RowsTyped
    BY DeliveryStep, AcceptanceStep DEF PaperInv, CargoInv
<1>2. /\ \E row : item' = [item EXCEPT ![t] = row]
      /\ \E s : status' = [status EXCEPT ![t] = s]
      /\ status[t] \in L!Departed /\ UNCHANGED plan
    BY DEF RecordDelivery, AcceptDelivery, L!RecordDelivery, L!AcceptDelivery, L!SetStatus, L!Departed
<1>3. Aside(t)
    BY <1>1, <1>2 DEF Aside, RowsTyped
<1>4. Same(t)
    BY <1>1, <1>2 DEF Same, CargoStep, FrozenStep
<1>5. QED
    BY <1>3, <1>4, AsideKept, SameKept

-----------------------------------------------------------------------------
(* Corrections: what they handle was loaded before, with its evidence.     *)

\* A package unloaded was loaded, and leaves the plan.
LEMMA UnloadPaper ==
    ASSUME PaperInv, NEW t \in Trips, NEW p \in Packages, NEW hold \in BOOLEAN, UnloadPackage(t, p, hold)
    PROVE  \A x \in Trips : Kept(x)
<1> DEFINE s == IF hold THEN "hold" ELSE "unloaded"
<1>1. /\ RowsTyped /\ s \in ItemStatuses /\ SetItem(t, p, s)
      /\ plan' = [plan EXCEPT ![t] = @ \ {p}] /\ status' = [status EXCEPT ![t] = "loading"]
      /\ item[t][p].status = "loaded"
    BY DEF PaperInv, CargoInv, UnloadPackage, IsLoaded, ItemStatuses, ActiveStatuses, L!CorrectLoading, L!SetStatus
<1>2. \A x \in Trips, q \in Packages : x # t \/ q # p => item'[x][q] = item[x][q]
    BY <1>1, SetItemEffect
<1>3. plan'[t] = plan[t] \ {p} /\ status'[t] = "loading"
    BY <1>1 DEF RowsTyped
<1>4. Kept(t)
    BY <1>1, <1>2, <1>3 DEF Kept, Handled, Active, L!Departed, PaperInv, PlanOnActive, HandledWithEvidence
<1>5. \A x \in Trips \ {t} : Kept(x)
    BY <1>1, <1>2, SameKept DEF Same, RowsTyped
<1>6. QED
    BY <1>4, <1>5

\* A package returned was unloaded, and is in no plan.
LEMMA ReturnPaper ==
    ASSUME PaperInv, NEW t \in Trips, NEW p \in Packages, NEW hold \in BOOLEAN, ReturnToWarehouse(t, p, hold)
    PROVE  \A x \in Trips : Kept(x)
<1> DEFINE s == IF hold \/ item[t][p].status = "hold" THEN "hold" ELSE "returned"
<1>1. /\ RowsTyped /\ s \in ItemStatuses /\ SetItem(t, p, s) /\ UNCHANGED plan
      /\ item[t][p].status \in {"unloaded", "hold"}
    BY DEF PaperInv, CargoInv, ReturnToWarehouse, ItemStatuses, ActiveStatuses
<1>2. status[t] \in {"loading", "loaded"} /\ status' = status
    BY <1>1 DEF ReturnToWarehouse, L!CorrectLoading, L!PreDispatch, L!SetStatus, RowsTyped
<1> HIDE DEF s
<1>3. \A x \in Trips, q \in Packages : x # t \/ q # p => item'[x][q] = item[x][q]
    BY <1>1, SetItemEffect
<1>4. p \notin plan[t]
    BY <1>1 DEF PaperInv, PlanOnActive, Active, ActiveStatuses
<1>5. Kept(t)
    BY <1>1, <1>2, <1>3, <1>4
    DEF Kept, Handled, Active, L!Departed, PaperInv, PlanOnActive, EvidenceBeforeStage, HandledWithEvidence
<1>6. \A x \in Trips \ {t} : Kept(x)
    BY <1>1, <1>2, <1>3, SameKept DEF Same
<1>7. QED
    BY <1>5, <1>6

\* The rebuilt plan names what was active before, and it still is.
LEMMA ReloadPaper ==
    ASSUME PaperInv, NEW t \in Trips, NEW p \in Packages, ReloadPackage(t, p) PROVE \A x \in Trips : Kept(x)
<1>1. /\ RowsTyped /\ "loaded" \in ItemStatuses /\ SetItem(t, p, "loaded")
      /\ plan' = [plan EXCEPT ![t] = Active(t)] /\ item[t][p].status \in {"unloaded", "returned"}
      /\ \E s : status' = [status EXCEPT ![t] = s] /\ s \in {"loading", "loaded"}
    BY DEF PaperInv, CargoInv, ReloadPackage, ItemStatuses, ActiveStatuses, StatusAfter, L!CorrectLoading, L!SetStatus
<1>2. item'[t][p].status = "loaded" /\ \A x \in Trips, q \in Packages : x # t \/ q # p => item'[x][q] = item[x][q]
    BY <1>1, SetItemEffect
<1>3. plan'[t] = Active(t) /\ status'[t] \in {"loading", "loaded"}
    BY <1>1 DEF RowsTyped
<1>4. t \in EvidenceRequired => "loading" \in evidence[t]
    BY <1>1 DEF PaperInv, HandledWithEvidence, Handled
<1>5. Kept(t)
    BY <1>2, <1>3, <1>4 DEF Kept, Active, ActiveStatuses, L!Departed
<1>6. \A x \in Trips \ {t} : Kept(x)
    BY <1>1, <1>2, SameKept DEF Same, RowsTyped
<1>7. QED
    BY <1>5, <1>6

\* A package transferred was loaded on one trip and is not handled yet on the other.
LEMMA TransferPaper ==
    ASSUME PaperInv, NEW t \in Trips, NEW u \in Trips, NEW p \in Packages, TransferPackage(t, u, p)
    PROVE  \A x \in Trips : Kept(x)
<1>1. SetTwo(t, p, "transferred", u, p, "assigned")
    BY DEF TransferPackage, SetTwo
<1>2. /\ RowsTyped /\ "transferred" \in ItemStatuses /\ "assigned" \in ItemStatuses /\ t # u
      /\ item[t][p].status = "loaded" /\ item[u][p].status = "none" /\ status[u] \in {"planned", "loading"}
      /\ status' = [status EXCEPT ![t] = "loading"] /\ plan' = [plan EXCEPT ![t] = @ \ {p}]
    BY DEF PaperInv, CargoInv, TransferPackage, IsLoaded, ItemStatuses, ActiveStatuses, L!CorrectLoading, L!SetStatus
<1>3. /\ item'[u][p].status = "assigned"
      /\ \A x \in Trips, y \in Packages : ~(x = t /\ y = p) /\ ~(x = u /\ y = p) => item'[x][y] = item[x][y]
    <2>1. TwoRows(t, p, "transferred", u, p, "assigned")
        BY <1>1, <1>2, SetTwoEffect
    <2>2. QED
        BY <2>1 DEF TwoRows
<1>4. /\ plan'[t] = plan[t] \ {p} /\ status'[t] = "loading"
      /\ \A x \in Trips \ {t} : plan'[x] = plan[x] /\ status'[x] = status[x]
    BY <1>2 DEF RowsTyped
<1>5. t \in EvidenceRequired => "loading" \in evidence[t]
    BY <1>2 DEF PaperInv, HandledWithEvidence, Handled
<1>6. Kept(t)
    BY <1>2, <1>3, <1>4, <1>5 DEF Kept, Active, L!Departed, PaperInv, PlanOnActive
<1>7. Kept(u)
    BY <1>2, <1>3, <1>4 DEF Kept, Handled, Active, ActiveStatuses, L!Departed, PaperInv, PlanOnActive, HandledWithEvidence
<1>8. \A x \in Trips \ {t, u} : Kept(x)
    BY <1>3, <1>4, SameKept DEF Same
<1>9. QED
    BY <1>6, <1>7, <1>8

\* The replacement takes the place of a loaded package, in the plan too.
LEMMA ReplacePaper ==
    ASSUME PaperInv, NEW t \in Trips, NEW p \in Packages, NEW q \in Packages, NEW hold \in BOOLEAN,
           ReplacePackage(t, p, q, hold)
    PROVE  \A x \in Trips : Kept(x)
<1> DEFINE cargoAfter == (Active(t) \ {p}) \cup {q}
<1>1. SetTwo(t, p, "replaced", t, q, "loaded")
    BY DEF ReplacePackage, SetTwo
<1>2. /\ RowsTyped /\ "replaced" \in ItemStatuses /\ "loaded" \in ItemStatuses /\ p # q
      /\ item[t][p].status = "loaded" /\ plan' = [plan EXCEPT ![t] = cargoAfter]
      /\ \E s : status' = [status EXCEPT ![t] = s] /\ s \in {"loading", "loaded"}
    BY DEF PaperInv, CargoInv, ReplacePackage, IsLoaded, Assignable, ItemStatuses, ActiveStatuses, StatusAfter,
           L!CorrectLoading, L!SetStatus
<1> HIDE DEF cargoAfter
<1>3. /\ item'[t][q].status = "loaded"
      /\ \A x \in Trips, y \in Packages : ~(x = t /\ y = p) /\ ~(x = t /\ y = q) => item'[x][y] = item[x][y]
    <2>1. TwoRows(t, p, "replaced", t, q, "loaded")
        BY <1>1, <1>2, SetTwoEffect
    <2>2. QED
        BY <2>1 DEF TwoRows
<1>4. /\ plan'[t] = cargoAfter /\ status'[t] \in {"loading", "loaded"}
      /\ \A x \in Trips \ {t} : plan'[x] = plan[x] /\ status'[x] = status[x]
    BY <1>2 DEF RowsTyped
<1>5. t \in EvidenceRequired => "loading" \in evidence[t]
    BY <1>2 DEF PaperInv, HandledWithEvidence, Handled
<1>6. Kept(t)
    BY <1>3, <1>4, <1>5 DEF Kept, Active, ActiveStatuses, L!Departed, cargoAfter
<1>7. \A x \in Trips \ {t} : Kept(x)
    BY <1>3, <1>4, SameKept DEF Same
<1>8. QED
    BY <1>6, <1>7

\* Every step keeps the plan within the cargo and the cargo within the evidence.
LEMMA NextKeepsPaper == PaperInv /\ [Next]_vars => PaperInv'
<1> SUFFICES ASSUME PaperInv, [Next]_vars PROVE PaperInv'
    OBVIOUS
<1> DEFINE AllKept == \A x \in Trips : Kept(x)
<1>1. ASSUME NEW t \in Trips, Execution(t) PROVE AllKept
    BY <1>1, CommandPaper, AssignPaper, CreateConsolidatedPaper, RemovePaper, SavePaper, ConfirmPaper, DispatchPaper,
       DeliveredPaper
    DEF Execution
<1>2. ASSUME NEW t \in Trips, Correction(t) PROVE AllKept
    BY <1>2, UnloadPaper, ReturnPaper, ReloadPaper, TransferPaper, ReplacePaper DEF Correction
<1>3. ASSUME Fleet \/ UNCHANGED vars PROVE AllKept
    <2>1. UNCHANGED <<status, item, plan>>
        BY <1>3 DEF Fleet, L!VehicleStep, L!UpdateVehicleState, L!UpdateVehicle, cargo, vars, lifecycle
    <2>2. \A x \in Trips : Same(x)
        BY <2>1 DEF Same
    <2>3. QED
        BY <2>2, SameKept
<1> HIDE DEF AllKept
<1>4. AllKept
    BY <1>1, <1>2, <1>3 DEF Next
<1>5. EvidenceRequired \subseteq Trips
    BY ShipmentAssumption
<1>6. PlanOnActive' /\ EvidenceBeforeStage' /\ HandledWithEvidence'
    BY <1>4, <1>5, EvidenceGrows DEF AllKept, Kept, PlanOnActive, EvidenceBeforeStage, HandledWithEvidence
<1>7. QED
    BY <1>6, EvidenceGrows, NextStep DEF PaperInv

\* At the start there is neither cargo nor plan.
LEMMA InitialPaper == Init => PaperInv
<1>1. Init => evidence \in [Trips -> SUBSET Stages]
    BY DEF Init, CargoInit
<1>2. Init => PlanOnActive /\ EvidenceBeforeStage /\ HandledWithEvidence
    BY ShipmentAssumption, NoItemTyped
    DEF Init, L!Init, CargoInit, L!Departed, PlanOnActive, EvidenceBeforeStage, HandledWithEvidence, Handled
<1>3. QED
    BY <1>1, <1>2, InitialCargo DEF PaperInv

\* The plan of a trip names only what the trip carries, whatever is removed, unloaded, returned,
\* transferred, replaced and reloaded.
THEOREM PlanFollowsCargo == Spec => []PlanOnActive
<1>1. PaperInv => PlanOnActive
    BY DEF PaperInv
<1>2. QED
    BY <1>1, InitialPaper, NextKeepsPaper, PTL DEF Spec

\* Both at once: the cargo of a trip is as planned, and a loaded trip has all of it.
THEOREM LoadedAsPlanned == Spec => []CargoAsPlanned
<1>1. LoadedTripFullyLoaded /\ PlanOnActive => CargoAsPlanned
    BY DEF CargoAsPlanned
<1>2. QED
    BY <1>1, NothingLeftToLoad, PlanFollowsCargo, PTL

\* No trip whose policy requires evidence is loaded, or departs, without that of the stage; nor is it
\* loaded again by a correction, since what a correction handles was loaded with evidence.
THEOREM EvidenceComesFirst == Spec => []EvidenceBeforeStage
<1>1. PaperInv => EvidenceBeforeStage
    BY DEF PaperInv
<1>2. QED
    BY <1>1, InitialPaper, NextKeepsPaper, PTL DEF Spec

-----------------------------------------------------------------------------
(* Where the packages are.  StockInv adds to the cargo what its history    *)
(* is: nothing is handled before the loading starts, and nothing delivered *)
(* before the departure.                                                   *)

Unstarted == {"none", "draft", "planned"}
Before == Unstarted \cup {"loading", "loaded"}
HeldStatuses == {"assigned", "loaded", "unloaded", "hold"}

History ==
    \A x \in Trips, q \in Packages :
        /\ item[x][q].accepted <= item[x][q].delivered
        /\ status[x] \in Before => item[x][q].delivered = 0
        /\ status[x] \in Unstarted => item[x][q].status \in {"none", "assigned"}

WarehouseTyped == placement \in [Packages -> Places] /\ inventory \in [Packages -> Stocks]

StockInv == CargoInv /\ WarehouseTyped /\ History

Departs(x) == status[x] = "loaded" /\ status'[x] = "dispatched"

\* The ways of a trip: none leads back before the loading, or before the departure,
\* and there is one departure.
Forth(x) ==
    /\ status'[x] \in Unstarted => status[x] \in Unstarted
    /\ status'[x] \in Before => status[x] \in Before
    /\ status[x] = "accepted" => status'[x] = "accepted"
    /\ status'[x] \in L!Departed => status[x] \in L!Departed \/ Departs(x)

\* Ways that leave the stock of loaded packages what it is: all but the departure.
Onward(x) ==
    \/ status'[x] = status[x]
    \/ {status[x], status'[x]} \subseteq {"loading", "loaded"}
    \/ {status[x], status'[x]} \subseteq L!Departed
    \/ status'[x] = "cancelled"
    \/ status[x] \in Unstarted

\* What a step may do to a row.
RowChange(x, q) ==
    \/ item'[x][q] = item[x][q]
    \/ /\ status[x] \in Before
       /\ item'[x][q].delivered = item[x][q].delivered /\ item'[x][q].accepted = item[x][q].accepted
       /\ item'[x][q].status \in {"none", "assigned"} \/ status'[x] \notin Unstarted
    \/ /\ status[x] \in {"in_transit", "arrived", "delivered"}
       /\ item'[x][q].status = item[x][q].status
       /\ item'[x][q].accepted <= item'[x][q].delivered

AgreedStep(q) == Agreed(q) /\ ~ReloadsReturned(q) => Agreed(q)'
PlanStep(x) == status'[x] = "loaded" /\ (status[x] = "loaded" => Planned(x)) /\ ~Reloads(x) => Planned(x)'

Moves ==
    /\ \A x \in Trips, q \in Packages : RowChange(x, q)
    /\ \A q \in Packages : AgreedStep(q)
    /\ \A x \in Trips : PlanStep(x)

\* What the warehouse says of a package is always one of its statuses.
LEMMA SetTyped ==
    ASSUME NEW T, NEW f \in [Packages -> T], NEW S, NEW v \in T PROVE SetPackages(S, f, v) \in [Packages -> T]
BY DEF SetPackages

LEMMA WarehouseKept == ASSUME WarehouseTyped, [Next]_vars PROVE WarehouseTyped'
<1> USE DEF WarehouseTyped
<1>1. ASSUME NEW t \in Trips, Execution(t) PROVE WarehouseTyped'
    <2>1. ASSUME NEW p \in Packages, AssignPlacement(t, p) \/ RemoveAssignment(t, p) PROVE WarehouseTyped'
        BY <2>1 DEF AssignPlacement, RemoveAssignment, Places
    <2>2. ASSUME NEW v \in Vehicles, NEW d \in Drivers \cup {None}, NEW S \in SUBSET Packages,
                 CreateConsolidatedTrip(t, v, d, S)
          PROVE  WarehouseTyped'
        BY <2>2, SetTyped DEF CreateConsolidatedTrip, Places
    <2>3. CASE ConfirmLoading(t) \/ FinalDispatch(t)
        <3>1. /\ placement' = placement \/ \E S : placement' = SetPackages(S, placement, "loaded")
              /\ \E S : \E v \in {"loaded", "dispatched"} : inventory' = SetPackages(S, inventory, v)
            BY <2>3 DEF ConfirmLoading, FinalDispatch
        <3>2. "loaded" \in Places /\ {"loaded", "dispatched"} \subseteq Stocks
            BY DEF Places, Stocks
        <3>3. placement' \in [Packages -> Places]
            <4>1. \A S : SetPackages(S, placement, "loaded") \in [Packages -> Places]
                BY <3>2 DEF SetPackages
            <4>2. QED
                BY <3>1, <4>1
        <3>4. inventory' \in [Packages -> Stocks]
            <4>1. \A S : \A v \in {"loaded", "dispatched"} : SetPackages(S, inventory, v) \in [Packages -> Stocks]
                BY <3>2 DEF SetPackages
            <4>2. QED
                BY <3>1, <4>1
        <3>5. QED
            BY <3>3, <3>4
    <2>4. ASSUME NEW S \in SUBSET Active(t), NEW d \in [S -> Dispositions], RecordDelivery(t, S, d)
          PROVE  WarehouseTyped'
        BY <2>4 DEF RecordDelivery, Stocks
    <2>5. CASE \/ Command(t)
               \/ \E S \in SUBSET Active(t) : SavePlan(t, S)
               \/ \E stage \in Stages : SaveTripEvidence(t, stage)
               \/ \E S \in SUBSET Active(t) : \E r \in [S -> BOOLEAN] : AcceptDelivery(t, S, r)
        BY <2>5 DEF Command, cargo, SavePlan, SaveTripEvidence, AcceptDelivery, warehouse
    <2>6. QED
        BY <1>1, <2>1, <2>2, <2>3, <2>4, <2>5 DEF Execution
<1>2. ASSUME NEW t \in Trips, Correction(t) PROVE WarehouseTyped'
    BY <1>2, ZenonT(40) DEF Correction, UnloadPackage, ReturnToWarehouse, ReloadPackage, TransferPackage, ReplacePackage,
                Move, Places, Stocks
<1>3. CASE Fleet \/ UNCHANGED vars
    BY <1>3 DEF Fleet, vars, cargo
<1>4. QED
    BY <1>1, <1>2, <1>3 DEF Next

\* Every step of a trip is such a way, or its departure.
LEMMA TripsGoOn ==
    ASSUME RowsTyped, [Next]_vars, NEW x \in Trips
    PROVE  Forth(x) /\ (Onward(x) \/ Departs(x))
<1> USE DEF Forth, Onward, Departs, Before, Unstarted
<1>1. [L!Next]_L!vars
    BY StepRefines
<1>2. ASSUME NEW t \in Trips, L!TripStep(t)
      PROVE  Forth(x) /\ (Onward(x) \/ Departs(x))
    <2> USE DEF L!SetStatus, RowsTyped
    <2>1. ASSUME NEW target \in L!Statuses, L!TransitionTrip(t, target)
          PROVE  /\ target \notin Unstarted \/ status[t] \in Unstarted
                 /\ target \notin Before \/ status[t] \in Unstarted
                 /\ status[t] # "accepted"
                 /\ target \in L!Departed => status[t] \in L!Departed
                 /\ \/ {status[t], target} \subseteq L!Departed \/ target = "cancelled" \/ status[t] \in Unstarted
                 /\ status' = [status EXCEPT ![t] = target]
        BY <2>1, Zenon DEF L!TransitionTrip, L!CanTransition, L!Transitioned, L!Transitions, L!ManagedTargets, L!Departed
    <2>2. CASE \E target \in L!Statuses : L!TransitionTrip(t, target)
        BY <2>1, <2>2
    <2>3. CASE \/ \E v \in Vehicles, d \in Drivers \cup {None}, s \in {"draft", "planned"} : L!CreateTrip(t, v, d, s)
               \/ \E v \in Vehicles \cup {None}, d \in Drivers \cup {None} : L!UpdateAssignment(t, v, d)
        <3>1. \/ status[t] = "none" /\ \E s \in {"draft", "planned"} : status' = [status EXCEPT ![t] = s]
              \/ status' = status
            BY <2>3 DEF L!CreateTrip, L!CanCreate, L!Created, L!UpdateAssignment, L!Assigned
        <3>2. QED
            BY <3>1 DEF L!Departed
    <2>4. CASE \/ L!ConfirmLoading(t) \/ (\E s \in L!PreDispatch : L!CorrectLoading(t, s)) \/ L!FinalDispatch(t)
               \/ L!GpsInTransit(t) \/ L!ConfirmArrival(t)
        BY <2>4 DEF L!ConfirmLoading, L!CorrectLoading, L!PreDispatch, L!FinalDispatch, L!CanDispatch, L!GpsInTransit,
                    L!ConfirmArrival, L!Departed
    <2>5. CASE \E complete \in BOOLEAN : L!RecordDelivery(t, complete) \/ L!AcceptDelivery(t, complete)
        BY <2>5 DEF L!RecordDelivery, L!AcceptDelivery, L!Departed
    <2>6. QED
        BY <1>2, <2>2, <2>3, <2>4, <2>5 DEF L!TripStep
<1>3. ASSUME NEW v \in Vehicles, L!VehicleStep(v) PROVE UNCHANGED status
    BY <1>3 DEF L!VehicleStep, L!UpdateVehicleState, L!UpdateVehicle
<1>4. QED
    BY <1>1, <1>2, <1>3 DEF L!Next, L!vars

\* The stock of a package on a trip, case by case.
LEMMA StockNow == \A t \in Trips, p \in Packages :
    StockOf(t, p) = StockFor(item[t][p], status[t]) /\ StockOf(t, p)' = StockFor(item'[t][p], status'[t])
BY DEF StockOf

LEMMA StockCases ==
    ASSUME NEW i, NEW s
    PROVE  /\ i.status # "loaded" => StockFor(i, s) = {IF i.status = "assigned" THEN "in_stock" ELSE i.status}
           /\ i.status = "loaded" =>
                /\ s \in {"loading", "loaded"} => StockFor(i, s) = {"loaded"}
                /\ s \in L!Departed => StockFor(i, s) = {IF i.delivered > 0 THEN "delivered" ELSE "dispatched"}
                /\ s \notin {"loading", "loaded"} \cup L!Departed
                     => StockFor(i, s) = {"loaded", "dispatched", "delivered"}
<1>1. ASSUME i.status # "loaded" PROVE StockFor(i, s) = {IF i.status = "assigned" THEN "in_stock" ELSE i.status}
    BY <1>1 DEF StockFor
<1>2. ASSUME i.status = "loaded", s \in {"loading", "loaded"} PROVE StockFor(i, s) = {"loaded"}
    BY <1>2 DEF StockFor, L!Departed
<1>3. ASSUME i.status = "loaded", s \in L!Departed
      PROVE  StockFor(i, s) = {IF i.delivered > 0 THEN "delivered" ELSE "dispatched"}
    BY <1>3 DEF StockFor, L!Departed
<1>4. ASSUME i.status = "loaded", s \notin {"loading", "loaded"}, s \notin L!Departed
      PROVE  StockFor(i, s) = {"loaded", "dispatched", "delivered"}
    BY <1>4 DEF StockFor
<1>5. QED
    BY <1>1, <1>2, <1>3, <1>4

\* A package that a step does not touch stays where trips and warehouse agree it is.
LEMMA AgreedStays ==
    ASSUME StockInv, NEW q \in Packages,
           \A x \in Trips : item'[x][q].status = item[x][q].status /\ item'[x][q].delivered = item[x][q].delivered,
           placement'[q] = placement[q], inventory'[q] = inventory[q],
           \A x \in Trips : item[x][q].status = "loaded" => Onward(x)
    PROVE  AgreedStep(q)
<1> SUFFICES ASSUME Agreed(q) PROVE Agreed(q)'
    BY DEF AgreedStep
<1>1. Holders(q)' = Holders(q)
    BY DEF Holders
<1>2. CASE Holders(q) = {}
    BY <1>1, <1>2 DEF Agreed
<1>3. ASSUME NEW t \in Trips, Holders(q) = {t}, placement[q] = item[t][q].status, inventory[q] \in StockOf(t, q)
      PROVE  Agreed(q)'
    <2>1. inventory'[q] \in StockOf(t, q)'
        <3>1. inventory[q] \in StockFor(item[t][q], status[t])
            BY <1>3, StockNow
        <3>2. CASE item[t][q].status # "loaded"
            BY <3>1, <3>2, StockCases, StockNow
        <3>3. CASE item[t][q].status = "loaded"
            <4>1. Onward(t) /\ status[t] \notin Unstarted
                BY <3>3 DEF StockInv, History
            <4>2. inventory[q] \in {"loaded", "dispatched", "delivered"}
                BY <3>1, <3>3, StockCases
            <4>3. CASE status'[t] = "cancelled"
                <5>1. StockFor(item'[t][q], status'[t]) = {"loaded", "dispatched", "delivered"}
                    BY <3>3, <4>3, StockCases DEF L!Departed
                <5>2. QED
                    BY <4>2, <5>1, StockNow
            <4>4. CASE status'[t] = status[t]
                BY <3>1, <4>4, StockNow DEF StockFor
            <4>5. CASE {status[t], status'[t]} \subseteq {"loading", "loaded"}
                <5>1. StockFor(item'[t][q], status'[t]) = {"loaded"} /\ StockFor(item[t][q], status[t]) = {"loaded"}
                    BY <3>3, <4>5, StockCases
                <5>2. QED
                    BY <3>1, <5>1, StockNow
            <4>6. CASE {status[t], status'[t]} \subseteq L!Departed
                <5>1. status[t] \in L!Departed /\ status'[t] \in L!Departed /\ item'[t][q].status = "loaded"
                    BY <3>3, <4>6
                <5>2. /\ StockFor(item'[t][q], status'[t])
                            = {IF item'[t][q].delivered > 0 THEN "delivered" ELSE "dispatched"}
                      /\ StockFor(item[t][q], status[t])
                            = {IF item[t][q].delivered > 0 THEN "delivered" ELSE "dispatched"}
                    BY <3>3, <5>1, StockCases
                <5>3. QED
                    BY <3>1, <5>2, StockNow
            <4>7. QED
                BY <4>1, <4>3, <4>4, <4>5, <4>6 DEF Onward
        <3>4. QED
            BY <3>2, <3>3
    <2>2. QED
        BY <1>1, <1>3, <2>1 DEF Agreed
<1>4. QED
    BY <1>2, <1>3 DEF Agreed

\* What agreement says of a package that a trip holds, and of one on its place.
LEMMA HeldAgreed ==
    ASSUME NEW q \in Packages, Agreed(q), NEW t \in Trips, item[t][q].status \in HeldStatuses
    PROVE  Holders(q) = {t} /\ placement[q] = item[t][q].status /\ inventory[q] \in StockOf(t, q)
BY DEF Agreed, Holders, HeldStatuses

LEMMA PlacedAgreed ==
    ASSUME NEW q \in Packages, Agreed(q), placement[q] = "placed"
    PROVE  Holders(q) = {}
BY DEF Agreed, Holders

\* A package that one trip comes to hold, and one that a trip lets go.
LEMMA AgreedHeld ==
    ASSUME NEW q \in Packages, NEW t \in Trips, \A x \in Trips \ {t} : item'[x][q].status \notin HeldStatuses,
           item'[t][q].status \in HeldStatuses, placement'[q] = item'[t][q].status,
           inventory'[q] \in StockFor(item'[t][q], status'[t])
    PROVE  Agreed(q)'
<1>1. Holders(q)' = {t}
    BY DEF Holders, HeldStatuses
<1>2. inventory'[q] \in StockOf(t, q)'
    BY StockNow
<1>3. QED
    BY <1>1, <1>2 DEF Agreed

LEMMA AgreedFree ==
    ASSUME NEW q \in Packages, \A x \in Trips : item'[x][q].status \notin HeldStatuses,
           <<placement'[q], inventory'[q]>> \in {<<"placed", "in_stock">>, <<"hold", "hold">>}
    PROVE  Agreed(q)'
<1>1. Holders(q)' = {}
    BY DEF Holders, HeldStatuses
<1>2. QED
    BY <1>1 DEF Agreed

\* A trip that a step does not load, and gives no package to carry.
LEMMA PlannedStays ==
    ASSUME NEW x \in Trips, plan[x] \subseteq plan'[x], status'[x] = "loaded" => status[x] = "loaded",
           \A q \in Packages : item'[x][q].status \in ActiveStatuses => item[x][q].status \in ActiveStatuses
    PROVE  PlanStep(x)
BY DEF PlanStep, Planned, Active

\* A trip with the same status, plan and rows as before.
LEMMA AsideMoves ==
    ASSUME NEW x \in Trips, status'[x] = status[x], plan'[x] = plan[x], \A q \in Packages : item'[x][q] = item[x][q]
    PROVE  PlanStep(x) /\ Onward(x) /\ \A q \in Packages : RowChange(x, q)
BY PlannedStays DEF Onward, RowChange

\* The package of one row moves, by assignment or correction.
LEMMA OneRowMoves ==
    ASSUME StockInv, NEW t \in Trips, NEW p \in Packages,
           \A x \in Trips, q \in Packages : x # t \/ q # p => item'[x][q] = item[x][q],
           \A q \in Packages \ {p} : placement'[q] = placement[q] /\ inventory'[q] = inventory[q],
           \A x \in Trips \ {t} : status'[x] = status[x] /\ plan'[x] = plan[x],
           Onward(t), RowChange(t, p), PlanStep(t), AgreedStep(p)
    PROVE  Moves
<1>1. \A x \in Trips \ {t} : PlanStep(x) /\ Onward(x) /\ \A q \in Packages : RowChange(x, q)
    BY AsideMoves
<1>2. \A q \in Packages \ {p} : RowChange(t, q)
    BY DEF RowChange
<1>3. \A q \in Packages \ {p} : AgreedStep(q)
    BY <1>1, AgreedStays
<1>4. QED
    BY <1>1, <1>2, <1>3 DEF Moves

LEMMA AssignMoves ==
    ASSUME StockInv, NEW t \in Trips, NEW p \in Packages, AssignPlacement(t, p) PROVE Moves
<1>1. /\ status[t] \in {"draft", "planned", "loading"} /\ placement[p] = "placed" /\ inventory[p] = "in_stock"
      /\ SetItem(t, p, "assigned") /\ UNCHANGED <<status, plan, inventory>>
      /\ placement' = [placement EXCEPT ![p] = "assigned"] /\ placement'[p] = "assigned"
    BY DEF AssignPlacement, Assignable, lifecycle, StockInv, WarehouseTyped
<1>2. RowsTyped /\ "assigned" \in ItemStatuses
    BY DEF StockInv, CargoInv, ItemStatuses, ActiveStatuses
<1>3. /\ item'[t][p].status = "assigned"
      /\ item'[t][p].delivered = item[t][p].delivered /\ item'[t][p].accepted = item[t][p].accepted
      /\ \A x \in Trips, q \in Packages : x # t \/ q # p => item'[x][q] = item[x][q]
    BY <1>1, <1>2, SetItemEffect
<1>4. RowChange(t, p) /\ Onward(t) /\ PlanStep(t)
    BY <1>1, <1>3 DEF RowChange, Before, Unstarted, Onward, PlanStep
<1>5. AgreedStep(p)
    <2> SUFFICES ASSUME Agreed(p) PROVE Agreed(p)'
        BY DEF AgreedStep
    <2>1. \A x \in Trips \ {t} : item'[x][p].status \notin HeldStatuses
        BY <1>1, <1>3, PlacedAgreed DEF Holders, HeldStatuses
    <2>2. QED
        BY <1>1, <1>3, <2>1, AgreedHeld, StockCases DEF HeldStatuses
<1>6. QED
    BY <1>1, <1>3, <1>4, <1>5, OneRowMoves

\* A removed package was only assigned, since nothing is handled before the loading starts.
LEMMA RemoveMoves ==
    ASSUME StockInv, NEW t \in Trips, NEW p \in Packages, RemoveAssignment(t, p) PROVE Moves
<1> DEFINE row == [item[t] EXCEPT ![p] = NoItem]
<1>1. /\ row \in [Packages -> Item] /\ item' = [item EXCEPT ![t] = row]
      /\ row[p] = NoItem /\ \A q \in Packages \ {p} : row[q] = item[t][q]
    BY NoItemTyped DEF StockInv, CargoInv, RowsTyped, RemoveAssignment
<1>2. /\ status[t] \in {"draft", "planned"} /\ UNCHANGED <<status, inventory>>
      /\ plan' = [plan EXCEPT ![t] = @ \ {p}] /\ RowsTyped
      /\ placement' = [placement EXCEPT ![p] = "placed"] /\ placement'[p] = "placed"
      /\ item[t][p].status = "assigned" /\ item[t][p].delivered = 0 /\ item[t][p] \in Item
    BY DEF RemoveAssignment, lifecycle, StockInv, CargoInv, WarehouseTyped, History, Before, Unstarted, RowsTyped
<1> HIDE DEF row
<1>3. /\ item'[t][p] = NoItem
      /\ \A x \in Trips, q \in Packages : x # t \/ q # p => item'[x][q] = item[x][q]
      /\ \A x \in Trips \ {t} : plan'[x] = plan[x]
    BY <1>1, <1>2, RowEffect DEF RowsTyped
<1>4. item[t][p].accepted = 0
    BY <1>2 DEF StockInv, History, Item
<1>5. RowChange(t, p) /\ Onward(t) /\ PlanStep(t)
    BY <1>2, <1>3, <1>4, NoItemTyped DEF RowChange, Before, Unstarted, Onward, PlanStep
<1>6. AgreedStep(p)
    <2> SUFFICES ASSUME Agreed(p) PROVE Agreed(p)'
        BY DEF AgreedStep
    <2>1. Holders(p) = {t} /\ inventory[p] \in StockOf(t, p)
        BY <1>2, HeldAgreed DEF HeldStatuses
    <2>2. inventory[p] = "in_stock"
        BY <1>2, <2>1, StockNow, StockCases
    <2>3. \A x \in Trips : item'[x][p].status \notin HeldStatuses
        BY <1>3, <2>1, NoItemTyped DEF Holders, HeldStatuses
    <2>4. QED
        BY <1>2, <2>2, <2>3, AgreedFree
<1>7. QED
    BY <1>2, <1>3, <1>5, <1>6, OneRowMoves

LEMMA UnloadMoves ==
    ASSUME StockInv, NEW t \in Trips, NEW p \in Packages, NEW hold \in BOOLEAN, UnloadPackage(t, p, hold)
    PROVE  Moves
<1> DEFINE s == IF hold THEN "hold" ELSE "unloaded"
<1>1. /\ RowsTyped /\ s \in ItemStatuses /\ s \in {"hold", "unloaded"} /\ SetItem(t, p, s)
      /\ plan' = [plan EXCEPT ![t] = @ \ {p}] /\ status' = [status EXCEPT ![t] = "loading"]
      /\ status[t] \in {"loading", "loaded"} /\ item[t][p].status = "loaded"
      /\ placement' = [placement EXCEPT ![p] = s] /\ inventory' = [inventory EXCEPT ![p] = s]
    BY DEF StockInv, CargoInv, UnloadPackage, IsLoaded, Move, ItemStatuses, ActiveStatuses, L!CorrectLoading,
           L!PreDispatch, L!SetStatus
<1> HIDE DEF s
<1>2. /\ item'[t][p].status = s
      /\ item'[t][p].delivered = item[t][p].delivered /\ item'[t][p].accepted = item[t][p].accepted
      /\ \A x \in Trips, q \in Packages : x # t \/ q # p => item'[x][q] = item[x][q]
    BY <1>1, SetItemEffect
<1>3. /\ status'[t] = "loading" /\ placement'[p] = s /\ inventory'[p] = s
      /\ \A x \in Trips \ {t} : status'[x] = status[x] /\ plan'[x] = plan[x]
      /\ \A q \in Packages \ {p} : placement'[q] = placement[q] /\ inventory'[q] = inventory[q]
    BY <1>1 DEF RowsTyped, StockInv, WarehouseTyped
<1>4. RowChange(t, p) /\ Onward(t) /\ PlanStep(t)
    BY <1>1, <1>2, <1>3 DEF RowChange, Before, Unstarted, Onward, PlanStep
<1>5. AgreedStep(p)
    <2> SUFFICES ASSUME Agreed(p) PROVE Agreed(p)'
        BY DEF AgreedStep
    <2>1. \A x \in Trips \ {t} : item'[x][p].status \notin HeldStatuses
        BY <1>1, <1>2, HeldAgreed DEF Holders, HeldStatuses
    <2>2. QED
        BY <1>1, <1>2, <1>3, <2>1, AgreedHeld, StockCases DEF HeldStatuses
<1>6. QED
    BY <1>2, <1>3, <1>4, <1>5, OneRowMoves

LEMMA ReturnMoves ==
    ASSUME StockInv, NEW t \in Trips, NEW p \in Packages, NEW hold \in BOOLEAN, ReturnToWarehouse(t, p, hold)
    PROVE  Moves
<1> DEFINE held == hold \/ item[t][p].status = "hold"
           s == IF held THEN "hold" ELSE "returned"
<1>1. /\ RowsTyped /\ s \in ItemStatuses /\ s \in {"hold", "returned"} /\ SetItem(t, p, s) /\ UNCHANGED plan
      /\ status[t] \in {"loading", "loaded"} /\ item[t][p].status \in {"unloaded", "hold"}
      /\ placement' = [placement EXCEPT ![p] = IF s = "hold" THEN "hold" ELSE "placed"]
      /\ inventory' = [inventory EXCEPT ![p] = IF s = "hold" THEN "hold" ELSE "in_stock"]
    BY DEF StockInv, CargoInv, ReturnToWarehouse, Move, ItemStatuses, ActiveStatuses, L!CorrectLoading, L!PreDispatch
<1>2. status' = status
    BY DEF ReturnToWarehouse, L!CorrectLoading, L!SetStatus, StockInv, CargoInv, RowsTyped
<1> HIDE DEF s, held
<1>3. /\ item'[t][p].status = s
      /\ item'[t][p].delivered = item[t][p].delivered /\ item'[t][p].accepted = item[t][p].accepted
      /\ \A x \in Trips, q \in Packages : x # t \/ q # p => item'[x][q] = item[x][q]
    BY <1>1, SetItemEffect
<1>4. /\ placement'[p] = IF s = "hold" THEN "hold" ELSE "placed"
      /\ inventory'[p] = IF s = "hold" THEN "hold" ELSE "in_stock"
      /\ \A q \in Packages \ {p} : placement'[q] = placement[q] /\ inventory'[q] = inventory[q]
    BY <1>1 DEF StockInv, WarehouseTyped
<1>5. \A q \in Packages : item'[t][q].status \in ActiveStatuses => item[t][q].status \in ActiveStatuses
    BY <1>1, <1>3 DEF ActiveStatuses
<1>6. RowChange(t, p) /\ Onward(t) /\ PlanStep(t)
    BY <1>1, <1>2, <1>3, <1>5, PlannedStays DEF RowChange, Before, Unstarted, Onward
<1>7. AgreedStep(p)
    <2> SUFFICES ASSUME Agreed(p) PROVE Agreed(p)'
        BY DEF AgreedStep
    <2>1. \A x \in Trips \ {t} : item'[x][p].status \notin HeldStatuses
        BY <1>1, <1>3, HeldAgreed DEF Holders, HeldStatuses
    <2>2. CASE s = "hold"
        BY <1>1, <1>3, <1>4, <2>1, <2>2, AgreedHeld, StockCases DEF HeldStatuses
    <2>3. CASE s = "returned"
        <3>1. \A x \in Trips : item'[x][p].status \notin HeldStatuses
            BY <1>3, <2>1, <2>3 DEF HeldStatuses
        <3>2. QED
            BY <1>4, <2>3, <3>1, AgreedFree
    <2>4. QED
        BY <1>1, <2>2, <2>3
<1>8. QED
    BY <1>1, <1>2, <1>3, <1>4, <1>6, <1>7, OneRowMoves

\* The package comes back to the trip that still holds it, unless it had been returned.
LEMMA ReloadMoves ==
    ASSUME StockInv, NEW t \in Trips, NEW p \in Packages, ReloadPackage(t, p) PROVE Moves
<1>1. /\ RowsTyped /\ "loaded" \in ItemStatuses /\ SetItem(t, p, "loaded")
      /\ plan' = [plan EXCEPT ![t] = Active(t)] /\ item[t][p].status \in {"unloaded", "returned"}
      /\ status[t] = "loading" /\ status' = [status EXCEPT ![t] = StatusAfter(t)]
      /\ StatusAfter(t) \in {"loading", "loaded"}
      /\ placement' = [placement EXCEPT ![p] = "loaded"] /\ inventory' = [inventory EXCEPT ![p] = "loaded"]
    BY DEF StockInv, CargoInv, ReloadPackage, Move, ItemStatuses, ActiveStatuses, StatusAfter, L!CorrectLoading,
           L!SetStatus
<1>2. /\ item'[t][p].status = "loaded"
      /\ item'[t][p].delivered = item[t][p].delivered /\ item'[t][p].accepted = item[t][p].accepted
      /\ \A x \in Trips, q \in Packages : x # t \/ q # p => item'[x][q] = item[x][q]
    BY <1>1, SetItemEffect
<1>3. /\ status'[t] \in {"loading", "loaded"} /\ placement'[p] = "loaded" /\ inventory'[p] = "loaded"
      /\ \A x \in Trips \ {t} : status'[x] = status[x] /\ plan'[x] = plan[x]
      /\ \A q \in Packages \ {p} : placement'[q] = placement[q] /\ inventory'[q] = inventory[q]
    BY <1>1 DEF RowsTyped, StockInv, WarehouseTyped
<1>4. RowChange(t, p) /\ Onward(t)
    BY <1>1, <1>2, <1>3 DEF RowChange, Before, Unstarted, Onward
<1>5. PlanStep(t)
    BY <1>1, <1>2 DEF PlanStep, Reloads
<1>6. AgreedStep(p)
    <2> SUFFICES ASSUME Agreed(p), ~ReloadsReturned(p) PROVE Agreed(p)'
        BY DEF AgreedStep
    <2>1. item[t][p].status = "unloaded"
        BY <1>1, <1>2 DEF ReloadsReturned
    <2>2. \A x \in Trips \ {t} : item'[x][p].status \notin HeldStatuses
        BY <1>2, <2>1, HeldAgreed DEF Holders, HeldStatuses
    <2>3. QED
        BY <1>2, <1>3, <2>2, AgreedHeld, StockCases DEF HeldStatuses
<1>7. QED
    BY <1>2, <1>3, <1>4, <1>5, <1>6, OneRowMoves

\* The package leaves one trip and is assigned to another that is not loaded.
LEMMA TransferMoves ==
    ASSUME StockInv, NEW t \in Trips, NEW u \in Trips, NEW p \in Packages, TransferPackage(t, u, p)
    PROVE  Moves
<1>1. SetTwo(t, p, "transferred", u, p, "assigned")
    BY DEF TransferPackage, SetTwo
<1>2. /\ RowsTyped /\ "transferred" \in ItemStatuses /\ "assigned" \in ItemStatuses /\ t # u
      /\ item[t][p].status = "loaded" /\ status[t] \in {"loading", "loaded"} /\ status[u] \in {"planned", "loading"}
      /\ status' = [status EXCEPT ![t] = "loading"] /\ plan' = [plan EXCEPT ![t] = @ \ {p}]
      /\ placement' = [placement EXCEPT ![p] = "assigned"] /\ inventory' = [inventory EXCEPT ![p] = "in_stock"]
    BY DEF StockInv, CargoInv, TransferPackage, IsLoaded, Move, ItemStatuses, ActiveStatuses, L!CorrectLoading,
           L!PreDispatch, L!SetStatus
<1>3. TwoRows(t, p, "transferred", u, p, "assigned")
    BY <1>1, <1>2, SetTwoEffect
<1>4. /\ status'[t] = "loading" /\ placement'[p] = "assigned" /\ inventory'[p] = "in_stock"
      /\ \A x \in Trips \ {t} : status'[x] = status[x] /\ plan'[x] = plan[x]
      /\ \A q \in Packages \ {p} : placement'[q] = placement[q] /\ inventory'[q] = inventory[q]
    BY <1>2 DEF RowsTyped, StockInv, WarehouseTyped
<1>5. \A q \in Packages : RowChange(t, q) /\ RowChange(u, q)
    BY <1>2, <1>3, <1>4 DEF TwoRows, RowChange, Before, Unstarted
<1>6. Onward(t) /\ Onward(u) /\ PlanStep(t) /\ PlanStep(u)
    BY <1>2, <1>4 DEF Onward, PlanStep
<1>7. \A x \in Trips \ {t, u} : PlanStep(x) /\ Onward(x) /\ \A q \in Packages : RowChange(x, q)
    BY <1>3, <1>4, AsideMoves DEF TwoRows
<1>8. \A q \in Packages \ {p} : AgreedStep(q)
    BY <1>3, <1>4, <1>6, <1>7, AgreedStays DEF TwoRows
<1>9. AgreedStep(p)
    <2> SUFFICES ASSUME Agreed(p) PROVE Agreed(p)'
        BY DEF AgreedStep
    <2>1. \A x \in Trips \ {u} : item'[x][p].status \notin HeldStatuses
        BY <1>2, <1>3, HeldAgreed DEF TwoRows, Holders, HeldStatuses
    <2>2. item'[u][p].status = "assigned"
        BY <1>3 DEF TwoRows
    <2>3. QED
        BY <1>4, <2>1, <2>2, AgreedHeld, StockCases DEF HeldStatuses
<1>10. QED
    BY <1>5, <1>6, <1>7, <1>8, <1>9 DEF Moves

\* One package leaves the trip and another takes its place, in the plan too.
LEMMA ReplaceMoves ==
    ASSUME StockInv, NEW t \in Trips, NEW p \in Packages, NEW q \in Packages, NEW hold \in BOOLEAN,
           ReplacePackage(t, p, q, hold)
    PROVE  Moves
<1> DEFINE cargoAfter == (Active(t) \ {p}) \cup {q}
           place == IF hold THEN "hold" ELSE "placed"
           stock == IF hold THEN "hold" ELSE "in_stock"
<1>1. SetTwo(t, p, "replaced", t, q, "loaded")
    BY DEF ReplacePackage, SetTwo
<1>2. /\ RowsTyped /\ "replaced" \in ItemStatuses /\ "loaded" \in ItemStatuses /\ p # q
      /\ item[t][p].status = "loaded" /\ status[t] \in {"loading", "loaded"} /\ placement[q] = "placed"
      /\ status' = [status EXCEPT ![t] = StatusAfter(t)] /\ StatusAfter(t) \in {"loading", "loaded"}
      /\ plan' = [plan EXCEPT ![t] = cargoAfter]
    BY DEF StockInv, CargoInv, ReplacePackage, IsLoaded, Assignable, ItemStatuses, ActiveStatuses, StatusAfter,
           L!CorrectLoading, L!PreDispatch, L!SetStatus
<1>3. /\ placement' = [placement EXCEPT ![p] = place, ![q] = "loaded"]
      /\ inventory' = [inventory EXCEPT ![p] = stock, ![q] = "loaded"]
      /\ <<place, stock>> \in {<<"placed", "in_stock">>, <<"hold", "hold">>}
    BY DEF ReplacePackage
<1>4. TwoRows(t, p, "replaced", t, q, "loaded")
    BY <1>1, <1>2, SetTwoEffect
<1> HIDE DEF cargoAfter, place, stock
<1>5. /\ status'[t] \in {"loading", "loaded"} /\ plan'[t] = cargoAfter
      /\ placement'[p] = place /\ inventory'[p] = stock /\ placement'[q] = "loaded" /\ inventory'[q] = "loaded"
      /\ \A x \in Trips \ {t} : status'[x] = status[x] /\ plan'[x] = plan[x]
      /\ \A y \in Packages \ {p, q} : placement'[y] = placement[y] /\ inventory'[y] = inventory[y]
    BY <1>2, <1>3 DEF RowsTyped, StockInv, WarehouseTyped
<1>6. Onward(t) /\ \A y \in Packages : RowChange(t, y)
    BY <1>2, <1>4, <1>5 DEF TwoRows, RowChange, Before, Unstarted, Onward
<1>7. PlanStep(t)
    <2>1. \A y \in Packages : item'[t][y].status \in ActiveStatuses => y \in cargoAfter
        BY <1>4 DEF TwoRows, cargoAfter, Active, ActiveStatuses
    <2>2. QED
        BY <1>5, <2>1 DEF PlanStep, Planned, Active
<1>8. \A x \in Trips \ {t} : PlanStep(x) /\ Onward(x) /\ \A y \in Packages : RowChange(x, y)
    BY <1>4, <1>5, AsideMoves DEF TwoRows
<1>9. \A y \in Packages \ {p, q} : AgreedStep(y)
    BY <1>4, <1>5, <1>6, <1>8, AgreedStays DEF TwoRows
<1>10. ASSUME Agreed(p) PROVE Agreed(p)'
    <2>1. \A x \in Trips : item'[x][p].status \notin HeldStatuses
        BY <1>2, <1>4, <1>10, HeldAgreed DEF TwoRows, Holders, HeldStatuses
    <2>2. QED
        BY <1>3, <1>5, <2>1, AgreedFree
<1>11. ASSUME Agreed(q) PROVE Agreed(q)'
    <2>1. \A x \in Trips \ {t} : item'[x][q].status \notin HeldStatuses
        BY <1>2, <1>4, <1>11, PlacedAgreed DEF TwoRows, Holders, HeldStatuses
    <2>2. item'[t][q].status = "loaded"
        BY <1>4 DEF TwoRows
    <2>3. QED
        BY <1>5, <2>1, <2>2, AgreedHeld, StockCases DEF HeldStatuses
<1>12. QED
    BY <1>6, <1>7, <1>8, <1>9, <1>10, <1>11 DEF Moves, AgreedStep

-----------------------------------------------------------------------------
(* Commands on a whole trip. *)

\* The packages S of one trip move, and the rows of the others stay.
LEMMA OneTripMoves ==
    ASSUME StockInv, NEW t \in Trips, NEW S \in SUBSET Packages,
           \A x \in Trips \ {t} : status'[x] = status[x] /\ plan'[x] = plan[x] /\ item'[x] = item[x],
           \A q \in Packages \ S :
             /\ item'[t][q].status = item[t][q].status /\ item'[t][q].delivered = item[t][q].delivered
             /\ placement'[q] = placement[q] /\ inventory'[q] = inventory[q],
           Onward(t) \/ \A q \in Packages \ S : item[t][q].status # "loaded",
           \A q \in Packages : RowChange(t, q), \A q \in S : AgreedStep(q), PlanStep(t)
    PROVE  Moves
<1>1. \A x \in Trips \ {t} : PlanStep(x) /\ Onward(x) /\ \A q \in Packages : RowChange(x, q)
    BY AsideMoves
<1>2. \A q \in Packages \ S : AgreedStep(q)
    BY <1>1, AgreedStays
<1>3. QED
    BY <1>1, <1>2 DEF Moves

LEMMA CreateConsolidatedMoves ==
    ASSUME StockInv, NEW t \in Trips, NEW v \in Vehicles, NEW d \in Drivers \cup {None},
           NEW S \in SUBSET Packages, CreateConsolidatedTrip(t, v, d, S)
    PROVE  Moves
<1> DEFINE row == [p \in Packages |-> IF p \in S THEN [item[t][p] EXCEPT !.status = "assigned"] ELSE item[t][p]]
<1>1. RowsTyped /\ "assigned" \in ItemStatuses /\ WarehouseTyped
    BY DEF StockInv, CargoInv, ItemStatuses, ActiveStatuses
<1>2. /\ row \in [Packages -> Item]
      /\ \A p \in S : /\ row[p].status = "assigned" /\ row[p].delivered = item[t][p].delivered
                      /\ row[p].accepted = item[t][p].accepted
      /\ \A p \in Packages \ S : row[p] = item[t][p]
    BY <1>1, StatusUpdate DEF RowsTyped
<1>3. item' = [item EXCEPT ![t] = row]
    BY DEF CreateConsolidatedTrip
<1>4. /\ status[t] = "none" /\ status' = [status EXCEPT ![t] = "planned"] /\ UNCHANGED <<plan, inventory>>
      /\ placement' = SetPackages(S, placement, "assigned")
      /\ \A p \in S : placement[p] = "placed" /\ inventory[p] = "in_stock"
    BY DEF CreateConsolidatedTrip, Assignable, L!CreateTrip, L!CanCreate, L!Created, L!SetStatus
<1> HIDE DEF row
<1>5. /\ item'[t] = row /\ status'[t] = "planned"
      /\ \A x \in Trips \ {t} : status'[x] = status[x] /\ plan'[x] = plan[x] /\ item'[x] = item[x]
      /\ \A p \in Packages : placement'[p] = (IF p \in S THEN "assigned" ELSE placement[p])
    BY <1>1, <1>2, <1>3, <1>4, RowEffect DEF RowsTyped, SetPackages
<1>6. \A q \in Packages : RowChange(t, q)
    BY <1>2, <1>4, <1>5 DEF RowChange, Before, Unstarted
<1>7. Onward(t) /\ PlanStep(t)
    BY <1>4, <1>5 DEF Onward, Unstarted, PlanStep
<1>8. ASSUME NEW q \in S PROVE AgreedStep(q)
    <2> SUFFICES ASSUME Agreed(q) PROVE Agreed(q)'
        BY DEF AgreedStep
    <2>1. \A x \in Trips \ {t} : item'[x][q].status \notin HeldStatuses
        BY <1>4, <1>5, PlacedAgreed DEF Holders, HeldStatuses
    <2>2. item'[t][q].status = "assigned" /\ placement'[q] = "assigned" /\ inventory'[q] = "in_stock"
        BY <1>2, <1>4, <1>5
    <2>3. QED
        BY <2>1, <2>2, AgreedHeld, StockCases DEF HeldStatuses
<1>9. \A q \in Packages \ S : /\ item'[t][q] = item[t][q]
                              /\ placement'[q] = placement[q] /\ inventory'[q] = inventory[q]
    BY <1>2, <1>4, <1>5
<1>10. QED
    BY <1>5, <1>6, <1>7, <1>8, <1>9, OneTripMoves

LEMMA ConfirmMoves ==
    ASSUME StockInv, NEW t \in Trips, ConfirmLoading(t) PROVE Moves
<1> DEFINE new == {p \in Active(t) : item[t][p].status = "assigned"}
<1> DEFINE row == [p \in Packages |-> IF p \in new THEN [item[t][p] EXCEPT !.status = "loaded"] ELSE item[t][p]]
<1>1. RowsTyped /\ "loaded" \in ItemStatuses /\ WarehouseTyped
    BY DEF StockInv, CargoInv, ItemStatuses, ActiveStatuses
<1>2. /\ new \in SUBSET Packages /\ row \in [Packages -> Item]
      /\ \A p \in new : /\ row[p].status = "loaded" /\ item[t][p].status = "assigned"
                        /\ row[p].delivered = item[t][p].delivered /\ row[p].accepted = item[t][p].accepted
      /\ \A p \in Packages \ new : row[p] = item[t][p]
    BY <1>1, StatusUpdate DEF RowsTyped, Active
<1>3. item' = [item EXCEPT ![t] = row]
    BY DEF ConfirmLoading
<1>4. /\ status[t] = "loading" /\ status' = [status EXCEPT ![t] = "loaded"] /\ UNCHANGED plan
      /\ placement' = SetPackages(new, placement, "loaded") /\ inventory' = SetPackages(new, inventory, "loaded")
      /\ Active(t) \subseteq plan[t]
    BY DEF ConfirmLoading, L!ConfirmLoading, L!SetStatus
<1>5. \A p \in Packages : p \in new => p \in Active(t)
    OBVIOUS
<1> HIDE DEF row, new
<1>6. /\ item'[t] = row /\ status'[t] = "loaded"
      /\ \A x \in Trips \ {t} : status'[x] = status[x] /\ plan'[x] = plan[x] /\ item'[x] = item[x]
      /\ \A p \in Packages : /\ placement'[p] = (IF p \in new THEN "loaded" ELSE placement[p])
                             /\ inventory'[p] = (IF p \in new THEN "loaded" ELSE inventory[p])
    BY <1>1, <1>2, <1>3, <1>4, RowEffect DEF RowsTyped, SetPackages
<1>7. Onward(t) /\ \A q \in Packages : RowChange(t, q)
    BY <1>2, <1>4, <1>6 DEF RowChange, Before, Unstarted, Onward
<1>8. PlanStep(t)
    <2>1. \A p \in Packages : item'[t][p].status \in ActiveStatuses => p \in plan[t]
        BY <1>2, <1>4, <1>5, <1>6 DEF Active
    <2>2. QED
        BY <1>4, <2>1 DEF PlanStep, Planned, Active
<1>9. ASSUME NEW q \in new PROVE AgreedStep(q)
    <2> SUFFICES ASSUME Agreed(q) PROVE Agreed(q)'
        BY DEF AgreedStep
    <2>1. \A x \in Trips \ {t} : item'[x][q].status \notin HeldStatuses
        BY <1>2, <1>6, HeldAgreed DEF Holders, HeldStatuses
    <2>2. /\ item'[t][q].status = "loaded" /\ placement'[q] = "loaded" /\ inventory'[q] = "loaded"
          /\ q \in Packages
        BY <1>2, <1>6
    <2>3. QED
        BY <1>6, <2>1, <2>2, AgreedHeld, StockCases DEF HeldStatuses
<1>10. \A q \in Packages \ new : /\ item'[t][q] = item[t][q]
                                 /\ placement'[q] = placement[q] /\ inventory'[q] = inventory[q]
    BY <1>2, <1>6
<1>11. QED
    BY <1>2, <1>6, <1>7, <1>8, <1>9, <1>10, OneTripMoves

\* All cargo of a trip that departs is loaded, and none is delivered.
LEMMA DispatchMoves ==
    ASSUME StockInv, NEW t \in Trips, FinalDispatch(t) PROVE Moves
<1>1. /\ status[t] = "loaded" /\ status' = [status EXCEPT ![t] = "dispatched"]
      /\ UNCHANGED <<item, plan, placement>> /\ inventory' = SetPackages(Active(t), inventory, "dispatched")
    BY DEF FinalDispatch, L!FinalDispatch, L!CanDispatch, L!SetStatus
<1>2. /\ status'[t] = "dispatched" /\ Active(t) \in SUBSET Packages
      /\ \A x \in Trips \ {t} : status'[x] = status[x]
      /\ \A p \in Packages : inventory'[p] = (IF p \in Active(t) THEN "dispatched" ELSE inventory[p])
    BY <1>1 DEF StockInv, CargoInv, RowsTyped, Active, SetPackages
<1>3. /\ \A q \in Active(t) : item[t][q].status = "loaded" /\ item[t][q].delivered = 0
      /\ \A q \in Packages \ Active(t) : item[t][q].status # "loaded"
    BY <1>1 DEF StockInv, CargoInv, LoadedTripFullyLoaded, History, Before, Active, ActiveStatuses
<1>4. PlanStep(t) /\ \A q \in Packages : RowChange(t, q)
    BY <1>1, <1>2 DEF PlanStep, RowChange
<1>5. ASSUME NEW q \in Active(t) PROVE AgreedStep(q)
    <2> SUFFICES ASSUME Agreed(q) PROVE Agreed(q)'
        BY DEF AgreedStep
    <2>0. q \in Packages
        BY <1>2
    <2>1. /\ \A x \in Trips \ {t} : item'[x][q].status \notin HeldStatuses
          /\ placement[q] = "loaded"
        BY <1>1, <1>3, <2>0, HeldAgreed DEF Holders, HeldStatuses
    <2>2. /\ item'[t][q].status = "loaded" /\ item'[t][q].delivered = 0
          /\ placement'[q] = "loaded" /\ inventory'[q] = "dispatched"
        BY <1>1, <1>2, <1>3, <2>1
    <2>3. StockFor(item'[t][q], status'[t]) = {"dispatched"}
        BY <1>2, <2>2, StockCases DEF L!Departed
    <2>4. QED
        BY <2>0, <2>1, <2>2, <2>3, AgreedHeld DEF HeldStatuses
<1>6. QED
    BY <1>1, <1>2, <1>3, <1>4, <1>5, OneTripMoves

\* What a delivery, or an acceptance, does to a row.
LEMMA DeliveredRow ==
    ASSUME RowsTyped, NEW t \in Trips, NEW S \in SUBSET Active(t), NEW d \in [S -> Dispositions],
           RecordDelivery(t, S, d)
    PROVE  /\ item' \in [Trips -> [Packages -> Item]]
           /\ \A x \in Trips \ {t} : item'[x] = item[x]
           /\ \A p \in Packages \ S : item'[t][p] = item[t][p]
           /\ \A p \in S : /\ item'[t][p].status = item[t][p].status
                           /\ item'[t][p].delivered = d[p].delivered /\ item'[t][p].accepted = d[p].accepted
<1> DEFINE row == [p \in Packages |-> IF p \in S
            THEN [item[t][p] EXCEPT !.delivered = d[p].delivered, !.accepted = d[p].accepted] ELSE item[t][p]]
<1>1. ASSUME NEW p \in S
      PROVE  /\ p \in Packages /\ item[t][p] \in Item
             /\ d[p].delivered \in 0 .. Qty /\ d[p].accepted \in 0 .. Qty
    BY DEF RowsTyped, Dispositions, Active
<1>2. ASSUME NEW p \in S
      PROVE  /\ [item[t][p] EXCEPT !.delivered = d[p].delivered, !.accepted = d[p].accepted] \in Item
             /\ [item[t][p] EXCEPT !.delivered = d[p].delivered, !.accepted = d[p].accepted].status
                  = item[t][p].status
    BY <1>1, DeliveryUpdate, Zenon
<1>3. ASSUME NEW p \in S
      PROVE  row[p] \in Item /\ row[p].status = item[t][p].status
    BY <1>1, <1>2, Zenon
<1>4. ASSUME NEW p \in S
      PROVE  row[p].delivered = d[p].delivered /\ row[p].accepted = d[p].accepted
    <2>1. row[p] = [item[t][p] EXCEPT !.delivered = d[p].delivered, !.accepted = d[p].accepted]
        BY <1>1
    <2>2. item[t][p] \in Item
        BY <1>1
    <2>3. QED
        BY <2>1, <2>2 DEF Item
<1>5. \A p \in Packages \ S : row[p] = item[t][p] /\ item[t][p] \in Item
    BY DEF RowsTyped
<1>6. item' = [item EXCEPT ![t] = row]
    BY DEF RecordDelivery
<1>7. row \in [Packages -> Item]
    <2>1. \A p \in Packages : row[p] \in Item
        BY <1>3, <1>5
    <2> HIDE DEF row
    <2>2. QED
        BY <2>1, Zenon DEF row
<1> HIDE DEF row
<1>8. QED
    BY <1>1, <1>3, <1>4, <1>5, <1>6, <1>7, RowEffect

LEMMA AcceptedRow ==
    ASSUME RowsTyped, NEW t \in Trips, NEW S \in SUBSET Active(t), NEW r \in [S -> BOOLEAN], AcceptDelivery(t, S, r)
    PROVE  /\ item' \in [Trips -> [Packages -> Item]]
           /\ \A x \in Trips \ {t} : item'[x] = item[x]
           /\ \A p \in Packages : /\ item'[t][p].status = item[t][p].status
                                  /\ item'[t][p].delivered = item[t][p].delivered
                                  /\ item'[t][p].accepted = item[t][p].accepted
<1> DEFINE row == [p \in Packages |-> IF p \in S
            THEN [item[t][p] EXCEPT !.signed = TRUE, !.resolved = r[p]] ELSE item[t][p]]
           new(p) == [item[t][p] EXCEPT !.signed = TRUE, !.resolved = r[p]]
<1>1. ASSUME NEW p \in S
      PROVE  p \in Packages /\ item[t][p] \in Item /\ r[p] \in BOOLEAN
    BY DEF RowsTyped, Active
<1>2. ASSUME NEW p \in S
      PROVE  /\ new(p) \in Item /\ new(p).status = item[t][p].status
             /\ new(p).delivered = item[t][p].delivered /\ new(p).accepted = item[t][p].accepted
    BY <1>1, AcceptanceUpdate, Zenon
<1>3. /\ \A p \in S : row[p] = new(p)
      /\ \A p \in Packages \ S : row[p] = item[t][p] /\ item[t][p] \in Item
    BY <1>1 DEF RowsTyped
<1>4. item' = [item EXCEPT ![t] = row]
    BY DEF AcceptDelivery
<1>5. row \in [Packages -> Item]
    <2> HIDE DEF new
    <2>1. \A p \in Packages : row[p] \in Item
        BY <1>2, <1>3
    <2> HIDE DEF row
    <2>2. QED
        BY <2>1, Zenon DEF row
<1> HIDE DEF row, new
<1>6. \A p \in Packages : /\ row[p].status = item[t][p].status
                          /\ row[p].delivered = item[t][p].delivered /\ row[p].accepted = item[t][p].accepted
    BY <1>2, <1>3
<1>7. QED
    BY <1>4, <1>5, <1>6, RowEffect

\* Only what a departed trip has loaded is delivered, and the stock says which is.
LEMMA DeliveredMoves ==
    ASSUME StockInv, NEW t \in Trips, NEW S \in SUBSET Active(t), NEW d \in [S -> Dispositions],
           RecordDelivery(t, S, d)
    PROVE  Moves
<1> DEFINE complete == \A p \in Active(t) : item'[t][p].delivered >= Loaded(item[t][p])
<1>1. RowsTyped /\ WarehouseTyped /\ S \in SUBSET Packages
    BY DEF StockInv, CargoInv, Active
<1>2. L!RecordDelivery(t, complete)
    BY DEF RecordDelivery
<1> HIDE DEF complete
<1>3. /\ status[t] \in {"in_transit", "arrived"} /\ status'[t] \in {"in_transit", "arrived", "delivered"}
      /\ \A x \in Trips \ {t} : status'[x] = status[x]
    BY <1>1, <1>2 DEF L!RecordDelivery, L!SetStatus, RowsTyped
<1>4. /\ UNCHANGED <<placement, plan>>
      /\ \A p \in S : inventory'[p] = IF d[p].delivered > 0 THEN "delivered" ELSE "dispatched"
      /\ \A p \in Packages \ S : inventory'[p] = inventory[p]
    BY <1>1 DEF RecordDelivery
<1>5. \A p \in S : d[p].accepted <= d[p].delivered
    BY DEF Dispositions
<1>6. /\ \A x \in Trips \ {t} : item'[x] = item[x]
      /\ \A p \in Packages \ S : item'[t][p] = item[t][p]
      /\ \A p \in S : /\ item'[t][p].status = item[t][p].status
                      /\ item'[t][p].delivered = d[p].delivered /\ item'[t][p].accepted = d[p].accepted
    BY <1>1, DeliveredRow
<1>7. \A p \in S : item[t][p].status = "loaded"
    BY <1>1, <1>3 DEF StockInv, CargoInv, LoadedTripFullyLoaded, L!Departed, Active, ActiveStatuses
<1>8. Onward(t) /\ PlanStep(t)
    BY <1>3 DEF Onward, L!Departed, PlanStep
<1>9. \A q \in Packages : RowChange(t, q)
    BY <1>3, <1>5, <1>6 DEF RowChange
<1>10. ASSUME NEW q \in S PROVE AgreedStep(q)
    <2> SUFFICES ASSUME Agreed(q) PROVE Agreed(q)'
        BY DEF AgreedStep
    <2>0. q \in Packages
        BY <1>1
    <2>1. /\ \A x \in Trips \ {t} : item'[x][q].status \notin HeldStatuses
          /\ placement[q] = "loaded"
        BY <1>6, <1>7, <2>0, HeldAgreed DEF Holders, HeldStatuses
    <2>2. /\ item'[t][q].status = "loaded" /\ item'[t][q].delivered = d[q].delivered /\ placement'[q] = "loaded"
          /\ inventory'[q] = IF d[q].delivered > 0 THEN "delivered" ELSE "dispatched"
        BY <1>4, <1>6, <1>7, <2>1
    <2>3. StockFor(item'[t][q], status'[t]) = {IF d[q].delivered > 0 THEN "delivered" ELSE "dispatched"}
        BY <1>3, <2>2, StockCases DEF L!Departed
    <2>4. QED
        BY <2>0, <2>1, <2>2, <2>3, AgreedHeld DEF HeldStatuses
<1>11. \A q \in Packages \ S :
         /\ item'[t][q].status = item[t][q].status /\ item'[t][q].delivered = item[t][q].delivered
         /\ placement'[q] = placement[q] /\ inventory'[q] = inventory[q]
    BY <1>4, <1>6
<1>12. QED
    BY <1>1, <1>3, <1>4, <1>6, <1>8, <1>9, <1>10, <1>11, OneTripMoves

LEMMA AcceptedMoves ==
    ASSUME StockInv, NEW t \in Trips, NEW S \in SUBSET Active(t), NEW r \in [S -> BOOLEAN], AcceptDelivery(t, S, r)
    PROVE  Moves
<1> DEFINE complete == \A p \in Active(t) : item'[t][p].signed
<1>1. RowsTyped /\ {} \in SUBSET Packages
    BY DEF StockInv, CargoInv
<1>2. L!AcceptDelivery(t, complete)
    BY DEF AcceptDelivery
<1> HIDE DEF complete
<1>3. /\ status[t] \in {"in_transit", "arrived", "delivered"}
      /\ status'[t] \in {"in_transit", "arrived", "delivered", "accepted"}
      /\ \A x \in Trips \ {t} : status'[x] = status[x]
    BY <1>1, <1>2 DEF L!AcceptDelivery, L!SetStatus, RowsTyped
<1>4. UNCHANGED <<placement, inventory, plan>>
    BY DEF AcceptDelivery, warehouse
<1>5. /\ \A x \in Trips \ {t} : item'[x] = item[x]
      /\ \A p \in Packages : /\ item'[t][p].status = item[t][p].status
                             /\ item'[t][p].delivered = item[t][p].delivered
                             /\ item'[t][p].accepted = item[t][p].accepted
    BY <1>1, AcceptedRow
<1>6. Onward(t) /\ PlanStep(t) /\ \A q \in Packages : RowChange(t, q)
    BY <1>3, <1>5 DEF Onward, L!Departed, PlanStep, RowChange, StockInv, History
<1>7. QED
    BY <1>1, <1>3, <1>4, <1>5, <1>6, OneTripMoves

\* Plans, evidence, and the commands of the lifecycle move no package.
LEMMA QuietMoves ==
    ASSUME StockInv, UNCHANGED <<item, placement, inventory>>, \A x \in Trips : Onward(x) /\ PlanStep(x)
    PROVE  Moves
<1>1. \A x \in Trips, q \in Packages : RowChange(x, q)
    BY DEF RowChange
<1>2. \A q \in Packages : AgreedStep(q)
    BY AgreedStays
<1>3. QED
    BY <1>1, <1>2 DEF Moves

LEMMA CommandMoves == ASSUME StockInv, NEW t \in Trips, Command(t) PROVE Moves
<1>1. UNCHANGED <<item, placement, inventory, plan>> /\ status \in [Trips -> L!Statuses \cup {"none"}]
    BY DEF Command, cargo, StockInv, CargoInv, RowsTyped
<1>2. ASSUME NEW target \in L!Statuses, L!TransitionTrip(t, target)
      PROVE  /\ target \notin {"loaded", "dispatched"}
             /\ status' = [status EXCEPT ![t] = target]
             /\ {status[t], target} \subseteq L!Departed \/ target = "cancelled" \/ status[t] \in Unstarted
    BY <1>2, Zenon DEF L!TransitionTrip, L!CanTransition, L!Transitioned, L!Transitions, L!ManagedTargets,
                       L!SetStatus, L!Departed, Unstarted
<1>3. \A x \in Trips : Onward(x) /\ (status'[x] = "loaded" => status[x] = "loaded")
    BY <1>1, <1>2 DEF Command, L!CreateTrip, L!CanCreate, L!Created, L!UpdateAssignment, L!Assigned, L!GpsInTransit,
                      L!ConfirmArrival, L!SetStatus, L!Departed, Onward, Unstarted
<1>4. \A x \in Trips : PlanStep(x)
    BY <1>1, <1>3, PlannedStays
<1>5. QED
    BY <1>1, <1>3, <1>4, QuietMoves

LEMMA PaperMoves ==
    ASSUME StockInv, NEW t \in Trips,
           \/ \E S \in SUBSET Active(t) : SavePlan(t, S)
           \/ \E stage \in Stages : SaveTripEvidence(t, stage)
    PROVE  Moves
<1>1. UNCHANGED <<status, item, placement, inventory>>
    BY DEF SavePlan, SaveTripEvidence, lifecycle, warehouse
<1>2. \A x \in Trips : plan[x] \subseteq plan'[x]
    BY DEF SavePlan, SaveTripEvidence, StockInv, CargoInv, RowsTyped
<1>3. \A x \in Trips : Onward(x) /\ PlanStep(x)
    BY <1>1, <1>2, PlannedStays DEF Onward
<1>4. QED
    BY <1>1, <1>3, QuietMoves

LEMMA StepMoves == StockInv /\ [Next]_vars => Moves
<1> SUFFICES ASSUME StockInv, [Next]_vars PROVE Moves
    OBVIOUS
<1>1. ASSUME NEW t \in Trips, Execution(t) PROVE Moves
    BY <1>1, CommandMoves, AssignMoves, CreateConsolidatedMoves, RemoveMoves, PaperMoves, ConfirmMoves, DispatchMoves,
       DeliveredMoves, AcceptedMoves
    DEF Execution
<1>2. ASSUME NEW t \in Trips, Correction(t) PROVE Moves
    BY <1>2, UnloadMoves, ReturnMoves, ReloadMoves, TransferMoves, ReplaceMoves DEF Correction
<1>3. CASE Fleet \/ UNCHANGED vars
    <2>1. UNCHANGED <<status, item, placement, inventory, plan>>
        BY <1>3 DEF Fleet, L!VehicleStep, L!UpdateVehicleState, L!UpdateVehicle, cargo, vars, lifecycle
    <2>2. \A x \in Trips : Onward(x) /\ PlanStep(x)
        BY <2>1, PlannedStays DEF Onward
    <2>3. QED
        BY <2>1, <2>2, QuietMoves
<1>4. QED
    BY <1>1, <1>2, <1>3 DEF Next

LEMMA HistoryKept == StockInv /\ [Next]_vars => StockInv'
<1> SUFFICES ASSUME StockInv, [Next]_vars PROVE StockInv'
    OBVIOUS
<1>1. CargoInv' /\ WarehouseTyped' /\ RowsTyped
    BY NextStep, WarehouseKept DEF StockInv, CargoInv
<1>2. ASSUME NEW x \in Trips, NEW q \in Packages
      PROVE  /\ item'[x][q].accepted <= item'[x][q].delivered
             /\ status'[x] \in Before => item'[x][q].delivered = 0
             /\ status'[x] \in Unstarted => item'[x][q].status \in {"none", "assigned"}
    <2>1. RowChange(x, q) /\ Forth(x)
        BY <1>1, StepMoves, TripsGoOn DEF Moves
    <2>2. /\ item[x][q].accepted <= item[x][q].delivered
          /\ status[x] \in Before => item[x][q].delivered = 0
          /\ status[x] \in Unstarted => item[x][q].status \in {"none", "assigned"}
        BY DEF StockInv, History
    <2>3. QED
        BY <2>1, <2>2 DEF RowChange, Forth, Before, Unstarted
<1>3. QED
    BY <1>1, <1>2 DEF StockInv, History

LEMMA InitialStock == Init => StockInv
<1>1. Init => WarehouseTyped
    BY DEF Init, CargoInit, WarehouseTyped, Places, Stocks
<1>2. Init => History
    BY NoItemTyped DEF Init, CargoInit, History
<1>3. QED
    BY <1>1, <1>2, InitialCargo DEF StockInv

\* A package is held by one trip at most, and the placement and the inventory follow it through
\* assignment, loading, departure and delivery, and through every correction but the reload of a
\* package that had been returned; and a trip comes to be loaded, or stays so, with all its cargo
\* in the plan, unless a reload rebuilds the plan.
THEOREM ReloadAloneDiverges == Spec => OnlyReloadDiverges
<1>1. Moves => /\ \A p \in Packages : Agreed(p) /\ ~ReloadsReturned(p) => Agreed(p)'
               /\ \A t \in Trips :
                    status'[t] = "loaded" /\ (status[t] = "loaded" => Planned(t)) /\ ~Reloads(t) => Planned(t)'
    BY DEF Moves, AgreedStep, PlanStep
<1>2. QED
    BY <1>1, InitialStock, StepMoves, HistoryKept, PTL DEF Spec, OnlyReloadDiverges

-----------------------------------------------------------------------------
(* What the orders are told of their lines.  The sums over rows, with the  *)
(* rows as a parameter, so that those before and after a step compare.     *)

ActiveTrips(i, p) == {t \in Trips : i[t][p].status \in ActiveStatuses}
DeliveredOf(i, p) == Amount([t \in ActiveTrips(i, p) |-> i[t][p].delivered], ActiveTrips(i, p))
LineDelivered(i, l) == Amount([p \in OfLine(l) |-> DeliveredOf(i, p)], OfLine(l))

LEMMA Finite ==
    /\ IsFiniteSet(Trips) /\ \A T \in SUBSET Trips : IsFiniteSet(T)
    /\ \A S \in SUBSET Packages : IsFiniteSet(S) /\ Cardinality(S) \in Nat
    /\ \A l \in Lines : IsFiniteSet(OfLine(l)) /\ OfLine(l) \in SUBSET Packages
<1>1. IsFiniteSet(Trips) /\ IsFiniteSet(Packages) /\ \A l \in Lines : OfLine(l) \in SUBSET Packages
    BY ShipmentAssumption DEF OfLine
<1>2. QED
    BY <1>1, FS_Subset, FS_CardinalityType

LEMMA QtyNat == Qty \in Nat
BY ShipmentAssumption

\* Where nothing active loses what was delivered of it, the line has as much delivered.
LEMMA DeliveredGrows ==
    ASSUME NEW i \in [Trips -> [Packages -> Item]], NEW j \in [Trips -> [Packages -> Item]], NEW l \in Lines,
           \A x \in Trips, p \in OfLine(l) :
             i[x][p].status \in ActiveStatuses /\ i[x][p].delivered > 0
               => j[x][p].status \in ActiveStatuses /\ i[x][p].delivered <= j[x][p].delivered
    PROVE  /\ LineDelivered(i, l) <= LineDelivered(j, l)
           /\ LineDelivered(i, l) \in Nat /\ LineDelivered(j, l) \in Nat
<1>1. \A x \in Trips, p \in OfLine(l) : i[x][p].delivered \in Nat /\ j[x][p].delivered \in Nat
    BY Finite, QtyNat DEF Item
<1>2. ASSUME NEW p \in OfLine(l)
      PROVE  DeliveredOf(i, p) <= DeliveredOf(j, p) /\ DeliveredOf(i, p) \in Nat /\ DeliveredOf(j, p) \in Nat
    <2> DEFINE f == [t \in ActiveTrips(i, p) |-> i[t][p].delivered]
               g == [t \in ActiveTrips(j, p) |-> j[t][p].delivered]
               S == ActiveTrips(i, p)
               T == ActiveTrips(j, p)
    <2>1. IsFiniteSet(S) /\ IsFiniteSet(T)
        BY Finite DEF ActiveTrips
    <2>2. /\ \A t \in T : g[t] \in Nat
          /\ \A t \in S : f[t] \in Nat /\ (f[t] > 0 => t \in T /\ f[t] <= g[t])
        BY <1>1 DEF ActiveTrips
    <2>3. DeliveredOf(i, p) = Amount(f, S) /\ DeliveredOf(j, p) = Amount(g, T)
        BY DEF DeliveredOf
    <2> HIDE DEF f, g, S, T
    <2>4. QED
        BY <2>1, <2>2, <2>3, AmountGrows
<1> DEFINE f == [p \in OfLine(l) |-> DeliveredOf(i, p)]
           g == [p \in OfLine(l) |-> DeliveredOf(j, p)]
<1>3. /\ IsFiniteSet(OfLine(l)) /\ \A p \in OfLine(l) : g[p] \in Nat
      /\ \A p \in OfLine(l) : f[p] \in Nat /\ (f[p] > 0 => p \in OfLine(l) /\ f[p] <= g[p])
    BY <1>2, Finite
<1>4. LineDelivered(i, l) = Amount(f, OfLine(l)) /\ LineDelivered(j, l) = Amount(g, OfLine(l))
    BY DEF LineDelivered
<1> HIDE DEF f, g
<1>5. QED
    BY <1>3, <1>4, AmountGrows

\* The sums of the properties are these sums.
LEMMA DeliveredNow ==
    ASSUME NEW l \in Lines
    PROVE  /\ SumOver(OfLine(l), LAMBDA p : SumOver(Claims(p), LAMBDA t : item[t][p].delivered)) = LineDelivered(item, l)
           /\ SumOver(OfLine(l), LAMBDA p : SumOver(Claims(p), LAMBDA t : item[t][p].delivered))'
                = LineDelivered(item', l)
<1>1. \A p \in OfLine(l) : Claims(p) = ActiveTrips(item, p) /\ Claims(p)' = ActiveTrips(item', p)
    BY Finite DEF Claims, Active, ActiveTrips
<1>2. \A p \in OfLine(l) : SumOver(Claims(p), LAMBDA t : item[t][p].delivered) = DeliveredOf(item, p)
    BY <1>1 DEF SumOver, DeliveredOf
<1>3. QED
    BY <1>1, <1>2 DEF SumOver, LineDelivered, DeliveredOf

\* A quantity of every active row of the line, as Total sums it.
CountedOf(p, kind) ==
    Amount([t \in ActiveTrips(item', p) |-> Quantity(kind, t, p)], ActiveTrips(item', p))

LEMMA TotalIs ==
    ASSUME NEW l \in Lines, NEW kind \in Kinds
    PROVE  Total(l, kind) = Amount([p \in OfLine(l) |-> CountedOf(p, kind)], OfLine(l))
<1>1. \A p \in OfLine(l) :
        SumOver({t \in Trips : item'[t][p].status \in ActiveStatuses}, LAMBDA t : Quantity(kind, t, p))
          = CountedOf(p, kind)
    BY DEF SumOver, CountedOf, ActiveTrips
<1>2. QED
    BY <1>1 DEF Total, SumOver

\* Every quantity that evidence is written of is a number of products.
LEMMA QuantityTyped ==
    ASSUME item' \in [Trips -> [Packages -> Item]], NEW t \in Trips, NEW p \in Packages, NEW kind \in Kinds
    PROVE  /\ Quantity(kind, t, p) \in Nat
           /\ Quantity("delivered", t, p) = item'[t][p].delivered
           /\ item'[t][p].accepted <= item'[t][p].delivered
                => Quantity("accepted", t, p) <= item'[t][p].delivered
<1>0. /\ item'[t][p].delivered \in Nat /\ item'[t][p].accepted \in Nat /\ item'[t][p].signed \in BOOLEAN
      /\ Qty \in Nat
    BY QtyNat DEF Item
<1>1. Quantity("loaded", t, p) \in Nat
    BY <1>0 DEF Quantity, LoadedQuantity, Loaded
<1>2. Quantity("dispatched", t, p) \in Nat
    BY <1>0 DEF Quantity, DispatchedQuantity, Loaded
<1>3. Quantity("delivered", t, p) = item'[t][p].delivered
    BY DEF Quantity, DeliveredQuantity
<1>4. Quantity("accepted", t, p) = IF item'[t][p].signed THEN item'[t][p].accepted ELSE 0
    BY DEF Quantity, AcceptedQuantity
<1>5. QED
    BY <1>0, <1>1, <1>2, <1>3, <1>4 DEF Kinds

LEMMA TotalTyped ==
    ASSUME item' \in [Trips -> [Packages -> Item]], NEW l \in Lines, NEW kind \in Kinds
    PROVE  Total(l, kind) \in Nat
<1>1. ASSUME NEW p \in OfLine(l) PROVE CountedOf(p, kind) \in Nat
    <2> DEFINE T == ActiveTrips(item', p)
               f == [t \in T |-> Quantity(kind, t, p)]
    <2>1. IsFiniteSet(T) /\ \A t \in T : f[t] \in Nat
        BY Finite, QuantityTyped DEF ActiveTrips
    <2>2. CountedOf(p, kind) = Amount(f, T)
        BY DEF CountedOf
    <2> HIDE DEF T, f
    <2>3. QED
        BY <2>1, <2>2, PiecesFinite
<1> DEFINE f == [p \in OfLine(l) |-> CountedOf(p, kind)]
<1>2. IsFiniteSet(OfLine(l)) /\ \A p \in OfLine(l) : f[p] \in Nat
    BY <1>1, Finite
<1>3. Total(l, kind) = Amount(f, OfLine(l))
    BY TotalIs
<1> HIDE DEF f
<1>4. QED
    BY <1>2, <1>3, PiecesFinite

\* The total of the deliveries is what the line has delivered.
LEMMA TotalDelivered ==
    ASSUME item' \in [Trips -> [Packages -> Item]], NEW l \in Lines
    PROVE  Total(l, "delivered") = LineDelivered(item', l)
<1>1. ASSUME NEW p \in OfLine(l) PROVE CountedOf(p, "delivered") = DeliveredOf(item', p)
    <2>1. \A t \in ActiveTrips(item', p) : Quantity("delivered", t, p) = item'[t][p].delivered
        BY Finite, QuantityTyped DEF ActiveTrips, Kinds
    <2>2. QED
        BY <2>1 DEF CountedOf, DeliveredOf
<1>2. Total(l, "delivered") = Amount([p \in OfLine(l) |-> CountedOf(p, "delivered")], OfLine(l))
    BY TotalIs DEF Kinds
<1>3. QED
    BY <1>1, <1>2 DEF LineDelivered

\* No more is accepted in total than is delivered.
LEMMA TotalAccepted ==
    ASSUME item' \in [Trips -> [Packages -> Item]], NEW l \in Lines,
           \A t \in Trips, p \in Packages : item'[t][p].accepted <= item'[t][p].delivered
    PROVE  Total(l, "accepted") <= LineDelivered(item', l)
<1>0. "accepted" \in Kinds
    BY DEF Kinds
<1>1. ASSUME NEW p \in OfLine(l)
      PROVE  CountedOf(p, "accepted") <= DeliveredOf(item', p)
             /\ CountedOf(p, "accepted") \in Nat /\ DeliveredOf(item', p) \in Nat
    <2> DEFINE T == ActiveTrips(item', p)
               f == [t \in T |-> Quantity("accepted", t, p)]
               g == [t \in T |-> item'[t][p].delivered]
    <2>1. IsFiniteSet(T)
        BY Finite DEF ActiveTrips
    <2>2. \A t \in T : f[t] \in Nat /\ g[t] \in Nat /\ f[t] <= g[t]
        BY <1>0, Finite, QuantityTyped, QtyNat DEF ActiveTrips, Item
    <2>3. CountedOf(p, "accepted") = Amount(f, T) /\ DeliveredOf(item', p) = Amount(g, T)
        BY DEF CountedOf, DeliveredOf
    <2> HIDE DEF T, f, g
    <2>4. QED
        BY <2>1, <2>2, <2>3, AmountGrows
<1> DEFINE f == [p \in OfLine(l) |-> CountedOf(p, "accepted")]
           g == [p \in OfLine(l) |-> DeliveredOf(item', p)]
<1>2. IsFiniteSet(OfLine(l)) /\ \A p \in OfLine(l) : f[p] \in Nat /\ g[p] \in Nat /\ f[p] <= g[p]
    BY <1>1, Finite
<1>3. Total(l, "accepted") = Amount(f, OfLine(l)) /\ LineDelivered(item', l) = Amount(g, OfLine(l))
    BY <1>0, TotalIs DEF LineDelivered
<1> HIDE DEF f, g
<1>4. QED
    BY <1>2, <1>3, AmountGrows

\* The ledger.
LedgerTyped == ledger \in [Lines -> [Kinds -> Nat]]

LEMMA LedgerWrites ==
    ASSUME LedgerTyped, item' \in [Trips -> [Packages -> Item]], NEW t \in Trips, NEW kind \in Kinds,
           RecordItemOperations(t, kind)
    PROVE  /\ ledger' \in [Lines -> [Kinds -> Nat]]
           /\ \A l \in Lines :
                /\ \A k \in Kinds \ {kind} : ledger'[l][k] = ledger[l][k]
                /\ ledger'[l][kind] >= ledger[l][kind]
                /\ ledger'[l][kind] = ledger[l][kind] \/ ledger'[l][kind] = Total(l, kind)
                /\ l \in JobsOf(t) /\ Total(l, kind) > 0 => ledger'[l][kind] = Total(l, kind)
<1> DEFINE writes(l) == l \in JobsOf(t) /\ Total(l, kind) > 0
<1>1. /\ \A l \in Lines : writes(l) => ledger[l][kind] <= Total(l, kind)
      /\ ledger' = [l \in Lines |-> IF writes(l) THEN [ledger[l] EXCEPT ![kind] = Total(l, kind)] ELSE ledger[l]]
    BY DEF RecordItemOperations
<1>2. \A l \in Lines : Total(l, kind) \in Nat
    BY TotalTyped
<1>3. ASSUME NEW l \in Lines
      PROVE  /\ ledger'[l] \in [Kinds -> Nat]
             /\ \A k \in Kinds \ {kind} : ledger'[l][k] = ledger[l][k]
             /\ ledger'[l][kind] >= ledger[l][kind]
             /\ ledger'[l][kind] = ledger[l][kind] \/ ledger'[l][kind] = Total(l, kind)
             /\ writes(l) => ledger'[l][kind] = Total(l, kind)
    <2> HIDE DEF writes
    <2>1. CASE writes(l)
        <3>1. ledger'[l] = [ledger[l] EXCEPT ![kind] = Total(l, kind)]
            BY <1>1, <2>1
        <3>2. Total(l, kind) \in Nat /\ ledger[l] \in [Kinds -> Nat] /\ ledger[l][kind] <= Total(l, kind)
            BY <1>1, <1>2, <2>1 DEF LedgerTyped
        <3> HIDE DEF Total
        <3>3. QED
            BY <3>1, <3>2
    <2>2. CASE ~writes(l)
        <3>1. ledger'[l] = ledger[l] /\ ledger[l] \in [Kinds -> Nat]
            BY <1>1, <2>2 DEF LedgerTyped
        <3>2. QED
            BY <2>2, <3>1
    <2>3. QED
        BY <2>1, <2>2
<1>4. ledger' \in [Lines -> [Kinds -> Nat]]
    <2>1. \E f : ledger' = [l \in Lines |-> f[l]]
        <3>1. ledger' = [l \in Lines |-> ledger'[l]]
            BY <1>1
        <3>2. QED
            BY <3>1
    <2>2. QED
        BY <1>3, <2>1
<1>5. QED
    BY <1>3, <1>4

AccountInv == StockInv /\ LedgerTyped /\ LinesAccounted

\* What all steps but a delivery leave of the cargo that has departed, and write to the ledger.
Undelivered ==
    /\ \A x \in Trips, q \in Packages : status[x] \notin Before =>
         item'[x][q].status = item[x][q].status /\ item'[x][q].delivered = item[x][q].delivered
    /\ \/ UNCHANGED ledger
       \/ \E t \in Trips, kind \in Kinds \ {"delivered"} : RecordItemOperations(t, kind)

LEMMA CorrectionUndelivered == ASSUME RowsTyped, NEW t \in Trips, Correction(t) PROVE Undelivered
<1> USE DEF Before, Unstarted
<1>1. UNCHANGED ledger
    BY DEF Correction, UnloadPackage, ReturnToWarehouse, ReloadPackage, TransferPackage, ReplacePackage
<1>2. ASSUME NEW p \in Packages, NEW hold \in BOOLEAN,
             \/ UnloadPackage(t, p, hold) \/ ReturnToWarehouse(t, p, hold) \/ ReloadPackage(t, p)
      PROVE  \A x \in Trips : status[x] \notin Before => item'[x] = item[x]
    <2>1. status[t] \in Before /\ \E s : SetItem(t, p, s)
        BY <1>2 DEF UnloadPackage, ReturnToWarehouse, ReloadPackage, L!CorrectLoading, L!PreDispatch
    <2>2. \A x \in Trips \ {t} : item'[x] = item[x]
        BY <2>1 DEF SetItem, RowsTyped
    <2>3. QED
        BY <2>1, <2>2
<1>3. ASSUME NEW u \in Trips, NEW p \in Packages, TransferPackage(t, u, p)
      PROVE  \A x \in Trips : status[x] \notin Before => item'[x] = item[x]
    <2>1. /\ status[t] \in Before /\ status[u] \in Before
          /\ item' = [item EXCEPT ![t][p].status = "transferred", ![u][p].status = "assigned"]
        BY <1>3 DEF TransferPackage, L!CorrectLoading, L!PreDispatch
    <2>2. \A x \in Trips \ {t, u} : item'[x] = item[x]
        BY <2>1 DEF RowsTyped
    <2>3. QED
        BY <2>1, <2>2
<1>4. ASSUME NEW p \in Packages, NEW q \in Packages, NEW hold \in BOOLEAN, ReplacePackage(t, p, q, hold)
      PROVE  \A x \in Trips : status[x] \notin Before => item'[x] = item[x]
    <2>1. /\ status[t] \in Before
          /\ item' = [item EXCEPT ![t][p].status = "replaced", ![t][q].status = "loaded"]
        BY <1>4 DEF ReplacePackage, L!CorrectLoading, L!PreDispatch
    <2>2. \A x \in Trips \ {t} : item'[x] = item[x]
        BY <2>1 DEF RowsTyped
    <2>3. QED
        BY <2>1, <2>2
<1> HIDE DEF Before, Unstarted
<1>5. \A x \in Trips : status[x] \notin Before => item'[x] = item[x]
    BY <1>2, <1>3, <1>4 DEF Correction
<1>6. QED
    BY <1>1, <1>5 DEF Undelivered

LEMMA ExecutionUndelivered ==
    ASSUME RowsTyped, NEW t \in Trips, Execution(t)
    PROVE  \/ Undelivered
           \/ \E S \in SUBSET Active(t) : \E d \in [S -> Dispositions] : RecordDelivery(t, S, d)
<1> USE DEF Before, Unstarted
<1>1. CASE \/ Command(t)
           \/ \E S \in SUBSET Active(t) : SavePlan(t, S)
           \/ \E stage \in Stages : SaveTripEvidence(t, stage)
    BY <1>1 DEF Command, cargo, SavePlan, SaveTripEvidence, Undelivered
<1>2. ASSUME NEW p \in Packages, AssignPlacement(t, p) \/ RemoveAssignment(t, p) PROVE Undelivered
    <2>1. status[t] \in Before /\ UNCHANGED ledger
        BY <1>2 DEF AssignPlacement, RemoveAssignment
    <2>2. \A x \in Trips \ {t} : item'[x] = item[x]
        BY <1>2 DEF AssignPlacement, RemoveAssignment, SetItem, RowsTyped
    <2>3. QED
        BY <2>1, <2>2 DEF Undelivered
<1>3. ASSUME NEW v \in Vehicles, NEW d \in Drivers \cup {None}, NEW S \in SUBSET Packages,
             CreateConsolidatedTrip(t, v, d, S)
      PROVE  Undelivered
    <2>1. status[t] \in Before /\ UNCHANGED ledger
        BY <1>3 DEF CreateConsolidatedTrip, L!CreateTrip, L!CanCreate
    <2>2. \A x \in Trips \ {t} : item'[x] = item[x]
        BY <1>3 DEF CreateConsolidatedTrip, RowsTyped
    <2>3. QED
        BY <2>1, <2>2 DEF Undelivered
<1>4. CASE ConfirmLoading(t)
    <2>1. status[t] \in Before /\ RecordItemOperations(t, "loaded")
        BY <1>4 DEF ConfirmLoading, L!ConfirmLoading
    <2>2. \A x \in Trips \ {t} : item'[x] = item[x]
        BY <1>4 DEF ConfirmLoading, RowsTyped
    <2>3. QED
        BY <2>1, <2>2 DEF Undelivered, Kinds
<1>5. CASE FinalDispatch(t)
    <2>1. UNCHANGED item /\ RecordItemOperations(t, "dispatched")
        BY <1>5 DEF FinalDispatch
    <2>2. QED
        BY <2>1 DEF Undelivered, Kinds
<1>6. ASSUME NEW S \in SUBSET Active(t), NEW r \in [S -> BOOLEAN], AcceptDelivery(t, S, r) PROVE Undelivered
    <2>1. RecordItemOperations(t, "accepted")
        BY <1>6 DEF AcceptDelivery
    <2>2. /\ \A x \in Trips \ {t} : item'[x] = item[x]
          /\ \A p \in Packages : /\ item'[t][p].status = item[t][p].status
                                 /\ item'[t][p].delivered = item[t][p].delivered
        BY <1>6, AcceptedRow
    <2>3. QED
        BY <2>1, <2>2 DEF Undelivered, Kinds
<1>7. QED
    BY <1>1, <1>2, <1>3, <1>4, <1>5, <1>6 DEF Execution

LEMMA StepUndelivered ==
    ASSUME RowsTyped, [Next]_vars
    PROVE  \/ Undelivered
           \/ \E t \in Trips : \E S \in SUBSET Active(t) : \E d \in [S -> Dispositions] : RecordDelivery(t, S, d)
<1>1. ASSUME Fleet \/ UNCHANGED vars PROVE Undelivered
    BY <1>1 DEF Fleet, vars, cargo, Undelivered
<1>2. QED
    BY <1>1, CorrectionUndelivered, ExecutionUndelivered DEF Next

\* The ledger covers the deliveries: only a delivery adds to them, and it writes their total.
Covered(l) ==
    /\ LineDelivered(item', l) <= ledger'[l]["delivered"]
    /\ ledger'[l]["accepted"] <= ledger'[l]["delivered"]

LEMMA UndeliveredCovered ==
    ASSUME AccountInv, Moves, Undelivered, item' \in [Trips -> [Packages -> Item]],
           \A x \in Trips, q \in Packages : item'[x][q].accepted <= item'[x][q].delivered
    PROVE  LedgerTyped' /\ \A l \in Lines : Covered(l)
<1>0. item \in [Trips -> [Packages -> Item]] /\ LedgerTyped /\ {"delivered", "accepted"} \subseteq Kinds
    BY DEF AccountInv, StockInv, CargoInv, RowsTyped, Kinds
<1>1. ASSUME NEW x \in Trips, NEW q \in Packages,
             item'[x][q].status \in ActiveStatuses, item'[x][q].delivered > 0
      PROVE  item[x][q].status \in ActiveStatuses /\ item'[x][q].delivered <= item[x][q].delivered
    <2>1. CASE status[x] \in Before
        <3>1. item[x][q].delivered = 0
            BY <2>1 DEF AccountInv, StockInv, History
        <3>2. RowChange(x, q)
            BY DEF Moves
        <3>3. QED
            BY <1>1, <2>1, <3>1, <3>2 DEF RowChange, Before, Unstarted
    <2>2. CASE status[x] \notin Before
        <3>1. item[x][q].delivered \in Nat
            BY <1>0, QtyNat DEF Item
        <3>2. QED
            BY <1>1, <2>2, <3>1 DEF Undelivered
    <2>3. QED
        BY <2>1, <2>2
<1>2. ASSUME NEW l \in Lines
      PROVE  /\ LineDelivered(item', l) <= LineDelivered(item, l)
             /\ LineDelivered(item', l) \in Nat /\ LineDelivered(item, l) \in Nat
    <2>1. \A x \in Trips, p \in OfLine(l) :
             item'[x][p].status \in ActiveStatuses /\ item'[x][p].delivered > 0
               => item[x][p].status \in ActiveStatuses /\ item'[x][p].delivered <= item[x][p].delivered
        BY <1>1, Finite
    <2>2. QED
        BY <1>0, <2>1, DeliveredGrows
<1>3. ASSUME NEW l \in Lines
      PROVE  /\ LineDelivered(item, l) <= ledger[l]["delivered"]
             /\ ledger[l]["accepted"] <= ledger[l]["delivered"]
             /\ ledger[l]["accepted"] \in Nat /\ ledger[l]["delivered"] \in Nat
    <2>1. /\ LineDelivered(item, l) <= ledger[l]["delivered"]
          /\ ledger[l]["accepted"] <= ledger[l]["delivered"]
        BY DeliveredNow DEF AccountInv, LinesAccounted, LedgerCoversDelivery
    <2>2. QED
        BY <1>0, <2>1 DEF LedgerTyped
<1>4. CASE UNCHANGED ledger
    <2>1. LedgerTyped'
        BY <1>0, <1>4 DEF LedgerTyped
    <2>2. ASSUME NEW l \in Lines PROVE Covered(l)
        BY <1>2, <1>3, <1>4 DEF Covered
    <2>3. QED
        BY <2>1, <2>2
<1>5. ASSUME NEW t \in Trips, NEW kind \in Kinds \ {"delivered"}, RecordItemOperations(t, kind)
      PROVE  LedgerTyped' /\ \A l \in Lines : Covered(l)
    <2>1. /\ ledger' \in [Lines -> [Kinds -> Nat]]
          /\ \A l \in Lines :
               /\ \A k \in Kinds \ {kind} : ledger'[l][k] = ledger[l][k]
               /\ ledger'[l][kind] = ledger[l][kind] \/ ledger'[l][kind] = Total(l, kind)
        BY <1>0, <1>5, LedgerWrites
    <2>2. ASSUME NEW l \in Lines PROVE Covered(l)
        <3>1. ledger'[l]["delivered"] = ledger[l]["delivered"]
            BY <1>0, <2>1
        <3>2. ledger'[l]["accepted"] = ledger[l]["accepted"] \/ ledger'[l]["accepted"] = Total(l, "accepted")
            BY <1>0, <2>1
        <3>3. Total(l, "accepted") <= LineDelivered(item', l) /\ Total(l, "accepted") \in Nat
            BY <1>0, TotalAccepted, TotalTyped
        <3>4. QED
            BY <1>2, <1>3, <3>1, <3>2, <3>3 DEF Covered
    <2>3. QED
        BY <2>1, <2>2 DEF LedgerTyped
<1>6. QED
    BY <1>4, <1>5 DEF Undelivered

LEMMA DeliveryCovered ==
    ASSUME AccountInv, NEW t \in Trips, NEW S \in SUBSET Active(t), NEW d \in [S -> Dispositions],
           RecordDelivery(t, S, d)
    PROVE  LedgerTyped' /\ \A l \in Lines : Covered(l)
<1>0. /\ RowsTyped /\ LedgerTyped /\ S \in SUBSET Packages /\ {"delivered", "accepted"} \subseteq Kinds
      /\ item \in [Trips -> [Packages -> Item]]
    BY DEF AccountInv, StockInv, CargoInv, RowsTyped, Kinds, Active
<1>1. /\ item' \in [Trips -> [Packages -> Item]]
      /\ \A x \in Trips \ {t} : item'[x] = item[x]
      /\ \A p \in Packages \ S : item'[t][p] = item[t][p]
      /\ \A p \in S : item'[t][p].status = item[t][p].status
    BY <1>0, DeliveredRow
<1>2. RecordItemOperations(t, "delivered")
    BY DEF RecordDelivery
<1>3. /\ ledger' \in [Lines -> [Kinds -> Nat]]
      /\ \A l \in Lines :
           /\ ledger'[l]["accepted"] = ledger[l]["accepted"]
           /\ ledger'[l]["delivered"] >= ledger[l]["delivered"]
           /\ l \in JobsOf(t) /\ Total(l, "delivered") > 0 => ledger'[l]["delivered"] = Total(l, "delivered")
    <2>1. /\ ledger' \in [Lines -> [Kinds -> Nat]]
          /\ \A l \in Lines :
                /\ \A k \in Kinds \ {"delivered"} : ledger'[l][k] = ledger[l][k]
                /\ ledger'[l]["delivered"] >= ledger[l]["delivered"]
                /\ l \in JobsOf(t) /\ Total(l, "delivered") > 0 => ledger'[l]["delivered"] = Total(l, "delivered")
        BY <1>0, <1>1, <1>2, LedgerWrites
    <2>2. QED
        BY <1>0, <2>1
<1>4. ASSUME NEW l \in Lines
      PROVE  /\ LineDelivered(item, l) <= ledger[l]["delivered"]
             /\ ledger[l]["accepted"] <= ledger[l]["delivered"]
             /\ ledger[l]["accepted"] \in Nat /\ ledger[l]["delivered"] \in Nat
             /\ ledger'[l]["delivered"] \in Nat
    <2>1. /\ LineDelivered(item, l) <= ledger[l]["delivered"]
          /\ ledger[l]["accepted"] <= ledger[l]["delivered"]
        BY DeliveredNow DEF AccountInv, LinesAccounted, LedgerCoversDelivery
    <2>2. QED
        BY <1>0, <1>3, <2>1 DEF LedgerTyped
<1>5. ASSUME NEW l \in Lines PROVE LineDelivered(item', l) <= ledger'[l]["delivered"]
    <2>1. CASE l \in JobsOf(t)
        <3>1. Total(l, "delivered") = LineDelivered(item', l) /\ Total(l, "delivered") \in Nat
            BY <1>0, <1>1, TotalDelivered, TotalTyped
        <3>2. QED
            BY <1>3, <1>4, <2>1, <3>1
    <2>2. CASE l \notin JobsOf(t)
        <3>1. \A p \in OfLine(l) : item'[t][p].status = "none"
            BY <2>2 DEF JobsOf, OfLine
        <3>2. \A x \in Trips, p \in OfLine(l) :
                item'[x][p].status \in ActiveStatuses /\ item'[x][p].delivered > 0
                  => item[x][p].status \in ActiveStatuses /\ item'[x][p].delivered <= item[x][p].delivered
            <4>1. \A x \in Trips, p \in OfLine(l) : item'[x][p].status \in ActiveStatuses => item'[x][p] = item[x][p]
                BY <1>1, <3>1 DEF ActiveStatuses
            <4>2. \A x \in Trips, p \in OfLine(l) : item[x][p].delivered \in Nat
                BY <1>0, Finite, QtyNat DEF Item
            <4>3. QED
                BY <4>1, <4>2
        <3>3. /\ LineDelivered(item', l) <= LineDelivered(item, l)
              /\ LineDelivered(item', l) \in Nat /\ LineDelivered(item, l) \in Nat
            BY <1>0, <1>1, <3>2, DeliveredGrows
        <3>4. QED
            BY <1>3, <1>4, <3>3
    <2>3. QED
        BY <2>1, <2>2
<1>6. ASSUME NEW l \in Lines PROVE ledger'[l]["accepted"] <= ledger'[l]["delivered"]
    BY <1>3, <1>4
<1>7. QED
    BY <1>3, <1>5, <1>6 DEF LedgerTyped, Covered

-----------------------------------------------------------------------------
(* Lines that leave whole stay whole: what a departed trip carries is      *)
(* frozen, and what accepted trips brought only grows.                     *)

AcceptedTrips(s, t) == {u \in Trips \ {t} : s[u] = "accepted"}
TripBrought(i, u, l) == Amount([p \in OfLine(l) |-> BroughtBy(i[u][p])], OfLine(l))
BroughtIn(i, s, t, l) == Amount([u \in AcceptedTrips(s, t) |-> TripBrought(i, u, l)], AcceptedTrips(s, t))

LEMMA BroughtNow ==
    ASSUME NEW t \in Trips, NEW l \in Lines
    PROVE  Brought(t, l) = BroughtIn(item, status, t, l) /\ Brought(t, l)' = BroughtIn(item', status', t, l)
BY DEF Brought, BroughtIn, TripBrought, AcceptedTrips, SumOver

RowsOrdered(i) == \A x \in Trips, q \in Packages : i[x][q].accepted <= i[x][q].delivered

LEMMA TripBroughtTyped ==
    ASSUME NEW i \in [Trips -> [Packages -> Item]], RowsOrdered(i), NEW u \in Trips, NEW l \in Lines
    PROVE  TripBrought(i, u, l) \in Nat
<1> DEFINE f == [p \in OfLine(l) |-> BroughtBy(i[u][p])]
<1>1. ASSUME NEW p \in OfLine(l) PROVE BroughtBy(i[u][p]) \in Nat
    <2>1. /\ i[u][p].accepted \in Nat /\ i[u][p].delivered \in Nat /\ i[u][p].resolved \in BOOLEAN
          /\ i[u][p].accepted <= i[u][p].delivered
        BY Finite, QtyNat DEF Item, RowsOrdered
    <2>2. QED
        BY <2>1 DEF BroughtBy
<1>2. IsFiniteSet(OfLine(l)) /\ \A p \in OfLine(l) : f[p] \in Nat
    BY <1>1, Finite
<1>3. TripBrought(i, u, l) = Amount(f, OfLine(l))
    BY DEF TripBrought
<1> HIDE DEF f
<1>4. QED
    BY <1>2, <1>3, PiecesFinite

\* Trips that are accepted stay accepted, with what they brought.
LEMMA BroughtGrows ==
    ASSUME NEW i \in [Trips -> [Packages -> Item]], NEW j \in [Trips -> [Packages -> Item]],
           RowsOrdered(i), RowsOrdered(j), NEW s, NEW z, NEW t \in Trips, NEW l \in Lines,
           \A u \in Trips : s[u] = "accepted" => z[u] = "accepted" /\ \A p \in Packages : j[u][p] = i[u][p]
    PROVE  /\ BroughtIn(i, s, t, l) <= BroughtIn(j, z, t, l)
           /\ BroughtIn(i, s, t, l) \in Nat /\ BroughtIn(j, z, t, l) \in Nat
<1> DEFINE A == AcceptedTrips(s, t)
           B == AcceptedTrips(z, t)
           f == [u \in A |-> TripBrought(i, u, l)]
           g == [u \in B |-> TripBrought(j, u, l)]
<1>1. IsFiniteSet(A) /\ IsFiniteSet(B) /\ A \subseteq B /\ B \subseteq Trips
    BY Finite DEF AcceptedTrips
<1>2. ASSUME NEW u \in A PROVE TripBrought(i, u, l) = TripBrought(j, u, l)
    <2>1. \A p \in OfLine(l) : BroughtBy(i[u][p]) = BroughtBy(j[u][p])
        BY Finite DEF AcceptedTrips
    <2>2. QED
        BY <2>1 DEF TripBrought
<1>3. \A u \in Trips : TripBrought(i, u, l) \in Nat /\ TripBrought(j, u, l) \in Nat
    BY TripBroughtTyped
<1>4. /\ \A u \in B : g[u] \in Nat
      /\ \A u \in A : f[u] \in Nat /\ (f[u] > 0 => u \in B /\ f[u] <= g[u])
    BY <1>1, <1>2, <1>3
<1>5. BroughtIn(i, s, t, l) = Amount(f, A) /\ BroughtIn(j, z, t, l) = Amount(g, B)
    BY DEF BroughtIn
<1> HIDE DEF f, g, A, B
<1>6. QED
    BY <1>1, <1>4, <1>5, AmountGrows

\* The lines of a cargo that stays as it is.
LEMMA WholeStays ==
    ASSUME StockInv, StockInv', Moves, NEW t \in Trips, LinesWhole(t),
           \A u \in Trips : status[u] = "accepted" => status'[u] = "accepted",
           \A p \in Packages : item'[t][p].status = item[t][p].status
    PROVE  LinesWhole(t)'
<1>1. Active(t)' = Active(t)
    BY DEF Active
<1>2. /\ item \in [Trips -> [Packages -> Item]] /\ RowsOrdered(item)
      /\ item' \in [Trips -> [Packages -> Item]] /\ RowsOrdered(item')
    BY DEF StockInv, CargoInv, RowsTyped, History, RowsOrdered
<1>3. \A u \in Trips : status[u] = "accepted"
        => status'[u] = "accepted" /\ \A p \in Packages : item'[u][p] = item[u][p]
    <2>1. ASSUME NEW u \in Trips, status[u] = "accepted", NEW p \in Packages PROVE item'[u][p] = item[u][p]
        BY <2>1 DEF Moves, RowChange, Before, Unstarted
    <2>2. QED
        BY <2>1
<1>4. ASSUME NEW l \in Lines
      PROVE  Brought(t, l) <= Brought(t, l)' /\ Brought(t, l) \in Nat /\ Brought(t, l)' \in Nat
    <2>1. /\ BroughtIn(item, status, t, l) <= BroughtIn(item', status', t, l)
          /\ BroughtIn(item, status, t, l) \in Nat /\ BroughtIn(item', status', t, l) \in Nat
        BY <1>2, <1>3, BroughtGrows
    <2>2. QED
        BY <2>1, BroughtNow
<1>5. ASSUME NEW l \in {LineOf[p] : p \in Active(t)}
      PROVE  Qty * Cardinality(Active(t) \cap OfLine(l)) + Brought(t, l)' >= Qty * Cardinality(OfLine(l))
    <2>1. l \in Lines
        BY ShipmentAssumption DEF Active
    <2>2. Qty * Cardinality(Active(t) \cap OfLine(l)) + Brought(t, l) >= Qty * Cardinality(OfLine(l))
        BY DEF LinesWhole
    <2>3. /\ Qty * Cardinality(Active(t) \cap OfLine(l)) \in Nat /\ Qty * Cardinality(OfLine(l)) \in Nat
        <3>1. Cardinality(Active(t) \cap OfLine(l)) \in Nat /\ Cardinality(OfLine(l)) \in Nat
            BY <2>1, Finite
        <3>2. QED
            BY <3>1, QtyNat
    <2> DEFINE a == Qty * Cardinality(Active(t) \cap OfLine(l))
               c == Qty * Cardinality(OfLine(l))
    <2> HIDE DEF a, c
    <2>4. a \in Nat /\ c \in Nat /\ a + Brought(t, l) >= c
        BY <2>2, <2>3 DEF a, c
    <2>5. a + Brought(t, l)' >= c
        BY <1>4, <2>1, <2>4
    <2>6. QED
        BY <2>5 DEF a, c
<1>6. QED
    BY <1>1, <1>5 DEF LinesWhole, OfLine

\* Only the final dispatch lets a trip depart, with its lines checked.
LEMMA DepartsWhole ==
    ASSUME RowsTyped, [Next]_vars, NEW t \in CompletenessRequired, Departs(t)
    PROVE  LinesWhole(t) /\ UNCHANGED item
<1>0. t \in Trips
    BY ShipmentAssumption
<1> USE DEF Departs
<1>1. ASSUME NEW x \in Trips, Execution(x) PROVE LinesWhole(t) /\ UNCHANGED item
    <2>1. CASE FinalDispatch(x)
        <3>1. status' = [status EXCEPT ![x] = "dispatched"] /\ Complete(x) /\ UNCHANGED item
            BY <2>1 DEF FinalDispatch, L!FinalDispatch, L!SetStatus
        <3>2. x = t
            BY <1>0, <3>1 DEF RowsTyped
        <3>3. QED
            BY <3>1, <3>2 DEF Complete
    <2>2. CASE Command(x)
        <3>1. ASSUME NEW target \in L!Statuses, L!TransitionTrip(x, target) PROVE status'[t] # "dispatched"
            <4>1. target # "dispatched" /\ status' = [status EXCEPT ![x] = target]
                BY <3>1 DEF L!TransitionTrip, L!CanTransition, L!Transitioned, L!ManagedTargets, L!SetStatus
            <4>2. QED
                BY <1>0, <4>1 DEF RowsTyped
        <3>2. CASE \/ \E v \in Vehicles, d \in Drivers \cup {None} : L!CreateTrip(x, v, d, "draft")
                   \/ \E v \in Vehicles \cup {None}, d \in Drivers \cup {None} : L!UpdateAssignment(x, v, d)
                   \/ L!GpsInTransit(x) \/ L!ConfirmArrival(x)
            <4>1. UNCHANGED status \/ \E s \in {"draft", "in_transit", "arrived"} : status' = [status EXCEPT ![x] = s]
                BY <3>2 DEF L!CreateTrip, L!Created, L!UpdateAssignment, L!Assigned, L!GpsInTransit, L!ConfirmArrival,
                            L!SetStatus
            <4>2. QED
                BY <1>0, <4>1 DEF RowsTyped
        <3>3. QED
            BY <2>2, <3>1, <3>2 DEF Command
    <2>3. ASSUME \/ UNCHANGED status
                 \/ \E s : status' = [status EXCEPT ![x] = s] /\ s # "dispatched"
          PROVE  LinesWhole(t) /\ UNCHANGED item
        BY <1>0, <2>3 DEF RowsTyped
    <2>4. ASSUME NEW p \in Packages, AssignPlacement(x, p) \/ RemoveAssignment(x, p) PROVE UNCHANGED status
        BY <2>4 DEF AssignPlacement, RemoveAssignment, lifecycle
    <2>5. ASSUME NEW v \in Vehicles, NEW d \in Drivers \cup {None}, NEW S \in SUBSET Packages,
                 CreateConsolidatedTrip(x, v, d, S)
          PROVE  status' = [status EXCEPT ![x] = "planned"]
        BY <2>5 DEF CreateConsolidatedTrip, L!CreateTrip, L!Created, L!SetStatus
    <2>6. ASSUME \/ \E S \in SUBSET Active(x) : SavePlan(x, S)
                 \/ \E stage \in Stages : SaveTripEvidence(x, stage)
          PROVE  UNCHANGED status
        BY <2>6 DEF SavePlan, SaveTripEvidence, lifecycle
    <2>7. CASE ConfirmLoading(x)
        <3>1. status' = [status EXCEPT ![x] = "loaded"]
            BY <2>7 DEF ConfirmLoading, L!ConfirmLoading, L!SetStatus
        <3>2. QED
            BY <2>3, <3>1
    <2>8. ASSUME NEW c \in BOOLEAN, L!RecordDelivery(x, c) \/ L!AcceptDelivery(x, c)
          PROVE  LinesWhole(t) /\ UNCHANGED item
        <3>1. \E s : status' = [status EXCEPT ![x] = s] /\ s # "dispatched"
            BY <2>8 DEF L!RecordDelivery, L!AcceptDelivery, L!SetStatus
        <3>2. QED
            BY <2>3, <3>1
    <2>9. ASSUME \/ \E S \in SUBSET Active(x) : \E d \in [S -> Dispositions] : RecordDelivery(x, S, d)
                 \/ \E S \in SUBSET Active(x) : \E r \in [S -> BOOLEAN] : AcceptDelivery(x, S, r)
          PROVE  \E c \in BOOLEAN : L!RecordDelivery(x, c) \/ L!AcceptDelivery(x, c)
        <3> DEFINE c1 == \A p \in Active(x) : item'[x][p].delivered >= Loaded(item[x][p])
                   c2 == \A p \in Active(x) : item'[x][p].signed
        <3>1. L!RecordDelivery(x, c1) \/ L!AcceptDelivery(x, c2)
            BY <2>9 DEF RecordDelivery, AcceptDelivery
        <3>2. c1 \in BOOLEAN /\ c2 \in BOOLEAN
            OBVIOUS
        <3> HIDE DEF c1, c2
        <3>3. QED
            BY <3>1, <3>2
    <2>10. QED
        BY <1>1, <2>1, <2>2, <2>3, <2>4, <2>5, <2>6, <2>7, <2>8, <2>9 DEF Execution
<1>2. ASSUME NEW x \in Trips, Correction(x) PROVE status'[t] # "dispatched"
    <2>1. \E s : status' = [status EXCEPT ![x] = s] /\ s # "dispatched"
        <3>1. \E s \in L!PreDispatch : L!CorrectLoading(x, s)
            BY <1>2 DEF Correction, UnloadPackage, ReturnToWarehouse, ReloadPackage, TransferPackage, ReplacePackage,
                        L!CorrectLoading
        <3>2. QED
            BY <3>1 DEF L!CorrectLoading, L!PreDispatch, L!SetStatus
    <2>2. QED
        BY <1>0, <2>1 DEF RowsTyped
<1>3. ASSUME Fleet \/ UNCHANGED vars PROVE UNCHANGED status
    BY <1>3 DEF Fleet, L!VehicleStep, L!UpdateVehicleState, L!UpdateVehicle, vars, lifecycle
<1>4. QED
    BY <1>1, <1>2, <1>3 DEF Next

LEMMA AccountKept == AccountInv /\ [Next]_vars => AccountInv'
<1> SUFFICES ASSUME AccountInv, [Next]_vars PROVE AccountInv'
    OBVIOUS
<1>1. StockInv /\ StockInv' /\ Moves /\ RowsTyped /\ CargoInv
    BY HistoryKept, StepMoves DEF AccountInv, StockInv, CargoInv
<1>2. /\ item' \in [Trips -> [Packages -> Item]]
      /\ \A x \in Trips, q \in Packages : item'[x][q].accepted <= item'[x][q].delivered
    BY <1>1 DEF StockInv, CargoInv, RowsTyped, History
<1>3. LedgerTyped' /\ \A l \in Lines : Covered(l)
    BY <1>1, <1>2, StepUndelivered, UndeliveredCovered, DeliveryCovered
<1>4. LedgerCoversDelivery'
    <2>1. ASSUME NEW l \in Lines
          PROVE  /\ SumOver(OfLine(l), LAMBDA p : SumOver(Claims(p), LAMBDA t : item[t][p].delivered))'
                      <= ledger'[l]["delivered"]
                 /\ ledger'[l]["accepted"] <= ledger'[l]["delivered"]
        BY <1>3, DeliveredNow DEF Covered
    <2>2. QED
        BY <2>1 DEF LedgerCoversDelivery
<1>5. \A x \in Trips : Forth(x)
    BY <1>1, TripsGoOn
<1>6. ASSUME NEW t \in CompletenessRequired, status'[t] \in L!Departed PROVE LinesWhole(t)'
    <2>0. t \in Trips /\ \A u \in Trips : status[u] = "accepted" => status'[u] = "accepted"
        BY <1>5, ShipmentAssumption DEF Forth
    <2>1. CASE status[t] \in L!Departed
        <3>1. LinesWhole(t)
            BY <2>1 DEF AccountInv, LinesAccounted, LinesLeaveWhole
        <3>2. \A p \in Packages : item'[t][p].status = item[t][p].status
            BY <1>1, <2>0, <2>1, NextStep DEF CargoStep, FrozenStep
        <3>3. QED
            BY <1>1, <2>0, <3>1, <3>2, WholeStays
    <2>2. CASE Departs(t)
        <3>1. LinesWhole(t) /\ UNCHANGED item
            BY <1>1, <2>2, DepartsWhole
        <3>2. QED
            BY <1>1, <2>0, <3>1, WholeStays
    <2>3. QED
        BY <1>5, <1>6, <2>0, <2>1, <2>2 DEF Forth
<1>7. LinesLeaveWhole'
    BY <1>6 DEF LinesLeaveWhole
<1>8. QED
    BY <1>1, <1>3, <1>4, <1>7 DEF AccountInv, LinesAccounted

LEMMA InitialAccount == Init => AccountInv
<1> SUFFICES ASSUME Init PROVE AccountInv
    OBVIOUS
<1>1. LedgerTyped /\ \A l \in Lines : ledger[l]["delivered"] = 0 /\ ledger[l]["accepted"] = 0
    BY DEF Init, CargoInit, LedgerTyped, Kinds
<1>2. LedgerCoversDelivery
    <2>1. ASSUME NEW l \in Lines PROVE LineDelivered(item, l) = 0
        <3>1. \A p \in OfLine(l) : ActiveTrips(item, p) = {}
            BY Finite, NoItemTyped DEF Init, CargoInit, ActiveTrips, ActiveStatuses
        <3>2. \A p \in OfLine(l) : DeliveredOf(item, p) = 0
            BY <3>1, AmountOfNone DEF DeliveredOf
        <3> DEFINE f == [p \in OfLine(l) |-> DeliveredOf(item, p)]
        <3>3. IsFiniteSet(OfLine(l)) /\ Cardinality(OfLine(l)) \in Nat /\ \A p \in OfLine(l) : f[p] = 0
            BY <3>2, Finite
        <3>4. LineDelivered(item, l) = Amount(f, OfLine(l))
            BY DEF LineDelivered
        <3> HIDE DEF f
        <3>5. Amount(f, OfLine(l)) = Cardinality(OfLine(l)) * 0
            BY <3>3, AmountOfSame
        <3>6. QED
            BY <3>3, <3>4, <3>5
    <2>2. ASSUME NEW l \in Lines
          PROVE  /\ SumOver(OfLine(l), LAMBDA p : SumOver(Claims(p), LAMBDA t : item[t][p].delivered))
                      <= ledger[l]["delivered"]
                 /\ ledger[l]["accepted"] <= ledger[l]["delivered"]
        <3>1. LineDelivered(item, l) <= ledger[l]["delivered"] /\ ledger[l]["accepted"] <= ledger[l]["delivered"]
            BY <1>1, <2>1
        <3>2. QED
            BY <3>1, DeliveredNow
    <2>3. QED
        BY <2>2 DEF LedgerCoversDelivery
<1>3. LinesLeaveWhole
    BY ShipmentAssumption DEF Init, L!Init, LinesLeaveWhole, L!Departed
<1>4. QED
    BY <1>1, <1>2, <1>3, InitialStock DEF AccountInv, LinesAccounted

\* What the orders are told of their lines is what the trips carry and brought: the ledger never counts
\* fewer deliveries than the rows do, nor fewer than acceptances, and a trip that had to leave with
\* whole lines has them whole for ever after.
THEOREM OrdersAreTold == Spec => []LinesAccounted
<1>1. AccountInv => LinesAccounted
    BY DEF AccountInv
<1>2. QED
    BY <1>1, InitialAccount, AccountKept, PTL DEF Spec
===============================================================================
