------------------------- MODULE ShipmentExecution -------------------------
(***************************************************************************)
(* The cargo of logistics trips (services/shipment_execution.py): which    *)
(* finished package is claimed by which trip, where the warehouse believes *)
(* it is, the loading plan, the delivery, and the append-only evidence     *)
(* written for production (services/project_execution.py).                 *)
(*                                                                         *)
(* Every handler is the lifecycle action of the same name (TripLifecycle), *)
(* strengthened by what it asks of the cargo and does to it.  A trip has   *)
(* at most one shipment item of a package (unique constraint), so an item  *)
(* is item[t][p].  A project has one line and one job here.  The geometry  *)
(* of the cargo floor is left out: the floor fits whatever the payload     *)
(* does.  The legacy dispatch rows are not modelled.                       *)
(***************************************************************************)
EXTENDS Amounts, FiniteSetsExt

CONSTANTS
    Trips, Vehicles, Drivers, None,
    Packages,              \* packages placed in the finished-goods warehouse
    Lines,                 \* project lines, each with its production job
    LineOf,                \* the line of a package
    Weight,                \* gross weight of a package, 0 when it is not known
    Payload,               \* max_payload_kg of a vehicle
    Approved,              \* per line: packages that QC, rework and packing let out
    Qty,                   \* products in a package
    EvidenceRequired,      \* trips whose evidence_policy is "required"
    CompletenessRequired   \* trips with completeness_required

ASSUME ShipmentAssumption ==
    /\ IsFiniteSet(Trips) /\ IsFiniteSet(Packages)
    /\ None \notin Vehicles /\ None \notin Drivers
    /\ LineOf \in [Packages -> Lines] /\ Weight \in [Packages -> Nat]
    /\ Payload \in [Vehicles -> Nat] /\ Approved \in [Lines -> Nat] /\ Qty \in Nat \ {0}
    /\ EvidenceRequired \subseteq Trips /\ CompletenessRequired \subseteq Trips

VARIABLES
    status, vehicle, driver, vehicleState, resumed,   \* as in TripLifecycle
    item,        \* per trip and package: the row of mes_shipment_items
    placement,   \* per package: mes_finished_goods_placements.status
    inventory,   \* per package: mes_finished_goods_inventory.status
    plan,        \* per trip: packages with a row in mes_loading_plan_placements
    evidence,    \* per trip: stages whose evidence has been uploaded
    ledger       \* per line: quantities in project_production_operations

lifecycle == <<status, vehicle, driver, vehicleState, resumed>>
warehouse == <<placement, inventory>>
cargo == <<item, placement, inventory, plan, evidence, ledger>>
vars == <<lifecycle, cargo>>

L == INSTANCE TripLifecycle

Places == {"placed", "assigned", "loaded", "unloaded", "hold"}
Stocks == {"in_stock", "loaded", "unloaded", "hold", "dispatched", "delivered"}
Stages == {"loading", "dispatch", "delivery", "acceptance"}
Kinds == {"loaded", "dispatched", "delivered", "accepted"}

\* assignment_status "active" is two statuses here, by loaded_quantity.
ActiveStatuses == {"assigned", "loaded"}
ItemStatuses == ActiveStatuses \cup {"none", "unloaded", "hold", "returned", "transferred", "replaced"}
Item == [status : ItemStatuses, delivered : 0 .. Qty, accepted : 0 .. Qty,
         signed : BOOLEAN, resolved : BOOLEAN]
NoItem == [status |-> "none", delivered |-> 0, accepted |-> 0, signed |-> FALSE, resolved |-> FALSE]

Active(t) == {p \in Packages : item[t][p].status \in ActiveStatuses}
Loaded(i) == IF i.status = "loaded" THEN Qty ELSE 0
OfLine(l) == {p \in Packages : LineOf[p] = l}
Claims(p) == {t \in Trips : p \in Active(t)}

CargoInit ==
    /\ item = [t \in Trips |-> [p \in Packages |-> NoItem]]
    /\ placement = [p \in Packages |-> "placed"]
    /\ inventory = [p \in Packages |-> "in_stock"]
    /\ plan = [t \in Trips |-> {}]
    /\ evidence = [t \in Trips |-> {}]
    /\ ledger = [l \in Lines |-> [k \in Kinds |-> 0]]

Init == L!Init /\ CargoInit

SetItem(t, p, s) == item' = [item EXCEPT ![t][p].status = s]
SetPackages(S, f, s) == [p \in Packages |-> IF p \in S THEN s ELSE f[p]]
SumOver(S, f(_)) == Amount([x \in S |-> f(x)], S)

-----------------------------------------------------------------------------
(* Assignment. *)

\* reconcile_project_line: what the line may ship, QC and stock permitting.
FinishedGoods(l) == {p \in OfLine(l) : inventory[p] \in {"in_stock", "loaded", "dispatched", "delivered"}}
Eligible(l) == Min({Approved[l], Cardinality(FinishedGoods(l))})
Claimed(l) == SumOver(OfLine(l), LAMBDA p : Cardinality(Claims(p)))

Assignable(t, p) ==
    /\ item[t][p].status = "none"
    /\ placement[p] = "placed" /\ inventory[p] = "in_stock"

AssignPlacement(t, p) ==
    /\ status[t] \in {"draft", "planned", "loading"} /\ Assignable(t, p)
    /\ Claimed(LineOf[p]) + 1 <= Eligible(LineOf[p])
    /\ SetItem(t, p, "assigned")
    /\ placement' = [placement EXCEPT ![p] = "assigned"]
    /\ UNCHANGED <<lifecycle, inventory, plan, evidence, ledger>>

\* The planner's form: the trip, its packages and the planned status in one commit.
CreateConsolidatedTrip(t, v, d, S) ==
    /\ L!CreateTrip(t, v, d, "planned")
    /\ S # {} /\ \A p \in S : Assignable(t, p)
    /\ \A l \in Lines : S \cap OfLine(l) # {} =>
         Claimed(l) + Cardinality(S \cap OfLine(l)) <= Eligible(l)
    /\ item' = [item EXCEPT ![t] = [p \in Packages |->
                    IF p \in S THEN [@[p] EXCEPT !.status = "assigned"] ELSE @[p]]]
    /\ placement' = SetPackages(S, placement, "assigned")
    /\ UNCHANGED <<inventory, plan, evidence, ledger>>

RemoveAssignment(t, p) ==
    /\ status[t] \in {"draft", "planned"}
    /\ item[t][p].status \notin {"none", "loaded"} /\ placement[p] = "assigned"
    /\ item' = [item EXCEPT ![t][p] = NoItem]
    /\ placement' = [placement EXCEPT ![p] = "placed"]
    /\ plan' = [plan EXCEPT ![t] = @ \ {p}]
    /\ UNCHANGED <<lifecycle, inventory, evidence, ledger>>

-----------------------------------------------------------------------------
(* Plan and evidence. *)

Fits(t, S) == vehicle[t] # None /\ SumOver(S, LAMBDA p : Weight[p]) <= Payload[vehicle[t]]

\* S: the packages placed by this save; the rows of the others stay.
SavePlan(t, S) ==
    /\ status[t] \in {"draft", "planned", "loading"}
    /\ plan[t] \cup S \subseteq Active(t) /\ Fits(t, plan[t] \cup S)
    /\ plan' = [plan EXCEPT ![t] = @ \cup S]
    /\ UNCHANGED <<lifecycle, item, warehouse, evidence, ledger>>

SaveTripEvidence(t, stage) ==
    /\ t \in EvidenceRequired /\ status[t] # "none"
    /\ evidence' = [evidence EXCEPT ![t] = @ \cup {stage}]
    /\ UNCHANGED <<lifecycle, item, warehouse, plan, ledger>>

\* Mutant: evidence of any stage will do.
AnyEvidence(t, stage) == t \in EvidenceRequired => evidence[t] # {}

Evident(t, stage) == t \in EvidenceRequired => stage \in evidence[t]

\* _require_trip_completeness: each line of the cargo leaves whole, less what other
\* accepted trips brought, or were excused from bringing.
BroughtBy(i) == i.accepted + IF i.resolved THEN i.delivered - i.accepted ELSE 0
Brought(t, l) ==
    SumOver({u \in Trips \ {t} : status[u] = "accepted"},
            LAMBDA u : SumOver(OfLine(l), LAMBDA p : BroughtBy(item[u][p])))
LinesWhole(t) ==
    \A l \in {LineOf[p] : p \in Active(t)} :
        Qty * Cardinality(Active(t) \cap OfLine(l)) + Brought(t, l) >= Qty * Cardinality(OfLine(l))

Complete(t) == t \in CompletenessRequired => LinesWhole(t)

-----------------------------------------------------------------------------
(* record_absolute_operation: evidence per job, never taken back.  The     *)
(* quantity is the total of the active items of the job on every trip, and *)
(* a total below the recorded one, or above the job, refuses the command.  *)

LoadedQuantity(t, p) == Loaded(item'[t][p])
\* Trips that count as dispatched: "arrived" and "delivery_exception" are not listed.
DispatchedQuantity(t, p) ==
    IF status'[t] \in {"dispatched", "in_transit", "delivered", "accepted"} THEN Loaded(item'[t][p]) ELSE 0

\* Mutant: damaged and missing products are not counted as delivered.
UndamagedQuantity(t, p) == item'[t][p].accepted

DeliveredQuantity(t, p) == item'[t][p].delivered
AcceptedQuantity(t, p) == IF item'[t][p].signed THEN item'[t][p].accepted ELSE 0

Quantity(kind, t, p) ==
    CASE kind = "loaded"     -> LoadedQuantity(t, p)
      [] kind = "dispatched" -> DispatchedQuantity(t, p)
      [] kind = "delivered"  -> DeliveredQuantity(t, p)
      [] kind = "accepted"   -> AcceptedQuantity(t, p)

Total(l, kind) ==
    SumOver(OfLine(l), LAMBDA p : SumOver({t \in Trips : item'[t][p].status \in ActiveStatuses},
                                          LAMBDA t : Quantity(kind, t, p)))

\* The jobs of a trip: of every item row it has, active or not.
JobsOf(t) == {LineOf[p] : p \in {p \in Packages : item'[t][p].status # "none"}}

RecordItemOperations(t, kind) ==
    LET total == [l \in JobsOf(t) |-> Total(l, kind)] IN
    /\ \A l \in JobsOf(t) : total[l] > 0 =>
         ledger[l][kind] <= total[l] /\ total[l] <= Qty * Cardinality(OfLine(l))
    /\ ledger' = [l \in Lines |-> IF l \in JobsOf(t) /\ total[l] > 0
                                  THEN [ledger[l] EXCEPT ![kind] = total[l]] ELSE ledger[l]]

-----------------------------------------------------------------------------
(* Loading, dispatch, delivery, acceptance. *)

ConfirmLoading(t) ==
    LET new == {p \in Active(t) : item[t][p].status = "assigned"} IN
    /\ L!ConfirmLoading(t)
    /\ Evident(t, "loading")
    /\ Active(t) # {} /\ Active(t) \subseteq plan[t] /\ Fits(t, Active(t)) /\ Complete(t)
    /\ \A p \in new : placement[p] = "assigned" /\ inventory[p] = "in_stock"
    /\ item' = [item EXCEPT ![t] = [p \in Packages |->
                    IF p \in new THEN [@[p] EXCEPT !.status = "loaded"] ELSE @[p]]]
    /\ placement' = SetPackages(new, placement, "loaded")
    /\ inventory' = SetPackages(new, inventory, "loaded")
    /\ RecordItemOperations(t, "loaded")
    /\ UNCHANGED <<plan, evidence>>

FinalDispatch(t) ==
    /\ L!FinalDispatch(t)
    /\ Evident(t, "dispatch")
    /\ Active(t) # {} /\ Complete(t)
    /\ t \in CompletenessRequired => \A p \in Active(t) : item[t][p].status = "loaded"
    /\ \A p \in Active(t) : inventory[p] = "loaded"
    /\ inventory' = SetPackages(Active(t), inventory, "dispatched")
    /\ UNCHANGED item
    /\ RecordItemOperations(t, "dispatched")
    /\ UNCHANGED <<placement, plan, evidence>>

\* delivered = accepted + damaged + missing; a second disposition overwrites.
Dispositions == {d \in [delivered : 0 .. Qty, accepted : 0 .. Qty] : d.accepted <= d.delivered}

RecordDelivery(t, S, d) ==
    LET complete == \A p \in Active(t) : item'[t][p].delivered >= Loaded(item[t][p]) IN
    /\ S # {} /\ S \subseteq Active(t)
    /\ \A p \in S : d[p].delivered <= Loaded(item[t][p])
    /\ Evident(t, "delivery")
    /\ item' = [item EXCEPT ![t] = [p \in Packages |-> IF p \in S
            THEN [@[p] EXCEPT !.delivered = d[p].delivered, !.accepted = d[p].accepted] ELSE @[p]]]
    /\ L!RecordDelivery(t, complete)
    /\ inventory' = [p \in Packages |->
            IF p \in S THEN IF d[p].delivered > 0 THEN "delivered" ELSE "dispatched" ELSE inventory[p]]
    /\ RecordItemOperations(t, "delivered")
    /\ UNCHANGED <<placement, plan, evidence>>

\* S: the active cargo of the trip, or of one of its projects; r: shortages resolved.
AcceptDelivery(t, S, r) ==
    LET complete == \A p \in Active(t) : item'[t][p].signed IN
    /\ S # {}
    /\ S \in {Active(t)} \cup {Active(t) \cap OfLine(l) : l \in Lines}
    /\ \A p \in S : item[t][p].delivered >= Loaded(item[t][p])
    /\ Evident(t, "acceptance")
    /\ item' = [item EXCEPT ![t] = [p \in Packages |-> IF p \in S
            THEN [@[p] EXCEPT !.signed = TRUE, !.resolved = r[p]] ELSE @[p]]]
    /\ L!AcceptDelivery(t, complete)
    /\ RecordItemOperations(t, "accepted")
    /\ UNCHANGED <<warehouse, plan, evidence>>

-----------------------------------------------------------------------------
\* The commands of TripLifecycle that leave the cargo alone.
Command(t) ==
    /\ \/ \E v \in Vehicles, d \in Drivers \cup {None} : L!CreateTrip(t, v, d, "draft")
       \/ \E v \in Vehicles \cup {None}, d \in Drivers \cup {None} : L!UpdateAssignment(t, v, d)
       \/ \E target \in L!Statuses : L!TransitionTrip(t, target)
       \/ L!GpsInTransit(t)
       \/ L!ConfirmArrival(t)
    /\ UNCHANGED cargo

Execution(t) ==
    \/ Command(t)
    \/ \E p \in Packages : AssignPlacement(t, p) \/ RemoveAssignment(t, p)
    \/ \E v \in Vehicles, d \in Drivers \cup {None}, S \in SUBSET Packages :
          CreateConsolidatedTrip(t, v, d, S)
    \/ \E S \in SUBSET Active(t) : SavePlan(t, S)
    \/ \E stage \in Stages : SaveTripEvidence(t, stage)
    \/ ConfirmLoading(t)
    \/ FinalDispatch(t)
    \/ \E S \in SUBSET Active(t) : \E d \in [S -> Dispositions] : RecordDelivery(t, S, d)
    \/ \E S \in SUBSET Active(t) : \E r \in [S -> BOOLEAN] : AcceptDelivery(t, S, r)

Fleet == (\E v \in Vehicles : L!VehicleStep(v)) /\ UNCHANGED cargo
=============================================================================
