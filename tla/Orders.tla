-------------------------------- MODULE Orders --------------------------------
(***************************************************************************)
(* Customer orders: the departments pass an order on, stage by stage       *)
(* (routers/orders_router.py, services/workflow.py), a finished one gets a *)
(* row in the warehouse, and the clerks ship what is there (routers/       *)
(* shipping_router.py); an administrator may edit, delete and restore it   *)
(* (routers/admin_router.py).                                              *)
(*                                                                         *)
(* A handler loads the order, looks for its warehouse row, and commits;    *)
(* nothing is locked between these steps, and the session writes only the  *)
(* attributes that differ from what it loaded.                             *)
(***************************************************************************)
EXTENDS Naturals, Sequences

CONSTANTS
    Orders,     \* customer orders
    Counters,   \* requests handled at a time
    MaxStored,  \* bound: warehouse rows an order ever gets
    MaxGroups,  \* bound: shipments
    MaxNamed    \* bound: rows named in a shipment

ASSUME OrdersAssumption == MaxStored \in Nat /\ MaxGroups \in Nat /\ MaxNamed \in Nat

VARIABLES
    order,    \* per order: its row, with the stage and the in_warehouse flag
    shelf,    \* per order: the number of its row in warehouse_items, or NoRow
    stored,   \* history: per order, the rows it ever had
    groups,   \* shipment_groups: the items of each, and whether it is archived
    serving   \* per counter: the orders and rows the handler has read, or NoService

orderVars == <<order, shelf, stored, groups, serving>>

ProductionStages == <<"Kesish", "Svarka", "Kraska", "Upakovka", "Tekshiruv", "Tayyor">>
StageSet == {ProductionStages[k] : k \in DOMAIN ProductionStages}
Position(s) == CHOOSE k \in DOMAIN ProductionStages : ProductionStages[k] = s
FinalStage == "Tayyor"
InspectionStage == "Tekshiruv"

NoRow == 0
NoOrder == [state |-> "none", stage |-> "Kesish", inWarehouse |-> FALSE, trashed |-> FALSE]
NoService == [op |-> "none"]

OrdersInit ==
    /\ order = [o \in Orders |-> NoOrder]
    /\ shelf = [o \in Orders |-> NoRow] /\ stored = [o \in Orders |-> 0]
    /\ groups = <<>>
    /\ serving = [c \in Counters |-> NoService]

-----------------------------------------------------------------------------
(* Commands that read and write at once, and loading for the others.       *)

There(o) == order[o].state = "there"

CreateOrder(o) ==
    /\ order[o].state = "none"
    /\ order' = [order EXCEPT ![o].state = "there"]
    /\ UNCHANGED <<shelf, stored, groups, serving>>

\* Any stage, whatever is stored or shipped; or to the trash and back.
AdminUpdate(o) ==
    /\ There(o)
    /\ \E s \in StageSet \ {order[o].stage} : order' = [order EXCEPT ![o].stage = s]
    /\ UNCHANGED <<shelf, stored, groups, serving>>

SoftDelete(o) ==
    /\ There(o)
    /\ \E t \in BOOLEAN : order' = [order EXCEPT ![o].trashed = t]
    /\ UNCHANGED <<shelf, stored, groups, serving>>

\* The warehouse row refers to the order, which then cannot be deleted.
DeleteOrder(o) ==
    /\ There(o) /\ shelf[o] = NoRow
    /\ order' = [order EXCEPT ![o] = [NoOrder EXCEPT !.state = "deleted"]]
    /\ UNCHANGED <<shelf, stored, groups, serving>>

ArchiveGroup(g) ==
    /\ groups' = [groups EXCEPT ![g].archived = ~@]
    /\ UNCHANGED <<order, shelf, stored, serving>>

\* complete is refused at the inspection, and verify anywhere else.
Passable(op, s) == (op = "verify") <=> (s = InspectionStage)

\* What a handler has read: an order, and its row in the warehouse; looked says that it has read both.
Reading(o, seen, row) == [order |-> o, seen |-> seen, row |-> row, looked |-> FALSE]

Serve(c, op, o) ==
    /\ serving[c] = NoService /\ There(o) /\ Passable(op, order[o].stage)
    /\ serving' = [serving EXCEPT ![c] = [op |-> op, items |-> <<Reading(o, order[o], NoRow)>>]]
    /\ UNCHANGED <<order, shelf, stored, groups>>

Items(v) == IF v = NoService THEN <<>> ELSE v.items
Looked(v) == \A k \in DOMAIN v.items : v.items[k].looked

\* dispatch takes the rows it is asked for one by one: it reads the row first, by its id, and
\* leaves out one that is gone.  A row it has read before is there again, since nothing is flushed.
Dispatch(c, o) ==
    /\ \/ serving[c] = NoService /\ Len(groups) < MaxGroups
       \/ serving[c] # NoService /\ serving[c].op = "dispatch" /\ Looked(serving[c])
    /\ Len(Items(serving[c])) < MaxNamed /\ shelf[o] # NoRow
    /\ serving' = [serving EXCEPT ![c] =
            [op |-> "dispatch", items |-> Append(Items(serving[c]), Reading(o, NoOrder, shelf[o]))]]
    /\ UNCHANGED <<order, shelf, stored, groups>>

NextStage(s) == IF s = FinalStage THEN FinalStage ELSE ProductionStages[Position(s) + 1]
Target(op, seen) == IF op = "verify" THEN FinalStage ELSE NextStage(seen.stage)

\* complete at the last stage and verify move the order to the warehouse.
Stores(op, seen) == op = "verify" \/ (op = "complete" /\ seen.stage = FinalStage)

\* The order as the session of a dispatch has it: an order it has loaded is not loaded again.
Loaded(v, o) == {k \in DOMAIN v.items : v.items[k].order = o /\ v.items[k].looked}
Seen(v, o) == IF Loaded(v, o) = {} THEN order[o] ELSE v.items[CHOOSE k \in Loaded(v, o) : TRUE].seen

\* The second read: move_to_warehouse looks for a row, dispatch for the order.
Look(c) ==
    LET v == serving[c]
        n == Len(v.items)
        i == v.items[n]
    IN
    /\ v # NoService /\ ~i.looked
    /\ serving' = [serving EXCEPT ![c] = [v EXCEPT !.items[n] =
            IF v.op = "dispatch" THEN [i EXCEPT !.seen = Seen(v, i.order), !.looked = TRUE]
            ELSE [i EXCEPT !.row = shelf[i.order], !.looked = TRUE]]]
    /\ UNCHANGED <<order, shelf, stored, groups>>

-----------------------------------------------------------------------------
(* Committing.                                                             *)

Written(old, seen, new) == IF new = seen THEN old ELSE new

\* A second row for the order violates the unique order_id, and the request fails.
Stored(op, i) ==
    IF Stores(op, i.seen) /\ i.row = NoRow
    THEN /\ shelf[i.order] = NoRow /\ stored[i.order] < MaxStored
         /\ shelf' = [shelf EXCEPT ![i.order] = stored[i.order] + 1]
         /\ stored' = [stored EXCEPT ![i.order] = @ + 1]
    ELSE UNCHANGED <<shelf, stored>>

Flagged(op, seen) == Stores(op, seen) \/ seen.inWarehouse

Pass(c) ==
    LET op == serving[c].op
        i == serving[c].items[1]
    IN
    /\ op \in {"complete", "verify"} /\ i.looked /\ There(i.order)
    /\ order' = [order EXCEPT ![i.order].stage = Written(@, i.seen.stage, Target(op, i.seen)),
                              ![i.order].inWarehouse = Written(@, i.seen.inWarehouse, Flagged(op, i.seen))]
    /\ Stored(op, i)
    /\ serving' = [serving EXCEPT ![c] = NoService]
    /\ UNCHANGED groups

\* Mutant: the row leaves the warehouse and the order does not.
UnflaggedNot(seen) == seen.inWarehouse
Unflagged(seen) == FALSE

\* The flag of an order whose row is shipped.
FlagShipped(v, o) ==
    IF Seen(v, o).state = "there" THEN Written(order[o].inWarehouse, Seen(v, o).inWarehouse, Unflagged(Seen(v, o)))
    ELSE order[o].inWarehouse

\* Deleting a row that is gone only warns; an update of an order that is gone fails.
Ship(c) ==
    LET v == serving[c]
        named == {v.items[k].order : k \in DOMAIN v.items}
    IN
    /\ v.op = "dispatch" /\ Looked(v) /\ Len(groups) < MaxGroups
    /\ \A o \in named : Seen(v, o).inWarehouse => There(o)
    /\ order' = [o \in Orders |->
                    IF o \in named THEN [order[o] EXCEPT !.inWarehouse = FlagShipped(v, o)] ELSE order[o]]
    /\ shelf' = [o \in Orders |->
                    IF \E k \in DOMAIN v.items : v.items[k].order = o /\ v.items[k].row = shelf[o] THEN NoRow
                    ELSE shelf[o]]
    /\ groups' = Append(groups, [archived |-> FALSE,
                                 items |-> [k \in DOMAIN v.items |-> [order |-> v.items[k].order, row |-> v.items[k].row]]])
    /\ serving' = [serving EXCEPT ![c] = NoService]
    /\ UNCHANGED stored

\* The request fails, with nothing written.
Refuse(c) ==
    /\ serving[c] # NoService
    /\ serving' = [serving EXCEPT ![c] = NoService]
    /\ UNCHANGED <<order, shelf, stored, groups>>

OrdersNext ==
    \/ \E o \in Orders :
        \/ CreateOrder(o) \/ AdminUpdate(o) \/ SoftDelete(o) \/ DeleteOrder(o)
        \/ \E c \in Counters : Dispatch(c, o) \/ \E op \in {"complete", "verify"} : Serve(c, op, o)
    \/ \E g \in DOMAIN groups : ArchiveGroup(g)
    \/ \E c \in Counters : Look(c) \/ Pass(c) \/ Ship(c) \/ Refuse(c)

OrdersSpec == OrdersInit /\ [][OrdersNext]_orderVars

-----------------------------------------------------------------------------
(* Properties.                                                             *)

\* What is wrong with an order: its flag and its row disagree, or a row of it was shipped twice.
Misplaced(o) == order[o].inWarehouse # (shelf[o] # NoRow)
ShippedTwice(o) ==
    \E g, h \in DOMAIN groups : \E k \in DOMAIN groups[g].items, l \in DOMAIN groups[h].items :
        <<g, k>> # <<h, l>> /\ groups[g].items[k].order = o /\ groups[h].items[l] = groups[g].items[k]

FallsBack(o) == There(o)' /\ Position(order'[o].stage) < Position(order[o].stage) /\ ~AdminUpdate(o)

\* The order or its row is not what the request has read any more.
Overtaken(v, o) ==
    \E k \in DOMAIN v.items :
        LET i == v.items[k] IN
        /\ i.order = o
        /\ i.seen.stage # order[o].stage \/ i.seen.inWarehouse # order[o].inWarehouse \/ i.row # shelf[o]

\* The request names a row of the order twice.
Repeats(v, o) ==
    \E j, k \in DOMAIN v.items :
        j # k /\ v.items[j].order = o /\ v.items[k].order = o /\ v.items[j].row = v.items[k].row

Commits(c) == serving[c] # NoService /\ serving'[c] = NoService

\* The flag of an order and its warehouse row go apart, or an order falls back to an earlier stage,
\* only when an administrator sets its stage, or when two requests overlap on it; a row is shipped
\* twice only by requests that overlap, or by one that names it twice.  One after the other, and
\* with every row once, the handlers keep them (move_to_warehouse, dispatch_grouped_shipment).
OnlyOverlapsMisplace ==
    [][\A o \in Orders :
          /\ (Misplaced(o)' /\ ~Misplaced(o)) \/ FallsBack(o) =>
                \E c \in Counters : Commits(c) /\ Overtaken(serving[c], o)
          /\ ShippedTwice(o)' /\ ~ShippedTwice(o) =>
                \E c \in Counters : Commits(c) /\ (Overtaken(serving[c], o) \/ Repeats(serving[c], o))]_orderVars
===============================================================================
