------------------------------- MODULE Loading --------------------------------
(***************************************************************************)
(* The loading plans of the logistics page (routers/logistics_router.py):  *)
(* finished products are added, or scanned, into a shipment that departs   *)
(* and is delivered; and the transports of export shipments with their     *)
(* time line (routers/transport_router.py).                                *)
(*                                                                         *)
(* A handler reads the rows it needs (Ask) and commits (Enter); nothing is *)
(* locked in between, and the session writes only what differs from what   *)
(* it read.                                                                *)
(***************************************************************************)
EXTENDS Naturals, Amounts

CONSTANTS
    Products,     \* logistics_finished_products
    Loads,        \* logistics_loading_shipments
    Lorries,      \* transports
    Loaders,      \* requests handled at a time
    MaxQuantity,  \* bound: pieces of a product
    MaxLoaded     \* bound: pieces of a product ever loaded into one shipment

ASSUME LoadingAssumption == IsFiniteSet(Loads) /\ MaxQuantity \in Nat /\ MaxLoaded \in Nat

VARIABLES
    product,   \* per product: quantity in the warehouse and status
    load,      \* per shipment: its status
    loaded,    \* per shipment and product: the sum of its items
    lorry,     \* per transport: its status, and that of the last event of its time line
    entering   \* per loader: what the handler has read, or NoEntry

loadingVars == <<product, load, loaded, lorry, entering>>

ProductStatuses == {"Available", "Reserved", "Loaded", "Delivered"}
LoadStatuses == {"planned", "loading", "in_transit", "delivered", "cancelled"}
LorryStatuses == {"Draft", "Loaded", "In Transit", "Border", "Delivered"}
NoEntry == [op |-> "none"]

LoadingInit ==
    /\ product = [p \in Products |-> [quantity |-> 0, status |-> "absent"]]
    /\ load = [s \in Loads |-> "absent"]
    /\ loaded = [s \in Loads |-> [p \in Products |-> 0]]
    /\ lorry = [t \in Lorries |-> [status |-> "absent", event |-> "absent"]]
    /\ entering = [l \in Loaders |-> NoEntry]

IsProduct(p) == product[p].status # "absent"
IsLoad(s) == load[s] # "absent"
IsLorry(t) == lorry[t].status # "absent"

-----------------------------------------------------------------------------
(* Products and shipments as the office enters them.                       *)

CreateProduct(p) ==
    /\ ~IsProduct(p)
    /\ \E q \in 1 .. MaxQuantity, st \in ProductStatuses :
         product' = [product EXCEPT ![p] = [quantity |-> q, status |-> st]]
    /\ UNCHANGED <<load, loaded, lorry, entering>>

\* Any quantity and any status, whatever was loaded.
UpdateProduct(p) ==
    /\ IsProduct(p)
    /\ \E q \in 0 .. MaxQuantity, st \in ProductStatuses :
         product' = [product EXCEPT ![p] = [quantity |-> q, status |-> st]]
    /\ UNCHANGED <<load, loaded, lorry, entering>>

\* Its number is one more than the count of shipments, and unique: of two requests that
\* have counted the same, the second fails.
CreateLoad(s) ==
    /\ ~IsLoad(s)
    /\ \E st \in LoadStatuses : load' = [load EXCEPT ![s] = st]
    /\ UNCHANGED <<product, loaded, lorry, entering>>

DepartLoad(s) ==
    /\ IsLoad(s)
    /\ load' = [load EXCEPT ![s] = "in_transit"]
    /\ UNCHANGED <<product, loaded, lorry, entering>>

CreateLorry(t) ==
    /\ ~IsLorry(t)
    /\ lorry' = [lorry EXCEPT ![t] = [status |-> "Draft", event |-> "Draft"]]
    /\ UNCHANGED <<product, load, loaded, entering>>

-----------------------------------------------------------------------------
(* Requests that read first.                                               *)

Begin(l, v) ==
    /\ entering[l] = NoEntry
    /\ entering' = [entering EXCEPT ![l] = v]
    /\ UNCHANGED <<product, load, loaded, lorry>>

\* Mutant: the quantity is not compared with what is there.
Anything(p, q) == TRUE

Enough(p, q) == product[p].quantity >= q

Entry(s, p, q) == [op |-> "load", s |-> s, p |-> p, q |-> q, seen |-> product[p], first |-> load[s] = "planned"]

\* add_shipment_item looks at the quantity only, whatever the two statuses are.
AskAdd(l, s, p, q) ==
    /\ IsLoad(s) /\ IsProduct(p) /\ Enough(p, q)
    /\ Begin(l, Entry(s, p, q))

\* loading_scan looks at the status, and loads what there is when more is asked for.
AskScan(l, s, p, q) ==
    /\ IsLoad(s) /\ product[p].status \in {"Available", "Reserved"} /\ product[p].quantity > 0
    /\ \/ Enough(p, q) /\ Begin(l, Entry(s, p, q))
       \/ ~Enough(p, q) /\ Begin(l, Entry(s, p, product[p].quantity))

AskDeliver(l, s) ==
    /\ IsLoad(s)
    /\ Begin(l, [op |-> "deliver", s |-> s, seen |-> [p \in {x \in Products : loaded[s][x] > 0} |-> product[p].status]])

AskLorryStatus(l, t, st) ==
    /\ IsLorry(t)
    /\ Begin(l, [op |-> "lorry", t |-> t, status |-> st, seen |-> lorry[t].status])

-----------------------------------------------------------------------------
(* Committing.                                                             *)

Changed(old, seen, new) == IF new = seen THEN old ELSE new

StatusLeft(left) == IF left <= 0 THEN "Loaded" ELSE "Reserved"

EnterItem(l) ==
    LET v == entering[l]
        left == IF v.seen.quantity > v.q THEN v.seen.quantity - v.q ELSE 0
    IN
    /\ v.op = "load" /\ loaded[v.s][v.p] + v.q <= MaxLoaded
    /\ product' = [product EXCEPT
            ![v.p] = [quantity |-> Changed(@.quantity, v.seen.quantity, left),
                      status   |-> Changed(@.status, v.seen.status, StatusLeft(left))]]
    /\ loaded' = [loaded EXCEPT ![v.s][v.p] = @ + v.q]
    /\ load' = [load EXCEPT ![v.s] = IF v.first THEN "loading" ELSE @]
    /\ entering' = [entering EXCEPT ![l] = NoEntry]
    /\ UNCHANGED lorry

\* Every product of the shipment is delivered, however much of it is still in the warehouse.
EnterDelivery(l) ==
    LET v == entering[l] IN
    /\ v.op = "deliver"
    /\ product' = [p \in Products |->
            IF p \in DOMAIN v.seen THEN [product[p] EXCEPT !.status = Changed(@, v.seen[p], "Delivered")]
            ELSE product[p]]
    /\ load' = [load EXCEPT ![v.s] = "delivered"]
    /\ entering' = [entering EXCEPT ![l] = NoEntry]
    /\ UNCHANGED <<loaded, lorry>>

EnterLorryStatus(l) ==
    LET v == entering[l] IN
    /\ v.op = "lorry"
    /\ lorry' = [lorry EXCEPT ![v.t] =
            [status |-> Changed(@.status, v.seen, v.status), event |-> v.status]]
    /\ entering' = [entering EXCEPT ![l] = NoEntry]
    /\ UNCHANGED <<product, load, loaded>>

LoadingNext ==
    \/ \E p \in Products : CreateProduct(p) \/ UpdateProduct(p)
    \/ \E s \in Loads : CreateLoad(s) \/ DepartLoad(s)
    \/ \E t \in Lorries : CreateLorry(t)
    \/ \E l \in Loaders :
        \/ \E s \in Loads, p \in Products, q \in 1 .. MaxQuantity : AskAdd(l, s, p, q) \/ AskScan(l, s, p, q)
        \/ \E s \in Loads : AskDeliver(l, s)
        \/ \E t \in Lorries, st \in LorryStatuses : AskLorryStatus(l, t, st)
        \/ EnterItem(l) \/ EnterDelivery(l) \/ EnterLorryStatus(l)

LoadingSpec == LoadingInit /\ [][LoadingNext]_loadingVars

-----------------------------------------------------------------------------
(* Properties.                                                             *)

\* The pieces of a product, in the warehouse and in shipments.
InAndOut(p) == product[p].quantity + Amount([s \in Loads |-> loaded[s][p]], Loads)

\* Offered for loading, and nothing left of it.
SoldOut(p) == product[p].quantity = 0 /\ product[p].status \in {"Available", "Reserved"}

Untimely(t) == lorry[t].status # lorry[t].event

Outrun(v) ==
    CASE v.op = "load"    -> v.seen # product[v.p]
      [] v.op = "lorry"   -> v.seen # lorry[v.t].status
      [] OTHER            -> FALSE

\* Loading moves pieces from the warehouse into shipments: it makes none and loses none, leaves no
\* product on offer with nothing left, and the status of a transport is that of its last event.
\* Only the office's own edit of the product changes that, or a request that was outrun: another
\* one has changed the row since it was read (add_shipment_item, loading_scan,
\* update_transport_status).
OnlyOverlapsMiscount ==
    [][/\ \A p \in Products :
            (IsProduct(p) /\ InAndOut(p)' # InAndOut(p)) \/ (SoldOut(p)' /\ ~SoldOut(p)) =>
                \/ UpdateProduct(p)
                \/ \E l \in Loaders : EnterItem(l) /\ entering[l].p = p /\ Outrun(entering[l])
       /\ \A t \in Lorries : Untimely(t)' /\ ~Untimely(t) =>
                \E l \in Loaders : EnterLorryStatus(l) /\ Outrun(entering[l])]_loadingVars
===============================================================================
