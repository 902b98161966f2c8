---------------------------- MODULE PackageClaims ----------------------------
(***************************************************************************)
(* Who claims a finished package, as the database runs it (read            *)
(* committed): assign_placement and the corrections of LoadCorrections as  *)
(* transactions that look a key up in a journal, lock a trip, look at rows *)
(* they have not locked and commit; and the legacy dispatch terminal       *)
(* (services/mes_dispatch_terminal.py), which boards packages and locks no *)
(* trip.  Commands that ask for nothing they have not locked are one step. *)
(*                                                                         *)
(* A client may repeat a command with its key while the first call is      *)
(* still running, or has committed unanswered.  A call may be aborted at   *)
(* any point: it is refused, cut off, or ended by PostgreSQL in a circle   *)
(* of waits (two opposite transfers), which no endpoint catches.           *)
(*                                                                         *)
(* The packages are those of one job, which has one dispatch.  Drafts      *)
(* count as planned, and what only refuses more (capacity, the snapshot of *)
(* the project, a quoted version that is no longer current) is left out,   *)
(* as are holds and replacements.                                          *)
(***************************************************************************)
EXTENDS Naturals, FiniteSets, FiniteSetsExt

CONSTANTS
    Trips, Clients, None,
    Packages,   \* all packages of the line, in the finished-goods warehouse
    Approved,   \* how many of them QC, rework and packing let out
    Rest,       \* further packages of the line, loaded on the dispatches of its other jobs
    Impatient   \* bound: the clients that repeat; the others give up without an answer

ASSUME ClaimsAssumption == None \notin Trips /\ Approved \in Nat /\ Rest \in Nat

VARIABLES
    status,      \* per trip: mes_trips.status, of those before the road and "dispatched"
    item,        \* per trip and package: the row of mes_shipment_items
    placement,   \* per package: mes_finished_goods_placements.status
    inventory,   \* per package: mes_finished_goods_inventory.status
    dispatch,    \* the row of mes_dispatches: its status and trip
    boarded,     \* per package: the row of mes_dispatch_packages
    order,       \* per client: the command it wants done, under one key
    call,        \* per client: the two calls that carry it
    done,        \* per client: how often its command was committed
    accepting,   \* what an acceptance of the dispatch has read and not yet written
    reclaimed    \* history: packages that a reload or a dispatch claimed again

cargo == <<status, item, placement, inventory>>
legacy == <<dispatch, boarded, accepting>>
clients == <<order, call, done>>
vars == <<cargo, legacy, clients, reclaimed>>

PreDispatch == {"loading", "loaded"}
Statuses == {"planned", "dispatched"} \cup PreDispatch
Ops == {"assign", "board", "unload", "return", "reload", "transfer"}
\* to: the target of a transfer.  "board" is an assignment that names the dispatch.
Orders == [op : Ops, trip : Trips, to : Trips, package : Packages]
NoOrder == [op |-> "none"]
Calls == Clients \X {"first", "again"}
\* at: how far the call is; seen: the status a correction read before it locked.
Idle == [at |-> "idle", seen |-> "none"]

Active(t) == {p \in Packages : item[t][p].status \in {"assigned", "loaded"}}
Claims(p) == {t \in Trips : p \in Active(t)}

\* Items carry the dispatch they were assigned with.
NoItem == [status |-> "none", dispatch |-> FALSE]

Init ==
    /\ status = [t \in Trips |-> "planned"]
    /\ item = [t \in Trips |-> [p \in Packages |-> NoItem]]
    /\ placement = [p \in Packages |-> "placed"]
    /\ inventory = [p \in Packages |-> "in_stock"]
    /\ dispatch = [status |-> "none", trip |-> None]
    /\ boarded = [p \in Packages |-> "none"]
    /\ order = [c \in Clients |-> NoOrder]
    /\ call = [k \in Calls |-> Idle]
    /\ done = [c \in Clients |-> 0]
    /\ accepting = None
    /\ reclaimed = {}

-----------------------------------------------------------------------------
(* The calls of the clients. *)

Of(k) == order[k[1]]

HasTrip(k, t) ==
    \/ call[k].at \in {"held", "ready"} /\ Of(k).trip = t
    \/ call[k].at = "ready" /\ Of(k).op = "transfer" /\ Of(k).to = t
HasPlacement(k, p) ==
    call[k].at = "ready" /\ Of(k).op \in {"assign", "board"} /\ Of(k).package = p
FreeTrip(t) == \A k \in Calls : ~HasTrip(k, t)
FreePlacement(p) == \A k \in Calls : ~HasPlacement(k, p)

Goto(k, pc) == call' = [call EXCEPT ![k].at = pc]

\* The client is done with its command when it has an answer, or wants none.
End(k) ==
    /\ call' = [call EXCEPT ![k] = Idle]
    /\ order' = IF /\ \A j \in Calls \ {k} : j[1] = k[1] => call[j] = Idle
                   /\ k[1] \notin Impatient \/ done'[k[1]] > 0
                THEN [order EXCEPT ![k[1]] = NoOrder] ELSE order

\* A command that its client has reason to give.  A correction quotes the version of
\* its item, so that it is refused unless the item stays as the client has seen it.
Reasonable(o) ==
    LET own == item[o.trip][o.package].status IN
    /\ (o.op = "transfer") = (o.to # o.trip)
    /\ CASE o.op = "assign" -> own = "none"
         [] o.op = "board" -> own = "none" /\ dispatch.trip = o.trip
         [] o.op \in {"unload", "transfer"} -> own = "loaded"
         [] o.op = "return" -> own = "unloaded"
         [] o.op = "reload" -> own \in {"unloaded", "returned"}

\* A call reads the journal before it takes any lock, and a correction its trip.
Arrive(k, o) == call' = [call EXCEPT ![k] =
    [at |-> "read", seen |-> IF o.op \in {"assign", "board"} THEN "none" ELSE status[o.trip]]]

Order(c, o) ==
    /\ call[<<c, "first">>] = Idle /\ call[<<c, "again">>] = Idle
    /\ Reasonable(o)
    /\ order' = [order EXCEPT ![c] = o]
    /\ done' = [done EXCEPT ![c] = 0]
    /\ Arrive(<<c, "first">>, o)
    /\ UNCHANGED <<cargo, legacy, reclaimed>>

\* No answer came, or it was lost: the same key again.  A key that is in the journal
\* is answered from it, which changes nothing.
Repeat(c) ==
    /\ c \in Impatient /\ order[c] # NoOrder /\ call[<<c, "again">>] = Idle
    /\ done[c] = 0
    /\ Arrive(<<c, "again">>, order[c])
    /\ UNCHANGED <<cargo, legacy, order, done, reclaimed>>

OtherClaim(t, p) == \E u \in Trips \ {t} : p \in Active(u)

\* What a call asks of its own trip, whose row it locks.  The session of a
\* correction still has the trip as its endpoint read it.
LockTrip(k) ==
    LET o == Of(k)
        own == item[o.trip][o.package].status
        seen == call[k].seen IN
    /\ call[k].at = "read" /\ FreeTrip(o.trip)
    /\ \/ /\ o.op \in {"assign", "board"} /\ status[o.trip] \in {"planned", "loading"}
          /\ Goto(k, "held")
       \/ /\ o.op = "transfer" /\ seen \in PreDispatch
          /\ Goto(k, "held")
       \/ /\ o.op = "unload" /\ seen \in PreDispatch /\ own = "loaded"
          /\ Goto(k, "ready")
       \/ /\ o.op = "return" /\ seen \in PreDispatch /\ own = "unloaded"
          /\ Goto(k, "ready")
       \/ /\ o.op = "reload" /\ seen = "loading" /\ own \in {"unloaded", "returned"}
          /\ ~OtherClaim(o.trip, o.package)
          /\ Goto(k, "ready")
    /\ UNCHANGED <<cargo, legacy, order, done, reclaimed>>

FinishedGoods == {p \in Packages : inventory[p] \in {"in_stock", "loaded", "dispatched", "delivered"}}
Eligible == Min({Approved, Rest + Cardinality(FinishedGoods)})
Claimed == MapThenSumSet(LAMBDA p : Cardinality(Claims(p)), Packages)

\* Mutant: any status of the placement will do.
OfferedAnyhow(o) == o.op = "board" => dispatch.trip = o.trip

\* The dispatch of the trip lends it the packages that it has boarded.
Offered(o) ==
    \/ placement[o.package] = "placed" /\ (o.op = "board" => dispatch.trip = o.trip)
    \/ /\ o.op = "board" /\ dispatch.trip = o.trip
       /\ placement[o.package] = "assigned" /\ boarded[o.package] # "none"

LockPlacement(k) ==
    LET o == Of(k) IN
    /\ call[k].at = "held" /\ o.op \in {"assign", "board"} /\ FreePlacement(o.package)
    /\ Offered(o) /\ inventory[o.package] = "in_stock"
    /\ Claimed + 1 <= Eligible
    /\ Goto(k, "ready")
    /\ UNCHANGED <<cargo, legacy, order, done, reclaimed>>

LockTarget(k) ==
    LET o == Of(k) IN
    /\ call[k].at = "held" /\ o.op = "transfer" /\ FreeTrip(o.to)
    /\ status[o.to] \in {"planned", "loading"}
    /\ item[o.trip][o.package].status = "loaded" /\ ~OtherClaim(o.trip, o.package)
    /\ Goto(k, "ready")
    /\ UNCHANGED <<cargo, legacy, order, done, reclaimed>>

\* Refused, aborted, or cut off: nothing is written.
Abort(k) ==
    /\ call[k].at # "idle"
    /\ UNCHANGED <<cargo, legacy, done, reclaimed>>
    /\ End(k)

-----------------------------------------------------------------------------
(* The commit of a call. *)

Move(p, place, stock) ==
    /\ placement' = [placement EXCEPT ![p] = place]
    /\ inventory' = [inventory EXCEPT ![p] = stock]

\* A status is written only when it differs from the one the session has.
WriteStatus(t, seen, s) == status' = [status EXCEPT ![t] = IF s = seen THEN @ ELSE s]

Assign(o) ==
    /\ item[o.trip][o.package] = NoItem
    /\ item' = [item EXCEPT ![o.trip][o.package] = [status |-> "assigned", dispatch |-> o.op = "board"]]
    /\ Move(o.package, "assigned", inventory[o.package])
    /\ reclaimed' = IF placement[o.package] = "assigned" THEN reclaimed \cup {o.package} ELSE reclaimed
    /\ UNCHANGED status

Unload(o, seen) ==
    /\ item' = [item EXCEPT ![o.trip][o.package].status = "unloaded"]
    /\ Move(o.package, "unloaded", "unloaded")
    /\ WriteStatus(o.trip, seen, "loading")
    /\ UNCHANGED reclaimed

Return(o) ==
    /\ item' = [item EXCEPT ![o.trip][o.package].status = "returned"]
    /\ Move(o.package, "placed", "in_stock")
    /\ UNCHANGED <<status, reclaimed>>

Reload(o, seen) ==
    /\ item' = [item EXCEPT ![o.trip][o.package].status = "loaded"]
    /\ Move(o.package, "loaded", "loaded")
    /\ WriteStatus(o.trip, seen,
           IF \A p \in Packages : item'[o.trip][p].status # "assigned" THEN "loaded" ELSE "loading")
    /\ reclaimed' = IF item[o.trip][o.package].status = "returned"
                    THEN reclaimed \cup {o.package} ELSE reclaimed

Transfer(o, seen) ==
    /\ item[o.to][o.package] = NoItem
    /\ item' = [item EXCEPT ![o.trip][o.package].status = "transferred",
                            ![o.to][o.package].status = "assigned"]
    /\ Move(o.package, "assigned", "in_stock")
    /\ WriteStatus(o.trip, seen, "loading")
    /\ UNCHANGED reclaimed

\* Mutant: no unique constraint on the key, only the look before the lock.
NotChecked(c) == TRUE

\* The key is unique in the journal: a second commit of it fails.
Unjournalled(c) == done[c] = 0

Commit(k) ==
    LET o == Of(k) IN
    /\ call[k].at = "ready" /\ Unjournalled(k[1])
    /\ HasPlacement(k, o.package) \/ FreePlacement(o.package)
    /\ \/ o.op \in {"assign", "board"} /\ Assign(o)
       \/ o.op = "unload" /\ Unload(o, call[k].seen)
       \/ o.op = "return" /\ Return(o)
       \/ o.op = "reload" /\ Reload(o, call[k].seen)
       \/ o.op = "transfer" /\ Transfer(o, call[k].seen)
    /\ done' = [done EXCEPT ![k[1]] = @ + 1]
    /\ End(k)
    /\ UNCHANGED legacy

-----------------------------------------------------------------------------
(* The commands of a trip that look at rows they have locked. *)

StartLoading(t) ==
    /\ FreeTrip(t) /\ status[t] = "planned"
    /\ status' = [status EXCEPT ![t] = "loading"]
    /\ UNCHANGED <<item, placement, inventory, legacy, clients, reclaimed>>

RemoveAssignment(t, p) ==
    /\ FreeTrip(t) /\ FreePlacement(p)
    /\ status[t] = "planned" /\ item[t][p].status \notin {"none", "loaded"}
    /\ placement[p] = "assigned"
    /\ item' = [item EXCEPT ![t][p] = NoItem]
    /\ placement' = [placement EXCEPT ![p] = "placed"]
    /\ UNCHANGED <<status, inventory, legacy, clients, reclaimed>>

ConfirmLoading(t) ==
    LET new == {p \in Packages : item[t][p].status = "assigned"} IN
    /\ FreeTrip(t) /\ status[t] = "loading" /\ Active(t) # {}
    /\ \A p \in new : FreePlacement(p) /\ placement[p] = "assigned" /\ inventory[p] = "in_stock"
    /\ status' = [status EXCEPT ![t] = "loaded"]
    /\ item' = [item EXCEPT ![t] = [p \in Packages |->
                    IF p \in new THEN [@[p] EXCEPT !.status = "loaded"] ELSE @[p]]]
    /\ placement' = [p \in Packages |-> IF p \in new THEN "loaded" ELSE placement[p]]
    /\ inventory' = [p \in Packages |-> IF p \in new THEN "loaded" ELSE inventory[p]]
    /\ UNCHANGED <<legacy, clients, reclaimed>>

\* The dispatch of the trip goes with it, if one of the items names it.
FinalDispatch(t) ==
    /\ FreeTrip(t) /\ status[t] = "loaded" /\ Active(t) # {}
    /\ \A p \in Active(t) : inventory[p] = "loaded"
    /\ dispatch.trip = t => \E p \in Active(t) : item[t][p].dispatch
    /\ status' = [status EXCEPT ![t] = "dispatched"]
    /\ inventory' = [p \in Packages |-> IF p \in Active(t) THEN "dispatched" ELSE inventory[p]]
    /\ dispatch' = IF dispatch.trip = t THEN [dispatch EXCEPT !.status = "shipped"] ELSE dispatch
    /\ UNCHANGED <<item, placement, boarded, accepting, clients, reclaimed>>

-----------------------------------------------------------------------------
(* The dispatch of the job. *)

\* attach_dispatch locks the dispatch, and not the trip.
AttachDispatch(t) ==
    /\ dispatch.status # "none" /\ dispatch.trip = None
    /\ dispatch' = [dispatch EXCEPT !.trip = t]
    /\ UNCHANGED <<cargo, boarded, accepting, clients, reclaimed>>

\* Every package in stock is boarded, one that a trip has claimed too.
AcceptRead ==
    LET stock == {p \in Packages : inventory[p] = "in_stock"} IN
    /\ dispatch.status = "none" /\ accepting = None /\ stock # {}
    /\ accepting' = [packages |-> stock, placed |-> {p \in stock : placement[p] = "placed"}]
    /\ UNCHANGED <<cargo, dispatch, boarded, clients, reclaimed>>

AcceptCommit ==
    /\ accepting # None /\ \A p \in accepting.placed : FreePlacement(p)
    /\ dispatch' = [dispatch EXCEPT !.status = "pending"]
    /\ boarded' = [p \in Packages |-> IF p \in accepting.packages THEN "pending" ELSE "none"]
    /\ placement' = [p \in Packages |-> IF p \in accepting.placed THEN "assigned" ELSE placement[p]]
    /\ accepting' = None
    /\ UNCHANGED <<status, item, inventory, clients, reclaimed>>

StartLoadingDispatch ==
    /\ dispatch.status = "pending"
    /\ dispatch' = [dispatch EXCEPT !.status = "loading"]
    /\ UNCHANGED <<cargo, boarded, accepting, clients, reclaimed>>

LoadDispatchPackage(p) ==
    /\ dispatch.status = "loading" /\ boarded[p] = "pending" /\ FreePlacement(p)
    /\ boarded' = [boarded EXCEPT ![p] = "loaded"]
    /\ placement' = [placement EXCEPT ![p] = "loaded"]
    /\ UNCHANGED <<status, item, inventory, dispatch, accepting, clients, reclaimed>>

\* project_progress counts what the dispatch has loaded, or what the trips have.
LoadedOnTrips == MapThenSumSet(
    LAMBDA t : Cardinality({p \in Packages : item[t][p].status = "loaded"}), Trips)
LoadedOnDispatch == Cardinality({p \in Packages : boarded[p] = "loaded"})

MarkShipped ==
    /\ dispatch.status = "loading" /\ \A p \in Packages : boarded[p] # "pending"
    /\ Min({Max({Rest + LoadedOnDispatch, LoadedOnTrips}), Eligible}) >= Rest + Cardinality(Packages)
    /\ dispatch' = [dispatch EXCEPT !.status = "shipped"]
    /\ boarded' = [p \in Packages |-> IF boarded[p] = "loaded" THEN "shipped" ELSE boarded[p]]
    /\ inventory' = [p \in Packages |->
          IF boarded[p] = "loaded" /\ inventory[p] = "in_stock" THEN "dispatched" ELSE inventory[p]]
    /\ UNCHANGED <<status, item, placement, accepting, clients, reclaimed>>

MarkDelivered ==
    /\ dispatch.status = "shipped"
    /\ dispatch' = [dispatch EXCEPT !.status = "delivered"]
    /\ boarded' = [p \in Packages |-> IF boarded[p] = "shipped" THEN "delivered" ELSE boarded[p]]
    /\ inventory' = [p \in Packages |-> IF boarded[p] = "shipped" THEN "delivered" ELSE inventory[p]]
    /\ UNCHANGED <<status, item, placement, accepting, clients, reclaimed>>

-----------------------------------------------------------------------------
Client(c) == (\E o \in Orders : Order(c, o)) \/ Repeat(c)
Server(k) ==
    LockTrip(k) \/ LockPlacement(k) \/ LockTarget(k) \/ Commit(k) \/ Abort(k)
Trip(t) ==
    \/ StartLoading(t) \/ ConfirmLoading(t) \/ FinalDispatch(t) \/ AttachDispatch(t)
    \/ \E p \in Packages : RemoveAssignment(t, p)
Dispatch ==
    \/ AcceptRead \/ AcceptCommit \/ StartLoadingDispatch \/ MarkShipped \/ MarkDelivered
    \/ \E p \in Packages : LoadDispatchPackage(p)

Next ==
    \/ \E c \in Clients : Client(c)
    \/ \E k \in Calls : Server(k)
    \/ \E t \in Trips : Trip(t)
    \/ Dispatch

Spec == Init /\ [][Next]_vars

-----------------------------------------------------------------------------
Items == [status : {"none", "assigned", "loaded", "unloaded", "returned", "transferred"},
          dispatch : BOOLEAN]

TypeOK ==
    /\ status \in [Trips -> Statuses]
    /\ item \in [Trips -> [Packages -> Items]]
    /\ placement \in [Packages -> {"placed", "assigned", "loaded", "unloaded"}]
    /\ order \in [Clients -> Orders \cup {NoOrder}]
    /\ call \in [Calls -> [at : {"idle", "read", "held", "ready"}, seen : Statuses \cup {"none"}]]
    /\ done \in [Clients -> Nat]
    /\ reclaimed \subseteq Packages

\* Whatever calls race each other and the terminal: a package is claimed by one
\* trip at most, and by none while it is offered as placed, until a trip reloads
\* it after it was returned, or claims it through a dispatch that has boarded it.
ClaimsAreSole ==
    \A p \in Packages \ reclaimed :
        /\ \A t, u \in Claims(p) : t = u
        /\ placement[p] = "placed" => Claims(p) = {}

\* A command takes effect once, however often it is repeated, and whatever else
\* has happened to its trip and package between its calls.
AppliedOnce == \A c \in Clients : done[c] <= 1

\* "Shipment items remain the authoritative package-to-trip claims": two trips
\* never claim one package.
OneActiveClaim == \A p \in Packages : \A t, u \in Claims(p) : t = u
=============================================================================
