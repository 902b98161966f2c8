---------------------------- MODULE ClaimsProofs -----------------------------
(***************************************************************************)
(* Theorems about who holds what.                                          *)
(*                                                                         *)
(* PackageClaims, for any number of trips, packages, clients and           *)
(* repetitions: a package is claimed by one trip at most, but for the two  *)
(* ways that ClaimsAreSole names.                                          *)
(*                                                                         *)
(* DetailStock, for any number of rows, jobs and projects: the stock of a  *)
(* detail is never overdrawn, and what is held for somebody is his.        *)
(***************************************************************************)
EXTENDS PackageClaims, DetailStock, AmountProofs, SequenceTheorems, TLAPS

\* Trips that have the package, or have it beside them.
Holders(p) == {t \in Trips : item[t][p].status \in {"assigned", "loaded", "unloaded"}}

\* As ClaimsAreSole, of the unloaded packages too: they are returned, and offered, later.
HoldersAreSole ==
    \A p \in Packages \ reclaimed :
        /\ \A t, u \in Holders(p) : t = u
        /\ placement[p] = "placed" => Holders(p) = {}

\* A planned trip has not been loaded or corrected yet.
PlannedIsFresh ==
    \A t \in Trips : status[t] = "planned" =>
        \A p \in Packages : item[t][p].status \in {"none", "assigned"}

LocksExclude ==
    \A j, k \in Calls : j # k =>
        /\ \A t \in Trips : ~(HasTrip(j, t) /\ HasTrip(k, t))
        /\ \A p \in Packages : ~(HasPlacement(j, p) /\ HasPlacement(k, p))

\* What a call has found in the rows that it has locked.
Own(k) == item[Of(k).trip][Of(k).package].status
Assigns(k) == Of(k).op \in {"assign", "board"}
Found(k) ==
    /\ Assigns(k) => placement[Of(k).package] \in {"placed", "assigned"}
    /\ Of(k).op \in {"unload", "transfer"} => Own(k) = "loaded"
    /\ Of(k).op = "return" => Own(k) = "unloaded"
    /\ Of(k).op = "reload" => Own(k) \in {"unloaded", "returned"}
Waits(k) == call[k].at = "idle" => call[k] = Idle
RowsStay ==
    \A k \in Calls :
        /\ Waits(k)
        /\ call[k].at # "idle" => Of(k) \in Orders
        /\ call[k].at = "ready" => Found(k)

\* A correction has seen its trip in loading or loaded: it is not planned any more.
Gone(k) ==
    /\ call[k].seen \in PreDispatch => status[Of(k).trip] # "planned"
    /\ call[k].at # "read" => call[k].seen \in PreDispatch
TripsGoOn == \A k \in Calls : call[k].at # "idle" /\ ~Assigns(k) => Gone(k)

ClaimInv == TypeOK /\ HoldersAreSole /\ PlannedIsFresh /\ LocksExclude /\ RowsStay /\ TripsGoOn

LEMMA Start == Init => ClaimInv
<1> SUFFICES ASSUME Init PROVE ClaimInv
    OBVIOUS
<1> USE DEF Init, Idle, NoItem
<1>1. TypeOK
    BY DEF TypeOK, Items, Statuses
<1>2. HoldersAreSole /\ PlannedIsFresh
    BY DEF HoldersAreSole, Holders, PlannedIsFresh
<1>3. LocksExclude /\ RowsStay /\ TripsGoOn
    BY DEF LocksExclude, HasTrip, HasPlacement, RowsStay, Waits, TripsGoOn
<1>4. QED
    BY <1>1, <1>2, <1>3 DEF ClaimInv

-----------------------------------------------------------------------------
(* The calls before they commit. *)

\* A step that writes no row keeps what is said of the rows.
LEMMA RowsUntouched ==
    ASSUME ClaimInv, UNCHANGED <<cargo, reclaimed>>
    PROVE  HoldersAreSole' /\ PlannedIsFresh'
<1>1. HoldersAreSole'
    BY DEF ClaimInv, HoldersAreSole, Holders, cargo
<1>2. PlannedIsFresh'
    BY DEF ClaimInv, PlannedIsFresh, cargo
<1>3. QED
    BY <1>1, <1>2

\* A call that ends takes no order from another one.
LEMMA EndKeeps ==
    ASSUME ClaimInv, NEW k \in Calls, End(k)
    PROVE  /\ call' = [call EXCEPT ![k] = Idle]
           /\ call' \in [Calls -> [at : {"idle", "read", "held", "ready"}, seen : Statuses \cup {"none"}]]
           /\ order' \in [Clients -> Orders \cup {NoOrder}]
           /\ \A j \in Calls \ {k} : call[j].at # "idle" => order'[j[1]] = order[j[1]]
<1>1. k[1] \in Clients
    BY DEF Calls
<1>2. QED
    BY <1>1 DEF End, ClaimInv, TypeOK, Idle

LEMMA AbortKeeps ==
    ASSUME ClaimInv, NEW k \in Calls, Abort(k)
    PROVE  ClaimInv'
<1> USE DEF Abort
<1>1. HoldersAreSole' /\ PlannedIsFresh'
    BY RowsUntouched
<1>2. /\ call' = [call EXCEPT ![k] = Idle]
      /\ \A j \in Calls \ {k} : call'[j] = call[j] /\ (call[j].at # "idle" => Of(j)' = Of(j))
      /\ call'[k].at = "idle"
    BY EndKeeps DEF ClaimInv, TypeOK, Of, Idle
<1>3. TypeOK'
    BY EndKeeps DEF ClaimInv, TypeOK, cargo
<1>4. LocksExclude'
    BY <1>2 DEF ClaimInv, LocksExclude, HasTrip, HasPlacement
<1>5. RowsStay'
    BY <1>2 DEF ClaimInv, TypeOK, RowsStay, Waits, Found, Own, Assigns, cargo
<1>6. TripsGoOn'
    BY <1>2 DEF ClaimInv, TripsGoOn, Gone, Assigns, cargo
<1>7. QED
    BY <1>1, <1>3, <1>4, <1>5, <1>6 DEF ClaimInv

\* A call that has read the journal has no lock and has promised nothing.
LEMMA ArriveKeeps ==
    ASSUME ClaimInv, NEW k \in Calls, NEW o \in Orders, Arrive(k, o), UNCHANGED <<cargo, reclaimed>>,
           done' \in [Clients -> Nat], order' = [order EXCEPT ![k[1]] = o],
           \A j \in Calls \ {k} : call[j].at # "idle" => Of(j)' = Of(j)
    PROVE  ClaimInv'
<1>0. k[1] \in Clients /\ o.trip \in Trips
    BY DEF Calls, Orders
<1>1. HoldersAreSole' /\ PlannedIsFresh'
    BY RowsUntouched
<1>2. TypeOK'
    BY <1>0 DEF ClaimInv, TypeOK, Arrive, cargo
<1>3. /\ \A j \in Calls \ {k} : call'[j] = call[j]
      /\ call'[k].at = "read" /\ Of(k)' = o
      /\ ~Assigns(k)' => call'[k].seen = status[o.trip]
    BY <1>0 DEF ClaimInv, TypeOK, Arrive, Of, Assigns
<1>4. LocksExclude'
    <2> SUFFICES ASSUME NEW i \in Calls, NEW j \in Calls, i # j
                 PROVE  /\ \A t \in Trips : ~(HasTrip(i, t)' /\ HasTrip(j, t)')
                        /\ \A p \in Packages : ~(HasPlacement(i, p)' /\ HasPlacement(j, p)')
        BY DEF LocksExclude
    <2>1. ~(\E t \in Trips : HasTrip(k, t)') /\ ~(\E p \in Packages : HasPlacement(k, p)')
        BY <1>3 DEF HasTrip, HasPlacement
    <2>2. CASE i = k \/ j = k
        BY <2>1, <2>2
    <2>3. CASE i # k /\ j # k
        BY <2>3, <1>3 DEF ClaimInv, LocksExclude, HasTrip, HasPlacement
    <2>4. QED
        BY <2>2, <2>3
<1>5. RowsStay'
    BY <1>3 DEF ClaimInv, RowsStay, Waits, Found, Own, Assigns, cargo
<1>6. TripsGoOn'
    <2>1. Gone(k)' \/ Assigns(k)'
        BY <1>3 DEF Gone, PreDispatch, cargo
    <2>2. QED
        BY <2>1, <1>3 DEF ClaimInv, TripsGoOn, Gone, Assigns, cargo
<1>7. QED
    BY <1>1, <1>2, <1>4, <1>5, <1>6 DEF ClaimInv

LEMMA ClientKeeps ==
    ASSUME ClaimInv, NEW c \in Clients, Client(c)
    PROVE  ClaimInv'
<1>1. ASSUME NEW o \in Orders, Order(c, o) PROVE ClaimInv'
    <2> DEFINE k == <<c, "first">>
    <2>1. k \in Calls /\ k[1] = c
        BY DEF Calls
    <2>2. \A j \in Calls \ {k} : call[j].at # "idle" => j[1] \in Clients \ {c}
        BY <1>1 DEF Order, Calls, Idle
    <2>3. \A j \in Calls \ {k} : call[j].at # "idle" => Of(j)' = Of(j)
        BY <1>1, <2>2 DEF Order, Of, ClaimInv, TypeOK
    <2>4. done' \in [Clients -> Nat]
        BY <1>1 DEF Order, ClaimInv, TypeOK
    <2>5. QED
        BY <1>1, <2>1, <2>3, <2>4, ArriveKeeps DEF Order
<1>2. ASSUME Repeat(c) PROVE ClaimInv'
    <2> DEFINE k == <<c, "again">>
    <2>1. k \in Calls /\ k[1] = c /\ order[c] \in Orders
        BY <1>2 DEF Calls, Repeat, ClaimInv, TypeOK
    <2>2. order' = [order EXCEPT ![c] = order[c]]
        BY <1>2 DEF Repeat, ClaimInv, TypeOK
    <2>3. done' \in [Clients -> Nat]
        BY <1>2 DEF Repeat, ClaimInv, TypeOK
    <2>4. QED
        BY <1>2, <2>1, <2>2, <2>3, ArriveKeeps DEF Repeat, Of
<1>3. QED
    BY <1>1, <1>2 DEF Client

LEMMA LockKeeps ==
    ASSUME ClaimInv, NEW k \in Calls, LockTrip(k) \/ LockPlacement(k) \/ LockTarget(k)
    PROVE  ClaimInv'
<1> DEFINE o == Of(k)
<1>1. UNCHANGED <<cargo, order, done, reclaimed>>
    BY DEF LockTrip, LockPlacement, LockTarget
<1>2. HoldersAreSole' /\ PlannedIsFresh'
    BY <1>1, RowsUntouched
<1>3. PICK pc \in {"held", "ready"} : Goto(k, pc)
    BY DEF LockTrip, LockPlacement, LockTarget
<1>4. /\ call[k].at # "idle" /\ call'[k].at = pc /\ call'[k].seen = call[k].seen
      /\ o \in Orders
      /\ \A j \in Calls : Of(j)' = Of(j)
      /\ \A j \in Calls \ {k} : call'[j] = call[j]
    BY <1>1, <1>3 DEF LockTrip, LockPlacement, LockTarget, Goto, Of, ClaimInv, TypeOK, RowsStay
<1>5. TypeOK'
    BY <1>1, <1>3 DEF Goto, ClaimInv, TypeOK, cargo
<1>6. \A t \in Trips : HasTrip(k, t)' => HasTrip(k, t) \/ FreeTrip(t)
    BY <1>3, <1>4 DEF HasTrip, LockTrip, LockPlacement, LockTarget, Goto, ClaimInv, TypeOK
<1>7. \A p \in Packages : HasPlacement(k, p)' => FreePlacement(p)
    BY <1>3, <1>4 DEF HasPlacement, LockTrip, LockPlacement, LockTarget, Goto, ClaimInv, TypeOK
<1>8. LocksExclude'
    BY <1>4, <1>6, <1>7 DEF ClaimInv, LocksExclude, HasTrip, HasPlacement, FreeTrip, FreePlacement
<1>9. pc = "ready" => Found(k)
    BY <1>3, <1>4 DEF LockTrip, LockPlacement, LockTarget, Goto, Found, Own, Assigns, Offered, ClaimInv, TypeOK
<1>10. RowsStay'
    BY <1>1, <1>3, <1>4, <1>9 DEF ClaimInv, RowsStay, Waits, Found, Own, Assigns, cargo
<1>11. ~Assigns(k) => call[k].seen \in PreDispatch
    BY DEF LockTrip, LockPlacement, LockTarget, Assigns, PreDispatch, ClaimInv, TripsGoOn, Gone
<1>12. TripsGoOn'
    BY <1>1, <1>3, <1>4, <1>11 DEF ClaimInv, TripsGoOn, Gone, Assigns, cargo
<1>13. QED
    BY <1>2, <1>5, <1>8, <1>10, <1>12 DEF ClaimInv

-----------------------------------------------------------------------------
(* The commit. *)

\* What a call that commits has locked, and what it has found there.
LEMMA CommitFacts ==
    ASSUME ClaimInv, NEW k \in Calls, Commit(k)
    PROVE  /\ Of(k) \in Orders /\ Found(k) /\ HasTrip(k, Of(k).trip)
           /\ Of(k).op = "transfer" => HasTrip(k, Of(k).to)
           /\ ~Assigns(k) => status[Of(k).trip] # "planned"
<1>1. call[k].at = "ready"
    BY DEF Commit
<1>2. Of(k) \in Orders /\ Found(k)
    BY <1>1 DEF ClaimInv, RowsStay
<1>3. HasTrip(k, Of(k).trip) /\ (Of(k).op = "transfer" => HasTrip(k, Of(k).to))
    BY <1>1 DEF HasTrip
<1>4. ~Assigns(k) => status[Of(k).trip] # "planned"
    BY <1>1 DEF ClaimInv, TripsGoOn, Gone
<1>5. QED
    BY <1>2, <1>3, <1>4

ItemStatuses == {"none", "assigned", "loaded", "unloaded", "returned", "transferred"}
Rows == [Trips -> [Packages -> Items]]

\* g is f but for the status of one row.
Wrote(f, g, t, q, s) ==
    /\ g \in Rows /\ g[t][q].status = s
    /\ \A u \in Trips, p \in Packages : u # t \/ p # q => g[u][p] = f[u][p]

LEMMA RowReplaced ==
    ASSUME NEW f \in Rows, NEW t \in Trips, NEW q \in Packages, NEW r \in Items,
           NEW g, g = [f EXCEPT ![t][q] = r]
    PROVE  Wrote(f, g, t, q, r.status)
BY DEF Rows, Wrote

LEMMA RowWritten ==
    ASSUME NEW f \in Rows, NEW t \in Trips, NEW q \in Packages, NEW s \in ItemStatuses,
           NEW g, g = [f EXCEPT ![t][q].status = s]
    PROVE  Wrote(f, g, t, q, s)
<1> DEFINE r == [f[t][q] EXCEPT !.status = s]
<1>1. f[t] \in [Packages -> Items] /\ f[t][q] \in Items
    BY DEF Rows
<1>2. r \in Items /\ r.status = s
    BY <1>1 DEF Items, ItemStatuses
<1>3. g = [f EXCEPT ![t][q] = r]
    OBVIOUS
<1> HIDE DEF r
<1>4. QED
    BY <1>2, <1>3, RowReplaced

\* What the commit of each command writes to the items.
LEMMA CommitItems ==
    ASSUME ClaimInv, NEW k \in Calls, Commit(k), NEW o, o = Of(k)
    PROVE  /\ o \in Orders
           /\ Assigns(k) => Assign(o) /\ Wrote(item, item', o.trip, o.package, "assigned")
           /\ o.op = "unload" => Wrote(item, item', o.trip, o.package, "unloaded")
           /\ o.op = "return" => Wrote(item, item', o.trip, o.package, "returned")
           /\ o.op = "reload" => Wrote(item, item', o.trip, o.package, "loaded")
           /\ o.op = "transfer" => /\ o.trip # o.to
                                  /\ \E f \in Rows : /\ Wrote(item, f, o.trip, o.package, "transferred")
                                                     /\ Wrote(f, item', o.to, o.package, "assigned")
<1>0. /\ o \in Orders /\ o.trip \in Trips /\ o.to \in Trips /\ o.package \in Packages
      /\ item \in Rows
    BY CommitFacts DEF Orders, ClaimInv, TypeOK, Rows
<1>1. ASSUME Assigns(k)
      PROVE  Assign(o) /\ Wrote(item, item', o.trip, o.package, "assigned")
    <2>1. Assign(o)
        BY <1>1 DEF Commit, Assigns
    <2> DEFINE r == [status |-> "assigned", dispatch |-> o.op = "board"]
    <2>2. r \in Items /\ r.status = "assigned"
        BY DEF Items
    <2>3. item' = [item EXCEPT ![o.trip][o.package] = r]
        BY <2>1 DEF Assign
    <2> HIDE DEF r
    <2>4. Wrote(item, item', o.trip, o.package, r.status)
        BY <1>0, <2>2, <2>3, RowReplaced
    <2>5. QED
        BY <2>1, <2>2, <2>4
<1>2. ASSUME o.op = "unload" PROVE Wrote(item, item', o.trip, o.package, "unloaded")
    <2>1. item' = [item EXCEPT ![o.trip][o.package].status = "unloaded"]
        BY <1>2 DEF Commit, Unload
    <2>2. QED
        BY <1>0, <2>1, RowWritten DEF ItemStatuses
<1>3. ASSUME o.op = "return" PROVE Wrote(item, item', o.trip, o.package, "returned")
    <2>1. item' = [item EXCEPT ![o.trip][o.package].status = "returned"]
        BY <1>3 DEF Commit, Return
    <2>2. QED
        BY <1>0, <2>1, RowWritten DEF ItemStatuses
<1>4. ASSUME o.op = "reload" PROVE Wrote(item, item', o.trip, o.package, "loaded")
    <2>1. item' = [item EXCEPT ![o.trip][o.package].status = "loaded"]
        BY <1>4 DEF Commit, Reload
    <2>2. QED
        BY <1>0, <2>1, RowWritten DEF ItemStatuses
<1>5. ASSUME o.op = "transfer"
      PROVE  /\ o.trip # o.to
             /\ \E f \in Rows : /\ Wrote(item, f, o.trip, o.package, "transferred")
                                /\ Wrote(f, item', o.to, o.package, "assigned")
    <2> DEFINE f == [item EXCEPT ![o.trip][o.package].status = "transferred"]
    <2>1. Transfer(o, call[k].seen)
        BY <1>5 DEF Commit
    <2>2. item' = [f EXCEPT ![o.to][o.package].status = "assigned"]
        BY <2>1 DEF Transfer
    <2>3. o.trip # o.to
        BY <1>5, <2>1, CommitFacts DEF Transfer, NoItem, Found, Own
    <2>4. PICK g : g = f
        OBVIOUS
    <2>5. Wrote(item, g, o.trip, o.package, "transferred")
        BY <1>0, <2>4, RowWritten DEF ItemStatuses
    <2>6. item' = [g EXCEPT ![o.to][o.package].status = "assigned"] /\ g \in Rows
        BY <2>2, <2>4, <2>5 DEF Wrote
    <2>7. Wrote(g, item', o.to, o.package, "assigned")
        BY <1>0, <2>6, RowWritten DEF ItemStatuses
    <2>8. QED
        BY <2>3, <2>5, <2>6, <2>7
<1>6. QED
    BY <1>0, <1>1, <1>2, <1>3, <1>4, <1>5

\* What it writes to the placement, the trip and the history.
LEMMA CommitPlaces ==
    ASSUME ClaimInv, NEW k \in Calls, Commit(k), NEW o, o = Of(k)
    PROVE  /\ \E place \in {"placed", "assigned", "loaded", "unloaded"} :
                  /\ placement' = [placement EXCEPT ![o.package] = place]
                  /\ place = "placed" => o.op = "return"
           /\ Assigns(k) => status' = status
           /\ ~Assigns(k) => \E s \in PreDispatch \cup {status[o.trip]} :
                                status' = [status EXCEPT ![o.trip] = s]
           /\ \/ reclaimed' = reclaimed
              \/ reclaimed' = reclaimed \cup {o.package}
           /\ Assigns(k) /\ placement[o.package] = "assigned" => o.package \in reclaimed'
           /\ o.op = "reload" /\ Own(k) = "returned" => o.package \in reclaimed'
<1>0. o \in Orders /\ o.trip \in Trips /\ o.op \in Ops /\ status \in [Trips -> Statuses]
    BY CommitFacts DEF Orders, ClaimInv, TypeOK
<1>1. CASE Assigns(k)
    <2>1. Assign(o)
        BY <1>1, CommitItems
    <2>2. o.op # "return" /\ o.op # "reload"
        BY <1>1 DEF Assigns
    <2>3. QED
        BY <1>1, <2>1, <2>2 DEF Assign, Move
<1>2. CASE o.op = "unload"
    <2>1. Unload(o, call[k].seen)
        BY <1>2 DEF Commit
    <2>2. QED
        BY <1>0, <1>2, <2>1 DEF Unload, Move, WriteStatus, Assigns, PreDispatch
<1>3. CASE o.op = "return"
    <2>1. Return(o)
        BY <1>3 DEF Commit
    <2>2. status' = [status EXCEPT ![o.trip] = status[o.trip]]
        BY <1>0, <2>1 DEF Return
    <2>3. QED
        BY <1>0, <1>3, <2>1, <2>2 DEF Return, Move, Assigns
<1>4. CASE o.op = "reload"
    <2>1. Reload(o, call[k].seen)
        BY <1>4 DEF Commit
    <2>2. QED
        BY <1>0, <1>4, <2>1 DEF Reload, Move, WriteStatus, Assigns, PreDispatch, Own
<1>5. CASE o.op = "transfer"
    <2>1. Transfer(o, call[k].seen)
        BY <1>5 DEF Commit
    <2>2. QED
        BY <1>0, <1>5, <2>1 DEF Transfer, Move, WriteStatus, Assigns, PreDispatch
<1>6. QED
    BY <1>0, <1>1, <1>2, <1>3, <1>4, <1>5 DEF Ops, Assigns

LEMMA CommitHolders ==
    ASSUME ClaimInv, NEW k \in Calls, Commit(k), NEW o, o = Of(k), NEW q, q = o.package
    PROVE  HoldersAreSole'
<1>0. /\ o \in Orders /\ o.trip \in Trips /\ o.to \in Trips /\ q \in Packages
      /\ Found(k)
    BY CommitFacts DEF Orders
<1>1. /\ \A p \in Packages \ {q} : Holders(p)' = Holders(p) /\ placement'[p] = placement[p]
      /\ reclaimed \subseteq reclaimed'
    <2>1. \A t \in Trips, p \in Packages \ {q} : item'[t][p] = item[t][p]
        BY <1>0, CommitItems DEF Wrote, Orders, Ops, Assigns
    <2>2. QED
        BY <2>1, CommitPlaces DEF Holders, ClaimInv, TypeOK
<1>2. SUFFICES ASSUME q \notin reclaimed'
               PROVE  /\ \A t, u \in Holders(q)' : t = u
                      /\ placement'[q] = "placed" => Holders(q)' = {}
    BY <1>1 DEF ClaimInv, HoldersAreSole
<1>3. /\ \A t, u \in Holders(q) : t = u
      /\ placement[q] = "placed" => Holders(q) = {}
    BY <1>0, <1>1, <1>2 DEF ClaimInv, HoldersAreSole
<1>4. placement'[q] = "placed" => o.op = "return"
    BY <1>0, CommitPlaces DEF ClaimInv, TypeOK
<1>5. CASE Assigns(k)
    <2>1. Holders(q) = {}
        BY <1>2, <1>3, <1>0, <1>5, CommitPlaces DEF Found
    <2>2. Wrote(item, item', o.trip, q, "assigned") /\ o.op # "return"
        BY <1>5, CommitItems DEF Assigns
    <2>3. QED
        BY <1>0, <1>4, <2>1, <2>2 DEF Wrote, Holders
<1>6. CASE o.op = "unload"
    <2>1. Wrote(item, item', o.trip, q, "unloaded") /\ Own(k) = "loaded"
        BY <1>0, <1>6, CommitItems DEF Found
    <2>2. QED
        BY <1>0, <1>3, <1>4, <1>6, <2>1 DEF Wrote, Holders, Own
<1>7. CASE o.op = "return"
    <2>1. Wrote(item, item', o.trip, q, "returned") /\ Own(k) = "unloaded"
        BY <1>0, <1>7, CommitItems DEF Found
    <2>2. QED
        BY <1>0, <1>3, <2>1 DEF Wrote, Holders, Own
<1>8. CASE o.op = "reload"
    <2>1. Wrote(item, item', o.trip, q, "loaded") /\ Own(k) = "unloaded"
        BY <1>0, <1>2, <1>8, CommitItems, CommitPlaces DEF Found
    <2>2. QED
        BY <1>0, <1>3, <1>4, <1>8, <2>1 DEF Wrote, Holders, Own
<1>9. CASE o.op = "transfer"
    <2>1. PICK f \in Rows : /\ Wrote(item, f, o.trip, q, "transferred")
                            /\ Wrote(f, item', o.to, q, "assigned")
        BY <1>9, CommitItems
    <2>2. o.trip # o.to /\ Own(k) = "loaded"
        BY <1>0, <1>9, CommitItems DEF Found
    <2>3. \A t \in Trips : item'[t][q].status =
              IF t = o.to THEN "assigned" ELSE IF t = o.trip THEN "transferred" ELSE item[t][q].status
        BY <1>0, <2>1, <2>2 DEF Wrote
    <2>4. QED
        BY <1>0, <1>3, <1>4, <1>9, <2>2, <2>3 DEF Holders, Own
<1>10. QED
    BY <1>0, <1>5, <1>6, <1>7, <1>8, <1>9 DEF Orders, Ops, Assigns

LEMMA CommitFresh ==
    ASSUME ClaimInv, NEW k \in Calls, Commit(k), NEW o, o = Of(k)
    PROVE  /\ PlannedIsFresh'
           /\ \A t \in Trips : status[t] # "planned" => status'[t] # "planned"
<1>0. o \in Orders /\ o.trip \in Trips /\ o.op \in Ops /\ o.to \in Trips /\ o.package \in Packages
    BY CommitFacts DEF Orders
<1>1. /\ \A t \in Trips : status[t] # "planned" => status'[t] # "planned"
      /\ \A t \in Trips : status'[t] = "planned" => status[t] = "planned"
      /\ ~Assigns(k) => status'[o.trip] # "planned"
    <2>1. CASE Assigns(k)
        BY <2>1, CommitPlaces
    <2>2. CASE ~Assigns(k)
        BY <1>0, <2>2, CommitPlaces, CommitFacts DEF ClaimInv, TypeOK, PreDispatch
    <2>3. QED
        BY <2>1, <2>2
<1>2. ASSUME NEW t \in Trips, NEW p \in Packages, status'[t] = "planned"
      PROVE  item'[t][p] = item[t][p] \/ item'[t][p].status = "assigned"
    <2>1. CASE Assigns(k)
        BY <1>0, <2>1, CommitItems DEF Wrote
    <2>2. CASE ~Assigns(k)
        <3>1. t # o.trip
            BY <1>1, <1>2, <2>2
        <3>2. CASE o.op = "transfer"
            BY <1>0, <3>1, <3>2, CommitItems DEF Wrote
        <3>3. CASE o.op # "transfer"
            BY <1>0, <2>2, <3>1, <3>3, CommitItems DEF Wrote, Ops, Assigns
        <3>4. QED
            BY <3>2, <3>3
    <2>3. QED
        BY <2>1, <2>2
<1>3. QED
    BY <1>1, <1>2 DEF ClaimInv, PlannedIsFresh

LEMMA CommitKeeps ==
    ASSUME ClaimInv, NEW k \in Calls, Commit(k), NEW o, o = Of(k)
    PROVE  ClaimInv'
<1>0. /\ o \in Orders /\ o.trip \in Trips /\ o.op \in Ops /\ o.to \in Trips /\ o.package \in Packages
      /\ HasTrip(k, o.trip) /\ (o.op = "transfer" => HasTrip(k, o.to)) /\ k[1] \in Clients
    BY CommitFacts DEF Orders, Calls
<1>1. HoldersAreSole' /\ PlannedIsFresh'
    BY CommitHolders, CommitFresh
<1>2. /\ call' = [call EXCEPT ![k] = Idle]
      /\ \A j \in Calls \ {k} : call'[j] = call[j] /\ (call[j].at # "idle" => Of(j)' = Of(j))
      /\ call'[k].at = "idle"
    BY EndKeeps DEF Commit, ClaimInv, TypeOK, Of, Idle
<1>3. TypeOK'
    <2>1. item' \in Rows
        BY <1>0, CommitItems DEF Wrote, Ops, Assigns
    <2>2. placement' \in [Packages -> {"placed", "assigned", "loaded", "unloaded"}]
        BY <1>0, CommitPlaces DEF ClaimInv, TypeOK
    <2>3. status' \in [Trips -> Statuses]
        BY <1>0, CommitPlaces, SMTT(30) DEF ClaimInv, TypeOK, Statuses, PreDispatch
    <2>4. reclaimed' \subseteq Packages
        BY <1>0, CommitPlaces DEF ClaimInv, TypeOK
    <2>5. done' \in [Clients -> Nat]
        BY <1>0 DEF Commit, ClaimInv, TypeOK
    <2>6. QED
        BY <2>1, <2>2, <2>3, <2>4, <2>5, EndKeeps DEF Commit, TypeOK, Rows
<1>4. LocksExclude'
    BY <1>2 DEF ClaimInv, LocksExclude, HasTrip, HasPlacement
<1>5. ASSUME NEW j \in Calls \ {k}, call[j].at = "ready"
      PROVE  Own(j)' = Own(j) /\ (Assigns(j) => placement'[Of(j).package] = placement[Of(j).package])
    <2>1. Of(j)' = Of(j) /\ Of(j) \in Orders /\ Of(j).trip \in Trips /\ Of(j).package \in Packages
        BY <1>2, <1>5 DEF ClaimInv, RowsStay, Orders
    <2>2. ~HasTrip(k, Of(j).trip)
        BY <1>5, <2>1 DEF ClaimInv, LocksExclude, HasTrip
    <2>3. item'[Of(j).trip][Of(j).package] = item[Of(j).trip][Of(j).package]
        <3>1. Of(j).trip # o.trip
            BY <1>0, <2>2
        <3>2. CASE o.op = "transfer"
            BY <1>0, <2>1, <2>2, <3>1, <3>2, CommitItems DEF Wrote
        <3>3. CASE o.op # "transfer"
            BY <1>0, <2>1, <3>1, <3>3, CommitItems DEF Wrote, Ops, Assigns
        <3>4. QED
            BY <3>2, <3>3
    <2>4. ASSUME Assigns(j), Of(j).package = o.package PROVE FALSE
        BY <1>0, <1>5, <2>4 DEF Commit, Assigns, HasPlacement, FreePlacement, ClaimInv, LocksExclude
    <2>5. Assigns(j) => placement'[Of(j).package] = placement[Of(j).package]
        BY <1>0, <2>1, <2>4, CommitPlaces DEF ClaimInv, TypeOK
    <2>6. QED
        BY <2>1, <2>3, <2>5 DEF Own
<1>6. RowsStay'
    BY <1>2, <1>5 DEF ClaimInv, RowsStay, Waits, Found, Assigns, Idle
<1>7. TripsGoOn'
    <2>1. \A t \in Trips : status[t] # "planned" => status'[t] # "planned"
        BY CommitFresh
    <2>2. QED
        BY <1>2, <2>1 DEF ClaimInv, TripsGoOn, Gone, Assigns, RowsStay, Orders
<1>8. QED
    BY <1>1, <1>3, <1>4, <1>6, <1>7 DEF ClaimInv

-----------------------------------------------------------------------------
(* The commands of one step. *)

\* They write the trips and placements that no call has locked.
LEMMA CallsStay ==
    ASSUME ClaimInv, UNCHANGED clients,
           \A t \in Trips : FreeTrip(t) \/ item'[t] = item[t],
           \A p \in Packages : \/ FreePlacement(p)
                              \/ placement'[p] = placement[p],
           \A t \in Trips : status[t] # "planned" => status'[t] # "planned"
    PROVE  LocksExclude' /\ RowsStay' /\ TripsGoOn'
<1>1. \A k \in Calls : Of(k)' = Of(k) /\ call'[k] = call[k]
    BY DEF clients, Of
<1>2. LocksExclude'
    BY <1>1 DEF ClaimInv, LocksExclude, HasTrip, HasPlacement
<1>3. ASSUME NEW k \in Calls, call[k].at = "ready"
      PROVE  Own(k)' = Own(k) /\ (Assigns(k) => placement'[Of(k).package] = placement[Of(k).package])
    <2>1. Of(k).trip \in Trips /\ Of(k).package \in Packages
        BY <1>3 DEF ClaimInv, RowsStay, Orders
    <2>2. ~FreeTrip(Of(k).trip) /\ (Assigns(k) => ~FreePlacement(Of(k).package))
        BY <1>3 DEF FreeTrip, HasTrip, FreePlacement, HasPlacement, Assigns
    <2>3. QED
        BY <1>1, <2>1, <2>2 DEF Own
<1>4. RowsStay'
    BY <1>1, <1>3 DEF ClaimInv, RowsStay, Waits, Found, Assigns, Idle
<1>5. TripsGoOn'
    BY <1>1 DEF ClaimInv, TripsGoOn, Gone, Assigns, RowsStay, Orders
<1>6. QED
    BY <1>2, <1>4, <1>5

LEMMA TripKeeps ==
    ASSUME ClaimInv, NEW t \in Trips, Trip(t)
    PROVE  ClaimInv'
<1>0. UNCHANGED clients /\ reclaimed' = reclaimed
    BY DEF Trip, StartLoading, ConfirmLoading, FinalDispatch, AttachDispatch, RemoveAssignment, clients
<1>1. CASE StartLoading(t)
    <2> USE <1>0, <1>1 DEF StartLoading
    <2>1. TypeOK'
        BY DEF ClaimInv, TypeOK, clients, Statuses, PreDispatch
    <2>2. HoldersAreSole' /\ PlannedIsFresh'
        BY DEF ClaimInv, TypeOK, HoldersAreSole, Holders, PlannedIsFresh
    <2>3. LocksExclude' /\ RowsStay' /\ TripsGoOn'
        BY CallsStay DEF ClaimInv, TypeOK
    <2>4. QED
        BY <2>1, <2>2, <2>3 DEF ClaimInv
<1>2. ASSUME NEW p \in Packages, RemoveAssignment(t, p) PROVE ClaimInv'
    <2> USE <1>0, <1>2 DEF RemoveAssignment
    <2>1. item' \in Rows /\ item'[t][p] = NoItem
          /\ \A u \in Trips, q \in Packages : u # t \/ q # p => item'[u][q] = item[u][q]
        <3>1. NoItem \in Items /\ item \in Rows
            BY DEF NoItem, Items, ClaimInv, TypeOK, Rows
        <3>2. item' = [item EXCEPT ![t][p] = NoItem]
            OBVIOUS
        <3>3. QED
            BY <3>1, <3>2 DEF Rows
    <2>2. TypeOK'
        BY <2>1 DEF ClaimInv, TypeOK, clients, Rows
    <2>3. HoldersAreSole'
        <3>1. t \in Holders(p)
            BY DEF ClaimInv, TypeOK, Items, PlannedIsFresh, Holders
        <3>2. Holders(p)' = Holders(p) \ {t}
            BY <2>1 DEF Holders, NoItem
        <3>3. \A q \in Packages \ {p} : Holders(q)' = Holders(q) /\ placement'[q] = placement[q]
            BY <2>1 DEF Holders, ClaimInv, TypeOK
        <3>4. QED
            BY <3>1, <3>2, <3>3 DEF ClaimInv, HoldersAreSole
    <2>4. PlannedIsFresh'
        BY <2>1 DEF ClaimInv, PlannedIsFresh, NoItem
    <2>5. LocksExclude' /\ RowsStay' /\ TripsGoOn'
        BY CallsStay DEF ClaimInv, TypeOK
    <2>6. QED
        BY <2>2, <2>3, <2>4, <2>5 DEF ClaimInv
<1>3. CASE ConfirmLoading(t)
    <2> DEFINE new == {p \in Packages : item[t][p].status = "assigned"}
    <2> USE <1>0, <1>3 DEF ConfirmLoading
    <2>1. /\ \A u \in Trips \ {t} : item'[u] = item[u]
          /\ \A u \in Trips \ {t} : status'[u] = status[u]
          /\ status'[t] = "loaded" /\ status' \in [Trips -> Statuses]
          /\ placement' = [p \in Packages |-> IF p \in new THEN "loaded" ELSE placement[p]]
        BY DEF ClaimInv, TypeOK, Statuses, PreDispatch
    <2>2. /\ item' \in Rows
          /\ \A p \in Packages : item'[t][p].status = IF p \in new THEN "loaded" ELSE item[t][p].status
        <3> DEFINE row == [p \in Packages |->
                             IF p \in new THEN [item[t][p] EXCEPT !.status = "loaded"] ELSE item[t][p]]
        <3>1. item' = [item EXCEPT ![t] = row] /\ item \in Rows /\ item[t] \in [Packages -> Items]
            BY DEF ClaimInv, TypeOK, Rows
        <3>2. row \in [Packages -> Items]
              /\ \A p \in Packages : row[p].status = IF p \in new THEN "loaded" ELSE item[t][p].status
            BY <3>1 DEF Items
        <3> HIDE DEF row
        <3>3. QED
            BY <3>1, <3>2 DEF Rows
    <2>3. TypeOK'
        BY <2>1, <2>2 DEF ClaimInv, TypeOK, clients, Rows
    <2>4. HoldersAreSole'
        <3>1. \A p \in Packages : Holders(p)' = Holders(p)
            BY <2>1, <2>2 DEF Holders
        <3>2. \A p \in Packages : placement'[p] = "placed" => placement[p] = "placed"
            BY <2>1
        <3>3. QED
            BY <3>1, <3>2 DEF ClaimInv, HoldersAreSole
    <2>5. PlannedIsFresh'
        BY <2>1 DEF ClaimInv, PlannedIsFresh
    <2>6. LocksExclude' /\ RowsStay' /\ TripsGoOn'
        <3>1. \A p \in Packages : FreePlacement(p) \/ placement'[p] = placement[p]
            BY <2>1
        <3>2. QED
            BY <2>1, <3>1, CallsStay
    <2>7. QED
        BY <2>3, <2>4, <2>5, <2>6 DEF ClaimInv
<1>4. CASE FinalDispatch(t)
    <2> USE <1>0, <1>4 DEF FinalDispatch
    <2>1. TypeOK'
        BY DEF ClaimInv, TypeOK, clients, Statuses, PreDispatch
    <2>2. HoldersAreSole' /\ PlannedIsFresh'
        BY DEF ClaimInv, TypeOK, HoldersAreSole, Holders, PlannedIsFresh
    <2>3. LocksExclude' /\ RowsStay' /\ TripsGoOn'
        BY CallsStay DEF ClaimInv, TypeOK
    <2>4. QED
        BY <2>1, <2>2, <2>3 DEF ClaimInv
<1>5. CASE AttachDispatch(t)
    <2>1. UNCHANGED <<cargo, clients, reclaimed>>
        BY <1>0, <1>5 DEF AttachDispatch
    <2>2. TypeOK' /\ LocksExclude' /\ RowsStay' /\ TripsGoOn'
        BY <2>1, CallsStay DEF ClaimInv, TypeOK, cargo, clients
    <2>3. QED
        BY <2>1, <2>2, RowsUntouched DEF ClaimInv
<1>6. QED
    BY <1>1, <1>2, <1>3, <1>4, <1>5 DEF Trip

LEMMA DispatchKeeps ==
    ASSUME ClaimInv, Dispatch
    PROVE  ClaimInv'
<1>1. /\ UNCHANGED <<status, item, clients, reclaimed>>
      /\ placement' \in [Packages -> {"placed", "assigned", "loaded", "unloaded"}]
      /\ \A p \in Packages : \/ placement'[p] = placement[p]
                             \/ placement'[p] # "placed" /\ FreePlacement(p)
    <2>1. CASE AcceptCommit
        BY <2>1 DEF AcceptCommit, ClaimInv, TypeOK
    <2>2. ASSUME NEW p \in Packages, LoadDispatchPackage(p)
          PROVE  <1>1!:
        BY <2>2 DEF LoadDispatchPackage, ClaimInv, TypeOK
    <2>3. CASE AcceptRead \/ StartLoadingDispatch \/ MarkShipped \/ MarkDelivered
        BY <2>3 DEF AcceptRead, StartLoadingDispatch, MarkShipped, MarkDelivered, cargo, ClaimInv, TypeOK
    <2>4. QED
        BY <2>1, <2>2, <2>3 DEF Dispatch
<1>2. TypeOK' /\ HoldersAreSole' /\ PlannedIsFresh'
    BY <1>1 DEF ClaimInv, TypeOK, clients, HoldersAreSole, Holders, PlannedIsFresh
<1>3. LocksExclude' /\ RowsStay' /\ TripsGoOn'
    BY <1>1, CallsStay
<1>4. QED
    BY <1>2, <1>3 DEF ClaimInv

LEMMA Stays == ClaimInv /\ [Next]_vars => ClaimInv'
<1> SUFFICES ASSUME ClaimInv, [Next]_vars PROVE ClaimInv'
    OBVIOUS
<1>1. ASSUME NEW c \in Clients, Client(c) PROVE ClaimInv'
    BY <1>1, ClientKeeps
<1>2. ASSUME NEW k \in Calls, Server(k) PROVE ClaimInv'
    BY <1>2, LockKeeps, CommitKeeps, AbortKeeps DEF Server
<1>3. ASSUME NEW t \in Trips, Trip(t) PROVE ClaimInv'
    BY <1>3, TripKeeps
<1>4. CASE Dispatch
    BY <1>4, DispatchKeeps
<1>5. CASE UNCHANGED vars
    <2>1. UNCHANGED <<cargo, clients, reclaimed>>
        BY <1>5 DEF vars
    <2>2. TypeOK' /\ LocksExclude' /\ RowsStay' /\ TripsGoOn'
        BY <2>1, CallsStay DEF ClaimInv, TypeOK, cargo, clients
    <2>3. QED
        BY <2>1, <2>2, RowsUntouched DEF ClaimInv
<1>6. QED
    BY <1>1, <1>2, <1>3, <1>4, <1>5 DEF Next

\* Whatever calls race each other and the terminal: a package is claimed by one
\* trip at most, and by none while it is offered as placed, until it is reclaimed.
THEOREM SoleClaims == Spec => []ClaimsAreSole
<1>1. ClaimInv => ClaimsAreSole
    BY DEF ClaimInv, HoldersAreSole, Holders, ClaimsAreSole, Claims, Active
<1>2. QED
    BY Start, Stays, <1>1, PTL DEF Spec

\* One key, one commit: a command takes effect once, whatever its calls are and
\* whatever has happened to its trip and package between them.
THEOREM CommandsAreOnce == Spec => []AppliedOnce
<1>1. Init => AppliedOnce
    BY DEF Init, AppliedOnce
<1>2. ClaimInv /\ AppliedOnce /\ [Next]_vars => AppliedOnce'
    <2> SUFFICES ASSUME ClaimInv, AppliedOnce, [Next]_vars PROVE AppliedOnce'
        OBVIOUS
    <2>0. done \in [Clients -> Nat]
        BY DEF ClaimInv, TypeOK
    <2>1. ASSUME NEW c \in Clients, Client(c) PROVE AppliedOnce'
        BY <2>0, <2>1 DEF Client, Order, Repeat, AppliedOnce
    <2>2. ASSUME NEW k \in Calls, Commit(k) PROVE AppliedOnce'
        <3>1. k[1] \in Clients
            BY DEF Calls
        <3>2. QED
            BY <2>0, <2>2, <3>1 DEF Commit, Unjournalled, AppliedOnce
    <2>3. ASSUME NEW k \in Calls, LockTrip(k) \/ LockPlacement(k) \/ LockTarget(k) \/ Abort(k)
          PROVE  AppliedOnce'
        BY <2>3 DEF LockTrip, LockPlacement, LockTarget, Abort, AppliedOnce
    <2>4. ASSUME NEW t \in Trips, Trip(t) PROVE AppliedOnce'
        BY <2>4 DEF Trip, StartLoading, ConfirmLoading, FinalDispatch, AttachDispatch,
                    RemoveAssignment, clients, AppliedOnce
    <2>5. CASE Dispatch
        BY <2>5 DEF Dispatch, AcceptRead, AcceptCommit, StartLoadingDispatch, LoadDispatchPackage,
                    MarkShipped, MarkDelivered, clients, AppliedOnce
    <2>6. CASE UNCHANGED vars
        BY <2>6 DEF vars, clients, AppliedOnce
    <2>7. QED
        BY <2>1, <2>2, <2>3, <2>4, <2>5, <2>6 DEF Next, Server
<1>3. QED
    BY Start, Stays, <1>1, <1>2, PTL DEF Spec

-----------------------------------------------------------------------------
(* The stock of a detail (DetailStock).                                    *)

\* A row.
PieceRows == [quantity : Nat, reserved : Nat]
RowsFine(r) == r \in Seq(PieceRows) /\ \A i \in DOMAIN r : r[i].reserved <= r[i].quantity

\* From v, one step after the other.
Steps(n, V) == [(1 .. n) \X V -> V]
Computed(f, n, V, v, step) ==
    f \in [0 .. n -> V] /\ f[0] = v /\ \A i \in 1 .. n : f[i] = step[<<i, f[i - 1]>>]

\* Whatever is computed one step after the other can be computed.
LEMMA StepsExist ==
    ASSUME NEW n \in Nat, NEW V, NEW v \in V, NEW step \in Steps(n, V)
    PROVE  \E f : Computed(f, n, V, v, step)
<1> USE DEF Steps
<1> DEFINE Computes(f, m) == f \in [0 .. m -> V] /\ f[0] = v /\ \A i \in 1 .. m : f[i] = step[<<i, f[i - 1]>>]
           bad == {m \in 0 .. n : ~\E f : Computes(f, m)}
<1>1. bad = {}
    <2> SUFFICES ASSUME bad # {} PROVE FALSE
        OBVIOUS
    <2>1. PICK m \in bad : \A k \in bad : m <= k
        <3>1. bad \subseteq Nat
            OBVIOUS
        <3> HIDE DEF bad
        <3>2. QED
            BY <3>1, FirstOf
    <2>2. m # 0
        <3>1. Computes([i \in {0} |-> v], 0)
            OBVIOUS
        <3>2. QED
            BY <3>1
    <2>3. m - 1 \in 0 .. n /\ m - 1 \notin bad
        BY <2>1, <2>2
    <2>4. PICK f : Computes(f, m - 1)
        BY <2>3
    <2> DEFINE g == [i \in 0 .. m |-> IF i < m THEN f[i] ELSE step[<<m, f[m - 1]>>]]
    <2>5. m \in 1 .. n /\ m - 1 \in 0 .. m - 1 /\ f[m - 1] \in V
        BY <2>2, <2>4
    <2>6. step[<<m, f[m - 1]>>] \in V
        BY <2>5
    <2>7. \A i \in 0 .. m - 1 : f[i] \in V /\ g[i] = f[i]
        BY <2>4
    <2>8. g \in [0 .. m -> V]
        BY <2>4, <2>5, <2>6
    <2>9. \A i \in 1 .. m : g[i] = step[<<i, g[i - 1]>>]
        <3>1. ASSUME NEW i \in 1 .. m PROVE g[i] = step[<<i, g[i - 1]>>]
            <4>1. i - 1 \in 0 .. m - 1 /\ i \in 0 .. m
                BY <2>5
            <4>2. g[i - 1] = f[i - 1]
                BY <2>7, <4>1
            <4>3. CASE i = m
                BY <4>1, <4>2, <4>3
            <4>4. CASE i # m
                <5>1. i \in 1 .. m - 1
                    BY <2>5, <4>4
                <5>2. f[i] = step[<<i, f[i - 1]>>] /\ g[i] = f[i]
                    BY <2>4, <2>7, <5>1
                <5>3. QED
                    BY <4>2, <5>2
            <4>5. QED
                BY <4>3, <4>4
        <3>2. QED
            BY <3>1
    <2>10. g[0] = v
        BY <2>4, <2>5, <2>7
    <2> HIDE DEF g
    <2>11. Computes(g, m)
        BY <2>8, <2>9, <2>10
    <2>12. QED
        BY <2>1, <2>11
<1>2. n \in 0 .. n /\ n \notin bad
    BY <1>1
<1>3. QED
    BY <1>2 DEF Computed

\* What every step keeps holds all along.
LEMMA StepsKeep ==
    ASSUME NEW n \in Nat, NEW V, NEW f, f[0] \in V, \A i \in 1 .. n : f[i - 1] \in V => f[i] \in V
    PROVE  \A i \in 0 .. n : f[i] \in V
<1> DEFINE bad == {m \in 0 .. n : f[m] \notin V}
<1> SUFFICES ASSUME bad # {} PROVE FALSE
    OBVIOUS
<1>1. PICK m \in bad : \A k \in bad : m <= k
    <2>1. bad \subseteq Nat
        OBVIOUS
    <2> HIDE DEF bad
    <2>2. QED
        BY <2>1, FirstOf
<1>2. m \in 1 .. n
    OBVIOUS
<1>3. m - 1 \in 0 .. n /\ m - 1 \notin bad
    BY <1>1, <1>2
<1>4. QED
    BY <1>2, <1>3

\* Left(x, need) is what its definition says.
LeftSteps(left, x, need) ==
    /\ left[0] = need
    /\ \A i \in 1 .. Len(listed[x]) :
         left[i] = IF Smaller(left[i - 1], listed[x][i]) > 0 /\ CanTake(i, Smaller(left[i - 1], listed[x][i]))
                   THEN left[i - 1] - Smaller(left[i - 1], listed[x][i]) ELSE left[i - 1]

\* What the rows listed leave of the need, row by row, is there, and follows the loop of the code.
LEMMA LeftIs ==
    ASSUME NEW x, NEW need \in Nat, listed[x] \in Seq(Nat), rows \in Seq(PieceRows)
    PROVE  LeftSteps(Left(x, need), x, need)
<1> DEFINE n == Len(listed[x])
           Next1(i, a) == LET take == Smaller(a, listed[x][i])
                        IN  IF take > 0 /\ CanTake(i, take) THEN a - take ELSE a
           step == [p \in (1 .. n) \X (0 .. need) |-> Next1(p[1], p[2])]
<1>1. n \in Nat
    OBVIOUS
<1>2. step \in Steps(n, 0 .. need)
    <2>1. ASSUME NEW i \in 1 .. n, NEW a \in 0 .. need PROVE Next1(i, a) \in 0 .. need
        <3>1. listed[x][i] \in Nat
            OBVIOUS
        <3>2. QED
            BY <3>1 DEF Smaller
    <2> HIDE DEF Next1
    <2>2. QED
        BY <2>1 DEF Steps
<1>3. PICK f : Computed(f, n, 0 .. need, need, step)
    <2> DEFINE V == 0 .. need
    <2>1. need \in V
        OBVIOUS
    <2>2. step \in Steps(n, V)
        BY <1>2
    <2> HIDE DEF step, n, V
    <2>3. \E f : Computed(f, n, V, need, step)
        BY <1>1, <2>1, <2>2, StepsExist, Zenon
    <2>4. QED
        BY <2>3 DEF V
<1>4. /\ f \in [0 .. n -> 0 .. need] /\ f[0] = need
       /\ \A i \in 1 .. n : f[i] = step[<<i, f[i - 1]>>]
    <2> HIDE DEF step, n
    <2>1. QED
        BY <1>3 DEF Computed
<1>5. \A i \in 1 .. n : f[i] = Next1(i, f[i - 1])
    <2> HIDE DEF Next1
    <2>1. ASSUME NEW i \in 1 .. n PROVE f[i] = Next1(i, f[i - 1])
        <3>1. i - 1 \in 0 .. n
            BY <1>1
        <3>2. f[i - 1] \in 0 .. need
            BY <1>4, <3>1
        <3>3. f[i] = step[<<i, f[i - 1]>>]
            BY <1>4
        <3>4. QED
            BY <3>2, <3>3
    <2>2. QED
        BY <2>1
<1>6. f = [i \in 0 .. n |-> IF i = 0 THEN need ELSE Next1(i, f[i - 1])]
    <2> HIDE DEF Next1, step
    <2>1. ASSUME NEW i \in 0 .. n PROVE f[i] = IF i = 0 THEN need ELSE Next1(i, f[i - 1])
        <3>1. CASE i = 0
            BY <1>4, <3>1
        <3>2. CASE i # 0
            BY <1>1, <1>5, <3>2
        <3>3. QED
            BY <3>1, <3>2
    <2>2. QED
        BY <1>4, <2>1
<1>7. Left(x, need) = CHOOSE g : g = [i \in 0 .. n |-> IF i = 0 THEN need ELSE Next1(i, g[i - 1])]
    BY DEF Left
<1>8. Left(x, need) = [i \in 0 .. n |-> IF i = 0 THEN need ELSE Next1(i, Left(x, need)[i - 1])]
    <2> HIDE DEF Next1
    <2>1. QED
        BY <1>6, <1>7
<1>9. ASSUME NEW g, g = [i \in 0 .. n |-> IF i = 0 THEN need ELSE Next1(i, g[i - 1])]
      PROVE  g[0] = need /\ \A i \in 1 .. n : g[i] = Next1(i, g[i - 1])
    <2> HIDE DEF Next1, n
    <2>1. QED
        BY <1>1, <1>9
<1>10. QED
    BY <1>8, <1>9 DEF LeftSteps

\* What a release takes from the rows it has listed: of each no more than is free, and together what
\* it does not leave.
LEMMA LeftFalls ==
    ASSUME NEW x, NEW need \in Nat, NEW n \in Nat, listed[x] \in Seq(Nat), n = Len(listed[x]),
           RowsFine(rows), n <= Len(rows)
    PROVE  LET left == Left(x, need)
               taken == Taken(x, need)
           IN  /\ left[n] \in 0 .. need /\ DOMAIN taken = 1 .. n
               /\ \A i \in 1 .. n : taken[i] \in Nat /\ taken[i] <= Free(i)
               /\ Total(taken) = need - left[n]
<1>1. PICK left : left = Left(x, need)
    OBVIOUS
<1>2. PICK taken : taken = Taken(x, need)
    OBVIOUS
<1>3. rows \in Seq(PieceRows) /\ \A i \in 1 .. n : Free(i) \in Nat /\ listed[x][i] \in Nat
    <2>1. rows \in Seq(PieceRows) /\ \A i \in DOMAIN rows : rows[i].reserved <= rows[i].quantity
        BY DEF RowsFine
    <2>2. ASSUME NEW i \in 1 .. n PROVE Free(i) \in Nat /\ listed[x][i] \in Nat
        <3>1. i \in DOMAIN rows /\ rows[i] \in PieceRows
            BY <2>1
        <3>2. rows[i].quantity \in Nat /\ rows[i].reserved \in Nat /\ rows[i].reserved <= rows[i].quantity
            BY <2>1, <3>1 DEF PieceRows
        <3>3. Free(i) \in Nat
            BY <3>2 DEF Free
        <3>4. listed[x][i] \in Nat
            OBVIOUS
        <3>5. QED
            BY <3>3, <3>4
    <2>3. QED
        BY <2>1, <2>2
<1>4. /\ left[0] = need
      /\ \A i \in 1 .. n : left[i] = IF Smaller(left[i - 1], listed[x][i]) > 0
                                        /\ CanTake(i, Smaller(left[i - 1], listed[x][i]))
                                     THEN left[i - 1] - Smaller(left[i - 1], listed[x][i]) ELSE left[i - 1]
    <2>1. LeftSteps(left, x, need)
        BY <1>1, <1>3, LeftIs, Zenon
    <2>2. QED
        BY <2>1 DEF LeftSteps
<1>5. \A i \in 1 .. n : left[i - 1] \in 0 .. need =>
        left[i] \in 0 .. need /\ left[i] <= left[i - 1] /\ left[i - 1] - left[i] <= Free(i)
    <2>1. ASSUME NEW i \in 1 .. n, left[i - 1] \in 0 .. need
          PROVE  left[i] \in 0 .. need /\ left[i] <= left[i - 1] /\ left[i - 1] - left[i] <= Free(i)
        <3>1. PICK before, take : before = left[i - 1] /\ take = Smaller(before, listed[x][i])
            OBVIOUS
        <3>2. left[i] = IF take > 0 /\ CanTake(i, take) THEN before - take ELSE before
            BY <1>4, <3>1
        <3>3. before \in 0 .. need /\ take \in Nat /\ take <= before /\ Free(i) \in Nat
            BY <1>3, <2>1, <3>1 DEF Smaller
        <3>4. left[i] \in 0 .. need /\ left[i] <= before /\ before - left[i] <= Free(i)
            BY <3>2, <3>3 DEF CanTake
        <3>5. QED
            BY <3>1, <3>4
    <2>2. QED
        BY <2>1
<1>6. \A i \in 0 .. n : left[i] \in 0 .. need
    <2> DEFINE V == 0 .. need
    <2>1. left[0] \in V /\ \A i \in 1 .. n : left[i - 1] \in V => left[i] \in V
        BY <1>4, <1>5
    <2> HIDE DEF V
    <2>2. \A i \in 0 .. n : left[i] \in V
        BY <2>1, StepsKeep
    <2>3. QED
        BY <2>2 DEF V
<1>7. DOMAIN taken = 1 .. n /\ \A i \in 1 .. n : taken[i] = left[i - 1] - left[i]
    BY <1>1, <1>2 DEF Taken
<1>8. \A i \in 1 .. n : left[i - 1] \in 0 .. need /\ left[i] \in 0 .. need
    BY <1>6
<1>9. \A i \in 1 .. n : left[i] <= left[i - 1] /\ taken[i] \in Nat /\ taken[i] <= Free(i)
    BY <1>5, <1>7, <1>8
<1>10. Amount(taken, 1 .. n) = left[0] - left[n]
    <2>1. \A i \in 0 .. n : left[i] \in Nat
        BY <1>6
    <2>2. QED
        BY <1>7, <1>9, <2>1, AmountTaken
<1>11. n \in 0 .. n
    OBVIOUS
<1>12. QED
    BY <1>1, <1>2, <1>4, <1>6, <1>7, <1>9, <1>10, <1>11 DEF Total

\* The rows of RowsTaken, c of them, are those that something is taken from, each once.
Takes(of, c, taken, n) ==
    /\ of \in [1 .. c -> 1 .. n]
    /\ \A k \in 1 .. c : taken[of[k]] > 0
    /\ \A k, m \in 1 .. c : of[k] = of[m] => k = m
    /\ \A i \in 1 .. n : taken[i] > 0 => \E k \in 1 .. c : of[k] = i

\* The rows taken from are those with something taken, each once, and their quantities are all that was taken.
LEMMA RowsTakenAre ==
    ASSUME NEW taken, NEW n \in Nat, DOMAIN taken = 1 .. n, \A i \in 1 .. n : taken[i] \in Nat,
           NEW of \in RowsTaken(taken)
    PROVE  \E c \in Nat : Takes(of, c, taken, n) /\ Amount([k \in 1 .. c |-> taken[of[k]]], 1 .. c) = Total(taken)
<1>1. PICK S : S = {i \in 1 .. n : taken[i] > 0}
    OBVIOUS
<1>2. PICK c : c = Cardinality(S)
    OBVIOUS
<1>3. of \in [1 .. c -> S] /\ \A k, m \in DOMAIN of : k < m => of[k] < of[m]
    BY <1>1, <1>2 DEF RowsTaken
<1>4. IsFiniteSet(S) /\ S \subseteq Int /\ S \in SUBSET (1 .. n) /\ IsFiniteSet(1 .. n)
    <2>1. IsFiniteSet(1 .. n) /\ S \in SUBSET (1 .. n)
        BY <1>1, FS_Interval
    <2>2. IsFiniteSet(S)
        BY <2>1, FS_Subset
    <2>3. S \subseteq Int
        BY <1>1
    <2>4. QED
        BY <2>1, <2>2, <2>3
<1>5. c \in Nat
    BY <1>2, <1>4, FS_CardinalityType
<1>6. of \in Bijection(1 .. c, S)
    BY <1>2, <1>3, <1>4, OrderIsBijection
<1>7. Takes(of, c, taken, n)
    <2>1. /\ \A k, m \in 1 .. c : of[k] = of[m] => k = m
          /\ \A i \in S : \E k \in 1 .. c : of[k] = i
        BY <1>3, <1>6 DEF Bijection, Injection, IsInjective, Surjection
    <2>2. QED
        BY <1>1, <1>3, <2>1 DEF Takes
<1>8. Amount([k \in 1 .. c |-> taken[of[k]]], 1 .. c) = Amount(taken, S)
    <2> DEFINE f == [k \in 1 .. c |-> taken[of[k]]]
           D == 1 .. c
    <2>1. IsFiniteSet(D)
        BY <1>5, FS_Interval
    <2>2. \A k \in D : f[k] \in Nat
        BY <1>3, <1>4
    <2>3. \A k \in D : f[k] = taken[of[k]]
        OBVIOUS
    <2> HIDE DEF f, D
    <2>4. Renames(of, f, D, taken, S)
        BY <1>6, <2>3 DEF Renames, D
    <2>5. Amount(f, D) = Amount(taken, S)
        BY <2>1, <2>2, <2>4, AmountRenamed, Zenon
    <2>6. QED
        BY <2>5 DEF f, D
<1>9. Amount(taken, S) = Amount(taken, 1 .. n)
    <2> DEFINE D == 1 .. n
    <2>1. /\ \A i \in S : taken[i] \in Nat /\ (taken[i] > 0 => i \in D /\ taken[i] <= taken[i])
          /\ \A i \in D : taken[i] \in Nat /\ (taken[i] > 0 => i \in S /\ taken[i] <= taken[i])
          /\ \A i \in S : taken[i] \in Nat
          /\ \A i \in D : taken[i] \in Nat
        BY <1>1
    <2>2. IsFiniteSet(S) /\ IsFiniteSet(D)
        BY <1>4
    <2> HIDE DEF D
    <2>3. /\ Amount(taken, S) <= Amount(taken, D)
          /\ Amount(taken, S) \in Nat /\ Amount(taken, D) \in Nat
        BY <2>1, <2>2, AmountGrows, Zenon
    <2>4. Amount(taken, D) <= Amount(taken, S)
        BY <2>1, <2>2, AmountGrows, Zenon
    <2>5. Amount(taken, S) = Amount(taken, D)
        BY <2>3, <2>4
    <2>6. QED
        BY <2>5 DEF D
<1>10. QED
    BY <1>5, <1>7, <1>8, <1>9 DEF Total

\* Of one row that is taken from, they take what is taken.
Carries(g, of, c, taken) == \A k \in 1 .. c : g[k] = taken[of[k]]

\* Of one row, they carry what was taken from it.
LEMMA TakenOfRow ==
    ASSUME NEW taken, NEW n \in Nat, \A i \in 1 .. n : taken[i] \in Nat, NEW c \in Nat, NEW of,
           Takes(of, c, taken, n), NEW g, Carries(g, of, c, taken), NEW i
    PROVE  Amount(g, {k \in 1 .. c : of[k] = i}) = IF i \in 1 .. n THEN taken[i] ELSE 0
<1>1. /\ of \in [1 .. c -> 1 .. n]
      /\ \A k \in 1 .. c : taken[of[k]] > 0
      /\ \A k, m \in 1 .. c : of[k] = of[m] => k = m
      /\ \A m \in 1 .. n : taken[m] > 0 => \E k \in 1 .. c : of[k] = m
    BY DEF Takes
<1>2. CASE i \in 1 .. n /\ taken[i] > 0
    <2>1. PICK k \in 1 .. c : of[k] = i
        BY <1>1, <1>2
    <2>2. {m \in 1 .. c : of[m] = i} = {k}
        BY <1>1, <2>1
    <2>3. g[k] = taken[i] /\ g[k] \in Nat
        BY <1>2, <2>1 DEF Carries
    <2>4. QED
        BY <1>2, <2>2, <2>3, AmountOne
<1>3. CASE ~(i \in 1 .. n /\ taken[i] > 0)
    <2>1. {m \in 1 .. c : of[m] = i} = {}
        BY <1>1, <1>3
    <2>2. (IF i \in 1 .. n THEN taken[i] ELSE 0) = 0
        BY <1>3
    <2>3. QED
        BY <2>1, <2>2, AmountOfNone
<1>4. QED
    BY <1>2, <1>3

-----------------------------------------------------------------------------
\* The invariant.  What the rows of the database say, rows of stock in 1 .. n:
JobStates == {"draft", "released", "in_progress", "completed", "cancelled"}
JobRows == [status : JobStates, surplus : Nat, covered : Nat, issued : Nat]
ClaimRows == [row : Nat, quantity : Nat]
AllocRows == [row : Nat, reserved : Nat, consumed : Nat, released : Nat]
ProjectStates == {"planned", "released", "in_production", "ready_to_ship", "cancelled"}

\* A job has covered and issued no more than it needs, and nothing is issued before it starts.
JobFine(j, w) ==
    /\ w \in JobRows /\ w.covered <= Need[j] /\ w.issued <= Need[j]
    /\ w.status \in {"draft", "released"} => w.issued = 0
JobsFine(js) == js \in [Jobs -> JobRows] /\ \A j \in Jobs : JobFine(j, js[j])

ClaimsFine(cs, n) ==
    /\ cs \in [Jobs -> Seq(ClaimRows)]
    /\ \A j \in Jobs : \A k \in DOMAIN cs[j] : cs[j][k].row \in 1 .. n

\* Of an allocation no more is consumed and released than was reserved.
AllocsFine(of, n) ==
    /\ of \in Seq(AllocRows)
    /\ \A k \in DOMAIN of : of[k].row \in 1 .. n /\ of[k].consumed + of[k].released <= of[k].reserved
AllocFine(all, n) ==
    all = [p \in Projects |-> all[p]] /\ \A p \in Projects : AllocsFine(all[p], n)

ListedFine(ls, n) ==
    /\ ls \in [Standalone \cup Projects -> Seq(Nat)]
    /\ \A x \in Standalone \cup Projects : Len(ls[x]) <= n

\* A planned project has nothing allocated, and no job of it was released.
PlannedIsNew ==
    /\ project \in [Projects -> ProjectStates]
    /\ \A p \in Projects : project[p] = "planned" =>
         alloc[p] = <<>> /\ \A k \in Lines(p) : jobs[JobsOf[p][k]].status = "draft"

\* PromiseIsHeld, of one project whose allocations are of and whose status is st.
IssuedOf(js, p) == [k \in Lines(p) |-> js[JobsOf[p][k]].issued]
CountedOf(js, p) == [k \in Lines(p) |-> IF js[JobsOf[p][k]].status = "released" THEN js[JobsOf[p][k]].covered ELSE 0]
HeldOf(of) == [k \in DOMAIN of |-> Outstanding(of[k])]
ConsumedOf(of) == [k \in DOMAIN of |-> of[k].consumed]
Promise(p, js, of, st) ==
    /\ Total(ConsumedOf(of)) = Total(IssuedOf(js, p))
    /\ st # "cancelled" => Total(CountedOf(js, p)) <= Total(HeldOf(of))
Promises == \A p \in Projects : Promise(p, jobs, alloc[p], project[p])

StockInv ==
    /\ RowsFine(rows) /\ JobsFine(jobs)
    /\ ClaimsFine(claims, Len(rows)) /\ AllocFine(alloc, Len(rows)) /\ ListedFine(listed, Len(rows))
    /\ PlannedIsNew /\ Promises

-----------------------------------------------------------------------------
\* Lines and jobs.

LEMMA LinesAre ==
    ASSUME NEW p \in Projects
    PROVE  /\ \E n \in Nat : Lines(p) = 1 .. n
           /\ IsFiniteSet(Lines(p))
           /\ \A k \in Lines(p) : JobsOf[p][k] \in OfProject /\ Needs(p)[k] = Need[JobsOf[p][k]] /\ Needs(p)[k] \in Nat
           /\ DOMAIN Needs(p) = Lines(p) /\ Gross(p) \in Nat
<1>1. JobsOf[p] \in Seq(Jobs) /\ Need \in [Jobs -> Nat \ {0}]
    BY DetailStockAssumption
<1>2. PICK n \in Nat : Lines(p) = 1 .. n /\ IsFiniteSet(1 .. n)
    <2>1. Len(JobsOf[p]) \in Nat /\ Lines(p) = 1 .. Len(JobsOf[p])
        BY <1>1 DEF Lines
    <2>2. IsFiniteSet(1 .. Len(JobsOf[p]))
        BY <2>1, FS_Interval
    <2>3. QED
        BY <2>1, <2>2
<1>3. ASSUME NEW k \in Lines(p)
      PROVE  JobsOf[p][k] \in OfProject /\ Needs(p)[k] = Need[JobsOf[p][k]] /\ Needs(p)[k] \in Nat
    <2>1. JobsOf[p][k] \in Jobs
        BY <1>1 DEF Lines
    <2>2. JobsOf[p][k] \in OfProject
        BY <2>1 DEF OfProject, Lines
    <2>3. QED
        BY <1>1, <2>1, <2>2 DEF Needs
<1>4. DOMAIN Needs(p) = Lines(p)
    BY DEF Needs
<1>5. Gross(p) \in Nat
    BY <1>2, <1>3, <1>4, PiecesFinite DEF Gross, Total
<1>6. QED
    BY <1>2, <1>3, <1>4, <1>5

\* A job is on one line of one project at most.
LEMMA OneLine ==
    ASSUME NEW p \in Projects, NEW o \in Projects, NEW k \in Lines(p), NEW m \in Lines(o), JobsOf[p][k] = JobsOf[o][m]
    PROVE  p = o /\ k = m
    BY DetailStockAssumption DEF Lines

\* A project's job is on a line of its project.
LEMMA ProjectOfIs ==
    ASSUME NEW j \in OfProject
    PROVE  ProjectOf(j) \in Projects /\ \E k \in Lines(ProjectOf(j)) : JobsOf[ProjectOf(j)][k] = j
<1>1. \E p \in Projects : \E k \in DOMAIN JobsOf[p] : JobsOf[p][k] = j
    BY DEF OfProject
<1>2. QED
    BY <1>1 DEF ProjectOf, Lines

\* A job of no project is on none.
LEMMA OtherLines ==
    ASSUME NEW j \in Standalone, NEW p \in Projects, NEW k \in Lines(p)
    PROVE  JobsOf[p][k] # j
    BY LinesAre DEF Standalone

\* More rows of stock change nothing else.
LEMMA FineLonger ==
    ASSUME NEW n \in Nat, NEW m \in Nat, n <= m
    PROVE  /\ ClaimsFine(claims, n) => ClaimsFine(claims, m)
           /\ AllocFine(alloc, n) => AllocFine(alloc, m)
           /\ ListedFine(listed, n) => ListedFine(listed, m)
<1>1. \A i \in 1 .. n : i \in 1 .. m
    OBVIOUS
<1>2. ClaimsFine(claims, n) => ClaimsFine(claims, m)
    BY <1>1 DEF ClaimsFine
<1>3. \A p \in Projects : AllocsFine(alloc[p], n) => AllocsFine(alloc[p], m)
    BY <1>1 DEF AllocsFine
<1>4. AllocFine(alloc, n) => AllocFine(alloc, m)
    BY <1>3 DEF AllocFine
<1>5. ListedFine(listed, n) => ListedFine(listed, m)
    BY DEF ListedFine
<1>6. QED
    BY <1>2, <1>4, <1>5

\* Sums over lines and over allocations.
LEMMA LineSums ==
    ASSUME NEW p \in Projects, NEW js, JobsFine(js)
    PROVE  /\ DOMAIN IssuedOf(js, p) = Lines(p) /\ DOMAIN CountedOf(js, p) = Lines(p)
           /\ \A k \in Lines(p) : IssuedOf(js, p)[k] \in Nat /\ CountedOf(js, p)[k] \in Nat
           /\ Total(IssuedOf(js, p)) \in Nat /\ Total(CountedOf(js, p)) \in Nat
<1>1. ASSUME NEW k \in Lines(p) PROVE IssuedOf(js, p)[k] \in Nat /\ CountedOf(js, p)[k] \in Nat
    <2>1. JobsOf[p][k] \in Jobs
        BY LinesAre DEF OfProject
    <2>2. js[JobsOf[p][k]].issued \in Nat /\ js[JobsOf[p][k]].covered \in Nat
        BY <2>1 DEF JobsFine, JobFine, JobRows
    <2>3. QED
        BY <2>2 DEF IssuedOf, CountedOf
<1>2. DOMAIN IssuedOf(js, p) = Lines(p) /\ DOMAIN CountedOf(js, p) = Lines(p)
    BY DEF IssuedOf, CountedOf
<1>3. IsFiniteSet(Lines(p))
    BY LinesAre
<1>4. Total(IssuedOf(js, p)) \in Nat /\ Total(CountedOf(js, p)) \in Nat
    BY <1>1, <1>2, <1>3, PiecesFinite DEF Total
<1>5. QED
    BY <1>1, <1>2, <1>4

\* What allocations still hold and have issued, one by one and together, are natural numbers.
LEMMA AllocSums ==
    ASSUME NEW of, NEW n, AllocsFine(of, n)
    PROVE  /\ Len(of) \in Nat /\ DOMAIN of = 1 .. Len(of) /\ IsFiniteSet(DOMAIN of)
           /\ DOMAIN HeldOf(of) = DOMAIN of /\ DOMAIN ConsumedOf(of) = DOMAIN of
           /\ \A k \in DOMAIN of :
                /\ HeldOf(of)[k] = Outstanding(of[k]) /\ HeldOf(of)[k] \in Nat
                /\ ConsumedOf(of)[k] = of[k].consumed /\ ConsumedOf(of)[k] \in Nat
           /\ Total(HeldOf(of)) \in Nat /\ Total(ConsumedOf(of)) \in Nat
<1>1. of \in Seq(AllocRows) /\ \A k \in DOMAIN of : of[k].consumed + of[k].released <= of[k].reserved
    BY DEF AllocsFine
<1>2. Len(of) \in Nat /\ DOMAIN of = 1 .. Len(of)
    BY <1>1
<1>3. IsFiniteSet(DOMAIN of)
    BY <1>2, FS_Interval
<1>4. ASSUME NEW k \in DOMAIN of
      PROVE  /\ HeldOf(of)[k] = Outstanding(of[k]) /\ HeldOf(of)[k] \in Nat
             /\ ConsumedOf(of)[k] = of[k].consumed /\ ConsumedOf(of)[k] \in Nat
    <2>1. of[k] \in AllocRows
        BY <1>1
    <2>2. /\ of[k].consumed \in Nat /\ of[k].released \in Nat /\ of[k].reserved \in Nat
          /\ of[k].consumed + of[k].released <= of[k].reserved
        BY <1>1, <2>1 DEF AllocRows
    <2>3. HeldOf(of)[k] = Outstanding(of[k]) /\ ConsumedOf(of)[k] = of[k].consumed
        BY DEF HeldOf, ConsumedOf
    <2>4. Outstanding(of[k]) \in Nat
        BY <2>2 DEF Outstanding
    <2>5. QED
        BY <2>2, <2>3, <2>4
<1>5. DOMAIN HeldOf(of) = DOMAIN of /\ DOMAIN ConsumedOf(of) = DOMAIN of
    BY DEF HeldOf, ConsumedOf
<1>6. Total(HeldOf(of)) \in Nat
    <2>1. \A k \in DOMAIN of : HeldOf(of)[k] \in Nat
        BY <1>4
    <2>2. QED
        BY <1>3, <1>5, <2>1, PiecesFinite DEF Total
<1>7. Total(ConsumedOf(of)) \in Nat
    <2>1. \A k \in DOMAIN of : ConsumedOf(of)[k] \in Nat
        BY <1>4
    <2>2. QED
        BY <1>3, <1>5, <2>1, PiecesFinite DEF Total
<1>8. QED
    BY <1>2, <1>3, <1>4, <1>5, <1>6, <1>7

\* The promises of all projects are what PromiseIsHeld says.
LEMMA PromisesAre == Promises <=> PromiseIsHeld
    BY DEF Promises, Promise, PromiseIsHeld, IssuedOf, CountedOf, HeldOf, ConsumedOf, Issued, Counted, Held, Consumed

\* A promise is kept as long as the allocations stay, nothing more is counted on and the same is issued.
LEMMA PromiseStays ==
    ASSUME NEW p \in Projects, NEW js, NEW ks, NEW of, NEW st, NEW su, JobsFine(js), JobsFine(ks),
           Promise(p, js, of, st), su # "cancelled" => st # "cancelled", NEW n, AllocsFine(of, n),
           \A k \in Lines(p) : /\ ks[JobsOf[p][k]].issued = js[JobsOf[p][k]].issued
                               /\ ks[JobsOf[p][k]].status = "released" =>
                                    /\ js[JobsOf[p][k]].status = "released"
                                    /\ ks[JobsOf[p][k]].covered = js[JobsOf[p][k]].covered
    PROVE  Promise(p, ks, of, su)
<1>1. IssuedOf(ks, p) = IssuedOf(js, p)
    BY DEF IssuedOf
<1>2. /\ DOMAIN CountedOf(js, p) = Lines(p) /\ DOMAIN CountedOf(ks, p) = Lines(p) /\ IsFiniteSet(Lines(p))
      /\ \A k \in Lines(p) : CountedOf(js, p)[k] \in Nat /\ CountedOf(ks, p)[k] \in Nat
      /\ Total(HeldOf(of)) \in Nat
    BY LineSums, LinesAre, AllocSums
<1>3. \A k \in Lines(p) : CountedOf(ks, p)[k] > 0 => CountedOf(ks, p)[k] <= CountedOf(js, p)[k]
    <2>1. ASSUME NEW k \in Lines(p), CountedOf(ks, p)[k] > 0 PROVE CountedOf(ks, p)[k] = CountedOf(js, p)[k]
        BY <2>1 DEF CountedOf
    <2>2. QED
        BY <1>2, <2>1
<1>4. Total(CountedOf(ks, p)) <= Total(CountedOf(js, p)) /\ Total(CountedOf(ks, p)) \in Nat /\ Total(CountedOf(js, p)) \in Nat
    <2> DEFINE f == CountedOf(ks, p)
               g == CountedOf(js, p)
               S == Lines(p)
    <2>1. /\ IsFiniteSet(S) /\ \A k \in S : g[k] \in Nat
          /\ \A k \in S : f[k] \in Nat /\ (f[k] > 0 => k \in S /\ f[k] <= g[k])
        BY <1>2, <1>3
    <2>2. DOMAIN f = S /\ DOMAIN g = S
        BY <1>2
    <2> HIDE DEF f, g, S
    <2>3. Amount(f, S) <= Amount(g, S) /\ Amount(f, S) \in Nat /\ Amount(g, S) \in Nat
        BY <2>1, AmountGrows, Zenon
    <2>4. Total(f) <= Total(g) /\ Total(f) \in Nat /\ Total(g) \in Nat
        BY <2>2, <2>3 DEF Total
    <2>5. QED
        BY <2>4 DEF f, g
<1>5. QED
    BY <1>1, <1>2, <1>4 DEF Promise

-----------------------------------------------------------------------------
\* A table with one row written.

LEMMA RowsWritten ==
    ASSUME NEW r, RowsFine(rows), r = [i \in DOMAIN rows |-> r[i]],
           \A i \in DOMAIN rows : r[i] \in PieceRows /\ r[i].reserved <= r[i].quantity
    PROVE  RowsFine(r) /\ Len(r) = Len(rows) /\ DOMAIN r = DOMAIN rows
<1>1. rows \in Seq(PieceRows) /\ Len(rows) \in Nat /\ DOMAIN rows = 1 .. Len(rows)
    BY DEF RowsFine
<1>2. r \in [1 .. Len(rows) -> PieceRows]
    BY <1>1
<1>3. r \in Seq(PieceRows) /\ Len(r) = Len(rows) /\ DOMAIN r = DOMAIN rows
    BY <1>1, <1>2
<1>4. QED
    BY <1>3 DEF RowsFine

RowIs(r, i, q, v) == r = [rows EXCEPT ![i] = [quantity |-> q, reserved |-> v]]

\* One row is written and the others stay.
LEMMA RowWrittenTo ==
    ASSUME NEW i \in DOMAIN rows, NEW q \in Nat, NEW v \in Nat, v <= q, RowsFine(rows), NEW r, RowIs(r, i, q, v)
    PROVE  /\ RowsFine(r) /\ Len(r) = Len(rows) /\ DOMAIN r = DOMAIN rows
           /\ r[i].quantity = q /\ r[i].reserved = v
           /\ \A k \in DOMAIN rows \ {i} : r[k] = rows[k]
<1> USE DEF RowIs
<1>1. rows \in Seq(PieceRows) /\ \A k \in DOMAIN rows : rows[k] \in PieceRows /\ rows[k].reserved <= rows[k].quantity
    BY DEF RowsFine
<1>2. r = [k \in DOMAIN rows |-> r[k]]
    BY <1>1
<1>3. r[i].quantity = q /\ r[i].reserved = v /\ r[i] \in PieceRows
    BY DEF PieceRows
<1>4. \A k \in DOMAIN rows \ {i} : r[k] = rows[k]
    BY <1>1
<1>5. \A k \in DOMAIN rows : r[k] \in PieceRows /\ r[k].reserved <= r[k].quantity
    BY <1>1, <1>3, <1>4
<1>6. RowsFine(r) /\ Len(r) = Len(rows) /\ DOMAIN r = DOMAIN rows
    BY <1>2, <1>5, RowsWritten
<1>7. QED
    BY <1>3, <1>4, <1>6

\* What a row says, and what is free in it.
LEMMA RowSays ==
    ASSUME NEW i \in DOMAIN rows, RowsFine(rows)
    PROVE  /\ rows[i].quantity \in Nat /\ rows[i].reserved \in Nat /\ rows[i].reserved <= rows[i].quantity
           /\ rows[i] = [quantity |-> rows[i].quantity, reserved |-> rows[i].reserved]
           /\ Free(i) \in Nat
<1>1. rows[i] \in PieceRows /\ rows[i].reserved <= rows[i].quantity
    BY DEF RowsFine
<1>2. QED
    BY <1>1 DEF PieceRows, Free

Writes(js, j, w) == js = [jobs EXCEPT ![j] = w]
JobWrote(js, j, w) == js[j] = w /\ \A o \in Jobs \ {j} : js[o] = jobs[o]

\* One job is written and the others stay.
LEMMA JobWritten ==
    ASSUME NEW j \in Jobs, JobsFine(jobs), NEW w, JobFine(j, w), NEW js, Writes(js, j, w)
    PROVE  JobsFine(js) /\ JobWrote(js, j, w)
<1> USE DEF Writes, JobWrote
<1>1. jobs \in [Jobs -> JobRows] /\ w \in JobRows /\ \A o \in Jobs : JobFine(o, jobs[o])
    BY DEF JobsFine, JobFine
<1>2. js[j] = w /\ \A o \in Jobs \ {j} : js[o] = jobs[o]
    BY <1>1
<1>3. js \in [Jobs -> JobRows]
    BY <1>1
<1>4. \A o \in Jobs : JobFine(o, js[o])
    BY <1>1, <1>2
<1>5. QED
    BY <1>2, <1>3, <1>4 DEF JobsFine

\* What is known of one job.
LEMMA JobSays ==
    ASSUME NEW j \in Jobs, JobsFine(jobs)
    PROVE  /\ jobs[j].status \in JobStates /\ jobs[j].surplus \in Nat /\ jobs[j].covered \in Nat /\ jobs[j].issued \in Nat
           /\ jobs[j] = [status |-> jobs[j].status, surplus |-> jobs[j].surplus,
                         covered |-> jobs[j].covered, issued |-> jobs[j].issued]
           /\ jobs[j].covered <= Need[j] /\ jobs[j].issued <= Need[j]
           /\ jobs[j].status \in {"draft", "released"} => jobs[j].issued = 0
           /\ Need[j] \in Nat
<1>1. jobs[j] \in JobRows
    BY DEF JobsFine, JobFine
<1>2. QED
    BY <1>1, DetailStockAssumption DEF JobsFine, JobFine, JobRows

-----------------------------------------------------------------------------
\* Nothing allocated, and nothing asked.

LEMMA NoneAllocated == Total(ConsumedOf(<<>>)) = 0 /\ Total(HeldOf(<<>>)) = 0
<1>1. DOMAIN ConsumedOf(<<>>) = {} /\ DOMAIN HeldOf(<<>>) = {}
    BY DEF ConsumedOf, HeldOf
<1>2. QED
    BY <1>1, AmountOfNone DEF Total

\* Lines that were issued nothing sum to nothing, and so do lines that count on nothing.
LEMMA NoneAsked ==
    ASSUME NEW p \in Projects, NEW js
    PROVE  /\ (\A k \in Lines(p) : js[JobsOf[p][k]].issued = 0) => Total(IssuedOf(js, p)) = 0
           /\ (\A k \in Lines(p) : js[JobsOf[p][k]].status # "released") => Total(CountedOf(js, p)) = 0
<1>1. IsFiniteSet(Lines(p)) /\ Cardinality(Lines(p)) \in Nat
    BY LinesAre, FS_CardinalityType
<1>2. ASSUME \A k \in Lines(p) : js[JobsOf[p][k]].issued = 0 PROVE Total(IssuedOf(js, p)) = 0
    <2>1. DOMAIN IssuedOf(js, p) = Lines(p) /\ \A k \in Lines(p) : IssuedOf(js, p)[k] = 0
        BY <1>2 DEF IssuedOf
    <2>2. 0 \in Nat
        OBVIOUS
    <2>3. Amount(IssuedOf(js, p), Lines(p)) = Cardinality(Lines(p)) * 0
        BY <1>1, <2>1, <2>2, AmountOfSame, Zenon
    <2>4. QED
        BY <1>1, <2>1, <2>3 DEF Total
<1>3. ASSUME \A k \in Lines(p) : js[JobsOf[p][k]].status # "released" PROVE Total(CountedOf(js, p)) = 0
    <2>1. DOMAIN CountedOf(js, p) = Lines(p) /\ \A k \in Lines(p) : CountedOf(js, p)[k] = 0
        BY <1>3 DEF CountedOf
    <2>2. 0 \in Nat
        OBVIOUS
    <2>3. Amount(CountedOf(js, p), Lines(p)) = Cardinality(Lines(p)) * 0
        BY <1>1, <2>1, <2>2, AmountOfSame, Zenon
    <2>4. QED
        BY <1>1, <2>1, <2>3 DEF Total
<1>4. QED
    BY <1>2, <1>3

\* The stock begins with nothing reserved, allocated, claimed or listed.
LEMMA StockStarts == StockInit => StockInv
<1> SUFFICES ASSUME StockInit PROVE StockInv
    OBVIOUS
<1>1. /\ rows = [i \in DOMAIN InitialRows |-> [quantity |-> InitialRows[i], reserved |-> 0]]
      /\ jobs = [j \in Jobs |-> [status |-> "draft", surplus |-> 0, covered |-> 0, issued |-> 0]]
      /\ claims = [j \in Jobs |-> <<>>] /\ project = [p \in Projects |-> "planned"]
      /\ alloc = [p \in Projects |-> <<>>] /\ listed = [x \in Standalone \cup Projects |-> <<>>]
    BY DEF StockInit
<1>2. RowsFine(rows) /\ Len(rows) \in Nat
    <2>1. InitialRows \in Seq(Nat \ {0})
        BY DetailStockAssumption
    <2>2. Len(InitialRows) \in Nat /\ DOMAIN InitialRows = 1 .. Len(InitialRows)
        BY <2>1
    <2>3. \A i \in 1 .. Len(InitialRows) : rows[i] \in PieceRows /\ rows[i].reserved <= rows[i].quantity
        BY <1>1, <2>1, <2>2 DEF PieceRows
    <2>4. rows = [i \in 1 .. Len(InitialRows) |-> rows[i]]
        BY <1>1, <2>2
    <2>5. rows \in Seq(PieceRows) /\ Len(rows) = Len(InitialRows) /\ DOMAIN rows = 1 .. Len(InitialRows)
        <3> HIDE <1>1
        <3>1. rows \in [1 .. Len(InitialRows) -> PieceRows]
            BY <2>3, <2>4
        <3>2. QED
            BY <2>2, <3>1
    <2>6. QED
        BY <2>2, <2>3, <2>5 DEF RowsFine
<1>3. JobsFine(jobs)
    <2>1. \A j \in Jobs : Need[j] \in Nat
        BY DetailStockAssumption
    <2>2. QED
        BY <1>1, <2>1 DEF JobsFine, JobFine, JobRows, JobStates
<1>4. ClaimsFine(claims, Len(rows)) /\ ListedFine(listed, Len(rows))
    BY <1>1, <1>2 DEF ClaimsFine, ListedFine
<1>5. AllocFine(alloc, Len(rows))
    BY <1>1 DEF AllocFine, AllocsFine
<1>6. PlannedIsNew
    <2>1. \A p \in Projects : \A k \in Lines(p) : JobsOf[p][k] \in Jobs
        BY LinesAre DEF OfProject
    <2>2. QED
        BY <1>1, <2>1 DEF PlannedIsNew, ProjectStates
<1>7. ASSUME NEW p \in Projects PROVE Promise(p, jobs, alloc[p], project[p])
    <2>1. \A k \in Lines(p) : JobsOf[p][k] \in Jobs
        BY LinesAre DEF OfProject
    <2>2. \A k \in Lines(p) : jobs[JobsOf[p][k]].issued = 0 /\ jobs[JobsOf[p][k]].status # "released"
        BY <1>1, <2>1
    <2>3. alloc[p] = <<>> /\ Total(IssuedOf(jobs, p)) = 0 /\ Total(CountedOf(jobs, p)) = 0
        BY <1>1, <2>2, NoneAsked
    <2>4. QED
        BY <2>3, NoneAllocated DEF Promise
<1>8. QED
    BY <1>2, <1>3, <1>4, <1>5, <1>6, <1>7 DEF StockInv, Promises

-----------------------------------------------------------------------------
\* Steps that allocate nothing.

LEMMA PromisesStay ==
    ASSUME StockInv, alloc' = alloc, JobsFine(jobs'),
           \A p \in Projects : project'[p] # "cancelled" => project[p] # "cancelled",
           \A j \in OfProject : /\ jobs'[j].issued = jobs[j].issued
                                /\ jobs'[j].status = "released" =>
                                     jobs[j].status = "released" /\ jobs'[j].covered = jobs[j].covered
    PROVE  Promises'
<1>1. ASSUME NEW p \in Projects PROVE Promise(p, jobs', alloc[p], project'[p])
    <2>1. /\ JobsFine(jobs) /\ AllocsFine(alloc[p], Len(rows)) /\ Promise(p, jobs, alloc[p], project[p])
        BY DEF StockInv, AllocFine, Promises
    <2>2. project'[p] # "cancelled" => project[p] # "cancelled"
        OBVIOUS
    <2>3. \A k \in Lines(p) : /\ jobs'[JobsOf[p][k]].issued = jobs[JobsOf[p][k]].issued
                              /\ jobs'[JobsOf[p][k]].status = "released" =>
                                   /\ jobs[JobsOf[p][k]].status = "released"
                                   /\ jobs'[JobsOf[p][k]].covered = jobs[JobsOf[p][k]].covered
        BY LinesAre
    <2>4. QED
        BY <2>1, <2>2, <2>3, PromiseStays
<1>2. QED
    BY <1>1 DEF Promises

\* A planned project has no allocations and only drafts still.
LEMMA PlannedStays ==
    ASSUME StockInv, alloc' = alloc, project' \in [Projects -> ProjectStates],
           \A p \in Projects : project'[p] = "planned" => project[p] = "planned",
           \A j \in OfProject : jobs[j].status = "draft" => jobs'[j].status = "draft"
    PROVE  PlannedIsNew'
    BY LinesAre DEF StockInv, PlannedIsNew

\* Rows are written, or added.
LEMMA RowsMove ==
    ASSUME StockInv, RowsFine(rows'), Len(rows) <= Len(rows'), UNCHANGED <<jobs, project, alloc, listed>>,
           ClaimsFine(claims', Len(rows'))
    PROVE  StockInv'
<1>1. Len(rows) \in Nat /\ Len(rows') \in Nat
    BY DEF StockInv, RowsFine
<1>2. AllocFine(alloc', Len(rows')) /\ ListedFine(listed', Len(rows'))
    BY <1>1, FineLonger DEF StockInv
<1>3. PlannedIsNew' /\ Promises' /\ JobsFine(jobs')
    BY DEF StockInv, PlannedIsNew, Promises
<1>4. QED
    BY <1>2, <1>3 DEF StockInv

\* A surplus of the laser becomes a row of its own, with nothing of it reserved.
LEMMA AddSurplusKeeps ==
    ASSUME StockInv, NEW j \in Jobs, NEW cut, NEW q \in 1 .. MaxPieces, AddSurplus(j, cut, q)
    PROVE  StockInv'
<1>1. /\ rows' = Append(rows, [quantity |-> q, reserved |-> 0]) /\ jobs' = [jobs EXCEPT ![j].surplus = @ + q]
      /\ UNCHANGED <<claims, project, alloc, listed>> /\ q \in Nat
    BY DetailStockAssumption DEF AddSurplus
<1>2. RowsFine(rows') /\ Len(rows') = Len(rows) + 1 /\ Len(rows) \in Nat
    <2>1. rows \in Seq(PieceRows) /\ \A i \in DOMAIN rows : rows[i].reserved <= rows[i].quantity
        BY DEF StockInv, RowsFine
    <2>2. [quantity |-> q, reserved |-> 0] \in PieceRows
        BY <1>1 DEF PieceRows
    <2>3. rows' \in Seq(PieceRows) /\ Len(rows') = Len(rows) + 1 /\ Len(rows) \in Nat
        BY <1>1, <2>1, <2>2
    <2>4. ASSUME NEW i \in DOMAIN rows' PROVE rows'[i].reserved <= rows'[i].quantity
        <3>1. CASE i \in DOMAIN rows
            <4>1. rows'[i] = rows[i]
                BY <1>1, <2>1, <2>2, <3>1
            <4>2. QED
                BY <2>1, <3>1, <4>1
        <3>2. CASE i \notin DOMAIN rows
            <4>1. i = Len(rows) + 1
                BY <2>1, <2>3, <3>2
            <4>2. rows'[i] = [quantity |-> q, reserved |-> 0]
                BY <1>1, <2>1, <2>2, <4>1
            <4>3. QED
                BY <1>1, <4>2
        <3>3. QED
            BY <3>1, <3>2
    <2>5. QED
        BY <2>3, <2>4 DEF RowsFine
<1>3. /\ JobsFine(jobs') /\ jobs'[j].status = jobs[j].status /\ jobs'[j].covered = jobs[j].covered
      /\ jobs'[j].issued = jobs[j].issued /\ \A o \in Jobs \ {j} : jobs'[o] = jobs[o]
    <2>1. JobsFine(jobs)
        BY DEF StockInv
    <2>2. PICK w : w = [jobs[j] EXCEPT !.surplus = @ + q]
        OBVIOUS
    <2>3. jobs[j] \in JobRows
        BY <2>1 DEF JobsFine, JobFine
    <2>4. /\ w \in JobRows /\ w.status = jobs[j].status /\ w.covered = jobs[j].covered
          /\ w.issued = jobs[j].issued
        BY <1>1, <2>2, <2>3 DEF JobRows
    <2>5. JobFine(j, w)
        BY <2>1, <2>4 DEF JobsFine, JobFine
    <2>6. Writes(jobs', j, w)
        BY <1>1, <2>2 DEF Writes
    <2>7. JobsFine(jobs') /\ JobWrote(jobs', j, w)
        BY <2>1, <2>5, <2>6, JobWritten, Zenon
    <2>8. QED
        BY <2>4, <2>7 DEF JobWrote
<1>4. ClaimsFine(claims', Len(rows')) /\ AllocFine(alloc', Len(rows')) /\ ListedFine(listed', Len(rows'))
    BY <1>1, <1>2, FineLonger DEF StockInv
<1>5. \A o \in OfProject : /\ jobs'[o].issued = jobs[o].issued /\ jobs'[o].status = jobs[o].status
                           /\ jobs'[o].covered = jobs[o].covered
    BY <1>3 DEF OfProject
<1>6. PlannedIsNew'
    <2>1. project' \in [Projects -> ProjectStates]
        BY <1>1 DEF StockInv, PlannedIsNew
    <2>2. QED
        BY <1>1, <1>5, <2>1, PlannedStays
<1>7. Promises'
    BY <1>1, <1>3, <1>5, PromisesStay
<1>8. QED
    BY <1>2, <1>3, <1>4, <1>6, <1>7 DEF StockInv

\* A release lists the rows there are.
LEMMA ListRowsKeeps ==
    ASSUME StockInv, NEW x \in Standalone \cup Projects, ListRows(x)
    PROVE  StockInv'
<1>1. listed' = [listed EXCEPT ![x] = [i \in DOMAIN rows |-> Free(i)]] /\ UNCHANGED <<rows, jobs, claims, project, alloc>>
    BY DEF ListRows
<1>2. ListedFine(listed, Len(rows)) /\ RowsFine(rows)
    BY DEF StockInv
<1>3. PICK l : l = [i \in DOMAIN rows |-> Free(i)]
    OBVIOUS
<1>4. l \in Seq(Nat) /\ Len(l) = Len(rows) /\ Len(rows) \in Nat
    <2>1. \A i \in DOMAIN rows : Free(i) \in Nat
        BY <1>2, RowSays
    <2>2. rows \in Seq(PieceRows)
        BY <1>2 DEF RowsFine
    <2>3. QED
        BY <1>3, <2>1, <2>2
<1>5. ListedFine(listed', Len(rows'))
    BY <1>1, <1>2, <1>3, <1>4 DEF ListedFine
<1>6. PlannedIsNew' /\ Promises'
    BY <1>1 DEF StockInv, PlannedIsNew, Promises
<1>7. QED
    BY <1>1, <1>5, <1>6 DEF StockInv

-----------------------------------------------------------------------------
\* Releases.

Reserves(taken, n) ==
    /\ RowsFine(rows') /\ Len(rows') = Len(rows) /\ DOMAIN rows' = DOMAIN rows
    /\ \A i \in DOMAIN rows :
         rows'[i].quantity = rows[i].quantity
         /\ rows'[i].reserved = rows[i].reserved + (IF i \in 1 .. n THEN taken[i] ELSE 0)

\* Reserving what is free of each row leaves it reserved within its quantity.
LEMMA ReserveTakes ==
    ASSUME RowsFine(rows), NEW n \in Nat, n <= Len(rows), NEW taken, DOMAIN taken = 1 .. n,
           \A i \in 1 .. n : taken[i] \in Nat /\ taken[i] <= Free(i), Reserve(taken)
    PROVE  Reserves(taken, n)
<1> DEFINE more(i) == IF i \in 1 .. n THEN taken[i] ELSE 0
<1>1. rows' = [i \in DOMAIN rows |-> [rows[i] EXCEPT !.reserved = @ + more(i)]]
    BY DEF Reserve
<1>2. PICK r : r = rows'
    OBVIOUS
<1>3. ASSUME NEW i \in DOMAIN rows
      PROVE  /\ r[i] \in PieceRows /\ r[i].reserved <= r[i].quantity
             /\ r[i].quantity = rows[i].quantity /\ r[i].reserved = rows[i].reserved + more(i)
    <2>1. /\ rows[i].quantity \in Nat /\ rows[i].reserved \in Nat /\ rows[i].reserved <= rows[i].quantity
          /\ rows[i] = [quantity |-> rows[i].quantity, reserved |-> rows[i].reserved]
        BY RowSays
    <2>2. more(i) \in Nat /\ rows[i].reserved + more(i) <= rows[i].quantity
        BY <2>1 DEF Free
    <2> HIDE DEF more
    <2>3. r[i] = [quantity |-> rows[i].quantity, reserved |-> rows[i].reserved + more(i)]
        BY <1>1, <1>2, <2>1
    <2>4. QED
        BY <2>1, <2>2, <2>3 DEF PieceRows
<1>4. r = [i \in DOMAIN rows |-> r[i]]
    BY <1>1, <1>2
<1> HIDE DEF more
<1>5. RowsFine(r) /\ Len(r) = Len(rows) /\ DOMAIN r = DOMAIN rows
    BY <1>3, <1>4, RowsWritten
<1>6. QED
    BY <1>2, <1>3, <1>5 DEF Reserves, more

\* There are still all the rows a release has listed, since rows are never removed.
LEMMA ListedSays ==
    ASSUME NEW x \in Standalone \cup Projects, StockInv
    PROVE  listed[x] \in Seq(Nat) /\ Len(listed[x]) \in Nat /\ Len(listed[x]) <= Len(rows) /\ Len(rows) \in Nat
<1>1. listed[x] \in Seq(Nat) /\ Len(listed[x]) <= Len(rows)
    BY DEF StockInv, ListedFine
<1>2. rows \in Seq(PieceRows)
    BY DEF StockInv, RowsFine
<1>3. QED
    BY <1>1, <1>2

\* What a release has done: of the n rows listed it has taken, c of them.
ClaimsFor(of, c, taken) == [k \in 1 .. c |-> [row |-> of[k], quantity |-> taken[of[k]]]]
Appends(cs, j, new) == cs = [claims EXCEPT ![j] = @ \o new]
JobTakes(j, taken, n, of, c) ==
    /\ n <= Len(rows) /\ \A i \in 1 .. n : taken[i] \in Nat
    /\ Takes(of, c, taken, n) /\ Reserves(taken, n)
    /\ Appends(claims', j, ClaimsFor(of, c, taken))

\* The release of a job of no project, taken apart into what it takes and what it writes.
LEMMA ReleaseJobTakes ==
    ASSUME StockInv, NEW j \in Standalone, ReleaseJob(j)
    PROVE  \E n \in Nat, c \in Nat : \E taken, of : JobTakes(j, taken, n, of, c)
<1>1. j \in Jobs /\ Need[j] \in Nat
    BY DetailStockAssumption DEF Standalone
<1>2. PICK n \in Nat : n = Len(listed[j]) /\ listed[j] \in Seq(Nat) /\ n <= Len(rows)
    BY ListedSays
<1>3. PICK taken : taken = Taken(j, Need[j])
    OBVIOUS
<1>4. RowsFine(rows)
    BY DEF StockInv
<1>5. DOMAIN taken = 1 .. n /\ \A i \in 1 .. n : taken[i] \in Nat /\ taken[i] <= Free(i)
    BY <1>1, <1>2, <1>3, <1>4, LeftFalls
<1>6. Reserve(taken)
    BY <1>3, Zenon DEF ReleaseJob
<1>7. Reserves(taken, n)
    BY <1>2, <1>4, <1>5, <1>6, ReserveTakes
<1>8. PICK of \in RowsTaken(taken) :
        claims' = [claims EXCEPT ![j] = @ \o [k \in DOMAIN of |-> [row |-> of[k], quantity |-> taken[of[k]]]]]
    BY <1>3, Zenon DEF ReleaseJob
<1>9. PICK c \in Nat : Takes(of, c, taken, n)
    BY <1>5, RowsTakenAre
<1>10. DOMAIN of = 1 .. c
    BY <1>9 DEF Takes
<1>11. Appends(claims', j, ClaimsFor(of, c, taken))
    BY <1>8, <1>10 DEF Appends, ClaimsFor
<1>12. QED
    BY <1>2, <1>5, <1>7, <1>9, <1>11 DEF JobTakes

\* Claims on rows that are there may be added to a job.
LEMMA ClaimsAppended ==
    ASSUME NEW m \in Nat, ClaimsFine(claims, m), NEW j \in Jobs, NEW new \in Seq(ClaimRows),
           \A k \in DOMAIN new : new[k].row \in 1 .. m, NEW cs, Appends(cs, j, new)
    PROVE  ClaimsFine(cs, m)
<1>1. cs = [claims EXCEPT ![j] = @ \o new] /\ claims \in [Jobs -> Seq(ClaimRows)]
    BY DEF Appends, ClaimsFine
<1>2. cs \in [Jobs -> Seq(ClaimRows)] /\ cs[j] = claims[j] \o new /\ claims[j] \in Seq(ClaimRows)
    BY <1>1
<1>3. \A k \in DOMAIN cs[j] : cs[j][k].row \in 1 .. m
    <2>1. ASSUME NEW k \in DOMAIN cs[j] PROVE cs[j][k].row \in 1 .. m
        <3>1. CASE k \in DOMAIN claims[j]
            <4>1. cs[j][k] = claims[j][k]
                BY <1>2, <3>1
            <4>2. QED
                BY <3>1, <4>1 DEF ClaimsFine
        <3>2. CASE k \notin DOMAIN claims[j]
            <4>1. k - Len(claims[j]) \in DOMAIN new /\ cs[j][k] = new[k - Len(claims[j])]
                BY <1>2, <3>2
            <4>2. QED
                BY <4>1
        <3>3. QED
            BY <3>1, <3>2
    <2>2. QED
        BY <2>1
<1>4. \A o \in Jobs \ {j} : cs[o] = claims[o]
    BY <1>1
<1>5. QED
    BY <1>2, <1>3, <1>4 DEF ClaimsFine

\* A job of no project is released.
LEMMA ReleaseJobKeeps ==
    ASSUME StockInv, NEW j \in Standalone, ReleaseJob(j)
    PROVE  StockInv'
<1>1. j \in Jobs /\ Need[j] \in Nat /\ j \notin OfProject
    BY DetailStockAssumption DEF Standalone
<1>2. PICK n \in Nat, c \in Nat : \E taken, of : JobTakes(j, taken, n, of, c)
    BY ReleaseJobTakes
<1>3. PICK taken, of : JobTakes(j, taken, n, of, c)
    BY <1>2
<1>4. /\ n <= Len(rows) /\ \A i \in 1 .. n : taken[i] \in Nat
      /\ of \in [1 .. c -> 1 .. n] /\ RowsFine(rows') /\ Len(rows') = Len(rows) /\ Len(rows) \in Nat
      /\ Appends(claims', j, ClaimsFor(of, c, taken))
    <2>1. rows \in Seq(PieceRows)
        BY DEF StockInv, RowsFine
    <2>2. QED
        BY <1>3, <2>1 DEF JobTakes, Takes, Reserves
<1>5. ClaimsFine(claims', Len(rows'))
    <2>1. \A k \in 1 .. c : of[k] \in 1 .. Len(rows) /\ of[k] \in Nat /\ taken[of[k]] \in Nat
        BY <1>4
    <2>2. PICK new : new = ClaimsFor(of, c, taken)
        OBVIOUS
    <2>3. \A k \in 1 .. c : new[k] \in ClaimRows /\ new[k].row = of[k]
        BY <2>1, <2>2 DEF ClaimsFor, ClaimRows
    <2>4. new = [k \in 1 .. c |-> new[k]]
        BY <2>2 DEF ClaimsFor
    <2>5. new \in Seq(ClaimRows) /\ DOMAIN new = 1 .. c
        BY <2>3, <2>4
    <2>6. \A k \in DOMAIN new : new[k].row \in 1 .. Len(rows)
        BY <2>1, <2>3, <2>5
    <2>7. ClaimsFine(claims, Len(rows)) /\ Appends(claims', j, new)
        BY <1>4, <2>2 DEF StockInv
    <2>8. ClaimsFine(claims', Len(rows))
        BY <1>1, <1>4, <2>5, <2>6, <2>7, ClaimsAppended
    <2>9. QED
        BY <1>4, <2>8
<1>6. JobsFine(jobs') /\ \A o \in Jobs \ {j} : jobs'[o] = jobs[o]
    <2>1. PICK b : b = Need[j] - Left(j, Need[j])[Len(listed[j])]
        OBVIOUS
    <2>2. b \in Nat /\ b <= Need[j]
        <3>1. PICK m \in Nat : m = Len(listed[j]) /\ listed[j] \in Seq(Nat) /\ m <= Len(rows)
            BY ListedSays
        <3>2. RowsFine(rows)
            BY DEF StockInv
        <3>3. Left(j, Need[j])[m] \in 0 .. Need[j]
            BY <1>1, <3>1, <3>2, LeftFalls
        <3>4. QED
            BY <1>1, <2>1, <3>1, <3>3
    <2>3. PICK w : w = [jobs[j] EXCEPT !.status = "released", !.covered = b]
        OBVIOUS
    <2>4. JobsFine(jobs) /\ JobFine(j, jobs[j]) /\ jobs[j].status = "draft"
        BY <1>1 DEF StockInv, JobsFine, ReleaseJob
    <2>5. JobFine(j, w)
        BY <2>2, <2>3, <2>4 DEF JobFine, JobRows, JobStates
    <2>6. Writes(jobs', j, w)
        BY <2>1, <2>3 DEF Writes, ReleaseJob
    <2>7. JobsFine(jobs') /\ JobWrote(jobs', j, w)
        BY <1>1, <2>4, <2>5, <2>6, JobWritten, Zenon
    <2>8. QED
        BY <2>7 DEF JobWrote
<1>7. UNCHANGED <<project, alloc>> /\ listed' = [listed EXCEPT ![j] = <<>>]
    BY DEF ReleaseJob
<1>8. ListedFine(listed', Len(rows'))
    BY <1>4, <1>7 DEF StockInv, ListedFine
<1>9. AllocFine(alloc', Len(rows'))
    BY <1>4, <1>7 DEF StockInv
<1>10. \A o \in OfProject : jobs'[o] = jobs[o]
    BY <1>1, <1>6 DEF OfProject
<1>11. PlannedIsNew' /\ Promises'
    <2>1. project' \in [Projects -> ProjectStates]
        BY <1>7 DEF StockInv, PlannedIsNew
    <2>2. QED
        BY <1>6, <1>7, <1>10, <2>1, PlannedStays, PromisesStay
<1>12. QED
    BY <1>4, <1>5, <1>6, <1>8, <1>9, <1>11 DEF StockInv

\* What Share hands out: of nothing more than there is, and together what was asked for or all of it.
LEMMA ShareSums ==
    ASSUME NEW f, NEW g, NEW n \in Nat, NEW q \in Nat, \A k \in 1 .. n : f[k] \in Nat,
           \A k \in 1 .. n : g[k] = Share(f, k, q)
    PROVE  /\ \A k \in 1 .. n : g[k] \in Nat /\ g[k] <= f[k]
           /\ Amount(f, 1 .. n) \in Nat
           /\ Amount(g, 1 .. n) = IF q <= Amount(f, 1 .. n) THEN q ELSE Amount(f, 1 .. n)
<1>1. \A k \in 1 .. n : LET rest == q - Amount(f, 1 .. k - 1)
                        IN  g[k] = IF rest <= 0 THEN 0 ELSE IF f[k] <= rest THEN f[k] ELSE rest
    <2>1. ASSUME NEW k \in 1 .. n
          PROVE  LET rest == q - Amount(f, 1 .. k - 1)
                 IN  g[k] = IF rest <= 0 THEN 0 ELSE IF f[k] <= rest THEN f[k] ELSE rest
        <3>1. IsFiniteSet(1 .. k - 1) /\ \A i \in 1 .. k - 1 : f[i] \in Nat
            <4>1. k - 1 \in Nat /\ \A i \in 1 .. k - 1 : i \in 1 .. n
                OBVIOUS
            <4>2. QED
                BY <4>1, FS_Interval
        <3>2. Amount(f, 1 .. k - 1) \in Nat
            BY <3>1, PiecesFinite
        <3>3. f[k] \in Nat
            OBVIOUS
        <3>4. QED
            BY <3>2, <3>3 DEF Share, Smaller, Larger
    <2>2. QED
        BY <2>1
<1>2. QED
    BY <1>1, AmountShared

-----------------------------------------------------------------------------
\* Jobs go on, and rows are written; nothing is allocated or claimed.
LEMMA JobsMove ==
    ASSUME StockInv, RowsFine(rows'), Len(rows') = Len(rows), JobsFine(jobs'), UNCHANGED <<claims, project, alloc, listed>>,
           \A j \in OfProject : /\ jobs'[j].issued = jobs[j].issued
                                /\ jobs'[j].status = "released" =>
                                     jobs[j].status = "released" /\ jobs'[j].covered = jobs[j].covered
                                /\ jobs[j].status = "draft" => jobs'[j].status = "draft"
    PROVE  StockInv'
<1>1. ClaimsFine(claims', Len(rows')) /\ AllocFine(alloc', Len(rows')) /\ ListedFine(listed', Len(rows'))
    BY DEF StockInv
<1>2. PlannedIsNew'
    <2>1. project' \in [Projects -> ProjectStates]
        BY DEF StockInv, PlannedIsNew
    <2>2. QED
        BY <2>1, PlannedStays
<1>3. Promises'
    BY PromisesStay
<1>4. QED
    BY <1>1, <1>2, <1>3 DEF StockInv

\* A release that fails leaves everything as it was, but for its list.
LEMMA ReleaseFailsKeeps ==
    ASSUME StockInv, NEW p \in Projects, ReleaseFails(p)
    PROVE  StockInv'
<1>1. listed' = [listed EXCEPT ![p] = <<>>] /\ UNCHANGED <<rows, jobs, claims, project, alloc>>
    BY DEF ReleaseFails
<1>2. rows \in Seq(PieceRows)
    BY DEF StockInv, RowsFine
<1>3. ListedFine(listed', Len(rows'))
    BY <1>1, <1>2 DEF StockInv, ListedFine
<1>4. PlannedIsNew' /\ Promises'
    BY <1>1 DEF StockInv, PlannedIsNew, Promises
<1>5. QED
    BY <1>1, <1>3, <1>4 DEF StockInv

\* A job in another state, with nothing else of it changed.
StatusWritten(j, s) == jobs' = [jobs EXCEPT ![j].status = s]

\* A job goes on to a later status and keeps what it has.
LEMMA JobGoesOn ==
    ASSUME StockInv, NEW j \in Jobs, NEW s \in JobStates \ {"draft", "released"}, StatusWritten(j, s)
    PROVE  JobsFine(jobs') /\ \A o \in Jobs :
             /\ jobs'[o].issued = jobs[o].issued /\ jobs'[o].covered = jobs[o].covered
             /\ jobs'[o].status = IF o = j THEN s ELSE jobs[o].status
<1>1. JobsFine(jobs)
    BY DEF StockInv
<1>2. PICK w : w = [jobs[j] EXCEPT !.status = s]
    OBVIOUS
<1>3. jobs[j] \in JobRows /\ JobFine(j, jobs[j])
    BY <1>1 DEF JobsFine, JobFine
<1>4. w \in JobRows /\ w.status = s /\ w.covered = jobs[j].covered /\ w.issued = jobs[j].issued
    BY <1>2, <1>3 DEF JobRows
<1>5. JobFine(j, w)
    BY <1>3, <1>4 DEF JobFine
<1>6. Writes(jobs', j, w)
    BY <1>2 DEF Writes, StatusWritten
<1>7. JobsFine(jobs') /\ JobWrote(jobs', j, w)
    BY <1>1, <1>5, <1>6, JobWritten, Zenon
<1>8. QED
    BY <1>4, <1>7 DEF JobWrote

\* A job of no project starts.
LEMMA StartStandaloneKeeps ==
    ASSUME StockInv, NEW j \in Jobs, StartStandalone(j)
    PROVE  StockInv'
<1>1. StatusWritten(j, "in_progress") /\ UNCHANGED <<rows, claims, project, alloc, listed>> /\ j \notin OfProject
    BY DEF StartStandalone, StatusWritten, Standalone
<1>2. "in_progress" \in JobStates \ {"draft", "released"}
    BY DEF JobStates
<1>3. JobsFine(jobs') /\ \A o \in OfProject :
             /\ jobs'[o].issued = jobs[o].issued /\ jobs'[o].covered = jobs[o].covered
             /\ jobs'[o].status = jobs[o].status
    BY <1>1, <1>2, JobGoesOn DEF OfProject
<1>4. RowsFine(rows') /\ Len(rows') = Len(rows)
    BY <1>1 DEF StockInv
<1>5. QED
    BY <1>1, <1>3, <1>4, JobsMove

\* A job is completed.
LEMMA CompleteJobKeeps ==
    ASSUME StockInv, NEW j \in Jobs, CompleteJob(j)
    PROVE  StockInv'
<1>1. /\ StatusWritten(j, "completed") /\ UNCHANGED <<rows, claims, project, alloc, listed>>
      /\ jobs[j].status = "in_progress"
    BY DEF CompleteJob, StatusWritten
<1>2. "completed" \in JobStates \ {"draft", "released"}
    BY DEF JobStates
<1>3. JobsFine(jobs') /\ \A o \in OfProject :
             /\ jobs'[o].issued = jobs[o].issued /\ jobs'[o].covered = jobs[o].covered
             /\ jobs'[o].status = "released" => jobs[o].status = "released"
             /\ jobs[o].status = "draft" => jobs'[o].status = "draft"
    BY <1>1, <1>2, JobGoesOn DEF OfProject
<1>4. RowsFine(rows') /\ Len(rows') = Len(rows)
    BY <1>1 DEF StockInv
<1>5. QED
    BY <1>1, <1>3, <1>4, JobsMove

\* A project takes its status from its jobs.
LEMMA SynchronizeKeeps ==
    ASSUME StockInv, NEW p \in Projects, Synchronize(p)
    PROVE  StockInv'
<1>1. /\ UNCHANGED <<rows, jobs, claims, alloc, listed>> /\ project[p] \in {"released", "in_production", "ready_to_ship"}
      /\ \E s \in {"released", "in_production", "ready_to_ship"} : project' = [project EXCEPT ![p] = s]
    BY DEF Synchronize
<1>2. project' \in [Projects -> ProjectStates] /\ project \in [Projects -> ProjectStates]
    BY <1>1 DEF StockInv, PlannedIsNew, ProjectStates
<1>3. \A o \in Projects : /\ project'[o] = "planned" => project[o] = "planned"
                          /\ project'[o] # "cancelled" => project[o] # "cancelled"
    BY <1>1, <1>2
<1>4. JobsFine(jobs') /\ ClaimsFine(claims', Len(rows')) /\ AllocFine(alloc', Len(rows')) /\ ListedFine(listed', Len(rows'))
      /\ RowsFine(rows')
    BY <1>1 DEF StockInv
<1>5. PlannedIsNew'
    BY <1>1, <1>2, <1>3, PlannedStays
<1>6. Promises'
    BY <1>1, <1>3, <1>4, PromisesStay
<1>7. QED
    BY <1>4, <1>5, <1>6 DEF StockInv

\* Rows that no longer have something reserved.
Lessens(s, r, i, t) == s = [r EXCEPT ![i].reserved = @ - t]

\* What is given back stays within the row.
LEMMA LessReserved ==
    ASSUME NEW r, RowsFine(r), NEW i \in DOMAIN r, NEW t \in Nat, t <= r[i].reserved, NEW s, Lessens(s, r, i, t)
    PROVE  RowsFine(s) /\ Len(s) = Len(r)
<1>1. r \in Seq(PieceRows) /\ \A k \in DOMAIN r : r[k] \in PieceRows /\ r[k].reserved <= r[k].quantity
    BY DEF RowsFine
<1>2. PICK w : w = [r[i] EXCEPT !.reserved = @ - t]
    OBVIOUS
<1>3. w \in PieceRows /\ w.reserved <= w.quantity
    <2>1. r[i] \in PieceRows /\ r[i].reserved <= r[i].quantity
        BY <1>1
    <2>2. w.quantity = r[i].quantity /\ w.reserved = r[i].reserved - t /\ w = [quantity |-> w.quantity, reserved |-> w.reserved]
        BY <1>2, <2>1 DEF PieceRows
    <2>3. w.quantity \in Nat /\ w.reserved \in Nat /\ w.reserved <= w.quantity
        BY <2>1, <2>2 DEF PieceRows
    <2>4. QED
        BY <2>2, <2>3 DEF PieceRows
<1>4. s = [r EXCEPT ![i] = w]
    BY <1>2 DEF Lessens
<1> HIDE <1>2
<1>5. s[i] = w /\ \A k \in DOMAIN r \ {i} : s[k] = r[k]
    BY <1>1, <1>4
<1>6. s \in Seq(PieceRows) /\ Len(s) = Len(r) /\ DOMAIN s = DOMAIN r
    BY <1>1, <1>3, <1>4
<1>7. QED
    BY <1>1, <1>3, <1>5, <1>6 DEF RowsFine

\* What is given back leaves the rows fine.
BackAt(s, i) ==
    [rows |-> [s.rows EXCEPT ![i].reserved = @ - Smaller(s.left, s.rows[i].reserved)],
     left |-> s.left - Smaller(s.left, s.rows[i].reserved)]
BackStates(n) == {s \in [rows : Seq(PieceRows), left : Nat] : RowsFine(s.rows) /\ Len(s.rows) = n}

\* One row more of those that a cancelled job gives back.
LEMMA BackStep ==
    ASSUME NEW n \in Nat, NEW s \in BackStates(n), NEW i \in 1 .. n
    PROVE  BackAt(s, i) \in BackStates(n)
<1>1. PICK r, left, t : r = s.rows /\ left = s.left /\ t = Smaller(left, r[i].reserved)
    OBVIOUS
<1>2. r \in Seq(PieceRows) /\ left \in Nat /\ RowsFine(r) /\ Len(r) = n /\ i \in DOMAIN r
    BY <1>1 DEF BackStates
<1>3. r[i].reserved \in Nat
    <2>1. r[i] \in PieceRows
        BY <1>2
    <2>2. QED
        BY <2>1 DEF PieceRows
<1>4. t \in Nat /\ t <= r[i].reserved /\ left - t \in Nat
    BY <1>1, <1>2, <1>3 DEF Smaller
<1>5. PICK u : u = [r EXCEPT ![i].reserved = @ - t]
    OBVIOUS
<1>6. RowsFine(u) /\ Len(u) = Len(r)
    <2>1. Lessens(u, r, i, t)
        BY <1>5 DEF Lessens
    <2>2. QED
        BY <1>2, <1>4, <2>1, LessReserved, Zenon
<1>7. BackAt(s, i) = [rows |-> u, left |-> left - t]
    BY <1>1, <1>5 DEF BackAt
<1>8. QED
    BY <1>2, <1>4, <1>6, <1>7 DEF BackStates, RowsFine

\* The rows stay within bounds however many of them a cancelled job gives back.
LEMMA GivenBackFine ==
    ASSUME StockInv, NEW j \in Jobs, NEW r, r = GivenBack(j)
    PROVE  RowsFine(r) /\ Len(r) = Len(rows)
<1> DEFINE n == Len(claims[j])
           m == Len(rows)
           v == [rows |-> rows, left |-> jobs[j].covered]
           V == BackStates(m)
           step == [p \in (1 .. n) \X V |-> BackAt(p[2], claims[j][p[1]].row)]
<1>1. n \in Nat /\ m \in Nat /\ \A k \in 1 .. n : claims[j][k].row \in 1 .. m
    BY DEF StockInv, ClaimsFine, RowsFine
<1>2. v \in V
    <2>1. jobs[j].covered \in Nat /\ rows \in Seq(PieceRows) /\ RowsFine(rows)
        BY JobSays DEF StockInv, RowsFine
    <2>2. QED
        BY <2>1 DEF BackStates
<1>3. step \in Steps(n, V)
    <2>1. ASSUME NEW k \in 1 .. n, NEW s \in V PROVE BackAt(s, claims[j][k].row) \in V
        BY <1>1, BackStep
    <2> HIDE DEF V, n, m
    <2>2. QED
        BY <2>1 DEF Steps
<1>4. PICK f : Computed(f, n, V, v, step)
    <2> HIDE DEF n, V, v, step
    <2>1. QED
        BY <1>1, <1>2, <1>3, StepsExist, Zenon
<1>5. f \in [0 .. n -> V] /\ f[0] = v /\ \A k \in 1 .. n : f[k] = BackAt(f[k - 1], claims[j][k].row)
    <2> HIDE DEF n, V, v
    <2>1. f \in [0 .. n -> V] /\ f[0] = v /\ \A k \in 1 .. n : f[k] = step[<<k, f[k - 1]>>]
        <3> HIDE DEF step
        <3>1. QED
            BY <1>4 DEF Computed
    <2>2. ASSUME NEW k \in 1 .. n PROVE f[k] = BackAt(f[k - 1], claims[j][k].row)
        <3>1. k - 1 \in 0 .. n
            BY <1>1
        <3>2. f[k - 1] \in V
            BY <2>1, <3>1
        <3>3. f[k] = step[<<k, f[k - 1]>>]
            BY <2>1
        <3>4. QED
            BY <3>2, <3>3
    <2>3. QED
        BY <2>1, <2>2
<1>6. f = [k \in 0 .. n |-> IF k = 0 THEN v ELSE BackAt(f[k - 1], claims[j][k].row)]
    <2> HIDE DEF n, v, V, step
    <2>1. ASSUME NEW k \in 0 .. n PROVE f[k] = IF k = 0 THEN v ELSE BackAt(f[k - 1], claims[j][k].row)
        <3>1. CASE k = 0
            BY <1>5, <3>1
        <3>2. CASE k # 0
            BY <1>1, <1>5, <3>2
        <3>3. QED
            BY <3>1, <3>2
    <2>2. QED
        BY <1>5, <2>1
<1>7. r = (CHOOSE g : g = [k \in 0 .. n |-> IF k = 0 THEN v ELSE BackAt(g[k - 1], claims[j][k].row)])[n].rows
    BY DEF GivenBack, BackAt
<1>8. PICK g : g = [k \in 0 .. n |-> IF k = 0 THEN v ELSE BackAt(g[k - 1], claims[j][k].row)] /\ r = g[n].rows
    <2> HIDE DEF n, v
    <2>1. QED
        BY <1>6, <1>7
<1>9. \A k \in 0 .. n : g[k] \in V
    <2> HIDE DEF n, v
    <2>1. g[0] = v /\ \A k \in 1 .. n : g[k] = BackAt(g[k - 1], claims[j][k].row)
        BY <1>1, <1>8
    <2>2. \A k \in 1 .. n : g[k - 1] \in V => g[k] \in V
        BY <1>1, <2>1, BackStep
    <2> HIDE DEF V
    <2>3. QED
        BY <1>1, <1>2, <2>1, <2>2, StepsKeep
<1>10. g[n] \in V
    BY <1>1, <1>9
<1>11. QED
    BY <1>8, <1>10 DEF BackStates

\* A job is cancelled.
LEMMA CancelJobKeeps ==
    ASSUME StockInv, NEW j \in Jobs, CancelJob(j)
    PROVE  StockInv'
<1>1. /\ rows' = GivenBack(j) /\ jobs' = [jobs EXCEPT ![j].status = "cancelled", ![j].covered = 0]
      /\ UNCHANGED <<claims, project, alloc, listed>> /\ (j \in OfProject => jobs[j].status # "draft")
    BY DEF CancelJob
<1>2. RowsFine(rows') /\ Len(rows') = Len(rows)
    BY <1>1, GivenBackFine
<1>3. PICK w : w = [jobs[j] EXCEPT !.status = "cancelled", !.covered = 0]
    OBVIOUS
<1>4. JobsFine(jobs)
    BY DEF StockInv
<1>5. JobFine(j, w) /\ w.status = "cancelled" /\ w.issued = jobs[j].issued
    <2>1. JobFine(j, jobs[j]) /\ Need[j] \in Nat
        BY <1>4, DetailStockAssumption DEF JobsFine
    <2>2. jobs[j] \in JobRows /\ jobs[j].issued <= Need[j]
        BY <2>1 DEF JobFine
    <2>3. w \in JobRows /\ w.status = "cancelled" /\ w.issued = jobs[j].issued /\ w.covered = 0
        BY <1>3, <2>2 DEF JobRows, JobStates
    <2>4. QED
        BY <2>1, <2>2, <2>3 DEF JobFine
<1>6. Writes(jobs', j, w)
    BY <1>1, <1>3 DEF Writes
<1>7. JobsFine(jobs') /\ JobWrote(jobs', j, w)
    BY <1>4, <1>5, <1>6, JobWritten, Zenon
<1>8. \A o \in OfProject : /\ jobs'[o].issued = jobs[o].issued
                           /\ jobs'[o].status = "released" =>
                                jobs[o].status = "released" /\ jobs'[o].covered = jobs[o].covered
                           /\ jobs[o].status = "draft" => jobs'[o].status = "draft"
    BY <1>1, <1>5, <1>7 DEF JobWrote, OfProject
<1>9. QED
    BY <1>1, <1>2, <1>7, <1>8, JobsMove

-----------------------------------------------------------------------------
\* By hand.

LEMMA StockOutKeeps ==
    ASSUME StockInv, NEW i \in DOMAIN rows, NEW q \in Nat, StockOut(i, q)
    PROVE  StockInv'
<1>1. /\ UNCHANGED <<project, alloc, listed, jobs, claims>> /\ CanTake(i, q) /\ rows' = [rows EXCEPT ![i].quantity = @ - q]
    BY DEF StockOut, Manual
<1>2. RowsFine(rows)
    BY DEF StockInv
<1>3. /\ rows[i].quantity \in Nat /\ rows[i].reserved \in Nat
      /\ rows[i] = [quantity |-> rows[i].quantity, reserved |-> rows[i].reserved]
      /\ rows[i].quantity - q \in Nat /\ rows[i].reserved <= rows[i].quantity - q
    BY <1>1, <1>2, RowSays DEF CanTake, Free
<1>4. rows' = [rows EXCEPT ![i] = [quantity |-> rows[i].quantity - q, reserved |-> rows[i].reserved]]
    <2>1. PICK w : w = [rows[i] EXCEPT !.quantity = @ - q]
        OBVIOUS
    <2>2. w = [quantity |-> rows[i].quantity - q, reserved |-> rows[i].reserved]
        BY <1>3, <2>1
    <2>3. rows' = [rows EXCEPT ![i] = w]
        BY <1>1, <2>1
    <2>4. QED
        BY <2>2, <2>3
<1>5. RowsFine(rows') /\ Len(rows') = Len(rows) /\ Len(rows) \in Nat
    <2>1. PICK a, b : a = rows[i].quantity - q /\ b = rows[i].reserved
        OBVIOUS
    <2>2. a \in Nat /\ b \in Nat /\ b <= a /\ RowIs(rows', i, a, b)
        BY <1>3, <1>4, <2>1 DEF RowIs
    <2>3. RowsFine(rows') /\ Len(rows') = Len(rows)
        BY <1>2, <2>2, RowWrittenTo, SMTT(30)
    <2>4. QED
        BY <1>2, <2>3 DEF RowsFine
<1>6. ClaimsFine(claims', Len(rows'))
    BY <1>1, <1>5 DEF StockInv
<1>7. QED
    BY <1>1, <1>5, <1>6, RowsMove

\* A clerk gives back something reserved.
LEMMA StockReleaseKeeps ==
    ASSUME StockInv, NEW i \in DOMAIN rows, NEW q \in Nat, StockRelease(i, q)
    PROVE  StockInv'
<1>1. /\ UNCHANGED <<project, alloc, listed, jobs, claims>> /\ CanRelease(i, q) /\ rows' = [rows EXCEPT ![i].reserved = @ - q]
    BY DEF StockRelease, Manual
<1>2. RowsFine(rows)
    BY DEF StockInv
<1>3. /\ rows[i].quantity \in Nat /\ rows[i].reserved \in Nat
      /\ rows[i] = [quantity |-> rows[i].quantity, reserved |-> rows[i].reserved]
      /\ rows[i].reserved - q \in Nat /\ rows[i].reserved - q <= rows[i].quantity
    BY <1>1, <1>2, RowSays DEF CanRelease
<1>4. rows' = [rows EXCEPT ![i] = [quantity |-> rows[i].quantity, reserved |-> rows[i].reserved - q]]
    <2>1. PICK w : w = [rows[i] EXCEPT !.reserved = @ - q]
        OBVIOUS
    <2>2. w = [quantity |-> rows[i].quantity, reserved |-> rows[i].reserved - q]
        BY <1>3, <2>1
    <2>3. rows' = [rows EXCEPT ![i] = w]
        BY <1>1, <2>1
    <2>4. QED
        BY <2>2, <2>3
<1>5. RowsFine(rows') /\ Len(rows') = Len(rows) /\ Len(rows) \in Nat
    <2>1. PICK a, b : a = rows[i].quantity /\ b = rows[i].reserved - q
        OBVIOUS
    <2>2. a \in Nat /\ b \in Nat /\ b <= a /\ RowIs(rows', i, a, b)
        BY <1>3, <1>4, <2>1 DEF RowIs
    <2>3. RowsFine(rows') /\ Len(rows') = Len(rows)
        BY <1>2, <2>2, RowWrittenTo, SMTT(30)
    <2>4. QED
        BY <1>2, <2>3 DEF RowsFine
<1>6. ClaimsFine(claims', Len(rows'))
    BY <1>1, <1>5 DEF StockInv
<1>7. QED
    BY <1>1, <1>5, <1>6, RowsMove

\* A clerk states what a row holds, not below what is reserved of it.
LEMMA StockAdjustmentKeeps ==
    ASSUME StockInv, NEW i \in DOMAIN rows, NEW q \in Nat, StockAdjustment(i, q)
    PROVE  StockInv'
<1>1. /\ UNCHANGED <<project, alloc, listed, jobs, claims>> /\ rows' = [rows EXCEPT ![i] = Adjusted(rows[i], q)]
    BY DEF StockAdjustment, Manual
<1>2. RowsFine(rows)
    BY DEF StockInv
<1>3. PICK v : v = Smaller(rows[i].reserved, q)
    OBVIOUS
<1>4. v \in Nat /\ v <= q
    BY <1>2, <1>3, RowSays DEF Smaller
<1>5. rows' = [rows EXCEPT ![i] = [quantity |-> q, reserved |-> v]]
    BY <1>1, <1>3 DEF Adjusted
<1>6. RowsFine(rows') /\ Len(rows') = Len(rows) /\ Len(rows) \in Nat
    <2>1. RowIs(rows', i, q, v)
        BY <1>5 DEF RowIs
    <2>2. RowsFine(rows') /\ Len(rows') = Len(rows)
        BY <1>2, <1>4, <2>1, RowWrittenTo
    <2>3. QED
        BY <1>2, <2>2 DEF RowsFine
<1>7. ClaimsFine(claims', Len(rows'))
    BY <1>1, <1>6 DEF StockInv
<1>8. QED
    BY <1>1, <1>6, <1>7, RowsMove

\* A clerk reserves what is free of a row.
LEMMA StockReserveKeeps ==
    ASSUME StockInv, NEW i \in DOMAIN rows, NEW q \in Nat, StockReserve(i, q)
    PROVE  StockInv'
<1>1. /\ UNCHANGED <<project, alloc, listed, jobs>> /\ CanTake(i, q) /\ rows' = [rows EXCEPT ![i].reserved = @ + q]
      /\ \/ UNCHANGED claims
         \/ \E j \in Jobs : claims' = [claims EXCEPT ![j] = Append(@, [row |-> i, quantity |-> q])]
    BY DEF StockReserve, Manual
<1>2. RowsFine(rows)
    BY DEF StockInv
<1>3. /\ rows[i].quantity \in Nat /\ rows[i].reserved \in Nat
      /\ rows[i] = [quantity |-> rows[i].quantity, reserved |-> rows[i].reserved]
      /\ rows[i].reserved + q \in Nat /\ rows[i].reserved + q <= rows[i].quantity
    BY <1>1, <1>2, RowSays DEF CanTake, Free
<1>4. rows' = [rows EXCEPT ![i] = [quantity |-> rows[i].quantity, reserved |-> rows[i].reserved + q]]
    <2>1. PICK w : w = [rows[i] EXCEPT !.reserved = @ + q]
        OBVIOUS
    <2>2. w = [quantity |-> rows[i].quantity, reserved |-> rows[i].reserved + q]
        BY <1>3, <2>1
    <2>3. rows' = [rows EXCEPT ![i] = w]
        BY <1>1, <2>1
    <2>4. QED
        BY <2>2, <2>3
<1>5. RowsFine(rows') /\ Len(rows') = Len(rows) /\ Len(rows) \in Nat /\ i \in 1 .. Len(rows)
    <2>1. PICK a, b : a = rows[i].quantity /\ b = rows[i].reserved + q
        OBVIOUS
    <2>2. a \in Nat /\ b \in Nat /\ b <= a /\ RowIs(rows', i, a, b)
        BY <1>3, <1>4, <2>1 DEF RowIs
    <2>3. RowsFine(rows') /\ Len(rows') = Len(rows)
        BY <1>2, <2>2, RowWrittenTo, SMTT(30)
    <2>4. rows \in Seq(PieceRows)
        BY <1>2 DEF RowsFine
    <2>5. QED
        BY <2>3, <2>4
<1>6. ClaimsFine(claims', Len(rows'))
    <2>1. ClaimsFine(claims, Len(rows))
        BY DEF StockInv
    <2>2. CASE UNCHANGED claims
        BY <1>5, <2>1, <2>2
    <2>3. ASSUME NEW j \in Jobs, claims' = [claims EXCEPT ![j] = Append(@, [row |-> i, quantity |-> q])]
          PROVE  ClaimsFine(claims', Len(rows'))
        <3>1. PICK new : new = <<[row |-> i, quantity |-> q]>>
            OBVIOUS
        <3>2. new \in Seq(ClaimRows) /\ DOMAIN new = {1} /\ new[1].row = i
            BY <1>5, <3>1 DEF ClaimRows
        <3>3. Appends(claims', j, new)
            <4>1. claims[j] \in Seq(ClaimRows) /\ [row |-> i, quantity |-> q] \in ClaimRows
                BY <1>5, <2>1 DEF ClaimsFine, ClaimRows
            <4>2. Append(claims[j], [row |-> i, quantity |-> q]) = claims[j] \o new
                BY <3>1, <4>1
            <4>3. QED
                BY <2>3, <4>2 DEF Appends
        <3>4. ClaimsFine(claims', Len(rows))
            BY <1>5, <2>1, <3>2, <3>3, ClaimsAppended
        <3>5. QED
            BY <1>5, <3>4
    <2>4. QED
        BY <1>1, <2>2, <2>3
<1>7. QED
    BY <1>1, <1>5, <1>6, RowsMove

\* Whatever a clerk does by hand.
LEMMA ByHandKeeps == StockInv /\ ByHand => StockInv'
<1>1. \A q \in 1 .. MaxPieces : q \in Nat
    BY DetailStockAssumption
<1>2. QED
    BY <1>1, StockOutKeeps, StockReleaseKeeps, StockAdjustmentKeeps, StockReserveKeeps DEF ByHand

\* Rows with less in them.
RowsLess(r, g, h) ==
    r = [i \in DOMAIN rows |-> [quantity |-> rows[i].quantity - g[i], reserved |-> rows[i].reserved - h[i]]]

\* Rows lose some of what is reserved, and of that at most as much is gone from the rows.
LEMMA RowsTakenOff ==
    ASSUME RowsFine(rows), NEW g, NEW h, NEW r, RowsLess(r, g, h),
           \A i \in DOMAIN rows : g[i] \in Nat /\ h[i] \in Nat /\ g[i] <= h[i] /\ h[i] <= rows[i].reserved
    PROVE  /\ RowsFine(r) /\ Len(r) = Len(rows) /\ DOMAIN r = DOMAIN rows
           /\ \A i \in DOMAIN rows : /\ r[i].quantity = rows[i].quantity - g[i]
                                     /\ r[i].reserved = rows[i].reserved - h[i]
<1>1. ASSUME NEW i \in DOMAIN rows
      PROVE  /\ r[i] \in PieceRows /\ r[i].reserved <= r[i].quantity
             /\ r[i].quantity = rows[i].quantity - g[i] /\ r[i].reserved = rows[i].reserved - h[i]
    <2>1. rows[i].quantity \in Nat /\ rows[i].reserved \in Nat /\ rows[i].reserved <= rows[i].quantity
        BY RowSays
    <2>2. PICK a, b : a = rows[i].quantity - g[i] /\ b = rows[i].reserved - h[i]
        OBVIOUS
    <2>3. a \in Nat /\ b \in Nat /\ b <= a
        BY <2>1, <2>2
    <2>4. r[i] = [quantity |-> a, reserved |-> b]
        BY <2>2 DEF RowsLess
    <2>5. QED
        BY <2>2, <2>3, <2>4 DEF PieceRows
<1>2. r = [i \in DOMAIN rows |-> r[i]]
    BY DEF RowsLess
<1>3. RowsFine(r) /\ Len(r) = Len(rows) /\ DOMAIN r = DOMAIN rows
    BY <1>1, <1>2, RowsWritten
<1>4. QED
    BY <1>1, <1>3

\* Of each allocation, c more consumed and r more released.
Moves(new, of, c, r) ==
    new = [k \in DOMAIN of |-> [row |-> of[k].row, reserved |-> of[k].reserved,
                                consumed |-> of[k].consumed + c[k], released |-> of[k].released + r[k]]]

\* Allocations whose outstanding pieces are issued or given back.
LEMMA AllocsMove ==
    ASSUME NEW of, NEW n, AllocsFine(of, n), NEW c, NEW r, NEW new, Moves(new, of, c, r),
           \A k \in DOMAIN of : c[k] \in Nat /\ r[k] \in Nat /\ c[k] + r[k] <= Outstanding(of[k])
    PROVE  /\ AllocsFine(new, n) /\ Len(new) = Len(of) /\ DOMAIN new = DOMAIN of
           /\ \A k \in DOMAIN of : /\ new[k].row = of[k].row
                                   /\ HeldOf(of)[k] = HeldOf(new)[k] + (c[k] + r[k])
                                   /\ ConsumedOf(new)[k] = ConsumedOf(of)[k] + c[k]
<1>1. of \in Seq(AllocRows) /\ Len(of) \in Nat /\ DOMAIN of = 1 .. Len(of)
    BY DEF AllocsFine
<1>2. DOMAIN new = DOMAIN of /\ new = [k \in DOMAIN of |-> new[k]]
    BY DEF Moves
<1>3. ASSUME NEW k \in DOMAIN of
      PROVE  /\ new[k] \in AllocRows /\ new[k].row \in 1 .. n /\ new[k].consumed + new[k].released <= new[k].reserved
             /\ new[k].row = of[k].row
             /\ HeldOf(of)[k] = HeldOf(new)[k] + (c[k] + r[k])
             /\ ConsumedOf(new)[k] = ConsumedOf(of)[k] + c[k]
    <2>1. of[k] \in AllocRows /\ of[k].row \in 1 .. n /\ of[k].consumed + of[k].released <= of[k].reserved
        BY <1>1 DEF AllocsFine
    <2>2. of[k].row \in Nat /\ of[k].reserved \in Nat /\ of[k].consumed \in Nat /\ of[k].released \in Nat
        BY <2>1 DEF AllocRows
    <2>3. c[k] \in Nat /\ r[k] \in Nat /\ c[k] + r[k] <= of[k].reserved - of[k].consumed - of[k].released
        BY DEF Outstanding
    <2>4. PICK a, b : a = of[k].consumed + c[k] /\ b = of[k].released + r[k]
        OBVIOUS
    <2>5. a \in Nat /\ b \in Nat /\ a + b <= of[k].reserved
        BY <2>2, <2>3, <2>4
    <2>6. new[k] = [row |-> of[k].row, reserved |-> of[k].reserved, consumed |-> a, released |-> b]
        BY <2>4 DEF Moves
    <2>7. /\ new[k].row = of[k].row /\ new[k].reserved = of[k].reserved /\ new[k].consumed = a /\ new[k].released = b
          /\ new[k] \in AllocRows
        BY <2>2, <2>5, <2>6 DEF AllocRows
    <2>8. HeldOf(of)[k] = Outstanding(of[k]) /\ HeldOf(new)[k] = Outstanding(new[k])
        BY <1>2 DEF HeldOf
    <2>9. ConsumedOf(of)[k] = of[k].consumed /\ ConsumedOf(new)[k] = a
        BY <1>2, <2>7 DEF ConsumedOf
    <2>10. Outstanding(of[k]) = Outstanding(new[k]) + (c[k] + r[k])
        BY <2>2, <2>3, <2>4, <2>7 DEF Outstanding
    <2>11. QED
        BY <2>1, <2>4, <2>5, <2>7, <2>8, <2>9, <2>10
<1>4. new \in Seq(AllocRows) /\ Len(new) = Len(of)
    <2>1. new \in [1 .. Len(of) -> AllocRows]
        BY <1>1, <1>2, <1>3
    <2>2. QED
        BY <1>1, <2>1
<1>5. QED
    BY <1>2, <1>3, <1>4 DEF AllocsFine

AllocIs(all, p, new) == all = [alloc EXCEPT ![p] = new]

\* The allocations of one project are written and the others stay.
LEMMA AllocWritten ==
    ASSUME NEW n, AllocFine(alloc, n), NEW p \in Projects, NEW new, AllocsFine(new, n), NEW all, AllocIs(all, p, new)
    PROVE  AllocFine(all, n) /\ all[p] = new /\ \A o \in Projects \ {p} : all[o] = alloc[o]
<1>1. DOMAIN alloc = Projects /\ \A o \in Projects : AllocsFine(alloc[o], n)
    BY DEF AllocFine
<1>2. all[p] = new /\ \A o \in Projects \ {p} : all[o] = alloc[o]
    BY <1>1 DEF AllocIs
<1>3. all = [o \in Projects |-> all[o]]
    BY <1>1 DEF AllocIs
<1>4. QED
    BY <1>1, <1>2, <1>3 DEF AllocFine

\* What is on a row of the allocations of a project.
LEMMA OnRowFinite ==
    ASSUME NEW p \in Projects, NEW n, AllocFine(alloc, n), NEW i
    PROVE  OnRow(p, i) \subseteq DOMAIN alloc[p] /\ IsFiniteSet(OnRow(p, i)) /\ IsFiniteSet(DOMAIN alloc[p])
<1>1. IsFiniteSet(DOMAIN alloc[p])
    BY AllocSums DEF AllocFine
<1>2. OnRow(p, i) \subseteq DOMAIN alloc[p]
    BY DEF OnRow
<1>3. QED
    BY <1>1, <1>2, FS_Subset

-----------------------------------------------------------------------------
\* Welding.

WeldTakes(j, p, take, new) ==
    /\ p \in Projects /\ DOMAIN take = DOMAIN alloc[p]
    /\ \A k \in DOMAIN alloc[p] : take[k] \in Nat /\ take[k] <= Outstanding(alloc[p][k])
    /\ Amount(take, DOMAIN alloc[p]) = jobs[j].covered
    /\ RowsFine(rows') /\ Len(rows') = Len(rows) /\ DOMAIN rows' = DOMAIN rows
    /\ \A i \in DOMAIN rows : /\ Amount(take, OnRow(p, i)) \in Nat
                              /\ rows'[i].reserved = rows[i].reserved - Amount(take, OnRow(p, i))
    /\ Moves(new, alloc[p], take, [k \in DOMAIN alloc[p] |-> 0]) /\ AllocIs(alloc', p, new)

\* The issue at the start of welding, taken apart into what leaves the rows and what it writes.
LEMMA StartWeldingTakes ==
    ASSUME StockInv, NEW j \in Jobs, StartWelding(j)
    PROVE  \E take, new : WeldTakes(j, ProjectOf(j), take, new)
<1>1. PICK p, q : p = ProjectOf(j) /\ q = jobs[j].covered
    OBVIOUS
<1>2. PICK take : take = [k \in DOMAIN alloc[p] |-> Share(Held(p), k, q)]
    OBVIOUS
<1>3. /\ j \in OfProject /\ (q > 0 => Total(Held(p)) >= q)
      /\ \A i \in DOMAIN rows :
           Amount(take, OnRow(p, i)) <= rows[i].quantity /\ Amount(take, OnRow(p, i)) <= rows[i].reserved
      /\ rows' = [i \in DOMAIN rows |-> [quantity |-> rows[i].quantity - Amount(take, OnRow(p, i)),
                                         reserved |-> rows[i].reserved - Amount(take, OnRow(p, i))]]
      /\ alloc' = [alloc EXCEPT ![p] = [k \in DOMAIN alloc[p] |-> [alloc[p][k] EXCEPT !.consumed = @ + take[k]]]]
    BY <1>1, <1>2 DEF StartWelding
<1>4. p \in Projects /\ q \in Nat /\ AllocFine(alloc, Len(rows)) /\ AllocsFine(alloc[p], Len(rows)) /\ RowsFine(rows)
    BY <1>1, <1>3, ProjectOfIs, JobSays DEF StockInv, AllocFine
<1>5. /\ Len(alloc[p]) \in Nat /\ DOMAIN alloc[p] = 1 .. Len(alloc[p]) /\ Held(p) = HeldOf(alloc[p])
      /\ \A k \in 1 .. Len(alloc[p]) : Held(p)[k] = Outstanding(alloc[p][k]) /\ Held(p)[k] \in Nat
    BY <1>4, AllocSums DEF Held, HeldOf
<1>6. /\ \A k \in DOMAIN alloc[p] : take[k] \in Nat /\ take[k] <= Outstanding(alloc[p][k])
      /\ Amount(take, DOMAIN alloc[p]) = q
    <2>1. PICK f, n : f = Held(p) /\ n = Len(alloc[p])
        OBVIOUS
    <2>2. (\A k \in 1 .. n : take[k] = Share(f, k, q)) /\ (\A k \in 1 .. n : f[k] \in Nat)
        BY <1>2, <1>5, <2>1
    <2>3. n \in Nat /\ q \in Nat
        BY <1>4, <1>5, <2>1
    <2>4. /\ \A k \in 1 .. n : take[k] \in Nat /\ take[k] <= f[k]
          /\ Amount(f, 1 .. n) \in Nat
          /\ Amount(take, 1 .. n) = IF q <= Amount(f, 1 .. n) THEN q ELSE Amount(f, 1 .. n)
        BY <2>2, <2>3, ShareSums, Zenon
    <2>5. Total(f) = Amount(f, 1 .. n)
        BY <1>5, <2>1 DEF Total, HeldOf
    <2>6. q <= Amount(f, 1 .. n)
        BY <1>3, <1>4, <2>1, <2>4, <2>5
    <2>7. QED
        BY <1>5, <2>1, <2>4, <2>6
<1>7. \A i \in DOMAIN rows : Amount(take, OnRow(p, i)) \in Nat
    <2>1. ASSUME NEW i \in DOMAIN rows PROVE Amount(take, OnRow(p, i)) \in Nat
        <3>1. IsFiniteSet(OnRow(p, i)) /\ OnRow(p, i) \subseteq DOMAIN alloc[p]
            BY <1>4, OnRowFinite
        <3>2. \A k \in OnRow(p, i) : take[k] \in Nat
            BY <1>6, <3>1
        <3>3. QED
            BY <3>1, <3>2, PiecesFinite
    <2>2. QED
        BY <2>1
<1>8. /\ RowsFine(rows') /\ Len(rows') = Len(rows) /\ DOMAIN rows' = DOMAIN rows
      /\ \A i \in DOMAIN rows : rows'[i].reserved = rows[i].reserved - Amount(take, OnRow(p, i))
    <2>1. PICK g : g = [i \in DOMAIN rows |-> Amount(take, OnRow(p, i))]
        OBVIOUS
    <2>2. RowsLess(rows', g, g)
        BY <1>3, <2>1 DEF RowsLess
    <2>3. \A i \in DOMAIN rows : g[i] \in Nat /\ g[i] <= g[i] /\ g[i] <= rows[i].reserved
        BY <1>3, <1>7, <2>1
    <2>4. /\ RowsFine(rows') /\ Len(rows') = Len(rows) /\ DOMAIN rows' = DOMAIN rows
          /\ \A i \in DOMAIN rows : rows'[i].reserved = rows[i].reserved - g[i]
        BY <1>4, <2>2, <2>3, RowsTakenOff
    <2>5. QED
        BY <2>1, <2>4
<1>9. PICK new : new = [k \in DOMAIN alloc[p] |-> [alloc[p][k] EXCEPT !.consumed = @ + take[k]]]
    OBVIOUS
<1>10. AllocIs(alloc', p, new)
    <2>1. DOMAIN alloc = Projects
        BY <1>4 DEF AllocFine
    <2>2. alloc' = [alloc EXCEPT ![p] = [k \in DOMAIN alloc[p] |-> [alloc[p][k] EXCEPT !.consumed = @ + take[k]]]]
        BY <1>3, <1>4, <2>1
    <2>3. QED
        BY <1>9, <2>2 DEF AllocIs
<1>11. Moves(new, alloc[p], take, [k \in DOMAIN alloc[p] |-> 0])
    <2>1. ASSUME NEW k \in DOMAIN alloc[p]
          PROVE  new[k] = [row |-> alloc[p][k].row, reserved |-> alloc[p][k].reserved,
                           consumed |-> alloc[p][k].consumed + take[k], released |-> alloc[p][k].released + 0]
        <3>1. PICK a : a = alloc[p][k]
            OBVIOUS
        <3>2. a \in AllocRows
            BY <1>4, <3>1 DEF AllocsFine
        <3>3. /\ a = [row |-> a.row, reserved |-> a.reserved, consumed |-> a.consumed, released |-> a.released]
              /\ a.released + 0 = a.released
            BY <3>2 DEF AllocRows
        <3>4. new[k] = [a EXCEPT !.consumed = @ + take[k]]
            BY <1>9, <3>1
        <3>5. PICK b : b = a.consumed + take[k]
            OBVIOUS
        <3>6. new[k] = [row |-> a.row, reserved |-> a.reserved, consumed |-> b, released |-> a.released]
            BY <3>3, <3>4, <3>5
        <3>7. QED
            BY <3>1, <3>3, <3>5, <3>6
    <2>2. new = [k \in DOMAIN alloc[p] |-> new[k]]
        BY <1>9
    <2>3. QED
        BY <2>1, <2>2 DEF Moves
<1>12. DOMAIN take = DOMAIN alloc[p]
    BY <1>2
<1>13. QED
    BY <1>1, <1>4, <1>6, <1>7, <1>8, <1>10, <1>11, <1>12 DEF WeldTakes

\* What moves in the allocations moves in their sums.
LEMMA SumsMove ==
    ASSUME NEW of, NEW n, AllocsFine(of, n), NEW c, NEW r, NEW new, Moves(new, of, c, r), NEW both,
           \A k \in DOMAIN of : /\ c[k] \in Nat /\ r[k] \in Nat /\ c[k] + r[k] <= Outstanding(of[k])
                                /\ both[k] = c[k] + r[k]
    PROVE  /\ Total(ConsumedOf(new)) = Total(ConsumedOf(of)) + Amount(c, DOMAIN of)
           /\ Total(HeldOf(of)) = Total(HeldOf(new)) + Amount(both, DOMAIN of)
           /\ Amount(c, DOMAIN of) \in Nat /\ Amount(both, DOMAIN of) \in Nat
<1>1. PICK S : S = DOMAIN of
    OBVIOUS
<1>2. /\ AllocsFine(new, n) /\ DOMAIN new = S
      /\ \A k \in S : /\ HeldOf(of)[k] = HeldOf(new)[k] + (c[k] + r[k])
                      /\ ConsumedOf(new)[k] = ConsumedOf(of)[k] + c[k]
    BY <1>1, AllocsMove
<1>3. /\ IsFiniteSet(S) /\ DOMAIN HeldOf(of) = S /\ DOMAIN ConsumedOf(of) = S
      /\ DOMAIN HeldOf(new) = S /\ DOMAIN ConsumedOf(new) = S
      /\ \A k \in S : /\ HeldOf(of)[k] \in Nat /\ ConsumedOf(of)[k] \in Nat
                      /\ HeldOf(new)[k] \in Nat /\ ConsumedOf(new)[k] \in Nat
    BY <1>1, <1>2, AllocSums
<1>4. /\ \A k \in S : ConsumedOf(of)[k] \in Nat /\ c[k] \in Nat /\ ConsumedOf(new)[k] = ConsumedOf(of)[k] + c[k]
      /\ \A k \in S : HeldOf(new)[k] \in Nat /\ both[k] \in Nat /\ HeldOf(of)[k] = HeldOf(new)[k] + both[k]
    BY <1>1, <1>2, <1>3
<1>5. Amount(ConsumedOf(new), S) = Amount(ConsumedOf(of), S) + Amount(c, S) /\ Amount(c, S) \in Nat
    BY <1>3, <1>4, AmountOfBoth
<1>6. Amount(HeldOf(of), S) = Amount(HeldOf(new), S) + Amount(both, S) /\ Amount(both, S) \in Nat
    BY <1>3, <1>4, AmountOfBoth
<1>7. QED
    BY <1>1, <1>3, <1>5, <1>6 DEF Total

\* One line of a project changes.
LEMMA LineChanges ==
    ASSUME NEW p \in Projects, NEW k \in Lines(p), NEW js, NEW ks, JobsFine(js), JobsFine(ks),
           \A j \in Jobs \ {JobsOf[p][k]} : ks[j] = js[j]
    PROVE  /\ Total(IssuedOf(ks, p)) + IssuedOf(js, p)[k] = Total(IssuedOf(js, p)) + IssuedOf(ks, p)[k]
           /\ Total(CountedOf(ks, p)) + CountedOf(js, p)[k] = Total(CountedOf(js, p)) + CountedOf(ks, p)[k]
<1>1. PICK S : S = Lines(p)
    OBVIOUS
<1>2. k \in S /\ IsFiniteSet(S)
    BY <1>1, LinesAre
<1>3. \A m \in S \ {k} : ks[JobsOf[p][m]] = js[JobsOf[p][m]]
    BY <1>1, OneLine, LinesAre DEF OfProject
<1>4. \A m \in S \ {k} : IssuedOf(ks, p)[m] = IssuedOf(js, p)[m] /\ CountedOf(ks, p)[m] = CountedOf(js, p)[m]
    BY <1>1, <1>3 DEF IssuedOf, CountedOf
<1>5. /\ DOMAIN IssuedOf(js, p) = S /\ DOMAIN CountedOf(js, p) = S
      /\ DOMAIN IssuedOf(ks, p) = S /\ DOMAIN CountedOf(ks, p) = S
      /\ \A m \in S : IssuedOf(js, p)[m] \in Nat /\ CountedOf(js, p)[m] \in Nat
      /\ IssuedOf(ks, p)[k] \in Nat /\ CountedOf(ks, p)[k] \in Nat
    BY <1>1, LineSums
<1>6. Amount(IssuedOf(ks, p), S) + IssuedOf(js, p)[k] = Amount(IssuedOf(js, p), S) + IssuedOf(ks, p)[k]
    BY <1>2, <1>4, <1>5, AmountChanged
<1>7. Amount(CountedOf(ks, p), S) + CountedOf(js, p)[k] = Amount(CountedOf(js, p), S) + CountedOf(ks, p)[k]
    BY <1>2, <1>4, <1>5, AmountChanged
<1>8. QED
    BY <1>5, <1>6, <1>7 DEF Total

\* Welding starts, and a project's job is issued what it counts on.
LEMMA StartWeldingKeeps ==
    ASSUME StockInv, NEW j \in Jobs, StartWelding(j)
    PROVE  StockInv'
<1>1. PICK p : p = ProjectOf(j)
    OBVIOUS
<1>2. PICK take, new : WeldTakes(j, p, take, new)
    BY <1>1, StartWeldingTakes
<1>3. PICK zero : zero = [k \in DOMAIN alloc[p] |-> 0]
    OBVIOUS
<1>4. /\ p \in Projects
      /\ \A k \in DOMAIN alloc[p] : take[k] \in Nat /\ zero[k] \in Nat /\ take[k] + zero[k] <= Outstanding(alloc[p][k])
      /\ \A k \in DOMAIN alloc[p] : take[k] = take[k] + zero[k]
      /\ Amount(take, DOMAIN alloc[p]) = jobs[j].covered
      /\ RowsFine(rows') /\ Len(rows') = Len(rows)
      /\ Moves(new, alloc[p], take, zero) /\ AllocIs(alloc', p, new)
    BY <1>2, <1>3 DEF WeldTakes
<1>5. /\ JobsFine(jobs) /\ AllocFine(alloc, Len(rows)) /\ AllocsFine(alloc[p], Len(rows))
      /\ Promise(p, jobs, alloc[p], project[p])
    BY <1>4 DEF StockInv, AllocFine, Promises
<1>6. AllocsFine(new, Len(rows))
    BY <1>4, <1>5, AllocsMove
<1>7. AllocFine(alloc', Len(rows)) /\ alloc'[p] = new /\ \A o \in Projects \ {p} : alloc'[o] = alloc[o]
    BY <1>4, <1>5, <1>6, AllocWritten
<1>8. /\ jobs' = [jobs EXCEPT ![j].status = "in_progress", ![j].issued = jobs[j].covered]
      /\ jobs[j].status = "released" /\ UNCHANGED <<claims, project, listed>> /\ j \in OfProject
    BY DEF StartWelding
<1>9. PICK w : w = [jobs[j] EXCEPT !.status = "in_progress", !.issued = jobs[j].covered]
    OBVIOUS
<1>10. /\ JobFine(j, w) /\ w.status = "in_progress" /\ w.issued = jobs[j].covered /\ jobs[j].covered \in Nat
       /\ jobs[j].issued = 0
    <2>1. /\ JobFine(j, jobs[j]) /\ jobs[j].covered \in Nat /\ jobs[j].covered <= Need[j] /\ jobs[j].issued = 0
          /\ jobs[j] \in JobRows
        BY <1>5, <1>8, JobSays DEF JobsFine, JobFine
    <2>2. w \in JobRows /\ w.status = "in_progress" /\ w.issued = jobs[j].covered /\ w.covered = jobs[j].covered
        BY <1>9, <2>1 DEF JobRows, JobStates
    <2>3. QED
        BY <2>1, <2>2 DEF JobFine
<1>11. Writes(jobs', j, w)
    BY <1>8, <1>9 DEF Writes
<1>12. JobsFine(jobs') /\ jobs'[j] = w /\ \A o \in Jobs \ {j} : jobs'[o] = jobs[o]
    <2>1. JobsFine(jobs) /\ JobFine(j, w)
        BY <1>5, <1>10
    <2>2. JobsFine(jobs') /\ JobWrote(jobs', j, w)
        BY <1>11, <2>1, JobWritten, Zenon
    <2>3. QED
        BY <2>2 DEF JobWrote
<1>13. PICK k \in Lines(p) : JobsOf[p][k] = j
    BY <1>1, <1>8, ProjectOfIs
<1>14. \A o \in Projects \ {p} : \A m \in Lines(o) : JobsOf[o][m] \in Jobs \ {j}
    BY <1>4, <1>13, OneLine, LinesAre DEF OfProject
<1>15. Promise(p, jobs', new, project[p])
    <2>1. /\ Total(IssuedOf(jobs', p)) + IssuedOf(jobs, p)[k] = Total(IssuedOf(jobs, p)) + IssuedOf(jobs', p)[k]
          /\ Total(CountedOf(jobs', p)) + CountedOf(jobs, p)[k] = Total(CountedOf(jobs, p)) + CountedOf(jobs', p)[k]
        BY <1>4, <1>5, <1>12, <1>13, LineChanges
    <2>2. /\ IssuedOf(jobs, p)[k] = 0 /\ IssuedOf(jobs', p)[k] = jobs[j].covered
          /\ CountedOf(jobs, p)[k] = jobs[j].covered /\ CountedOf(jobs', p)[k] = 0
        BY <1>8, <1>10, <1>12, <1>13 DEF IssuedOf, CountedOf
    <2>3. /\ Total(ConsumedOf(new)) = Total(ConsumedOf(alloc[p])) + jobs[j].covered
          /\ Total(HeldOf(alloc[p])) = Total(HeldOf(new)) + jobs[j].covered
        <3>1. /\ Total(ConsumedOf(new)) = Total(ConsumedOf(alloc[p])) + Amount(take, DOMAIN alloc[p])
              /\ Total(HeldOf(alloc[p])) = Total(HeldOf(new)) + Amount(take, DOMAIN alloc[p])
            BY <1>4, <1>5, SumsMove
        <3>2. QED
            BY <1>4, <3>1
    <2>4. /\ Total(IssuedOf(jobs', p)) \in Nat /\ Total(IssuedOf(jobs, p)) \in Nat
          /\ Total(CountedOf(jobs', p)) \in Nat /\ Total(CountedOf(jobs, p)) \in Nat
          /\ Total(HeldOf(new)) \in Nat /\ Total(HeldOf(alloc[p])) \in Nat
          /\ Total(ConsumedOf(new)) \in Nat /\ Total(ConsumedOf(alloc[p])) \in Nat
        BY <1>4, <1>5, <1>6, <1>12, LineSums, AllocSums
    <2>5. /\ Total(ConsumedOf(alloc[p])) = Total(IssuedOf(jobs, p))
          /\ project[p] # "cancelled" => Total(CountedOf(jobs, p)) <= Total(HeldOf(alloc[p]))
        BY <1>5 DEF Promise
    <2>6. /\ Total(ConsumedOf(new)) = Total(IssuedOf(jobs', p))
          /\ project[p] # "cancelled" => Total(CountedOf(jobs', p)) <= Total(HeldOf(new))
        BY <1>10, <2>1, <2>2, <2>3, <2>4, <2>5
    <2>7. QED
        BY <2>6 DEF Promise
<1>16. ASSUME NEW o \in Projects \ {p} PROVE Promise(o, jobs', alloc[o], project[o])
    <2>1. /\ Promise(o, jobs, alloc[o], project[o]) /\ AllocsFine(alloc[o], Len(rows))
        BY DEF StockInv, AllocFine, Promises
    <2>2. \A m \in Lines(o) : jobs'[JobsOf[o][m]] = jobs[JobsOf[o][m]]
        BY <1>12, <1>14
    <2>3. QED
        BY <1>5, <1>12, <2>1, <2>2, PromiseStays
<1>17. Promises'
    BY <1>7, <1>8, <1>15, <1>16 DEF Promises
<1>18. PlannedIsNew'
    <2>1. project' = project /\ PlannedIsNew
        BY <1>8 DEF StockInv
    <2>2. project[p] # "planned"
        BY <1>4, <1>8, <1>13, <2>1 DEF PlannedIsNew
    <2>3. ASSUME NEW o \in Projects, project[o] = "planned"
          PROVE  alloc'[o] = <<>> /\ \A m \in Lines(o) : jobs'[JobsOf[o][m]].status = "draft"
        <3>1. o \in Projects \ {p}
            BY <2>2, <2>3
        <3>2. alloc'[o] = alloc[o] /\ \A m \in Lines(o) : jobs'[JobsOf[o][m]] = jobs[JobsOf[o][m]]
            BY <1>7, <1>12, <1>14, <3>1
        <3>3. QED
            BY <2>1, <2>3, <3>2 DEF PlannedIsNew
    <2>4. QED
        BY <2>1, <2>3 DEF PlannedIsNew
<1>19. ClaimsFine(claims', Len(rows')) /\ ListedFine(listed', Len(rows')) /\ AllocFine(alloc', Len(rows'))
    BY <1>4, <1>7, <1>8 DEF StockInv
<1>20. QED
    BY <1>4, <1>12, <1>17, <1>18, <1>19 DEF StockInv

-----------------------------------------------------------------------------
\* A project is cancelled.

CancelGives(p, gives, new) ==
    /\ DOMAIN gives = DOMAIN alloc[p]
    /\ \A k \in DOMAIN alloc[p] : gives[k] \in Nat /\ gives[k] = Outstanding(alloc[p][k])
    /\ RowsFine(rows') /\ Len(rows') = Len(rows) /\ DOMAIN rows' = DOMAIN rows
    /\ \A i \in DOMAIN rows : /\ Amount(gives, OnRow(p, i)) \in Nat
                              /\ rows'[i].reserved = rows[i].reserved - Amount(gives, OnRow(p, i))
    /\ Moves(new, alloc[p], [k \in DOMAIN alloc[p] |-> 0], gives) /\ AllocIs(alloc', p, new)

\* The cancellation of a project, taken apart into what it gives back and what it writes.
LEMMA CancelProjectGives ==
    ASSUME StockInv, NEW p \in Projects, CancelProject(p)
    PROVE  \E gives, new : CancelGives(p, gives, new)
<1>1. PICK gives : gives = [k \in DOMAIN alloc[p] |-> GivesBack(alloc[p][k])]
    OBVIOUS
<1>2. /\ \A i \in DOMAIN rows : Amount(gives, OnRow(p, i)) <= rows[i].reserved
      /\ rows' = [i \in DOMAIN rows |-> [rows[i] EXCEPT !.reserved = @ - Amount(gives, OnRow(p, i))]]
      /\ alloc' = [alloc EXCEPT ![p] = [k \in DOMAIN alloc[p] |-> [alloc[p][k] EXCEPT !.released = @ + gives[k]]]]
    BY <1>1 DEF CancelProject, CanRelease
<1>3. AllocFine(alloc, Len(rows)) /\ AllocsFine(alloc[p], Len(rows)) /\ RowsFine(rows)
    BY DEF StockInv, AllocFine
<1>4. \A k \in DOMAIN alloc[p] : gives[k] \in Nat /\ gives[k] = Outstanding(alloc[p][k])
    BY <1>1, <1>3, AllocSums DEF GivesBack
<1>5. \A i \in DOMAIN rows : Amount(gives, OnRow(p, i)) \in Nat
    <2>1. ASSUME NEW i \in DOMAIN rows PROVE Amount(gives, OnRow(p, i)) \in Nat
        <3>1. IsFiniteSet(OnRow(p, i)) /\ OnRow(p, i) \subseteq DOMAIN alloc[p]
            BY <1>3, OnRowFinite
        <3>2. \A k \in OnRow(p, i) : gives[k] \in Nat
            BY <1>4, <3>1
        <3>3. QED
            BY <3>1, <3>2, PiecesFinite
    <2>2. QED
        BY <2>1
<1>6. /\ RowsFine(rows') /\ Len(rows') = Len(rows) /\ DOMAIN rows' = DOMAIN rows
      /\ \A i \in DOMAIN rows : rows'[i].reserved = rows[i].reserved - Amount(gives, OnRow(p, i))
    <2>1. PICK g, h : g = [i \in DOMAIN rows |-> 0] /\ h = [i \in DOMAIN rows |-> Amount(gives, OnRow(p, i))]
        OBVIOUS
    <2>2. RowsLess(rows', g, h)
        <3>1. ASSUME NEW i \in DOMAIN rows
              PROVE  [rows[i] EXCEPT !.reserved = @ - Amount(gives, OnRow(p, i))]
                       = [quantity |-> rows[i].quantity - g[i], reserved |-> rows[i].reserved - h[i]]
            <4>1. /\ rows[i] = [quantity |-> rows[i].quantity, reserved |-> rows[i].reserved]
                  /\ rows[i].quantity - g[i] = rows[i].quantity
                BY <1>3, <2>1, RowSays
            <4>2. PICK a : a = Amount(gives, OnRow(p, i)) /\ a = h[i]
                BY <2>1
            <4>3. [rows[i] EXCEPT !.reserved = @ - a] = [quantity |-> rows[i].quantity, reserved |-> rows[i].reserved - a]
                BY <4>1
            <4>4. QED
                BY <4>1, <4>2, <4>3
        <3>2. QED
            BY <1>2, <3>1 DEF RowsLess
    <2>3. \A i \in DOMAIN rows : g[i] \in Nat /\ h[i] \in Nat /\ g[i] <= h[i] /\ h[i] <= rows[i].reserved
        BY <1>2, <1>5, <2>1
    <2>4. /\ RowsFine(rows') /\ Len(rows') = Len(rows) /\ DOMAIN rows' = DOMAIN rows
          /\ \A i \in DOMAIN rows : rows'[i].reserved = rows[i].reserved - h[i]
        BY <1>3, <2>2, <2>3, RowsTakenOff
    <2>5. QED
        BY <2>1, <2>4
<1>7. PICK new : new = [k \in DOMAIN alloc[p] |-> [alloc[p][k] EXCEPT !.released = @ + gives[k]]]
    OBVIOUS
<1>8. AllocIs(alloc', p, new)
    BY <1>2, <1>7 DEF AllocIs
<1>9. Moves(new, alloc[p], [k \in DOMAIN alloc[p] |-> 0], gives)
    <2>1. ASSUME NEW k \in DOMAIN alloc[p]
          PROVE  new[k] = [row |-> alloc[p][k].row, reserved |-> alloc[p][k].reserved,
                           consumed |-> alloc[p][k].consumed + 0, released |-> alloc[p][k].released + gives[k]]
        <3>1. PICK a : a = alloc[p][k]
            OBVIOUS
        <3>2. a \in AllocRows
            BY <1>3, <3>1 DEF AllocsFine
        <3>3. /\ a = [row |-> a.row, reserved |-> a.reserved, consumed |-> a.consumed, released |-> a.released]
              /\ a.consumed + 0 = a.consumed
            BY <3>2 DEF AllocRows
        <3>4. new[k] = [a EXCEPT !.released = @ + gives[k]]
            BY <1>7, <3>1
        <3>5. PICK b : b = a.released + gives[k]
            OBVIOUS
        <3>6. new[k] = [row |-> a.row, reserved |-> a.reserved, consumed |-> a.consumed, released |-> b]
            BY <3>3, <3>4, <3>5
        <3>7. QED
            BY <3>1, <3>3, <3>5, <3>6
    <2>2. new = [k \in DOMAIN alloc[p] |-> new[k]]
        BY <1>7
    <2>3. QED
        BY <2>1, <2>2 DEF Moves
<1>10. DOMAIN gives = DOMAIN alloc[p]
    BY <1>1
<1>11. QED
    BY <1>4, <1>5, <1>6, <1>8, <1>9, <1>10 DEF CancelGives

\* A project is cancelled: what it gives back was all it still held.
LEMMA CancelProjectKeeps ==
    ASSUME StockInv, NEW p \in Projects, CancelProject(p)
    PROVE  StockInv'
<1>1. PICK gives, new : CancelGives(p, gives, new)
    BY CancelProjectGives
<1>2. PICK zero : zero = [k \in DOMAIN alloc[p] |-> 0]
    OBVIOUS
<1>3. /\ \A k \in DOMAIN alloc[p] : gives[k] \in Nat /\ gives[k] = Outstanding(alloc[p][k])
      /\ RowsFine(rows') /\ Len(rows') = Len(rows)
      /\ Moves(new, alloc[p], zero, gives) /\ AllocIs(alloc', p, new)
    BY <1>1, <1>2 DEF CancelGives
<1>4. \A k \in DOMAIN alloc[p] : /\ zero[k] \in Nat /\ gives[k] \in Nat /\ zero[k] + gives[k] <= Outstanding(alloc[p][k])
                                 /\ gives[k] = zero[k] + gives[k]
    BY <1>2, <1>3
<1>5. /\ JobsFine(jobs) /\ AllocFine(alloc, Len(rows)) /\ AllocsFine(alloc[p], Len(rows))
      /\ Promise(p, jobs, alloc[p], project[p]) /\ PlannedIsNew
    BY DEF StockInv, AllocFine, Promises
<1>6. AllocsFine(new, Len(rows))
    BY <1>3, <1>4, <1>5, AllocsMove
<1>7. AllocFine(alloc', Len(rows)) /\ alloc'[p] = new /\ \A o \in Projects \ {p} : alloc'[o] = alloc[o]
    BY <1>3, <1>5, <1>6, AllocWritten
<1>8. /\ jobs' = [j \in Jobs |->
                    IF (\E k \in Lines(p) : JobsOf[p][k] = j)
                       /\ jobs[j].status \notin {"draft", "completed", "cancelled"}
                    THEN [jobs[j] EXCEPT !.status = "cancelled"] ELSE jobs[j]]
      /\ project' = [project EXCEPT ![p] = "cancelled"] /\ UNCHANGED <<claims, listed>>
    BY DEF CancelProject
<1>9. ASSUME NEW j \in Jobs
      PROVE  /\ JobFine(j, jobs'[j]) /\ jobs'[j].issued = jobs[j].issued
             /\ (~\E k \in Lines(p) : JobsOf[p][k] = j) => jobs'[j] = jobs[j]
    <2>1. JobFine(j, jobs[j]) /\ jobs[j] \in JobRows
        BY <1>5 DEF JobsFine, JobFine
    <2>2. PICK w : w = [jobs[j] EXCEPT !.status = "cancelled"]
        OBVIOUS
    <2>3. w \in JobRows /\ w.status = "cancelled" /\ w.issued = jobs[j].issued /\ w.covered = jobs[j].covered
        BY <2>1, <2>2 DEF JobRows, JobStates
    <2>4. JobFine(j, w)
        BY <2>1, <2>3 DEF JobFine
    <2>5. /\ jobs'[j] = w \/ jobs'[j] = jobs[j]
          /\ (~\E k \in Lines(p) : JobsOf[p][k] = j) => jobs'[j] = jobs[j]
        BY <1>8, <2>2
    <2>6. QED
        BY <2>1, <2>3, <2>4, <2>5
<1>10. JobsFine(jobs')
    <2>1. jobs' = [j \in Jobs |-> jobs'[j]]
        BY <1>8
    <2>2. \A j \in Jobs : jobs'[j] \in JobRows
        BY <1>9 DEF JobFine
    <2>3. QED
        BY <1>9, <2>1, <2>2 DEF JobsFine
<1>11. \A o \in Projects \ {p} : \A m \in Lines(o) : jobs'[JobsOf[o][m]] = jobs[JobsOf[o][m]]
    <2>1. ASSUME NEW o \in Projects \ {p}, NEW m \in Lines(o) PROVE jobs'[JobsOf[o][m]] = jobs[JobsOf[o][m]]
        <3>1. JobsOf[o][m] \in Jobs
            BY LinesAre DEF OfProject
        <3>2. ~\E k \in Lines(p) : JobsOf[p][k] = JobsOf[o][m]
            BY OneLine
        <3>3. QED
            BY <1>9, <3>1, <3>2
    <2>2. QED
        BY <2>1
<1>12. Promise(p, jobs', new, "cancelled")
    <2>1. IssuedOf(jobs', p) = IssuedOf(jobs, p)
        BY <1>9, LinesAre DEF IssuedOf, OfProject
    <2>2. Total(ConsumedOf(new)) = Total(ConsumedOf(alloc[p])) + Amount(zero, DOMAIN alloc[p])
        BY <1>3, <1>4, <1>5, SumsMove
    <2>3. Amount(zero, DOMAIN alloc[p]) = 0
        <3>1. IsFiniteSet(DOMAIN alloc[p]) /\ 0 \in Nat /\ \A k \in DOMAIN alloc[p] : zero[k] = 0
            BY <1>2, <1>5, AllocSums
        <3>2. Amount(zero, DOMAIN alloc[p]) = Cardinality(DOMAIN alloc[p]) * 0
            BY <3>1, AmountOfSame, Zenon
        <3>3. Cardinality(DOMAIN alloc[p]) \in Nat
            BY <3>1, FS_CardinalityType
        <3>4. QED
            BY <3>2, <3>3
    <2>4. Total(ConsumedOf(alloc[p])) \in Nat /\ Total(ConsumedOf(alloc[p])) = Total(IssuedOf(jobs, p))
        BY <1>5, AllocSums DEF Promise
    <2>5. QED
        BY <2>1, <2>2, <2>3, <2>4 DEF Promise
<1>13. ASSUME NEW o \in Projects \ {p} PROVE Promise(o, jobs', alloc[o], project[o])
    <2>1. /\ Promise(o, jobs, alloc[o], project[o]) /\ AllocsFine(alloc[o], Len(rows))
        BY DEF StockInv, AllocFine, Promises
    <2>2. QED
        BY <1>5, <1>10, <1>11, <2>1, PromiseStays
<1>14. /\ project' \in [Projects -> ProjectStates] /\ project'[p] = "cancelled"
       /\ \A o \in Projects \ {p} : project'[o] = project[o]
    BY <1>5, <1>8 DEF PlannedIsNew, ProjectStates
<1>15. Promises'
    BY <1>7, <1>12, <1>13, <1>14 DEF Promises
<1>16. PlannedIsNew'
    <2>1. ASSUME NEW o \in Projects, project'[o] = "planned"
          PROVE  alloc'[o] = <<>> /\ \A m \in Lines(o) : jobs'[JobsOf[o][m]].status = "draft"
        <3>1. o \in Projects \ {p} /\ project[o] = "planned"
            BY <1>14, <2>1
        <3>2. alloc'[o] = alloc[o] /\ \A m \in Lines(o) : jobs'[JobsOf[o][m]] = jobs[JobsOf[o][m]]
            BY <1>7, <1>11, <3>1
        <3>3. QED
            BY <1>5, <3>1, <3>2 DEF PlannedIsNew
    <2>2. QED
        BY <1>14, <2>1 DEF PlannedIsNew
<1>17. ClaimsFine(claims', Len(rows')) /\ ListedFine(listed', Len(rows')) /\ AllocFine(alloc', Len(rows'))
    BY <1>3, <1>7, <1>8 DEF StockInv
<1>18. QED
    BY <1>3, <1>10, <1>15, <1>16, <1>17 DEF StockInv

-----------------------------------------------------------------------------
\* A project is released: of the n rows listed it has taken, c of them, total pieces in all.
AllocatedFor(new, of, c, taken) ==
    new = [k \in 1 .. c |-> [row |-> of[k], reserved |-> taken[of[k]], consumed |-> 0, released |-> 0]]
Got(of, c, taken) == [k \in 1 .. c |-> taken[of[k]]]
ProjectTakes(p, taken, n, of, c, new, total) ==
    /\ n <= Len(rows) /\ \A i \in 1 .. n : taken[i] \in Nat
    /\ Takes(of, c, taken, n) /\ Reserves(taken, n)
    /\ AllocatedFor(new, of, c, taken) /\ AllocIs(alloc', p, new)
    /\ total \in Nat /\ total <= Gross(p) /\ Amount(Got(of, c, taken), 1 .. c) = total
    /\ jobs' = [j \in Jobs |->
                    IF \E k \in Lines(p) : JobsOf[p][k] = j
                    THEN [jobs[j] EXCEPT !.status = "released",
                            !.covered = Cover(p, CHOOSE k \in Lines(p) : JobsOf[p][k] = j, total)]
                    ELSE jobs[j]]

\* The release of a project, taken apart likewise.
LEMMA ReleaseProjectTakes ==
    ASSUME StockInv, NEW p \in Projects, ReleaseProject(p)
    PROVE  \E n \in Nat, c \in Nat : \E taken, of, new, total : ProjectTakes(p, taken, n, of, c, new, total)
<1>1. Gross(p) \in Nat
    BY LinesAre
<1>2. PICK n \in Nat : n = Len(listed[p]) /\ listed[p] \in Seq(Nat) /\ n <= Len(rows)
    BY ListedSays
<1>3. PICK taken, total : taken = Taken(p, Gross(p)) /\ total = Gross(p) - Left(p, Gross(p))[Len(listed[p])]
    OBVIOUS
<1>4. RowsFine(rows)
    BY DEF StockInv
<1>5. /\ DOMAIN taken = 1 .. n /\ \A i \in 1 .. n : taken[i] \in Nat /\ taken[i] <= Free(i)
      /\ Left(p, Gross(p))[n] \in 0 .. Gross(p) /\ Total(taken) = Gross(p) - Left(p, Gross(p))[n]
    BY <1>1, <1>2, <1>3, <1>4, LeftFalls
<1>6. Reserve(taken)
    BY <1>3, Zenon DEF ReleaseProject
<1>7. Reserves(taken, n)
    BY <1>2, <1>4, <1>5, <1>6, ReserveTakes
<1>8. PICK of \in RowsTaken(taken) :
        alloc' = [alloc EXCEPT ![p] = [k \in DOMAIN of |->
                    [row |-> of[k], reserved |-> taken[of[k]], consumed |-> 0, released |-> 0]]]
    BY <1>3, Zenon DEF ReleaseProject
<1>9. PICK c \in Nat : Takes(of, c, taken, n) /\ Amount(Got(of, c, taken), 1 .. c) = Total(taken)
    BY <1>5, RowsTakenAre DEF Got
<1>10. DOMAIN of = 1 .. c
    BY <1>9 DEF Takes
<1>11. PICK new : AllocatedFor(new, of, c, taken)
    BY DEF AllocatedFor
<1>12. AllocIs(alloc', p, new)
    BY <1>8, <1>10, <1>11 DEF AllocIs, AllocatedFor
<1>13. total \in Nat /\ total <= Gross(p) /\ Total(taken) = total
    BY <1>1, <1>2, <1>3, <1>5
<1>14. jobs' = [j \in Jobs |->
                    IF \E k \in Lines(p) : JobsOf[p][k] = j
                    THEN [jobs[j] EXCEPT !.status = "released",
                            !.covered = Cover(p, CHOOSE k \in Lines(p) : JobsOf[p][k] = j, total)]
                    ELSE jobs[j]]
    BY <1>3, Zenon DEF ReleaseProject
<1>15. ProjectTakes(p, taken, n, of, c, new, total)
    BY <1>2, <1>5, <1>7, <1>9, <1>11, <1>12, <1>13, <1>14 DEF ProjectTakes
<1>16. QED
    BY <1>15

\* What it allocates is what it has taken.
LEMMA AllocatedIs ==
    ASSUME NEW of, NEW c \in Nat, NEW taken, NEW n \in Nat, NEW m \in Nat, n <= m, Takes(of, c, taken, n),
           \A i \in 1 .. n : taken[i] \in Nat, NEW new, AllocatedFor(new, of, c, taken)
    PROVE  /\ AllocsFine(new, m) /\ DOMAIN new = 1 .. c
           /\ \A k \in 1 .. c : new[k].row = of[k] /\ Outstanding(new[k]) = taken[of[k]] /\ taken[of[k]] \in Nat
           /\ Total(ConsumedOf(new)) = 0
           /\ Total(HeldOf(new)) = Amount(Got(of, c, taken), 1 .. c)
<1>1. DOMAIN new = 1 .. c /\ new = [k \in 1 .. c |-> new[k]]
    BY DEF AllocatedFor
<1>2. ASSUME NEW k \in 1 .. c
      PROVE  /\ new[k] \in AllocRows /\ new[k].row \in 1 .. m /\ new[k].consumed + new[k].released <= new[k].reserved
             /\ new[k].row = of[k] /\ new[k].consumed = 0 /\ Outstanding(new[k]) = taken[of[k]] /\ taken[of[k]] \in Nat
    <2>1. PICK i, t : i = of[k] /\ t = taken[i]
        OBVIOUS
    <2>2. i \in 1 .. n /\ t \in Nat
        BY <2>1 DEF Takes
    <2>3. new[k] = [row |-> i, reserved |-> t, consumed |-> 0, released |-> 0]
        BY <2>1 DEF AllocatedFor
    <2>4. QED
        BY <2>1, <2>2, <2>3 DEF AllocRows, Outstanding
<1>3. new \in Seq(AllocRows)
    BY <1>1, <1>2
<1>4. AllocsFine(new, m)
    BY <1>1, <1>2, <1>3 DEF AllocsFine
<1>5. Total(ConsumedOf(new)) = 0
    <2>1. DOMAIN ConsumedOf(new) = 1 .. c /\ \A k \in 1 .. c : ConsumedOf(new)[k] = 0
        BY <1>1, <1>2 DEF ConsumedOf
    <2>2. IsFiniteSet(1 .. c) /\ 0 \in Nat
        BY FS_Interval
    <2>3. Amount(ConsumedOf(new), 1 .. c) = c * 0
        BY <2>1, <2>2, AmountOfAlike
    <2>4. QED
        BY <2>1, <2>3 DEF Total
<1>6. Total(HeldOf(new)) = Amount(Got(of, c, taken), 1 .. c)
    <2>1. PICK f, S : f = Got(of, c, taken) /\ S = 1 .. c
        OBVIOUS
    <2>2. DOMAIN HeldOf(new) = S /\ \A k \in S : HeldOf(new)[k] = f[k]
        BY <1>1, <1>2, <2>1 DEF HeldOf, Got
    <2>3. Amount(HeldOf(new), S) = Amount(f, S)
        BY <2>2, AmountSame
    <2>4. QED
        BY <2>1, <2>2, <2>3 DEF Total
<1>7. QED
    BY <1>1, <1>2, <1>4, <1>5, <1>6

\* What is taken for a project covers its lines.
LEMMA Covers ==
    ASSUME NEW p \in Projects, NEW total \in Nat, total <= Gross(p), NEW g, \A k \in Lines(p) : g[k] = Cover(p, k, total)
    PROVE  /\ \A k \in Lines(p) : g[k] \in Nat /\ g[k] <= Need[JobsOf[p][k]]
           /\ Amount(g, Lines(p)) = total
<1>1. PICK n \in Nat : Lines(p) = 1 .. n
    BY LinesAre
<1>2. PICK f : f = Needs(p)
    OBVIOUS
<1>3. /\ \A k \in 1 .. n : f[k] \in Nat /\ f[k] = Need[JobsOf[p][k]]
      /\ DOMAIN f = 1 .. n
    BY <1>1, <1>2, LinesAre
<1>4. (\A k \in 1 .. n : f[k] \in Nat) /\ (\A k \in 1 .. n : g[k] = Share(f, k, total))
    BY <1>1, <1>2, <1>3 DEF Cover
<1>5. /\ \A k \in 1 .. n : g[k] \in Nat /\ g[k] <= f[k]
      /\ Amount(f, 1 .. n) \in Nat
      /\ Amount(g, 1 .. n) = IF total <= Amount(f, 1 .. n) THEN total ELSE Amount(f, 1 .. n)
    BY <1>4, ShareSums, Zenon
<1>6. Gross(p) = Amount(f, 1 .. n)
    BY <1>2, <1>3 DEF Gross, Total
<1>7. QED
    BY <1>1, <1>3, <1>5, <1>6

\* A project is released: what its lines count on is together what it was allocated.
LEMMA ReleaseProjectKeeps ==
    ASSUME StockInv, NEW p \in Projects, ReleaseProject(p)
    PROVE  StockInv'
<1>1. PICK n \in Nat, c \in Nat : \E taken, of, new, total : ProjectTakes(p, taken, n, of, c, new, total)
    BY ReleaseProjectTakes
<1>2. PICK taken, of, new, total : ProjectTakes(p, taken, n, of, c, new, total)
    BY <1>1
<1>3. /\ n <= Len(rows) /\ \A i \in 1 .. n : taken[i] \in Nat
      /\ Takes(of, c, taken, n) /\ RowsFine(rows') /\ Len(rows') = Len(rows) /\ Len(rows) \in Nat
      /\ AllocatedFor(new, of, c, taken) /\ AllocIs(alloc', p, new)
      /\ total \in Nat /\ total <= Gross(p) /\ Amount(Got(of, c, taken), 1 .. c) = total
    <2>1. rows \in Seq(PieceRows)
        BY DEF StockInv, RowsFine
    <2>2. /\ n <= Len(rows) /\ \A i \in 1 .. n : taken[i] \in Nat
          /\ Takes(of, c, taken, n) /\ Reserves(taken, n)
          /\ AllocatedFor(new, of, c, taken) /\ AllocIs(alloc', p, new)
          /\ total \in Nat /\ total <= Gross(p) /\ Amount(Got(of, c, taken), 1 .. c) = total
        BY <1>2, Zenon DEF ProjectTakes
    <2>3. RowsFine(rows') /\ Len(rows') = Len(rows) /\ Len(rows) \in Nat
        BY <2>1, <2>2 DEF Reserves
    <2>4. QED
        BY <2>2, <2>3, Zenon
<1>4. /\ JobsFine(jobs) /\ AllocFine(alloc, Len(rows)) /\ PlannedIsNew
    BY DEF StockInv
<1>5. /\ project[p] = "planned" /\ project' = [project EXCEPT ![p] = "released"]
      /\ listed' = [listed EXCEPT ![p] = <<>>] /\ UNCHANGED claims
    BY DEF ReleaseProject
<1>6. AllocsFine(new, Len(rows)) /\ Total(ConsumedOf(new)) = 0 /\ Total(HeldOf(new)) = total
    <2>1. PICK m \in Nat : m = Len(rows)
        BY <1>3
    <2>2. n <= m /\ Takes(of, c, taken, n) /\ (\A i \in 1 .. n : taken[i] \in Nat) /\ AllocatedFor(new, of, c, taken)
        BY <1>3, <2>1
    <2>3. /\ AllocsFine(new, m) /\ Total(ConsumedOf(new)) = 0
          /\ Total(HeldOf(new)) = Amount(Got(of, c, taken), 1 .. c)
        BY <2>2, AllocatedIs
    <2>4. QED
        BY <1>3, <2>1, <2>3
<1>7. AllocFine(alloc', Len(rows)) /\ alloc'[p] = new /\ \A o \in Projects \ {p} : alloc'[o] = alloc[o]
    BY <1>3, <1>4, <1>6, AllocWritten
<1>8. PICK g : g = [k \in Lines(p) |-> Cover(p, k, total)]
    OBVIOUS
<1>9. /\ \A k \in Lines(p) : g[k] \in Nat /\ g[k] <= Need[JobsOf[p][k]]
      /\ Amount(g, Lines(p)) = total
    BY <1>3, <1>8, Covers
<1>10. \A k \in Lines(p) : (CHOOSE m \in Lines(p) : JobsOf[p][m] = JobsOf[p][k]) = k
    BY OneLine
<1>11. ASSUME NEW k \in Lines(p)
       PROVE  /\ JobFine(JobsOf[p][k], jobs'[JobsOf[p][k]])
              /\ jobs'[JobsOf[p][k]].status = "released" /\ jobs'[JobsOf[p][k]].covered = g[k]
              /\ jobs'[JobsOf[p][k]].issued = 0
    <2>1. PICK j : j = JobsOf[p][k] /\ j \in Jobs
        BY LinesAre DEF OfProject
    <2>2. PICK w : w = [jobs[j] EXCEPT !.status = "released", !.covered = g[k]]
        OBVIOUS
    <2>3. jobs'[j] = w
        <3>1. jobs'[j] = [jobs[j] EXCEPT !.status = "released",
                            !.covered = Cover(p, CHOOSE m \in Lines(p) : JobsOf[p][m] = j, total)]
            BY <1>2, <2>1 DEF ProjectTakes
        <3>2. (CHOOSE m \in Lines(p) : JobsOf[p][m] = j) = k
            BY <1>10, <2>1
        <3>3. QED
            BY <1>8, <2>2, <3>1, <3>2
    <2>4. jobs[j].status = "draft" /\ JobFine(j, jobs[j])
        BY <1>4, <1>5, <2>1 DEF PlannedIsNew, JobsFine
    <2>5. jobs[j] \in JobRows /\ jobs[j].issued = 0
        BY <2>4 DEF JobFine
    <2>6. g[k] \in Nat /\ g[k] <= Need[j] /\ Need[j] \in Nat
        BY <1>9, <2>1, DetailStockAssumption
    <2>7. w \in JobRows /\ w.status = "released" /\ w.covered = g[k] /\ w.issued = 0
        BY <2>2, <2>5, <2>6 DEF JobRows, JobStates
    <2>8. QED
        BY <2>1, <2>3, <2>6, <2>7 DEF JobFine
<1>12. \A j \in Jobs : (~\E k \in Lines(p) : JobsOf[p][k] = j) => jobs'[j] = jobs[j]
    BY <1>2 DEF ProjectTakes
<1>13. JobsFine(jobs')
    <2>1. jobs' = [j \in Jobs |-> jobs'[j]]
        BY <1>2 DEF ProjectTakes
    <2>2. \A j \in Jobs : JobFine(j, jobs'[j])
        BY <1>4, <1>11, <1>12 DEF JobsFine
    <2>3. \A j \in Jobs : jobs'[j] \in JobRows
        BY <2>2 DEF JobFine
    <2>4. QED
        BY <2>1, <2>2, <2>3 DEF JobsFine
<1>14. \A o \in Projects \ {p} : \A m \in Lines(o) : jobs'[JobsOf[o][m]] = jobs[JobsOf[o][m]]
    <2>1. ASSUME NEW o \in Projects \ {p}, NEW m \in Lines(o) PROVE jobs'[JobsOf[o][m]] = jobs[JobsOf[o][m]]
        <3>1. JobsOf[o][m] \in Jobs
            BY LinesAre DEF OfProject
        <3>2. ~\E k \in Lines(p) : JobsOf[p][k] = JobsOf[o][m]
            BY OneLine
        <3>3. QED
            BY <1>12, <3>1, <3>2
    <2>2. QED
        BY <2>1
<1>15. Promise(p, jobs', new, "released")
    <2>1. Total(IssuedOf(jobs', p)) = 0
        BY <1>11, NoneAsked
    <2>2. Total(CountedOf(jobs', p)) = total
        <3>1. PICK S, f : S = Lines(p) /\ f = CountedOf(jobs', p)
            OBVIOUS
        <3>2. DOMAIN f = S /\ \A k \in S : f[k] = g[k]
            BY <1>11, <3>1 DEF CountedOf
        <3>3. Amount(f, S) = Amount(g, S)
            BY <3>2, AmountSame
        <3>4. QED
            BY <1>9, <3>1, <3>2, <3>3 DEF Total
    <2>3. QED
        BY <1>3, <1>6, <2>1, <2>2 DEF Promise
<1>16. ASSUME NEW o \in Projects \ {p} PROVE Promise(o, jobs', alloc[o], project[o])
    <2>1. /\ Promise(o, jobs, alloc[o], project[o]) /\ AllocsFine(alloc[o], Len(rows))
        BY <1>4 DEF StockInv, AllocFine, Promises
    <2>2. QED
        BY <1>4, <1>13, <1>14, <2>1, PromiseStays
<1>17. /\ project' \in [Projects -> ProjectStates] /\ project'[p] = "released"
       /\ \A o \in Projects \ {p} : project'[o] = project[o]
    BY <1>4, <1>5 DEF PlannedIsNew, ProjectStates
<1>18. Promises'
    BY <1>7, <1>15, <1>16, <1>17 DEF Promises
<1>19. PlannedIsNew'
    <2>1. ASSUME NEW o \in Projects, project'[o] = "planned"
          PROVE  alloc'[o] = <<>> /\ \A m \in Lines(o) : jobs'[JobsOf[o][m]].status = "draft"
        <3>1. o \in Projects \ {p} /\ project[o] = "planned"
            BY <1>17, <2>1
        <3>2. alloc'[o] = alloc[o] /\ \A m \in Lines(o) : jobs'[JobsOf[o][m]] = jobs[JobsOf[o][m]]
            BY <1>7, <1>14, <3>1
        <3>3. QED
            BY <1>4, <3>1, <3>2 DEF PlannedIsNew
    <2>2. QED
        BY <1>17, <2>1 DEF PlannedIsNew
<1>20. ListedFine(listed', Len(rows'))
    BY <1>3, <1>5 DEF StockInv, ListedFine
<1>21. ClaimsFine(claims', Len(rows')) /\ AllocFine(alloc', Len(rows'))
    BY <1>3, <1>5, <1>7 DEF StockInv
<1>22. QED
    BY <1>3, <1>13, <1>18, <1>19, <1>20, <1>21 DEF StockInv

-----------------------------------------------------------------------------

\* StockInv is inductive: every step keeps it.
LEMMA StockKeeps == StockInv /\ [StockNext]_stockVars => StockInv'
<1> SUFFICES ASSUME StockInv, [StockNext]_stockVars PROVE StockInv'
    OBVIOUS
<1>1. ASSUME UNCHANGED stockVars PROVE StockInv'
    BY <1>1 DEF StockInv, PlannedIsNew, Promises, stockVars
<1>2. ASSUME NEW j \in Jobs, StartWelding(j) PROVE StockInv'
    BY <1>2, StartWeldingKeeps
<1>3. ASSUME NEW j \in Jobs, StartStandalone(j) PROVE StockInv'
    BY <1>3, StartStandaloneKeeps
<1>4. ASSUME NEW j \in Jobs, CompleteJob(j) PROVE StockInv'
    BY <1>4, CompleteJobKeeps
<1>5. ASSUME NEW j \in Jobs, CancelJob(j) PROVE StockInv'
    BY <1>5, CancelJobKeeps
<1>6. ASSUME NEW j \in Jobs, NEW cut \in 1 .. MaxPieces, NEW q \in 1 .. MaxPieces, AddSurplus(j, cut, q) PROVE StockInv'
    BY <1>6, AddSurplusKeeps
<1>7. ASSUME NEW x \in Standalone \cup Projects, ListRows(x) PROVE StockInv'
    BY <1>7, ListRowsKeeps
<1>8. ASSUME NEW j \in Standalone, ReleaseJob(j) PROVE StockInv'
    BY <1>8, ReleaseJobKeeps
<1>9. ASSUME NEW p \in Projects, ReleaseProject(p) PROVE StockInv'
    BY <1>9, ReleaseProjectKeeps
<1>10. ASSUME NEW p \in Projects, ReleaseFails(p) PROVE StockInv'
    BY <1>10, ReleaseFailsKeeps
<1>11. ASSUME NEW p \in Projects, CancelProject(p) PROVE StockInv'
    BY <1>11, CancelProjectKeeps
<1>12. ASSUME NEW p \in Projects, Synchronize(p) PROVE StockInv'
    BY <1>12, SynchronizeKeeps
<1>13. ASSUME ByHand PROVE StockInv'
    BY <1>13, ByHandKeeps
<1>14. QED
    BY <1>1, <1>2, <1>3, <1>4, <1>5, <1>6, <1>7, <1>8, <1>9, <1>10, <1>11, <1>12, <1>13 DEF StockNext

\* StockInv is enough for what is claimed of the stock.
LEMMA StockInvHolds == StockInv => StockHolds
<1> SUFFICES ASSUME StockInv PROVE StockHolds
    OBVIOUS
<1>1. RowsFine(rows) /\ JobsFine(jobs) /\ AllocFine(alloc, Len(rows)) /\ Promises
    BY DEF StockInv
<1>2. \A i \in DOMAIN rows : rows[i].quantity \in Nat /\ rows[i].reserved \in 0 .. rows[i].quantity
    BY <1>1, RowSays
<1>3. ASSUME NEW p \in Projects, NEW k \in DOMAIN alloc[p]
      PROVE  alloc[p][k].row \in DOMAIN rows /\ Outstanding(alloc[p][k]) >= 0
    <2>1. AllocsFine(alloc[p], Len(rows))
        BY <1>1 DEF AllocFine
    <2>2. alloc[p][k].row \in 1 .. Len(rows)
        BY <2>1 DEF AllocsFine
    <2>3. rows \in Seq(PieceRows)
        BY <1>1 DEF RowsFine
    <2>4. Outstanding(alloc[p][k]) \in Nat
        BY <2>1, AllocSums
    <2>5. QED
        BY <2>2, <2>3, <2>4
<1>4. ASSUME NEW j \in Jobs PROVE jobs[j].covered \in 0 .. Need[j] /\ jobs[j].issued \in 0 .. Need[j]
    <2>1. /\ jobs[j].covered \in Nat /\ jobs[j].issued \in Nat
          /\ jobs[j].covered <= Need[j] /\ jobs[j].issued <= Need[j] /\ Need[j] \in Nat
        BY <1>1, JobSays
    <2>2. QED
        BY <2>1
<1>5. QED
    BY <1>1, <1>2, <1>3, <1>4, PromisesAre DEF StockHolds, NeverOverdrawn

\* Whatever releases, issues, cancellations and changes by hand there are, and however old the list
\* of rows is that one of them goes by: no row goes below zero or has more reserved than it has, no
\* allocation is overdrawn, and a project holds for its jobs what its release told them to count on
\* (change_stock and reserve_for_job of warehouse_stock.py, release_project, consume_project_stock).
THEOREM StockAlwaysHolds == StockSpec => []StockHolds
<1>1. StockInit => StockInv
    BY StockStarts
<1>2. StockInv /\ [StockNext]_stockVars => StockInv'
    BY StockKeeps
<1>3. StockInv => StockHolds
    BY StockInvHolds
<1>4. QED
    BY <1>1, <1>2, <1>3, PTL DEF StockSpec

-----------------------------------------------------------------------------
\* What a row owes, by allocations all and by claims cs of jobs js.
OwedBy(of, i) == Amount([k \in DOMAIN of |-> Larger(0, Outstanding(of[k]))], {k \in DOMAIN of : of[k].row = i})
OwesProjects(all, i) == Total([p \in Projects |-> OwedBy(all[p], i)])
ClaimsIn(cl, i) == Amount([k \in DOMAIN cl |-> cl[k].quantity], {k \in DOMAIN cl : cl[k].row = i})
Alive(js) == {j \in Standalone : js[j].status # "cancelled"}
OwesJobs(cs, js, i) == Amount([j \in Jobs |-> ClaimsIn(cs[j], i)], Alive(js))

\* The shortage of a row, by what it owes now and after a step.
LEMMA ShortageIs ==
    ASSUME NEW i
    PROVE  /\ Shortage(i) = Larger(0, OwesProjects(alloc, i) + OwesJobs(claims, jobs, i) - rows[i].reserved)
           /\ Shortage(i)' = Larger(0, OwesProjects(alloc', i) + OwesJobs(claims', jobs', i) - rows'[i].reserved)
<1>1. /\ OwedToProjects(i) = OwesProjects(alloc, i)
      /\ OwedToProjects(i)' = OwesProjects(alloc', i)
    BY DEF OwedToProjects, OwesProjects, OwedByProject, OwedBy, OnRow
<1>2. /\ OwedToJobs(i) = OwesJobs(claims, jobs, i)
      /\ OwedToJobs(i)' = OwesJobs(claims', jobs', i)
    BY DEF OwedToJobs, OwesJobs, ClaimedBy, ClaimsIn, ClaimsOn, Alive
<1>3. QED
    BY <1>1, <1>2 DEF Shortage

\* What allocations owe on a row is what they hold there.
LEMMA OwedIs ==
    ASSUME NEW of, NEW n, AllocsFine(of, n), NEW i
    PROVE  /\ OwedBy(of, i) = Amount(HeldOf(of), {k \in DOMAIN of : of[k].row = i})
           /\ OwedBy(of, i) \in Nat /\ IsFiniteSet({k \in DOMAIN of : of[k].row = i})
<1>1. PICK S : S = {k \in DOMAIN of : of[k].row = i}
    OBVIOUS
<1>2. /\ IsFiniteSet(DOMAIN of)
      /\ \A k \in DOMAIN of : HeldOf(of)[k] = Outstanding(of[k]) /\ HeldOf(of)[k] \in Nat
    BY AllocSums
<1>3. IsFiniteSet(S) /\ S \subseteq DOMAIN of
    BY <1>1, <1>2, FS_Subset
<1>4. PICK f : f = [k \in DOMAIN of |-> Larger(0, Outstanding(of[k]))]
    OBVIOUS
<1>5. \A k \in S : f[k] = HeldOf(of)[k] /\ HeldOf(of)[k] \in Nat
    BY <1>2, <1>3, <1>4 DEF Larger
<1>6. Amount(f, S) = Amount(HeldOf(of), S)
    BY <1>5, AmountSame
<1>7. Amount(HeldOf(of), S) \in Nat
    BY <1>3, <1>5, PiecesFinite
<1>8. QED
    BY <1>1, <1>3, <1>4, <1>6, <1>7 DEF OwedBy

\* When one project's allocations change, what is owed to projects changes by what is owed to it.
LEMMA OwesProjectsChanges ==
    ASSUME NEW all, NEW more, NEW n, NEW m, AllocFine(all, n), AllocFine(more, m), NEW p \in Projects,
           \A o \in Projects \ {p} : more[o] = all[o], NEW i
    PROVE  /\ OwesProjects(more, i) + OwedBy(all[p], i) = OwesProjects(all, i) + OwedBy(more[p], i)
           /\ OwesProjects(more, i) \in Nat /\ OwesProjects(all, i) \in Nat
<1>1. PICK f, g : f = [o \in Projects |-> OwedBy(all[o], i)] /\ g = [o \in Projects |-> OwedBy(more[o], i)]
    OBVIOUS
<1>2. IsFiniteSet(Projects)
    BY DetailStockAssumption
<1>3. \A o \in Projects : f[o] \in Nat /\ g[o] \in Nat
    BY <1>1, OwedIs DEF AllocFine
<1>4. \A o \in Projects \ {p} : g[o] = f[o]
    BY <1>1
<1>5. Amount(g, Projects) + f[p] = Amount(f, Projects) + g[p]
    BY <1>2, <1>3, <1>4, AmountChanged
<1>6. Amount(g, Projects) \in Nat /\ Amount(f, Projects) \in Nat
    BY <1>2, <1>3, PiecesFinite
<1>7. OwesProjects(more, i) = Amount(g, Projects) /\ OwesProjects(all, i) = Amount(f, Projects)
    BY <1>1 DEF OwesProjects, Total
<1>8. QED
    BY <1>1, <1>5, <1>6, <1>7

\* What a row owes to projects is a natural number.
LEMMA OwesProjectsNat ==
    ASSUME NEW all, NEW n, AllocFine(all, n), NEW i
    PROVE  OwesProjects(all, i) \in Nat
<1>1. PICK f : f = [o \in Projects |-> OwedBy(all[o], i)]
    OBVIOUS
<1>2. IsFiniteSet(Projects) /\ \A o \in Projects : f[o] \in Nat
    BY <1>1, OwedIs, DetailStockAssumption DEF AllocFine
<1>3. Amount(f, Projects) \in Nat
    BY <1>2, PiecesFinite
<1>4. QED
    BY <1>1, <1>3 DEF OwesProjects, Total

\* Claims are finite sums.
LEMMA ClaimsInNat ==
    ASSUME NEW cl \in Seq(ClaimRows), NEW i
    PROVE  /\ ClaimsIn(cl, i) \in Nat /\ IsFiniteSet({k \in DOMAIN cl : cl[k].row = i})
           /\ \A k \in DOMAIN cl : cl[k].quantity \in Nat
<1>1. PICK S : S = {k \in DOMAIN cl : cl[k].row = i}
    OBVIOUS
<1>2. Len(cl) \in Nat /\ DOMAIN cl = 1 .. Len(cl)
    OBVIOUS
<1>3. IsFiniteSet(S) /\ S \subseteq DOMAIN cl
    <2>1. IsFiniteSet(DOMAIN cl) /\ S \subseteq DOMAIN cl
        BY <1>1, <1>2, FS_Interval
    <2>2. QED
        BY <2>1, FS_Subset
<1>4. ASSUME NEW k \in DOMAIN cl PROVE cl[k].quantity \in Nat
    <2>1. cl[k] \in ClaimRows
        OBVIOUS
    <2>2. QED
        BY <2>1 DEF ClaimRows
<1>5. PICK f : f = [k \in DOMAIN cl |-> cl[k].quantity]
    OBVIOUS
<1>6. \A k \in S : f[k] \in Nat
    BY <1>3, <1>4, <1>5
<1>7. Amount(f, S) \in Nat
    BY <1>3, <1>6, PiecesFinite
<1>8. QED
    BY <1>1, <1>3, <1>4, <1>5, <1>7 DEF ClaimsIn

\* Claims that are added add to what is owed.
LEMMA ClaimsInAppended ==
    ASSUME NEW cl \in Seq(ClaimRows), NEW new \in Seq(ClaimRows), NEW i
    PROVE  ClaimsIn(cl \o new, i) = ClaimsIn(cl, i) + ClaimsIn(new, i)
<1>1. PICK a, b, both : a = Len(cl) /\ b = Len(new) /\ both = cl \o new
    OBVIOUS
<1>2. /\ a \in Nat /\ b \in Nat /\ DOMAIN cl = 1 .. a /\ DOMAIN new = 1 .. b
      /\ both \in Seq(ClaimRows) /\ DOMAIN both = 1 .. a + b
      /\ \A k \in 1 .. a : both[k] = cl[k]
      /\ \A k \in 1 .. b : both[k + a] = new[k]
    BY <1>1
<1>3. PICK S, T, U, V : /\ S = {k \in DOMAIN cl : cl[k].row = i} /\ T = {k \in DOMAIN new : new[k].row = i}
                        /\ U = {k \in DOMAIN both : both[k].row = i} /\ V = {k \in U : k > a}
    OBVIOUS
<1>4. PICK f, g, h : /\ f = [k \in DOMAIN cl |-> cl[k].quantity] /\ g = [k \in DOMAIN new |-> new[k].quantity]
                     /\ h = [k \in DOMAIN both |-> both[k].quantity]
    OBVIOUS
<1>5. /\ IsFiniteSet(S) /\ IsFiniteSet(T) /\ IsFiniteSet(U)
      /\ \A k \in DOMAIN cl : cl[k].quantity \in Nat
      /\ \A k \in DOMAIN new : new[k].quantity \in Nat
      /\ \A k \in DOMAIN both : both[k].quantity \in Nat
    BY <1>2, <1>3, ClaimsInNat
<1>6. /\ \A k \in S : f[k] \in Nat /\ h[k] = f[k] /\ k \in 1 .. a /\ k \in U
      /\ \A k \in T : g[k] \in Nat /\ h[k + a] = g[k] /\ k \in 1 .. b /\ k + a \in V
      /\ \A k \in U : h[k] \in Nat
    <2>1. ASSUME NEW k \in S PROVE f[k] \in Nat /\ h[k] = f[k] /\ k \in 1 .. a /\ k \in U
        <3>1. k \in 1 .. a /\ k \in 1 .. a + b /\ both[k] = cl[k] /\ cl[k].row = i
            BY <1>2, <1>3
        <3>2. QED
            BY <1>2, <1>3, <1>4, <1>5, <3>1
    <2>2. ASSUME NEW k \in T PROVE g[k] \in Nat /\ h[k + a] = g[k] /\ k \in 1 .. b /\ k + a \in V
        <3>1. k \in 1 .. b /\ k + a \in 1 .. a + b /\ k + a > a /\ both[k + a] = new[k] /\ new[k].row = i
            BY <1>2, <1>3
        <3>2. QED
            BY <1>2, <1>3, <1>4, <1>5, <3>1
    <2>3. \A k \in U : h[k] \in Nat
        BY <1>3, <1>4, <1>5
    <2>4. QED
        BY <2>1, <2>2, <2>3
<1>7. U = S \cup V /\ S \cap V = {} /\ V \subseteq U
    <2>1. ASSUME NEW k \in U, k \notin V PROVE k \in S
        <3>1. k \in 1 .. a
            BY <1>2, <1>3, <2>1
        <3>2. cl[k].row = i
            BY <1>2, <1>3, <3>1
        <3>3. QED
            BY <1>2, <1>3, <3>1, <3>2
    <2>2. \A k \in S : k \in U /\ k \notin V
        BY <1>2, <1>3, <1>6
    <2>3. QED
        BY <1>3, <2>1, <2>2
<1>8. PICK t : t = [k \in T |-> k + a]
    OBVIOUS
<1>9. Renames(t, g, T, h, V)
    <2>1. t \in [T -> V]
        BY <1>6, <1>8
    <2>2. \A k, m \in T : t[k] = t[m] => k = m
        BY <1>2, <1>6, <1>8
    <2>3. \A v \in V : \E k \in T : t[k] = v
        <3>1. ASSUME NEW v \in V PROVE \E k \in T : t[k] = v
            <4>1. v \in 1 .. a + b /\ v > a /\ both[v].row = i
                BY <1>2, <1>3
            <4>2. v - a \in 1 .. b /\ (v - a) + a = v
                BY <1>2, <4>1
            <4>3. new[v - a].row = i
                BY <1>2, <4>1, <4>2
            <4>4. v - a \in T
                BY <1>2, <1>3, <4>2, <4>3
            <4>5. QED
                BY <1>8, <4>2, <4>4
        <3>2. QED
            BY <3>1
    <2>4. \A k \in T : g[k] = h[t[k]]
        BY <1>6, <1>8
    <2>5. t \in Bijection(T, V)
        BY <2>1, <2>2, <2>3 DEF Bijection, Injection, IsInjective, Surjection
    <2>6. QED
        BY <2>4, <2>5 DEF Renames
<1>10. Amount(g, T) = Amount(h, V)
    <2>1. IsFiniteSet(T) /\ \A k \in T : g[k] \in Nat
        BY <1>5, <1>6
    <2>2. QED
        BY <1>9, <2>1, AmountRenamed, Zenon
<1>11. Amount(f, S) = Amount(h, S)
    BY <1>6, AmountSame
<1>12. Amount(h, U) = Amount(h, S) + Amount(h, V)
    <2>1. IsFiniteSet(V)
        BY <1>5, <1>7, FS_Subset
    <2>2. \A k \in S \cup V : h[k] \in Nat
        BY <1>6, <1>7
    <2>3. Amount(h, S \cup V) = Amount(h, S) + Amount(h, V)
        BY <1>5, <1>7, <2>1, <2>2, AmountUnion
    <2>4. QED
        BY <1>7, <2>3
<1>13. ClaimsIn(both, i) = Amount(h, U) /\ ClaimsIn(cl, i) = Amount(f, S) /\ ClaimsIn(new, i) = Amount(g, T)
    BY <1>3, <1>4 DEF ClaimsIn
<1>14. QED
    BY <1>1, <1>10, <1>11, <1>12, <1>13

OthersStay(ds, cs, j) == \A o \in Jobs \ {j} : ds[o] = cs[o]
SameAlive(ks, js) == Alive(ks) = Alive(js)

\* When one job's claims change, what is owed to jobs changes by them, unless the job is cancelled.
LEMMA OwesJobsChanges ==
    ASSUME NEW cs, NEW ds, NEW n, NEW m, ClaimsFine(cs, n), ClaimsFine(ds, m), NEW j \in Jobs,
           OthersStay(ds, cs, j), NEW js, NEW ks, SameAlive(ks, js), NEW i
    PROVE  /\ OwesJobs(cs, js, i) \in Nat /\ OwesJobs(ds, ks, i) \in Nat
           /\ ClaimsIn(cs[j], i) \in Nat /\ ClaimsIn(ds[j], i) \in Nat
           /\ j \in Alive(js) =>
                OwesJobs(ds, ks, i) + ClaimsIn(cs[j], i) = OwesJobs(cs, js, i) + ClaimsIn(ds[j], i)
           /\ j \notin Alive(js) => OwesJobs(ds, ks, i) = OwesJobs(cs, js, i)
<1>1. PICK f, g, S : f = [o \in Jobs |-> ClaimsIn(cs[o], i)] /\ g = [o \in Jobs |-> ClaimsIn(ds[o], i)] /\ S = Alive(js)
    OBVIOUS
<1>2. IsFiniteSet(S) /\ S \subseteq Jobs
    <2>1. IsFiniteSet(Jobs) /\ S \subseteq Jobs
        BY <1>1, DetailStockAssumption DEF Alive, Standalone
    <2>2. QED
        BY <2>1, FS_Subset
<1>3. \A o \in Jobs : f[o] \in Nat /\ g[o] \in Nat
    BY <1>1, ClaimsInNat DEF ClaimsFine
<1>4. \A o \in Jobs \ {j} : g[o] = f[o]
    BY <1>1 DEF OthersStay
<1>5. Amount(f, S) \in Nat /\ Amount(g, S) \in Nat
    BY <1>2, <1>3, PiecesFinite
<1>6. OwesJobs(cs, js, i) = Amount(f, S) /\ OwesJobs(ds, ks, i) = Amount(g, S)
    BY <1>1 DEF OwesJobs, SameAlive
<1>7. ASSUME j \in S PROVE Amount(g, S) + f[j] = Amount(f, S) + g[j]
    <2>1. /\ \A o \in S : f[o] \in Nat
          /\ g[j] \in Nat
          /\ \A o \in S \ {j} : g[o] = f[o]
        BY <1>2, <1>3, <1>4
    <2>2. QED
        BY <1>2, <1>7, <2>1, AmountChanged
<1>8. ASSUME j \notin S PROVE Amount(g, S) = Amount(f, S)
    <2>1. \A o \in S : g[o] = f[o]
        BY <1>2, <1>4, <1>8
    <2>2. QED
        BY <2>1, AmountSame
<1>9. QED
    BY <1>1, <1>3, <1>5, <1>6, <1>7, <1>8

\* What is issued or given back is owed no more.
LEMMA OwedMoves ==
    ASSUME NEW of, NEW n, AllocsFine(of, n), NEW c, NEW r, NEW new, Moves(new, of, c, r), NEW both,
           \A k \in DOMAIN of : /\ c[k] \in Nat /\ r[k] \in Nat /\ c[k] + r[k] <= Outstanding(of[k])
                                /\ both[k] = c[k] + r[k],
           NEW i
    PROVE  OwedBy(of, i) = OwedBy(new, i) + Amount(both, {k \in DOMAIN of : of[k].row = i})
<1>1. PICK S : S = {k \in DOMAIN of : of[k].row = i}
    OBVIOUS
<1>2. /\ AllocsFine(new, n) /\ DOMAIN new = DOMAIN of
      /\ \A k \in DOMAIN of : /\ new[k].row = of[k].row
                              /\ HeldOf(of)[k] = HeldOf(new)[k] + (c[k] + r[k])
    BY AllocsMove
<1>3. {k \in DOMAIN new : new[k].row = i} = S
    BY <1>1, <1>2
<1>4. /\ OwedBy(of, i) = Amount(HeldOf(of), S) /\ IsFiniteSet(S)
      /\ OwedBy(new, i) = Amount(HeldOf(new), S)
    BY <1>1, <1>2, <1>3, OwedIs
<1>5. \A k \in S : HeldOf(new)[k] \in Nat /\ both[k] \in Nat /\ HeldOf(of)[k] = HeldOf(new)[k] + both[k]
    <2>1. \A k \in DOMAIN new : HeldOf(new)[k] \in Nat
        BY <1>2, AllocSums
    <2>2. QED
        BY <1>1, <1>2, <2>1
<1>6. Amount(HeldOf(of), S) = Amount(HeldOf(new), S) + Amount(both, S)
    BY <1>4, <1>5, AmountOfBoth
<1>7. QED
    BY <1>1, <1>4, <1>6

\* What a row owes to jobs is a natural number.
LEMMA OwesJobsNat ==
    ASSUME NEW cs, NEW n, ClaimsFine(cs, n), NEW js, NEW i
    PROVE  OwesJobs(cs, js, i) \in Nat
<1>1. PICK f, S : f = [o \in Jobs |-> ClaimsIn(cs[o], i)] /\ S = Alive(js)
    OBVIOUS
<1>2. IsFiniteSet(S) /\ S \subseteq Jobs
    <2>1. IsFiniteSet(Jobs) /\ S \subseteq Jobs
        BY <1>1, DetailStockAssumption DEF Alive, Standalone
    <2>2. QED
        BY <2>1, FS_Subset
<1>3. \A o \in S : f[o] \in Nat
    BY <1>1, <1>2, ClaimsInNat DEF ClaimsFine
<1>4. Amount(f, S) \in Nat
    BY <1>2, <1>3, PiecesFinite
<1>5. QED
    BY <1>1, <1>4 DEF OwesJobs

-----------------------------------------------------------------------------
\* Steps that leave no row shorter.
Shorter(i) == Shortage(i)' > Shortage(i)

\* A row is no shorter if what it owes beyond what it has reserved did not grow.
LEMMA NotShorter ==
    ASSUME StockInv, StockInv', NEW i \in DOMAIN rows, rows'[i].reserved \in Nat, NEW p, NEW q, NEW j, NEW k,
           p = OwesProjects(alloc, i), q = OwesProjects(alloc', i),
           j = OwesJobs(claims, jobs, i), k = OwesJobs(claims', jobs', i),
           q + k - rows'[i].reserved <= p + j - rows[i].reserved
    PROVE  ~Shorter(i)
<1>1. p \in Nat /\ q \in Nat /\ j \in Nat /\ k \in Nat
    BY OwesProjectsNat, OwesJobsNat DEF StockInv
<1>2. rows[i].reserved \in Nat
    BY RowSays DEF StockInv
<1>3. PICK a, b : a = rows[i].reserved /\ b = rows'[i].reserved
    OBVIOUS
<1>4. Shortage(i) = Larger(0, p + j - a) /\ Shortage(i)' = Larger(0, q + k - b)
    BY <1>3, ShortageIs
<1>5. Larger(0, q + k - b) <= Larger(0, p + j - a) /\ Larger(0, q + k - b) \in Int /\ Larger(0, p + j - a) \in Int
    BY <1>1, <1>2, <1>3 DEF Larger
<1>6. QED
    BY <1>4, <1>5 DEF Shorter

\* Nor if it owes the same, and has the same reserved.
LEMMA NothingOwed ==
    ASSUME StockInv, StockInv', NEW i \in DOMAIN rows, alloc' = alloc, claims' = claims, Alive(jobs') = Alive(jobs),
           rows'[i].reserved = rows[i].reserved
    PROVE  ~Shorter(i)
<1>1. PICK p, j : p = OwesProjects(alloc, i) /\ j = OwesJobs(claims, jobs, i)
    OBVIOUS
<1>2. p = OwesProjects(alloc', i)
    BY <1>1
<1>3. j = OwesJobs(claims', jobs', i)
    BY <1>1 DEF OwesJobs
<1>4. rows[i].reserved \in Nat
    BY RowSays DEF StockInv
<1>5. p \in Nat /\ j \in Nat
    BY <1>1, OwesProjectsNat, OwesJobsNat DEF StockInv
<1>6. p + j - rows'[i].reserved <= p + j - rows[i].reserved /\ rows'[i].reserved \in Nat
    BY <1>4, <1>5
<1>7. QED
    BY <1>1, <1>2, <1>3, <1>6, NotShorter

\* The same jobs are owed something as long as none is cancelled or comes back.
LEMMA AliveSame ==
    ASSUME \A o \in Standalone : jobs'[o].status = "cancelled" <=> jobs[o].status = "cancelled"
    PROVE  Alive(jobs') = Alive(jobs)
    BY DEF Alive

\* A surplus shortens nothing.
LEMMA AddSurplusOwes ==
    ASSUME StockInv, StockInv', NEW i \in DOMAIN rows, NEW j \in Jobs, NEW cut, NEW q, AddSurplus(j, cut, q)
    PROVE  ~Shorter(i)
<1>1. /\ rows' = Append(rows, [quantity |-> q, reserved |-> 0]) /\ jobs' = [jobs EXCEPT ![j].surplus = @ + q]
      /\ UNCHANGED <<claims, alloc>>
    BY DEF AddSurplus
<1>2. rows'[i] = rows[i]
    BY <1>1 DEF StockInv, RowsFine
<1>3. \A o \in Jobs : jobs'[o].status = jobs[o].status
    <2>1. jobs \in [Jobs -> JobRows]
        BY DEF StockInv, JobsFine
    <2>2. QED
        BY <1>1, <2>1 DEF JobRows
<1>4. Alive(jobs') = Alive(jobs)
    BY <1>3, AliveSame DEF Standalone
<1>5. QED
    BY <1>1, <1>2, <1>4, NothingOwed

\* Nor does the start of a job of no project, or the completion of any.
LEMMA JobGoesOnOwes ==
    ASSUME StockInv, StockInv', NEW i \in DOMAIN rows, NEW j \in Jobs, StartStandalone(j) \/ CompleteJob(j)
    PROVE  ~Shorter(i)
<1>1. PICK s \in {"in_progress", "completed"} : StatusWritten(j, s)
    BY DEF StartStandalone, CompleteJob, StatusWritten
<1>2. UNCHANGED <<rows, claims, alloc>> /\ jobs[j].status # "cancelled"
    BY DEF StartStandalone, CompleteJob
<1>3. s \in JobStates \ {"draft", "released"} /\ s # "cancelled"
    BY DEF JobStates
<1>4. \A o \in Jobs : jobs'[o].status = IF o = j THEN s ELSE jobs[o].status
    BY <1>1, <1>3, JobGoesOn
<1>5. \A o \in Standalone : jobs'[o].status = "cancelled" <=> jobs[o].status = "cancelled"
    BY <1>2, <1>3, <1>4 DEF Standalone
<1>6. Alive(jobs') = Alive(jobs)
    BY <1>5, AliveSame
<1>7. QED
    BY <1>2, <1>6, NothingOwed

\* Nor a step that leaves rows, jobs, claims and allocations alone.
LEMMA StandStillOwes ==
    ASSUME StockInv, StockInv', NEW i \in DOMAIN rows, UNCHANGED <<rows, jobs, claims, alloc>>
    PROVE  ~Shorter(i)
<1>1. Alive(jobs') = Alive(jobs)
    BY DEF Alive
<1>2. QED
    BY <1>1, NothingOwed

\* Nor what a clerk issues from what is free.
LEMMA StockOutOwes ==
    ASSUME StockInv, StockInv', NEW i \in DOMAIN rows, NEW m \in DOMAIN rows, NEW q, StockOut(m, q)
    PROVE  ~Shorter(i)
<1>1. UNCHANGED <<jobs, claims, alloc>> /\ rows' = [rows EXCEPT ![m].quantity = @ - q]
    BY DEF StockOut, Manual
<1>2. rows'[i].reserved = rows[i].reserved
    <2>1. rows \in Seq(PieceRows)
        BY DEF StockInv, RowsFine
    <2>2. PICK w : w = [rows[m] EXCEPT !.quantity = @ - q]
        OBVIOUS
    <2>3. w.reserved = rows[m].reserved
        BY <2>1, <2>2 DEF PieceRows
    <2>4. rows' = [rows EXCEPT ![m] = w]
        BY <1>1, <2>2
    <2>5. rows'[m] = w /\ (i # m => rows'[i] = rows[i])
        BY <2>1, <2>4
    <2>6. QED
        BY <2>3, <2>5
<1>3. Alive(jobs') = Alive(jobs)
    BY <1>1 DEF Alive
<1>4. QED
    BY <1>1, <1>2, <1>3, NothingOwed

\* One claim more.
OneClaim(m, q) == <<[row |-> m, quantity |-> q]>>

\* One claim is owed on its row.
LEMMA ClaimOfOne ==
    ASSUME NEW m \in Nat, NEW q \in Nat, NEW i
    PROVE  OneClaim(m, q) \in Seq(ClaimRows) /\ ClaimsIn(OneClaim(m, q), i) = IF i = m THEN q ELSE 0
<1> DEFINE new == OneClaim(m, q)
<1>1. new \in Seq(ClaimRows) /\ DOMAIN new = {1} /\ new[1].row = m /\ new[1].quantity = q
    BY DEF ClaimRows, OneClaim
<1> HIDE DEF new
<1>2. PICK f : f = [k \in DOMAIN new |-> new[k].quantity]
    OBVIOUS
<1>3. f[1] = q
    BY <1>1, <1>2
<1>4. CASE i = m
    <2>1. {k \in DOMAIN new : new[k].row = i} = {1}
        BY <1>1, <1>4
    <2>2. Amount(f, {1}) = q
        BY <1>3, AmountOne
    <2>3. ClaimsIn(new, i) = Amount(f, {k \in DOMAIN new : new[k].row = i})
        BY <1>2 DEF ClaimsIn
    <2>4. QED
        BY <1>1, <1>4, <2>1, <2>2, <2>3 DEF new
<1>5. CASE i # m
    <2>1. {k \in DOMAIN new : new[k].row = i} = {}
        BY <1>1, <1>5
    <2>2. Amount(f, {}) = 0
        BY AmountOfNone
    <2>3. ClaimsIn(new, i) = Amount(f, {k \in DOMAIN new : new[k].row = i})
        BY <1>2 DEF ClaimsIn
    <2>4. QED
        BY <1>1, <1>5, <2>1, <2>2, <2>3 DEF new
<1>6. QED
    BY <1>1, <1>4, <1>5 DEF new

\* What a clerk reserves is reserved and owed at once.
LEMMA StockReserveOwes ==
    ASSUME StockInv, StockInv', NEW i \in DOMAIN rows, NEW m \in DOMAIN rows, NEW q \in Nat, StockReserve(m, q)
    PROVE  ~Shorter(i)
<1>1. /\ UNCHANGED <<jobs, alloc>> /\ rows' = [rows EXCEPT ![m].reserved = @ + q]
      /\ \/ UNCHANGED claims
         \/ \E j \in Jobs : claims' = [claims EXCEPT ![j] = Append(@, [row |-> m, quantity |-> q])]
    BY DEF StockReserve, Manual
<1>2. PICK more : more = IF i = m THEN q ELSE 0
    OBVIOUS
<1>3. /\ rows'[i].reserved = rows[i].reserved + more /\ rows[i].reserved \in Nat /\ more \in Nat /\ m \in Nat
      /\ rows'[i].reserved \in Nat
    <2>1. rows \in Seq(PieceRows) /\ m \in Nat
        BY DEF StockInv, RowsFine
    <2>2. rows[m].reserved \in Nat /\ rows[i].reserved \in Nat /\ more \in Nat
        BY <1>2, RowSays DEF StockInv
    <2>3. PICK w : w = [rows[m] EXCEPT !.reserved = @ + q]
        OBVIOUS
    <2>4. w.reserved = rows[m].reserved + q
        BY <2>1, <2>3 DEF PieceRows
    <2>5. rows' = [rows EXCEPT ![m] = w]
        BY <1>1, <2>3
    <2>6. rows'[m] = w /\ (i # m => rows'[i] = rows[i])
        BY <2>1, <2>5
    <2>7. rows'[i].reserved = rows[i].reserved + more
        BY <1>2, <2>2, <2>4, <2>6
    <2>8. QED
        BY <2>1, <2>2, <2>7
<1>4. PICK p, j, k : p = OwesProjects(alloc, i) /\ j = OwesJobs(claims, jobs, i) /\ k = OwesJobs(claims', jobs', i)
    OBVIOUS
<1>5. p = OwesProjects(alloc', i) /\ p \in Nat /\ j \in Nat /\ k \in Nat
    BY <1>1, <1>4, OwesProjectsNat, OwesJobsNat DEF StockInv
<1>6. Alive(jobs') = Alive(jobs)
    BY <1>1 DEF Alive
<1>7. k <= j + more
    <2>1. CASE UNCHANGED claims
        <3>1. k = j
            BY <1>4, <1>6, <2>1 DEF OwesJobs
        <3>2. QED
            BY <1>3, <1>5, <3>1
    <2>2. ASSUME NEW o \in Jobs, claims' = [claims EXCEPT ![o] = Append(@, [row |-> m, quantity |-> q])]
          PROVE  k <= j + more
        <3>1. PICK new : new = OneClaim(m, q)
            OBVIOUS
        <3>2. ClaimsFine(claims, Len(rows)) /\ ClaimsFine(claims', Len(rows'))
            BY DEF StockInv
        <3>3. new \in Seq(ClaimRows) /\ ClaimsIn(new, i) = more
            BY <1>2, <1>3, <3>1, ClaimOfOne
        <3>4. claims[o] \in Seq(ClaimRows) /\ claims'[o] = claims[o] \o new /\ \A x \in Jobs \ {o} : claims'[x] = claims[x]
            BY <2>2, <3>1, <3>2 DEF ClaimsFine, OneClaim
        <3>5. ClaimsIn(claims'[o], i) = ClaimsIn(claims[o], i) + more /\ ClaimsIn(claims[o], i) \in Nat
            BY <3>3, <3>4, ClaimsInAppended, ClaimsInNat
        <3>6. /\ o \in Alive(jobs) =>
                   OwesJobs(claims', jobs', i) + ClaimsIn(claims[o], i) = OwesJobs(claims, jobs, i) + ClaimsIn(claims'[o], i)
              /\ o \notin Alive(jobs) => OwesJobs(claims', jobs', i) = OwesJobs(claims, jobs, i)
            <4>1. OthersStay(claims', claims, o) /\ SameAlive(jobs', jobs)
                BY <1>6, <3>4 DEF OthersStay, SameAlive
            <4>2. QED
                BY <3>2, <4>1, OwesJobsChanges
        <3>7. QED
            BY <1>3, <1>4, <1>5, <3>5, <3>6
    <2>3. QED
        BY <1>1, <2>1, <2>2
<1>8. p + k - rows'[i].reserved <= p + j - rows[i].reserved
    BY <1>3, <1>5, <1>7
<1>9. QED
    BY <1>3, <1>4, <1>5, <1>8, NotShorter

\* What a release leaves on a row.
OnIt(taken, n, i) == IF i \in 1 .. n THEN taken[i] ELSE 0

\* A released job claims of each row what it reserves.
LEMMA ReleaseJobOwes ==
    ASSUME StockInv, StockInv', NEW i \in DOMAIN rows, NEW j \in Standalone, ReleaseJob(j)
    PROVE  ~Shorter(i)
<1>1. PICK n \in Nat, c \in Nat : \E taken, of : JobTakes(j, taken, n, of, c)
    BY ReleaseJobTakes
<1>2. PICK taken, of : JobTakes(j, taken, n, of, c)
    BY <1>1
<1>3. PICK more : more = OnIt(taken, n, i)
    OBVIOUS
<1>4. PICK new : new = ClaimsFor(of, c, taken)
    OBVIOUS
<1>5. /\ \A k \in 1 .. n : taken[k] \in Nat
      /\ Takes(of, c, taken, n) /\ Appends(claims', j, new)
      /\ rows'[i].reserved = rows[i].reserved + more
    BY <1>2, <1>3, <1>4 DEF JobTakes, Reserves, OnIt
<1>6. more \in Nat /\ rows[i].reserved \in Nat /\ rows'[i].reserved \in Nat
    <2>1. more \in Nat
        BY <1>3, <1>5 DEF OnIt
    <2>2. rows[i].reserved \in Nat
        BY RowSays DEF StockInv
    <2>3. QED
        BY <1>5, <2>1, <2>2
<1>7. new \in Seq(ClaimRows) /\ ClaimsIn(new, i) = more
    <2>1. \A k \in 1 .. c : of[k] \in 1 .. n /\ taken[of[k]] \in Nat
        BY <1>5 DEF Takes
    <2>2. \A k \in 1 .. c : new[k] \in ClaimRows /\ new[k].row = of[k] /\ new[k].quantity = taken[of[k]]
        BY <1>4, <2>1 DEF ClaimsFor, ClaimRows
    <2>3. new = [k \in 1 .. c |-> new[k]]
        BY <1>4 DEF ClaimsFor
    <2>4. new \in Seq(ClaimRows) /\ DOMAIN new = 1 .. c
        BY <2>2, <2>3
    <2>5. PICK g : g = [k \in DOMAIN new |-> new[k].quantity]
        OBVIOUS
    <2>6. Carries(g, of, c, taken)
        BY <2>2, <2>4, <2>5 DEF Carries
    <2>7. Amount(g, {k \in 1 .. c : of[k] = i}) = more
        <3>1. Amount(g, {k \in 1 .. c : of[k] = i}) = IF i \in 1 .. n THEN taken[i] ELSE 0
            <4>1. (\A k \in 1 .. n : taken[k] \in Nat) /\ Takes(of, c, taken, n)
                BY <1>5
            <4>2. QED
                BY <2>6, <4>1, TakenOfRow
        <3>2. QED
            BY <1>3, <3>1 DEF OnIt
    <2>8. {k \in DOMAIN new : new[k].row = i} = {k \in 1 .. c : of[k] = i}
        BY <2>2, <2>4
    <2>9. QED
        BY <2>4, <2>5, <2>7, <2>8 DEF ClaimsIn
<1>8. /\ ClaimsFine(claims, Len(rows)) /\ ClaimsFine(claims', Len(rows')) /\ j \in Jobs
      /\ AllocFine(alloc, Len(rows)) /\ JobsFine(jobs)
    BY DEF StockInv, Standalone
<1>9. claims[j] \in Seq(ClaimRows) /\ claims'[j] = claims[j] \o new /\ \A o \in Jobs \ {j} : claims'[o] = claims[o]
    BY <1>5, <1>8 DEF ClaimsFine, Appends
<1>10. ClaimsIn(claims'[j], i) = ClaimsIn(claims[j], i) + more /\ ClaimsIn(claims[j], i) \in Nat
    BY <1>7, <1>9, ClaimsInAppended, ClaimsInNat
<1>11. j \in Alive(jobs) /\ SameAlive(jobs', jobs) /\ alloc' = alloc
    <2>1. /\ jobs[j].status = "draft" /\ alloc' = alloc
          /\ jobs' = [jobs EXCEPT ![j].status = "released", ![j].covered = Need[j] - Left(j, Need[j])[Len(listed[j])]]
        BY DEF ReleaseJob
    <2>2. PICK w : w = [jobs[j] EXCEPT !.status = "released", !.covered = Need[j] - Left(j, Need[j])[Len(listed[j])]]
        OBVIOUS
    <2>3. w.status = "released"
        BY <1>8, <2>2 DEF JobsFine, JobRows
    <2>4. jobs' = [jobs EXCEPT ![j] = w]
        BY <2>1, <2>2
    <2>5. jobs'[j] = w /\ \A o \in Jobs \ {j} : jobs'[o] = jobs[o]
        BY <1>8, <2>4 DEF JobsFine
    <2>6. \A o \in Standalone : jobs'[o].status = "cancelled" <=> jobs[o].status = "cancelled"
        BY <2>1, <2>3, <2>5 DEF Standalone
    <2>7. QED
        BY <2>1, <2>6, AliveSame DEF SameAlive, Alive
<1>12. OthersStay(claims', claims, j)
    BY <1>9 DEF OthersStay
<1>13. OwesJobs(claims', jobs', i) + ClaimsIn(claims[j], i) = OwesJobs(claims, jobs, i) + ClaimsIn(claims'[j], i)
    BY <1>8, <1>11, <1>12, OwesJobsChanges
<1>14. PICK p, a, b : p = OwesProjects(alloc, i) /\ a = OwesJobs(claims, jobs, i) /\ b = OwesJobs(claims', jobs', i)
    OBVIOUS
<1>15. p = OwesProjects(alloc', i) /\ p \in Nat /\ a \in Nat /\ b \in Nat
    BY <1>8, <1>11, <1>14, OwesProjectsNat, OwesJobsNat
<1>16. b = a + more
    BY <1>6, <1>10, <1>13, <1>14, <1>15
<1>17. p + b - rows'[i].reserved <= p + a - rows[i].reserved
    BY <1>5, <1>6, <1>15, <1>16
<1>18. QED
    BY <1>6, <1>14, <1>15, <1>17, NotShorter

\* A project's step, after which it is owed on the row what the row has reserved more or less.
LEMMA ProjectOwes ==
    ASSUME StockInv, StockInv', NEW i \in DOMAIN rows, NEW p \in Projects, claims' = claims,
           \A o \in Projects \ {p} : alloc'[o] = alloc[o],
           \A j \in Standalone : jobs'[j].status = jobs[j].status,
           rows'[i].reserved - rows[i].reserved = OwedBy(alloc'[p], i) - OwedBy(alloc[p], i),
           rows'[i].reserved \in Nat
    PROVE  ~Shorter(i)
<1>1. AllocFine(alloc, Len(rows)) /\ AllocFine(alloc', Len(rows'))
    BY DEF StockInv
<1>2. /\ OwesProjects(alloc', i) + OwedBy(alloc[p], i) = OwesProjects(alloc, i) + OwedBy(alloc'[p], i)
      /\ OwesProjects(alloc', i) \in Nat /\ OwesProjects(alloc, i) \in Nat
    BY <1>1, OwesProjectsChanges
<1>3. OwedBy(alloc[p], i) \in Nat /\ OwedBy(alloc'[p], i) \in Nat
    BY <1>1, OwedIs DEF AllocFine
<1>4. rows[i].reserved \in Nat
    BY RowSays DEF StockInv
<1>5. Alive(jobs') = Alive(jobs)
    BY AliveSame
<1>6. PICK a, b, x : /\ a = OwesProjects(alloc, i) /\ b = OwesProjects(alloc', i) /\ x = OwesJobs(claims, jobs, i)
    OBVIOUS
<1>7. x = OwesJobs(claims', jobs', i) /\ x \in Nat
    BY <1>5, <1>6, OwesJobsNat DEF OwesJobs, StockInv
<1>8. b + x - rows'[i].reserved <= a + x - rows[i].reserved
    BY <1>2, <1>3, <1>4, <1>6, <1>7
<1>9. QED
    BY <1>6, <1>7, <1>8, NotShorter

\* A released project is allocated of each row what it reserves.
LEMMA ReleaseProjectOwes ==
    ASSUME StockInv, StockInv', NEW i \in DOMAIN rows, NEW p \in Projects, ReleaseProject(p)
    PROVE  ~Shorter(i)
<1>1. PICK n \in Nat, c \in Nat : \E taken, of, new, total : ProjectTakes(p, taken, n, of, c, new, total)
    BY ReleaseProjectTakes
<1>2. PICK taken, of, new, total : ProjectTakes(p, taken, n, of, c, new, total)
    BY <1>1
<1>3. PICK more : more = OnIt(taken, n, i)
    OBVIOUS
<1>4. PICK m \in Nat : m = Len(rows)
    BY DEF StockInv, RowsFine
<1>5. /\ n <= m /\ \A k \in 1 .. n : taken[k] \in Nat
      /\ Takes(of, c, taken, n) /\ Reserves(taken, n)
      /\ AllocatedFor(new, of, c, taken) /\ AllocIs(alloc', p, new)
    BY <1>2, <1>4, Zenon DEF ProjectTakes
<1>6. rows'[i].reserved = rows[i].reserved + more
    BY <1>3, <1>5 DEF Reserves, OnIt
<1>7. more \in Nat /\ rows[i].reserved \in Nat /\ rows'[i].reserved \in Nat
    <2>1. more \in Nat
        BY <1>3, <1>5 DEF OnIt
    <2>2. rows[i].reserved \in Nat
        BY RowSays DEF StockInv
    <2>3. QED
        BY <1>6, <2>1, <2>2
<1>8. AllocFine(alloc, Len(rows)) /\ project[p] = "planned" /\ PlannedIsNew /\ UNCHANGED claims
    BY DEF StockInv, ReleaseProject
<1>9. /\ AllocsFine(new, m) /\ DOMAIN new = 1 .. c
      /\ \A k \in 1 .. c : new[k].row = of[k] /\ Outstanding(new[k]) = taken[of[k]] /\ taken[of[k]] \in Nat
    BY <1>5, AllocatedIs
<1>10. alloc'[p] = new /\ \A o \in Projects \ {p} : alloc'[o] = alloc[o]
    BY <1>4, <1>5, <1>8, <1>9, AllocWritten
<1>11. OwedBy(new, i) = more
    <2>1. PICK S : S = {k \in 1 .. c : of[k] = i}
        OBVIOUS
    <2>2. {k \in DOMAIN new : new[k].row = i} = S
        BY <1>9, <2>1
    <2>3. OwedBy(new, i) = Amount(HeldOf(new), S)
        BY <1>9, <2>2, OwedIs
    <2>4. Carries(HeldOf(new), of, c, taken)
        BY <1>9 DEF HeldOf, Carries
    <2>5. Amount(HeldOf(new), {k \in 1 .. c : of[k] = i}) = IF i \in 1 .. n THEN taken[i] ELSE 0
        BY <1>5, <2>4, TakenOfRow
    <2>6. QED
        BY <1>3, <2>1, <2>3, <2>5 DEF OnIt
<1>12. OwedBy(alloc[p], i) = 0
    <2>1. alloc[p] = <<>>
        BY <1>8 DEF PlannedIsNew
    <2>2. {k \in DOMAIN alloc[p] : alloc[p][k].row = i} = {}
        BY <2>1
    <2>3. QED
        BY <2>2, AmountOfNone DEF OwedBy
<1>13. \A j \in Standalone : jobs'[j].status = jobs[j].status
    <2>1. ASSUME NEW j \in Standalone PROVE jobs'[j] = jobs[j]
        <3>1. j \in Jobs /\ ~\E k \in Lines(p) : JobsOf[p][k] = j
            BY OtherLines DEF Standalone
        <3>2. QED
            BY <1>2, <3>1 DEF ProjectTakes
    <2>2. QED
        BY <2>1
<1>14. rows'[i].reserved - rows[i].reserved = OwedBy(alloc'[p], i) - OwedBy(alloc[p], i)
    BY <1>6, <1>7, <1>10, <1>11, <1>12
<1>15. QED
    BY <1>7, <1>8, <1>10, <1>13, <1>14, ProjectOwes

\* What is issued leaves the allocations and what is reserved together.
LEMMA StartWeldingOwes ==
    ASSUME StockInv, StockInv', NEW i \in DOMAIN rows, NEW j \in Jobs, StartWelding(j)
    PROVE  ~Shorter(i)
<1>1. PICK p : p = ProjectOf(j)
    OBVIOUS
<1>2. PICK take, new : WeldTakes(j, p, take, new)
    BY <1>1, StartWeldingTakes
<1>3. PICK zero : zero = [k \in DOMAIN alloc[p] |-> 0]
    OBVIOUS
<1>4. PICK less : less = Amount(take, OnRow(p, i))
    OBVIOUS
<1>5. /\ p \in Projects
      /\ \A k \in DOMAIN alloc[p] : /\ take[k] \in Nat /\ zero[k] \in Nat /\ take[k] + zero[k] <= Outstanding(alloc[p][k])
                                    /\ take[k] = take[k] + zero[k]
      /\ less \in Nat /\ rows'[i].reserved = rows[i].reserved - less
      /\ Moves(new, alloc[p], take, zero) /\ AllocIs(alloc', p, new) /\ RowsFine(rows') /\ i \in DOMAIN rows'
    BY <1>2, <1>3, <1>4 DEF WeldTakes
<1>6. AllocFine(alloc, Len(rows)) /\ AllocsFine(alloc[p], Len(rows)) /\ RowsFine(rows) /\ JobsFine(jobs)
    BY <1>5 DEF StockInv, AllocFine
<1>7. AllocsFine(new, Len(rows))
    BY <1>5, <1>6, AllocsMove
<1>8. alloc'[p] = new /\ \A o \in Projects \ {p} : alloc'[o] = alloc[o]
    BY <1>5, <1>6, <1>7, AllocWritten
<1>9. OwedBy(alloc[p], i) = OwedBy(new, i) + less
    <2>1. OwedBy(alloc[p], i) = OwedBy(new, i) + Amount(take, {k \in DOMAIN alloc[p] : alloc[p][k].row = i})
        <3>1. \A k \in DOMAIN alloc[p] : /\ take[k] \in Nat /\ zero[k] \in Nat /\ take[k] + zero[k] <= Outstanding(alloc[p][k])
                                          /\ take[k] = take[k] + zero[k]
            BY <1>5
        <3>2. Moves(new, alloc[p], take, zero) /\ AllocsFine(alloc[p], Len(rows))
            BY <1>5, <1>6
        <3>3. QED
            BY <3>1, <3>2, OwedMoves
    <2>2. QED
        BY <1>4, <2>1 DEF OnRow
<1>10. OwedBy(alloc[p], i) \in Nat /\ OwedBy(new, i) \in Nat
    BY <1>6, <1>7, OwedIs
<1>11. rows[i].reserved \in Nat
    BY <1>6, RowSays
<1>12. rows'[i].reserved \in Nat
    <2>1. rows'[i] \in PieceRows
        BY <1>5 DEF RowsFine
    <2>2. QED
        BY <2>1 DEF PieceRows
<1>13. rows'[i].reserved - rows[i].reserved = OwedBy(alloc'[p], i) - OwedBy(alloc[p], i)
    BY <1>5, <1>8, <1>9, <1>10, <1>11
<1>14. UNCHANGED claims /\ \A o \in Standalone : jobs'[o].status = jobs[o].status
    <2>1. UNCHANGED claims /\ j \in OfProject /\ jobs' = [jobs EXCEPT ![j].status = "in_progress", ![j].issued = jobs[j].covered]
        BY DEF StartWelding
    <2>2. \A o \in Standalone : o \in Jobs /\ o # j
        BY <2>1 DEF Standalone
    <2>3. QED
        BY <1>6, <2>1, <2>2 DEF JobsFine
<1>15. QED
    BY <1>5, <1>8, <1>12, <1>13, <1>14, ProjectOwes

\* What a project gives back leaves its allocations and what is reserved together.
LEMMA CancelProjectOwes ==
    ASSUME StockInv, StockInv', NEW i \in DOMAIN rows, NEW p \in Projects, CancelProject(p)
    PROVE  ~Shorter(i)
<1>1. PICK gives, new : CancelGives(p, gives, new)
    BY CancelProjectGives
<1>2. PICK zero : zero = [k \in DOMAIN alloc[p] |-> 0]
    OBVIOUS
<1>3. PICK less : less = Amount(gives, OnRow(p, i))
    OBVIOUS
<1>4. /\ \A k \in DOMAIN alloc[p] : gives[k] \in Nat /\ gives[k] = Outstanding(alloc[p][k])
      /\ less \in Nat /\ rows'[i].reserved = rows[i].reserved - less
      /\ Moves(new, alloc[p], zero, gives) /\ AllocIs(alloc', p, new) /\ RowsFine(rows') /\ i \in DOMAIN rows'
    BY <1>1, <1>2, <1>3 DEF CancelGives
<1>5. \A k \in DOMAIN alloc[p] : /\ zero[k] \in Nat /\ gives[k] \in Nat /\ zero[k] + gives[k] <= Outstanding(alloc[p][k])
                                 /\ gives[k] = zero[k] + gives[k]
    BY <1>2, <1>4
<1>6. AllocFine(alloc, Len(rows)) /\ AllocsFine(alloc[p], Len(rows)) /\ RowsFine(rows)
    BY DEF StockInv, AllocFine
<1>7. AllocsFine(new, Len(rows))
    BY <1>4, <1>5, <1>6, AllocsMove
<1>8. alloc'[p] = new /\ \A o \in Projects \ {p} : alloc'[o] = alloc[o]
    BY <1>4, <1>6, <1>7, AllocWritten
<1>9. OwedBy(alloc[p], i) = OwedBy(new, i) + less
    <2>1. OwedBy(alloc[p], i) = OwedBy(new, i) + Amount(gives, {k \in DOMAIN alloc[p] : alloc[p][k].row = i})
        BY <1>4, <1>5, <1>6, OwedMoves, SMTT(30)
    <2>2. QED
        BY <1>3, <2>1 DEF OnRow
<1>10. OwedBy(alloc[p], i) \in Nat /\ OwedBy(new, i) \in Nat
    BY <1>6, <1>7, OwedIs
<1>11. rows[i].reserved \in Nat
    BY <1>6, RowSays
<1>12. rows'[i].reserved \in Nat
    <2>1. rows'[i] \in PieceRows
        BY <1>4 DEF RowsFine
    <2>2. QED
        BY <2>1 DEF PieceRows
<1>13. rows'[i].reserved - rows[i].reserved = OwedBy(alloc'[p], i) - OwedBy(alloc[p], i)
    BY <1>4, <1>8, <1>9, <1>10, <1>11
<1>14. UNCHANGED claims /\ \A o \in Standalone : jobs'[o].status = jobs[o].status
    <2>1. UNCHANGED claims /\ jobs' = [j \in Jobs |->
                    IF (\E k \in Lines(p) : JobsOf[p][k] = j)
                       /\ jobs[j].status \notin {"draft", "completed", "cancelled"}
                    THEN [jobs[j] EXCEPT !.status = "cancelled"] ELSE jobs[j]]
        BY DEF CancelProject
    <2>2. \A o \in Standalone : o \in Jobs /\ ~\E k \in Lines(p) : JobsOf[p][k] = o
        BY OtherLines DEF Standalone
    <2>3. QED
        BY <2>1, <2>2
<1>15. QED
    BY <1>8, <1>12, <1>13, <1>14, ProjectOwes

-----------------------------------------------------------------------------
\* A row that is written over by hand, or a job that is cancelled.
Overrides(i) ==
    \/ \E q \in 1 .. MaxPieces : StockRelease(i, q) \/ StockAdjustment(i, q)
    \/ \E j \in Jobs : CancelJob(j)

\* An override by hand shortens no row but its own.
LEMMA OtherRowOwes ==
    ASSUME StockInv, StockInv', NEW i \in DOMAIN rows, NEW m \in DOMAIN rows, m # i, NEW q,
           StockRelease(m, q) \/ StockAdjustment(m, q)
    PROVE  ~Shorter(i)
<1>1. UNCHANGED <<jobs, claims, alloc>> /\ \E w : rows' = [rows EXCEPT ![m] = w]
    BY DEF StockRelease, StockAdjustment, Manual
<1>2. rows'[i] = rows[i]
    BY <1>1
<1>3. Alive(jobs') = Alive(jobs)
    BY <1>1 DEF Alive
<1>4. QED
    BY <1>1, <1>2, <1>3, NothingOwed

\* No step but an override shortens a row.
LEMMA OthersShortenNothing ==
    ASSUME StockInv, StockInv', StockNext, NEW i \in DOMAIN rows, ~Overrides(i)
    PROVE  ~Shorter(i)
<1>1. ASSUME NEW j \in Jobs, StartWelding(j) PROVE ~Shorter(i)
    BY <1>1, StartWeldingOwes
<1>2. ASSUME NEW j \in Jobs, StartStandalone(j) \/ CompleteJob(j) PROVE ~Shorter(i)
    BY <1>2, JobGoesOnOwes
<1>3. ASSUME NEW j \in Jobs, NEW cut \in 1 .. MaxPieces, NEW q \in 1 .. MaxPieces, AddSurplus(j, cut, q) PROVE ~Shorter(i)
    BY <1>3, AddSurplusOwes
<1>4. ASSUME NEW x \in Standalone \cup Projects, ListRows(x) PROVE ~Shorter(i)
    <2>1. UNCHANGED <<rows, jobs, claims, alloc>>
        BY <1>4 DEF ListRows
    <2>2. QED
        BY <2>1, StandStillOwes
<1>5. ASSUME NEW j \in Standalone, ReleaseJob(j) PROVE ~Shorter(i)
    BY <1>5, ReleaseJobOwes
<1>6. ASSUME NEW p \in Projects, ReleaseProject(p) PROVE ~Shorter(i)
    BY <1>6, ReleaseProjectOwes
<1>7. ASSUME NEW p \in Projects, ReleaseFails(p) \/ Synchronize(p) PROVE ~Shorter(i)
    <2>1. UNCHANGED <<rows, jobs, claims, alloc>>
        BY <1>7 DEF ReleaseFails, Synchronize
    <2>2. QED
        BY <2>1, StandStillOwes
<1>8. ASSUME NEW p \in Projects, CancelProject(p) PROVE ~Shorter(i)
    BY <1>8, CancelProjectOwes
<1>9. ASSUME NEW m \in DOMAIN rows, NEW q \in 1 .. MaxPieces, StockOut(m, q) PROVE ~Shorter(i)
    BY <1>9, StockOutOwes
<1>10. ASSUME NEW m \in DOMAIN rows, NEW q \in 1 .. MaxPieces, StockReserve(m, q) PROVE ~Shorter(i)
    <2>1. q \in Nat
        BY DetailStockAssumption
    <2>2. QED
        BY <1>10, <2>1, StockReserveOwes
<1>11. ASSUME NEW m \in DOMAIN rows, NEW q \in 1 .. MaxPieces, StockRelease(m, q) \/ StockAdjustment(m, q)
       PROVE  ~Shorter(i)
    <2>1. m # i
        BY <1>11 DEF Overrides
    <2>2. QED
        BY <1>11, <2>1, OtherRowOwes
<1>12. \A j \in Jobs : ~CancelJob(j)
    BY DEF Overrides
<1>13. QED
    BY <1>1, <1>2, <1>3, <1>4, <1>5, <1>6, <1>7, <1>8, <1>9, <1>10, <1>11, <1>12 DEF StockNext, ByHand

\* A row has less reserved than it owes to projects and jobs only by a release or an adjustment that
\* a clerk makes by hand, or by the cancellation of a job: no release of another job or project, no
\* issue and no cancelled project takes what a row holds for somebody (release_for_job is the one
\* that goes by what the row has reserved, for anybody).
THEOREM OverridesAlone == StockSpec => OnlyOverridesShorten
<1>1. StockInit => StockInv
    BY StockStarts
<1>2. StockInv /\ [StockNext]_stockVars => StockInv'
    BY StockKeeps
<1>3. StockInv /\ StockInv' /\ [StockNext]_stockVars =>
        [\A i \in DOMAIN rows : Shortage(i)' > Shortage(i) =>
          \/ \E q \in 1 .. MaxPieces : StockRelease(i, q) \/ StockAdjustment(i, q)
          \/ \E j \in Jobs : CancelJob(j)]_stockVars
    <2> SUFFICES ASSUME StockInv, StockInv', StockNext, NEW i \in DOMAIN rows, ~Overrides(i)
                 PROVE  ~Shorter(i)
        BY DEF Overrides, Shorter
    <2>1. QED
        BY OthersShortenNothing
<1>4. QED
    BY <1>1, <1>2, <1>3, PTL DEF StockSpec, OnlyOverridesShorten
==============================================================================
