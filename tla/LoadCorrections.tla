-------------------------- MODULE LoadCorrections --------------------------
(***************************************************************************)
(* The corrections of a load (services/load_corrections.py): unload,       *)
(* return to the warehouse, reload, transfer to another trip, replace by   *)
(* an equivalent package.  With the commands of ShipmentExecution they are *)
(* all that happens to trips and cargo, so the specification is here.      *)
(*                                                                         *)
(* hold: the reason given is damaged_before_dispatch.                      *)
(***************************************************************************)
EXTENDS ShipmentExecution

\* Each correction of a row that is not loaded, or not unloaded, is refused.
IsLoaded(t, p) == item[t][p].status = "loaded"
OtherClaim(t, p) == \E u \in Trips \ {t} : p \in Active(u)

\* Mutant: the inventory forgotten.
MoveUnstocked(p, place, stock) ==
    /\ placement' = [placement EXCEPT ![p] = place]
    /\ UNCHANGED inventory

Move(p, place, stock) ==
    /\ placement' = [placement EXCEPT ![p] = place]
    /\ inventory' = [inventory EXCEPT ![p] = stock]

\* Mutant: whatever still waits.
LoadedAfter(t) == "loaded"

\* reload and replace: loaded again once nothing of the trip waits to be loaded.
StatusAfter(t) ==
    IF \A p \in Packages : item'[t][p].status # "assigned" THEN "loaded" ELSE "loading"

\* Mutant: the status of the trip is not checked.
UnloadAnyTime(t, p, hold) ==
    LET s == IF hold THEN "hold" ELSE "unloaded" IN
    /\ status[t] # "none"
    /\ status' = [status EXCEPT ![t] = "loading"]
    /\ IsLoaded(t, p) /\ Fits(t, Active(t) \ {p})
    /\ SetItem(t, p, s) /\ Move(p, s, s)
    /\ plan' = [plan EXCEPT ![t] = @ \ {p}]
    /\ UNCHANGED <<vehicle, driver, vehicleState, resumed, evidence, ledger>>

UnloadPackage(t, p, hold) ==
    LET s == IF hold THEN "hold" ELSE "unloaded" IN
    /\ L!CorrectLoading(t, "loading")
    /\ IsLoaded(t, p) /\ Fits(t, Active(t) \ {p})
    /\ SetItem(t, p, s) /\ Move(p, s, s)
    /\ plan' = [plan EXCEPT ![t] = @ \ {p}]
    /\ UNCHANGED <<evidence, ledger>>

\* A package on hold stays on hold; no other claim of the package is looked at.
ReturnToWarehouse(t, p, hold) ==
    LET held == hold \/ item[t][p].status = "hold" IN
    /\ L!CorrectLoading(t, status[t])
    /\ item[t][p].status \in {"unloaded", "hold"} /\ Fits(t, Active(t))
    /\ SetItem(t, p, IF held THEN "hold" ELSE "returned")
    /\ Move(p, IF held THEN "hold" ELSE "placed", IF held THEN "hold" ELSE "in_stock")
    /\ UNCHANGED <<plan, evidence, ledger>>

\* The session does not autoflush: the capacity and the rebuilt plan are those of
\* the cargo without the package that comes back.
ReloadPackage(t, p) ==
    /\ status[t] = "loading"
    /\ item[t][p].status \in {"unloaded", "returned"} /\ ~OtherClaim(t, p)
    /\ Fits(t, Active(t))
    /\ SetItem(t, p, "loaded") /\ Move(p, "loaded", "loaded")
    /\ L!CorrectLoading(t, StatusAfter(t))
    /\ plan' = [plan EXCEPT ![t] = Active(t)]
    /\ UNCHANGED <<evidence, ledger>>

TransferPackage(t, u, p) ==
    /\ L!CorrectLoading(t, "loading")
    /\ u # t /\ status[u] \in {"planned", "loading"}
    /\ IsLoaded(t, p) /\ ~OtherClaim(t, p) /\ item[u][p].status = "none"
    /\ Fits(t, Active(t) \ {p}) /\ Fits(u, Active(u) \cup {p})
    /\ item' = [item EXCEPT ![t][p].status = "transferred", ![u][p].status = "assigned"]
    /\ Move(p, "assigned", "in_stock")
    /\ plan' = [plan EXCEPT ![t] = @ \ {p}]
    /\ UNCHANGED <<evidence, ledger>>

ReplacePackage(t, p, q, hold) ==
    LET cargoAfter == (Active(t) \ {p}) \cup {q} IN
    /\ IsLoaded(t, p)
    /\ Assignable(t, q) /\ LineOf[q] = LineOf[p]
    /\ Fits(t, cargoAfter)
    /\ item' = [item EXCEPT ![t][p].status = "replaced", ![t][q].status = "loaded"]
    /\ L!CorrectLoading(t, StatusAfter(t))
    /\ placement' = [placement EXCEPT ![p] = IF hold THEN "hold" ELSE "placed", ![q] = "loaded"]
    /\ inventory' = [inventory EXCEPT ![p] = IF hold THEN "hold" ELSE "in_stock", ![q] = "loaded"]
    /\ plan' = [plan EXCEPT ![t] = cargoAfter]
    /\ UNCHANGED <<evidence, ledger>>

Correction(t) ==
    \/ \E p \in Packages, hold \in BOOLEAN : UnloadPackage(t, p, hold) \/ ReturnToWarehouse(t, p, hold)
    \/ \E p \in Packages : ReloadPackage(t, p)
    \/ \E u \in Trips, p \in Packages : TransferPackage(t, u, p)
    \/ \E p, q \in Packages, hold \in BOOLEAN : ReplacePackage(t, p, q, hold)

-----------------------------------------------------------------------------
Next == (\E t \in Trips : Execution(t) \/ Correction(t)) \/ Fleet

Spec == Init /\ [][Next]_vars

-----------------------------------------------------------------------------
TypeOK ==
    /\ L!TypeOK
    /\ item \in [Trips -> [Packages -> Item]]
    /\ placement \in [Packages -> Places] /\ inventory \in [Packages -> Stocks]
    /\ plan \in [Trips -> SUBSET Packages] /\ evidence \in [Trips -> SUBSET Stages]
    /\ ledger \in [Lines -> [Kinds -> Nat]]

\* A trip that is loaded, or has departed, has no package still to be loaded,
\* whatever was assigned, transferred to it, replaced or reloaded meanwhile.
LoadedTripFullyLoaded ==
    \A t \in Trips : status[t] \in {"loaded"} \cup L!Departed =>
        \A p \in Packages : item[t][p].status # "assigned"

\* The loading plan names only cargo of its trip, once that cargo moves about.
PlanOnActive == \A t \in Trips : plan[t] \subseteq Active(t)

\* What is planned is on the trip, and what is on a loaded trip is in it.
CargoAsPlanned == LoadedTripFullyLoaded /\ PlanOnActive

\* Where the trips say a package is, and where the warehouse says it is.
Holders(p) == {t \in Trips : item[t][p].status \in {"assigned", "loaded", "unloaded", "hold"}}
StockFor(row, s) ==
    IF row.status # "loaded" THEN {IF row.status = "assigned" THEN "in_stock" ELSE row.status}
    ELSE IF s \in {"loading", "loaded"} THEN {"loaded"}
    ELSE IF s \in L!Departed THEN {IF row.delivered > 0 THEN "delivered" ELSE "dispatched"}
    ELSE {"loaded", "dispatched", "delivered"}
StockOf(t, p) == StockFor(item[t][p], status[t])
Agreed(p) ==
    \/ /\ Holders(p) = {}
       /\ <<placement[p], inventory[p]>> \in {<<"placed", "in_stock">>, <<"hold", "hold">>}
    \/ \E t \in Trips :
         /\ Holders(p) = {t}
         /\ placement[p] = item[t][p].status /\ inventory[p] \in StockOf(t, p)

\* A step that reloads a package of the trip, and one that reloads this returned package.
Reloads(t) ==
    \E p \in Packages : item[t][p].status \in {"unloaded", "returned"} /\ item'[t][p].status = "loaded"
ReloadsReturned(p) ==
    \E t \in Trips : item[t][p].status = "returned" /\ item'[t][p].status = "loaded"
Planned(t) == Active(t) \subseteq plan[t]

\* A package is held by one trip at most, and the placement and the inventory agree
\* with it; and "every assigned shipment item must be placed" in the plan of a trip
\* that is loaded.  Of all commands the reload alone breaks them: that of a package
\* which has been returned the first, and any reload the second, for it rebuilds the
\* plan before it flushes the package.
OnlyReloadDiverges ==
    [][/\ \A p \in Packages : Agreed(p) /\ ~ReloadsReturned(p) => Agreed(p)'
       /\ \A t \in Trips :
            status'[t] = "loaded" /\ (status[t] = "loaded" => Planned(t)) /\ ~Reloads(t) => Planned(t)']_vars

\* "Dispatched cargo requires the controlled logistics-exception workflow": no
\* command changes what a departed trip carries, nor its plan.
DepartedCargoFrozen ==
    [][\A t \in Trips : status[t] \in L!Departed =>
         /\ plan'[t] = plan[t]
         /\ \A p \in Packages : item'[t][p].status = item[t][p].status]_vars

\* The evidence for production never counts fewer deliveries than the items do, nor
\* fewer deliveries than acceptances, though a delivery may be recorded again.
LedgerCoversDelivery ==
    \A l \in Lines :
        /\ SumOver(OfLine(l), LAMBDA p : SumOver(Claims(p), LAMBDA t : item[t][p].delivered))
             <= ledger[l]["delivered"]
        /\ ledger[l]["accepted"] <= ledger[l]["delivered"]

\* Where evidence is required, a trip is loaded and dispatched only with the
\* evidence of that stage, also when a correction makes it loaded again.
EvidenceBeforeStage ==
    \A t \in EvidenceRequired :
        /\ status[t] \in {"loaded"} \cup L!Departed => "loading" \in evidence[t]
        /\ status[t] \in L!Departed => "dispatch" \in evidence[t]

\* Where completeness is required, a trip on its way carries its lines whole, less
\* what accepted trips brought: no later correction or delivery undoes that.
LinesLeaveWhole ==
    \A t \in CompletenessRequired : status[t] \in L!Departed => LinesWhole(t)

\* What the orders are told of their lines is what the trips carry and brought.
LinesAccounted == LedgerCoversDelivery /\ LinesLeaveWhole
=============================================================================
