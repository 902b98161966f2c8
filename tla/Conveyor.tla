------------------------------- MODULE Conveyor -------------------------------
(***************************************************************************)
(* What the stations of a production job promise about the pieces of each  *)
(* of its details: pieces pass the stations one after another, a station   *)
(* never passes on more pieces than the one before it has passed to it,    *)
(* and a piece that was passed on is never taken off the record.           *)
(***************************************************************************)
EXTENDS Naturals

CONSTANTS
    Lines,    \* details of the job
    Stations, \* the number of stations
    Batch     \* the most pieces that are passed on at once

VARIABLE
    through   \* per detail and station: the pieces passed on so far

InOrder(counts) == \A i \in 1 .. Stations - 1 : counts[i + 1] <= counts[i]

Init ==
    /\ through \in [Lines -> [1 .. Stations -> Nat]]
    /\ \A l \in Lines : InOrder(through[l])

\* Station i passes n more pieces of detail l on.
PassOn(l, i, n) ==
    /\ through' = [through EXCEPT ![l][i] = @ + n]
    /\ InOrder(through'[l])

Next == \E l \in Lines, i \in 1 .. Stations, n \in 1 .. Batch : PassOn(l, i, n)

Spec == Init /\ [][Next]_through
===============================================================================
