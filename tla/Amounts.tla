------------------------------ MODULE Amounts --------------------------------
(***************************************************************************)
(* Sums over finite sets, as what they count: the pieces that f gives each *)
(* member of S, one by one, and how many they are.  A sum so defined is a  *)
(* cardinality, about which more can be proved than about a fold.          *)
(***************************************************************************)
EXTENDS Integers, FiniteSets

Pieces(f, S) == UNION {{i} \X (1 .. f[i]) : i \in S}
Amount(f, S) == Cardinality(Pieces(f, S))
===============================================================================
