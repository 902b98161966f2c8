---------------------------- MODULE MCImmobilizer -----------------------------
(* Immobilizer for TLC: only the bounds are given values.                   *)
EXTENDS Immobilizer
===============================================================================
