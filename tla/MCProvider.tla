----------------------------- MODULE MCProvider -----------------------------
(* Instances of SchwabProvider for TLC. *)
EXTENDS SchwabProvider

TwoSymbols == <<"ESH26", "NQH26">>
=============================================================================
