--------------------------- MODULE MCTradeLedger ---------------------------
(* Instances of Portfolio and TradeLedger for TLC: a share and an option. *)
EXTENDS Report
CONSTANTS share, call
MCMultiplier == [i \in Instruments |-> IF i = call THEN 2 ELSE 1]
=============================================================================
