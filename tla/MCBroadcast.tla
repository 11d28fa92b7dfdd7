---------------------------- MODULE MCBroadcast ----------------------------
(* An instance of Broadcast for TLC: both tasks and two connections. *)
EXTENDS Broadcast
CONSTANTS a, b
MCTasks == {"quotes", "bars"}
QuoteOrBar == [t \in Tasks |-> IF t = "quotes" THEN 1 ELSE 2]
TwoOfEach == [t \in Tasks |-> 2]
=============================================================================
