------------------------------ MODULE OrderFlow ------------------------------
(***************************************************************************)
(* What the backtest engine promises about an order, whatever the market,  *)
(* the fill model and the strategy do: an order is worked within one bar   *)
(* only, it is filled at most once, and an order held back for the next    *)
(* bar's open gets that one chance.  Backtest implements this module.      *)
(***************************************************************************)
CONSTANT OrderIds

VARIABLES
    queue,    \* held back until the next bar opens
    live,     \* being worked against the current bar
    filled,   \* have a fill
    lapsed    \* were worked and got none

flowVars == <<queue, live, filled, lapsed>>
Seen == queue \cup live \cup filled \cup lapsed

FlowInit == queue = {} /\ live = {} /\ filled = {} /\ lapsed = {}

(* A bar opens on what was held back for it. *)
OpenBar ==
    /\ live = {}
    /\ live' = queue /\ queue' = {}
    /\ UNCHANGED <<filled, lapsed>>

(* The strategy emits orders: some to be worked at once, some at the next open. *)
Submit ==
    /\ queue = {} /\ live = {}
    /\ live' \in SUBSET (OrderIds \ Seen)
    /\ queue' \in SUBSET (OrderIds \ (Seen \cup live'))
    /\ UNCHANGED <<filled, lapsed>>

Execute(o) ==
    /\ o \in live
    /\ live' = live \ {o} /\ filled' = filled \cup {o}
    /\ UNCHANGED <<queue, lapsed>>

Lapse(o) ==
    /\ o \in live
    /\ live' = live \ {o} /\ lapsed' = lapsed \cup {o}
    /\ UNCHANGED <<queue, filled>>

(* The broker's own exit of a trailing stop: born with its fill. *)
StopExit(o) ==
    /\ o \notin Seen
    /\ filled' = filled \cup {o}
    /\ UNCHANGED <<queue, live, lapsed>>

FlowNext ==
    \/ OpenBar
    \/ Submit
    \/ \E o \in OrderIds : Execute(o) \/ Lapse(o) \/ StopExit(o)

FlowSpec == FlowInit /\ [][FlowNext]_flowVars

-----------------------------------------------------------------------------
(* An order is in one place at a time: never both filled and lapsed, never  *)
(* filled and still being worked (a second fill would be possible).         *)
OnePlace ==
    /\ queue \cap (live \cup filled \cup lapsed) = {}
    /\ live \cap (filled \cup lapsed) = {}
    /\ filled \cap lapsed = {}

(* The outcome of an order is final. *)
OutcomesFinal == [][filled \subseteq filled' /\ lapsed \subseteq lapsed']_flowVars
=============================================================================
