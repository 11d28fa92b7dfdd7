------------------------------- MODULE Report -------------------------------
(***************************************************************************)
(* What is reported of a run: the equity and allocation points and the     *)
(* marks the engine keeps of each step (backtester/src/engine/engine.py),  *)
(* the figures of the summary (reporter/summary.py) and those the charts   *)
(* derive from the written files (reporter/visualize.py).                  *)
(*                                                                         *)
(* The run may have ended with any step, so a report can be made whenever  *)
(* a step has just been recorded.  Ratios are kept as their numerators;    *)
(* annualised statistics (Sharpe ratio, growth rate) are left out.         *)
(***************************************************************************)
EXTENDS TradeLedger, SequencesExt

CONSTANTS
    MaxEvents,     \* bound: fills and steps of a run, taken together
    MarkPrices     \* bound: prices of marks

ASSUME ReportAssumption == MarkPrices \subseteq Int /\ MaxEvents \in Nat

VARIABLES
    curve,         \* equity_curve
    finalMarks,    \* the marks of the last step
    allocation,    \* the last point of allocation_curve
    fillCount,     \* history: fills so far
    notional,      \* history: what they were worth
    stage          \* of the current step: "filling", "settling" or "recorded"

resultVars == <<curve, finalMarks, allocation, fillCount, notional, stage>>

GoesOn == fillCount + Len(curve) < MaxEvents

-----------------------------------------------------------------------------
(* The steps of a run *)

\* position_values: what is held, at its mark or at cost.
PositionValue(i, marks) ==
    positions[i].qty * (IF marks[i] = NoMark THEN positions[i].avg ELSE marks[i]) * Multiplier[i]

RecordStep ==
    /\ GoesOn \/ stage # "recorded"
    /\ \E marks \in [Instruments -> MarkPrices \cup {NoMark}] :
         /\ MarkToMarket(marks)
         /\ finalMarks' = marks
         /\ allocation' = [i \in Instruments |-> PositionValue(i, marks)]
    /\ curve' = Append(curve, equity')
    /\ stage' = "recorded"
    /\ UNCHANGED <<ledgerVars, fillCount, notional>>

\* _compute_turnover: what the fill of this step is worth
Notional(i) == Magnitude(flow'[i] - flow[i])

ReportFill ==
    /\ GoesOn
    /\ LedgerFill
    /\ fillCount' = fillCount + 1
    /\ notional' = notional + SumFunction([i \in Instruments |-> Notional(i)])
    /\ stage # "settling" /\ stage' = "filling"
    /\ UNCHANGED <<curve, finalMarks, allocation>>

ReportPassedBy ==
    /\ GoesOn
    /\ LedgerPassedBy
    /\ stage' = "settling"
    /\ UNCHANGED <<curve, finalMarks, allocation, fillCount, notional>>

\* The data may end with any step.
RunEnds == stage = "recorded" /\ UNCHANGED <<accountVars, ledgerVars, resultVars>>

ReportInit ==
    /\ LedgerInit
    /\ curve = <<>> /\ stage = "filling" /\ fillCount = 0 /\ notional = 0
    /\ finalMarks = [i \in Instruments |-> NoMark]
    /\ allocation = [i \in Instruments |-> 0]

ReportNext == ReportFill \/ ReportPassedBy \/ RecordStep \/ RunEnds

ReportSpec == ReportInit /\ [][ReportNext]_<<accountVars, ledgerVars, resultVars>>

-----------------------------------------------------------------------------
(* compute_summary *)

PnlOf(k) == TradeGain(trades[k].side, trades[k].entry, trades[k].exit, trades[k].qty)
              * Multiplier[trades[k].inst]
Winners == {k \in DOMAIN trades : PnlOf(k) > 0}
Losers == {k \in DOMAIN trades : PnlOf(k) <= 0}
WinSum == SumFunction([k \in Winners |-> PnlOf(k)])
LossSum == SumFunction([k \in Losers |-> PnlOf(k)])

\* _emit_open_trades: lots of instruments the last step had a mark for.
EmittedOpen(i) == finalMarks[i] # NoMark /\ lots[i] # <<>>

NetExposure == SumFunction(allocation)
GrossExposure == SumFunction([i \in Instruments |-> Magnitude(allocation[i])])

\* _compute_max_drawdown: one pass with the highest point so far.
\* Mutant of Follow: the peak is that of the first point.
FollowFirst(acc, point) ==
    [acc EXCEPT !.drawdown = IF acc.peak - point > @ THEN acc.peak - point ELSE @]
Follow(acc, point) ==
    LET peak == IF point > acc.peak THEN point ELSE acc.peak
        fall == peak - point
    IN  [peak |-> peak, drawdown |-> IF fall > acc.drawdown THEN fall ELSE acc.drawdown]

MaxDrawdown ==
    IF Len(curve) < 2 THEN 0
    ELSE FoldLeft(Follow, [peak |-> Head(curve), drawdown |-> 0], curve).drawdown

Summary ==
    [final_equity |-> IF curve = <<>> THEN InitialCash ELSE Last(curve),
     realized_pnl |-> WinSum + LossSum,
     num_trades |-> Len(trades),
     num_winning |-> Cardinality(Winners),
     num_losing |-> Cardinality(Losers),
     num_open_positions |-> SumFunction([i \in Instruments |->
                               IF EmittedOpen(i) THEN Len(lots[i]) ELSE 0]),
     total_fees |-> feesPaid,
     max_drawdown |-> MaxDrawdown,
     turnover |-> notional,
     net_exposure |-> NetExposure,
     gross_exposure |-> GrossExposure]

-----------------------------------------------------------------------------
(* The charts, from what was written *)

\* _compute_drawdown: each point against the highest up to it.
DrawdownSeries ==
    [n \in DOMAIN curve |-> curve[n] - Max({curve[k] : k \in 1..n})]

\* The table "P&L by Symbol" sums the rows of trades.csv, the open ones too.
PnlBySymbol(i) == ClosedPnl(i) + (IF EmittedOpen(i) THEN OpenPnl(i, finalMarks[i]) ELSE 0)

-----------------------------------------------------------------------------
(* Properties *)

\* What the units of a trade were worth at its entry and exit, and those of the
\* open lots of an instrument at theirs.
TurnedOver(k) == (trades[k].entry + trades[k].exit) * trades[k].qty * Multiplier[trades[k].inst]
OpenedAt(i) == SumFunction([k \in DOMAIN lots[i] |-> lots[i][k].price * lots[i][k].qty * Multiplier[i]])

Complete == \A i \in Instruments : lots[i] # <<>> => EmittedOpen(i)

(* What a report says of one run adds up, although its figures come from   *)
(* three accounts of it.  What was made is what the trades made, the open  *)
(* ones at the final marks, less the fees, as long as the ledger followed  *)
(* every unit and each open position has a mark (trades.py:75-204 against  *)
(* accounting.py:12-136); each unit of a trade turned over at its entry    *)
(* and at its exit; and the exposure is the equity that is not cash        *)
(* (engine.py:478-484, summary.py:120-191 and 322-336).                    *)
ReportAddsUp ==
    stage = "recorded" =>
      /\ unmatched = {} /\ Complete =>
           Summary.final_equity - InitialCash =
             SumFunction([i \in Instruments |-> PnlBySymbol(i)]) - Summary.total_fees
      /\ unmatched = {} =>
           Summary.turnover =
             SumFunction([k \in DOMAIN trades |-> TurnedOver(k)])
               + SumFunction([i \in Instruments |-> OpenedAt(i)])
      /\ Summary.net_exposure = Summary.final_equity - cash

(* The summary's drawdown, found in one pass, is the deepest point of the  *)
(* chart's, and both are the largest fall from any point to a later one    *)
(* (summary.py:339-360, visualize.py:78-91).                               *)
DrawdownsAgree ==
    stage = "recorded" /\ Len(curve) >= 2 =>
      LET falls == UNION {{curve[k] - curve[n] : k \in 1..n} : n \in DOMAIN curve}
      IN  /\ Summary.max_drawdown = Max(falls)
          /\ Summary.max_drawdown = -Min({DrawdownSeries[n] : n \in DOMAIN curve})
=============================================================================
