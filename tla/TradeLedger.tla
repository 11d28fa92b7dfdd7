---------------------------- MODULE TradeLedger ----------------------------
(***************************************************************************)
(* The trade ledger of the reporter (backtester/src/reporter/trades.py):   *)
(* fills are matched first in, first out into round trips, independently   *)
(* of the average-cost accounting of the portfolio.  derive_trades walks   *)
(* the fills of a finished run; here each fill is booked in the ledger as  *)
(* it is applied to the account, so that the two can be compared at every  *)
(* point at which a run may end.  Settlements and assignments are no       *)
(* fills: the ledger never hears of them.                                  *)
(***************************************************************************)
EXTENDS Portfolio, Sequences

CONSTANT None      \* no entry

ASSUME LedgerAssumption == None \notin {"LONG", "SHORT"}

VARIABLES
    direction,  \* per instrument of open_lots "LONG" or "SHORT", None without an entry
    lots,       \* its open lots, oldest first
    trades,     \* the closed trades
    unmatched   \* history: instruments whose position moved past the ledger

ledgerVars == <<direction, lots, trades, unmatched>>

\* derive_trades and _match_fifo divide the fees of a fill over its units.
FeeShare(fees, qty, n) == (fees * n) \div qty

\* Units lots before the k-th hold, which a closing fill consumes first.
QtyBefore(ls, k) == SumFunctionOnSet([j \in DOMAIN ls |-> ls[j].qty], 1..(k - 1))
LotQty(ls) == QtyBefore(ls, Len(ls) + 1)

\* _match_fifo: the part of the k-th lot that a closing fill of qty takes.
Matched(ls, k, qty) ==
    LET left == qty - QtyBefore(ls, k) IN
    IF left <= 0 THEN 0 ELSE Lesser(ls[k].qty, left)

RoundTrip(i, lot, n, price, fill_fees, fill_qty) ==
    [inst |-> i, side |-> direction[i], qty |-> n, entry |-> lot.price, exit |-> price,
     fees |-> FeeShare(lot.fees, lot.qty, n) + FeeShare(fill_fees, fill_qty, n)]

\* Mutant of LotsLeft: a lot that is not used up keeps its quantity.
LotsLeftWhole(ls, qty) ==
    SubSeq(ls, 1 + Cardinality({k \in DOMAIN ls : Matched(ls, k, qty) = ls[k].qty}), Len(ls))

\* A lot that is not used up keeps its fees whole.
LotsLeft(ls, qty) ==
    LET left == [k \in DOMAIN ls |-> [ls[k] EXCEPT !.qty = @ - Matched(ls, k, qty)]]
        n == Cardinality({k \in DOMAIN ls : left[k].qty = 0})
    IN  SubSeq(left, n + 1, Len(ls))

Closes(i, side) == (direction[i] = "LONG" /\ side = "SELL") \/ (direction[i] = "SHORT" /\ side = "BUY")

BookOpening(i, side, qty, price, fee) ==
    /\ direction[i] = None
    /\ direction' = [direction EXCEPT ![i] = IF side = "BUY" THEN "LONG" ELSE "SHORT"]
    /\ lots' = [lots EXCEPT ![i] = <<[qty |-> qty, price |-> price, fees |-> fee]>>]
    /\ UNCHANGED <<trades, unmatched>>

BookAdding(i, side, qty, price, fee) ==
    /\ direction[i] # None /\ ~Closes(i, side)
    /\ lots' = [lots EXCEPT ![i] = Append(@, [qty |-> qty, price |-> price, fees |-> fee])]
    /\ UNCHANGED <<direction, trades, unmatched>>

\* What a closing fill has beyond the open lots is dropped.
BookClosing(i, side, qty, price, fee) ==
    LET ls == lots[i]
        hit == Cardinality({k \in DOMAIN ls : Matched(ls, k, qty) > 0})
    IN
    /\ Closes(i, side)
    /\ trades' = trades \o [k \in 1..hit |-> RoundTrip(i, ls[k], Matched(ls, k, qty), price, fee, qty)]
    /\ lots' = [lots EXCEPT ![i] = LotsLeft(ls, qty)]
    /\ direction' = [direction EXCEPT ![i] = IF LotsLeft(ls, qty) = <<>> THEN None ELSE @]
    /\ unmatched' = unmatched \cup (IF qty > LotQty(ls) THEN {i} ELSE {})

BookFill(i, side, qty, price, fee) ==
    \/ BookOpening(i, side, qty, price, fee)
    \/ BookAdding(i, side, qty, price, fee)
    \/ BookClosing(i, side, qty, price, fee)

-----------------------------------------------------------------------------
LedgerInit ==
    /\ AccountInit
    /\ direction = [i \in Instruments |-> None]
    /\ lots = [i \in Instruments |-> <<>>]
    /\ trades = <<>>
    /\ unmatched = {}

LedgerFill ==
    /\ feesPaid < MaxFeesPaid
    /\ \E i \in Instruments, side \in Sides, qty \in Quantities, price \in Prices, fee \in Fees :
         /\ Magnitude(positions[i].qty + Signed(side, qty)) <= MaxQty
         /\ ApplyFill(i, side, qty, price, fee)
         /\ BookFill(i, side, qty, price, fee)

LedgerPassedBy ==
    /\ Settle \/ Assign
    /\ unmatched' = unmatched \cup {i \in Instruments : positions'[i] # positions[i]}
    /\ UNCHANGED <<direction, lots, trades>>

-----------------------------------------------------------------------------
(* The PnL of the closed trades of an instrument, and of its open lots at a *)
(* mark (_emit_open_trades).                                                *)
\* Mutant of TradeGain: short trades are treated like long ones.
LongTradeGain(side, entry, exit, n) == (exit - entry) * n
TradeGain(side, entry, exit, n) == (IF side = "LONG" THEN exit - entry ELSE entry - exit) * n
ClosedPnl(i) ==
    SumFunction([k \in DOMAIN trades |-> IF trades[k].inst # i THEN 0 ELSE
                    TradeGain(trades[k].side, trades[k].entry, trades[k].exit, trades[k].qty)
                      * Multiplier[i]])
OpenPnl(i, mark) ==
    SumFunction([k \in DOMAIN lots[i] |->
                    TradeGain(direction[i], lots[i][k].price, mark, lots[i][k].qty) * Multiplier[i]])

(* The two ways of accounting, average cost in the portfolio and FIFO in    *)
(* the ledger, book different PnL on the way but the same over every        *)
(* stretch from flat to flat (accounting.py:74-91, trades.py:188-191).      *)
RoundTripsAgree ==
    \A i \in Instruments \ (unmatched \cup distorted) :
      positions[i].qty = 0 => ClosedPnl(i) = booked[i]
=============================================================================
