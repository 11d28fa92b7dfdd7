---------------------------- MODULE StrategyLoop ----------------------------
(***************************************************************************)
(* The simulation loop of Backtest with the strategies the repository has  *)
(* (strategizer/src/strategizer/strategies), run in-process through the    *)
(* adapter (backtester/src/strategies/strategizer_adapter.py).  A run has  *)
(* one strategy; "any" is Backtest's own, which may ask for anything.      *)
(*                                                                         *)
(* The adapter turns a signal into an order and drops its stop price and   *)
(* targets: what protects a position is the trailing stop, if there is one. *)
(***************************************************************************)
EXTENDS Backtest, SequencesExt

CONSTANTS
    StrategyNames,     \* the strategies a run may have
    MaPeriod,          \* ma_period, sma_period
    TrailingStopTicks,
    Qty,               \* qty of an entry of fixed size
    Direction,         \* "BUY" for LONG, "SELL" for SHORT
    RiskPart,          \* 1 / risk_pct
    MaxContracts,      \* max_qty
    Month,             \* of each timestamp
    SharesPerContract,
    DteTarget, DteSlack,   \* days to expiry wanted, and the 15 days either way
    Contract,          \* params.contract_id, None without
    StrikeRule,        \* "atm", or "expiry" for any other
    Band,              \* two standard deviations, by the spot and the days to expiry
    DayOf, TimeOfDay, SessionStart, SessionEnd, OrBars, MinRangeTicks, MaxRangeTicks,
    AnySteps           \* bound: steps in which "any" asks for orders

ASSUME StrategyAssumption ==
    /\ {MaPeriod, Qty, RiskPart, MaxContracts, OrBars} \subseteq Nat \ {0}
    /\ {TrailingStopTicks, SharesPerContract, DteTarget, DteSlack, AnySteps} \subseteq Nat
    /\ Direction \in Sides
    /\ Contract \in Options \cup {None} /\ StrikeRule \in {"atm", "expiry"}
    /\ StrategyNames \subseteq {"any", "trend_entry_trailing_stop", "trend_follow_risk_sized",
                               "tactical_asset_allocation", "covered_call", "buy_and_hold",
                               "buy_and_hold_underlying", "orb_5m"}
    /\ NoBar \notin Bar
    /\ MaxOrders >= 2 /\ MaxOrders >= Cardinality(Universe)  \* no strategy asks for more
    \* What this strategy buys, it divides its cash by the price of.
    /\ "trend_follow_risk_sized" \in StrategyNames => \A shape \in BarShapes : shape.close > 0

VARIABLES
    strategy,   \* config.strategy_name
    history,    \* per symbol the bars of the run, of which a strategy gets the latest
    asked       \* history: the breakouts signalled

strategyVars == <<strategy, history, asked>>

OpeningRange == INSTANCE OpeningRange WITH Tick <- TickSize

Entry(i, side, qty) ==
    [inst |-> i, side |-> side, qty |-> qty, type |-> "market", limit |-> None, trail |-> None]

-----------------------------------------------------------------------------
(* What the adapter hands to a strategy *)

HasHistory == InstrumentType = "future" \/ MultiSymbol

\* The rows from ts on, of rows in the order of their time.
Since(rows, ts) ==
    SubSeq(rows, 1 + Max({0} \cup {k \in DOMAIN rows : rows[k].ts < ts}), Len(rows))

\* The rows of the last Lookback units of time, and of these the last Lookback.
Window(sym) ==
    LET recent == Since(history[sym], now - Lookback) IN
    IF HasHistory THEN SubSeq(recent, Max({1, Len(recent) - Lookback + 1}), Len(recent))
    ELSE IF bars[sym] = NoBar THEN <<>> ELSE <<bars[sym]>>

Latest(sym) == Last(Window(sym))
Earlier(sym) == Window(sym)[Len(Window(sym)) - 1]

CloseSum(sym) ==
    LET w == Window(sym) IN MapThenSumSet(LAMBDA k : w[k].close, (Len(w) - MaPeriod + 1)..Len(w))

-----------------------------------------------------------------------------
(* trend_entry_trailing_stop and trend_follow_risk_sized *)

\* The bar, itself part of the average, has crossed it as a whole.
Crosses ==
    /\ Len(Window(Symbol)) > MaPeriod
    /\ LET sum == CloseSum(Symbol) IN
       IF Direction = "BUY"
       THEN MaPeriod * Earlier(Symbol).low < sum /\ sum <= MaPeriod * Latest(Symbol).low
       ELSE MaPeriod * Earlier(Symbol).high > sum /\ sum >= MaPeriod * Latest(Symbol).high

TrendOrder(qty) == {[Entry(Symbol, Direction, qty) EXCEPT !.trail = TrailingStopTicks]}

TrendEntry == IF Crosses THEN TrendOrder(Qty) ELSE {}

\* Risk budget over the loss at the stop, then what the cash buys at the close.
ValueOf(price) == price * (IF InstrumentType = "future" THEN Multiplier[Symbol] ELSE 1)
RiskSized ==
    LET loss == ValueOf(TrailingStopTicks * TickOf(Symbol))
        wanted == IF loss = 0 THEN 1 ELSE equity \div (RiskPart * loss)
    IN  Max({1, Lesser(wanted, MaxContracts)})
Affordable(qty) ==
    LET cost == ValueOf(Latest(Symbol).close) IN
    IF cash < qty * cost THEN cash \div cost ELSE qty

\* Mutant of MayEnter: a position held is no obstacle.
MayAlwaysEnter == TRUE
MayEnter == positions[Symbol].qty = 0

TrendFollow ==
    IF Crosses /\ MayEnter /\ Affordable(RiskSized) > 0
    THEN TrendOrder(Affordable(RiskSized)) ELSE {}

-----------------------------------------------------------------------------
(* tactical_asset_allocation *)

NewMonth ==
    Len(Window(FirstSymbol)) >= 2 /\ Month[Latest(FirstSymbol).ts] # Month[Earlier(FirstSymbol).ts]

Active ==
    {i \in Universe : Len(Window(i)) >= MaPeriod /\ MaPeriod * Latest(i).close > CloseSum(i)}

TargetQty(i) == Max({0, equity \div (Cardinality(Active) * Latest(i).close)})

\* Mutant of Rebalancing: what is active is not left out of the second loop, which
\* sells what is not.
SellingTwice(i) ==
    LET held == positions[i].qty
        delta == (IF i \in Active THEN TargetQty(i) ELSE 0) - held
    IN  CASE i \in Active /\ delta > 0 -> {Entry(i, "BUY", delta)}
          [] held > 0 /\ delta < 0 -> {Entry(i, "SELL", -delta), Entry(i, "SELL", held)}
          [] OTHER -> {}

Rebalancing(i) ==
    LET held == positions[i].qty
        delta == (IF i \in Active THEN TargetQty(i) ELSE 0) - held
    IN  CASE i \in Active /\ delta > 0 -> {Entry(i, "BUY", delta)}
          [] held > 0 /\ delta < 0 -> {Entry(i, "SELL", Lesser(-delta, held))}
          [] OTHER -> {}

\* What is active at no positive price is passed over.
Allocated == {i \in Universe : i \in Active => Latest(i).close > 0}
Allocate == IF NewMonth THEN UNION {Rebalancing(i) : i \in Allocated} ELSE {}

-----------------------------------------------------------------------------
(* covered_call, buy_and_hold, buy_and_hold_underlying *)

ShortOptions == {opt \in Options : positions[opt].qty < 0}

\* get_option_chain_filtered: what has yet to expire, with strikes about the spot.
Around(spot, ts) ==
    {opt \in Options : Expiry[opt] > ts
                       /\ Magnitude(Strike[opt] - spot) <= Band[spot, Expiry[opt] - ts]}

\* option_fetch_spec: the options whose quotes are asked for, and those held.
Requested(bar, ts) ==
    {opt \in Options : Held(opt)} \cup
    CASE strategy = "buy_and_hold" /\ Contract # None -> {Contract}
      [] strategy = "covered_call" /\ ShortOptions # {} -> ShortOptions
      [] strategy = "covered_call" /\ ShortOptions = {} /\ bar # NoBar -> Around(bar.close, ts)
      [] OTHER -> Options

\* The calls that expire about when wanted, of the chain that is handed over:
\* of all that was asked for, with a quote or without.
Candidates ==
    {opt \in Options :
       /\ opt \in Requested(bars[Symbol], now) /\ Right[opt] = "C"
       /\ Expiry[opt] - now \in Max({1, DteTarget - DteSlack})..(DteTarget + DteSlack)}

NoWorse(opt, other, spot) ==
    IF StrikeRule = "atm" THEN Magnitude(Strike[opt] - spot) <= Magnitude(Strike[other] - spot)
    ELSE Expiry[opt] <= Expiry[other]

\* _pick_next_call: the order of the chain, that of a set, decides between equals.
NextCalls ==
    IF Window(Symbol) = <<>> \/ Latest(Symbol).close <= 0 THEN {}
    ELSE {opt \in Candidates :
            \A other \in Candidates : NoWorse(opt, other, Latest(Symbol).close)}

\* Mutant of EnoughShares: the shares that are missing are not waited for.
EnoughSharesSoon == TRUE
EnoughShares == positions[Symbol].qty >= SharesPerContract

SellCall(calls) ==
    IF calls # {} THEN {{Entry(opt, "SELL", 1)} : opt \in calls}
    ELSE {IF Contract = None THEN {} ELSE {Entry(Contract, "SELL", 1)}}

CoveredCall ==
    IF ~EnoughShares THEN {{Entry(Symbol, "BUY", SharesPerContract - positions[Symbol].qty)}}
    ELSE IF ShortOptions # {} THEN {{}}
    ELSE SellCall(NextCalls)

OnFirstStep(i) == IF now = 1 /\ i # None THEN {Entry(i, "BUY", Qty)} ELSE {}

-----------------------------------------------------------------------------
(* orb_5m *)

Breakouts == OpeningRange!Breakouts(Window(Symbol))
BreakoutOrders ==
    {[Entry(Symbol, b.side, Qty) EXCEPT !.type = "stop", !.limit = b.entry] : b \in Breakouts}

-----------------------------------------------------------------------------
(* The orders a strategy may return.  Their order in the list is of no       *)
(* consequence: a batch is validated as a whole.                             *)
Signals ==
    CASE strategy = "trend_entry_trailing_stop" -> {TrendEntry}
      [] strategy = "trend_follow_risk_sized" -> {TrendFollow}
      [] strategy = "tactical_asset_allocation" -> {Allocate}
      [] strategy = "covered_call" -> CoveredCall
      [] strategy = "buy_and_hold" -> {OnFirstStep(Contract)}
      [] strategy = "buy_and_hold_underlying" -> {OnFirstStep(Symbol)}
      [] strategy = "orb_5m" -> {BreakoutOrders}

LooksBack == strategy \notin {"any", "covered_call", "buy_and_hold", "buy_and_hold_underlying"}

StrategyInit ==
    /\ Init
    /\ strategy \in StrategyNames
    /\ history = [sym \in Universe |-> <<>>]
    /\ asked = {}

\* Bars no strategy will get any more are forgotten here.
StrategySnapshot ==
    /\ BuildSnapshot
    /\ \A opt \in Options \ Requested(bars'[Symbol], now') : quotes'[opt] = NoQuote
    /\ history' = [sym \in Universe |->
         IF ~LooksBack \/ bars'[sym] = NoBar \/ bars'[sym].ts # now' THEN history[sym]
         ELSE Since(Append(history[sym], bars'[sym]), now' - Lookback)]
    /\ UNCHANGED <<strategy, asked>>

StrategyStep ==
    /\ phase = "open" /\ batch = <<>> /\ strategy # "any"
    /\ \E shapes \in Signals :
         LET worked == {o \in shapes : WorkedNow(o)} IN
         /\ batch' = Issue(SetToSeq(worked), 0)
         /\ pending' = Issue(SetToSeq(shapes \ worked), Cardinality(worked))
    /\ asked' = IF strategy # "orb_5m" THEN asked
                ELSE asked \cup {[ts |-> now, day |-> DayOf[now], side |-> b.side] : b \in Breakouts}
    /\ batchCash' = cash
    /\ phase' = "step"
    /\ UNCHANGED <<accountVars, now, bars, quotes, stops, visited, expired, resultVars,
                   strategy, history>>

AnyStep ==
    /\ strategy = "any"
    /\ OnStep
    /\ now <= AnySteps \/ (batch' = <<>> /\ pending' = <<>>)
    /\ UNCHANGED strategyVars

Elsewhere ==
    \/ FillOrder \/ RejectOrder \/ EvaluateStop
    \/ MarkStep \/ SettleExpired \/ EndStep \/ Finish

StrategyLoopStep ==
    \/ StrategySnapshot
    \/ StrategyStep
    \/ AnyStep
    \/ Elsewhere /\ UNCHANGED strategyVars

StrategyNext == StrategyLoopStep \/ (Returned /\ UNCHANGED strategyVars)

StrategySpec ==
    StrategyInit /\ [][StrategyNext]_<<vars, strategyVars>> /\ WF_<<vars, strategyVars>>(StrategyLoopStep)

-----------------------------------------------------------------------------
(* "No re-entry when already positioned" (trend_follow_risk_sized.py:4): its *)
(* position is opened by one order and closed by the trailing stop, although *)
(* the order it asks for is filled a bar later, in another step.            *)
NeverAddsToPosition ==
    [][ strategy = "trend_follow_risk_sized" /\ positions[Symbol].qty # 0 =>
          positions'[Symbol] \in {positions[Symbol], Flat} ]_vars

(* "No negative holdings are created during rebalance-down or exit-to-cash  *)
(* flows" (plans/263_tactical_asset_allocation.md:214): what it asks to     *)
(* sell it still holds a bar later, when the order is filled.               *)
LongOnly ==
    strategy = "tactical_asset_allocation" => \A i \in Instruments : positions[i].qty >= 0

(* A covered call stays covered: the shares that have to be delivered are   *)
(* there, through expiry, assignment and the call sold next                 *)
(* (covered_call.py:82-87).                                                 *)
CallsCovered ==
    strategy = "covered_call" =>
      \A opt \in Options : positions[Symbol].qty >= -positions[opt].qty * SharesPerContract

(* What orb_5m has signalled it finds again in the bars it is given         *)
(* (orb_5m.py:119-132), although it remembers nothing: within a session it  *)
(* repeats a signal only once its window, of fewer bars than a session has  *)
(* (:56), no longer reaches back to the session's start.                    *)
InSight(ts) ==
    \A t \in 1..(ts - Lookback) : DayOf[t] = DayOf[ts] => ~(TimeOfDay[t] > SessionStart)
NoRepeatInSight ==
    \A a, b \in asked :
      a.day = b.day /\ a.side = b.side /\ a.ts < b.ts => ~InSight(b.ts)

(* What the plan says of it: "Once per direction per session (no repeat     *)
(* signals)" (plans/030_orb_in_strategizer.md:50).                          *)
OncePerDirection ==
    \A a, b \in asked : a.day = b.day /\ a.side = b.side => a = b

(* Nothing but the second they are asked for, the instrument and the side    *)
(* tells a strategy's orders apart (strategizer_adapter.py:72), and the      *)
(* reports look orders up by that.                                          *)
IdsTellOrdersApart ==
    strategy # "any" =>
      LET orders == batch \o pending IN
      \A j, k \in DOMAIN orders :
        orders[j].inst = orders[k].inst /\ orders[j].side = orders[k].side
          /\ orders[j].id.ts = orders[k].id.ts => j = k
=============================================================================
