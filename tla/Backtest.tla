------------------------------ MODULE Backtest ------------------------------
(***************************************************************************)
(* The backtester's simulation loop (backtester/src/engine/engine.py) with *)
(* the broker it drives (backtester/src/broker): pending orders for the    *)
(* next bar's open, validation and fills, trailing stops, expiry and       *)
(* assignment of options.  run_backtest is one thread; an action is one    *)
(* stage of its loop, or one order, stop or expiring position of a stage,  *)
(* which keeps every point visible at which one of them uses what another  *)
(* has already changed.  The accounting is Portfolio's.                    *)
(*                                                                         *)
(* The strategy and the market are the environment: on_step may return any *)
(* list of OrderShapes, a bar any of BarShapes.  One step of the clock is  *)
(* one unit of time; expiries are dates on the same scale.                 *)
(***************************************************************************)
EXTENDS Portfolio, Sequences

CONSTANTS
    Symbol,          \* config.symbol
    Universe,        \* the symbols that have bars: config.symbols, or Symbol alone
    FirstSymbol,     \* config.symbols[0]
    InstrumentType,  \* "equity", "option" or "future"
    FillTiming,      \* "next_bar_open" or "same_bar_close"
    AssignmentModel, \* "cash" or "physical"
    Strike, Expiry, Right,  \* contract metadata of the options
    TickSize,        \* of the futures contract
    DefaultTick,     \* 0.01, in price units
    SpreadPart,      \* half the synthetic spread is 1/SpreadPart of the price; 0 for none
    PerContract, PerOrder, FeePart,  \* fee schedule, per instrument: a fill costs
                     \* 1/FeePart of its notional value on top, 0 for nothing
    Lookback,        \* bars of futures history a snapshot reaches back
    BarShapes,       \* [open, high, low, close] a bar can have
    QuotePairs,      \* [bid, ask] a quote can have
    Gaps,            \* may a bar be missing from the data
    OrderShapes,     \* [inst, side, qty, type, limit, trail] a strategy can ask for
    MaxBars,         \* bound: steps of the clock
    MaxOrders,       \* bound: orders per call of on_step
    NoBar, NoQuote, None

Options == Instruments \ Universe

ASSUME BacktestAssumption ==
    /\ Symbol \in Universe /\ FirstSymbol \in Universe /\ Universe \subseteq Instruments
    /\ InstrumentType \in {"equity", "option", "future"}
    /\ FillTiming \in {"next_bar_open", "same_bar_close"}
    /\ AssignmentModel \in {"cash", "physical"}
    /\ Multiplier[Symbol] = 1 \/ InstrumentType # "option"
    /\ Strike \in [Options -> Int] /\ Expiry \in [Options -> Int]
    /\ Right \in [Options -> {"C", "P"}]
    /\ TickSize \in Nat \ {0} /\ DefaultTick \in Nat \ {0} /\ SpreadPart \in Nat
    /\ PerContract \in [Instruments -> Int] /\ PerOrder \in [Instruments -> Int]
    /\ FeePart \in [Instruments -> Nat]
    /\ Lookback \in Nat /\ Gaps \in BOOLEAN /\ MaxBars \in Nat /\ MaxOrders \in Nat
    /\ BarShapes \subseteq [open : Int, high : Int, low : Int, close : Int]
    /\ QuotePairs \subseteq [bid : Int, ask : Int]
    /\ OrderShapes \subseteq [inst : Instruments, side : Sides, qty : Nat,
                              type : {"market", "stop"}, limit : Int \cup {None},
                              trail : Nat \cup {None}]
    /\ None \notin Int /\ NoMark \notin Int

VARIABLES
    now,           \* the step's timestamp
    phase,         \* the stage of the loop
    bars, quotes,  \* the snapshot of this step
    pending,       \* pending_orders
    batch,         \* orders _process_orders has still to handle
    batchCash,     \* cash of the portfolio the batch is validated against
    stops,         \* TrailingStopManager._state, None without an entry
    visited,       \* stops evaluate() has handled in this step
    expired,       \* positions _detect_expirations returned, yet to settle
    resultOrders,  \* ids in result.orders
    resultFills,   \* result.fills: whose, when, and the timestamp of the price
    stepFills,     \* all_fills of this step
    eventFills     \* order ids with a FILL event in result.events

resultVars == <<resultOrders, resultFills, stepFills, eventFills>>
loopVars == <<now, phase, bars, quotes, pending, batch, batchCash, stops, visited,
              expired, resultVars>>
vars == <<accountVars, loopVars>>

Ids(orders) == {orders[k].id : k \in DOMAIN orders}
FilledIds == {f.order : f \in resultFills}

-----------------------------------------------------------------------------
(* The snapshot *)

MultiSymbol == InstrumentType = "equity" /\ Universe # {Symbol}

\* underlying_bar: a multi-symbol run falls back on another symbol's bar.
MainBar == IF MultiSymbol /\ bars[Symbol] = NoBar THEN bars[FirstSymbol] ELSE bars[Symbol]

BarAt(ts, shape) ==
    [ts |-> ts, open |-> shape.open, high |-> shape.high, low |-> shape.low, close |-> shape.close]

\* Without a bar at ts the equity and option paths have none; the futures
\* path takes the last row of its history, a bar of an earlier step.
AbsentBar(sym, ts) ==
    IF InstrumentType = "future" /\ bars[sym] # NoBar /\ bars[sym].ts + Lookback >= ts
    THEN bars[sym] ELSE NoBar

BarsAt(sym, ts) ==
    {BarAt(ts, shape) : shape \in BarShapes} \cup (IF Gaps THEN {AbsentBar(sym, ts)} ELSE {})

\* extract_marks
MarkOf(i) ==
    IF i \in Options
    THEN IF quotes[i] # NoQuote THEN (quotes[i].bid + quotes[i].ask) \div 2 ELSE NoMark
    ELSE IF (i = Symbol \/ MultiSymbol) /\ bars[i] # NoBar THEN bars[i].close ELSE NoMark
Marks == [i \in Instruments |-> MarkOf(i)]

-----------------------------------------------------------------------------
(* The broker *)

InstrumentAvailable(i) ==
    \/ MultiSymbol /\ i \in Universe /\ bars[i] # NoBar
    \/ MainBar # NoBar /\ i = Symbol
    \/ i \in Options /\ quotes[i] # NoQuote

\* Buying power is the cash at the start of the batch, at the mark.
ValidateOrder(o) ==
    /\ o.qty > 0
    /\ InstrumentAvailable(o.inst)
    /\ o.side = "BUY" => /\ MarkOf(o.inst) # NoMark
                         /\ batchCash >= MarkOf(o.inst) * o.qty * Multiplier[o.inst]

PartOf(n, part) == IF part = 0 THEN 0 ELSE n \div part
WithSpread(mid, side) ==
    IF side = "BUY" THEN mid + PartOf(mid, SpreadPart) ELSE mid - PartOf(mid, SpreadPart)

\* normalize_price: nearest tick, a tie to the even one.
Normalize(price, tick) ==
    LET k == price \div tick
        up == \/ 2 * (price % tick) > tick
              \/ 2 * (price % tick) = tick /\ k % 2 = 1
    IN  (IF up THEN k + 1 ELSE k) * tick

IsStop(o) == o.type = "stop"
StopApplies(o) == IsStop(o) /\ o.limit # None /\ o.inst = Symbol /\ MainBar # NoBar

StopPrice(o) ==
    CASE o.side = "BUY" /\ MainBar.high >= o.limit ->
           IF MainBar.low <= o.limit THEN o.limit ELSE MainBar.open
      [] o.side = "SELL" /\ MainBar.low <= o.limit ->
           IF MainBar.high >= o.limit THEN o.limit ELSE MainBar.open
      [] OTHER -> None

\* Mutant of BarOf: the main symbol falls back on another symbol's bar.
BarOfAny(i) == IF i = Symbol THEN MainBar ELSE IF i \in Universe THEN bars[i] ELSE NoBar

BarOf(i) == IF MultiSymbol THEN (IF i \in Universe THEN bars[i] ELSE NoBar)
            ELSE IF i = Symbol THEN MainBar ELSE NoBar

RawPrice(o, useOpen) ==
    CASE StopApplies(o) -> StopPrice(o)
      [] ~StopApplies(o) /\ BarOf(o.inst) # NoBar ->
           WithSpread(IF useOpen THEN BarOf(o.inst).open ELSE BarOf(o.inst).close, o.side)
      [] ~StopApplies(o) /\ o.inst \in Options /\ ~MultiSymbol /\ quotes[o.inst] # NoQuote ->
           LET q == quotes[o.inst] IN
           IF q.bid # q.ask THEN (IF o.side = "BUY" THEN q.ask ELSE q.bid)
           ELSE WithSpread(q.bid, o.side)
      [] OTHER -> None

FillPrice(o, useOpen) ==
    LET raw == RawPrice(o, useOpen) IN
    IF raw # None /\ InstrumentType = "future" THEN Normalize(raw, TickSize) ELSE raw

\* A fill remembers the bar or quote it was priced from: whose, and of when.
BarOwner(i) ==
    CASE i \in Options -> i
      [] MultiSymbol /\ i = Symbol /\ bars[i] = NoBar -> FirstSymbol
      [] OTHER -> i
FillOf(o) == [order |-> o.id, ts |-> now, inst |-> o.inst, source |-> BarOwner(o.inst),
              priced |-> IF o.inst = Symbol THEN MainBar.ts ELSE now]

ComputeFees(o, price) ==
    PerContract[o.inst] * o.qty + PerOrder[o.inst]
      + PartOf(Magnitude(price * o.qty * Multiplier[o.inst]), FeePart[o.inst])

-----------------------------------------------------------------------------
(* The loop *)

LoopInit ==
    /\ now = 0 /\ phase = "idle"
    /\ bars = [sym \in Universe |-> NoBar]
    /\ quotes = [opt \in Options |-> NoQuote]
    /\ pending = <<>> /\ batch = <<>> /\ batchCash = InitialCash
    /\ stops = [i \in Instruments |-> None]
    /\ visited = {} /\ expired = {}
    /\ resultOrders = {} /\ resultFills = {} /\ stepFills = {} /\ eventFills = {}

Init == AccountInit /\ LoopInit

(* The next timestamp: a snapshot of the market, on which the orders held   *)
(* back by the previous step, if any, are to be processed at the open.      *)
\* Mutants of TakePending: the list is not reset; nothing is taken without a bar.
TakePendingKept == batch' = pending /\ pending' = pending
TakePendingWithBar ==
    IF bars'[Symbol] # NoBar THEN batch' = pending /\ pending' = <<>>
    ELSE batch' = <<>> /\ pending' = pending

TakePending == batch' = pending /\ pending' = <<>>

BuildSnapshot ==
    /\ phase = "idle" /\ now < MaxBars
    /\ now' = now + 1
    /\ bars' \in [Universe -> UNION {BarsAt(sym, now + 1) : sym \in Universe}]
    /\ \A sym \in Universe : bars'[sym] \in BarsAt(sym, now + 1)
    /\ quotes' \in [Options -> IF InstrumentType = "option" THEN QuotePairs \cup {NoQuote}
                               ELSE {NoQuote}]
    /\ TakePending /\ batchCash' = cash
    /\ visited' = {}
    /\ phase' = "open"
    /\ UNCHANGED <<accountVars, stops, expired, resultVars>>

(* One order of submit_orders, its apply_fill and its register_fill.  All   *)
(* orders of a batch are validated against the cash it started with.        *)
Price(o) == FillPrice(o, phase = "open")
Accepted(o) == ValidateOrder(o) /\ Price(o) # None

ArmedBy(o) == [entryTs |-> now, water |-> None, ticks |-> o.trail,
               side |-> IF o.side = "BUY" THEN "LONG" ELSE "SHORT"]

\* The fills of orders held back are not among all_fills, the step's events.
\* Mutant of Report: the exits of trailing stops are left out as well.
ReportOrders(id) ==
    stepFills' = stepFills \cup (IF phase = "step" /\ id.kind # "trailing" THEN {id} ELSE {})

Report(id) == stepFills' = stepFills \cup (IF phase = "step" THEN {id} ELSE {})

FillOrder ==
    /\ batch # <<>>
    /\ LET o == Head(batch) IN
         /\ Accepted(o)
         /\ ApplyFill(o.inst, o.side, o.qty, Price(o), ComputeFees(o, Price(o)))
         /\ stops' = IF o.trail = None THEN stops ELSE [stops EXCEPT ![o.inst] = ArmedBy(o)]
         /\ resultFills' = resultFills \cup {FillOf(o)}
         /\ resultOrders' = resultOrders \cup {o.id}
         /\ Report(o.id)
    /\ batch' = Tail(batch)
    /\ UNCHANGED <<now, phase, bars, quotes, pending, batchCash, visited, expired, eventFills>>

RejectOrder ==
    /\ batch # <<>>
    /\ ~Accepted(Head(batch))
    /\ resultOrders' = resultOrders \cup {Head(batch).id}
    /\ batch' = Tail(batch)
    /\ UNCHANGED <<accountVars, now, phase, bars, quotes, pending, batchCash, stops, visited,
                   expired, resultFills, stepFills, eventFills>>

(* strategy.on_step: any orders of the allowed shapes.  With next_bar_open  *)
(* only stop orders are worked in this step, the others replace the queue;  *)
(* each keeps its order within its part of the list, which is all that the  *)
(* rest of the loop can see of it.                                          *)

\* Mutant of WorkedNow: market orders are not held back.
WorkedAtOnce(o) == TRUE

WorkedNow(o) == FillTiming = "same_bar_close" \/ IsStop(o)
Worked == {shape \in OrderShapes : WorkedNow(shape)}
HeldBack == {shape \in OrderShapes : ~WorkedNow(shape)}

Issue(shapes, n) ==
    [k \in DOMAIN shapes |->
       [id |-> [kind |-> shapes[k].type, ts |-> now, k |-> n + k],
        inst |-> shapes[k].inst, side |-> shapes[k].side, qty |-> shapes[k].qty,
        type |-> shapes[k].type, limit |-> shapes[k].limit, trail |-> shapes[k].trail]]

Asked(shapes, i, side) ==
    MapThenSumSet(LAMBDA k : IF shapes[k].inst = i /\ shapes[k].side = side
                             THEN shapes[k].qty ELSE 0, DOMAIN shapes)

\* Bound: whichever of the orders are filled, no position exceeds MaxQty.
WithinMaxQty(shapes) ==
    \A i \in Instruments :
      LET buys == Asked(shapes, i, "BUY")
          sells == Asked(shapes, i, "SELL")
      IN  /\ buys <= MaxQty /\ positions[i].qty + buys <= MaxQty
          /\ sells <= MaxQty /\ positions[i].qty - sells >= -MaxQty

OnStep ==
    /\ phase = "open" /\ batch = <<>>
    /\ \E n \in 0..MaxOrders : \E m \in 0..(MaxOrders - n) :
         \E worked \in [1..n -> Worked], held \in [1..m -> HeldBack] :
           /\ WithinMaxQty(worked \o held)
           /\ batch' = Issue(worked, 0)
           /\ pending' = Issue(held, n)
    /\ batchCash' = cash
    /\ phase' = "step"
    /\ UNCHANGED <<accountVars, now, bars, quotes, stops, visited, expired, resultVars>>

-----------------------------------------------------------------------------
(* trailing_manager.evaluate, one instrument at a time, and the apply_fill  *)
(* of the exit it returns.  Every instrument is judged by the main bar.     *)
Evaluating == phase = "step" /\ batch = <<>> /\ MainBar # NoBar
TickOf(i) == IF InstrumentType = "future" /\ i = Symbol THEN TickSize ELSE DefaultTick

SideMatches(i) == IF stops[i].side = "LONG" THEN positions[i].qty > 0 ELSE positions[i].qty < 0

\* Mutant of Water: the extreme of this bar, without the ones before it.
WaterOfBar(stop) == IF stop.side = "LONG" THEN MainBar.high ELSE MainBar.low

Water(stop) ==
    CASE stop.side = "LONG" -> IF stop.water = None \/ MainBar.high > stop.water
                               THEN MainBar.high ELSE stop.water
      [] OTHER -> IF stop.water = None \/ MainBar.low < stop.water
                  THEN MainBar.low ELSE stop.water

Threshold(i) ==
    LET distance == stops[i].ticks * TickOf(i) IN
    IF stops[i].side = "LONG" THEN Water(stops[i]) - distance ELSE Water(stops[i]) + distance

Triggered(i) ==
    IF stops[i].side = "LONG" THEN MainBar.low <= Threshold(i) ELSE MainBar.high >= Threshold(i)

Visits(i) == Evaluating /\ stops[i] # None /\ i \notin visited /\ visited' = visited \cup {i}
\* Mutant of OnEntryBar: no bar is skipped.
NoEntryBar(i) == FALSE

OnEntryBar(i) == stops[i].entryTs = now

\* Mutant of Disarmed: the state is not deleted.
StillArmed(i) == stops

Disarmed(i) == [stops EXCEPT ![i] = None]

DropStop(i) ==
    /\ Visits(i)
    /\ \/ positions[i].qty = 0
       \/ ~OnEntryBar(i) /\ ~SideMatches(i)
    /\ stops' = Disarmed(i)
    /\ UNCHANGED <<accountVars, now, phase, bars, quotes, pending, batch, batchCash, expired,
                   resultVars>>

SkipEntryBar(i) ==
    /\ Visits(i)
    /\ positions[i].qty # 0 /\ OnEntryBar(i)
    /\ UNCHANGED <<accountVars, now, phase, bars, quotes, pending, batch, batchCash, stops,
                   expired, resultVars>>

TrailStop(i) ==
    /\ Visits(i)
    /\ positions[i].qty # 0 /\ ~OnEntryBar(i) /\ SideMatches(i) /\ ~Triggered(i)
    /\ stops' = [stops EXCEPT ![i].water = Water(stops[i])]
    /\ UNCHANGED <<accountVars, now, phase, bars, quotes, pending, batch, batchCash, expired,
                   resultVars>>

\* Mutant of ExitQty: the quantity of one entry, not of the position.
ExitQtyOfOne(i) == 1

ExitQty(i) == Magnitude(positions[i].qty)
ExitId(i) == [kind |-> "trailing", ts |-> now, k |-> i]

ExitStop(i) ==
    /\ Visits(i)
    /\ positions[i].qty # 0 /\ ~OnEntryBar(i) /\ SideMatches(i) /\ Triggered(i)
    /\ ApplyFill(i, IF positions[i].qty > 0 THEN "SELL" ELSE "BUY", ExitQty(i),
                 Normalize(Threshold(i), TickOf(i)), 0)
    /\ stops' = Disarmed(i)
    /\ resultFills' = resultFills \cup
         {[order |-> ExitId(i), ts |-> now, inst |-> i, source |-> BarOwner(Symbol),
           priced |-> MainBar.ts]}
    /\ resultOrders' = resultOrders \cup {ExitId(i)}
    /\ Report(ExitId(i))
    /\ UNCHANGED <<now, phase, bars, quotes, pending, batch, batchCash, expired, eventFills>>

EvaluateStop ==
    \E i \in Instruments : DropStop(i) \/ SkipEntryBar(i) \/ TrailStop(i) \/ ExitStop(i)

-----------------------------------------------------------------------------
(* Marks and expiry *)

Held(i) == positions[i].qty # 0

Intrinsic(opt) ==
    LET inTheMoney == IF Right[opt] = "C" THEN MainBar.close - Strike[opt]
                      ELSE Strike[opt] - MainBar.close
    IN  IF inTheMoney > 0 THEN inTheMoney ELSE 0

\* _detect_expirations
\* Mutant of Expired: an option lives through its expiry date.
ExpiredLater == {opt \in Options : Held(opt) /\ Expiry[opt] < now}

Expired ==
    IF InstrumentType = "option" /\ MainBar # NoBar
    THEN {opt \in Options : Held(opt) /\ Expiry[opt] <= now} ELSE {}

MarkStep ==
    /\ phase = "step" /\ batch = <<>>
    /\ MainBar = NoBar \/ \A i \in Instruments \ visited : stops[i] = None
    /\ MarkToMarket(Marks)
    /\ expired' = Expired
    /\ phase' = "expiry"
    /\ UNCHANGED <<now, bars, quotes, pending, batch, batchCash, stops, visited, resultVars>>

AssignedPhysically(opt) ==
    /\ AssignmentModel = "physical" /\ Right[opt] = "C"
    /\ positions[opt].qty < 0 /\ Intrinsic(opt) > 0

AssignPhysical(opt) ==
    /\ AssignedPhysically(opt)
    /\ IF Deliverable(opt, Symbol) THEN SettlePhysical(opt, Symbol, Strike[opt], Intrinsic(opt))
       ELSE UNCHANGED accountVars

SettleCash(opt) ==
    /\ ~AssignedPhysically(opt)
    /\ \A other \in expired : ~AssignedPhysically(other)  \* settle_expirations comes last
    /\ SettlePosition(opt, Intrinsic(opt))

SettleExpired ==
    /\ phase = "expiry"
    /\ \E opt \in expired :
         /\ AssignPhysical(opt) \/ SettleCash(opt)
         /\ expired' = expired \ {opt}
    /\ UNCHANGED <<now, phase, bars, quotes, pending, batch, batchCash, stops, visited,
                   resultVars>>

(* The second mark_to_market, the events and the end of the step. *)
EndStep ==
    /\ phase = "expiry" /\ expired = {}
    /\ MarkToMarket(Marks)
    /\ eventFills' = eventFills \cup stepFills
    /\ stepFills' = {}
    /\ phase' = "idle"
    /\ UNCHANGED <<now, bars, quotes, pending, batch, batchCash, stops, visited, expired,
                   resultOrders, resultFills>>

(* The clock is exhausted: the result is returned, pending orders and all.  *)
Finish ==
    /\ phase = "idle" /\ now = MaxBars
    /\ phase' = "done"
    /\ UNCHANGED <<accountVars, now, bars, quotes, pending, batch, batchCash, stops, visited,
                   expired, resultVars>>

Returned == phase = "done" /\ UNCHANGED vars

Step ==
    \/ BuildSnapshot \/ FillOrder \/ RejectOrder \/ OnStep \/ EvaluateStop
    \/ MarkStep \/ SettleExpired \/ EndStep \/ Finish

Next == Step \/ Returned

\* run_backtest is a plain loop: nothing it does waits for anything.
Spec == Init /\ [][Next]_vars /\ WF_vars(Step)

-----------------------------------------------------------------------------
(* Properties *)

OrderIds == [kind : {"market", "stop"}, ts : 1..MaxBars, k : 1..MaxOrders]
              \cup [kind : {"trailing"}, ts : 1..MaxBars, k : Instruments]

Bar == [ts : Int, open : Int, high : Int, low : Int, close : Int]
Order == [id : OrderIds, inst : Instruments, side : Sides, qty : Nat,
          type : {"market", "stop"}, limit : Int \cup {None}, trail : Nat \cup {None}]
TrailingState == [entryTs : Int, water : Int \cup {None}, ticks : Nat, side : {"LONG", "SHORT"}]

(* Types of the loop's variables. *)
LoopTypeOK ==
    /\ now \in 0..MaxBars
    /\ phase \in {"idle", "open", "step", "expiry", "done"}
    /\ bars \in [Universe -> Bar \cup {NoBar}]
    /\ quotes \in [Options -> QuotePairs \cup {NoQuote}]
    /\ pending \in Seq(Order) /\ batch \in Seq(Order)
    /\ stops \in [Instruments -> TrailingState \cup {None}]
    /\ visited \subseteq Instruments /\ expired \subseteq Options
    /\ resultOrders \subseteq OrderIds
    /\ resultFills \subseteq [order : OrderIds, ts : Int, inst : Instruments,
                                source : Instruments, priced : Int]

(* The engine keeps OrderFlow's promise about every order. *)
Flow == INSTANCE OrderFlow
          WITH queue <- Ids(pending), live <- Ids(batch),
               filled <- FilledIds, lapsed <- resultOrders \ FilledIds
FlowSpec == Flow!FlowSpec

(* No lookahead, the point of next_bar_open: "Orders from step N are held   *)
(* and filled against step N+1's bar open" (plans/265_execution_realism.md: *)
(* 25), never against a bar its strategy had already seen.                  *)
FilledOnTheNextBar ==
    FillTiming = "next_bar_open" =>
      \A f \in resultFills : f.order.kind = "market" => f.priced = f.order.ts + 1

(* Fills are priced "from the matching symbol's current bar"                *)
(* (plans/263_tactical_asset_allocation.md:102).  Only what is worked       *)
(* against underlying_bar, the main symbol's stop orders and the trailing   *)
(* exits, may see another symbol's (engine.py:127, fill_model.py:55-78).    *)
FilledFromOwnBar ==
    \A f \in resultFills :
      f.source = f.inst \/ f.order.kind = "trailing" \/ (f.order.kind = "stop" /\ f.inst = Symbol)

(* An order held back gets its one chance on the very next bar, whatever    *)
(* that bar is, and only the end of the data takes it away (393-408).       *)
QueuedOrdersAreWorked ==
    \A id \in OrderIds :
      (id \in Ids(pending) /\ now < MaxBars) ~> (id \in resultOrders /\ now = id.ts + 1)

(* A trailing exit closes the whole position and never turns it around,     *)
(* whatever was filled at the open or by stop orders of the same bar before *)
(* (trailing_stop.py:100-124, engine.py:429-434).                           *)
NewFills == {id \in FilledIds' : id \notin FilledIds}
ExitClosesPosition ==
    [][ \A id \in NewFills : id.kind = "trailing" =>
          positions[id.k].qty # 0 /\ positions'[id.k] = Flat ]_vars

(* A trailing exit is taken on the evidence of a bar after the entry bar    *)
(* ("Trailing from the next bar onward", trailing_stop.py:69-72).           *)
ExitAfterEntryBar ==
    [][ \A id \in NewFills : id.kind = "trailing" =>
          MainBar.ts > stops[id.k].entryTs ]_vars

(* Between steps an armed stop has a position to guard, on the right side   *)
(* once the entry bar is over: a close, a flip or an exit leaves none       *)
(* behind (trailing_stop.py:62-66, 95-98).                                  *)
StopsGuardPositions ==
    phase = "expiry" /\ MainBar # NoBar =>
      \A i \in Instruments : stops[i] # None =>
        /\ Held(i)
        /\ stops[i].entryTs # now => (stops[i].side = "LONG" <=> positions[i].qty > 0)

(* While it guards one entry a stop only ever tightens (77-90). *)
WaterMarkOnlyTightens ==
    [][ \A i \in Instruments :
          stops[i] # None /\ stops[i].water # None
            /\ stops'[i] # None /\ stops'[i].entryTs = stops[i].entryTs =>
              IF stops[i].side = "LONG" THEN stops'[i].water >= stops[i].water
              ELSE stops'[i].water <= stops[i].water ]_vars

(* A position is settled as soon as its expiry date has come and there is an *)
(* underlying bar to settle against (engine.py:259-291, 451-473), however   *)
(* many bars were missing; only a short call in the money whose shares were *)
(* not there to deliver is left open.                                       *)
ExpiredAreSettled ==
    phase = "idle" /\ MainBar # NoBar =>
      \A opt \in Options : Expiry[opt] <= now /\ Held(opt) => AssignedPhysically(opt)

(* Physical assignment delivers shares that are held: it never leaves the   *)
(* underlying short (backtester/src/portfolio/accounting.py:40-43).         *)
AssignmentNeverShortsShares ==
    [][ phase = "expiry" /\ positions[Symbol].qty >= 0 => positions'[Symbol].qty >= 0 ]_vars

(* A fill of the strategy's orders of this step or of a trailing stop has   *)
(* its FILL event by the end of the step, and no event lacks its fill       *)
(* (engine.py:302-330, 445, 475); with same_bar_close that is every fill.   *)
FillsHaveEvents ==
    phase = "idle" =>
      /\ eventFills \subseteq FilledIds
      /\ \A id \in FilledIds : id.kind # "market" \/ FillTiming = "same_bar_close" =>
           id \in eventFills
=============================================================================
