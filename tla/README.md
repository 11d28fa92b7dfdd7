# Verification of argentaegis/markets in TLA+

This project models the parts of the repository in which an error would be
hard to see: the accounting, the backtester's event loop with its data, its
broker, its strategies and its reports, and the observer's connection to its
data service, its strategies and candidate store, its websocket fan-out and
its browser state. TLC checks each on small instances; TLAPS proves the
invariants that matter most for every value of the constants.

    tlc -workers 2 -config bt_future.cfg MCStrategies
    tlapm BacktestProofs.tla

PROJECT.json lists every run, what it shows, the mutant that each property
catches, and the source lines each definition stands for.

## 1. The system

Two programs share a domain. The **backtester** replays history through a
strategy and reports what it would have made. The **observer** is a server that
follows live quotes and bars, lets strategies propose trade candidates and
shows them in browsers. Both use the **portfolio** package or the strategies of
the **strategizer** package.

| Component (source) | State | Operations | Talks to | Modelled in |
|---|---|---|---|---|
| Portfolio accounting (`portfolio/accounting.py`, `backtester/.../portfolio/accounting.py`) | cash, positions (qty, average price), realized and unrealized PnL, equity | `apply_fill`, `mark_to_market`, `settle_positions`, `settle_physical_assignment`, `settle_expirations`, `extract_marks` | called by the engine | `Portfolio` |
| Backtest engine (`engine/engine.py`) | portfolio, pending orders, orders, fills, events, equity curve | one step per timestamp: snapshot, held-back orders, `on_step`, orders, trailing stops, marks, expiry | provider, clock, strategy, broker, accounting | `Backtest`, `OrderFlow` |
| Broker (`broker/*.py`, `utils/tick.py`) | trailing-stop state per instrument | validate, fill price, fees, stop orders, trailing stops | called by the engine | `Backtest` |
| Strategizer strategies, adapter (`strategizer/strategies/*.py`, `strategizer_adapter.py`) | none, or what is derived from the bars | `evaluate`, `on_step` | engine | `StrategyLoop`, `OpeningRange` |
| Clock (`clock/clock.py`) | the exchange's sessions | `iter_times`, `count_times` | engine | `Clock` |
| Data provider, loader, quotes (`loader/*.py`, `domain/quotes.py`) | caches of frames and quote series | bars, quotes and chains as of a time, missing data policies | called by the engine | `DataProvider` |
| Trade ledger (`reporter/trades.py`) | open lots, trades | FIFO matching of fills | reads a finished run | `TradeLedger` |
| Reporter, summary, charts (`reporter/*.py`) | none | statistics, files | reads a finished run | `Report` (figures) |
| Observer engine, candidate store | candidates | `on_bar`, `evaluate`, `add`, expiry, retention | bar task, snapshot route | `CandidateStore` |
| Observer market state | quotes, windows of bars | `update_quote`, `update_bar`, `get_snapshot`, `get_context` | tasks, snapshot route, strategies | `Observer`, `ObserverStrategies` |
| Observer API (`api/*.py`) | list of connections, two tasks | `consume_quotes`, `consume_bars`, `broadcast`, `/ws`, `/api/snapshot` | providers, engine, browsers | `Broadcast`, `Observer` |
| Observer Schwab provider (`providers/schwab_provider.py`) | token and its file, `_connected`, the last candle taken | connect, two pollers, token refresh | Schwab's REST API, app | `SchwabProvider` |
| Observer strategies, registry, configuration | session state of the opening range | `load_config`, `instantiate`, `evaluate` | engine, strategizer service | `ObserverStrategies` |
| Frontend hooks (`hooks/*.ts`) | quotes, bars, candidates, link status | reconnect, fetch, merge | API | `Observer` |
| Runner, observer persistence, simulated provider, frontend components, download tools | append-only tables, files | - | - | - |

**What is hard.** The backtester is one thread: its hazards are order and
staleness. Within one step four groups of orders change the same portfolio
(held back, worked now, trailing exits, settlements), each judged by data
taken at some other moment; a bar or quote may be missing; a strategy decides
on one bar what is filled on the next, and the reports read one run from three
books. The observer is one asyncio event loop with two tasks, an endpoint per
client and HTTP requests: any `await` lets another one change the token, the
list of connections or the state; messages, requests and replies overtake each
other; links break; the server restarts with nothing but its token file.
PROJECT.json names 40 such places.

**What makes each part correct.**

- Accounting: money is neither created nor lost by any sequence of operations;
  PnL is realized only when a position shrinks.
- Engine: no order is filled on a bar its strategy had seen, none is filled
  twice, none waits beyond the next bar; what expires is settled.
- Trailing stops: guard exactly the open position, never trigger on the entry
  bar, only tighten, and close all of it.
- Strategies: what each promises of its position (never added to, never short,
  always covered, no breakout signalled twice while the first is in sight)
  survives fills that come a bar later.
- Clock and data: every step is the end of a bar, answers come from the whole
  of the data as of the step and from nothing later.
- Ledger and report: FIFO and average cost agree from flat to flat, and what is
  reported adds up.
- Provider: the first request of a round is authorised, every candle comes at most
  once, in order, and none is left out within a day that goes on; the pollers ask on until the connection ends and end together.
- Candidate store: one opinion per kind, bounded, nothing vanishes unexplained.
- Fan-out: order, no duplicates, nobody forgotten by another one's failure.
- Browser: at rest it shows what the server has.

## 2. The modules

**`Portfolio`** keeps `cash`, `positions`, `realized` and `equity` as the code
does, in whole price units. `ApplyFill` has the code's four cases: opening,
adding, reducing or closing, and flipping, where the code keeps the old average price. Average
prices stay exact because the instance is chosen so that they are whole; a
step with a fractional one is not taken (`AddToPosition`), and the runs are
built so that this never happens (`MCStrategies`, prices are multiples of 32). Two
histories make the properties sayable: `flow`, the signed cash of each
instrument, and `distorted`, the instruments on which a flip or an assignment
has broken the books (section 5), from which the exact statement of what
the accounting does guarantee follows.

**`Backtest`** is `run_backtest`. Each stage of the loop is a phase, each order,
stop or expiring position an action of its own:

| Action | Code |
|---|---|
| `BuildSnapshot` | `_build_step_snapshot`, hand-over of `pending_orders` |
| `FillOrder`, `RejectOrder` | one order of `_process_orders`: validate, price, `apply_fill`, `register_fill` |
| `OnStep` | `strategy.on_step` (any orders) and the split by fill timing |
| `DropStop`, `SkipEntryBar`, `TrailStop`, `ExitStop` | `TrailingStopManager.evaluate`, per instrument |
| `MarkStep`, `SettleExpired`, `EndStep`, `Finish` | marks, `_detect_expirations`, settlement, events, result |

Bars may be missing; what the code then takes for the current bar differs
by instrument type (`AbsentBar`, `MainBar`) and is modelled as it does.

**`OrderFlow`** is the abstract specification: an order is queued, live,
filled or lapsed, and nothing else. `Backtest` implements it (`FlowSpec`) with
the mapping queue = `pending`, live = `batch`, filled = ids with a fill, lapsed =
the other ids in `result.orders`.

**`StrategyLoop`** composes `Backtest` with the strategies of the repository.
`StrategyStep` takes the place of `OnStep`: the orders are those the strategy of
the run derives from the bars in its window, the contracts requested for
it (`Requested`), all of which the adapter passes on, quoted or not, and the
portfolio. A run whose strategy is "any" keeps `OnStep`. What a
strategy asks for is a list of `OrderShapes` like any other, so that what is
proved of `Backtest` for all shapes and numbers of orders holds of each of them.
**`OpeningRange`** is the breakout strategy as the service evaluates it, which
keeps nothing between calls: the branch for one-minute bars, which is the one
it takes. `ObserverStrategies` has the observer's own, which keeps its state.

**`Clock`** has the ends of the bars of a calendar of sessions as operators,
`IterTimes` and, computed as the code does it separately, `CountTimes`.
**`DataProvider`** steps through them as the loop does and asks for bars, quotes and
metadata: a run's files, configuration and cache are its state, one action is a step
or the exception that ends the run.

**`TradeLedger`** composes `Portfolio` with the FIFO ledger: every fill is booked in
both. **`Report`** adds the curve, marks and allocation the engine records at each step
and computes from them what the summary, the charts and the ledger say of the
run, at every point at which it may end.

**`SchwabProvider`** has the wall clock, the service (external: which refresh tokens it
accepts, when an access token dies), the token file, the flag `_connected` and
three actors, `connect` and the two pollers. An action is what an actor does
between two awaits; requests are answered in any order, refused, or given up
after `Patience`. The service answers with the candles of the current day, as the
provider asks for one day; a round that fails begins again with the first symbol. The process may be stopped at any point, also while the token
file is rewritten (`StopWhileSaving`).

**`CandidateStore`** is the engine with its store. Time is the bars'
timestamps and may go back, as a polling provider can make it. `sorted`'s
choice among equally old candidates is left open. A strategy that raises ends
the bar task (`OnBarRaises`). **`ObserverStrategies`** composes it with the
configuration, the registry and the strategies the observer runs
(`StrategiesReturn`, `ServiceRaises`); an empty roster stands for any strategies.

**`Broadcast`** is the connection manager. Each action is what one task does
between two awaits. A Python list iterator is an index into the list as it is
at that moment, so `cursor` is an index and the list may shift below it.

**`Observer`** composes the store with the market state, one browser's link
and one of its two data hooks (they share nothing but the link). An update is
known by its number; a reply carries the state at the time it was made. Accepting
a link and registering it is one action here, two in `Broadcast`.

`MC*` modules hold the constants of the instances. Definitions named in a
"Mutant of" comment are plausible errors that TLC must catch; no
specification uses them.

## 3. The runs

| Run | Question | States |
|---|---|---|
| `ledger` | accounting, ledger and report under every sequence of up to 4 fills and recorded steps, with settlements and assignments, on a share and an option | 593 k |
| `bt_future` | trailing stops and stop orders on a futures contract; the trend and breakout strategies | 74 k |
| `bt_equity` | next-bar fills of two stocks with missing bars; implements `OrderFlow`; liveness | 14 k |
| `bt_option` | covered calls and puts, missing bars and quotes, assignment, expiry; the covered-call strategy | 486 k |
| `strat_equity` | monthly reallocation and trend entries over two stocks with missing bars | 743 k |
| `data` | 3 timeframes, 3 policies, 6 bar files, 2 quote files, over 3 sessions with an early close and a weekend | 18 k |
| `store` | configurations of 2 strategies, 3 bars of 2 symbols in any order of their days | 906 k |
| `provider` | 2 pollers, 2 symbols, 2 starts, 2 candles of one day or two, a token's life and its renewal | 190 k |
| `broadcast` | 2 tasks, 2 clients, 2 messages each; liveness | 96 k |
| `observer` | 1 browser, 3 updates or restarts, 1 opening of the link besides the first load | 1.4 M |
| `v_orb`, `v_or` | statements of the docs the code violates | |

**Bounds.**

- `ledger`: `MaxEvents` 4 lets a position be opened, added to, closed in part and
  recorded, or opened, flipped, closed and recorded. `MaxFeesPaid` 6 is three fills' fees.
- `bt_future`: "any" orders come in the first two of six bars, which gives an
  entry, the first bar that can trigger and four after it; two units let a
  position be reduced without being closed. Six bars are a whole session for
  `orb_5m`, of which the window reaches back four and the range takes two, as the code's
  reaches back 80 of a session's 390 minutes and takes five: the first breakout can slide out of the
  window within the session, and the range with it. They leave room for the trend strategies to enter,
  be stopped out and enter again. Every bar is there (`Gaps` is FALSE): with gaps
  `NoRepeatInSight` does not hold (section 5). `v_orb` has the same bounds.
- `bt_equity`: two bars are order and fill; either stock may miss either bar.
- `bt_option`: the put expires on bar 2, the call on bar 3, either quote or the
  share's bar may be missing on that bar and the one after it. A second call of
  another strike is requested or not as the share's price moves, so that the strategy chooses between
  two, one or none, with or without a quote.
- `strat_equity`: one month per bar and an average over two bars make the
  reallocation turn over on three of the four bars. Cash of 340 and bars of which
  two rise (`RisingBars`) make it hold more of one stock than its new share, so
  that it sells down, sells out and buys in one step.
- `data`: daily, hourly (two minutes long) and minute bars; the second session
  closes early, the third comes after a weekend; files are complete, daily,
  gapped, with a row twice, sparse at the start of each day, or empty.
- `store`: two candidates per strategy and three rounds make retention bite, as one
  strategy can propose two kinds a round; the five timestamps are of two days.
  `WindowSize` 4 is more than a day's bars, as 500 is more than the 288 of a day
  of five-minute bars, and more than the three bars of a run: a window that
  is full is left to the proof.
- `provider`: a token lives for 2 units, is renewed in the last, an answer takes
  at most 1, and the clock has 2 to go after the start: one of the pollers, both at once, or
  an earlier process renews it, and it is about to die again at the end.
- `broadcast`: two clients and two messages per task are what it takes for
  one to leave while the other is next, and for a second message to follow it.
  Two candles are of one day or the second begins another, after which the
  first can no longer be asked for.
- `observer`: three bars fill the window of 3, and a bar shown twice pushes another out.
  Instances too large to run each time hold as well: a window of 2, which the server's
  own bars overflow (1.4 million states), and a second opening of the link after a loss (14 million).

**Fairness.** `StrategyLoop`: weak fairness of a step of the loop, as `run_backtest` is a
loop that waits for nothing. `Broadcast`: weak fairness of `Register` and
`Unregister`, as the event loop resumes an endpoint whose `accept` or `receive`
is done; sends are not assumed to end: a stuck client may hold a broadcast
for ever. `SchwabProvider`: weak fairness of what each actor does next
(`Progress`), as httpx answers or gives up, `asyncio.sleep` ends, and the consumer of
a bar comes back; the process may stop at any time, new candles and the passing
of time are not assumed. No other specification has a liveness property.
Deadlock is not checked in `provider` alone, where an app whose clock has run out
and whose pollers have ended may wait for ever.

## 4. The proofs

All theorems are about the specifications the runs check, for arbitrary constants
under the named ASSUMEs, which TLC evaluates on each run.

- `PortfolioProofs`: types; `AttributionReconciles` (cash flow plus remaining
  cost is booked PnL, per instrument), inductive together with the types
  (`AccountInv`), one lemma per operation; `RealizedOnlyOnClose`;
  `EquityReconciles`. The last is about sums over the instruments, which are
  folds: that a sum exists and moves with the one instrument that moves
  (`SumExists`, `TotalCostMoves`) is proved by induction on the finite set, as the
  least counterexample under strict inclusion would have a smaller one. Lemmas
  about sums (`SumOfSubset`, `SumCombines`, `SumAgrees`, `SumChanges`) serve the ledger too.
- `LedgerProofs`: `RoundTripsAgree`, `ReportAddsUp`, `DrawdownsAgree`, and that a reported
  run is a run of the account (`ReportIsAccount`), with attribution, equity and
  `RealizedOnlyOnClose` in it. The inductive invariant `ReportInv` says that the account
  and the ledger, which never read each other, keep together: a position is
  what the open lots of its instrument hold and its cash flow what the trades
  made less what those lots cost (`LedgerFollows`), and cash is the initial cash and the
  flow of all instruments less the fees (`CashAddsUp`). `TurnoverInv` counts each unit where it
  was bought and where it was sold. `ReportAddsUp` takes prices that
  are not negative, as the summary adds up magnitudes where a trade has signs;
  `ReportIsAccount` that marks are prices. The drawdown is a fold over the points; by
  induction on their number it has the running peak and the deepest fall so far,
  which are the chart's point by point.
- `BacktestProofs`: `LoopTypeOK`, attribution through the whole loop, and the
  refinement of `OrderFlow` with its promises (`OnePlace`, `OutcomesFinal`). The
  theorems are about `EngineSpec`, the loop in which the orders of a step are any
  of their type, up to the bound on their number; `Spec => EngineSpec`. The refinement needs more than types: that ids in the
  queue, in the batch and in the result differ, and that a phase with a batch has no
  queue it could meet. The inductive invariant `LoopInv` conjoins these
  (`StageInv`, `OrderInv`, `StateInv`); the step proof has one case per action.
  Then, on top of `OrdersInv` (`StateInv` and `OrderInv`): `FilledOnTheNextBar`, `FilledFromOwnBar`,
  `FillsHaveEvents`, `WaterMarkOnlyTightens`, `ExitClosesPosition`,
  `ExitAfterEntryBar`, `StopsGuardPositions`, `ExpiredAreSettled`,
  `AssignmentNeverShortsShares` and `EquityReconciles`. `LineInv` follows an order: what is queued or worked
  at the open came from the step before and is a market order, what is worked
  within a step is not held over, and all fills but those held over are in the
  events of the step or of an earlier one. `StopInv`: a stop armed in this step has no
  water mark yet. `GuardInv`: a stop visited and kept has its position, and no stop is
  left unvisited when the step is marked. `ExpiryInv`: what is due is yet to settle or is a
  short call without its shares. Assumed where the code needs it: `OnTime` (no
  futures data with gaps) of the two properties about the age of a price, no
  options of `StopsGuardPositions`, and options of `ExpiredAreSettled`.
- `StrategyProofs`: `StrategySpec => EngineSpec`, so that every theorem above holds
  of the loop with each strategy of the repository; it takes that a strategy
  never asks for more than `MaxOrders` orders (`StrategyAssumption`). Then what a
  strategy promises, although its orders are filled after it has asked:
  `IdsTellOrdersApart`, `LongOnly`, `NeverAddsToPosition`, `CallsCovered`. `KeptInv` says of each
  strategy what its outstanding orders may be in view of the position they will
  meet: a sale of the allocation is of no more than is held (`AllocatingInv`), the
  trend follower waits for one order and only while flat (`FollowingInv`), the covered
  call has bought its shares before it is short of one call (`CoveringInv`).
  `NoRepeatInSight` under `~Gaps`, for any length of the window against the
  session: a breakout is not signalled again at a bar whose window reaches back to the
  session's start (`InSight`). `RememberingInv` says that the bars are consecutive
  and that they show every breakout of the day that was signalled as long as they
  reach back so far. Beyond that, and with gaps, it is signalled again: `v_orb`, section 5.
- `DataProofs`: `AnsweredAsOf`, `NoLookahead`, `StepsAreBarEnds`. `DataInv` says that what
  the cache holds is the file's series and that the last snapshot is the one the
  whole files give at one of the steps. For the clock, lemmas about its operators: the members of a set in
  ascending order (`AscendingIs`), sequences one after the other (`Flattened`), sums
  over the sessions (`SumTakes`), and the hours of a session, which `count_times` counts by number
  and `iter_times` by time (`HoursAgree`). `ClockAssumption` has the calendar's
  sessions in order, none overlapping the next; `DataAssumption` has finite files of
  whole prices, in units in which the mid of a crossed quote is whole too.
- `ObserverProofs`: of the store `OnePerKind`, `RetentionBound`, `LeavesForAReason` and
  types; the first two again inside the whole observer; and that a browser at rest shows what the server has: `QuoteCurrent`,
  `BarsComplete`, `ActiveShown`. All three follow one argument. A change is
  `Accounted` for if the browser has heard of it, or is going to by a snapshot it
  has still to ask for, or that has yet to be made, or was made since. While the link stays
  open, a change no message of which is under way any more is accounted for, and remains so
  (`NothingLost`, `StaysAccounted`). `QuoteInv`, `BarsInv` and `CandidatesInv` say of the
  last quote, of each bar and of each candidate that it is under way, or accounted
  for, and shown once the page has loaded (`Loaded`). They hold after the bar task has
  died too, but for the bar and the candidates it had nobody told of (`Announced`, `Untold`).
  For bars the order matters: messages are under way in the bars' order (`OrderInv`) and
  an older bar is never sent without the later ones behind it (`BarKept`), so that when an
  old one is shown again all later ones follow, and whatever has pushed a bar out of a full
  window is newer than it (`Settled`; `RisingSettles`, `WindowSettles` for the two ways to get there).
- `ServerProofs`, the rest of the observer's server. Of the fan-out: `InOrder`, `OpenStaysRegistered`, `EveryoneTried` and types.
  A connection can have the message of a broadcast under way only if its
  iterator has passed that connection (`WireInv`): since `list.remove` moves
  entries to the front and `append` adds at the end (`RemovingKeeps`,
  `AheadOfGrown`), none passed is ever ahead again. Who has not been registered
  yet has received nothing (`EndpointInv`), the dead have gone (`DeadInv`), and
  the audience of an undisturbed broadcast has been tried or is ahead (`TriedInv`).
  Of the strategies: `SignalsFirstBreakouts`. While bars come in order, a bar is
  signalled exactly if it is the first of its day's session to close outside the range on its
  side, whatever days the window reaches back over and although other symbols' bars share
  the state (`Undisturbed` is the exception that section 5 names); and the range is that of the
  session's first bar while the window holds no earlier day (`v_or` shows what happens otherwise).
  `OrbInv` says of the state kept from bar to bar what can be read off the window: the sides on
  which it has fired are those on which a bar of the day closed outside (over `WindowInv`: bars are in
  order, none is of a later day). A window that is full reaches beyond the day
  (`DayFits`), so that no bar of a day is lost to it. `StrategiesAssumption` has what
  this rests on: a close within its bar's range, times of day that grow within a day,
  and fewer bars a day than the window takes. `StrategiesKeepStore`: under any
  configured roster the store keeps `OnePerKind`, `RetentionBound` and `LeavesForAReason`,
  since the strategies propose one candidate of a kind among them
  (`ReturnedOnePerKind`), also in a round that the service ends half-way.
- `ProviderProofs`: `FirstRequestAuthorised`, `CandlesOnceInOrder` and types, from
  `ProviderInv`. A token is never dated to live longer than it does by more than
  `Patience` (`TokenInv`), which the margin makes up for; this rests on a
  request being out exactly while its actor waits, and never longer than
  `Patience` (`RequestInv`). What was handed to the engine and what is still to
  hand over are candles in order up to the last timestamp, with gaps only
  where a day ended and no candle beyond the current one (`BarInv`): nothing is skipped
  within a day however often a round fails and begins again.
  The assumptions are `ProviderAssumption`'s: `Patience` is at most `Margin` and below
  `Lifetime`, and a saved token is not dated beyond its lifetime.

Induction is on sets throughout: the set of the numbers, or of the subsets of a finite
set, that have a property is shown to be all of them (`NatInductionSet`,
`SubsetInduction`, from the well-foundedness of `<` and of inclusion). The prover knows
nothing of sorting and filtering sequences, therefore `Clock` has sets, put in order by
`Ascending`, where the code goes through them in order.

Only model-checked: liveness, which is out of the prover's reach (`QueuedOrdersAreWorked`,
`KeepsAsking`, `EndTogether`, `GoneAreForgotten`). Every other property of a passing run is
proved.

## 5. Where code and docs disagree

Runs show these:

1. `v_orb`: the opening range breakout is signalled again in the same session once
   its range or the first breakout has slid out of the window, which reaches back 80
   minutes of 390 (strategizer `orb_5m.py:56`); "Once per direction per session (no repeat
   signals)" (`plans/030_orb_in_strategizer.md:50`).
2. `v_or`: the observer's opening range may be that of an earlier day's bar in
   the window (observer `orb_5m.py:132`); "the first 5-minute bar of the RTH session" (`:3`).

Seen while modelling; where a property would be about it, it excepts the case,
as named:

*Accounting and orders*

- an assigned short call books the intrinsic value in PnL besides moving the
  shares at the strike (`backtester/.../accounting.py:62`; `distorted` in `AttributionReconciles`);
- a fill larger than the position keeps the old average price for the rest
  (`accounting.py:78`; `distorted`), and the ledger drops the rest
  altogether (`trades.py:174`; `unmatched`), against its docstring (62-65);
- a short call that cannot be delivered is counted as assigned and stays open
  (`accounting.py:41`; `ExpiredAreSettled`);
- cash can go below zero: the orders of a batch are judged each by the whole
  cash (`broker.py:94`), at the close while they fill at the next open plus spread
  and fees (`broker.py:63`); reallocation is "Long-only, no leverage, no shorting"
  (`plans/263_tactical_asset_allocation.md:144`; `LongOnly` is the last of these);
- with a missing bar a futures order fills at an open already past, and marks and
  trailing stops use the old bar (`engine.py:115`; `FilledOnTheNextBar`);
- stop orders and trailing exits of the main symbol may be judged by another
  symbol's bar (`engine.py:127`; `FilledFromOwnBar`);
- fills of held-back orders have no FILL event (`engine.py:445`; `FillsHaveEvents`);
- a trailing stop survives when its position is closed and reopened
  between two evaluations (`trailing_stop.py:63`), and the entry bar is skipped
  also for entries at its open (`trailing_stop.py:71`);
- a lookback of n bars is turned into n bars' lengths of wall time
  (`engine.py:56`), which nights and weekends take their share of; "number of bars
  needed per timeframe" (`plans/050_observer_strategy_interface_dummy.md:74`);
- the opening range breakout is also signalled again when the bar of the first one
  was missing, and in every step without a bar, as the last one is then
  evaluated again (strategizer `orb_5m.py:131`, `engine.py:115`; `NoRepeatInSight`);
- the covered call may choose a requested contract that has no quote, and its order
  is then rejected although another is quoted (`strategizer_adapter.py:205`; `CallsCovered`
  holds all the same);
- over HTTP the strategizer's breakout strategy reads bars of "1m" only while the
  observer sends "5m", and never signals; and the `step_index` it sends is the
  length of the window, not the step (`http_strategizer.py:152`).

*Reports*

- the entry fee of a lot is charged once for every close that takes part of it (`trades.py:178`);
- an open position without a mark in the last step is not listed as open (`ReportAddsUp`);
- realized PnL is first in, first out, unrealized PnL at average cost (`summary.py:152`);
- "P&L by Symbol" includes the open trades at their marks (`visualize.py`);
- the drawdown begins at the first recorded point, not at the initial cash, and its
  percentage is of the peak before the deepest fall, not the largest percentage;
- run folders carry the minute and may exist already (`reporter.py`), so that two runs of a minute
  share one, although "unique run folders" are promised (`reporter.py:221`);
- the files `md export` writes are not named as the provider expects
  (`provider.py:161`), and one `quotes.parquet` hides every contract's own CSV.

*Observer*

- a client leaving during a broadcast makes it pass over the next one
  (`ws_handler.py:36`; `disturbed` in `EveryoneTried`), and a client dropped by a
  broadcast makes its endpoint raise (`ws_handler.py:29`);
- a late snapshot reply overwrites newer quotes (`useMarketData.ts:23`; `QuoteCurrent`);
- bars in both a snapshot and a message are shown twice and can push others out
  (`useMarketData.ts:38`; `BarsComplete` says which, and where they stand), and expired or replaced candidates stay on screen (`useCandidates.ts:34`);
- a candle still forming when polled is taken once and never corrected
  (`schwab_provider.py:334`; `NewCandle` counts candles begun), and the candles of a day that ended while polls
  failed are never asked for (`schwab_provider.py:189`; `CandlesOnceInOrder` has the gap);
- one refused refresh ends both pollers for good (`schwab_provider.py:270`;
  `EndTogether`), and a token file cut off while it is written, or a failed connect,
  leaves a stub in place of the provider until someone logs in and starts again;
- an exception of a strategy ends the bar task (`wiring.py:66`) while the
  health route says "connected", and leaves what the other strategies of that round
  proposed in the store without the retention bound (`RetentionBound`);
- all symbols share the session state of the breakout strategy (observer
  `orb_5m.py:88`), and a bar of one symbol evaluates the last bar of the others again;
- after a restart bars already saved are saved again;
- `useHealth` asks once, although the status it shows changes.

## 6. What is left out, and what could follow

Floating point is replaced by integers; NaN checks, formatting, logging and
files' formats are left out; a snapshot's symbols and timeframes are one each in
`Observer`. Events other than FILL are output only. Annualised statistics of the summary are
left out. Not modelled at all:

- the runner and the configuration files of the backtester, read once before the
  run: what they can give is the constants of the runs;
- the simulated provider and the field mappers: no state that outlives a call;
- the observer's SQLite tables: appended to, never read back;
- the frontend's components, which render, and the download tools, command lines
  around third-party services.

What could follow: two browsers in `Observer`; a composition of `SchwabProvider` with
`Broadcast` in which a slow client holds up the poller that feeds it.
