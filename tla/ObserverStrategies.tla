------------------------- MODULE ObserverStrategies -------------------------
(***************************************************************************)
(* The strategies the observer evaluates on every bar (observer/backend/   *)
(* src/strategies/): how the configuration is made into a roster of them,  *)
(* and what each proposes.  They come between the market state, whose bars *)
(* they read, and the candidate store, which takes what they return.       *)
(*                                                                         *)
(* The opening range strategy keeps its range, and what it has signalled,  *)
(* from bar to bar and for all its symbols at once.  The strategizer's     *)
(* strategy of the same name, which keeps nothing, is OpeningRange.        *)
(*                                                                         *)
(* The bars of a symbol come once and in order of their time, which        *)
(* SchwabProvider shows of its bar poller; between symbols there is no     *)
(* order: the poller delivers all that is new of one before the next.      *)
(***************************************************************************)
EXTENDS CandidateStore, SequencesExt

CONSTANTS
    ConfigFiles,     \* what config.yaml may hold, None without one; no entries run any strategies
    DefaultSymbol,   \* "ESH26"
    Symbols, Specs,  \* symbols with bars; those of them with a contract spec
    WindowSize,      \* bars kept of a symbol: MarketState.max_window_size
    Shapes,          \* high, low and close of a bar
    DummyLifetime,   \* five minutes
    ServiceAnswers,  \* the key and lifetime of a signal of the HTTP service
    DayOf, TimeOfDay, SessionStart, SessionEnd, SessionEndOn, Tick,
    MinRangeTicks, MaxRangeTicks,
    AnyTimes,        \* bound: timestamps of bars for any strategies
    BarRounds,       \* bound: bars in an execution of configured strategies
    None

\* A bar closes within its range; the days are in the order of the times, and
\* each has fewer bars of five minutes than the window of 500 holds.
ASSUME StrategiesAssumption ==
    /\ WindowSize \in Nat \ {0}
    /\ {SessionStart, SessionEnd} \subseteq Int
    /\ DayOf[0] \in Int
    /\ \A ts \in Times : DayOf[ts] \in Int /\ TimeOfDay[ts] \in Int
    /\ \A ts, later \in Times : ts < later => DayOf[ts] <= DayOf[later]
    /\ \A bar \in Shapes : /\ bar \in [high : Int, low : Int, close : Int]
                           /\ bar.low <= bar.close /\ bar.close <= bar.high
    /\ \A day \in {DayOf[ts] : ts \in Times} :
         LET own == {ts \in Times : DayOf[ts] = day}
         IN  IsFiniteSet(own) /\ Cardinality(own) < WindowSize

VARIABLES
    roster,      \* Engine._strategies
    bars,        \* MarketState._bars, of the evaluation timeframe
    orb,         \* ORB5mStrategy: _session_date, _or_high and _or_low, _or_rejected, _fired
    inOrder      \* no bar so far was of an earlier day than the bar before it

strategyVars == <<roster, bars, orb, inOrder>>

-----------------------------------------------------------------------------
(* load_config and StrategyRegistry *)

DefaultEntry == [enabled |-> TRUE, watchlist |-> None, source |-> None, fits |-> TRUE]
DefaultLists == [futures_main |-> <<DefaultSymbol>>]

\* No file, or an empty one, runs the dummy strategy; one that is no mapping
\* stops the app.  What an entry leaves out has its default.
Loaded(file) ==
    IF file = None
    THEN [watchlists |-> DefaultLists, strategies |-> <<[name |-> "dummy"] @@ DefaultEntry>>]
    ELSE [watchlists |-> IF file.watchlists = <<>> THEN DefaultLists ELSE file.watchlists,
          strategies |-> [k \in DOMAIN file.strategies |-> file.strategies[k] @@ DefaultEntry]]

Discovered == {"orb_5m", "dummy"}

\* A watchlist that is not found leaves the constructor's default, as an
\* empty one does.
SymbolsOf(entry, lists) ==
    IF entry.watchlist \in DOMAIN lists /\ lists[entry.watchlist] # <<>>
    THEN lists[entry.watchlist] ELSE <<DefaultSymbol>>

\* Entries that are disabled, unknown, or have parameters their class does
\* not take are left out; the others keep the order of the configuration.
Instantiate(config) ==
    LET used(e) == e.enabled /\ (e.source = "strategizer" \/ (e.name \in Discovered /\ e.fits))
        made(e) == [name |-> IF e.source = "strategizer" THEN "http" ELSE e.name,
                    symbols |-> SymbolsOf(e, config.watchlists)]
        kept == SelectSeq(config.strategies, used)
    IN  [k \in DOMAIN kept |-> made(kept[k])]

\* Timestamps and lifetimes are numbers; NumStrategies is what a configuration
\* may have.
ASSUME RosterAssumption ==
    /\ AnyTimes \subseteq Times /\ DummyLifetime \in Int
    /\ \A ts \in Times : SessionEndOn[DayOf[ts]] \in Int
    /\ \A a \in ServiceAnswers : a[2] \in Int
    /\ \A file \in ConfigFiles : Len(Instantiate(Loaded(file))) \in 0..NumStrategies

-----------------------------------------------------------------------------
(* ORB5mStrategy *)

NoSession == [date |-> -1, range |-> {}, rejected |-> FALSE, fired |-> {}]

\* The range is the first bar's; ticks_between truncates to whole ticks.
Tradable(range) == (range.high - range.low) \div Tick \in MinRangeTicks..MaxRangeTicks

\* _is_rth_bar
IsRth(bar) == SessionStart < TimeOfDay[bar.ts] /\ TimeOfDay[bar.ts] <= SessionEnd

Breaks(bar, range, side) ==
    IF side = "BUY" THEN bar.close > range.high ELSE bar.close < range.low

\* _reset_session, on the first bar of another day
Entered(o, ts) == IF DayOf[ts] = o.date THEN o ELSE [NoSession EXCEPT !.date = DayOf[ts]]

\* _identify_or: the first bar of the window past the session's start in the
\* time of its day, whichever day that is.
Identified(o, window) ==
    LET rth == {k \in DOMAIN window : TimeOfDay[window[k].ts] > SessionStart}
        first == window[Min(rth)]
    IN  IF o.range # {} \/ o.rejected \/ rth = {} THEN o
        ELSE IF Tradable(first) THEN [o EXCEPT !.range = {first}]
        ELSE [o EXCEPT !.rejected = TRUE]

\* _check_breakout
\* Mutant of Outside: the bar need not close there.
Reaches(o, bar) ==
    {side \in {"BUY", "SELL"} : \E range \in o.range :
       IF side = "BUY" THEN bar.high > range.high ELSE bar.low < range.low}
Outside(o, bar) ==
    {side \in {"BUY", "SELL"} : \E range \in o.range : Breaks(bar, range, side)}

\* _evaluate_symbol
OrbStep(acc, windows, sym, ts) ==
    IF sym \notin Specs \/ windows[sym] = <<>> THEN acc ELSE
    LET bar == Last(windows[sym])
        now == Identified(Entered(acc.orb, ts), windows[sym])
        sides == IF IsRth(bar) THEN Outside(now, bar) \ now.fired ELSE {}
    IN  [orb |-> [now EXCEPT !.fired = @ \cup sides],
         keys |-> acc.keys \cup {<<sym, side>> : side \in sides}]

\* evaluate: one state for all symbols, which are taken in turn.
OrbEvaluates(o, windows, symbols, ts) ==
    FoldLeft(LAMBDA acc, sym : OrbStep(acc, windows, sym, ts), [orb |-> o, keys |-> {}], symbols)

-----------------------------------------------------------------------------
(* Engine.on_bar with configured strategies *)

\* get_context: the strategies read a copy of the windows, this bar included.
Seen == bars'

Named(name, last) == {s \in 1..last : roster[s].name = name}

\* A candidate of the opening range is valid until the session's end on the
\* day of ts.
BrokenOut(s, breakouts, ts) ==
    {Candidate(s, key, ts, SessionEndOn[DayOf[ts]] - ts) : key \in breakouts.keys}

\* DummyStrategy.evaluate
Sampled(s, ts) ==
    LET sym == roster[s].symbols[1] IN
    IF Seen[sym] = <<>> THEN {} ELSE {Candidate(s, <<sym, "BUY">>, ts, DummyLifetime)}

\* HttpStrategizerAdapter: whatever the service answers, here at most one signal.
Answered(s, ts) == {{}} \cup {{Candidate(s, a[1], ts, a[2])} : a \in ServiceAnswers}

\* The first so many strategies of the roster return.
Returned(ts, last) ==
    LET broke == [s \in Named("orb_5m", last) |-> OrbEvaluates(orb, Seen, roster[s].symbols, ts)]
        own == (UNION {BrokenOut(s, broke[s], ts) : s \in DOMAIN broke})
                 \cup (UNION {Sampled(s, ts) : s \in Named("dummy", last)})
    IN  /\ \E answer \in [Named("http", last) -> UNION {Answered(s, ts) : s \in Named("http", last)}] :
             /\ \A s \in DOMAIN answer : answer[s] \in Answered(s, ts)
             /\ returned' = own \cup UNION {answer[s] : s \in DOMAIN answer}
        /\ orb' \in IF DOMAIN broke = {} THEN {orb} ELSE {broke[s].orb : s \in DOMAIN broke}

\* MarketState.update_bar, and the evaluation that follows
Observed(sym, ts, shape) ==
    /\ roster # <<>> /\ ~crashed /\ round < BarRounds
    /\ \A k \in DOMAIN bars[sym] : bars[sym][k].ts < ts
    /\ LET bar == [high |-> shape.high, low |-> shape.low, close |-> shape.close, ts |-> ts]
           grown == Append(bars[sym], bar)
       IN  bars' = [bars EXCEPT ![sym] =
                      IF Len(grown) > WindowSize THEN Tail(grown) ELSE grown]
    /\ round' = round + 1 /\ evaluatedAt' = ts
    /\ inOrder' = (inOrder /\ DayOf[evaluatedAt] <= DayOf[ts])
    /\ UNCHANGED roster

StrategiesReturn(sym, ts, shape) ==
    /\ Observed(sym, ts, shape)
    /\ Returned(ts, Len(roster))
    /\ Swept(ts)
    /\ UNCHANGED crashed

\* The service is not reached, times out or answers what cannot be read.
ServiceRaises(sym, ts, shape) ==
    /\ Observed(sym, ts, shape)
    /\ \E s \in Named("http", Len(roster)) : Returned(ts, s - 1)
    /\ candidates' = Added(candidates, returned')
    /\ crashed' = TRUE

\* Any strategies, as CandidateStore has them.
AnyStrategies ==
    /\ roster = <<>>
    /\ (\E ts \in AnyTimes : OnBar(ts) \/ OnBarRaises(ts)) \/ StoreStopped
    /\ UNCHANGED strategyVars

StrategiesStopped ==
    /\ roster # <<>>
    /\ \/ crashed \/ round = BarRounds
       \/ \A sym \in Symbols : bars[sym] # <<>> /\ Last(bars[sym]).ts = Max(Times)
    /\ UNCHANGED <<storeVars, strategyVars>>

StrategiesInit ==
    /\ StoreInit
    /\ \E file \in ConfigFiles : roster = Instantiate(Loaded(file))
    /\ bars = [sym \in Symbols |-> <<>>]
    /\ orb = NoSession /\ inOrder = TRUE

StrategiesNext ==
    \/ \E sym \in Symbols, ts \in Times, shape \in Shapes :
         StrategiesReturn(sym, ts, shape) \/ ServiceRaises(sym, ts, shape)
    \/ AnyStrategies
    \/ StrategiesStopped

StrategiesSpec == StrategiesInit /\ [][StrategiesNext]_<<storeVars, strategyVars>>

-----------------------------------------------------------------------------
\* The names of a configuration differ: there is no other of this one's.
OrbAlone(s, sym) ==
    Named("orb_5m", Len(roster)) = {s} /\ roster[s].symbols = <<sym>> /\ sym \in Specs

OfOneDay(window, day) == \A k \in DOMAIN window : DayOf[window[k].ts] = day

\* No bar of another symbol has had the strategy take the last bar of a day
\* before for one of this day.
Undisturbed(windows, sym, day) ==
    \/ OfOneDay(windows[sym], day)
    \/ \A other \in Symbols \ {sym} :
         \A k \in DOMAIN windows[other] : DayOf[windows[other][k].ts] # day

\* The first bar of the day past the session's start, if it is tradable.
FirstRange(window, day) ==
    LET late == {k \in DOMAIN window :
                   DayOf[window[k].ts] = day /\ TimeOfDay[window[k].ts] > SessionStart}
    IN  {window[k] : k \in {j \in late : Tradable(window[j]) /\ \A i \in late : j <= i}}

\* The last bar is the first of the day's session to close outside the range.
FirstBreakouts(window, ranges, day) ==
    LET outside(k, side) ==
          /\ DayOf[window[k].ts] = day /\ IsRth(window[k])
          /\ \E range \in ranges : Breaks(window[k], range, side)
    IN  {side \in {"BUY", "SELL"} :
           /\ outside(Len(window), side)
           /\ \A k \in DOMAIN window : outside(k, side) => k = Len(window)}

(* On a bar of its symbol the strategy signals a breakout on just the sides *)
(* on which this bar is the first of the day's session to close outside     *)
(* the range, and the range is that of the session's first bar as long as   *)
(* the window holds bars of the day alone: what the class says of itself    *)
(* (orb_5m.py:28-31), which it gets from state reset on a change of the     *)
(* day, by whichever symbol's bar, and kept through all others.             *)
SignalsFirstBreakouts ==
    [][ \A s \in DOMAIN roster, sym \in Symbols :
          LET window == bars'[sym]
              day == DayOf[evaluatedAt']
          IN  /\ OrbAlone(s, sym) /\ window # bars[sym] /\ ~crashed' /\ inOrder'
              /\ Undisturbed(bars', sym, day)
              => /\ {c.key : c \in Of(s, returned')}
                      = {<<sym, side>> : side \in FirstBreakouts(window, orb'.range, day)}
                 /\ OfOneDay(window, day) => orb'.range = FirstRange(window, day)
      ]_<<storeVars, strategyVars>>

(* What the module's docstring and the plan say of the range: it is that   *)
(* of the session's first bar (orb_5m.py:3-4).                             *)
RangeIsTodays == \A range \in orb.range : DayOf[range.ts] = orb.date
=============================================================================
