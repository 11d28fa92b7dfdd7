---------------------------- MODULE DataProvider ----------------------------
(***************************************************************************)
(* What the simulation loop sees of the market: the steps of the clock,    *)
(* and at each the snapshot the engine builds from the file-based provider *)
(* (backtester/src/loader/provider.py, storage/file_loader.py;             *)
(* engine.py:31-60, 80-179).  The files do not change during a run.  A bar *)
(* is its timestamp, a quote its bid and ask; a contract stands for its    *)
(* canonical id.                                                           *)
(***************************************************************************)
EXTENDS Clock

CONSTANTS
    RunConfigs,   \* [timeframe, start, end, kind, policy, maxAge, lookback, supported]
    BarFiles,     \* underlying files: the rows' timestamps, and those that are there twice
    QuoteFiles,   \* option quotes: per contract, from quote_ts to [bid, ask]
    Contracts,    \* ids of options, and of a share that may be held
    Indexed,      \* those in metadata/index.csv
    Share,        \* the underlying's own id, which is no contract id
    Expiry, Strike, Spot, Band,   \* Band: sigma_limit in price, by days to expiry
    None

\* Prices are in units of half a cent: the mid of a crossed quote is one, too.
ASSUME DataAssumption ==
    /\ Indexed \subseteq Contracts \ {Share} /\ Share \in Contracts
    /\ \A r \in RunConfigs : r.timeframe \in Timeframes /\ {r.start, r.end, r.lookback} \subseteq Int
    /\ \A file \in BarFiles : file.rows \subseteq Int /\ IsFiniteSet(file.rows)
    /\ \A file \in QuoteFiles : \A c \in DOMAIN file :
         /\ DOMAIN file[c] \subseteq Int /\ IsFiniteSet(DOMAIN file[c])
         /\ \A t \in DOMAIN file[c] : LET q == file[c][t] IN
              q \in [bid : Int, ask : Int] /\ (q.bid > q.ask => (q.bid + q.ask) % 2 = 0)

VARIABLES
    run, rows, quotes,   \* the run's configuration and its files
    total, step,         \* count_times; steps taken
    status,              \* "running", "raised" or "done"
    frame,               \* _underlying_df_cache of the symbol: None until it is asked for
    cache,               \* _quotes_cache: the series loaded so far
    snapshot,            \* the last MarketSnapshot, its bar history beside it
    missing, crossed     \* diagnostics: missing quotes noted, crossed quotes sanitized

fileVars == <<run, rows, quotes, total>>
dataVars == <<fileVars, step, status, frame, cache, snapshot, missing, crossed>>

Steps == IterTimes(run.timeframe, run.start, run.end)

-----------------------------------------------------------------------------
(* get_underlying_bars *)

NoFrame == [rows |-> {}, twice |-> {}]
LoadedFrame == IF run.timeframe \in run.supported THEN rows ELSE NoFrame

\* Daily bars are compared by date, so that any time of the day will do.
InSlice(t, start, end) ==
    IF run.timeframe = "1d" THEN Within(DateOf(t), DateOf(start), DateOf(end))
    ELSE Within(t, start, end)

\* Mutant of Slice: the end is left to the caller.
SliceToTheEnd(start, end) == {t \in LoadedFrame.rows : DateOf(start) <= DateOf(t)}
Slice(start, end) == {t \in LoadedFrame.rows : InSlice(t, start, end)}

\* RAISE refuses an empty answer; Bars refuses timestamps that do not increase.
BarsRaise(start, end) ==
    \/ Slice(start, end) = {} /\ run.policy = "RAISE"
    \/ Slice(start, end) \cap LoadedFrame.twice # {}

-----------------------------------------------------------------------------
(* get_option_quotes *)

Series(c) == IF c \in DOMAIN quotes THEN quotes[c] ELSE <<>>

\* _warm_quote_cache reads what the cache lacks in one go when quotes are kept
\* in one file, _get_quote_series what it still lacks one by one: no data is
\* remembered as an empty series.
\* Mutant of Warmed: what the batch does not hold is set to no data.
WarmedAnew(ids) ==
    [c \in DOMAIN cache \cup ids |-> IF c \in ids \ DOMAIN cache THEN Series(c) ELSE <<>>]
Warmed(ids) ==
    [c \in DOMAIN cache \cup ids |-> IF c \in DOMAIN cache THEN cache[c] ELSE Series(c)]

TooOld(age) == run.maxAge # None /\ age > run.maxAge

\* Quote.from_raw: both sides of a crossed quote become its mid.
IsCrossed(q) == q.bid > q.ask
Uncrossed(q) ==
    LET mid == (q.bid + q.ask) \div 2
    IN  IF IsCrossed(q) THEN [bid |-> mid, ask |-> mid] ELSE q

Known(series, ts) == {t \in DOMAIN series : t <= ts}

\* _resolve_single_quote: a quote or a QuoteStatus
Without(reason) == [status |-> reason]
Resolve(series, ts) ==
    LET known == Known(series, ts) IN
    IF known = {} THEN Without("MISSING")
    ELSE IF TooOld(ts - Max(known)) THEN Without("STALE")
    ELSE Uncrossed(series[Max(known)])

Answers(ids, ts) == [c \in ids |-> Resolve(Warmed(ids)[c], ts)]

Handed(answers) == {c \in DOMAIN answers : "bid" \in DOMAIN answers[c]}

QuotesRaise(answers) == run.policy = "RAISE" /\ \E c \in DOMAIN answers : answers[c] = Without("STALE")

-----------------------------------------------------------------------------
(* Chains and metadata *)

Chain(ts) == {c \in Indexed : Expiry[c] > DateOf(ts)}

Near(c, ts) ==
    LET days == Max({Expiry[c] - DateOf(ts), 1})
    IN  Max({Strike[c] - Spot[ts], Spot[ts] - Strike[c]}) <= Band[days]
Filtered(ts) == {c \in Chain(ts) : Near(c, ts)}

\* get_contract_metadata of a position; what is not in the index is parsed.
\* The option's own id has its expiry, a share's does not parse.
MetadataRaises(c) == c \notin Indexed /\ run.policy = "RAISE"

-----------------------------------------------------------------------------
(* _build_step_snapshot *)

UnitOf(timeframe) == CASE timeframe = "1m" -> 1 [] timeframe = "1h" -> Hour [] OTHER -> Day

\* _lookback_to_timedelta: so many bars' lengths of wall time.
HistoryStart(ts) == Max({run.start, ts - run.lookback * UnitOf(run.timeframe)})

HasHistory == run.kind \in {"future", "multi"}

\* A future's bar is the last of its history, whichever step that is of.
BarAt(ts) ==
    LET current == IF run.kind = "future" THEN Slice(HistoryStart(ts), ts) ELSE Slice(ts, ts)
    IN  IF current = {} THEN None
        ELSE IF run.kind = "future" THEN Max(current) ELSE Min(current)

SnapshotRaises(ts) ==
    \/ run.policy = "RAISE" /\ run.timeframe \notin run.supported
    \/ run.kind # "future" /\ BarsRaise(ts, ts)
    \/ HasHistory /\ BarsRaise(HistoryStart(ts), ts)

\* The contracts the strategy or the configuration names, those near the
\* money, or all; and those that are held.
\* The filter needs a bar.
Requested(ts, held) ==
    IF run.kind # "option" THEN {{}}
    ELSE {base \cup (held \ {Share}) :
            base \in (SUBSET (Contracts \ {Share})) \cup {Chain(ts)}
                       \cup (IF BarAt(ts) = None THEN {} ELSE {Filtered(ts)})}

Snapshot(ts, ids) ==
    [ts |-> ts, bar |-> BarAt(ts), answers |-> Answers(ids, ts),
     history |-> IF HasHistory THEN Slice(HistoryStart(ts), ts) ELSE {}]

\* Whether the step dies: on its bars, its quotes, or the metadata of what is
\* held when expirations are looked for.
StepRaises(ts, ids, held) ==
    \/ SnapshotRaises(ts)
    \/ QuotesRaise(Answers(ids, ts))
    \/ run.kind = "option" /\ BarAt(ts) # None /\ \E c \in held : MetadataRaises(c)

-----------------------------------------------------------------------------
(* run_backtest's loop *)

NoSnapshot == [ts |-> None, bar |-> None, answers |-> <<>>, history |-> {}]

TakeStep(held) ==
    LET ts == Steps[step + 1] IN
    /\ status = "running" /\ step < Len(Steps)
    /\ frame' = LoadedFrame
    /\ \E ids \in Requested(ts, held) :
         IF StepRaises(ts, ids, held) THEN
           /\ status' = "raised"
           /\ UNCHANGED <<step, cache, snapshot, missing, crossed>>
         ELSE
           /\ step' = step + 1
           /\ cache' = Warmed(ids)
           /\ snapshot' = Snapshot(ts, ids)
           /\ LET answers == Answers(ids, ts) IN
              /\ missing' = missing + Cardinality(ids \ Handed(answers))
              /\ crossed' = crossed + Cardinality({c \in Handed(answers) :
                              LET s == Warmed(ids)[c] IN IsCrossed(s[Max(Known(s, ts))])})
           /\ UNCHANGED status
    /\ UNCHANGED fileVars

Finish ==
    /\ status = "running" /\ step = Len(Steps)
    /\ status' = "done"
    /\ UNCHANGED <<fileVars, step, frame, cache, snapshot, missing, crossed>>

Over == status # "running" /\ UNCHANGED dataVars

DataInit ==
    /\ run \in RunConfigs /\ rows \in BarFiles /\ quotes \in QuoteFiles
    /\ total = CountTimes(run.timeframe, run.start, run.end)
    /\ step = 0 /\ status = "running"
    /\ frame = None /\ cache = <<>> /\ snapshot = NoSnapshot /\ missing = 0 /\ crossed = 0

DataNext == (\E held \in SUBSET Contracts : TakeStep(held)) \/ Finish \/ Over

DataSpec == DataInit /\ [][DataNext]_dataVars

-----------------------------------------------------------------------------
(* Whatever was asked before and how the files are cached, every contract   *)
(* that is asked about is answered from the whole of its file as of the     *)
(* step: the latest quote by then, never crossed, or the reason there is    *)
(* none (provider.py:174-199, 296-350; "Never silently omit requested       *)
(* contracts", quotes.py:3).                                                *)
AnsweredAsOf ==
    \A c \in DOMAIN snapshot.answers :
      LET answer == snapshot.answers[c]
          past == {t \in DOMAIN Series(c) : t <= snapshot.ts}
          latest(t) == t \in past /\ \A u \in past : u <= t
      IN  IF c \notin Handed(snapshot.answers)
          THEN past = {} \/ \E t \in past : latest(t) /\ TooOld(snapshot.ts - t)
          ELSE /\ answer.bid <= answer.ask
               /\ \E t \in past : /\ latest(t) /\ ~TooOld(snapshot.ts - t)
                                  /\ answer.bid + answer.ask = Series(c)[t].bid + Series(c)[t].ask

(* No step sees a bar of a later one, in its history either: bars are of    *)
(* the step's time or before, daily ones of its date or before; and but for *)
(* a future the bar is the step's own (provider.py:201-237,                 *)
(* engine.py:106-130).                                                      *)
NoLookahead ==
    /\ \A t \in snapshot.history \cup ({snapshot.bar} \ {None}) : InSlice(t, run.start, snapshot.ts)
    /\ run.kind # "future" /\ snapshot.bar # None => InSlice(snapshot.bar, snapshot.ts, snapshot.ts)

(* The loop takes as many steps as it announced, unless it dies, and each   *)
(* at the end of a bar within the exchange's hours and the run's range,     *)
(* the session's close, early or not, among them                            *)
(* (clock.py:31-173, engine.py:356-374).                                    *)
StepsAreBarEnds ==
    /\ status = "done" => step = total
    /\ \A k \in DOMAIN Steps :
         /\ Within(Steps[k], run.start, run.end)
         /\ k > 1 => Steps[k - 1] < Steps[k]
         /\ \E i \in DOMAIN Sessions : Sessions[i].open < Steps[k] /\ Steps[k] <= Sessions[i].close
    /\ \A i \in DOMAIN Sessions :
         Within(Sessions[i].close, run.start, run.end) => \E k \in DOMAIN Steps : Steps[k] = Sessions[i].close
=============================================================================
