------------------------------- MODULE Clock --------------------------------
(***************************************************************************)
(* The times at which the backtester's simulation loop steps               *)
(* (backtester/src/clock/clock.py): the ends of the bars of the exchange's *)
(* sessions.  A minute is 1; the calendar of sessions is the library's.    *)
(***************************************************************************)
EXTENDS Integers, Sequences, FiniteSets, SequencesExt, FiniteSetsExt

CONSTANTS
    Sessions,   \* the calendar's sessions in order: [open, close]
    Hour, Day   \* their lengths

ASSUME ClockAssumption ==
    /\ Hour \in Nat \ {0} /\ Day \in Nat \ {0}
    /\ Sessions \in Seq([open : Int, close : Int])
    /\ \A k \in DOMAIN Sessions : Sessions[k].open < Sessions[k].close
    /\ \A j, k \in DOMAIN Sessions : j < k => Sessions[j].close < Sessions[k].open

Timeframes == {"1d", "1h", "1m"}

DateOf(t) == t \div Day
Within(t, start, end) == start <= t /\ t <= end

\* sessions_in_range: up to the day after the end.
SessionsInRange(start, end) ==
    {k \in DOMAIN Sessions :
      Within(DateOf(Sessions[k].close), DateOf(start), DateOf(end) + 1)}

Outside(s, start, end) == s.close < start \/ s.open > end

\* The ends of a session's hours: the last one may be cut short.
\* Mutant of HourEnds: an hour cut short is left out.
FullHourEnds(s) == {t \in (s.open + Hour)..s.close : (t - s.open) % Hour = 0}
HourEnds(s) == {t \in (s.open + Hour)..(s.close - 1) : (t - s.open) % Hour = 0} \cup {s.close}

\* Hours and minutes of a session out of range are skipped.
Skipped(s, timeframe, start, end) == timeframe # "1d" /\ Outside(s, start, end)

Ends(s, timeframe, start, end) ==
    IF Skipped(s, timeframe, start, end) THEN {} ELSE
    CASE timeframe = "1d" -> {s.close} \cap start..end
      [] timeframe = "1h" -> {t \in HourEnds(s) : Within(t, start, end)}
      [] timeframe = "1m" -> Max({start, s.open + 1})..Min({end, s.close})

Ascending(S) ==
    [n \in 1..Cardinality(S) |-> CHOOSE t \in S : Cardinality({u \in S : u < t}) = n - 1]

\* iter_times
IterTimes(timeframe, start, end) ==
    FlattenSeq([k \in DOMAIN Sessions |->
      IF k \in SessionsInRange(start, end) THEN Ascending(Ends(Sessions[k], timeframe, start, end))
      ELSE <<>>])

\* count_times, which goes through the hours by itself.
HoursCounted(s, start, end) ==
    Cardinality({n \in 1..((s.close - s.open - 1) \div Hour) : Within(s.open + n * Hour, start, end)})
      + (IF Within(s.close, start, end) THEN 1 ELSE 0)

EndsCounted(s, timeframe, start, end) ==
    IF Skipped(s, timeframe, start, end) THEN 0 ELSE
    CASE timeframe = "1d" -> IF Within(s.close, start, end) THEN 1 ELSE 0
      [] timeframe = "1h" -> HoursCounted(s, start, end)
      [] timeframe = "1m" -> Max({0, Min({end, s.close}) - Max({start, s.open + 1}) + 1})

CountTimes(timeframe, start, end) ==
    MapThenSumSet(LAMBDA k : EndsCounted(Sessions[k], timeframe, start, end),
                  SessionsInRange(start, end))
=============================================================================
