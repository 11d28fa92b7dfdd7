---------------------------- MODULE OpeningRange ----------------------------
(***************************************************************************)
(* The opening range breakout of the strategizer service, which keeps no   *)
(* state between calls: the range, and what it has signalled before, are   *)
(* derived from the bars it is given                                       *)
(* (strategizer/src/strategizer/strategies/orb_5m.py).                     *)
(***************************************************************************)
EXTENDS Integers, Sequences, FiniteSetsExt

CONSTANTS
    DayOf, TimeOfDay,          \* local date and time of a timestamp
    SessionStart, SessionEnd,
    OrBars,                    \* bars of the range: five, of a minute each
    Tick, MinRangeTicks, MaxRangeTicks

Highest(bars, rows) == Max({bars[k].high : k \in rows})
Lowest(bars, rows) == Min({bars[k].low : k \in rows})

\* All bars of the day that closed after the session's start, also past its
\* end, by their place; the first of them make the range.
RthBars(bars, day) ==
    {k \in DOMAIN bars : DayOf[bars[k].ts] = day /\ TimeOfDay[bars[k].ts] > SessionStart}
Opening(rth) == {k \in rth : Cardinality({j \in rth : j < k}) < OrBars}

RangeTicks(range) == (range.high - range.low) \div Tick
Tradable(range) == RangeTicks(range) \in MinRangeTicks..MaxRangeTicks

IsRth(bar) == SessionStart < TimeOfDay[bar.ts] /\ TimeOfDay[bar.ts] <= SessionEnd

Breaks(bar, range, side) ==
    IF side = "BUY" THEN bar.close > range.high ELSE bar.close < range.low

\* Mutant of Fired: a bar that broke out before is not looked for.
FiredNever(bars, prior, range, side) == FALSE
Fired(bars, prior, range, side) == \E k \in prior : Breaks(bars[k], range, side)

\* normalize_price rounds nothing here: prices, and so the range, are whole ticks.
EntryPrice(range, side) == IF side = "BUY" THEN range.high + Tick ELSE range.low - Tick

\* The sides on which the last bar is the first to close outside the range,
\* each with the level of its stop order.
Breakouts(bars) ==
    IF bars = <<>> THEN {} ELSE
    LET bar == bars[Len(bars)]
        rth == RthBars(bars, DayOf[bar.ts])
        opening == Opening(rth)
        range == [high |-> Highest(bars, opening), low |-> Lowest(bars, opening)]
        prior == rth \ (opening \cup {Len(bars)})
    IN  IF Cardinality(rth) <= OrBars THEN {} ELSE
        {[side |-> side, entry |-> EntryPrice(range, side)] :
           side \in {s \in {"BUY", "SELL"} :
                       /\ Tradable(range) /\ IsRth(bar)
                       /\ Breaks(bar, range, s) /\ ~Fired(bars, prior, range, s)}}
=============================================================================
