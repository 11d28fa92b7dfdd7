---------------------------- MODULE MCStrategies ----------------------------
(***************************************************************************)
(* Instances of StrategyLoop for TLC.  Prices are multiples of 32 and spreads   *)
(* and notional fees 1/16 of them, so that every average price within the   *)
(* bounds is a whole number: no run stops short of the end of its data.     *)
(***************************************************************************)
EXTENDS StrategyLoop

CONSTANTS main, other, call, later, put

Bars1(o, h, l, c) == [open |-> o, high |-> h, low |-> l, close |-> c]
Rise == Bars1(128, 192, 128, 192)
Fall == Bars1(128, 128, 64, 64)
Whipsaw == Bars1(128, 192, 64, 128)
Crash == Bars1(128, 128, 32, 32)
Climb == Bars1(128, 160, 128, 160)

Shape(inst, side, qty) ==
    [inst |-> inst, side |-> side, qty |-> qty, type |-> "market", limit |-> None, trail |-> None]
WithTrail(shape, ticks) == [shape EXCEPT !.trail = ticks]
StopAt(shape, level) == [shape EXCEPT !.type = "stop", !.limit = level]

\* A futures contract worth 2 per point, traded with trailing stops.
FutureMultiplier == [i \in Instruments |-> 2]
FutureBars == {Rise, Fall, Whipsaw, Crash}
FutureOrders == {WithTrail(Shape(main, "BUY", 1), 2), WithTrail(Shape(main, "SELL", 1), 2),
                 Shape(main, "SELL", 2), StopAt(WithTrail(Shape(main, "BUY", 1), 3), 160)}

NoFees == [i \in Instruments |-> 0]
OneAContract == [i \in Instruments |-> 1]
A16th == [i \in Instruments |-> 16]
UnitMultiplier == [i \in Instruments |-> 1]

\* Two stocks, either of which may miss a bar.
EquityBars == {Rise, Fall}
\* With two bars that rise, more may be held of a stock than its new share.
RisingBars == {Climb, Fall, Whipsaw}
EquityOrders == {Shape(main, "SELL", 1), Shape(other, "BUY", 1), Shape(other, "SELL", 1),
                 StopAt(Shape(main, "SELL", 1), 96)}

\* Options: two calls, the one after the other, and a put, two units of the share each.
OptionMultiplier == [i \in Instruments |-> IF i = main THEN 1 ELSE 2]
OptionBars == {Rise, Fall}
OptionQuotes == {[bid |-> 46, ask |-> 66]}
OptionOrders == {Shape(call, "SELL", 1), Shape(put, "BUY", 1),
                 WithTrail(Shape(main, "BUY", 2), 2)}
Strikes == [opt \in Options |-> IF opt = later THEN 160 ELSE 128]
Expiries == [opt \in Options |-> IF opt = call THEN 3 ELSE IF opt = later THEN 4 ELSE 2]
ByName == [opt \in Options |-> IF opt = put THEN "P" ELSE "C"]
\* The later call is out of reach when the share falls.
Bands == [p \in (MinPrice..MaxPrice) \X (1..MaxBars) |-> (p[1] * p[2]) \div 2]

\* A session of one-minute steps; a calendar with one step a month.
OneDay == [ts \in 1..MaxBars |-> 1]
Clock == [ts \in 1..MaxBars |-> ts]
=============================================================================
