------------------------------ MODULE Portfolio ------------------------------
(***************************************************************************)
(* The shared portfolio package: average-cost accounting of fills,         *)
(* settlements and marks (portfolio/src/portfolio/accounting.py), and the  *)
(* backtester's physical assignment of a short call                        *)
(* (backtester/src/portfolio/accounting.py).                               *)
(*                                                                         *)
(* A PortfolioState is spread over the variables cash, positions,          *)
(* realized, unrealized and equity.  An instrument without an entry in the *)
(* dict `positions` is one whose position is Flat.  Money and prices are   *)
(* whole numbers of one price unit; the average price of an increased      *)
(* position must be a whole number too (see AddToPosition), so that float  *)
(* rounding is the only thing the arithmetic abstracts from.               *)
(*                                                                         *)
(* feesPaid, flow, booked and distorted are history variables: no action   *)
(* reads them.  They attribute cash and realized PnL to instruments.       *)
(***************************************************************************)
EXTENDS Integers, FiniteSetsExt

CONSTANTS
    Instruments,   \* instrument ids: symbols and option contract ids
    Multiplier,    \* contract value per instrument (1 share, 100 option, point value)
    InitialCash,
    MinPrice, MaxPrice,  \* bounds of the prices TLC looks for an average in
    Prices,        \* prices at which fills, marks and settlements happen
    Quantities,    \* fill quantities (validate_order admits positive ones only)
    Fees,          \* fees of a fill
    MaxQty,        \* bound: no position grows beyond this many units
    MaxFeesPaid,   \* bound: no fill once this much has been paid in fees
    NoMark         \* an instrument missing from a marks dict

ASSUME PortfolioAssumption ==
    /\ IsFiniteSet(Instruments)
    /\ Multiplier \in [Instruments -> Nat \ {0}]
    /\ InitialCash \in Int
    /\ MinPrice \in Int /\ MaxPrice \in Int
    /\ Prices \subseteq Int
    /\ Quantities \subseteq Nat \ {0}
    /\ Fees \subseteq Int
    /\ MaxQty \in Nat /\ MaxFeesPaid \in Nat

VARIABLES
    cash, positions, realized, unrealized, equity,
    feesPaid,      \* history: the sum of the fees of all fills
    flow,          \* history: net cash each instrument has brought in, fees aside
    booked,        \* history: realized PnL booked on each instrument
    distorted      \* history: instruments a flip or an assignment put out of balance

accountVars == <<cash, positions, realized, unrealized, equity,
                 feesPaid, flow, booked, distorted>>

Sides == {"BUY", "SELL"}
Position == [qty : Int, avg : Int]
Flat == [qty |-> 0, avg |-> 0]

Signed(side, qty) == IF side = "BUY" THEN qty ELSE -qty
Magnitude(n) == IF n < 0 THEN -n ELSE n
\* Mutant of SameDirection: shorts are never increased.
BothLong(q, s) == q > 0 /\ s > 0
SameDirection(q, s) == (q > 0) <=> (s > 0)
Lesser(m, n) == IF m < n THEN m ELSE n
CostBasis(i, pos) == pos[i].qty * pos[i].avg * Multiplier[i]
TotalCost(pos) == SumFunction([i \in Instruments |-> CostBasis(i, pos)])

-----------------------------------------------------------------------------
(* apply_fill: the three ways a signed quantity s at a price can meet the  *)
(* position held in i.                                                     *)

Open(i, s, price) ==
    /\ positions[i].qty = 0
    /\ positions' = [positions EXCEPT ![i] = [qty |-> s, avg |-> price]]
    /\ UNCHANGED <<realized, booked, distorted>>

\* The quotient total_cost / new_qty; the bound of whole prices is this guard.
AddToPosition(i, s, price) ==
    LET q == positions[i].qty IN
    /\ q # 0 /\ SameDirection(q, s)
    /\ \E avg \in MinPrice..MaxPrice :
         /\ avg * (q + s) = q * positions[i].avg + s * price
         /\ positions' = [positions EXCEPT ![i] = [qty |-> q + s, avg |-> avg]]
    /\ UNCHANGED <<realized, booked, distorted>>

ClosedQty(q, s) == Lesser(Magnitude(q), Magnitude(s))

\* PnL of closing n units of position p at a price, per unit of multiplier.
\* Mutant of Gain: short positions are treated like long ones.
GainOfLong(p, price, n) == (price - p.avg) * n
Gain(p, price, n) == (IF p.qty > 0 THEN price - p.avg ELSE p.avg - price) * n

\* Partial close, full close, or a flip through zero: what remains of a fill
\* larger than the position is kept at the average price of the closed one.
Flips(q, s) == Magnitude(s) > Magnitude(q)
Reduce(i, s, price) ==
    LET p == positions[i]
        gain == Gain(p, price, ClosedQty(p.qty, s)) * Multiplier[i]
    IN
    /\ p.qty # 0 /\ ~SameDirection(p.qty, s)
    /\ positions' = [positions EXCEPT ![i] =
                       IF p.qty + s = 0 THEN Flat ELSE [qty |-> p.qty + s, avg |-> p.avg]]
    /\ realized' = realized + gain
    /\ booked' = [booked EXCEPT ![i] = @ + gain]
    /\ distorted' = distorted \cup (IF Flips(p.qty, s) /\ price # p.avg THEN {i} ELSE {})

ApplyFill(i, side, qty, price, fee) ==
    LET s == Signed(side, qty) IN
    /\ \/ Open(i, s, price)
       \/ AddToPosition(i, s, price)
       \/ Reduce(i, s, price)
    /\ cash' = cash - s * price * Multiplier[i] - fee
    /\ feesPaid' = feesPaid + fee
    /\ flow' = [flow EXCEPT ![i] = @ - s * price * Multiplier[i]]
    /\ unrealized' = 0
    /\ equity' = cash' + TotalCost(positions')

-----------------------------------------------------------------------------
(* mark_to_market: a position without a mark is carried at cost.           *)
MarkedAt(i, marks) == IF marks[i] = NoMark THEN positions[i].avg ELSE marks[i]
TotalMark(marks) ==
    SumFunction([i \in Instruments |-> positions[i].qty * MarkedAt(i, marks) * Multiplier[i]])

MarkToMarket(marks) ==
    /\ unrealized' = TotalMark(marks) - TotalCost(positions)
    /\ equity' = cash + TotalMark(marks)
    /\ UNCHANGED <<cash, positions, realized, feesPaid, flow, booked, distorted>>

(* settle_positions, one entry of its dict: close at the given price.      *)
SettlePosition(i, price) ==
    LET p == positions[i]
        gain == Gain(p, price, Magnitude(p.qty)) * Multiplier[i]
    IN
    /\ p.qty # 0
    /\ cash' = cash + p.qty * price * Multiplier[i]
    /\ flow' = [flow EXCEPT ![i] = @ + p.qty * price * Multiplier[i]]
    /\ realized' = realized + gain
    /\ booked' = [booked EXCEPT ![i] = @ + gain]
    /\ positions' = [positions EXCEPT ![i] = Flat]
    /\ unrealized' = 0
    /\ equity' = cash' + TotalCost(positions')
    /\ UNCHANGED <<feesPaid, distorted>>

(* settle_physical_assignment of a short call `opt` on `sym`: one contract *)
(* worth of shares goes at the strike, whatever the number of contracts.   *)
\* Mutant of Deliverable: the shares are not looked for.
DeliverableUncovered(opt, sym) == positions[opt].qty < 0
Deliverable(opt, sym) == positions[opt].qty < 0 /\ positions[sym].qty >= Multiplier[opt]

SettlePhysical(opt, sym, strike, intrinsic) ==
    LET shares == Multiplier[opt]
        left == positions[sym].qty - shares
        shareGain == (strike - positions[sym].avg) * shares
        optionGain == (positions[opt].avg - intrinsic) * Magnitude(positions[opt].qty)
                        * Multiplier[opt]
    IN
    /\ opt # sym /\ Deliverable(opt, sym)
    /\ positions' = [positions EXCEPT
                       ![opt] = Flat,
                       ![sym] = IF left = 0 THEN Flat ELSE [qty |-> left, avg |-> @.avg]]
    /\ cash' = cash + strike * shares
    /\ flow' = [flow EXCEPT ![sym] = @ + strike * shares]
    /\ realized' = realized + shareGain + optionGain
    /\ booked' = [booked EXCEPT ![sym] = @ + shareGain, ![opt] = @ + optionGain]
    /\ unrealized' = 0
    /\ equity' = cash' + TotalCost(positions')
    /\ distorted' = distorted \cup (IF intrinsic # 0 THEN {opt} ELSE {})
    /\ UNCHANGED feesPaid

-----------------------------------------------------------------------------
AccountInit ==
    /\ cash = InitialCash
    /\ positions = [i \in Instruments |-> Flat]
    /\ realized = 0
    /\ unrealized = 0
    /\ equity = InitialCash
    /\ feesPaid = 0
    /\ flow = [i \in Instruments |-> 0]
    /\ booked = [i \in Instruments |-> 0]
    /\ distorted = {}

Fill ==
    /\ feesPaid < MaxFeesPaid
    /\ \E i \in Instruments, side \in Sides, qty \in Quantities, price \in Prices, fee \in Fees :
         /\ Magnitude(positions[i].qty + Signed(side, qty)) <= MaxQty
         /\ ApplyFill(i, side, qty, price, fee)

Mark == \E marks \in [Instruments -> Prices \cup {NoMark}] : MarkToMarket(marks)

Settle == \E i \in Instruments, price \in Prices : SettlePosition(i, price)

\* Shares carry multiplier 1; intrinsic is what the strike is in the money by.
Assign ==
    \E opt, sym \in Instruments, strike, close \in Prices :
      /\ Multiplier[sym] = 1 /\ close > strike
      /\ SettlePhysical(opt, sym, strike, close - strike)

AccountNext == Fill \/ Mark \/ Settle \/ Assign

AccountSpec == AccountInit /\ [][AccountNext]_accountVars

-----------------------------------------------------------------------------
(* Types.  equity and unrealized are sums over the positions and are pinned *)
(* down by EquityReconciles instead.                                        *)
AccountTypeOK ==
    /\ cash \in Int /\ realized \in Int /\ feesPaid \in Int
    /\ positions \in [Instruments -> Position]
    /\ flow \in [Instruments -> Int]
    /\ booked \in [Instruments -> Int]
    /\ distorted \subseteq Instruments

(* Per instrument, the cash it brought in plus what is still invested at    *)
(* cost is exactly the PnL booked on it, through any sequence of opens,     *)
(* adds, partial closes, closes and settlements, unless a flip or a         *)
(* physical assignment distorted it (accounting.py:74-91, 141-179).         *)
AttributionReconciles ==
    \A i \in Instruments \ distorted : flow[i] + CostBasis(i, positions) = booked[i]

(* The figures a report shows agree with each other at every point: equity  *)
(* is initial cash plus realized and unrealized PnL less fees, as long as   *)
(* no flip or physical assignment has distorted the books.                  *)
EquityReconciles ==
    distorted = {} => equity = InitialCash + realized + unrealized - feesPaid

(* PnL is only ever booked when a position gets closer to flat or crosses   *)
(* zero: opening, increasing and marking realize nothing.                   *)
RealizedOnlyOnClose ==
    [][ realized' # realized =>
          \E i \in Instruments :
             /\ positions[i].qty # 0
             /\ \/ Magnitude(positions'[i].qty) < Magnitude(positions[i].qty)
                \/ ~(positions'[i].qty > 0 <=> positions[i].qty > 0) ]_accountVars
=============================================================================
