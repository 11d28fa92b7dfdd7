--------------------------- MODULE BacktestProofs ---------------------------
(***************************************************************************)
(* Theorems about Backtest for every universe of instruments, market,      *)
(* strategy, fee schedule and length of run: the loop implements OrderFlow *)
(* and keeps the books of Portfolio in balance; and what it promises of    *)
(* prices, events, trailing stops and expiries.                            *)
(*                                                                         *)
(* They are about EngineSpec, the loop with any orders of a strategy that  *)
(* are of their type and number: Spec is one of its refinements, and so    *)
(* are the loops with the repository's own strategies (StrategyProofs).    *)
(*                                                                         *)
(* The inductive invariant has three parts: the types of the loop and of   *)
(* the account, what each stage may rely on (StageInv), and where the ids  *)
(* of orders are (OrderInv).                                               *)
(***************************************************************************)
EXTENDS Backtest, PortfolioProofs, SequenceTheorems, TLAPS

\* Between stages: what has been emptied, and what has not begun.
StageInv ==
    /\ phase \in {"idle", "expiry", "done"} => batch = <<>>
    /\ phase = "open" => pending = <<>> /\ visited = {}
    /\ phase \in {"open", "step", "expiry"} => now >= 1
    /\ expired # {} => phase = "expiry" /\ MainBar # NoBar /\ InstrumentType = "option"

Distinct(orders) ==
    \A j, k \in DOMAIN orders : orders[j].id = orders[k].id => j = k

\* An id is never both outstanding and in the result, and ids of this step
\* appear only once on_step has been called.
OrderInv ==
    /\ Distinct(pending) /\ Distinct(batch)
    /\ Ids(pending) \cap Ids(batch) = {}
    /\ resultOrders \cap (Ids(pending) \cup Ids(batch)) = {}
    /\ FilledIds \subseteq resultOrders
    /\ \A id \in resultOrders \cup Ids(pending) \cup Ids(batch) :
         id.ts <= now /\ (phase = "open" => id.ts < now)
    /\ \A id \in Ids(pending) \cup Ids(batch) : id.kind # "trailing"
    /\ \A id \in resultOrders :
         phase = "step" /\ id.kind = "trailing" /\ id.ts = now => id.k \in visited

LoopInv == LoopTypeOK /\ StageInv /\ OrderInv /\ AccountInv

-----------------------------------------------------------------------------
(* The loop with any strategy at all: what it submits is any orders of the  *)
(* instruments, of any quantity and level.  Whatever is proved of EngineSpec *)
(* holds of every strategy that keeps to the number of orders.              *)

Shape == [inst : Instruments, side : Sides, qty : Nat,
          type : {"market", "stop"}, limit : Int \cup {None}, trail : Nat \cup {None}]
AtOnce == {o \in Shape : WorkedNow(o)}
Later == {o \in Shape : ~WorkedNow(o)}

Submits ==
    /\ phase = "open" /\ batch = <<>>
    /\ \E n \in 0..MaxOrders : \E m \in 0..(MaxOrders - n) :
         \E worked \in [1..n -> AtOnce], held \in [1..m -> Later] :
           batch' = Issue(worked, 0) /\ pending' = Issue(held, n)
    /\ batchCash' = cash
    /\ phase' = "step"
    /\ UNCHANGED <<accountVars, now, bars, quotes, stops, visited, expired, resultVars>>

EngineNext ==
    \/ BuildSnapshot \/ FillOrder \/ RejectOrder \/ Submits \/ EvaluateStop
    \/ MarkStep \/ SettleExpired \/ EndStep \/ Finish \/ Returned

EngineSpec == Init /\ [][EngineNext]_vars

LEMMA OnStepSubmits == OnStep => Submits
<1> SUFFICES ASSUME OnStep PROVE Submits
  OBVIOUS
<1>1. Worked \subseteq AtOnce /\ HeldBack \subseteq Later
  BY BacktestAssumption DEF BacktestAssumption, Worked, HeldBack, AtOnce, Later, Shape
<1>2. PICK n \in 0..MaxOrders : \E m \in 0..(MaxOrders - n) :
         \E worked \in [1..n -> Worked], held \in [1..m -> HeldBack] :
           batch' = Issue(worked, 0) /\ pending' = Issue(held, n)
  BY DEF OnStep
<1>3. PICK m \in 0..(MaxOrders - n) :
         \E worked \in [1..n -> Worked], held \in [1..m -> HeldBack] :
           batch' = Issue(worked, 0) /\ pending' = Issue(held, n)
  BY <1>2
<1>4. PICK worked \in [1..n -> Worked], held \in [1..m -> HeldBack] :
           batch' = Issue(worked, 0) /\ pending' = Issue(held, n)
  BY <1>3
<1>5. worked \in [1..n -> AtOnce] /\ held \in [1..m -> Later]
  BY <1>1
<1> QED
  BY <1>4, <1>5 DEF OnStep, Submits

(* Backtest's own strategy, which may ask for any of OrderShapes, is one.   *)
THEOREM BacktestIsEngine == Spec => EngineSpec
<1>1. [Next]_vars => [EngineNext]_vars
  BY OnStepSubmits DEF Next, Step, EngineNext
<1> QED
  BY <1>1, PTL DEF Spec, EngineSpec

-----------------------------------------------------------------------------
(* The snapshot and the prices taken from it *)

LEMMA InstrumentKinds ==
    /\ Options \subseteq Instruments
    /\ Symbol \in Universe /\ FirstSymbol \in Universe
    /\ Symbol \in Instruments /\ FirstSymbol \in Instruments
    /\ Symbol \notin Options
  BY BacktestAssumption DEF BacktestAssumption, Options

LEMMA MainBarType ==
    ASSUME LoopTypeOK, MainBar # NoBar
    PROVE  MainBar \in Bar
  BY InstrumentKinds DEF LoopTypeOK, MainBar

LEMMA NormalizeType ==
    ASSUME NEW price \in Int, NEW tick \in Nat \ {0}
    PROVE  Normalize(price, tick) \in Int
<1>1. price \div tick \in Int
  OBVIOUS
<1> DEFINE k == price \div tick
           up == \/ 2 * (price % tick) > tick
                 \/ 2 * (price % tick) = tick /\ k % 2 = 1
<1>2. Normalize(price, tick) = (IF up THEN k + 1 ELSE k) * tick
  BY DEF Normalize
<1> HIDE DEF k, up
<1>3. (IF up THEN k + 1 ELSE k) \in Int
  BY <1>1 DEF k
<1> QED
  BY <1>2, <1>3

LEMMA StopPriceType ==
    ASSUME LoopTypeOK, NEW o \in Order, StopApplies(o)
    PROVE  StopPrice(o) \in Int \cup {None}
<1>1. MainBar \in Bar /\ MainBar.open \in Int
  BY MainBarType DEF StopApplies, Bar
<1>2. o.limit \in Int
  BY DEF StopApplies, Order
<1>3. StopPrice(o) \in {o.limit, MainBar.open, None}
  BY DEF StopPrice
<1> QED
  BY <1>1, <1>2, <1>3

LEMMA PartOfType ==
    ASSUME NEW n \in Int, NEW part \in Nat
    PROVE  PartOf(n, part) \in Int
  BY DEF PartOf

LEMMA WithSpreadType ==
    ASSUME NEW mid \in Int, NEW side
    PROVE  WithSpread(mid, side) \in Int
<1>1. SpreadPart \in Nat
  BY BacktestAssumption
<1>2. PartOf(mid, SpreadPart) \in Int
  BY <1>1, PartOfType
<1> QED
  BY <1>2 DEF WithSpread

LEMMA RawPriceType ==
    ASSUME LoopTypeOK, NEW o \in Order, NEW useOpen \in BOOLEAN
    PROVE  RawPrice(o, useOpen) \in Int \cup {None}
<1> DEFINE bar == BarOf(o.inst)
           quote == quotes[o.inst]
<1>1. CASE StopApplies(o)
  BY <1>1, StopPriceType DEF RawPrice
<1>2. CASE ~StopApplies(o) /\ bar # NoBar
  <2>1. bar \in Bar
    BY <1>2, MainBarType, InstrumentKinds DEF BarOf, LoopTypeOK
  <2>2. bar.open \in Int /\ bar.close \in Int
    BY <2>1 DEF Bar
  <2> DEFINE mid == IF useOpen THEN bar.open ELSE bar.close
  <2>3. mid \in Int
    BY <2>2
  <2>4. ~(o.inst \in Options /\ ~MultiSymbol)
    BY <1>2, InstrumentKinds DEF BarOf
  <2>5. RawPrice(o, useOpen) = WithSpread(mid, o.side)
    BY <1>2, <2>4 DEF RawPrice
  <2> QED
    BY <2>3, <2>5, WithSpreadType
<1>3. CASE /\ ~StopApplies(o) /\ bar = NoBar
           /\ o.inst \in Options /\ ~MultiSymbol /\ quote # NoQuote
  <2>1. quote \in [bid : Int, ask : Int]
    BY <1>3, BacktestAssumption DEF BacktestAssumption, LoopTypeOK
  <2>2. quote.bid \in Int /\ quote.ask \in Int
    BY <2>1
  <2>3. RawPrice(o, useOpen) \in {quote.ask, quote.bid, WithSpread(quote.bid, o.side)}
    BY <1>3 DEF RawPrice
  <2> QED
    BY <2>2, <2>3, WithSpreadType
<1>4. CASE /\ ~StopApplies(o) /\ bar = NoBar
           /\ ~(o.inst \in Options /\ ~MultiSymbol /\ quote # NoQuote)
  BY <1>4 DEF RawPrice
<1> QED
  BY <1>1, <1>2, <1>3, <1>4

LEMMA PriceType ==
    ASSUME LoopTypeOK, NEW o \in Order, Price(o) # None
    PROVE  Price(o) \in Int
<1> DEFINE raw == RawPrice(o, phase = "open")
<1>1. raw \in Int \cup {None}
  BY RawPriceType
<1>2. TickSize \in Nat \ {0}
  BY BacktestAssumption DEF BacktestAssumption
<1>3. Price(o) = (IF raw # None /\ InstrumentType = "future" THEN Normalize(raw, TickSize)
                  ELSE raw)
  BY DEF Price, FillPrice
<1>4. CASE raw = None
  BY <1>3, <1>4
<1>5. CASE raw # None
  <2>1. raw \in Int
    BY <1>1, <1>5
  <2>2. Normalize(raw, TickSize) \in Int
    BY <2>1, <1>2, NormalizeType
  <2> QED
    BY <1>3, <2>1, <2>2
<1> QED
  BY <1>4, <1>5

LEMMA IntrinsicType ==
    ASSUME LoopTypeOK, MainBar # NoBar, NEW opt \in Options
    PROVE  Intrinsic(opt) \in Int
<1>1. MainBar.close \in Int
  BY MainBarType DEF Bar
<1>2. Strike[opt] \in Int
  BY BacktestAssumption DEF BacktestAssumption
<1> QED
  BY <1>1, <1>2 DEF Intrinsic

LEMMA FeesType ==
    ASSUME NEW o \in Order, NEW price \in Int
    PROVE  ComputeFees(o, price) \in Int
<1>1. /\ PerContract[o.inst] \in Int /\ PerOrder[o.inst] \in Int /\ o.qty \in Int
      /\ FeePart[o.inst] \in Nat
  BY BacktestAssumption DEF BacktestAssumption, Order
<1>2. Multiplier[o.inst] \in Int
  BY PortfolioAssumption DEF Order
<1>3. Magnitude(price * o.qty * Multiplier[o.inst]) \in Int
  BY <1>1, <1>2 DEF Magnitude
<1> DEFINE part == PartOf(Magnitude(price * o.qty * Multiplier[o.inst]), FeePart[o.inst])
<1>4. part \in Int
  BY <1>1, <1>3, PartOfType
<1>5. ComputeFees(o, price) = PerContract[o.inst] * o.qty + PerOrder[o.inst] + part
  BY DEF ComputeFees
<1> HIDE DEF part
<1> QED
  BY <1>1, <1>4, <1>5

-----------------------------------------------------------------------------
(* Batches: sequences of orders with distinct ids *)

LEMMA HeadOfBatch ==
    ASSUME NEW orders \in Seq(Order), orders # <<>>
    PROVE  /\ Head(orders) \in Order /\ Head(orders) = orders[1]
           /\ Head(orders).id \in Ids(orders)
           /\ Tail(orders) \in Seq(Order)
<1>1. Len(orders) \in Nat /\ Len(orders) >= 1 /\ DOMAIN orders = 1..Len(orders)
  OBVIOUS
<1>2. Head(orders) = orders[1] /\ orders[1] \in Order
  BY <1>1
<1>3. orders[1].id \in Ids(orders)
  BY <1>1 DEF Ids
<1>4. Tail(orders) \in Seq(Order)
  OBVIOUS
<1> QED
  BY <1>2, <1>3, <1>4

LEMMA TailOfBatch ==
    ASSUME NEW orders \in Seq(Order), orders # <<>>, Distinct(orders)
    PROVE  /\ Distinct(Tail(orders))
           /\ Ids(Tail(orders)) = Ids(orders) \ {Head(orders).id}
<1> DEFINE n == Len(orders)
           rest == Tail(orders)
<1>1. n \in Nat /\ n >= 1 /\ DOMAIN orders = 1..n /\ Head(orders) = orders[1]
  OBVIOUS
<1>2. rest \in Seq(Order) /\ Len(rest) = n - 1 /\ DOMAIN rest = 1..(n - 1)
  OBVIOUS
<1>3. \A k \in DOMAIN rest : rest[k] = orders[k + 1] /\ k + 1 \in DOMAIN orders /\ k \in Int
  BY <1>1, <1>2
<1>4. \A k \in DOMAIN orders : k # 1 => k - 1 \in DOMAIN rest /\ rest[k - 1] = orders[k]
  BY <1>1, <1>2, <1>3
<1> HIDE DEF rest
<1>5. Distinct(rest)
  <2> SUFFICES ASSUME NEW j \in DOMAIN rest, NEW k \in DOMAIN rest, rest[j].id = rest[k].id
               PROVE  j = k
    BY DEF Distinct
  <2>1. j + 1 = k + 1
    BY <1>3 DEF Distinct
  <2> QED
    BY <2>1, <1>3
<1>6. \A k \in DOMAIN rest : rest[k].id \in Ids(orders) /\ rest[k].id # orders[1].id
  <2> SUFFICES ASSUME NEW k \in DOMAIN rest
               PROVE  rest[k].id \in Ids(orders) /\ rest[k].id # orders[1].id
    OBVIOUS
  <2>1. rest[k] = orders[k + 1] /\ k + 1 \in DOMAIN orders /\ k + 1 # 1 /\ 1 \in DOMAIN orders
    BY <1>1, <1>2, <1>3
  <2> QED
    BY <2>1 DEF Ids, Distinct
<1>7. Ids(rest) \subseteq Ids(orders) \ {Head(orders).id}
  BY <1>1, <1>6 DEF Ids
<1>8. Ids(orders) \ {Head(orders).id} \subseteq Ids(rest)
  <2> SUFFICES ASSUME NEW k \in DOMAIN orders, orders[k].id # orders[1].id
               PROVE  orders[k].id \in Ids(rest)
    BY <1>1 DEF Ids
  <2>1. k - 1 \in DOMAIN rest /\ rest[k - 1] = orders[k]
    BY <1>4
  <2> QED
    BY <2>1 DEF Ids
<1> QED
  BY <1>5, <1>7, <1>8 DEF rest

LEMMA IdsType ==
    ASSUME NEW orders \in Seq(Order)
    PROVE  Ids(orders) \subseteq OrderIds
<1>1. \A k \in DOMAIN orders : orders[k] \in Order
  OBVIOUS
<1> QED
  BY <1>1 DEF Ids, Order

LEMMA NoIds == Ids(<<>>) = {} /\ Distinct(<<>>) /\ <<>> \in Seq(Order)
  BY DEF Ids, Distinct

(* on_step: orders in the queue or the batch are fresh and distinct. *)
LEMMA IssuedOrders ==
    ASSUME LoopTypeOK, now >= 1, NEW n \in Nat, NEW m \in Nat, n + m <= MaxOrders,
           NEW shapes \in [1..m -> Shape]
    PROVE  /\ Issue(shapes, n) \in Seq(Order)
           /\ Distinct(Issue(shapes, n))
           /\ \A id \in Ids(Issue(shapes, n)) :
                id \in OrderIds /\ id.ts = now /\ id.kind # "trailing" /\ id.k \in (n + 1)..(n + m)
<1> DEFINE orders == Issue(shapes, n)
<1>0. MaxOrders \in Nat /\ MaxBars \in Nat /\ now \in 1..MaxBars
  BY BacktestAssumption DEF BacktestAssumption, LoopTypeOK
<1>1. DOMAIN orders = 1..m
  BY DEF Issue
<1>2. ASSUME NEW k \in 1..m
      PROVE  /\ orders[k] \in Order
             /\ orders[k].id.ts = now /\ orders[k].id.kind # "trailing"
             /\ orders[k].id.k = n + k
             /\ orders[k].id \in OrderIds
  <2>1. shapes[k] \in [inst : Instruments, side : Sides, qty : Nat,
                       type : {"market", "stop"}, limit : Int \cup {None},
                       trail : Nat \cup {None}]
    BY DEF Shape
  <2>2. k \in DOMAIN shapes
    OBVIOUS
  <2>3. orders[k] = [id |-> [kind |-> shapes[k].type, ts |-> now, k |-> n + k],
                     inst |-> shapes[k].inst, side |-> shapes[k].side, qty |-> shapes[k].qty,
                     type |-> shapes[k].type, limit |-> shapes[k].limit,
                     trail |-> shapes[k].trail]
    BY <2>2 DEF Issue
  <2>4. n + k \in 1..MaxOrders
    BY <1>0
  <2> HIDE DEF orders
  <2>5. orders[k].id = [kind |-> shapes[k].type, ts |-> now, k |-> n + k]
    BY <2>3
  <2>6. orders[k].id \in OrderIds
    BY <1>0, <2>1, <2>4, <2>5 DEF OrderIds
  <2>7. orders[k].id.ts = now /\ orders[k].id.kind # "trailing" /\ orders[k].id.k = n + k
    BY <2>1, <2>5
  <2>8. orders[k] \in Order
    BY <2>1, <2>3, <2>6 DEF Order
  <2> QED
    BY <2>6, <2>7, <2>8
<1>3. orders = [k \in 1..m |-> orders[k]]
  BY <1>1 DEF Issue
<1> HIDE DEF orders
<1>4. orders \in [1..m -> Order]
  BY <1>2, <1>3
<1>5. orders \in Seq(Order)
  BY <1>4, SeqDef
<1>6. Distinct(orders)
  <2> SUFFICES ASSUME NEW j \in 1..m, NEW k \in 1..m, orders[j].id = orders[k].id
               PROVE  j = k
    BY <1>1 DEF Distinct
  <2>1. n + j = n + k
    BY <1>2
  <2> QED
    BY <2>1
<1>7. \A id \in Ids(orders) :
        id \in OrderIds /\ id.ts = now /\ id.kind # "trailing" /\ id.k \in (n + 1)..(n + m)
  BY <1>1, <1>2 DEF Ids
<1> QED
  BY <1>5, <1>6, <1>7 DEF orders

-----------------------------------------------------------------------------
(* Each action keeps the types, the books in balance and StageInv *)

StateInv == LoopTypeOK /\ StageInv /\ AccountInv

LEMMA StageFrame ==
    ASSUME UNCHANGED bars
    PROVE  MainBar' = MainBar
  BY DEF MainBar, MultiSymbol

LEMMA AccountFrame == AccountInv /\ UNCHANGED accountVars => AccountInv'
  BY MarkKeepsInv DEF accountVars

LEMMA BuildSnapshotKeeps == StateInv /\ BuildSnapshot => StateInv'
<1> SUFFICES ASSUME StateInv, BuildSnapshot PROVE StateInv'
  OBVIOUS
<1> USE DEF StateInv
<1>1. now \in Nat /\ MaxBars \in Nat /\ now < MaxBars /\ now' = now + 1 /\ now' \in 1..MaxBars
  <2>1. MaxBars \in Nat
    BY BacktestAssumption DEF BacktestAssumption
  <2>2. now \in 0..MaxBars /\ now < MaxBars /\ now' = now + 1
    BY DEF LoopTypeOK, BuildSnapshot
  <2> QED
    BY <2>1, <2>2
<1>2. bars' \in [Universe -> Bar \cup {NoBar}]
  <2>1. ASSUME NEW sym \in Universe, NEW bar \in BarsAt(sym, now + 1)
        PROVE  bar \in Bar \cup {NoBar}
    <3>1. CASE \E shape \in BarShapes : bar = BarAt(now + 1, shape)
      BY <1>1, <3>1, BacktestAssumption DEF BacktestAssumption, BarAt, Bar
    <3>2. CASE bar = AbsentBar(sym, now + 1)
      BY <3>2 DEF AbsentBar, LoopTypeOK
    <3> QED
      BY <3>1, <3>2 DEF BarsAt
  <2>2. \A sym \in Universe : bars'[sym] \in Bar \cup {NoBar}
    BY <2>1 DEF BuildSnapshot
  <2>3. bars' = [sym \in Universe |-> bars'[sym]]
    BY DEF BuildSnapshot
  <2> QED
    BY <2>2, <2>3
<1>3. quotes' \in [Options -> QuotePairs \cup {NoQuote}]
  BY DEF BuildSnapshot
<1>4. LoopTypeOK'
  BY <1>1, <1>2, <1>3, NoIds DEF BuildSnapshot, TakePending, LoopTypeOK, resultVars
<1>5. StageInv'
  <2>1. expired' = {}
    BY DEF BuildSnapshot, StageInv
  <2>2. phase' = "open" /\ pending' = <<>> /\ visited' = {} /\ now' >= 1
    BY <1>1 DEF BuildSnapshot, TakePending
  <2> QED
    BY <2>1, <2>2 DEF StageInv
<1> QED
  BY <1>4, <1>5, AccountFrame DEF BuildSnapshot

LEMMA AcceptedOrder ==
    ASSUME LoopTypeOK, NEW o \in Order, Accepted(o)
    PROVE  /\ o.inst \in Instruments /\ o.side \in Sides /\ o.qty \in Nat \ {0}
           /\ Price(o) \in Int /\ ComputeFees(o, Price(o)) \in Int
           /\ FillOf(o) \in [order : OrderIds, ts : Int, inst : Instruments,
                             source : Instruments, priced : Int]
<1>1. o.inst \in Instruments /\ o.side \in Sides /\ o.qty \in Nat \ {0} /\ o.id \in OrderIds
  BY DEF Order, Accepted, ValidateOrder
<1>2. Price(o) \in Int /\ ComputeFees(o, Price(o)) \in Int
  BY PriceType, FeesType DEF Accepted
<1>3. o.inst = Symbol => MainBar.ts \in Int
  <2>1. o.inst = Symbol => MainBar # NoBar
    BY InstrumentKinds DEF Accepted, ValidateOrder, InstrumentAvailable, MainBar
  <2> QED
    BY <2>1, MainBarType DEF Bar
<1>4. now \in Int
  BY DEF LoopTypeOK
<1>5. BarOwner(o.inst) \in Instruments
  BY <1>1, InstrumentKinds DEF BarOwner
<1> QED
  BY <1>1, <1>2, <1>3, <1>4, <1>5 DEF FillOf

LEMMA FillOrderKeeps == StateInv /\ FillOrder => StateInv'
<1> SUFFICES ASSUME StateInv, FillOrder PROVE StateInv'
  OBVIOUS
<1> DEFINE o == Head(batch)
<1>1. o \in Order /\ Tail(batch) \in Seq(Order) /\ batch # <<>>
  BY HeadOfBatch DEF StateInv, LoopTypeOK, FillOrder
<1>2. /\ Accepted(o)
      /\ ApplyFill(o.inst, o.side, o.qty, Price(o), ComputeFees(o, Price(o)))
      /\ stops' = IF o.trail = None THEN stops ELSE [stops EXCEPT ![o.inst] = ArmedBy(o)]
      /\ resultFills' = resultFills \cup {FillOf(o)}
      /\ resultOrders' = resultOrders \cup {o.id}
      /\ batch' = Tail(batch)
      /\ UNCHANGED <<now, phase, bars, quotes, pending, batchCash, visited, expired, eventFills>>
  BY DEF FillOrder
<1> HIDE DEF o
<1>3. AccountInv'
  BY <1>1, <1>2, AcceptedOrder, ApplyFillKeepsInv DEF StateInv
<1>4. stops' \in [Instruments -> TrailingState \cup {None}]
  <2>1. CASE o.trail = None
    BY <1>2, <2>1 DEF StateInv, LoopTypeOK
  <2>2. CASE o.trail # None
    <3>1. o.trail \in Nat /\ o.inst \in Instruments
      BY <1>1, <2>2 DEF Order
    <3>2. ArmedBy(o) \in TrailingState
      BY <3>1 DEF ArmedBy, TrailingState, StateInv, LoopTypeOK
    <3> QED
      BY <1>2, <2>2, <3>1, <3>2 DEF StateInv, LoopTypeOK
  <2> QED
    BY <2>1, <2>2
<1>5. o.id \in OrderIds
  BY <1>1 DEF Order
<1>6. LoopTypeOK'
  BY <1>1, <1>2, <1>4, <1>5, AcceptedOrder DEF StateInv, LoopTypeOK
<1>7. StageInv'
  BY <1>1, <1>2, StageFrame DEF StateInv, StageInv
<1> QED
  BY <1>3, <1>6, <1>7 DEF StateInv

LEMMA RejectOrderKeeps == StateInv /\ RejectOrder => StateInv'
<1> SUFFICES ASSUME StateInv, RejectOrder PROVE StateInv'
  OBVIOUS
<1>1. Head(batch).id \in OrderIds /\ Tail(batch) \in Seq(Order) /\ batch # <<>>
  BY HeadOfBatch DEF StateInv, LoopTypeOK, RejectOrder, Order
<1>2. LoopTypeOK'
  BY <1>1 DEF StateInv, LoopTypeOK, RejectOrder
<1>3. StageInv'
  BY <1>1, StageFrame DEF StateInv, StageInv, RejectOrder
<1> QED
  BY <1>2, <1>3, AccountFrame DEF StateInv, RejectOrder

LEMMA SubmitsKeeps == StateInv /\ Submits => StateInv'
<1> SUFFICES ASSUME StateInv, Submits PROVE StateInv'
  OBVIOUS
<1>1. MaxOrders \in Nat /\ now >= 1
  BY BacktestAssumption DEF BacktestAssumption, StateInv, StageInv, Submits
<1>2. PICK n \in 0..MaxOrders : \E m \in 0..(MaxOrders - n) :
         \E worked \in [1..n -> AtOnce], held \in [1..m -> Later] :
           batch' = Issue(worked, 0) /\ pending' = Issue(held, n)
  BY DEF Submits
<1>3. PICK m \in 0..(MaxOrders - n) :
         \E worked \in [1..n -> AtOnce], held \in [1..m -> Later] :
           batch' = Issue(worked, 0) /\ pending' = Issue(held, n)
  BY <1>2
<1>4. PICK worked \in [1..n -> AtOnce], held \in [1..m -> Later] :
           batch' = Issue(worked, 0) /\ pending' = Issue(held, n)
  BY <1>3
<1>5. worked \in [1..n -> Shape] /\ held \in [1..m -> Shape]
  BY DEF AtOnce, Later
<1>6. n \in Nat /\ m \in Nat /\ 0 \in Nat /\ 0 + n <= MaxOrders /\ n + m <= MaxOrders
  BY <1>1
<1>7. batch' \in Seq(Order) /\ pending' \in Seq(Order)
  BY <1>1, <1>4, <1>5, <1>6, IssuedOrders DEF StateInv
<1>8. LoopTypeOK'
  BY <1>7 DEF StateInv, LoopTypeOK, Submits, resultVars
<1>9. StageInv'
  BY <1>1, StageFrame DEF StateInv, StageInv, Submits
<1> QED
  BY <1>8, <1>9, AccountFrame DEF StateInv, Submits

-----------------------------------------------------------------------------
LEMMA StopTypes ==
    ASSUME LoopTypeOK, StageInv, Evaluating, NEW i \in Instruments, stops[i] # None
    PROVE  /\ stops[i] \in TrailingState
           /\ Water(stops[i]) \in Int /\ Threshold(i) \in Int
           /\ TickOf(i) \in Nat \ {0}
           /\ Normalize(Threshold(i), TickOf(i)) \in Int
<1>1. stops[i] \in TrailingState
  BY DEF LoopTypeOK
<1>2. MainBar.high \in Int /\ MainBar.low \in Int
  BY MainBarType DEF Evaluating, Bar
<1>3. stops[i].water \in Int \cup {None} /\ stops[i].ticks \in Nat
  BY <1>1 DEF TrailingState
<1>4. Water(stops[i]) \in Int
  BY <1>2, <1>3 DEF Water
<1>5. TickOf(i) \in Nat \ {0}
  BY BacktestAssumption DEF BacktestAssumption, TickOf
<1>6. stops[i].ticks * TickOf(i) \in Int
  BY <1>3, <1>5
<1>7. Threshold(i) \in Int
  BY <1>4, <1>6 DEF Threshold
<1> QED
  BY <1>1, <1>4, <1>5, <1>7, NormalizeType

LEMMA DisarmedType ==
    ASSUME LoopTypeOK, NEW i \in Instruments
    PROVE  Disarmed(i) \in [Instruments -> TrailingState \cup {None}]
  BY DEF LoopTypeOK, Disarmed

\* In the trailing stage the other parts of StageInv do not depend on stops.
LEMMA EvaluatingFrame ==
    ASSUME StageInv, Evaluating, UNCHANGED <<now, phase, bars, pending, batch, expired>>
    PROVE  StageInv'
  BY StageFrame DEF StageInv, Evaluating

LEMMA DropStopKeeps ==
    ASSUME StateInv, NEW i \in Instruments, DropStop(i) PROVE StateInv'
<1>1. LoopTypeOK'
  BY DisarmedType DEF StateInv, LoopTypeOK, DropStop, Visits, resultVars
<1>2. StageInv'
  BY EvaluatingFrame DEF StateInv, DropStop, Visits
<1> QED
  BY <1>1, <1>2, AccountFrame DEF StateInv, DropStop

LEMMA SkipEntryBarKeeps ==
    ASSUME StateInv, NEW i \in Instruments, SkipEntryBar(i) PROVE StateInv'
<1>1. LoopTypeOK'
  BY DEF StateInv, LoopTypeOK, SkipEntryBar, Visits, resultVars
<1>2. StageInv'
  BY EvaluatingFrame DEF StateInv, SkipEntryBar, Visits
<1> QED
  BY <1>1, <1>2, AccountFrame DEF StateInv, SkipEntryBar

LEMMA TrailStopKeeps ==
    ASSUME StateInv, NEW i \in Instruments, TrailStop(i) PROVE StateInv'
<1>1. stops[i] \in TrailingState /\ Water(stops[i]) \in Int
  BY StopTypes DEF StateInv, TrailStop, Visits
<1>2. [stops[i] EXCEPT !.water = Water(stops[i])] \in TrailingState
  BY <1>1 DEF TrailingState
<1>3. stops' = [stops EXCEPT ![i] = [stops[i] EXCEPT !.water = Water(stops[i])]]
  BY DEF TrailStop
<1>4. stops' \in [Instruments -> TrailingState \cup {None}]
  BY <1>2, <1>3 DEF StateInv, LoopTypeOK
<1>5. LoopTypeOK'
  BY <1>4 DEF StateInv, LoopTypeOK, TrailStop, Visits, resultVars
<1>6. StageInv'
  BY EvaluatingFrame DEF StateInv, TrailStop, Visits
<1> QED
  BY <1>5, <1>6, AccountFrame DEF StateInv, TrailStop

LEMMA ExitIdType ==
    ASSUME LoopTypeOK, StageInv, Evaluating, NEW i \in Instruments
    PROVE  ExitId(i) \in OrderIds
<1>1. now \in 1..MaxBars
  BY BacktestAssumption DEF BacktestAssumption, LoopTypeOK, StageInv, Evaluating
<1> QED
  BY <1>1 DEF ExitId, OrderIds

LEMMA ExitStopKeeps ==
    ASSUME StateInv, NEW i \in Instruments, ExitStop(i) PROVE StateInv'
<1> DEFINE side == IF positions[i].qty > 0 THEN "SELL" ELSE "BUY"
           price == Normalize(Threshold(i), TickOf(i))
           fill == [order |-> ExitId(i), ts |-> now, inst |-> i, source |-> BarOwner(Symbol),
                    priced |-> MainBar.ts]
<1>1. /\ Evaluating /\ stops[i] # None
      /\ positions[i].qty # 0
      /\ ApplyFill(i, side, ExitQty(i), price, 0)
      /\ stops' = Disarmed(i)
      /\ resultFills' = resultFills \cup {fill}
      /\ resultOrders' = resultOrders \cup {ExitId(i)}
      /\ visited' = visited \cup {i}
      /\ UNCHANGED <<now, phase, bars, quotes, pending, batch, expired>>
  BY DEF ExitStop, Visits
<1>2. side \in Sides
  BY DEF Sides
<1>3. ExitQty(i) \in Nat \ {0}
  BY <1>1, InstrumentTypes DEF StateInv, AccountInv, ExitQty, Magnitude
<1>4. price \in Int
  BY <1>1, StopTypes DEF StateInv
<1>5. AccountInv'
  BY <1>1, <1>2, <1>3, <1>4, ApplyFillKeepsInv DEF StateInv
<1>6. ExitId(i) \in OrderIds
  BY <1>1, ExitIdType DEF StateInv
<1>7. fill \in [order : OrderIds, ts : Int, inst : Instruments, source : Instruments, priced : Int]
  <2>1. MainBar.ts \in Int /\ now \in Int
    BY <1>1, MainBarType DEF StateInv, Evaluating, Bar, LoopTypeOK
  <2>2. BarOwner(Symbol) \in Instruments
    BY InstrumentKinds DEF BarOwner
  <2> QED
    BY <1>6, <2>1, <2>2
<1>8. stops' \in [Instruments -> TrailingState \cup {None}]
  BY <1>1, DisarmedType DEF StateInv
<1> HIDE DEF side, price, fill
<1>9. LoopTypeOK'
  BY <1>1, <1>6, <1>7, <1>8 DEF StateInv, LoopTypeOK
<1>10. StageInv'
  BY <1>1, EvaluatingFrame DEF StateInv
<1> QED
  BY <1>5, <1>9, <1>10 DEF StateInv

LEMMA MarkStepKeeps == StateInv /\ MarkStep => StateInv'
<1> SUFFICES ASSUME StateInv, MarkStep PROVE StateInv'
  OBVIOUS
<1>1. LoopTypeOK'
  BY DEF StateInv, LoopTypeOK, MarkStep, Expired, resultVars
<1>2. StageInv'
  BY StageFrame DEF StateInv, StageInv, MarkStep, Expired
<1>3. AccountInv'
  BY MarkKeepsInv DEF StateInv, MarkStep, MarkToMarket
<1> QED
  BY <1>1, <1>2, <1>3 DEF StateInv

LEMMA SettleExpiredKeeps == StateInv /\ SettleExpired => StateInv'
<1> SUFFICES ASSUME StateInv, SettleExpired PROVE StateInv'
  OBVIOUS
<1>1. PICK opt \in expired :
        /\ AssignPhysical(opt) \/ SettleCash(opt)
        /\ expired' = expired \ {opt}
  BY DEF SettleExpired
<1>2. LoopTypeOK'
  BY <1>1 DEF StateInv, LoopTypeOK, SettleExpired, resultVars
<1>3. StageInv'
  BY <1>1, StageFrame DEF StateInv, StageInv, SettleExpired
<1>4. opt \in Options /\ opt \in Instruments /\ Symbol \in Instruments
  BY <1>1, InstrumentKinds DEF StateInv, LoopTypeOK
<1>5. MainBar # NoBar /\ InstrumentType = "option" /\ Multiplier[Symbol] = 1
  BY <1>1, BacktestAssumption DEF BacktestAssumption, StateInv, StageInv
<1>6. Intrinsic(opt) \in Int /\ Strike[opt] \in Int
  BY <1>4, <1>5, IntrinsicType, BacktestAssumption DEF BacktestAssumption, StateInv
<1>7. AccountInv'
  <2>1. CASE AssignPhysical(opt)
    <3>1. CASE Deliverable(opt, Symbol)
      BY <1>4, <1>5, <1>6, <2>1, <3>1, SettlePhysicalKeepsInv DEF AssignPhysical, StateInv
    <3>2. CASE ~Deliverable(opt, Symbol)
      BY <2>1, <3>2, AccountFrame DEF AssignPhysical, StateInv
    <3> QED
      BY <3>1, <3>2
  <2>2. CASE SettleCash(opt)
    BY <1>4, <1>6, <2>2, SettlePositionKeepsInv DEF SettleCash, StateInv
  <2> QED
    BY <1>1, <2>1, <2>2
<1> QED
  BY <1>2, <1>3, <1>7 DEF StateInv

LEMMA EndStepKeeps == StateInv /\ EndStep => StateInv'
<1> SUFFICES ASSUME StateInv, EndStep PROVE StateInv'
  OBVIOUS
<1>1. LoopTypeOK'
  BY DEF StateInv, LoopTypeOK, EndStep
<1>2. StageInv'
  BY StageFrame DEF StateInv, StageInv, EndStep
<1>3. AccountInv'
  BY MarkKeepsInv DEF StateInv, EndStep, MarkToMarket
<1> QED
  BY <1>1, <1>2, <1>3 DEF StateInv

LEMMA FinishKeeps == StateInv /\ Finish => StateInv'
<1> SUFFICES ASSUME StateInv, Finish PROVE StateInv'
  OBVIOUS
<1>1. LoopTypeOK'
  BY DEF StateInv, LoopTypeOK, Finish, resultVars
<1>2. StageInv'
  BY StageFrame DEF StateInv, StageInv, Finish
<1> QED
  BY <1>1, <1>2, AccountFrame DEF StateInv, Finish

LEMMA StutterKeeps == StateInv /\ UNCHANGED vars => StateInv'
<1> SUFFICES ASSUME StateInv, UNCHANGED vars PROVE StateInv'
  OBVIOUS
<1>1. LoopTypeOK'
  BY DEF StateInv, LoopTypeOK, vars, loopVars, resultVars
<1>2. StageInv'
  BY StageFrame DEF StateInv, StageInv, vars, loopVars
<1> QED
  BY <1>1, <1>2, AccountFrame DEF StateInv, vars

LEMMA NextKeepsState == StateInv /\ [EngineNext]_vars => StateInv'
  BY BuildSnapshotKeeps, FillOrderKeeps, RejectOrderKeeps, SubmitsKeeps,
     DropStopKeeps, SkipEntryBarKeeps, TrailStopKeeps, ExitStopKeeps,
     MarkStepKeeps, SettleExpiredKeeps, EndStepKeeps, FinishKeeps, StutterKeeps
     DEF EngineNext, EvaluateStop, Returned

LEMMA InitState == Init => StateInv
<1> SUFFICES ASSUME Init PROVE StateInv
  OBVIOUS
<1>1. 0 \in 0..MaxBars
  BY BacktestAssumption DEF BacktestAssumption
<1>2. LoopTypeOK
  BY <1>1, NoIds DEF Init, LoopInit, LoopTypeOK
<1>3. StageInv
  BY DEF Init, LoopInit, StageInv
<1> QED
  BY <1>2, <1>3, AccountInitInv DEF Init, StateInv

(* Types, stages and books hold in every execution of the loop              *)
(* (engine.py:74-172).                                                      *)
THEOREM StateInvariant == EngineSpec => []StateInv
  BY InitState, NextKeepsState, PTL DEF EngineSpec

(* Types of the loop's state, for every universe, market and strategy. *)
THEOREM LoopTypesCorrect == EngineSpec => []LoopTypeOK
<1>1. StateInv => LoopTypeOK
  BY DEF StateInv
<1> QED
  BY <1>1, StateInvariant, PTL

(* Whatever the loop does with orders, trailing stops and expiries, the     *)
(* cash an instrument brought in plus its cost basis is the PnL booked on   *)
(* it, unless a flip or a physical assignment distorted it.                 *)
THEOREM LoopKeepsAttribution == EngineSpec => []AttributionReconciles
<1>1. StateInv => AttributionReconciles
  BY DEF StateInv, AccountInv
<1> QED
  BY <1>1, StateInvariant, PTL

-----------------------------------------------------------------------------
(* Refinement: every step of the loop is a step of OrderFlow or leaves it   *)
(* alone, and OrderInv is what makes it so.                                 *)

FlowStep == [Flow!FlowNext]_(Flow!flowVars)

\* What the mapping reads; a step that changes none of it changes no order.
orderVars == <<pending, batch, resultOrders, resultFills>>

LEMMA FilledBy ==
    ASSUME NEW fill, resultFills' = resultFills \cup {fill}
    PROVE  FilledIds' = FilledIds \cup {fill.order}
  BY DEF FilledIds

LEMMA FlowFrame == UNCHANGED orderVars => FlowStep
<1> SUFFICES ASSUME UNCHANGED orderVars PROVE FlowStep
  OBVIOUS
<1>1. Ids(pending)' = Ids(pending) /\ Ids(batch)' = Ids(batch)
  BY DEF orderVars, Ids
<1>2. FilledIds' = FilledIds /\ resultOrders' = resultOrders
  BY DEF orderVars, FilledIds
<1> QED
  BY <1>1, <1>2 DEF FlowStep, Flow!flowVars

LEMMA OrderFrame ==
    ASSUME OrderInv, UNCHANGED orderVars, UNCHANGED now,
           phase' # "open" \/ UNCHANGED phase,
           phase' # "step" \/ (UNCHANGED phase /\ visited \subseteq visited')
    PROVE  OrderInv'
<1>1. /\ Ids(pending)' = Ids(pending) /\ Ids(batch)' = Ids(batch)
      /\ Distinct(pending)' = Distinct(pending) /\ Distinct(batch)' = Distinct(batch)
  BY DEF orderVars, Ids, Distinct
<1>2. FilledIds' = FilledIds /\ resultOrders' = resultOrders
  BY DEF orderVars, FilledIds
<1> QED
  BY <1>1, <1>2 DEF OrderInv

LEMMA BuildSnapshotFlow == StateInv /\ OrderInv /\ BuildSnapshot => OrderInv' /\ FlowStep
<1> SUFFICES ASSUME StateInv, OrderInv, BuildSnapshot PROVE OrderInv' /\ FlowStep
  OBVIOUS
<1>1. /\ batch = <<>> /\ batch' = pending /\ pending' = <<>>
      /\ now' = now + 1 /\ phase' = "open" /\ now \in Int
      /\ UNCHANGED <<resultOrders, resultFills>>
  BY DEF BuildSnapshot, TakePending, StateInv, StageInv, LoopTypeOK, resultVars
<1>2. /\ Ids(batch) = {} /\ Ids(batch)' = Ids(pending) /\ Ids(pending)' = {}
      /\ Distinct(batch)' = Distinct(pending) /\ Distinct(pending)'
  BY <1>1, NoIds DEF Ids, Distinct
<1>3. FilledIds' = FilledIds
  BY <1>1 DEF FilledIds
<1>4. \A id \in resultOrders \cup Ids(pending) : id.ts <= now /\ id.ts \in Int
  <2>1. \A id \in resultOrders \cup Ids(pending) : id \in OrderIds
    BY IdsType DEF StateInv, LoopTypeOK
  <2>2. \A id \in OrderIds : id.ts \in Int
    BY DEF OrderIds
  <2> QED
    BY <2>1, <2>2 DEF OrderInv
<1>5. OrderInv'
  BY <1>1, <1>2, <1>3, <1>4 DEF OrderInv
<1>6. Flow!OpenBar
  BY <1>1, <1>2, <1>3 DEF Flow!OpenBar
<1> QED
  BY <1>5, <1>6 DEF FlowStep, Flow!FlowNext

LEMMA FillOrderFlow == StateInv /\ OrderInv /\ FillOrder => OrderInv' /\ FlowStep
<1> SUFFICES ASSUME StateInv, OrderInv, FillOrder PROVE OrderInv' /\ FlowStep
  OBVIOUS
<1> DEFINE o == Head(batch)
<1>1. /\ batch # <<>> /\ batch' = Tail(batch)
      /\ resultFills' = resultFills \cup {FillOf(o)}
      /\ resultOrders' = resultOrders \cup {o.id}
      /\ UNCHANGED <<now, phase, pending, visited>>
  BY DEF FillOrder
<1>2. batch \in Seq(Order)
  BY DEF StateInv, LoopTypeOK
<1>3. o \in Order /\ o.id \in Ids(batch) /\ o.id \in OrderIds
  BY <1>1, <1>2, HeadOfBatch DEF Order
<1>4. /\ Ids(batch)' = Ids(batch) \ {o.id} /\ Distinct(batch)'
      /\ Ids(pending)' = Ids(pending) /\ Distinct(pending)' = Distinct(pending)
  <2>1. Distinct(Tail(batch)) /\ Ids(Tail(batch)) = Ids(batch) \ {o.id}
    BY <1>1, <1>2, TailOfBatch DEF OrderInv
  <2> QED
    BY <1>1, <2>1 DEF Ids, Distinct
<1>5. FilledIds' = FilledIds \cup {o.id}
  <2>1. FilledIds' = FilledIds \cup {FillOf(o).order}
    BY <1>1, FilledBy
  <2> QED
    BY <2>1 DEF FillOf
<1>6. o.id \notin resultOrders /\ o.id \notin FilledIds /\ o.id \notin Ids(pending)
  BY <1>3 DEF OrderInv
<1>7. o.id.kind # "trailing"
  BY <1>3 DEF OrderInv
<1> HIDE DEF o
<1>8. OrderInv'
  BY <1>1, <1>3, <1>4, <1>5, <1>6, <1>7 DEF OrderInv
<1>9. Flow!Execute(o.id)
  BY <1>1, <1>3, <1>4, <1>5, <1>6 DEF Flow!Execute
<1> QED
  BY <1>3, <1>8, <1>9 DEF FlowStep, Flow!FlowNext

LEMMA RejectOrderFlow == StateInv /\ OrderInv /\ RejectOrder => OrderInv' /\ FlowStep
<1> SUFFICES ASSUME StateInv, OrderInv, RejectOrder PROVE OrderInv' /\ FlowStep
  OBVIOUS
<1> DEFINE o == Head(batch)
<1>1. /\ batch # <<>> /\ batch' = Tail(batch)
      /\ resultOrders' = resultOrders \cup {o.id}
      /\ UNCHANGED <<now, phase, pending, visited, resultFills>>
  BY DEF RejectOrder
<1>2. batch \in Seq(Order)
  BY DEF StateInv, LoopTypeOK
<1>3. o \in Order /\ o.id \in Ids(batch) /\ o.id \in OrderIds
  BY <1>1, <1>2, HeadOfBatch DEF Order
<1>4. /\ Ids(batch)' = Ids(batch) \ {o.id} /\ Distinct(batch)'
      /\ Ids(pending)' = Ids(pending) /\ Distinct(pending)' = Distinct(pending)
  <2>1. Distinct(Tail(batch)) /\ Ids(Tail(batch)) = Ids(batch) \ {o.id}
    BY <1>1, <1>2, TailOfBatch DEF OrderInv
  <2> QED
    BY <1>1, <2>1 DEF Ids, Distinct
<1>5. FilledIds' = FilledIds
  BY <1>1 DEF FilledIds
<1>6. o.id \notin resultOrders /\ o.id \notin FilledIds /\ o.id \notin Ids(pending)
  BY <1>3 DEF OrderInv
<1>7. o.id.kind # "trailing"
  BY <1>3 DEF OrderInv
<1> HIDE DEF o
<1>8. OrderInv'
  BY <1>1, <1>3, <1>4, <1>5, <1>6, <1>7 DEF OrderInv
<1>9. Flow!Lapse(o.id)
  BY <1>1, <1>3, <1>4, <1>5, <1>6 DEF Flow!Lapse
<1> QED
  BY <1>3, <1>8, <1>9 DEF FlowStep, Flow!FlowNext

LEMMA SubmitsFlow == StateInv /\ OrderInv /\ Submits => OrderInv' /\ FlowStep
<1> SUFFICES ASSUME StateInv, OrderInv, Submits PROVE OrderInv' /\ FlowStep
  OBVIOUS
<1>1. /\ phase = "open" /\ batch = <<>> /\ pending = <<>> /\ phase' = "step"
      /\ UNCHANGED <<now, resultOrders, resultFills>>
      /\ MaxOrders \in Nat /\ now >= 1 /\ now \in Int
  BY BacktestAssumption
     DEF BacktestAssumption, Submits, resultVars, StateInv, StageInv, LoopTypeOK
<1>2. PICK n \in 0..MaxOrders : \E m \in 0..(MaxOrders - n) :
         \E worked \in [1..n -> AtOnce], held \in [1..m -> Later] :
           batch' = Issue(worked, 0) /\ pending' = Issue(held, n)
  BY DEF Submits
<1>3. PICK m \in 0..(MaxOrders - n) :
         \E worked \in [1..n -> AtOnce], held \in [1..m -> Later] :
           batch' = Issue(worked, 0) /\ pending' = Issue(held, n)
  BY <1>2
<1>4. PICK worked \in [1..n -> AtOnce], held \in [1..m -> Later] :
           batch' = Issue(worked, 0) /\ pending' = Issue(held, n)
  BY <1>3
<1>5. worked \in [1..n -> Shape] /\ held \in [1..m -> Shape]
  BY DEF AtOnce, Later
<1>6. n \in Nat /\ m \in Nat /\ 0 \in Nat /\ 0 + n <= MaxOrders /\ n + m <= MaxOrders
  BY <1>1
<1>7. /\ Distinct(batch') /\ Distinct(pending')
      /\ \A id \in Ids(batch') : id \in OrderIds /\ id.ts = now /\ id.kind # "trailing" /\ id.k \in 1..n
      /\ \A id \in Ids(pending') : id \in OrderIds /\ id.ts = now /\ id.kind # "trailing"
                                     /\ id.k \in (n + 1)..(n + m)
  <2>1. /\ Distinct(Issue(worked, 0))
        /\ \A id \in Ids(Issue(worked, 0)) :
             id \in OrderIds /\ id.ts = now /\ id.kind # "trailing" /\ id.k \in (0 + 1)..(0 + n)
    BY <1>1, <1>5, <1>6, IssuedOrders DEF StateInv
  <2>2. /\ Distinct(Issue(held, n))
        /\ \A id \in Ids(Issue(held, n)) :
             id \in OrderIds /\ id.ts = now /\ id.kind # "trailing" /\ id.k \in (n + 1)..(n + m)
    BY <1>1, <1>5, <1>6, IssuedOrders DEF StateInv
  <2> QED
    BY <1>4, <1>6, <2>1, <2>2
<1>8. Ids(pending') \cap Ids(batch') = {}
  BY <1>6, <1>7
<1>9. \A id \in resultOrders : id.ts < now /\ id.ts \in Int
  <2>1. \A id \in OrderIds : id.ts \in Int
    BY DEF OrderIds
  <2> QED
    BY <1>1, <2>1 DEF OrderInv, StateInv, LoopTypeOK
<1>10. /\ Ids(batch) = {} /\ Ids(pending) = {}
       /\ Ids(batch)' = Ids(batch') /\ Ids(pending)' = Ids(pending')
       /\ Distinct(batch)' = Distinct(batch') /\ Distinct(pending)' = Distinct(pending')
  BY <1>1, NoIds DEF Ids, Distinct
<1>11. FilledIds' = FilledIds /\ FilledIds \subseteq resultOrders
  BY <1>1 DEF FilledIds, OrderInv
<1>12. resultOrders \cap (Ids(pending') \cup Ids(batch')) = {}
  BY <1>7, <1>9
<1>13. OrderInv'
  BY <1>1, <1>7, <1>8, <1>9, <1>10, <1>11, <1>12 DEF OrderInv
<1>14. Flow!Submit
  BY <1>1, <1>7, <1>8, <1>10, <1>11, <1>12 DEF Flow!Submit, Flow!Seen
<1> QED
  BY <1>13, <1>14 DEF FlowStep, Flow!FlowNext

LEMMA ExitStopFlow ==
    ASSUME StateInv, OrderInv, NEW i \in Instruments, ExitStop(i)
    PROVE  OrderInv' /\ FlowStep
<1>1. /\ Evaluating /\ i \notin visited /\ visited' = visited \cup {i}
      /\ resultOrders' = resultOrders \cup {ExitId(i)}
      /\ UNCHANGED <<now, phase, pending, batch>>
  BY DEF ExitStop, Visits
<1>2. FilledIds' = FilledIds \cup {ExitId(i)}
  <2> DEFINE fill == [order |-> ExitId(i), ts |-> now, inst |-> i, source |-> BarOwner(Symbol),
                      priced |-> MainBar.ts]
  <2>1. resultFills' = resultFills \cup {fill} /\ fill.order = ExitId(i)
    BY DEF ExitStop
  <2> HIDE DEF fill
  <2> QED
    BY <2>1, FilledBy
<1>3. ExitId(i).kind = "trailing" /\ ExitId(i).ts = now /\ ExitId(i).k = i /\ now \in Int
  BY DEF ExitId, StateInv, LoopTypeOK
<1>4. ExitId(i) \in OrderIds
  BY <1>1, ExitIdType DEF StateInv
<1>5. phase = "step" /\ batch = <<>>
  BY <1>1 DEF Evaluating
<1>6. ExitId(i) \notin resultOrders
  BY <1>1, <1>3, <1>5 DEF OrderInv
<1>7. ExitId(i) \notin Ids(pending) \cup Ids(batch)
  BY <1>3 DEF OrderInv
<1>8. ExitId(i) \notin FilledIds
  BY <1>6 DEF OrderInv
<1>9. /\ Ids(pending)' = Ids(pending) /\ Ids(batch)' = Ids(batch)
      /\ Distinct(pending)' = Distinct(pending) /\ Distinct(batch)' = Distinct(batch)
  BY <1>1 DEF Ids, Distinct
<1>10. OrderInv'
  BY <1>1, <1>2, <1>3, <1>5, <1>6, <1>7, <1>9 DEF OrderInv
<1>11. Flow!StopExit(ExitId(i))
  BY <1>1, <1>2, <1>6, <1>7, <1>8, <1>9 DEF Flow!StopExit, Flow!Seen
<1> QED
  BY <1>4, <1>10, <1>11 DEF FlowStep, Flow!FlowNext

LEMMA QuietFlow ==
    ASSUME StateInv, OrderInv,
           \/ \E i \in Instruments : DropStop(i) \/ SkipEntryBar(i) \/ TrailStop(i)
           \/ MarkStep \/ SettleExpired \/ EndStep \/ Finish \/ UNCHANGED vars
    PROVE  OrderInv' /\ FlowStep
<1>1. UNCHANGED orderVars /\ UNCHANGED now
  BY DEF orderVars, resultVars, DropStop, SkipEntryBar, TrailStop, MarkStep, SettleExpired,
         EndStep, Finish, vars, loopVars
<1>2. /\ phase' # "open" \/ UNCHANGED phase
      /\ phase' # "step" \/ (UNCHANGED phase /\ visited \subseteq visited')
  BY DEF DropStop, SkipEntryBar, TrailStop, Visits, MarkStep, SettleExpired,
         EndStep, Finish, vars, loopVars
<1> QED
  BY <1>1, <1>2, FlowFrame, OrderFrame

LEMMA NextRefines == StateInv /\ OrderInv /\ [EngineNext]_vars => OrderInv' /\ FlowStep
  BY BuildSnapshotFlow, FillOrderFlow, RejectOrderFlow, SubmitsFlow, ExitStopFlow, QuietFlow
     DEF EngineNext, EvaluateStop, Returned

LEMMA InitRefines == Init => OrderInv /\ Flow!FlowInit
<1> SUFFICES ASSUME Init PROVE OrderInv /\ Flow!FlowInit
  OBVIOUS
<1>1. /\ pending = <<>> /\ batch = <<>> /\ resultOrders = {} /\ resultFills = {}
  BY DEF Init, LoopInit
<1>2. Ids(pending) = {} /\ Ids(batch) = {} /\ Distinct(pending) /\ Distinct(batch) /\ FilledIds = {}
  BY <1>1, NoIds DEF FilledIds
<1> QED
  BY <1>1, <1>2 DEF OrderInv, Flow!FlowInit

(* The engine keeps OrderFlow's promise (engine.py:371-443): every order is *)
(* worked against one bar only and filled at most once, and what is held    *)
(* back is worked when the next bar opens.                                  *)
THEOREM BacktestImplementsOrderFlow == EngineSpec => FlowSpec
<1>1. Init => OrderInv /\ Flow!FlowInit
  BY InitRefines
<1>2. StateInv /\ OrderInv /\ [EngineNext]_vars => OrderInv' /\ [Flow!FlowNext]_(Flow!flowVars)
  BY NextRefines DEF FlowStep
<1> QED
  BY <1>1, <1>2, StateInvariant, PTL DEF EngineSpec, FlowSpec, Flow!FlowSpec

\* One step keeps every order in one place.  Opening a bar needs live to be
\* empty first: what was being worked would be forgotten.
LEMMA FlowNextKeepsOnePlace ==
  ASSUME Flow!OnePlace, [Flow!FlowNext]_(Flow!flowVars)
  PROVE  Flow!OnePlace'
<1>1. CASE Flow!OpenBar
  BY <1>1 DEF Flow!OpenBar, Flow!OnePlace
<1>2. CASE Flow!Submit
  BY <1>2 DEF Flow!Submit, Flow!OnePlace, Flow!Seen
<1>3. ASSUME NEW o \in OrderIds, Flow!Execute(o) PROVE Flow!OnePlace'
  BY <1>3 DEF Flow!Execute, Flow!OnePlace
<1>4. ASSUME NEW o \in OrderIds, Flow!Lapse(o) PROVE Flow!OnePlace'
  BY <1>4 DEF Flow!Lapse, Flow!OnePlace
<1>5. ASSUME NEW o \in OrderIds, Flow!StopExit(o) PROVE Flow!OnePlace'
  BY <1>5 DEF Flow!StopExit, Flow!OnePlace, Flow!Seen
<1>6. CASE UNCHANGED Flow!flowVars
  BY <1>6 DEF Flow!flowVars, Flow!OnePlace
<1> QED
  BY <1>1, <1>2, <1>3, <1>4, <1>5, <1>6 DEF Flow!FlowNext

(* No order has two outcomes or a second fill: it is held back, worked,     *)
(* filled or lapsed, one at a time, and neither a fill nor a rejection is   *)
(* ever taken back (engine.py:371-443).                                     *)
THEOREM OrdersHaveOneOutcome == EngineSpec => []Flow!OnePlace /\ Flow!OutcomesFinal
<1>1. Flow!FlowInit => Flow!OnePlace
  BY DEF Flow!FlowInit, Flow!OnePlace
<1>2. Flow!OnePlace /\ [Flow!FlowNext]_(Flow!flowVars) => Flow!OnePlace'
  BY FlowNextKeepsOnePlace
<1>3. [Flow!FlowNext]_(Flow!flowVars) =>
        [ /\ FilledIds \subseteq FilledIds'
          /\ resultOrders \ FilledIds \subseteq (resultOrders \ FilledIds)' ]_(Flow!flowVars)
  BY DEF Flow!FlowNext, Flow!flowVars, Flow!OpenBar, Flow!Submit, Flow!Execute, Flow!Lapse,
         Flow!StopExit
<1> QED
  BY <1>1, <1>2, <1>3, BacktestImplementsOrderFlow, PTL
     DEF FlowSpec, Flow!FlowSpec, Flow!OutcomesFinal

-----------------------------------------------------------------------------
(* What the loop promises of prices, events, trailing stops and expiries    *)
(* (engine.py:371-480).  Three invariants carry it: LineInv follows an      *)
(* order from the queue to its fill and its event, StopInv the trailing     *)
(* stops through a step, ExpiryInv the positions left to settle.            *)

OrdersInv == StateInv /\ OrderInv

(* Types, stages and books, and where every order is, hold of every         *)
(* execution (engine.py:74-172).                                            *)
THEOREM OrdersInvariant == EngineSpec => []OrdersInv
<1>1. Init => OrdersInv
  BY InitState, InitRefines DEF OrdersInv
<1>2. OrdersInv /\ [EngineNext]_vars => OrdersInv'
  BY NextKeepsState, NextRefines DEF OrdersInv
<1> QED
  BY <1>1, <1>2, PTL DEF EngineSpec

-----------------------------------------------------------------------------
(* From the queue to the fill *)

\* A snapshot never shows the bar of an earlier step, except with futures
\* whose data has gaps.
OnTime == InstrumentType # "future" \/ ~Gaps
CurrentInv == OnTime => \A sym \in Universe : bars[sym] # NoBar => bars[sym].ts = now

Named(orders) == \A k \in DOMAIN orders : orders[k].id.kind = orders[k].type

HeldOver(id) == id.kind = "market" /\ FillTiming = "next_bar_open"

\* What is queued came from this step, what is worked at the open from the
\* last one, and both are market orders; of its own step's orders a run with
\* next_bar_open works the others only.
HeldInv ==
    /\ Named(pending) /\ Named(batch)
    /\ \A id \in Ids(pending) : HeldOver(id) /\ id.ts = now
    /\ phase = "open" => \A id \in Ids(batch) : HeldOver(id) /\ id.ts + 1 = now
    /\ phase = "step" => \A id \in Ids(batch) : ~HeldOver(id)

\* all_fills of the step and the events so far are fills, and only those held
\* over are not among them.
EventInv ==
    /\ eventFills \cup stepFills \subseteq FilledIds
    /\ phase \in {"idle", "open", "done"} => stepFills = {}
    /\ \A id \in FilledIds : HeldOver(id) \/ id \in eventFills \cup stepFills

PricedInv == FilledFromOwnBar /\ (OnTime => FilledOnTheNextBar)

LineInv == CurrentInv /\ HeldInv /\ EventInv /\ PricedInv

LEMMA IssuedNames ==
    ASSUME NEW n \in Nat, NEW m \in Nat, NEW shapes \in [1..m -> Shape]
    PROVE  /\ Named(Issue(shapes, n))
           /\ \A id \in Ids(Issue(shapes, n)) :
                id.ts = now /\ \E k \in 1..m : id.kind = shapes[k].type
<1> DEFINE orders == Issue(shapes, n)
<1>1. DOMAIN orders = 1..m
  BY DEF Issue
<1>2. ASSUME NEW k \in 1..m
      PROVE  /\ orders[k].id = [kind |-> shapes[k].type, ts |-> now, k |-> n + k]
             /\ orders[k].type = shapes[k].type
  BY DEF Issue
<1> HIDE DEF orders
<1>3. \A k \in 1..m :
        orders[k].id.ts = now /\ orders[k].id.kind = shapes[k].type /\ orders[k].type = shapes[k].type
  <2> SUFFICES ASSUME NEW k \in 1..m
               PROVE  /\ orders[k].id.ts = now /\ orders[k].id.kind = shapes[k].type
                      /\ orders[k].type = shapes[k].type
    OBVIOUS
  <2> DEFINE id == orders[k].id
  <2>1. id = [kind |-> shapes[k].type, ts |-> now, k |-> n + k] /\ orders[k].type = shapes[k].type
    BY <1>2
  <2> HIDE DEF id
  <2>2. id.ts = now /\ id.kind = shapes[k].type
    BY <2>1
  <2> QED
    BY <2>1, <2>2 DEF id
<1>4. Named(orders)
  BY <1>1, <1>3 DEF Named
<1>5. \A id \in Ids(orders) : id.ts = now /\ \E k \in 1..m : id.kind = shapes[k].type
  BY <1>1, <1>3 DEF Ids
<1> QED
  BY <1>4, <1>5 DEF orders

LEMMA NamedTail ==
    ASSUME NEW orders \in Seq(Order), orders # <<>>, Named(orders)
    PROVE  Head(orders).id.kind = Head(orders).type /\ Named(Tail(orders))
<1>1. Len(orders) \in Nat /\ Len(orders) >= 1 /\ DOMAIN orders = 1..Len(orders)
  OBVIOUS
<1>2. Head(orders) = orders[1] /\ 1 \in DOMAIN orders
  BY <1>1
<1>3. DOMAIN Tail(orders) = 1..(Len(orders) - 1)
  BY <1>1
<1>4. \A k \in DOMAIN Tail(orders) : Tail(orders)[k] = orders[k + 1] /\ k + 1 \in DOMAIN orders
  BY <1>1, <1>3
<1> QED
  BY <1>2, <1>4 DEF Named

LEMMA MainBarCurrent ==
    ASSUME CurrentInv, OnTime, MainBar # NoBar
    PROVE  MainBar.ts = now
  BY InstrumentKinds DEF CurrentInv, MainBar

LEMMA TimedOrders ==
    ASSUME LoopTypeOK, NEW orders \in Seq(Order)
    PROVE  \A id \in Ids(orders) : id \in OrderIds /\ id.ts \in Int /\ id.kind \in {"market", "stop", "trailing"}
<1>1. \A id \in OrderIds : id.ts \in Int /\ id.kind \in {"market", "stop", "trailing"}
  BY DEF OrderIds
<1> QED
  BY <1>1, IdsType

-----------------------------------------------------------------------------
(* What an accepted order is priced from. *)

LEMMA AcceptedMain ==
    ASSUME NEW o, Accepted(o), o.inst = Symbol
    PROVE  MainBar # NoBar
  BY InstrumentKinds DEF Accepted, ValidateOrder, InstrumentAvailable, MainBar

LEMMA OwnBar ==
    ASSUME NEW i, ~(MultiSymbol /\ i = Symbol /\ bars[i] = NoBar)
    PROVE  BarOwner(i) = i
<1>1. CASE i \in Options
  BY <1>1 DEF BarOwner
<1>2. CASE i \notin Options
  BY <1>2 DEF BarOwner
<1> QED
  BY <1>1, <1>2

LEMMA Unpriced ==
    ASSUME NEW o, NEW useOpen \in BOOLEAN, ~StopApplies(o), BarOf(o.inst) = NoBar,
           o.inst \notin Options
    PROVE  RawPrice(o, useOpen) = None
  BY DEF RawPrice

LEMMA AcceptedSource ==
    ASSUME NEW o \in Order, Accepted(o)
    PROVE  BarOwner(o.inst) = o.inst \/ (o.type = "stop" /\ o.inst = Symbol)
<1> SUFFICES ASSUME BarOwner(o.inst) # o.inst PROVE o.type = "stop" /\ o.inst = Symbol
  OBVIOUS
<1>1. MultiSymbol /\ o.inst = Symbol /\ bars[Symbol] = NoBar /\ o.inst \notin Options
  BY OwnBar, InstrumentKinds
<1>2. BarOf(o.inst) = NoBar
  BY <1>1, InstrumentKinds DEF BarOf
<1>3. RawPrice(o, phase = "open") # None
  BY DEF Accepted, Price, FillPrice
<1>4. StopApplies(o)
  BY <1>1, <1>2, <1>3, Unpriced
<1> QED
  BY <1>1, <1>4 DEF StopApplies, IsStop

-----------------------------------------------------------------------------
(* One lemma per step that touches an order, a bar or an event. *)

LEMMA HeldFrame ==
    ASSUME HeldInv, UNCHANGED <<pending, batch, now>>,
           phase' \in {"open", "step"} => UNCHANGED phase
    PROVE  HeldInv'
<1>1. Ids(pending)' = Ids(pending) /\ Ids(batch)' = Ids(batch)
  BY DEF Ids
<1> QED
  BY <1>1 DEF HeldInv, Named, HeldOver

LEMMA PricedFrame == PricedInv /\ UNCHANGED resultFills => PricedInv'
  BY DEF PricedInv, OnTime, FilledFromOwnBar, FilledOnTheNextBar

LEMMA CurrentFrame == CurrentInv /\ UNCHANGED <<bars, now>> => CurrentInv'
  BY DEF CurrentInv, OnTime

LEMMA EventFrame ==
    ASSUME EventInv, UNCHANGED <<resultFills, eventFills, stepFills>>,
           phase' \in {"idle", "open", "done"} => phase \in {"idle", "open", "done"}
    PROVE  EventInv'
<1>1. FilledIds' = FilledIds
  BY DEF FilledIds
<1> QED
  BY <1>1 DEF EventInv, HeldOver

LEMMA BuildSnapshotLine == OrdersInv /\ LineInv /\ BuildSnapshot => LineInv'
<1> SUFFICES ASSUME OrdersInv, LineInv, BuildSnapshot PROVE LineInv'
  OBVIOUS
<1>1. /\ phase = "idle" /\ phase' = "open" /\ now' = now + 1 /\ now \in Int
      /\ batch' = pending /\ pending' = <<>>
      /\ UNCHANGED <<resultFills, stepFills, eventFills>>
  BY DEF BuildSnapshot, TakePending, resultVars, OrdersInv, StateInv, LoopTypeOK
<1>2. CurrentInv'
  <2>1. ASSUME NEW sym \in Universe, OnTime, bars'[sym] # NoBar
        PROVE  bars'[sym].ts = now'
    <3>1. bars'[sym] \in BarsAt(sym, now + 1)
      BY DEF BuildSnapshot
    <3>2. Gaps => AbsentBar(sym, now + 1) = NoBar
      BY <2>1 DEF OnTime, AbsentBar
    <3>3. PICK shape \in BarShapes : bars'[sym] = BarAt(now + 1, shape)
      BY <2>1, <3>1, <3>2 DEF BarsAt
    <3> QED
      BY <1>1, <3>3 DEF BarAt
  <2> QED
    BY <2>1 DEF CurrentInv, OnTime
<1>3. HeldInv'
  <2>1. Ids(pending)' = {} /\ Ids(batch)' = Ids(pending)
    BY <1>1, NoIds DEF Ids
  <2>2. Named(pending)' /\ Named(batch)'
    BY <1>1 DEF LineInv, HeldInv, Named
  <2>3. \A id \in Ids(pending) : HeldOver(id) /\ id.ts + 1 = now'
    BY <1>1 DEF LineInv, HeldInv
  <2> QED
    BY <1>1, <2>1, <2>2, <2>3 DEF HeldInv, HeldOver
<1> QED
  BY <1>1, <1>2, <1>3, PricedFrame, EventFrame DEF LineInv

LEMMA SubmitsLine == OrdersInv /\ LineInv /\ Submits => LineInv'
<1> SUFFICES ASSUME OrdersInv, LineInv, Submits PROVE LineInv'
  OBVIOUS
<1>1. /\ phase = "open" /\ phase' = "step" /\ MaxOrders \in Nat
      /\ UNCHANGED <<now, bars, resultFills, stepFills, eventFills>>
  BY BacktestAssumption DEF BacktestAssumption, Submits, resultVars
<1>2. PICK n \in 0..MaxOrders : \E m \in 0..(MaxOrders - n) :
         \E worked \in [1..n -> AtOnce], held \in [1..m -> Later] :
           batch' = Issue(worked, 0) /\ pending' = Issue(held, n)
  BY DEF Submits
<1>3. PICK m \in 0..(MaxOrders - n) :
         \E worked \in [1..n -> AtOnce], held \in [1..m -> Later] :
           batch' = Issue(worked, 0) /\ pending' = Issue(held, n)
  BY <1>2
<1>4. PICK worked \in [1..n -> AtOnce], held \in [1..m -> Later] :
           batch' = Issue(worked, 0) /\ pending' = Issue(held, n)
  BY <1>3
<1>5. worked \in [1..n -> Shape] /\ held \in [1..m -> Shape]
  BY DEF AtOnce, Later
<1>6. n \in Nat /\ m \in Nat /\ 0 \in Nat
  BY <1>1
<1>7. \A k \in 1..n : worked[k].type = "stop" \/ FillTiming = "same_bar_close"
  BY DEF AtOnce, WorkedNow, IsStop
<1>8. \A k \in 1..m : held[k].type = "market" /\ FillTiming = "next_bar_open"
  <2>1. \A shape \in Shape : shape.type \in {"market", "stop"}
    BY DEF Shape
  <2>2. FillTiming \in {"next_bar_open", "same_bar_close"}
    BY BacktestAssumption DEF BacktestAssumption
  <2> QED
    BY <2>1, <2>2 DEF Later, WorkedNow, IsStop
<1>9. /\ Named(Issue(worked, 0))
      /\ \A id \in Ids(Issue(worked, 0)) : ~HeldOver(id)
  <2>1. /\ Named(Issue(worked, 0))
        /\ \A id \in Ids(Issue(worked, 0)) : \E k \in 1..n : id.kind = worked[k].type
    BY <1>5, <1>6, IssuedNames
  <2> QED
    BY <1>7, <2>1 DEF HeldOver
<1>10. /\ Named(Issue(held, n))
       /\ \A id \in Ids(Issue(held, n)) : HeldOver(id) /\ id.ts = now
  <2>1. /\ Named(Issue(held, n))
        /\ \A id \in Ids(Issue(held, n)) :
             id.ts = now /\ \E k \in 1..m : id.kind = held[k].type
    BY <1>5, <1>6, IssuedNames
  <2> QED
    BY <1>8, <2>1 DEF HeldOver
<1>11. HeldInv'
  BY <1>1, <1>4, <1>9, <1>10 DEF HeldInv, Named, Ids, HeldOver
<1> QED
  BY <1>1, <1>11, CurrentFrame, PricedFrame, EventFrame DEF LineInv

(* The batch without its first order, and that order itself. *)
LEMMA FirstOfBatch ==
    ASSUME OrdersInv, LineInv, batch # <<>>, batch' = Tail(batch),
           UNCHANGED <<now, phase, pending>>
    PROVE  /\ HeldInv'
           /\ Head(batch) \in Order /\ Head(batch).id.kind = Head(batch).type
           /\ Head(batch).id.kind # "trailing" /\ Head(batch).id \in Ids(batch)
           /\ phase \in {"open", "step"}
<1>1. batch \in Seq(Order) /\ Distinct(batch) /\ Named(batch)
  BY DEF OrdersInv, StateInv, LoopTypeOK, OrderInv, LineInv, HeldInv
<1>2. Head(batch).id.kind = Head(batch).type /\ Named(Tail(batch))
  BY <1>1, NamedTail
<1>3. Head(batch) \in Order /\ Head(batch).id \in Ids(batch)
  BY <1>1, HeadOfBatch
<1>4. Ids(Tail(batch)) \subseteq Ids(batch)
  BY <1>1, TailOfBatch
<1>5. phase \in {"open", "step"}
  BY DEF OrdersInv, StateInv, LoopTypeOK, StageInv
<1>6. Head(batch).id.kind # "trailing"
  BY <1>3 DEF OrdersInv, OrderInv
<1>7. HeldInv'
  <2>1. Ids(pending)' = Ids(pending) /\ Ids(batch)' = Ids(Tail(batch))
    BY DEF Ids
  <2>2. Named(pending)' /\ Named(batch)'
    BY <1>2 DEF LineInv, HeldInv, Named
  <2> QED
    BY <1>4, <2>1, <2>2 DEF LineInv, HeldInv, HeldOver
<1> QED
  BY <1>2, <1>3, <1>5, <1>6, <1>7

LEMMA RejectOrderLine == OrdersInv /\ LineInv /\ RejectOrder => LineInv'
<1> SUFFICES ASSUME OrdersInv, LineInv, RejectOrder PROVE LineInv'
  OBVIOUS
<1>1. /\ batch # <<>> /\ batch' = Tail(batch)
      /\ UNCHANGED <<now, phase, pending, bars, resultFills, stepFills, eventFills>>
  BY DEF RejectOrder
<1> QED
  BY <1>1, FirstOfBatch, CurrentFrame, PricedFrame, EventFrame DEF LineInv

(* A fill that is reported in its step, or is one of those held over. *)
LEMMA ReportedFill ==
    ASSUME EventInv, NEW id, FilledIds' = FilledIds \cup {id}, Report(id),
           UNCHANGED <<eventFills, phase>>, phase \in {"open", "step"},
           phase = "open" => HeldOver(id)
    PROVE  EventInv'
<1>1. CASE phase = "open"
  <2>1. stepFills' = stepFills
    BY <1>1 DEF Report
  <2> QED
    BY <1>1, <2>1 DEF EventInv, HeldOver
<1>2. CASE phase = "step"
  <2>1. stepFills' = stepFills \cup {id}
    BY <1>2 DEF Report
  <2> QED
    BY <1>2, <2>1 DEF EventInv, HeldOver
<1> QED
  BY <1>1, <1>2

LEMMA FillOrderLine == OrdersInv /\ LineInv /\ FillOrder => LineInv'
<1> SUFFICES ASSUME OrdersInv, LineInv, FillOrder PROVE LineInv'
  OBVIOUS
<1> DEFINE o == Head(batch)
<1>1. /\ batch # <<>> /\ batch' = Tail(batch)
      /\ Accepted(o) /\ Report(o.id)
      /\ resultFills' = resultFills \cup {FillOf(o)}
      /\ UNCHANGED <<now, phase, pending, bars, eventFills>>
  BY DEF FillOrder
<1>2. /\ HeldInv'
      /\ o \in Order /\ o.id.kind = o.type /\ o.id.kind # "trailing" /\ o.id \in Ids(batch)
      /\ phase \in {"open", "step"}
  BY <1>1, FirstOfBatch
<1> HIDE DEF o
<1>3. FillOf(o) = [order |-> o.id, ts |-> now, inst |-> o.inst, source |-> BarOwner(o.inst),
                   priced |-> IF o.inst = Symbol THEN MainBar.ts ELSE now]
  BY DEF FillOf
<1>4. /\ FillOf(o).order = o.id /\ FillOf(o).inst = o.inst /\ FillOf(o).source = BarOwner(o.inst)
      /\ FillOf(o).priced = IF o.inst = Symbol THEN MainBar.ts ELSE now
  BY <1>3
<1>5. EventInv'
  <2>1. FilledIds' = FilledIds \cup {o.id}
    BY <1>1, <1>4, FilledBy
  <2>2. phase = "open" => HeldOver(o.id)
    BY <1>2 DEF LineInv, HeldInv
  <2> QED
    BY <1>1, <1>2, <2>1, <2>2, ReportedFill DEF LineInv
<1>6. FilledFromOwnBar'
  <2>1. BarOwner(o.inst) = o.inst \/ (o.id.kind = "stop" /\ o.inst = Symbol)
    BY <1>1, <1>2, AcceptedSource
  <2> QED
    BY <1>1, <1>4, <2>1 DEF FilledFromOwnBar, LineInv, PricedInv
<1>7. OnTime => FilledOnTheNextBar'
  <2> SUFFICES ASSUME OnTime, FillTiming = "next_bar_open", o.id.kind = "market"
               PROVE  FillOf(o).priced = o.id.ts + 1
    BY <1>1, <1>4 DEF FilledOnTheNextBar, LineInv, PricedInv
  <2>1. HeldOver(o.id)
    BY DEF HeldOver
  <2>2. o.id.ts + 1 = now
    BY <1>2, <2>1 DEF LineInv, HeldInv
  <2>3. o.inst = Symbol => MainBar.ts = now
    BY <1>1, AcceptedMain, MainBarCurrent DEF LineInv
  <2> QED
    BY <1>4, <2>2, <2>3
<1> QED
  BY <1>1, <1>2, <1>5, <1>6, <1>7, CurrentFrame DEF LineInv, PricedInv, OnTime

LEMMA ExitStopLine ==
    ASSUME OrdersInv, LineInv, NEW i \in Instruments, ExitStop(i)
    PROVE  LineInv'
<1> DEFINE fill == [order |-> ExitId(i), ts |-> now, inst |-> i, source |-> BarOwner(Symbol),
                    priced |-> MainBar.ts]
<1>1. /\ resultFills' = resultFills \cup {fill} /\ fill.order = ExitId(i)
      /\ Report(ExitId(i)) /\ phase = "step"
      /\ UNCHANGED <<now, phase, pending, batch, bars, eventFills>>
  BY DEF ExitStop, Visits, Evaluating
<1>2. ExitId(i).kind = "trailing"
  BY DEF ExitId
<1> HIDE DEF fill
<1>3. EventInv'
  BY <1>1, FilledBy, ReportedFill DEF LineInv
<1>4. PricedInv'
  BY <1>1, <1>2 DEF LineInv, PricedInv, FilledFromOwnBar, FilledOnTheNextBar, OnTime
<1> QED
  BY <1>1, <1>3, <1>4, HeldFrame, CurrentFrame DEF LineInv

LEMMA EndStepLine == OrdersInv /\ LineInv /\ EndStep => LineInv'
<1> SUFFICES ASSUME OrdersInv, LineInv, EndStep PROVE LineInv'
  OBVIOUS
<1>1. /\ eventFills' = eventFills \cup stepFills /\ stepFills' = {} /\ phase' = "idle"
      /\ UNCHANGED <<now, pending, batch, bars, resultFills>>
  BY DEF EndStep
<1>2. EventInv'
  BY <1>1 DEF LineInv, EventInv, FilledIds, HeldOver
<1> QED
  BY <1>1, <1>2, HeldFrame, CurrentFrame, PricedFrame DEF LineInv

LEMMA QuietLine ==
    ASSUME LineInv,
           \/ \E i \in Instruments : DropStop(i) \/ SkipEntryBar(i) \/ TrailStop(i)
           \/ MarkStep \/ SettleExpired \/ Finish \/ UNCHANGED vars
    PROVE  LineInv'
<1>1. UNCHANGED <<now, bars, pending, batch, resultFills, stepFills, eventFills>>
  BY DEF resultVars, DropStop, SkipEntryBar, TrailStop, MarkStep, SettleExpired, Finish,
         vars, loopVars
<1>2. \/ UNCHANGED phase \/ phase' = "expiry" \/ (phase = "idle" /\ phase' = "done")
  BY DEF DropStop, SkipEntryBar, TrailStop, Visits, MarkStep, SettleExpired, Finish, vars, loopVars
<1> QED
  BY <1>1, <1>2, HeldFrame, CurrentFrame, PricedFrame, EventFrame DEF LineInv

LEMMA NextKeepsLine == OrdersInv /\ LineInv /\ [EngineNext]_vars => LineInv'
  BY BuildSnapshotLine, SubmitsLine, FillOrderLine, RejectOrderLine, ExitStopLine, EndStepLine,
     QuietLine
     DEF EngineNext, EvaluateStop, Returned

LEMMA InitLine == Init => LineInv
<1> SUFFICES ASSUME Init PROVE LineInv
  OBVIOUS
<1>1. /\ bars = [sym \in Universe |-> NoBar] /\ pending = <<>> /\ batch = <<>> /\ phase = "idle"
      /\ resultFills = {} /\ stepFills = {} /\ eventFills = {}
  BY DEF Init, LoopInit
<1>2. Ids(pending) = {} /\ Ids(batch) = {} /\ FilledIds = {}
  BY <1>1, NoIds DEF FilledIds
<1> QED
  BY <1>1, <1>2 DEF LineInv, CurrentInv, HeldInv, Named, EventInv, PricedInv, FilledFromOwnBar,
                    FilledOnTheNextBar

(* An order keeps the bar it was meant for from the queue to its fill and   *)
(* its event, in every execution (engine.py:74-172).                        *)
THEOREM LineInvariant == EngineSpec => []LineInv
  BY InitLine, NextKeepsLine, OrdersInvariant, PTL DEF EngineSpec

(* No lookahead (engine.py:109-131): with next_bar_open a market order is   *)
(* priced from the bar after the one its strategy saw.  Futures data with   *)
(* gaps are excepted, where the snapshot repeats an earlier bar.            *)
THEOREM NoLookahead == OnTime => (EngineSpec => []FilledOnTheNextBar)
<1> SUFFICES ASSUME OnTime PROVE EngineSpec => []FilledOnTheNextBar
  OBVIOUS
<1>1. LineInv => FilledOnTheNextBar
  BY DEF LineInv, PricedInv
<1> QED
  BY <1>1, LineInvariant, PTL

(* A fill is priced from the bar of its own instrument (fill_model.py:      *)
(* 55-78), but for the main symbol's stop orders and the trailing exits.    *)
THEOREM OwnBarPrices == EngineSpec => []FilledFromOwnBar
<1>1. LineInv => FilledFromOwnBar
  BY DEF LineInv, PricedInv
<1> QED
  BY <1>1, LineInvariant, PTL

(* No event without its fill, and no fill of a step's own orders or exits   *)
(* without its event (engine.py:302-330, 445, 475).                         *)
THEOREM EventsMatchFills == EngineSpec => []FillsHaveEvents
<1>1. LineInv => FillsHaveEvents
  BY DEF LineInv, EventInv, FillsHaveEvents, HeldOver
<1> QED
  BY <1>1, LineInvariant, PTL

-----------------------------------------------------------------------------
(* Trailing stops *)

\* A stop was armed at the latest in this step, and then has no water mark.
StopInv ==
    \A i \in Instruments : stops[i] # None =>
      stops[i].entryTs <= now /\ (stops[i].entryTs = now => stops[i].water = None)

LEMMA StopFrame == StopInv /\ UNCHANGED <<stops, now>> => StopInv'
  BY DEF StopInv

LEMMA BuildSnapshotStops == OrdersInv /\ StopInv /\ BuildSnapshot => StopInv'
<1> SUFFICES ASSUME OrdersInv, StopInv, BuildSnapshot, NEW i \in Instruments, stops'[i] # None
             PROVE  stops'[i].entryTs <= now' /\ stops'[i].entryTs # now'
  BY DEF StopInv
<1>1. now \in Int /\ now' = now + 1 /\ stops' = stops /\ stops[i] \in TrailingState
  BY DEF BuildSnapshot, OrdersInv, StateInv, LoopTypeOK
<1>2. stops[i].entryTs \in Int /\ stops[i].entryTs <= now
  BY <1>1 DEF StopInv, TrailingState
<1> QED
  BY <1>1, <1>2

LEMMA FillOrderStops == OrdersInv /\ StopInv /\ FillOrder => StopInv'
<1> SUFFICES ASSUME OrdersInv, StopInv, FillOrder, NEW i \in Instruments, stops'[i] # None
             PROVE  stops'[i].entryTs <= now /\ (stops'[i].entryTs = now => stops'[i].water = None)
  BY DEF StopInv, FillOrder
<1> DEFINE o == Head(batch)
<1>1. stops' = IF o.trail = None THEN stops ELSE [stops EXCEPT ![o.inst] = ArmedBy(o)]
  BY DEF FillOrder
<1>2. now \in Int /\ stops \in [Instruments -> TrailingState \cup {None}]
  BY DEF OrdersInv, StateInv, LoopTypeOK
<1>3. ArmedBy(o).entryTs = now /\ ArmedBy(o).water = None
  BY DEF ArmedBy
<1> HIDE DEF o
<1>4. stops'[i] = stops[i] \/ stops'[i] = ArmedBy(o)
  BY <1>1, <1>2
<1> QED
  BY <1>2, <1>3, <1>4 DEF StopInv

(* Whatever a visit does to a stop, it never touches one armed in this      *)
(* step and keeps the time of entry.                                        *)
LEMMA VisitStops ==
    ASSUME OrdersInv, StopInv, NEW i \in Instruments,
           DropStop(i) \/ SkipEntryBar(i) \/ TrailStop(i) \/ ExitStop(i)
    PROVE  StopInv'
<1>1. stops \in [Instruments -> TrailingState \cup {None}] /\ now' = now /\ stops[i] # None
  BY DEF OrdersInv, StateInv, LoopTypeOK, DropStop, SkipEntryBar, TrailStop, ExitStop, Visits
<1>2. CASE DropStop(i) \/ ExitStop(i)
  <2>1. stops' = [stops EXCEPT ![i] = None]
    BY <1>2 DEF DropStop, ExitStop, Disarmed
  <2> QED
    BY <1>1, <2>1 DEF StopInv
<1>3. CASE SkipEntryBar(i)
  BY <1>3, StopFrame DEF SkipEntryBar
<1>4. CASE TrailStop(i)
  <2>1. stops' = [stops EXCEPT ![i] = [stops[i] EXCEPT !.water = Water(stops[i])]]
    BY <1>4 DEF TrailStop
  <2>2. stops[i] \in TrailingState /\ stops[i].entryTs # now
    BY <1>1, <1>4 DEF TrailStop, OnEntryBar
  <2>3. stops'[i].entryTs = stops[i].entryTs
    BY <1>1, <2>1, <2>2 DEF TrailingState
  <2>4. \A other \in Instruments : other # i => stops'[other] = stops[other]
    BY <1>1, <2>1
  <2> QED
    BY <1>1, <2>2, <2>3, <2>4 DEF StopInv
<1> QED
  BY <1>2, <1>3, <1>4

LEMMA NextKeepsStops == OrdersInv /\ StopInv /\ [EngineNext]_vars => StopInv'
<1> SUFFICES ASSUME OrdersInv, StopInv, [EngineNext]_vars PROVE StopInv'
  OBVIOUS
<1>1. CASE BuildSnapshot
  BY <1>1, BuildSnapshotStops
<1>2. CASE FillOrder
  BY <1>2, FillOrderStops
<1>3. CASE EvaluateStop
  BY <1>3, VisitStops DEF EvaluateStop
<1>4. CASE \/ RejectOrder \/ Submits \/ MarkStep \/ SettleExpired \/ EndStep \/ Finish
           \/ UNCHANGED vars
  BY <1>4, StopFrame DEF RejectOrder, Submits, MarkStep, SettleExpired, EndStep, Finish, vars, loopVars
<1> QED
  BY <1>1, <1>2, <1>3, <1>4 DEF EngineNext, Returned

(* No stop was armed later than the current step, and one armed in it has   *)
(* no water mark yet (trailing_stop.py:40-46).                              *)
THEOREM StopInvariant == EngineSpec => []StopInv
<1>1. Init => StopInv
  BY DEF Init, LoopInit, StopInv
<1> QED
  BY <1>1, NextKeepsStops, OrdersInvariant, PTL DEF EngineSpec

(* The better of the water mark and the bar's extreme. *)
LEMMA WaterTightens ==
    ASSUME NEW stop \in TrailingState, stop.water # None, MainBar \in Bar
    PROVE  /\ Water(stop) \in Int
           /\ stop.side = "LONG" => Water(stop) >= stop.water
           /\ stop.side # "LONG" => Water(stop) <= stop.water
<1>1. stop.water \in Int /\ MainBar.high \in Int /\ MainBar.low \in Int
  BY DEF TrailingState, Bar
<1>2. CASE stop.side = "LONG"
  <2>1. Water(stop) = IF stop.water = None \/ MainBar.high > stop.water
                      THEN MainBar.high ELSE stop.water
    BY <1>2 DEF Water
  <2> QED
    BY <1>1, <1>2, <2>1
<1>3. CASE stop.side # "LONG"
  <2>1. Water(stop) = IF stop.water = None \/ MainBar.low < stop.water
                      THEN MainBar.low ELSE stop.water
    BY <1>3 DEF Water
  <2> QED
    BY <1>1, <1>3, <2>1
<1> QED
  BY <1>2, <1>3

LEMMA StepTightens ==
    ASSUME OrdersInv, StopInv, [EngineNext]_vars, NEW i \in Instruments,
           stops[i] # None, stops[i].water # None,
           stops'[i] # None, stops'[i].entryTs = stops[i].entryTs
    PROVE  IF stops[i].side = "LONG" THEN stops'[i].water >= stops[i].water
           ELSE stops'[i].water <= stops[i].water
<1>1. /\ stops \in [Instruments -> TrailingState \cup {None}] /\ stops[i] \in TrailingState
      /\ stops[i].water \in Int
  BY DEF OrdersInv, StateInv, LoopTypeOK, TrailingState
<1>2. CASE stops'[i] = stops[i]
  BY <1>1, <1>2
<1>3. CASE FillOrder
  <2> DEFINE o == Head(batch)
  <2>1. stops' = IF o.trail = None THEN stops ELSE [stops EXCEPT ![o.inst] = ArmedBy(o)]
    BY <1>3 DEF FillOrder
  <2>2. ArmedBy(o).entryTs = now
    BY DEF ArmedBy
  <2> HIDE DEF o
  <2>3. stops'[i] # ArmedBy(o)
    BY <2>2 DEF StopInv
  <2>4. stops'[i] = stops[i]
    BY <1>1, <2>1, <2>3
  <2> QED
    BY <1>2, <2>4
<1>4. ASSUME NEW j \in Instruments, TrailStop(j) PROVE stops'[i] = stops[i] \/ i = j
  BY <1>1, <1>4 DEF TrailStop
<1>5. CASE TrailStop(i)
  <2>1. stops' = [stops EXCEPT ![i] = [stops[i] EXCEPT !.water = Water(stops[i])]]
    BY <1>5 DEF TrailStop
  <2>2. stops'[i].water = Water(stops[i])
    BY <1>1, <2>1 DEF TrailingState
  <2>3. MainBar \in Bar
    BY <1>5, MainBarType DEF TrailStop, Visits, Evaluating, OrdersInv, StateInv
  <2> QED
    BY <1>1, <2>2, <2>3, WaterTightens
<1>6. ASSUME NEW j \in Instruments, DropStop(j) \/ ExitStop(j) PROVE stops'[i] = stops[i]
  <2>1. stops' = [stops EXCEPT ![j] = None]
    BY <1>6 DEF DropStop, ExitStop, Disarmed
  <2> QED
    BY <1>1, <2>1
<1>7. CASE \/ BuildSnapshot \/ RejectOrder \/ Submits \/ MarkStep \/ SettleExpired \/ EndStep
           \/ Finish \/ UNCHANGED vars \/ \E j \in Instruments : SkipEntryBar(j)
  BY <1>2, <1>7 DEF BuildSnapshot, RejectOrder, Submits, MarkStep, SettleExpired, EndStep, Finish,
                    vars, loopVars, SkipEntryBar
<1> QED
  BY <1>2, <1>3, <1>4, <1>5, <1>6, <1>7 DEF EngineNext, Returned, EvaluateStop

(* A stop that guards one entry only tightens (trailing_stop.py:77-90).     *)
THEOREM StopsTighten == EngineSpec => WaterMarkOnlyTightens
<1>1. OrdersInv /\ StopInv /\ [EngineNext]_vars =>
        [ \A i \in Instruments :
            stops[i] # None /\ stops[i].water # None
              /\ stops'[i] # None /\ stops'[i].entryTs = stops[i].entryTs =>
                IF stops[i].side = "LONG" THEN stops'[i].water >= stops[i].water
                ELSE stops'[i].water <= stops[i].water ]_vars
  BY StepTightens
<1> QED
  BY <1>1, OrdersInvariant, StopInvariant, PTL DEF EngineSpec, WaterMarkOnlyTightens

-----------------------------------------------------------------------------
(* Exits *)

LEMMA NewExit ==
    ASSUME OrdersInv, [EngineNext]_vars, NEW id \in NewFills, id.kind = "trailing"
    PROVE  \E i \in Instruments : ExitStop(i) /\ id = ExitId(i)
<1>1. id \in FilledIds' /\ id \notin FilledIds
  BY DEF NewFills
<1>2. resultFills' # resultFills
  BY <1>1 DEF FilledIds
<1>3. CASE FillOrder
  <2> DEFINE o == Head(batch)
  <2>1. /\ batch # <<>> /\ batch \in Seq(Order)
        /\ resultFills' = resultFills \cup {FillOf(o)}
    BY <1>3 DEF FillOrder, OrdersInv, StateInv, LoopTypeOK
  <2>2. FillOf(o).order = o.id
    BY DEF FillOf
  <2>3. FilledIds' = FilledIds \cup {o.id}
    BY <2>1, <2>2, FilledBy
  <2>4. o.id \in Ids(batch)
    BY <2>1, HeadOfBatch
  <2>5. o.id.kind # "trailing"
    BY <2>4 DEF OrdersInv, OrderInv
  <2> QED
    BY <1>1, <2>3, <2>5
<1>4. ASSUME NEW i \in Instruments, ExitStop(i)
      PROVE  \E j \in Instruments : ExitStop(j) /\ id = ExitId(j)
  <2> DEFINE fill == [order |-> ExitId(i), ts |-> now, inst |-> i, source |-> BarOwner(Symbol),
                      priced |-> MainBar.ts]
  <2>1. resultFills' = resultFills \cup {fill} /\ fill.order = ExitId(i)
    BY <1>4 DEF ExitStop
  <2> HIDE DEF fill
  <2>2. FilledIds' = FilledIds \cup {ExitId(i)}
    BY <2>1, FilledBy
  <2> QED
    BY <1>1, <1>4, <2>2
<1>5. ~(\/ BuildSnapshot \/ RejectOrder \/ Submits \/ MarkStep \/ SettleExpired \/ EndStep
        \/ Finish \/ UNCHANGED vars
        \/ \E i \in Instruments : DropStop(i) \/ SkipEntryBar(i) \/ TrailStop(i))
  BY <1>2 DEF BuildSnapshot, RejectOrder, Submits, MarkStep, SettleExpired, EndStep, Finish,
              vars, loopVars, resultVars, DropStop, SkipEntryBar, TrailStop
<1> QED
  BY <1>3, <1>4, <1>5 DEF EngineNext, Returned, EvaluateStop

(* The exit's fill is for the whole position, so apply_fill reduces it to   *)
(* nothing.                                                                 *)
LEMMA WholePositionCloses ==
    ASSUME AccountTypeOK, NEW i \in Instruments, positions[i].qty # 0, NEW price, NEW fee,
           ApplyFill(i, IF positions[i].qty > 0 THEN "SELL" ELSE "BUY",
                     Magnitude(positions[i].qty), price, fee)
    PROVE  positions'[i] = Flat
<1> DEFINE q == positions[i].qty
           s == Signed(IF q > 0 THEN "SELL" ELSE "BUY", Magnitude(q))
<1>1. q \in Int /\ positions \in [Instruments -> Position]
  BY InstrumentTypes DEF AccountTypeOK
<1>2. s = -q
  BY <1>1 DEF Signed, Magnitude
<1>3. Open(i, s, price) \/ AddToPosition(i, s, price) \/ Reduce(i, s, price)
  BY DEF ApplyFill
<1> HIDE DEF s
<1>4. ~SameDirection(q, s) /\ q + s = 0
  BY <1>1, <1>2 DEF SameDirection
<1>5. Reduce(i, s, price)
  BY <1>3, <1>4 DEF Open, AddToPosition
<1>6. positions' = [positions EXCEPT ![i] =
                      IF q + s = 0 THEN Flat ELSE [qty |-> q + s, avg |-> positions[i].avg]]
  BY <1>5 DEF Reduce
<1> QED
  BY <1>1, <1>4, <1>6

LEMMA ExitCloses ==
    ASSUME OrdersInv, [EngineNext]_vars, NEW id \in NewFills, id.kind = "trailing"
    PROVE  positions[id.k].qty # 0 /\ positions'[id.k] = Flat
<1>1. PICK i \in Instruments : ExitStop(i) /\ id = ExitId(i)
  BY NewExit
<1>2. id.k = i
  BY <1>1 DEF ExitId
<1>3. /\ positions[i].qty # 0
      /\ ApplyFill(i, IF positions[i].qty > 0 THEN "SELL" ELSE "BUY", Magnitude(positions[i].qty),
                   Normalize(Threshold(i), TickOf(i)), 0)
  BY <1>1 DEF ExitStop, ExitQty
<1>4. AccountTypeOK
  BY DEF OrdersInv, StateInv, AccountInv
<1> QED
  BY <1>2, <1>3, <1>4, WholePositionCloses

(* A trailing exit closes its whole position and never turns it around,     *)
(* whatever the step filled before (engine.py:429-434).                     *)
THEOREM ExitsClose == EngineSpec => ExitClosesPosition
<1>1. OrdersInv /\ [EngineNext]_vars =>
        [ \A id \in NewFills : id.kind = "trailing" =>
            positions[id.k].qty # 0 /\ positions'[id.k] = Flat ]_vars
  BY ExitCloses
<1> QED
  BY <1>1, OrdersInvariant, PTL DEF EngineSpec, ExitClosesPosition

LEMMA ExitLater ==
    ASSUME OnTime, OrdersInv, LineInv, StopInv, [EngineNext]_vars,
           NEW id \in NewFills, id.kind = "trailing"
    PROVE  MainBar.ts > stops[id.k].entryTs
<1>1. PICK i \in Instruments : ExitStop(i) /\ id = ExitId(i)
  BY NewExit
<1>2. id.k = i
  BY <1>1 DEF ExitId
<1>3. MainBar # NoBar /\ stops[i] # None /\ stops[i].entryTs # now
  BY <1>1 DEF ExitStop, Visits, Evaluating, OnEntryBar
<1>4. MainBar.ts = now
  BY <1>3, MainBarCurrent DEF LineInv
<1>5. now \in Int /\ stops[i] \in TrailingState /\ stops[i].entryTs <= now
  BY <1>3 DEF OrdersInv, StateInv, LoopTypeOK, StopInv
<1>6. stops[i].entryTs \in Int
  BY <1>5 DEF TrailingState
<1> QED
  BY <1>2, <1>3, <1>4, <1>5, <1>6

(* A trailing exit is taken on a bar after the entry bar                    *)
(* (trailing_stop.py:69-72), where no snapshot repeats an earlier bar.      *)
THEOREM ExitsComeLater == OnTime => (EngineSpec => ExitAfterEntryBar)
<1> SUFFICES ASSUME OnTime PROVE EngineSpec => ExitAfterEntryBar
  OBVIOUS
<1>1. OrdersInv /\ LineInv /\ StopInv /\ [EngineNext]_vars =>
        [ \A id \in NewFills : id.kind = "trailing" =>
            MainBar.ts > stops[id.k].entryTs ]_vars
  BY ExitLater
<1> QED
  BY <1>1, OrdersInvariant, LineInvariant, StopInvariant, PTL DEF EngineSpec, ExitAfterEntryBar

-----------------------------------------------------------------------------
(* A stop that was visited and kept has its position, and none is left      *)
(* unvisited when the step is marked.                                       *)

Guards(i) ==
    Held(i) /\ (stops[i].entryTs # now => (stops[i].side = "LONG" <=> positions[i].qty > 0))

GuardInv ==
    /\ batch # <<>> => visited = {}
    /\ phase \in {"step", "expiry"} => \A i \in visited : stops[i] # None => Guards(i)
    /\ phase = "expiry" /\ MainBar # NoBar => \A i \in Instruments \ visited : stops[i] = None

\* What a visit leaves of the instrument it was about.
LEMMA VisitedGuards ==
    ASSUME OrdersInv, NEW i \in Instruments, stops'[i] # None,
           DropStop(i) \/ SkipEntryBar(i) \/ TrailStop(i) \/ ExitStop(i)
    PROVE  Guards(i)'
<1>1. /\ stops \in [Instruments -> TrailingState \cup {None}] /\ stops[i] \in TrailingState
      /\ positions[i].qty \in Int
  BY InstrumentTypes DEF OrdersInv, StateInv, AccountInv, LoopTypeOK, DropStop, SkipEntryBar, TrailStop,
                         ExitStop, Visits
<1>2. ~(DropStop(i) \/ ExitStop(i))
  <2>1. [stops EXCEPT ![i] = None][i] = None
    BY <1>1
  <2> QED
    BY <2>1 DEF DropStop, ExitStop, Disarmed
<1>3. CASE SkipEntryBar(i)
  BY <1>3 DEF SkipEntryBar, OnEntryBar, Guards, Held, accountVars
<1>4. CASE TrailStop(i)
  <2>1. stops' = [stops EXCEPT ![i] = [stops[i] EXCEPT !.water = Water(stops[i])]]
    BY <1>4 DEF TrailStop
  <2>2. stops'[i].side = stops[i].side
    BY <1>1, <2>1 DEF TrailingState
  <2>3. /\ positions[i].qty # 0 /\ SideMatches(i) /\ UNCHANGED positions
    BY <1>4 DEF TrailStop, accountVars
  <2> QED
    BY <1>1, <2>2, <2>3 DEF Guards, Held, SideMatches
<1> QED
  BY <1>2, <1>3, <1>4

\* And of the others.
LEMMA OthersGuard ==
    ASSUME OrdersInv, NEW i \in Instruments, NEW j \in Instruments, i # j,
           stops'[j] # None, stops[j] # None => Guards(j),
           DropStop(i) \/ SkipEntryBar(i) \/ TrailStop(i) \/ ExitStop(i)
    PROVE  Guards(j)'
<1>1. stops \in [Instruments -> TrailingState \cup {None}] /\ positions \in [Instruments -> Position]
  BY DEF OrdersInv, StateInv, AccountInv, AccountTypeOK, LoopTypeOK
<1>2. stops'[j] = stops[j] /\ now' = now
  BY <1>1 DEF DropStop, SkipEntryBar, TrailStop, ExitStop, Disarmed
<1>3. positions'[j] = positions[j]
  <2>1. CASE ExitStop(i)
    BY <1>1, <2>1 DEF ExitStop, ApplyFill, Open, AddToPosition, Reduce
  <2>2. CASE DropStop(i) \/ SkipEntryBar(i) \/ TrailStop(i)
    BY <2>2 DEF DropStop, SkipEntryBar, TrailStop, accountVars
  <2> QED
    BY <2>1, <2>2
<1> QED
  BY <1>2, <1>3 DEF Guards, Held

LEMMA VisitKeepsGuards ==
    ASSUME OrdersInv, GuardInv, NEW i \in Instruments,
           DropStop(i) \/ SkipEntryBar(i) \/ TrailStop(i) \/ ExitStop(i)
    PROVE  GuardInv'
<1>1. /\ batch = <<>> /\ batch' = batch /\ phase = "step" /\ phase' = "step"
      /\ visited' = visited \cup {i} /\ visited \subseteq Instruments
  BY DEF DropStop, SkipEntryBar, TrailStop, ExitStop, Visits, Evaluating, OrdersInv, StateInv, LoopTypeOK
<1>2. ASSUME NEW j \in visited', stops'[j] # None PROVE Guards(j)'
  <2>1. CASE j = i
    BY <1>2, <2>1, VisitedGuards
  <2>2. CASE j # i
    <3>1. j \in visited /\ j \in Instruments /\ (stops[j] # None => Guards(j))
      BY <1>1, <1>2, <2>2 DEF GuardInv
    <3> QED
      BY <1>2, <2>2, <3>1, OthersGuard
  <2> QED
    BY <2>1, <2>2
<1> QED
  BY <1>1, <1>2 DEF GuardInv

LEMMA GuardFrame ==
    ASSUME GuardInv, UNCHANGED <<positions, stops, now, visited, bars, batch>>,
           phase' = phase \/ phase' \notin {"step", "expiry"}
    PROVE  GuardInv'
  BY StageFrame DEF GuardInv, Guards, Held

LEMMA NextKeepsGuards ==
    ASSUME InstrumentType # "option", OrdersInv, GuardInv, [EngineNext]_vars
    PROVE  GuardInv'
<1>1. CASE BuildSnapshot
  <2>1. visited' = {} /\ phase' = "open"
    BY <1>1 DEF BuildSnapshot
  <2> QED
    BY <2>1 DEF GuardInv
<1>2. CASE FillOrder \/ RejectOrder
  <2>1. batch # <<>> /\ UNCHANGED <<phase, visited>>
    BY <1>2 DEF FillOrder, RejectOrder
  <2>2. visited = {} /\ phase # "expiry"
    BY <2>1 DEF GuardInv, OrdersInv, StateInv, StageInv
  <2> QED
    BY <2>1, <2>2 DEF GuardInv
<1>3. CASE Submits
  <2>1. visited' = {} /\ phase' = "step"
    BY <1>3 DEF Submits, OrdersInv, StateInv, StageInv
  <2> QED
    BY <2>1 DEF GuardInv
<1>4. CASE EvaluateStop
  BY <1>4, VisitKeepsGuards DEF EvaluateStop
<1>5. CASE MarkStep
  <2>1. /\ phase = "step" /\ phase' = "expiry" /\ batch = <<>>
        /\ UNCHANGED <<positions, stops, now, visited, bars, batch>>
        /\ MainBar = NoBar \/ \A i \in Instruments \ visited : stops[i] = None
    BY <1>5 DEF MarkStep, MarkToMarket
  <2> QED
    BY <2>1, StageFrame DEF GuardInv, Guards, Held
<1>6. CASE SettleExpired
  <2>1. expired # {}
    BY <1>6 DEF SettleExpired
  <2> QED
    BY <2>1 DEF OrdersInv, StateInv, StageInv
<1>7. CASE EndStep \/ Finish \/ UNCHANGED vars
  <2>1. /\ UNCHANGED <<positions, stops, now, visited, bars, batch>>
        /\ phase' = phase \/ phase' \notin {"step", "expiry"}
    BY <1>7 DEF EndStep, Finish, vars, loopVars, accountVars, MarkToMarket
  <2> QED
    BY <2>1, GuardFrame
<1> QED
  BY <1>1, <1>2, <1>3, <1>4, <1>5, <1>6, <1>7 DEF EngineNext, Returned

(* After a step an armed stop has a position to guard, on the right side    *)
(* once the entry bar is over (trailing_stop.py:62-66, 95-98); of options,  *)
(* which also lose positions by expiry, it is model-checked.                *)
THEOREM StopsHavePositions == InstrumentType # "option" => (EngineSpec => []StopsGuardPositions)
<1> SUFFICES ASSUME InstrumentType # "option" PROVE EngineSpec => []StopsGuardPositions
  OBVIOUS
<1>1. Init => GuardInv
  BY DEF Init, LoopInit, GuardInv
<1>2. OrdersInv /\ GuardInv /\ [EngineNext]_vars => GuardInv'
  BY NextKeepsGuards
<1>3. OrdersInv /\ GuardInv => StopsGuardPositions
  BY DEF GuardInv, StopsGuardPositions, Guards, OrdersInv, StateInv, LoopTypeOK
<1> QED
  BY <1>1, <1>2, <1>3, OrdersInvariant, PTL DEF EngineSpec

-----------------------------------------------------------------------------
(* Expiry *)

\* What is due and held is yet to settle, or is a short call nothing could
\* be delivered for.
Due(opt) == Expiry[opt] <= now /\ Held(opt)
ExpiryInv ==
    /\ phase = "expiry" /\ MainBar # NoBar =>
         \A opt \in Options : Due(opt) => opt \in expired \/ AssignedPhysically(opt)
    /\ ExpiredAreSettled

LEMMA ExpiryElsewhere == phase' \notin {"expiry", "idle"} => ExpiryInv'
  BY DEF ExpiryInv, ExpiredAreSettled

\* A settlement takes the position of the option it is about, or leaves it
\* to the call nothing could be delivered for, and of the others none.
LEMMA SettledOne ==
    ASSUME OrdersInv, NEW opt \in Options, NEW other \in Options,
           AssignPhysical(opt) \/ SettleCash(opt)
    PROVE  /\ positions'[opt].qty = 0 \/ (AssignedPhysically(opt) /\ UNCHANGED positions)
           /\ other # opt => positions'[other] = positions[other]
<1>1. positions \in [Instruments -> Position] /\ Options \subseteq Instruments /\ Symbol \notin Options
  BY InstrumentKinds DEF OrdersInv, StateInv, AccountInv, AccountTypeOK
<1>2. Flat.qty = 0
  BY DEF Flat
<1>3. CASE SettleCash(opt)
  <2>1. positions' = [positions EXCEPT ![opt] = Flat]
    BY <1>3 DEF SettleCash, SettlePosition
  <2> QED
    BY <1>1, <1>2, <2>1
<1>4. CASE AssignPhysical(opt) /\ Deliverable(opt, Symbol)
  <2> DEFINE left == positions[Symbol].qty - Multiplier[opt]
             rest == IF left = 0 THEN Flat ELSE [qty |-> left, avg |-> positions[Symbol].avg]
  <2>1. positions' = [positions EXCEPT ![opt] = Flat, ![Symbol] = rest]
    BY <1>4 DEF AssignPhysical, SettlePhysical
  <2> HIDE DEF rest
  <2> QED
    BY <1>1, <1>2, <2>1
<1>5. CASE AssignPhysical(opt) /\ ~Deliverable(opt, Symbol)
  BY <1>5 DEF AssignPhysical, accountVars
<1> QED
  BY <1>3, <1>4, <1>5 DEF AssignPhysical

LEMMA SettleExpiredDue == OrdersInv /\ ExpiryInv /\ SettleExpired => ExpiryInv'
<1> SUFFICES ASSUME OrdersInv, ExpiryInv, SettleExpired PROVE ExpiryInv'
  OBVIOUS
<1>1. PICK opt \in expired :
        /\ AssignPhysical(opt) \/ SettleCash(opt)
        /\ expired' = expired \ {opt}
  BY DEF SettleExpired
<1>2. phase = "expiry" /\ phase' = phase /\ UNCHANGED <<now, bars>> /\ opt \in Options
  BY <1>1 DEF SettleExpired, OrdersInv, StateInv, LoopTypeOK
<1>3. MainBar' = MainBar
  BY <1>2, StageFrame
<1>4. ASSUME MainBar # NoBar, NEW other \in Options, Due(other)'
      PROVE  other \in expired' \/ AssignedPhysically(other)'
  <2>1. CASE other = opt
    BY <1>1, <1>2, <1>3, <1>4, <2>1, SettledOne DEF Due, Held, AssignedPhysically, Intrinsic
  <2>2. CASE other # opt
    <3>1. positions'[other] = positions[other]
      BY <1>1, <1>2, <2>2, SettledOne
    <3>2. other \in expired \/ AssignedPhysically(other)
      BY <1>2, <1>4, <3>1 DEF Due, Held, ExpiryInv
    <3> QED
      BY <1>1, <1>3, <2>2, <3>1, <3>2 DEF AssignedPhysically, Intrinsic
  <2> QED
    BY <2>1, <2>2
<1> QED
  BY <1>2, <1>3, <1>4 DEF ExpiryInv, ExpiredAreSettled

LEMMA NextKeepsExpiry ==
    ASSUME InstrumentType = "option", OrdersInv, ExpiryInv, [EngineNext]_vars
    PROVE  ExpiryInv'
<1>1. CASE MarkStep
  <2>1. phase' = "expiry" /\ expired' = Expired /\ UNCHANGED <<now, bars, positions>>
    BY <1>1 DEF MarkStep, MarkToMarket
  <2>2. MainBar # NoBar => \A opt \in Options : Due(opt) => opt \in Expired
    BY DEF Expired, Due
  <2> QED
    BY <2>1, <2>2, StageFrame DEF ExpiryInv, ExpiredAreSettled, Due, Held
<1>2. CASE SettleExpired
  BY <1>2, SettleExpiredDue
<1>3. CASE EndStep
  <2>1. phase = "expiry" /\ phase' = "idle" /\ expired = {} /\ UNCHANGED <<now, bars, positions>>
    BY <1>3 DEF EndStep, MarkToMarket
  <2> QED
    BY <2>1, StageFrame DEF ExpiryInv, ExpiredAreSettled, Due, Held, AssignedPhysically, Intrinsic
<1>4. CASE UNCHANGED vars
  <2>1. UNCHANGED <<phase, now, bars, positions, expired>>
    BY <1>4 DEF vars, loopVars, accountVars
  <2> QED
    BY <2>1, StageFrame DEF ExpiryInv, ExpiredAreSettled, Due, Held, AssignedPhysically, Intrinsic
<1>5. CASE BuildSnapshot \/ FillOrder \/ RejectOrder \/ Submits \/ EvaluateStop \/ Finish
  <2>1. phase' \notin {"expiry", "idle"}
    BY <1>5 DEF BuildSnapshot, FillOrder, RejectOrder, Submits, EvaluateStop, DropStop, SkipEntryBar,
                TrailStop, ExitStop, Visits, Evaluating, Finish, OrdersInv, StateInv, StageInv
  <2> QED
    BY <2>1, ExpiryElsewhere
<1> QED
  BY <1>1, <1>2, <1>3, <1>4, <1>5 DEF EngineNext, Returned

(* What has expired is settled by the end of the first step with a bar of   *)
(* the underlying, but for a short call without shares to deliver           *)
(* (engine.py:259-291, 451-473).                                            *)
THEOREM NothingExpiredIsLeft == InstrumentType = "option" => (EngineSpec => []ExpiredAreSettled)
<1> SUFFICES ASSUME InstrumentType = "option" PROVE EngineSpec => []ExpiredAreSettled
  OBVIOUS
<1>1. Init => ExpiryInv
  <2> SUFFICES ASSUME Init PROVE ExpiryInv
    OBVIOUS
  <2>1. phase = "idle" /\ bars = [sym \in Universe |-> NoBar]
    BY DEF Init, LoopInit
  <2>2. MainBar = NoBar
    BY <2>1, InstrumentKinds DEF MainBar
  <2> QED
    BY <2>1, <2>2 DEF ExpiryInv, ExpiredAreSettled
<1>2. OrdersInv /\ ExpiryInv /\ [EngineNext]_vars => ExpiryInv'
  BY NextKeepsExpiry
<1>3. ExpiryInv => ExpiredAreSettled
  BY DEF ExpiryInv
<1> QED
  BY <1>1, <1>2, <1>3, OrdersInvariant, PTL DEF EngineSpec

LEMMA ExpiryKeepsLong ==
    ASSUME OrdersInv, [EngineNext]_vars, phase = "expiry", positions[Symbol].qty >= 0
    PROVE  positions'[Symbol].qty >= 0
<1>1. /\ positions \in [Instruments -> Position] /\ Options \subseteq Instruments
      /\ Symbol \notin Options /\ Symbol \in Instruments /\ positions[Symbol].qty \in Int
  BY InstrumentKinds DEF OrdersInv, StateInv, AccountInv, AccountTypeOK, Position
<1>2. CASE UNCHANGED positions
  BY <1>2
<1>3. CASE SettleExpired
  <2>1. PICK opt \in expired : AssignPhysical(opt) \/ SettleCash(opt)
    BY <1>3 DEF SettleExpired
  <2>2. opt \in Options /\ opt # Symbol /\ Flat.qty = 0
    BY <1>1 DEF OrdersInv, StateInv, LoopTypeOK, Flat
  <2>3. CASE SettleCash(opt)
    <3>1. positions' = [positions EXCEPT ![opt] = Flat]
      BY <2>3 DEF SettleCash, SettlePosition
    <3> QED
      BY <1>1, <2>2, <3>1
  <2>4. CASE AssignPhysical(opt) /\ Deliverable(opt, Symbol)
    <3> DEFINE left == positions[Symbol].qty - Multiplier[opt]
               rest == IF left = 0 THEN Flat ELSE [qty |-> left, avg |-> positions[Symbol].avg]
    <3>1. positions' = [positions EXCEPT ![opt] = Flat, ![Symbol] = rest]
      BY <2>4 DEF AssignPhysical, SettlePhysical
    <3>2. left >= 0
      <4>1. Multiplier[opt] \in Int /\ positions[Symbol].qty >= Multiplier[opt]
        BY <1>1, <2>2, <2>4, PortfolioAssumption DEF PortfolioAssumption, Deliverable
      <4> QED
        BY <1>1, <4>1
    <3>3. rest.qty >= 0
      BY <2>2, <3>2
    <3> HIDE DEF rest
    <3>4. positions'[Symbol] = rest
      BY <1>1, <3>1
    <3> QED
      BY <3>3, <3>4
  <2>5. CASE AssignPhysical(opt) /\ ~Deliverable(opt, Symbol)
    BY <1>2, <2>5 DEF AssignPhysical, accountVars
  <2> QED
    BY <2>1, <2>3, <2>4, <2>5
<1>4. CASE EndStep \/ UNCHANGED vars
  BY <1>2, <1>4 DEF EndStep, MarkToMarket, vars, accountVars
<1>5. ~(\/ BuildSnapshot \/ FillOrder \/ RejectOrder \/ Submits \/ EvaluateStop \/ MarkStep \/ Finish)
  BY DEF BuildSnapshot, FillOrder, RejectOrder, Submits, EvaluateStop, DropStop, SkipEntryBar,
         TrailStop, ExitStop, Visits, Evaluating, MarkStep, Finish, OrdersInv, StateInv, StageInv
<1> QED
  BY <1>3, <1>4, <1>5 DEF EngineNext, Returned

(* Delivering shares against a short call never leaves the underlying short *)
(* (backtester/src/portfolio/accounting.py:40-43).                          *)
THEOREM DeliveryKeepsLong == EngineSpec => AssignmentNeverShortsShares
<1>1. OrdersInv /\ [EngineNext]_vars =>
        [ phase = "expiry" /\ positions[Symbol].qty >= 0 => positions'[Symbol].qty >= 0 ]_vars
  BY ExpiryKeepsLong
<1> QED
  BY <1>1, OrdersInvariant, PTL DEF EngineSpec, AssignmentNeverShortsShares
-----------------------------------------------------------------------------
(* Equity through the loop: each of its fills, settlements and marks is an  *)
(* operation of Portfolio, and those keep the sums.                         *)

LEMMA EquityFrame == EquityInv /\ UNCHANGED accountVars => EquityInv'
<1> SUFFICES ASSUME EquityInv, UNCHANGED accountVars PROVE EquityInv'
  OBVIOUS
<1>1. AccountInv'
  BY AccountFrame DEF EquityInv
<1> QED
  BY <1>1 DEF EquityInv, BooksBalance, EquityReconciles, accountVars

LEMMA MarksType ==
    ASSUME StateInv, NEW i \in Instruments
    PROVE  MarkedAt(i, Marks) \in Int
<1>1. positions[i].avg \in Int
  BY InstrumentTypes DEF StateInv, AccountInv
<1>2. CASE i \in Options /\ quotes[i] # NoQuote
  <2>1. quotes[i] \in [bid : Int, ask : Int]
    BY <1>2, BacktestAssumption DEF BacktestAssumption, StateInv, LoopTypeOK
  <2>2. quotes[i].bid \in Int /\ quotes[i].ask \in Int
    BY <2>1
  <2>3. (quotes[i].bid + quotes[i].ask) \div 2 \in Int
    BY <2>2
  <2>4. MarkOf(i) = (quotes[i].bid + quotes[i].ask) \div 2
    BY <1>2 DEF MarkOf
  <2> QED
    BY <1>1, <2>3, <2>4 DEF MarkedAt, Marks
<1>3. CASE i \notin Options /\ (i = Symbol \/ MultiSymbol) /\ bars[i] # NoBar
  <2>1. bars[i] \in Bar
    BY <1>3 DEF Options, StateInv, LoopTypeOK
  <2>2. MarkOf(i) = bars[i].close /\ bars[i].close \in Int
    BY <1>3, <2>1 DEF MarkOf, Bar
  <2> QED
    BY <1>1, <2>2 DEF MarkedAt, Marks
<1>4. CASE ~(i \in Options /\ quotes[i] # NoQuote)
           /\ ~(i \notin Options /\ (i = Symbol \/ MultiSymbol) /\ bars[i] # NoBar)
  <2>1. MarkOf(i) = NoMark
    BY <1>4 DEF MarkOf
  <2> QED
    BY <1>1, <2>1 DEF MarkedAt, Marks
<1> QED
  BY <1>2, <1>3, <1>4

LEMMA FillOrderEquity == StateInv /\ EquityInv /\ FillOrder => EquityInv'
<1> SUFFICES ASSUME StateInv, EquityInv, FillOrder PROVE EquityInv'
  OBVIOUS
<1> DEFINE o == Head(batch)
<1>1. o \in Order
  BY HeadOfBatch DEF StateInv, LoopTypeOK, FillOrder
<1>2. /\ Accepted(o)
      /\ ApplyFill(o.inst, o.side, o.qty, Price(o), ComputeFees(o, Price(o)))
  BY DEF FillOrder
<1> HIDE DEF o
<1> QED
  BY <1>1, <1>2, AcceptedOrder, ApplyFillKeepsEquity DEF StateInv

LEMMA ExitStopEquity ==
    ASSUME StateInv, EquityInv, NEW i \in Instruments, ExitStop(i)
    PROVE  EquityInv'
<1> DEFINE side == IF positions[i].qty > 0 THEN "SELL" ELSE "BUY"
           price == Normalize(Threshold(i), TickOf(i))
<1>1. /\ Evaluating /\ stops[i] # None /\ positions[i].qty # 0
      /\ ApplyFill(i, side, ExitQty(i), price, 0)
  BY DEF ExitStop, Visits
<1>2. side \in Sides /\ 0 \in Int
  BY DEF Sides
<1>3. ExitQty(i) \in Nat \ {0}
  BY <1>1, InstrumentTypes DEF StateInv, AccountInv, ExitQty, Magnitude
<1>4. price \in Int
  BY <1>1, StopTypes DEF StateInv
<1> HIDE DEF side, price
<1> QED
  BY <1>1, <1>2, <1>3, <1>4, ApplyFillKeepsEquity

LEMMA SettleExpiredEquity == StateInv /\ EquityInv /\ SettleExpired => EquityInv'
<1> SUFFICES ASSUME StateInv, EquityInv, SettleExpired PROVE EquityInv'
  OBVIOUS
<1>1. PICK opt \in expired : AssignPhysical(opt) \/ SettleCash(opt)
  BY DEF SettleExpired
<1>2. opt \in Options /\ opt \in Instruments /\ Symbol \in Instruments
  BY <1>1, InstrumentKinds DEF StateInv, LoopTypeOK
<1>3. MainBar # NoBar /\ InstrumentType = "option" /\ Multiplier[Symbol] = 1
  BY <1>1, BacktestAssumption DEF BacktestAssumption, StateInv, StageInv
<1>4. Intrinsic(opt) \in Int /\ Strike[opt] \in Int
  BY <1>2, <1>3, IntrinsicType, BacktestAssumption DEF BacktestAssumption, StateInv
<1>5. CASE AssignPhysical(opt) /\ Deliverable(opt, Symbol)
  <2>1. SettlePhysical(opt, Symbol, Strike[opt], Intrinsic(opt)) /\ Intrinsic(opt) > 0
    BY <1>5 DEF AssignPhysical, AssignedPhysically
  <2>2. Intrinsic(opt) \in Int \ {0}
    BY <1>4, <2>1
  <2> QED
    BY <1>2, <1>3, <1>4, <2>1, <2>2, SettlePhysicalKeepsEquity
<1>6. CASE AssignPhysical(opt) /\ ~Deliverable(opt, Symbol)
  BY <1>6, EquityFrame DEF AssignPhysical
<1>7. CASE SettleCash(opt)
  BY <1>2, <1>4, <1>7, SettlePositionKeepsEquity DEF SettleCash
<1> QED
  BY <1>1, <1>5, <1>6, <1>7

LEMMA NextKeepsEquity == StateInv /\ EquityInv /\ [EngineNext]_vars => EquityInv'
<1> SUFFICES ASSUME StateInv, EquityInv, [EngineNext]_vars PROVE EquityInv'
  OBVIOUS
<1>1. CASE FillOrder
  BY <1>1, FillOrderEquity
<1>2. CASE \E i \in Instruments : ExitStop(i)
  BY <1>2, ExitStopEquity
<1>3. CASE SettleExpired
  BY <1>3, SettleExpiredEquity
<1>4. CASE MarkStep \/ EndStep
  BY <1>4, MarksType, MarkKeepsEquity DEF MarkStep, EndStep
<1>5. CASE \/ BuildSnapshot \/ RejectOrder \/ Submits \/ Finish \/ UNCHANGED vars
           \/ \E i \in Instruments : DropStop(i) \/ SkipEntryBar(i) \/ TrailStop(i)
  BY <1>5, EquityFrame DEF BuildSnapshot, RejectOrder, Submits, Finish, vars, DropStop,
                           SkipEntryBar, TrailStop
<1> QED
  BY <1>1, <1>2, <1>3, <1>4, <1>5 DEF EngineNext, Returned, EvaluateStop

(* Equity is initial cash plus realized and unrealized PnL less fees at     *)
(* every point of a run: after each fill, exit, settlement and mark, for    *)
(* any market and any strategy, as long as no flip or physical assignment   *)
(* has distorted the books (engine.py:371-480, accounting.py:19-38, 96-137). *)
THEOREM LoopKeepsEquity == EngineSpec => []EquityReconciles
<1>1. Init => EquityInv
  BY InitEquity DEF Init
<1>2. EquityInv => EquityReconciles
  BY DEF EquityInv
<1> QED
  BY <1>1, <1>2, NextKeepsEquity, StateInvariant, PTL DEF EngineSpec
=============================================================================
