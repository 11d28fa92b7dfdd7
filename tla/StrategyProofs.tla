--------------------------- MODULE StrategyProofs ---------------------------
(***************************************************************************)
(* Proofs about StrategyLoop.  A run of the loop with a strategy is a run  *)
(* of the engine (EngineSpec of BacktestProofs), so that every theorem     *)
(* there holds of it; what a strategy promises is then proved from an      *)
(* invariant of its own, which says what stays true between the step in    *)
(* which it asks for an order and the one in which the order is filled.    *)
(***************************************************************************)
EXTENDS StrategyLoop, BacktestProofs

-----------------------------------------------------------------------------
(* Extremes of finite sets of numbers, and the sequence of a set *)

LEMMA FiniteMax ==
    ASSUME NEW S, IsFiniteSet(S), S \subseteq Int, S # {}
    PROVE  Max(S) \in S /\ \A y \in S : Max(S) >= y
<1> DEFINE family == {B \in SUBSET S : B = {} \/ \E x \in B : \A y \in B : x >= y}
<1>1. ASSUME NEW B \in SUBSET S, \A C \in SUBSET B : C # B => C \in family
      PROVE  B \in family
  <2> SUFFICES ASSUME NEW b \in B PROVE \E x \in B : \A y \in B : x >= y
    OBVIOUS
  <2> DEFINE C == B \ {b}
  <2>1. C \in SUBSET B /\ C # B /\ C \in family
    BY <1>1
  <2>2. CASE C = {}
    BY <2>2
  <2>3. CASE C # {}
    <3>1. PICK x \in C : \A y \in C : x >= y
      BY <2>1, <2>3
    <3>2. x \in Int /\ b \in Int /\ C \subseteq Int
      OBVIOUS
    <3>3. CASE x >= b
      BY <3>1, <3>3
    <3>4. CASE ~(x >= b)
      <4>1. \A y \in C : b >= y
        BY <3>1, <3>2, <3>4
      <4> QED
        BY <4>1, <3>2
    <3> QED
      BY <3>3, <3>4
  <2> QED
    BY <2>2, <2>3
<1> HIDE DEF family
<1>2. S \in family
  BY <1>1, SubsetInduction
<1>3. \E x \in S : \A y \in S : x >= y
  BY <1>2 DEF family
<1> QED
  BY <1>3 DEF Max

LEMMA FiniteMin ==
    ASSUME NEW S, IsFiniteSet(S), S \subseteq Int, S # {}
    PROVE  Min(S) \in S /\ \A y \in S : Min(S) <= y
<1> DEFINE mirror == {-x : x \in S}
<1>1. IsFiniteSet(mirror)
  <2> DEFINE f == [x \in S |-> -x]
  <2>1. f \in Surjection(S, mirror)
    BY DEF Surjection
  <2> HIDE DEF f
  <2> QED
    BY <2>1, FS_Surjection
<1>2. mirror \subseteq Int /\ mirror # {}
  OBVIOUS
<1>3. PICK x \in mirror : \A y \in mirror : x >= y
  <2> HIDE DEF mirror
  <2> QED
    BY <1>1, <1>2, FiniteMax
<1>4. PICK z \in S : x = -z
  OBVIOUS
<1>5. \A y \in S : z <= y
  <2> SUFFICES ASSUME NEW y \in S PROVE z <= y
    OBVIOUS
  <2>1. -y \in mirror /\ x >= -y
    BY <1>3
  <2> QED
    BY <2>1, <1>4
<1> QED
  BY <1>5 DEF Min

LEMMA SequenceOfSet ==
    ASSUME NEW S, IsFiniteSet(S)
    PROVE  /\ Cardinality(S) \in Nat
           /\ SetToSeq(S) \in [1..Cardinality(S) -> S]
           /\ IsInjective(SetToSeq(S))
<1>1. Cardinality(S) \in Nat /\ ExistsBijection(1..Cardinality(S), S)
  BY FS_CardinalityType
<1>2. \E f \in [1..Cardinality(S) -> S] : IsInjective(f)
  BY <1>1 DEF ExistsBijection, Bijection, Injection
<1> QED
  BY <1>1, <1>2 DEF SetToSeq
-----------------------------------------------------------------------------
(* What a strategy is given *)

\* The bars of a run: with a strategy that divides by them, of positive price.
Sound == {bar \in Bar : "trend_follow_risk_sized" \in StrategyNames => bar.close > 0}

HistoryInv ==
    /\ strategy \in StrategyNames
    /\ history \in [Universe -> Seq(Sound)]
    /\ bars \in [Universe -> Sound \cup {NoBar}]

LEMMA SinceDrops ==
    ASSUME NEW B, NEW rows \in Seq(B), NEW ts
    PROVE  \E d \in 0..Len(rows) :
             /\ Since(rows, ts) = SubSeq(rows, 1 + d, Len(rows))
             /\ d # 0 => rows[d].ts < ts
             /\ \A k \in DOMAIN rows : rows[k].ts < ts => k <= d
<1> DEFINE old == {k \in DOMAIN rows : rows[k].ts < ts}
           S == {0} \cup old
<1>1. Len(rows) \in Nat /\ DOMAIN rows = 1..Len(rows)
  OBVIOUS
<1>2. S \subseteq 0..Len(rows)
  BY <1>1
<1>3. IsFiniteSet(S) /\ S \subseteq Int /\ S # {}
  <2>1. IsFiniteSet(0..Len(rows))
    BY <1>1, FS_Interval
  <2> QED
    BY <1>2, <2>1, FS_Subset
<1>4. Max(S) \in S /\ \A y \in S : Max(S) >= y
  <2> HIDE DEF S
  <2> QED
    BY <1>3, FiniteMax
<1>5. Since(rows, ts) = SubSeq(rows, 1 + Max(S), Len(rows))
  BY DEF Since
<1>6. Max(S) \in 0..Len(rows) /\ (Max(S) # 0 => rows[Max(S)].ts < ts)
  BY <1>2, <1>4
<1>7. \A k \in DOMAIN rows : rows[k].ts < ts => k <= Max(S)
  BY <1>1, <1>4
<1> QED
  BY <1>5, <1>6, <1>7

LEMMA SinceType ==
    ASSUME NEW B, NEW rows \in Seq(B), NEW ts
    PROVE  Since(rows, ts) \in Seq(B)
<1>1. PICK d \in 0..Len(rows) : Since(rows, ts) = SubSeq(rows, 1 + d, Len(rows))
  BY SinceDrops
<1>2. Len(rows) \in Nat /\ \A k \in 1..Len(rows) : rows[k] \in B
  OBVIOUS
<1> QED
  BY <1>1, <1>2, SubSeqProperties

LEMMA LargerOf ==
    ASSUME NEW m \in Int, NEW n \in Int
    PROVE  Max({m, n}) = IF m >= n THEN m ELSE n
<1> DEFINE S == {m, n}
<1>1. IsFiniteSet(S) /\ S \subseteq Int /\ S # {}
  <2>1. IsFiniteSet({m}) /\ S = {m} \cup {n}
    BY FS_Singleton
  <2> QED
    BY <2>1, FS_AddElement
<1>2. Max(S) \in S /\ \A y \in S : Max(S) >= y
  <2> HIDE DEF S
  <2> QED
    BY <1>1, FiniteMax
<1> QED
  BY <1>2

LEMMA WindowType ==
    ASSUME HistoryInv, NEW sym \in Universe
    PROVE  Window(sym) \in Seq(Sound)
<1> DEFINE recent == Since(history[sym], now - Lookback)
           low == Max({1, Len(recent) - Lookback + 1})
<1>1. CASE HasHistory
  <2>1. recent \in Seq(Sound)
    BY SinceType DEF HistoryInv
  <2>2. Len(recent) \in Nat /\ \A k \in 1..Len(recent) : recent[k] \in Sound
    BY <2>1
  <2>3. Len(recent) - Lookback + 1 \in Int
    BY <2>2, BacktestAssumption DEF BacktestAssumption
  <2>4. low \in Int /\ low >= 1
    BY <2>3, LargerOf
  <2>5. Window(sym) = SubSeq(recent, low, Len(recent))
    BY <1>1 DEF Window
  <2> HIDE DEF recent, low
  <2>6. \A k \in low..Len(recent) : recent[k] \in Sound
    BY <2>2, <2>4
  <2> QED
    BY <2>2, <2>4, <2>5, <2>6, SubSeqProperties
<1>2. CASE ~HasHistory
  <2>1. CASE bars[sym] = NoBar
    BY <1>2, <2>1 DEF Window
  <2>2. CASE bars[sym] # NoBar
    <3>1. bars[sym] \in Sound
      BY <2>2 DEF HistoryInv
    <3>2. Window(sym) = <<bars[sym]>>
      BY <1>2, <2>2 DEF Window
    <3> QED
      BY <3>1, <3>2
  <2> QED
    BY <2>1, <2>2
<1> QED
  BY <1>1, <1>2

LEMMA LatestType ==
    ASSUME HistoryInv, NEW sym \in Universe, Window(sym) # <<>>
    PROVE  Latest(sym) \in Sound
<1>1. Window(sym) \in Seq(Sound)
  BY WindowType
<1>2. Latest(sym) = Window(sym)[Len(Window(sym))]
  BY DEF Latest, Last
<1>3. Len(Window(sym)) \in DOMAIN Window(sym)
  BY <1>1, EmptySeq
<1> QED
  BY <1>1, <1>2, <1>3
-----------------------------------------------------------------------------
(* What a strategy asks for: orders of the engine's shape, no more of them  *)
(* than there may be, and no two of one side in an instrument.              *)

TellApart(shapes) == \A a, b \in shapes : a.inst = b.inst /\ a.side = b.side => a = b
AtMostOne(shapes) == \A a, b \in shapes : a = b

Askable(shapes) ==
    /\ shapes \subseteq Shape /\ IsFiniteSet(shapes) /\ Cardinality(shapes) <= MaxOrders
    /\ TellApart(shapes)

LEMMA OneIsAskable ==
    ASSUME NEW shapes \in SUBSET Shape, AtMostOne(shapes)
    PROVE  Askable(shapes)
<1>1. MaxOrders \in Nat /\ MaxOrders >= 2
  BY BacktestAssumption, StrategyAssumption DEF BacktestAssumption
<1>2. CASE shapes = {}
  BY <1>1, <1>2, FS_EmptySet DEF Askable, TellApart
<1>3. CASE shapes # {}
  <2>1. PICK o \in shapes : shapes = {o}
    BY <1>3 DEF AtMostOne
  <2>2. IsFiniteSet(shapes) /\ Cardinality(shapes) = 1
    BY <2>1, FS_Singleton
  <2> QED
    BY <1>1, <2>2 DEF Askable, TellApart, AtMostOne
<1> QED
  BY <1>2, <1>3

LEMMA EntryShape ==
    ASSUME NEW i \in Instruments, NEW side \in Sides, NEW qty \in Nat
    PROVE  Entry(i, side, qty) \in Shape
  BY DEF Entry, Shape

LEMMA Traders ==
    /\ Symbol \in Instruments /\ Direction \in Sides
    /\ TrailingStopTicks \in Nat /\ Qty \in Nat \ {0} /\ SharesPerContract \in Nat
    /\ RiskPart \in Nat \ {0} /\ MaxContracts \in Nat \ {0} /\ OrBars \in Nat \ {0}
    /\ "BUY" \in Sides /\ "SELL" \in Sides
    /\ Contract # None => Contract \in Options /\ Contract \in Instruments
  BY InstrumentKinds, StrategyAssumption DEF Sides

LEMMA TrendOrderShape ==
    ASSUME NEW qty \in Nat
    PROVE  \A o \in TrendOrder(qty) : o \in Shape /\ o.inst = Symbol /\ o.type = "market"
<1> SUFFICES ASSUME NEW o \in TrendOrder(qty)
             PROVE  o \in Shape /\ o.inst = Symbol /\ o.type = "market"
  OBVIOUS
<1>1. o = [inst |-> Symbol, side |-> Direction, qty |-> qty, type |-> "market",
           limit |-> None, trail |-> TrailingStopTicks]
  BY DEF TrendOrder, Entry
<1> QED
  BY <1>1, Traders DEF Shape

LEMMA TrendEntryAsks == Askable(TrendEntry)
<1>1. TrendEntry = {} \/ TrendEntry = TrendOrder(Qty)
  BY DEF TrendEntry
<1>2. TrendEntry \subseteq Shape
  BY <1>1, TrendOrderShape, Traders
<1>3. AtMostOne(TrendEntry)
  BY <1>1 DEF AtMostOne, TrendOrder
<1> QED
  BY <1>2, <1>3, OneIsAskable

LEMMA AffordableType ==
    ASSUME StateInv, HistoryInv, equity \in Int, strategy = "trend_follow_risk_sized", Crosses
    PROVE  Affordable(RiskSized) \in Int
<1>1. MaPeriod \in Nat \ {0} /\ Len(Window(Symbol)) > MaPeriod /\ Symbol \in Universe
  BY InstrumentKinds, StrategyAssumption DEF Crosses
<1>2. Latest(Symbol) \in Sound
  BY <1>1, LatestType
<1>3. Latest(Symbol).close \in Nat \ {0}
  BY <1>2 DEF Sound, Bar, HistoryInv
<1>4. Multiplier[Symbol] \in Nat \ {0} /\ cash \in Int
  BY PortfolioAssumption, Traders DEF StateInv, AccountInv, AccountTypeOK
<1> DEFINE cost == ValueOf(Latest(Symbol).close)
           loss == ValueOf(TrailingStopTicks * TickOf(Symbol))
           wanted == IF loss = 0 THEN 1 ELSE equity \div (RiskPart * loss)
<1>5. cost \in Nat \ {0}
  BY <1>3, <1>4 DEF ValueOf
<1>6. TickOf(Symbol) \in Nat
  BY BacktestAssumption DEF BacktestAssumption, TickOf
<1>7. loss \in Nat
  BY <1>4, <1>6, Traders DEF ValueOf
<1> HIDE DEF cost, loss
<1>8. wanted \in Int
  <2>1. CASE loss = 0
    BY <2>1
  <2>2. CASE loss # 0
    <3>1. RiskPart * loss \in Nat \ {0}
      BY <1>7, <2>2, Traders
    <3> DEFINE part == RiskPart * loss
    <3> HIDE DEF part
    <3>2. equity \div part \in Int
      BY <3>1 DEF part
    <3> QED
      BY <2>2, <3>2 DEF part
  <2> QED
    BY <2>1, <2>2
<1>9. RiskSized \in Int
  <2>1. RiskSized = Max({1, Lesser(wanted, MaxContracts)})
    BY DEF RiskSized, loss
  <2> HIDE DEF wanted
  <2>2. Lesser(wanted, MaxContracts) \in Int
    BY <1>8, Traders DEF Lesser
  <2> QED
    BY <2>1, <2>2, LargerOf
<1>10. cash \div cost \in Int
  BY <1>4, <1>5
<1>11. Affordable(RiskSized) \in {RiskSized, cash \div cost}
  BY DEF Affordable, cost
<1> QED
  BY <1>9, <1>10, <1>11

LEMMA TrendFollowAsks ==
    ASSUME StateInv, HistoryInv, equity \in Int, strategy = "trend_follow_risk_sized"
    PROVE  /\ Askable(TrendFollow) /\ AtMostOne(TrendFollow)
           /\ \A o \in TrendFollow : o.inst = Symbol /\ o.type = "market"
           /\ TrendFollow # {} => positions[Symbol].qty = 0
<1>1. CASE TrendFollow = {}
  BY <1>1, OneIsAskable DEF AtMostOne
<1>2. CASE TrendFollow # {}
  <2> DEFINE qty == Affordable(RiskSized)
  <2>1. Crosses /\ MayEnter /\ qty > 0 /\ TrendFollow = TrendOrder(qty)
    BY <1>2 DEF TrendFollow
  <2>2. qty \in Nat
    BY <2>1, AffordableType
  <2> HIDE DEF qty
  <2>3. TrendFollow \subseteq Shape /\ \A o \in TrendFollow : o.inst = Symbol /\ o.type = "market"
    BY <2>1, <2>2, TrendOrderShape
  <2>4. AtMostOne(TrendFollow)
    BY <2>1 DEF AtMostOne, TrendOrder
  <2> QED
    BY <2>1, <2>3, <2>4, OneIsAskable DEF MayEnter
<1> QED
  BY <1>1, <1>2

LEMMA ActiveType ==
    ASSUME HistoryInv, NEW i \in Active
    PROVE  /\ i \in Universe /\ Latest(i) \in Sound
           /\ Cardinality(Active) \in Nat \ {0}
<1>1. i \in Universe /\ Len(Window(i)) >= MaPeriod /\ MaPeriod \in Nat \ {0}
  BY StrategyAssumption DEF Active
<1>2. Latest(i) \in Sound
  BY <1>1, LatestType
<1>3. IsFiniteSet(Active)
  <2>1. Active \subseteq Instruments
    BY BacktestAssumption DEF BacktestAssumption, Active
  <2> QED
    BY <2>1, PortfolioAssumption, FS_Subset
<1>4. Cardinality(Active) \in Nat /\ Cardinality(Active) # 0
  BY <1>3, FS_CardinalityType, FS_EmptySet
<1> QED
  BY <1>1, <1>2, <1>4

LEMMA TargetQtyType ==
    ASSUME HistoryInv, equity \in Int, NEW i \in Active, Latest(i).close > 0
    PROVE  TargetQty(i) \in Nat
<1> DEFINE price == Cardinality(Active) * Latest(i).close
           share == equity \div price
<1>1. Latest(i).close \in Nat \ {0} /\ Cardinality(Active) \in Nat \ {0}
  BY ActiveType DEF Sound, Bar
<1>2. price \in Nat \ {0}
  BY <1>1
<1> HIDE DEF price
<1>3. share \in Int
  BY <1>2
<1>4. TargetQty(i) = Max({0, share})
  BY DEF TargetQty, price
<1> HIDE DEF share
<1> QED
  BY <1>3, <1>4, LargerOf

LEMMA RebalancingAsks ==
    ASSUME StateInv, HistoryInv, equity \in Int, NEW i \in Allocated
    PROVE  /\ AtMostOne(Rebalancing(i))
           /\ \A o \in Rebalancing(i) :
                /\ o \in Shape /\ o.inst = i /\ o.type = "market" /\ o.trail = None
                /\ o.side = "SELL" => o.qty <= positions[i].qty
<1> DEFINE held == positions[i].qty
           target == IF i \in Active THEN TargetQty(i) ELSE 0
           delta == target - held
           sold == Lesser(-delta, held)
<1>1. i \in Universe /\ i \in Instruments
  BY BacktestAssumption DEF BacktestAssumption, Allocated
<1>2. held \in Int
  BY <1>1, InstrumentTypes DEF StateInv, AccountInv
<1>3. target \in Nat
  <2>1. CASE i \in Active
    BY <2>1, TargetQtyType DEF Allocated
  <2> QED
    BY <2>1
<1>4. Rebalancing(i) = CASE i \in Active /\ delta > 0 -> {Entry(i, "BUY", delta)}
                         [] held > 0 /\ delta < 0 -> {Entry(i, "SELL", sold)}
                         [] OTHER -> {}
  BY DEF Rebalancing
<1> HIDE DEF target, held
<1>5. CASE i \in Active /\ delta > 0
  <2>1. Rebalancing(i) = {Entry(i, "BUY", delta)} /\ delta \in Nat
    BY <1>2, <1>3, <1>4, <1>5
  <2> QED
    BY <1>1, <2>1, EntryShape, Traders DEF AtMostOne, Entry
<1>6. CASE held > 0 /\ delta < 0 /\ ~(i \in Active /\ delta > 0)
  <2>1. Rebalancing(i) = {Entry(i, "SELL", sold)}
    BY <1>2, <1>3, <1>4, <1>6
  <2>2. sold \in Nat /\ sold <= held
    BY <1>2, <1>3, <1>6 DEF Lesser
  <2> HIDE DEF sold
  <2> QED
    BY <1>1, <2>1, <2>2, EntryShape, Traders DEF AtMostOne, Entry, held
<1>7. CASE ~(i \in Active /\ delta > 0) /\ ~(held > 0 /\ delta < 0)
  <2>1. Rebalancing(i) = {}
    BY <1>4, <1>7
  <2> QED
    BY <2>1 DEF AtMostOne
<1> QED
  BY <1>5, <1>6, <1>7

LEMMA AllocateAsks ==
    ASSUME StateInv, HistoryInv, equity \in Int
    PROVE  /\ Askable(Allocate)
           /\ \A a, b \in Allocate : a.inst = b.inst => a = b
           /\ \A o \in Allocate :
                /\ o.inst \in Universe /\ o.type = "market" /\ o.trail = None
                /\ o.side = "SELL" => o.qty <= positions[o.inst].qty
<1>1. \A o \in Allocate : o.inst \in Allocated /\ o \in Rebalancing(o.inst)
  <2> SUFFICES ASSUME NEW o \in Allocate
               PROVE  o.inst \in Allocated /\ o \in Rebalancing(o.inst)
    OBVIOUS
  <2>1. PICK i \in Allocated : o \in Rebalancing(i)
    BY DEF Allocate
  <2> QED
    BY <2>1, RebalancingAsks
<1>2. \A o \in Allocate :
        /\ o \in Shape /\ o.inst \in Universe /\ o.type = "market" /\ o.trail = None
        /\ o.side = "SELL" => o.qty <= positions[o.inst].qty
  BY <1>1, RebalancingAsks DEF Allocated
<1>3. \A a, b \in Allocate : a.inst = b.inst => a = b
  BY <1>1, RebalancingAsks DEF AtMostOne
<1>4. IsFiniteSet(Universe) /\ Cardinality(Universe) \in Nat
  BY BacktestAssumption, PortfolioAssumption, FS_Subset, FS_CardinalityType DEF BacktestAssumption
<1>5. IsFiniteSet(Allocate) /\ Cardinality(Allocate) <= Cardinality(Universe)
  <2> DEFINE f == [o \in Allocate |-> o.inst]
  <2>1. f \in Injection(Allocate, Universe)
    BY <1>2, <1>3 DEF Injection, IsInjective
  <2> HIDE DEF f
  <2> QED
    BY <1>4, <2>1, FS_Injection
<1>6. Cardinality(Allocate) \in Nat /\ MaxOrders \in Nat /\ MaxOrders >= Cardinality(Universe)
  BY <1>5, FS_CardinalityType, StrategyAssumption, BacktestAssumption DEF BacktestAssumption
<1>7. Cardinality(Allocate) <= MaxOrders
  BY <1>4, <1>5, <1>6
<1> QED
  BY <1>2, <1>3, <1>5, <1>7 DEF Askable, TellApart

\* A covered call is bought shares for, or sold with the shares at hand.
SharesFirst(o) == o.inst = Symbol /\ o.side = "BUY"
CallNext(o) ==
    /\ o.inst \in Options /\ o.side = "SELL" /\ o.qty = 1
    /\ EnoughShares /\ ShortOptions = {}

LEMMA CoveredCallAsks ==
    ASSUME StateInv, NEW shapes \in CoveredCall
    PROVE  /\ Askable(shapes) /\ AtMostOne(shapes)
           /\ \A o \in shapes : o.trail = None /\ (SharesFirst(o) \/ CallNext(o))
<1>1. CASE ~EnoughShares
  <2> DEFINE qty == SharesPerContract - positions[Symbol].qty
  <2>1. shapes = {Entry(Symbol, "BUY", qty)}
    BY <1>1 DEF CoveredCall
  <2>2. positions[Symbol].qty \in Int
    BY Traders, InstrumentTypes DEF StateInv, AccountInv
  <2>3. qty \in Nat
    BY <1>1, <2>2, Traders DEF EnoughShares
  <2>4. Entry(Symbol, "BUY", qty) \in Shape
    BY <2>3, EntryShape, Traders
  <2>5. AtMostOne(shapes) /\ shapes \subseteq Shape
    BY <2>1, <2>4 DEF AtMostOne
  <2> QED
    BY <2>1, <2>5, OneIsAskable DEF Entry, SharesFirst
<1>2. CASE shapes = {}
  BY <1>2, OneIsAskable DEF AtMostOne
<1>3. CASE EnoughShares /\ shapes # {}
  <2>1. ShortOptions = {} /\ shapes \in SellCall(NextCalls)
    BY <1>3 DEF CoveredCall
  <2>2. NextCalls \subseteq Options
    BY DEF NextCalls, Candidates
  <2>3. PICK opt \in Options : shapes = {Entry(opt, "SELL", 1)}
    BY <1>3, <2>1, <2>2, Traders DEF SellCall
  <2>4. Entry(opt, "SELL", 1) \in Shape
    BY EntryShape, Traders, InstrumentKinds
  <2>5. AtMostOne(shapes) /\ shapes \subseteq Shape
    BY <2>3, <2>4 DEF AtMostOne
  <2> QED
    BY <1>3, <2>1, <2>3, <2>5, OneIsAskable DEF Entry, CallNext
<1> QED
  BY <1>1, <1>2, <1>3

LEMMA OnFirstStepAsks ==
    ASSUME NEW i \in Instruments \cup {None}
    PROVE  Askable(OnFirstStep(i))
<1>1. AtMostOne(OnFirstStep(i))
  BY DEF AtMostOne, OnFirstStep
<1>2. OnFirstStep(i) \subseteq Shape
  BY EntryShape, Traders DEF OnFirstStep
<1> QED
  BY <1>1, <1>2, OneIsAskable

\* An instance has operators of its own, which are those of the same name here.
LEMMA SameOperators ==
    ASSUME NEW S
    PROVE  /\ OpeningRange!Cardinality(S) = Cardinality(S)
           /\ OpeningRange!Max(S) = Max(S) /\ OpeningRange!Min(S) = Min(S)
<1>1. OpeningRange!Cardinality(S) = Cardinality(S)
  BY DEF OpeningRange!Cardinality, Cardinality
<1>2. OpeningRange!Max(S) = Max(S) /\ OpeningRange!Min(S) = Min(S)
  BY DEF OpeningRange!Max, OpeningRange!Min, Max, Min
<1> QED
  BY <1>1, <1>2

LEMMA RangeType ==
    ASSUME NEW rows \in Seq(Bar), NEW S, S \subseteq DOMAIN rows, S # {}
    PROVE  /\ OpeningRange!Highest(rows, S) \in Int
           /\ OpeningRange!Lowest(rows, S) \in Int
<1>1. IsFiniteSet(DOMAIN rows)
  <2>1. DOMAIN rows = 1..Len(rows) /\ Len(rows) \in Int
    OBVIOUS
  <2> QED
    BY <2>1, FS_Interval
<1>2. IsFiniteSet(S)
  BY <1>1, FS_Subset
<1>3. \A k \in S : rows[k].high \in Int /\ rows[k].low \in Int
  <2>1. \A k \in S : rows[k] \in Bar
    OBVIOUS
  <2> QED
    BY <2>1 DEF Bar
<1> DEFINE highs == {rows[k].high : k \in S}
           lows == {rows[k].low : k \in S}
<1>4. IsFiniteSet(highs) /\ IsFiniteSet(lows)
  <2> DEFINE high == [k \in S |-> rows[k].high]
             low == [k \in S |-> rows[k].low]
  <2>1. high \in Surjection(S, highs) /\ low \in Surjection(S, lows)
    BY DEF Surjection
  <2> HIDE DEF high, low
  <2> QED
    BY <1>2, <2>1, FS_Surjection
<1>5. highs \subseteq Int /\ highs # {} /\ lows \subseteq Int /\ lows # {}
  BY <1>3
<1>6. Max(highs) \in highs /\ Min(lows) \in lows
  <2> HIDE DEF highs, lows
  <2> QED
    BY <1>4, <1>5, FiniteMax, FiniteMin
<1> QED
  BY <1>5, <1>6, SameOperators DEF OpeningRange!Highest, OpeningRange!Lowest

LEMMA OpeningNotEmpty ==
    ASSUME NEW rth, IsFiniteSet(rth), rth \subseteq Nat, Cardinality(rth) > OrBars
    PROVE  OpeningRange!Opening(rth) # {} /\ OpeningRange!Opening(rth) \subseteq rth
<1>1. rth # {}
  BY FS_EmptySet, Traders
<1> DEFINE first == Min(rth)
<1>2. rth \subseteq Int
  OBVIOUS
<1>3. first \in rth /\ \A k \in rth : first <= k
  BY <1>1, <1>2, FiniteMin
<1> HIDE DEF first
<1>4. {j \in rth : j < first} = {}
  <2> SUFFICES ASSUME NEW j \in rth, j < first PROVE FALSE
    OBVIOUS
  <2> QED
    BY <1>2, <1>3
<1>5. Cardinality({j \in rth : j < first}) < OrBars
  BY <1>4, FS_EmptySet, Traders
<1> QED
  BY <1>3, <1>5, SameOperators DEF OpeningRange!Opening

LEMMA BreakoutsType ==
    ASSUME NEW rows \in Seq(Bar)
    PROVE  /\ \A b \in OpeningRange!Breakouts(rows) : b.side \in Sides /\ b.entry \in Int
           /\ \A a, b \in OpeningRange!Breakouts(rows) : a.side = b.side => a = b
<1> DEFINE bar == rows[Len(rows)]
           rth == OpeningRange!RthBars(rows, DayOf[bar.ts])
           opening == OpeningRange!Opening(rth)
           range == [high |-> OpeningRange!Highest(rows, opening),
                     low |-> OpeningRange!Lowest(rows, opening)]
<1>1. CASE rows = <<>> \/ Cardinality(rth) <= OrBars
  BY <1>1, SameOperators DEF OpeningRange!Breakouts
<1>2. CASE ~(rows = <<>> \/ Cardinality(rth) <= OrBars)
  <2>1. rth \subseteq DOMAIN rows /\ IsFiniteSet(rth) /\ rth \subseteq Nat
    <3>1. DOMAIN rows = 1..Len(rows) /\ Len(rows) \in Int
      OBVIOUS
    <3>2. IsFiniteSet(DOMAIN rows)
      BY <3>1, FS_Interval
    <3>3. rth \subseteq DOMAIN rows
      BY DEF OpeningRange!RthBars
    <3> QED
      BY <3>1, <3>2, <3>3, FS_Subset
  <2>2. Cardinality(rth) > OrBars
    BY <1>2, <2>1, Traders, FS_CardinalityType
  <2>3. opening # {} /\ opening \subseteq rth
    BY <2>1, <2>2, OpeningNotEmpty
  <2>4. range.high \in Int /\ range.low \in Int
    BY <2>1, <2>3, RangeType
  <2>5. TickSize \in Int
    BY BacktestAssumption DEF BacktestAssumption
  <2>6. \A side \in Sides : OpeningRange!EntryPrice(range, side) \in Int
    BY <2>4, <2>5 DEF OpeningRange!EntryPrice
  <2>7. \A b \in OpeningRange!Breakouts(rows) :
           \E side \in Sides : b = [side |-> side, entry |-> OpeningRange!EntryPrice(range, side)]
    BY DEF OpeningRange!Breakouts, Sides
  <2> QED
    BY <2>6, <2>7
<1> QED
  BY <1>1, <1>2

LEMMA BreakoutOrdersAsk ==
    ASSUME HistoryInv
    PROVE  Askable(BreakoutOrders)
<1>1. Window(Symbol) \in Seq(Bar)
  <2>1. Window(Symbol) \in Seq(Sound)
    BY InstrumentKinds, WindowType
  <2>2. Sound \subseteq Bar
    BY DEF Sound
  <2> QED
    BY <2>1, <2>2, SeqMonotonic
<1>2. /\ \A b \in Breakouts : b.side \in Sides /\ b.entry \in Int
      /\ \A a, b \in Breakouts : a.side = b.side => a = b
  BY <1>1, BreakoutsType DEF Breakouts
<1>3. \A o \in BreakoutOrders : \E b \in Breakouts :
        o = [inst |-> Symbol, side |-> b.side, qty |-> Qty, type |-> "stop",
             limit |-> b.entry, trail |-> None]
  <2> SUFFICES ASSUME NEW b \in Breakouts
               PROVE  [Entry(Symbol, b.side, Qty) EXCEPT !.type = "stop", !.limit = b.entry]
                        = [inst |-> Symbol, side |-> b.side, qty |-> Qty, type |-> "stop",
                           limit |-> b.entry, trail |-> None]
    BY DEF BreakoutOrders
  <2> DEFINE e == [inst |-> Symbol, side |-> b.side, qty |-> Qty, type |-> "market",
                   limit |-> None, trail |-> None]
  <2>1. [e EXCEPT !.type = "stop"] = [inst |-> Symbol, side |-> b.side, qty |-> Qty,
                                      type |-> "stop", limit |-> None, trail |-> None]
    OBVIOUS
  <2>2. [e EXCEPT !.type = "stop", !.limit = b.entry]
          = [[e EXCEPT !.type = "stop"] EXCEPT !.limit = b.entry]
    OBVIOUS
  <2>3. [[inst |-> Symbol, side |-> b.side, qty |-> Qty, type |-> "stop",
          limit |-> None, trail |-> None] EXCEPT !.limit = b.entry]
          = [inst |-> Symbol, side |-> b.side, qty |-> Qty, type |-> "stop",
             limit |-> b.entry, trail |-> None]
    OBVIOUS
  <2>4. Entry(Symbol, b.side, Qty) = e
    BY DEF Entry
  <2> HIDE DEF e
  <2> QED
    BY <2>1, <2>2, <2>3, <2>4
<1>4. \A o \in BreakoutOrders : o \in Shape /\ o.side \in Sides
  BY <1>2, <1>3, Traders DEF Shape
<1>5. \A a, b \in BreakoutOrders : a.side = b.side => a = b
  BY <1>2, <1>3
<1>6. IsFiniteSet(BreakoutOrders) /\ Cardinality(BreakoutOrders) <= 2
  <2>1. IsFiniteSet(Sides) /\ Cardinality(Sides) = 2
    <3>1. IsFiniteSet({"BUY"}) /\ Cardinality({"BUY"}) = 1
      BY FS_Singleton
    <3>2. Sides = {"BUY"} \cup {"SELL"} /\ "SELL" \notin {"BUY"}
      BY DEF Sides
    <3> QED
      BY <3>1, <3>2, FS_AddElement
  <2> DEFINE f == [o \in BreakoutOrders |-> o.side]
  <2>2. f \in Injection(BreakoutOrders, Sides)
    BY <1>4, <1>5 DEF Injection, IsInjective
  <2> HIDE DEF f
  <2> QED
    BY <2>1, <2>2, FS_Injection
<1>7. Cardinality(BreakoutOrders) <= MaxOrders
  BY <1>6, FS_CardinalityType, StrategyAssumption, BacktestAssumption DEF BacktestAssumption
<1> QED
  BY <1>4, <1>5, <1>6, <1>7 DEF Askable, TellApart

LEMMA SignalsAsk ==
    ASSUME StateInv, HistoryInv, equity \in Int, strategy # "any", NEW shapes \in Signals
    PROVE  Askable(shapes)
<1>1. strategy \in {"trend_entry_trailing_stop", "trend_follow_risk_sized",
                    "tactical_asset_allocation", "covered_call", "buy_and_hold",
                    "buy_and_hold_underlying", "orb_5m"}
  BY StrategyAssumption DEF HistoryInv
<1>2. CASE strategy = "trend_entry_trailing_stop"
  BY <1>2, TrendEntryAsks DEF Signals
<1>3. CASE strategy = "trend_follow_risk_sized"
  BY <1>3, TrendFollowAsks DEF Signals
<1>4. CASE strategy = "tactical_asset_allocation"
  BY <1>4, AllocateAsks DEF Signals
<1>5. CASE strategy = "covered_call"
  BY <1>5, CoveredCallAsks DEF Signals
<1>6. CASE strategy = "buy_and_hold"
  BY <1>6, OnFirstStepAsks, Traders DEF Signals
<1>7. CASE strategy = "buy_and_hold_underlying"
  BY <1>7, OnFirstStepAsks, Traders DEF Signals
<1>8. CASE strategy = "orb_5m"
  BY <1>8, BreakoutOrdersAsk DEF Signals
<1> QED
  BY <1>1, <1>2, <1>3, <1>4, <1>5, <1>6, <1>7, <1>8

-----------------------------------------------------------------------------
(* A strategy's step is one of the engine's. *)

LEMMA IssuedFromSet ==
    ASSUME NEW shapes, IsFiniteSet(shapes), NEW n \in Nat
    PROVE  LET orders == Issue(SetToSeq(shapes), n) IN
           /\ DOMAIN orders = 1..Cardinality(shapes)
           /\ \A k \in DOMAIN orders : \E o \in shapes :
                /\ o = SetToSeq(shapes)[k]
                /\ orders[k].inst = o.inst /\ orders[k].side = o.side /\ orders[k].qty = o.qty
                /\ orders[k].type = o.type /\ orders[k].trail = o.trail
                /\ orders[k].id.ts = now
           /\ \A j, k \in DOMAIN orders : SetToSeq(shapes)[j] = SetToSeq(shapes)[k] => j = k
  BY SequenceOfSet DEF Issue, IsInjective

LEMMA StrategyStepSubmits ==
    StateInv /\ HistoryInv /\ equity \in Int /\ StrategyStep => Submits
<1> SUFFICES ASSUME StateInv, HistoryInv, equity \in Int, StrategyStep PROVE Submits
  OBVIOUS
<1>1. PICK shapes \in Signals :
        LET worked == {o \in shapes : WorkedNow(o)} IN
        /\ batch' = Issue(SetToSeq(worked), 0)
        /\ pending' = Issue(SetToSeq(shapes \ worked), Cardinality(worked))
  BY DEF StrategyStep
<1>2. Askable(shapes)
  BY SignalsAsk DEF StrategyStep
<1> DEFINE worked == {o \in shapes : WorkedNow(o)}
           held == shapes \ worked
           n == Cardinality(worked)
           m == Cardinality(held)
<1>3. IsFiniteSet(worked) /\ IsFiniteSet(held)
  BY <1>2, FS_Subset DEF Askable
<1>4. worked \subseteq AtOnce /\ held \subseteq Later
  BY <1>2 DEF AtOnce, Later, Askable
<1>5. /\ n \in Nat /\ SetToSeq(worked) \in [1..n -> AtOnce]
      /\ m \in Nat /\ SetToSeq(held) \in [1..m -> Later]
  <2>1. /\ n \in Nat /\ SetToSeq(worked) \in [1..n -> worked]
        /\ m \in Nat /\ SetToSeq(held) \in [1..m -> held]
    BY <1>3, SequenceOfSet
  <2> HIDE DEF worked, held, n, m
  <2> QED
    BY <1>4, <2>1
<1>6. m = Cardinality(shapes) - n /\ Cardinality(shapes) \in Nat
  <2>1. held = shapes \ worked /\ shapes \cap worked = worked
    OBVIOUS
  <2> QED
    BY <1>2, <2>1, FS_Difference, FS_CardinalityType DEF Askable
<1>7. n + m <= MaxOrders /\ MaxOrders \in Nat
  BY <1>2, <1>5, <1>6, BacktestAssumption DEF BacktestAssumption, Askable
<1>8. n \in 0..MaxOrders /\ m \in 0..(MaxOrders - n)
  BY <1>5, <1>7
<1>9. batch' = Issue(SetToSeq(worked), 0) /\ pending' = Issue(SetToSeq(held), n)
  BY <1>1
<1> HIDE DEF worked, held, n, m
<1> QED
  BY <1>5, <1>8, <1>9 DEF StrategyStep, Submits

LEMMA EquityType ==
    ASSUME StateInv, StateInv', equity \in Int, [EngineNext]_vars
    PROVE  equity' \in Int
<1>1. cash \in Int /\ cash' \in Int /\ AccountTypeOK
  BY DEF StateInv, AccountInv, AccountTypeOK
<1>2. TotalCost(positions') \in Int
  BY TotalCostType DEF StateInv, AccountInv, AccountTypeOK
<1>3. ASSUME NEW i, NEW side, NEW qty, NEW price, NEW fee, ApplyFill(i, side, qty, price, fee)
      PROVE  equity' \in Int
  BY <1>1, <1>2, <1>3 DEF ApplyFill
<1>4. CASE FillOrder
  BY <1>3, <1>4 DEF FillOrder
<1>5. CASE \E i \in Instruments : ExitStop(i)
  BY <1>3, <1>5 DEF ExitStop
<1>6. CASE SettleExpired
  <2>1. PICK opt \in expired : AssignPhysical(opt) \/ SettleCash(opt)
    BY <1>6 DEF SettleExpired
  <2>2. CASE AssignPhysical(opt) /\ Deliverable(opt, Symbol)
    BY <1>1, <1>2, <2>2 DEF AssignPhysical, SettlePhysical
  <2>3. CASE AssignPhysical(opt) /\ ~Deliverable(opt, Symbol)
    BY <2>3 DEF AssignPhysical, accountVars
  <2>4. CASE SettleCash(opt)
    BY <1>1, <1>2, <2>4 DEF SettleCash, SettlePosition
  <2> QED
    BY <2>1, <2>2, <2>3, <2>4
<1>7. CASE MarkStep \/ EndStep
  <2>1. equity' = cash + TotalMark(Marks)
    BY <1>7 DEF MarkStep, EndStep, MarkToMarket
  <2>2. TotalMark(Marks) \in Int
    BY <1>1, MarksType, TotalMarkType
  <2> QED
    BY <1>1, <2>1, <2>2
<1>8. CASE \/ BuildSnapshot \/ RejectOrder \/ Submits \/ Finish \/ UNCHANGED vars
           \/ \E i \in Instruments : DropStop(i) \/ SkipEntryBar(i) \/ TrailStop(i)
  BY <1>8 DEF BuildSnapshot, RejectOrder, Submits, Finish, vars, DropStop,
              SkipEntryBar, TrailStop, accountVars
<1> QED
  BY <1>4, <1>5, <1>6, <1>7, <1>8 DEF EngineNext, Returned, EvaluateStop

LEMMA SnapshotKeepsHistory ==
    ASSUME StateInv, HistoryInv, StrategySnapshot
    PROVE  HistoryInv'
<1>1. /\ bars' \in [Universe -> UNION {BarsAt(sym, now + 1) : sym \in Universe}]
      /\ \A sym \in Universe : bars'[sym] \in BarsAt(sym, now + 1)
  BY DEF StrategySnapshot, BuildSnapshot
<1>2. ASSUME NEW shape \in BarShapes
      PROVE  BarAt(now + 1, shape) \in Sound
  <2>1. shape \in [open : Int, high : Int, low : Int, close : Int] /\ now \in Int
    BY BacktestAssumption DEF BacktestAssumption, StateInv, LoopTypeOK
  <2>2. "trend_follow_risk_sized" \in StrategyNames => shape.close > 0
    BY StrategyAssumption
  <2> QED
    BY <2>1, <2>2 DEF Sound, Bar, BarAt
<1>3. ASSUME NEW sym \in Universe
      PROVE  bars'[sym] \in Sound \cup {NoBar}
  <2>1. CASE \E shape \in BarShapes : bars'[sym] = BarAt(now + 1, shape)
    BY <1>2, <2>1
  <2>2. CASE bars'[sym] = AbsentBar(sym, now + 1)
    BY <2>2 DEF AbsentBar, HistoryInv
  <2>3. bars'[sym] \in {BarAt(now + 1, shape) : shape \in BarShapes} \cup
                       (IF Gaps THEN {AbsentBar(sym, now + 1)} ELSE {})
    BY <1>1 DEF BarsAt
  <2> QED
    BY <2>1, <2>2, <2>3
<1>4. ASSUME NEW sym \in Universe
      PROVE  (IF ~LooksBack \/ bars'[sym] = NoBar \/ bars'[sym].ts # now' THEN history[sym]
              ELSE Since(Append(history[sym], bars'[sym]), now' - Lookback)) \in Seq(Sound)
  <2>1. history[sym] \in Seq(Sound)
    BY DEF HistoryInv
  <2>2. CASE bars'[sym] # NoBar
    <3>1. Append(history[sym], bars'[sym]) \in Seq(Sound)
      BY <1>3, <2>1, <2>2
    <3>2. Since(Append(history[sym], bars'[sym]), now' - Lookback) \in Seq(Sound)
      BY <3>1, SinceType
    <3> QED
      BY <2>1, <3>2
  <2> QED
    BY <2>1, <2>2
<1>5. history' \in [Universe -> Seq(Sound)]
  BY <1>4 DEF StrategySnapshot
<1>6. bars' \in [Universe -> Sound \cup {NoBar}]
  BY <1>1, <1>3
<1> QED
  BY <1>5, <1>6 DEF HistoryInv, StrategySnapshot

LEMMA BarsFrame ==
    FillOrder \/ RejectOrder \/ EvaluateStop \/ MarkStep \/ SettleExpired \/ EndStep
      \/ Finish \/ OnStep \/ StrategyStep \/ UNCHANGED vars => UNCHANGED bars
  BY DEF FillOrder, RejectOrder, EvaluateStop, DropStop, SkipEntryBar, TrailStop, ExitStop,
         MarkStep, SettleExpired, EndStep, Finish, OnStep, StrategyStep, vars, loopVars

RunInv == StateInv /\ HistoryInv /\ equity \in Int

LEMMA StepIsEngines ==
    RunInv /\ [StrategyNext]_<<vars, strategyVars>> => [EngineNext]_vars
<1> SUFFICES ASSUME RunInv, [StrategyNext]_<<vars, strategyVars>> PROVE [EngineNext]_vars
  OBVIOUS
<1>1. CASE StrategySnapshot
  BY <1>1 DEF StrategySnapshot, EngineNext
<1>2. CASE StrategyStep
  BY <1>2, StrategyStepSubmits DEF EngineNext, RunInv
<1>3. CASE AnyStep
  BY <1>3, OnStepSubmits DEF AnyStep, EngineNext
<1>4. CASE Elsewhere
  BY <1>4 DEF Elsewhere, EngineNext
<1>5. CASE Returned \/ UNCHANGED <<vars, strategyVars>>
  BY <1>5 DEF Returned
<1> QED
  BY <1>1, <1>2, <1>3, <1>4, <1>5 DEF StrategyNext, StrategyLoopStep

LEMMA StepKeepsRun ==
    RunInv /\ [StrategyNext]_<<vars, strategyVars>> => RunInv'
<1> SUFFICES ASSUME RunInv, [StrategyNext]_<<vars, strategyVars>> PROVE RunInv'
  OBVIOUS
<1>1. [EngineNext]_vars
  BY StepIsEngines
<1>2. StateInv'
  BY <1>1, NextKeepsState DEF RunInv
<1>3. equity' \in Int
  BY <1>1, <1>2, EquityType DEF RunInv
<1>4. CASE StrategySnapshot
  BY <1>2, <1>3, <1>4, SnapshotKeepsHistory DEF RunInv
<1>5. CASE ~StrategySnapshot
  <2>1. UNCHANGED bars
    BY <1>5, BarsFrame DEF StrategyNext, StrategyLoopStep, AnyStep, Elsewhere, Returned
  <2>2. UNCHANGED <<strategy, history>>
    BY <1>5 DEF StrategyNext, StrategyLoopStep, AnyStep, StrategyStep, strategyVars
  <2> QED
    BY <1>2, <1>3, <2>1, <2>2 DEF RunInv, HistoryInv
<1> QED
  BY <1>4, <1>5

LEMMA InitRun == StrategyInit => RunInv
<1> SUFFICES ASSUME StrategyInit PROVE RunInv
  OBVIOUS
<1>1. StateInv
  BY InitState DEF StrategyInit
<1>2. equity \in Int
  BY PortfolioAssumption DEF StrategyInit, Init, AccountInit
<1>3. HistoryInv
  BY EmptySeq DEF HistoryInv, StrategyInit, Init, LoopInit
<1> QED
  BY <1>1, <1>2, <1>3 DEF RunInv

(* The state of a run of a strategy: the engine's, the bars a strategy may  *)
(* be given, and the equity it sizes its orders by.                         *)
THEOREM RunInvariant == StrategySpec => []RunInv
  BY InitRun, StepKeepsRun, PTL DEF StrategySpec

(* Every strategy of the repository is one the engine is specified for: what *)
(* it asks for, and when, is among what "any" strategy may ask for, so that  *)
(* the theorems about EngineSpec are about it (engine.py:155-236).           *)
THEOREM StrategiesAreEngines == StrategySpec => EngineSpec
<1>1. StrategyInit => Init
  BY DEF StrategyInit
<1> QED
  BY <1>1, RunInvariant, StepIsEngines, PTL DEF StrategySpec, EngineSpec

-----------------------------------------------------------------------------
(* The orders a strategy is waiting for *)

Outstanding == {batch[k] : k \in DOMAIN batch} \cup {pending[k] : k \in DOMAIN pending}

\* An order is what its shape asked for, at this step.
For(order, shape) ==
    /\ order.inst = shape.inst /\ order.side = shape.side /\ order.qty = shape.qty
    /\ order.trail = shape.trail /\ order.id.ts = now

SoundInv == RunInv /\ OrderInv

(* The orders of a run of a strategy are the engine's: distinct, of this    *)
(* step or the last.                                                        *)
THEOREM SoundInvariant == StrategySpec => []SoundInv
  BY RunInvariant, StrategiesAreEngines, OrdersInvariant, PTL DEF SoundInv, OrdersInv

LEMMA StepAsks ==
    ASSUME SoundInv, StrategyStep
    PROVE  \E shapes \in Signals :
             /\ Askable(shapes)
             /\ \A o \in Outstanding' : \E s \in shapes : For(o, s)
             /\ \A a, b \in Outstanding' : a.inst = b.inst /\ a.side = b.side => a = b
<1>1. PICK shapes \in Signals :
        LET worked == {o \in shapes : WorkedNow(o)} IN
        /\ batch' = Issue(SetToSeq(worked), 0)
        /\ pending' = Issue(SetToSeq(shapes \ worked), Cardinality(worked))
  BY DEF StrategyStep
<1>2. Askable(shapes)
  BY SignalsAsk DEF StrategyStep, SoundInv, RunInv
<1> DEFINE worked == {o \in shapes : WorkedNow(o)}
           held == shapes \ worked
           From(orders, set) ==
             /\ \A o \in {orders[k] : k \in DOMAIN orders} : \E s \in set : For(o, s)
             /\ \A a, b \in {orders[k] : k \in DOMAIN orders} :
                  \A s \in set : For(a, s) /\ For(b, s) => a = b
<1>3. IsFiniteSet(worked) /\ IsFiniteSet(held) /\ Cardinality(worked) \in Nat
  BY <1>2, FS_Subset, FS_CardinalityType DEF Askable
<1>4. ASSUME NEW set \in SUBSET shapes, IsFiniteSet(set), NEW n \in Nat
      PROVE  From(Issue(SetToSeq(set), n), set)
  <2> DEFINE orders == Issue(SetToSeq(set), n)
  <2>1. /\ \A k \in DOMAIN orders : \E o \in set :
             /\ o = SetToSeq(set)[k]
             /\ orders[k].inst = o.inst /\ orders[k].side = o.side /\ orders[k].qty = o.qty
             /\ orders[k].type = o.type /\ orders[k].trail = o.trail
             /\ orders[k].id.ts = now
        /\ \A j, k \in DOMAIN orders : SetToSeq(set)[j] = SetToSeq(set)[k] => j = k
    BY <1>4, IssuedFromSet
  <2> HIDE DEF orders
  <2>2. \A k \in DOMAIN orders : SetToSeq(set)[k] \in set /\ For(orders[k], SetToSeq(set)[k])
    BY <2>1 DEF For
  <2>3. ASSUME NEW j \in DOMAIN orders, NEW k \in DOMAIN orders, NEW s \in set,
               For(orders[j], s), For(orders[k], s)
        PROVE  orders[j] = orders[k]
    <3>1. SetToSeq(set)[j] = s /\ SetToSeq(set)[k] = s
      BY <1>2, <2>2, <2>3 DEF Askable, TellApart, For
    <3> QED
      BY <2>1, <3>1
  <2> QED
    BY <2>2, <2>3 DEF orders
<1>5. From(batch', worked) /\ From(pending', held)
  BY <1>1, <1>3, <1>4
<1>6. \A o \in Outstanding' : \E s \in shapes : For(o, s)
  BY <1>5 DEF Outstanding
<1>7. \A a, b \in Outstanding' : a.inst = b.inst /\ a.side = b.side => a = b
  <2> SUFFICES ASSUME NEW a \in Outstanding', NEW b \in Outstanding',
                      a.inst = b.inst, a.side = b.side
               PROVE  a = b
    OBVIOUS
  <2>1. PICK s \in shapes : For(a, s)
    BY <1>6
  <2>2. For(b, s)
    <3>1. PICK r \in shapes : For(b, r)
      BY <1>6
    <3>2. r = s
      BY <1>2, <2>1, <3>1 DEF Askable, TellApart, For
    <3> QED
      BY <3>1, <3>2
  <2>3. ASSUME NEW o \in Outstanding', For(o, s)
        PROVE  IF s \in worked THEN \E k \in DOMAIN batch' : o = batch'[k]
               ELSE \E k \in DOMAIN pending' : o = pending'[k]
    BY <1>2, <1>5, <2>3 DEF Outstanding, Askable, TellApart, For
  <2> QED
    BY <1>5, <2>1, <2>2, <2>3
<1> QED
  BY <1>2, <1>6, <1>7

LEMMA Leaves ==
    ASSUME SoundInv, FillOrder \/ RejectOrder
    PROVE  /\ Head(batch) \in Outstanding /\ Head(batch) \in Order
           /\ Outstanding' \subseteq Outstanding \ {Head(batch)}
<1>1. /\ batch \in Seq(Order) /\ batch # <<>> /\ batch' = Tail(batch) /\ pending' = pending
      /\ pending \in Seq(Order) /\ Distinct(batch) /\ Ids(pending) \cap Ids(batch) = {}
  BY DEF SoundInv, RunInv, StateInv, LoopTypeOK, OrderInv, FillOrder, RejectOrder
<1>2. /\ Head(batch) \in Order /\ Head(batch) = batch[1] /\ Head(batch).id \in Ids(batch)
      /\ Ids(Tail(batch)) = Ids(batch) \ {Head(batch).id}
  BY <1>1, HeadOfBatch, TailOfBatch
<1>3. /\ DOMAIN batch = 1..Len(batch) /\ Len(batch) \in Nat /\ Len(batch) >= 1
      /\ DOMAIN Tail(batch) = 1..(Len(batch) - 1)
      /\ \A k \in 1..(Len(batch) - 1) : Tail(batch)[k] = batch[k + 1]
  BY <1>1
<1>4. \A k \in DOMAIN Tail(batch) : \E j \in DOMAIN batch : Tail(batch)[k] = batch[j]
  BY <1>3
<1>5. Outstanding' \subseteq Outstanding
  BY <1>1, <1>4 DEF Outstanding
<1>6. Head(batch) \notin Outstanding'
  BY <1>1, <1>2 DEF Outstanding, Ids
<1>7. Head(batch) \in Outstanding
  BY <1>2, <1>3 DEF Outstanding
<1> QED
  BY <1>2, <1>5, <1>6, <1>7

LEMMA NothingNew ==
    ASSUME SoundInv, [StrategyNext]_<<vars, strategyVars>>, ~StrategyStep, strategy # "any"
    PROVE  Outstanding' \subseteq Outstanding
<1>1. CASE FillOrder \/ RejectOrder
  BY <1>1, Leaves
<1>2. CASE StrategySnapshot
  BY <1>2 DEF StrategySnapshot, BuildSnapshot, TakePending, Outstanding
<1>3. CASE ~(FillOrder \/ RejectOrder \/ StrategySnapshot)
  <2>1. UNCHANGED <<batch, pending>>
    BY <1>3 DEF StrategyNext, StrategyLoopStep, AnyStep, Elsewhere, EvaluateStop, DropStop,
                SkipEntryBar, TrailStop, ExitStop, MarkStep, SettleExpired, EndStep, Finish,
                Returned, vars, loopVars
  <2> QED
    BY <2>1 DEF Outstanding
<1> QED
  BY <1>1, <1>2, <1>3

-----------------------------------------------------------------------------
(* What each strategy keeps to.  None of them remembers anything: what is   *)
(* true of its position when it asks has to be true still when the order is *)
(* filled, a bar later or in the same step.                                 *)

ApartInv ==
    strategy # "any" =>
      \A a, b \in Outstanding :
        a.inst = b.inst /\ a.side = b.side /\ a.id.ts = b.id.ts => a = b

\* tactical_asset_allocation holds nothing short, and sells what it holds.
AllocatingInv ==
    strategy = "tactical_asset_allocation" =>
      /\ \A i \in Instruments : stops[i] = None /\ positions[i].qty >= 0
      /\ \A opt \in Options : positions[opt].qty = 0
      /\ \A a, b \in Outstanding : a.inst = b.inst => a = b
      /\ \A o \in Outstanding :
           /\ o.inst \in Universe /\ o.trail = None
           /\ o.side = "SELL" => o.qty <= positions[o.inst].qty

\* trend_follow_risk_sized holds one instrument, and waits for an order only
\* while it holds nothing.
FollowingInv ==
    strategy = "trend_follow_risk_sized" =>
      /\ \A i \in Instruments \ {Symbol} : positions[i].qty = 0
      /\ AtMostOne(Outstanding)
      /\ \A o \in Outstanding : o.inst = Symbol /\ positions[Symbol].qty = 0

\* covered_call is short of one call at most, and covers it.
CoveringInv ==
    strategy = "covered_call" =>
      /\ \A i \in Instruments : stops[i] = None
      /\ positions[Symbol].qty >= 0
      /\ \A opt \in Options : positions[opt].qty \in {0, -1}
      /\ \A a, b \in ShortOptions : a = b
      /\ ShortOptions # {} => EnoughShares
      /\ AtMostOne(Outstanding)
      /\ \A o \in Outstanding : o.trail = None /\ (SharesFirst(o) \/ CallNext(o))

KeptInv == SoundInv /\ ApartInv /\ AllocatingInv /\ FollowingInv /\ CoveringInv

LEMMA FilledQty ==
    ASSUME AccountTypeOK, NEW i \in Instruments, NEW side \in Sides, NEW qty \in Nat,
           NEW price, NEW fee, ApplyFill(i, side, qty, price, fee)
    PROVE  /\ positions'[i].qty = positions[i].qty + Signed(side, qty)
           /\ \A j \in Instruments : j # i => positions'[j] = positions[j]
<1> DEFINE q == positions[i].qty
           s == Signed(side, qty)
<1>1. positions \in [Instruments -> Position] /\ q \in Int
  BY InstrumentTypes DEF AccountTypeOK
<1>2. s \in Int
  BY DEF Signed
<1>3. Open(i, s, price) \/ AddToPosition(i, s, price) \/ Reduce(i, s, price)
  BY DEF ApplyFill
<1> SUFFICES positions'[i].qty = q + s /\ \A j \in Instruments : j # i => positions'[j] = positions[j]
  OBVIOUS
<1> HIDE DEF s
<1>4. CASE Open(i, s, price)
  BY <1>1, <1>2, <1>4 DEF Open
<1>5. CASE AddToPosition(i, s, price)
  <2>1. PICK avg : positions' = [positions EXCEPT ![i] = [qty |-> q + s, avg |-> avg]]
    BY <1>5 DEF AddToPosition
  <2> QED
    BY <1>1, <1>2, <2>1
<1>6. CASE Reduce(i, s, price)
  <2>1. positions' = [positions EXCEPT ![i] =
                        IF q + s = 0 THEN Flat ELSE [qty |-> q + s, avg |-> positions[i].avg]]
    BY <1>6 DEF Reduce
  <2> QED
    BY <1>1, <1>2, <2>1 DEF Flat
<1> QED
  BY <1>3, <1>4, <1>5, <1>6

LEMMA FillMoves ==
    ASSUME SoundInv, FillOrder
    PROVE  LET o == Head(batch) IN
           /\ o.inst \in Instruments /\ o.side \in Sides /\ o.qty \in Nat \ {0}
           /\ positions'[o.inst].qty = positions[o.inst].qty + Signed(o.side, o.qty)
           /\ \A j \in Instruments : j # o.inst => positions'[j] = positions[j]
           /\ o.trail = None => stops' = stops
<1> DEFINE o == Head(batch)
<1>1. o \in Order /\ LoopTypeOK /\ AccountTypeOK
  BY Leaves DEF SoundInv, RunInv, StateInv, AccountInv
<1>2. /\ Accepted(o)
      /\ ApplyFill(o.inst, o.side, o.qty, Price(o), ComputeFees(o, Price(o)))
      /\ o.trail = None => stops' = stops
  BY DEF FillOrder
<1> HIDE DEF o
<1>3. o.inst \in Instruments /\ o.side \in Sides /\ o.qty \in Nat \ {0}
  BY <1>1, <1>2, AcceptedOrder
<1>4. /\ positions'[o.inst].qty = positions[o.inst].qty + Signed(o.side, o.qty)
      /\ \A j \in Instruments : j # o.inst => positions'[j] = positions[j]
  BY <1>1, <1>2, <1>3, FilledQty
<1> QED
  BY <1>2, <1>3, <1>4 DEF o

\* Everything but a fill, an exit and a settlement leaves positions alone, and
\* everything but a fill and a visit the stops.
LEMMA PositionFrame ==
    ASSUME [StrategyNext]_<<vars, strategyVars>>
    PROVE  /\ UNCHANGED positions \/ FillOrder \/ SettleExpired \/ \E i \in Instruments : ExitStop(i)
           /\ UNCHANGED stops \/ FillOrder \/ \E i \in Instruments : stops[i] # None
           /\ UNCHANGED strategy
<1>1. CASE FillOrder \/ SettleExpired
  BY <1>1 DEF StrategyNext, StrategyLoopStep, StrategySnapshot, AnyStep, StrategyStep,
              strategyVars, FillOrder, SettleExpired
<1>2. CASE EvaluateStop
  BY <1>2 DEF StrategyNext, StrategyLoopStep, StrategySnapshot, AnyStep, StrategyStep,
              strategyVars, EvaluateStop, DropStop, SkipEntryBar, TrailStop, ExitStop, Visits,
              accountVars
<1>3. CASE ~(FillOrder \/ SettleExpired \/ EvaluateStop)
  BY <1>3 DEF StrategyNext, StrategyLoopStep, StrategySnapshot, BuildSnapshot, AnyStep, OnStep,
              StrategyStep, Elsewhere, RejectOrder, MarkStep, EndStep, Finish, MarkToMarket,
              Returned, vars, loopVars, accountVars, strategyVars
<1> QED
  BY <1>1, <1>2, <1>3

LEMMA StepKeepsApart ==
    ASSUME SoundInv, ApartInv, [StrategyNext]_<<vars, strategyVars>>
    PROVE  ApartInv'
<1>1. UNCHANGED strategy
  BY PositionFrame
<1>2. CASE StrategyStep
  BY <1>2, StepAsks DEF ApartInv
<1>3. CASE ~StrategyStep /\ strategy # "any"
  BY <1>3, NothingNew DEF ApartInv
<1> QED
  BY <1>1, <1>2, <1>3 DEF ApartInv

LEMMA NoSettlement ==
    ASSUME SoundInv, SettleExpired
    PROVE  /\ \E opt \in Options : positions[opt].qty # 0
           /\ UNCHANGED <<batch, pending, stops>>
<1>1. PICK opt \in expired : AssignPhysical(opt) \/ SettleCash(opt)
  BY DEF SettleExpired
<1>2. opt \in Options
  BY DEF SoundInv, RunInv, StateInv, LoopTypeOK
<1>3. positions[opt].qty \in Int
  BY <1>2, InstrumentKinds, InstrumentTypes DEF SoundInv, RunInv, StateInv, AccountInv
<1>4. positions[opt].qty # 0
  BY <1>1, <1>3 DEF AssignPhysical, AssignedPhysically, SettleCash, SettlePosition
<1> QED
  BY <1>2, <1>4 DEF SettleExpired

LEMMA StepKeepsAllocating ==
    ASSUME SoundInv, AllocatingInv, [StrategyNext]_<<vars, strategyVars>>
    PROVE  AllocatingInv'
<1> SUFFICES ASSUME strategy = "tactical_asset_allocation" PROVE AllocatingInv'
  BY PositionFrame DEF AllocatingInv
<1>0. UNCHANGED strategy
  BY PositionFrame
<1>1. /\ \A i \in Instruments : stops[i] = None /\ positions[i].qty >= 0
      /\ \A opt \in Options : positions[opt].qty = 0
      /\ \A a, b \in Outstanding : a.inst = b.inst => a = b
      /\ \A o \in Outstanding :
           /\ o.inst \in Universe /\ o.trail = None
           /\ o.side = "SELL" => o.qty <= positions[o.inst].qty
  BY DEF AllocatingInv
<1>2. CASE FillOrder
  <2> DEFINE o == Head(batch)
  <2>1. o \in Outstanding /\ Outstanding' \subseteq Outstanding \ {o}
    BY <1>2, Leaves
  <2>2. /\ o.inst \in Instruments /\ o.side \in Sides /\ o.qty \in Nat \ {0}
        /\ positions'[o.inst].qty = positions[o.inst].qty + Signed(o.side, o.qty)
        /\ \A j \in Instruments : j # o.inst => positions'[j] = positions[j]
        /\ o.trail = None => stops' = stops
    BY <1>2, FillMoves
  <2> HIDE DEF o
  <2>3. stops' = stops /\ o.inst \in Universe
    BY <1>1, <2>1, <2>2
  <2>4. positions[o.inst].qty \in Int
    BY <2>2, InstrumentTypes DEF SoundInv, RunInv, StateInv, AccountInv
  <2>5. positions'[o.inst].qty >= 0
    BY <1>1, <2>1, <2>2, <2>4 DEF Signed, Sides
  <2>6. \A i \in Instruments : positions'[i].qty >= 0
    BY <1>1, <2>2, <2>5
  <2>7. \A opt \in Options : positions'[opt].qty = 0
    BY <1>1, <2>2, <2>3 DEF Options
  <2>8. \A p \in Outstanding' : p \in Outstanding /\ p.inst # o.inst /\ p.inst \in Instruments
    BY <1>1, <2>1, BacktestAssumption DEF BacktestAssumption
  <2>9. \A p \in Outstanding' : p.side = "SELL" => p.qty <= positions'[p.inst].qty
    BY <1>1, <2>2, <2>8
  <2> QED
    BY <1>0, <1>1, <2>3, <2>6, <2>7, <2>8, <2>9 DEF AllocatingInv
<1>3. CASE StrategyStep
  <2>1. UNCHANGED <<positions, stops>>
    BY <1>3 DEF StrategyStep, accountVars
  <2>2. PICK shapes \in Signals : /\ \A o \in Outstanding' : \E s \in shapes : For(o, s)
                                 /\ \A a, b \in Outstanding' :
                                      a.inst = b.inst /\ a.side = b.side => a = b
    BY <1>3, StepAsks
  <2>3. shapes = Allocate
    BY DEF Signals
  <2>4. /\ \A a, b \in Allocate : a.inst = b.inst => a = b
        /\ \A o \in Allocate :
             /\ o.inst \in Universe /\ o.type = "market" /\ o.trail = None
             /\ o.side = "SELL" => o.qty <= positions[o.inst].qty
    BY AllocateAsks DEF SoundInv, RunInv
  <2>5. \A a, b \in Outstanding' : a.inst = b.inst => a = b
    <3> SUFFICES ASSUME NEW a \in Outstanding', NEW b \in Outstanding', a.inst = b.inst
                 PROVE  a = b
      OBVIOUS
    <3>1. PICK s \in Allocate, r \in Allocate : For(a, s) /\ For(b, r)
      BY <2>2, <2>3
    <3>2. s = r
      BY <2>4, <3>1 DEF For
    <3> QED
      BY <2>2, <3>1, <3>2 DEF For
  <2>6. \A o \in Outstanding' :
          /\ o.inst \in Universe /\ o.trail = None
          /\ o.side = "SELL" => o.qty <= positions[o.inst].qty
    BY <2>2, <2>3, <2>4 DEF For
  <2> QED
    BY <1>0, <1>1, <2>1, <2>5, <2>6 DEF AllocatingInv
<1>4. CASE ~(FillOrder \/ StrategyStep)
  <2>1. ~SettleExpired
    BY <1>1, NoSettlement
  <2>2. \A i \in Instruments : ~ExitStop(i)
    BY <1>1 DEF ExitStop, Visits
  <2>3. UNCHANGED <<positions, stops>>
    BY <1>1, <1>4, <2>1, <2>2, PositionFrame
  <2>4. Outstanding' \subseteq Outstanding
    BY <1>4, NothingNew
  <2> QED
    BY <1>0, <1>1, <2>3, <2>4 DEF AllocatingInv
<1> QED
  BY <1>2, <1>3, <1>4

LEMMA StepFollows ==
    ASSUME SoundInv, FollowingInv, [StrategyNext]_<<vars, strategyVars>>
    PROVE  /\ FollowingInv'
           /\ strategy = "trend_follow_risk_sized" /\ positions[Symbol].qty # 0 =>
                positions'[Symbol] \in {positions[Symbol], Flat}
<1> SUFFICES ASSUME strategy = "trend_follow_risk_sized"
             PROVE  /\ FollowingInv'
                    /\ positions[Symbol].qty # 0 =>
                         positions'[Symbol] \in {positions[Symbol], Flat}
  BY PositionFrame DEF FollowingInv
<1>0. UNCHANGED strategy
  BY PositionFrame
<1>1. /\ \A i \in Instruments \ {Symbol} : positions[i].qty = 0
      /\ AtMostOne(Outstanding)
      /\ \A o \in Outstanding : o.inst = Symbol /\ positions[Symbol].qty = 0
  BY DEF FollowingInv
<1>2. Symbol \in Instruments /\ Symbol \notin Options /\ Options \subseteq Instruments
  BY InstrumentKinds
<1>3. CASE FillOrder
  <2> DEFINE o == Head(batch)
  <2>1. o \in Outstanding /\ Outstanding' \subseteq Outstanding \ {o}
    BY <1>3, Leaves
  <2>2. \A j \in Instruments : j # o.inst => positions'[j] = positions[j]
    BY <1>3, FillMoves
  <2> HIDE DEF o
  <2>3. Outstanding' = {}
    BY <1>1, <2>1 DEF AtMostOne
  <2> QED
    BY <1>0, <1>1, <2>1, <2>2, <2>3 DEF FollowingInv, AtMostOne
<1>4. CASE StrategyStep
  <2>1. UNCHANGED positions
    BY <1>4 DEF StrategyStep, accountVars
  <2>2. PICK shapes \in Signals : /\ \A o \in Outstanding' : \E s \in shapes : For(o, s)
                                 /\ \A a, b \in Outstanding' :
                                      a.inst = b.inst /\ a.side = b.side => a = b
    BY <1>4, StepAsks
  <2>3. shapes = TrendFollow
    BY DEF Signals
  <2>4. /\ AtMostOne(TrendFollow)
        /\ \A o \in TrendFollow : o.inst = Symbol /\ o.type = "market"
        /\ TrendFollow # {} => positions[Symbol].qty = 0
    BY TrendFollowAsks DEF SoundInv, RunInv
  <2>5. AtMostOne(Outstanding')
    BY <2>2, <2>3, <2>4 DEF For, AtMostOne
  <2>6. \A o \in Outstanding' : o.inst = Symbol /\ positions[Symbol].qty = 0
    BY <2>2, <2>3, <2>4 DEF For
  <2> QED
    BY <1>0, <1>1, <2>1, <2>5, <2>6 DEF FollowingInv, AtMostOne
<1>5. CASE \E i \in Instruments : ExitStop(i)
  <2>1. PICK i \in Instruments : ExitStop(i)
    BY <1>5
  <2>2. /\ positions[i].qty # 0
        /\ ApplyFill(i, IF positions[i].qty > 0 THEN "SELL" ELSE "BUY", Magnitude(positions[i].qty),
                     Normalize(Threshold(i), TickOf(i)), 0)
    BY <2>1 DEF ExitStop, ExitQty
  <2>3. i = Symbol
    BY <1>1, <2>2
  <2>4. AccountTypeOK /\ positions[i].qty \in Int
    BY InstrumentTypes DEF SoundInv, RunInv, StateInv, AccountInv
  <2>5. positions'[Symbol] = Flat
    BY <2>2, <2>3, <2>4, WholePositionCloses
  <2>6. \A j \in Instruments : j # Symbol => positions'[j] = positions[j]
    BY <2>2, <2>3, <2>4, FilledQty DEF Magnitude, Sides
  <2>7. Outstanding' = {}
    <3>1. Outstanding = {}
      BY <1>1, <2>2, <2>3
    <3>2. ~StrategyStep
      BY <2>2, <2>4, <2>5, <2>3 DEF StrategyStep, accountVars, Flat
    <3> QED
      BY <3>1, <3>2, NothingNew
  <2> QED
    BY <1>0, <1>1, <2>5, <2>6, <2>7 DEF FollowingInv, AtMostOne
<1>6. CASE ~(FillOrder \/ StrategyStep \/ \E i \in Instruments : ExitStop(i))
  <2>1. ~SettleExpired
    BY <1>1, <1>2, NoSettlement
  <2>2. UNCHANGED positions
    BY <1>6, <2>1, PositionFrame
  <2>3. Outstanding' \subseteq Outstanding
    BY <1>6, NothingNew
  <2> QED
    BY <1>0, <1>1, <2>2, <2>3 DEF FollowingInv, AtMostOne
<1> QED
  BY <1>3, <1>4, <1>5, <1>6

\* An expired option is settled for cash, or delivered out of the shares.
LEMMA SettledPositions ==
    ASSUME SoundInv, SettleExpired
    PROVE  \/ UNCHANGED positions
           \/ \E opt \in Options :
                /\ positions[opt].qty # 0
                /\ positions' = [positions EXCEPT ![opt] = Flat]
           \/ \E opt \in Options :
                /\ positions[opt].qty < 0
                /\ positions'[opt] = Flat /\ positions'[Symbol].qty >= 0
                /\ \A i \in Instruments \ {opt, Symbol} : positions'[i] = positions[i]
<1>1. PICK opt \in expired : AssignPhysical(opt) \/ SettleCash(opt)
  BY DEF SettleExpired
<1>2. opt \in Options /\ opt \in Instruments /\ Symbol \in Instruments /\ opt # Symbol
  BY InstrumentKinds DEF SoundInv, RunInv, StateInv, LoopTypeOK
<1>3. /\ positions \in [Instruments -> Position] /\ Multiplier[opt] \in Int
      /\ positions[Symbol].qty \in Int
  BY <1>2, InstrumentTypes, PortfolioAssumption
     DEF SoundInv, RunInv, StateInv, AccountInv, AccountTypeOK
<1>4. CASE SettleCash(opt)
  BY <1>2, <1>4 DEF SettleCash, SettlePosition
<1>5. CASE AssignPhysical(opt) /\ ~Deliverable(opt, Symbol)
  BY <1>5 DEF AssignPhysical, accountVars
<1>6. CASE AssignPhysical(opt) /\ Deliverable(opt, Symbol)
  <2> DEFINE left == positions[Symbol].qty - Multiplier[opt]
             rest == IF left = 0 THEN Flat ELSE [qty |-> left, avg |-> positions[Symbol].avg]
  <2>1. positions' = [positions EXCEPT ![opt] = Flat, ![Symbol] = rest]
    BY <1>2, <1>3, <1>6 DEF AssignPhysical, SettlePhysical
  <2>2. positions[opt].qty < 0 /\ left \in Int /\ left >= 0
    BY <1>3, <1>6 DEF Deliverable
  <2>3. rest.qty >= 0
    BY <2>2 DEF Flat
  <2> HIDE DEF rest
  <2>4. positions'[opt] = Flat /\ positions'[Symbol] = rest
    BY <1>2, <1>3, <2>1
  <2>5. \A i \in Instruments \ {opt, Symbol} : positions'[i] = positions[i]
    BY <1>3, <2>1
  <2> QED
    BY <1>2, <2>2, <2>3, <2>4, <2>5
<1> QED
  BY <1>1, <1>4, <1>5, <1>6

LEMMA StepKeepsCovered ==
    ASSUME SoundInv, SoundInv', CoveringInv, [StrategyNext]_<<vars, strategyVars>>
    PROVE  CoveringInv'
<1> SUFFICES ASSUME strategy = "covered_call" PROVE CoveringInv'
  BY PositionFrame DEF CoveringInv
<1>0. UNCHANGED strategy
  BY PositionFrame
<1>1. /\ \A i \in Instruments : stops[i] = None
      /\ positions[Symbol].qty >= 0
      /\ \A opt \in Options : positions[opt].qty \in {0, -1}
      /\ \A a, b \in ShortOptions : a = b
      /\ ShortOptions # {} => EnoughShares
      /\ AtMostOne(Outstanding)
      /\ \A o \in Outstanding : o.trail = None /\ (SharesFirst(o) \/ CallNext(o))
  BY DEF CoveringInv
<1>2. /\ Symbol \in Instruments /\ Symbol \notin Options /\ Options \subseteq Instruments
      /\ SharesPerContract \in Nat /\ positions[Symbol].qty \in Int
  BY InstrumentKinds, Traders, InstrumentTypes DEF SoundInv, RunInv, StateInv, AccountInv
<1>3. CASE FillOrder
  <2> DEFINE o == Head(batch)
  <2>1. o \in Outstanding /\ Outstanding' \subseteq Outstanding \ {o}
    BY <1>3, Leaves
  <2>2. /\ o.inst \in Instruments /\ o.side \in Sides /\ o.qty \in Nat \ {0}
        /\ positions'[o.inst].qty = positions[o.inst].qty + Signed(o.side, o.qty)
        /\ \A j \in Instruments : j # o.inst => positions'[j] = positions[j]
        /\ o.trail = None => stops' = stops
    BY <1>3, FillMoves
  <2> HIDE DEF o
  <2>3. Outstanding' = {} /\ stops' = stops
    BY <1>1, <2>1, <2>2 DEF AtMostOne
  <2>4. CASE SharesFirst(o)
    <3>1. o.inst = Symbol /\ positions'[Symbol].qty = positions[Symbol].qty + o.qty
      BY <2>2, <2>4 DEF SharesFirst, Signed
    <3>2. \A opt \in Options : positions'[opt] = positions[opt]
      BY <1>2, <2>2, <3>1
    <3>3. positions'[Symbol].qty >= positions[Symbol].qty
      BY <1>2, <2>2, <3>1
    <3>4. ShortOptions' = ShortOptions /\ (EnoughShares => EnoughShares')
      BY <1>2, <2>2, <3>1, <3>2, <3>3 DEF ShortOptions, EnoughShares
    <3> QED
      BY <1>0, <1>1, <1>2, <2>2, <2>3, <3>1, <3>2, <3>3, <3>4 DEF CoveringInv, AtMostOne
  <2>5. CASE CallNext(o)
    <3>1. /\ o.inst \in Options /\ positions'[o.inst].qty = positions[o.inst].qty - 1
          /\ ShortOptions = {} /\ EnoughShares
      BY <2>2, <2>5 DEF CallNext, Signed
    <3>2. \A opt \in Options : positions[opt].qty = 0
      BY <1>1, <3>1 DEF ShortOptions
    <3>3. positions'[Symbol] = positions[Symbol]
      BY <1>2, <2>2, <3>1
    <3>4. \A opt \in Options : positions'[opt].qty = IF opt = o.inst THEN -1 ELSE 0
      BY <1>2, <2>2, <3>1, <3>2
    <3>5. ShortOptions' = {o.inst} /\ EnoughShares'
      BY <3>1, <3>3, <3>4 DEF ShortOptions, EnoughShares
    <3> QED
      BY <1>0, <1>1, <2>3, <3>3, <3>4, <3>5 DEF CoveringInv, AtMostOne
  <2> QED
    BY <1>1, <2>1, <2>4, <2>5
<1>4. CASE StrategyStep
  <2>1. UNCHANGED <<positions, stops>>
    BY <1>4 DEF StrategyStep, accountVars
  <2>2. PICK shapes \in Signals : /\ \A o \in Outstanding' : \E s \in shapes : For(o, s)
                                 /\ \A a, b \in Outstanding' :
                                      a.inst = b.inst /\ a.side = b.side => a = b
    BY <1>4, StepAsks
  <2>3. shapes \in CoveredCall
    BY DEF Signals
  <2>4. /\ AtMostOne(shapes)
        /\ \A o \in shapes : o.trail = None /\ (SharesFirst(o) \/ CallNext(o))
    BY <2>3, CoveredCallAsks DEF SoundInv, RunInv
  <2>5. AtMostOne(Outstanding')
    BY <2>2, <2>4 DEF For, AtMostOne
  <2>6. \A o \in Outstanding' : o.trail = None /\ (SharesFirst(o) \/ CallNext(o))
    BY <2>2, <2>4 DEF For, SharesFirst, CallNext
  <2>7. ShortOptions' = ShortOptions /\ EnoughShares' = EnoughShares
    BY <2>1 DEF ShortOptions, EnoughShares
  <2>8. \A o \in Outstanding' : o.trail = None /\ (SharesFirst(o) \/
          (o.inst \in Options /\ o.side = "SELL" /\ o.qty = 1 /\ EnoughShares' /\ ShortOptions' = {}))
    BY <2>6, <2>7 DEF CallNext
  <2> QED
    BY <1>0, <1>1, <2>1, <2>5, <2>7, <2>8 DEF CoveringInv, AtMostOne, SharesFirst, CallNext
<1>5. CASE SettleExpired
  <2>1. Outstanding' \subseteq Outstanding /\ UNCHANGED stops
    BY <1>5, NoSettlement DEF Outstanding
  <2>2. CASE UNCHANGED positions
    BY <1>0, <1>1, <2>1, <2>2 DEF CoveringInv, AtMostOne, SharesFirst, CallNext, ShortOptions,
                                  EnoughShares
  <2>3. CASE \E opt \in Options :
               /\ positions[opt].qty < 0
               /\ positions'[opt] = Flat /\ positions'[Symbol].qty >= 0
               /\ \A i \in Instruments \ {opt, Symbol} : positions'[i] = positions[i]
    <3>1. PICK opt \in Options :
               /\ positions[opt].qty < 0
               /\ positions'[opt] = Flat /\ positions'[Symbol].qty >= 0
               /\ \A i \in Instruments \ {opt, Symbol} : positions'[i] = positions[i]
      BY <2>3
    <3>2. opt \in ShortOptions
      BY <3>1 DEF ShortOptions
    <3>3. \A other \in Options : positions'[other].qty = 0
      <4> SUFFICES ASSUME NEW other \in Options, other # opt PROVE positions'[other].qty = 0
        BY <3>1 DEF Flat
      <4>1. other \notin ShortOptions
        BY <1>1, <3>2
      <4>2. positions[other].qty = 0
        BY <1>1, <4>1 DEF ShortOptions
      <4> QED
        BY <1>2, <3>1, <4>2
    <3>4. ShortOptions' = {}
      BY <3>3 DEF ShortOptions
    <3>5. \A o \in Outstanding : o.trail = None /\ SharesFirst(o)
      BY <1>1, <3>2 DEF CallNext
    <3> QED
      BY <1>0, <1>1, <2>1, <3>1, <3>3, <3>4, <3>5 DEF CoveringInv, AtMostOne, SharesFirst
  <2>4. CASE \E opt \in Options :
                /\ positions[opt].qty # 0
                /\ positions' = [positions EXCEPT ![opt] = Flat]
    <3>1. PICK opt \in Options :
                /\ positions[opt].qty # 0
                /\ positions' = [positions EXCEPT ![opt] = Flat]
      BY <2>4
    <3>2. positions \in [Instruments -> Position]
      BY DEF SoundInv, RunInv, StateInv, AccountInv, AccountTypeOK
    <3>3. /\ positions'[opt] = Flat /\ positions'[Symbol] = positions[Symbol]
          /\ \A i \in Instruments \ {opt, Symbol} : positions'[i] = positions[i]
      BY <1>2, <3>1, <3>2
    <3>4. positions[opt].qty < 0
      BY <1>1, <3>1
    <3> QED
      BY <1>1, <2>3, <3>3, <3>4
  <2> QED
    BY <1>5, <2>2, <2>3, <2>4, SettledPositions
<1>6. CASE ~(FillOrder \/ StrategyStep \/ SettleExpired)
  <2>1. \A i \in Instruments : ~ExitStop(i)
    BY <1>1 DEF ExitStop, Visits
  <2>2. UNCHANGED <<positions, stops>>
    BY <1>1, <1>6, <2>1, PositionFrame
  <2>3. Outstanding' \subseteq Outstanding
    BY <1>6, NothingNew
  <2> QED
    BY <1>0, <1>1, <2>2, <2>3 DEF CoveringInv, AtMostOne, SharesFirst, CallNext, ShortOptions,
                                  EnoughShares
<1> QED
  BY <1>3, <1>4, <1>5, <1>6

(* What the strategies keep to, as one invariant of every run.              *)
THEOREM KeptInvariant == StrategySpec => []KeptInv
<1>1. StrategyInit => ApartInv /\ AllocatingInv /\ FollowingInv /\ CoveringInv
  <2> SUFFICES ASSUME StrategyInit
               PROVE  ApartInv /\ AllocatingInv /\ FollowingInv /\ CoveringInv
    OBVIOUS
  <2>1. /\ Outstanding = {}
        /\ \A i \in Instruments : stops[i] = None /\ positions[i].qty = 0
    BY DEF StrategyInit, Init, LoopInit, AccountInit, Outstanding, Flat
  <2>2. Symbol \in Instruments /\ Options \subseteq Instruments
    BY InstrumentKinds
  <2>3. ShortOptions = {}
    BY <2>1, <2>2 DEF ShortOptions
  <2> QED
    BY <2>1, <2>2, <2>3 DEF ApartInv, AllocatingInv, FollowingInv, CoveringInv, AtMostOne
<1>2. SoundInv /\ SoundInv' /\ KeptInv /\ [StrategyNext]_<<vars, strategyVars>> => KeptInv'
  BY StepKeepsApart, StepKeepsAllocating, StepFollows, StepKeepsCovered DEF KeptInv
<1> QED
  BY <1>1, <1>2, SoundInvariant, PTL DEF StrategySpec, KeptInv

(* The second, the instrument and the side tell a strategy's outstanding    *)
(* orders apart, as strategizer_adapter.py:72 and the reports take it:      *)
(* there is never more than one of a kind, nor one that outlives its step.  *)
THEOREM OrdersToldApart == StrategySpec => []IdsTellOrdersApart
<1>1. KeptInv => IdsTellOrdersApart
  <2> SUFFICES ASSUME KeptInv, strategy # "any",
                      NEW j \in DOMAIN (batch \o pending), NEW k \in DOMAIN (batch \o pending),
                      LET a == (batch \o pending)[j]
                          b == (batch \o pending)[k]
                      IN  a.inst = b.inst /\ a.side = b.side /\ a.id.ts = b.id.ts
               PROVE  j = k
    BY DEF IdsTellOrdersApart
  <2> DEFINE n == Len(batch)
             a == (batch \o pending)[j]
             b == (batch \o pending)[k]
  <2>1. /\ batch \in Seq(Order) /\ pending \in Seq(Order)
        /\ Distinct(batch) /\ Distinct(pending) /\ Ids(pending) \cap Ids(batch) = {}
    BY DEF KeptInv, SoundInv, RunInv, StateInv, LoopTypeOK, OrderInv
  <2>2. n \in Nat /\ Len(pending) \in Nat /\ DOMAIN batch = 1..n /\ DOMAIN pending = 1..Len(pending)
    BY <2>1
  <2>3. /\ batch \o pending \in Seq(Order) /\ Len(batch \o pending) = n + Len(pending)
        /\ \A i \in 1..(n + Len(pending)) :
             (batch \o pending)[i] = IF i <= n THEN batch[i] ELSE pending[i - n]
    BY <2>1, ConcatProperties
  <2>4. DOMAIN (batch \o pending) = 1..(n + Len(pending))
    BY <2>3
  <2> HIDE DEF n
  <2>5. \A i \in 1..(n + Len(pending)) :
          /\ i <= n => i \in DOMAIN batch /\ (batch \o pending)[i] = batch[i]
          /\ ~(i <= n) => i - n \in DOMAIN pending /\ (batch \o pending)[i] = pending[i - n]
    BY <2>2, <2>3
  <2>6. a \in Outstanding /\ b \in Outstanding
    BY <2>4, <2>5 DEF Outstanding
  <2>7. a = b
    BY <2>6 DEF KeptInv, ApartInv
  <2>8. /\ j <= n => j \in DOMAIN batch /\ a = batch[j]
        /\ ~(j <= n) => j - n \in DOMAIN pending /\ a = pending[j - n]
        /\ k <= n => k \in DOMAIN batch /\ b = batch[k]
        /\ ~(k <= n) => k - n \in DOMAIN pending /\ b = pending[k - n]
        /\ j \in Int /\ k \in Int
    BY <2>2, <2>4, <2>5
  <2> HIDE DEF a, b
  <2>9. CASE j <= n /\ k <= n
    BY <2>1, <2>7, <2>8, <2>9 DEF Distinct
  <2>10. CASE ~(j <= n) /\ ~(k <= n)
    <3>1. j - n = k - n
      BY <2>1, <2>7, <2>8, <2>10 DEF Distinct
    <3> QED
      BY <2>2, <2>8, <3>1
  <2>11. CASE (j <= n /\ ~(k <= n)) \/ (~(j <= n) /\ k <= n)
    <3>1. a.id \in Ids(batch) /\ a.id \in Ids(pending)
      BY <2>7, <2>8, <2>11 DEF Ids
    <3> QED
      BY <2>1, <3>1
  <2> QED
    BY <2>9, <2>10, <2>11
<1> QED
  BY <1>1, KeptInvariant, PTL

(* tactical_asset_allocation is never short: what it sells when it          *)
(* rebalances down or leaves for cash it still holds when the order is      *)
(* filled (tactical_asset_allocation.py:89-157, plans/263:214).             *)
THEOREM AllocationStaysLong == StrategySpec => []LongOnly
<1>1. KeptInv => LongOnly
  BY DEF KeptInv, AllocatingInv, LongOnly
<1> QED
  BY <1>1, KeptInvariant, PTL

(* trend_follow_risk_sized never adds to the position it has: an order it   *)
(* asks for while flat is filled while it is still flat, and only the       *)
(* trailing stop changes the position then (trend_follow_risk_sized.py:85). *)
THEOREM TrendNeverAdds == StrategySpec => NeverAddsToPosition
<1>1. SoundInv /\ KeptInv /\ [StrategyNext]_<<vars, strategyVars>> =>
        [ strategy = "trend_follow_risk_sized" /\ positions[Symbol].qty # 0 =>
            positions'[Symbol] \in {positions[Symbol], Flat} ]_vars
  BY StepFollows DEF KeptInv
<1> QED
  BY <1>1, SoundInvariant, KeptInvariant, PTL DEF StrategySpec, NeverAddsToPosition

(* A covered call stays covered, through its sale, its expiry, its          *)
(* assignment and the next one (covered_call.py:118-205).                   *)
THEOREM CallsStayCovered == StrategySpec => []CallsCovered
<1>1. KeptInv => CallsCovered
  <2> SUFFICES ASSUME KeptInv, strategy = "covered_call", NEW opt \in Options
               PROVE  positions[Symbol].qty >= -positions[opt].qty * SharesPerContract
    BY DEF CallsCovered
  <2>1. /\ positions[Symbol].qty >= 0 /\ positions[opt].qty \in {0, -1}
        /\ ShortOptions # {} => EnoughShares
    BY DEF KeptInv, CoveringInv
  <2>2. positions[Symbol].qty \in Int /\ SharesPerContract \in Nat
    BY Traders, InstrumentTypes DEF KeptInv, SoundInv, RunInv, StateInv, AccountInv
  <2>3. CASE positions[opt].qty = 0
    BY <2>1, <2>2, <2>3
  <2>4. CASE positions[opt].qty = -1
    <3>1. EnoughShares
      BY <2>1, <2>4 DEF ShortOptions
    <3> QED
      BY <2>2, <2>4, <3>1 DEF EnoughShares
  <2> QED
    BY <2>1, <2>3, <2>4
<1> QED
  BY <1>1, KeptInvariant, PTL

-----------------------------------------------------------------------------
(* orb_5m remembers nothing, and does not repeat a signal while its window  *)
(* reaches back to the session's start: what it has signalled before it     *)
(* finds again in the bars it is given.  That takes every bar to be there.  *)

OfSession(ts, day) == DayOf[ts] = day /\ TimeOfDay[ts] > SessionStart

\* The bars show that the breakout a has been signalled.
Shown(rows, a) ==
    LET rth == OpeningRange!RthBars(rows, a.day)
        opening == OpeningRange!Opening(rth)
        range == [high |-> OpeningRange!Highest(rows, opening),
                  low |-> OpeningRange!Lowest(rows, opening)]
    IN  /\ Cardinality(rth) > OrBars
        /\ \E k \in rth \ opening : rows[k].ts = a.ts /\ OpeningRange!Breaks(rows[k], range, a.side)

LEMMA ShiftedSet ==
    ASSUME NEW S \in SUBSET Int, IsFiniteSet(S), NEW d \in Int
    PROVE  Cardinality({k + d : k \in S}) = Cardinality(S)
<1> DEFINE T == {k + d : k \in S}
           f == [k \in S |-> k + d]
<1>1. f \in Bijection(S, T)
  BY DEF Bijection, Injection, Surjection, IsInjective
<1> HIDE DEF f, T
<1>2. ExistsBijection(S, T)
  BY <1>1 DEF ExistsBijection
<1>3. Cardinality(T) = Cardinality(S)
  BY <1>2, FS_Bijection
<1> QED
  BY <1>3 DEF T

LEMMA RthType ==
    ASSUME NEW rows \in Seq(Bar), NEW day
    PROVE  LET rth == OpeningRange!RthBars(rows, day) IN
           rth \subseteq DOMAIN rows /\ rth \subseteq Int /\ IsFiniteSet(rth)
<1>1. DOMAIN rows = 1..Len(rows) /\ Len(rows) \in Int
  OBVIOUS
<1>2. IsFiniteSet(DOMAIN rows)
  BY <1>1, FS_Interval
<1>3. OpeningRange!RthBars(rows, day) \subseteq DOMAIN rows
  BY DEF OpeningRange!RthBars
<1> QED
  BY <1>1, <1>2, <1>3, FS_Subset

LEMMA SuffixRows ==
    ASSUME NEW rows \in Seq(Bar), NEW d \in 0..Len(rows)
    PROVE  LET rest == SubSeq(rows, 1 + d, Len(rows)) IN
           /\ rest \in Seq(Bar) /\ Len(rest) = Len(rows) - d /\ DOMAIN rest = 1..(Len(rows) - d)
           /\ \A k \in 1..(Len(rows) - d) : rest[k] = rows[k + d]
<1> DEFINE rest == SubSeq(rows, 1 + d, Len(rows))
<1>0. Len(rows) \in Nat /\ d \in Nat /\ \A k \in 1..Len(rows) : rows[k] \in Bar
  OBVIOUS
<1>1. /\ SubSeq(rows, 1 + d, Len(rows)) \in Seq(Bar)
      /\ Len(SubSeq(rows, 1 + d, Len(rows))) =
           IF 1 + d <= Len(rows) THEN Len(rows) - (1 + d) + 1 ELSE 0
      /\ \A i \in 1..(Len(rows) - (1 + d) + 1) :
           SubSeq(rows, 1 + d, Len(rows))[i] = rows[(1 + d) + i - 1]
  BY <1>0, SubSeqProperties
<1>a. d <= Len(rows) /\ (1 + d <= Len(rows) \/ d = Len(rows)) /\ Len(rows) - (1 + d) + 1 = Len(rows) - d
  BY <1>0
<1> HIDE DEF rest
<1>2. Len(rest) = Len(rows) - d /\ rest \in Seq(Bar)
  <2>1. CASE 1 + d <= Len(rows)
    BY <1>1, <1>a, <2>1 DEF rest
  <2>2. CASE d = Len(rows)
    <3>1. ~(1 + d <= Len(rows)) /\ Len(rows) - d = 0
      BY <1>0, <2>2
    <3> QED
      BY <1>1, <3>1 DEF rest
  <2> QED
    BY <1>a, <2>1, <2>2
<1>3. \A k \in 1..(Len(rows) - d) : k \in 1..(Len(rows) - (1 + d) + 1) /\ (1 + d) + k - 1 = k + d
  BY <1>0
<1>4. \A k \in 1..(Len(rows) - d) : rest[k] = rows[k + d]
  BY <1>1, <1>3 DEF rest
<1>5. DOMAIN rest = 1..Len(rest)
  BY <1>2
<1> QED
  BY <1>2, <1>4, <1>5

\* Bars in front of it that are not of a session make no difference to it.
LEMMA SuffixShows ==
    ASSUME NEW rows \in Seq(Bar), NEW d \in 0..Len(rows), NEW a,
           \A k \in 1..d : ~OfSession(rows[k].ts, a.day)
    PROVE  Shown(rows, a) <=> Shown(SubSeq(rows, 1 + d, Len(rows)), a)
<1> DEFINE rest == SubSeq(rows, 1 + d, Len(rows))
           R == OpeningRange!RthBars(rows, a.day)
           Q == OpeningRange!RthBars(rest, a.day)
           OR == OpeningRange!Opening(R)
           OQ == OpeningRange!Opening(Q)
<1>1. Len(rows) \in Nat /\ d \in Nat /\ DOMAIN rows = 1..Len(rows) /\ \A k \in 1..Len(rows) : rows[k] \in Bar
  OBVIOUS
<1>2. /\ rest \in Seq(Bar) /\ Len(rest) = Len(rows) - d /\ DOMAIN rest = 1..(Len(rows) - d)
      /\ \A k \in 1..(Len(rows) - d) : rest[k] = rows[k + d]
  BY SuffixRows DEF rest
<1> HIDE DEF rest
<1>3. /\ Q \subseteq 1..(Len(rows) - d) /\ IsFiniteSet(Q) /\ Q \subseteq Int
      /\ R \subseteq 1..Len(rows) /\ IsFiniteSet(R) /\ R \subseteq Int
  BY <1>1, <1>2, RthType
<1>4. R = {k + d : k \in Q}
  <2>1. ASSUME NEW k \in Q PROVE k + d \in R
    <3>1. k \in 1..(Len(rows) - d) /\ rest[k] = rows[k + d] /\ k + d \in 1..Len(rows)
      BY <1>1, <1>2, <1>3
    <3> QED
      BY <1>1, <3>1 DEF OpeningRange!RthBars
  <2>2. ASSUME NEW k \in R PROVE k - d \in Q /\ k = (k - d) + d
    <3>1. k \in 1..Len(rows) /\ OfSession(rows[k].ts, a.day)
      BY <1>1 DEF OpeningRange!RthBars, OfSession
    <3>2. k - d \in 1..(Len(rows) - d) /\ (k - d) + d = k
      BY <1>1, <3>1
    <3>3. rest[k - d] = rows[k]
      BY <1>2, <3>2
    <3> QED
      BY <1>2, <3>2, <3>3 DEF OpeningRange!RthBars
  <2> QED
    BY <2>1, <2>2
<1> HIDE DEF R, Q
<1>5. Cardinality(R) = Cardinality(Q)
  <2>1. Q \in SUBSET Int /\ d \in Int /\ IsFiniteSet(Q)
    BY <1>1, <1>3
  <2>2. Cardinality({k + d : k \in Q}) = Cardinality(Q)
    BY <2>1, ShiftedSet
  <2> QED
    BY <1>4, <2>2
<1>6. ASSUME NEW k \in Q PROVE k + d \in OR <=> k \in OQ
  <2> DEFINE S == {j \in Q : j < k}
  <2>1. S \in SUBSET Int /\ IsFiniteSet(S)
    BY <1>3, FS_Subset
  <2>2. {j \in R : j < k + d} = {j + d : j \in S}
    <3>1. \A j \in Q : j + d < k + d <=> j < k
      BY <1>1, <1>3
    <3> QED
      BY <1>4, <3>1
  <2>3. Cardinality({j \in R : j < k + d}) = Cardinality(S)
    <3> HIDE DEF S
    <3>1. d \in Int
      BY <1>1
    <3>2. Cardinality({j + d : j \in S}) = Cardinality(S)
      BY <2>1, <3>1, ShiftedSet
    <3> QED
      BY <2>2, <3>2
  <2>4. k + d \in R
    BY <1>4
  <2> QED
    BY <2>3, <2>4, SameOperators DEF OpeningRange!Opening
<1>7. OQ \subseteq Q /\ OR \subseteq R
  BY DEF OpeningRange!Opening
<1>8. OR = {k + d : k \in OQ}
  BY <1>4, <1>6, <1>7
<1>9. \A k \in Q : rest[k] = rows[k + d]
  BY <1>2, <1>3
<1> HIDE DEF OR, OQ
<1>10. {rows[k].high : k \in OR} = {rest[k].high : k \in OQ}
  BY <1>7, <1>8, <1>9
<1>11. {rows[k].low : k \in OR} = {rest[k].low : k \in OQ}
  BY <1>7, <1>8, <1>9
<1> DEFINE range == [high |-> OpeningRange!Highest(rows, OR), low |-> OpeningRange!Lowest(rows, OR)]
<1>12. range = [high |-> OpeningRange!Highest(rest, OQ), low |-> OpeningRange!Lowest(rest, OQ)]
  BY <1>10, <1>11 DEF OpeningRange!Highest, OpeningRange!Lowest
<1> HIDE DEF range
<1>13. (\E k \in R \ OR : rows[k].ts = a.ts /\ OpeningRange!Breaks(rows[k], range, a.side))
         <=> (\E k \in Q \ OQ : rest[k].ts = a.ts /\ OpeningRange!Breaks(rest[k], range, a.side))
  <2>1. \A k \in Q : k + d \in OR <=> k \in OQ
    BY <1>6
  <2> QED
    BY <1>4, <1>9, <2>1
<1> QED
  BY <1>5, <1>12, <1>13 DEF Shown, R, Q, OR, OQ, range, rest

\* Nor do the bars that come after.
LEMMA AppendShows ==
    ASSUME NEW rows \in Seq(Bar), NEW bar \in Bar, NEW a, Shown(rows, a)
    PROVE  Shown(Append(rows, bar), a)
<1> DEFINE more == Append(rows, bar)
           n == Len(rows) + 1
           R == OpeningRange!RthBars(rows, a.day)
           Q == OpeningRange!RthBars(more, a.day)
           OR == OpeningRange!Opening(R)
           OQ == OpeningRange!Opening(Q)
<1>1. /\ Len(rows) \in Nat /\ DOMAIN rows = 1..Len(rows) /\ n \in Int
      /\ more \in Seq(Bar) /\ DOMAIN more = 1..n
      /\ \A k \in 1..Len(rows) : more[k] = rows[k]
  OBVIOUS
<1> HIDE DEF more
<1>2. /\ R \subseteq 1..Len(rows) /\ IsFiniteSet(R)
      /\ Q \subseteq 1..n /\ IsFiniteSet(Q)
  BY <1>1, RthType
<1>3. \A k \in 1..Len(rows) : k \in Q <=> k \in R
  BY <1>1 DEF OpeningRange!RthBars
<1>4. R \subseteq Q /\ Q \subseteq R \cup {n}
  BY <1>1, <1>2, <1>3
<1> HIDE DEF R, Q
<1>5. Cardinality(R) > OrBars /\ OrBars \in Nat /\ Cardinality(R) \in Nat /\ Cardinality(Q) \in Nat
  BY <1>2, Traders, FS_CardinalityType DEF Shown, R
<1>6. Cardinality(Q) > OrBars
  <2>1. Cardinality(R) <= Cardinality(Q)
    BY <1>2, <1>4, FS_Subset
  <2> QED
    BY <1>5, <2>1
<1>a. R \subseteq Int /\ Q \subseteq Int /\ \A k \in R : k < n
  BY <1>1, <1>2
<1>b. \A k \in Q : k < n => k \in R
  BY <1>1, <1>a, <1>4
<1>7. \A k \in R : {j \in Q : j < k} = {j \in R : j < k}
  <2> SUFFICES ASSUME NEW k \in R, NEW j \in Q, j < k PROVE j \in R
    BY <1>4
  <2>1. k < n /\ k \in Int /\ j \in Int
    BY <1>a
  <2>2. j < n
    BY <1>1, <2>1
  <2> QED
    BY <1>b, <2>2
<1>8. n \notin OQ
  <2> SUFFICES ASSUME n \in Q, Cardinality({j \in Q : j < n}) < OrBars PROVE FALSE
    BY SameOperators DEF OpeningRange!Opening
  <2>1. {j \in Q : j < n} = R
    BY <1>a, <1>b, <1>4
  <2>2. Cardinality(R) < OrBars
    BY <2>1
  <2> QED
    BY <1>5, <2>2
<1>9. OQ = OR
  BY <1>4, <1>7, <1>8, SameOperators DEF OpeningRange!Opening
<1>10. OR \subseteq R /\ \A k \in R : more[k] = rows[k]
  BY <1>1, <1>2 DEF OpeningRange!Opening
<1> HIDE DEF OR, OQ
<1>11. {rows[k].high : k \in OR} = {more[k].high : k \in OQ}
  BY <1>9, <1>10
<1>12. {rows[k].low : k \in OR} = {more[k].low : k \in OQ}
  BY <1>9, <1>10
<1> DEFINE range == [high |-> OpeningRange!Highest(rows, OR), low |-> OpeningRange!Lowest(rows, OR)]
<1>13. range = [high |-> OpeningRange!Highest(more, OQ), low |-> OpeningRange!Lowest(more, OQ)]
  BY <1>11, <1>12 DEF OpeningRange!Highest, OpeningRange!Lowest
<1> HIDE DEF range
<1>14. PICK k \in R \ OR : rows[k].ts = a.ts /\ OpeningRange!Breaks(rows[k], range, a.side)
  BY DEF Shown, R, OR, range
<1>15. k \in Q \ OQ /\ more[k].ts = a.ts /\ OpeningRange!Breaks(more[k], range, a.side)
  BY <1>4, <1>9, <1>10, <1>14
<1> QED
  BY <1>6, <1>13, <1>15 DEF Shown, Q, OQ, more

\* The bars are those of the last Lookback units of time, one at each of them,
\* and while they reach back to the session's start, they show its breakouts.
RememberingInv ==
    strategy = "orb_5m" =>
      LET h == history[Symbol] IN
      /\ ~HasHistory => asked = {}
      /\ Len(h) <= now /\ Len(h) <= Lookback + 1
      /\ \A k \in 1..Len(h) : h[k].ts = now - Len(h) + k
      /\ \A a \in asked :
           /\ a.day = DayOf[a.ts] /\ a.ts \in 1..now
           /\ phase = "open" => a.ts < now
           /\ \A t \in now..MaxBars : DayOf[t] = a.day /\ InSight(t) => Shown(h, a)
      /\ NoRepeatInSight

LEMMA HistoryOf ==
    ASSUME HistoryInv
    PROVE  /\ Symbol \in Universe /\ history[Symbol] \in Seq(Sound) /\ history[Symbol] \in Seq(Bar)
           /\ Len(history[Symbol]) \in Nat
<1>1. Symbol \in Universe /\ history[Symbol] \in Seq(Sound)
  BY InstrumentKinds DEF HistoryInv
<1>2. \A rows \in Seq(Sound) : rows \in Seq(Bar)
  BY DEF Sound
<1> QED
  BY <1>1, <1>2

\* The next bar is appended, and what leaves the window is of another day than
\* any to come in which a breakout it shows still counts.
LEMMA SnapshotRemembers ==
    ASSUME ~Gaps, RunInv, RememberingInv, strategy = "orb_5m", StrategySnapshot
    PROVE  RememberingInv'
<1> DEFINE h == history[Symbol]
           bar == bars'[Symbol]
           g == Append(h, bar)
           n == Len(g)
<1>1. /\ now \in Nat /\ now' = now + 1 /\ now' <= MaxBars /\ MaxBars \in Nat /\ Lookback \in Nat
      /\ strategy' = strategy /\ asked' = asked /\ phase' = "open"
  BY BacktestAssumption DEF StrategySnapshot, BuildSnapshot, RunInv, StateInv, LoopTypeOK,
                            BacktestAssumption
<1>2. h \in Seq(Sound) /\ h \in Seq(Bar) /\ Len(h) \in Nat /\ Symbol \in Universe
  BY HistoryOf DEF RunInv
<1>3. PICK shape \in BarShapes : bar = BarAt(now', shape)
  <2>1. bar \in BarsAt(Symbol, now')
    BY <1>1, <1>2 DEF StrategySnapshot, BuildSnapshot
  <2> QED
    BY <2>1 DEF BarsAt
<1>4. bar.ts = now' /\ bar \in Bar /\ bar # NoBar
  <2>1. bar.ts = now' /\ bar \in Bar
    BY <1>1, <1>3, BacktestAssumption DEF BarAt, Bar, BacktestAssumption
  <2> HIDE DEF bar
  <2>2. NoBar \notin Bar
    BY StrategyAssumption
  <2> QED
    BY <2>1, <2>2
<1>5. history'[Symbol] = Since(g, now' - Lookback)
  <2>1. LooksBack
    BY DEF LooksBack
  <2> QED
    BY <1>2, <1>4, <2>1 DEF StrategySnapshot
<1>6. /\ g \in Seq(Bar) /\ n = Len(h) + 1 /\ n <= now' /\ n \in Nat
      /\ \A k \in 1..n : g[k].ts = now' - n + k
  <2>1. g \in Seq(Bar) /\ n = Len(h) + 1 /\ g[n] = bar /\ \A k \in 1..Len(h) : g[k] = h[k]
    BY <1>2, <1>4
  <2>2. Len(h) <= now /\ \A k \in 1..Len(h) : h[k].ts = now - Len(h) + k
    BY DEF RememberingInv
  <2> HIDE DEF h, g, n
  <2>3. ASSUME NEW k \in 1..n PROVE g[k].ts = now' - n + k
    <3>1. CASE k \in 1..Len(h)
      BY <1>1, <1>2, <2>1, <2>2, <3>1
    <3>2. CASE k = n
      BY <1>1, <1>2, <1>4, <2>1, <3>2
    <3> QED
      BY <1>2, <2>1, <3>1, <3>2
  <2> QED
    BY <1>1, <1>2, <2>1, <2>2, <2>3
<1> HIDE DEF g, n
<1>7. PICK d \in 0..n :
        /\ history'[Symbol] = SubSeq(g, 1 + d, n)
        /\ d # 0 => g[d].ts < now' - Lookback
        /\ \A k \in 1..n : g[k].ts < now' - Lookback => k <= d
  <2>1. DOMAIN g = 1..Len(g)
    BY <1>6
  <2> QED
    BY <1>5, <1>6, <2>1, SinceDrops DEF n
<1> DEFINE rest == SubSeq(g, 1 + d, n)
<1>8. Len(rest) = n - d /\ \A k \in 1..(n - d) : rest[k] = g[k + d]
  BY <1>6, SuffixRows DEF n
<1> HIDE DEF rest
<1>9. Len(rest) <= now' /\ \A k \in 1..Len(rest) : rest[k].ts = now' - Len(rest) + k
  <2>1. n - d <= now'
    BY <1>1, <1>6
  <2>2. ASSUME NEW k \in 1..(n - d) PROVE rest[k].ts = now' - (n - d) + k
    <3>1. k + d \in 1..n /\ rest[k] = g[k + d]
      BY <1>6, <1>8
    <3>2. rest[k].ts = now' - n + (k + d)
      BY <1>6, <3>1
    <3> QED
      BY <1>1, <1>6, <3>2
  <2> QED
    BY <1>8, <2>1, <2>2
<1>10. Len(rest) <= Lookback + 1
  <2> SUFFICES ASSUME n - d > Lookback + 1 PROVE FALSE
    BY <1>1, <1>6, <1>8
  <2>0. d \in Nat /\ d <= n /\ n \in Nat /\ now' \in Nat /\ Lookback \in Nat
    BY <1>1, <1>6
  <2>1. d + 1 \in 1..n
    BY <2>0
  <2>a. g[d + 1].ts = now' - n + (d + 1)
    BY <1>6, <2>1
  <2>2. g[d + 1].ts < now' - Lookback
    <3>1. PICK x \in Int, m \in Int, l \in Int : x = now' /\ m = n /\ l = Lookback
      BY <2>0
    <3>2. d \in Int /\ m - d > l + 1
      BY <2>0, <3>1
    <3>3. x - m + (d + 1) < x - l
      BY <3>2
    <3> QED
      BY <2>a, <3>1, <3>3
  <2>3. d + 1 <= d
    BY <1>7, <2>1, <2>2
  <2> QED
    BY <1>6, <2>3
<1>11. ASSUME NEW a \in asked, NEW t \in now'..MaxBars, DayOf[t] = a.day, InSight(t)
       PROVE  Shown(rest, a)
  <2>1. t \in now..MaxBars
    BY <1>1
  <2>2. Shown(h, a)
    BY <1>11, <2>1 DEF RememberingInv
  <2>3. Shown(g, a)
    BY <1>2, <1>4, <2>2, AppendShows DEF g
  <2>4. ASSUME NEW k \in 1..d PROVE ~OfSession(g[k].ts, a.day)
    <3>1. d \in 1..n /\ k \in 1..n /\ g[k].ts = now' - n + k /\ g[d].ts = now' - n + d
      BY <1>6
    <3>2. g[d].ts < now' - Lookback
      BY <1>7, <3>1
    <3>0. d \in Nat /\ k \in 1..d /\ n \in Nat /\ d <= n /\ now' \in Nat /\ Lookback \in Nat
          /\ t \in Nat /\ now' <= t /\ t <= MaxBars /\ MaxBars \in Nat /\ n <= now'
      BY <1>1, <1>6
    <3>3. PICK x \in Int, m \in Int, l \in Int, u \in Int, e \in Int, i \in Int :
            x = now' /\ m = n /\ l = Lookback /\ u = t /\ e = d /\ i = k
      BY <3>0
    <3>4. m <= x /\ 1 <= i /\ i <= e /\ 0 <= l /\ x <= u
      BY <3>0, <3>3
    <3>5. g[k].ts = x - m + i /\ x - m + e < x - l
      BY <3>1, <3>2, <3>3
    <3> DEFINE s == x - m + i
    <3>6. s \in Int /\ 1 <= s /\ s <= u - l
      BY <3>4, <3>5
    <3> HIDE DEF s
    <3>7. s \in 1..(t - Lookback)
      BY <3>0, <3>3, <3>6
    <3>8. g[k].ts = s
      BY <3>5 DEF s
    <3> QED
      BY <1>11, <3>7, <3>8 DEF InSight, OfSession
  <2> QED
    BY <1>6, <2>3, <2>4, SuffixShows DEF rest, n
<1>12. \A a \in asked : a.day = DayOf[a.ts] /\ a.ts \in 1..now' /\ a.ts < now'
  <2>1. \A a \in asked : a.day = DayOf[a.ts] /\ a.ts \in 1..now
    BY DEF RememberingInv
  <2> QED
    BY <1>1, <2>1
<1>13. history'[Symbol] = rest
  BY <1>7 DEF rest
<1>14. NoRepeatInSight'
  BY <1>1 DEF RememberingInv, NoRepeatInSight
<1>15. ~HasHistory' => asked' = {}
  BY <1>1 DEF RememberingInv, HasHistory, MultiSymbol
<1> QED
  BY <1>1, <1>9, <1>10, <1>11, <1>12, <1>13, <1>14, <1>15 DEF RememberingInv

\* What breaks out now is shown by the bars it breaks out of, and is not what
\* an earlier bar of the day has already done.
LEMMA BreakoutIsNew ==
    ASSUME NEW rows \in Seq(Bar), rows # <<>>, NEW b \in OpeningRange!Breakouts(rows),
           NEW a, a.ts = rows[Len(rows)].ts, a.day = DayOf[a.ts], a.side = b.side
    PROVE  /\ Shown(rows, a)
           /\ \A old : old.day = a.day /\ old.side = a.side /\ old.ts # a.ts => ~Shown(rows, old)
<1> DEFINE n == Len(rows)
           rth == OpeningRange!RthBars(rows, a.day)
           opening == OpeningRange!Opening(rth)
           range == [high |-> OpeningRange!Highest(rows, opening),
                     low |-> OpeningRange!Lowest(rows, opening)]
           prior == rth \ (opening \cup {n})
<1>1. n \in Nat /\ DOMAIN rows = 1..n /\ n \in 1..n
  BY EmptySeq
<1>2. rth \subseteq 1..n /\ rth \subseteq Int /\ IsFiniteSet(rth) /\ Cardinality(rth) \in Nat
  BY <1>1, RthType, FS_CardinalityType
<1>3. /\ ~(Cardinality(rth) <= OrBars) /\ OpeningRange!IsRth(rows[n])
      /\ OpeningRange!Breaks(rows[n], range, a.side)
      /\ ~OpeningRange!Fired(rows, prior, range, a.side)
  <2>1. OpeningRange!Cardinality(rth) = Cardinality(rth)
    BY SameOperators
  <2>2. a.day = DayOf[rows[n].ts]
    OBVIOUS
  <2>3. b \in IF OpeningRange!Cardinality(rth) <= OrBars THEN {} ELSE
          {[side |-> side, entry |-> OpeningRange!EntryPrice(range, side)] :
             side \in {s \in {"BUY", "SELL"} :
                         /\ OpeningRange!Tradable(range) /\ OpeningRange!IsRth(rows[n])
                         /\ OpeningRange!Breaks(rows[n], range, s)
                         /\ ~OpeningRange!Fired(rows, prior, range, s)}}
    BY <2>2 DEF OpeningRange!Breakouts
  <2> HIDE DEF rth, range, prior, n
  <2>4. ~(OpeningRange!Cardinality(rth) <= OrBars)
    BY <2>3
  <2>5. PICK side \in {s \in {"BUY", "SELL"} :
                         /\ OpeningRange!Tradable(range) /\ OpeningRange!IsRth(rows[n])
                         /\ OpeningRange!Breaks(rows[n], range, s)
                         /\ ~OpeningRange!Fired(rows, prior, range, s)} :
          b = [side |-> side, entry |-> OpeningRange!EntryPrice(range, side)]
    BY <2>3, <2>4
  <2>6. side = a.side
    BY <2>5
  <2> QED
    BY <2>1, <2>4, <2>5, <2>6
<1>4. Cardinality(rth) > OrBars /\ OrBars \in Nat
  BY <1>2, <1>3, Traders
<1>5. n \in rth
  BY <1>1, <1>3 DEF OpeningRange!RthBars, OpeningRange!IsRth
<1> HIDE DEF rth
<1>6. n \notin opening
  <2> SUFFICES ASSUME Cardinality({j \in rth : j < n}) < OrBars PROVE FALSE
    BY SameOperators DEF OpeningRange!Opening
  <2>1. {j \in rth : j < n} = rth \ {n}
    BY <1>1, <1>2
  <2>2. Cardinality(rth \ {n}) = Cardinality(rth) - 1
    BY <1>2, <1>5, FS_RemoveElement
  <2>3. Cardinality(rth) - 1 < OrBars
    BY <2>1, <2>2
  <2> QED
    BY <1>2, <1>4, <2>3
<1> HIDE DEF range, opening, n
<1>7. Shown(rows, a)
  <2>1. n \in rth \ opening /\ rows[n].ts = a.ts
    BY <1>5, <1>6 DEF n
  <2> QED
    BY <1>3, <1>4, <2>1 DEF Shown, rth, opening, range
<1>8. ASSUME NEW old, old.day = a.day, old.side = a.side, old.ts # a.ts, Shown(rows, old)
      PROVE  FALSE
  <2>1. PICK k \in rth \ opening :
          rows[k].ts = old.ts /\ OpeningRange!Breaks(rows[k], range, a.side)
    BY <1>8 DEF Shown, rth, opening, range
  <2>2. k # n
    BY <1>8, <2>1 DEF n
  <2>3. k \in prior
    BY <2>1, <2>2
  <2> QED
    BY <1>3, <2>1, <2>3 DEF OpeningRange!Fired
<1> QED
  BY <1>7, <1>8

\* Without a history there is one bar, no range.
LEMMA OneBarNoBreakout ==
    ASSUME NEW rows \in Seq(Bar), Len(rows) <= 1
    PROVE  OpeningRange!Breakouts(rows) = {}
<1> SUFFICES ASSUME rows # <<>>, NEW b \in OpeningRange!Breakouts(rows) PROVE FALSE
  BY DEF OpeningRange!Breakouts
<1> DEFINE rth == OpeningRange!RthBars(rows, DayOf[rows[Len(rows)].ts])
<1>1. Len(rows) \in Nat /\ Len(rows) # 0 /\ DOMAIN rows = 1..Len(rows)
  BY EmptySeq
<1>2. rth \subseteq {1} /\ IsFiniteSet({1}) /\ Cardinality({1}) = 1
  <2>1. rth \subseteq DOMAIN rows
    BY RthType
  <2>2. 1..Len(rows) = {1}
    BY <1>1
  <2> QED
    BY <1>1, <2>1, <2>2, FS_Singleton
<1>3. Cardinality(rth) <= 1
  BY <1>2, FS_Subset
<1>4. Cardinality(rth) \in Nat
  BY RthType, FS_CardinalityType
<1>5. ~(Cardinality(rth) <= OrBars)
  BY SameOperators DEF OpeningRange!Breakouts
<1> QED
  BY <1>3, <1>4, <1>5, Traders

LEMMA StepRemembers ==
    ASSUME RunInv, RememberingInv, strategy = "orb_5m", StrategyStep
    PROVE  RememberingInv'
<1> DEFINE h == history[Symbol]
           n == Len(h)
           w == Window(Symbol)
           New == {[ts |-> now, day |-> DayOf[now], side |-> b.side] : b \in Breakouts}
<1>1. /\ now \in 0..MaxBars /\ MaxBars \in Nat /\ Lookback \in Nat
      /\ phase = "open" /\ phase' = "step" /\ UNCHANGED <<now, strategy, history>>
      /\ asked' = asked \cup New
  BY BacktestAssumption DEF StrategyStep, RunInv, StateInv, LoopTypeOK, BacktestAssumption
<1>2. h \in Seq(Bar) /\ n \in Nat /\ Symbol \in Universe /\ w \in Seq(Bar)
  <2>1. w \in Seq(Sound) /\ h \in Seq(Bar) /\ n \in Nat /\ Symbol \in Universe
    BY HistoryOf, WindowType DEF RunInv
  <2>2. \A rows \in Seq(Sound) : rows \in Seq(Bar)
    BY DEF Sound
  <2> QED
    BY <2>1, <2>2
<1>3. /\ n <= now /\ n <= Lookback + 1 /\ \A k \in 1..n : h[k].ts = now - n + k
      /\ ~HasHistory => asked = {}
      /\ NoRepeatInSight
      /\ \A a \in asked : /\ a.day = DayOf[a.ts] /\ a.ts \in 1..now /\ a.ts < now
                          /\ \A t \in now..MaxBars :
                               DayOf[t] = a.day /\ InSight(t) => Shown(h, a)
  BY <1>1 DEF RememberingInv
<1> HIDE DEF h, n
<1>4. CASE ~HasHistory
  <2>1. Len(w) <= 1
    BY <1>4 DEF Window
  <2> HIDE DEF w
  <2>2. New = {}
    BY <1>2, <2>1, OneBarNoBreakout DEF Breakouts, w
  <2>3. asked' = {}
    BY <1>1, <1>3, <1>4, <2>2
  <2> HIDE DEF New
  <2> QED
    BY <1>1, <1>3, <2>3 DEF RememberingInv, NoRepeatInSight, h, n
<1>5. CASE HasHistory
  <2>1. PICK e \in 0..n : w = SubSeq(h, 1 + e, n) /\ (e # 0 => e <= n - Lookback)
    <3>1. PICK d \in 0..n :
            /\ Since(h, now - Lookback) = SubSeq(h, 1 + d, n)
            /\ d # 0 => h[d].ts < now - Lookback
      BY <1>2, SinceDrops DEF n
    <3>2. d = 0
      <4> SUFFICES ASSUME d # 0 PROVE FALSE
        OBVIOUS
      <4>1. d \in 1..n /\ h[d].ts = now - n + d /\ h[d].ts < now - Lookback
        BY <1>2, <1>3, <3>1
      <4> QED
        BY <1>1, <1>2, <1>3, <4>1
    <3>3. SubSeq(h, 1, n) = h
      BY <1>2, SubSeqFull DEF n
    <3>4. Since(h, now - Lookback) = h
      <4>1. 1 + d = 1
        BY <3>2
      <4> QED
        BY <3>1, <3>3, <4>1
    <3>5. w = SubSeq(h, Max({1, n - Lookback + 1}), n)
      BY <1>5, <3>4 DEF Window, h, n
    <3>6. n - Lookback + 1 \in Int
      BY <1>1, <1>2
    <3>7. Max({1, n - Lookback + 1}) = IF 1 >= n - Lookback + 1 THEN 1 ELSE n - Lookback + 1
      BY <3>6, LargerOf
    <3>8. CASE 1 >= n - Lookback + 1
      <4>1. w = SubSeq(h, 1 + 0, n)
        <5>1. Max({1, n - Lookback + 1}) = 1 + 0
          BY <3>7, <3>8
        <5> HIDE DEF w
        <5> QED
          BY <3>5, <5>1
      <4> QED
        BY <1>2, <4>1
    <3>9. CASE ~(1 >= n - Lookback + 1)
      <4>1. n - Lookback \in 0..n /\ n - Lookback + 1 = 1 + (n - Lookback)
        BY <1>1, <1>2, <3>9
      <4>2. w = SubSeq(h, 1 + (n - Lookback), n)
        BY <3>5, <3>7, <3>9, <4>1
      <4>3. n - Lookback <= n - Lookback
        BY <1>1, <1>2
      <4> HIDE DEF w
      <4> QED
        BY <4>1, <4>2, <4>3
    <3> QED
      BY <3>8, <3>9
  <2>2. Len(w) = n - e /\ \A k \in 1..(n - e) : w[k] = h[k + e]
    BY <1>2, <2>1, SuffixRows DEF n
  <2> HIDE DEF w
  <2>3. CASE n - e = 0
    <3>1. New = {}
      BY <1>2, <2>2, <2>3, OneBarNoBreakout DEF Breakouts, w
    <3>2. asked' = asked
      BY <1>1, <3>1
    <3> HIDE DEF New
    <3> QED
      BY <1>1, <1>3, <3>2, <1>5 DEF RememberingInv, NoRepeatInSight, HasHistory, h, n
  <2>4. CASE n - e # 0
    <3>1. w # <<>> /\ w[Len(w)].ts = now /\ now \in 1..MaxBars
      <4>1. n - e \in 1..(n - e) /\ n \in 1..n /\ n - e + e = n
        BY <1>2, <2>4
      <4>2. w[n - e] = h[n] /\ h[n].ts = now - n + n
        BY <1>3, <2>2, <4>1
      <4> QED
        BY <1>1, <1>2, <1>3, <2>2, <2>4, <4>1, <4>2
    <3>2. ASSUME NEW a, a.day = DayOf[now], InSight(now) PROVE Shown(h, a) <=> Shown(w, a)
      <4>1. ASSUME NEW k \in 1..e PROVE ~OfSession(h[k].ts, a.day)
        <5>1. k \in 1..n /\ h[k].ts = now - n + k /\ e <= n - Lookback
          BY <1>2, <1>3, <2>1
        <5>2. h[k].ts \in 1..(now - Lookback)
          <6>1. h[k].ts = now - n + k /\ n <= now /\ now <= MaxBars
            BY <1>3, <3>1, <5>1
          <6>2. {now, n, k, e, Lookback, MaxBars} \subseteq Int
            BY <1>1, <1>2, <3>1, <5>1
          <6>3. PICK x \in Int, y \in Int, j \in Int, z \in Int, l \in Int :
                   x = now /\ y = n /\ j = k /\ z = MaxBars /\ l = Lookback
            BY <6>2
          <6>4. 1 <= j /\ j <= y - l /\ j <= y /\ y <= x /\ x <= z
            <7>1. 1 <= j /\ j <= e /\ e <= y - l /\ j <= y /\ y <= x /\ x <= z
              BY <5>1, <6>1, <6>3
            <7>2. PICK i \in Int : i = e
              BY <6>2
            <7> QED
              BY <7>1, <7>2
          <6>5. x - y + j \in Int /\ x - y + j <= x - l
            BY <6>4
          <6>6. 1 <= x - y + j
            BY <6>4
          <6> QED
            BY <6>1, <6>3, <6>5, <6>6
        <5> QED
          BY <3>2, <5>2 DEF InSight, OfSession
      <4> QED
        BY <1>2, <2>1, <4>1, SuffixShows DEF n
    <3>3. ASSUME NEW a \in New
          PROVE  /\ a.ts = now /\ a.day = DayOf[now]
                 /\ InSight(now) => Shown(h, a)
                 /\ InSight(now) => \A old \in asked : old.day = a.day => old.side # a.side
      <4>1. PICK b \in Breakouts : a = [ts |-> now, day |-> DayOf[now], side |-> b.side]
        BY DEF New
      <4>2. /\ Shown(w, a)
            /\ \A old : old.day = a.day /\ old.side = a.side /\ old.ts # a.ts => ~Shown(w, old)
        BY <1>2, <3>1, <4>1, BreakoutIsNew DEF Breakouts, w
      <4>3. ASSUME NEW old \in asked, old.day = a.day, old.side = a.side, InSight(now) PROVE FALSE
        <5>1. Shown(h, old)
          BY <1>3, <3>1, <4>1, <4>3
        <5>2. old.ts # a.ts
          BY <1>1, <1>3, <4>1
        <5> QED
          BY <3>2, <4>1, <4>2, <4>3, <5>1, <5>2
      <4> QED
        BY <3>2, <4>1, <4>2, <4>3
    <3> HIDE DEF New
    <3>4. \A a \in asked' : a \in asked \/ a \in New
      BY <1>1
    <3>5. ASSUME NEW a \in asked', NEW b \in asked',
                 a.day = b.day, a.side = b.side, a.ts < b.ts
          PROVE  ~InSight(b.ts)
      <4>1. CASE a \in asked /\ b \in asked
        BY <1>3, <3>5, <4>1 DEF NoRepeatInSight
      <4>2. CASE a \in asked /\ b \in New
        BY <3>3, <3>5, <4>2
      <4>3. CASE a \in New
        <5>1. a.ts = now /\ b.ts <= now /\ b.ts \in Int /\ now \in Int
          <6>1. b \in New => b.ts = now
            BY <3>3
          <6>2. b \in asked => b.ts \in 1..now
            BY <1>3
          <6>3. now \in Int
            BY <1>1
          <6> QED
            BY <3>3, <3>4, <4>3, <6>1, <6>2, <6>3
        <5> QED
          BY <3>5, <5>1
      <4> QED
        BY <3>4, <4>1, <4>2, <4>3
    <3>a. ASSUME NEW t \in now..MaxBars, DayOf[t] = DayOf[now], InSight(t) PROVE InSight(now)
      <4>1. t \in Int /\ now <= t /\ now \in Int /\ Lookback \in Int
        BY <1>1
      <4>2. \A s \in 1..(now - Lookback) : s \in 1..(t - Lookback)
        BY <4>1
      <4> QED
        BY <3>a, <4>2 DEF InSight
    <3>6. \A a \in asked' : /\ a.day = DayOf[a.ts] /\ a.ts \in 1..now
                            /\ \A t \in now..MaxBars :
                                 DayOf[t] = a.day /\ InSight(t) => Shown(h, a)
      <4> SUFFICES ASSUME NEW a \in asked'
                   PROVE  /\ a.day = DayOf[a.ts] /\ a.ts \in 1..now
                          /\ \A t \in now..MaxBars :
                               DayOf[t] = a.day /\ InSight(t) => Shown(h, a)
        OBVIOUS
      <4>1. CASE a \in asked
        BY <1>3, <4>1
      <4>2. CASE a \in New
        <5>1. a.ts = now /\ a.day = DayOf[now] /\ (InSight(now) => Shown(h, a))
          BY <3>3, <4>2
        <5>2. now \in 1..now
          BY <3>1
        <5> QED
          BY <3>a, <5>1, <5>2
      <4> QED
        BY <3>4, <4>1, <4>2
    <3>7. HasHistory'
      BY <1>5 DEF HasHistory, MultiSymbol
    <3>8. /\ Len(h) <= now /\ Len(h) <= Lookback + 1
          /\ \A k \in 1..Len(h) : h[k].ts = now - Len(h) + k
      BY <1>3 DEF n
    <3> HIDE DEF h
    <3>9. UNCHANGED <<now, history, strategy>> /\ phase' # "open" /\ h' = h
      BY <1>1 DEF h
    <3>b. ASSUME NEW a \in asked'
          PROVE  /\ a.day = DayOf[a.ts] /\ a.ts \in 1..now'
                 /\ \A t \in now'..MaxBars : DayOf[t] = a.day /\ InSight(t) => Shown(h, a)
      BY <3>6, <3>9
    <3>c. NoRepeatInSight'
      BY <3>5 DEF NoRepeatInSight
    <3> QED
      BY <3>7, <3>8, <3>9, <3>b, <3>c DEF RememberingInv, h
  <2> QED
    BY <2>3, <2>4
<1> QED
  BY <1>4, <1>5

(* Where no bar is missing, orb_5m repeats a signal of a session only once  *)
(* its window no longer reaches back to the session's start                 *)
(* (orb_5m.py:119-132), however long sessions and window are.               *)
THEOREM SignalsNotRepeatedInSight ==
    ASSUME ~Gaps
    PROVE  StrategySpec => []NoRepeatInSight
<1>1. StrategyInit => RememberingInv
  <2> SUFFICES ASSUME StrategyInit PROVE RememberingInv
    OBVIOUS
  <2>1. /\ history[Symbol] = <<>> /\ asked = {} /\ now = 0
        /\ Lookback \in Nat
    BY InstrumentKinds, BacktestAssumption DEF StrategyInit, Init, LoopInit, BacktestAssumption
  <2>2. Len(history[Symbol]) = 0
    BY <2>1
  <2> QED
    BY <2>1, <2>2 DEF RememberingInv, NoRepeatInSight
<1>2. RunInv /\ RememberingInv /\ [StrategyNext]_<<vars, strategyVars>> => RememberingInv'
  <2> SUFFICES ASSUME RunInv, RememberingInv, [StrategyNext]_<<vars, strategyVars>>
               PROVE  RememberingInv'
    OBVIOUS
  <2>1. strategy' = strategy
    BY DEF StrategyNext, StrategyLoopStep, StrategySnapshot, StrategyStep, AnyStep, strategyVars
  <2>2. CASE strategy # "orb_5m"
    BY <2>1, <2>2 DEF RememberingInv
  <2>3. CASE strategy = "orb_5m" /\ StrategySnapshot
    BY <2>3, SnapshotRemembers
  <2>4. CASE strategy = "orb_5m" /\ StrategyStep
    BY <2>4, StepRemembers
  <2>5. CASE strategy = "orb_5m" /\ ~StrategySnapshot /\ ~StrategyStep
    <3>1. UNCHANGED <<history, asked, now>> /\ (phase' = "open" => phase = "open")
      BY <2>5 DEF StrategyNext, StrategyLoopStep, AnyStep, Elsewhere, FillOrder, RejectOrder,
                  EvaluateStop, DropStop, SkipEntryBar, TrailStop, ExitStop, MarkStep,
                  SettleExpired, EndStep, Finish, Returned, vars, loopVars, strategyVars
    <3> QED
      BY <2>1, <3>1 DEF RememberingInv, NoRepeatInSight, HasHistory, MultiSymbol
  <2> QED
    BY <2>2, <2>3, <2>4, <2>5
<1>3. RememberingInv /\ (strategy # "orb_5m" => asked = {}) => NoRepeatInSight
  BY DEF RememberingInv, NoRepeatInSight
<1>4. StrategyInit => (strategy # "orb_5m" => asked = {})
  BY DEF StrategyInit
<1>5. (strategy # "orb_5m" => asked = {}) /\ [StrategyNext]_<<vars, strategyVars>>
        => (strategy # "orb_5m" => asked = {})'
  BY DEF StrategyNext, StrategyLoopStep, StrategySnapshot, StrategyStep, AnyStep, strategyVars
<1> QED
  BY <1>1, <1>2, <1>3, <1>4, <1>5, RunInvariant, PTL DEF StrategySpec
=============================================================================
