--------------------------- MODULE PortfolioProofs ---------------------------
(***************************************************************************)
(* Theorems about Portfolio for every choice of instruments, prices,       *)
(* quantities, fees and bounds.  The inductive invariant is the type       *)
(* invariant together with AttributionReconciles; the lemmas are stated    *)
(* per operation and over unbounded integers, for modules that compose     *)
(* those operations to cite them for their own next-state relations.       *)
(* Equity is a matter of sums over the instruments, which are folds: their *)
(* lemmas are proved by induction on the set.                              *)
(***************************************************************************)
EXTENDS Portfolio, FiniteSetTheorems, WellFoundedInduction, TLAPS

AccountInv == AccountTypeOK /\ AttributionReconciles

-----------------------------------------------------------------------------
(* Arithmetic, stripped of functions and records. *)

(* Adding at the weighted average leaves the balance of cash, cost and PnL *)
(* as it was.                                                              *)
LEMMA AverageKeepsBalance ==
    ASSUME NEW f \in Int, NEW q \in Int, NEW a \in Int, NEW b \in Int,
           NEW s \in Int, NEW p \in Int, NEW m \in Int, NEW c \in Int,
           f + q * a * m = b,
           c * (q + s) = q * a + s * p
    PROVE  (f - s * p * m) + (q + s) * c * m = b
<1>1. (q + s) * c * m = (c * (q + s)) * m
  OBVIOUS
<1>2. (q + s) * c * m = (q * a + s * p) * m
  BY <1>1
<1>3. (q * a + s * p) * m = q * a * m + s * p * m
  OBVIOUS
<1> QED
  BY <1>2, <1>3

(* Closing n units of a long (short) position books exactly what the cash  *)
(* received exceeds the cost given up.                                     *)
LEMMA CloseKeepsBalance ==
    ASSUME NEW f \in Int, NEW q \in Int, NEW a \in Int, NEW b \in Int,
           NEW s \in Int, NEW p \in Int, NEW m \in Int,
           f + q * a * m = b
    PROVE  (f - s * p * m) + (q + s) * a * m = b + (p - a) * (-s) * m
<1>1. (q + s) * a * m = q * a * m + s * a * m
  OBVIOUS
<1>2. (p - a) * (-s) * m = s * a * m - s * p * m
  OBVIOUS
<1> QED
  BY <1>1, <1>2

-----------------------------------------------------------------------------
(* apply_fill: each of its three branches, then the whole operation.       *)

LEMMA SignedType ==
    ASSUME NEW side \in Sides, NEW qty \in Nat \ {0}
    PROVE  Signed(side, qty) \in Int /\ Signed(side, qty) # 0
  BY DEF Signed, Sides

(* What the type invariant says of one instrument. *)
LEMMA InstrumentTypes ==
    ASSUME AccountTypeOK, NEW i \in Instruments
    PROVE  /\ positions[i] \in Position
           /\ positions[i].qty \in Int /\ positions[i].avg \in Int
           /\ Multiplier[i] \in Nat \ {0} /\ Multiplier[i] \in Int
           /\ flow[i] \in Int /\ booked[i] \in Int
<1>1. positions[i] \in Position
  BY DEF AccountTypeOK
<1>2. positions[i].qty \in Int /\ positions[i].avg \in Int
  BY <1>1 DEF Position
<1>3. flow[i] \in Int /\ booked[i] \in Int
  BY DEF AccountTypeOK
<1>4. Multiplier[i] \in Nat \ {0}
  BY PortfolioAssumption
<1> QED
  BY <1>1, <1>2, <1>3, <1>4

LEMMA OpenFill ==
    ASSUME AccountInv, NEW i \in Instruments, NEW s \in Int, NEW price \in Int,
           Open(i, s, price), flow' = [flow EXCEPT ![i] = @ - s * price * Multiplier[i]]
    PROVE  /\ positions' \in [Instruments -> Position]
           /\ flow' \in [Instruments -> Int]
           /\ realized' \in Int /\ booked' \in [Instruments -> Int]
           /\ distorted' \subseteq Instruments
           /\ AttributionReconciles'
<1>1. price \in Int /\ Multiplier[i] \in Int /\ flow[i] \in Int
  BY InstrumentTypes DEF AccountInv
<1>2. /\ positions' \in [Instruments -> Position]
      /\ flow' \in [Instruments -> Int]
      /\ realized' \in Int /\ booked' \in [Instruments -> Int]
      /\ distorted' \subseteq Instruments
  <2>1. [qty |-> s, avg |-> price] \in Position
    BY DEF Position
  <2>2. positions' \in [Instruments -> Position]
    BY <2>1 DEF AccountInv, AccountTypeOK, Open
  <2>3. flow' \in [Instruments -> Int]
    BY <1>1 DEF AccountInv, AccountTypeOK
  <2> QED
    BY <2>2, <2>3 DEF AccountInv, AccountTypeOK, Open
<1>3. ASSUME NEW j \in Instruments \ distorted'
      PROVE  flow'[j] + CostBasis(j, positions') = booked'[j]
  <2>1. j \in Instruments \ distorted /\ flow[j] + CostBasis(j, positions) = booked[j]
    BY <1>3 DEF AccountInv, AttributionReconciles, Open
  <2>2. CASE j = i
    <3>1. /\ flow'[i] = flow[i] - s * price * Multiplier[i]
          /\ positions'[i].qty = s /\ positions'[i].avg = price
          /\ booked'[i] = booked[i] /\ positions[i].qty = 0
      BY DEF AccountInv, AccountTypeOK, Open
    <3>2. flow[i] \in Int /\ booked[i] \in Int /\ Multiplier[i] \in Int /\ positions[i].avg \in Int
      BY InstrumentTypes DEF AccountInv
    <3>3. flow[i] = booked[i]
      BY <2>1, <2>2, <3>1, <3>2 DEF CostBasis
    <3> QED
      BY <1>1, <2>2, <3>1, <3>2, <3>3 DEF CostBasis
  <2>3. CASE j # i
    BY <2>1, <2>3 DEF AccountInv, AccountTypeOK, Open, CostBasis
  <2> QED
    BY <2>2, <2>3
<1> QED
  BY <1>2, <1>3 DEF AttributionReconciles

LEMMA AddFill ==
    ASSUME AccountInv, NEW i \in Instruments, NEW s \in Int, NEW price \in Int,
           AddToPosition(i, s, price), flow' = [flow EXCEPT ![i] = @ - s * price * Multiplier[i]]
    PROVE  /\ positions' \in [Instruments -> Position]
           /\ flow' \in [Instruments -> Int]
           /\ realized' \in Int /\ booked' \in [Instruments -> Int]
           /\ distorted' \subseteq Instruments
           /\ AttributionReconciles'
<1> USE PortfolioAssumption
<1>1. MinPrice..MaxPrice \subseteq Int
  OBVIOUS
<1>2. PICK avg \in MinPrice..MaxPrice :
        /\ avg * (positions[i].qty + s) = positions[i].qty * positions[i].avg + s * price
        /\ positions' = [positions EXCEPT ![i] = [qty |-> positions[i].qty + s, avg |-> avg]]
  BY DEF AddToPosition
<1>3. /\ positions[i].qty \in Int /\ positions[i].avg \in Int /\ Multiplier[i] \in Int
      /\ flow[i] \in Int /\ booked[i] \in Int
  BY InstrumentTypes DEF AccountInv
<1>4. /\ positions' \in [Instruments -> Position]
      /\ flow' \in [Instruments -> Int]
      /\ realized' \in Int /\ booked' \in [Instruments -> Int]
      /\ distorted' \subseteq Instruments
  BY <1>1, <1>2, <1>3 DEF AccountInv, AccountTypeOK, AddToPosition, Position
<1>5. ASSUME NEW j \in Instruments \ distorted'
      PROVE  flow'[j] + CostBasis(j, positions') = booked'[j]
  <2>1. j \in Instruments \ distorted /\ flow[j] + CostBasis(j, positions) = booked[j]
    BY <1>5 DEF AccountInv, AttributionReconciles, AddToPosition
  <2>2. CASE j = i
    <3>1. flow[i] + positions[i].qty * positions[i].avg * Multiplier[i] = booked[i]
      BY <2>1, <2>2 DEF CostBasis
    <3>2. (flow[i] - s * price * Multiplier[i])
             + (positions[i].qty + s) * avg * Multiplier[i] = booked[i]
      BY <1>1, <1>2, <1>3, <3>1, AverageKeepsBalance
    <3>3. /\ flow'[i] = flow[i] - s * price * Multiplier[i]
          /\ positions'[i].qty = positions[i].qty + s
          /\ positions'[i].avg = avg
          /\ booked'[i] = booked[i]
      BY <1>2 DEF AccountInv, AccountTypeOK, AddToPosition
    <3> QED
      BY <2>2, <3>2, <3>3 DEF CostBasis
  <2>3. CASE j # i
    BY <1>2, <2>1, <2>3 DEF AccountInv, AccountTypeOK, AddToPosition, CostBasis
  <2> QED
    BY <2>2, <2>3
<1> QED
  BY <1>4, <1>5 DEF AttributionReconciles

(* What a close books: the closed quantity, signed against the position, is *)
(* the fill's own quantity as long as the fill does not flip it.            *)
LEMMA GainOfClose ==
    ASSUME NEW p \in Position, NEW s \in Int, NEW price \in Int,
           p.qty # 0, s # 0, ~SameDirection(p.qty, s), ~Flips(p.qty, s)
    PROVE  Gain(p, price, ClosedQty(p.qty, s)) = (price - p.avg) * (-s)
<1> USE PortfolioAssumption
<1>0. p.qty \in Int /\ p.avg \in Int
  BY DEF Position
<1>1. CASE p.qty > 0
  <2>1. s < 0 /\ ClosedQty(p.qty, s) = -s
    BY <1>0, <1>1 DEF SameDirection, Flips, ClosedQty, Lesser, Magnitude
  <2> QED
    BY <1>0, <1>1, <2>1 DEF Gain
<1>2. CASE p.qty < 0
  <2>1. s > 0 /\ ClosedQty(p.qty, s) = s
    BY <1>0, <1>2 DEF SameDirection, Flips, ClosedQty, Lesser, Magnitude
  <2>2. Gain(p, price, ClosedQty(p.qty, s)) = (p.avg - price) * s
    BY <1>0, <1>2, <2>1 DEF Gain
  <2>3. (p.avg - price) * s = (price - p.avg) * (-s)
    BY <1>0
  <2> QED
    BY <2>2, <2>3
<1> QED
  BY <1>0, <1>1, <1>2

LEMMA ReduceFill ==
    ASSUME AccountInv, NEW i \in Instruments, NEW s \in Int, NEW price \in Int,
           s # 0, Reduce(i, s, price),
           flow' = [flow EXCEPT ![i] = @ - s * price * Multiplier[i]]
    PROVE  /\ positions' \in [Instruments -> Position]
           /\ flow' \in [Instruments -> Int]
           /\ realized' \in Int /\ booked' \in [Instruments -> Int]
           /\ distorted' \subseteq Instruments
           /\ AttributionReconciles'
<1> DEFINE p == positions[i]
           gain == Gain(p, price, ClosedQty(p.qty, s)) * Multiplier[i]
           rest == IF p.qty + s = 0 THEN Flat ELSE [qty |-> p.qty + s, avg |-> p.avg]
<1>1. /\ p \in Position /\ p.qty \in Int /\ p.avg \in Int
      /\ Multiplier[i] \in Int /\ flow[i] \in Int /\ booked[i] \in Int /\ price \in Int
  BY InstrumentTypes DEF AccountInv
<1>2. /\ positions' = [positions EXCEPT ![i] = rest]
      /\ realized' = realized + gain
      /\ booked' = [booked EXCEPT ![i] = @ + gain]
      /\ distorted' = distorted \cup (IF Flips(p.qty, s) /\ price # p.avg THEN {i} ELSE {})
      /\ p.qty # 0 /\ ~SameDirection(p.qty, s)
  BY DEF Reduce
<1>3. gain \in Int
  <2>1. ClosedQty(p.qty, s) \in Int
    BY <1>1 DEF ClosedQty, Lesser, Magnitude
  <2>2. Gain(p, price, ClosedQty(p.qty, s)) \in Int
    BY <1>1, <2>1 DEF Gain
  <2> QED
    BY <1>1, <2>2
<1>4. rest \in Position
  BY <1>1 DEF Flat, Position
<1>5. /\ positions' \in [Instruments -> Position]
      /\ flow' \in [Instruments -> Int]
      /\ realized' \in Int /\ booked' \in [Instruments -> Int]
      /\ distorted' \subseteq Instruments
  <2> HIDE DEF gain, rest
  <2>1. positions' \in [Instruments -> Position]
    BY <1>2, <1>4 DEF AccountInv, AccountTypeOK
  <2>2. flow' \in [Instruments -> Int]
    BY <1>1 DEF AccountInv, AccountTypeOK
  <2>3. realized' \in Int /\ booked' \in [Instruments -> Int]
    BY <1>2, <1>3 DEF AccountInv, AccountTypeOK
  <2> QED
    BY <1>2, <2>1, <2>2, <2>3 DEF AccountInv, AccountTypeOK
<1>6. ASSUME NEW j \in Instruments \ distorted'
      PROVE  flow'[j] + CostBasis(j, positions') = booked'[j]
  <2>1. j \in Instruments \ distorted /\ flow[j] + CostBasis(j, positions) = booked[j]
    BY <1>2, <1>6 DEF AccountInv, AttributionReconciles
  <2>2. CASE j = i
    <3>1. flow[i] + p.qty * p.avg * Multiplier[i] = booked[i]
      BY <2>1, <2>2 DEF CostBasis
    <3>2. CostBasis(i, positions') = (p.qty + s) * p.avg * Multiplier[i]
      <4>1. positions'[i] = rest
        BY <1>2 DEF AccountInv, AccountTypeOK
      <4>2. CASE p.qty + s = 0
        <5>1. positions'[i].qty = 0 /\ positions'[i].avg \in Int
          BY <1>5, <4>1, <4>2 DEF Flat, Position
        <5> QED
          BY <1>1, <4>2, <5>1 DEF CostBasis
      <4>3. CASE p.qty + s # 0
        BY <4>1, <4>3 DEF CostBasis
      <4> QED
        BY <4>2, <4>3
    <3>3. gain = (price - p.avg) * (-s) * Multiplier[i]
      <4>1. CASE ~Flips(p.qty, s)
        BY <1>1, <1>2, <4>1, GainOfClose
      <4>2. CASE Flips(p.qty, s)
        <5>1. price = p.avg
          BY <1>2, <1>6, <2>2, <4>2
        <5>2. Gain(p, price, ClosedQty(p.qty, s)) = 0
          BY <1>1, <5>1 DEF Gain, ClosedQty, Lesser, Magnitude
        <5> QED
          BY <1>1, <5>1, <5>2
      <4> QED
        BY <4>1, <4>2
    <3>4. /\ flow'[i] = flow[i] - s * price * Multiplier[i]
          /\ booked'[i] = booked[i] + gain
      <4> HIDE DEF gain
      <4> QED
        BY <1>2 DEF AccountInv, AccountTypeOK
    <3>5. (flow[i] - s * price * Multiplier[i]) + (p.qty + s) * p.avg * Multiplier[i]
             = booked[i] + (price - p.avg) * (-s) * Multiplier[i]
      <4> DEFINE q == p.qty
                 a == p.avg
                 m == Multiplier[i]
                 f == flow[i]
                 b == booked[i]
      <4>1. /\ q \in Int /\ a \in Int /\ m \in Int /\ f \in Int /\ b \in Int
            /\ f + q * a * m = b
        BY <1>1, <3>1
      <4>2. (f - s * price * m) + (q + s) * a * m = b + (price - a) * (-s) * m
        <5> HIDE DEF q, a, m, f, b
        <5> QED
          BY <1>1, <4>1, CloseKeepsBalance
      <4> QED
        BY <4>2
    <3> QED
      BY <2>2, <3>2, <3>3, <3>4, <3>5
  <2>3. CASE j # i
    <3> HIDE DEF gain, rest
    <3> QED
      BY <1>2, <2>1, <2>3 DEF AccountInv, AccountTypeOK, CostBasis
  <2> QED
    BY <2>2, <2>3
<1> QED
  BY <1>5, <1>6 DEF AttributionReconciles

(* apply_fill as a whole, at any price and any fee. *)
LEMMA ApplyFillKeepsInv ==
    ASSUME AccountInv, NEW i \in Instruments, NEW side \in Sides, NEW qty \in Nat \ {0},
           NEW price \in Int, NEW fee \in Int,
           ApplyFill(i, side, qty, price, fee)
    PROVE  AccountInv'
<1> DEFINE s == Signed(side, qty)
<1>1. s \in Int /\ s # 0
  BY SignedType
<1>2. /\ positions' \in [Instruments -> Position]
      /\ flow' \in [Instruments -> Int]
      /\ realized' \in Int /\ booked' \in [Instruments -> Int]
      /\ distorted' \subseteq Instruments
      /\ AttributionReconciles'
  <2>1. flow' = [flow EXCEPT ![i] = @ - s * price * Multiplier[i]]
    BY DEF ApplyFill
  <2>2. Open(i, s, price) \/ AddToPosition(i, s, price) \/ Reduce(i, s, price)
    BY DEF ApplyFill
  <2> HIDE DEF s
  <2> QED
    BY <1>1, <2>1, <2>2, OpenFill, AddFill, ReduceFill
<1>3. cash' \in Int /\ feesPaid' \in Int
  <2>1. /\ cash' = cash - s * price * Multiplier[i] - fee
        /\ feesPaid' = feesPaid + fee
    BY DEF ApplyFill
  <2>2. price \in Int /\ Multiplier[i] \in Int /\ cash \in Int /\ feesPaid \in Int
    BY InstrumentTypes DEF AccountInv, AccountTypeOK
  <2> HIDE DEF s
  <2> QED
    BY <1>1, <2>1, <2>2
<1> QED
  BY <1>2, <1>3 DEF AccountInv, AccountTypeOK

-----------------------------------------------------------------------------
(* Settlement: closing the whole position at a price.                      *)

LEMMA GainOfSettlement ==
    ASSUME NEW p \in Position, NEW price \in Int, p.qty # 0
    PROVE  Gain(p, price, Magnitude(p.qty)) = (price - p.avg) * p.qty
<1>0. p.qty \in Int /\ p.avg \in Int
  BY DEF Position
<1>1. CASE p.qty > 0
  BY <1>0, <1>1 DEF Gain, Magnitude
<1>2. CASE p.qty < 0
  <2>1. Gain(p, price, Magnitude(p.qty)) = (p.avg - price) * (-p.qty)
    BY <1>0, <1>2 DEF Gain, Magnitude
  <2> QED
    BY <1>0, <2>1
<1> QED
  BY <1>0, <1>1, <1>2

LEMMA FlatIsPosition ==
    Flat \in Position /\ Flat.qty = 0 /\ Flat.avg \in Int
  BY DEF Flat, Position

LEMMA SettlePositionKeepsInv ==
    ASSUME AccountInv, NEW i \in Instruments, NEW price \in Int, SettlePosition(i, price)
    PROVE  AccountInv'
<1> DEFINE p == positions[i]
           m == Multiplier[i]
           gain == Gain(p, price, Magnitude(p.qty)) * m
<1>1. /\ p \in Position /\ p.qty \in Int /\ p.avg \in Int
      /\ m \in Int /\ flow[i] \in Int /\ booked[i] \in Int
  BY InstrumentTypes DEF AccountInv
<1>2. /\ p.qty # 0
      /\ cash' = cash + p.qty * price * m
      /\ flow' = [flow EXCEPT ![i] = @ + p.qty * price * m]
      /\ realized' = realized + gain
      /\ booked' = [booked EXCEPT ![i] = @ + gain]
      /\ positions' = [positions EXCEPT ![i] = Flat]
      /\ feesPaid' = feesPaid /\ distorted' = distorted
  BY DEF SettlePosition
<1>3. gain = (price - p.avg) * p.qty * m /\ gain \in Int
  BY <1>1, <1>2, GainOfSettlement
<1>4. Flat \in Position /\ Flat.qty = 0 /\ Flat.avg \in Int
  BY FlatIsPosition
<1>5. AccountTypeOK'
  <2>1. p.qty * price * m \in Int
    BY <1>1
  <2> HIDE DEF p, m, gain
  <2>2. cash' \in Int /\ realized' \in Int /\ feesPaid' \in Int
    BY <1>2, <1>3, <2>1 DEF AccountInv, AccountTypeOK
  <2>3. flow' \in [Instruments -> Int] /\ booked' \in [Instruments -> Int]
    BY <1>2, <1>3, <2>1 DEF AccountInv, AccountTypeOK
  <2>4. positions' \in [Instruments -> Position] /\ distorted' \subseteq Instruments
    BY <1>2, <1>4 DEF AccountInv, AccountTypeOK
  <2> QED
    BY <2>2, <2>3, <2>4 DEF AccountTypeOK
<1>6. ASSUME NEW j \in Instruments \ distorted'
      PROVE  flow'[j] + CostBasis(j, positions') = booked'[j]
  <2>1. j \in Instruments \ distorted /\ flow[j] + CostBasis(j, positions) = booked[j]
    BY <1>2, <1>6 DEF AccountInv, AttributionReconciles
  <2>2. CASE j = i
    <3>1. flow[i] + p.qty * p.avg * m = booked[i]
      BY <2>1, <2>2 DEF CostBasis
    <3>2. /\ flow'[i] = flow[i] + p.qty * price * m
          /\ booked'[i] = booked[i] + gain
          /\ positions'[i] = Flat
      <4> HIDE DEF p, m, gain
      <4> QED
        BY <1>2 DEF AccountInv, AccountTypeOK
    <3>3. CostBasis(i, positions') = 0
      BY <1>1, <1>4, <3>2 DEF CostBasis
    <3>4. p.qty * price * m = (price - p.avg) * p.qty * m + p.qty * p.avg * m
      BY <1>1
    <3>5. /\ p.qty * price * m \in Int /\ p.qty * p.avg * m \in Int
          /\ (price - p.avg) * p.qty * m \in Int
      BY <1>1
    <3> HIDE DEF p, m, gain
    <3> QED
      BY <1>1, <1>3, <2>2, <3>1, <3>2, <3>3, <3>4, <3>5
  <2>3. CASE j # i
    <3> HIDE DEF p, m, gain
    <3> QED
      BY <1>2, <2>1, <2>3 DEF AccountInv, AccountTypeOK, CostBasis
  <2> QED
    BY <2>2, <2>3
<1> QED
  BY <1>5, <1>6 DEF AccountInv, AttributionReconciles

(* Physical assignment: the share leg balances at any strike; the option leg *)
(* balances when it is settled at no intrinsic value, and counts as distorted *)
(* otherwise.                                                                *)
LEMMA SettlePhysicalKeepsInv ==
    ASSUME AccountInv, NEW opt \in Instruments, NEW sym \in Instruments,
           NEW strike \in Int, NEW intrinsic \in Int, Multiplier[sym] = 1,
           SettlePhysical(opt, sym, strike, intrinsic)
    PROVE  AccountInv'
<1> DEFINE o == positions[opt]
           u == positions[sym]
           n == Multiplier[opt]
           left == u.qty - n
           rest == IF left = 0 THEN Flat ELSE [qty |-> left, avg |-> u.avg]
           shareGain == (strike - u.avg) * n
           optionGain == (o.avg - intrinsic) * Magnitude(o.qty) * n
<1>1. /\ o \in Position /\ o.qty \in Int /\ o.avg \in Int
      /\ u \in Position /\ u.qty \in Int /\ u.avg \in Int
      /\ n \in Int /\ flow[opt] \in Int /\ booked[opt] \in Int
      /\ flow[sym] \in Int /\ booked[sym] \in Int
  BY InstrumentTypes DEF AccountInv
<1>2. /\ opt # sym /\ o.qty < 0
      /\ positions' = [positions EXCEPT ![opt] = Flat, ![sym] = rest]
      /\ cash' = cash + strike * n
      /\ flow' = [flow EXCEPT ![sym] = @ + strike * n]
      /\ realized' = realized + shareGain + optionGain
      /\ booked' = [booked EXCEPT ![sym] = @ + shareGain, ![opt] = @ + optionGain]
      /\ distorted' = distorted \cup (IF intrinsic # 0 THEN {opt} ELSE {})
      /\ feesPaid' = feesPaid
  BY DEF SettlePhysical, Deliverable
<1>3. strike * n \in Int /\ shareGain \in Int /\ optionGain \in Int
  <2>1. Magnitude(o.qty) \in Int
    BY <1>1 DEF Magnitude
  <2> QED
    BY <1>1, <2>1
<1>4. Flat \in Position /\ Flat.qty = 0 /\ Flat.avg \in Int /\ rest \in Position
  <2>1. Flat \in Position /\ Flat.qty = 0 /\ Flat.avg \in Int
    BY FlatIsPosition
  <2>2. [qty |-> left, avg |-> u.avg] \in Position
    BY <1>1 DEF Position
  <2> QED
    BY <2>1, <2>2
<1>5. AccountTypeOK'
  <2> HIDE DEF o, u, n, left, rest, shareGain, optionGain
  <2>1. cash' \in Int /\ realized' \in Int /\ feesPaid' \in Int
    BY <1>2, <1>3 DEF AccountInv, AccountTypeOK
  <2>2. flow' \in [Instruments -> Int]
    BY <1>2, <1>3 DEF AccountInv, AccountTypeOK
  <2>3. booked' \in [Instruments -> Int]
    BY <1>2, <1>3 DEF AccountInv, AccountTypeOK
  <2>4. positions' \in [Instruments -> Position] /\ distorted' \subseteq Instruments
    BY <1>2, <1>4 DEF AccountInv, AccountTypeOK
  <2> QED
    BY <2>1, <2>2, <2>3, <2>4 DEF AccountTypeOK
<1>6. ASSUME NEW j \in Instruments \ distorted'
      PROVE  flow'[j] + CostBasis(j, positions') = booked'[j]
  <2>1. j \in Instruments \ distorted /\ flow[j] + CostBasis(j, positions) = booked[j]
    BY <1>2, <1>6 DEF AccountInv, AttributionReconciles
  <2>2. CASE j = sym
    <3>1. flow[sym] + u.qty * u.avg = booked[sym]
      BY <1>1, <2>1, <2>2 DEF CostBasis
    <3>2. /\ flow'[sym] = flow[sym] + strike * n
          /\ booked'[sym] = booked[sym] + shareGain
          /\ positions'[sym] = rest
      <4> HIDE DEF o, u, n, left, rest, shareGain, optionGain
      <4> QED
        BY <1>2 DEF AccountInv, AccountTypeOK
    <3>3. CostBasis(sym, positions') = left * u.avg
      <4>1. CASE left = 0
        BY <1>1, <1>4, <3>2, <4>1 DEF CostBasis
      <4>2. CASE left # 0
        BY <1>1, <3>2, <4>2 DEF CostBasis
      <4> QED
        BY <4>1, <4>2
    <3>4. strike * n + left * u.avg = shareGain + u.qty * u.avg
      BY <1>1
    <3>5. left * u.avg \in Int /\ u.qty * u.avg \in Int
      BY <1>1
    <3> DEFINE x == strike * n
               c == left * u.avg
               d == u.qty * u.avg
    <3>6. /\ x \in Int /\ c \in Int /\ d \in Int
          /\ flow[sym] + d = booked[sym] /\ x + c = shareGain + d
          /\ flow'[sym] = flow[sym] + x /\ CostBasis(sym, positions') = c
      BY <1>3, <3>1, <3>2, <3>3, <3>4, <3>5
    <3>7. flow[sym] \in Int /\ booked[sym] \in Int /\ shareGain \in Int
      BY <1>1, <1>3
    <3> HIDE DEF u, n, left, shareGain, x, c, d
    <3>8. flow'[sym] + CostBasis(sym, positions') = booked'[sym]
      BY <3>2, <3>6, <3>7
    <3> QED
      BY <2>2, <3>8
  <2>3. CASE j = opt
    <3>1. intrinsic = 0
      BY <1>2, <1>6, <2>3
    <3>2. flow[opt] + o.qty * o.avg * n = booked[opt]
      BY <2>1, <2>3 DEF CostBasis
    <3>3. /\ flow'[opt] = flow[opt]
          /\ booked'[opt] = booked[opt] + optionGain
          /\ positions'[opt] = Flat
      <4> HIDE DEF o, u, n, left, rest, shareGain, optionGain
      <4> QED
        BY <1>2 DEF AccountInv, AccountTypeOK
    <3>4. CostBasis(opt, positions') = 0
      BY <1>1, <1>4, <3>3 DEF CostBasis
    <3>5. optionGain = o.avg * (-o.qty) * n
      BY <1>1, <1>2, <3>1 DEF Magnitude
    <3>6. o.qty * o.avg * n = -(o.avg * (-o.qty) * n) /\ o.qty * o.avg * n \in Int
      BY <1>1
    <3> HIDE DEF o, n, optionGain
    <3> QED
      BY <1>1, <1>3, <2>3, <3>2, <3>3, <3>4, <3>5, <3>6
  <2>4. CASE j # sym /\ j # opt
    <3> HIDE DEF o, u, n, left, rest, shareGain, optionGain
    <3> QED
      BY <1>2, <2>1, <2>4 DEF AccountInv, AccountTypeOK, CostBasis
  <2> QED
    BY <2>2, <2>3, <2>4
<1> QED
  BY <1>5, <1>6 DEF AccountInv, AttributionReconciles

-----------------------------------------------------------------------------
LEMMA AccountInitInv == AccountInit => AccountInv
  BY PortfolioAssumption
     DEF AccountInit, AccountInv, AccountTypeOK, AttributionReconciles, CostBasis, Flat, Position

LEMMA MarkKeepsInv ==
    ASSUME AccountInv, UNCHANGED <<cash, positions, realized, feesPaid, flow, booked, distorted>>
    PROVE  AccountInv'
  BY DEF AccountInv, AccountTypeOK, AttributionReconciles, CostBasis

LEMMA AccountNextKeepsInv == AccountInv /\ [AccountNext]_accountVars => AccountInv'
<1> SUFFICES ASSUME AccountInv, [AccountNext]_accountVars
             PROVE  AccountInv'
  OBVIOUS
<1>1. CASE Fill
  <2>1. PICK i \in Instruments, side \in Sides, qty \in Quantities, price \in Prices, fee \in Fees :
          ApplyFill(i, side, qty, price, fee)
    BY <1>1 DEF Fill
  <2>2. qty \in Nat \ {0} /\ price \in Int /\ fee \in Int
    BY PortfolioAssumption
  <2> QED
    BY <2>1, <2>2, ApplyFillKeepsInv
<1>2. CASE Mark
  BY <1>2, MarkKeepsInv DEF Mark, MarkToMarket
<1>3. CASE Settle
  <2>1. PICK i \in Instruments, price \in Prices : SettlePosition(i, price)
    BY <1>3 DEF Settle
  <2>2. price \in Int
    BY PortfolioAssumption
  <2> QED
    BY <2>1, <2>2, SettlePositionKeepsInv
<1>4. CASE Assign
  <2>1. PICK opt \in Instruments, sym \in Instruments, strike \in Prices, close \in Prices :
          Multiplier[sym] = 1 /\ SettlePhysical(opt, sym, strike, close - strike)
    BY <1>4 DEF Assign
  <2>2. strike \in Int /\ close - strike \in Int
    BY PortfolioAssumption
  <2> QED
    BY <2>1, <2>2, SettlePhysicalKeepsInv
<1>5. CASE UNCHANGED accountVars
  BY <1>5, MarkKeepsInv DEF accountVars
<1> QED
  BY <1>1, <1>2, <1>3, <1>4, <1>5 DEF AccountNext

(* The account is well typed and, instrument by instrument, in balance, in  *)
(* every reachable state of every instance.                                 *)
THEOREM AccountInvariant == AccountSpec => []AccountInv
  BY AccountInitInv, AccountNextKeepsInv, PTL DEF AccountSpec

(* The types of the account (accounting.py) are kept by every operation.    *)
THEOREM AccountTypeCorrect == AccountSpec => []AccountTypeOK
<1>1. AccountInv => AccountTypeOK
  BY DEF AccountInv
<1> QED
  BY <1>1, AccountInvariant, PTL

(* Cash attributed to an instrument plus its cost basis equals the PnL      *)
(* booked on it (accounting.py:40-91, 160-169).                             *)
THEOREM AttributionCorrect == AccountSpec => []AttributionReconciles
<1>1. AccountInv => AttributionReconciles
  BY DEF AccountInv
<1> QED
  BY <1>1, AccountInvariant, PTL

-----------------------------------------------------------------------------
(* An action property: what books PnL brings a position closer to flat, or  *)
(* through it.                                                              *)
LEMMA StepRealizesOnClose ==
    ASSUME AccountInv, [AccountNext]_accountVars, realized' # realized
    PROVE  \E i \in Instruments :
             /\ positions[i].qty # 0
             /\ \/ Magnitude(positions'[i].qty) < Magnitude(positions[i].qty)
                \/ ~(positions'[i].qty > 0 <=> positions[i].qty > 0)
<1>1. CASE Fill
  <2>1. PICK i \in Instruments, side \in Sides, qty \in Quantities, price \in Prices, fee \in Fees :
          ApplyFill(i, side, qty, price, fee)
    BY <1>1 DEF Fill
  <2> DEFINE s == Signed(side, qty)
  <2>2. s \in Int /\ s # 0
    BY SignedType, PortfolioAssumption
  <2>3. Reduce(i, s, price)
    BY <2>1 DEF ApplyFill, Open, AddToPosition
  <2> HIDE DEF s
  <2>4. /\ positions[i].qty # 0 /\ ~SameDirection(positions[i].qty, s)
        /\ positions[i].qty \in Int
        /\ positions'[i].qty = positions[i].qty + s
    <3>1. positions'[i] = IF positions[i].qty + s = 0 THEN Flat
                          ELSE [qty |-> positions[i].qty + s, avg |-> positions[i].avg]
      BY <2>3 DEF Reduce, AccountInv, AccountTypeOK
    <3>2. positions[i].qty \in Int
      BY InstrumentTypes DEF AccountInv
    <3> QED
      BY <2>2, <2>3, <3>1, <3>2, FlatIsPosition DEF Reduce
  <2>5. \/ Magnitude(positions'[i].qty) < Magnitude(positions[i].qty)
        \/ ~(positions'[i].qty > 0 <=> positions[i].qty > 0)
    BY <2>2, <2>4 DEF Magnitude, SameDirection
  <2> QED
    BY <2>4, <2>5
<1>2. CASE Settle
  <2>1. PICK i \in Instruments, price \in Prices : SettlePosition(i, price)
    BY <1>2 DEF Settle
  <2>2. positions[i].qty # 0 /\ positions[i].qty \in Int /\ positions'[i].qty = 0
    BY <2>1, InstrumentTypes, FlatIsPosition DEF SettlePosition, AccountInv, AccountTypeOK
  <2> QED
    BY <2>2 DEF Magnitude
<1>3. CASE Assign
  <2>1. PICK opt \in Instruments, sym \in Instruments, strike \in Prices, close \in Prices :
          SettlePhysical(opt, sym, strike, close - strike)
    BY <1>3 DEF Assign
  <2>2. positions[opt].qty # 0 /\ positions[opt].qty \in Int
    BY <2>1, InstrumentTypes DEF SettlePhysical, Deliverable, AccountInv
  <2>3. positions'[opt] = Flat
    BY <2>1 DEF SettlePhysical, AccountInv, AccountTypeOK
  <2> QED
    BY <2>2, <2>3, FlatIsPosition DEF Magnitude
<1>4. CASE Mark \/ UNCHANGED accountVars
  BY <1>4 DEF Mark, MarkToMarket, accountVars
<1> QED
  BY <1>1, <1>2, <1>3, <1>4 DEF AccountNext

(* Opening, increasing and marking a position never realizes PnL. *)
THEOREM RealizedOnlyOnCloseHolds == AccountSpec => RealizedOnlyOnClose
<1>1. AccountInv /\ [AccountNext]_accountVars =>
        [ realized' # realized =>
            \E i \in Instruments :
               /\ positions[i].qty # 0
               /\ \/ Magnitude(positions'[i].qty) < Magnitude(positions[i].qty)
                  \/ ~(positions'[i].qty > 0 <=> positions[i].qty > 0) ]_accountVars
  BY StepRealizesOnClose
<1> QED
  BY <1>1, AccountInvariant, PTL DEF AccountSpec, RealizedOnlyOnClose

-----------------------------------------------------------------------------
(* Induction.  The theorems of the library take a predicate as an operator, *)
(* which no prover here can instantiate; these two speak of sets instead.   *)

(* A set of numbers with 0 and the successor of each of its members.        *)
LEMMA NatInductionSet ==
    ASSUME NEW N, N \subseteq Nat, 0 \in N, \A n \in N : n + 1 \in N
    PROVE  N = Nat
<1> SUFFICES ASSUME Nat \ N # {} PROVE FALSE
  OBVIOUS
<1> DEFINE less == {r \in Nat \X Nat : r[1] < r[2]}
<1>1. IsWellFoundedOn(less, Nat)
  BY NatLessThanWellFounded DEF OpToRel
<1>2. \E x \in Nat \ N : \A y \in Nat \ N : <<y, x>> \notin less
  <2>1. Nat \ N \subseteq Nat
    OBVIOUS
  <2> HIDE DEF less
  <2> QED
    BY <1>1, <2>1, WFMin
<1>3. PICK x \in Nat \ N : \A y \in Nat \ N : <<y, x>> \notin less
  BY <1>2
<1>4. x # 0 /\ x - 1 \in Nat /\ <<x - 1, x>> \in less
  OBVIOUS
<1>5. x - 1 \in N /\ (x - 1) + 1 = x
  BY <1>3, <1>4
<1> QED
  BY <1>5

(* A family of subsets of a finite set that has every set all of whose      *)
(* proper subsets it has.                                                   *)
LEMMA SubsetInduction ==
    ASSUME NEW A, IsFiniteSet(A), NEW family,
           \A B \in SUBSET A : (\A C \in SUBSET B : C # B => C \in family) => B \in family
    PROVE  \A B \in SUBSET A : B \in family
<1> SUFFICES ASSUME {B \in SUBSET A : B \notin family} # {} PROVE FALSE
  OBVIOUS
<1> DEFINE bad == {B \in SUBSET A : B \notin family}
<1>1. IsWellFoundedOn(StrictSubsetOrdering(A), SUBSET A)
  <2>1. IsWellFoundedOn(StrictSubsetOrdering(A), FiniteSubsetsOf(A))
    BY FS_StrictSubsetOrderingWellFounded
  <2>2. FiniteSubsetsOf(A) = SUBSET A
    BY FS_FiniteSubsetsOfFinite
  <2> QED
    BY <2>1, <2>2
<1>2. \E B \in bad : \A C \in bad : <<C, B>> \notin StrictSubsetOrdering(A)
  <2>1. bad \subseteq SUBSET A /\ bad # {}
    OBVIOUS
  <2> HIDE DEF bad
  <2> QED
    BY <1>1, <2>1, WFMin
<1>3. PICK B \in bad : \A C \in bad : <<C, B>> \notin StrictSubsetOrdering(A)
  BY <1>2
<1>4. \A C \in SUBSET B : C # B => C \in family
  BY <1>3 DEF StrictSubsetOrdering
<1> QED
  BY <1>3, <1>4

-----------------------------------------------------------------------------
(* A fold takes the members of a set one by one, as pick has them, and joins *)
(* each by F to what it has of the rest.  The recursive function on the      *)
(* subsets that does so exists.                                              *)
Folded(F, pick, base, g, s) == IF s = {} THEN base ELSE F[pick[s]][g[s \ {pick[s]}]]
IsFold(g, F, pick, base, A) == g = [s \in SUBSET A |-> Folded(F, pick, base, g, s)]

LEMMA FoldExists ==
    ASSUME NEW A, IsFiniteSet(A), NEW F, NEW base,
           NEW pick, \A s \in SUBSET A : s # {} => pick[s] \in s
    PROVE  \E g : IsFold(g, F, pick, base, A)
<1> DEFINE upTo(n) == {s \in SUBSET A : Cardinality(s) <= n}
           N == {n \in Nat : \E g : g = [s \in upTo(n) |-> Folded(F, pick, base, g, s)]}
<1>1. \A s \in SUBSET A : IsFiniteSet(s) /\ Cardinality(s) \in Nat /\ Cardinality(s) <= Cardinality(A)
  BY FS_Subset, FS_CardinalityType
<1>2. 0 \in N
  <2>1. \A s \in upTo(0) : s = {}
    BY <1>1, FS_EmptySet
  <2>2. [s \in upTo(0) |-> base]
          = [s \in upTo(0) |-> Folded(F, pick, base, [s1 \in upTo(0) |-> base], s)]
    BY <2>1 DEF Folded
  <2> QED
    BY <2>2
<1>3. ASSUME NEW n \in N PROVE n + 1 \in N
  <2>1. PICK g : g = [s \in upTo(n) |-> Folded(F, pick, base, g, s)]
    OBVIOUS
  <2> DEFINE h == [s \in upTo(n + 1) |->
                     IF Cardinality(s) <= n THEN g[s] ELSE Folded(F, pick, base, g, s)]
  <2>2. ASSUME NEW s \in upTo(n + 1) PROVE h[s] = Folded(F, pick, base, h, s)
    <3>1. CASE s = {}
      BY <3>1, <2>1, FS_EmptySet DEF Folded
    <3>2. CASE s # {}
      <4> DEFINE r == s \ {pick[s]}
      <4>1. pick[s] \in s
        BY <3>2
      <4>2. Cardinality(r) = Cardinality(s) - 1 /\ r \in SUBSET A
        BY <4>1, <1>1, FS_RemoveElement
      <4>3. r \in upTo(n) /\ r \in upTo(n + 1)
        BY <4>2, <1>1
      <4>4. h[r] = g[r]
        BY <4>3
      <4>5. h[s] = Folded(F, pick, base, g, s)
        BY <2>1, <1>1
      <4> QED
        BY <4>4, <4>5, <3>2 DEF Folded
    <3> QED
      BY <3>1, <3>2
  <2>3. h = [s \in upTo(n + 1) |-> Folded(F, pick, base, h, s)]
    BY <2>2
  <2>4. n + 1 \in Nat
    OBVIOUS
  <2> QED
    BY <2>3, <2>4
<1>4. N = Nat
  <2>1. N \subseteq Nat
    OBVIOUS
  <2> HIDE DEF N
  <2> QED
    BY <1>2, <1>3, <2>1, NatInductionSet
<1>5. Cardinality(A) \in N /\ upTo(Cardinality(A)) = SUBSET A
  BY <1>1, <1>4
<1> QED
  BY <1>5 DEF IsFold

-----------------------------------------------------------------------------
(* Sums of numbers. *)

Picked(s) == CHOOSE x \in s : TRUE
Summed(v, sum, s) == IF s = {} THEN 0 ELSE v[Picked(s)] + sum[s \ {Picked(s)}]
IsSum(sum, v, A) == sum = [s \in SUBSET A |-> Summed(v, sum, s)]

LEMMA SumExists ==
    ASSUME NEW A, IsFiniteSet(A), NEW v, \A j \in A : v[j] \in Int
    PROVE  \E sum : IsSum(sum, v, A)
<1> DEFINE pick == [s \in SUBSET A |-> Picked(s)]
           F == [x \in A |-> [y \in Int |-> v[x] + y]]
<1>1. \A s \in SUBSET A : s # {} => pick[s] \in s /\ pick[s] \in A
  BY DEF Picked
<1>2. PICK g : IsFold(g, F, pick, 0, A)
  <2> HIDE DEF pick, F
  <2> QED
    BY <1>1, FoldExists
<1> DEFINE family == {s \in SUBSET A : g[s] \in Int /\ g[s] = Summed(v, g, s)}
<1>3. ASSUME NEW s \in SUBSET A, \A C \in SUBSET s : C # s => C \in family
      PROVE  s \in family
  <2>1. g[s] = Folded(F, pick, 0, g, s)
    BY <1>2 DEF IsFold
  <2>2. CASE s = {}
    BY <2>1, <2>2 DEF Folded, Summed
  <2>3. CASE s # {}
    <3>1. pick[s] \in s /\ pick[s] \in A /\ pick[s] = Picked(s)
      BY <1>1, <2>3
    <3>2. s \ {pick[s]} \in family
      BY <1>3, <3>1
    <3>3. g[s] = F[pick[s]][g[s \ {pick[s]}]]
      BY <2>1, <2>3 DEF Folded
    <3>4. g[s] = v[pick[s]] + g[s \ {pick[s]}]
      BY <3>1, <3>2, <3>3
    <3>5. v[pick[s]] \in Int /\ g[s \ {pick[s]}] \in Int
      BY <3>1, <3>2
    <3> QED
      BY <2>3, <3>1, <3>4, <3>5 DEF Summed
  <2> QED
    BY <2>2, <2>3
<1>4. \A s \in SUBSET A : s \in family
  <2> HIDE DEF family
  <2> QED
    BY <1>3, SubsetInduction
<1>5. g = [s \in SUBSET A |-> Summed(v, g, s)]
  BY <1>2, <1>4 DEF IsFold
<1> QED
  BY <1>5 DEF IsSum

LEMMA SumIs ==
    ASSUME NEW A, IsFiniteSet(A), NEW v, \A j \in A : v[j] \in Int
    PROVE  \E sum : IsSum(sum, v, A) /\ SumFunctionOnSet(v, A) = sum[A]
<1> DEFINE iter == CHOOSE iter : iter = [s \in SUBSET A |->
             IF s = {} THEN 0 ELSE LET x == CHOOSE x \in s : TRUE IN v[x] + iter[s \ {x}]]
<1>1. SumFunctionOnSet(v, A) = iter[A]
  BY DEF SumFunctionOnSet, FoldFunctionOnSet, MapThenFoldSet
<1>2. \A g : IsSum(g, v, A) <=> g = [s \in SUBSET A |->
             IF s = {} THEN 0 ELSE LET x == CHOOSE x \in s : TRUE IN v[x] + g[s \ {x}]]
  BY DEF IsSum, Summed, Picked
<1>3. \E g : g = [s \in SUBSET A |->
             IF s = {} THEN 0 ELSE LET x == CHOOSE x \in s : TRUE IN v[x] + g[s \ {x}]]
  <2>1. PICK g : IsSum(g, v, A)
    BY SumExists
  <2>2. g = [s \in SUBSET A |->
             IF s = {} THEN 0 ELSE LET x == CHOOSE x \in s : TRUE IN v[x] + g[s \ {x}]]
    BY <1>2, <2>1
  <2> QED
    BY <2>2
<1>4. iter = [s \in SUBSET A |->
             IF s = {} THEN 0 ELSE LET x == CHOOSE x \in s : TRUE IN v[x] + iter[s \ {x}]]
  BY <1>3
<1>5. IsSum(iter, v, A)
  BY <1>2, <1>4
<1> HIDE DEF iter
<1> QED
  BY <1>1, <1>5

(* A sum over a smaller set is one of the values of the same function.      *)
LEMMA SumOfSubset ==
    ASSUME NEW A, IsFiniteSet(A), NEW v, \A j \in A : v[j] \in Int,
           NEW g, IsSum(g, v, A), NEW B \in SUBSET A
    PROVE  SumFunctionOnSet(v, B) = g[B]
<1>1. IsFiniteSet(B)
  BY FS_Subset
<1>2. PICK h : IsSum(h, v, B) /\ SumFunctionOnSet(v, B) = h[B]
  BY <1>1, SumIs
<1> DEFINE family == {s \in SUBSET B : h[s] = g[s]}
<1>3. ASSUME NEW s \in SUBSET B, \A C \in SUBSET s : C # s => C \in family
      PROVE  s \in family
  <2>1. g[s] = Summed(v, g, s) /\ h[s] = Summed(v, h, s)
    BY <1>2 DEF IsSum
  <2>2. CASE s = {}
    BY <2>1, <2>2 DEF Summed
  <2>3. CASE s # {}
    <3>1. Picked(s) \in s
      BY <2>3 DEF Picked
    <3>2. s \ {Picked(s)} \in family
      BY <1>3, <3>1
    <3> QED
      BY <2>1, <2>3, <3>2 DEF Summed
  <2> QED
    BY <2>2, <2>3
<1>4. \A s \in SUBSET B : s \in family
  <2> HIDE DEF family
  <2> QED
    BY <1>1, <1>3, SubsetInduction
<1> QED
  BY <1>2, <1>4

LEMMA SumEmpty ==
    ASSUME NEW v
    PROVE  SumFunctionOnSet(v, {}) = 0
<1>1. PICK g : IsSum(g, v, {}) /\ SumFunctionOnSet(v, {}) = g[{}]
  BY SumIs, FS_EmptySet
<1> QED
  BY <1>1 DEF IsSum, Summed

(* A sum of numbers is a number, from which any summand can be taken.       *)
LEMMA SumTakes ==
    ASSUME NEW A, IsFiniteSet(A), NEW v, \A j \in A : v[j] \in Int
    PROVE  /\ SumFunctionOnSet(v, A) \in Int
           /\ \A x \in A : SumFunctionOnSet(v, A) = v[x] + SumFunctionOnSet(v, A \ {x})
<1>1. PICK g : IsSum(g, v, A)
  BY SumExists
<1> DEFINE family == {s \in SUBSET A : g[s] \in Int /\ \A x \in s : g[s] = v[x] + g[s \ {x}]}
<1>2. ASSUME NEW s \in SUBSET A, \A C \in SUBSET s : C # s => C \in family
      PROVE  s \in family
  <2>1. g[s] = Summed(v, g, s)
    BY <1>1 DEF IsSum
  <2>2. CASE s = {}
    BY <2>1, <2>2 DEF Summed
  <2>3. CASE s # {}
    <3> DEFINE p == Picked(s)
    <3>1. p \in s /\ p \in A
      BY <2>3 DEF Picked
    <3>2. g[s] = v[p] + g[s \ {p}]
      BY <2>1, <2>3 DEF Summed
    <3> HIDE DEF p
    <3>3. s \ {p} \in family
      BY <1>2, <3>1
    <3>4. g[s] \in Int
      BY <3>1, <3>2, <3>3
    <3>5. ASSUME NEW x \in s, x # p PROVE g[s] = v[x] + g[s \ {x}]
      <4>1. s \ {x} \in family
        BY <1>2
      <4>2. x \in s \ {p} /\ p \in s \ {x} /\ (s \ {p}) \ {x} = (s \ {x}) \ {p}
        BY <3>1, <3>5
      <4>3. g[s \ {p}] = v[x] + g[(s \ {p}) \ {x}]
        BY <3>3, <4>2
      <4>4. g[s \ {x}] = v[p] + g[(s \ {p}) \ {x}]
        BY <4>1, <4>2
      <4>5. (s \ {p}) \ {x} \in family
        BY <1>2, <3>1
      <4> QED
        BY <3>1, <3>2, <4>3, <4>4, <4>5
    <3> QED
      BY <3>2, <3>4, <3>5
  <2> QED
    BY <2>2, <2>3
<1>3. \A s \in SUBSET A : s \in family
  <2> HIDE DEF family
  <2> QED
    BY <1>2, SubsetInduction
<1>4. \A s \in SUBSET A : SumFunctionOnSet(v, s) = g[s]
  BY <1>1, SumOfSubset
<1>5. g[A] \in Int /\ \A x \in A : g[A] = v[x] + g[A \ {x}]
  BY <1>3
<1>6. \A x \in A : A \ {x} \in SUBSET A
  OBVIOUS
<1> HIDE DEF family
<1> QED
  BY <1>4, <1>5, <1>6

(* Summands that are the sums of others add up to the sum of the sums.      *)
LEMMA SumCombines ==
    ASSUME NEW A, IsFiniteSet(A), NEW u, NEW v, NEW w,
           \A j \in A : u[j] \in Int /\ v[j] \in Int /\ w[j] = u[j] + v[j]
    PROVE  SumFunctionOnSet(w, A) = SumFunctionOnSet(u, A) + SumFunctionOnSet(v, A)
<1> DEFINE family == {s \in SUBSET A :
             SumFunctionOnSet(w, s) = SumFunctionOnSet(u, s) + SumFunctionOnSet(v, s)}
<1>1. ASSUME NEW s \in SUBSET A, \A C \in SUBSET s : C # s => C \in family
      PROVE  s \in family
  <2>1. CASE s = {}
    BY <2>1, SumEmpty
  <2>2. CASE s # {}
    <3>1. PICK x \in s : TRUE
      BY <2>2
    <3> DEFINE r == s \ {x}
    <3>2. r \in family /\ r \in SUBSET A
      BY <1>1, <3>1
    <3>3. /\ IsFiniteSet(s) /\ IsFiniteSet(r)
          /\ \A j \in s : u[j] \in Int /\ v[j] \in Int /\ w[j] \in Int
          /\ \A j \in r : u[j] \in Int /\ v[j] \in Int /\ w[j] \in Int
      BY FS_Subset
    <3>4. /\ SumFunctionOnSet(w, s) = w[x] + SumFunctionOnSet(w, r)
          /\ SumFunctionOnSet(u, s) = u[x] + SumFunctionOnSet(u, r)
          /\ SumFunctionOnSet(v, s) = v[x] + SumFunctionOnSet(v, r)
      BY <3>3, SumTakes
    <3>5. SumFunctionOnSet(u, r) \in Int /\ SumFunctionOnSet(v, r) \in Int
      BY <3>3, SumTakes
    <3>6. u[x] \in Int /\ v[x] \in Int /\ w[x] = u[x] + v[x]
      OBVIOUS
    <3> QED
      BY <3>2, <3>4, <3>5, <3>6
  <2> QED
    BY <2>1, <2>2
<1>2. \A s \in SUBSET A : s \in family
  <2> HIDE DEF family
  <2> QED
    BY <1>1, SubsetInduction
<1> QED
  BY <1>2

LEMMA SumOfZeros ==
    ASSUME NEW A, IsFiniteSet(A), NEW v, \A j \in A : v[j] = 0
    PROVE  SumFunctionOnSet(v, A) = 0
<1>1. SumFunctionOnSet(v, A) = SumFunctionOnSet(v, A) + SumFunctionOnSet(v, A)
  BY SumCombines
<1>2. PICK n \in Int : n = SumFunctionOnSet(v, A)
  BY SumTakes
<1>3. n = n + n
  BY <1>1, <1>2
<1>4. n = 0
  BY <1>3
<1> QED
  BY <1>2, <1>4

(* Only the summands matter.                                                *)
LEMMA SumAgrees ==
    ASSUME NEW A, IsFiniteSet(A), NEW v, NEW w, \A j \in A : v[j] \in Int /\ w[j] = v[j]
    PROVE  SumFunctionOnSet(w, A) = SumFunctionOnSet(v, A)
<1> DEFINE none == [j \in A |-> 0]
<1>1. SumFunctionOnSet(v, A) = SumFunctionOnSet(v, A) + SumFunctionOnSet(none, A)
  BY SumCombines
<1>2. SumFunctionOnSet(w, A) = SumFunctionOnSet(v, A) + SumFunctionOnSet(none, A)
  BY SumCombines
<1> QED
  BY <1>1, <1>2

(* One summand changed changes the sum by as much.                          *)
LEMMA SumChanges ==
    ASSUME NEW A, IsFiniteSet(A), NEW i \in A, NEW v, NEW w,
           \A j \in A : v[j] \in Int /\ w[j] \in Int /\ (j # i => v[j] = w[j])
    PROVE  /\ SumFunctionOnSet(v, A) \in Int /\ SumFunctionOnSet(w, A) \in Int
           /\ SumFunctionOnSet(w, A) = SumFunctionOnSet(v, A) + (w[i] - v[i])
<1> DEFINE r == A \ {i}
<1>1. IsFiniteSet(r)
  BY FS_Subset
<1>2. SumFunctionOnSet(w, r) = SumFunctionOnSet(v, r)
  BY <1>1, SumAgrees
<1>3. SumFunctionOnSet(v, A) = v[i] + SumFunctionOnSet(v, r)
  BY SumTakes
<1>4. SumFunctionOnSet(w, A) = w[i] + SumFunctionOnSet(w, r)
  BY SumTakes
<1>5. SumFunctionOnSet(v, r) \in Int
  BY <1>1, SumTakes
<1>6. v[i] \in Int /\ w[i] \in Int
  OBVIOUS
<1> HIDE DEF r
<1> QED
  BY <1>2, <1>3, <1>4, <1>5, <1>6

-----------------------------------------------------------------------------
(* What the positions cost, and what they are marked at.                    *)
CostOf(pos) == [i \in Instruments |-> CostBasis(i, pos)]

LEMMA TotalCostIs ==
    ASSUME NEW pos
    PROVE  TotalCost(pos) = SumFunctionOnSet(CostOf(pos), Instruments)
  BY DEF TotalCost, CostOf, SumFunction

LEMMA TotalCostType ==
    ASSUME NEW pos \in [Instruments -> Position]
    PROVE  TotalCost(pos) \in Int
<1>1. \A j \in Instruments : CostOf(pos)[j] \in Int
  BY PortfolioAssumption DEF CostOf, CostBasis, Position
<1> QED
  BY <1>1, TotalCostIs, SumTakes, PortfolioAssumption

(* The total cost moves with the one position that moves.                   *)
LEMMA TotalCostMoves ==
    ASSUME NEW pos \in [Instruments -> Position], NEW new \in [Instruments -> Position],
           NEW i \in Instruments, \A j \in Instruments : j # i => new[j] = pos[j]
    PROVE  /\ TotalCost(pos) \in Int /\ TotalCost(new) \in Int
           /\ TotalCost(new) = TotalCost(pos) + (CostBasis(i, new) - CostBasis(i, pos))
<1>1. \A j \in Instruments :
        CostOf(pos)[j] = CostBasis(j, pos) /\ CostOf(new)[j] = CostBasis(j, new)
  BY DEF CostOf
<1>2. \A j \in Instruments : CostBasis(j, pos) \in Int /\ CostBasis(j, new) \in Int
  BY PortfolioAssumption DEF CostBasis, Position
<1>3. \A j \in Instruments : j # i => CostBasis(j, pos) = CostBasis(j, new)
  BY DEF CostBasis
<1>4. \A j \in Instruments : /\ CostOf(pos)[j] \in Int /\ CostOf(new)[j] \in Int
                             /\ j # i => CostOf(pos)[j] = CostOf(new)[j]
  BY <1>1, <1>2, <1>3
<1> QED
  BY <1>1, <1>4, TotalCostIs, SumChanges, PortfolioAssumption

MarkedValue(marks) ==
    [i \in Instruments |-> positions[i].qty * MarkedAt(i, marks) * Multiplier[i]]

LEMMA TotalMarkType ==
    ASSUME AccountTypeOK, NEW marks, \A i \in Instruments : MarkedAt(i, marks) \in Int
    PROVE  /\ \A i \in Instruments : MarkedValue(marks)[i] \in Int
           /\ TotalMark(marks) = SumFunctionOnSet(MarkedValue(marks), Instruments)
           /\ TotalMark(marks) \in Int
<1>1. \A i \in Instruments : MarkedValue(marks)[i] \in Int
  <2> SUFFICES ASSUME NEW i \in Instruments PROVE MarkedValue(marks)[i] \in Int
    OBVIOUS
  <2>1. positions[i].qty \in Int /\ Multiplier[i] \in Int
    BY InstrumentTypes
  <2> QED
    BY <2>1 DEF MarkedValue
<1>2. TotalMark(marks) = SumFunctionOnSet(MarkedValue(marks), Instruments)
  BY DEF TotalMark, MarkedValue, SumFunction
<1> QED
  BY <1>1, <1>2, SumTakes, PortfolioAssumption

-----------------------------------------------------------------------------
(* Equity.  What makes it add up is that cash and cost together are what    *)
(* was put in and realized, which no operation but a flip or an assignment  *)
(* disturbs.                                                                *)
BooksBalance ==
    distorted = {} => cash + TotalCost(positions) = InitialCash + realized - feesPaid

EquityInv == AccountInv /\ BooksBalance /\ EquityReconciles

(* An operation on one instrument moves its cost by what it books less what *)
(* it takes in, as long as the books are in order.                          *)
LEMMA CostMoves ==
    ASSUME AccountInv, AccountInv', distorted' = {}, distorted = {},
           NEW i \in Instruments, NEW inflow \in Int, NEW gain \in Int,
           \A j \in Instruments : j # i => positions'[j] = positions[j],
           flow'[i] = flow[i] + inflow, booked'[i] = booked[i] + gain
    PROVE  /\ TotalCost(positions) \in Int /\ TotalCost(positions') \in Int
           /\ TotalCost(positions') = TotalCost(positions) + (gain - inflow)
<1>1. flow[i] \in Int /\ booked[i] \in Int
  BY InstrumentTypes DEF AccountInv
<1>2. positions \in [Instruments -> Position] /\ positions' \in [Instruments -> Position]
  BY DEF AccountInv, AccountTypeOK
<1>3. CostBasis(i, positions) \in Int /\ CostBasis(i, positions') \in Int
  BY <1>2, PortfolioAssumption DEF CostBasis, Position
<1>4. flow[i] + CostBasis(i, positions) = booked[i]
  BY DEF AccountInv, AttributionReconciles
<1>5. flow'[i] + CostBasis(i, positions') = booked'[i]
  BY DEF AccountInv, AttributionReconciles
<1>6. CostBasis(i, positions') - CostBasis(i, positions) = gain - inflow
  BY <1>1, <1>3, <1>4, <1>5
<1>7. /\ TotalCost(positions) \in Int /\ TotalCost(positions') \in Int
      /\ TotalCost(positions') = TotalCost(positions)
           + (CostBasis(i, positions') - CostBasis(i, positions))
  BY <1>2, TotalCostMoves
<1> QED
  BY <1>6, <1>7

LEMMA ApplyFillKeepsEquity ==
    ASSUME EquityInv, NEW i \in Instruments, NEW side \in Sides, NEW qty \in Nat \ {0},
           NEW price \in Int, NEW fee \in Int,
           ApplyFill(i, side, qty, price, fee)
    PROVE  EquityInv'
<1> DEFINE s == Signed(side, qty)
           inflow == -(s * price * Multiplier[i])
<1>1. AccountInv /\ AccountInv'
  BY ApplyFillKeepsInv DEF EquityInv
<1>2. s \in Int /\ Multiplier[i] \in Int /\ inflow \in Int
  BY SignedType, PortfolioAssumption
<1>3. /\ Open(i, s, price) \/ AddToPosition(i, s, price) \/ Reduce(i, s, price)
      /\ cash' = cash - s * price * Multiplier[i] - fee
      /\ feesPaid' = feesPaid + fee
      /\ flow' = [flow EXCEPT ![i] = @ - s * price * Multiplier[i]]
      /\ unrealized' = 0
      /\ equity' = cash' + TotalCost(positions')
  BY DEF ApplyFill
<1>4. \E gain \in Int : /\ realized' = realized + gain
                        /\ booked' = [booked EXCEPT ![i] = @ + gain]
                        /\ distorted \subseteq distorted'
  <2>1. CASE Open(i, s, price) \/ AddToPosition(i, s, price)
    <3>1. /\ booked' = booked /\ realized' = realized /\ distorted' = distorted
      BY <2>1 DEF Open, AddToPosition
    <3>2. booked = [booked EXCEPT ![i] = @ + 0] /\ realized = realized + 0
      BY <1>1 DEF AccountInv, AccountTypeOK
    <3> QED
      BY <3>1, <3>2
  <2>2. CASE Reduce(i, s, price)
    <3> DEFINE gain == Gain(positions[i], price, ClosedQty(positions[i].qty, s)) * Multiplier[i]
    <3>1. gain \in Int
      <4>1. positions[i].qty \in Int /\ positions[i].avg \in Int
        BY <1>1, InstrumentTypes DEF AccountInv
      <4>2. ClosedQty(positions[i].qty, s) \in Int
        BY <1>2, <4>1 DEF ClosedQty, Lesser, Magnitude
      <4>3. Gain(positions[i], price, ClosedQty(positions[i].qty, s)) \in Int
        BY <4>1, <4>2 DEF Gain
      <4> QED
        BY <1>2, <4>3
    <3>2. /\ realized' = realized + gain /\ booked' = [booked EXCEPT ![i] = @ + gain]
          /\ distorted \subseteq distorted'
      BY <2>2 DEF Reduce
    <3> HIDE DEF gain
    <3> QED
      BY <3>1, <3>2
  <2> QED
    BY <1>3, <2>1, <2>2
<1>5. PICK gain \in Int : /\ realized' = realized + gain
                         /\ booked' = [booked EXCEPT ![i] = @ + gain]
                         /\ distorted \subseteq distorted'
  BY <1>4
<1>6. \A j \in Instruments : j # i => positions'[j] = positions[j]
  BY <1>1, <1>3 DEF Open, AddToPosition, Reduce, AccountInv, AccountTypeOK
<1>7. flow'[i] = flow[i] + inflow /\ booked'[i] = booked[i] + gain
  <2>1. flow'[i] = flow[i] - s * price * Multiplier[i] /\ flow[i] \in Int
    BY <1>1, <1>3 DEF AccountInv, AccountTypeOK
  <2>2. booked'[i] = booked[i] + gain
    BY <1>1, <1>5 DEF AccountInv, AccountTypeOK
  <2> QED
    BY <1>2, <2>1, <2>2
<1>8. cash' = cash + inflow - fee /\ cash \in Int /\ realized \in Int /\ feesPaid \in Int
  BY <1>1, <1>2, <1>3 DEF AccountInv, AccountTypeOK
<1> HIDE DEF s, inflow
<1>9. ASSUME distorted' = {}
      PROVE  /\ cash' + TotalCost(positions') = InitialCash + realized' - feesPaid'
             /\ equity' = InitialCash + realized' + unrealized' - feesPaid'
  <2>1. distorted = {}
    BY <1>5, <1>9
  <2>2. /\ TotalCost(positions) \in Int /\ TotalCost(positions') \in Int
        /\ TotalCost(positions') = TotalCost(positions) + (gain - inflow)
    BY <1>1, <1>2, <1>6, <1>7, <1>9, <2>1, CostMoves
  <2>3. cash + TotalCost(positions) = InitialCash + realized - feesPaid
    BY <2>1 DEF EquityInv, BooksBalance
  <2> QED
    BY <1>2, <1>3, <1>5, <1>8, <2>2, <2>3, PortfolioAssumption
<1> QED
  BY <1>1, <1>9 DEF EquityInv, BooksBalance, EquityReconciles

LEMMA SettlePositionKeepsEquity ==
    ASSUME EquityInv, NEW i \in Instruments, NEW price \in Int, SettlePosition(i, price)
    PROVE  EquityInv'
<1> DEFINE inflow == positions[i].qty * price * Multiplier[i]
           gain == Gain(positions[i], price, Magnitude(positions[i].qty)) * Multiplier[i]
<1>1. AccountInv /\ AccountInv'
  BY SettlePositionKeepsInv DEF EquityInv
<1>2. /\ positions[i].qty \in Int /\ positions[i].avg \in Int /\ Multiplier[i] \in Int
      /\ positions[i] \in Position
  BY <1>1, InstrumentTypes DEF AccountInv
<1>3. /\ positions[i].qty # 0
      /\ cash' = cash + inflow /\ realized' = realized + gain
      /\ flow' = [flow EXCEPT ![i] = @ + inflow] /\ booked' = [booked EXCEPT ![i] = @ + gain]
      /\ positions' = [positions EXCEPT ![i] = Flat]
      /\ unrealized' = 0 /\ equity' = cash' + TotalCost(positions')
      /\ feesPaid' = feesPaid /\ distorted' = distorted
  BY DEF SettlePosition
<1>4. inflow \in Int /\ gain \in Int
  <2>1. gain = (price - positions[i].avg) * positions[i].qty * Multiplier[i]
    BY <1>2, <1>3, GainOfSettlement
  <2> QED
    BY <1>2, <2>1
<1> HIDE DEF inflow, gain
<1>5. /\ flow'[i] = flow[i] + inflow /\ booked'[i] = booked[i] + gain
      /\ \A j \in Instruments : j # i => positions'[j] = positions[j]
  BY <1>1, <1>3 DEF AccountInv, AccountTypeOK
<1>6. ASSUME distorted' = {}
      PROVE  /\ cash' + TotalCost(positions') = InitialCash + realized' - feesPaid'
             /\ equity' = InitialCash + realized' + unrealized' - feesPaid'
  <2>1. /\ TotalCost(positions) \in Int /\ TotalCost(positions') \in Int
        /\ TotalCost(positions') = TotalCost(positions) + (gain - inflow)
    BY <1>1, <1>3, <1>4, <1>5, <1>6, CostMoves
  <2>2. cash + TotalCost(positions) = InitialCash + realized - feesPaid
    BY <1>3, <1>6 DEF EquityInv, BooksBalance
  <2>3. cash \in Int /\ realized \in Int /\ feesPaid \in Int
    BY <1>1 DEF AccountInv, AccountTypeOK
  <2> QED
    BY <1>3, <1>4, <2>1, <2>2, <2>3, PortfolioAssumption
<1> QED
  BY <1>1, <1>6 DEF EquityInv, BooksBalance, EquityReconciles

LEMMA SettlePhysicalKeepsEquity ==
    ASSUME EquityInv, NEW opt \in Instruments, NEW sym \in Instruments,
           NEW strike \in Int, NEW intrinsic \in Int \ {0}, Multiplier[sym] = 1,
           SettlePhysical(opt, sym, strike, intrinsic)
    PROVE  EquityInv'
<1>1. AccountInv'
  BY SettlePhysicalKeepsInv DEF EquityInv
<1>2. distorted' # {}
  BY DEF SettlePhysical
<1> QED
  BY <1>1, <1>2 DEF EquityInv, BooksBalance, EquityReconciles

LEMMA MarkKeepsEquity ==
    ASSUME EquityInv, NEW marks, \A i \in Instruments : MarkedAt(i, marks) \in Int,
           MarkToMarket(marks)
    PROVE  EquityInv'
<1>1. AccountInv /\ AccountInv'
  BY MarkKeepsInv DEF MarkToMarket, EquityInv
<1>2. TotalMark(marks) \in Int
  BY <1>1, TotalMarkType DEF AccountInv
<1>3. /\ unrealized' = TotalMark(marks) - TotalCost(positions)
      /\ equity' = cash + TotalMark(marks)
      /\ cash' = cash /\ positions' = positions /\ realized' = realized
      /\ feesPaid' = feesPaid /\ distorted' = distorted
  BY DEF MarkToMarket
<1>4. cash \in Int /\ realized \in Int /\ feesPaid \in Int
  BY <1>1 DEF AccountInv, AccountTypeOK
<1>5. ASSUME distorted = {}
      PROVE  equity' = InitialCash + realized' + unrealized' - feesPaid'
  <2>1. cash + TotalCost(positions) = InitialCash + realized - feesPaid
    BY <1>5 DEF EquityInv, BooksBalance
  <2>2. TotalCost(positions) \in Int
    BY <1>1, TotalCostType DEF AccountInv, AccountTypeOK
  <2> QED
    BY <1>2, <1>3, <1>4, <2>1, <2>2, PortfolioAssumption
<1> QED
  BY <1>1, <1>3, <1>5 DEF EquityInv, BooksBalance, EquityReconciles

LEMMA InitEquity == AccountInit => EquityInv
<1> SUFFICES ASSUME AccountInit PROVE EquityInv
  OBVIOUS
<1>1. AccountInv
  BY AccountInitInv
<1>2. TotalCost(positions) = 0
  <2>1. \A i \in Instruments : CostOf(positions)[i] = 0
    BY PortfolioAssumption DEF CostOf, CostBasis, AccountInit, Flat
  <2> QED
    BY <2>1, TotalCostIs, SumOfZeros, PortfolioAssumption
<1> QED
  BY <1>1, <1>2, PortfolioAssumption DEF AccountInit, EquityInv, BooksBalance, EquityReconciles

LEMMA AccountNextKeepsEquity == EquityInv /\ [AccountNext]_accountVars => EquityInv'
<1> SUFFICES ASSUME EquityInv, [AccountNext]_accountVars PROVE EquityInv'
  OBVIOUS
<1>1. CASE Fill
  <2>1. PICK i \in Instruments, side \in Sides, qty \in Quantities, price \in Prices, fee \in Fees :
          ApplyFill(i, side, qty, price, fee)
    BY <1>1 DEF Fill
  <2>2. qty \in Nat \ {0} /\ price \in Int /\ fee \in Int
    BY PortfolioAssumption
  <2> QED
    BY <2>1, <2>2, ApplyFillKeepsEquity
<1>2. CASE Mark
  <2>1. PICK marks \in [Instruments -> Prices \cup {NoMark}] : MarkToMarket(marks)
    BY <1>2 DEF Mark
  <2>2. \A i \in Instruments : MarkedAt(i, marks) \in Int
    BY InstrumentTypes, PortfolioAssumption DEF MarkedAt, EquityInv, AccountInv
  <2> QED
    BY <2>1, <2>2, MarkKeepsEquity
<1>3. CASE Settle
  <2>1. PICK i \in Instruments, price \in Prices : SettlePosition(i, price)
    BY <1>3 DEF Settle
  <2> QED
    BY <2>1, SettlePositionKeepsEquity, PortfolioAssumption
<1>4. CASE Assign
  <2>1. PICK opt \in Instruments, sym \in Instruments, strike \in Prices, close \in Prices :
          Multiplier[sym] = 1 /\ close > strike /\ SettlePhysical(opt, sym, strike, close - strike)
    BY <1>4 DEF Assign
  <2>2. strike \in Int /\ close - strike \in Int \ {0}
    BY <2>1, PortfolioAssumption
  <2> QED
    BY <2>1, <2>2, SettlePhysicalKeepsEquity
<1>5. CASE UNCHANGED accountVars
  BY <1>5, MarkKeepsInv DEF accountVars, EquityInv, BooksBalance, EquityReconciles
<1> QED
  BY <1>1, <1>2, <1>3, <1>4, <1>5 DEF AccountNext

(* The figures of a report agree with each other at every point, for any    *)
(* instruments and any history of fills, marks and settlements              *)
(* (accounting.py:19-38, 96-137).                                           *)
THEOREM EquityCorrect == AccountSpec => []EquityReconciles
<1>1. EquityInv => EquityReconciles
  BY DEF EquityInv
<1> QED
  BY <1>1, InitEquity, AccountNextKeepsEquity, PTL DEF AccountSpec
=============================================================================
