---------------------------- MODULE LedgerProofs ----------------------------
(***************************************************************************)
(* Theorems about TradeLedger and Report, for every set of instruments and *)
(* every length of run.                                                    *)
(***************************************************************************)
EXTENDS Report, PortfolioProofs, SequenceTheorems

-----------------------------------------------------------------------------
(* Sums over two parts, and over stretches of a sequence *)

LEMMA SumSplits ==
    ASSUME NEW A, NEW B, IsFiniteSet(A), IsFiniteSet(B), A \cap B = {},
           NEW v, \A j \in A \cup B : v[j] \in Int
    PROVE  SumFunctionOnSet(v, A \cup B) = SumFunctionOnSet(v, A) + SumFunctionOnSet(v, B)
<1> DEFINE family == {s \in SUBSET B :
             SumFunctionOnSet(v, A \cup s) = SumFunctionOnSet(v, A) + SumFunctionOnSet(v, s)}
<1>1. ASSUME NEW s \in SUBSET B, \A C \in SUBSET s : C # s => C \in family
      PROVE  s \in family
  <2>1. CASE s = {}
    <3>1. PICK n \in Int : n = SumFunctionOnSet(v, A)
      BY SumTakes
    <3>2. SumFunctionOnSet(v, s) = 0 /\ A \cup s = A
      BY <2>1, SumEmpty
    <3>3. n = n + 0
      OBVIOUS
    <3> QED
      BY <3>1, <3>2, <3>3
  <2>2. CASE s # {}
    <3>1. PICK x \in s : TRUE
      BY <2>2
    <3> DEFINE r == s \ {x}
    <3>2. r \in family
      BY <1>1, <3>1
    <3>3. /\ IsFiniteSet(A \cup s) /\ IsFiniteSet(s) /\ IsFiniteSet(r)
          /\ (A \cup s) \ {x} = A \cup r
      BY FS_Subset, FS_Union
    <3>4. SumFunctionOnSet(v, A \cup s) = v[x] + SumFunctionOnSet(v, (A \cup s) \ {x})
      <4>1. x \in A \cup s /\ \A j \in A \cup s : v[j] \in Int
        OBVIOUS
      <4> QED
        BY <3>3, <4>1, SumTakes
    <3>5. SumFunctionOnSet(v, s) = v[x] + SumFunctionOnSet(v, r)
      BY <3>3, SumTakes
    <3>6. PICK a \in Int, b \in Int, c \in Int :
            a = SumFunctionOnSet(v, A) /\ b = SumFunctionOnSet(v, r) /\ c = v[x]
      BY <3>3, SumTakes
    <3>7. SumFunctionOnSet(v, A \cup r) = a + b
      BY <3>2, <3>6
    <3>8. c + (a + b) = a + (c + b)
      OBVIOUS
    <3> QED
      BY <3>3, <3>4, <3>5, <3>6, <3>7, <3>8
  <2> QED
    BY <2>1, <2>2
<1>2. \A s \in SUBSET B : s \in family
  <2> HIDE DEF family
  <2> QED
    BY <1>1, SubsetInduction
<1> QED
  BY <1>2

LEMMA SumScales ==
    ASSUME NEW A, IsFiniteSet(A), NEW c \in Int, NEW v, NEW w,
           \A j \in A : v[j] \in Int /\ w[j] = c * v[j]
    PROVE  SumFunctionOnSet(w, A) = c * SumFunctionOnSet(v, A)
<1> DEFINE family == {s \in SUBSET A : SumFunctionOnSet(w, s) = c * SumFunctionOnSet(v, s)}
<1>1. ASSUME NEW s \in SUBSET A, \A C \in SUBSET s : C # s => C \in family
      PROVE  s \in family
  <2>1. CASE s = {}
    BY <2>1, SumEmpty
  <2>2. CASE s # {}
    <3>1. PICK x \in s : TRUE
      BY <2>2
    <3> DEFINE r == s \ {x}
    <3>2. r \in family
      BY <1>1, <3>1
    <3>3. IsFiniteSet(s) /\ IsFiniteSet(r) /\ \A j \in s : w[j] \in Int
      BY FS_Subset
    <3>4. /\ SumFunctionOnSet(w, s) = w[x] + SumFunctionOnSet(w, r)
          /\ SumFunctionOnSet(v, s) = v[x] + SumFunctionOnSet(v, r)
      BY <3>3, SumTakes
    <3>5. PICK a \in Int, b \in Int : a = v[x] /\ b = SumFunctionOnSet(v, r)
      BY <3>3, SumTakes
    <3>6. w[x] = c * a /\ SumFunctionOnSet(w, r) = c * b
      BY <3>2, <3>5
    <3>7. c * a + c * b = c * (a + b)
      OBVIOUS
    <3> QED
      BY <3>4, <3>5, <3>6, <3>7
  <2> QED
    BY <2>1, <2>2
<1>2. \A s \in SUBSET A : s \in family
  <2> HIDE DEF family
  <2> QED
    BY <1>1, SubsetInduction
<1> QED
  BY <1>2

(* Summands that are nothing need not be summed.                            *)
LEMMA SumOfPart ==
    ASSUME NEW A, IsFiniteSet(A), NEW B \in SUBSET A, NEW v,
           \A j \in A : v[j] \in Int, \A j \in A \ B : v[j] = 0
    PROVE  SumFunctionOnSet(v, A) = SumFunctionOnSet(v, B)
<1>1. IsFiniteSet(B) /\ IsFiniteSet(A \ B) /\ A = B \cup (A \ B)
  BY FS_Subset
<1>2. SumFunctionOnSet(v, B \cup (A \ B)) = SumFunctionOnSet(v, B) + SumFunctionOnSet(v, A \ B)
  BY <1>1, SumSplits
<1>3. SumFunctionOnSet(v, A \ B) = 0
  BY <1>1, SumOfZeros
<1>4. PICK n \in Int : n = SumFunctionOnSet(v, B)
  BY <1>1, SumTakes
<1>5. n + 0 = n
  OBVIOUS
<1> QED
  BY <1>1, <1>2, <1>3, <1>4, <1>5

LEMMA SumNext ==
    ASSUME NEW k \in Nat, NEW v, \A j \in 1..(k + 1) : v[j] \in Int
    PROVE  SumFunctionOnSet(v, 1..(k + 1)) = v[k + 1] + SumFunctionOnSet(v, 1..k)
<1>1. IsFiniteSet(1..(k + 1)) /\ k + 1 \in 1..(k + 1) /\ (1..(k + 1)) \ {k + 1} = 1..k
  BY FS_Interval
<1> QED
  BY <1>1, SumTakes

(* The same summands under later indices.                                   *)
LEMMA SumShifts ==
    ASSUME NEW n \in Nat, NEW d \in Nat, NEW v, NEW w,
           \A k \in 1..n : v[k + d] \in Int /\ w[k] = v[k + d]
    PROVE  SumFunctionOnSet(w, 1..n) = SumFunctionOnSet(v, (d + 1)..(d + n))
<1> DEFINE N == {k \in Nat : k <= n =>
                   SumFunctionOnSet(w, 1..k) = SumFunctionOnSet(v, (d + 1)..(d + k))}
<1>1. 0 \in N
  <2>1. 1..0 = {} /\ (d + 1)..(d + 0) = {}
    OBVIOUS
  <2> QED
    BY <2>1, SumEmpty
<1>2. ASSUME NEW k \in N PROVE k + 1 \in N
  <2> SUFFICES ASSUME k + 1 <= n
               PROVE  SumFunctionOnSet(w, 1..(k + 1)) = SumFunctionOnSet(v, (d + 1)..(d + (k + 1)))
    OBVIOUS
  <2>1. k \in Nat /\ k <= n /\ k + 1 \in 1..n
    OBVIOUS
  <2>2. \A j \in 1..(k + 1) : w[j] \in Int
    BY <2>1
  <2>3. SumFunctionOnSet(w, 1..(k + 1)) = w[k + 1] + SumFunctionOnSet(w, 1..k)
    BY <2>1, <2>2, SumNext
  <2> DEFINE later == (d + 1)..(d + (k + 1))
  <2>4. \A j \in later : v[j] \in Int
    <3> SUFFICES ASSUME NEW j \in later PROVE v[j] \in Int
      OBVIOUS
    <3>1. j - d \in 1..n /\ (j - d) + d = j
      BY <2>1
    <3> QED
      BY <3>1
  <2>5. /\ IsFiniteSet(later) /\ (k + 1) + d \in later
        /\ later \ {(k + 1) + d} = (d + 1)..(d + k)
    <3>1. d + 1 \in Int /\ d + (k + 1) \in Int
      BY <2>1
    <3>2. IsFiniteSet(later)
      BY <3>1, FS_Interval
    <3>3. ASSUME NEW j \in Int
          PROVE  j \in later /\ j # (k + 1) + d <=> j \in (d + 1)..(d + k)
      BY <2>1
    <3>4. (k + 1) + d \in later
      BY <2>1
    <3>5. later \subseteq Int /\ (d + 1)..(d + k) \subseteq Int
      BY <2>1
    <3> HIDE DEF later
    <3>6. ASSUME NEW j PROVE j \in later \ {(k + 1) + d} <=> j \in (d + 1)..(d + k)
      <4>1. CASE j \in Int
        BY <3>3, <4>1
      <4>2. CASE j \notin Int
        BY <3>5, <4>2
      <4> QED
        BY <4>1, <4>2
    <3>7. later \ {(k + 1) + d} = (d + 1)..(d + k)
      BY <3>6
    <3> QED
      BY <3>2, <3>4, <3>7
  <2> HIDE DEF later
  <2>6. SumFunctionOnSet(v, later) = v[(k + 1) + d] + SumFunctionOnSet(v, (d + 1)..(d + k))
    <3>1. \A x \in later : SumFunctionOnSet(v, later) = v[x] + SumFunctionOnSet(v, later \ {x})
      BY <2>4, <2>5, SumTakes
    <3> QED
      BY <2>5, <3>1
  <2>7. w[k + 1] = v[(k + 1) + d]
    BY <2>1
  <2> QED
    BY <2>1, <2>3, <2>6, <2>7 DEF later
<1>3. N = Nat
  <2>1. N \subseteq Nat
    OBVIOUS
  <2> HIDE DEF N
  <2> QED
    BY <1>1, <1>2, <2>1, NatInductionSet
<1> QED
  BY <1>3

(* The summands of a sequence after those of another.                       *)
Joins(w, v, m, u, h) ==
    /\ m \in Nat /\ h \in Nat
    /\ \A k \in 1..m : v[k] \in Int /\ w[k] = v[k]
    /\ \A k \in 1..h : u[k] \in Int /\ w[k + m] = u[k]

LEMMA SumFollows ==
    ASSUME NEW m, NEW h, NEW v, NEW u, NEW w, Joins(w, v, m, u, h)
    PROVE  SumFunctionOnSet(w, 1..(m + h)) = SumFunctionOnSet(v, 1..m) + SumFunctionOnSet(u, 1..h)
<1> USE DEF Joins
<1> DEFINE first == 1..m
           later == (m + 1)..(m + h)
<1>1. /\ IsFiniteSet(first) /\ IsFiniteSet(later) /\ first \cap later = {}
      /\ first \cup later = 1..(m + h)
  <2>1. IsFiniteSet(first) /\ IsFiniteSet(later)
    BY FS_Interval
  <2> QED
    BY <2>1
<1>2. \A j \in later : w[j] \in Int
  <2> SUFFICES ASSUME NEW j \in later PROVE w[j] \in Int
    OBVIOUS
  <2>1. j - m \in 1..h /\ (j - m) + m = j
    OBVIOUS
  <2> QED
    BY <2>1
<1>3. SumFunctionOnSet(w, first) = SumFunctionOnSet(v, first)
  BY <1>1, SumAgrees
<1>4. SumFunctionOnSet(u, 1..h) = SumFunctionOnSet(w, later)
  BY SumShifts
<1>5. \A j \in first \cup later : w[j] \in Int
  BY <1>2
<1> HIDE DEF first, later
<1>6. SumFunctionOnSet(w, first \cup later) = SumFunctionOnSet(w, first) + SumFunctionOnSet(w, later)
  BY <1>1, <1>5, SumSplits
<1> QED
  BY <1>1, <1>3, <1>4, <1>6 DEF first

(* A set of positions of a sequence that has every position before each of  *)
(* its members is an initial stretch.                                       *)
LEMMA InitialStretch ==
    ASSUME NEW n \in Nat, NEW S \in SUBSET (1..n), \A k \in S : \A j \in 1..k : j \in S
    PROVE  Cardinality(S) \in 0..n /\ S = 1..Cardinality(S)
<1> DEFINE closed(s) == \A k \in s : \A j \in 1..k : j \in s
           holds(m) == \A s \in SUBSET (1..m) : closed(s) => \E h \in 0..m : s = 1..h
           N == {m \in Nat : holds(m)}
<1>1. 0 \in N
  <2>1. 1..0 = {} /\ 0 \in 0..0
    OBVIOUS
  <2>2. holds(0)
    BY <2>1
  <2> HIDE DEF holds
  <2> QED
    BY <2>2
<1>2. ASSUME NEW m \in N PROVE m + 1 \in N
  <2>1. m \in Nat /\ m + 1 \in Nat /\ holds(m)
    OBVIOUS
  <2>2. ASSUME NEW s \in SUBSET (1..(m + 1)), closed(s)
        PROVE  \E h \in 0..(m + 1) : s = 1..h
    <3>1. CASE m + 1 \in s
      <4>1. \A j \in 1..(m + 1) : j \in s
        BY <2>2, <3>1
      <4>2. m + 1 \in 0..(m + 1)
        BY <2>1
      <4>3. s \subseteq 1..(m + 1) /\ 1..(m + 1) \subseteq s
        BY <4>1
      <4>4. s = 1..(m + 1)
        BY <4>3
      <4> QED
        BY <4>2, <4>4
    <3>2. CASE m + 1 \notin s
      <4>1. s \in SUBSET (1..m)
        BY <2>1, <3>2
      <4>2. PICK h \in 0..m : s = 1..h
        BY <2>1, <2>2, <4>1
      <4>3. h \in 0..(m + 1)
        BY <2>1
      <4> QED
        BY <4>2, <4>3
    <3> QED
      BY <3>1, <3>2
  <2>3. holds(m + 1)
    BY <2>2
  <2> HIDE DEF holds
  <2> QED
    BY <2>1, <2>3
<1>3. N = Nat
  <2>1. N \subseteq Nat
    OBVIOUS
  <2> HIDE DEF N
  <2> QED
    BY <1>1, <1>2, <2>1, NatInductionSet
<1>4. PICK h \in 0..n : S = 1..h
  <2>1. n \in N
    BY <1>3
  <2> QED
    BY <2>1
<1>5. Cardinality(1..h) = h
  <2>1. h \in Int
    OBVIOUS
  <2>2. Cardinality(1..h) = IF 1 > h THEN 0 ELSE h - 1 + 1
    BY <2>1, FS_Interval
  <2> QED
    BY <2>2
<1> QED
  BY <1>4, <1>5

-----------------------------------------------------------------------------
(* The lots of an instrument, and what a closing fill takes of them.        *)

Lot == [qty : Nat \ {0}, price : Int, fees : Int]
Units(ls) == [j \in DOMAIN ls |-> ls[j].qty]

LEMMA LotFacts ==
    ASSUME NEW ls \in Seq(Lot)
    PROVE  /\ Len(ls) \in Nat /\ DOMAIN ls = 1..Len(ls) /\ IsFiniteSet(1..Len(ls))
           /\ \A k \in 1..Len(ls) : /\ ls[k] \in Lot
                                    /\ ls[k].qty \in Nat /\ ls[k].qty > 0
                                    /\ ls[k].price \in Int /\ ls[k].fees \in Int
                                    /\ Units(ls)[k] = ls[k].qty
<1>1. Len(ls) \in Nat /\ DOMAIN ls = 1..Len(ls) /\ \A k \in 1..Len(ls) : ls[k] \in Lot
  BY LenProperties
<1>2. IsFiniteSet(1..Len(ls))
  <2>1. Len(ls) \in Int
    BY <1>1
  <2> QED
    BY <2>1, FS_Interval
<1> QED
  BY <1>1, <1>2 DEF Lot, Units

(* Each lot begins where the one before it ends.                            *)
LEMMA BeforeSteps ==
    ASSUME NEW ls \in Seq(Lot)
    PROVE  /\ QtyBefore(ls, 1) = 0
           /\ \A k \in 1..Len(ls) : /\ QtyBefore(ls, k) \in Nat
                                    /\ QtyBefore(ls, k + 1) = QtyBefore(ls, k) + ls[k].qty
           /\ LotQty(ls) \in Nat
<1> DEFINE n == Len(ls)
           N == {k \in Nat : k <= n => QtyBefore(ls, k + 1) \in Nat}
<1>0. n \in Nat
  BY LotFacts
<1>1. QtyBefore(ls, 1) = 0
  <2>1. 1..(1 - 1) = {}
    OBVIOUS
  <2> QED
    BY <2>1, SumEmpty DEF QtyBefore
<1>2. ASSUME NEW k \in 1..n
      PROVE  /\ QtyBefore(ls, k + 1) = ls[k].qty + QtyBefore(ls, k)
             /\ ls[k].qty \in Nat
  <2>1. PICK m \in Nat : k = m + 1
    <3>1. k - 1 \in Nat /\ k = (k - 1) + 1
      BY <1>0
    <3> QED
      BY <3>1
  <2>2. \A j \in 1..(m + 1) : Units(ls)[j] \in Int
    BY <1>0, <2>1, LotFacts
  <2>3. SumFunctionOnSet(Units(ls), 1..(m + 1)) = Units(ls)[m + 1] + SumFunctionOnSet(Units(ls), 1..m)
    BY <2>2, SumNext
  <2>4. (k + 1) - 1 = m + 1 /\ k - 1 = m
    BY <2>1
  <2>5. Units(ls)[k] = ls[k].qty /\ ls[k].qty \in Nat
    BY LotFacts
  <2> QED
    BY <2>1, <2>3, <2>4, <2>5 DEF QtyBefore, Units
<1>3. N = Nat
  <2>1. 0 \in N
    BY <1>1
  <2>2. ASSUME NEW k \in N PROVE k + 1 \in N
    <3>1. k \in Nat
      OBVIOUS
    <3> SUFFICES ASSUME k + 1 <= n PROVE QtyBefore(ls, (k + 1) + 1) \in Nat
      BY <3>1
    <3>2. k + 1 \in 1..n /\ k <= n
      BY <1>0, <3>1
    <3>3. PICK a \in Nat, b \in Nat : a = QtyBefore(ls, k + 1) /\ b = ls[k + 1].qty
      BY <1>2, <3>2
    <3>4. QtyBefore(ls, (k + 1) + 1) = b + a
      BY <1>2, <3>2, <3>3
    <3> QED
      BY <3>4
  <2>3. N \subseteq Nat
    OBVIOUS
  <2> HIDE DEF N
  <2> QED
    BY <2>1, <2>2, <2>3, NatInductionSet
<1>4. ASSUME NEW k \in 1..n PROVE QtyBefore(ls, k) \in Nat
  <2>1. k - 1 \in Nat /\ k - 1 <= n /\ (k - 1) + 1 = k
    BY <1>0
  <2>2. k - 1 \in N
    BY <1>3, <2>1
  <2> QED
    BY <2>1, <2>2
<1>5. ASSUME NEW k \in 1..n PROVE QtyBefore(ls, k + 1) = QtyBefore(ls, k) + ls[k].qty
  <2>1. PICK a \in Nat, b \in Nat : a = QtyBefore(ls, k) /\ b = ls[k].qty
    BY <1>2, <1>4
  <2>2. b + a = a + b
    OBVIOUS
  <2> QED
    BY <1>2, <2>1, <2>2
<1>6. LotQty(ls) \in Nat
  <2>1. n \in N
    BY <1>0, <1>3
  <2>2. n <= n
    BY <1>0
  <2> QED
    BY <2>1, <2>2 DEF LotQty
<1> QED
  BY <1>1, <1>4, <1>5, <1>6

(* A lot gives what it has, or what is still wanted when its turn comes.    *)
LEMMA MatchedIs ==
    ASSUME NEW ls \in Seq(Lot), NEW q \in Nat \ {0}, NEW k \in 1..Len(ls)
    PROVE  /\ Matched(ls, k, q) \in Nat /\ Matched(ls, k, q) <= ls[k].qty
           /\ Matched(ls, k, q) > 0 <=> QtyBefore(ls, k) < q
           /\ Matched(ls, k, q) = ls[k].qty <=> QtyBefore(ls, k + 1) <= q
           /\ Lesser(q, QtyBefore(ls, k + 1)) = Lesser(q, QtyBefore(ls, k)) + Matched(ls, k, q)
<1>1. PICK a \in Nat, b \in Nat \ {0} : a = QtyBefore(ls, k) /\ b = ls[k].qty
  <2>1. ls[k].qty \in Nat /\ ls[k].qty > 0
    BY LotFacts
  <2> QED
    BY <2>1, BeforeSteps
<1>2. QtyBefore(ls, k + 1) = a + b
  BY <1>1, BeforeSteps
<1>3. PICK n \in Nat : n = IF q - a <= 0 THEN 0 ELSE IF b < q - a THEN b ELSE q - a
  <2>1. (IF q - a <= 0 THEN 0 ELSE IF b < q - a THEN b ELSE q - a) \in Nat
    OBVIOUS
  <2> QED
    BY <2>1
<1>4. Matched(ls, k, q) = n
  BY <1>1, <1>3 DEF Matched, Lesser
<1>5. n <= b /\ (n > 0 <=> a < q) /\ (n = b <=> a + b <= q)
  BY <1>3
<1>6. Lesser(q, a + b) = Lesser(q, a) + n
  BY <1>3 DEF Lesser
<1> QED
  BY <1>1, <1>2, <1>4, <1>5, <1>6

LEMMA MatchedType ==
    ASSUME NEW ls \in Seq(Lot), NEW q \in Nat \ {0}, NEW k \in 1..Len(ls)
    PROVE  Matched(ls, k, q) \in Nat
<1> HIDE DEF Matched
<1> QED
  BY MatchedIs

LEMMA BeforeGrows ==
    ASSUME NEW ls \in Seq(Lot), NEW k \in 1..(Len(ls) + 1), NEW j \in 1..k
    PROVE  QtyBefore(ls, j) <= QtyBefore(ls, k) /\ QtyBefore(ls, j) \in Nat /\ QtyBefore(ls, k) \in Nat
<1> DEFINE n == Len(ls)
           holds(m) == m <= n => /\ QtyBefore(ls, m + 1) \in Nat
                                 /\ \A i \in 1..(m + 1) : /\ QtyBefore(ls, i) \in Nat
                                                          /\ QtyBefore(ls, i) <= QtyBefore(ls, m + 1)
           N == {m \in Nat : holds(m)}
<1>0. n \in Nat
  BY LotFacts
<1>1. 0 \in N
  <2>1. QtyBefore(ls, 1) = 0
    BY BeforeSteps
  <2>2. \A i \in 1..(0 + 1) : i = 1
    OBVIOUS
  <2> QED
    BY <2>1, <2>2
<1>2. ASSUME NEW m \in N PROVE m + 1 \in N
  <2>1. m \in Nat /\ m + 1 \in Nat /\ holds(m)
    OBVIOUS
  <2>2. ASSUME m + 1 <= n
        PROVE  /\ QtyBefore(ls, (m + 1) + 1) \in Nat
               /\ \A i \in 1..((m + 1) + 1) : /\ QtyBefore(ls, i) \in Nat
                                              /\ QtyBefore(ls, i) <= QtyBefore(ls, (m + 1) + 1)
    <3>1. m + 1 \in 1..n /\ m <= n
      BY <1>0, <2>1, <2>2
    <3>2. PICK a \in Nat, b \in Nat : a = QtyBefore(ls, m + 1) /\ b = ls[m + 1].qty
      BY <3>1, LotFacts, BeforeSteps
    <3>3. QtyBefore(ls, (m + 1) + 1) = a + b
      BY <3>1, <3>2, BeforeSteps
    <3>4. ASSUME NEW i \in 1..((m + 1) + 1)
          PROVE  QtyBefore(ls, i) \in Nat /\ QtyBefore(ls, i) <= a + b
      <4>1. CASE i = (m + 1) + 1
        BY <3>2, <3>3, <4>1
      <4>2. CASE i # (m + 1) + 1
        <5>1. i \in 1..(m + 1)
          BY <2>1, <4>2
        <5>2. PICK c \in Nat : c = QtyBefore(ls, i)
          BY <2>1, <3>1, <5>1
        <5>3. c <= a
          BY <2>1, <3>1, <3>2, <5>1, <5>2
        <5> QED
          BY <5>2, <5>3
      <4> QED
        BY <4>1, <4>2
    <3> QED
      BY <3>3, <3>4
  <2>3. holds(m + 1)
    BY <2>2
  <2> HIDE DEF holds
  <2> QED
    BY <2>1, <2>3
<1>3. N = Nat
  <2>1. N \subseteq Nat
    OBVIOUS
  <2> HIDE DEF N
  <2> QED
    BY <1>1, <1>2, <2>1, NatInductionSet
<1>4. k - 1 \in Nat /\ k - 1 <= n /\ (k - 1) + 1 = k
  BY <1>0
<1>5. holds(k - 1)
  <2>1. k - 1 \in N
    BY <1>3, <1>4
  <2> HIDE DEF holds
  <2> QED
    BY <2>1
<1> QED
  BY <1>4, <1>5

(* All lots together give what is wanted, if they have it.                  *)
LEMMA MatchedSum ==
    ASSUME NEW ls \in Seq(Lot), NEW q \in Nat \ {0}, NEW taken,
           \A k \in 1..Len(ls) : taken[k] = Matched(ls, k, q)
    PROVE  SumFunctionOnSet(taken, 1..Len(ls)) = Lesser(q, LotQty(ls))
<1> DEFINE n == Len(ls)
           holds(m) == m <= n => SumFunctionOnSet(taken, 1..m) = Lesser(q, QtyBefore(ls, m + 1))
           N == {m \in Nat : holds(m)}
<1>0. n \in Nat
  BY LotFacts
<1>1. 0 \in N
  <2>1. 1..0 = {}
    OBVIOUS
  <2>2. QtyBefore(ls, 0 + 1) = 0
    BY BeforeSteps
  <2>3. Lesser(q, 0) = 0
    BY DEF Lesser
  <2> QED
    BY <2>1, <2>2, <2>3, SumEmpty
<1>2. ASSUME NEW m \in N PROVE m + 1 \in N
  <2>1. m \in Nat /\ m + 1 \in Nat /\ holds(m)
    OBVIOUS
  <2>2. ASSUME m + 1 <= n
        PROVE  SumFunctionOnSet(taken, 1..(m + 1)) = Lesser(q, QtyBefore(ls, (m + 1) + 1))
    <3>1. m + 1 \in 1..n /\ m <= n
      BY <1>0, <2>1, <2>2
    <3>2. \A j \in 1..(m + 1) : taken[j] \in Int
      <4> SUFFICES ASSUME NEW j \in 1..(m + 1) PROVE taken[j] \in Int
        OBVIOUS
      <4>1. j \in 1..n
        BY <1>0, <2>1, <2>2
      <4>2. Matched(ls, j, q) \in Nat
        BY <4>1, MatchedIs
      <4> QED
        BY <4>1, <4>2
    <3>3. SumFunctionOnSet(taken, 1..(m + 1)) = taken[m + 1] + SumFunctionOnSet(taken, 1..m)
      BY <2>1, <3>2, SumNext
    <3>4. PICK b \in Nat : b = taken[m + 1] /\ b = Matched(ls, m + 1, q)
      BY <3>1, MatchedIs
    <3>5. PICK a \in Nat : a = QtyBefore(ls, m + 1)
      BY <3>1, BeforeSteps
    <3>6. PICK c \in Nat : c = Lesser(q, a)
      BY DEF Lesser
    <3>7. Lesser(q, QtyBefore(ls, (m + 1) + 1)) = c + b
      BY <3>1, <3>4, <3>5, <3>6, MatchedIs
    <3>8. SumFunctionOnSet(taken, 1..m) = c
      BY <2>1, <3>1, <3>5, <3>6
    <3>9. b + c = c + b
      OBVIOUS
    <3> QED
      BY <3>3, <3>4, <3>7, <3>8, <3>9
  <2>3. holds(m + 1)
    BY <2>2
  <2> HIDE DEF holds
  <2> QED
    BY <2>1, <2>3
<1>3. N = Nat
  <2>1. N \subseteq Nat
    OBVIOUS
  <2> HIDE DEF N
  <2> QED
    BY <1>1, <1>2, <2>1, NatInductionSet
<1>4. holds(n)
  <2>1. n \in N
    BY <1>0, <1>3
  <2> HIDE DEF holds
  <2> QED
    BY <2>1
<1>5. n <= n
  BY <1>0
<1> QED
  BY <1>4, <1>5 DEF LotQty

(* A closing fill takes of the first lots, and uses up all of them but for  *)
(* the last.                                                                *)
Hit(ls, q) == {k \in DOMAIN ls : Matched(ls, k, q) > 0}
LotAfter(ls, q) == [k \in DOMAIN ls |-> [ls[k] EXCEPT !.qty = @ - Matched(ls, k, q)]]
UsedUp(ls, q) == {k \in DOMAIN ls : LotAfter(ls, q)[k].qty = 0}

LEMMA HitIs ==
    ASSUME NEW ls \in Seq(Lot), NEW q \in Nat \ {0}
    PROVE  /\ Cardinality(Hit(ls, q)) \in 0..Len(ls)
           /\ Hit(ls, q) = 1..Cardinality(Hit(ls, q))
<1>1. Len(ls) \in Nat /\ DOMAIN ls = 1..Len(ls)
  BY LotFacts
<1>2. Hit(ls, q) \in SUBSET (1..Len(ls))
  BY <1>1 DEF Hit
<1>3. ASSUME NEW k \in Hit(ls, q), NEW j \in 1..k PROVE j \in Hit(ls, q)
  <2>1. k \in 1..Len(ls) /\ Matched(ls, k, q) > 0
    BY <1>1 DEF Hit
  <2>2. j \in 1..Len(ls) /\ k \in 1..(Len(ls) + 1)
    BY <1>1, <2>1
  <2>3. PICK a \in Nat, b \in Nat : a = QtyBefore(ls, j) /\ b = QtyBefore(ls, k) /\ a <= b
    BY <2>2, BeforeGrows
  <2>4. b < q
    BY <2>1, <2>3, MatchedIs
  <2>5. a < q
    BY <2>3, <2>4
  <2>6. Matched(ls, j, q) > 0
    BY <2>2, <2>3, <2>5, MatchedIs
  <2> QED
    BY <1>1, <2>2, <2>6 DEF Hit
<1> QED
  BY <1>1, <1>2, <1>3, InitialStretch

LEMMA UsedUpIs ==
    ASSUME NEW ls \in Seq(Lot), NEW q \in Nat \ {0}
    PROVE  /\ Cardinality(UsedUp(ls, q)) \in 0..Len(ls)
           /\ UsedUp(ls, q) = 1..Cardinality(UsedUp(ls, q))
<1>1. Len(ls) \in Nat /\ DOMAIN ls = 1..Len(ls)
  BY LotFacts
<1>2. UsedUp(ls, q) \in SUBSET (1..Len(ls))
  BY <1>1 DEF UsedUp
<1>3. ASSUME NEW k \in 1..Len(ls)
      PROVE  k \in UsedUp(ls, q) <=> QtyBefore(ls, k + 1) <= q
  <2>1. LotAfter(ls, q)[k].qty = ls[k].qty - Matched(ls, k, q)
    BY <1>1, LotFacts DEF LotAfter, Lot
  <2>2. PICK a \in Nat, b \in Nat : a = ls[k].qty /\ b = Matched(ls, k, q)
    BY LotFacts, MatchedIs
  <2>3. a - b = 0 <=> b = a
    OBVIOUS
  <2> QED
    BY <1>1, <2>1, <2>2, <2>3, MatchedIs DEF UsedUp
<1>4. ASSUME NEW k \in UsedUp(ls, q), NEW j \in 1..k PROVE j \in UsedUp(ls, q)
  <2>1. k \in 1..Len(ls)
    BY <1>2
  <2>2. j \in 1..Len(ls) /\ k + 1 \in 1..(Len(ls) + 1) /\ j + 1 \in 1..(k + 1)
    BY <1>1, <2>1
  <2>3. PICK a \in Nat, b \in Nat : a = QtyBefore(ls, j + 1) /\ b = QtyBefore(ls, k + 1) /\ a <= b
    BY <2>2, BeforeGrows
  <2>4. b <= q
    BY <1>3, <2>1, <2>3
  <2>5. a <= q
    BY <2>3, <2>4
  <2> QED
    BY <1>3, <2>2, <2>3, <2>5
<1> QED
  BY <1>1, <1>2, <1>4, InitialStretch

LEMMA LotsLeftIs ==
    ASSUME NEW ls \in Seq(Lot), NEW q \in Nat \ {0}
    PROVE  \E d \in 0..Len(ls) :
             /\ \A k \in 1..d : Matched(ls, k, q) = ls[k].qty
             /\ LotsLeft(ls, q) \in Seq(Lot)
             /\ Len(LotsLeft(ls, q)) = Len(ls) - d
             /\ \A k \in 1..(Len(ls) - d) :
                  /\ LotsLeft(ls, q)[k].price = ls[k + d].price
                  /\ LotsLeft(ls, q)[k].qty = ls[k + d].qty - Matched(ls, k + d, q)
<1> DEFINE n == Len(ls)
           d == Cardinality(UsedUp(ls, q))
           left == LotAfter(ls, q)
<1>1. n \in Nat /\ DOMAIN ls = 1..n
  BY LotFacts
<1>2. d \in 0..n /\ UsedUp(ls, q) = 1..d
  BY UsedUpIs
<1>3. LotsLeft(ls, q) = SubSeq(left, d + 1, n)
  BY <1>1 DEF LotsLeft, UsedUp, LotAfter
<1>4. ASSUME NEW k \in 1..n
      PROVE  /\ left[k].qty = ls[k].qty - Matched(ls, k, q)
             /\ left[k].price = ls[k].price /\ left[k].fees = ls[k].fees
             /\ k \in 1..d <=> left[k].qty = 0
             /\ left[k].qty # 0 => left[k] \in Lot
  <2>1. left[k] = [ls[k] EXCEPT !.qty = @ - Matched(ls, k, q)]
    BY <1>1 DEF LotAfter
  <2>2. ls[k] \in Lot
    BY LotFacts
  <2>3. /\ left[k] = [qty |-> ls[k].qty - Matched(ls, k, q), price |-> ls[k].price, fees |-> ls[k].fees]
    BY <2>1, <2>2 DEF Lot
  <2>4. k \in 1..d <=> left[k].qty = 0
    <3>1. k \in UsedUp(ls, q) <=> left[k].qty = 0
      BY <1>1 DEF UsedUp
    <3> QED
      BY <1>2, <3>1
  <2>5. ls[k].qty - Matched(ls, k, q) \in Nat
    <3>1. PICK a \in Nat, b \in Nat : a = ls[k].qty /\ b = Matched(ls, k, q) /\ b <= a
      <4>1. ls[k].qty \in Nat
        BY LotFacts
      <4>2. Matched(ls, k, q) \in Nat /\ Matched(ls, k, q) <= ls[k].qty
        BY MatchedIs
      <4> QED
        BY <4>1, <4>2
    <3> QED
      BY <3>1
  <2> HIDE DEF left, d
  <2> QED
    BY <2>2, <2>3, <2>4, <2>5 DEF Lot
<1> HIDE DEF left, d
<1>5. \A k \in (d + 1)..n : left[k] \in Lot
  <2> SUFFICES ASSUME NEW k \in (d + 1)..n PROVE left[k] \in Lot
    OBVIOUS
  <2>1. k \in 1..n /\ k \notin 1..d
    BY <1>1, <1>2
  <2> QED
    BY <1>4, <2>1
<1>6. d + 1 \in Int /\ n \in Int /\ d \in Nat
  BY <1>1, <1>2
<1>7. /\ SubSeq(left, d + 1, n) \in Seq(Lot)
      /\ Len(SubSeq(left, d + 1, n)) = IF d + 1 <= n THEN n - (d + 1) + 1 ELSE 0
      /\ \A k \in 1..(n - (d + 1) + 1) : SubSeq(left, d + 1, n)[k] = left[(d + 1) + k - 1]
  BY <1>5, <1>6, SubSeqProperties
<1>8. (IF d + 1 <= n THEN n - (d + 1) + 1 ELSE 0) = n - d /\ n - (d + 1) + 1 = n - d
  <2>0. d \in 0..n
    BY <1>2
  <2>1. PICK a \in Nat : a = n
    BY <1>1
  <2>2. PICK b \in 0..a : b = d
    BY <2>0, <2>1
  <2>3. (IF b + 1 <= a THEN a - (b + 1) + 1 ELSE 0) = a - b /\ a - (b + 1) + 1 = a - b
    OBVIOUS
  <2> QED
    BY <2>1, <2>2, <2>3
<1>9. ASSUME NEW k \in 1..(n - d)
      PROVE  /\ LotsLeft(ls, q)[k].price = ls[k + d].price
             /\ LotsLeft(ls, q)[k].qty = ls[k + d].qty - Matched(ls, k + d, q)
  <2>1. (d + 1) + k - 1 = k + d /\ k + d \in 1..n
    BY <1>1, <1>2
  <2>2. LotsLeft(ls, q)[k] = left[k + d]
    BY <1>3, <1>7, <1>8, <2>1
  <2> QED
    BY <1>4, <2>1, <2>2
<1>10. ASSUME NEW k \in 1..d PROVE Matched(ls, k, q) = ls[k].qty
  <2>1. k \in 1..n
    BY <1>1, <1>2
  <2>2. PICK a \in Nat, b \in Nat : a = ls[k].qty /\ b = Matched(ls, k, q)
    BY <2>1, LotFacts, MatchedIs
  <2>3. a - b = 0
    BY <1>4, <2>1, <2>2
  <2> QED
    BY <2>2, <2>3
<1> QED
  BY <1>2, <1>3, <1>7, <1>8, <1>9, <1>10

(* Lots weighed by a function of their price: their cost, their quantity,   *)
(* or what they make at a mark.                                             *)
WorthOf(g, ls) == [k \in DOMAIN ls |-> g[ls[k].price] * ls[k].qty]
Worth(g, ls) == SumFunctionOnSet(WorthOf(g, ls), 1..Len(ls))
TakenOf(g, ls, q) == [k \in DOMAIN ls |-> g[ls[k].price] * Matched(ls, k, q)]
Taken(g, ls, q) == SumFunctionOnSet(TakenOf(g, ls, q), 1..Len(ls))

LEMMA LotNumbers ==
    ASSUME NEW g \in [Int -> Int], NEW ls \in Seq(Lot), NEW q \in Nat \ {0}, NEW k \in 1..Len(ls)
    PROVE  g[ls[k].price] \in Int /\ ls[k].qty \in Int /\ Matched(ls, k, q) \in Int
<1>1. ls[k].price \in Int /\ ls[k].qty \in Int
  <2>1. ls[k].price \in Int /\ ls[k].qty \in Nat
    BY LotFacts
  <2> QED
    BY <2>1
<1>2. Matched(ls, k, q) \in Int
  <2>1. Matched(ls, k, q) \in Nat
    BY MatchedType
  <2> QED
    BY <2>1
<1>3. g[ls[k].price] \in Int
  BY <1>1
<1> QED
  BY <1>1, <1>2, <1>3

LEMMA WorthTypes ==
    ASSUME NEW g \in [Int -> Int], NEW ls \in Seq(Lot)
    PROVE  /\ \A k \in 1..Len(ls) : /\ WorthOf(g, ls)[k] = g[ls[k].price] * ls[k].qty
                                    /\ WorthOf(g, ls)[k] \in Int
           /\ Worth(g, ls) \in Int
<1>1. Len(ls) \in Nat /\ DOMAIN ls = 1..Len(ls) /\ IsFiniteSet(1..Len(ls))
  BY LotFacts
<1>2. ASSUME NEW k \in 1..Len(ls)
      PROVE  WorthOf(g, ls)[k] = g[ls[k].price] * ls[k].qty /\ WorthOf(g, ls)[k] \in Int
  <2>1. PICK a \in Int, b \in Int : a = g[ls[k].price] /\ b = ls[k].qty
    <3>1. 1 \in Nat \ {0}
      OBVIOUS
    <3> QED
      BY <3>1, LotNumbers
  <2>2. a * b \in Int
    OBVIOUS
  <2> QED
    BY <1>1, <2>1, <2>2 DEF WorthOf
<1> QED
  BY <1>1, <1>2, SumTakes DEF Worth

LEMMA TakenTypes ==
    ASSUME NEW g \in [Int -> Int], NEW ls \in Seq(Lot), NEW q \in Nat \ {0}
    PROVE  /\ \A k \in 1..Len(ls) : /\ TakenOf(g, ls, q)[k] = g[ls[k].price] * Matched(ls, k, q)
                                    /\ TakenOf(g, ls, q)[k] \in Int
           /\ Taken(g, ls, q) \in Int
<1>1. Len(ls) \in Nat /\ DOMAIN ls = 1..Len(ls) /\ IsFiniteSet(1..Len(ls))
  BY LotFacts
<1>2. ASSUME NEW k \in 1..Len(ls)
      PROVE  /\ TakenOf(g, ls, q)[k] = g[ls[k].price] * Matched(ls, k, q)
             /\ TakenOf(g, ls, q)[k] \in Int
  <2>1. PICK a \in Int, b \in Int : a = g[ls[k].price] /\ b = Matched(ls, k, q)
    BY LotNumbers
  <2>2. a * b \in Int
    OBVIOUS
  <2> QED
    BY <1>1, <2>1, <2>2 DEF TakenOf
<1> QED
  BY <1>1, <1>2, SumTakes DEF Taken

(* What a closing fill takes and what it leaves is what there was.          *)
LEMMA WorthOfTheRest ==
    ASSUME NEW g \in [Int -> Int], NEW ls \in Seq(Lot), NEW q \in Nat \ {0}
    PROVE  /\ LotsLeft(ls, q) \in Seq(Lot)
           /\ Worth(g, ls) = Taken(g, ls, q) + Worth(g, LotsLeft(ls, q))
<1> DEFINE n == Len(ls)
           all == 1..n
           rest == [k \in all |-> g[ls[k].price] * (ls[k].qty - Matched(ls, k, q))]
<1>1. n \in Nat /\ DOMAIN ls = all /\ IsFiniteSet(all)
  BY LotFacts
<1>2. ASSUME NEW k \in all
      PROVE  /\ rest[k] \in Int
             /\ WorthOf(g, ls)[k] = TakenOf(g, ls, q)[k] + rest[k]
  <2>1. PICK a \in Int, b \in Int, c \in Int :
          a = g[ls[k].price] /\ b = ls[k].qty /\ c = Matched(ls, k, q)
    BY LotNumbers
  <2>2. a * b = a * c + a * (b - c) /\ a * (b - c) \in Int
    OBVIOUS
  <2>3. rest[k] = a * (b - c)
    BY <2>1
  <2>4. WorthOf(g, ls)[k] = a * b
    BY <2>1, WorthTypes
  <2>5. TakenOf(g, ls, q)[k] = a * c
    BY <2>1, TakenTypes
  <2> QED
    BY <2>2, <2>3, <2>4, <2>5
<1>3. PICK d \in 0..n :
        /\ \A k \in 1..d : Matched(ls, k, q) = ls[k].qty
        /\ LotsLeft(ls, q) \in Seq(Lot)
        /\ Len(LotsLeft(ls, q)) = n - d
        /\ \A k \in 1..(n - d) :
             /\ LotsLeft(ls, q)[k].price = ls[k + d].price
             /\ LotsLeft(ls, q)[k].qty = ls[k + d].qty - Matched(ls, k + d, q)
  BY LotsLeftIs
<1> DEFINE ll == LotsLeft(ls, q)
           kept == (d + 1)..n
<1>4. /\ d \in Nat /\ n - d \in Nat /\ d + (n - d) = n
      /\ kept \subseteq all /\ \A k \in all \ kept : k \in 1..d
  <2>1. n \in Nat /\ d \in 0..n
    BY <1>1
  <2> HIDE DEF n
  <2> QED
    BY <2>1
<1>5. ASSUME NEW k \in all \ kept PROVE rest[k] = 0
  <2>1. k \in 1..d /\ k \in all
    BY <1>4
  <2>2. Matched(ls, k, q) = ls[k].qty
    BY <1>3, <2>1
  <2>3. PICK a \in Int, b \in Int : a = g[ls[k].price] /\ b = ls[k].qty
    BY <2>1, LotNumbers
  <2>4. a * (b - b) = 0
    OBVIOUS
  <2> QED
    BY <2>1, <2>2, <2>3, <2>4
<1>6. ASSUME NEW k \in 1..(n - d)
      PROVE  rest[k + d] \in Int /\ WorthOf(g, ll)[k] = rest[k + d]
  <2>1. k + d \in all
    BY <1>1, <1>4
  <2>2. WorthOf(g, ll)[k] = g[ll[k].price] * ll[k].qty
    BY <1>3, WorthTypes
  <2>3. ll[k].price = ls[k + d].price /\ ll[k].qty = ls[k + d].qty - Matched(ls, k + d, q)
    BY <1>3
  <2>4. rest[k + d] = g[ls[k + d].price] * (ls[k + d].qty - Matched(ls, k + d, q))
    BY <2>1
  <2>5. WorthOf(g, ll)[k] = rest[k + d]
    BY <2>2, <2>3, <2>4
  <2> QED
    BY <1>2, <2>1, <2>5
<1> HIDE DEF rest, all, kept, ll
<1>7. SumFunctionOnSet(WorthOf(g, ls), all)
        = SumFunctionOnSet(TakenOf(g, ls, q), all) + SumFunctionOnSet(rest, all)
  <2>1. \A k \in all : TakenOf(g, ls, q)[k] \in Int
    BY TakenTypes DEF all
  <2>2. \A k \in all : /\ TakenOf(g, ls, q)[k] \in Int /\ rest[k] \in Int
                        /\ WorthOf(g, ls)[k] = TakenOf(g, ls, q)[k] + rest[k]
    BY <1>2, <2>1
  <2>3. IsFiniteSet(all)
    BY <1>1
  <2> QED
    BY <2>2, <2>3, SumCombines
<1>8. SumFunctionOnSet(rest, all) = SumFunctionOnSet(rest, kept)
  BY <1>1, <1>2, <1>4, <1>5, SumOfPart
<1>9. SumFunctionOnSet(WorthOf(g, ll), 1..(n - d)) = SumFunctionOnSet(rest, (d + 1)..(d + (n - d)))
  BY <1>4, <1>6, SumShifts
<1>10. SumFunctionOnSet(WorthOf(g, ll), 1..(n - d)) = SumFunctionOnSet(rest, kept)
  BY <1>4, <1>9 DEF kept
<1> QED
  BY <1>3, <1>7, <1>8, <1>10 DEF Worth, Taken, all, ll

LEMMA WorthOfAppended ==
    ASSUME NEW g \in [Int -> Int], NEW ls \in Seq(Lot), NEW lot \in Lot
    PROVE  /\ Append(ls, lot) \in Seq(Lot)
           /\ Worth(g, Append(ls, lot)) = Worth(g, ls) + g[lot.price] * lot.qty
<1> DEFINE n == Len(ls)
           more == Append(ls, lot)
<1>1. /\ more \in Seq(Lot) /\ Len(more) = n + 1
      /\ \A k \in 1..n : more[k] = ls[k]
      /\ more[n + 1] = lot
  BY AppendProperties
<1>2. n \in Nat /\ IsFiniteSet(1..n)
  BY LotFacts
<1> HIDE DEF more
<1>3. \A k \in 1..(n + 1) : /\ WorthOf(g, more)[k] \in Int
                            /\ WorthOf(g, more)[k] = g[more[k].price] * more[k].qty
  BY <1>1, WorthTypes
<1>4. SumFunctionOnSet(WorthOf(g, more), 1..(n + 1))
        = WorthOf(g, more)[n + 1] + SumFunctionOnSet(WorthOf(g, more), 1..n)
  BY <1>2, <1>3, SumNext
<1>5. SumFunctionOnSet(WorthOf(g, more), 1..n) = SumFunctionOnSet(WorthOf(g, ls), 1..n)
  <2>1. ASSUME NEW k \in 1..n
        PROVE  WorthOf(g, ls)[k] \in Int /\ WorthOf(g, more)[k] = WorthOf(g, ls)[k]
    <3>1. k \in 1..(n + 1)
      BY <1>2
    <3> QED
      BY <1>1, <1>3, <3>1, WorthTypes
  <2> QED
    BY <1>2, <2>1, SumAgrees
<1>6. PICK a \in Int, b \in Int : a = Worth(g, ls) /\ b = WorthOf(g, more)[n + 1]
  <2>1. n + 1 \in 1..(n + 1)
    BY <1>2
  <2> QED
    BY <1>3, <2>1, WorthTypes
<1>7. b = g[lot.price] * lot.qty
  <2>1. n + 1 \in 1..(n + 1)
    BY <1>2
  <2> QED
    BY <1>1, <1>3, <1>6, <2>1
<1>8. b + a = a + b
  OBVIOUS
<1> QED
  BY <1>1, <1>4, <1>5, <1>6, <1>7, <1>8 DEF Worth, more

LEMMA WorthOfNone ==
    ASSUME NEW g
    PROVE  Worth(g, <<>>) = 0
<1>1. 1..Len(<<>>) = {}
  BY EmptySeq
<1> QED
  BY <1>1, SumEmpty DEF Worth

-----------------------------------------------------------------------------
(* What lots hold, cost and make.                                           *)

Ones == [p \in Int |-> 1]
AtPrice(m) == [p \in Int |-> p * m]

LEMMA OnesType == Ones \in [Int -> Int]
  BY DEF Ones

LEMMA AtPriceType ==
    ASSUME NEW m \in Int
    PROVE  AtPrice(m) \in [Int -> Int]
  BY DEF AtPrice

LEMMA LotQtyIs ==
    ASSUME NEW ls \in Seq(Lot)
    PROVE  LotQty(ls) = Worth(Ones, ls)
<1>1. Len(ls) \in Nat /\ IsFiniteSet(1..Len(ls)) /\ (Len(ls) + 1) - 1 = Len(ls)
  BY LotFacts
<1>2. \A k \in 1..Len(ls) : WorthOf(Ones, ls)[k] \in Int /\ Units(ls)[k] = WorthOf(Ones, ls)[k]
  <2> SUFFICES ASSUME NEW k \in 1..Len(ls)
               PROVE  WorthOf(Ones, ls)[k] \in Int /\ Units(ls)[k] = WorthOf(Ones, ls)[k]
    OBVIOUS
  <2>1. WorthOf(Ones, ls)[k] = Ones[ls[k].price] * ls[k].qty /\ WorthOf(Ones, ls)[k] \in Int
    BY WorthTypes, OnesType
  <2>2. PICK n \in Int : n = ls[k].qty
    BY LotFacts
  <2>3. Ones[ls[k].price] = 1
    BY LotFacts DEF Ones
  <2>4. 1 * n = n
    OBVIOUS
  <2>5. Units(ls)[k] = ls[k].qty
    BY LotFacts
  <2> QED
    BY <2>1, <2>2, <2>3, <2>4, <2>5
<1>3. SumFunctionOnSet(Units(ls), 1..Len(ls)) = SumFunctionOnSet(WorthOf(Ones, ls), 1..Len(ls))
  BY <1>1, <1>2, SumAgrees
<1> QED
  BY <1>1, <1>3 DEF LotQty, QtyBefore, Units, Worth

LEMMA TakenUnits ==
    ASSUME NEW ls \in Seq(Lot), NEW q \in Nat \ {0}
    PROVE  Taken(Ones, ls, q) = Lesser(q, LotQty(ls))
<1>1. \A k \in 1..Len(ls) : TakenOf(Ones, ls, q)[k] = Matched(ls, k, q)
  <2> SUFFICES ASSUME NEW k \in 1..Len(ls) PROVE TakenOf(Ones, ls, q)[k] = Matched(ls, k, q)
    OBVIOUS
  <2>1. TakenOf(Ones, ls, q)[k] = Ones[ls[k].price] * Matched(ls, k, q)
    BY TakenTypes, OnesType
  <2>2. PICK n \in Int : n = Matched(ls, k, q)
    BY MatchedIs
  <2>3. Ones[ls[k].price] = 1
    BY LotFacts DEF Ones
  <2>4. 1 * n = n
    OBVIOUS
  <2> QED
    BY <2>1, <2>2, <2>3, <2>4
<1> QED
  BY <1>1, MatchedSum DEF Taken

CostOfLots(m, ls) == SumFunction([k \in DOMAIN ls |-> ls[k].price * ls[k].qty * m])

LEMMA CostOfLotsIs ==
    ASSUME NEW ls \in Seq(Lot), NEW m \in Int
    PROVE  CostOfLots(m, ls) = Worth(AtPrice(m), ls)
<1> DEFINE w == [k \in DOMAIN ls |-> ls[k].price * ls[k].qty * m]
<1>1. DOMAIN ls = 1..Len(ls) /\ IsFiniteSet(1..Len(ls))
  BY LotFacts
<1>2. ASSUME NEW k \in 1..Len(ls)
      PROVE  WorthOf(AtPrice(m), ls)[k] \in Int /\ w[k] = WorthOf(AtPrice(m), ls)[k]
  <2>1. /\ WorthOf(AtPrice(m), ls)[k] = AtPrice(m)[ls[k].price] * ls[k].qty
        /\ WorthOf(AtPrice(m), ls)[k] \in Int
    BY WorthTypes, AtPriceType
  <2>2. PICK p \in Int, n \in Int : p = ls[k].price /\ n = ls[k].qty
    BY LotFacts
  <2>3. AtPrice(m)[p] = p * m
    BY DEF AtPrice
  <2>4. (p * m) * n = p * n * m
    OBVIOUS
  <2>5. w[k] = p * n * m
    BY <1>1, <2>2
  <2> QED
    BY <2>1, <2>2, <2>3, <2>4, <2>5
<1>3. DOMAIN w = 1..Len(ls)
  BY <1>1
<1> HIDE DEF w
<1>4. SumFunctionOnSet(w, 1..Len(ls)) = SumFunctionOnSet(WorthOf(AtPrice(m), ls), 1..Len(ls))
  BY <1>1, <1>2, SumAgrees
<1>5. SumFunction(w) = Worth(AtPrice(m), ls)
  BY <1>3, <1>4 DEF SumFunction, Worth
<1> QED
  BY <1>5 DEF w, CostOfLots

-----------------------------------------------------------------------------
(* Units bought at one price each and sold at another make what they are    *)
(* sold for less what they cost; units sold short the opposite.             *)
TradeSides == {"LONG", "SHORT"}
SignOf(side) == IF side = "LONG" THEN 1 ELSE IF side = "SHORT" THEN -1 ELSE 0

AreGains(A, side, x, m, price, count, cost, gain) ==
    \A k \in A : /\ price[k] \in Int /\ count[k] \in Int
                 /\ cost[k] = (price[k] * m) * count[k]
                 /\ gain[k] = TradeGain(side, price[k], x, count[k]) * m

LEMMA GainsAddUp ==
    ASSUME NEW A, IsFiniteSet(A), NEW side \in TradeSides, NEW x \in Int, NEW m \in Int,
           NEW price, NEW count, NEW cost, NEW gain,
           AreGains(A, side, x, m, price, count, cost, gain)
    PROVE  /\ SumFunctionOnSet(count, A) \in Int /\ SumFunctionOnSet(cost, A) \in Int
           /\ SumFunctionOnSet(gain, A)
                = SignOf(side) * ((x * m) * SumFunctionOnSet(count, A) - SumFunctionOnSet(cost, A))
<1> DEFINE sold == [k \in A |-> (x * m) * count[k]]
           paid == [k \in A |-> (-1) * cost[k]]
           made == [k \in A |-> sold[k] + paid[k]]
           s == SignOf(side)
<1>1. s \in Int /\ x * m \in Int /\ -1 \in Int
  BY DEF SignOf
<1>2. ASSUME NEW k \in A
      PROVE  /\ cost[k] \in Int /\ count[k] \in Int
             /\ sold[k] \in Int /\ sold[k] = (x * m) * count[k]
             /\ paid[k] \in Int /\ paid[k] = (-1) * cost[k]
             /\ made[k] \in Int /\ made[k] = sold[k] + paid[k]
             /\ gain[k] = s * made[k]
  <2>0. /\ price[k] \in Int /\ count[k] \in Int
        /\ cost[k] = (price[k] * m) * count[k]
        /\ gain[k] = TradeGain(side, price[k], x, count[k]) * m
    BY DEF AreGains
  <2>1. PICK p \in Int, n \in Int : p = price[k] /\ n = count[k]
    BY <2>0
  <2>2. PICK c \in Int : c = (p * m) * n
    OBVIOUS
  <2>3. PICK y \in Int : y = (x * m) * n
    OBVIOUS
  <2>4. cost[k] = c
    BY <2>0, <2>1, <2>2
  <2>5. sold[k] = y /\ paid[k] = (-1) * c /\ made[k] = y + (-1) * c
    BY <2>1, <2>3, <2>4
  <2>6. gain[k] = s * (y + (-1) * c)
    <3>1. gain[k] = TradeGain(side, p, x, n) * m
      BY <2>0, <2>1
    <3>2. CASE side = "LONG"
      <4>1. (x - p) * n * m = 1 * (y + (-1) * c)
        BY <2>2, <2>3
      <4> QED
        BY <3>1, <3>2, <4>1 DEF TradeGain, SignOf
    <3>3. CASE side = "SHORT"
      <4>1. (p - x) * n * m = (-1) * (y + (-1) * c)
        BY <2>2, <2>3
      <4> QED
        BY <3>1, <3>3, <4>1 DEF TradeGain, SignOf
    <3> QED
      BY <3>2, <3>3 DEF TradeSides
  <2> HIDE DEF s, sold, paid, made
  <2> QED
    BY <2>1, <2>3, <2>4, <2>5, <2>6
<1> HIDE DEF s, sold, paid, made
<1>3. SumFunctionOnSet(gain, A) = s * SumFunctionOnSet(made, A)
  BY <1>1, <1>2, SumScales
<1>4. SumFunctionOnSet(made, A) = SumFunctionOnSet(sold, A) + SumFunctionOnSet(paid, A)
  BY <1>2, SumCombines
<1>5. SumFunctionOnSet(sold, A) = (x * m) * SumFunctionOnSet(count, A)
  <2>1. PICK c \in Int : c = x * m
    BY <1>1
  <2> QED
    BY <1>2, <2>1, SumScales
<1>6. SumFunctionOnSet(paid, A) = (-1) * SumFunctionOnSet(cost, A)
  BY <1>1, <1>2, SumScales
<1>7. PICK a \in Int, b \in Int : a = SumFunctionOnSet(count, A) /\ b = SumFunctionOnSet(cost, A)
  BY <1>2, SumTakes
<1>8. (x * m) * a + (-1) * b = (x * m) * a - b
  OBVIOUS
<1> QED
  BY <1>3, <1>4, <1>5, <1>6, <1>7, <1>8 DEF s

GainOfLots(side, m, mark, ls) ==
    SumFunction([k \in DOMAIN ls |-> TradeGain(side, ls[k].price, mark, ls[k].qty) * m])

LEMMA GainOfLotsIs ==
    ASSUME NEW ls \in Seq(Lot), NEW side \in TradeSides, NEW m \in Int, NEW mark \in Int
    PROVE  GainOfLots(side, m, mark, ls)
             = SignOf(side) * ((mark * m) * LotQty(ls) - CostOfLots(m, ls))
<1> DEFINE A == 1..Len(ls)
           price == [k \in A |-> ls[k].price]
           gain == [k \in DOMAIN ls |-> TradeGain(side, ls[k].price, mark, ls[k].qty) * m]
           count == WorthOf(Ones, ls)
           cost == WorthOf(AtPrice(m), ls)
<1>1. DOMAIN ls = A /\ IsFiniteSet(A)
  BY LotFacts
<1>2. ASSUME NEW k \in A
      PROVE  /\ price[k] \in Int /\ count[k] \in Int
             /\ cost[k] = (price[k] * m) * count[k]
             /\ gain[k] = TradeGain(side, price[k], mark, count[k]) * m
  <2>1. PICK p \in Int, n \in Int : p = ls[k].price /\ n = ls[k].qty
    BY LotFacts
  <2>2. count[k] = n
    <3>1. count[k] = Ones[p] * n
      BY <2>1, WorthTypes, OnesType
    <3>2. Ones[p] = 1 /\ 1 * n = n
      BY DEF Ones
    <3> QED
      BY <3>1, <3>2
  <2>3. cost[k] = (p * m) * n
    <3>1. cost[k] = AtPrice(m)[p] * n
      BY <2>1, WorthTypes, AtPriceType
    <3> QED
      BY <3>1 DEF AtPrice
  <2>4. price[k] = p /\ gain[k] = TradeGain(side, p, mark, n) * m
    BY <1>1, <2>1
  <2> HIDE DEF price, gain, count, cost
  <2> QED
    BY <2>2, <2>3, <2>4
<1>3. DOMAIN gain = A
  BY <1>1
<1> HIDE DEF price, gain, count, cost, A
<1>4. SumFunctionOnSet(gain, A)
        = SignOf(side) * ((mark * m) * SumFunctionOnSet(count, A) - SumFunctionOnSet(cost, A))
  <2>1. AreGains(A, side, mark, m, price, count, cost, gain)
    BY <1>2 DEF AreGains
  <2> QED
    BY <1>1, <2>1, GainsAddUp
<1>5. SumFunctionOnSet(count, A) = LotQty(ls)
  BY LotQtyIs DEF A, count, Worth
<1>6. SumFunctionOnSet(cost, A) = CostOfLots(m, ls)
  BY CostOfLotsIs DEF A, cost, Worth
<1>7. GainOfLots(side, m, mark, ls) = SumFunctionOnSet(gain, A)
  BY <1>3 DEF GainOfLots, SumFunction, gain
<1> QED
  BY <1>4, <1>5, <1>6, <1>7

-----------------------------------------------------------------------------
(* What trades made and turned over, and the trades of one closing fill.    *)
Trade == [inst : Instruments, side : TradeSides, qty : Nat \ {0},
          entry : Int, exit : Int, fees : Int]

MadeOf(i, ts) == [k \in DOMAIN ts |-> IF ts[k].inst # i THEN 0 ELSE
                    TradeGain(ts[k].side, ts[k].entry, ts[k].exit, ts[k].qty) * Multiplier[i]]
Made(i, ts) == SumFunction(MadeOf(i, ts))
TurnedOf(ts) == [k \in DOMAIN ts |->
                    (ts[k].entry + ts[k].exit) * ts[k].qty * Multiplier[ts[k].inst]]
Turned(ts) == SumFunction(TurnedOf(ts))

LEMMA TradeSums ==
    ASSUME NEW ts \in Seq(Trade), NEW i \in Instruments
    PROVE  /\ Len(ts) \in Nat /\ DOMAIN ts = 1..Len(ts) /\ IsFiniteSet(1..Len(ts))
           /\ \A k \in 1..Len(ts) : MadeOf(i, ts)[k] \in Int /\ TurnedOf(ts)[k] \in Int
           /\ Made(i, ts) = SumFunctionOnSet(MadeOf(i, ts), 1..Len(ts))
           /\ Turned(ts) = SumFunctionOnSet(TurnedOf(ts), 1..Len(ts))
           /\ Made(i, ts) \in Int /\ Turned(ts) \in Int
<1>1. Len(ts) \in Nat /\ DOMAIN ts = 1..Len(ts) /\ IsFiniteSet(1..Len(ts))
  <2>1. Len(ts) \in Nat /\ DOMAIN ts = 1..Len(ts)
    BY LenProperties
  <2> QED
    BY <2>1, FS_Interval
<1>2. ASSUME NEW k \in 1..Len(ts) PROVE MadeOf(i, ts)[k] \in Int /\ TurnedOf(ts)[k] \in Int
  <2>1. ts[k] \in Trade
    BY ElementOfSeq
  <2>2. PICK a \in Int, b \in Int, n \in Int, m \in Int, l \in Int :
          /\ a = ts[k].entry /\ b = ts[k].exit /\ n = ts[k].qty
          /\ m = Multiplier[i] /\ l = Multiplier[ts[k].inst]
    <3>1. ts[k].entry \in Int /\ ts[k].exit \in Int /\ ts[k].qty \in Int /\ ts[k].inst \in Instruments
      BY <2>1 DEF Trade
    <3>2. Multiplier[i] \in Int /\ Multiplier[ts[k].inst] \in Int
      BY <3>1, PortfolioAssumption
    <3> QED
      BY <3>1, <3>2
  <2>3. TurnedOf(ts)[k] = (a + b) * n * l
    BY <1>1, <2>2 DEF TurnedOf
  <2>4. MadeOf(i, ts)[k] \in {0, (b - a) * n * m, (a - b) * n * m}
    BY <1>1, <2>2 DEF MadeOf, TradeGain
  <2>5. (a + b) * n * l \in Int /\ (b - a) * n * m \in Int /\ (a - b) * n * m \in Int
    OBVIOUS
  <2> QED
    BY <2>3, <2>4, <2>5
<1>3. /\ Made(i, ts) = SumFunctionOnSet(MadeOf(i, ts), 1..Len(ts))
      /\ Turned(ts) = SumFunctionOnSet(TurnedOf(ts), 1..Len(ts))
  BY <1>1 DEF Made, Turned, MadeOf, TurnedOf, SumFunction
<1> QED
  BY <1>1, <1>2, <1>3, SumTakes

LEMMA TradesGoOn ==
    ASSUME NEW ts \in Seq(Trade), NEW more \in Seq(Trade), NEW i \in Instruments
    PROVE  /\ ts \o more \in Seq(Trade)
           /\ Made(i, ts \o more) = Made(i, ts) + Made(i, more)
           /\ Turned(ts \o more) = Turned(ts) + Turned(more)
<1> DEFINE m == Len(ts)
           h == Len(more)
           both == ts \o more
<1>1. /\ both \in Seq(Trade) /\ Len(both) = m + h
      /\ \A k \in 1..(m + h) : both[k] = IF k <= m THEN ts[k] ELSE more[k - m]
  BY ConcatProperties
<1>2. /\ m \in Nat /\ h \in Nat
      /\ DOMAIN ts = 1..m /\ DOMAIN more = 1..h /\ DOMAIN both = 1..(m + h)
  BY <1>1, TradeSums
<1> HIDE DEF both
<1>3. ASSUME NEW k \in 1..m
      PROVE  /\ MadeOf(i, both)[k] = MadeOf(i, ts)[k] /\ MadeOf(i, ts)[k] \in Int
             /\ TurnedOf(both)[k] = TurnedOf(ts)[k] /\ TurnedOf(ts)[k] \in Int
  <2>1. k \in 1..(m + h) /\ k <= m
    BY <1>2
  <2>2. both[k] = ts[k]
    BY <1>1, <2>1
  <2>3. MadeOf(i, both)[k] = MadeOf(i, ts)[k] /\ TurnedOf(both)[k] = TurnedOf(ts)[k]
    BY <1>2, <2>1, <2>2 DEF MadeOf, TurnedOf
  <2> QED
    BY <2>3, TradeSums
<1>4. ASSUME NEW k \in 1..h
      PROVE  /\ MadeOf(i, both)[k + m] = MadeOf(i, more)[k] /\ MadeOf(i, more)[k] \in Int
             /\ TurnedOf(both)[k + m] = TurnedOf(more)[k] /\ TurnedOf(more)[k] \in Int
  <2>1. k + m \in 1..(m + h) /\ ~(k + m <= m) /\ (k + m) - m = k
    BY <1>2
  <2>2. both[k + m] = more[k]
    BY <1>1, <2>1
  <2>3. MadeOf(i, both)[k + m] = MadeOf(i, more)[k] /\ TurnedOf(both)[k + m] = TurnedOf(more)[k]
    BY <1>2, <2>1, <2>2 DEF MadeOf, TurnedOf
  <2> QED
    BY <2>3, TradeSums
<1> HIDE DEF m, h
<1>5. SumFunctionOnSet(MadeOf(i, both), 1..(m + h))
        = SumFunctionOnSet(MadeOf(i, ts), 1..m) + SumFunctionOnSet(MadeOf(i, more), 1..h)
  <2>1. Joins(MadeOf(i, both), MadeOf(i, ts), m, MadeOf(i, more), h)
    BY <1>2, <1>3, <1>4 DEF Joins
  <2> QED
    BY <2>1, SumFollows
<1>6. SumFunctionOnSet(TurnedOf(both), 1..(m + h))
        = SumFunctionOnSet(TurnedOf(ts), 1..m) + SumFunctionOnSet(TurnedOf(more), 1..h)
  <2>1. Joins(TurnedOf(both), TurnedOf(ts), m, TurnedOf(more), h)
    BY <1>2, <1>3, <1>4 DEF Joins
  <2> QED
    BY <2>1, SumFollows
<1> QED
  BY <1>1, <1>5, <1>6, TradeSums DEF both, m, h

(* The trades of a closing fill make what its units are sold for less what  *)
(* the lots they come from cost, the opposite if they were sold first.      *)
Closed(i, ls, q, price, fee) ==
    [k \in 1..Cardinality(Hit(ls, q)) |-> RoundTrip(i, ls[k], Matched(ls, k, q), price, fee, q)]

LEMMA ClosedIsTrades ==
    ASSUME NEW ls \in Seq(Lot), NEW q \in Nat \ {0}, NEW i \in Instruments,
           direction[i] \in TradeSides, NEW price \in Int, NEW fee \in Int
    PROVE  /\ Closed(i, ls, q, price, fee) \in Seq(Trade)
           /\ Len(Closed(i, ls, q, price, fee)) = Cardinality(Hit(ls, q))
           /\ \A k \in 1..Cardinality(Hit(ls, q)) :
                LET t == Closed(i, ls, q, price, fee)[k] IN
                /\ k \in 1..Len(ls)
                /\ t.inst = i /\ t.side = direction[i] /\ t.qty = Matched(ls, k, q)
                /\ t.entry = ls[k].price /\ t.exit = price
<1> DEFINE h == Cardinality(Hit(ls, q))
           new == Closed(i, ls, q, price, fee)
<1>1. Len(ls) \in Nat /\ DOMAIN ls = 1..Len(ls) /\ h \in 0..Len(ls) /\ Hit(ls, q) = 1..h
  BY LotFacts, HitIs
<1>2. h \in Nat /\ 1..h \subseteq 1..Len(ls)
  BY <1>1
<1>3. ASSUME NEW k \in 1..h
      PROVE  /\ k \in 1..Len(ls)
             /\ new[k] = RoundTrip(i, ls[k], Matched(ls, k, q), price, fee, q)
             /\ new[k] \in Trade
  <2>1. k \in 1..Len(ls)
    BY <1>2
  <2>2. Matched(ls, k, q) > 0
    BY <1>1 DEF Hit
  <2>3. PICK n \in Nat \ {0} : n = Matched(ls, k, q)
    <3>1. Matched(ls, k, q) \in Nat
      BY <2>1, MatchedType
    <3> QED
      BY <2>2, <3>1
  <2>4. PICK a \in Nat \ {0}, p \in Int, f \in Int :
          a = ls[k].qty /\ p = ls[k].price /\ f = ls[k].fees
    <3>1. ls[k].qty \in Nat \ {0}
      BY <2>1, LotFacts
    <3>2. ls[k].price \in Int /\ ls[k].fees \in Int
      BY <2>1, LotFacts
    <3> QED
      BY <3>1, <3>2
  <2>5. FeeShare(f, a, n) \in Int /\ FeeShare(fee, q, n) \in Int
    BY DEF FeeShare
  <2>6. RoundTrip(i, ls[k], n, price, fee, q) \in Trade
    BY <2>4, <2>5 DEF RoundTrip, Trade
  <2>7. new[k] = RoundTrip(i, ls[k], Matched(ls, k, q), price, fee, q)
    BY DEF Closed
  <2> QED
    BY <2>1, <2>3, <2>6, <2>7
<1>4. new \in Seq(Trade) /\ Len(new) = h
  <2>1. new \in [1..h -> Trade]
    BY <1>3 DEF Closed
  <2> HIDE DEF new, h
  <2> QED
    BY <1>2, <2>1
<1> QED
  BY <1>3, <1>4 DEF RoundTrip

LEMMA ClosedMakes ==
    ASSUME NEW ls \in Seq(Lot), NEW q \in Nat \ {0}, NEW i \in Instruments,
           direction[i] \in TradeSides, NEW price \in Int, NEW fee \in Int
    PROVE  LET new == Closed(i, ls, q, price, fee)
               m == Multiplier[i]
               units == Lesser(q, LotQty(ls))
               cost == Taken(AtPrice(m), ls, q)
           IN  /\ units \in Int /\ cost \in Int
               /\ Made(i, new) = SignOf(direction[i]) * ((price * m) * units - cost)
               /\ Turned(new) = (price * m) * units + cost
               /\ \A j \in Instruments \ {i} : Made(j, new) = 0
<1> DEFINE new == Closed(i, ls, q, price, fee)
           m == Multiplier[i]
           h == Cardinality(Hit(ls, q))
           A == 1..Len(ls)
           entry == [k \in A |-> ls[k].price]
           count == TakenOf(Ones, ls, q)
           cost == TakenOf(AtPrice(m), ls, q)
           gain == [k \in A |-> TradeGain(direction[i], ls[k].price, price, Matched(ls, k, q)) * m]
           sold == [k \in A |-> (price * m) * count[k]]
           both == [k \in A |-> sold[k] + cost[k]]
<1>1. /\ Len(ls) \in Nat /\ IsFiniteSet(A) /\ DOMAIN ls = A
      /\ h \in 0..Len(ls) /\ Hit(ls, q) = 1..h
  BY LotFacts, HitIs
<1>2. m \in Int /\ price * m \in Int /\ AtPrice(m) \in [Int -> Int]
  <2>1. PICK l \in Int : l = m
    BY PortfolioAssumption
  <2>2. price * l \in Int
    OBVIOUS
  <2>3. AtPrice(l) \in [Int -> Int]
    BY AtPriceType
  <2> QED
    BY <2>1, <2>2, <2>3
<1>3. /\ new \in Seq(Trade) /\ Len(new) = h /\ DOMAIN new = 1..h
      /\ \A k \in 1..h : /\ k \in A /\ new[k].inst = i /\ new[k].side = direction[i]
                         /\ new[k].qty = Matched(ls, k, q)
                         /\ new[k].entry = ls[k].price /\ new[k].exit = price
  <2>1. new \in Seq(Trade) /\ Len(new) = h
    BY ClosedIsTrades
  <2>2. DOMAIN new = 1..h
    BY <2>1, TradeSums
  <2>3. \A k \in 1..h : /\ k \in A /\ new[k].inst = i /\ new[k].side = direction[i]
                         /\ new[k].qty = Matched(ls, k, q)
                         /\ new[k].entry = ls[k].price /\ new[k].exit = price
    BY ClosedIsTrades
  <2> QED
    BY <2>1, <2>2, <2>3
<1>4. ASSUME NEW k \in A
      PROVE  /\ entry[k] \in Int /\ count[k] \in Int /\ cost[k] \in Int
             /\ cost[k] = (entry[k] * m) * count[k]
             /\ gain[k] = TradeGain(direction[i], entry[k], price, count[k]) * m
             /\ gain[k] \in Int
             /\ sold[k] \in Int /\ sold[k] = (price * m) * count[k]
             /\ both[k] \in Int /\ both[k] = sold[k] + cost[k]
             /\ both[k] = (entry[k] + price) * count[k] * m
             /\ k \notin 1..h => gain[k] = 0 /\ both[k] = 0
             /\ count[k] = Matched(ls, k, q)
  <2>1. PICK p \in Int, n \in Nat, l \in Int :
          p = ls[k].price /\ n = Matched(ls, k, q) /\ l = m
    <3>1. ls[k].price \in Int /\ m \in Int
      BY <1>2, LotFacts
    <3>2. Matched(ls, k, q) \in Nat
      BY MatchedType
    <3> QED
      BY <3>1, <3>2
  <2>2. count[k] = n
    <3>1. count[k] = Ones[p] * n
      BY <2>1, TakenTypes, OnesType
    <3>2. Ones[p] = 1 /\ 1 * n = n
      BY DEF Ones
    <3> QED
      BY <3>1, <3>2
  <2>3. cost[k] = (p * l) * n
    <3>1. cost[k] = AtPrice(m)[p] * n
      BY <1>2, <2>1, TakenTypes
    <3> QED
      BY <2>1, <3>1 DEF AtPrice
  <2>4. entry[k] = p /\ gain[k] = TradeGain(direction[i], p, price, n) * l
    BY <2>1
  <2>5. gain[k] \in {(price - p) * n * l, (p - price) * n * l}
    BY <2>4 DEF TradeGain
  <2>6. sold[k] = (price * l) * n /\ both[k] = (price * l) * n + (p * l) * n
    BY <2>1, <2>2, <2>3
  <2>7. /\ (price * l) * n \in Int /\ (p * l) * n \in Int
        /\ (price * l) * n + (p * l) * n = (p + price) * n * l
        /\ (price - p) * n * l \in Int /\ (p - price) * n * l \in Int
    OBVIOUS
  <2>8. ASSUME k \notin 1..h PROVE gain[k] = 0 /\ both[k] = 0
    <3>1. ~(n > 0)
      BY <1>1, <2>1, <2>8 DEF Hit
    <3>2. n = 0
      BY <3>1
    <3>3. /\ (price - p) * 0 * l = 0 /\ (p - price) * 0 * l = 0
          /\ (price * l) * 0 + (p * l) * 0 = 0
      OBVIOUS
    <3>4. /\ (price - p) * n * l = 0 /\ (p - price) * n * l = 0
          /\ (price * l) * n + (p * l) * n = 0
      BY <3>2, <3>3
    <3> HIDE DEF gain, both
    <3> QED
      BY <2>5, <2>6, <3>4
  <2> HIDE DEF entry, count, cost, gain, sold, both, m, h, A
  <2>9. entry[k] \in Int /\ count[k] \in Int /\ count[k] = Matched(ls, k, q)
    <3>1. n \in Int
      OBVIOUS
    <3>2. entry[k] = p /\ count[k] = n /\ n = Matched(ls, k, q)
      BY <2>1, <2>2, <2>4
    <3> QED
      BY <3>1, <3>2
  <2>10. cost[k] \in Int /\ sold[k] \in Int /\ both[k] \in Int /\ gain[k] \in Int
    <3>1. cost[k] \in Int
      BY <2>3, <2>7
    <3>2. sold[k] \in Int
      BY <2>6, <2>7
    <3>3. (price * l) * n + (p * l) * n \in Int
      BY <2>7
    <3>4. both[k] \in Int
      BY <2>6, <3>3
    <3>5. gain[k] \in Int
      BY <2>5, <2>7
    <3> QED
      BY <3>1, <3>2, <3>4, <3>5
  <2>11. cost[k] = (entry[k] * m) * count[k] /\ sold[k] = (price * m) * count[k]
    BY <2>1, <2>2, <2>3, <2>4, <2>6
  <2>12. gain[k] = TradeGain(direction[i], entry[k], price, count[k]) * m
    BY <2>1, <2>2, <2>4
  <2>13. both[k] = sold[k] + cost[k]
    BY <2>3, <2>6
  <2>14. both[k] = (entry[k] + price) * count[k] * m
    BY <2>1, <2>2, <2>4, <2>6, <2>7
  <2> QED
    BY <2>8, <2>9, <2>10, <2>11, <2>12, <2>13, <2>14
<1>5. ASSUME NEW k \in 1..h
      PROVE  MadeOf(i, new)[k] = gain[k] /\ TurnedOf(new)[k] = both[k]
  <2>1. k \in A /\ k \in DOMAIN new
    BY <1>3
  <2>2. MadeOf(i, new)[k] = TradeGain(direction[i], ls[k].price, price, Matched(ls, k, q)) * m
    BY <1>3, <2>1 DEF MadeOf
  <2>3. TurnedOf(new)[k] = (ls[k].price + price) * Matched(ls, k, q) * m
    BY <1>3, <2>1 DEF TurnedOf
  <2>4. entry[k] = ls[k].price /\ count[k] = Matched(ls, k, q)
    BY <1>4, <2>1
  <2>5. both[k] = (ls[k].price + price) * Matched(ls, k, q) * m
    <3>1. both[k] = (entry[k] + price) * count[k] * m
      BY <1>4, <2>1
    <3> QED
      BY <2>4, <3>1
  <2> QED
    BY <2>1, <2>2, <2>3, <2>5
<1> HIDE DEF new, m, h, A, entry, count, cost, gain, sold, both
<1>6. \A k \in A : k \notin 1..h => gain[k] = 0 /\ both[k] = 0
  BY <1>4
<1>7. /\ 1..h \in SUBSET A /\ IsFiniteSet(1..h)
      /\ \A k \in A \ (1..h) : gain[k] = 0 /\ both[k] = 0
  <2>1. 1..h \in SUBSET A
    BY <1>3
  <2> QED
    BY <1>1, <1>6, <2>1, FS_Subset
<1>8. /\ SumFunctionOnSet(MadeOf(i, new), 1..h) = SumFunctionOnSet(gain, A)
      /\ SumFunctionOnSet(TurnedOf(new), 1..h) = SumFunctionOnSet(both, A)
  <2>1. \A k \in 1..h : /\ gain[k] \in Int /\ MadeOf(i, new)[k] = gain[k]
                        /\ both[k] \in Int /\ TurnedOf(new)[k] = both[k]
    BY <1>3, <1>4, <1>5
  <2>2. /\ SumFunctionOnSet(MadeOf(i, new), 1..h) = SumFunctionOnSet(gain, 1..h)
        /\ SumFunctionOnSet(TurnedOf(new), 1..h) = SumFunctionOnSet(both, 1..h)
    BY <1>7, <2>1, SumAgrees
  <2>3. SumFunctionOnSet(gain, A) = SumFunctionOnSet(gain, 1..h)
    BY <1>1, <1>4, <1>7, SumOfPart
  <2>4. SumFunctionOnSet(both, A) = SumFunctionOnSet(both, 1..h)
    BY <1>1, <1>4, <1>7, SumOfPart
  <2> QED
    BY <2>2, <2>3, <2>4
<1>9. /\ SumFunctionOnSet(count, A) = Lesser(q, LotQty(ls))
      /\ SumFunctionOnSet(cost, A) = Taken(AtPrice(m), ls, q)
  BY TakenUnits DEF count, cost, A, Taken
<1>10. /\ SumFunctionOnSet(count, A) \in Int /\ SumFunctionOnSet(cost, A) \in Int
       /\ SumFunctionOnSet(gain, A) = SignOf(direction[i])
            * ((price * m) * SumFunctionOnSet(count, A) - SumFunctionOnSet(cost, A))
  <2>1. PICK side \in TradeSides : side = direction[i]
    OBVIOUS
  <2>2. AreGains(A, side, price, m, entry, count, cost, gain)
    BY <1>4, <2>1 DEF AreGains
  <2>3. /\ SumFunctionOnSet(count, A) \in Int /\ SumFunctionOnSet(cost, A) \in Int
        /\ SumFunctionOnSet(gain, A) = SignOf(side)
             * ((price * m) * SumFunctionOnSet(count, A) - SumFunctionOnSet(cost, A))
    BY <1>1, <1>2, <2>2, GainsAddUp
  <2> QED
    BY <2>1, <2>3
<1>11. SumFunctionOnSet(both, A)
         = (price * m) * SumFunctionOnSet(count, A) + SumFunctionOnSet(cost, A)
  <2>1. SumFunctionOnSet(both, A) = SumFunctionOnSet(sold, A) + SumFunctionOnSet(cost, A)
    BY <1>1, <1>4, SumCombines
  <2>2. PICK y \in Int : y = price * m
    BY <1>2
  <2>3. SumFunctionOnSet(sold, A) = y * SumFunctionOnSet(count, A)
    <3>1. \A k \in A : count[k] \in Int /\ sold[k] = y * count[k]
      BY <1>4, <2>2
    <3> QED
      BY <1>1, <3>1, SumScales
  <2> QED
    BY <2>1, <2>2, <2>3
<1>12. ASSUME NEW j \in Instruments \ {i} PROVE Made(j, new) = 0
  <2>1. \A k \in 1..h : MadeOf(j, new)[k] = 0
    BY <1>3 DEF MadeOf
  <2> QED
    BY <1>3, <1>7, <2>1, SumOfZeros, TradeSums
<1>13. Made(i, new) = SumFunctionOnSet(gain, A) /\ Turned(new) = SumFunctionOnSet(both, A)
  BY <1>3, <1>8, TradeSums
<1> QED
  BY <1>9, <1>10, <1>11, <1>12, <1>13 DEF new, m

-----------------------------------------------------------------------------
(* How quantity and cost of the lots move. *)

LEMMA NoLots ==
    ASSUME NEW m \in Int
    PROVE  LotQty(<<>>) = 0 /\ CostOfLots(m, <<>>) = 0
<1>1. <<>> \in Seq(Lot)
  OBVIOUS
<1> QED
  BY <1>1, WorthOfNone, LotQtyIs, CostOfLotsIs

(* There are no empty lots.                                                 *)
LEMMA LotsHold ==
    ASSUME NEW ls \in Seq(Lot), ls # <<>>
    PROVE  LotQty(ls) > 0
<1>1. Len(ls) \in Nat /\ Len(ls) # 0
  BY EmptySeq
<1>2. Len(ls) \in 1..Len(ls)
  BY <1>1
<1>3. PICK a \in Nat, b \in Nat \ {0} : a = QtyBefore(ls, Len(ls)) /\ b = ls[Len(ls)].qty
  <2>1. ls[Len(ls)].qty \in Nat \ {0}
    BY <1>2, LotFacts
  <2> QED
    BY <1>2, <2>1, BeforeSteps
<1>4. LotQty(ls) = a + b
  BY <1>2, <1>3, BeforeSteps DEF LotQty
<1> QED
  BY <1>3, <1>4

LEMMA LotsMore ==
    ASSUME NEW ls \in Seq(Lot), NEW lot \in Lot, NEW m \in Int
    PROVE  /\ Append(ls, lot) \in Seq(Lot) /\ Append(ls, lot) # <<>>
           /\ LotQty(ls) \in Int /\ CostOfLots(m, ls) \in Int
           /\ LotQty(Append(ls, lot)) = LotQty(ls) + lot.qty
           /\ CostOfLots(m, Append(ls, lot)) = CostOfLots(m, ls) + lot.price * m * lot.qty
<1> DEFINE more == Append(ls, lot)
<1>1. more \in Seq(Lot) /\ more # <<>>
  BY AppendProperties
<1>2. AtPrice(m) \in [Int -> Int] /\ Ones \in [Int -> Int]
  BY AtPriceType, OnesType
<1>3. lot.qty \in Int /\ lot.price \in Int
  BY DEF Lot
<1>4. /\ Worth(Ones, more) = Worth(Ones, ls) + Ones[lot.price] * lot.qty
      /\ Worth(AtPrice(m), more) = Worth(AtPrice(m), ls) + AtPrice(m)[lot.price] * lot.qty
  BY <1>2, WorthOfAppended
<1>5. Ones[lot.price] = 1 /\ AtPrice(m)[lot.price] = lot.price * m
  BY <1>3 DEF Ones, AtPrice
<1>6. Worth(Ones, ls) \in Int /\ Worth(AtPrice(m), ls) \in Int
  BY <1>2, WorthTypes
<1>7. /\ LotQty(ls) = Worth(Ones, ls) /\ LotQty(more) = Worth(Ones, more)
      /\ CostOfLots(m, ls) = Worth(AtPrice(m), ls) /\ CostOfLots(m, more) = Worth(AtPrice(m), more)
  BY <1>1, LotQtyIs, CostOfLotsIs
<1>8. PICK n \in Int : n = lot.qty
  BY <1>3
<1>9. 1 * n = n
  OBVIOUS
<1> QED
  BY <1>1, <1>4, <1>5, <1>6, <1>7, <1>8, <1>9

LEMMA LotsLess ==
    ASSUME NEW ls \in Seq(Lot), NEW q \in Nat \ {0}, NEW m \in Int
    PROVE  /\ LotsLeft(ls, q) \in Seq(Lot)
           /\ LotQty(ls) \in Int /\ CostOfLots(m, ls) \in Int
           /\ Taken(AtPrice(m), ls, q) \in Int /\ CostOfLots(m, LotsLeft(ls, q)) \in Int
           /\ LotQty(ls) = Lesser(q, LotQty(ls)) + LotQty(LotsLeft(ls, q))
           /\ CostOfLots(m, ls) = Taken(AtPrice(m), ls, q) + CostOfLots(m, LotsLeft(ls, q))
<1> DEFINE ll == LotsLeft(ls, q)
<1>1. AtPrice(m) \in [Int -> Int] /\ Ones \in [Int -> Int]
  BY AtPriceType, OnesType
<1>2. /\ ll \in Seq(Lot)
      /\ Worth(Ones, ls) = Taken(Ones, ls, q) + Worth(Ones, ll)
      /\ Worth(AtPrice(m), ls) = Taken(AtPrice(m), ls, q) + Worth(AtPrice(m), ll)
  BY <1>1, WorthOfTheRest
<1>3. /\ Worth(Ones, ls) \in Int /\ Worth(AtPrice(m), ls) \in Int
      /\ Worth(AtPrice(m), ll) \in Int /\ Taken(AtPrice(m), ls, q) \in Int
  BY <1>1, <1>2, WorthTypes, TakenTypes
<1>4. /\ LotQty(ls) = Worth(Ones, ls) /\ LotQty(ll) = Worth(Ones, ll)
      /\ CostOfLots(m, ls) = Worth(AtPrice(m), ls) /\ CostOfLots(m, ll) = Worth(AtPrice(m), ll)
  BY <1>2, LotQtyIs, CostOfLotsIs
<1>5. Taken(Ones, ls, q) = Lesser(q, LotQty(ls))
  BY TakenUnits
<1> QED
  BY <1>2, <1>3, <1>4, <1>5

-----------------------------------------------------------------------------
(* The ledger's types, and what one fill does to it.                        *)
LedgerTypeOK ==
    /\ direction \in [Instruments -> TradeSides \cup {None}]
    /\ lots \in [Instruments -> Seq(Lot)]
    /\ trades \in Seq(Trade)
    /\ unmatched \subseteq Instruments
    /\ \A i \in Instruments : direction[i] = None <=> lots[i] = <<>>

Holds(i) == SignOf(direction[i]) * LotQty(lots[i])
Invested(i) == CostOfLots(Multiplier[i], lots[i])
Earnings(i) == Made(i, trades) - SignOf(direction[i]) * Invested(i)

(* A fill that the ledger follows moves what it holds by the fill, its      *)
(* earnings by what the fill brought in, and what it has turned over and    *)
(* still holds by what the fill was worth.                                  *)
BookedRight(i, s, qty, price) ==
    /\ Holds(i)' = Holds(i) + s
    /\ Earnings(i)' = Earnings(i) - s * price * Multiplier[i]
    /\ Turned(trades)' + Invested(i)' = Turned(trades) + Invested(i) + qty * price * Multiplier[i]

OthersStay(i) ==
    \A j \in Instruments \ {i} :
       Holds(j)' = Holds(j) /\ Earnings(j)' = Earnings(j) /\ Invested(j)' = Invested(j)

LEMMA LedgerTypes ==
    ASSUME LedgerTypeOK, NEW i \in Instruments
    PROVE  /\ lots[i] \in Seq(Lot) /\ LotQty(lots[i]) \in Nat
           /\ SignOf(direction[i]) \in Int
           /\ Multiplier[i] \in Int /\ Invested(i) \in Int
           /\ Made(i, trades) \in Int /\ Turned(trades) \in Int
           /\ Holds(i) \in Int /\ Earnings(i) \in Int
<1>1. lots[i] \in Seq(Lot) /\ trades \in Seq(Trade)
  BY DEF LedgerTypeOK
<1>2. Multiplier[i] \in Int
  BY PortfolioAssumption
<1>3. LotQty(lots[i]) \in Nat
  BY <1>1, BeforeSteps
<1>4. Invested(i) \in Int
  <2>1. AtPrice(Multiplier[i]) \in [Int -> Int]
    BY <1>2, AtPriceType
  <2>2. Worth(AtPrice(Multiplier[i]), lots[i]) \in Int
    BY <1>1, <2>1, WorthTypes
  <2> QED
    BY <1>1, <1>2, <2>2, CostOfLotsIs DEF Invested
<1>5. Made(i, trades) \in Int /\ Turned(trades) \in Int
  BY <1>1, TradeSums
<1>6. SignOf(direction[i]) \in Int
  BY DEF SignOf
<1>7. PICK a \in Int, b \in Int, c \in Int, d \in Int :
        a = SignOf(direction[i]) /\ b = LotQty(lots[i]) /\ c = Invested(i) /\ d = Made(i, trades)
  BY <1>3, <1>4, <1>5, <1>6
<1>8. a * b \in Int /\ d - a * c \in Int
  OBVIOUS
<1> QED
  BY <1>1, <1>2, <1>3, <1>4, <1>5, <1>6, <1>7, <1>8 DEF Holds, Earnings

LEMMA LedgerTypesNext ==
    ASSUME LedgerTypeOK', NEW i \in Instruments
    PROVE  Turned(trades)' \in Int /\ Invested(i)' \in Int
<1>1. PICK m \in Int : m = Multiplier[i]
  BY PortfolioAssumption
<1>2. lots'[i] \in Seq(Lot) /\ trades' \in Seq(Trade)
  BY DEF LedgerTypeOK
<1>3. Turned(trades') \in Int
  BY <1>2, TradeSums
<1>4. CostOfLots(m, lots'[i]) \in Int
  <2>1. AtPrice(m) \in [Int -> Int]
    BY AtPriceType
  <2> QED
    BY <1>2, <2>1, WorthTypes, CostOfLotsIs
<1> QED
  BY <1>1, <1>3, <1>4 DEF Invested

LEMMA OpeningBooks ==
    ASSUME LedgerTypeOK, NEW i \in Instruments, NEW side \in Sides, NEW qty \in Nat \ {0},
           NEW price \in Int, NEW fee \in Int,
           BookOpening(i, side, qty, price, fee)
    PROVE  /\ LedgerTypeOK' /\ unmatched' = unmatched
           /\ OthersStay(i) /\ BookedRight(i, Signed(side, qty), qty, price)
<1> DEFINE lot == [qty |-> qty, price |-> price, fees |-> fee]
           s == Signed(side, qty)
           d == IF side = "BUY" THEN "LONG" ELSE "SHORT"
<1>1. /\ direction' = [direction EXCEPT ![i] = d] /\ direction[i] = None
      /\ lots' = [lots EXCEPT ![i] = <<lot>>]
      /\ trades' = trades /\ unmatched' = unmatched
  BY DEF BookOpening
<1>2. lot \in Lot /\ lot.qty = qty /\ lot.price = price
  BY DEF Lot
<1>3. lots[i] = <<>> /\ <<>> \in Seq(Lot) /\ <<lot>> = Append(<<>>, lot)
  BY <1>1 DEF LedgerTypeOK
<1>4. <<lot>> \in Seq(Lot) /\ <<lot>> # <<>>
  BY <1>2
<1>5. d \in TradeSides /\ d # None
  BY LedgerAssumption DEF TradeSides
<1> HIDE DEF lot, d
<1>6. LedgerTypeOK'
  BY <1>1, <1>4, <1>5 DEF LedgerTypeOK
<1>7. /\ direction'[i] = d /\ lots'[i] = <<lot>>
      /\ \A j \in Instruments \ {i} : direction'[j] = direction[j] /\ lots'[j] = lots[j]
  BY <1>1 DEF LedgerTypeOK
<1>8. OthersStay(i)
  BY <1>1, <1>7 DEF OthersStay, Holds, Earnings, Invested
<1>9. BookedRight(i, s, qty, price)
  <2> DEFINE m == Multiplier[i]
  <2>0. PICK l \in Int : l = m
    BY PortfolioAssumption
  <2>1. LotQty(<<>>) = 0 /\ CostOfLots(l, <<>>) = 0
    BY NoLots
  <2>2. /\ LotQty(<<lot>>) = LotQty(<<>>) + lot.qty
        /\ CostOfLots(l, <<lot>>) = CostOfLots(l, <<>>) + lot.price * l * lot.qty
    BY <1>2, <1>3, LotsMore
  <2>3. LotQty(<<lot>>) = qty /\ CostOfLots(l, <<lot>>) = price * l * qty
    BY <1>2, <2>1, <2>2
  <2>4. SignOf(direction[i]) = 0
    BY <1>1, LedgerAssumption DEF SignOf
  <2>5. SignOf(d) * qty = s /\ SignOf(d) \in Int
    BY DEF SignOf, d, Signed, Sides
  <2>6. PICK made \in Int, turned \in Int : made = Made(i, trades) /\ turned = Turned(trades)
    BY LedgerTypes
  <2>7. /\ Holds(i) = 0 /\ Invested(i) = 0 /\ Earnings(i) = made
    BY <1>3, <2>0, <2>1, <2>4, <2>6 DEF Holds, Invested, Earnings
  <2>8. /\ Holds(i)' = s /\ Invested(i)' = price * l * qty
        /\ Earnings(i)' = made - SignOf(d) * (price * l * qty)
    BY <1>1, <1>7, <2>0, <2>3, <2>5, <2>6 DEF Holds, Invested, Earnings
  <2>9. SignOf(d) * (price * l * qty) = s * price * l
    <3>1. PICK g \in Int : g = SignOf(d)
      BY <2>5
    <3>2. g * (price * l * qty) = (g * qty) * price * l
      OBVIOUS
    <3> QED
      BY <2>5, <3>1, <3>2
  <2>10. s \in Int
    BY SignedType
  <2>11. price * l * qty = qty * price * l
    OBVIOUS
  <2> HIDE DEF s, m
  <2>12. Holds(i)' = Holds(i) + s
    BY <2>7, <2>8, <2>10
  <2>13. Earnings(i)' = Earnings(i) - s * price * l
    BY <2>7, <2>8, <2>9
  <2>14. Turned(trades)' + Invested(i)' = Turned(trades) + Invested(i) + qty * price * l
    BY <1>1, <2>6, <2>7, <2>8, <2>11
  <2> QED
    BY <2>0, <2>12, <2>13, <2>14 DEF BookedRight, m
<1> QED
  BY <1>1, <1>6, <1>8, <1>9

LEMMA AddingBooks ==
    ASSUME LedgerTypeOK, NEW i \in Instruments, NEW side \in Sides, NEW qty \in Nat \ {0},
           NEW price \in Int, NEW fee \in Int,
           BookAdding(i, side, qty, price, fee)
    PROVE  /\ LedgerTypeOK' /\ unmatched' = unmatched
           /\ OthersStay(i) /\ BookedRight(i, Signed(side, qty), qty, price)
<1> DEFINE lot == [qty |-> qty, price |-> price, fees |-> fee]
           s == Signed(side, qty)
           ls == lots[i]
<1>1. /\ direction[i] # None /\ ~Closes(i, side)
      /\ lots' = [lots EXCEPT ![i] = Append(@, lot)]
      /\ direction' = direction /\ trades' = trades /\ unmatched' = unmatched
  BY DEF BookAdding
<1>2. lot \in Lot /\ lot.qty = qty /\ lot.price = price
  BY DEF Lot
<1>3. ls \in Seq(Lot) /\ Append(ls, lot) \in Seq(Lot) /\ Append(ls, lot) # <<>>
  <2>1. ls \in Seq(Lot)
    BY DEF LedgerTypeOK
  <2> QED
    BY <1>2, <2>1, AppendProperties
<1> HIDE DEF lot
<1>4. /\ lots'[i] = Append(ls, lot) /\ lots' \in [Instruments -> Seq(Lot)]
      /\ \A j \in Instruments \ {i} : lots'[j] = lots[j]
  BY <1>1, <1>3 DEF LedgerTypeOK
<1>5. LedgerTypeOK'
  BY <1>1, <1>3, <1>4 DEF LedgerTypeOK
<1>6. OthersStay(i)
  BY <1>1, <1>4 DEF OthersStay, Holds, Earnings, Invested
<1>7. BookedRight(i, s, qty, price)
  <2> DEFINE m == Multiplier[i]
             d == SignOf(direction[i])
  <2>0. PICK l \in Int : l = m
    BY PortfolioAssumption
  <2>1. PICK n \in Int, c \in Int : n = LotQty(ls) /\ c = CostOfLots(l, ls)
    BY <1>2, <1>3, LotsMore
  <2>2. LotQty(Append(ls, lot)) = n + qty /\ CostOfLots(l, Append(ls, lot)) = c + price * l * qty
    BY <1>2, <1>3, <2>1, LotsMore
  <2>3. d \in Int /\ d * qty = s
    <3>1. direction[i] \in TradeSides
      BY <1>1 DEF LedgerTypeOK
    <3> QED
      BY <1>1, <3>1 DEF TradeSides, Closes, Sides, SignOf, Signed
  <2>4. PICK made \in Int, turned \in Int : made = Made(i, trades) /\ turned = Turned(trades)
    BY LedgerTypes
  <2>5. s \in Int
    BY SignedType
  <2>6. PICK g \in Int : g = d /\ g * qty = s
    BY <2>3
  <2> HIDE DEF s, d
  <2>7. Holds(i) = g * n /\ Holds(i)' = g * (n + qty)
    BY <1>1, <1>4, <2>1, <2>2, <2>6 DEF Holds, d
  <2>8. Invested(i) = c /\ Invested(i)' = c + price * l * qty
    BY <1>4, <2>0, <2>1, <2>2 DEF Invested
  <2>9. Earnings(i) = made - g * c /\ Earnings(i)' = made - g * (c + price * l * qty)
    BY <1>1, <2>4, <2>6, <2>8 DEF Earnings, d
  <2> HIDE DEF m, ls
  <2>10. Holds(i)' = Holds(i) + s
    <3>1. g * (n + qty) = g * n + g * qty
      OBVIOUS
    <3> QED
      BY <2>6, <2>7, <3>1
  <2>11. Earnings(i)' = Earnings(i) - s * price * l
    <3>1. made - g * (c + price * l * qty) = (made - g * c) - (g * qty) * price * l
      OBVIOUS
    <3> QED
      BY <2>6, <2>9, <3>1
  <2>12. Turned(trades)' + Invested(i)' = Turned(trades) + Invested(i) + qty * price * l
    <3>1. turned + (c + price * l * qty) = turned + c + qty * price * l
      OBVIOUS
    <3> QED
      BY <1>1, <2>4, <2>8, <3>1
  <2> QED
    BY <2>0, <2>10, <2>11, <2>12 DEF BookedRight, m
<1> QED
  BY <1>1, <1>5, <1>6, <1>7

(* What a closing fill has beyond the lots puts its instrument out of the   *)
(* ledger's sight; otherwise its trades account for all of it.              *)
LEMMA ClosingBooks ==
    ASSUME LedgerTypeOK, NEW i \in Instruments, NEW side \in Sides, NEW qty \in Nat \ {0},
           NEW price \in Int, NEW fee \in Int,
           BookClosing(i, side, qty, price, fee)
    PROVE  /\ LedgerTypeOK' /\ unmatched \subseteq unmatched'
           /\ OthersStay(i)
           /\ i \notin unmatched' => BookedRight(i, Signed(side, qty), qty, price)
<1> DEFINE s == Signed(side, qty)
           ls == lots[i]
           ll == LotsLeft(ls, qty)
           new == Closed(i, ls, qty, price, fee)
<1>1. /\ Closes(i, side)
      /\ trades' = trades \o new
      /\ lots' = [lots EXCEPT ![i] = ll]
      /\ direction' = [direction EXCEPT ![i] = IF ll = <<>> THEN None ELSE @]
      /\ unmatched' = unmatched \cup (IF qty > LotQty(ls) THEN {i} ELSE {})
  BY DEF BookClosing, Closed, Hit
<1>2. /\ ls \in Seq(Lot) /\ ll \in Seq(Lot)
      /\ direction[i] \in TradeSides /\ direction[i] # None
      /\ trades \in Seq(Trade)
  <2>1. ls \in Seq(Lot) /\ trades \in Seq(Trade)
    BY DEF LedgerTypeOK
  <2>2. direction[i] \in TradeSides /\ direction[i] # None
    BY <1>1, LedgerAssumption DEF Closes, TradeSides
  <2>3. ll \in Seq(Lot)
    <3>1. 0 \in Int
      OBVIOUS
    <3> QED
      BY <2>1, <3>1, LotsLess
  <2> QED
    BY <2>1, <2>2, <2>3
<1>3. new \in Seq(Trade)
  BY <1>2, ClosedIsTrades
<1> HIDE DEF new, ll
<1>4. /\ trades' \in Seq(Trade)
      /\ \A j \in Instruments : Made(j, trades') = Made(j, trades) + Made(j, new)
      /\ Turned(trades') = Turned(trades) + Turned(new)
  BY <1>1, <1>2, <1>3, TradesGoOn
<1>5. /\ lots'[i] = ll /\ lots' \in [Instruments -> Seq(Lot)]
      /\ direction'[i] = IF ll = <<>> THEN None ELSE direction[i]
      /\ direction' \in [Instruments -> TradeSides \cup {None}]
      /\ \A j \in Instruments \ {i} : lots'[j] = lots[j] /\ direction'[j] = direction[j]
  BY <1>1, <1>2 DEF LedgerTypeOK
<1>6. LedgerTypeOK'
  BY <1>1, <1>2, <1>4, <1>5 DEF LedgerTypeOK
<1>7. OthersStay(i)
  <2> SUFFICES ASSUME NEW j \in Instruments \ {i}
               PROVE  Holds(j)' = Holds(j) /\ Earnings(j)' = Earnings(j) /\ Invested(j)' = Invested(j)
    BY DEF OthersStay
  <2>1. Made(j, new) = 0
    BY <1>2, ClosedMakes DEF new
  <2>2. Made(j, trades) \in Int
    BY <1>2, TradeSums
  <2>3. Made(j, trades') = Made(j, trades)
    BY <1>4, <2>1, <2>2
  <2> QED
    BY <1>5, <2>3 DEF Holds, Earnings, Invested
<1>8. ASSUME i \notin unmatched'
      PROVE  BookedRight(i, s, qty, price)
  <2> DEFINE m == Multiplier[i]
             d == SignOf(direction[i])
  <2>0. PICK l \in Int : l = m
    BY PortfolioAssumption
  <2>1. PICK n \in Int : n = LotQty(ls)
    BY <1>2, BeforeSteps
  <2>2. PICK c \in Int, t \in Int, r \in Int :
          c = CostOfLots(l, ls) /\ t = Taken(AtPrice(l), ls, qty) /\ r = CostOfLots(l, ll)
    BY <1>2, LotsLess DEF ll
  <2>3. Lesser(qty, n) = qty
    <3>1. ~(qty > n)
      BY <1>1, <1>8, <2>1
    <3> QED
      BY <3>1 DEF Lesser
  <2>4. LotQty(ll) = n - qty /\ c = t + r
    <3>1. PICK o \in Int : o = LotQty(ll)
      BY <1>2, BeforeSteps
    <3>2. /\ LotQty(ls) = Lesser(qty, LotQty(ls)) + LotQty(ll)
          /\ CostOfLots(l, ls) = Taken(AtPrice(l), ls, qty) + CostOfLots(l, ll)
      BY <1>2, LotsLess DEF ll
    <3>3. n = qty + o /\ c = t + r
      BY <2>1, <2>2, <2>3, <3>1, <3>2
    <3> QED
      BY <3>1, <3>3
  <2>5. d \in {1, -1} /\ d * (-qty) = s
    BY <1>1 DEF Closes, Sides, SignOf, Signed
  <2>6. PICK g \in {1, -1} : g = d /\ g * (-qty) = s
    BY <2>5
  <2>7. Made(i, new) = g * ((price * l) * qty - t) /\ Turned(new) = (price * l) * qty + t
    <3>1. /\ Made(i, new) = SignOf(direction[i]) * ((price * Multiplier[i]) * Lesser(qty, LotQty(ls))
                                                   - Taken(AtPrice(Multiplier[i]), ls, qty))
          /\ Turned(new) = (price * Multiplier[i]) * Lesser(qty, LotQty(ls))
                             + Taken(AtPrice(Multiplier[i]), ls, qty)
      BY <1>2, ClosedMakes DEF new
    <3>2. Lesser(qty, LotQty(ls)) = qty /\ Taken(AtPrice(Multiplier[i]), ls, qty) = t
      BY <2>0, <2>1, <2>2, <2>3
    <3> QED
      BY <2>0, <2>6, <3>1, <3>2
  <2>8. PICK made \in Int, turned \in Int : made = Made(i, trades) /\ turned = Turned(trades)
    BY LedgerTypes
  <2>9. /\ Made(i, trades') = made + g * ((price * l) * qty - t)
        /\ Turned(trades') = turned + ((price * l) * qty + t)
    BY <1>4, <2>7, <2>8
  <2>10. PICK gg \in Int : /\ gg = SignOf(direction'[i])
                           /\ gg * (n - qty) = g * (n - qty) /\ gg * r = g * r
    <3>1. CASE ll = <<>>
      <4>1. LotQty(ll) = 0 /\ CostOfLots(l, ll) = 0
        BY <3>1, NoLots
      <4>2. n - qty = 0 /\ r = 0
        BY <2>2, <2>4, <4>1
      <4>3. SignOf(direction'[i]) = 0
        BY <1>5, <3>1, LedgerAssumption DEF SignOf
      <4>4. 0 * (n - qty) = g * (n - qty) /\ 0 * r = g * r
        BY <4>2
      <4> QED
        BY <4>3, <4>4
    <3>2. CASE ll # <<>>
      <4>1. SignOf(direction'[i]) = g /\ g \in Int
        BY <1>5, <2>6, <3>2
      <4> QED
        BY <4>1
    <3> QED
      BY <3>1, <3>2
  <2> HIDE DEF s, d
  <2>11. Holds(i) = g * n /\ Holds(i)' = g * (n - qty)
    BY <1>5, <2>1, <2>4, <2>6, <2>10 DEF Holds, d
  <2>12. Invested(i) = c /\ Invested(i)' = r
    BY <1>5, <2>0, <2>2 DEF Invested
  <2>13. /\ Earnings(i) = made - g * c
         /\ Earnings(i)' = (made + g * ((price * l) * qty - t)) - g * r
    <3>1. Earnings(i)' = Made(i, trades') - SignOf(direction'[i]) * Invested(i)'
      BY DEF Earnings
    <3>2. Earnings(i)' = (made + g * ((price * l) * qty - t)) - gg * r
      BY <2>9, <2>10, <2>12, <3>1
    <3>3. Earnings(i) = made - g * c
      BY <2>6, <2>8, <2>12 DEF Earnings, d
    <3> QED
      BY <2>10, <3>2, <3>3
  <2> HIDE DEF m, ls
  <2>14. Holds(i)' = Holds(i) + s
    <3>1. g * (n - qty) = g * n + g * (-qty)
      OBVIOUS
    <3> QED
      BY <2>6, <2>11, <3>1
  <2>15. Earnings(i)' = Earnings(i) - s * price * l
    <3>1. (made + g * ((price * l) * qty - t)) - g * r
            = (made - g * (t + r)) - (g * (-qty)) * price * l
      OBVIOUS
    <3> QED
      BY <2>4, <2>6, <2>13, <3>1
  <2>16. Turned(trades)' + Invested(i)' = Turned(trades) + Invested(i) + qty * price * l
    <3>1. (turned + ((price * l) * qty + t)) + r = turned + (t + r) + qty * price * l
      OBVIOUS
    <3> QED
      BY <2>4, <2>8, <2>9, <2>12, <3>1
  <2> QED
    BY <2>0, <2>14, <2>15, <2>16 DEF BookedRight, m
<1> QED
  BY <1>1, <1>6, <1>7, <1>8

LEMMA FillBooks ==
    ASSUME LedgerTypeOK, NEW i \in Instruments, NEW side \in Sides, NEW qty \in Nat \ {0},
           NEW price \in Int, NEW fee \in Int,
           BookFill(i, side, qty, price, fee)
    PROVE  /\ LedgerTypeOK' /\ unmatched \subseteq unmatched'
           /\ OthersStay(i)
           /\ i \notin unmatched' => BookedRight(i, Signed(side, qty), qty, price)
<1>1. CASE BookOpening(i, side, qty, price, fee)
  BY <1>1, OpeningBooks
<1>2. CASE BookAdding(i, side, qty, price, fee)
  BY <1>2, AddingBooks
<1>3. CASE BookClosing(i, side, qty, price, fee)
  BY <1>3, ClosingBooks
<1> QED
  BY <1>1, <1>2, <1>3 DEF BookFill

-----------------------------------------------------------------------------
(* The account beside the ledger.  For every instrument the ledger has      *)
(* followed, the position is what the open lots hold, and the cash it       *)
(* brought in is what its trades made less what the open lots cost.         *)
LedgerFollows ==
    \A i \in Instruments \ unmatched : positions[i].qty = Holds(i) /\ flow[i] = Earnings(i)

(* Every unit of cash has come in with an instrument or gone in fees.       *)
CashAddsUp == cash = InitialCash + SumFunctionOnSet(flow, Instruments) - feesPaid

LEMMA FillMoves ==
    ASSUME AccountTypeOK, NEW i \in Instruments, NEW side \in Sides, NEW qty \in Nat \ {0},
           NEW price \in Int, NEW fee \in Int,
           ApplyFill(i, side, qty, price, fee)
    PROVE  /\ positions'[i].qty = positions[i].qty + Signed(side, qty)
           /\ flow'[i] = flow[i] - Signed(side, qty) * price * Multiplier[i]
           /\ \A j \in Instruments \ {i} : positions'[j] = positions[j] /\ flow'[j] = flow[j]
           /\ cash' = cash - Signed(side, qty) * price * Multiplier[i] - fee
           /\ feesPaid' = feesPaid + fee
<1> DEFINE s == Signed(side, qty)
<1>1. s \in Int /\ s # 0
  BY SignedType
<1>2. positions[i].qty \in Int /\ positions \in [Instruments -> Position]
      /\ flow \in [Instruments -> Int]
  BY InstrumentTypes DEF AccountTypeOK
<1>3. /\ Open(i, s, price) \/ AddToPosition(i, s, price) \/ Reduce(i, s, price)
      /\ flow' = [flow EXCEPT ![i] = @ - s * price * Multiplier[i]]
      /\ cash' = cash - s * price * Multiplier[i] - fee
      /\ feesPaid' = feesPaid + fee
  BY DEF ApplyFill
<1> HIDE DEF s
<1>4. \E avg : \/ positions' = [positions EXCEPT ![i] = [qty |-> positions[i].qty + s, avg |-> avg]]
               \/ positions[i].qty + s = 0 /\ positions' = [positions EXCEPT ![i] = Flat]
  <2>1. CASE Open(i, s, price)
    <3>1. positions[i].qty + s = s
      BY <1>1, <2>1 DEF Open
    <3> QED
      BY <2>1, <3>1 DEF Open
  <2>2. CASE AddToPosition(i, s, price)
    BY <2>2 DEF AddToPosition
  <2>3. CASE Reduce(i, s, price)
    BY <2>3 DEF Reduce
  <2> QED
    BY <1>3, <2>1, <2>2, <2>3
<1>5. PICK avg : \/ positions' = [positions EXCEPT ![i] = [qty |-> positions[i].qty + s, avg |-> avg]]
                 \/ positions[i].qty + s = 0 /\ positions' = [positions EXCEPT ![i] = Flat]
  BY <1>4
<1>6. /\ positions'[i].qty = positions[i].qty + s
      /\ \A j \in Instruments \ {i} : positions'[j] = positions[j]
  BY <1>2, <1>5 DEF Flat
<1>7. /\ flow'[i] = flow[i] - s * price * Multiplier[i]
      /\ \A j \in Instruments \ {i} : flow'[j] = flow[j]
  BY <1>2, <1>3
<1> QED
  BY <1>3, <1>6, <1>7 DEF s

(* What one instrument brings in is what there is more in cash.             *)
LEMMA FlowKeepsCash ==
    ASSUME AccountTypeOK, AccountTypeOK', CashAddsUp,
           NEW i \in Instruments, NEW inflow \in Int, NEW fee \in Int,
           flow'[i] = flow[i] + inflow,
           \A j \in Instruments \ {i} : flow'[j] = flow[j],
           cash' = cash + inflow - fee, feesPaid' = feesPaid + fee
    PROVE  CashAddsUp'
<1>1. \A j \in Instruments : /\ flow[j] \in Int /\ flow'[j] \in Int
                             /\ j # i => flow[j] = flow'[j]
  BY DEF AccountTypeOK
<1>2. /\ SumFunctionOnSet(flow, Instruments) \in Int /\ SumFunctionOnSet(flow', Instruments) \in Int
      /\ SumFunctionOnSet(flow', Instruments) = SumFunctionOnSet(flow, Instruments) + (flow'[i] - flow[i])
  BY <1>1, SumChanges, PortfolioAssumption
<1>3. flow[i] \in Int /\ cash \in Int /\ feesPaid \in Int
  BY DEF AccountTypeOK
<1> QED
  BY <1>2, <1>3, PortfolioAssumption DEF CashAddsUp

LEMMA FillKeepsCash ==
    ASSUME AccountInv, CashAddsUp, NEW i \in Instruments, NEW side \in Sides,
           NEW qty \in Nat \ {0}, NEW price \in Int, NEW fee \in Int,
           ApplyFill(i, side, qty, price, fee)
    PROVE  CashAddsUp'
<1>1. AccountTypeOK /\ AccountTypeOK'
  BY ApplyFillKeepsInv DEF AccountInv
<1>2. Signed(side, qty) \in Int /\ Multiplier[i] \in Int
  BY SignedType, PortfolioAssumption
<1>3. PICK y \in Int : y = Signed(side, qty) * price * Multiplier[i]
  BY <1>2
<1>4. flow[i] \in Int /\ cash \in Int
  BY <1>1 DEF AccountTypeOK
<1>5. /\ flow'[i] = flow[i] - y /\ cash' = cash - y - fee /\ feesPaid' = feesPaid + fee
      /\ \A j \in Instruments \ {i} : flow'[j] = flow[j]
  BY <1>1, <1>3, FillMoves
<1>6. flow'[i] = flow[i] + (-y) /\ cash' = cash + (-y) - fee /\ -y \in Int
  BY <1>4, <1>5
<1> QED
  BY <1>1, <1>5, <1>6, FlowKeepsCash

LEMMA SettleKeepsCash ==
    ASSUME AccountInv, CashAddsUp, NEW i \in Instruments, NEW price \in Int,
           SettlePosition(i, price)
    PROVE  CashAddsUp'
<1>1. AccountTypeOK /\ AccountTypeOK'
  BY SettlePositionKeepsInv DEF AccountInv
<1>2. PICK y \in Int : y = positions[i].qty * price * Multiplier[i]
  <2>1. positions[i].qty \in Int /\ Multiplier[i] \in Int
    BY <1>1, InstrumentTypes
  <2> QED
    BY <2>1
<1>3. /\ flow' = [flow EXCEPT ![i] = @ + y] /\ cash' = cash + y /\ feesPaid' = feesPaid
  BY <1>2 DEF SettlePosition
<1>4. /\ flow'[i] = flow[i] + y
      /\ \A j \in Instruments \ {i} : flow'[j] = flow[j]
  BY <1>1, <1>3 DEF AccountTypeOK
<1>5. cash' = cash + y - 0 /\ feesPaid' = feesPaid + 0 /\ 0 \in Int
  BY <1>1, <1>3 DEF AccountTypeOK
<1> QED
  BY <1>1, <1>4, <1>5, FlowKeepsCash

LEMMA AssignmentKeepsCash ==
    ASSUME AccountInv, CashAddsUp, NEW opt \in Instruments, NEW sym \in Instruments,
           NEW strike \in Int, NEW intrinsic \in Int, Multiplier[sym] = 1,
           SettlePhysical(opt, sym, strike, intrinsic)
    PROVE  CashAddsUp'
<1>1. AccountTypeOK /\ AccountTypeOK'
  BY SettlePhysicalKeepsInv DEF AccountInv
<1>2. PICK y \in Int : y = strike * Multiplier[opt]
  <2>1. Multiplier[opt] \in Int
    BY PortfolioAssumption
  <2> QED
    BY <2>1
<1>3. flow' = [flow EXCEPT ![sym] = @ + y] /\ cash' = cash + y /\ feesPaid' = feesPaid
  BY <1>2 DEF SettlePhysical
<1>4. /\ flow'[sym] = flow[sym] + y
      /\ \A j \in Instruments \ {sym} : flow'[j] = flow[j]
  BY <1>1, <1>3 DEF AccountTypeOK
<1>5. cash' = cash + y - 0 /\ feesPaid' = feesPaid + 0 /\ 0 \in Int
  BY <1>1, <1>3 DEF AccountTypeOK
<1> QED
  BY <1>1, <1>4, <1>5, FlowKeepsCash

LEMMA FillIsFollowed ==
    ASSUME AccountTypeOK, LedgerTypeOK, LedgerFollows,
           NEW i \in Instruments, NEW side \in Sides, NEW qty \in Nat \ {0},
           NEW price \in Int, NEW fee \in Int,
           ApplyFill(i, side, qty, price, fee), BookFill(i, side, qty, price, fee)
    PROVE  LedgerFollows'
<1> SUFFICES ASSUME NEW j \in Instruments \ unmatched'
             PROVE  positions'[j].qty = Holds(j)' /\ flow'[j] = Earnings(j)'
  BY DEF LedgerFollows
<1>1. j \in Instruments \ unmatched
  BY FillBooks
<1>2. positions[j].qty = Holds(j) /\ flow[j] = Earnings(j)
  BY <1>1 DEF LedgerFollows
<1>3. CASE j = i
  <2>1. BookedRight(i, Signed(side, qty), qty, price)
    BY <1>3, FillBooks
  <2>2. /\ positions'[i].qty = positions[i].qty + Signed(side, qty)
        /\ flow'[i] = flow[i] - Signed(side, qty) * price * Multiplier[i]
    BY FillMoves
  <2>3. /\ Holds(i)' = Holds(i) + Signed(side, qty)
        /\ Earnings(i)' = Earnings(i) - Signed(side, qty) * price * Multiplier[i]
    BY <2>1 DEF BookedRight
  <2> QED
    BY <1>2, <1>3, <2>2, <2>3
<1>4. CASE j # i
  <2>1. positions'[j] = positions[j] /\ flow'[j] = flow[j]
    BY <1>4, FillMoves
  <2>2. Holds(j)' = Holds(j) /\ Earnings(j)' = Earnings(j)
    BY <1>4, FillBooks DEF OthersStay
  <2> QED
    BY <1>2, <2>1, <2>2
<1> QED
  BY <1>3, <1>4

(* What passes the ledger by moves only the positions it puts out of sight. *)
LEMMA PassedByIsNotFollowed ==
    ASSUME LedgerFollows, UNCHANGED <<direction, lots, trades>>,
           unmatched' = unmatched \cup {i \in Instruments : positions'[i] # positions[i]},
           \A i \in Instruments : positions'[i] = positions[i] => flow'[i] = flow[i]
    PROVE  LedgerFollows'
  BY DEF LedgerFollows, Holds, Earnings, Invested

-----------------------------------------------------------------------------
(* The inductive invariant of a run that is reported on.                    *)
Recorded ==
    stage = "recorded" =>
      /\ finalMarks \in [Instruments -> MarkPrices \cup {NoMark}]
      /\ allocation = MarkedValue(finalMarks)
      /\ curve # <<>> /\ Last(curve) = cash + TotalMark(finalMarks)

BooksInv == EquityInv /\ LedgerTypeOK /\ LedgerFollows /\ CashAddsUp

ReportInv == BooksInv /\ curve \in Seq(Int) /\ Recorded

LEMMA FillKeepsBooks ==
    ASSUME BooksInv, NEW i \in Instruments, NEW side \in Sides, NEW qty \in Nat \ {0},
           NEW price \in Int, NEW fee \in Int,
           ApplyFill(i, side, qty, price, fee), BookFill(i, side, qty, price, fee)
    PROVE  BooksInv'
<1>1. AccountInv /\ AccountTypeOK
  BY DEF BooksInv, EquityInv, AccountInv
<1>2. EquityInv'
  BY ApplyFillKeepsEquity DEF BooksInv
<1>3. LedgerTypeOK'
  BY FillBooks DEF BooksInv
<1>4. LedgerFollows'
  BY <1>1, FillIsFollowed DEF BooksInv
<1>5. CashAddsUp'
  BY <1>1, FillKeepsCash DEF BooksInv
<1> QED
  BY <1>2, <1>3, <1>4, <1>5 DEF BooksInv

LEMMA SettlementMovesOne ==
    ASSUME AccountTypeOK, NEW i \in Instruments, NEW price \in Int, SettlePosition(i, price)
    PROVE  \A j \in Instruments : positions'[j] = positions[j] => flow'[j] = flow[j]
<1>1. /\ positions[i].qty # 0
      /\ positions'[i] = Flat /\ \A j \in Instruments \ {i} : flow'[j] = flow[j]
  BY DEF SettlePosition, AccountTypeOK
<1>2. positions'[i] # positions[i]
  BY <1>1 DEF Flat
<1> QED
  BY <1>1, <1>2

LEMMA AssignmentMovesShares ==
    ASSUME AccountTypeOK, NEW opt \in Instruments, NEW sym \in Instruments,
           NEW strike \in Int, NEW intrinsic \in Int,
           SettlePhysical(opt, sym, strike, intrinsic)
    PROVE  \A j \in Instruments : positions'[j] = positions[j] => flow'[j] = flow[j]
<1>1. /\ opt # sym /\ positions[sym].qty >= Multiplier[opt]
      /\ \A j \in Instruments \ {sym} : flow'[j] = flow[j]
  BY DEF SettlePhysical, Deliverable, AccountTypeOK
<1>2. PICK l \in Nat \ {0}, q \in Int : l = Multiplier[opt] /\ q = positions[sym].qty /\ q >= l
  <2>1. Multiplier[opt] \in Nat \ {0}
    BY PortfolioAssumption
  <2>2. positions[sym].qty \in Int
    BY InstrumentTypes
  <2> QED
    BY <1>1, <2>1, <2>2
<1>3. positions'[sym] = IF q - l = 0 THEN Flat ELSE [qty |-> q - l, avg |-> positions[sym].avg]
  BY <1>1, <1>2 DEF SettlePhysical, AccountTypeOK
<1>4. positions'[sym].qty = q - l
  BY <1>3 DEF Flat
<1>5. positions'[sym] # positions[sym]
  BY <1>2, <1>4
<1> QED
  BY <1>1, <1>5

LEMMA PassedByKeepsBooks ==
    ASSUME BooksInv, LedgerPassedBy
    PROVE  BooksInv' /\ unmatched' # {}
<1>1. AccountInv /\ AccountTypeOK
  BY DEF BooksInv, EquityInv, AccountInv
<1>2. /\ unmatched' = unmatched \cup {i \in Instruments : positions'[i] # positions[i]}
      /\ UNCHANGED <<direction, lots, trades>>
  BY DEF LedgerPassedBy
<1>3. LedgerTypeOK'
  BY <1>2 DEF BooksInv, LedgerTypeOK
<1>4. CASE Settle
  <2>1. PICK i \in Instruments, price \in Prices : SettlePosition(i, price)
    BY <1>4 DEF Settle
  <2>2. price \in Int
    BY PortfolioAssumption
  <2>3. EquityInv'
    BY <2>1, <2>2, SettlePositionKeepsEquity DEF BooksInv
  <2>4. CashAddsUp'
    BY <1>1, <2>1, <2>2, SettleKeepsCash DEF BooksInv
  <2>5. \A j \in Instruments : positions'[j] = positions[j] => flow'[j] = flow[j]
    BY <1>1, <2>1, <2>2, SettlementMovesOne
  <2>6. LedgerFollows'
    BY <1>2, <2>5, PassedByIsNotFollowed DEF BooksInv
  <2>7. positions'[i] # positions[i]
    BY <1>1, <2>1 DEF SettlePosition, AccountTypeOK, Flat
  <2> QED
    BY <1>2, <1>3, <2>3, <2>4, <2>6, <2>7 DEF BooksInv
<1>5. CASE Assign
  <2>1. PICK opt \in Instruments, sym \in Instruments, strike \in Prices, close \in Prices :
          Multiplier[sym] = 1 /\ close > strike /\ SettlePhysical(opt, sym, strike, close - strike)
    BY <1>5 DEF Assign
  <2>2. strike \in Int /\ close - strike \in Int \ {0}
    BY <2>1, PortfolioAssumption
  <2>3. EquityInv'
    BY <2>1, <2>2, SettlePhysicalKeepsEquity DEF BooksInv
  <2>4. CashAddsUp'
    BY <1>1, <2>1, <2>2, AssignmentKeepsCash DEF BooksInv
  <2>5. \A j \in Instruments : positions'[j] = positions[j] => flow'[j] = flow[j]
    BY <1>1, <2>1, <2>2, AssignmentMovesShares
  <2>6. LedgerFollows'
    BY <1>2, <2>5, PassedByIsNotFollowed DEF BooksInv
  <2>7. positions'[opt] # positions[opt]
    <3>1. positions'[opt] = Flat /\ positions[opt].qty < 0
      BY <1>1, <2>1 DEF SettlePhysical, Deliverable, AccountTypeOK
    <3> QED
      BY <3>1 DEF Flat
  <2> QED
    BY <1>2, <1>3, <2>3, <2>4, <2>6, <2>7 DEF BooksInv
<1> QED
  BY <1>4, <1>5 DEF LedgerPassedBy

(* A step that leaves quantities, cash and ledger alone leaves the books.   *)
LEMMA RestKeepsBooks ==
    ASSUME BooksInv, EquityInv', UNCHANGED <<cash, positions, feesPaid, flow, ledgerVars>>
    PROVE  BooksInv'
  BY DEF BooksInv, ledgerVars, LedgerTypeOK, LedgerFollows, Holds, Earnings, Invested, CashAddsUp

LEMMA MarksAreNumbers ==
    ASSUME AccountTypeOK, NEW marks \in [Instruments -> MarkPrices \cup {NoMark}],
           NEW i \in Instruments
    PROVE  MarkedAt(i, marks) \in Int
<1>1. positions[i].avg \in Int
  BY InstrumentTypes
<1>2. marks[i] # NoMark => marks[i] \in Int
  BY ReportAssumption
<1> QED
  BY <1>1, <1>2 DEF MarkedAt

LEMMA RecordKeepsInv ==
    ASSUME ReportInv, RecordStep
    PROVE  ReportInv'
<1>1. AccountInv /\ AccountTypeOK
  BY DEF ReportInv, BooksInv, EquityInv, AccountInv
<1>2. PICK marks \in [Instruments -> MarkPrices \cup {NoMark}] :
        /\ MarkToMarket(marks)
        /\ finalMarks' = marks
        /\ allocation' = [i \in Instruments |-> PositionValue(i, marks)]
  BY DEF RecordStep
<1>3. curve' = Append(curve, equity') /\ UNCHANGED ledgerVars
  BY DEF RecordStep
<1>4. \A i \in Instruments : MarkedAt(i, marks) \in Int
  BY <1>1, MarksAreNumbers
<1>5. EquityInv'
  BY <1>2, <1>4, MarkKeepsEquity DEF ReportInv, BooksInv
<1>6. BooksInv'
  BY <1>2, <1>3, <1>5, RestKeepsBooks DEF ReportInv, MarkToMarket
<1>7. /\ equity' = cash + TotalMark(marks) /\ cash' = cash /\ positions' = positions
      /\ cash \in Int
  BY <1>1, <1>2 DEF MarkToMarket, AccountTypeOK
<1>8. TotalMark(marks) \in Int
  BY <1>1, <1>4, TotalMarkType
<1>9. equity' \in Int /\ curve \in Seq(Int)
  BY <1>7, <1>8 DEF ReportInv
<1>10. /\ curve' \in Seq(Int) /\ curve' # <<>> /\ Len(curve') = Len(curve) + 1
       /\ curve'[Len(curve) + 1] = equity'
  BY <1>3, <1>9, AppendProperties
<1>11. Last(curve') = equity'
  BY <1>10 DEF Last
<1>12. TotalMark(finalMarks)' = TotalMark(marks)
  BY <1>2, <1>7 DEF TotalMark, MarkedAt
<1>13. allocation' = MarkedValue(finalMarks)'
  BY <1>2, <1>7 DEF MarkedValue, MarkedAt, PositionValue
<1> QED
  BY <1>2, <1>6, <1>7, <1>10, <1>11, <1>12, <1>13 DEF ReportInv, Recorded

LEMMA ReportNextKeepsInv ==
    ReportInv /\ [ReportNext]_<<accountVars, ledgerVars, resultVars>> => ReportInv'
<1> SUFFICES ASSUME ReportInv, [ReportNext]_<<accountVars, ledgerVars, resultVars>>
             PROVE  ReportInv'
  OBVIOUS
<1>1. CASE ReportFill
  <2>1. PICK i \in Instruments, side \in Sides, qty \in Quantities, price \in Prices, fee \in Fees :
          ApplyFill(i, side, qty, price, fee) /\ BookFill(i, side, qty, price, fee)
    BY <1>1 DEF ReportFill, LedgerFill
  <2>2. qty \in Nat \ {0} /\ price \in Int /\ fee \in Int
    BY PortfolioAssumption
  <2>3. BooksInv'
    BY <2>1, <2>2, FillKeepsBooks DEF ReportInv
  <2> QED
    BY <1>1, <2>3 DEF ReportFill, ReportInv, Recorded
<1>2. CASE ReportPassedBy
  <2>1. BooksInv'
    BY <1>2, PassedByKeepsBooks DEF ReportPassedBy, ReportInv
  <2> QED
    BY <1>2, <2>1 DEF ReportPassedBy, ReportInv, Recorded
<1>3. CASE RecordStep
  BY <1>3, RecordKeepsInv
<1>4. CASE UNCHANGED <<accountVars, ledgerVars, resultVars>>
  <2>1. UNCHANGED <<cash, positions, realized, unrealized, equity, feesPaid, flow, booked, distorted>>
    BY <1>4 DEF accountVars
  <2>2. UNCHANGED <<curve, finalMarks, allocation, stage>>
    BY <1>4 DEF resultVars
  <2>3. EquityInv'
    BY <2>1, MarkKeepsInv DEF ReportInv, BooksInv, EquityInv, BooksBalance, EquityReconciles
  <2>4. BooksInv'
    BY <1>4, <2>1, <2>3, RestKeepsBooks DEF ReportInv
  <2> QED
    BY <2>1, <2>2, <2>4 DEF ReportInv, Recorded, MarkedValue, MarkedAt, TotalMark
<1> QED
  BY <1>1, <1>2, <1>3, <1>4 DEF ReportNext, RunEnds

LEMMA ReportInitInv == ReportInit => ReportInv
<1> SUFFICES ASSUME ReportInit PROVE ReportInv
  OBVIOUS
<1>1. /\ AccountInit
      /\ direction = [i \in Instruments |-> None]
      /\ lots = [i \in Instruments |-> <<>>]
      /\ trades = <<>> /\ unmatched = {}
      /\ curve = <<>> /\ stage = "filling"
  BY DEF ReportInit, LedgerInit
<1>2. EquityInv
  BY <1>1, InitEquity
<1>3. LedgerTypeOK
  BY <1>1 DEF LedgerTypeOK
<1>4. ASSUME NEW i \in Instruments
      PROVE  positions[i].qty = Holds(i) /\ flow[i] = Earnings(i)
  <2>1. positions[i].qty = 0 /\ flow[i] = 0
    BY <1>1 DEF AccountInit, Flat
  <2>2. lots[i] = <<>> /\ direction[i] = None
    BY <1>1
  <2>3. SignOf(direction[i]) = 0
    BY <2>2, LedgerAssumption DEF SignOf
  <2>4. LotQty(lots[i]) = 0 /\ Invested(i) = 0
    <3>1. Multiplier[i] \in Int
      BY PortfolioAssumption
    <3> QED
      BY <2>2, <3>1, NoLots DEF Invested
  <2>5. Made(i, trades) = 0
    <3>1. trades \in Seq(Trade) /\ 1..Len(trades) = {}
      BY <1>1
    <3>2. Made(i, trades) = SumFunctionOnSet(MadeOf(i, trades), {})
      BY <3>1, TradeSums
    <3> QED
      BY <3>2, SumEmpty
  <2> QED
    BY <2>1, <2>3, <2>4, <2>5 DEF Holds, Earnings
<1>5. LedgerFollows
  BY <1>4 DEF LedgerFollows
<1>6. CashAddsUp
  <2>1. \A i \in Instruments : flow[i] = 0
    BY <1>1 DEF AccountInit
  <2>2. SumFunctionOnSet(flow, Instruments) = 0
    BY <2>1, SumOfZeros, PortfolioAssumption
  <2> QED
    BY <1>1, <2>2, PortfolioAssumption DEF CashAddsUp, AccountInit
<1>7. curve \in Seq(Int)
  BY <1>1
<1> QED
  BY <1>1, <1>2, <1>3, <1>5, <1>6, <1>7 DEF ReportInv, BooksInv, Recorded

(* The account, the ledger and the recorded figures keep together, in every *)
(* reachable state of every instance: positions are what the open lots      *)
(* hold, and cash is what was put in, what the trades made, what the open   *)
(* lots cost and the fees.                                                  *)
THEOREM ReportInvariant == ReportSpec => []ReportInv
  BY ReportInitInv, ReportNextKeepsInv, PTL DEF ReportSpec

(* The account keeps its balance while the ledger books beside it           *)
(* (accounting.py:40-91, 160-169).                                          *)
THEOREM LedgerAttribution == ReportSpec => []AttributionReconciles
<1>1. ReportInv => AttributionReconciles
  BY DEF ReportInv, BooksInv, EquityInv, AccountInv
<1> QED
  BY <1>1, ReportInvariant, PTL

(* Equity is what was put in, realized and unrealized PnL less fees, at     *)
(* every point of a reported run (accounting.py:19-38, 96-137).             *)
THEOREM LedgerEquity == ReportSpec => []EquityReconciles
<1>1. ReportInv => EquityReconciles
  BY DEF ReportInv, BooksInv, EquityInv
<1> QED
  BY <1>1, ReportInvariant, PTL

(* What the ledger and the reporter do beside the account leaves it alone:  *)
(* each step of a reported run fills, settles or assigns in the account,    *)
(* marks it, or does not touch it.                                          *)
LEMMA ReportSteps ==
    ASSUME [ReportNext]_<<accountVars, ledgerVars, resultVars>>
    PROVE  \/ Fill \/ Settle \/ Assign
           \/ \E marks \in [Instruments -> MarkPrices \cup {NoMark}] : MarkToMarket(marks)
           \/ UNCHANGED accountVars
<1>1. CASE ReportFill
  BY <1>1 DEF ReportFill, LedgerFill, Fill
<1>2. CASE ReportPassedBy
  BY <1>2 DEF ReportPassedBy, LedgerPassedBy
<1>3. CASE RecordStep
  BY <1>3 DEF RecordStep
<1>4. CASE RunEnds \/ UNCHANGED <<accountVars, ledgerVars, resultVars>>
  BY <1>4 DEF RunEnds
<1> QED
  BY <1>1, <1>2, <1>3, <1>4 DEF ReportNext

(* A reported run is a run of the account: matching lots and recording      *)
(* steps refines Portfolio, provided that marks are prices of it.           *)
THEOREM ReportIsAccount ==
    ASSUME MarkPrices \subseteq Prices
    PROVE  ReportSpec => AccountSpec
<1>1. ReportInit => AccountInit
  BY DEF ReportInit, LedgerInit
<1>2. [ReportNext]_<<accountVars, ledgerVars, resultVars>> => [AccountNext]_accountVars
  <2> SUFFICES ASSUME [ReportNext]_<<accountVars, ledgerVars, resultVars>>
               PROVE  [AccountNext]_accountVars
    OBVIOUS
  <2>1. [Instruments -> MarkPrices \cup {NoMark}] \subseteq [Instruments -> Prices \cup {NoMark}]
    OBVIOUS
  <2>2. (\E marks \in [Instruments -> MarkPrices \cup {NoMark}] : MarkToMarket(marks)) => Mark
    BY <2>1 DEF Mark
  <2> QED
    BY <2>2, ReportSteps DEF AccountNext
<1> QED
  BY <1>1, <1>2, PTL DEF ReportSpec, AccountSpec

(* Opening, increasing, marking and recording never realize PnL, at         *)
(* whatever prices a step is marked (accounting.py:40-91).                  *)
THEOREM ReportRealizesOnClose == ReportSpec => RealizedOnlyOnClose
<1>1. ReportInv /\ [ReportNext]_<<accountVars, ledgerVars, resultVars>> =>
        [ realized' # realized =>
            \E i \in Instruments :
               /\ positions[i].qty # 0
               /\ \/ Magnitude(positions'[i].qty) < Magnitude(positions[i].qty)
                  \/ ~(positions'[i].qty > 0 <=> positions[i].qty > 0) ]_accountVars
  <2> SUFFICES ASSUME ReportInv, [ReportNext]_<<accountVars, ledgerVars, resultVars>>,
                      realized' # realized
               PROVE  \E i \in Instruments :
                        /\ positions[i].qty # 0
                        /\ \/ Magnitude(positions'[i].qty) < Magnitude(positions[i].qty)
                           \/ ~(positions'[i].qty > 0 <=> positions[i].qty > 0)
    OBVIOUS
  <2>1. AccountInv
    BY DEF ReportInv, BooksInv, EquityInv
  <2>2. \A marks : MarkToMarket(marks) => UNCHANGED realized
    BY DEF MarkToMarket
  <2>3. UNCHANGED accountVars => UNCHANGED realized
    BY DEF accountVars
  <2>4. Fill \/ Settle \/ Assign
    BY <2>2, <2>3, ReportSteps
  <2>5. [AccountNext]_accountVars
    BY <2>4 DEF AccountNext
  <2> QED
    BY <2>1, <2>5, StepRealizesOnClose
<1> QED
  BY <1>1, ReportInvariant, PTL DEF ReportSpec, RealizedOnlyOnClose

(* From flat to flat the trades of the FIFO ledger made what the average-   *)
(* cost account booked, for any number of lots, partial closes and flips    *)
(* back and forth that both followed (trades.py:75-204).                    *)
THEOREM RoundTripsAgreeHolds == ReportSpec => []RoundTripsAgree
<1>1. ReportInv => RoundTripsAgree
  <2> SUFFICES ASSUME ReportInv, NEW i \in Instruments \ (unmatched \cup distorted),
                      positions[i].qty = 0
               PROVE  ClosedPnl(i) = booked[i]
    BY DEF RoundTripsAgree
  <2>1. AccountInv /\ AccountTypeOK /\ LedgerTypeOK
    BY DEF ReportInv, BooksInv, EquityInv, AccountInv
  <2>2. Holds(i) = 0 /\ flow[i] = Earnings(i)
    BY DEF ReportInv, BooksInv, LedgerFollows
  <2>3. flow[i] = booked[i]
    <3>1. flow[i] + CostBasis(i, positions) = booked[i]
      BY <2>1 DEF AccountInv, AttributionReconciles
    <3>2. positions[i].avg \in Int /\ Multiplier[i] \in Int /\ flow[i] \in Int
      BY <2>1, InstrumentTypes
    <3>3. CostBasis(i, positions) = 0
      BY <3>2 DEF CostBasis
    <3> QED
      BY <3>1, <3>2, <3>3
  <2>4. SignOf(direction[i]) * Invested(i) = 0
    <3>1. CASE lots[i] = <<>>
      <4>1. PICK d \in Int : d = SignOf(direction[i])
        BY <2>1, LedgerTypes
      <4>2. Invested(i) = 0
        <5>1. Multiplier[i] \in Int
          BY PortfolioAssumption
        <5> QED
          BY <3>1, <5>1, NoLots DEF Invested
      <4> QED
        BY <4>1, <4>2
    <3>2. CASE lots[i] # <<>>
      <4>1. direction[i] \in TradeSides
        BY <2>1, <3>2 DEF LedgerTypeOK
      <4>2. SignOf(direction[i]) \in {1, -1}
        BY <4>1 DEF SignOf, TradeSides
      <4>3. LotQty(lots[i]) > 0
        BY <2>1, <3>2, LotsHold DEF LedgerTypeOK
      <4>4. PICK d \in {1, -1}, n \in Nat : d = SignOf(direction[i]) /\ n = LotQty(lots[i]) /\ n > 0
        BY <2>1, <4>2, <4>3, LedgerTypes
      <4>5. d * n = 0
        BY <2>2, <4>4 DEF Holds
      <4> QED
        BY <4>4, <4>5
    <3> QED
      BY <3>1, <3>2
  <2>5. Made(i, trades) \in Int
    BY <2>1, LedgerTypes
  <2>6. Made(i, trades) = booked[i]
    BY <2>2, <2>3, <2>4, <2>5 DEF Earnings
  <2> QED
    BY <2>6 DEF ClosedPnl, Made, MadeOf
<1> QED
  BY <1>1, ReportInvariant, PTL

-----------------------------------------------------------------------------
(* Turnover.  A fill is worth something only at a price that is not         *)
(* negative: summary.py takes what it moved without its sign.               *)
InvestedIn == [i \in Instruments |-> Invested(i)]

TurnoverInv ==
    unmatched = {} => notional = Turned(trades) + SumFunctionOnSet(InvestedIn, Instruments)

LEMMA FillIsWorth ==
    ASSUME AccountTypeOK, NEW i \in Instruments, NEW side \in Sides, NEW qty \in Nat \ {0},
           NEW price \in Nat, NEW fee \in Int,
           ApplyFill(i, side, qty, price, fee)
    PROVE  /\ qty * price * Multiplier[i] \in Int
           /\ SumFunction([j \in Instruments |-> Notional(j)]) = qty * price * Multiplier[i]
<1> DEFINE s == Signed(side, qty)
           none == [j \in Instruments |-> 0]
           worth == [j \in Instruments |-> Notional(j)]
<1>1. PICK l \in Nat : l = Multiplier[i]
  BY PortfolioAssumption
<1>2. PICK y \in Nat : y = qty * price * l
  <2>1. qty * price \in Nat
    OBVIOUS
  <2> QED
    BY <2>1
<1>3. s * price * l \in {y, -y}
  <2>1. CASE side = "BUY"
    BY <1>2, <2>1 DEF Signed
  <2>2. CASE side # "BUY"
    <3>1. s = -qty
      BY <2>2 DEF Signed
    <3>2. (-qty) * price * l = -(qty * price * l)
      OBVIOUS
    <3> QED
      BY <1>2, <3>1, <3>2
  <2> QED
    BY <2>1, <2>2
<1>4. /\ flow'[i] = flow[i] - s * price * l /\ flow[i] \in Int
      /\ \A j \in Instruments \ {i} : flow'[j] = flow[j] /\ flow[j] \in Int
  BY <1>1, FillMoves DEF AccountTypeOK
<1> HIDE DEF s
<1>5. worth[i] = y
  <2>1. PICK z \in {y, -y} : z = s * price * l
    BY <1>3
  <2>2. flow'[i] - flow[i] = -z
    BY <1>4, <2>1
  <2> QED
    BY <1>2, <2>1, <2>2 DEF Notional, Magnitude
<1>6. \A j \in Instruments \ {i} : worth[j] = 0
  BY <1>4 DEF Notional, Magnitude
<1>7. /\ \A j \in Instruments : /\ none[j] \in Int /\ worth[j] \in Int
                                /\ j # i => none[j] = worth[j]
      /\ none[i] = 0
  BY <1>5, <1>6
<1>8. SumFunction(worth) = SumFunctionOnSet(worth, Instruments)
  BY DEF SumFunction
<1> HIDE DEF none, worth
<1>9. SumFunctionOnSet(worth, Instruments) = SumFunctionOnSet(none, Instruments) + (worth[i] - none[i])
  BY <1>7, SumChanges, PortfolioAssumption
<1>10. SumFunctionOnSet(none, Instruments) = 0
  <2>1. \A j \in Instruments : none[j] = 0
    BY DEF none
  <2> QED
    BY <2>1, SumOfZeros, PortfolioAssumption
<1>11. SumFunction(worth) = y
  BY <1>5, <1>7, <1>8, <1>9, <1>10
<1> QED
  BY <1>1, <1>2, <1>11 DEF worth

LEMMA FillKeepsTurnover ==
    ASSUME ReportInv, TurnoverInv, NEW i \in Instruments, NEW side \in Sides,
           NEW qty \in Nat \ {0}, NEW price \in Nat, NEW fee \in Int,
           ApplyFill(i, side, qty, price, fee), BookFill(i, side, qty, price, fee),
           notional' = notional + SumFunction([j \in Instruments |-> Notional(j)])
    PROVE  TurnoverInv'
<1> SUFFICES ASSUME unmatched' = {}
             PROVE  notional' = Turned(trades)' + SumFunctionOnSet(InvestedIn, Instruments)'
  BY DEF TurnoverInv
<1>1. AccountTypeOK /\ LedgerTypeOK
  BY DEF ReportInv, BooksInv, EquityInv, AccountInv
<1>2. LedgerTypeOK' /\ unmatched \subseteq unmatched' /\ OthersStay(i)
  BY <1>1, FillBooks
<1>3. BookedRight(i, Signed(side, qty), qty, price)
  BY <1>1, FillBooks
<1>4. notional = Turned(trades) + SumFunctionOnSet(InvestedIn, Instruments)
  BY <1>2 DEF TurnoverInv
<1>5. PICK y \in Int : /\ y = qty * price * Multiplier[i]
                       /\ notional' = notional + y
  BY <1>1, FillIsWorth
<1>6. PICK t \in Int, tt \in Int, v \in Int, vv \in Int :
        /\ t = Turned(trades) /\ tt = Turned(trades)' /\ v = Invested(i) /\ vv = Invested(i)'
        /\ tt + vv = t + v + y
  <2>1. Turned(trades) \in Int /\ Invested(i) \in Int
    BY <1>1, LedgerTypes
  <2>2. Turned(trades)' \in Int /\ Invested(i)' \in Int
    BY <1>2, LedgerTypesNext
  <2>3. Turned(trades)' + Invested(i)' = Turned(trades) + Invested(i) + qty * price * Multiplier[i]
    BY <1>3 DEF BookedRight
  <2>4. Turned(trades)' + Invested(i)' = Turned(trades) + Invested(i) + y
    BY <1>5, <2>3
  <2> QED
    BY <2>1, <2>2, <2>4
<1>7. \A j \in Instruments : /\ InvestedIn[j] \in Int /\ InvestedIn'[j] \in Int
                             /\ j # i => InvestedIn[j] = InvestedIn'[j]
  <2> SUFFICES ASSUME NEW j \in Instruments
               PROVE  /\ InvestedIn[j] \in Int /\ InvestedIn'[j] \in Int
                      /\ j # i => InvestedIn[j] = InvestedIn'[j]
    OBVIOUS
  <2>1. InvestedIn[j] = Invested(j) /\ InvestedIn'[j] = Invested(j)'
    BY DEF InvestedIn
  <2>2. Invested(j) \in Int
    BY <1>1, LedgerTypes
  <2>3. j # i => Invested(j)' = Invested(j)
    BY <1>2 DEF OthersStay
  <2> QED
    BY <1>6, <2>1, <2>2, <2>3
<1>8. /\ SumFunctionOnSet(InvestedIn, Instruments) \in Int
      /\ SumFunctionOnSet(InvestedIn', Instruments) \in Int
      /\ SumFunctionOnSet(InvestedIn', Instruments)
           = SumFunctionOnSet(InvestedIn, Instruments) + (InvestedIn'[i] - InvestedIn[i])
  BY <1>7, SumChanges, PortfolioAssumption
<1>9. InvestedIn[i] = v /\ InvestedIn'[i] = vv
  BY <1>6 DEF InvestedIn
<1>10. PICK a \in Int, b \in Int :
         /\ a = SumFunctionOnSet(InvestedIn, Instruments)
         /\ b = SumFunctionOnSet(InvestedIn', Instruments) /\ b = a + (vv - v)
  BY <1>8, <1>9
<1>11. notional' = (t + a) + y
  BY <1>4, <1>5, <1>6, <1>10
<1>12. notional' = tt + b
  BY <1>6, <1>10, <1>11
<1>13. SumFunctionOnSet(InvestedIn, Instruments)' = SumFunctionOnSet(InvestedIn', Instruments)
  OBVIOUS
<1> QED
  BY <1>6, <1>10, <1>12, <1>13

LEMMA InitTurnover == ReportInit => TurnoverInv
<1> SUFFICES ASSUME ReportInit PROVE TurnoverInv
  OBVIOUS
<1>1. /\ lots = [i \in Instruments |-> <<>>] /\ trades = <<>> /\ notional = 0
  BY DEF ReportInit, LedgerInit
<1>2. Turned(trades) = 0
  <2>1. DOMAIN TurnedOf(trades) = {}
    BY <1>1 DEF TurnedOf
  <2> QED
    BY <2>1, SumEmpty DEF Turned, SumFunction
<1>3. \A i \in Instruments : InvestedIn[i] = 0
  <2> SUFFICES ASSUME NEW i \in Instruments PROVE InvestedIn[i] = 0
    OBVIOUS
  <2>1. Multiplier[i] \in Int
    BY PortfolioAssumption
  <2> QED
    BY <1>1, <2>1, NoLots DEF InvestedIn, Invested
<1>4. SumFunctionOnSet(InvestedIn, Instruments) = 0
  BY <1>3, SumOfZeros, PortfolioAssumption
<1> QED
  BY <1>1, <1>2, <1>4 DEF TurnoverInv

LEMMA ReportNextKeepsTurnover ==
    ASSUME Prices \subseteq Nat, ReportInv, TurnoverInv,
           [ReportNext]_<<accountVars, ledgerVars, resultVars>>
    PROVE  TurnoverInv'
<1>1. CASE ReportFill
  <2>1. PICK i \in Instruments, side \in Sides, qty \in Quantities, price \in Prices, fee \in Fees :
          ApplyFill(i, side, qty, price, fee) /\ BookFill(i, side, qty, price, fee)
    BY <1>1 DEF ReportFill, LedgerFill
  <2>2. qty \in Nat \ {0} /\ price \in Nat /\ fee \in Int
    BY PortfolioAssumption
  <2>3. notional' = notional + SumFunction([j \in Instruments |-> Notional(j)])
    BY <1>1 DEF ReportFill
  <2> QED
    BY <2>1, <2>2, <2>3, FillKeepsTurnover
<1>2. CASE ReportPassedBy
  <2>1. unmatched' # {}
    BY <1>2, PassedByKeepsBooks DEF ReportPassedBy, ReportInv
  <2> QED
    BY <2>1 DEF TurnoverInv
<1>3. CASE RecordStep \/ UNCHANGED <<accountVars, ledgerVars, resultVars>>
  <2>1. UNCHANGED <<direction, lots, trades, unmatched, notional>>
    BY <1>3 DEF RecordStep, ledgerVars, resultVars
  <2> QED
    BY <2>1 DEF TurnoverInv, InvestedIn, Invested
<1> QED
  BY <1>1, <1>2, <1>3 DEF ReportNext, RunEnds

-----------------------------------------------------------------------------
(* What is reported of an instrument is the cash it brought in and what is  *)
(* left of it.                                                              *)
LEMMA PnlBySymbolIs ==
    ASSUME ReportInv, NEW i \in Instruments, unmatched = {},
           finalMarks \in [Instruments -> MarkPrices \cup {NoMark}],
           lots[i] # <<>> => EmittedOpen(i)
    PROVE  /\ PnlBySymbol(i) = flow[i] + MarkedValue(finalMarks)[i]
           /\ flow[i] \in Int /\ MarkedValue(finalMarks)[i] \in Int
<1>1. AccountTypeOK /\ LedgerTypeOK
  BY DEF ReportInv, BooksInv, EquityInv, AccountInv
<1>2. positions[i].qty = Holds(i) /\ flow[i] = Earnings(i)
  BY DEF ReportInv, BooksInv, LedgerFollows
<1>3. PICK l \in Int, made \in Int, d \in Int, n \in Int, v \in Int :
        /\ l = Multiplier[i] /\ made = Made(i, trades) /\ d = SignOf(direction[i])
        /\ n = LotQty(lots[i]) /\ v = Invested(i)
  <2>1. /\ Multiplier[i] \in Int /\ Made(i, trades) \in Int /\ SignOf(direction[i]) \in Int
        /\ LotQty(lots[i]) \in Nat /\ Invested(i) \in Int
    BY <1>1, LedgerTypes
  <2> QED
    BY <2>1
<1>4. ClosedPnl(i) = made
  BY <1>3 DEF ClosedPnl, Made, MadeOf
<1>5. PICK mark \in Int : mark = MarkedAt(i, finalMarks)
  BY <1>1, MarksAreNumbers
<1>6. positions[i].qty = d * n /\ flow[i] = made - d * v
  BY <1>2, <1>3 DEF Holds, Earnings
<1>7. MarkedValue(finalMarks)[i] = (d * n) * mark * l
  BY <1>3, <1>5, <1>6 DEF MarkedValue
<1>8. made - d * v \in Int /\ (d * n) * mark * l \in Int
  OBVIOUS
<1>9. CASE lots[i] = <<>>
  <2>1. n = 0 /\ v = 0
    BY <1>3, <1>9, NoLots DEF Invested
  <2>2. PnlBySymbol(i) = made + 0
    BY <1>4, <1>9 DEF PnlBySymbol, EmittedOpen
  <2>3. made + 0 = (made - d * v) + (d * n) * mark * l
    BY <2>1
  <2> QED
    BY <1>6, <1>7, <1>8, <2>2, <2>3
<1>10. CASE lots[i] # <<>>
  <2>1. EmittedOpen(i) /\ finalMarks[i] = mark
    BY <1>5, <1>10 DEF EmittedOpen, MarkedAt
  <2>2. direction[i] \in TradeSides /\ lots[i] \in Seq(Lot)
    BY <1>1, <1>10 DEF LedgerTypeOK
  <2>3. OpenPnl(i, mark) = GainOfLots(direction[i], l, mark, lots[i])
    BY <1>3 DEF OpenPnl, GainOfLots
  <2>4. GainOfLots(direction[i], l, mark, lots[i])
          = SignOf(direction[i]) * ((mark * l) * LotQty(lots[i]) - CostOfLots(l, lots[i]))
    BY <2>2, GainOfLotsIs
  <2>5. CostOfLots(l, lots[i]) = v
    BY <1>3 DEF Invested
  <2>6. OpenPnl(i, mark) = d * ((mark * l) * n - v)
    BY <1>3, <2>3, <2>4, <2>5
  <2>7. PnlBySymbol(i) = made + d * ((mark * l) * n - v)
    BY <1>4, <2>1, <2>6 DEF PnlBySymbol
  <2>8. made + d * ((mark * l) * n - v) = (made - d * v) + (d * n) * mark * l
    OBVIOUS
  <2> QED
    BY <1>6, <1>7, <1>8, <2>7, <2>8
<1> QED
  BY <1>9, <1>10

LEMMA GainAddsUp ==
    ASSUME ReportInv, stage = "recorded", unmatched = {}, Complete
    PROVE  Summary.final_equity - InitialCash =
             SumFunction([i \in Instruments |-> PnlBySymbol(i)]) - Summary.total_fees
<1> DEFINE pnl == [i \in Instruments |-> PnlBySymbol(i)]
           value == MarkedValue(finalMarks)
<1>1. /\ finalMarks \in [Instruments -> MarkPrices \cup {NoMark}]
      /\ curve # <<>> /\ Last(curve) = cash + TotalMark(finalMarks)
      /\ AccountTypeOK
  BY DEF ReportInv, Recorded, BooksInv, EquityInv, AccountInv
<1>2. \A i \in Instruments : /\ pnl[i] = flow[i] + value[i]
                             /\ flow[i] \in Int /\ value[i] \in Int
  BY <1>1, PnlBySymbolIs DEF Complete
<1>3. SumFunction(pnl) = SumFunctionOnSet(pnl, Instruments)
  BY DEF SumFunction
<1>4. \A i \in Instruments : MarkedAt(i, finalMarks) \in Int
  BY <1>1, MarksAreNumbers
<1> HIDE DEF pnl, value
<1>5. SumFunctionOnSet(pnl, Instruments)
        = SumFunctionOnSet(flow, Instruments) + SumFunctionOnSet(value, Instruments)
  BY <1>2, SumCombines, PortfolioAssumption
<1>6. TotalMark(finalMarks) = SumFunctionOnSet(value, Instruments)
  BY <1>1, <1>4, TotalMarkType DEF value
<1>7. PICK f \in Int, v \in Int : /\ f = SumFunctionOnSet(flow, Instruments)
                                  /\ v = SumFunctionOnSet(value, Instruments)
  BY <1>2, SumTakes, PortfolioAssumption
<1>8. cash = InitialCash + f - feesPaid /\ cash \in Int /\ feesPaid \in Int /\ InitialCash \in Int
  BY <1>1, <1>7, PortfolioAssumption DEF ReportInv, BooksInv, CashAddsUp, AccountTypeOK
<1>9. Summary.final_equity = cash + v /\ Summary.total_fees = feesPaid
  BY <1>1, <1>6, <1>7 DEF Summary
<1>10. SumFunction(pnl) = f + v
  BY <1>3, <1>5, <1>7
<1>11. (cash + v) - InitialCash = (f + v) - feesPaid
  BY <1>8
<1> QED
  BY <1>9, <1>10, <1>11 DEF pnl

LEMMA TurnoverAddsUp ==
    ASSUME TurnoverInv, unmatched = {}
    PROVE  Summary.turnover =
             SumFunction([k \in DOMAIN trades |-> TurnedOver(k)])
               + SumFunction([i \in Instruments |-> OpenedAt(i)])
<1>1. Turned(trades) = SumFunction([k \in DOMAIN trades |-> TurnedOver(k)])
  BY DEF Turned, TurnedOf, TurnedOver
<1>2. InvestedIn = [i \in Instruments |-> OpenedAt(i)]
  BY DEF InvestedIn, Invested, OpenedAt, CostOfLots
<1>3. SumFunction(InvestedIn) = SumFunctionOnSet(InvestedIn, Instruments)
  BY DEF SumFunction, InvestedIn
<1>4. Summary.turnover = notional
  BY DEF Summary
<1> QED
  BY <1>1, <1>2, <1>3, <1>4 DEF TurnoverInv

LEMMA ExposureAddsUp ==
    ASSUME ReportInv, stage = "recorded"
    PROVE  Summary.net_exposure = Summary.final_equity - cash
<1>1. /\ finalMarks \in [Instruments -> MarkPrices \cup {NoMark}]
      /\ allocation = MarkedValue(finalMarks)
      /\ curve # <<>> /\ Last(curve) = cash + TotalMark(finalMarks)
      /\ AccountTypeOK /\ cash \in Int
  BY DEF ReportInv, Recorded, BooksInv, EquityInv, AccountInv, AccountTypeOK
<1>2. \A i \in Instruments : MarkedAt(i, finalMarks) \in Int
  BY <1>1, MarksAreNumbers
<1>3. PICK v \in Int : /\ v = TotalMark(finalMarks)
                       /\ v = SumFunctionOnSet(MarkedValue(finalMarks), Instruments)
  BY <1>1, <1>2, TotalMarkType
<1>4. DOMAIN allocation = Instruments
  BY <1>1 DEF MarkedValue
<1>5. NetExposure = v
  BY <1>1, <1>3, <1>4 DEF NetExposure, SumFunction
<1>6. Summary.net_exposure = v /\ Summary.final_equity = cash + v
  BY <1>1, <1>3, <1>5 DEF Summary
<1> QED
  BY <1>1, <1>6

(* At whatever step a run ends, what the report says adds up: what was made *)
(* is what the trades made less the fees, each unit turned over where it    *)
(* was bought and sold, and the exposure is the equity that is not cash     *)
(* (summary.py:120-191, 322-336; trades.py:75-204; engine.py:478-484).      *)
THEOREM ReportAddsUpHolds ==
    ASSUME Prices \subseteq Nat
    PROVE  ReportSpec => []ReportAddsUp
<1>1. ReportInit => TurnoverInv
  BY InitTurnover
<1>2. ReportInv /\ TurnoverInv /\ [ReportNext]_<<accountVars, ledgerVars, resultVars>> => TurnoverInv'
  BY ReportNextKeepsTurnover
<1>3. ReportInv /\ TurnoverInv => ReportAddsUp
  BY GainAddsUp, TurnoverAddsUp, ExposureAddsUp DEF ReportAddsUp
<1> QED
  BY <1>1, <1>2, <1>3, ReportInvariant, PTL DEF ReportSpec

-----------------------------------------------------------------------------
(* The highest and the lowest of numbers *)

LEMMA MaxIs ==
    ASSUME NEW S, S \subseteq Int, NEW m \in S, \A y \in S : m >= y
    PROVE  Max(S) = m
<1>1. Max(S) \in S /\ \A y \in S : Max(S) >= y
  BY DEF Max
<1>2. Max(S) >= m /\ m >= Max(S) /\ Max(S) \in Int /\ m \in Int
  BY <1>1
<1> HIDE DEF Max
<1> QED
  BY <1>2

LEMMA MinIs ==
    ASSUME NEW S, S \subseteq Int, NEW m \in S, \A y \in S : m =< y
    PROVE  Min(S) = m
<1>1. Min(S) \in S /\ \A y \in S : Min(S) =< y
  BY DEF Min
<1>2. Min(S) =< m /\ m =< Min(S) /\ Min(S) \in Int /\ m \in Int
  BY <1>1
<1> QED
  BY <1>2

LEMMA SomeIsHighest ==
    ASSUME NEW n \in Nat, NEW s \in SUBSET (1..n), s # {}
    PROVE  Max(s) \in s /\ \A y \in s : Max(s) >= y
<1> DEFINE N == {k \in Nat : \A t \in SUBSET (1..k) :
                   t # {} => \E m \in t : \A y \in t : m >= y}
<1>1. 0 \in N
  <2>1. 1..0 = {}
    OBVIOUS
  <2> QED
    BY <2>1
<1>2. ASSUME NEW k \in N PROVE k + 1 \in N
  <2>1. ASSUME NEW t \in SUBSET (1..(k + 1)), t # {}
        PROVE  \E m \in t : \A y \in t : m >= y
    <3>1. CASE k + 1 \in t
      <4>1. \A y \in t : k + 1 >= y
        OBVIOUS
      <4> QED
        BY <3>1, <4>1
    <3>2. CASE k + 1 \notin t
      <4>1. t \in SUBSET (1..k)
        BY <3>2
      <4> QED
        BY <2>1, <4>1
    <3> QED
      BY <3>1, <3>2
  <2> QED
    BY <2>1
<1>3. N = Nat
  <2>1. N \subseteq Nat
    OBVIOUS
  <2> HIDE DEF N
  <2> QED
    BY <1>1, <1>2, <2>1, NatInductionSet
<1>4. n \in N
  BY <1>3
<1>5. PICK m \in s : \A y \in s : m >= y
  BY <1>4
<1>6. s \subseteq Int
  OBVIOUS
<1>7. Max(s) = m
  BY <1>5, <1>6, MaxIs
<1> QED
  BY <1>5, <1>7

-----------------------------------------------------------------------------
(* The pass over the equity curve is a fold from the left: what it has of a *)
(* set of points is what it has of all but the last, and the last.          *)

Pass == [peak : Int, drawdown : Int]
Passed(points, base, g, s) ==
    IF s = {} THEN base ELSE Follow(g[s \ {Max(s)}], points[Max(s)])
IsPass(g, points, base) ==
    g = [s \in SUBSET (1..Len(points)) |-> Passed(points, base, g, s)]

LEMMA FollowType ==
    ASSUME NEW acc \in Pass, NEW point \in Int
    PROVE  Follow(acc, point) \in Pass
  BY DEF Pass, Follow

LEMMA PassExists ==
    ASSUME NEW points \in Seq(Int), NEW base \in Pass
    PROVE  \E g : IsPass(g, points, base)
<1> DEFINE A == 1..Len(points)
           pick == [s \in SUBSET A |-> Max(s)]
           F == [k \in A |-> [acc \in Pass |-> Follow(acc, points[k])]]
<1>1. Len(points) \in Nat /\ \A k \in A : points[k] \in Int
  OBVIOUS
<1>2. IsFiniteSet(A)
  BY <1>1, FS_Interval
<1>3. \A s \in SUBSET A : s # {} => pick[s] = Max(s) /\ pick[s] \in s /\ pick[s] \in A
  BY <1>1, SomeIsHighest
<1>4. PICK g : IsFold(g, F, pick, base, A)
  <2> HIDE DEF A, pick, F
  <2> QED
    BY <1>2, <1>3, FoldExists
<1> DEFINE family == {s \in SUBSET A : g[s] \in Pass /\ g[s] = Passed(points, base, g, s)}
<1>5. ASSUME NEW s \in SUBSET A, \A C \in SUBSET s : C # s => C \in family
      PROVE  s \in family
  <2>1. g[s] = Folded(F, pick, base, g, s)
    BY <1>4 DEF IsFold
  <2>2. CASE s = {}
    BY <2>1, <2>2 DEF Folded, Passed
  <2>3. CASE s # {}
    <3>1. pick[s] = Max(s) /\ Max(s) \in s /\ Max(s) \in A
      BY <1>3, <2>3
    <3>2. s \ {Max(s)} \in family
      BY <1>5, <3>1
    <3>3. g[s \ {Max(s)}] \in Pass /\ points[Max(s)] \in Int
      BY <1>1, <3>1, <3>2
    <3>4. g[s] = F[Max(s)][g[s \ {Max(s)}]]
      BY <2>1, <2>3, <3>1 DEF Folded
    <3>5. g[s] = Follow(g[s \ {Max(s)}], points[Max(s)])
      BY <3>1, <3>3, <3>4
    <3>6. g[s] \in Pass
      BY <3>3, <3>5, FollowType
    <3> QED
      BY <2>3, <3>5, <3>6 DEF Passed
  <2> QED
    BY <2>2, <2>3
<1>6. \A s \in SUBSET A : s \in family
  <2> HIDE DEF family, A
  <2> QED
    BY <1>2, <1>5, SubsetInduction
<1>7. g = [s \in SUBSET A |-> Folded(F, pick, base, g, s)]
  BY <1>4 DEF IsFold
<1>8. g = [s \in SUBSET A |-> Passed(points, base, g, s)]
  <2> HIDE DEF A
  <2> QED
    BY <1>6, <1>7
<1> QED
  BY <1>8 DEF IsPass

LEMMA PassIs ==
    ASSUME NEW points \in Seq(Int), NEW base \in Pass
    PROVE  \E g : IsPass(g, points, base)
                    /\ FoldLeft(Follow, base, points) = g[1..Len(points)]
<1> DEFINE iter == CHOOSE iter : iter = [s \in SUBSET DOMAIN points |->
             IF s = {} THEN base ELSE LET x == Max(s) IN Follow(iter[s \ {x}], points[x])]
<1>1. FoldLeft(Follow, base, points) = iter[DOMAIN points]
  BY DEF FoldLeft, MapThenFoldSet
<1>2. DOMAIN points = 1..Len(points)
  OBVIOUS
<1>3. \A g : IsPass(g, points, base) <=> g = [s \in SUBSET DOMAIN points |->
             IF s = {} THEN base ELSE LET x == Max(s) IN Follow(g[s \ {x}], points[x])]
  BY <1>2 DEF IsPass, Passed
<1>4. \E g : g = [s \in SUBSET DOMAIN points |->
             IF s = {} THEN base ELSE LET x == Max(s) IN Follow(g[s \ {x}], points[x])]
  <2>1. PICK g : IsPass(g, points, base)
    BY PassExists
  <2>2. g = [s \in SUBSET DOMAIN points |->
             IF s = {} THEN base ELSE LET x == Max(s) IN Follow(g[s \ {x}], points[x])]
    BY <1>3, <2>1
  <2> QED
    BY <2>2
<1>5. iter = [s \in SUBSET DOMAIN points |->
             IF s = {} THEN base ELSE LET x == Max(s) IN Follow(iter[s \ {x}], points[x])]
  BY <1>4
<1>6. IsPass(iter, points, base)
  BY <1>3, <1>5
<1> HIDE DEF iter
<1> QED
  BY <1>1, <1>2, <1>6

\* What the pass has after n points: the highest of them, and the largest fall.
DeepestOf(points, n, acc) ==
    /\ acc \in Pass
    /\ \E k \in 1..n : acc.peak = points[k]
    /\ \A k \in 1..n : points[k] <= acc.peak
    /\ \E m \in 1..n : \E k \in 1..m : acc.drawdown = points[k] - points[m]
    /\ \A m \in 1..n : \A k \in 1..m : points[k] - points[m] <= acc.drawdown

LEMMA FollowDeepest ==
    ASSUME NEW points \in Seq(Int), NEW n \in Nat \ {0}, n + 1 <= Len(points),
           NEW acc, DeepestOf(points, n, acc)
    PROVE  DeepestOf(points, n + 1, Follow(acc, points[n + 1]))
<1> DEFINE next == Follow(acc, points[n + 1])
<1>1. acc \in Pass /\ acc.peak \in Int /\ acc.drawdown \in Int
  BY DEF DeepestOf, Pass
<1>2. \A k \in 1..(n + 1) : points[k] \in Int
  OBVIOUS
<1>3. PICK p \in Int, d \in Int, x \in Int :
        p = acc.peak /\ d = acc.drawdown /\ x = points[n + 1]
  BY <1>1, <1>2
<1>4. /\ next.peak = IF x > p THEN x ELSE p
      /\ next.drawdown = IF next.peak - x > d THEN next.peak - x ELSE d
  BY <1>3 DEF Follow
<1>5. next \in Pass
  BY <1>1, <1>3, FollowType
<1>6. \E k \in 1..(n + 1) : next.peak = points[k]
  <2>1. CASE x > p
    <3>1. n + 1 \in 1..(n + 1) /\ next.peak = points[n + 1]
      BY <1>3, <1>4, <2>1
    <3> QED
      BY <3>1
  <2>2. CASE ~(x > p)
    <3>1. PICK k \in 1..n : acc.peak = points[k]
      BY DEF DeepestOf
    <3>2. k \in 1..(n + 1) /\ next.peak = points[k]
      BY <1>3, <1>4, <2>2, <3>1
    <3> QED
      BY <3>2
  <2> QED
    BY <2>1, <2>2
<1> HIDE DEF next
<1>7. ASSUME NEW k \in 1..(n + 1) PROVE points[k] <= next.peak
  <2>1. points[k] \in Int /\ next.peak \in Int
    BY <1>2, <1>5 DEF Pass
  <2>2. CASE k = n + 1
    BY <1>3, <1>4, <2>2
  <2>3. CASE k # n + 1
    <3>1. k \in 1..n
      BY <2>3
    <3>2. points[k] <= p
      BY <1>3, <3>1 DEF DeepestOf
    <3> QED
      BY <1>4, <2>1, <3>2
  <2> QED
    BY <2>2, <2>3
<1>8. next.peak \in Int /\ next.drawdown \in Int
  BY <1>5 DEF Pass
<1>9. \E m \in 1..(n + 1) : \E k \in 1..m : next.drawdown = points[k] - points[m]
  <2>1. CASE next.peak - x > d
    <3>1. PICK k \in 1..(n + 1) : next.peak = points[k]
      BY <1>6
    <3>2. n + 1 \in 1..(n + 1) /\ next.drawdown = points[k] - points[n + 1]
      BY <1>3, <1>4, <2>1, <3>1
    <3> QED
      BY <3>2
  <2>2. CASE ~(next.peak - x > d)
    <3>1. PICK m \in 1..n : \E k \in 1..m : acc.drawdown = points[k] - points[m]
      BY DEF DeepestOf
    <3>2. m \in 1..(n + 1) /\ next.drawdown = acc.drawdown
      BY <1>3, <1>4, <2>2
    <3> QED
      BY <3>1, <3>2
  <2> QED
    BY <2>1, <2>2
<1>10. ASSUME NEW m \in 1..(n + 1), NEW k \in 1..m
       PROVE  points[k] - points[m] <= next.drawdown
  <2>1. k \in 1..(n + 1) /\ points[k] \in Int /\ points[m] \in Int
    BY <1>2
  <2>2. CASE m = n + 1
    <3>1. points[k] <= next.peak /\ points[m] = x
      BY <1>3, <1>7, <2>1, <2>2
    <3>2. PICK a \in Int, t \in Int, w \in Int :
            a = points[k] /\ t = next.peak /\ w = next.drawdown
      BY <1>8, <2>1
    <3>3. a <= t /\ t - x <= w
      BY <1>4, <3>1, <3>2
    <3>4. a - x <= w
      BY <3>3
    <3> QED
      BY <3>1, <3>2, <3>4
  <2>3. CASE m # n + 1
    <3>1. m \in 1..n
      BY <2>3
    <3>2. points[k] - points[m] <= d
      BY <1>3, <3>1 DEF DeepestOf
    <3>3. d <= next.drawdown
      BY <1>4, <1>8
    <3>4. points[k] - points[m] \in Int
      BY <2>1
    <3> QED
      BY <1>8, <3>2, <3>3, <3>4
  <2> QED
    BY <2>2, <2>3
<1>11. DeepestOf(points, n + 1, next)
  BY <1>5, <1>6, <1>7, <1>9, <1>10 DEF DeepestOf
<1> QED
  BY <1>11 DEF next

LEMMA PassFindsDeepest ==
    ASSUME NEW points \in Seq(Int), points # <<>>,
           NEW base, base = [peak |-> Head(points), drawdown |-> 0],
           NEW g, IsPass(g, points, base), NEW n \in 1..Len(points)
    PROVE  DeepestOf(points, n, g[1..n])
<1> DEFINE N == {k \in Nat : k + 1 <= Len(points) => DeepestOf(points, k + 1, g[1..(k + 1)])}
<1>1. \A k \in 1..Len(points) : points[k] \in Int
  OBVIOUS
<1>2. ASSUME NEW k \in 1..Len(points)
      PROVE  g[1..k] = Follow(g[1..(k - 1)], points[k])
  <2>1. Max(1..k) = k
    <3>1. k \in 1..k /\ 1..k \subseteq Int /\ \A y \in 1..k : k >= y
      OBVIOUS
    <3> QED
      BY <3>1, MaxIs
  <2>2. (1..k) \ {k} = 1..(k - 1) /\ 1..k # {} /\ 1..k \in SUBSET (1..Len(points))
    <3>1. PICK L \in Nat : L = Len(points) /\ k \in 1..L
      BY LenProperties
    <3>2. (1..k) \ {k} = 1..(k - 1)
      BY <3>1
    <3>3. k \in 1..k /\ 1..k \subseteq 1..L
      BY <3>1
    <3> QED
      BY <3>1, <3>2, <3>3
  <2>3. g[1..k] = Passed(points, base, g, 1..k)
    BY <2>2 DEF IsPass
  <2> QED
    BY <2>1, <2>2, <2>3 DEF Passed
<1>3. 0 \in N
  <2>1. Len(points) >= 1 /\ 1 \in 1..Len(points) /\ Head(points) = points[1] /\ points[1] \in Int
    OBVIOUS
  <2>2. g[{}] = base
    <3>1. {} \in SUBSET (1..Len(points))
      OBVIOUS
    <3> QED
      BY <3>1 DEF IsPass, Passed
  <2>3. 1..0 = {} /\ 1 - 1 = 0
    OBVIOUS
  <2>4. g[1..1] = Follow(base, points[1])
    BY <1>2, <2>1, <2>2, <2>3
  <2>5. g[1..1] = [peak |-> points[1], drawdown |-> 0]
    BY <2>1, <2>4 DEF Follow
  <2>6. \A m \in 1..1 : \A k \in 1..m : m = 1 /\ k = 1
    OBVIOUS
  <2>7. DeepestOf(points, 1, g[1..1])
    <3>1. g[1..1] \in Pass /\ g[1..1].peak = points[1] /\ g[1..1].drawdown = 0
      BY <2>1, <2>5 DEF Pass
    <3>2. 1 \in 1..1 /\ points[1] - points[1] = 0
      BY <2>1
    <3>3. \E k \in 1..1 : g[1..1].peak = points[k]
      BY <3>1, <3>2
    <3>4. \A k \in 1..1 : points[k] <= g[1..1].peak
      BY <2>1, <3>1
    <3>5. \E m \in 1..1 : \E k \in 1..m : g[1..1].drawdown = points[k] - points[m]
      BY <3>1, <3>2
    <3>6. \A m \in 1..1 : \A k \in 1..m : points[k] - points[m] <= g[1..1].drawdown
      BY <2>1, <3>1
    <3> QED
      BY <3>1, <3>3, <3>4, <3>5, <3>6 DEF DeepestOf
  <2> QED
    BY <2>7
<1>4. ASSUME NEW k \in N PROVE k + 1 \in N
  <2> SUFFICES ASSUME (k + 1) + 1 <= Len(points)
               PROVE  DeepestOf(points, (k + 1) + 1, g[1..((k + 1) + 1)])
    OBVIOUS
  <2>1. k + 1 \in Nat \ {0} /\ DeepestOf(points, k + 1, g[1..(k + 1)])
    OBVIOUS
  <2>2. DeepestOf(points, (k + 1) + 1, Follow(g[1..(k + 1)], points[(k + 1) + 1]))
    BY <2>1, FollowDeepest
  <2>3. (k + 1) + 1 \in 1..Len(points) /\ ((k + 1) + 1) - 1 = k + 1
    OBVIOUS
  <2>4. g[1..((k + 1) + 1)] = Follow(g[1..(k + 1)], points[(k + 1) + 1])
    BY <1>2, <2>3
  <2> QED
    BY <2>2, <2>4
<1>5. N = Nat
  <2>1. N \subseteq Nat
    OBVIOUS
  <2> HIDE DEF N
  <2> QED
    BY <1>3, <1>4, <2>1, NatInductionSet
<1>6. n - 1 \in Nat /\ (n - 1) + 1 = n /\ n <= Len(points)
  OBVIOUS
<1>7. n - 1 \in N
  BY <1>5, <1>6
<1> QED
  BY <1>6, <1>7

LEMMA DeepestIsFound ==
    ASSUME curve \in Seq(Int), Len(curve) >= 2
    PROVE  LET falls == UNION {{curve[k] - curve[n] : k \in 1..n} : n \in DOMAIN curve}
           IN  /\ MaxDrawdown = Max(falls)
               /\ MaxDrawdown = -Min({DrawdownSeries[n] : n \in DOMAIN curve})
<1> DEFINE base == [peak |-> Head(curve), drawdown |-> 0]
           L == Len(curve)
           falls == UNION {{curve[k] - curve[n] : k \in 1..n} : n \in DOMAIN curve}
           series == {DrawdownSeries[n] : n \in DOMAIN curve}
<1>1. /\ curve # <<>> /\ L \in Nat /\ L \in 1..L /\ DOMAIN curve = 1..L
      /\ \A k \in 1..L : curve[k] \in Int
      /\ Head(curve) \in Int
  OBVIOUS
<1>2. base \in Pass
  BY <1>1 DEF Pass
<1>3. PICK g : IsPass(g, curve, base) /\ FoldLeft(Follow, base, curve) = g[1..L]
  BY <1>2, PassIs
<1>4. \A n \in 1..L : DeepestOf(curve, n, g[1..n])
  BY <1>1, <1>3, PassFindsDeepest
<1>5. PICK d \in Int : d = g[1..L].drawdown
  BY <1>1, <1>4 DEF DeepestOf, Pass
<1>6. MaxDrawdown = d
  BY <1>3, <1>5 DEF MaxDrawdown
<1>7. PICK m \in 1..L : \E k \in 1..m : d = curve[k] - curve[m]
  BY <1>1, <1>4, <1>5 DEF DeepestOf
<1>8. PICK j \in 1..m : d = curve[j] - curve[m]
  BY <1>7
<1>9. \A n \in 1..L : \A k \in 1..n : curve[k] - curve[n] <= d
  BY <1>1, <1>4, <1>5 DEF DeepestOf
<1>10. Max(falls) = d
  <2>1. \A n \in 1..L : \A k \in 1..n : k \in 1..L
    OBVIOUS
  <2>2. ASSUME NEW y
        PROVE  y \in falls <=> \E n \in 1..L : \E k \in 1..n : y = curve[k] - curve[n]
    <3>1. y \in falls <=> \E n \in DOMAIN curve : y \in {curve[k] - curve[n] : k \in 1..n}
      OBVIOUS
    <3>2. \A n : y \in {curve[k] - curve[n] : k \in 1..n}
                  <=> \E k \in 1..n : y = curve[k] - curve[n]
      OBVIOUS
    <3> HIDE DEF falls, L
    <3> QED
      BY <1>1, <3>1, <3>2
  <2> HIDE DEF falls
  <2>3. \A n \in 1..L : \A k \in 1..n : curve[k] - curve[n] \in Int
    <3> HIDE DEF L
    <3> QED
      BY <1>1, <2>1
  <2>4. \A y \in falls : y \in Int /\ d >= y
    <3> SUFFICES ASSUME NEW y \in falls PROVE y \in Int /\ d >= y
      OBVIOUS
    <3>1. PICK n \in 1..L : \E k \in 1..n : y = curve[k] - curve[n]
      BY <2>2
    <3>2. PICK k \in 1..n : y = curve[k] - curve[n]
      BY <3>1
    <3>3. y \in Int /\ y <= d
      BY <1>9, <2>3, <3>2
    <3> QED
      BY <3>3
  <2>5. d \in falls
    BY <1>8, <2>2
  <2> QED
    BY <2>4, <2>5, MaxIs
<1>11. ASSUME NEW n \in 1..L
       PROVE  \E h \in 1..n : /\ DrawdownSeries[n] = curve[n] - curve[h]
                              /\ \A k \in 1..n : curve[k] <= curve[h]
  <2>1. PICK h \in 1..n : /\ g[1..n].peak = curve[h]
                          /\ \A k \in 1..n : curve[k] <= curve[h]
    BY <1>4 DEF DeepestOf
  <2> DEFINE upTo == {curve[k] : k \in 1..n}
  <2>2. 1..n \subseteq 1..L
    OBVIOUS
  <2>3. upTo \subseteq Int /\ curve[h] \in upTo /\ \A y \in upTo : curve[h] >= y
    BY <1>1, <2>1, <2>2
  <2>4. Max(upTo) = curve[h]
    <3> HIDE DEF upTo
    <3> QED
      BY <2>3, MaxIs
  <2>5. DrawdownSeries[n] = curve[n] - Max(upTo)
    BY <1>1 DEF DrawdownSeries
  <2> QED
    BY <2>1, <2>4, <2>5
<1>12. Min(series) = -d
  <2>1. ASSUME NEW n \in 1..L
        PROVE  DrawdownSeries[n] \in Int /\ -d =< DrawdownSeries[n]
    <3>1. PICK h \in 1..n : DrawdownSeries[n] = curve[n] - curve[h]
      BY <1>11
    <3>2. h \in 1..L
      OBVIOUS
    <3>3. PICK a \in Int, b \in Int : a = curve[n] /\ b = curve[h]
      BY <1>1, <3>2
    <3>4. b - a <= d
      BY <1>9, <3>3
    <3>5. a - b \in Int /\ -d =< a - b
      BY <3>4
    <3> QED
      BY <3>1, <3>3, <3>5
  <2>2. DrawdownSeries[m] = -d
    <3>1. PICK h \in 1..m : DrawdownSeries[m] = curve[m] - curve[h] /\ curve[j] <= curve[h]
      BY <1>11
    <3>2. h \in 1..L /\ j \in 1..L
      OBVIOUS
    <3>3. PICK a \in Int, b \in Int, c \in Int : a = curve[m] /\ b = curve[h] /\ c = curve[j]
      BY <1>1, <3>2
    <3>4. b - a <= d /\ d = c - a /\ c <= b
      BY <1>8, <1>9, <3>1, <3>3
    <3>5. a - b = -d
      BY <3>4
    <3> QED
      BY <3>1, <3>3, <3>5
  <2>3. series \subseteq Int /\ (\A y \in series : -d =< y) /\ -d \in series
    BY <1>1, <2>1, <2>2
  <2> HIDE DEF series
  <2> QED
    BY <2>3, MinIs
<1>13. -(-d) = d
  OBVIOUS
<1> HIDE DEF series, falls
<1>14. MaxDrawdown = Max(falls) /\ MaxDrawdown = -Min(series)
  BY <1>6, <1>10, <1>12, <1>13
<1> QED
  BY <1>14 DEF falls, series

(* The summary's drawdown, found in one pass, is the deepest point of the   *)
(* chart's and the largest fall from a point of the equity curve to a later *)
(* one, for every curve (summary.py:339-360, visualize.py:78-91).           *)
THEOREM DrawdownsAgreeHolds == ReportSpec => []DrawdownsAgree
<1>1. ReportInv => DrawdownsAgree
  <2> SUFFICES ASSUME ReportInv, Len(curve) >= 2
               PROVE  LET falls == UNION {{curve[k] - curve[n] : k \in 1..n} : n \in DOMAIN curve}
                      IN  /\ Summary.max_drawdown = Max(falls)
                          /\ Summary.max_drawdown = -Min({DrawdownSeries[n] : n \in DOMAIN curve})
    BY DEF DrawdownsAgree
  <2>1. curve \in Seq(Int)
    BY DEF ReportInv
  <2>2. Summary.max_drawdown = MaxDrawdown
    BY DEF Summary
  <2> QED
    BY <2>1, <2>2, DeepestIsFound
<1> QED
  BY <1>1, ReportInvariant, PTL
=============================================================================
