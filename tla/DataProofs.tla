----------------------------- MODULE DataProofs -----------------------------
(***************************************************************************)
(* Theorems about DataProvider for every calendar, range, files, contracts *)
(* and order of requests.  That a step is answered from the past alone     *)
(* rests on one invariant: what is cached is what the file holds.  That    *)
(* the steps are the ends of bars rests on lemmas about the operators the  *)
(* clock is built from: the members of a set in order, sequences put one   *)
(* after the other, sums over a set; each is an induction over numbers or  *)
(* over finite sets.                                                       *)
(***************************************************************************)
EXTENDS DataProvider, FiniteSetTheorems, SequenceTheorems, WellFoundedInduction, TLAPS

-----------------------------------------------------------------------------
(* Induction, on sets: a predicate cannot be given to a theorem here. *)

(* A set of numbers with 0 and the successor of each of its members.        *)
LEMMA NatInductionSet ==
    ASSUME NEW N, N \subseteq Nat, 0 \in N, \A n \in N : n + 1 \in N
    PROVE  N = Nat
<1> SUFFICES ASSUME Nat \ N # {} PROVE FALSE
  OBVIOUS
<1> DEFINE less == {r \in Nat \X Nat : r[1] < r[2]}
<1>1. IsWellFoundedOn(less, Nat)
  BY NatLessThanWellFounded DEF OpToRel
<1>2. \E x \in Nat \ N : \A y \in Nat \ N : <<y, x>> \notin less
  <2>1. Nat \ N \subseteq Nat
    OBVIOUS
  <2> HIDE DEF less
  <2> QED
    BY <1>1, <2>1, WFMin
<1>3. PICK x \in Nat \ N : \A y \in Nat \ N : <<y, x>> \notin less
  BY <1>2
<1>4. x # 0 /\ x - 1 \in Nat /\ <<x - 1, x>> \in less
  OBVIOUS
<1>5. x - 1 \in N /\ (x - 1) + 1 = x
  BY <1>3, <1>4
<1> QED
  BY <1>5

(* A family of subsets of a finite set that has every set all of whose      *)
(* proper subsets it has.                                                   *)
LEMMA SubsetInduction ==
    ASSUME NEW A, IsFiniteSet(A), NEW family,
           \A B \in SUBSET A : (\A C \in SUBSET B : C # B => C \in family) => B \in family
    PROVE  \A B \in SUBSET A : B \in family
<1> SUFFICES ASSUME {B \in SUBSET A : B \notin family} # {} PROVE FALSE
  OBVIOUS
<1> DEFINE bad == {B \in SUBSET A : B \notin family}
<1>1. IsWellFoundedOn(StrictSubsetOrdering(A), SUBSET A)
  <2>1. IsWellFoundedOn(StrictSubsetOrdering(A), FiniteSubsetsOf(A))
    BY FS_StrictSubsetOrderingWellFounded
  <2>2. FiniteSubsetsOf(A) = SUBSET A
    BY FS_FiniteSubsetsOfFinite
  <2> QED
    BY <2>1, <2>2
<1>2. \E B \in bad : \A C \in bad : <<C, B>> \notin StrictSubsetOrdering(A)
  <2>1. bad \subseteq SUBSET A /\ bad # {}
    OBVIOUS
  <2> HIDE DEF bad
  <2> QED
    BY <1>1, <2>1, WFMin
<1>3. PICK B \in bad : \A C \in bad : <<C, B>> \notin StrictSubsetOrdering(A)
  BY <1>2
<1>4. \A C \in SUBSET B : C # B => C \in family
  BY <1>3 DEF StrictSubsetOrdering
<1> QED
  BY <1>3, <1>4

LEMMA FiniteMax ==
    ASSUME NEW S, IsFiniteSet(S), S \subseteq Int, S # {}
    PROVE  Max(S) \in S /\ \A y \in S : Max(S) >= y
<1> DEFINE family == {B \in SUBSET S : B = {} \/ \E x \in B : \A y \in B : x >= y}
<1>1. ASSUME NEW B \in SUBSET S, \A C \in SUBSET B : C # B => C \in family
      PROVE  B \in family
  <2> SUFFICES ASSUME NEW b \in B PROVE \E x \in B : \A y \in B : x >= y
    OBVIOUS
  <2> DEFINE C == B \ {b}
  <2>1. C \in SUBSET B /\ C # B /\ C \in family
    BY <1>1
  <2>2. CASE C = {}
    BY <2>2
  <2>3. CASE C # {}
    <3>1. PICK x \in C : \A y \in C : x >= y
      BY <2>1, <2>3
    <3>2. x \in Int /\ b \in Int /\ C \subseteq Int
      OBVIOUS
    <3>3. CASE x >= b
      BY <3>1, <3>3
    <3>4. CASE ~(x >= b)
      <4>1. \A y \in C : b >= y
        BY <3>1, <3>2, <3>4
      <4> QED
        BY <4>1, <3>2
    <3> QED
      BY <3>3, <3>4
  <2> QED
    BY <2>2, <2>3
<1> HIDE DEF family
<1>2. S \in family
  BY <1>1, SubsetInduction
<1>3. \E x \in S : \A y \in S : x >= y
  BY <1>2 DEF family
<1> QED
  BY <1>3 DEF Max

LEMMA FiniteMin ==
    ASSUME NEW S, IsFiniteSet(S), S \subseteq Int, S # {}
    PROVE  Min(S) \in S /\ \A y \in S : Min(S) <= y
<1> DEFINE mirror == {-x : x \in S}
<1>1. IsFiniteSet(mirror)
  <2> DEFINE f == [x \in S |-> -x]
  <2>1. f \in Surjection(S, mirror)
    BY DEF Surjection
  <2> HIDE DEF f
  <2> QED
    BY <2>1, FS_Surjection
<1>2. mirror \subseteq Int /\ mirror # {}
  OBVIOUS
<1>3. PICK x \in mirror : \A y \in mirror : x >= y
  <2> HIDE DEF mirror
  <2> QED
    BY <1>1, <1>2, FiniteMax
<1>4. PICK z \in S : x = -z
  OBVIOUS
<1>5. \A y \in S : z <= y
  <2> SUFFICES ASSUME NEW y \in S PROVE z <= y
    OBVIOUS
  <2>1. -y \in mirror /\ x >= -y
    BY <1>3
  <2> QED
    BY <2>1, <1>4
<1> QED
  BY <1>5 DEF Min

-----------------------------------------------------------------------------
(* Arithmetic *)

LEMMA Division ==
  ASSUME NEW a \in Int, NEW d \in Nat \ {0}
  PROVE  /\ a \div d \in Int /\ a % d \in Int
         /\ a = d * (a \div d) + (a % d) /\ 0 <= a % d /\ a % d < d
OBVIOUS

LEMMA DivisionGrows ==
  ASSUME NEW a \in Int, NEW b \in Int, NEW d \in Nat \ {0}, a <= b
  PROVE  a \div d <= b \div d
<1> DEFINE p == a \div d
           q == b \div d
<1>1. /\ p \in Int /\ q \in Int /\ d * p <= a /\ b < d * q + d
  BY Division
<1> HIDE DEF p, q
<1>2. SUFFICES ASSUME p >= q + 1 PROVE FALSE
  BY <1>1 DEF p, q
<1>3. d * p >= d * (q + 1)
  BY <1>1, <1>2
<1>4. d * (q + 1) = d * q + d
  BY <1>1
<1> QED  BY <1>1, <1>3, <1>4

LEMMA MinMaxOfTwo ==
  ASSUME NEW a \in Int, NEW b \in Int
  PROVE  /\ Max({a, b}) = IF a >= b THEN a ELSE b
         /\ Min({a, b}) = IF a <= b THEN a ELSE b
BY DEF Max, Min

-----------------------------------------------------------------------------
(* Sets in order *)

LEMMA AscendingIs ==
  ASSUME NEW S, IsFiniteSet(S), S \subseteq Int
  PROVE  /\ Cardinality(S) \in Nat
         /\ Ascending(S) \in Seq(S) /\ Len(Ascending(S)) = Cardinality(S)
         /\ ToSet(Ascending(S)) = S
         /\ \A i, j \in 1..Cardinality(S) : i < j => Ascending(S)[i] < Ascending(S)[j]
<1> DEFINE n == Cardinality(S)
           before(t) == {u \in S : u < t}
           rank == [t \in S |-> Cardinality(before(t))]
           A == Ascending(S)
<1>1. n \in Nat
  BY FS_CardinalityType
<1>2. ASSUME NEW t \in S
      PROVE  IsFiniteSet(before(t)) /\ rank[t] \in 0..(n - 1)
  <2>1. IsFiniteSet(S \ {t}) /\ Cardinality(S \ {t}) = n - 1
    BY FS_RemoveElement
  <2>2. before(t) \subseteq S \ {t}
    OBVIOUS
  <2>3. IsFiniteSet(before(t)) /\ Cardinality(before(t)) <= n - 1
    BY <2>1, <2>2, FS_Subset
  <2>4. Cardinality(before(t)) \in Nat
    BY <2>3, FS_CardinalityType
  <2> QED  BY <1>1, <2>3, <2>4
<1>r. \A t \in S : rank[t] = Cardinality(before(t)) /\ rank[t] \in Int /\ t \in Int
  BY <1>2
<1>3. ASSUME NEW s \in S, NEW t \in S, s < t PROVE rank[s] < rank[t]
  <2>0. \A u \in S : u < s => u < t
    <3>1. \A a, b, c \in Int : a < b /\ b < c => a < c
      OBVIOUS
    <3> QED  BY <1>3, <1>r, <3>1
  <2>1. before(s) \cup {s} \subseteq before(t) /\ s \notin before(s)
    <3>1. before(s) \subseteq before(t)
      BY <2>0
    <3>2. s \in before(t)
      BY <1>3
    <3>3. s \in Int
      BY <1>r
    <3>4. ~(s < s)
      BY <3>3
    <3>5. s \notin before(s)
      BY <3>4
    <3> QED  BY <3>1, <3>2, <3>5
  <2>2. Cardinality(before(s) \cup {s}) = rank[s] + 1
    BY <1>2, <2>1, FS_AddElement
  <2>3. Cardinality(before(s) \cup {s}) <= rank[t]
    BY <1>2, <2>1, FS_Subset
  <2>4. Cardinality(before(t)) = rank[t] /\ rank[s] \in Int /\ rank[t] \in Int
    BY <1>r
  <2> HIDE DEF rank, before
  <2> QED  BY <2>2, <2>3, <2>4
<1>4. ASSUME NEW s \in S, NEW t \in S, rank[s] = rank[t] PROVE s = t
  <2>1. s \in Int /\ t \in Int /\ rank[s] \in Int
    BY <1>2
  <2>2. ~(s < t) /\ ~(t < s)
    BY <1>3, <1>4, <2>1
  <2> QED  BY <2>1, <2>2
<1>5. rank \in Surjection(S, 0..(n - 1))
  <2>1. rank \in Injection(S, 0..(n - 1))
    <3>1. rank \in [S -> 0..(n - 1)]
      BY <1>2
    <3> HIDE DEF rank
    <3> QED  BY <1>4, <3>1 DEF Injection, IsInjective
  <2>2. IsFiniteSet(0..(n - 1)) /\ Cardinality(0..(n - 1)) = n
    <3>1. n - 1 \in Int /\ 0 <= (n - 1) + 1 /\ (n - 1) - 0 + 1 = n
      BY <1>1
    <3>2. IsFiniteSet(0..(n - 1))
      BY <3>1, FS_Interval
    <3>3. Cardinality(0..(n - 1)) = IF 0 > n - 1 THEN 0 ELSE (n - 1) - 0 + 1
      BY <3>1, FS_Interval
    <3>4. CASE n = 0
      BY <3>1, <3>2, <3>3, <3>4
    <3>5. CASE n # 0
      BY <1>1, <3>1, <3>2, <3>3, <3>5
    <3> QED  BY <3>4, <3>5
  <2> QED  BY <2>1, <2>2, FS_Injection
<1>6. ASSUME NEW k \in 1..n PROVE A[k] \in S /\ rank[A[k]] = k - 1
  <2>1. k - 1 \in 0..(n - 1)
    BY <1>1
  <2>2. PICK t \in S : rank[t] = k - 1
    BY <1>5, <2>1 DEF Surjection
  <2>3. A[k] = CHOOSE u \in S : Cardinality(before(u)) = k - 1
    BY DEF Ascending
  <2> QED  BY <2>2, <2>3
<1>8. A \in [1..n -> S]
  <2> DEFINE pick(k) == CHOOSE u \in S : Cardinality(before(u)) = k - 1
  <2>1. A = [k \in 1..n |-> pick(k)]
    BY DEF Ascending
  <2> HIDE DEF pick, A, rank, before
  <2>2. \A k \in 1..n : A[k] = pick(k)
    BY <2>1
  <2> QED  BY <1>6, <2>1, <2>2
<1>w. \A t \in S : rank[t] + 1 \in 1..n /\ (rank[t] + 1) - 1 = rank[t]
  <2>1. \A t \in S : rank[t] \in 0..(n - 1)
    BY <1>2
  <2> HIDE DEF rank, before, n
  <2> QED  BY <1>1, <2>1
<1> HIDE DEF n, A, rank, before
<1>9. A \in Seq(S) /\ Len(A) = n /\ DOMAIN A = 1..n
  BY <1>1, <1>8
<1>10. \A i, j \in 1..n : i < j => A[i] < A[j]
  <2> SUFFICES ASSUME NEW i \in 1..n, NEW j \in 1..n, i < j PROVE A[i] < A[j]
    OBVIOUS
  <2>1. A[i] \in S /\ A[j] \in S /\ rank[A[i]] = i - 1 /\ rank[A[j]] = j - 1
    BY <1>6
  <2>2. A[i] # A[j]
    BY <1>1, <2>1
  <2>3. ~(A[j] < A[i])
    <3>1. A[j] < A[i] => rank[A[j]] < rank[A[i]]
      BY <1>3, <2>1
    <3>2. ~(j - 1 < i - 1)
      BY <1>1
    <3> QED  BY <2>1, <3>1, <3>2
  <2>4. A[i] \in Int /\ A[j] \in Int
    BY <2>1
  <2> QED  BY <2>2, <2>3, <2>4
<1>11. ToSet(A) = S
  <2>1. ToSet(A) \subseteq S
    BY <1>8, <1>9 DEF ToSet
  <2>2. ASSUME NEW t \in S PROVE t \in ToSet(A)
    <3>1. rank[t] + 1 \in 1..n /\ (rank[t] + 1) - 1 = rank[t]
      BY <1>w
    <3>2. A[rank[t] + 1] \in S /\ rank[A[rank[t] + 1]] = rank[t]
      BY <1>6, <3>1
    <3>3. A[rank[t] + 1] = t
      BY <1>4, <3>2
    <3> QED  BY <1>9, <3>1, <3>3 DEF ToSet
  <2> QED  BY <2>1, <2>2
<1> QED  BY <1>1, <1>9, <1>10, <1>11 DEF n, A

-----------------------------------------------------------------------------
(* The ends of a session's bars *)

Session == [open : Int, close : Int]

\* The hours of a session, counted by number and by time.
LEMMA HoursAgree ==
  ASSUME NEW s \in Session, s.open < s.close, NEW start \in Int, NEW end \in Int
  PROVE  LET hours == {t \in (s.open + Hour)..(s.close - 1) :
                         (t - s.open) % Hour = 0 /\ Within(t, start, end)}
             numbers == {n \in 1..((s.close - s.open - 1) \div Hour) :
                           Within(s.open + n * Hour, start, end)}
         IN  IsFiniteSet(hours) /\ Cardinality(hours) = Cardinality(numbers)
<1> DEFINE hours == {t \in (s.open + Hour)..(s.close - 1) :
                       (t - s.open) % Hour = 0 /\ Within(t, start, end)}
           last == (s.close - s.open - 1) \div Hour
           numbers == {n \in 1..last : Within(s.open + n * Hour, start, end)}
           f == [n \in numbers |-> s.open + n * Hour]
<1>1. s.open \in Int /\ s.close \in Int /\ Hour \in Nat \ {0}
  BY ClockAssumption DEF Session
<1> DEFINE span == s.close - s.open - 1
<1>s. span \in Int
  BY <1>1
<1>2. last \in Int /\ Hour * last <= s.close - s.open - 1
  <2>1. span \div Hour \in Int /\ Hour * (span \div Hour) <= span
    <3> HIDE DEF span
    <3>1. /\ span \div Hour \in Int /\ span % Hour \in Int /\ 0 <= span % Hour
          /\ span = Hour * (span \div Hour) + (span % Hour)
      BY <1>1, <1>s, Division
    <3> QED  BY <1>1, <1>s, <3>1
  <2> QED  BY <2>1
<1>3. ASSUME NEW n \in numbers PROVE f[n] \in hours
  <2> HIDE DEF last
  <2>1. n \in Int /\ 1 <= n /\ n <= last /\ f[n] = s.open + n * Hour /\ Within(f[n], start, end)
    BY <1>2
  <2>2. n * Hour \in Int /\ Hour <= n * Hour /\ n * Hour <= Hour * last
    <3>1. \A h \in Nat \ {0}, m, l \in Int : 1 <= m /\ m <= l =>
            m * h \in Int /\ h <= m * h /\ m * h <= h * l
      OBVIOUS
    <3> QED  BY <1>1, <1>2, <2>1, <3>1
  <2>3. (n * Hour) % Hour = 0
    <3> DEFINE x == n * Hour
               q == x \div Hour
               r == x % Hour
    <3>1. q \in Int /\ r \in Int /\ x = Hour * q + r /\ 0 <= r /\ r < Hour
      BY <1>1, <2>2, Division
    <3>2. \A h \in Nat \ {0}, m, k, l \in Int :
            m * h = h * k + l /\ 0 <= l /\ l < h => l = 0
      <4> SUFFICES ASSUME NEW h \in Nat \ {0}, NEW m \in Int, NEW k \in Int, NEW l \in Int,
                          m * h = h * k + l, 0 <= l, l < h
                   PROVE  l = 0
        OBVIOUS
      <4>1. l = h * (m - k)
        OBVIOUS
      <4>2. m - k \in Int
        OBVIOUS
      <4>3. CASE m - k >= 1
        <5>1. h * (m - k) >= h
          BY <4>2, <4>3
        <5> QED  BY <4>1, <5>1
      <4>4. CASE m - k <= -1
        <5>1. h * (m - k) <= -h
          BY <4>2, <4>4
        <5> QED  BY <4>1, <5>1
      <4>5. CASE m - k = 0
        BY <4>1, <4>5
      <4> QED  BY <4>2, <4>3, <4>4, <4>5
    <3> HIDE DEF q, r
    <3>3. r = 0
      BY <1>1, <2>1, <3>1, <3>2
    <3> QED  BY <3>3 DEF r
  <2>4. f[n] - s.open = n * Hour /\ f[n] \in (s.open + Hour)..(s.close - 1)
    BY <1>1, <1>2, <2>1, <2>2
  <2> QED  BY <2>1, <2>3, <2>4
<1>4. ASSUME NEW t \in hours PROVE \E n \in numbers : f[n] = t
  <2> DEFINE x == t - s.open
             n == x \div Hour
  <2>1. x \in Int /\ Hour <= x /\ x <= s.close - s.open - 1 /\ x % Hour = 0 /\ t = s.open + x
        /\ Within(t, start, end)
    BY <1>1
  <2> HIDE DEF x
  <2>2. n \in Int /\ x = Hour * n
    BY <1>1, <2>1, Division
  <2>3. n <= last
    <3>1. x <= span
      BY <2>1
    <3> HIDE DEF span
    <3>2. x \div Hour <= span \div Hour
      BY <1>1, <1>s, <2>1, <3>1, DivisionGrows
    <3> QED  BY <3>2 DEF span
  <2> HIDE DEF n, last
  <2>4. n >= 1
    <3>1. \A h \in Nat \ {0}, m \in Int : h <= h * m => m >= 1
      <4> SUFFICES ASSUME NEW h \in Nat \ {0}, NEW m \in Int, m <= 0 PROVE ~(h <= h * m)
        OBVIOUS
      <4>1. h * m <= 0
        OBVIOUS
      <4> QED  BY <4>1
    <3> QED  BY <1>1, <2>1, <2>2, <3>1
  <2>5. x = n * Hour
    BY <1>1, <2>2
  <2>6. n \in numbers /\ f[n] = t
    BY <1>2, <2>1, <2>2, <2>3, <2>4, <2>5
  <2> QED  BY <2>6
<1>5. ASSUME NEW m \in numbers, NEW n \in numbers, f[m] = f[n] PROVE m = n
  <2> HIDE DEF last
  <2>1. m \in Int /\ n \in Int /\ m * Hour = n * Hour
    BY <1>1, <1>2, <1>5
  <2>2. \A h \in Nat \ {0}, k, l \in Int : k * h = l * h => k = l
    OBVIOUS
  <2> QED  BY <1>1, <2>1, <2>2
<1>6. IsFiniteSet(numbers)
  <2>1. IsFiniteSet(1..last)
    BY <1>2, FS_Interval
  <2> HIDE DEF last
  <2> QED  BY <2>1, FS_Subset
<1>7. f \in Surjection(numbers, hours) /\ f \in Injection(numbers, hours)
  <2>1. f \in [numbers -> hours]
    BY <1>3
  <2> HIDE DEF f, numbers, hours
  <2> QED  BY <1>4, <1>5, <2>1 DEF Surjection, Injection, IsInjective
<1> HIDE DEF f, numbers, hours
<1>8. IsFiniteSet(hours) /\ Cardinality(hours) = Cardinality(numbers)
  BY <1>6, <1>7, FS_Surjection
<1> QED  BY <1>8 DEF hours, numbers, last

-----------------------------------------------------------------------------
(* Sums.  MapThenSumSet takes the members of the set in some order, which   *)
(* does not matter.                                                         *)

Picked(s) == CHOOSE x \in s : TRUE
Summed(v, sum, s) == IF s = {} THEN 0 ELSE v[Picked(s)] + sum[s \ {Picked(s)}]
IsSum(sum, v, A) == sum = [s \in SUBSET A |-> Summed(v, sum, s)]

LEMMA SumExists ==
    ASSUME NEW A, IsFiniteSet(A), NEW v
    PROVE  \E sum : IsSum(sum, v, A)
<1> DEFINE upTo(n) == {s \in SUBSET A : Cardinality(s) <= n}
           N == {n \in Nat : \E g : g = [s \in upTo(n) |-> Summed(v, g, s)]}
<1>1. \A s \in SUBSET A : IsFiniteSet(s) /\ Cardinality(s) \in Nat /\ Cardinality(s) <= Cardinality(A)
  BY FS_Subset, FS_CardinalityType
<1>2. 0 \in N
  <2>1. \A s \in upTo(0) : s = {}
    BY <1>1, FS_EmptySet
  <2>2. [s \in upTo(0) |-> 0] = [s \in upTo(0) |-> Summed(v, [s1 \in upTo(0) |-> 0], s)]
    BY <2>1 DEF Summed
  <2> QED
    BY <2>2
<1>3. ASSUME NEW n \in N PROVE n + 1 \in N
  <2>1. PICK g : g = [s \in upTo(n) |-> Summed(v, g, s)]
    OBVIOUS
  <2> DEFINE h == [s \in upTo(n + 1) |-> IF Cardinality(s) <= n THEN g[s] ELSE Summed(v, g, s)]
  <2>2. ASSUME NEW s \in upTo(n + 1) PROVE h[s] = Summed(v, h, s)
    <3>1. CASE s = {}
      BY <3>1, <2>1, FS_EmptySet DEF Summed
    <3>2. CASE s # {}
      <4>1. Picked(s) \in s
        BY <3>2 DEF Picked
      <4>2. Cardinality(s \ {Picked(s)}) = Cardinality(s) - 1 /\ s \ {Picked(s)} \in SUBSET A
        BY <4>1, <1>1, FS_RemoveElement
      <4>3. s \ {Picked(s)} \in upTo(n) /\ s \ {Picked(s)} \in upTo(n + 1)
        BY <4>2, <1>1
      <4>4. h[s \ {Picked(s)}] = g[s \ {Picked(s)}]
        BY <4>3
      <4>5. h[s] = Summed(v, g, s)
        BY <2>1, <1>1
      <4> QED
        BY <4>4, <4>5, <3>2 DEF Summed
    <3> QED
      BY <3>1, <3>2
  <2>3. h = [s \in upTo(n + 1) |-> Summed(v, h, s)]
    BY <2>2
  <2>4. n + 1 \in Nat
    OBVIOUS
  <2> QED
    BY <2>3, <2>4
<1>4. N = Nat
  <2>1. N \subseteq Nat
    OBVIOUS
  <2> HIDE DEF N
  <2> QED
    BY <1>2, <1>3, <2>1, NatInductionSet
<1>5. Cardinality(A) \in N /\ upTo(Cardinality(A)) = SUBSET A
  BY <1>1, <1>4
<1> QED
  BY <1>5 DEF IsSum

\* Any member may be taken first.
Adds(g, v, A) ==
    /\ g[{}] = 0
    /\ \A B \in SUBSET A : g[B] \in Int /\ \A x \in B : g[B] = v[x] + g[B \ {x}]

LEMMA SumTakes ==
    ASSUME NEW A, IsFiniteSet(A), NEW v, NEW g, IsSum(g, v, A), \A x \in A : v[x] \in Int
    PROVE  Adds(g, v, A)
<1> DEFINE family == {B \in SUBSET A : g[B] \in Int /\ \A x \in B : g[B] = v[x] + g[B \ {x}]}
<1>0. \A B \in SUBSET A : g[B] = Summed(v, g, B)
  BY DEF IsSum
<1>1. ASSUME NEW B \in SUBSET A, \A C \in SUBSET B : C # B => C \in family
      PROVE  B \in family
  <2>1. CASE B = {}
    <3>1. g[B] = 0
      BY <1>0, <2>1 DEF Summed
    <3> QED  BY <2>1, <3>1
  <2>2. CASE B # {}
    <3> DEFINE y == Picked(B)
    <3>1. y \in B
      BY <2>2 DEF Picked
    <3>2. g[B] = v[y] + g[B \ {y}]
      BY <1>0, <2>2 DEF Summed
    <3> HIDE DEF y
    <3>3. B \ {y} \in family /\ v[y] \in Int
      BY <1>1, <3>1
    <3>4. ASSUME NEW x \in B, x # y PROVE g[B] = v[x] + g[B \ {x}]
      <4>1. B \ {x} \in family /\ x \in B \ {y} /\ y \in B \ {x}
        BY <1>1, <3>1, <3>4
      <4>2. g[B \ {y}] = v[x] + g[(B \ {y}) \ {x}] /\ g[B \ {x}] = v[y] + g[(B \ {x}) \ {y}]
        BY <3>3, <4>1
      <4>3. (B \ {y}) \ {x} = (B \ {x}) \ {y} /\ (B \ {x}) \ {y} \in family
        BY <1>1, <3>1
      <4>4. v[x] \in Int /\ g[(B \ {x}) \ {y}] \in Int
        BY <4>3
      <4> DEFINE rest == g[(B \ {x}) \ {y}]
      <4>5. /\ g[B \ {y}] = v[x] + rest /\ g[B \ {x}] = v[y] + rest /\ rest \in Int
            /\ v[x] \in Int /\ v[y] \in Int
        BY <3>3, <4>2, <4>3, <4>4
      <4> HIDE DEF family, rest
      <4>6. \A a, b, c \in Int : a + (b + c) = b + (a + c)
        OBVIOUS
      <4> QED  BY <3>2, <4>5, <4>6
    <3>5. g[B] \in Int
      BY <3>2, <3>3
    <3> QED  BY <3>2, <3>4, <3>5
  <2> QED  BY <2>1, <2>2
<1>2. \A B \in SUBSET A : B \in family
  <2> HIDE DEF family
  <2> QED  BY <1>1, SubsetInduction
<1>3. g[{}] = 0
  BY <1>0 DEF Summed
<1> QED  BY <1>2, <1>3 DEF Adds

-----------------------------------------------------------------------------
(* One sequence after the other *)

Rises(s) == \A i, j \in DOMAIN s : i < j => s[i] < s[j]

LEMMA ConcatRises ==
  ASSUME NEW s \in Seq(Int), NEW t \in Seq(Int), Rises(s), Rises(t),
         \A a \in ToSet(s), b \in ToSet(t) : a < b
  PROVE  /\ s \o t \in Seq(Int) /\ Len(s \o t) = Len(s) + Len(t) /\ Rises(s \o t)
         /\ ToSet(s \o t) = ToSet(s) \cup ToSet(t)
<1> DEFINE m == Len(s)
           n == Len(t)
           c == s \o t
<1>1. /\ m \in Nat /\ n \in Nat /\ DOMAIN s = 1..m /\ DOMAIN t = 1..n
      /\ c \in Seq(Int) /\ Len(c) = m + n /\ DOMAIN c = 1..(m + n)
      /\ \A i \in 1..(m + n) : c[i] = IF i <= m THEN s[i] ELSE t[i - m]
  OBVIOUS
<1> HIDE DEF m, n, c
<1>2. ASSUME NEW i \in 1..(m + n)
      PROVE  \/ i \in 1..m /\ c[i] = s[i]
             \/ i > m /\ i - m \in 1..n /\ c[i] = t[i - m]
  BY <1>1
<1>3. \A i \in 1..m : i \in 1..(m + n) /\ c[i] = s[i]
  BY <1>1
<1>4. \A i \in 1..n : i + m \in 1..(m + n) /\ c[i + m] = t[i]
  <2> TAKE i \in 1..n
  <2>1. i + m \in 1..(m + n) /\ ~(i + m <= m) /\ (i + m) - m = i
    BY <1>1
  <2> QED  BY <1>1, <2>1
<1>5. ToSet(c) = ToSet(s) \cup ToSet(t)
  <2>1. ToSet(c) \subseteq ToSet(s) \cup ToSet(t)
    BY <1>1, <1>2 DEF ToSet
  <2>2. ToSet(s) \subseteq ToSet(c)
    BY <1>1, <1>3 DEF ToSet
  <2>3. ToSet(t) \subseteq ToSet(c)
    <3> SUFFICES ASSUME NEW i \in 1..n PROVE t[i] \in ToSet(c)
      BY <1>1 DEF ToSet
    <3>1. i + m \in DOMAIN c /\ c[i + m] = t[i]
      BY <1>1, <1>4
    <3> QED  BY <3>1 DEF ToSet
  <2> QED  BY <2>1, <2>2, <2>3
<1>6. Rises(c)
  <2> SUFFICES ASSUME NEW i \in 1..(m + n), NEW j \in 1..(m + n), i < j PROVE c[i] < c[j]
    BY <1>1 DEF Rises
  <2>1. CASE j <= m
    <3>1. i \in 1..m /\ j \in 1..m
      BY <1>1, <2>1
    <3> QED  BY <1>1, <1>3, <3>1 DEF Rises
  <2>2. CASE i <= m /\ ~(j <= m)
    <3>1. i \in 1..m /\ j - m \in 1..n /\ c[i] = s[i] /\ c[j] = t[j - m]
      BY <1>1, <2>2
    <3>2. s[i] \in ToSet(s) /\ t[j - m] \in ToSet(t)
      BY <1>1, <3>1 DEF ToSet
    <3> QED  BY <3>1, <3>2
  <2>3. CASE ~(i <= m)
    <3>1. /\ i - m \in 1..n /\ j - m \in 1..n /\ i - m < j - m
          /\ c[i] = t[i - m] /\ c[j] = t[j - m]
      BY <1>1, <2>3
    <3> QED  BY <1>1, <3>1 DEF Rises
  <2> QED  BY <1>1, <2>1, <2>2, <2>3
<1> QED  BY <1>1, <1>5, <1>6 DEF m, n, c

LEMMA Flattened ==
  ASSUME NEW n \in Nat, NEW ss \in [1..n -> Seq(Int)]
  PROVE  \E upTo \in [0..n -> Seq(Int)] :
           /\ upTo[0] = <<>> /\ upTo[n] = FlattenSeq(ss)
           /\ \A k \in 1..n : upTo[k] = upTo[k - 1] \o ss[k]
<1> DEFINE good(g, m) == /\ g \in [0..m -> Seq(Int)] /\ g[0] = <<>>
                         /\ \A k \in 1..m : g[k] = g[k - 1] \o ss[k]
           M == {m \in Nat : m <= n => \E g : good(g, m)}
<1>0. \A g, m : good(g, m) => /\ g \in [0..m -> Seq(Int)] /\ g[0] = <<>>
                              /\ \A k \in 1..m : g[k] = g[k - 1] \o ss[k]
  OBVIOUS
<1>1. 0 \in M
  <2>1. good([k \in 0..0 |-> <<>>], 0)
    OBVIOUS
  <2> QED  BY <2>1
<1>2. ASSUME NEW m \in M PROVE m + 1 \in M
  <2> SUFFICES ASSUME m + 1 <= n PROVE \E h : good(h, m + 1)
    <3> HIDE DEF good
    <3> QED  OBVIOUS
  <2>1. m \in Nat /\ m <= n /\ m + 1 \in 1..n
    OBVIOUS
  <2>2. PICK g : good(g, m)
    BY <2>1
  <2> DEFINE h == [k \in 0..(m + 1) |-> IF k <= m THEN g[k] ELSE g[m] \o ss[m + 1]]
  <2>3. g[m] \o ss[m + 1] \in Seq(Int)
    BY <2>1, <2>2
  <2>4. h \in [0..(m + 1) -> Seq(Int)] /\ h[0] = <<>>
    BY <2>1, <2>2, <2>3
  <2>5. ASSUME NEW k \in 1..(m + 1) PROVE h[k] = h[k - 1] \o ss[k]
    <3>1. k - 1 \in 0..(m + 1) /\ k - 1 <= m /\ h[k - 1] = g[k - 1]
      BY <2>1
    <3>2. CASE k <= m
      <4>1. k \in 1..m /\ h[k] = g[k]
        BY <2>1, <3>2
      <4> QED  BY <2>2, <3>1, <4>1
    <3>3. CASE ~(k <= m)
      <4>1. k = m + 1 /\ k - 1 = m
        BY <2>1, <3>3
      <4>2. h[k] = g[m] \o ss[m + 1]
        <5> DEFINE last == g[m] \o ss[m + 1]
        <5>1. h = [j \in 0..(m + 1) |-> IF j <= m THEN g[j] ELSE last]
          OBVIOUS
        <5> HIDE DEF last, h, good, M
        <5>2. k \in 0..(m + 1)
          BY <2>1
        <5>3. h[k] = last
          BY <3>3, <5>1, <5>2
        <5> QED  BY <5>3 DEF last
      <4> QED  BY <3>1, <4>1, <4>2
    <3> QED  BY <3>2, <3>3
  <2>6. good(h, m + 1)
    BY <2>4, <2>5
  <2> QED  BY <2>6
<1>3. n \in M
  <2>1. M \subseteq Nat
    OBVIOUS
  <2> HIDE DEF M
  <2>2. M = Nat
    BY <1>1, <1>2, <2>1, NatInductionSet
  <2> QED  BY <2>2
<1>4. PICK g : /\ g \in [0..n -> Seq(Int)] /\ g[0] = <<>>
               /\ \A k \in 1..n : g[k] = g[k - 1] \o ss[k]
  <2>1. \E g : good(g, n)
    <3> HIDE DEF good
    <3> QED  BY <1>3
  <2> HIDE DEF good
  <2> QED  BY <1>0, <2>1
<1> HIDE DEF good, M
<1>5. Len(ss) = n /\ DOMAIN ss = 1..n
  OBVIOUS
<1>6. FlattenSeq(ss) = g[n]
  <2>1. CASE n = 0
    <3>1. ss = <<>> /\ FlattenSeq(ss) = ss
      BY <1>5, <2>1 DEF FlattenSeq
    <3> QED  BY <1>4, <2>1, <3>1
  <2>2. CASE n # 0
    <3> DEFINE rec(f) == [i \in 1..n |-> IF i = 1 THEN ss[i] ELSE f[i - 1] \o ss[i]]
               flatten == CHOOSE f : f = rec(f)
    <3>1. FlattenSeq(ss) = flatten[n]
      BY <1>5, <2>2 DEF FlattenSeq
    <3>2. \E f : f = rec(f)
      <4> DEFINE f == [i \in 1..n |-> g[i]]
      <4>1. ASSUME NEW i \in 1..n
            PROVE  f[i] = IF i = 1 THEN ss[i] ELSE f[i - 1] \o ss[i]
        <5>1. CASE i = 1
          <6>0. 1 \in 1..n /\ 1 - 1 = 0
            BY <5>1
          <6>1. g[1] = g[0] \o ss[1] /\ ss[1] \in Seq(Int) /\ g[0] = <<>>
            BY <1>4, <6>0
          <6>2. <<>> \o ss[1] = ss[1]
            BY <6>1
          <6> QED  BY <5>1, <6>1, <6>2
        <5>2. CASE i # 1
          <6>1. i - 1 \in 1..n
            BY <5>2
          <6> QED  BY <1>4, <5>2, <6>1
        <5> QED  BY <5>1, <5>2
      <4>2. f = rec(f)
        BY <4>1
      <4> QED  BY <4>2
    <3>3. flatten = rec(flatten)
      BY <3>2
    <3> HIDE DEF flatten
    <3>4. flatten[1] = ss[1] /\ \A i \in 2..n : flatten[i] = flatten[i - 1] \o ss[i]
      <4>1. 1 \in 1..n /\ \A i \in 2..n : i \in 1..n /\ i # 1
        BY <2>2
      <4>2. \A i \in 1..n : flatten[i] = IF i = 1 THEN ss[i] ELSE flatten[i - 1] \o ss[i]
        BY <3>3
      <4> QED  BY <4>1, <4>2
    <3> DEFINE E == {m \in Nat : m + 1 <= n => flatten[m + 1] = g[m + 1]}
    <3>5. 0 \in E
      <4>1. 1 \in 1..n
        BY <2>2
      <4>2. g[1] = g[0] \o ss[1] /\ ss[1] \in Seq(Int) /\ g[0] = <<>>
        <5>1. 1 - 1 = 0
          OBVIOUS
        <5> QED  BY <1>4, <4>1, <5>1
      <4>3. <<>> \o ss[1] = ss[1]
        BY <4>2
      <4> QED  BY <3>4, <4>2, <4>3
    <3>6. ASSUME NEW m \in E PROVE m + 1 \in E
      <4> SUFFICES ASSUME m + 2 <= n PROVE flatten[m + 2] = g[m + 2]
        OBVIOUS
      <4>1. m + 2 \in 2..n /\ m + 2 \in 1..n /\ (m + 2) - 1 = m + 1 /\ m + 1 <= n
        OBVIOUS
      <4>2. flatten[m + 2] = flatten[m + 1] \o ss[m + 2]
        BY <3>4, <4>1
      <4>3. g[m + 2] = g[m + 1] \o ss[m + 2]
        BY <1>4, <4>1
      <4> QED  BY <4>1, <4>2, <4>3
    <3>7. n - 1 \in E /\ (n - 1) + 1 = n
      <4>1. E \subseteq Nat /\ n - 1 \in Nat
        BY <2>2
      <4> HIDE DEF E
      <4>2. E = Nat
        BY <3>5, <3>6, <4>1, NatInductionSet
      <4> QED  BY <4>1, <4>2
    <3> QED  BY <3>1, <3>7
  <2> QED  BY <2>1, <2>2
<1> QED  BY <1>4, <1>6

-----------------------------------------------------------------------------
(* The ends of one session's bars: they lie within it and within the range, *)
(* the close is one of them, and they are as many as are counted.           *)
LEMMA EndsAre ==
  ASSUME NEW s \in Session, s.open < s.close, NEW tf \in Timeframes,
         NEW start \in Int, NEW end \in Int
  PROVE  LET E == Ends(s, tf, start, end) IN
         /\ IsFiniteSet(E) /\ E \subseteq Int
         /\ \A t \in E : Within(t, start, end) /\ s.open < t /\ t <= s.close
         /\ Within(s.close, start, end) => s.close \in E
         /\ EndsCounted(s, tf, start, end) = Cardinality(E)
<1> DEFINE E == Ends(s, tf, start, end)
           sure == /\ IsFiniteSet(E) /\ E \subseteq Int
                   /\ \A t \in E : Within(t, start, end) /\ s.open < t /\ t <= s.close
                   /\ Within(s.close, start, end) => s.close \in E
                   /\ EndsCounted(s, tf, start, end) = Cardinality(E)
<1> SUFFICES sure
  OBVIOUS
<1>1. s.open \in Int /\ s.close \in Int /\ Hour \in Nat \ {0}
  BY ClockAssumption DEF Session
<1>e. IsFiniteSet({}) /\ Cardinality({}) = 0
  BY FS_EmptySet
<1>2. CASE Skipped(s, tf, start, end)
  <2>1. E = {} /\ EndsCounted(s, tf, start, end) = 0
    BY <1>2 DEF Ends, EndsCounted
  <2>2. ~Within(s.close, start, end)
    BY <1>1, <1>2 DEF Skipped, Outside, Within
  <2> HIDE DEF E
  <2> QED  BY <1>e, <2>1, <2>2
<1>3. CASE ~Skipped(s, tf, start, end) /\ tf = "1d"
  <2>1. E = {s.close} \cap start..end
        /\ EndsCounted(s, tf, start, end) = IF Within(s.close, start, end) THEN 1 ELSE 0
    BY <1>3 DEF Ends, EndsCounted
  <2>2. CASE Within(s.close, start, end)
    <3>1. E = {s.close}
      BY <1>1, <2>1, <2>2 DEF Within
    <3>2. IsFiniteSet({s.close}) /\ Cardinality({s.close}) = 1
      BY FS_Singleton
    <3> HIDE DEF E
    <3> QED  BY <1>1, <2>1, <2>2, <3>1, <3>2
  <2>3. CASE ~Within(s.close, start, end)
    <3>1. E = {}
      BY <1>1, <2>1, <2>3 DEF Within
    <3> HIDE DEF E
    <3> QED  BY <1>e, <2>1, <2>3, <3>1
  <2> QED  BY <2>2, <2>3
<1>4. CASE ~Skipped(s, tf, start, end) /\ tf = "1h"
  <2> DEFINE hours == {t \in (s.open + Hour)..(s.close - 1) :
                         (t - s.open) % Hour = 0 /\ Within(t, start, end)}
             numbers == {n \in 1..((s.close - s.open - 1) \div Hour) :
                           Within(s.open + n * Hour, start, end)}
             last == IF Within(s.close, start, end) THEN {s.close} ELSE {}
  <2>1. IsFiniteSet(hours) /\ Cardinality(hours) = Cardinality(numbers)
    BY HoursAgree
  <2>2. E = hours \cup last
    <3>1. E = {t \in HourEnds(s) : Within(t, start, end)}
      BY <1>4 DEF Ends
    <3> QED  BY <3>1 DEF HourEnds
  <2>3. EndsCounted(s, tf, start, end)
          = Cardinality(numbers) + (IF Within(s.close, start, end) THEN 1 ELSE 0)
    BY <1>4 DEF EndsCounted, HoursCounted
  <2>4. hours \subseteq Int /\ s.close \notin hours
        /\ \A t \in hours : Within(t, start, end) /\ s.open < t /\ t <= s.close
    BY <1>1
  <2> HIDE DEF hours, numbers, E
  <2>5. Cardinality(hours) \in Nat
    BY <2>1, FS_CardinalityType
  <2>6. CASE Within(s.close, start, end)
    <3>1. E = hours \cup {s.close}
      BY <2>2, <2>6
    <3>2. IsFiniteSet(E) /\ Cardinality(E) = Cardinality(hours) + 1
      BY <2>1, <2>4, <3>1, FS_AddElement
    <3>3. EndsCounted(s, tf, start, end) = Cardinality(E)
      BY <2>1, <2>3, <2>6, <3>2
    <3>4. E \subseteq Int /\ s.close \in E
      BY <1>1, <2>4, <3>1
    <3>5. \A t \in E : Within(t, start, end) /\ s.open < t /\ t <= s.close
      BY <1>1, <2>4, <2>6, <3>1
    <3> QED  BY <3>2, <3>3, <3>4, <3>5
  <2>7. CASE ~Within(s.close, start, end)
    <3>1. E = hours
      BY <2>2, <2>7
    <3>3. EndsCounted(s, tf, start, end) = Cardinality(E)
      BY <2>1, <2>3, <2>5, <2>7, <3>1
    <3> QED  BY <2>1, <2>4, <2>7, <3>1, <3>3
  <2> QED  BY <2>6, <2>7
<1>5. CASE ~Skipped(s, tf, start, end) /\ tf = "1m"
  <2> DEFINE lo == Max({start, s.open + 1})
             hi == Min({end, s.close})
  <2>1. /\ lo = (IF start >= s.open + 1 THEN start ELSE s.open + 1)
        /\ hi = (IF end <= s.close THEN end ELSE s.close)
    <3>1. \A a, b \in Int : /\ Max({a, b}) = IF a >= b THEN a ELSE b
                            /\ Min({a, b}) = IF a <= b THEN a ELSE b
      BY MinMaxOfTwo
    <3>2. s.open + 1 \in Int
      BY <1>1
    <3> QED  BY <1>1, <3>1, <3>2
  <2>2. E = lo..hi /\ EndsCounted(s, tf, start, end) = Max({0, hi - lo + 1})
    BY <1>5 DEF Ends, EndsCounted
  <2> HIDE DEF lo, hi, E
  <2>3. lo \in Int /\ hi \in Int
    BY <1>1, <2>1
  <2>4. IsFiniteSet(E) /\ Cardinality(E) = IF lo > hi THEN 0 ELSE hi - lo + 1
    BY <2>2, <2>3, FS_Interval
  <2>5. Max({0, hi - lo + 1}) = IF 0 >= hi - lo + 1 THEN 0 ELSE hi - lo + 1
    <3> DEFINE n == hi - lo + 1
    <3>1. n \in Int
      BY <2>3
    <3> HIDE DEF n
    <3>2. Max({0, n}) = IF 0 >= n THEN 0 ELSE n
      BY <3>1, MinMaxOfTwo
    <3> QED  BY <3>2 DEF n
  <2>6. EndsCounted(s, tf, start, end) = Cardinality(E)
    BY <2>2, <2>3, <2>4, <2>5
  <2>7. \A t \in E : Within(t, start, end) /\ s.open < t /\ t <= s.close
    BY <1>1, <2>1, <2>2, <2>3 DEF Within
  <2>8. Within(s.close, start, end) => s.close \in E
    BY <1>1, <2>1, <2>2, <2>3 DEF Within
  <2> QED  BY <2>2, <2>3, <2>4, <2>6, <2>7, <2>8
<1> HIDE DEF sure
<1> QED  BY <1>2, <1>3, <1>4, <1>5 DEF Timeframes, Skipped

-----------------------------------------------------------------------------
(* The steps of a run *)

Counted(tf, start, end) ==
  [k \in SessionsInRange(start, end) |-> EndsCounted(Sessions[k], tf, start, end)]

LEMMA CountIsSum ==
  ASSUME NEW tf, NEW start, NEW end, IsFiniteSet(SessionsInRange(start, end))
  PROVE  \E sum : /\ IsSum(sum, Counted(tf, start, end), SessionsInRange(start, end))
                  /\ CountTimes(tf, start, end) = sum[SessionsInRange(start, end)]
<1> DEFINE R == SessionsInRange(start, end)
           v == Counted(tf, start, end)
           body(g) == [s \in SUBSET R |->
             IF s = {} THEN 0
             ELSE LET x == CHOOSE x \in s : TRUE
                  IN  EndsCounted(Sessions[x], tf, start, end) + g[s \ {x}]]
           iter == CHOOSE g : g = body(g)
<1>1. CountTimes(tf, start, end) = iter[R]
  BY DEF CountTimes, MapThenSumSet, MapThenFoldSet
<1>2. PICK sum : IsSum(sum, v, R)
  BY SumExists
<1>3. ASSUME NEW g PROVE body(g) = [s \in SUBSET R |-> Summed(v, g, s)]
  <2>1. \A x \in R : v[x] = EndsCounted(Sessions[x], tf, start, end)
    BY DEF Counted
  <2> HIDE DEF v, R
  <2>2. \A s \in SUBSET R : s # {} => Picked(s) \in R
    BY DEF Picked
  <2> QED  BY <2>1, <2>2 DEF Summed, Picked
<1>4. IsSum(iter, v, R)
  <2> HIDE DEF v, R, body
  <2>1. sum = body(sum)
    BY <1>2, <1>3 DEF IsSum
  <2>2. iter = body(iter)
    BY <2>1
  <2> QED  BY <1>3, <2>2 DEF IsSum
<1> QED  BY <1>1, <1>4

LEMMA StepsAre ==
  ASSUME NEW tf \in Timeframes, NEW start \in Int, NEW end \in Int
  PROVE  LET S == IterTimes(tf, start, end) IN
         /\ S \in Seq(Int) /\ Rises(S) /\ Len(S) = CountTimes(tf, start, end)
         /\ \A t \in ToSet(S) :
              /\ Within(t, start, end)
              /\ \E i \in DOMAIN Sessions : Sessions[i].open < t /\ t <= Sessions[i].close
         /\ \A i \in DOMAIN Sessions :
              Within(Sessions[i].close, start, end) => Sessions[i].close \in ToSet(S)
<1> DEFINE n == Len(Sessions)
           R == SessionsInRange(start, end)
           E(k) == Ends(Sessions[k], tf, start, end)
           ss == [k \in DOMAIN Sessions |-> IF k \in R THEN Ascending(E(k)) ELSE <<>>]
           v == Counted(tf, start, end)
<1>1. /\ n \in Nat /\ DOMAIN Sessions = 1..n
      /\ \A k \in 1..n : Sessions[k] \in Session /\ Sessions[k].open < Sessions[k].close
                         /\ Sessions[k].open \in Int /\ Sessions[k].close \in Int
      /\ \A j, k \in 1..n : j < k => Sessions[j].close < Sessions[k].open
  <2>1. Sessions \in Seq([open : Int, close : Int])
    BY ClockAssumption
  <2>2. n \in Nat /\ DOMAIN Sessions = 1..n
    BY <2>1
  <2>3. \A k \in 1..n : Sessions[k] \in Session
    <3>1. Sessions \in Seq(Session)
      BY <2>1 DEF Session
    <3>2. Sessions \in [1..n -> Session]
      BY <3>1, SeqDef
    <3> HIDE DEF n
    <3> QED  BY <3>2
  <2> HIDE DEF n
  <2> QED  BY <2>2, <2>3, ClockAssumption DEF Session
<1>2. R \subseteq 1..n /\ IsFiniteSet(R)
  <2>1. R \subseteq 1..n
    BY <1>1 DEF SessionsInRange
  <2> HIDE DEF R, n
  <2>2. n \in Int /\ 1 \in Int
    BY <1>1
  <2>3. IsFiniteSet(1..n)
    BY <2>2, FS_Interval
  <2> QED  BY <2>1, <2>3, FS_Subset
<1>3. ASSUME NEW k \in 1..n
      PROVE  /\ IsFiniteSet(E(k)) /\ E(k) \subseteq Int /\ Cardinality(E(k)) \in Nat
             /\ \A t \in E(k) : Within(t, start, end)
                                /\ Sessions[k].open < t /\ t <= Sessions[k].close
             /\ Within(Sessions[k].close, start, end) => Sessions[k].close \in E(k)
             /\ EndsCounted(Sessions[k], tf, start, end) = Cardinality(E(k))
  <2>1. Sessions[k] \in Session /\ Sessions[k].open < Sessions[k].close
    BY <1>1
  <2>2. IsFiniteSet(E(k)) => Cardinality(E(k)) \in Nat
    BY FS_CardinalityType
  <2> QED  BY <2>1, <2>2, EndsAre
<1> DEFINE D(k) == IF k \in R THEN E(k) ELSE {}
<1>4. ASSUME NEW k \in 1..n
      PROVE  /\ ss[k] \in Seq(Int) /\ Rises(ss[k]) /\ ToSet(ss[k]) = D(k)
             /\ Len(ss[k]) = IF k \in R THEN Cardinality(E(k)) ELSE 0
  <2>1. CASE k \in R
    <3>1. ss[k] = Ascending(E(k)) /\ D(k) = E(k)
      BY <1>1, <2>1
    <3> HIDE DEF E, ss, D, R
    <3>2. /\ Ascending(E(k)) \in Seq(E(k)) /\ Len(Ascending(E(k))) = Cardinality(E(k))
          /\ ToSet(Ascending(E(k))) = E(k)
          /\ \A i, j \in 1..Cardinality(E(k)) : i < j => Ascending(E(k))[i] < Ascending(E(k))[j]
      BY <1>3, AscendingIs
    <3>3. DOMAIN Ascending(E(k)) = 1..Cardinality(E(k)) /\ Ascending(E(k)) \in Seq(Int)
      BY <1>3, <3>2
    <3> QED  BY <2>1, <3>1, <3>2, <3>3 DEF Rises
  <2>2. CASE k \notin R
    <3>1. ss[k] = <<>> /\ D(k) = {}
      BY <1>1, <2>2
    <3> HIDE DEF E, ss, D, R
    <3>2. <<>> \in Seq(Int) /\ Len(<<>>) = 0 /\ DOMAIN <<>> = {}
      OBVIOUS
    <3> QED  BY <2>2, <3>1, <3>2 DEF Rises, ToSet
  <2> QED  BY <2>1, <2>2
<1>5. \A k \in 1..n : \A t \in D(k) :
        t \in Int /\ Within(t, start, end) /\ Sessions[k].open < t /\ t <= Sessions[k].close
  BY <1>3
<1>c. \A k \in 1..n : Within(Sessions[k].close, start, end) => Sessions[k].close \in D(k)
  <2> SUFFICES ASSUME NEW k \in 1..n, Within(Sessions[k].close, start, end)
               PROVE  k \in R /\ Sessions[k].close \in E(k)
    BY DEF D
  <2>1. Sessions[k].close \in Int /\ start <= Sessions[k].close /\ Sessions[k].close <= end
    BY <1>1 DEF Within
  <2>2. DateOf(start) <= DateOf(Sessions[k].close) /\ DateOf(Sessions[k].close) <= DateOf(end)
    BY <2>1, ClockAssumption, DivisionGrows DEF DateOf
  <2>3. DateOf(end) \in Int /\ DateOf(Sessions[k].close) \in Int
    BY <2>1, ClockAssumption, Division DEF DateOf
  <2>4. k \in R
    BY <1>1, <2>2, <2>3 DEF SessionsInRange, Within
  <2> QED  BY <1>3, <2>4
<1>6. ss \in [1..n -> Seq(Int)]
  BY <1>1, <1>4
<1>7. PICK sum : IsSum(sum, v, R) /\ CountTimes(tf, start, end) = sum[R]
  BY <1>2, CountIsSum
<1>8. \A k \in R : v[k] = Cardinality(E(k)) /\ v[k] \in Int
  BY <1>2, <1>3 DEF Counted
<1>9. IterTimes(tf, start, end) = FlattenSeq(ss)
  BY DEF IterTimes
<1> HIDE DEF n, R, E, ss, v, D
<1>10. /\ sum[{}] = 0
       /\ \A B \in SUBSET R : sum[B] \in Int /\ \A x \in B : sum[B] = v[x] + sum[B \ {x}]
  <2>1. IsFiniteSet(R) /\ IsSum(sum, v, R) /\ \A x \in R : v[x] \in Int
    BY <1>2, <1>7, <1>8
  <2>2. Adds(sum, v, R)
    BY <2>1, SumTakes
  <2> QED  BY <2>2 DEF Adds
<1>11. PICK upTo \in [0..n -> Seq(Int)] :
         /\ upTo[0] = <<>> /\ upTo[n] = FlattenSeq(ss)
         /\ \A k \in 1..n : upTo[k] = upTo[k - 1] \o ss[k]
  BY <1>1, <1>6, Flattened
<1> DEFINE good(k) == /\ Rises(upTo[k]) /\ Len(upTo[k]) = sum[R \cap 1..k]
                      /\ \A t : t \in ToSet(upTo[k]) <=> \E j \in 1..k : t \in D(j)
           K == {k \in Nat : k <= n => good(k)}
<1>12. 0 \in K
  <2>1. Rises(<<>>) /\ Len(<<>>) = 0 /\ ToSet(<<>>) = {}
    BY DEF Rises, ToSet
  <2>2. 1..0 = {} /\ R \cap 1..0 = {}
    OBVIOUS
  <2>3. good(0)
    BY <1>10, <1>11, <2>1, <2>2
  <2> QED  BY <2>3
<1>13. ASSUME NEW k \in K PROVE k + 1 \in K
  <2> SUFFICES ASSUME k + 1 <= n PROVE good(k + 1)
    OBVIOUS
  <2>1. k \in Nat /\ k \in 0..n /\ k + 1 \in 1..n /\ (k + 1) - 1 = k
    BY <1>1
  <2>2. good(k)
    BY <1>1, <2>1
  <2> HIDE DEF good, K
  <2>3. upTo[k] \in Seq(Int) /\ upTo[k + 1] = upTo[k] \o ss[k + 1]
    BY <1>11, <2>1
  <2>4. /\ ss[k + 1] \in Seq(Int) /\ Rises(ss[k + 1]) /\ ToSet(ss[k + 1]) = D(k + 1)
        /\ Len(ss[k + 1]) = IF k + 1 \in R THEN Cardinality(E(k + 1)) ELSE 0
    BY <1>4, <2>1
  <2>5. \A a \in ToSet(upTo[k]), b \in ToSet(ss[k + 1]) : a < b
    <3> SUFFICES ASSUME NEW a \in ToSet(upTo[k]), NEW b \in D(k + 1) PROVE a < b
      BY <2>4
    <3>1. PICK j \in 1..k : a \in D(j)
      BY <2>2 DEF good
    <3>2. j \in 1..n /\ j < k + 1
      BY <1>1, <2>1
    <3>3. a \in Int /\ a <= Sessions[j].close /\ Sessions[j].close < Sessions[k + 1].open
          /\ Sessions[k + 1].open < b /\ b \in Int
          /\ Sessions[j].close \in Int /\ Sessions[k + 1].open \in Int
      BY <1>1, <1>5, <2>1, <3>1, <3>2
    <3> QED  BY <3>3
  <2>6. /\ Len(upTo[k + 1]) = Len(upTo[k]) + Len(ss[k + 1]) /\ Rises(upTo[k + 1])
        /\ ToSet(upTo[k + 1]) = ToSet(upTo[k]) \cup ToSet(ss[k + 1])
    BY <2>2, <2>3, <2>4, <2>5, ConcatRises DEF good
  <2>7. Len(upTo[k + 1]) = sum[R \cap 1..(k + 1)]
    <3>1. 1..(k + 1) = 1..k \cup {k + 1} /\ k + 1 \notin 1..k
      BY <2>1
    <3>2. CASE k + 1 \in R
      <4>1. k + 1 \in R \cap 1..(k + 1) /\ (R \cap 1..(k + 1)) \ {k + 1} = R \cap 1..k
        BY <3>1, <3>2
      <4>2. sum[R \cap 1..(k + 1)] = v[k + 1] + sum[R \cap 1..k]
        <5>1. \A B \in SUBSET R : \A x \in B : sum[B] = v[x] + sum[B \ {x}]
          BY <1>10
        <5>2. R \cap 1..(k + 1) \in SUBSET R
          OBVIOUS
        <5>3. sum[R \cap 1..(k + 1)] = v[k + 1] + sum[(R \cap 1..(k + 1)) \ {k + 1}]
          BY <4>1, <5>1, <5>2
        <5> QED  BY <4>1, <5>3
      <4>3. sum[R \cap 1..k] \in Int /\ v[k + 1] = Cardinality(E(k + 1)) /\ v[k + 1] \in Int
        BY <1>8, <1>10, <3>2
      <4>4. Len(upTo[k]) = sum[R \cap 1..k] /\ Len(ss[k + 1]) = v[k + 1]
        BY <2>2, <2>4, <3>2, <4>3 DEF good
      <4> QED  BY <2>6, <4>2, <4>3, <4>4
    <3>3. CASE k + 1 \notin R
      <4>1. R \cap 1..(k + 1) = R \cap 1..k
        BY <3>1, <3>3
      <4>2. Len(upTo[k]) = sum[R \cap 1..k] /\ Len(ss[k + 1]) = 0 /\ Len(upTo[k]) \in Nat
        BY <2>2, <2>3, <2>4, <3>3 DEF good
      <4>3. Len(upTo[k + 1]) = Len(upTo[k])
        BY <2>6, <4>2
      <4> QED  BY <4>1, <4>2, <4>3
    <3> QED  BY <3>2, <3>3
  <2>8. \A t : t \in ToSet(upTo[k + 1]) <=> \E j \in 1..(k + 1) : t \in D(j)
    <3>1. 1..(k + 1) = 1..k \cup {k + 1}
      BY <2>1
    <3>2. \A t : t \in ToSet(upTo[k]) <=> \E j \in 1..k : t \in D(j)
      BY <2>2 DEF good
    <3> QED  BY <2>4, <2>6, <3>1, <3>2
  <2> QED  BY <2>6, <2>7, <2>8 DEF good
<1>14. good(n)
  <2>1. K \subseteq Nat
    OBVIOUS
  <2> HIDE DEF K
  <2>2. K = Nat
    BY <1>12, <1>13, <2>1, NatInductionSet
  <2>3. n \in K
    BY <1>1, <2>2
  <2> HIDE DEF good
  <2> QED  BY <1>1, <2>3 DEF K
<1> DEFINE S == IterTimes(tf, start, end)
<1>15. /\ S \in Seq(Int) /\ Rises(S) /\ Len(S) = sum[R \cap 1..n]
       /\ \A t : t \in ToSet(S) <=> \E j \in 1..n : t \in D(j)
  <2>1. n \in 0..n
    BY <1>1
  <2> QED  BY <1>9, <1>11, <1>14, <2>1
<1>16. R \cap 1..n = R
  BY <1>2
<1> HIDE DEF S, good, K
<1>17. \A t \in ToSet(S) :
         /\ Within(t, start, end)
         /\ \E i \in DOMAIN Sessions : Sessions[i].open < t /\ t <= Sessions[i].close
  BY <1>1, <1>5, <1>15
<1>18. \A i \in DOMAIN Sessions :
         Within(Sessions[i].close, start, end) => Sessions[i].close \in ToSet(S)
  BY <1>1, <1>c, <1>15
<1> QED  BY <1>7, <1>15, <1>16, <1>17, <1>18 DEF S

-----------------------------------------------------------------------------
(* The inductive invariant: what is cached is what the file holds, and the  *)
(* last snapshot is the one the whole files give for one of the steps.      *)

Expected(ids, ts) ==
  [ts |-> ts, bar |-> BarAt(ts), answers |-> [c \in ids |-> Resolve(Series(c), ts)],
   history |-> IF HasHistory THEN Slice(HistoryStart(ts), ts) ELSE {}]

CacheInv == \A c \in DOMAIN cache : cache[c] = Series(c)

SnapshotInv ==
  \/ snapshot = NoSnapshot
  \/ \E ids : \E k \in DOMAIN Steps : snapshot = Expected(ids, Steps[k])

DataInv ==
  /\ run \in RunConfigs /\ rows \in BarFiles /\ quotes \in QuoteFiles
  /\ total = CountTimes(run.timeframe, run.start, run.end)
  /\ step \in Nat /\ (status = "done" => step = Len(Steps))
  /\ CacheInv /\ SnapshotInv

LEMMA StepsOfRun ==
  ASSUME run \in RunConfigs
  PROVE  /\ run.timeframe \in Timeframes /\ run.start \in Int /\ run.end \in Int
         /\ run.lookback \in Int
         /\ Steps \in Seq(Int) /\ Rises(Steps)
         /\ Len(Steps) = CountTimes(run.timeframe, run.start, run.end)
         /\ \A t \in ToSet(Steps) :
              /\ Within(t, run.start, run.end)
              /\ \E i \in DOMAIN Sessions : Sessions[i].open < t /\ t <= Sessions[i].close
         /\ \A i \in DOMAIN Sessions :
              Within(Sessions[i].close, run.start, run.end) => Sessions[i].close \in ToSet(Steps)
<1>1. run.timeframe \in Timeframes /\ run.start \in Int /\ run.end \in Int /\ run.lookback \in Int
  BY DataAssumption
<1>2. Steps = IterTimes(run.timeframe, run.start, run.end)
  BY DEF Steps
<1> QED  BY <1>1, <1>2, StepsAre

LEMMA FilesKept ==
  ASSUME UNCHANGED fileVars
  PROVE  /\ Steps' = Steps
         /\ \A ids, ts : Expected(ids, ts)' = Expected(ids, ts)
         /\ \A c : Series(c)' = Series(c)
<1>1. run' = run /\ rows' = rows /\ quotes' = quotes
  BY DEF fileVars
<1>2. Steps' = Steps
  BY <1>1 DEF Steps
<1>3. \A c : Series(c)' = Series(c)
  BY <1>1 DEF Series
<1>4. \A a, b : Slice(a, b)' = Slice(a, b)
  BY <1>1 DEF Slice, InSlice, LoadedFrame
<1>5. \A ts : HistoryStart(ts)' = HistoryStart(ts)
  BY <1>1 DEF HistoryStart
<1>6. HasHistory' = HasHistory
  BY <1>1 DEF HasHistory
<1>7. \A ts : BarAt(ts)' = BarAt(ts)
  BY <1>1, <1>4, <1>5 DEF BarAt
<1>8. \A s, ts : Resolve(s, ts)' = Resolve(s, ts)
  BY <1>1 DEF Resolve, TooOld
<1> QED  BY <1>2, <1>3, <1>4, <1>5, <1>6, <1>7, <1>8 DEF Expected

LEMMA DataInitOK ==
  ASSUME DataInit PROVE DataInv
BY DEF DataInit, DataInv, CacheInv, SnapshotInv

\* Warming the cache changes no answer, and the cache holds what the file does.
LEMMA WarmedIs ==
  ASSUME CacheInv, NEW ids
  PROVE  \A c \in DOMAIN Warmed(ids) : Warmed(ids)[c] = Series(c)
BY DEF CacheInv, Warmed

LEMMA TakeStepOK ==
  ASSUME DataInv, NEW held, TakeStep(held)
  PROVE  DataInv'
<1> DEFINE ts == Steps[step + 1]
<1>1. UNCHANGED fileVars /\ status = "running" /\ step < Len(Steps)
  BY DEF TakeStep
<1>2. /\ Steps' = Steps /\ \A c : Series(c)' = Series(c)
      /\ \A ids, t : Expected(ids, t)' = Expected(ids, t)
  BY <1>1, FilesKept
<1>3. /\ run' = run /\ rows' = rows /\ quotes' = quotes /\ total' = total
  BY <1>1 DEF fileVars
<1>4. PICK ids \in Requested(ts, held) :
        IF StepRaises(ts, ids, held)
        THEN status' = "raised" /\ UNCHANGED <<step, cache, snapshot>>
        ELSE /\ step' = step + 1 /\ cache' = Warmed(ids) /\ snapshot' = Snapshot(ts, ids)
             /\ status' = status
  BY DEF TakeStep
<1>5. CASE StepRaises(ts, ids, held)
  <2>1. status' = "raised" /\ step' = step /\ cache' = cache /\ snapshot' = snapshot
    BY <1>4, <1>5
  <2>2. CacheInv'
    BY <1>2, <2>1 DEF DataInv, CacheInv
  <2>3. SnapshotInv'
    BY <1>2, <2>1 DEF DataInv, SnapshotInv, NoSnapshot
  <2> QED  BY <1>2, <1>3, <2>1, <2>2, <2>3 DEF DataInv
<1>6. CASE ~StepRaises(ts, ids, held)
  <2>1. /\ step' = step + 1 /\ cache' = Warmed(ids) /\ snapshot' = Snapshot(ts, ids)
        /\ status' = "running"
    BY <1>1, <1>4, <1>6
  <2>2. CacheInv'
    BY <1>2, <2>1, WarmedIs DEF DataInv, CacheInv
  <2>3. Snapshot(ts, ids) = Expected(ids, ts)
    <3>1. \A c \in ids : Warmed(ids)[c] = Series(c)
      BY WarmedIs DEF DataInv, Warmed
    <3>2. Answers(ids, ts) = [c \in ids |-> Resolve(Series(c), ts)]
      BY <3>1 DEF Answers
    <3> QED  BY <3>2 DEF Snapshot, Expected
  <2>4. step + 1 \in DOMAIN Steps
    <3>1. Steps \in Seq(Int) /\ step \in Nat
      BY StepsOfRun DEF DataInv
    <3> QED  BY <1>1, <3>1
  <2>5. SnapshotInv'
    BY <1>2, <2>1, <2>3, <2>4 DEF SnapshotInv
  <2> QED  BY <1>2, <1>3, <2>1, <2>2, <2>5 DEF DataInv
<1> QED  BY <1>5, <1>6

LEMMA DataNextKeeps ==
  ASSUME DataInv, [DataNext]_dataVars PROVE DataInv'
<1>1. ASSUME NEW held \in SUBSET Contracts, TakeStep(held) PROVE DataInv'
  BY <1>1, TakeStepOK
<1>2. CASE UNCHANGED <<fileVars, step, cache, snapshot>> /\ (status' = "done" => step = Len(Steps))
  <2>1. /\ Steps' = Steps /\ \A c : Series(c)' = Series(c)
        /\ \A ids, t : Expected(ids, t)' = Expected(ids, t)
    BY <1>2, FilesKept
  <2>2. CacheInv'
    BY <1>2, <2>1 DEF DataInv, CacheInv
  <2>3. SnapshotInv'
    BY <1>2, <2>1 DEF DataInv, SnapshotInv, NoSnapshot
  <2> QED  BY <1>2, <2>1, <2>2, <2>3 DEF DataInv, fileVars
<1>3. CASE Finish
  BY <1>2, <1>3 DEF Finish
<1>4. CASE UNCHANGED dataVars
  BY <1>2, <1>4 DEF dataVars, DataInv
<1> QED  BY <1>1, <1>3, <1>4 DEF DataNext, Over

THEOREM DataInvariant == DataSpec => []DataInv
<1>1. DataInit => DataInv
  BY DataInitOK
<1>2. DataInv /\ [DataNext]_dataVars => DataInv'
  BY DataNextKeeps
<1> QED  BY <1>1, <1>2, PTL DEF DataSpec

-----------------------------------------------------------------------------
(* What a contract is answered *)

IsSeries(series) ==
  /\ DOMAIN series \subseteq Int /\ IsFiniteSet(DOMAIN series)
  /\ \A t \in DOMAIN series :
       /\ series[t] \in [bid : Int, ask : Int]
       /\ series[t].bid > series[t].ask => (series[t].bid + series[t].ask) % 2 = 0

LEMMA SeriesAre ==
  ASSUME quotes \in QuoteFiles, NEW c PROVE IsSeries(Series(c))
<1>1. CASE c \in DOMAIN quotes
  BY <1>1, DataAssumption DEF Series, IsSeries
<1>2. CASE c \notin DOMAIN quotes
  <2>1. Series(c) = <<>> /\ DOMAIN <<>> = {}
    BY <1>2 DEF Series
  <2> QED  BY <2>1, FS_EmptySet DEF IsSeries
<1> QED  BY <1>1, <1>2

LEMMA UncrossedIs ==
  ASSUME NEW q \in [bid : Int, ask : Int], q.bid > q.ask => (q.bid + q.ask) % 2 = 0
  PROVE  LET a == Uncrossed(q) IN
         /\ DOMAIN a = {"bid", "ask"} /\ a.bid <= a.ask /\ a.bid + a.ask = q.bid + q.ask
<1> DEFINE both == q.bid + q.ask
           mid == both \div 2
<1>1. CASE IsCrossed(q)
  <2>1. both \in Int /\ both % 2 = 0
    BY <1>1 DEF IsCrossed
  <2> HIDE DEF both
  <2>2. mid \in Int /\ both = 2 * mid
    BY <2>1, Division
  <2>3. Uncrossed(q) = [bid |-> mid, ask |-> mid]
    BY <1>1 DEF Uncrossed, both
  <2> HIDE DEF mid
  <2>4. mid + mid = both /\ mid <= mid
    BY <2>2
  <2> QED  BY <2>3, <2>4 DEF both
<1>2. CASE ~IsCrossed(q)
  <2>1. Uncrossed(q) = q
    BY <1>2 DEF Uncrossed
  <2> QED  BY <1>2, <2>1 DEF IsCrossed
<1> QED  BY <1>1, <1>2

LEMMA ResolveIs ==
  ASSUME NEW series, IsSeries(series), NEW ts \in Int
  PROVE  LET answer == Resolve(series, ts)
             past == {t \in DOMAIN series : t <= ts}
             latest(t) == t \in past /\ \A u \in past : u <= t
         IN  IF "bid" \notin DOMAIN answer
             THEN past = {} \/ \E t \in past : latest(t) /\ TooOld(ts - t)
             ELSE /\ answer.bid <= answer.ask
                  /\ \E t \in past : /\ latest(t) /\ ~TooOld(ts - t)
                                     /\ answer.bid + answer.ask = series[t].bid + series[t].ask
<1> DEFINE past == Known(series, ts)
           m == Max(past)
<1>1. past \subseteq Int /\ IsFiniteSet(past) /\ past \subseteq DOMAIN series
  BY FS_Subset DEF IsSeries, Known
<1>2. past = {t \in DOMAIN series : t <= ts}
  BY DEF Known
<1>3. \A r : DOMAIN Without(r) = {"status"}
  BY DEF Without
<1>4. CASE past = {}
  <2>1. Resolve(series, ts) = Without("MISSING")
    BY <1>4 DEF Resolve
  <2> QED  BY <1>2, <1>3, <1>4, <2>1
<1>5. CASE past # {}
  <2> HIDE DEF past
  <2>1. m \in past /\ \A u \in past : m >= u
    BY <1>1, <1>5, FiniteMax
  <2>2. m \in Int /\ \A u \in past : u <= m
    BY <1>1, <2>1
  <2> HIDE DEF m
  <2>3. CASE TooOld(ts - m)
    <3>1. Resolve(series, ts) = Without("STALE")
      BY <1>5, <2>3 DEF Resolve, past, m
    <3>2. "bid" \notin DOMAIN Resolve(series, ts)
      BY <1>3, <3>1
    <3> QED  BY <1>2, <2>1, <2>2, <2>3, <3>2
  <2>4. CASE ~TooOld(ts - m)
    <3>1. Resolve(series, ts) = Uncrossed(series[m])
      BY <1>5, <2>4 DEF Resolve, past, m
    <3>2. /\ series[m] \in [bid : Int, ask : Int]
          /\ series[m].bid > series[m].ask => (series[m].bid + series[m].ask) % 2 = 0
      BY <1>1, <2>1 DEF IsSeries
    <3> DEFINE a == Uncrossed(series[m])
    <3>3. /\ DOMAIN a = {"bid", "ask"} /\ a.bid <= a.ask
          /\ a.bid + a.ask = series[m].bid + series[m].ask
      BY <3>2, UncrossedIs
    <3> HIDE DEF a
    <3>4. Resolve(series, ts) = a
      BY <3>1 DEF a
    <3> QED  BY <1>2, <2>1, <2>2, <2>4, <3>3, <3>4
  <2> QED  BY <2>3, <2>4
<1> QED  BY <1>4, <1>5

(* Whatever was asked before, and however much of the files is in memory:   *)
(* each contract that is asked about is answered from the whole of its      *)
(* file, with its latest quote by the step, uncrossed, or with the reason   *)
(* there is none (provider.py:174-199, 296-350).                            *)
THEOREM AnsweredAsOfHolds == DataSpec => []AnsweredAsOf
<1>1. DataInv => AnsweredAsOf
  <2> SUFFICES ASSUME DataInv, NEW c \in DOMAIN snapshot.answers
               PROVE  LET answer == snapshot.answers[c]
                          past == {t \in DOMAIN Series(c) : t <= snapshot.ts}
                          latest(t) == t \in past /\ \A u \in past : u <= t
                      IN  IF c \notin Handed(snapshot.answers)
                          THEN past = {} \/ \E t \in past : latest(t) /\ TooOld(snapshot.ts - t)
                          ELSE /\ answer.bid <= answer.ask
                               /\ \E t \in past :
                                    /\ latest(t) /\ ~TooOld(snapshot.ts - t)
                                    /\ answer.bid + answer.ask = Series(c)[t].bid + Series(c)[t].ask
    BY DEF AnsweredAsOf
  <2>1. snapshot # NoSnapshot
    BY DEF NoSnapshot
  <2>2. PICK ids : \E k \in DOMAIN Steps : snapshot = Expected(ids, Steps[k])
    BY <2>1 DEF DataInv, SnapshotInv
  <2>k. PICK k \in DOMAIN Steps : snapshot = Expected(ids, Steps[k])
    BY <2>2
  <2> DEFINE ts == Steps[k]
  <2>3. ts \in Int
    BY <2>k, StepsOfRun DEF DataInv
  <2>4. snapshot.ts = ts /\ snapshot.answers = [d \in ids |-> Resolve(Series(d), ts)]
    BY <2>k DEF Expected
  <2>5. c \in ids /\ snapshot.answers[c] = Resolve(Series(c), ts)
    BY <2>4
  <2>6. c \in Handed(snapshot.answers) <=> "bid" \in DOMAIN Resolve(Series(c), ts)
    BY <2>5 DEF Handed
  <2>7. IsSeries(Series(c))
    BY SeriesAre DEF DataInv
  <2> HIDE DEF ts
  <2> QED  BY <2>3, <2>4, <2>5, <2>6, <2>7, ResolveIs
<1> QED  BY <1>1, DataInvariant, PTL

-----------------------------------------------------------------------------
(* What a step sees of the bars *)

LEMMA SlicesWithin ==
  ASSUME NEW a \in Int, NEW b \in Int, NEW t \in Int, NEW start \in Int, start <= a, InSlice(t, a, b)
  PROVE  InSlice(t, start, b)
<1>1. DateOf(start) <= DateOf(a) /\ DateOf(start) \in Int /\ DateOf(a) \in Int /\ DateOf(t) \in Int
  BY ClockAssumption, Division, DivisionGrows DEF DateOf
<1> QED  BY <1>1 DEF InSlice, Within

(* No step sees a bar of a later one, in its history either, and but for a  *)
(* future the bar it sees is its own (provider.py:201-237,                  *)
(* engine.py:106-130).                                                      *)
THEOREM NoLookaheadHolds == DataSpec => []NoLookahead
<1>1. DataInv => NoLookahead
  <2> SUFFICES ASSUME DataInv PROVE NoLookahead
    OBVIOUS
  <2>1. CASE snapshot = NoSnapshot
    BY <2>1 DEF NoLookahead, NoSnapshot
  <2>2. CASE snapshot # NoSnapshot
    <3>1. PICK ids : \E k \in DOMAIN Steps : snapshot = Expected(ids, Steps[k])
      BY <2>2 DEF DataInv, SnapshotInv
    <3>k. PICK k \in DOMAIN Steps : snapshot = Expected(ids, Steps[k])
      BY <3>1
    <3> DEFINE ts == Steps[k]
               since == HistoryStart(ts)
    <3>2. ts \in Int /\ run.start \in Int /\ run.start <= ts
      <4>1. Steps \in Seq(Int) /\ ts \in ToSet(Steps)
        BY StepsOfRun DEF DataInv, ToSet
      <4> QED  BY <4>1, StepsOfRun DEF DataInv, Within
    <3>3. /\ snapshot.ts = ts /\ snapshot.bar = BarAt(ts)
          /\ snapshot.history = IF HasHistory THEN Slice(since, ts) ELSE {}
      BY <3>k DEF Expected
    <3>4. since \in Int /\ run.start <= since
      <4> DEFINE back == run.lookback * UnitOf(run.timeframe)
      <4>1. UnitOf(run.timeframe) \in Int
        BY ClockAssumption DEF UnitOf
      <4>2. back \in Int
        BY <4>1, StepsOfRun DEF DataInv
      <4>3. since = Max({run.start, ts - back})
        BY DEF HistoryStart
      <4> HIDE DEF back, ts
      <4>4. ts - back \in Int
        BY <3>2, <4>2
      <4> QED  BY <3>2, <4>3, <4>4, MinMaxOfTwo
    <3>5. \A a, b : /\ Slice(a, b) \subseteq Int /\ IsFiniteSet(Slice(a, b))
                    /\ \A t \in Slice(a, b) : InSlice(t, a, b)
      <4>1. LoadedFrame.rows \subseteq Int /\ IsFiniteSet(LoadedFrame.rows)
        BY DataAssumption, FS_EmptySet DEF DataInv, LoadedFrame, NoFrame
      <4> QED  BY <4>1, FS_Subset DEF Slice
    <3> HIDE DEF ts, since
    <3>6. \A t \in Slice(since, ts) : InSlice(t, run.start, ts)
      BY <3>2, <3>4, <3>5, SlicesWithin
    <3>7. \A t \in Slice(ts, ts) : InSlice(t, run.start, ts)
      BY <3>2, <3>5, SlicesWithin
    <3>8. CASE run.kind = "future"
      <4>1. BarAt(ts) = IF Slice(since, ts) = {} THEN None ELSE Max(Slice(since, ts))
        BY <3>8 DEF BarAt, since
      <4>2. Slice(since, ts) # {} => Max(Slice(since, ts)) \in Slice(since, ts)
        BY <3>5, FiniteMax
      <4> QED  BY <3>3, <3>6, <3>8, <4>1, <4>2 DEF NoLookahead
    <3>9. CASE run.kind # "future"
      <4>1. BarAt(ts) = IF Slice(ts, ts) = {} THEN None ELSE Min(Slice(ts, ts))
        BY <3>9 DEF BarAt
      <4>2. Slice(ts, ts) # {} => Min(Slice(ts, ts)) \in Slice(ts, ts)
        BY <3>5, FiniteMin
      <4> QED  BY <3>3, <3>5, <3>6, <3>7, <4>1, <4>2 DEF NoLookahead
    <3> QED  BY <3>8, <3>9
  <2> QED  BY <2>1, <2>2
<1> QED  BY <1>1, DataInvariant, PTL

(* The loop takes as many steps as count_times announced, each later than   *)
(* the one before, at the end of a bar within a session and the run's       *)
(* range; and no session's close within the range is passed over            *)
(* (clock.py:31-173, engine.py:356-374).                                    *)
THEOREM StepsAreBarEndsHolds == DataSpec => []StepsAreBarEnds
<1>1. DataInv => StepsAreBarEnds
  <2> SUFFICES ASSUME DataInv PROVE StepsAreBarEnds
    OBVIOUS
  <2>1. /\ Steps \in Seq(Int) /\ Rises(Steps) /\ Len(Steps) = total
        /\ \A t \in ToSet(Steps) :
             /\ Within(t, run.start, run.end)
             /\ \E i \in DOMAIN Sessions : Sessions[i].open < t /\ t <= Sessions[i].close
        /\ \A i \in DOMAIN Sessions :
             Within(Sessions[i].close, run.start, run.end) => Sessions[i].close \in ToSet(Steps)
    BY StepsOfRun DEF DataInv
  <2>2. status = "done" => step = total
    BY <2>1 DEF DataInv
  <2>3. \A k \in DOMAIN Steps : Steps[k] \in ToSet(Steps)
    BY <2>1 DEF ToSet
  <2>4. \A k \in DOMAIN Steps : k > 1 => Steps[k - 1] < Steps[k]
    <3> TAKE k \in DOMAIN Steps
    <3>1. k > 1 => k - 1 \in DOMAIN Steps /\ k - 1 < k
      BY <2>1
    <3> QED  BY <2>1, <3>1 DEF Rises
  <2>5. \A t \in ToSet(Steps) : \E k \in DOMAIN Steps : Steps[k] = t
    BY DEF ToSet
  <2> QED  BY <2>1, <2>2, <2>3, <2>4, <2>5 DEF StepsAreBarEnds
<1> QED  BY <1>1, DataInvariant, PTL
=============================================================================
