--------------------------- MODULE ObserverProofs ---------------------------
(***************************************************************************)
(* What the candidate store guarantees for any number of strategies, any   *)
(* kinds of candidates, lifetimes, limits and order of timestamps; and     *)
(* that a browser catches up with the observer, whatever was lost, delayed *)
(* or overtaken between them, for any number of updates and reconnections. *)
(***************************************************************************)
EXTENDS Observer, FiniteSetTheorems, SequenceTheorems, TLAPS

LEMMA UntilType ==
  ASSUME NEW ts \in Times, NEW lifetime \in Lifetimes
  PROVE  ts + lifetime \in Int
BY StoreAssumption

(* A batch is well typed, of the next round, and has one candidate of a kind. *)
LEMMA BatchType ==
  ASSUME NEW ts \in Times, NEW asked \in SUBSET Strategies, round \in 0..MaxRounds,
         round < MaxRounds, Proposed(ts, asked)
  PROVE  /\ returned' \subseteq CandidateType
         /\ \A c, d \in returned' : Kind(c) = Kind(d) => c = d
<1>1. PICK kinds \in SUBSET (asked \X Keys) : \E life \in [kinds -> Lifetimes] :
        returned' = {Candidate(k[1], k[2], ts, life[k]) : k \in kinds}
  BY DEF Proposed
<1>2. PICK life \in [kinds -> Lifetimes] :
        returned' = {Candidate(k[1], k[2], ts, life[k]) : k \in kinds}
  BY <1>1
<1>3. ASSUME NEW k \in kinds PROVE Candidate(k[1], k[2], ts, life[k]) \in CandidateType
  <2>1. k[1] \in Strategies /\ k[2] \in Keys /\ life[k] \in Lifetimes  OBVIOUS
  <2>2. ts \in Times /\ ts \in Int  BY StoreAssumption
  <2>3. ts + life[k] \in Int  BY <2>1, UntilType
  <2>4. round + 1 \in 1..MaxRounds  BY StoreAssumption
  <2> QED  BY <2>1, <2>2, <2>3, <2>4 DEF Candidate, CandidateType
<1>4. ASSUME NEW k \in kinds, NEW l \in kinds,
             Kind(Candidate(k[1], k[2], ts, life[k])) = Kind(Candidate(l[1], l[2], ts, life[l]))
      PROVE  k = l
  <2>1. k[1] = l[1] /\ k[2] = l[2]  BY <1>4 DEF Kind, Candidate
  <2>2. k \in asked \X Keys /\ l \in asked \X Keys  OBVIOUS
  <2> QED  BY <2>1, <2>2
<1> QED  BY <1>2, <1>3, <1>4

\* What a round leaves in the store was there or is new.
LEMMA RoundType ==
  ASSUME StoreTypeOK, NEW ts \in Times, OnBar(ts) \/ OnBarRaises(ts)
  PROVE  /\ StoreTypeOK'
         /\ candidates' \subseteq candidates \cup returned'
<1> USE DEF StoreTypeOK
<1>1. ASSUME OnBar(ts) PROVE returned' \subseteq CandidateType
  BY <1>1, BatchType DEF OnBar
<1>2. ASSUME OnBarRaises(ts) PROVE returned' \subseteq CandidateType
  <2>1. PICK k \in Strategies : Proposed(ts, 1..(k - 1))
    BY <1>2 DEF OnBarRaises
  <2>2. 1..(k - 1) \subseteq Strategies
    BY StoreAssumption DEF Strategies
  <2> QED  BY <1>2, <2>1, <2>2, BatchType DEF OnBarRaises
<1>3. candidates' \subseteq candidates \cup returned'
  BY DEF OnBar, OnBarRaises, Swept, Retained, Unexpired, Added
<1>4. round' \in 0..MaxRounds /\ crashed' \in BOOLEAN /\ evaluatedAt' \in Int
  <2>1. round < MaxRounds /\ round' = round + 1 /\ evaluatedAt' = ts /\ crashed' \in BOOLEAN
    BY DEF OnBar, OnBarRaises
  <2> QED  BY <2>1, StoreAssumption
<1> QED  BY <1>1, <1>2, <1>3, <1>4 DEF CandidateType

(* Types are kept by every step. *)
THEOREM StoreTypeCorrect == StoreSpec => []StoreTypeOK
<1>1. StoreInit => StoreTypeOK
  <2> SUFFICES ASSUME StoreInit PROVE StoreTypeOK  OBVIOUS
  <2>1. round \in 0..MaxRounds
    BY StoreAssumption DEF StoreInit
  <2>2. evaluatedAt \in Int
    BY DEF StoreInit
  <2>3. crashed \in BOOLEAN
    BY DEF StoreInit
  <2> QED  BY <2>1, <2>2, <2>3 DEF StoreInit, StoreTypeOK
<1>2. StoreTypeOK /\ [StoreNext]_storeVars => StoreTypeOK'
  <2> SUFFICES ASSUME StoreTypeOK, [StoreNext]_storeVars PROVE StoreTypeOK'  OBVIOUS
  <2>1. CASE UNCHANGED storeVars
    BY <2>1 DEF storeVars, StoreTypeOK, CandidateType
  <2> QED  BY <2>1, RoundType DEF StoreNext, StoreStopped
<1> QED  BY <1>1, <1>2, PTL DEF StoreSpec

(* Replacing keeps one candidate of a kind. *)
LEMMA AddedOnePerKind ==
  ASSUME NEW cands, NEW new,
         \A c, d \in cands : Kind(c) = Kind(d) => c = d,
         \A c, d \in new : Kind(c) = Kind(d) => c = d
  PROVE  \A c, d \in Added(cands, new) : Kind(c) = Kind(d) => c = d
BY DEF Added

\* A round, completed or not, leaves one candidate of a kind.
LEMMA RoundOnePerKind ==
  ASSUME StoreTypeOK, OnePerKind, NEW ts \in Times, OnBar(ts) \/ OnBarRaises(ts)
  PROVE  OnePerKind'
<1>1. CASE OnBar(ts)
  <2>1. \A c, d \in returned' : Kind(c) = Kind(d) => c = d
    BY <1>1, BatchType DEF OnBar, StoreTypeOK
  <2>2. \A c, d \in Added(candidates, returned') : Kind(c) = Kind(d) => c = d
    BY <2>1, AddedOnePerKind DEF OnePerKind
  <2>3. candidates' \subseteq Added(candidates, returned')
    BY <1>1 DEF OnBar, Swept, Retained, Unexpired
  <2> QED  BY <2>2, <2>3 DEF OnePerKind, Kind
<1>2. CASE OnBarRaises(ts)
  <2>1. PICK k \in Strategies : Proposed(ts, 1..(k - 1))
    BY <1>2 DEF OnBarRaises
  <2>2. 1..(k - 1) \subseteq Strategies
    BY StoreAssumption DEF Strategies
  <2>3. \A c, d \in returned' : Kind(c) = Kind(d) => c = d
    BY <1>2, <2>1, <2>2, BatchType DEF OnBarRaises, StoreTypeOK
  <2>4. candidates' = Added(candidates, returned')
    BY <1>2 DEF OnBarRaises
  <2> QED  BY <2>3, <2>4, AddedOnePerKind DEF OnePerKind, Kind
<1> QED  BY <1>1, <1>2

(* There is one candidate of a kind, whatever the strategies propose on     *)
(* whatever bars, crashes included: the store is keyed by kind.             *)
THEOREM OnePerKindHolds == StoreSpec => []OnePerKind
<1>1. StoreInit => OnePerKind
  BY DEF StoreInit, OnePerKind
<1>2. StoreTypeOK /\ OnePerKind /\ [StoreNext]_storeVars => OnePerKind'
  <2> SUFFICES ASSUME StoreTypeOK, OnePerKind, [StoreNext]_storeVars PROVE OnePerKind'
    OBVIOUS
  <2>1. CASE UNCHANGED storeVars
    BY <2>1 DEF storeVars, OnePerKind, Kind
  <2> QED  BY <2>1, RoundOnePerKind DEF StoreNext, StoreStopped
<1> QED  BY <1>1, <1>2, StoreTypeCorrect, PTL DEF StoreSpec

LEMMA NoneRetained == candidates = {} => RetentionBound
<1> SUFFICES ASSUME candidates = {}, NEW s \in Strategies
             PROVE  Cardinality(Of(s, candidates)) <= MaxPerStrategy
  BY DEF RetentionBound
<1>1. Of(s, candidates) = {}
  BY DEF Of
<1> QED  BY <1>1, FS_EmptySet, StoreAssumption

LEMMA RoundRetention ==
  ASSUME NEW ts \in Times, OnBar(ts) \/ OnBarRaises(ts)
  PROVE  RetentionBound'
<1>1. CASE OnBar(ts)
  BY <1>1 DEF OnBar, Swept, Retained, RetentionBound, Of
<1>2. CASE OnBarRaises(ts)
  BY <1>2 DEF OnBarRaises, RetentionBound
<1> QED  BY <1>1, <1>2

(* The limit per strategy holds after every bar that did not raise, however *)
(* the candidates of different strategies come and go.                      *)
THEOREM RetentionHolds == StoreSpec => []RetentionBound
<1>1. StoreInit => RetentionBound
  BY NoneRetained DEF StoreInit
<1>2. RetentionBound /\ [StoreNext]_storeVars => RetentionBound'
  <2> SUFFICES ASSUME RetentionBound, [StoreNext]_storeVars PROVE RetentionBound'
    OBVIOUS
  <2>1. CASE UNCHANGED storeVars
    BY <2>1 DEF storeVars, RetentionBound, Of
  <2> QED  BY <2>1, RoundRetention DEF StoreNext, StoreStopped
<1> QED  BY <1>1, <1>2, PTL DEF StoreSpec

(* No candidate is ever lost: whatever leaves the store was replaced by one *)
(* of its kind, had expired, or gave way to enough newer ones.              *)
THEOREM LeavesForAReasonHolds == StoreSpec => LeavesForAReason
<1> DEFINE Crowding(c) ==
             {d \in candidates' : d.strategy = c.strategy /\ d.created >= c.created}
           Reason(c) == \/ \E d \in returned' : Kind(d) = Kind(c)
                        \/ c.until <= evaluatedAt'
                        \/ Cardinality(Crowding(c)) >= MaxPerStrategy
<1>1. ASSUME StoreTypeOK, StoreNext, NEW c \in candidates \ candidates' PROVE Reason(c)
  <2>1. c.strategy \in Strategies /\ c.until \in Int
    BY <1>1 DEF StoreTypeOK, CandidateType
  <2>2. ASSUME c \notin Added(candidates, returned') PROVE Reason(c)
    BY <2>2 DEF Added, Kind
  <2>3. ASSUME NEW ts \in Times, OnBar(ts), c \in Added(candidates, returned') PROVE Reason(c)
    <3> DEFINE cands == Unexpired(Added(candidates, returned'), ts)
    <3>1. ts \in Int /\ evaluatedAt' = ts
      BY <2>3, StoreAssumption DEF OnBar
    <3>2. CASE c \notin cands
      <4>1. c.until <= ts
        BY <2>1, <2>3, <3>1, <3>2 DEF Unexpired
      <4> QED  BY <3>1, <4>1
    <3>3. CASE c \in cands
      <4> DEFINE s == c.strategy
      <4>1. /\ Of(s, candidates') # Of(s, cands) =>
                 Cardinality(Of(s, candidates')) = MaxPerStrategy
            /\ IsNewest(Of(s, candidates'), Of(s, cands))
        BY <2>1, <2>3 DEF OnBar, Swept, Retained
      <4>2. c \in Of(s, cands) /\ c \notin Of(s, candidates')
        BY <3>3 DEF Of
      <4>3. Crowding(c) = Of(s, candidates')
        BY <4>1, <4>2 DEF IsNewest, Of
      <4>4. Cardinality(Crowding(c)) = MaxPerStrategy
        BY <4>1, <4>2, <4>3
      <4>5. Cardinality(Crowding(c)) >= MaxPerStrategy
        BY <4>4, StoreAssumption
      <4> QED  BY <4>5
    <3> QED  BY <3>2, <3>3
  <2>4. ASSUME NEW ts \in Times, OnBarRaises(ts) PROVE c \notin Added(candidates, returned')
    BY <2>4 DEF OnBarRaises
  <2>5. StoreStopped => FALSE
    BY DEF StoreStopped, storeVars
  <2> QED  BY <1>1, <2>2, <2>3, <2>4, <2>5 DEF StoreNext
<1>2. StoreTypeOK /\ [StoreNext]_storeVars =>
        [\A c \in candidates \ candidates' : Reason(c)]_storeVars
  BY <1>1
<1> QED  BY <1>2, StoreTypeCorrect, PTL DEF StoreSpec, LeavesForAReason
-----------------------------------------------------------------------------
(* The observer and a browser: types *)

Snapshots == [n : Nat, quote : Nat, bars : Seq(Nat), candidates : SUBSET CandidateType]

QuoteMsg(n) == [type |-> "quote_update", n |-> n]
BarMsg(n) == [type |-> "bar_update", n |-> n]
QuoteMessages == {QuoteMsg(n) : n \in Nat}
MessagesOfBars ==
    {BarMsg(n) : n \in Nat} \cup [type : {"candidates_update"}, n : Nat, data : SUBSET CandidateType]
Messages == QuoteMessages \cup MessagesOfBars

ObserverTypeOK ==
    /\ StoreTypeOK
    /\ events \in Nat /\ clock \in Nat /\ reconnectCount \in Nat /\ known \in Nat
    /\ quote \in Nat /\ bars \in Seq(Nat)
    /\ link \in {"down", "accepted", "open"} /\ hook \in Hooks
    /\ outbox \in [Tasks -> Seq(Messages)] /\ wire \in Seq(Messages)
    /\ outbox["quotes"] \in Seq(QuoteMessages) /\ outbox["bars"] \in Seq(MessagesOfBars)
    /\ fetches \subseteq [n : Nat, reply : Snapshots \cup {None}]
    /\ shown \in [quote : Nat, bars : Seq(Nat), candidates : SUBSET CandidateType]

\* What was snapshotted is of the past, and a link that is down holds nothing.
PastInv ==
    /\ \A f \in fetches : f.reply # None => f.reply.n <= events
    /\ \A n \in ToSet(bars) : n <= events
    /\ link = "down" => wire = <<>>

LEMMA WindowKeeps ==
  ASSUME NEW s \in Seq(Nat), NEW x \in Nat
  PROVE  LET w == Window(Append(s, x)) IN
         /\ w \in Seq(Nat)
         /\ ToSet(w) \subseteq ToSet(s) \cup {x} /\ x \in ToSet(w)
         /\ Len(w) < WindowSize => Len(s) < WindowSize /\ ToSet(s) \subseteq ToSet(w)
<1> DEFINE g == Append(s, x)
           w == Window(g)
           n == Len(s)
<1>1. /\ n \in Nat /\ g \in Seq(Nat) /\ Len(g) = n + 1 /\ g[n + 1] = x
      /\ \A k \in 1..n : g[k] = s[k]
      /\ DOMAIN s = 1..n /\ DOMAIN g = 1..(n + 1)
  OBVIOUS
<1>2. WindowSize \in Nat /\ WindowSize >= 1
  BY ObserverAssumption
<1> HIDE DEF g, n
<1>3. ToSet(g) = ToSet(s) \cup {x}
  <2>1. 1..(n + 1) = 1..n \cup {n + 1}
    BY <1>1
  <2> QED  BY <1>1, <2>1 DEF ToSet
<1>4. CASE Len(g) > WindowSize
  <2>1. w = Tail(g) /\ g # <<>>
    BY <1>1, <1>2, <1>4 DEF Window
  <2>2. /\ w \in Seq(Nat) /\ Len(w) = n /\ DOMAIN w = 1..n
        /\ \A k \in 1..n : w[k] = g[k + 1]
    BY <1>1, <2>1
  <2>3. n >= 1 /\ n >= WindowSize
    BY <1>1, <1>2, <1>4
  <2> HIDE DEF w
  <2>4. \A k \in 1..n : k + 1 \in 1..(n + 1)
    BY <1>1
  <2>5. ToSet(w) \subseteq ToSet(g)
    <3> SUFFICES ASSUME NEW k \in 1..n PROVE w[k] \in ToSet(g)
      BY <2>2 DEF ToSet
    <3>1. w[k] = g[k + 1] /\ k + 1 \in DOMAIN g
      BY <1>1, <2>2, <2>4
    <3> QED  BY <3>1 DEF ToSet
  <2>6. x \in ToSet(w)
    <3>1. n \in 1..n /\ w[n] = x
      BY <1>1, <2>2, <2>3
    <3> QED  BY <2>2, <3>1 DEF ToSet
  <2>7. ~(Len(w) < WindowSize)
    BY <1>1, <1>2, <2>2, <2>3
  <2> QED  BY <1>3, <2>2, <2>5, <2>6, <2>7 DEF w, g
<1>5. CASE ~(Len(g) > WindowSize)
  <2>1. w = g
    BY <1>5 DEF Window
  <2>2. Len(g) < WindowSize => n < WindowSize
    BY <1>1, <1>2
  <2> QED  BY <1>1, <1>3, <2>1, <2>2 DEF g, n
<1> QED  BY <1>4, <1>5

LEMMA TailType ==
  ASSUME NEW S, NEW s \in Seq(S), s # <<>>
  PROVE  /\ Tail(s) \in Seq(S) /\ Head(s) \in S /\ Head(s) = s[1]
         /\ Len(s) \in Nat \ {0} /\ DOMAIN s = 1..Len(s) /\ DOMAIN Tail(s) = 1..(Len(s) - 1)
         /\ \A k \in 1..(Len(s) - 1) : Tail(s)[k] = s[k + 1]
OBVIOUS

\* What a bar makes the server say.
LEMMA BarMessagesType ==
  ASSUME events' \in Nat, returned' \subseteq CandidateType
  PROVE  /\ BarMessages \in Seq(MessagesOfBars)
         /\ \E k \in DOMAIN BarMessages : BarMessages[k] = BarMsg(events')
         /\ returned' # {} =>
              \E k \in DOMAIN BarMessages :
                BarMessages[k] = [type |-> "candidates_update", n |-> events', data |-> returned']
<1> DEFINE cm == [type |-> "candidates_update", n |-> events', data |-> returned']
<1>1. BarMsg(events') \in MessagesOfBars /\ cm \in MessagesOfBars
  BY DEF MessagesOfBars
<1> DEFINE one == <<BarMsg(events')>>
           more == IF returned' = {} THEN <<>> ELSE <<cm>>
<1>2. BarMessages = one \o more
  BY DEF BarMessages, BarMsg
<1> HIDE DEF cm
<1>3. /\ one \in Seq(MessagesOfBars) /\ Len(one) = 1 /\ one[1] = BarMsg(events')
      /\ more \in Seq(MessagesOfBars)
      /\ returned' # {} => Len(more) = 1 /\ more[1] = cm
      /\ returned' = {} => Len(more) = 0
  BY <1>1
<1> HIDE DEF one, more
<1>4. /\ BarMessages \in Seq(MessagesOfBars)
      /\ Len(BarMessages) = 1 + Len(more)
      /\ \A k \in 1..(1 + Len(more)) :
           BarMessages[k] = IF k <= 1 THEN one[k] ELSE more[k - 1]
  <2>1. \A S : \A s, t \in Seq(S) :
          /\ s \o t \in Seq(S) /\ Len(s \o t) = Len(s) + Len(t)
          /\ \A i \in 1..(Len(s) + Len(t)) :
               (s \o t)[i] = IF i <= Len(s) THEN s[i] ELSE t[i - Len(s)]
    BY ConcatProperties
  <2>2. one \in Seq(MessagesOfBars) /\ more \in Seq(MessagesOfBars)
    BY <1>3
  <2>3. /\ one \o more \in Seq(MessagesOfBars) /\ Len(one \o more) = Len(one) + Len(more)
        /\ \A i \in 1..(Len(one) + Len(more)) :
             (one \o more)[i] = IF i <= Len(one) THEN one[i] ELSE more[i - Len(one)]
    BY <2>1, <2>2
  <2> QED  BY <1>2, <1>3, <2>3
<1>5. DOMAIN BarMessages = 1..(1 + Len(more)) /\ Len(more) \in Nat
  BY <1>3, <1>4
<1>6. 1 \in DOMAIN BarMessages /\ BarMessages[1] = BarMsg(events')
  BY <1>3, <1>4, <1>5
<1>7. ASSUME returned' # {} PROVE 2 \in DOMAIN BarMessages /\ BarMessages[2] = cm
  BY <1>3, <1>4, <1>5, <1>7
<1> QED  BY <1>4, <1>6, <1>7 DEF cm

LEMMA MessageKinds ==
  /\ \A msg \in QuoteMessages : msg.type = "quote_update" /\ msg.n \in Nat /\ msg = QuoteMsg(msg.n)
  /\ \A msg \in MessagesOfBars : msg.type # "quote_update" /\ msg.n \in Nat
                                 /\ (msg.type = "candidates_update" => msg.data \subseteq CandidateType)
  /\ QuoteMessages \subseteq Messages /\ MessagesOfBars \subseteq Messages
BY DEF QuoteMessages, MessagesOfBars, Messages, QuoteMsg, BarMsg

LEMMA LargerOfSeq == \A S, T : S \subseteq T => \A s \in Seq(S) : s \in Seq(T)
OBVIOUS

\* What a message does to the browser.
LEMMA HeardIs ==
  ASSUME NEW msg, Heard(msg)
  PROVE  \/ /\ hook = "market" /\ msg.type = "quote_update" /\ known' = Later(known, msg.n)
            /\ shown' = [shown EXCEPT !.quote = msg.n]
         \/ /\ hook = "market" /\ msg.type = "bar_update" /\ known' = Later(known, msg.n)
            /\ shown' = [shown EXCEPT !.bars = Window(Append(shown.bars, msg.n))]
         \/ /\ hook = "candidates" /\ msg.type = "candidates_update"
            /\ known' = Later(known, msg.n)
            /\ shown' = [shown EXCEPT !.candidates = shown.candidates \cup msg.data]
         \/ /\ ~(hook = "market" /\ msg.type \in {"quote_update", "bar_update"})
            /\ ~(hook = "candidates" /\ msg.type = "candidates_update")
            /\ known' = known /\ shown' = shown
<1>1. CASE hook = "market" /\ msg.type = "quote_update"
  BY <1>1 DEF Heard, Told
<1>2. CASE hook = "market" /\ msg.type = "bar_update"
  BY <1>2 DEF Heard, Told
<1>3. CASE hook = "candidates" /\ msg.type = "candidates_update"
  BY <1>3 DEF Heard, Told, Merged
<1>4. CASE /\ ~(hook = "market" /\ msg.type \in {"quote_update", "bar_update"})
           /\ ~(hook = "candidates" /\ msg.type = "candidates_update")
  BY <1>4 DEF Heard
<1> QED  BY <1>1, <1>2, <1>3, <1>4

LEMMA HeardType ==
  ASSUME ObserverTypeOK, NEW msg \in Messages, Heard(msg)
  PROVE  /\ shown' \in [quote : Nat, bars : Seq(Nat), candidates : SUBSET CandidateType]
         /\ known' \in Nat /\ known' >= known
<1>1. msg.n \in Nat /\ (msg.type = "candidates_update" => msg.data \subseteq CandidateType)
  BY MessageKinds DEF Messages
<1>2. known \in Nat /\ Later(known, msg.n) \in Nat /\ Later(known, msg.n) >= known
  BY <1>1 DEF ObserverTypeOK, Later
<1>3. known' = known \/ known' = Later(known, msg.n)
  BY HeardIs
<1>4. shown \in [quote : Nat, bars : Seq(Nat), candidates : SUBSET CandidateType]
  BY DEF ObserverTypeOK
<1>5. Window(Append(shown.bars, msg.n)) \in Seq(Nat)
  BY <1>1, <1>4, WindowKeeps
<1>6. shown' \in [quote : Nat, bars : Seq(Nat), candidates : SUBSET CandidateType]
  <2>1. CASE shown' = [shown EXCEPT !.quote = msg.n]
    BY <1>1, <1>4, <2>1
  <2>2. CASE shown' = [shown EXCEPT !.bars = Window(Append(shown.bars, msg.n))]
    BY <1>4, <1>5, <2>2
  <2>3. CASE /\ msg.type = "candidates_update"
             /\ shown' = [shown EXCEPT !.candidates = shown.candidates \cup msg.data]
    BY <1>1, <1>4, <2>3
  <2>4. CASE shown' = shown
    BY <1>4, <2>4
  <2> QED  BY <2>1, <2>2, <2>3, <2>4, HeardIs
<1> QED  BY <1>2, <1>3, <1>6

LEMMA OutboxTypes ==
  ASSUME ObserverTypeOK, NEW t \in Tasks, outbox[t] # <<>>
  PROVE  /\ Head(outbox[t]) \in Messages
         /\ t = "quotes" => Head(outbox[t]) \in QuoteMessages
         /\ t = "bars" => Head(outbox[t]) \in MessagesOfBars
         /\ Tail(outbox[t]) \in Seq(Messages)
         /\ t = "quotes" => Tail(outbox[t]) \in Seq(QuoteMessages)
         /\ t = "bars" => Tail(outbox[t]) \in Seq(MessagesOfBars)
<1>1. outbox[t] \in Seq(Messages) /\ t \in {"quotes", "bars"}
  BY DEF ObserverTypeOK, Tasks
<1>2. t = "quotes" => outbox[t] \in Seq(QuoteMessages)
  BY DEF ObserverTypeOK
<1>3. t = "bars" => outbox[t] \in Seq(MessagesOfBars)
  BY DEF ObserverTypeOK
<1> QED  BY <1>1, <1>2, <1>3, TailType

LEMMA ObserverTypeStep ==
  ASSUME ObserverTypeOK, [ObserverNext]_observerVars
  PROVE  ObserverTypeOK'
<1> DEFINE Rest == /\ StoreTypeOK' /\ events' \in Nat /\ clock' \in Nat /\ reconnectCount' \in Nat
                   /\ quote' \in Nat /\ bars' \in Seq(Nat) /\ hook' \in Hooks
                   /\ link' \in {"down", "accepted", "open"}
           Boxes == /\ outbox' \in [Tasks -> Seq(Messages)] /\ wire' \in Seq(Messages)
                    /\ outbox'["quotes"] \in Seq(QuoteMessages)
                    /\ outbox'["bars"] \in Seq(MessagesOfBars)
           Asked == fetches' \subseteq [n : Nat, reply : Snapshots \cup {None}]
           Browser == /\ known' \in Nat
                      /\ shown' \in [quote : Nat, bars : Seq(Nat), candidates : SUBSET CandidateType]
<1>0. /\ "quotes" \in Tasks /\ "bars" \in Tasks /\ "quotes" # "bars" /\ Tasks = {"quotes", "bars"}
      /\ events \in Nat => events + 1 \in Nat
  BY DEF Tasks
<1>a. UNCHANGED storeVars => StoreTypeOK'
  BY DEF storeVars, StoreTypeOK, ObserverTypeOK, CandidateType
<1>b. UNCHANGED <<outbox, wire>> => Boxes
  BY DEF ObserverTypeOK, Messages, MessagesOfBars, QuoteMessages, CandidateType, BarMsg, QuoteMsg
<1>e. UNCHANGED outbox /\ wire' \in Seq(Messages) => Boxes
  BY DEF ObserverTypeOK
<1>f. <<>> \in Seq(Messages) /\ <<>> \in Seq(QuoteMessages) /\ <<>> \in Seq(MessagesOfBars)
  OBVIOUS
<1>c. UNCHANGED fetches => Asked
  BY DEF ObserverTypeOK
<1>d. UNCHANGED <<shown, known>> => Browser
  BY DEF ObserverTypeOK
<1>1. CASE Quote
  <2>1. events' \in Nat /\ UNCHANGED <<storeVars, bars, clock, linkVars, fetches, browserVars>>
    BY <1>0, <1>1 DEF Quote, Update, ObserverTypeOK
  <2>2. Rest /\ Asked /\ Browser
    BY <1>1, <1>a, <1>c, <1>d, <2>1 DEF Quote, ObserverTypeOK, linkVars, browserVars
  <2>3. <<QuoteMsg(events')>> \in Seq(QuoteMessages) /\ <<QuoteMsg(events')>> \in Seq(Messages)
    BY <2>1, MessageKinds DEF QuoteMessages
  <2>4. outbox' = [outbox EXCEPT !["quotes"] = <<QuoteMsg(events')>>] /\ wire' = wire
    BY <1>1, <2>1 DEF Quote, QuoteMsg, linkVars
  <2>5. Boxes
    BY <1>0, <2>3, <2>4 DEF ObserverTypeOK
  <2> QED  BY <2>2, <2>5 DEF ObserverTypeOK
<1>2. CASE Bar \/ BarRaises
  <2>1. events' \in Nat /\ UNCHANGED <<quote, clock, linkVars, fetches, browserVars>>
    BY <1>0, <1>2 DEF Bar, BarRaises, Update, ObserverTypeOK
  <2>2. StoreTypeOK'
    BY <1>2, RoundType DEF Bar, BarRaises, ObserverTypeOK
  <2>3. bars' \in Seq(Nat)
    BY <1>2, <2>1, WindowKeeps DEF Bar, BarRaises, ObserverTypeOK
  <2>4. Rest /\ Asked /\ Browser
    BY <1>c, <1>d, <2>1, <2>2, <2>3 DEF ObserverTypeOK, linkVars, browserVars
  <2>5. CASE BarRaises
    BY <1>b, <2>4, <2>5 DEF BarRaises, ObserverTypeOK, linkVars
  <2>6. CASE Bar
    <3>1. returned' \subseteq CandidateType
      BY <2>2 DEF StoreTypeOK, CandidateType
    <3>2. BarMessages \in Seq(MessagesOfBars)
      BY <2>1, <3>1, BarMessagesType
    <3>3. BarMessages \in Seq(Messages)
      BY <3>2, MessageKinds, LargerOfSeq
    <3>4. outbox' = [outbox EXCEPT !["bars"] = BarMessages] /\ wire' = wire
      BY <2>1, <2>6 DEF Bar, linkVars
    <3>5. Boxes
      BY <1>0, <3>2, <3>3, <3>4 DEF ObserverTypeOK
    <3> QED  BY <2>4, <3>5 DEF ObserverTypeOK
  <2> QED  BY <1>2, <2>5, <2>6
<1>3. CASE Restart
  <2>3. /\ events' = events + 1 /\ quote' = 0 /\ bars' = <<>> /\ link' = "down"
        /\ candidates' = {} /\ returned' = {} /\ crashed' = FALSE
        /\ UNCHANGED <<round, evaluatedAt, clock, reconnectCount, fetches, browserVars>>
    BY <1>3 DEF Restart, Update
  <2>4. StoreTypeOK'
    BY <2>3 DEF ObserverTypeOK, StoreTypeOK, CandidateType
  <2>1. Rest /\ Asked /\ Browser
    BY <1>0, <1>c, <1>d, <2>3, <2>4 DEF ObserverTypeOK, browserVars
  <2>2. Boxes
    BY <1>0, <1>3 DEF Restart
  <2> QED  BY <2>1, <2>2 DEF ObserverTypeOK
<1>4. ASSUME NEW t \in Tasks, Send(t) PROVE ObserverTypeOK'
  <2>1. UNCHANGED <<storeVars, marketVars, clock, events, link, reconnectCount, fetches, browserVars>>
    BY <1>4 DEF Send
  <2>2. Rest /\ Asked /\ Browser
    BY <1>a, <1>c, <1>d, <2>1 DEF ObserverTypeOK, marketVars, browserVars
  <2>3. /\ outbox[t] # <<>> /\ outbox' = [outbox EXCEPT ![t] = Tail(outbox[t])]
        /\ wire' = wire \/ wire' = Append(wire, Head(outbox[t]))
    BY <1>4 DEF Send
  <2>4. wire' \in Seq(Messages)
    <3>1. wire \in Seq(Messages) /\ Head(outbox[t]) \in Messages
      BY <2>3, OutboxTypes DEF ObserverTypeOK
    <3> QED  BY <2>3, <3>1
  <2>5. Boxes
    <3>1. outbox' \in [Tasks -> Seq(Messages)]
      BY <2>3, OutboxTypes DEF ObserverTypeOK
    <3>2. outbox'["quotes"] \in Seq(QuoteMessages)
      BY <1>0, <2>3, OutboxTypes DEF ObserverTypeOK
    <3>3. outbox'["bars"] \in Seq(MessagesOfBars)
      BY <1>0, <2>3, OutboxTypes DEF ObserverTypeOK
    <3> QED  BY <2>4, <3>1, <3>2, <3>3
  <2> QED  BY <2>2, <2>5 DEF ObserverTypeOK
<1>5. CASE Tick \/ Accept \/ Close
  <2>1. UNCHANGED <<storeVars, marketVars, events, outbox, reconnectCount, fetches, browserVars>>
        /\ clock' \in Nat /\ link' \in {"down", "accepted", "open"}
    BY <1>5 DEF Tick, Accept, Close, ObserverTypeOK, linkVars
  <2>2. Rest /\ Asked /\ Browser
    BY <1>a, <1>c, <1>d, <2>1 DEF ObserverTypeOK, marketVars, browserVars
  <2>3. wire' = wire \/ wire' = <<>>
    BY <1>5 DEF Tick, Accept, Close, linkVars
  <2>5. wire' \in Seq(Messages)
    <3>1. wire \in Seq(Messages)
      BY DEF ObserverTypeOK
    <3> QED  BY <1>f, <2>3, <3>1
  <2>4. Boxes
    BY <1>e, <2>1, <2>5
  <2> QED  BY <2>2, <2>4 DEF ObserverTypeOK
<1>6. CASE Open
  <2>1. UNCHANGED <<storeVars, marketVars, clock, events, outbox, wire, hook, shown, known, overtaken>>
        /\ reconnectCount' \in Nat /\ link' \in {"down", "accepted", "open"}
    BY <1>6 DEF Open, ObserverTypeOK
  <2>2. Rest /\ Browser /\ Boxes
    BY <1>a, <1>b, <1>d, <2>1 DEF ObserverTypeOK, marketVars
  <2>3. fetches' = fetches \cup {Request(reconnectCount')}
    BY <1>6 DEF Open, Refetching
  <2>4. Asked
    BY <2>1, <2>3 DEF ObserverTypeOK, Request
  <2> QED  BY <2>2, <2>4 DEF ObserverTypeOK
<1>7. CASE Deliver
  <2>1. UNCHANGED <<storeVars, marketVars, clock, events, outbox, link, reconnectCount, hook, fetches>>
    BY <1>7 DEF Deliver
  <2>2. Rest /\ Asked
    BY <1>a, <1>c, <2>1 DEF ObserverTypeOK, marketVars
  <2>3. wire # <<>> /\ wire \in Seq(Messages) /\ wire' = Tail(wire) /\ Heard(Head(wire))
    BY <1>7 DEF Deliver, ObserverTypeOK
  <2>4. Head(wire) \in Messages /\ wire' \in Seq(Messages)
    BY <2>3, TailType
  <2>5. Browser
    BY <2>3, <2>4, HeardType
  <2>6. Boxes
    BY <2>1, <2>4 DEF ObserverTypeOK
  <2> QED  BY <2>2, <2>5, <2>6 DEF ObserverTypeOK
<1>8. ASSUME NEW f \in fetches, Serve(f) PROVE ObserverTypeOK'
  <2>1. UNCHANGED <<storeVars, marketVars, clock, events, outbox, linkVars, browserVars>>
    BY <1>8 DEF Serve
  <2>2. Rest /\ Boxes /\ Browser
    BY <1>a, <1>b, <1>d, <2>1 DEF ObserverTypeOK, marketVars, linkVars, browserVars
  <2>3. Snapshot \in Snapshots
    BY DEF Snapshot, Snapshots, ObserverTypeOK, Active, StoreTypeOK
  <2>4. Asked
    BY <1>8, <2>3 DEF Serve, ObserverTypeOK
  <2> QED  BY <2>2, <2>4 DEF ObserverTypeOK
<1>9. ASSUME NEW f \in fetches, FetchDone(f) PROVE ObserverTypeOK'
  <2>1. UNCHANGED <<storeVars, marketVars, clock, events, outbox, linkVars, hook>>
        /\ fetches' = fetches \ {f} /\ shown' = Load(f.reply) /\ known' = Later(known, f.reply.n)
    BY <1>9 DEF FetchDone, Told
  <2>2. Rest /\ Boxes
    BY <1>a, <1>b, <2>1 DEF ObserverTypeOK, marketVars, linkVars
  <2>3. f.reply \in Snapshots
    BY <1>9 DEF FetchDone, ObserverTypeOK
  <2>4. Browser
    BY <2>1, <2>3 DEF Load, Later, Snapshots, ObserverTypeOK
  <2> QED  BY <2>1, <2>2, <2>4 DEF ObserverTypeOK
<1>10. ASSUME NEW f \in fetches, FetchFails(f) PROVE ObserverTypeOK'
  <2>1. UNCHANGED <<storeVars, marketVars, clock, events, outbox, linkVars, hook, shown, known>>
        /\ fetches' = fetches \ {f}
    BY <1>10 DEF FetchFails
  <2>2. Rest /\ Boxes /\ Browser
    BY <1>a, <1>b, <1>d, <2>1 DEF ObserverTypeOK, marketVars, linkVars
  <2> QED  BY <2>1, <2>2 DEF ObserverTypeOK
<1>11. CASE UNCHANGED observerVars
  BY <1>11, <1>a, <1>b, <1>c, <1>d DEF observerVars, ObserverTypeOK, marketVars, linkVars, browserVars
<1> QED
  BY <1>1, <1>2, <1>3, <1>4, <1>5, <1>6, <1>7, <1>8, <1>9, <1>10, <1>11 DEF ObserverNext, Spent

\* The replies there are after a step were there before, or are of now.
LEMMA RepliesStep ==
  ASSUME ObserverTypeOK, [ObserverNext]_observerVars, NEW f \in fetches', f.reply # None
  PROVE  \/ f \in fetches
         \/ /\ f.reply = Snapshot
            /\ UNCHANGED <<storeVars, marketVars, clock, events, outbox, linkVars, browserVars>>
<1>1. CASE Open
  BY <1>1 DEF Open, Refetching, Request
<1>2. ASSUME NEW g \in fetches, Serve(g)
      PROVE  f \in fetches \/ f.reply = Snapshot
  <2>1. f \in fetches \/ f = [g EXCEPT !.reply = Snapshot]
    BY <1>2 DEF Serve
  <2>2. CASE f = [g EXCEPT !.reply = Snapshot]
    <3>1. g \in [n : Nat, reply : Snapshots \cup {None}]
      BY DEF ObserverTypeOK
    <3> QED  BY <2>2, <3>1
  <2> QED  BY <2>1, <2>2
<1> QED
  BY <1>1, <1>2 DEF ObserverNext, Spent, observerVars, Quote, Bar, BarRaises, Restart, Tick, Send,
     Accept, Close, Deliver, Serve, FetchDone, FetchFails

LEMMA PastStep ==
  ASSUME ObserverTypeOK, PastInv, [ObserverNext]_observerVars
  PROVE  PastInv' /\ events' >= events
<1>1. events \in Nat /\ (events' = events \/ events' = events + 1)
  BY DEF ObserverTypeOK, ObserverNext, Quote, Bar, BarRaises, Restart, Update, Tick, Send, Accept,
         Open, Close, Deliver, Serve, FetchDone, FetchFails, Spent, observerVars
<1>2. events' >= events /\ events' \in Nat
  BY <1>1
<1>3. ASSUME NEW f \in fetches', f.reply # None PROVE f.reply.n <= events'
  <2>1. CASE f \in fetches
    <3>1. f.reply.n <= events /\ f.reply.n \in Nat
      BY <1>3, <2>1 DEF PastInv, ObserverTypeOK, Snapshots
    <3> QED  BY <1>1, <1>2, <3>1
  <2>2. CASE f.reply = Snapshot /\ UNCHANGED events
    BY <1>1, <2>2 DEF Snapshot
  <2> QED  BY <1>3, <2>1, <2>2, RepliesStep
<1>4. ASSUME NEW n \in ToSet(bars') PROVE n <= events'
  <2>1. CASE Bar \/ BarRaises
    <3>1. bars' = Window(Append(bars, events')) /\ bars \in Seq(Nat)
      BY <2>1 DEF Bar, BarRaises, ObserverTypeOK
    <3>2. n \in ToSet(bars) \cup {events'}
      BY <1>2, <1>4, <3>1, WindowKeeps
    <3>3. \A m \in ToSet(bars) : m \in Nat /\ m <= events
      BY DEF PastInv, ToSet, ObserverTypeOK
    <3> QED  BY <1>1, <1>2, <3>2, <3>3
  <2>2. CASE Restart
    BY <1>4, <2>2 DEF Restart, ToSet
  <2>3. CASE ~(Bar \/ BarRaises \/ Restart)
    <3>1. bars' = bars
      BY <2>3 DEF ObserverNext, Quote, Tick, Send, Accept, Open, Close, Deliver, Serve, FetchDone,
                  FetchFails, Spent, observerVars, marketVars
    <3>2. n \in Nat /\ n <= events
      BY <1>4, <3>1 DEF PastInv, ToSet, ObserverTypeOK
    <3> QED  BY <1>1, <1>2, <3>2
  <2> QED  BY <2>1, <2>2, <2>3
<1>5. link' = "down" => wire' = <<>>
  BY DEF PastInv, ObserverTypeOK, ObserverNext, Quote, Bar, BarRaises, Restart, Tick, Send, Accept,
         Open, Close, Deliver, Serve, FetchDone, FetchFails, Spent, observerVars, linkVars
<1> QED  BY <1>2, <1>3, <1>4, <1>5 DEF PastInv

-----------------------------------------------------------------------------
(* What is under way to the browser *)

OnWire(msg) == \E k \in DOMAIN wire : wire[k] = msg
Waiting(t, msg) == \E k \in DOMAIN outbox[t] : outbox[t][k] = msg
UnderWay(t, msg) == OnWire(msg) \/ Waiting(t, msg)

\* The snapshot asked for when the link opened has not arrived.
Fetching == \E f \in fetches : f.n = reconnectCount

\* What happened at n the browser knows of, or will by the current snapshot.
Accounted(n) ==
    \/ known >= n
    \/ unanswered
    \/ \E f \in fetches : f.n = reconnectCount /\ (f.reply = None \/ f.reply.n >= n)

\* The last word on the browser's state was no older than what it knew.
Loaded == link = "open" /\ ~Fetching /\ ~unanswered /\ ~overtaken

\* What is under way stays so until it is delivered or the link breaks.
LEMMA NothingLost ==
  ASSUME ObserverTypeOK, PastInv, [ObserverNext]_observerVars, NEW t \in Tasks, NEW msg,
         UnderWay(t, msg), link' # "down"
  PROVE  \/ UnderWay(t, msg)'
         \/ Deliver /\ Head(wire) = msg
<1>1. wire \in Seq(Messages) /\ outbox[t] \in Seq(Messages) /\ outbox \in [Tasks -> Seq(Messages)]
  BY DEF ObserverTypeOK
<1>2. CASE Deliver
  <2>1. outbox' = outbox /\ wire # <<>> /\ wire' = Tail(wire)
    BY <1>2 DEF Deliver
  <2>2. /\ Head(wire) = wire[1] /\ DOMAIN wire = 1..Len(wire) /\ Len(wire) \in Nat
        /\ DOMAIN wire' = 1..(Len(wire) - 1)
        /\ \A k \in 1..(Len(wire) - 1) : wire'[k] = wire[k + 1]
    BY <1>1, <2>1, TailType
  <2>3. ASSUME NEW k \in DOMAIN wire, wire[k] = msg, k # 1 PROVE OnWire(msg)'
    <3>1. k - 1 \in 1..(Len(wire) - 1) /\ (k - 1) + 1 = k
      BY <2>2, <2>3
    <3> QED  BY <2>2, <2>3, <3>1 DEF OnWire
  <2> QED  BY <1>2, <2>1, <2>2, <2>3 DEF UnderWay, OnWire, Waiting
<1>3. ASSUME NEW u \in Tasks, Send(u) PROVE UnderWay(t, msg)'
  <2>1. /\ outbox[u] # <<>> /\ outbox' = [outbox EXCEPT ![u] = Tail(outbox[u])]
        /\ link # "down" /\ wire' = Append(wire, Head(outbox[u]))
    BY <1>3 DEF Send
  <2>2. /\ DOMAIN wire = 1..Len(wire) /\ Len(wire) \in Nat /\ DOMAIN wire' = 1..(Len(wire) + 1)
        /\ wire'[Len(wire) + 1] = Head(outbox[u])
        /\ \A k \in 1..Len(wire) : wire'[k] = wire[k]
    BY <1>1, <2>1
  <2>3. CASE OnWire(msg)
    <3>1. PICK k \in 1..Len(wire) : wire[k] = msg
      BY <2>2, <2>3 DEF OnWire
    <3>2. k \in DOMAIN wire' /\ wire'[k] = msg
      BY <2>2, <3>1
    <3> QED  BY <3>2 DEF UnderWay, OnWire
  <2>4. CASE Waiting(t, msg) /\ t # u
    <3>1. outbox'[t] = outbox[t]
      BY <1>1, <2>1, <2>4
    <3> QED  BY <2>4, <3>1 DEF UnderWay, Waiting
  <2>5. CASE Waiting(t, msg) /\ t = u
    <3>1. PICK k \in DOMAIN outbox[u] : outbox[u][k] = msg
      BY <2>5 DEF Waiting
    <3>2. /\ outbox[u] \in Seq(Messages) /\ Head(outbox[u]) = outbox[u][1]
          /\ DOMAIN outbox[u] = 1..Len(outbox[u]) /\ Len(outbox[u]) \in Nat
          /\ DOMAIN Tail(outbox[u]) = 1..(Len(outbox[u]) - 1)
          /\ \A j \in 1..(Len(outbox[u]) - 1) : Tail(outbox[u])[j] = outbox[u][j + 1]
      BY <1>1, <2>1, <2>5, TailType
    <3>3. CASE k = 1
      <4>1. Len(wire) + 1 \in DOMAIN wire'
        BY <2>2
      <4> QED  BY <2>2, <3>1, <3>2, <3>3, <4>1 DEF UnderWay, OnWire
    <3>4. CASE k # 1
      <4>1. k - 1 \in 1..(Len(outbox[u]) - 1) /\ (k - 1) + 1 = k
        BY <3>2, <3>4
      <4>2. outbox'[t] = Tail(outbox[u])
        BY <1>1, <2>1, <2>5
      <4> QED  BY <3>1, <3>2, <4>1, <4>2 DEF UnderWay, Waiting
    <3> QED  BY <3>3, <3>4
  <2> QED  BY <2>3, <2>4, <2>5 DEF UnderWay
<1>4. CASE Quote
  <2>1. outbox["quotes"] = <<>> /\ wire' = wire /\ outbox'["bars"] = outbox["bars"]
    BY <1>4 DEF Quote, linkVars, ObserverTypeOK, Tasks
  <2> QED  BY <2>1 DEF UnderWay, OnWire, Waiting, Tasks
<1>5. CASE Bar
  <2>1. outbox["bars"] = <<>> /\ wire' = wire /\ outbox'["quotes"] = outbox["quotes"]
    BY <1>5 DEF Bar, linkVars, ObserverTypeOK, Tasks
  <2> QED  BY <2>1 DEF UnderWay, OnWire, Waiting, Tasks
<1>6. CASE ~(Deliver \/ Quote \/ Bar) /\ \A u \in Tasks : ~Send(u)
  <2>1. UNCHANGED <<outbox, wire>>
    BY <1>6 DEF ObserverNext, BarRaises, Restart, Tick, Accept, Open, Close, Serve, FetchDone,
                FetchFails, Spent, observerVars, linkVars
  <2> QED  BY <2>1 DEF UnderWay, OnWire, Waiting
<1> QED  BY <1>2, <1>3, <1>4, <1>5, <1>6

\* What is accounted for stays so; what happens while the link is open, or is
\* accepted, is under way.
LEMMA StaysAccounted ==
  ASSUME ObserverTypeOK, PastInv, [ObserverNext]_observerVars, NEW n \in Nat, n <= events,
         link = "open" => Accounted(n), link' = "open"
  PROVE  Accounted(n)'
<1>1. CASE Open
  <2>1. fetches' = fetches \cup {Request(reconnectCount')}
    BY <1>1 DEF Open, Refetching
  <2>2. Request(reconnectCount').n = reconnectCount' /\ Request(reconnectCount').reply = None
    BY DEF Request
  <2> QED  BY <2>1, <2>2 DEF Accounted
<1>2. ASSUME ~Open PROVE link = "open" /\ reconnectCount' = reconnectCount
  BY <1>2 DEF ObserverNext, Quote, Bar, BarRaises, Restart, Tick, Send, Accept, Close, Deliver,
     Serve, FetchDone, FetchFails, Spent, observerVars, linkVars
<1>3. CASE Deliver
  <2>1. UNCHANGED <<fetches, reconnectCount, unanswered>> /\ link = "open" /\ Heard(Head(wire))
        /\ wire # <<>> /\ wire \in Seq(Messages)
    BY <1>3 DEF Deliver, ObserverTypeOK
  <2>2. Head(wire) \in Messages
    BY <2>1, TailType
  <2>3. known' >= known /\ known \in Nat /\ known' \in Nat
    BY <2>1, <2>2, HeardType DEF ObserverTypeOK
  <2> QED  BY <2>1, <2>3 DEF Accounted
<1>4. ASSUME NEW f \in fetches, Serve(f) PROVE Accounted(n)'
  <2>1. UNCHANGED <<known, unanswered, reconnectCount, events>> /\ link = "open"
    BY <1>4, <1>2 DEF Serve, browserVars, linkVars
  <2>2. f \in [n : Nat, reply : Snapshots \cup {None}]
    BY DEF ObserverTypeOK
  <2> DEFINE g == [f EXCEPT !.reply = Snapshot]
  <2>3. g.n = f.n /\ g.reply = Snapshot /\ Snapshot.n = events
    BY <2>2 DEF Snapshot
  <2>4. fetches' = (fetches \ {f}) \cup {g}
    BY <1>4 DEF Serve
  <2>5. events >= n
    BY DEF ObserverTypeOK
  <2> HIDE DEF g
  <2> QED  BY <2>1, <2>3, <2>4, <2>5 DEF Accounted
<1>5. ASSUME NEW f \in fetches, FetchDone(f) PROVE Accounted(n)'
  <2>1. UNCHANGED <<unanswered, reconnectCount>> /\ link = "open" /\ f.reply # None
        /\ fetches' = fetches \ {f} /\ known' = Later(known, f.reply.n)
    BY <1>5, <1>2 DEF FetchDone, Told, linkVars
  <2>2. known \in Nat /\ f.reply.n \in Nat
    BY <2>1 DEF ObserverTypeOK, Snapshots
  <2>3. known' >= known /\ known' >= f.reply.n /\ known' \in Nat
    BY <2>1, <2>2 DEF Later
  <2>4. known >= n => known' >= n
    BY <2>2, <2>3
  <2>5. f.reply.n >= n => known' >= n
    BY <2>2, <2>3
  <2> QED  BY <2>1, <2>4, <2>5 DEF Accounted
<1>6. ASSUME NEW f \in fetches, FetchFails(f) PROVE Accounted(n)'
  <2>1. UNCHANGED <<known, reconnectCount>> /\ link = "open"
        /\ fetches' = fetches \ {f} /\ unanswered' = (unanswered \/ f.n = reconnectCount)
    BY <1>6, <1>2 DEF FetchFails, linkVars
  <2> QED  BY <2>1 DEF Accounted
<1>7. CASE ~(Open \/ Deliver) /\ \A f \in fetches : ~Serve(f) /\ ~FetchDone(f) /\ ~FetchFails(f)
  <2>1. UNCHANGED <<known, unanswered, reconnectCount, fetches>> /\ link = "open"
    BY <1>2, <1>7 DEF ObserverNext, Quote, Bar, BarRaises, Restart, Tick, Send, Accept, Close,
                      Spent, observerVars, linkVars, browserVars
  <2> QED  BY <2>1 DEF Accounted
<1> QED  BY <1>1, <1>3, <1>4, <1>5, <1>6, <1>7

\* The browser is only loaded anew by a reply that is no older than what is
\* accounted for.
LEMMA LoadedStep ==
  ASSUME ObserverTypeOK, [ObserverNext]_observerVars, Loaded'
  PROVE  \/ Loaded /\ \A f \in fetches : ~FetchDone(f)
         \/ /\ link = "open"
            /\ \E f \in fetches : /\ FetchDone(f) /\ f.reply # None
                                  /\ \A n \in Nat : Accounted(n) => f.reply.n >= n
<1>1. ~Open
  <2> SUFFICES ASSUME Open PROVE FALSE
    OBVIOUS
  <2>1. Request(reconnectCount') \in fetches'
    BY DEF Open, Refetching
  <2>2. Request(reconnectCount').n = reconnectCount'
    BY DEF Request
  <2> QED  BY <2>1, <2>2 DEF Loaded, Fetching
<1>2. link = "open" /\ reconnectCount' = reconnectCount
  BY <1>1 DEF Loaded, ObserverNext, Quote, Bar, BarRaises, Restart, Tick, Send, Accept, Close,
     Deliver, Serve, FetchDone, FetchFails, Spent, observerVars, linkVars
<1>3. ASSUME NEW f \in fetches, FetchDone(f)
      PROVE  f.reply # None /\ \A n \in Nat : Accounted(n) => f.reply.n >= n
  <2>1. /\ f.reply # None /\ fetches' = fetches \ {f} /\ unanswered' = unanswered
        /\ ~(f.reply.n < known)
    BY <1>3 DEF FetchDone, Loaded
  <2>2. known \in Nat /\ f.reply.n \in Nat /\ f.reply.n >= known
    BY <2>1 DEF ObserverTypeOK, Snapshots
  <2>3. ASSUME NEW n \in Nat, Accounted(n) PROVE f.reply.n >= n
    <3>1. CASE known >= n
      BY <2>2, <3>1
    <3>2. CASE unanswered
      BY <2>1, <3>2 DEF Loaded
    <3>3. ASSUME NEW g \in fetches, g.n = reconnectCount, g.reply = None \/ g.reply.n >= n
          PROVE  f.reply.n >= n
      <4>1. g = f
        BY <1>2, <2>1, <3>3 DEF Loaded, Fetching
      <4> QED  BY <2>1, <3>3, <4>1
    <3> QED  BY <2>3, <3>1, <3>2, <3>3 DEF Accounted
  <2> QED  BY <2>1, <2>3
<1>4. ASSUME \A f \in fetches : ~FetchDone(f) PROVE Loaded
  <2>1. ASSUME NEW f \in fetches, Serve(f) PROVE Loaded
    <3>1. UNCHANGED <<unanswered, overtaken>> /\ f \in [n : Nat, reply : Snapshots \cup {None}]
      BY <2>1 DEF Serve, browserVars, ObserverTypeOK
    <3>2. fetches' = (fetches \ {f}) \cup {[f EXCEPT !.reply = Snapshot]}
      BY <2>1 DEF Serve
    <3>3. [f EXCEPT !.reply = Snapshot].n = f.n
      BY <3>1
    <3>4. Fetching => Fetching'
      BY <1>2, <3>2, <3>3 DEF Fetching
    <3> QED  BY <1>2, <3>1, <3>4 DEF Loaded
  <2>2. ASSUME NEW f \in fetches, FetchFails(f) PROVE Loaded
    <3>1. overtaken' = overtaken /\ fetches' = fetches \ {f}
          /\ unanswered' = (unanswered \/ f.n = reconnectCount)
      BY <2>2 DEF FetchFails
    <3> QED  BY <1>2, <3>1 DEF Loaded, Fetching
  <2>3. CASE \A f \in fetches : ~Serve(f) /\ ~FetchFails(f)
    <3>1. UNCHANGED <<fetches, unanswered, overtaken>>
      BY <1>1, <1>4, <2>3 DEF ObserverNext, Quote, Bar, BarRaises, Restart, Tick, Send, Accept,
         Close, Deliver, Spent, observerVars, browserVars
    <3> QED  BY <1>2, <3>1 DEF Loaded, Fetching
  <2> QED  BY <2>1, <2>2, <2>3
<1> QED  BY <1>2, <1>3, <1>4

(* Types are kept by every step, replies are of the past and a link that is *)
(* down holds no message (wiring.py, useWebSocket.ts, useMarketData.ts).    *)
THEOREM ObserverTypeCorrect == ObserverSpec => [](ObserverTypeOK /\ PastInv)
<1>1. ObserverInit => ObserverTypeOK /\ PastInv
  <2> SUFFICES ASSUME ObserverInit PROVE ObserverTypeOK /\ PastInv
    OBVIOUS
  <2>1. StoreTypeOK
    <3>1. round \in 0..MaxRounds
      BY StoreAssumption DEF ObserverInit, StoreInit
    <3>2. evaluatedAt \in Int
      BY DEF ObserverInit, StoreInit
    <3>3. crashed \in BOOLEAN /\ candidates = {} /\ returned = {}
      BY DEF ObserverInit, StoreInit
    <3> QED  BY <3>1, <3>2, <3>3 DEF StoreTypeOK
  <2>2. /\ <<>> \in Seq(Messages) /\ <<>> \in Seq(QuoteMessages) /\ <<>> \in Seq(MessagesOfBars)
        /\ <<>> \in Seq(Nat) /\ "quotes" \in Tasks /\ "bars" \in Tasks
    BY DEF Tasks
  <2>3. /\ outbox \in [Tasks -> Seq(Messages)] /\ wire \in Seq(Messages)
        /\ outbox["quotes"] \in Seq(QuoteMessages) /\ outbox["bars"] \in Seq(MessagesOfBars)
        /\ bars \in Seq(Nat) /\ wire = <<>> /\ bars = <<>>
    BY <2>2 DEF ObserverInit
  <2>4. /\ fetches \subseteq [n : Nat, reply : Snapshots \cup {None}]
        /\ \A f \in fetches : f.reply = None
    BY DEF ObserverInit, Request
  <2>5. shown \in [quote : Nat, bars : Seq(Nat), candidates : SUBSET CandidateType]
    BY <2>2 DEF ObserverInit
  <2>6. ToSet(bars) = {}
    BY <2>3 DEF ToSet
  <2> QED
    BY <2>1, <2>3, <2>4, <2>5, <2>6 DEF ObserverInit, ObserverTypeOK, PastInv
<1>2. ObserverTypeOK /\ PastInv /\ [ObserverNext]_observerVars => ObserverTypeOK' /\ PastInv'
  BY ObserverTypeStep, PastStep
<1> QED  BY <1>1, <1>2, PTL DEF ObserverSpec

-----------------------------------------------------------------------------
(* Quotes.  A browser is brought up to date by one message or one snapshot; *)
(* what tells of the latest is the last under way.                          *)

NoQuoteUnderWay ==
    outbox["quotes"] = <<>> /\ \A k \in DOMAIN wire : wire[k].type # "quote_update"

\* The last quote message on the wire is the one of n.
LastOnWire(n) ==
    \A k \in DOMAIN wire : wire[k].type = "quote_update" =>
      \E j \in DOMAIN wire : j >= k /\ wire[j] = QuoteMsg(n)

\* The quote has been what it is since n.
QuoteSince(n) ==
    /\ n <= events
    /\ \A f \in fetches : f.reply # None /\ f.reply.n >= n => f.reply.quote = quote
    /\ outbox["quotes"] # <<>> => outbox["quotes"] = <<QuoteMsg(n)>>
    /\ outbox["quotes"] = <<>> => LastOnWire(n)
    /\ ~NoQuoteUnderWay => quote = n
    /\ hook = "market" /\ link = "open" /\ NoQuoteUnderWay => Accounted(n)
    /\ hook = "market" /\ Loaded /\ NoQuoteUnderWay => shown.quote = quote
QuoteInv == \E n \in Nat : QuoteSince(n)

\* An update of the quote, and a restart, begin anew.
LEMMA QuoteChanges ==
  ASSUME ObserverTypeOK, PastInv, Quote \/ Restart
  PROVE  QuoteInv'
<1> PICK m : m = events'
  OBVIOUS
<1>1. /\ m \in Nat /\ events \in Nat /\ events' = events + 1 /\ fetches' = fetches
      /\ \A f \in fetches : f.reply # None => f.reply.n \in Nat /\ f.reply.n <= events
  <2>1. events \in Nat /\ events' = events + 1 /\ fetches' = fetches
    BY DEF Quote, Restart, Update, ObserverTypeOK
  <2>2. \A f \in fetches : f.reply # None => f.reply \in Snapshots
    BY DEF ObserverTypeOK
  <2>3. \A f \in fetches : f.reply # None => f.reply.n \in Nat
    BY <2>2 DEF Snapshots
  <2>4. \A f \in fetches : f.reply # None => f.reply.n <= events
    BY DEF PastInv
  <2> QED
    BY <2>1, <2>3, <2>4
<1>2. \A f \in fetches' : f.reply # None => ~(f.reply.n >= m)
  BY <1>1
<1>3. CASE Quote
  <2>1. outbox' = [outbox EXCEPT !["quotes"] = <<QuoteMsg(m)>>] /\ quote' = m
    BY <1>3 DEF Quote, QuoteMsg
  <2>2. outbox'["quotes"] = <<QuoteMsg(m)>> /\ outbox'["quotes"] # <<>>
    BY <2>1 DEF ObserverTypeOK, Tasks
  <2>3. QuoteSince(m)'
    BY <1>1, <1>2, <2>1, <2>2 DEF QuoteSince, NoQuoteUnderWay
  <2> QED  BY <1>1, <2>3 DEF QuoteInv
<1>4. CASE Restart
  <2>1. /\ outbox'["quotes"] = <<>> /\ wire' = <<>> /\ link' = "down"
    BY <1>4 DEF Restart, Tasks
  <2>2. NoQuoteUnderWay' /\ LastOnWire(m)' /\ ~Loaded'
    BY <2>1 DEF NoQuoteUnderWay, LastOnWire, Loaded
  <2>3. QuoteSince(m)'
    BY <1>1, <1>2, <2>1, <2>2 DEF QuoteSince
  <2> QED  BY <1>1, <2>3 DEF QuoteInv
<1> QED  BY <1>3, <1>4

\* Other steps leave the order of the messages as it is.
LEMMA QuoteMessagesStep ==
  ASSUME ObserverTypeOK, PastInv, [ObserverNext]_observerVars, ~(Quote \/ Restart),
         NEW n \in Nat,
         outbox["quotes"] # <<>> => outbox["quotes"] = <<QuoteMsg(n)>>,
         outbox["quotes"] = <<>> => LastOnWire(n)
  PROVE  /\ outbox'["quotes"] # <<>> => outbox'["quotes"] = <<QuoteMsg(n)>>
         /\ outbox'["quotes"] = <<>> => LastOnWire(n)'
         /\ NoQuoteUnderWay => NoQuoteUnderWay'
         /\ NoQuoteUnderWay' /\ link' = "open" =>
              NoQuoteUnderWay \/ (Deliver /\ Head(wire) = QuoteMsg(n))
<1>1. /\ wire \in Seq(Messages) /\ outbox \in [Tasks -> Seq(Messages)]
      /\ outbox["quotes"] \in Seq(QuoteMessages) /\ outbox["bars"] \in Seq(MessagesOfBars)
      /\ Tasks = {"quotes", "bars"}
  BY DEF ObserverTypeOK, Tasks
<1>2. QuoteMsg(n).type = "quote_update"
  BY DEF QuoteMsg
<1>3. CASE Deliver
  <2>1. outbox' = outbox /\ wire # <<>> /\ wire' = Tail(wire)
    BY <1>3 DEF Deliver
  <2>2. /\ Head(wire) = wire[1] /\ DOMAIN wire = 1..Len(wire) /\ Len(wire) \in Nat \ {0}
        /\ DOMAIN wire' = 1..(Len(wire) - 1)
        /\ \A k \in 1..(Len(wire) - 1) : wire'[k] = wire[k + 1]
    BY <1>1, <2>1, TailType
  <2>3. \A k \in 1..(Len(wire) - 1) : k + 1 \in 1..Len(wire) /\ k \in Int
    BY <2>2
  <2>4. NoQuoteUnderWay => NoQuoteUnderWay'
    BY <2>1, <2>2, <2>3 DEF NoQuoteUnderWay
  <2>5. ASSUME outbox["quotes"] = <<>> PROVE LastOnWire(n)'
    <3> SUFFICES ASSUME NEW k \in DOMAIN wire', wire'[k].type = "quote_update"
                 PROVE  \E j \in DOMAIN wire' : j >= k /\ wire'[j] = QuoteMsg(n)
      BY DEF LastOnWire
    <3>1. k + 1 \in DOMAIN wire /\ wire[k + 1].type = "quote_update"
      BY <2>2, <2>3
    <3>2. PICK j \in DOMAIN wire : j >= k + 1 /\ wire[j] = QuoteMsg(n)
      BY <2>5, <3>1 DEF LastOnWire
    <3>3. j - 1 \in 1..(Len(wire) - 1) /\ j - 1 >= k /\ (j - 1) + 1 = j
      BY <2>2, <3>2
    <3> QED  BY <2>2, <3>2, <3>3
  <2>6. ASSUME NoQuoteUnderWay', ~NoQuoteUnderWay PROVE Head(wire) = QuoteMsg(n)
    <3>1. outbox["quotes"] = <<>>
      BY <2>1, <2>6 DEF NoQuoteUnderWay
    <3>2. PICK k \in DOMAIN wire : wire[k].type = "quote_update"
      BY <2>6, <3>1 DEF NoQuoteUnderWay
    <3>3. PICK j \in DOMAIN wire : wire[j] = QuoteMsg(n)
      BY <3>1, <3>2 DEF LastOnWire
    <3>4. j = 1
      <4> SUFFICES ASSUME j # 1 PROVE FALSE
        OBVIOUS
      <4>1. j - 1 \in 1..(Len(wire) - 1) /\ (j - 1) + 1 = j
        BY <2>2
      <4>2. wire'[j - 1].type = "quote_update"
        BY <1>2, <2>2, <3>3, <4>1
      <4> QED  BY <2>2, <2>6, <4>1, <4>2 DEF NoQuoteUnderWay
    <3> QED  BY <2>2, <3>3, <3>4
  <2> QED  BY <1>3, <2>1, <2>4, <2>5, <2>6
<1>4. CASE Send("quotes")
  <2>1. /\ outbox["quotes"] = <<QuoteMsg(n)>>
        /\ outbox' = [outbox EXCEPT !["quotes"] = Tail(outbox["quotes"])]
        /\ wire' = IF link = "down" THEN wire ELSE Append(wire, Head(outbox["quotes"]))
        /\ link' = link
    BY <1>4 DEF Send
  <2>2. Tail(outbox["quotes"]) = <<>> /\ Head(outbox["quotes"]) = QuoteMsg(n)
    BY <2>1
  <2>3. outbox'["quotes"] = <<>> /\ ~NoQuoteUnderWay
    BY <1>1, <2>1, <2>2 DEF NoQuoteUnderWay
  <2>4. CASE link = "down"
    <3>1. wire' = <<>>
      BY <2>1, <2>4 DEF PastInv
    <3> QED  BY <2>1, <2>3, <2>4, <3>1 DEF LastOnWire
  <2>5. CASE link # "down"
    <3>1. wire' = Append(wire, QuoteMsg(n)) /\ Len(wire) \in Nat
      BY <1>1, <2>1, <2>2, <2>5
    <3>2. DOMAIN wire' = 1..(Len(wire) + 1) /\ wire'[Len(wire) + 1] = QuoteMsg(n)
      BY <1>1, <3>1
    <3>3. Len(wire) + 1 \in DOMAIN wire' /\ \A k \in DOMAIN wire' : Len(wire) + 1 >= k
      BY <3>1, <3>2
    <3>4. LastOnWire(n)' /\ ~NoQuoteUnderWay'
      BY <1>2, <3>2, <3>3 DEF LastOnWire, NoQuoteUnderWay
    <3> QED  BY <2>3, <3>4
  <2> QED  BY <2>4, <2>5
<1>5. CASE Send("bars")
  <2>1. /\ outbox["bars"] # <<>>
        /\ outbox' = [outbox EXCEPT !["bars"] = Tail(outbox["bars"])]
        /\ wire' = wire \/ wire' = Append(wire, Head(outbox["bars"]))
    BY <1>5 DEF Send
  <2>2. outbox'["quotes"] = outbox["quotes"]
    BY <1>1, <2>1
  <2>3. Head(outbox["bars"]) \in MessagesOfBars
    BY <1>1, <2>1, TailType
  <2> DEFINE msg == Head(outbox["bars"])
  <2>4. msg.type # "quote_update"
    BY <2>3, MessageKinds
  <2> HIDE DEF msg
  <2>5. CASE wire' = wire
    BY <2>2, <2>5 DEF NoQuoteUnderWay, LastOnWire
  <2>6. CASE wire' = Append(wire, msg)
    <3>1. /\ DOMAIN wire = 1..Len(wire) /\ Len(wire) \in Nat /\ DOMAIN wire' = 1..(Len(wire) + 1)
          /\ wire'[Len(wire) + 1] = msg
          /\ \A k \in 1..Len(wire) : wire'[k] = wire[k]
      BY <1>1, <2>6
    <3>2. \A k \in DOMAIN wire' : wire'[k].type = "quote_update" => k \in DOMAIN wire
      BY <2>4, <3>1
    <3>3. DOMAIN wire \subseteq DOMAIN wire'
      BY <3>1
    <3>4. LastOnWire(n) => LastOnWire(n)'
      BY <3>1, <3>2, <3>3 DEF LastOnWire
    <3>5. NoQuoteUnderWay <=> NoQuoteUnderWay'
      BY <2>2, <3>1, <3>2, <3>3 DEF NoQuoteUnderWay
    <3> QED  BY <2>2, <3>4, <3>5
  <2> QED  BY <2>1, <2>5, <2>6 DEF msg
<1>6. CASE ~Deliver /\ \A t \in Tasks : ~Send(t)
  <2>1. outbox'["quotes"] = outbox["quotes"] /\ (wire' = wire \/ (wire' = <<>> /\ link' = "down"))
    BY <1>1, <1>6 DEF ObserverNext, Bar, BarRaises, Tick, Accept, Open, Close, Serve, FetchDone,
                FetchFails, Spent, observerVars, linkVars
  <2>2. CASE wire' = wire
    BY <2>1, <2>2 DEF NoQuoteUnderWay, LastOnWire
  <2>3. CASE wire' = <<>> /\ link' = "down"
    BY <2>1, <2>3 DEF NoQuoteUnderWay, LastOnWire
  <2> QED  BY <2>1, <2>2, <2>3
<1> QED  BY <1>1, <1>3, <1>4, <1>5, <1>6

\* A message and a reply do not arrive in one step.
LEMMA DeliverOnly ==
  ASSUME ObserverTypeOK, Deliver, NEW f, FetchDone(f)
  PROVE  FALSE
<1>1. wire # <<>> /\ wire \in Seq(Messages) /\ Tail(wire) = wire
  BY DEF Deliver, FetchDone, linkVars, ObserverTypeOK
<1>2. Len(Tail(wire)) = Len(wire) - 1 /\ Len(wire) \in Nat
  BY <1>1, HeadTailProperties, LenProperties
<1> QED  BY <1>1, <1>2

LEMMA QuoteStep ==
  ASSUME ObserverTypeOK, PastInv, QuoteInv, [ObserverNext]_observerVars
  PROVE  QuoteInv'
<1>1. CASE Quote \/ Restart
  BY <1>1, QuoteChanges
<1>2. CASE ~(Quote \/ Restart)
  <2>1. PICK n \in Nat : QuoteSince(n)
    BY DEF QuoteInv
  <2>2. quote' = quote /\ hook' = hook
    BY <1>2 DEF ObserverNext, Bar, BarRaises, Tick, Send, Accept, Open, Close, Deliver, Serve,
                FetchDone, FetchFails, Spent, observerVars, marketVars, browserVars
  <2>3. n <= events'
    <3>1. events \in Nat /\ events' \in Nat /\ events <= events'
      BY ObserverTypeStep, PastStep DEF ObserverTypeOK
    <3>2. n <= events
      BY <2>1 DEF QuoteSince
    <3> QED  BY <3>1, <3>2
  <2>4. /\ outbox'["quotes"] # <<>> => outbox'["quotes"] = <<QuoteMsg(n)>>
        /\ outbox'["quotes"] = <<>> => LastOnWire(n)'
        /\ NoQuoteUnderWay => NoQuoteUnderWay'
        /\ NoQuoteUnderWay' /\ link' = "open" =>
             NoQuoteUnderWay \/ (Deliver /\ Head(wire) = QuoteMsg(n))
    BY <1>2, <2>1, QuoteMessagesStep DEF QuoteSince
  <2>5. ASSUME NEW f \in fetches', f.reply # None, f.reply.n >= n PROVE f.reply.quote = quote'
    <3>1. CASE f \in fetches
      BY <2>1, <2>2, <2>5, <3>1 DEF QuoteSince
    <3>2. CASE f.reply = Snapshot
      BY <2>2, <3>2 DEF Snapshot
    <3> QED  BY <2>5, <3>1, <3>2, RepliesStep
  <2>6. ~NoQuoteUnderWay' => quote' = n
    BY <2>1, <2>2, <2>4 DEF QuoteSince
  <2>7. ASSUME Deliver, Head(wire) = QuoteMsg(n), hook = "market"
        PROVE  shown'.quote = n /\ known' = Later(known, n) /\ quote = n
    <3>1. Heard(QuoteMsg(n)) /\ wire # <<>> /\ wire \in Seq(Messages)
      BY <2>7 DEF Deliver, ObserverTypeOK
    <3>2. QuoteMsg(n).type = "quote_update" /\ QuoteMsg(n).n = n
      BY DEF QuoteMsg
    <3>3. shown' = [shown EXCEPT !.quote = n] /\ known' = Later(known, n)
      BY <2>7, <3>1, <3>2, HeardIs
    <3>4. 1 \in DOMAIN wire /\ wire[1] = QuoteMsg(n)
      BY <2>7, <3>1, TailType
    <3>5. ~NoQuoteUnderWay
      BY <3>2, <3>4 DEF NoQuoteUnderWay
    <3> QED  BY <2>1, <3>3, <3>5 DEF QuoteSince, ObserverTypeOK
  <2>8. ASSUME hook' = "market", link' = "open", NoQuoteUnderWay' PROVE Accounted(n)'
    <3>1. CASE NoQuoteUnderWay
      <4>1. link = "open" => Accounted(n)
        BY <2>1, <2>2, <2>8, <3>1 DEF QuoteSince
      <4>2. n <= events
        BY <2>1 DEF QuoteSince
      <4> QED  BY <2>8, <4>1, <4>2, StaysAccounted
    <3>2. CASE Deliver /\ Head(wire) = QuoteMsg(n)
      <4>1. known' = Later(known, n) /\ known \in Nat
        BY <2>2, <2>7, <2>8, <3>2 DEF ObserverTypeOK
      <4>2. known' >= n
        BY <4>1 DEF Later
      <4> QED  BY <4>2 DEF Accounted
    <3> QED  BY <2>4, <2>8, <3>1, <3>2
  <2>9. ASSUME hook' = "market", Loaded', NoQuoteUnderWay' PROVE shown'.quote = quote'
    <3>1. ASSUME link = "open", NEW f \in fetches, FetchDone(f), f.reply # None,
                 \A m \in Nat : Accounted(m) => f.reply.n >= m
          PROVE  shown'.quote = quote'
      <4>1. NoQuoteUnderWay
        <5>1. ~Deliver
          BY <3>1, DeliverOnly
        <5> QED  BY <2>4, <2>9, <5>1 DEF Loaded
      <4>2. f.reply.n >= n
        BY <2>1, <2>2, <2>9, <3>1, <4>1 DEF QuoteSince
      <4>3. f.reply.quote = quote
        BY <2>1, <3>1, <4>2 DEF QuoteSince
      <4>4. shown' = [shown EXCEPT !.quote = f.reply.quote, !.bars = f.reply.bars]
        BY <2>2, <2>9, <3>1 DEF FetchDone, Load
      <4> QED  BY <2>2, <4>3, <4>4 DEF ObserverTypeOK
    <3>2. ASSUME Loaded, \A f \in fetches : ~FetchDone(f) PROVE shown'.quote = quote'
      <4>1. CASE Deliver /\ Head(wire) = QuoteMsg(n)
        BY <2>2, <2>7, <2>9, <4>1
      <4>2. CASE NoQuoteUnderWay
        <5>1. shown.quote = quote
          BY <2>1, <2>2, <2>9, <3>2, <4>2 DEF QuoteSince
        <5>2. CASE Deliver
          <6>1. Heard(Head(wire)) /\ wire # <<>> /\ wire \in Seq(Messages)
            BY <5>2 DEF Deliver, ObserverTypeOK
          <6>2. 1 \in DOMAIN wire /\ Head(wire) = wire[1]
            BY <6>1, TailType
          <6>3. Head(wire).type # "quote_update"
            BY <4>2, <6>2 DEF NoQuoteUnderWay
          <6>4. shown'.quote = shown.quote
            BY <6>1, <6>3, HeardIs DEF ObserverTypeOK
          <6> QED  BY <2>2, <5>1, <6>4
        <5>3. CASE ~Deliver
          <6>1. shown' = shown
            BY <1>2, <3>2, <5>3 DEF ObserverNext, Bar, BarRaises, Tick, Send, Accept, Open, Close,
               Serve, FetchFails, Spent, observerVars, browserVars
          <6> QED  BY <2>2, <5>1, <6>1
        <5> QED  BY <5>2, <5>3
      <4> QED  BY <2>4, <2>9, <4>1, <4>2 DEF Loaded
    <3> QED  BY <2>9, <3>1, <3>2, LoadedStep
  <2>10. QuoteSince(n)'
    BY <2>3, <2>4, <2>5, <2>6, <2>8, <2>9 DEF QuoteSince
  <2> QED  BY <2>10 DEF QuoteInv
<1> QED  BY <1>1, <1>2

LEMMA HookStays ==
  ASSUME [ObserverNext]_observerVars
  PROVE  hook' = hook
BY DEF ObserverNext, Quote, Bar, BarRaises, Restart, Tick, Send, Accept, Open, Close, Deliver,
       Serve, FetchDone, FetchFails, Spent, observerVars, browserVars

\* At rest the browser has had the last word.
LEMMA RestIsLoaded ==
  ASSUME UpToDate
  PROVE  Loaded /\ NoQuoteUnderWay /\ \A t \in Tasks : \A msg : ~UnderWay(t, msg)
BY DEF UpToDate, AtRest, Loaded, Fetching, NoQuoteUnderWay, UnderWay, OnWire, Waiting, Tasks

(* The browser ends with the server's quote, whatever was lost or delayed   *)
(* while the link was down, for any number of quotes and reconnections.     *)
THEOREM QuoteCurrentHolds == ObserverSpec => []QuoteCurrent
<1>1. ObserverInit => QuoteInv
  <2> SUFFICES ASSUME ObserverInit PROVE QuoteSince(0)
    BY DEF QuoteInv
  <2>1. NoQuoteUnderWay /\ LastOnWire(0) /\ outbox["quotes"] = <<>>
    BY DEF ObserverInit, NoQuoteUnderWay, LastOnWire, Tasks
  <2>2. \A f \in fetches : f.reply = None
    BY DEF ObserverInit, Request
  <2> QED  BY <2>1, <2>2 DEF ObserverInit, QuoteSince, Loaded
<1>2. QuoteInv => QuoteCurrent
  BY RestIsLoaded DEF QuoteInv, QuoteSince, QuoteCurrent
<1> QED  BY <1>1, <1>2, ObserverTypeCorrect, QuoteStep, PTL DEF ObserverSpec

-----------------------------------------------------------------------------
(* Bars.  An announced bar of the server's window reaches the browser by    *)
(* its message or by every snapshot made since.  Messages are under way in  *)
(* the bars' order, and an older one is never sent without the later ones   *)
(* behind it: whatever comes in once a bar has, is newer.                   *)

IsBar(msg) == msg.type = "bar_update"
Rising(s) == \A j, k \in 1..Len(s) : j < k => s[j] < s[k]

\* Bars are on the wire in their order, and one that waits is later than all of them.
OrderInv ==
    /\ Rising(bars)
    /\ \A j \in DOMAIN wire : IsBar(wire[j]) => wire[j].n <= events
    /\ \A j, k \in DOMAIN wire : j < k /\ IsBar(wire[j]) /\ IsBar(wire[k]) => wire[j].n < wire[k].n
    /\ \A k \in DOMAIN outbox["bars"] : IsBar(outbox["bars"][k]) =>
         /\ k = 1 /\ outbox["bars"][k].n <= events
         /\ \A j \in DOMAIN wire : IsBar(wire[j]) => wire[j].n < outbox["bars"][k].n

BarKept(n) ==
    /\ n <= events
    /\ \A k \in DOMAIN outbox["bars"] : IsBar(outbox["bars"][k]) => n <= outbox["bars"][k].n
    /\ \A j \in DOMAIN wire : IsBar(wire[j]) /\ wire[j].n < n => UnderWay("bars", BarMsg(n))
    /\ \A f \in fetches : f.reply # None /\ f.reply.n >= n => Settled(f.reply.bars, n)
    /\ hook = "market" /\ link = "open" /\ ~UnderWay("bars", BarMsg(n)) => Accounted(n)
    /\ hook = "market" /\ Loaded /\ ~UnderWay("bars", BarMsg(n)) => Settled(shown.bars, n)
BarsInv == OrderInv /\ \A n \in ToSet(Announced) : BarKept(n)

\* A bar in a window of bars in their order is at its place.
LEMMA RisingSettles ==
  ASSUME NEW s \in Seq(Nat), Rising(s), NEW n \in ToSet(s)
  PROVE  Settled(s, n)
<1>1. PICK i \in 1..Len(s) : s[i] = n
  BY DEF ToSet
<1>2. Len(s) \in Nat /\ i \in 0..Len(s) /\ i # 0
  OBVIOUS
<1>3. \A j \in (i + 1)..Len(s) : s[j] > n
  <2> SUFFICES ASSUME NEW j \in (i + 1)..Len(s) PROVE s[j] > n
    OBVIOUS
  <2>1. j \in 1..Len(s) /\ i < j /\ s[i] \in Nat /\ s[j] \in Nat
    BY <1>2
  <2>2. s[i] < s[j]
    BY <2>1 DEF Rising
  <2> QED  BY <1>1, <2>1, <2>2
<1> QED  BY <1>1, <1>2, <1>3 DEF Settled

(* A bar that comes in is at its place; an older one stays at its, or was   *)
(* pushed out of a full window.  Bars that come in their order stay in it.  *)
LEMMA WindowSettles ==
  ASSUME NEW s \in Seq(Nat), NEW x \in Nat
  PROVE  LET w == Window(Append(s, x)) IN
         /\ Settled(w, x)
         /\ \A n \in Nat : n < x /\ Settled(s, n) => Settled(w, n)
         /\ Rising(s) /\ (\A n \in ToSet(s) : n < x) => Rising(w)
         /\ ToSet(Front(w)) \subseteq ToSet(s)
<1> DEFINE g == Append(s, x)
           w == Window(g)
           l == Len(s)
<1>1. /\ l \in Nat /\ g \in Seq(Nat) /\ Len(g) = l + 1 /\ g[l + 1] = x
      /\ \A k \in 1..l : g[k] = s[k] /\ s[k] \in Nat
      /\ DOMAIN s = 1..l /\ DOMAIN g = 1..(l + 1)
  OBVIOUS
<1>2. WindowSize \in Nat /\ WindowSize >= 1
  BY ObserverAssumption
<1> HIDE DEF g, l
<1>3. PICK d \in {0, 1} :
        /\ w \in Seq(Nat) /\ Len(w) = l + 1 - d /\ DOMAIN w = 1..Len(w)
        /\ \A k \in 1..Len(w) : w[k] = g[k + d]
        /\ d = 1 => l >= WindowSize
        /\ d = 0 => l < WindowSize
  <2>1. CASE Len(g) > WindowSize
    <3>1. w = Tail(g) /\ g # <<>>
      BY <1>1, <1>2, <2>1 DEF Window
    <3>2. /\ w \in Seq(Nat) /\ Len(w) = l /\ DOMAIN w = 1..l
          /\ \A k \in 1..l : w[k] = g[k + 1]
      BY <1>1, <3>1
    <3>3. l >= WindowSize /\ l + 1 - 1 = l
      BY <1>1, <1>2, <2>1
    <3> QED  BY <3>2, <3>3
  <2>2. CASE ~(Len(g) > WindowSize)
    <3>1. w = g /\ l < WindowSize /\ l + 1 - 0 = l + 1
      BY <1>1, <1>2, <2>2 DEF Window
    <3>2. \A k \in 1..(l + 1) : k + 0 = k
      BY <1>1
    <3> QED  BY <1>1, <3>1, <3>2
  <2> QED  BY <2>1, <2>2
<1> HIDE DEF w
<1>4. Len(w) \in Nat /\ Len(w) >= 1 /\ w[Len(w)] = x
  <2>1. Len(w) \in Nat /\ Len(w) >= 1 /\ Len(w) + d = l + 1
    BY <1>1, <1>2, <1>3
  <2> QED  BY <1>1, <1>3, <2>1
<1>5. \A k \in 1..(Len(w) - 1) : k + d \in 1..l /\ w[k] = s[k + d]
  BY <1>1, <1>3
<1>6. Settled(w, x)
  <2>1. Len(w) \in 0..Len(w) /\ Len(w) # 0 /\ (Len(w) + 1)..Len(w) = {}
    BY <1>4
  <2> QED  BY <1>4, <2>1 DEF Settled
<1>7. ASSUME NEW n \in Nat, n < x, Settled(s, n) PROVE Settled(w, n)
  <2>1. PICK i \in 0..l : /\ IF i = 0 THEN l >= WindowSize ELSE s[i] = n
                          /\ \A j \in (i + 1)..l : s[j] > n
    BY <1>7 DEF Settled, l
  <2>2. i = 0 => d = 1
    BY <1>1, <1>2, <1>3, <2>1
  <2> DEFINE k == IF i = 0 THEN 0 ELSE i - d
  <2>b. Len(w) = l + 1 - d /\ d \in {0, 1} /\ l \in Nat
    BY <1>1, <1>3
  <2>3. k \in 0..Len(w)
    BY <2>1, <2>b
  <2>4. k = 0 => Len(w) >= WindowSize
    BY <1>2, <1>3, <2>1, <2>2, <2>b
  <2>5. k # 0 => w[k] = n
    <3> SUFFICES ASSUME k # 0 PROVE w[k] = n
      OBVIOUS
    <3>1. i \in 1..l /\ k \in 1..(Len(w) - 1) /\ k + d = i
      BY <1>1, <1>3, <2>1
    <3> QED  BY <1>5, <2>1, <3>1
  <2>a. k + d >= i
    BY <1>3, <2>1, <2>2
  <2>6. ASSUME NEW j \in (k + 1)..Len(w) PROVE w[j] > n
    <3>1. CASE j = Len(w)
      BY <1>4, <1>7, <3>1
    <3>2. CASE j # Len(w)
      <4> HIDE DEF k
      <4>1. j \in 1..(Len(w) - 1) /\ j + d \in (i + 1)..l
        BY <1>1, <1>3, <1>4, <2>1, <2>3, <2>6, <2>a, <3>2
      <4> QED  BY <1>5, <2>1, <4>1
    <3> QED  BY <3>1, <3>2
  <2> HIDE DEF k
  <2> QED  BY <2>3, <2>4, <2>5, <2>6 DEF Settled
<1>8. ASSUME Rising(s), \A n \in ToSet(s) : n < x PROVE Rising(w)
  <2> SUFFICES ASSUME NEW j \in 1..Len(w), NEW k \in 1..Len(w), j < k PROVE w[j] < w[k]
    BY DEF Rising
  <2>1. j \in 1..(Len(w) - 1) /\ j + d \in 1..l /\ w[j] = s[j + d]
    BY <1>4, <1>5
  <2>2. CASE k = Len(w)
    <3>1. s[j + d] \in ToSet(s)
      BY <1>1, <2>1 DEF ToSet
    <3> QED  BY <1>4, <1>8, <2>1, <2>2, <3>1
  <2>3. CASE k # Len(w)
    <3>a. k \in 1..(Len(w) - 1)
      BY <1>4, <2>3
    <3>b. k + d \in 1..l /\ w[k] = s[k + d]
      BY <1>5, <3>a
    <3>c. d \in Nat /\ j \in Nat /\ k \in Nat
      OBVIOUS
    <3>1. j + d < k + d
      BY <3>c
    <3>2. \A a, b \in 1..l : a < b => s[a] < s[b]
      BY <1>8 DEF Rising, l
    <3> QED  BY <2>1, <3>b, <3>1, <3>2
  <2> QED  BY <2>2, <2>3
<1>9. ToSet(Front(w)) \subseteq ToSet(s)
  <2>1. Front(w) = SubSeq(w, 1, Len(w) - 1)
    BY DEF Front
  <2>2. DOMAIN Front(w) = 1..(Len(w) - 1) /\ \A k \in 1..(Len(w) - 1) : Front(w)[k] = w[k]
    BY <1>3, <1>4, <2>1
  <2> SUFFICES ASSUME NEW k \in 1..(Len(w) - 1) PROVE w[k] \in ToSet(s)
    BY <2>2 DEF ToSet
  <2>3. w[k] = s[k + d] /\ k + d \in DOMAIN s
    BY <1>1, <1>5
  <2> QED  BY <2>3 DEF ToSet
<1> QED  BY <1>6, <1>7, <1>8, <1>9 DEF w, g

\* A message that was under way and is not any more has come in.
LEMMA CameIn ==
  ASSUME ObserverTypeOK, PastInv, [ObserverNext]_observerVars, NEW msg,
         UnderWay("bars", msg), ~UnderWay("bars", msg)', link' = "open"
  PROVE  Deliver /\ Head(wire) = msg /\ Heard(msg)
<1>1. "bars" \in Tasks
  BY DEF Tasks
<1>2. Deliver /\ Head(wire) = msg
  BY <1>1, NothingLost
<1> QED  BY <1>2 DEF Deliver

\* What a step does to the messages of the bars' task.
LEMMA MessagesStep ==
  ASSUME ObserverTypeOK, PastInv, [ObserverNext]_observerVars
  PROVE  \/ wire' = wire /\ outbox'["bars"] = outbox["bars"]
         \/ wire' = <<>> /\ outbox'["bars"] \in {outbox["bars"], <<>>}
         \/ Deliver /\ wire # <<>> /\ wire' = Tail(wire) /\ outbox'["bars"] = outbox["bars"]
         \/ /\ \E msg \in QuoteMessages : wire' = Append(wire, msg)
            /\ outbox'["bars"] = outbox["bars"]
         \/ /\ outbox["bars"] # <<>> /\ outbox'["bars"] = Tail(outbox["bars"])
            /\ wire' = Append(wire, Head(outbox["bars"])) \/ wire' = <<>>
         \/ wire' = wire /\ Bar /\ outbox["bars"] = <<>> /\ outbox'["bars"] = BarMessages
<1>1. outbox \in [Tasks -> Seq(Messages)] /\ "bars" \in Tasks /\ "quotes" \in Tasks
  BY DEF ObserverTypeOK, Tasks
<1>2. ASSUME Send("quotes")
      PROVE  /\ outbox'["bars"] = outbox["bars"]
             /\ wire' = wire \/ \E msg \in QuoteMessages : wire' = Append(wire, msg)
  <2>1. Head(outbox["quotes"]) \in QuoteMessages
    BY <1>1, <1>2, OutboxTypes DEF Send
  <2> QED  BY <1>1, <1>2, <2>1 DEF Send
<1>3. ASSUME Send("bars")
      PROVE  /\ outbox["bars"] # <<>> /\ outbox'["bars"] = Tail(outbox["bars"])
             /\ wire' = Append(wire, Head(outbox["bars"])) \/ wire' = <<>>
  BY <1>1, <1>3 DEF Send, PastInv
<1>4. ASSUME Quote PROVE wire' = wire /\ outbox'["bars"] = outbox["bars"]
  BY <1>1, <1>4 DEF Quote, linkVars
<1>5. ASSUME Bar PROVE wire' = wire /\ outbox["bars"] = <<>> /\ outbox'["bars"] = BarMessages
  BY <1>1, <1>5 DEF Bar, linkVars
<1>6. ASSUME Restart PROVE wire' = <<>> /\ outbox'["bars"] = <<>>
  BY <1>1, <1>6 DEF Restart
<1>7. ASSUME ~(Quote \/ Bar \/ Restart), \A t \in Tasks : ~Send(t)
      PROVE  /\ outbox' = outbox
             /\ wire' = wire \/ wire' = <<>> \/ (Deliver /\ wire # <<>> /\ wire' = Tail(wire))
  BY <1>7 DEF ObserverNext, BarRaises, Tick, Accept, Open, Close, Deliver, Serve, FetchDone,
              FetchFails, Spent, observerVars, linkVars
<1> QED  BY <1>2, <1>3, <1>4, <1>5, <1>6, <1>7 DEF Tasks

\* The messages of a round are its bar's and then its candidates'.
LEMMA BarFirst ==
  ASSUME events' \in Nat, returned' \subseteq CandidateType, NEW k \in DOMAIN BarMessages,
         IsBar(BarMessages[k])
  PROVE  k = 1 /\ BarMessages[k].n = events'
<1>1. CASE returned' = {}
  <2>1. BarMessages = <<[type |-> "bar_update", n |-> events']>>
    BY <1>1 DEF BarMessages
  <2> QED  BY <2>1
<1>2. CASE returned' # {}
  <2> DEFINE bm == [type |-> "bar_update", n |-> events']
             cm == [type |-> "candidates_update", n |-> events', data |-> returned']
  <2>1. BarMessages = <<bm>> \o <<cm>>
    BY <1>2 DEF BarMessages
  <2>2. bm.n = events' /\ ~IsBar(cm)
    BY DEF IsBar
  <2> HIDE DEF bm, cm
  <2> DEFINE S == {bm, cm}
  <2>3. <<bm>> \in Seq(S) /\ <<cm>> \in Seq(S) /\ Len(<<bm>>) = 1 /\ Len(<<cm>>) = 1
    OBVIOUS
  <2>4. /\ <<bm>> \o <<cm>> \in Seq(S) /\ Len(<<bm>> \o <<cm>>) = 1 + 1
        /\ \A i \in 1..(1 + 1) :
             (<<bm>> \o <<cm>>)[i] = IF i <= 1 THEN <<bm>>[i] ELSE <<cm>>[i - 1]
    BY <2>3, ConcatProperties
  <2>5. DOMAIN BarMessages = 1..2 /\ BarMessages[1] = bm /\ BarMessages[2] = cm
    BY <2>1, <2>4
  <2> QED  BY <2>2, <2>5
<1> QED  BY <1>1, <1>2

LEMMA OrderStep ==
  ASSUME ObserverTypeOK, PastInv, OrderInv, [ObserverNext]_observerVars
  PROVE  OrderInv'
<1>1. /\ wire \in Seq(Messages) /\ DOMAIN wire = 1..Len(wire) /\ Len(wire) \in Nat
      /\ outbox["bars"] \in Seq(MessagesOfBars) /\ events \in Nat
      /\ \A j \in DOMAIN wire : wire[j] \in Messages /\ wire[j].n \in Nat
      /\ \A k \in DOMAIN outbox["bars"] : outbox["bars"][k].n \in Nat
  BY MessageKinds DEF ObserverTypeOK, Messages
<1>2. events' \in Nat /\ events <= events' /\ bars \in Seq(Nat) /\ ObserverTypeOK'
  BY ObserverTypeStep, PastStep DEF ObserverTypeOK
<1>3. Rising(bars)'
  <2>1. CASE Bar \/ BarRaises
    <3>1. bars' = Window(Append(bars, events')) /\ events' = events + 1
      BY <2>1 DEF Bar, BarRaises, Update
    <3>2. \A n \in ToSet(bars) : n \in Nat /\ n <= events
      BY <1>2 DEF PastInv, ToSet
    <3>3. \A n \in ToSet(bars) : n < events'
      BY <1>1, <3>1, <3>2
    <3> QED  BY <1>2, <3>1, <3>3, WindowSettles DEF OrderInv, Rising
  <2>2. CASE Restart
    BY <2>2 DEF Restart, Rising
  <2>3. CASE ~(Bar \/ BarRaises \/ Restart)
    <3>1. bars' = bars
      BY <2>3 DEF ObserverNext, Quote, Tick, Send, Accept, Open, Close, Deliver, Serve, FetchDone,
                  FetchFails, Spent, observerVars, marketVars
    <3> QED  BY <3>1 DEF OrderInv, Rising
  <2> QED  BY <2>1, <2>2, <2>3
<1> DEFINE Waits(box, w) ==
             \A k \in DOMAIN box : IsBar(box[k]) =>
               /\ k = 1 /\ box[k].n <= events'
               /\ \A j \in DOMAIN w : IsBar(w[j]) => w[j].n < box[k].n
           Ascends(w) ==
             /\ \A j \in DOMAIN w : IsBar(w[j]) => w[j].n <= events'
             /\ \A j, k \in DOMAIN w : j < k /\ IsBar(w[j]) /\ IsBar(w[k]) => w[j].n < w[k].n
<1>4. Waits(outbox["bars"], wire) /\ Ascends(wire)
  BY <1>1, <1>2 DEF OrderInv
<1>5. Waits(outbox["bars"], <<>>) /\ Waits(<<>>, wire) /\ Waits(<<>>, <<>>) /\ Ascends(<<>>)
  BY <1>4
<1>6. ASSUME wire # <<>> PROVE Waits(outbox["bars"], Tail(wire)) /\ Ascends(Tail(wire))
  <2>1. /\ DOMAIN Tail(wire) = 1..(Len(wire) - 1)
        /\ \A j \in 1..(Len(wire) - 1) : Tail(wire)[j] = wire[j + 1] /\ j + 1 \in DOMAIN wire
    BY <1>1, <1>6, TailType
  <2>2. \A j, k \in DOMAIN Tail(wire) : j < k => j + 1 < k + 1
    BY <1>1, <2>1
  <2> HIDE DEF IsBar
  <2> QED  BY <1>4, <2>1, <2>2
<1>7. ASSUME NEW msg \in QuoteMessages
      PROVE  Waits(outbox["bars"], Append(wire, msg)) /\ Ascends(Append(wire, msg))
  <2>1. /\ DOMAIN Append(wire, msg) = 1..(Len(wire) + 1) /\ Append(wire, msg)[Len(wire) + 1] = msg
        /\ \A j \in 1..Len(wire) : Append(wire, msg)[j] = wire[j]
    BY <1>1, MessageKinds
  <2>2. ~IsBar(msg)
    BY MessageKinds DEF IsBar
  <2>3. \A j \in 1..(Len(wire) + 1) : j # Len(wire) + 1 => j \in DOMAIN wire
    BY <1>1
  <2> HIDE DEF IsBar
  <2> QED  BY <1>4, <2>1, <2>2, <2>3
<1>8. ASSUME outbox["bars"] # <<>>
      PROVE  LET w == Append(wire, Head(outbox["bars"])) IN
             /\ Waits(Tail(outbox["bars"]), w) /\ Waits(Tail(outbox["bars"]), <<>>)
             /\ Ascends(w)
  <2> DEFINE msg == Head(outbox["bars"])
             w == Append(wire, msg)
             box == Tail(outbox["bars"])
  <2>1. /\ msg = outbox["bars"][1] /\ 1 \in DOMAIN outbox["bars"] /\ msg \in Messages
        /\ DOMAIN box = 1..(Len(outbox["bars"]) - 1)
        /\ \A k \in DOMAIN box : /\ box[k] = outbox["bars"][k + 1]
                                /\ k + 1 \in DOMAIN outbox["bars"] /\ k + 1 # 1
    BY <1>1, <1>8, TailType, MessageKinds
  <2>2. /\ DOMAIN w = 1..(Len(wire) + 1) /\ w[Len(wire) + 1] = msg
        /\ \A j \in 1..Len(wire) : w[j] = wire[j]
    BY <1>1, <2>1
  <2> HIDE DEF IsBar, msg, w, box
  <2>3. \A k \in DOMAIN box : ~IsBar(box[k])
    BY <1>4, <2>1
  <2>4. /\ \A j \in 1..(Len(wire) + 1) : j # Len(wire) + 1 => j \in DOMAIN wire
        /\ \A j, k \in 1..(Len(wire) + 1) : j < k => j # Len(wire) + 1
    BY <1>1
  <2>5. IsBar(msg) => /\ msg.n <= events'
                      /\ \A j \in DOMAIN wire : IsBar(wire[j]) => wire[j].n < msg.n
    BY <1>4, <2>1
  <2>6. Ascends(w)
    BY <1>4, <2>2, <2>4, <2>5
  <2> QED  BY <2>3, <2>6 DEF box, w, msg
<1>9. ASSUME Bar, outbox'["bars"] = BarMessages PROVE Waits(outbox'["bars"], wire)
  <2>1. events' = events + 1 /\ returned' \subseteq CandidateType
    BY <1>2, <1>9 DEF Bar, Update, ObserverTypeOK, StoreTypeOK
  <2>2. \A k \in DOMAIN BarMessages : IsBar(BarMessages[k]) => k = 1 /\ BarMessages[k].n = events'
    BY <1>2, <2>1, BarFirst
  <2>3. \A j \in DOMAIN wire : IsBar(wire[j]) => wire[j].n < events'
    BY <1>1, <2>1 DEF OrderInv
  <2> QED  BY <1>2, <1>9, <2>2, <2>3
<1>10. Waits(outbox'["bars"], wire') /\ Ascends(wire')
  <2> HIDE DEF Waits, Ascends
  <2> QED  BY <1>4, <1>5, <1>6, <1>7, <1>8, <1>9, MessagesStep
<1> QED  BY <1>3, <1>10 DEF OrderInv

LEMMA BarKeptStep ==
  ASSUME ObserverTypeOK, PastInv, OrderInv, [ObserverNext]_observerVars,
         NEW n \in Nat, BarKept(n), n \in ToSet(bars)
  PROVE  BarKept(n)'
<1> DEFINE msg == BarMsg(n)
<1>1. msg.type = "bar_update" /\ msg.n = n
  BY DEF BarMsg
<1>a. \A m \in Messages : IsBar(m) => m.n \in Nat /\ (m.n = n => m = msg)
  BY DEF IsBar, Messages, QuoteMessages, MessagesOfBars, QuoteMsg, BarMsg
<1> HIDE DEF msg
<1>2. n <= events /\ n <= events'
  <2>1. events \in Nat /\ events' \in Nat /\ events <= events' /\ n <= events
    BY ObserverTypeStep, PastStep DEF ObserverTypeOK, BarKept
  <2> QED  BY <2>1
<1>3. hook' = hook
  BY HookStays
<1>b. /\ wire \in Seq(Messages) /\ DOMAIN wire = 1..Len(wire) /\ Len(wire) \in Nat
      /\ outbox["bars"] \in Seq(MessagesOfBars)
  BY DEF ObserverTypeOK
\* What waits is no older.
<1>c. ASSUME NEW k \in DOMAIN outbox'["bars"], IsBar(outbox'["bars"][k])
      PROVE  n <= outbox'["bars"][k].n
  <2>1. CASE outbox'["bars"] = outbox["bars"]
    BY <1>c, <2>1 DEF BarKept
  <2>2. CASE outbox'["bars"] = <<>>
    BY <1>c, <2>2
  <2>3. CASE outbox["bars"] # <<>> /\ outbox'["bars"] = Tail(outbox["bars"])
    <3>1. k + 1 \in DOMAIN outbox["bars"] /\ outbox'["bars"][k] = outbox["bars"][k + 1]
      BY <1>b, <1>c, <2>3, TailType
    <3> QED  BY <1>c, <3>1 DEF BarKept
  <2>4. CASE Bar /\ outbox'["bars"] = BarMessages
    <3>1. events' \in Nat /\ returned' \subseteq CandidateType
      BY ObserverTypeStep DEF ObserverTypeOK, StoreTypeOK
    <3>2. outbox'["bars"][k].n = events'
      BY <1>c, <2>4, <3>1, BarFirst
    <3> QED  BY <1>2, <3>2
  <2> QED  BY <2>1, <2>2, <2>3, <2>4, MessagesStep
\* Of what is under way nothing is older, unless the bar itself is.
<1>d. ASSUME NEW k \in DOMAIN wire, IsBar(wire[k]), ~UnderWay("bars", msg) PROVE wire[k].n > n
  <2>1. wire[k] \in Messages /\ wire[k].n \in Nat /\ (wire[k].n = n => wire[k] = msg)
    BY <1>a, <1>b, <1>d
  <2>2. wire[k] # msg
    BY <1>d DEF UnderWay, OnWire
  <2>3. ~(wire[k].n < n)
    BY <1>d DEF BarKept, msg
  <2> QED  BY <2>1, <2>2, <2>3
<1>e. ASSUME NEW j \in DOMAIN wire', IsBar(wire'[j]), wire'[j].n < n
      PROVE  UnderWay("bars", msg)'
  <2>1. link' # "down"
    BY <1>e, PastStep DEF PastInv
  <2>2. ASSUME NEW i \in DOMAIN wire, wire'[j] = wire[i], Deliver => i # 1
        PROVE  UnderWay("bars", msg)'
    <3>1. UnderWay("bars", msg)
      BY <1>e, <2>2 DEF BarKept, msg
    <3>2. CASE Deliver /\ Head(wire) = msg
      <4>1. wire[1] = msg /\ 1 \in DOMAIN wire /\ 1 < i /\ IsBar(wire[1]) /\ wire[i] \in Messages
        BY <1>1, <1>b, <2>2, <3>2, TailType DEF Deliver, IsBar
      <4>2. n < wire[i].n
        BY <1>1, <1>e, <2>2, <4>1 DEF OrderInv
      <4>3. wire[i].n \in Nat
        BY <1>a, <1>e, <2>2, <4>1
      <4> QED  BY <1>e, <2>2, <4>2, <4>3
    <3> QED  BY <2>1, <3>1, <3>2, NothingLost DEF Tasks
  <2>3. CASE Deliver
    <3>1. wire # <<>> /\ wire' = Tail(wire)
      BY <2>3 DEF Deliver
    <3>2. j + 1 \in DOMAIN wire /\ wire'[j] = wire[j + 1] /\ j + 1 # 1
      BY <1>b, <1>e, <3>1, TailType
    <3> QED  BY <2>2, <3>2
  <2>4. ASSUME ~Deliver, j \in DOMAIN wire, wire'[j] = wire[j] PROVE UnderWay("bars", msg)'
    BY <2>2, <2>4
  <2>5. CASE wire' = wire
    BY <1>e, <2>3, <2>4, <2>5
  <2>6. CASE wire' = <<>>
    BY <1>e, <2>6
  <2>7. ASSUME NEW new \in Messages, wire' = Append(wire, new), IsBar(new) => n <= new.n, ~Deliver
        PROVE  UnderWay("bars", msg)'
    <3>1. /\ DOMAIN wire' = 1..(Len(wire) + 1) /\ wire'[Len(wire) + 1] = new
          /\ \A i \in 1..Len(wire) : wire'[i] = wire[i]
      BY <1>b, <2>7
    <3>2. j # Len(wire) + 1
      <4>1. IsBar(new) => new.n \in Nat
        BY <1>a, <2>7
      <4> QED  BY <1>e, <2>7, <3>1, <4>1
    <3>3. j \in DOMAIN wire
      BY <1>b, <1>e, <3>1, <3>2
    <3> QED  BY <1>b, <2>4, <2>7, <3>1, <3>3
  <2>8. \A new \in QuoteMessages : ~IsBar(new) /\ new \in Messages
    BY MessageKinds DEF IsBar
  <2>9. ASSUME outbox["bars"] # <<>>
        PROVE  /\ Head(outbox["bars"]) \in Messages
               /\ IsBar(Head(outbox["bars"])) => n <= Head(outbox["bars"]).n
    <3>1. /\ Head(outbox["bars"]) = outbox["bars"][1] /\ 1 \in DOMAIN outbox["bars"]
          /\ Head(outbox["bars"]) \in MessagesOfBars
      BY <1>b, <2>9, TailType
    <3> QED  BY <3>1, MessageKinds DEF BarKept
  <2> QED  BY <2>3, <2>5, <2>6, <2>7, <2>8, <2>9, MessagesStep
<1>4. ASSUME NEW f \in fetches', f.reply # None, f.reply.n >= n PROVE Settled(f.reply.bars, n)
  <2>1. CASE f \in fetches
    BY <1>4, <2>1 DEF BarKept
  <2>2. CASE f.reply = Snapshot
    <3>1. f.reply.bars = bars /\ bars \in Seq(Nat)
      BY <2>2 DEF Snapshot, ObserverTypeOK
    <3> QED  BY <3>1, RisingSettles DEF OrderInv
  <2> QED  BY <1>4, <2>1, <2>2, RepliesStep
<1>5. ASSUME hook' = "market", link' = "open", UnderWay("bars", msg), ~UnderWay("bars", msg)'
      PROVE  known' >= n /\ Settled(shown'.bars, n)
  <2>1. Heard(msg)
    BY <1>5, CameIn
  <2>2. known' = Later(known, n) /\ shown' = [shown EXCEPT !.bars = Window(Append(shown.bars, n))]
    BY <1>1, <1>3, <1>5, <2>1, HeardIs
  <2>3. known \in Nat /\ shown.bars \in Seq(Nat) /\ shown'.bars = Window(Append(shown.bars, n))
    BY <2>2 DEF ObserverTypeOK
  <2>4. known' >= n
    BY <2>2, <2>3 DEF Later
  <2> QED  BY <2>3, <2>4, WindowSettles
<1>6. ASSUME hook' = "market", link' = "open", ~UnderWay("bars", msg)' PROVE Accounted(n)'
  <2>1. CASE UnderWay("bars", msg)
    BY <1>5, <1>6, <2>1 DEF Accounted
  <2>2. CASE ~UnderWay("bars", msg)
    <3>1. link = "open" => Accounted(n)
      BY <1>3, <1>6, <2>2 DEF BarKept, msg
    <3> QED  BY <1>2, <1>6, <3>1, StaysAccounted
  <2> QED  BY <2>1, <2>2
<1>7. ASSUME hook' = "market", Loaded', ~UnderWay("bars", msg)' PROVE Settled(shown'.bars, n)
  <2>1. link' = "open"
    BY <1>7 DEF Loaded
  <2>2. ASSUME link = "open", ~UnderWay("bars", msg), NEW f \in fetches, FetchDone(f),
               f.reply # None, \A m \in Nat : Accounted(m) => f.reply.n >= m
        PROVE  Settled(shown'.bars, n)
    <3>1. f.reply.n >= n
      BY <1>3, <1>7, <2>2 DEF BarKept, msg
    <3>2. Settled(f.reply.bars, n)
      BY <2>2, <3>1 DEF BarKept
    <3>3. shown' = [shown EXCEPT !.quote = f.reply.quote, !.bars = f.reply.bars]
      BY <1>3, <1>7, <2>2 DEF FetchDone, Load
    <3>4. shown'.bars = f.reply.bars
      BY <3>3 DEF ObserverTypeOK
    <3> QED  BY <3>2, <3>4
  <2>3. ASSUME Loaded, ~UnderWay("bars", msg), \A f \in fetches : ~FetchDone(f)
        PROVE  Settled(shown'.bars, n)
    <3>1. Settled(shown.bars, n)
      BY <1>3, <1>7, <2>3 DEF BarKept, msg
    <3>2. CASE Deliver
      <4>1. Heard(Head(wire)) /\ Head(wire) \in Messages /\ Head(wire) = wire[1] /\ 1 \in DOMAIN wire
        BY <3>2, TailType DEF Deliver, ObserverTypeOK
      <4>2. Head(wire).n \in Nat /\ shown.bars \in Seq(Nat)
        BY <4>1, MessageKinds DEF Messages, ObserverTypeOK
      <4>3. CASE /\ Head(wire).type = "bar_update"
                 /\ shown' = [shown EXCEPT !.bars = Window(Append(shown.bars, Head(wire).n))]
        <5>1. shown'.bars = Window(Append(shown.bars, Head(wire).n))
          BY <4>3 DEF ObserverTypeOK
        <5>2. n < Head(wire).n
          BY <1>d, <2>3, <4>1, <4>2, <4>3 DEF IsBar
        <5> QED  BY <3>1, <4>2, <5>1, <5>2, WindowSettles
      <4>4. CASE shown'.bars = shown.bars
        BY <3>1, <4>4
      <4> QED  BY <4>1, <4>3, <4>4, HeardIs DEF ObserverTypeOK
    <3>3. CASE ~Deliver
      <4>1. shown' = shown
        BY <2>3, <3>3 DEF ObserverNext, Quote, Bar, BarRaises, Restart, Tick, Send, Accept, Open,
           Close, Serve, FetchFails, Spent, observerVars, browserVars
      <4> QED  BY <3>1, <4>1
    <3> QED  BY <3>2, <3>3
  <2>4. CASE UnderWay("bars", msg)
    BY <1>5, <1>7, <2>1, <2>4
  <2>5. CASE ~UnderWay("bars", msg)
    BY <1>7, <2>2, <2>3, <2>5, LoadedStep
  <2> QED  BY <2>4, <2>5
<1> QED  BY <1>2, <1>c, <1>e, <1>4, <1>6, <1>7 DEF BarKept, msg

\* What is announced is in the window.
LEMMA AnnouncedInWindow ==
  ASSUME NEW s \in Seq(Nat)
  PROVE  ToSet(Front(s)) \subseteq ToSet(s)
<1>1. Front(s) = SubSeq(s, 1, Len(s) - 1) /\ Len(s) \in Nat /\ DOMAIN s = 1..Len(s)
  BY DEF Front
<1>2. DOMAIN Front(s) = 1..(Len(s) - 1) /\ \A k \in 1..(Len(s) - 1) : Front(s)[k] = s[k]
  BY <1>1
<1>3. \A k \in 1..(Len(s) - 1) : k \in DOMAIN s
  BY <1>1
<1> QED  BY <1>2, <1>3 DEF ToSet

LEMMA BarsStep ==
  ASSUME ObserverTypeOK, PastInv, BarsInv, [ObserverNext]_observerVars
  PROVE  BarsInv'
<1>0. OrderInv'
  BY OrderStep DEF BarsInv
<1> SUFFICES ASSUME NEW n \in ToSet(Announced') PROVE BarKept(n)'
  BY <1>0 DEF BarsInv
<1>1. bars \in Seq(Nat) /\ bars' \in Seq(Nat) /\ events \in Nat /\ events' \in Nat
  BY ObserverTypeStep DEF ObserverTypeOK
<1>2. ToSet(Announced) \subseteq ToSet(bars) /\ ToSet(Announced') \subseteq ToSet(bars')
  BY <1>1, AnnouncedInWindow DEF Announced
<1>3. ASSUME n \in ToSet(Announced) PROVE BarKept(n)'
  <2>1. n \in ToSet(bars)
    BY <1>2, <1>3
  <2>2. n \in Nat
    BY <1>1, <2>1 DEF ToSet
  <2> QED  BY <1>3, <2>1, <2>2, BarKeptStep DEF BarsInv
<1>4. CASE Bar
  <2>1. /\ bars' = Window(Append(bars, events')) /\ events' = events + 1 /\ ~crashed /\ ~crashed'
        /\ outbox' = [outbox EXCEPT !["bars"] = BarMessages] /\ fetches' = fetches
        /\ wire' = wire
    BY <1>4 DEF Bar, Update, OnBar, linkVars
  <2>2. n \in ToSet(Announced) \/ n = events'
    BY <1>1, <1>2, <2>1, WindowKeeps DEF Announced
  <2>3. CASE n = events'
    <3>1. outbox'["bars"] = BarMessages /\ returned' \subseteq CandidateType
      BY <2>1, ObserverTypeStep DEF ObserverTypeOK, StoreTypeOK, Tasks
    <3>2. UnderWay("bars", BarMsg(n))'
      BY <1>1, <2>3, <3>1, BarMessagesType DEF UnderWay, Waiting
    <3>3. \A f \in fetches' : f.reply # None => ~(f.reply.n >= n)
      <4>1. \A f \in fetches : f.reply # None => f.reply.n \in Nat /\ f.reply.n <= events
        BY DEF ObserverTypeOK, PastInv, Snapshots
      <4> QED  BY <1>1, <2>1, <2>3, <4>1
    <3>4. n <= events'
      BY <1>1, <2>3
    <3>5. \A k \in DOMAIN outbox'["bars"] : IsBar(outbox'["bars"][k]) => n <= outbox'["bars"][k].n
      BY <1>1, <2>3, <3>1, <3>4, BarFirst
    <3> QED  BY <3>2, <3>3, <3>4, <3>5 DEF BarKept
  <2> QED  BY <1>3, <2>2, <2>3
<1>5. CASE BarRaises
  <2>1. bars' = Window(Append(bars, events')) /\ ~crashed /\ crashed'
    BY <1>5 DEF BarRaises, OnBarRaises
  <2>2. n \in ToSet(Announced)
    BY <1>1, <2>1, WindowSettles DEF Announced
  <2> QED  BY <1>3, <2>2
<1>6. CASE Restart
  BY <1>2, <1>6 DEF Restart, ToSet
<1>7. CASE ~(Bar \/ BarRaises \/ Restart)
  <2>1. bars' = bars /\ crashed' = crashed
    BY <1>7 DEF ObserverNext, Quote, Tick, Send, Accept, Open, Close, Deliver, Serve, FetchDone,
                FetchFails, Spent, observerVars, marketVars, storeVars
  <2> QED  BY <1>3, <2>1 DEF Announced
<1> QED  BY <1>4, <1>5, <1>6, <1>7

(* At rest the browser has every announced bar of the server's window at    *)
(* its place, only newer bars behind its last showing, whatever was lost,   *)
(* delayed or sent twice before and whether the bar task has died; a bar is *)
(* missing only when newer ones have filled the browser's window.           *)
THEOREM BarsCompleteHolds == ObserverSpec => []BarsComplete
<1>1. ObserverInit => BarsInv
  <2> SUFFICES ASSUME ObserverInit PROVE BarsInv
    OBVIOUS
  <2>1. bars = <<>> /\ wire = <<>> /\ outbox["bars"] = <<>> /\ ~crashed
    BY DEF ObserverInit, StoreInit, Tasks
  <2> QED  BY <2>1 DEF BarsInv, OrderInv, Rising, Announced, ToSet
<1>2. ObserverTypeOK /\ BarsInv => BarsComplete
  BY RestIsLoaded DEF BarsInv, BarKept, BarsComplete, Tasks
<1> QED  BY <1>1, <1>2, ObserverTypeCorrect, BarsStep, PTL DEF ObserverSpec

-----------------------------------------------------------------------------
(* Candidates.  The same for what the engine returned: a candidate in the   *)
(* store reached the browser with its round's message or a later snapshot.  *)

CandidatesMsg(n, new) == [type |-> "candidates_update", n |-> n, data |-> new]

CandidateKept(c, n, new) ==
    /\ c \in new /\ n <= events
    /\ \A f \in fetches : f.reply # None /\ f.reply.n >= n /\ c.until > clock =>
         c \in f.reply.candidates
    /\ hook = "candidates" /\ link = "open" /\ ~UnderWay("bars", CandidatesMsg(n, new)) =>
         Accounted(n)
    /\ hook = "candidates" /\ Loaded /\ ~UnderWay("bars", CandidatesMsg(n, new))
         /\ c.until > clock => c \in shown.candidates
CandidatesInv ==
    \A c \in candidates \ Untold : \E n \in Nat, new \in SUBSET CandidateType : CandidateKept(c, n, new)

LEMMA CandidateKeptStep ==
  ASSUME ObserverTypeOK, PastInv, [ObserverNext]_observerVars,
         NEW c \in candidates, NEW n \in Nat, NEW new \in SUBSET CandidateType,
         CandidateKept(c, n, new)
  PROVE  CandidateKept(c, n, new)'
<1> DEFINE msg == CandidatesMsg(n, new)
<1>1. msg.type = "candidates_update" /\ msg.n = n /\ msg.data = new
  BY DEF CandidatesMsg
<1> HIDE DEF msg
<1>2. c \in new /\ n <= events /\ n <= events'
  <2>1. events \in Nat /\ events' \in Nat /\ events <= events' /\ n <= events
    BY ObserverTypeStep, PastStep DEF ObserverTypeOK, CandidateKept
  <2> QED  BY <2>1 DEF CandidateKept
<1>3. hook' = hook
  BY HookStays
<1>4. c.until > clock' => c.until > clock
  <2>1. clock' = clock \/ clock' = clock + 1
    BY DEF ObserverNext, Quote, Bar, BarRaises, Restart, Tick, Send, Accept, Open, Close, Deliver,
           Serve, FetchDone, FetchFails, Spent, observerVars
  <2>2. c.until \in Int /\ clock \in Nat
    BY DEF ObserverTypeOK, StoreTypeOK, CandidateType
  <2> QED  BY <2>1, <2>2
<1>5. ASSUME NEW f \in fetches', f.reply # None, f.reply.n >= n, c.until > clock'
      PROVE  c \in f.reply.candidates
  <2>1. CASE f \in fetches
    BY <1>4, <1>5, <2>1 DEF CandidateKept
  <2>2. CASE f.reply = Snapshot
    BY <1>4, <1>5, <2>2 DEF Snapshot, Active
  <2> QED  BY <1>5, <2>1, <2>2, RepliesStep
<1>6. ASSUME hook' = "candidates", link' = "open", UnderWay("bars", msg), ~UnderWay("bars", msg)'
      PROVE  known' >= n /\ c \in shown'.candidates
  <2>1. Heard(msg)
    BY <1>6, CameIn
  <2>2. known' = Later(known, n) /\ shown' = [shown EXCEPT !.candidates = shown.candidates \cup new]
    BY <1>1, <1>3, <1>6, <2>1, HeardIs
  <2>3. known \in Nat /\ shown'.candidates = shown.candidates \cup new
    BY <2>2 DEF ObserverTypeOK
  <2>4. known' >= n
    BY <2>2, <2>3 DEF Later
  <2> QED  BY <1>2, <2>3, <2>4
<1>7. ASSUME hook' = "candidates", link' = "open", ~UnderWay("bars", msg)' PROVE Accounted(n)'
  <2>1. CASE UnderWay("bars", msg)
    BY <1>6, <1>7, <2>1 DEF Accounted
  <2>2. CASE ~UnderWay("bars", msg)
    <3>1. link = "open" => Accounted(n)
      BY <1>3, <1>7, <2>2 DEF CandidateKept, msg
    <3> QED  BY <1>2, <1>7, <3>1, StaysAccounted
  <2> QED  BY <2>1, <2>2
<1>8. ASSUME hook' = "candidates", Loaded', ~UnderWay("bars", msg)', c.until > clock'
      PROVE  c \in shown'.candidates
  <2>1. link' = "open"
    BY <1>8 DEF Loaded
  <2>2. ASSUME link = "open", ~UnderWay("bars", msg), NEW f \in fetches, FetchDone(f),
               f.reply # None, \A m \in Nat : Accounted(m) => f.reply.n >= m
        PROVE  c \in shown'.candidates
    <3>1. f.reply.n >= n
      BY <1>3, <1>8, <2>2 DEF CandidateKept, msg
    <3>2. c \in f.reply.candidates
      BY <1>4, <1>8, <2>2, <3>1 DEF CandidateKept
    <3>3. shown' = [shown EXCEPT !.candidates = f.reply.candidates]
      BY <1>3, <1>8, <2>2 DEF FetchDone, Load
    <3> QED  BY <3>2, <3>3 DEF ObserverTypeOK
  <2>3. ASSUME Loaded, ~UnderWay("bars", msg), \A f \in fetches : ~FetchDone(f)
        PROVE  c \in shown'.candidates
    <3>1. c \in shown.candidates
      BY <1>3, <1>4, <1>8, <2>3 DEF CandidateKept, msg
    <3>2. CASE Deliver
      <4>1. Heard(Head(wire))
        BY <3>2 DEF Deliver
      <4>2. shown.candidates \subseteq shown'.candidates
        BY <4>1, HeardIs DEF ObserverTypeOK
      <4> QED  BY <3>1, <4>2
    <3>3. CASE ~Deliver
      <4>1. shown' = shown
        BY <2>3, <3>3 DEF ObserverNext, Quote, Bar, BarRaises, Restart, Tick, Send, Accept, Open,
           Close, Serve, FetchFails, Spent, observerVars, browserVars
      <4> QED  BY <3>1, <4>1
    <3> QED  BY <3>2, <3>3
  <2>4. CASE UnderWay("bars", msg)
    BY <1>6, <1>8, <2>1, <2>4
  <2>5. CASE ~UnderWay("bars", msg)
    BY <1>8, <2>2, <2>3, <2>5, LoadedStep
  <2> QED  BY <2>4, <2>5
<1> QED  BY <1>2, <1>5, <1>7, <1>8 DEF CandidateKept, msg

LEMMA CandidatesStep ==
  ASSUME ObserverTypeOK, PastInv, CandidatesInv, [ObserverNext]_observerVars
  PROVE  CandidatesInv'
<1> SUFFICES ASSUME NEW c \in candidates' \ Untold'
             PROVE  \E n \in Nat, new \in SUBSET CandidateType : CandidateKept(c, n, new)'
  BY DEF CandidatesInv
<1>1. events \in Nat /\ events' \in Nat
  BY ObserverTypeStep DEF ObserverTypeOK
<1>2. ASSUME c \in candidates \ Untold
      PROVE  \E n \in Nat, new \in SUBSET CandidateType : CandidateKept(c, n, new)'
  <2>1. PICK n \in Nat, new \in SUBSET CandidateType : CandidateKept(c, n, new)
    BY <1>2 DEF CandidatesInv
  <2>2. CandidateKept(c, n, new)'
    BY <1>2, <2>1, CandidateKeptStep
  <2> QED  BY <2>2
<1>3. CASE Bar
  <2>1. /\ events' = events + 1 /\ ~crashed
        /\ outbox' = [outbox EXCEPT !["bars"] = BarMessages] /\ fetches' = fetches
        /\ \E ts \in Times : OnBar(ts)
    BY <1>3 DEF Bar, Update, OnBar
  <2>2. c \in candidates \/ c \in returned'
    BY <2>1, RoundType DEF ObserverTypeOK
  <2>3. CASE c \in returned'
    <3> PICK n, new : n = events' /\ new = returned'
      OBVIOUS
    <3>1. outbox'["bars"] = BarMessages /\ new \subseteq CandidateType /\ n \in Nat
      BY <1>1, <2>1, ObserverTypeStep DEF ObserverTypeOK, StoreTypeOK, Tasks
    <3>2. UnderWay("bars", CandidatesMsg(n, new))'
      <4>1. \E k \in DOMAIN BarMessages : BarMessages[k] = CandidatesMsg(n, new)
        BY <1>1, <2>3, <3>1, BarMessagesType DEF CandidatesMsg
      <4> QED  BY <3>1, <4>1 DEF UnderWay, Waiting
    <3>3. \A f \in fetches' : f.reply # None => ~(f.reply.n >= n)
      <4>1. \A f \in fetches : f.reply # None => f.reply.n \in Nat /\ f.reply.n <= events
        BY DEF ObserverTypeOK, PastInv, Snapshots
      <4> QED  BY <1>1, <2>1, <4>1
    <3>4. n <= events' /\ c \in new
      BY <1>1, <2>3
    <3>5. CandidateKept(c, n, new)'
      BY <3>2, <3>3, <3>4 DEF CandidateKept
    <3> QED  BY <3>1, <3>5
  <2> QED  BY <1>2, <2>1, <2>2, <2>3 DEF Untold
<1>4. CASE BarRaises
  <2>1. ~crashed /\ crashed' /\ candidates' = Added(candidates, returned')
    BY <1>4 DEF BarRaises, OnBarRaises
  <2>2. c \in candidates
    BY <2>1 DEF Added, Untold
  <2> QED  BY <1>2, <2>1, <2>2 DEF Untold
<1>5. CASE Restart
  BY <1>5 DEF Restart
<1>6. CASE ~(Bar \/ BarRaises \/ Restart)
  <2>1. UNCHANGED <<candidates, crashed, returned>>
    BY <1>6 DEF ObserverNext, Quote, Tick, Send, Accept, Open, Close, Deliver, Serve, FetchDone,
                FetchFails, Spent, observerVars, storeVars
  <2> QED  BY <1>2, <2>1 DEF Untold
<1> QED  BY <1>3, <1>4, <1>5, <1>6

(* Every candidate that the server would still give out, and told somebody  *)
(* of, is shown at rest, before and after a strategy has raised, for any    *)
(* strategies, lifetimes, order of timestamps and lost messages.            *)
THEOREM ActiveShownHolds == ObserverSpec => []ActiveShown
<1>1. ObserverInit => CandidatesInv
  BY DEF ObserverInit, StoreInit, CandidatesInv
<1>2. CandidatesInv => ActiveShown
  BY RestIsLoaded DEF CandidatesInv, CandidateKept, ActiveShown, Active, UpToDate, AtRest, Tasks
<1> QED  BY <1>1, <1>2, ObserverTypeCorrect, CandidatesStep, PTL DEF ObserverSpec

-----------------------------------------------------------------------------
(* The store within the observer, which may be restarted at any time.       *)
(* What it promises of the candidates it holds survives that.               *)
THEOREM ObserverKeepsStore == ObserverSpec => [](OnePerKind /\ RetentionBound)
<1>1. ObserverInit => OnePerKind /\ RetentionBound
  BY NoneRetained DEF ObserverInit, StoreInit, OnePerKind
<1>2. StoreTypeOK /\ OnePerKind /\ RetentionBound /\ [ObserverNext]_observerVars =>
        OnePerKind' /\ RetentionBound'
  <2> SUFFICES ASSUME StoreTypeOK, OnePerKind, RetentionBound, [ObserverNext]_observerVars
               PROVE  OnePerKind' /\ RetentionBound'
    OBVIOUS
  <2>1. CASE Bar \/ BarRaises
    BY <2>1, RoundOnePerKind, RoundRetention DEF Bar, BarRaises
  <2>2. CASE Restart
    <3>1. candidates' = {}
      BY <2>2 DEF Restart
    <3>2. \A s \in Strategies : Cardinality(Of(s, candidates')) <= MaxPerStrategy
      <4>1. \A s : Of(s, candidates') = {}
        BY <3>1 DEF Of
      <4> QED  BY <4>1, FS_EmptySet, StoreAssumption
    <3> QED  BY <3>1, <3>2 DEF OnePerKind, RetentionBound, Of
  <2>3. CASE ~(Bar \/ BarRaises \/ Restart)
    <3>1. candidates' = candidates /\ crashed' = crashed
      BY <2>3 DEF ObserverNext, Quote, Tick, Send, Accept, Open, Close, Deliver, Serve, FetchDone,
                  FetchFails, Spent, observerVars, storeVars
    <3> QED  BY <3>1 DEF OnePerKind, RetentionBound, Of, Kind
  <2> QED  BY <2>1, <2>2, <2>3
<1> QED  BY <1>1, <1>2, ObserverTypeCorrect, PTL DEF ObserverSpec, ObserverTypeOK
=============================================================================
