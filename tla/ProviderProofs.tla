--------------------------- MODULE ProviderProofs ---------------------------
(***************************************************************************)
(* What the Schwab provider guarantees for any symbols, lifetimes, margins *)
(* and patience its assumption allows, any number of starts and candles.   *)
(***************************************************************************)
EXTENDS SchwabProvider, SequenceTheorems, TLAPS

(* A token is never taken to live longer than it does by more than an       *)
(* answer may be under way.                                                 *)
Dated(t) == t.expiresAt <= t.dies + Patience
TokenInv == Dated(token) /\ (file # None => Dated(file))

(* An actor has a request exactly while it waits for the answer, and not    *)
(* for longer than httpx does.                                              *)
RequestOK(a) ==
    /\ request[a] # None <=> pc[a] \in {"get", "refresh"}
    /\ request[a] # None =>
         /\ request[a].kind = pc[a]
         /\ request[a].sent <= clock /\ clock <= request[a].sent + Patience
    /\ pc[a] = "refresh" /\ request[a].answer # None =>
         request[a].answer.dies >= request[a].sent + Lifetime
    /\ pc[a] = "get" /\ request[a].first => request[a].sent < request[a].dies
RequestInv == \A a \in Actors : RequestOK(a)

(* The pollers run while connect is through, and bars wait to be handed on  *)
(* only while the bar poller hands them on.                                 *)
StageInv ==
    /\ pc["connect"] # "up" => \A p \in Pollers : pc[p] \in {"none", "ended"}
    /\ pc["bars"] = "hand" <=> pending # <<>>

(* The current day began when there were as many candles as now or fewer,   *)
(* and none is taken that has not begun.                                    *)
BarInv ==
    /\ CandlesOnceInOrder
    /\ opens # <<>> /\ Today <= candles
    /\ \A k \in DOMAIN Symbols : lastTs[k] <= candles

ProviderInv == ProviderTypeOK /\ TokenInv /\ RequestInv /\ StageInv /\ BarInv

-----------------------------------------------------------------------------
(* Requests *)

LEMMA GetType ==
  ASSUME NEW first \in BOOLEAN, clock \in Nat, token' \in Tokens
  PROVE  /\ Get(first) \in Requests /\ Get(first) # None
         /\ Get(first).kind = "get" /\ Get(first).sent = clock
         /\ Get(first).first = first /\ Get(first).dies = token'.dies
<1>1. Get(first) \in [kind : {"get"}, sent : Nat, first : BOOLEAN, dies : Nat]
  BY DEF Get, Tokens
<1> QED  BY <1>1, ProviderAssumption DEF Get, Requests

LEMMA RefreshType ==
  ASSUME clock \in Nat, token' \in Tokens
  PROVE  /\ Refresh \in Requests /\ Refresh # None
         /\ Refresh.kind = "refresh" /\ Refresh.sent = clock /\ Refresh.answer = None
<1>1. Refresh \in [kind : {"refresh"}, sent : Nat, refresh : Nat, answer : Answers \cup {None}]
  BY DEF Refresh, Tokens
<1> QED  BY <1>1, ProviderAssumption DEF Refresh, Requests

LEMMA RefreshFields ==
  ASSUME NEW r \in Requests, r.kind = "refresh"
  PROVE  r \in [kind : {"refresh"}, sent : Nat, refresh : Nat, answer : Answers \cup {None}]
BY DEF Requests

(* Who is not concerned by a step keeps its request in order while the      *)
(* clock stands still.                                                      *)
LEMMA OthersKeep ==
  ASSUME NEW b \in Actors, RequestOK(b), request'[b] = request[b], pc'[b] = pc[b], clock' = clock
  PROVE  RequestOK(b)'
BY DEF RequestOK

LEMMA IdleIsOK ==
  ASSUME NEW a \in Actors, request'[a] = None, pc'[a] \notin {"get", "refresh"}
  PROVE  RequestOK(a)'
BY DEF RequestOK

(* A request just sent, with a token that lives on for its first one.       *)
LEMMA SentIsOK ==
  ASSUME NEW a \in Actors, NEW first \in BOOLEAN, clock \in Nat, token' \in Tokens,
         clock' = clock, request'[a] = Get(first), pc'[a] = "get",
         first => clock < token'.dies
  PROVE  RequestOK(a)'
<1>1. clock <= clock + Patience
  BY ProviderAssumption
<1> QED  BY <1>1, GetType DEF RequestOK

(* _ensure_valid_token: a token the margin still lets pass is alive.        *)
LEMMA EnsureIsOK ==
  ASSUME NEW a \in Actors, ProviderTypeOK, Ensure(a), token' \in Tokens, Dated(token'), clock' = clock
  PROVE  /\ RequestOK(a)'
         /\ pc' \in [Actors -> {"none", "get", "refresh", "sleep", "hand", "up", "ended", "crashed"}]
         /\ request' \in [Actors -> Requests \cup {None}]
         /\ pc'[a] \in {"get", "refresh"}
         /\ \A b \in Actors \ {a} : pc'[b] = pc[b] /\ request'[b] = request[b]
<1> USE DEF ProviderTypeOK
<1>1. CASE Valid
  <2>1. pc' = [pc EXCEPT ![a] = "get"] /\ request' = [request EXCEPT ![a] = Get(TRUE)]
    BY <1>1 DEF Ensure
  <2>2. clock < token'.dies
    <3>1. /\ token'.expiresAt \in Nat /\ token'.dies \in Nat
          /\ Margin \in Nat /\ Patience \in Nat /\ Patience <= Margin
      BY ProviderAssumption DEF Tokens
    <3> QED  BY <1>1, <3>1 DEF Valid, Dated
  <2>3. RequestOK(a)'
    BY <2>1, <2>2, SentIsOK
  <2> QED  BY <2>1, <2>3, GetType
<1>2. CASE ~Valid
  <2>1. pc' = [pc EXCEPT ![a] = "refresh"] /\ request' = [request EXCEPT ![a] = Refresh]
    BY <1>2 DEF Ensure
  <2>2. clock <= clock + Patience
    BY ProviderAssumption
  <2>3. RequestOK(a)'
    BY <2>1, <2>2, RefreshType DEF RequestOK
  <2> QED  BY <2>1, <2>3, RefreshType
<1> QED  BY <1>1, <1>2

-----------------------------------------------------------------------------
(* The actors and their stages *)

Stages == {"none", "get", "refresh", "sleep", "hand", "up", "ended", "crashed"}

(* What an action leaves behind where its actors stand.                     *)
ActorsOK ==
    /\ pc' \in [Actors -> Stages] /\ request' \in [Actors -> Requests \cup {None}]
    /\ RequestInv'
    /\ StageInv'
    /\ pc["bars"] = "crashed" => pc'["bars"] = "crashed"

(* An actor has a request only between the stages around it.                *)
LEMMA WaitingMeansUp ==
  ASSUME ProviderInv, NEW p \in Pollers, pc[p] \notin {"none", "ended"}
  PROVE  pc["connect"] = "up" /\ request["connect"] = None
<1>1. pc["connect"] = "up"
  BY DEF ProviderInv, StageInv
<1>2. "connect" \in Actors
  BY DEF Actors
<1> QED  BY <1>1, <1>2 DEF ProviderInv, RequestInv, RequestOK

(* The stub that takes the provider's place while no poller runs.           *)
LEMMA StubIsOK ==
  ASSUME ProviderInv, StubInstead, pc["connect"] # "up", clock' = clock, pending' = pending,
         request' = [request EXCEPT !["connect"] = None]
  PROVE  ActorsOK
<1> USE DEF ProviderInv, ProviderTypeOK, StubInstead, Stages
<1>1. pc' \in [Actors -> Stages] /\ request' \in [Actors -> Requests \cup {None}]
  OBVIOUS
<1>2. ASSUME NEW a \in Actors PROVE request'[a] = None /\ pc'[a] = "ended"
  <2>1. CASE a = "connect"  BY <2>1
  <2>2. CASE a \in Pollers
    <3>1. pc[a] \in {"none", "ended"}  BY <2>2 DEF StageInv
    <3>2. request[a] = None  BY <3>1 DEF RequestInv, RequestOK
    <3> QED  BY <2>2, <3>2 DEF Pollers
  <2> QED  BY <2>1, <2>2 DEF Actors
<1>3. RequestInv'
  BY <1>2, IdleIsOK DEF RequestInv
<1>4. "bars" \in Actors /\ Pollers \subseteq Actors /\ "bars" \in Pollers
  BY DEF Actors, Pollers
<1>5. pc["bars"] \in {"none", "ended"}
  BY <1>4 DEF StageInv
<1>6. StageInv'
  BY <1>4, <1>5 DEF StageInv
<1> QED  BY <1>1, <1>3, <1>5, <1>6 DEF ActorsOK

(* A poller moves from a stage at which it runs, the others stay.           *)
LEMMA PollerMoves ==
  ASSUME ProviderInv, NEW p \in Pollers, pc[p] \notin {"none", "ended", "crashed"},
         pc' \in [Actors -> Stages], request' \in [Actors -> Requests \cup {None}],
         \A b \in Actors \ {p} : pc'[b] = pc[b] /\ request'[b] = request[b],
         RequestOK(p)', clock' = clock,
         p = "bars" => (pc'["bars"] = "hand" <=> pending' # <<>>),
         p # "bars" => pending' = pending
  PROVE  ActorsOK
<1> USE DEF ProviderInv
<1>1. pc["connect"] = "up"
  BY WaitingMeansUp
<1>2. pc'["connect"] = "up"
  BY <1>1 DEF Actors, Pollers
<1>3. RequestInv'
  BY OthersKeep DEF RequestInv
<1>4. pc'["bars"] = "hand" <=> pending' # <<>>
  BY DEF StageInv, Actors, Pollers
<1>5. pc["bars"] = "crashed" => pc'["bars"] = "crashed"
  BY DEF Actors, Pollers
<1> QED  BY <1>2, <1>3, <1>4, <1>5 DEF ActorsOK, StageInv

(* Whatever a request meets, its actor gives it up in order.                *)
LEMMA FailIsOK ==
  ASSUME ProviderInv, NEW a \in Actors, Fail(a), request[a] # None,
         clock' = clock, pending' = pending
  PROVE  /\ ActorsOK /\ turn' \in DOMAIN Symbols
         /\ turn' = turn \/ pending = <<>>
<1> USE DEF ProviderInv, ProviderTypeOK, Fail
<1>1. pc[a] \in {"get", "refresh"}
  BY DEF RequestInv, RequestOK
<1>2. a = "connect" => ActorsOK
  BY <1>1, StubIsOK
<1>3. ASSUME a # "connect" PROVE ActorsOK
  <2>1. a \in Pollers
    BY <1>3 DEF Actors
  <2>2. pc' = [pc EXCEPT ![a] = "sleep"] /\ request' = [request EXCEPT ![a] = None]
    BY <1>3
  <2>3. RequestOK(a)'
    BY <2>2, IdleIsOK
  <2>4. a = "bars" => (pc'["bars"] = "hand" <=> pending' # <<>>)
    BY <1>1, <2>2 DEF StageInv
  <2>5. pc' \in [Actors -> Stages] /\ request' \in [Actors -> Requests \cup {None}]
    BY <2>2 DEF Stages
  <2>6. \A b \in Actors \ {a} : pc'[b] = pc[b] /\ request'[b] = request[b]
    BY <2>2
  <2>7. pc[a] \notin {"none", "ended", "crashed"}
    BY <1>1
  <2> HIDE DEF ProviderInv, ProviderTypeOK, Fail
  <2> QED  BY <2>1, <2>3, <2>4, <2>5, <2>6, <2>7, PollerMoves
<1>4. turn' \in DOMAIN Symbols
  BY ProviderAssumption
<1>5. a = "bars" => pending = <<>>
  BY <1>1 DEF StageInv
<1> QED  BY <1>2, <1>3, <1>4, <1>5

(* What follows one candle and is alike elsewhere follows it there.         *)
LEMMA FollowsAlike ==
  ASSUME NEW due, NEW other, NEW n, Follows(due, n), other[n] = due[n],
         n = 1 \/ other[n - 1] = due[n - 1]
  PROVE  Follows(other, n)
BY DEF Follows

LEMMA LastAppended ==
  ASSUME NEW s \in Seq(Nat), NEW e \in Nat
  PROVE  Append(s, e) # <<>> /\ Last(Append(s, e)) = e
<1>1. Len(Append(s, e)) = Len(s) + 1 /\ Append(s, e)[Len(s) + 1] = e /\ Append(s, e) # <<>>
  OBVIOUS
<1> QED  BY <1>1 DEF Last

(* Days that come leave those before them.                                  *)
LEMMA DaysAdd ==
  ASSUME opens \in Seq(Nat), candles \in Nat, opens' = opens \/ opens' = Append(opens, candles)
  PROVE  /\ opens' \in Seq(Nat) /\ Range(opens) \subseteq Range(opens')
         /\ \A due, n : Follows(due, n) => Follows(due, n)'
<1>1. opens' \in Seq(Nat)
  BY AppendProperties
<1>2. ASSUME NEW d \in DOMAIN opens PROVE d \in DOMAIN opens' /\ opens'[d] = opens[d]
  <2>1. CASE opens' = opens
    BY <2>1
  <2>2. CASE opens' = Append(opens, candles)
    <3>1. d \in 1..Len(opens) /\ Len(opens) \in Nat
      OBVIOUS
    <3>2. Append(opens, candles)[d] = opens[d]
      BY <3>1, AppendProperties
    <3>3. DOMAIN Append(opens, candles) = 1..(Len(opens) + 1)
      BY AppendProperties
    <3> QED  BY <2>2, <3>1, <3>2, <3>3
  <2> QED  BY <2>1, <2>2
<1>3. Range(opens) \subseteq Range(opens')
  BY <1>2 DEF Range
<1> QED  BY <1>1, <1>3 DEF Follows

(* What is due stays in order while candles and days come.                  *)
LEMMA DueKeeps ==
  ASSUME ProviderInv, \A k \in DOMAIN Symbols : Due(k)' = Due(k),
         lastTs' = lastTs, candles' \in Nat, candles <= candles',
         opens' = opens \/ opens' = Append(opens, candles),
         pc["bars"] = "crashed" => pc'["bars"] = "crashed"
  PROVE  BarInv'
<1> USE DEF ProviderInv, ProviderTypeOK
<1>1. \A k \in DOMAIN Symbols : \A n \in DOMAIN Due(k) : Follows(Due(k), n)'
  BY DaysAdd DEF BarInv, CandlesOnceInOrder
<1>2. \A k \in DOMAIN Symbols : \A n \in DOMAIN Due(k)' : Follows(Due(k), n)'
  BY <1>1
<1>3. \A k \in DOMAIN Symbols :
        pc'["bars"] # "crashed" => lastTs'[k] = IF Due(k)' = <<>> THEN 0 ELSE Last(Due(k)')
  BY DEF BarInv, CandlesOnceInOrder
<1>4. CandlesOnceInOrder'
  BY <1>2, <1>3 DEF CandlesOnceInOrder
<1>5. opens' # <<>> /\ Today' <= candles'
  <2>1. CASE opens' = opens
    <3>1. Today' = Today /\ Today \in Nat
      BY <2>1 DEF Today, Last, BarInv
    <3> QED  BY <2>1, <3>1 DEF BarInv
  <2>2. CASE opens' = Append(opens, candles)
    <3>1. opens \in Seq(Nat) /\ candles \in Nat
      OBVIOUS
    <3>2. opens' # <<>> /\ Last(opens') = candles
      BY <2>2, <3>1, LastAppended
    <3> QED  BY <3>1, <3>2 DEF Today
  <2> QED  BY <2>1, <2>2
<1>6. \A k \in DOMAIN Symbols : lastTs'[k] <= candles'
  BY DEF BarInv
<1> QED  BY <1>4, <1>5, <1>6 DEF BarInv

(* Bars left alone.                                                         *)
LEMMA BarsKeep ==
  ASSUME ProviderInv, UNCHANGED takenVars, turn' = turn \/ pending = <<>>,
         candles' \in Nat, candles <= candles',
         opens' = opens \/ opens' = Append(opens, candles),
         pc["bars"] = "crashed" => pc'["bars"] = "crashed"
  PROVE  BarInv'
<1>1. \A k \in DOMAIN Symbols : Due(k)' = Due(k)
  BY DEF Due, takenVars
<1> QED  BY <1>1, DueKeeps DEF takenVars

LEMMA ComesLater ==
  ASSUME NEW n \in Nat, NEW l \in Nat, NEW m \in Nat, n > l, n <= l + m
  PROVE  n - l \in 1..m /\ l + (n - l) = n
OBVIOUS

LEMMA HasPrevious ==
  ASSUME NEW m \in Nat, NEW n \in 1..m
  PROVE  n = 1 \/ n - 1 \in 1..m
OBVIOUS

(* Consecutive candles after those due, or from the start of a day.         *)
LEMMA RunFollows ==
  ASSUME NEW h \in Seq(Nat), NEW more \in Seq(Nat), NEW m \in Nat,
         \A n \in DOMAIN h : Follows(h, n),
         \A n \in 1..Len(more) : more[n] = m + n,
         NEW end, end = IF h = <<>> THEN 0 ELSE Last(h), end <= m, m \in {end} \cup Range(opens)
  PROVE  /\ \A n \in DOMAIN (h \o more) : Follows(h \o more, n)
         /\ more # <<>> => h \o more # <<>> /\ Last(h \o more) = m + Len(more)
<1> DEFINE due == h \o more
           l == Len(h)
<1>1. /\ l \in Nat /\ Len(more) \in Nat /\ due \in Seq(Nat) /\ Len(due) = l + Len(more)
      /\ DOMAIN h = 1..l /\ DOMAIN due = 1..(l + Len(more))
      /\ \A n \in 1..l : due[n] = h[n]
      /\ \A j \in 1..Len(more) : due[l + j] = more[j]
  OBVIOUS
<1>2. end \in Nat /\ (l = 0 <=> h = <<>>) /\ (l # 0 => end = h[l])
  BY <1>1 DEF Last
<1> HIDE DEF due, l
<1>3. ASSUME NEW n \in 1..l PROVE Follows(due, n)
  <2>1. n = 1 \/ n - 1 \in 1..l
    BY <1>1
  <2> QED  BY <1>1, <2>1, FollowsAlike
<1>4. \A j \in 1..Len(more) : due[l + j] = m + j
  BY <1>1
<1>5. ASSUME NEW j \in 1..Len(more), NEW n \in Nat, n = l + j PROVE Follows(due, n)
  <2> DEFINE before == IF n = 1 THEN 0 ELSE due[n - 1]
  <2>1. j \in Int /\ 1 <= j /\ due[n] = m + j
    BY <1>4, <1>5
  <2>2. CASE j = 1
    <3>1. n - 1 = l /\ (n = 1 <=> l = 0)
      BY <1>1, <1>5, <2>2
    <3>2. l # 0 => due[l] = end
      <4>1. l # 0 => l \in 1..l
        BY <1>1
      <4> QED  BY <1>1, <1>2, <4>1
    <3>3. before = end
      BY <1>2, <3>1, <3>2
    <3>4. end < due[n] /\ due[n] - 1 = m
      BY <1>2, <2>1, <2>2
    <3> HIDE DEF before
    <3>5. before < due[n] /\ due[n] - 1 \in {before} \cup Range(opens)
      BY <3>3, <3>4
    <3> QED  BY <3>5 DEF Follows, before
  <2>3. CASE j # 1
    <3>1. j - 1 \in 1..Len(more) /\ n - 1 = l + (j - 1) /\ n # 1
      BY <1>1, <1>5, <2>1, <2>3
    <3>2. before = m + (j - 1)
      BY <1>4, <3>1
    <3> HIDE DEF before
    <3>3. before < due[n] /\ due[n] - 1 = before
      BY <2>1, <3>2
    <3> QED  BY <3>3 DEF Follows, before
  <2> QED  BY <2>2, <2>3
<1>6. ASSUME NEW n \in DOMAIN due PROVE Follows(due, n)
  <2>1. CASE n <= l
    BY <1>1, <1>3, <2>1
  <2>2. CASE n > l
    <3>1. n \in Nat /\ n <= l + Len(more)
      BY <1>1
    <3>2. n - l \in 1..Len(more) /\ l + (n - l) = n
      BY <1>1, <2>2, <3>1, ComesLater
    <3> QED  BY <1>5, <3>1, <3>2
  <2> QED  BY <1>1, <2>1, <2>2
<1>7. more # <<>> => due # <<>> /\ Last(due) = m + Len(more)
  <2> SUFFICES ASSUME more # <<>> PROVE due # <<>> /\ Last(due) = m + Len(more)
    OBVIOUS
  <2>1. Len(more) \in 1..Len(more)
    BY <1>1
  <2>2. due[Len(due)] = m + Len(more)
    BY <1>1, <1>4, <2>1
  <2>3. due # <<>>
    BY <1>1, <2>1
  <2> QED  BY <2>2, <2>3 DEF Last
<1> QED  BY <1>1, <1>6, <1>7 DEF due

-----------------------------------------------------------------------------
(* The steps *)

LEMMA IssueKeeps ==
  ASSUME ProviderInv, NEW a \in Actors, IssueToken(a)
  PROVE  ProviderInv'
<1> USE DEF ProviderInv, ProviderTypeOK, IssueToken
<1>1. request[a] \in Requests /\ request[a].kind = "refresh"
  BY DEF RequestInv, RequestOK
<1>2. PICK refresh \in Nat : request' = Grant(a, refresh) /\ issued' \in Nat /\ accepted' \subseteq Nat
  <2>1. CASE request' = Grant(a, request[a].refresh) /\ UNCHANGED <<accepted, issued>>
    <3>1. request[a].refresh \in Nat
      OBVIOUS
    <3> QED  BY <2>1, <3>1
  <2>2. CASE issued' = issued + 1 /\ accepted' = {issued'} /\ request' = Grant(a, issued')
    <3>1. issued' \in Nat /\ accepted' \subseteq Nat
      BY <2>2
    <3> QED  BY <2>2, <3>1
  <2> QED  BY <2>1, <2>2
<1> DEFINE answer == [dies |-> clock + Lifetime, refresh |-> refresh]
<1>3. answer \in Answers
  <2>1. clock \in Nat
    OBVIOUS
  <2>2. Lifetime \in Nat
    BY ProviderAssumption
  <2>3. clock + Lifetime \in Nat
    BY <2>1, <2>2
  <2> QED  BY <2>3 DEF Answers
<1>4. request[a] \in [kind : {"refresh"}, sent : Nat, refresh : Nat, answer : Answers \cup {None}]
  BY <1>1, RefreshFields
<1>5. request'[a] = [request[a] EXCEPT !.answer = answer] /\ \A b \in Actors \ {a} : request'[b] = request[b]
  BY <1>2 DEF Grant
<1>6. request'[a] \in [kind : {"refresh"}, sent : Nat, refresh : Nat, answer : Answers \cup {None}]
  BY <1>3, <1>4, <1>5
<1>7. request'[a] \in Requests /\ request'[a] # None
  BY <1>6, ProviderAssumption DEF Requests
<1>8. request' \in [Actors -> Requests \cup {None}]
  BY <1>2, <1>5, <1>7 DEF Grant
<1>9. /\ request'[a].kind = request[a].kind /\ request'[a].sent = request[a].sent
      /\ request'[a].answer = answer
  BY <1>4, <1>5
<1>10. RequestOK(a)'
  <2>1. RequestOK(a)
    BY DEF RequestInv
  <2>2. clock + Lifetime >= request[a].sent + Lifetime
    BY <1>1, <1>4, <2>1, ProviderAssumption DEF RequestOK
  <2> QED  BY <1>1, <1>7, <1>9, <2>1, <2>2 DEF RequestOK
<1>11. RequestInv'
  BY <1>5, <1>10, OthersKeep DEF RequestInv
<1>12. BarInv'
  BY BarsKeep DEF barVars
<1> QED  BY <1>2, <1>8, <1>11, <1>12 DEF TokenInv, StageInv, barVars, takenVars

LEMMA DeniedKeeps ==
  ASSUME ProviderInv, NEW a \in Actors, RefreshDenied(a)
  PROVE  ProviderInv'
<1> USE DEF ProviderInv, ProviderTypeOK, RefreshDenied
<1>1. request[a] # None
  BY DEF RequestInv, RequestOK
<1>2. ActorsOK /\ turn' \in DOMAIN Symbols /\ (turn' = turn \/ pending = <<>>)
  BY <1>1, FailIsOK DEF takenVars
<1>3. BarInv'
  BY <1>2, BarsKeep DEF ActorsOK, serviceVars
<1> QED  BY <1>2, <1>3 DEF ActorsOK, TokenInv, takenVars, serviceVars, Stages

LEMMA LostKeeps ==
  ASSUME ProviderInv, NEW a \in Actors, Lost(a)
  PROVE  ProviderInv'
<1> USE DEF ProviderInv, ProviderTypeOK, Lost
<1>1. ActorsOK /\ turn' \in DOMAIN Symbols /\ (turn' = turn \/ pending = <<>>)
  BY FailIsOK DEF takenVars
<1>2. BarInv'
  BY <1>1, BarsKeep DEF ActorsOK, serviceVars
<1> QED  BY <1>1, <1>2 DEF ActorsOK, TokenInv, takenVars, serviceVars, Stages

(* The token of an answer that was under way is alive, and dated no later   *)
(* than an answer can be late.                                              *)
LEMMA TakenIsAlive ==
  ASSUME ProviderInv, NEW a \in Actors, pc[a] = "refresh", request[a].answer # None, TakeToken(a)
  PROVE  /\ token' \in Tokens /\ Dated(token') /\ clock < token'.dies
         /\ Saved \in Tokens /\ Dated(Saved)
<1> USE DEF ProviderInv, ProviderTypeOK
<1>1. RequestOK(a)
  BY DEF RequestInv
<1>2. request[a] \in [kind : {"refresh"}, sent : Nat, refresh : Nat, answer : Answers \cup {None}]
  BY <1>1, RefreshFields DEF RequestOK
<1>3. request[a].answer.dies \in Nat /\ request[a].answer.refresh \in Nat /\ request[a].sent \in Nat
  BY <1>2 DEF Answers
<1>4. /\ request[a].answer.dies >= request[a].sent + Lifetime
      /\ clock <= request[a].sent + Patience
  BY <1>1 DEF RequestOK
<1>5. /\ {Lifetime, SavedLifetime, Patience} \subseteq Nat
      /\ SavedLifetime <= Lifetime /\ Patience < Lifetime
  BY ProviderAssumption
<1>6. token' = [dies |-> request[a].answer.dies, refresh |-> request[a].answer.refresh,
                expiresAt |-> clock + Lifetime]
  BY DEF TakeToken
<1>7. clock < token'.dies /\ clock + Lifetime <= request[a].answer.dies + Patience
      /\ clock + SavedLifetime <= request[a].answer.dies + Patience
  <2>1. {clock, request[a].sent, request[a].answer.dies, Lifetime, SavedLifetime, Patience}
          \subseteq Int
    BY <1>3, <1>5
  <2> HIDE DEF ProviderInv, ProviderTypeOK
  <2>2. PICK c \in Int, s \in Int, d \in Int, l \in Int, v \in Int, p \in Int :
           /\ c = clock /\ s = request[a].sent /\ d = request[a].answer.dies
           /\ l = Lifetime /\ v = SavedLifetime /\ p = Patience
    BY <2>1
  <2>3. d >= s + l /\ c <= s + p /\ v <= l /\ p < l
    BY <1>4, <1>5, <2>2
  <2>4. c < d /\ c + l <= d + p /\ c + v <= d + p
    BY <2>3
  <2> QED  BY <1>6, <2>2, <2>4
<1>8. token' \in Tokens /\ Saved \in Tokens
  <2>1. clock + Lifetime \in Nat /\ clock + SavedLifetime \in Nat /\ token'.dies \in Nat
        /\ token'.refresh \in Nat
    <3>1. clock \in Nat
      OBVIOUS
    <3> HIDE DEF ProviderInv, ProviderTypeOK
    <3>2. clock + Lifetime \in Nat /\ clock + SavedLifetime \in Nat
      BY <1>5, <3>1
    <3>3. token'.dies \in Nat /\ token'.refresh \in Nat
      BY <1>3, <1>6
    <3> QED  BY <3>2, <3>3
  <2> HIDE DEF ProviderInv, ProviderTypeOK
  <2> QED  BY <1>6, <2>1 DEF Tokens, Saved
<1>9. Dated(token')
  BY <1>6, <1>7 DEF Dated
<1>10. Dated(Saved)
  BY <1>6, <1>7 DEF Dated, Saved
<1> QED  BY <1>7, <1>8, <1>9, <1>10

LEMMA AnsweredKeeps ==
  ASSUME ProviderInv, NEW a \in Actors, RefreshAnswered(a)
  PROVE  ProviderInv'
<1> USE DEF ProviderInv, ProviderTypeOK, RefreshAnswered
<1>1. /\ token' \in Tokens /\ Dated(token') /\ clock < token'.dies
      /\ file' \in Tokens /\ Dated(file')
  BY TakenIsAlive
<1>2. RequestOK(a)'
  BY <1>1, SentIsOK
<1>3. pc' \in [Actors -> Stages] /\ request' \in [Actors -> Requests \cup {None}]
  BY <1>1, GetType DEF Stages
<1>4. RequestInv'
  BY <1>2, OthersKeep DEF RequestInv
<1>5. StageInv'
  BY DEF StageInv, Actors, Pollers, barVars, takenVars
<1>6. BarInv'
  BY BarsKeep DEF serviceVars, barVars
<1> QED  BY <1>1, <1>3, <1>4, <1>5, <1>6 DEF TokenInv, barVars, takenVars, serviceVars, Stages

(* The bar poller goes on to the next symbol, or to sleep after the last.   *)
LEMMA NextSymbolIsOK ==
  ASSUME ProviderInv, NextSymbol, pc["bars"] \in {"get", "hand"}, pending' = <<>>, clock' = clock
  PROVE  ActorsOK /\ token' = token /\ turn' \in DOMAIN Symbols
<1> USE DEF ProviderInv, ProviderTypeOK, NextSymbol
<1>1. "bars" \in Actors /\ "bars" \in Pollers
  BY DEF Actors, Pollers
<1>2. CASE turn < Len(Symbols)
  <2>1. /\ pc' = [pc EXCEPT !["bars"] = "get"] /\ request' = [request EXCEPT !["bars"] = Get(FALSE)]
        /\ turn' = turn + 1 /\ token' = token
    BY <1>2
  <2>2. RequestOK("bars")'
    BY <1>1, <2>1, SentIsOK
  <2>3. pc' \in [Actors -> Stages] /\ request' \in [Actors -> Requests \cup {None}]
    BY <2>1, GetType DEF Stages
  <2>4. pc'["bars"] # "hand" /\ \A b \in Actors \ {"bars"} : pc'[b] = pc[b] /\ request'[b] = request[b]
    BY <1>1, <2>1
  <2>5. ActorsOK
    BY <1>1, <2>2, <2>3, <2>4, PollerMoves
  <2>6. turn' \in DOMAIN Symbols
    BY <1>2, <2>1, ProviderAssumption
  <2> QED  BY <2>1, <2>5, <2>6
<1>3. CASE ~(turn < Len(Symbols))
  <2>1. /\ pc' = [pc EXCEPT !["bars"] = "sleep"] /\ request' = [request EXCEPT !["bars"] = None]
        /\ turn' = 1 /\ token' = token
    BY <1>3
  <2>2. RequestOK("bars")'
    BY <1>1, <2>1, IdleIsOK
  <2>3. pc' \in [Actors -> Stages] /\ request' \in [Actors -> Requests \cup {None}]
    BY <2>1 DEF Stages
  <2>4. pc'["bars"] # "hand" /\ \A b \in Actors \ {"bars"} : pc'[b] = pc[b] /\ request'[b] = request[b]
    BY <1>1, <2>1
  <2>5. ActorsOK
    BY <1>1, <2>2, <2>3, <2>4, PollerMoves
  <2>6. turn' \in DOMAIN Symbols
    BY <2>1, ProviderAssumption
  <2> QED  BY <2>1, <2>5, <2>6
<1> QED  BY <1>2, <1>3

LEMMA GetDeniedKeeps ==
  ASSUME ProviderInv, NEW a \in Actors, GetDenied(a)
  PROVE  ProviderInv'
<1> USE DEF ProviderInv, ProviderTypeOK, GetDenied
<1>1. /\ ActorsOK /\ token' = token /\ turn' \in DOMAIN Symbols
      /\ turn' = turn \/ pending = <<>>
  <2>1. CASE a = "bars"
    <3>1. pending = <<>> /\ pending' = pending
      BY <2>1 DEF StageInv, takenVars
    <3> QED  BY <2>1, <3>1, NextSymbolIsOK
  <2>2. CASE a # "bars"
    <3>1. request[a] # None
      BY DEF RequestInv, RequestOK
    <3> QED  BY <2>2, <3>1, FailIsOK DEF takenVars
  <2> QED  BY <2>1, <2>2
<1>2. BarInv'
  BY <1>1, BarsKeep DEF ActorsOK, serviceVars
<1> QED  BY <1>1, <1>2 DEF ActorsOK, TokenInv, takenVars, serviceVars, Stages

LEMMA ConnectedKeeps ==
  ASSUME ProviderInv, Connected
  PROVE  ProviderInv'
<1> USE DEF ProviderInv, ProviderTypeOK, Connected
<1>1. pc["connect"] = "get" /\ pc["bars"] \in {"none", "ended"} /\ pc["quotes"] \in {"none", "ended"}
  BY DEF StageInv, Pollers
<1>2. pc' = [a \in Actors |-> IF a = "connect" THEN "up" ELSE "sleep"]
  BY DEF Actors, Pollers
<1>3. \A a \in Actors : request'[a] = None /\ pc'[a] \in {"up", "sleep"}
  BY <1>1, <1>2 DEF RequestInv, RequestOK, Actors, Pollers
<1>4. RequestInv'
  BY <1>3, IdleIsOK DEF RequestInv
<1>5. StageInv'
  BY <1>1, <1>2 DEF StageInv, Actors, Pollers, barVars, takenVars
<1>6. BarInv'
  BY <1>1, BarsKeep DEF serviceVars, barVars
<1> QED  BY <1>2, <1>4, <1>5, <1>6 DEF TokenInv, serviceVars, barVars, takenVars

LEMMA WakeKeeps ==
  ASSUME ProviderInv, NEW p \in Pollers, Wake(p)
  PROVE  ProviderInv'
<1> USE DEF ProviderInv, ProviderTypeOK, Wake
<1>1. p \in Actors
  BY DEF Actors
<1>2. ActorsOK
  <2>1. CASE Awake
    <3>1. Ensure(p) /\ Dated(token') /\ token' \in Tokens
      BY <2>1 DEF TokenInv
    <3>2. /\ RequestOK(p)'
          /\ pc' \in [Actors -> Stages] /\ request' \in [Actors -> Requests \cup {None}]
          /\ pc'[p] \in {"get", "refresh"}
          /\ \A b \in Actors \ {p} : pc'[b] = pc[b] /\ request'[b] = request[b]
      BY <1>1, <3>1, EnsureIsOK DEF Stages
    <3>3. p = "bars" => (pc'["bars"] = "hand" <=> pending' # <<>>)
      BY <3>2 DEF StageInv, barVars, takenVars
    <3> QED  BY <3>2, <3>3, PollerMoves DEF barVars, takenVars
  <2>2. CASE ~Awake
    <3>1. pc' = [pc EXCEPT ![p] = "ended"] /\ request' = request
      BY <2>2
    <3>2. RequestOK(p)
      BY <1>1 DEF RequestInv
    <3>3. RequestOK(p)'
      BY <1>1, <3>1, <3>2, IdleIsOK DEF RequestOK
    <3>4. p = "bars" => (pc'["bars"] = "hand" <=> pending' # <<>>)
      BY <1>1, <3>1 DEF StageInv, barVars, takenVars
    <3>5. pc' \in [Actors -> Stages] /\ request' \in [Actors -> Requests \cup {None}]
      BY <3>1 DEF Stages
    <3>6. \A b \in Actors \ {p} : pc'[b] = pc[b] /\ request'[b] = request[b]
      BY <3>1
    <3> QED  BY <3>3, <3>4, <3>5, <3>6, PollerMoves DEF barVars, takenVars
  <2> QED  BY <2>1, <2>2
<1>3. BarInv'
  BY <1>2, BarsKeep DEF ActorsOK, serviceVars, barVars
<1> QED  BY <1>2, <1>3 DEF ActorsOK, TokenInv, barVars, takenVars, serviceVars, Stages

LEMMA QuotesKeep ==
  ASSUME ProviderInv, QuotesAnswered
  PROVE  ProviderInv'
<1> USE DEF ProviderInv, ProviderTypeOK, QuotesAnswered
<1>1. "quotes" \in Actors /\ "quotes" \in Pollers
  BY DEF Actors, Pollers
<1>2. RequestOK("quotes")'
  BY <1>1, IdleIsOK
<1>3. pc' \in [Actors -> Stages] /\ request' \in [Actors -> Requests \cup {None}]
  BY DEF Stages
<1>4. \A b \in Actors \ {"quotes"} : pc'[b] = pc[b] /\ request'[b] = request[b]
  OBVIOUS
<1>5. ActorsOK
  BY <1>1, <1>2, <1>3, <1>4, PollerMoves DEF barVars, takenVars
<1>6. BarInv'
  BY <1>5, BarsKeep DEF ActorsOK, serviceVars, barVars
<1> QED  BY <1>5, <1>6 DEF ActorsOK, TokenInv, barVars, takenVars, serviceVars, Stages

LEMMA EnumeratedSeq ==
  ASSUME NEW S, NEW m \in Nat, NEW s \in [1..m -> S]
  PROVE  s \in Seq(S)
OBVIOUS

(* _parse_bars: today's candles after the last one taken, up to the newest. *)
LEMMA ParsedType ==
  ASSUME ProviderInv, NEW k \in DOMAIN Symbols
  PROVE  /\ Reached(k) \in Nat /\ lastTs[k] <= Reached(k) /\ Reached(k) <= candles
         /\ Reached(k) \in {lastTs[k]} \cup Range(opens)
         /\ Parsed(k) \in Seq(Nat)
         /\ \A n \in 1..Len(Parsed(k)) : Parsed(k)[n] = Reached(k) + n
         /\ Taken(k) \in [DOMAIN Symbols -> Nat]
         /\ Parsed(k) = <<>> => Taken(k) = lastTs
         /\ Parsed(k) # <<>> =>
              /\ Len(Parsed(k)) = candles - Reached(k)
              /\ Taken(k)[k] = candles
         /\ \A j \in DOMAIN Symbols : j # k => Taken(k)[j] = lastTs[j]
<1> USE DEF ProviderInv, ProviderTypeOK
<1>1. lastTs[k] \in Nat /\ lastTs[k] <= candles
  BY DEF BarInv
<1>2. Today \in Nat /\ Today <= candles /\ Today \in Range(opens)
  <2>1. opens \in Seq(Nat) /\ opens # <<>> /\ Today <= candles
    BY DEF BarInv
  <2>2. Len(opens) \in DOMAIN opens
    BY <2>1
  <2>3. Today = opens[Len(opens)]
    BY DEF Today, Last
  <2> QED  BY <2>1, <2>2, <2>3 DEF Range
<1>3. /\ Reached(k) \in Nat /\ lastTs[k] <= Reached(k) /\ Reached(k) <= candles
      /\ Reached(k) \in {lastTs[k]} \cup Range(opens)
  BY <1>1, <1>2 DEF Reached
<1>4. /\ Parsed(k) \in Seq(Nat) /\ Len(Parsed(k)) = candles - Reached(k)
      /\ \A n \in 1..Len(Parsed(k)) : Parsed(k)[n] = Reached(k) + n
  <2>1. PICK m \in Nat : m = candles - Reached(k)
    BY <1>3
  <2>2. PICK before \in Nat : before = Reached(k)
    BY <1>3
  <2>3. Parsed(k) = [n \in 1..m |-> before + n]
    BY <2>1, <2>2 DEF Parsed
  <2>4. \A n \in 1..m : before + n \in Nat
    OBVIOUS
  <2>5. Parsed(k) \in [1..m -> Nat]
    BY <2>3, <2>4
  <2>6. Parsed(k) \in Seq(Nat) /\ DOMAIN Parsed(k) = 1..m
    BY <2>5, EnumeratedSeq
  <2>7. Len(Parsed(k)) = m
    BY <2>6
  <2> QED  BY <2>1, <2>2, <2>3, <2>6, <2>7
<1>5. CASE Parsed(k) = <<>>
  BY <1>3, <1>4, <1>5 DEF Taken
<1>6. CASE Parsed(k) # <<>>
  <2>1. Len(Parsed(k)) \in Nat /\ Len(Parsed(k)) # 0
    BY <1>4, <1>6
  <2>2. Last(Parsed(k)) = candles
    BY <1>3, <1>4, <2>1 DEF Last
  <2>3. Taken(k) = [lastTs EXCEPT ![k] = candles]
    BY <1>6, <2>2 DEF Taken
  <2> QED  BY <1>3, <1>4, <1>6, <2>3
<1> QED  BY <1>5, <1>6

(* What is taken of an answer follows what the engine was given, or begins  *)
(* with the day.                                                            *)
LEMMA AnswerIsDue ==
  ASSUME ProviderInv, pc["bars"] = "get", pending = <<>>, pending' # <<>>,
         pending' = Parsed(turn), lastTs' = Taken(turn),
         UNCHANGED <<turn, handed, candles, opens>>
  PROVE  BarInv'
<1> USE DEF ProviderInv, ProviderTypeOK
<1> DEFINE h == handed[turn]
           m == Reached(turn)
<1>1. h \in Seq(Nat) /\ pending' \in Seq(Nat) /\ m \in Nat
  BY ParsedType
<1>2. \A k \in DOMAIN Symbols : Due(k) = handed[k]
  BY DEF Due
<1>3. /\ \A k \in DOMAIN Symbols : \A n \in DOMAIN handed[k] : Follows(handed[k], n)
      /\ \A k \in DOMAIN Symbols : lastTs[k] = IF handed[k] = <<>> THEN 0 ELSE Last(handed[k])
  BY <1>2 DEF BarInv, CandlesOnceInOrder
<1>4. /\ \A n \in DOMAIN h : Follows(h, n)
      /\ \A n \in 1..Len(pending') : pending'[n] = m + n
      /\ lastTs[turn] = IF h = <<>> THEN 0 ELSE Last(h)
      /\ lastTs[turn] <= m /\ m \in {lastTs[turn]} \cup Range(opens)
  BY <1>3, ParsedType
<1>5. /\ \A n \in DOMAIN (h \o pending') : Follows(h \o pending', n)
      /\ h \o pending' # <<>> /\ Last(h \o pending') = m + Len(pending')
  <2> HIDE DEF h, m, ProviderInv, ProviderTypeOK
  <2> DEFINE p == pending'
             end == lastTs[turn]
  <2>1. p \in Seq(Nat) /\ p # <<>> /\ \A n \in 1..Len(p) : p[n] = m + n
    BY <1>1, <1>4
  <2>2. end = (IF h = <<>> THEN 0 ELSE Last(h)) /\ end <= m /\ m \in {end} \cup Range(opens)
    BY <1>4
  <2> HIDE DEF p, end
  <2>3. /\ \A n \in DOMAIN (h \o p) : Follows(h \o p, n)
        /\ h \o p # <<>> /\ Last(h \o p) = m + Len(p)
    BY <1>1, <1>4, <2>1, <2>2, RunFollows
  <2> QED  BY <2>3 DEF p
<1>6. lastTs'[turn] = m + Len(pending') /\ lastTs'[turn] = candles
  BY ParsedType
<1>7. \A k \in DOMAIN Symbols : k # turn => lastTs'[k] = lastTs[k]
  BY ParsedType
<1>8. Due(turn)' = h \o pending' /\ \A k \in DOMAIN Symbols : k # turn => Due(k)' = handed[k]
  BY DEF Due
<1>9. \A due, n : Follows(due, n)' <=> Follows(due, n)
  BY DEF Follows
<1>10. ASSUME NEW k \in DOMAIN Symbols
       PROVE  /\ \A n \in DOMAIN Due(k)' : Follows(Due(k), n)'
              /\ lastTs'[k] = IF Due(k)' = <<>> THEN 0 ELSE Last(Due(k)')
  <2>1. CASE k = turn
    BY <1>5, <1>6, <1>8, <1>9, <2>1
  <2>2. CASE k # turn
    BY <1>3, <1>7, <1>8, <1>9, <2>2
  <2> QED  BY <2>1, <2>2
<1>11. CandlesOnceInOrder'
  BY <1>10 DEF CandlesOnceInOrder
<1>12. ASSUME NEW k \in DOMAIN Symbols PROVE lastTs'[k] <= candles
  <2>1. CASE k = turn
    BY <1>6, <2>1
  <2>2. CASE k # turn
    <3>1. lastTs'[k] = lastTs[k] /\ lastTs[k] <= candles
      BY <1>7, <2>2 DEF BarInv
    <3> QED  BY <3>1
  <2> QED  BY <2>1, <2>2
<1> QED  BY <1>11, <1>12 DEF BarInv, Today

LEMMA BarsAnsweredKeeps ==
  ASSUME ProviderInv, BarsAnswered
  PROVE  ProviderInv'
<1> USE DEF ProviderInv, ProviderTypeOK, BarsAnswered
<1>1. "bars" \in Actors /\ "bars" \in Pollers
  BY DEF Actors, Pollers
<1>2. pending = <<>>
  BY DEF StageInv
<1>3. pending' \in Seq(Nat) /\ lastTs' \in [DOMAIN Symbols -> Nat]
  BY ParsedType
<1>4. CASE pending' = <<>>
  <2>1. ActorsOK /\ token' = token /\ turn' \in DOMAIN Symbols
    BY <1>4, NextSymbolIsOK
  <2>2. lastTs' = lastTs /\ handed' = handed
    BY <1>4, ParsedType
  <2>3. BarInv'
    BY <1>2, <1>4, <2>1, <2>2, BarsKeep DEF ActorsOK, serviceVars, takenVars
  <2> QED  BY <1>3, <2>1, <2>3 DEF ActorsOK, TokenInv, serviceVars, Stages
<1>5. CASE pending' # <<>>
  <2>1. /\ pc' = [pc EXCEPT !["bars"] = "hand"] /\ request' = [request EXCEPT !["bars"] = None]
        /\ UNCHANGED <<token, turn>>
    BY <1>5
  <2>2. RequestOK("bars")'
    BY <1>1, <2>1, IdleIsOK
  <2>3. pc' \in [Actors -> Stages] /\ request' \in [Actors -> Requests \cup {None}]
    BY <2>1 DEF Stages
  <2>4. pc'["bars"] = "hand" /\ \A b \in Actors \ {"bars"} : pc'[b] = pc[b] /\ request'[b] = request[b]
    BY <1>1, <2>1
  <2>5. ActorsOK
    BY <1>1, <1>5, <2>2, <2>3, <2>4, PollerMoves
  <2>6. BarInv'
    BY <1>1, <1>2, <1>3, <1>5, <2>1, AnswerIsDue DEF serviceVars
  <2> QED  BY <1>3, <2>1, <2>5, <2>6 DEF ActorsOK, TokenInv, serviceVars, Stages
<1> QED  BY <1>4, <1>5

LEMMA HeadFirst ==
  ASSUME NEW h \in Seq(Nat), NEW p \in Seq(Nat), p # <<>>
  PROVE  Append(h, Head(p)) \o Tail(p) = h \o p
<1> DEFINE s == Append(h, Head(p)) \o Tail(p)
           t == h \o p
<1>1. /\ s \in Seq(Nat) /\ t \in Seq(Nat) /\ Len(s) = Len(h) + Len(p) /\ Len(t) = Len(h) + Len(p)
      /\ Len(p) \in Nat /\ Len(p) # 0 /\ Len(h) \in Nat
  OBVIOUS
<1>2. ASSUME NEW n \in 1..(Len(h) + Len(p)) PROVE s[n] = t[n]
  <2>1. CASE n <= Len(h)
    BY <2>1
  <2>2. CASE n = Len(h) + 1
    BY <2>2
  <2>3. CASE n > Len(h) + 1
    BY <2>3
  <2> QED  BY <1>1, <2>1, <2>2, <2>3
<1> HIDE DEF s, t
<1>3. s = t
  BY <1>1, <1>2
<1> QED  BY <1>3 DEF s, t

(* A bar handed on is no longer pending, and what is due is the same.       *)
LEMMA YieldType ==
  ASSUME ProviderInv, Yield
  PROVE  /\ handed' \in [DOMAIN Symbols -> Seq(Nat)]
         /\ \A k \in DOMAIN Symbols : k # turn => handed'[k] = handed[k]
         /\ Tail(pending) \in Seq(Nat)
         /\ handed'[turn] \o Tail(pending) = handed[turn] \o pending
<1> USE DEF ProviderInv, ProviderTypeOK, Yield
<1>1. pending # <<>>
  BY DEF StageInv
<1>2. Head(pending) \in Nat
  BY <1>1
<1>3. handed[turn] \in Seq(Nat) /\ handed' = [handed EXCEPT ![turn] = Append(handed[turn], Head(pending))]
  OBVIOUS
<1>4. /\ handed' \in [DOMAIN Symbols -> Seq(Nat)]
      /\ \A k \in DOMAIN Symbols : k # turn => handed'[k] = handed[k]
      /\ handed'[turn] = Append(handed[turn], Head(pending))
  BY <1>2, <1>3
<1>5. Tail(pending) \in Seq(Nat)
  BY <1>1
<1>6. handed'[turn] \o Tail(pending) = handed[turn] \o pending
  BY <1>1, <1>3, <1>4, HeadFirst
<1> QED  BY <1>4, <1>5, <1>6

LEMMA HandKeeps ==
  ASSUME ProviderInv, Hand
  PROVE  ProviderInv'
<1> USE DEF ProviderInv, ProviderTypeOK, Hand
<1>1. /\ handed' \in [DOMAIN Symbols -> Seq(Nat)]
      /\ \A k \in DOMAIN Symbols : k # turn => handed'[k] = handed[k]
      /\ pending' \in Seq(Nat)
      /\ handed'[turn] \o pending' = handed[turn] \o pending
  BY YieldType
<1>2. pc["bars"] = "hand" /\ "bars" \in Actors /\ "bars" \in Pollers
  BY DEF Yield, Actors, Pollers
<1>3. CASE pending' = <<>>
  <2>1. ActorsOK /\ token' = token /\ turn' \in DOMAIN Symbols
    BY <1>2, <1>3, NextSymbolIsOK
  <2>2. ASSUME NEW k \in DOMAIN Symbols PROVE Due(k)' = Due(k)
    <3>1. handed'[k] \in Seq(Nat) /\ handed[k] \in Seq(Nat)
      BY <1>1
    <3>2. Due(k)' = handed'[k]
      <4>1. handed'[k] \o <<>> = handed'[k]
        BY <3>1
      <4> QED  BY <1>3, <4>1 DEF Due
    <3>3. CASE k = turn
      BY <1>1, <1>3, <3>1, <3>2, <3>3 DEF Due
    <3>4. CASE k # turn
      BY <1>1, <3>1, <3>2, <3>4 DEF Due
    <3> QED  BY <3>3, <3>4
  <2>3. BarInv'
    BY <1>2, <2>2, DueKeeps DEF serviceVars
  <2> QED  BY <1>1, <2>1, <2>3 DEF ActorsOK, TokenInv, serviceVars, Stages
<1>4. CASE pending' # <<>>
  <2>1. UNCHANGED <<token, turn, pc, request>>
    BY <1>4
  <2>2. \A k \in DOMAIN Symbols : Due(k)' = Due(k)
    BY <1>1, <2>1 DEF Due
  <2>3. BarInv'
    BY <2>1, <2>2, DueKeeps DEF serviceVars
  <2>4. RequestInv' /\ StageInv'
    BY <1>2, <1>4, <2>1 DEF RequestInv, RequestOK, StageInv
  <2> QED  BY <1>1, <2>1, <2>3, <2>4 DEF TokenInv, serviceVars
<1> QED  BY <1>3, <1>4

LEMMA HandRaisesKeeps ==
  ASSUME ProviderInv, HandRaises
  PROVE  ProviderInv'
<1> USE DEF ProviderInv, ProviderTypeOK, HandRaises
<1>1. /\ handed' \in [DOMAIN Symbols -> Seq(Nat)]
      /\ \A k \in DOMAIN Symbols : k # turn => handed'[k] = handed[k]
      /\ Tail(pending) \in Seq(Nat)
      /\ handed'[turn] \o Tail(pending) = handed[turn] \o pending
  BY YieldType
<1>2. pc["bars"] = "hand" /\ "bars" \in Actors /\ "bars" \in Pollers
  BY DEF Yield, Actors, Pollers
<1>3. request["bars"] = None
  BY <1>2 DEF RequestInv, RequestOK
<1>4. RequestOK("bars")'
  BY <1>2, <1>3, IdleIsOK
<1>5. pc' \in [Actors -> Stages] /\ request' \in [Actors -> Requests \cup {None}]
  BY DEF Stages
<1>6. \A b \in Actors \ {"bars"} : pc'[b] = pc[b] /\ request'[b] = request[b]
  OBVIOUS
<1>7. pc'["bars"] = "crashed"
  BY <1>2
<1>8. ActorsOK
  BY <1>2, <1>4, <1>5, <1>6, <1>7, PollerMoves
<1>9. ASSUME NEW k \in DOMAIN Symbols, NEW n \in DOMAIN Due(k)'
      PROVE  Follows(Due(k), n)'
  <2>1. handed'[k] \in Seq(Nat) /\ handed[k] \in Seq(Nat)
    BY <1>1
  <2>2. Due(k)' = handed'[k]
    BY <2>1 DEF Due
  <2>3. n \in DOMAIN Due(k) /\ Due(k)[n] = Due(k)'[n] /\ (n = 1 \/ Due(k)[n - 1] = Due(k)'[n - 1])
    <3>1. CASE k = turn
      <4>1. Due(k) = Due(k)' \o Tail(pending)
        BY <1>1, <2>2, <3>1 DEF Due
      <4>2. n \in 1..Len(handed'[k]) /\ (n = 1 \/ n - 1 \in 1..Len(handed'[k]))
        <5>1. n \in 1..Len(handed'[k]) /\ Len(handed'[k]) \in Nat
          BY <2>1, <2>2
        <5> HIDE DEF ProviderInv, ProviderTypeOK, HandRaises
        <5> QED  BY <5>1, HasPrevious
      <4>3. \A j \in 1..Len(handed'[k]) : j \in DOMAIN Due(k) /\ Due(k)[j] = handed'[k][j]
        <5> DEFINE h == handed'[k]
                   p == Tail(pending)
        <5>1. h \in Seq(Nat) /\ p \in Seq(Nat) /\ Due(k) = h \o p
          BY <1>1, <2>1, <2>2, <4>1
        <5> HIDE DEF h, p, ProviderInv, ProviderTypeOK, HandRaises
        <5>2. \A j \in 1..Len(h) : j \in DOMAIN (h \o p) /\ (h \o p)[j] = h[j]
          BY <5>1, ConcatProperties
        <5> QED  BY <5>1, <5>2 DEF h
      <4> HIDE DEF ProviderInv, ProviderTypeOK, HandRaises
      <4> QED  BY <2>2, <4>2, <4>3
    <3>2. CASE k # turn
      BY <1>1, <2>1, <2>2, <3>2 DEF Due
    <3> QED  BY <3>1, <3>2
  <2>4. Follows(Due(k), n)
    BY <2>3 DEF BarInv, CandlesOnceInOrder
  <2>5. Follows(Due(k)', n)
    BY <2>3, <2>4, FollowsAlike
  <2> QED  BY <2>5 DEF Follows, serviceVars
<1>10. CandlesOnceInOrder'
  BY <1>7, <1>9 DEF CandlesOnceInOrder
<1>11. BarInv'
  BY <1>10 DEF BarInv, Today, serviceVars
<1> QED  BY <1>1, <1>8, <1>11 DEF ActorsOK, TokenInv, serviceVars, Stages

(* Nothing of the pollers' outlives the process.                            *)
LEMMA DownKeeps ==
  ASSUME ProviderInv, Down, file' \in {file, None}
  PROVE  ProviderInv'
<1> USE DEF ProviderInv, ProviderTypeOK, Down
<1>1. RequestInv'
  BY IdleIsOK DEF RequestInv
<1>2. StageInv'
  BY DEF StageInv, Actors, Pollers
<1>3. lastTs' \in [DOMAIN Symbols -> Nat] /\ handed' \in [DOMAIN Symbols -> Seq(Nat)]
      /\ pending' \in Seq(Nat)
  BY DEF NoBars
<1>4. turn' \in DOMAIN Symbols
  BY ProviderAssumption
<1>5. \A k \in DOMAIN Symbols : lastTs'[k] = 0 /\ Due(k)' = <<>>
  BY DEF NoBars, Due
<1>6. CandlesOnceInOrder'
  BY <1>5 DEF CandlesOnceInOrder
<1>7. BarInv'
  BY <1>5, <1>6 DEF BarInv, Today, serviceVars
<1> QED  BY <1>1, <1>2, <1>3, <1>4, <1>7 DEF TokenInv, serviceVars

LEMMA StartKeeps ==
  ASSUME ProviderInv, Start
  PROVE  ProviderInv'
<1> USE DEF ProviderInv, ProviderTypeOK, Start
<1>1. pc["connect"] = "none" /\ "connect" \in Actors
  BY DEF Actors
<1>2. request["connect"] = None
  BY <1>1 DEF RequestInv, RequestOK
<1>3. ActorsOK /\ token' \in Tokens /\ Dated(token')
  <2>1. CASE file = None
    <3>1. StubInstead /\ token' = token /\ request' = request
      BY <2>1
    <3>2. request' = [request EXCEPT !["connect"] = None]
      BY <1>1, <1>2, <3>1
    <3> QED  BY <1>1, <3>1, <3>2, StubIsOK DEF TokenInv, barVars, takenVars
  <2>2. CASE file # None
    <3>1. token' = file /\ Ensure("connect") /\ token' \in Tokens /\ Dated(token')
      BY <2>2 DEF TokenInv
    <3>2. /\ RequestOK("connect")'
          /\ pc' \in [Actors -> Stages] /\ request' \in [Actors -> Requests \cup {None}]
          /\ pc'["connect"] \in {"get", "refresh"}
          /\ \A b \in Actors \ {"connect"} : pc'[b] = pc[b] /\ request'[b] = request[b]
      BY <1>1, <3>1, EnsureIsOK DEF Stages
    <3>3. RequestInv'
      BY <3>2, OthersKeep DEF RequestInv
    <3>4. StageInv' /\ pc'["bars"] = pc["bars"]
      BY <1>1, <3>2 DEF StageInv, Actors, Pollers, barVars, takenVars
    <3> QED  BY <3>1, <3>2, <3>3, <3>4 DEF ActorsOK
  <2> QED  BY <2>1, <2>2
<1>4. starts' \in Nat
  OBVIOUS
<1>5. BarInv'
  BY <1>3, BarsKeep DEF ActorsOK, serviceVars, barVars
<1> QED  BY <1>3, <1>4, <1>5 DEF ActorsOK, TokenInv, barVars, takenVars, serviceVars, Stages

LEMMA WorldKeeps ==
  ASSUME ProviderInv, Tick \/ NewCandle
  PROVE  ProviderInv'
<1> USE DEF ProviderInv, ProviderTypeOK
<1>1. CASE Tick
  <2>1. ASSUME NEW a \in Actors PROVE RequestOK(a)'
    <3>1. RequestOK(a)
      BY DEF RequestInv
    <3>2. CASE request[a] = None
      BY <1>1, <3>1, <3>2 DEF RequestOK, Tick
    <3>3. CASE request[a] # None
      <4>1. clock < request[a].sent + Patience /\ request[a].sent \in Nat
        BY <1>1, <3>3 DEF Tick, Requests
      <4>2. request[a].sent <= clock' /\ clock' <= request[a].sent + Patience
        <5>1. request[a].sent <= clock /\ clock' = clock + 1 /\ clock \in Nat /\ Patience \in Nat
          BY <1>1, <3>1, <3>3, ProviderAssumption DEF Tick, RequestOK
        <5> HIDE DEF ProviderInv, ProviderTypeOK
        <5> QED  BY <4>1, <5>1
      <4> QED  BY <1>1, <3>1, <4>2 DEF RequestOK, Tick
    <3> QED  BY <3>2, <3>3
  <2>2. BarInv'
    BY <1>1, BarsKeep DEF Tick, serviceVars, barVars
  <2> QED  BY <1>1, <2>1, <2>2 DEF Tick, TokenInv, RequestInv, StageInv, barVars, takenVars, serviceVars
<1>2. CASE NewCandle
  <2>1. opens' = opens \/ opens' = Append(opens, candles)
    BY <1>2 DEF NewCandle
  <2>2. BarInv'
    BY <1>2, <2>1, BarsKeep DEF NewCandle, barVars
  <2>3. opens' \in Seq(Nat)
    BY <2>1, DaysAdd
  <2> QED  BY <1>2, <2>2, <2>3 DEF NewCandle, TokenInv, RequestInv, RequestOK, StageInv, barVars, takenVars
<1> QED  BY <1>1, <1>2

-----------------------------------------------------------------------------
(* The theorems *)

LEMMA InitProvider == Init => ProviderInv
<1> SUFFICES ASSUME Init PROVE ProviderInv
  OBVIOUS
<1> USE DEF Init
<1>1. token \in Tokens /\ Dated(token) /\ clock \in Nat /\ starts \in Nat
  BY ProviderAssumption DEF Tokens, Dated
<1>2. \A k \in DOMAIN Symbols : lastTs[k] = 0 /\ Due(k) = <<>>
  BY DEF NoBars, Due
<1>3. lastTs \in [DOMAIN Symbols -> Nat] /\ handed \in [DOMAIN Symbols -> Seq(Nat)]
      /\ turn \in DOMAIN Symbols /\ pending \in Seq(Nat) /\ opens \in Seq(Nat)
  BY ProviderAssumption DEF NoBars
<1>4. ProviderTypeOK
  BY <1>1, <1>3 DEF ProviderTypeOK
<1>5. RequestInv
  BY DEF RequestInv, RequestOK
<1>6. StageInv
  BY DEF StageInv, Actors, Pollers
<1>7. BarInv
  BY <1>2 DEF BarInv, CandlesOnceInOrder, Today, Last
<1> QED  BY <1>1, <1>4, <1>5, <1>6, <1>7 DEF ProviderInv, TokenInv

LEMMA NextKeepsProvider == ProviderInv /\ [Next]_vars => ProviderInv'
<1> SUFFICES ASSUME ProviderInv, [Next]_vars PROVE ProviderInv'
  OBVIOUS
<1>1. ASSUME NEW a \in Actors, Progress(a) PROVE ProviderInv'
  <2>1. CASE IssueToken(a) \/ RefreshDenied(a) \/ RefreshAnswered(a)
    BY <2>1, IssueKeeps, DeniedKeeps, AnsweredKeeps
  <2>2. CASE Lost(a) \/ GetDenied(a)
    BY <2>2, LostKeeps, GetDeniedKeeps
  <2>3. CASE Connected
    BY <2>3, ConnectedKeeps
  <2>4. CASE a \in Pollers /\ Wake(a)
    BY <2>4, WakeKeeps
  <2>5. CASE QuotesAnswered \/ BarsAnswered
    BY <2>5, QuotesKeep, BarsAnsweredKeeps
  <2>6. CASE Hand \/ HandRaises
    BY <2>6, HandKeeps, HandRaisesKeeps
  <2> QED  BY <1>1, <2>1, <2>2, <2>3, <2>4, <2>5, <2>6 DEF Progress, Pollers
<1>2. ASSUME NEW a \in Actors, StopWhileSaving(a) PROVE ProviderInv'
  BY <1>2, DownKeeps DEF StopWhileSaving
<1>3. CASE Start
  BY <1>3, StartKeeps
<1>4. CASE Stop
  BY <1>4, DownKeeps DEF Stop
<1>5. CASE Tick \/ NewCandle
  BY <1>5, WorldKeeps
<1>6. CASE UNCHANGED vars
  BY <1>6 DEF vars, serviceVars, barVars, takenVars, ProviderInv, ProviderTypeOK, TokenInv, RequestInv,
              RequestOK, StageInv, BarInv, CandlesOnceInOrder, Due, Follows, Today
<1> QED  BY <1>1, <1>2, <1>3, <1>4, <1>5, <1>6 DEF Next

(* The inductive invariant holds of every execution.                        *)
THEOREM ProviderInvariant == Spec => []ProviderInv
<1> QED  BY InitProvider, NextKeepsProvider, PTL DEF Spec

(* Types are kept by every step.                                            *)
THEOREM ProviderTypeCorrect == Spec => []ProviderTypeOK
<1>1. ProviderInv => ProviderTypeOK
  BY DEF ProviderInv
<1> QED  BY <1>1, ProviderInvariant, PTL

(* The first request of a round carries a token that is alive, for any      *)
(* margin that is no shorter than a request may take.                       *)
THEOREM FirstRequestIsAuthorised == Spec => []FirstRequestAuthorised
<1>1. ProviderInv => FirstRequestAuthorised
  BY DEF ProviderInv, RequestInv, RequestOK, FirstRequestAuthorised
<1> QED  BY <1>1, ProviderInvariant, PTL

(* The engine is given each candle once and in order, and misses only the   *)
(* rest of a day that ended before its symbol was answered again, for any   *)
(* number of symbols, candles, days and starts.                             *)
THEOREM CandlesComeOnceInOrder == Spec => []CandlesOnceInOrder
<1>1. ProviderInv => CandlesOnceInOrder
  BY DEF ProviderInv, BarInv
<1> QED  BY <1>1, ProviderInvariant, PTL
=============================================================================
