---------------------------- MODULE ServerProofs ----------------------------
(***************************************************************************)
(* What two parts of the observer's server guarantee that share nothing.   *)
(*                                                                         *)
(* The websocket fan-out, for any number of broadcasting tasks,            *)
(* connections and messages, however the list of connections shifts under  *)
(* the iterators of the broadcasts under way.                              *)
(*                                                                         *)
(* The opening range strategy, for any bars, calendar and configuration:   *)
(* what it keeps from bar to bar has it signal the first breakouts of the  *)
(* session, and no others.                                                 *)
(***************************************************************************)
EXTENDS Broadcast, ObserverStrategies, FiniteSetTheorems, SequenceTheorems,
        WellFoundedInduction, TLAPS

\* The connections the iterator of a broadcast has still to come to, and how
\* many messages of a task have been broadcast to the end.
Ahead(t) == {connections[k] : k \in cursor[t]..Len(connections)}
Sent(t) == issued[t] - left[t]

-----------------------------------------------------------------------------
(* The list *)

(* An increasing choice of indices skips some of them at most. *)
LEMMA IncreasingIsBeyond ==
  ASSUME NEW n \in Nat, NEW m \in Nat, NEW at \in [1..n -> 1..m],
         \A j, k \in 1..n : j < k => at[j] < at[k],
         NEW c \in 1..n
  PROVE  c <= at[c]
<1> SUFFICES ASSUME at[c] < c PROVE FALSE
  OBVIOUS
<1> DEFINE first == [k \in 1..c |-> at[k]]
<1>1. at[c] \in Nat /\ c \in Nat /\ at[c] \in Int
  OBVIOUS
<1>2. first \in [1..c -> 1..at[c]]
  <2> SUFFICES ASSUME NEW k \in 1..c PROVE at[k] \in 1..at[c]
    OBVIOUS
  <2>1. k \in 1..n /\ at[k] \in 1..m
    OBVIOUS
  <2>2. k < c \/ k = c
    OBVIOUS
  <2> QED
    BY <1>1, <2>1, <2>2
<1>3. /\ IsFiniteSet(1..c) /\ IsFiniteSet(1..at[c])
      /\ Cardinality(1..at[c]) < Cardinality(1..c)
  <2>1. 1 \in Int /\ c \in Int /\ at[c] \in Int /\ c >= 1 /\ at[c] >= 1
    OBVIOUS
  <2>2. IsFiniteSet(1..c) /\ Cardinality(1..c) = IF 1 > c THEN 0 ELSE c - 1 + 1
    BY <2>1, FS_Interval
  <2>3. /\ IsFiniteSet(1..at[c])
        /\ Cardinality(1..at[c]) = IF 1 > at[c] THEN 0 ELSE at[c] - 1 + 1
    BY <2>1, FS_Interval
  <2> QED
    BY <2>1, <2>2, <2>3
<1> HIDE DEF first
<1>4. PICK x, y \in 1..c : x # y /\ first[x] = first[y]
  BY <1>2, <1>3, FS_PigeonHole
<1>5. x \in 1..n /\ y \in 1..n /\ at[x] = at[y] /\ at[x] \in Int
  BY <1>4 DEF first
<1> QED
  BY <1>4, <1>5

(* list.remove: the others stay, in place or further to the front. *)
LEMMA RemovingKeeps ==
  ASSUME NEW gone, connections \in Seq(Conns), IsInjective(connections), Removing(gone)
  PROVE  /\ connections' \in Seq(Conns) /\ IsInjective(connections')
         /\ Registered' = Registered \ gone
         /\ \A c \in Nat \ {0} : {connections'[k] : k \in c..Len(connections')}
                                   \subseteq {connections[k] : k \in c..Len(connections)}
<1> DEFINE kept == {k \in DOMAIN connections : connections[k] \notin gone}
<1>1. PICK n \in 0..Len(connections) : \E at \in [1..n -> kept] :
        /\ \A j, k \in 1..n : j < k => at[j] < at[k]
        /\ kept = {at[k] : k \in 1..n}
        /\ connections' = [k \in 1..n |-> connections[at[k]]]
  BY DEF Removing
<1>2. PICK at \in [1..n -> kept] :
        /\ \A j, k \in 1..n : j < k => at[j] < at[k]
        /\ kept = {at[k] : k \in 1..n}
        /\ connections' = [k \in 1..n |-> connections[at[k]]]
  BY <1>1
<1>3. /\ n \in Nat /\ Len(connections) \in Nat
      /\ DOMAIN connections = 1..Len(connections)
      /\ kept \subseteq 1..Len(connections)
      /\ at \in [1..n -> 1..Len(connections)]
  OBVIOUS
<1>4. /\ \A k \in 1..n : at[k] \in 1..Len(connections) /\ connections[at[k]] \in Conns
      /\ \A k \in 1..n : connections'[k] = connections[at[k]]
      /\ Len(connections') = n /\ DOMAIN connections' = 1..n
      /\ connections' \in Seq(Conns)
  BY <1>2, <1>3
<1>5. \A k \in 1..n : k <= at[k]
  BY <1>2, <1>3, IncreasingIsBeyond
<1>6. IsInjective(connections')
  <2> SUFFICES ASSUME NEW j \in 1..n, NEW k \in 1..n, connections'[j] = connections'[k]
               PROVE  j = k
    BY <1>4 DEF IsInjective
  <2>1. at[j] = at[k] /\ at[j] \in Int
    BY <1>3, <1>4 DEF IsInjective
  <2>2. j \in Int /\ k \in Int
    BY <1>3
  <2>3. j < k => at[j] < at[k]
    BY <1>2
  <2>4. k < j => at[k] < at[j]
    BY <1>2
  <2> QED
    BY <2>1, <2>2, <2>3, <2>4
<1>7. Registered' = Registered \ gone
  <2>1. ASSUME NEW k \in 1..n PROVE connections'[k] \in Registered \ gone
    BY <1>3, <1>4 DEF Registered, ToSet
  <2>2. ASSUME NEW ws \in Registered \ gone PROVE ws \in Registered'
    <3>1. PICK j \in kept : ws = connections[j]
      BY DEF Registered, ToSet
    <3>2. PICK k \in 1..n : j = at[k]
      BY <1>2
    <3> QED
      BY <1>4, <3>1, <3>2 DEF Registered, ToSet
  <2>3. Registered' = {connections'[k] : k \in 1..n}
    BY <1>4 DEF Registered, ToSet
  <2> QED
    BY <2>1, <2>2, <2>3
<1>8. ASSUME NEW c \in Nat \ {0}, NEW k \in c..Len(connections')
      PROVE  connections'[k] \in {connections[j] : j \in c..Len(connections)}
  <2>1. k \in 1..n
    BY <1>4
  <2>2. at[k] \in c..Len(connections)
    <3>1. at[k] \in 1..Len(connections) /\ k <= at[k] /\ c <= k
      BY <1>3, <1>5, <2>1
    <3> QED
      BY <1>3, <3>1
  <2> QED
    BY <1>4, <2>1, <2>2
<1>9. ASSUME NEW c \in Nat \ {0}
      PROVE  {connections'[k] : k \in c..Len(connections')}
               \subseteq {connections[j] : j \in c..Len(connections)}
  BY <1>8
<1> QED
  BY <1>4, <1>6, <1>7, <1>9

-----------------------------------------------------------------------------
(* The inductive invariant.  A message a connection may have of a broadcast *)
(* still under way is one its iterator has passed; a connection not yet on  *)
(* the list has none; whoever was there at the beginning of an undisturbed  *)
(* broadcast has been tried or is still ahead.                              *)
EndpointInv ==
    \A ws \in Conns :
      /\ endpoint[ws] \in {"new", "accepted"} => ws \notin Registered /\ wire[ws] = <<>>
      /\ endpoint[ws] = "new" => peer[ws] = "absent"
      /\ endpoint[ws] = "serving" /\ peer[ws] = "open" => ws \in Registered

DeadInv == \A t \in Tasks : \A ws \in dead[t] : peer[ws] = "gone"

Received(ws, t, m) ==
    \/ m.n <= Sent(t)
    \/ m.n = Sent(t) + 1 /\ Broadcasting(t) /\ ws \notin Ahead(t)
WireInv ==
    \A ws \in Conns, t \in Tasks : \A j \in DOMAIN wire[ws] :
      wire[ws][j].task = t => Received(ws, t, wire[ws][j])

TriedInv ==
    \A t \in Tasks : Broadcasting(t) /\ ~disturbed[t] => audience[t] \subseteq reached[t] \cup Ahead(t)

BroadcastInv ==
    BroadcastTypeOK /\ EndpointInv /\ DeadInv /\ WireInv /\ InOrder /\ TriedInv

LEMMA InitInv == BroadcastInit => BroadcastInv
<1> SUFFICES ASSUME BroadcastInit PROVE BroadcastInv
  OBVIOUS
<1> USE DEF BroadcastInit
<1>1. BroadcastTypeOK
  BY DEF BroadcastTypeOK, IsInjective, Broadcasting
<1>2. EndpointInv /\ DeadInv
  BY DEF EndpointInv, DeadInv, Registered, ToSet
<1>3. WireInv /\ InOrder
  BY DEF WireInv, InOrder
<1>4. TriedInv
  BY DEF TriedInv, Broadcasting
<1> QED
  BY <1>1, <1>2, <1>3, <1>4 DEF BroadcastInv

(* The list as it is for the iterators. *)
LEMMA AheadOfShrunk ==
  ASSUME BroadcastTypeOK, NEW gone, Removing(gone), NEW t \in Tasks, Broadcasting(t),
         cursor'[t] = cursor[t]
  PROVE  Ahead(t)' \subseteq Ahead(t)
<1>1. cursor[t] \in Nat \ {0}
  BY DEF BroadcastTypeOK, Broadcasting
<1> QED
  BY <1>1, RemovingKeeps DEF BroadcastTypeOK, Ahead

LEMMA AheadOfGrown ==
  ASSUME BroadcastTypeOK, NEW ws \in Conns, connections' = Append(connections, ws),
         NEW t \in Tasks, Broadcasting(t), cursor'[t] = cursor[t]
  PROVE  Ahead(t) \subseteq Ahead(t)' /\ Ahead(t)' \subseteq Ahead(t) \cup {ws}
<1>1. connections \in Seq(Conns) /\ cursor[t] \in Nat \ {0}
  BY DEF BroadcastTypeOK, Broadcasting
<1>2. /\ Len(connections') = Len(connections) + 1 /\ Len(connections) \in Nat
      /\ \A k \in 1..Len(connections) : connections'[k] = connections[k]
      /\ connections'[Len(connections) + 1] = ws
  BY <1>1
<1>3. ASSUME NEW k \in cursor[t]..Len(connections) PROVE connections[k] \in Ahead(t)'
  BY <1>1, <1>2 DEF Ahead
<1>4. ASSUME NEW k \in cursor[t]..Len(connections')
      PROVE  connections'[k] \in Ahead(t) \cup {ws}
  <2>1. k = Len(connections) + 1 \/ k \in cursor[t]..Len(connections)
    BY <1>1, <1>2
  <2>2. k \in cursor[t]..Len(connections) => k \in 1..Len(connections)
    BY <1>1, <1>2
  <2> QED
    BY <1>2, <2>1, <2>2 DEF Ahead
<1> QED
  BY <1>3, <1>4 DEF Ahead

LEMMA AheadAfterOne ==
  ASSUME BroadcastTypeOK, NEW t \in Tasks, Broadcasting(t), cursor[t] <= Len(connections),
         UNCHANGED connections, cursor'[t] = cursor[t] + 1
  PROVE  /\ connections[cursor[t]] \in Conns /\ connections[cursor[t]] \in Registered
         /\ connections[cursor[t]] \in Ahead(t)
         /\ Ahead(t)' = Ahead(t) \ {connections[cursor[t]]}
<1> DEFINE c == cursor[t]
<1>1. /\ connections \in Seq(Conns) /\ c \in Nat \ {0} /\ c \in 1..Len(connections)
      /\ Len(connections) \in Nat
  BY DEF BroadcastTypeOK, Broadcasting
<1>2. \A j, k \in 1..Len(connections) : connections[j] = connections[k] => j = k
  BY <1>1 DEF BroadcastTypeOK, IsInjective
<1>3. Ahead(t)' = {connections[k] : k \in (c + 1)..Len(connections)}
  BY DEF Ahead
<1>4. c..Len(connections) = {c} \cup ((c + 1)..Len(connections))
  BY <1>1
<1>5. \A k \in (c + 1)..Len(connections) : connections[k] # connections[c]
  BY <1>1, <1>2
<1>6. Ahead(t) = {connections[k] : k \in c..Len(connections)}
  BY DEF Ahead
<1>7. connections[c] \in Conns /\ connections[c] \in Registered
  BY <1>1 DEF Registered, ToSet
<1> HIDE DEF c
<1>8. connections[c] \in Ahead(t) /\ Ahead(t)' = Ahead(t) \ {connections[c]}
  BY <1>3, <1>4, <1>5, <1>6
<1> QED
  BY <1>7, <1>8 DEF c

LEMMA SentType ==
  ASSUME BroadcastTypeOK, NEW t \in Tasks
  PROVE  left[t] \in Nat /\ issued[t] \in Nat /\ Sent(t) \in Int /\ cursor[t] \in Nat
BY DEF BroadcastTypeOK, Sent

LEMMA ItemOfSeq ==
  ASSUME NEW S, NEW s \in Seq(S), NEW j \in DOMAIN s
  PROVE  s[j] \in S
OBVIOUS

LEMMA AppendElements ==
  ASSUME NEW S, NEW s \in Seq(S), NEW e \in S
  PROVE  /\ Append(s, e) \in Seq(S) /\ Len(s) \in Nat
         /\ DOMAIN s = 1..Len(s) /\ DOMAIN Append(s, e) = 1..(Len(s) + 1)
         /\ \A k \in 1..Len(s) : Append(s, e)[k] = s[k]
         /\ Append(s, e)[Len(s) + 1] = e
OBVIOUS

LEMMA MessageType ==
  ASSUME BroadcastTypeOK, NEW ws \in Conns, NEW j \in DOMAIN wire[ws]
  PROVE  wire[ws][j].n \in Nat /\ wire[ws][j].task \in Tasks
<1> DEFINE M == [task : Tasks, n : Nat]
<1>1. wire[ws] \in Seq(M)
  BY DEF BroadcastTypeOK
<1> HIDE DEF M
<1>2. wire[ws][j] \in M
  BY <1>1, ItemOfSeq
<1> QED
  BY <1>2 DEF M

(* What is on the wire stays in order while nothing is sent: a broadcast    *)
(* under way gets nobody ahead again who has something already.             *)
LEMMA WireKept ==
  ASSUME BroadcastTypeOK, WireInv, InOrder,
         \A v \in Conns : wire'[v] = wire[v] \/ wire'[v] = <<>>,
         \A t \in Tasks :
           \/ Sent(t)' = Sent(t) + 1
           \/ /\ Sent(t)' = Sent(t)
              /\ Broadcasting(t) =>
                   /\ Broadcasting(t)'
                   /\ \A v \in Conns : v \in Ahead(t)' => v \in Ahead(t) \/ wire'[v] = <<>>
  PROVE  WireInv' /\ InOrder'
<1>1. InOrder'
  <2> SUFFICES ASSUME NEW ws \in Conns, NEW j \in DOMAIN wire'[ws], NEW k \in DOMAIN wire'[ws],
                      j < k, wire'[ws][j].task = wire'[ws][k].task
               PROVE  wire'[ws][j].n < wire'[ws][k].n
    BY DEF InOrder
  <2>1. wire'[ws] = wire[ws]
    OBVIOUS
  <2> QED
    BY <2>1 DEF InOrder
<1>2. ASSUME NEW ws \in Conns, NEW t \in Tasks, NEW j \in DOMAIN wire'[ws], wire'[ws][j].task = t
      PROVE  \/ wire'[ws][j].n <= Sent(t)'
             \/ /\ wire'[ws][j].n = Sent(t)' + 1 /\ Broadcasting(t)' /\ ws \notin Ahead(t)'
  <2>1. wire'[ws] = wire[ws] /\ wire'[ws] # <<>>
    BY <1>2
  <2>2. \/ wire[ws][j].n <= Sent(t)
        \/ wire[ws][j].n = Sent(t) + 1 /\ Broadcasting(t) /\ ws \notin Ahead(t)
    BY <1>2, <2>1 DEF WireInv, Received
  <2>3. wire[ws][j].n \in Nat /\ Sent(t) \in Int
    BY <2>1, <1>2, MessageType, SentType
  <2> QED
    BY <2>1, <2>2, <2>3
<1>3. WireInv'
  BY <1>2 DEF WireInv, Received
<1> QED
  BY <1>1, <1>3

-----------------------------------------------------------------------------
(* The connections' own steps *)

LEMMA AcceptInv ==
  ASSUME BroadcastInv, NEW ws \in Conns, Accept(ws)
  PROVE  BroadcastInv'
<1> USE DEF BroadcastInv
<1>1. /\ UNCHANGED <<connections, left, cursor, dead, issued, wire, audience, reached, disturbed>>
      /\ endpoint[ws] = "new" /\ peer[ws] = "absent"
      /\ endpoint' = [endpoint EXCEPT ![ws] = "accepted"]
      /\ peer' = [peer EXCEPT ![ws] = "open"]
  BY DEF Accept, taskVars, heardVars, EndpointInv
<1>2. BroadcastTypeOK'
  BY <1>1 DEF BroadcastTypeOK, Broadcasting
<1>3. EndpointInv'
  BY <1>1 DEF EndpointInv, BroadcastTypeOK, Registered
<1>4. DeadInv'
  BY <1>1 DEF DeadInv, BroadcastTypeOK
<1>5. WireInv' /\ InOrder'
  <2>1. \A t \in Tasks : /\ Sent(t)' = Sent(t) /\ Ahead(t)' = Ahead(t)
                         /\ Broadcasting(t)' = Broadcasting(t)
    BY <1>1 DEF Sent, Ahead, Broadcasting
  <2> QED
    BY <1>1, <2>1, WireKept
<1>6. TriedInv'
  BY <1>1 DEF TriedInv, Ahead, Broadcasting
<1> QED
  BY <1>2, <1>3, <1>4, <1>5, <1>6

LEMMA LeaveInv ==
  ASSUME BroadcastInv, NEW ws \in Conns, Leave(ws)
  PROVE  BroadcastInv'
<1> USE DEF BroadcastInv
<1>1. /\ UNCHANGED <<connections, endpoint, left, cursor, dead, issued, audience, reached, disturbed>>
      /\ peer[ws] = "open" /\ peer' = [peer EXCEPT ![ws] = "gone"]
      /\ wire' = [wire EXCEPT ![ws] = <<>>]
  BY DEF Leave, serverVars, taskVars, heardVars
<1>2. BroadcastTypeOK'
  <2>1. wire' \in [Conns -> Seq([task : Tasks, n : Nat])]
    <3>1. <<>> \in Seq([task : Tasks, n : Nat])
      OBVIOUS
    <3> QED
      BY <1>1, <3>1 DEF BroadcastTypeOK
  <2>2. peer' \in [Conns -> {"absent", "open", "gone"}]
    BY <1>1 DEF BroadcastTypeOK
  <2> QED
    BY <1>1, <2>1, <2>2 DEF BroadcastTypeOK, Broadcasting
<1>3. EndpointInv'
  BY <1>1 DEF EndpointInv, BroadcastTypeOK, Registered
<1>4. DeadInv'
  BY <1>1 DEF DeadInv, BroadcastTypeOK
<1>5. WireInv' /\ InOrder'
  <2>1. \A t \in Tasks : /\ Sent(t)' = Sent(t) /\ Ahead(t)' = Ahead(t)
                         /\ Broadcasting(t)' = Broadcasting(t)
    BY <1>1 DEF Sent, Ahead, Broadcasting
  <2>2. \A v \in Conns : wire'[v] = wire[v] \/ wire'[v] = <<>>
    BY <1>1 DEF BroadcastTypeOK
  <2> QED
    BY <2>1, <2>2, WireKept
<1>6. TriedInv'
  BY <1>1 DEF TriedInv, Ahead, Broadcasting
<1> QED
  BY <1>2, <1>3, <1>4, <1>5, <1>6

LEMMA RegisterInv ==
  ASSUME BroadcastInv, NEW ws \in Conns, Register(ws)
  PROVE  BroadcastInv'
<1> USE DEF BroadcastInv
<1>1. /\ UNCHANGED <<peer, left, cursor, dead, issued, wire, audience, reached, disturbed>>
      /\ endpoint[ws] = "accepted" /\ endpoint' = [endpoint EXCEPT ![ws] = "serving"]
      /\ connections' = Append(connections, ws)
      /\ ws \notin Registered /\ wire[ws] = <<>>
  BY DEF Register, Joined, taskVars, heardVars, EndpointInv
<1>2. /\ connections' \in Seq(Conns) /\ IsInjective(connections')
      /\ Registered' = Registered \cup {ws}
  <2>1. /\ connections \in Seq(Conns) /\ Len(connections) \in Nat
        /\ DOMAIN connections = 1..Len(connections)
        /\ connections' \in Seq(Conns) /\ DOMAIN connections' = 1..(Len(connections) + 1)
        /\ \A k \in 1..Len(connections) : connections'[k] = connections[k]
        /\ connections'[Len(connections) + 1] = ws
    BY <1>1, AppendElements DEF BroadcastTypeOK
  <2>2. \A k \in DOMAIN connections : connections[k] # ws
    BY <1>1 DEF Registered, ToSet
  <2>3. IsInjective(connections')
    <3> SUFFICES ASSUME NEW j \in DOMAIN connections', NEW k \in DOMAIN connections',
                        connections'[j] = connections'[k], j < k
                 PROVE  FALSE
      BY <2>1 DEF IsInjective
    <3>1. j \in 1..Len(connections) /\ connections'[j] = connections[j]
      BY <2>1
    <3>2. CASE k \in 1..Len(connections)
      <4>1. connections[j] = connections[k] /\ j \in DOMAIN connections /\ k \in DOMAIN connections
        BY <2>1, <3>1, <3>2
      <4>2. j = k
        BY <4>1 DEF BroadcastTypeOK, IsInjective
      <4> QED
        BY <2>1, <4>2
    <3>3. CASE k = Len(connections) + 1
      BY <2>1, <2>2, <3>1, <3>3
    <3> QED
      BY <2>1, <3>2, <3>3
  <2> QED
    BY <2>1, <2>3 DEF Registered, ToSet
<1>3. BroadcastTypeOK'
  BY <1>1, <1>2 DEF BroadcastTypeOK, Broadcasting
<1>4. EndpointInv'
  BY <1>1, <1>2 DEF EndpointInv, BroadcastTypeOK
<1>5. DeadInv'
  BY <1>1 DEF DeadInv
<1>6. \A t \in Tasks : Broadcasting(t) => Ahead(t) \subseteq Ahead(t)' /\ Ahead(t)' \subseteq Ahead(t) \cup {ws}
  BY <1>1, AheadOfGrown
<1>7. WireInv' /\ InOrder'
  <2>1. \A t \in Tasks : Sent(t)' = Sent(t) /\ Broadcasting(t)' = Broadcasting(t)
    BY <1>1 DEF Sent, Broadcasting
  <2> QED
    BY <1>1, <1>6, <2>1, WireKept
<1>8. TriedInv'
  BY <1>1, <1>6 DEF TriedInv, Broadcasting
<1> QED
  BY <1>3, <1>4, <1>5, <1>7, <1>8

LEMMA UnregisterInv ==
  ASSUME BroadcastInv, NEW ws \in Conns, Unregister(ws)
  PROVE  BroadcastInv'
<1> USE DEF BroadcastInv
<1>1. /\ UNCHANGED <<peer, left, cursor, dead, issued, wire, audience, reached>>
      /\ endpoint[ws] = "serving" /\ peer[ws] = "gone"
      /\ \A t \in Tasks : Sent(t)' = Sent(t) /\ Broadcasting(t)' = Broadcasting(t)
  BY DEF Unregister, taskVars, Sent, Broadcasting
<1>2. CASE ws \notin Registered
  <2>1. UNCHANGED <<connections, disturbed>> /\ endpoint' = [endpoint EXCEPT ![ws] = "raised"]
    BY <1>2 DEF Unregister
  <2>2. \A t \in Tasks : Ahead(t)' = Ahead(t)
    BY <1>1, <2>1 DEF Ahead
  <2>3. BroadcastTypeOK'
    BY <1>1, <2>1 DEF BroadcastTypeOK, Broadcasting
  <2>4. EndpointInv'
    BY <1>1, <2>1 DEF EndpointInv, BroadcastTypeOK, Registered
  <2>5. WireInv' /\ InOrder'
    BY <1>1, <2>2, WireKept
  <2>6. DeadInv' /\ TriedInv'
    BY <1>1, <2>1, <2>2 DEF DeadInv, TriedInv
  <2> QED
    BY <2>3, <2>4, <2>5, <2>6
<1>3. CASE ws \in Registered
  <2>1. /\ Removing({ws})
        /\ endpoint' = [endpoint EXCEPT ![ws] = "closed"]
        /\ disturbed' = [t \in Tasks |-> Broadcasting(t)]
    BY <1>3 DEF Unregister
  <2>2. /\ connections' \in Seq(Conns) /\ IsInjective(connections')
        /\ Registered' = Registered \ {ws}
    BY <2>1, RemovingKeeps DEF BroadcastTypeOK
  <2>3. disturbed' \in [Tasks -> BOOLEAN]
    BY <2>1 DEF Broadcasting
  <2>4. BroadcastTypeOK'
    BY <1>1, <2>1, <2>2, <2>3 DEF BroadcastTypeOK
  <2>5. EndpointInv'
    BY <1>1, <2>1, <2>2 DEF EndpointInv, BroadcastTypeOK
  <2>6. \A t \in Tasks : Broadcasting(t) => Ahead(t)' \subseteq Ahead(t)
    BY <1>1, <2>1, AheadOfShrunk
  <2>7. WireInv' /\ InOrder'
    BY <1>1, <2>6, WireKept
  <2>8. DeadInv' /\ TriedInv'
    BY <1>1, <2>1 DEF DeadInv, TriedInv
  <2> QED
    BY <2>4, <2>5, <2>7, <2>8
<1> QED
  BY <1>2, <1>3

-----------------------------------------------------------------------------
(* The steps of a broadcast *)

LEMMA AheadAtFirst ==
  ASSUME connections' \in Seq(Conns), NEW t \in Tasks, cursor'[t] = 1
  PROVE  Ahead(t)' = Registered'
BY DEF Ahead, Registered, ToSet

LEMMA PublishInv ==
  ASSUME BroadcastInv, NEW t \in Tasks, NEW n \in 1..MaxBatch[t], Publish(t, n)
  PROVE  BroadcastInv'
<1> USE DEF BroadcastInv
<1>1. /\ UNCHANGED <<connections, endpoint, peer, wire>>
      /\ left[t] = 0 /\ ~Broadcasting(t)
      /\ left' = [left EXCEPT ![t] = n] /\ issued' = [issued EXCEPT ![t] = @ + n]
      /\ cursor' = [cursor EXCEPT ![t] = 1]
      /\ dead' = [dead EXCEPT ![t] = {}]
      /\ audience' = [audience EXCEPT ![t] = Registered]
      /\ reached' = [reached EXCEPT ![t] = {}]
      /\ disturbed' = [disturbed EXCEPT ![t] = FALSE]
  BY DEF Publish, Begin, NoneDead, serverVars, BroadcastTypeOK
<1>2. n \in Nat \ {0} /\ Registered \subseteq Conns
  BY BroadcastAssumption DEF BroadcastTypeOK, Registered, ToSet
<1>3. \A u \in Tasks \ {t} : /\ Sent(u)' = Sent(u) /\ Ahead(u)' = Ahead(u)
                             /\ Broadcasting(u)' = Broadcasting(u)
  BY <1>1 DEF Sent, Ahead, Broadcasting, BroadcastTypeOK
<1>4. Sent(t)' = Sent(t)
  BY <1>1, <1>2, SentType DEF Sent, BroadcastTypeOK
<1>5. Ahead(t)' = Registered
  BY <1>1, AheadAtFirst DEF BroadcastTypeOK, Registered
<1>6. BroadcastTypeOK'
  <2>1. \A u \in Tasks : left'[u] <= issued'[u] /\ (Broadcasting(u)' <=> left'[u] > 0)
    BY <1>1, <1>2 DEF BroadcastTypeOK, Broadcasting
  <2>2. disturbed' \in [Tasks -> BOOLEAN]
    BY <1>1 DEF BroadcastTypeOK
  <2>3. cursor' \in [Tasks -> Nat] /\ left' \in [Tasks -> Nat] /\ issued' \in [Tasks -> Nat]
    BY <1>1, <1>2 DEF BroadcastTypeOK
  <2> QED
    BY <1>1, <1>2, <2>1, <2>2, <2>3 DEF BroadcastTypeOK
<1>7. EndpointInv' /\ DeadInv'
  BY <1>1 DEF EndpointInv, DeadInv, Registered, BroadcastTypeOK
<1>8. WireInv' /\ InOrder'
  BY <1>1, <1>3, <1>4, WireKept
<1>9. TriedInv'
  <2>1. \A u \in Tasks \ {t} : /\ audience'[u] = audience[u] /\ reached'[u] = reached[u]
                               /\ disturbed'[u] = disturbed[u]
    BY <1>1 DEF BroadcastTypeOK
  <2>2. audience'[t] = Registered
    BY <1>1 DEF BroadcastTypeOK
  <2> QED
    BY <1>3, <1>5, <2>1, <2>2 DEF TriedInv
<1> QED
  BY <1>6, <1>7, <1>8, <1>9

(* A send puts a new message last on one wire at most, and its iterator     *)
(* leaves that connection behind.                                           *)
LEMMA SendInv ==
  ASSUME BroadcastInv, NEW t \in Tasks, Send(t)
  PROVE  BroadcastInv'
<1> USE DEF BroadcastInv
<1> DEFINE ws == connections[cursor[t]]
           msg == Current(t)
<1>1. /\ UNCHANGED <<connections, endpoint, peer, left, issued, audience, disturbed>>
      /\ Broadcasting(t) /\ cursor[t] <= Len(connections)
      /\ cursor' = [cursor EXCEPT ![t] = @ + 1]
      /\ reached' = [reached EXCEPT ![t] = @ \cup {ws}]
  BY DEF Send, serverVars
<1>2. \/ peer[ws] = "open" /\ wire' = [wire EXCEPT ![ws] = Append(@, msg)] /\ dead' = dead
      \/ peer[ws] = "gone" /\ dead' = dead /\ wire' = wire
      \/ peer[ws] = "gone" /\ dead' = [dead EXCEPT ![t] = @ \cup {ws}] /\ wire' = wire
  BY DEF Send
<1>3. cursor'[t] = cursor[t] + 1 /\ cursor[t] \in Nat
  BY <1>1 DEF BroadcastTypeOK
<1>4. /\ ws \in Conns /\ ws \in Registered /\ ws \in Ahead(t)
      /\ Ahead(t)' = Ahead(t) \ {ws}
  BY <1>1, <1>3, AheadAfterOne
<1>5. /\ \A u \in Tasks : Sent(u)' = Sent(u) /\ Broadcasting(u)' = Broadcasting(u)
      /\ \A u \in Tasks \ {t} : Ahead(u)' = Ahead(u)
      /\ \A u \in Tasks : Ahead(u)' \subseteq Ahead(u)
  <2>1. \A u \in Tasks : Sent(u)' = Sent(u)
    BY <1>1 DEF Sent
  <2>2. \A u \in Tasks \ {t} : cursor'[u] = cursor[u]
    BY <1>1 DEF BroadcastTypeOK
  <2>3. \A u \in Tasks \ {t} : Ahead(u)' = Ahead(u) /\ Broadcasting(u)' = Broadcasting(u)
    BY <1>1, <2>2 DEF Ahead, Broadcasting
  <2>4. Broadcasting(t)' = Broadcasting(t)
    BY <1>1, <1>3 DEF Broadcasting
  <2> QED
    BY <1>4, <2>1, <2>3, <2>4
<1>6. msg \in [task : Tasks, n : Nat] /\ msg.task = t /\ msg.n = Sent(t) + 1 /\ Sent(t) \in Int
  <2>1. /\ left[t] \in Nat /\ issued[t] \in Nat /\ left[t] <= issued[t]
    BY DEF BroadcastTypeOK
  <2>2. issued[t] - left[t] + 1 \in Nat
    BY <2>1
  <2> QED
    BY <2>1, <2>2 DEF Current, Message, Sent
<1> HIDE DEF ws, msg
<1>7. dead' = dead \/ (peer[ws] = "gone" /\ dead' = [dead EXCEPT ![t] = @ \cup {ws}])
  BY <1>2
<1>8. BroadcastTypeOK'
  <2>1. wire' \in [Conns -> Seq([task : Tasks, n : Nat])]
    <3> DEFINE M == [task : Tasks, n : Nat]
    <3>1. wire \in [Conns -> Seq(M)] /\ msg \in M
      BY <1>6 DEF BroadcastTypeOK
    <3> HIDE DEF M
    <3>2. wire[ws] \in Seq(M) /\ Append(wire[ws], msg) \in Seq(M)
      BY <1>4, <3>1, AppendElements
    <3>3. wire' \in [Conns -> Seq(M)]
      BY <1>2, <1>4, <3>1, <3>2
    <3> QED
      BY <3>3 DEF M
  <2>2. cursor' \in [Tasks -> Nat]
    BY <1>1 DEF BroadcastTypeOK
  <2>3. /\ reached' \in [Tasks -> SUBSET Conns] /\ dead' \in [Tasks -> SUBSET Conns]
        /\ \A u \in Tasks : dead'[u] \subseteq reached'[u]
    <3>1. /\ reached' \in [Tasks -> SUBSET Conns]
          /\ reached'[t] = reached[t] \cup {ws}
          /\ \A u \in Tasks \ {t} : reached'[u] = reached[u]
      BY <1>1, <1>4 DEF BroadcastTypeOK, ws
    <3>2. /\ dead' \in [Tasks -> SUBSET Conns]
          /\ dead'[t] \subseteq dead[t] \cup {ws}
          /\ \A u \in Tasks \ {t} : dead'[u] = dead[u]
      <4>1. dead \in [Tasks -> SUBSET Conns] /\ dead[t] \cup {ws} \in SUBSET Conns
        BY <1>4 DEF BroadcastTypeOK
      <4>2. CASE dead' = dead
        BY <4>1, <4>2
      <4>3. CASE dead' = [dead EXCEPT ![t] = @ \cup {ws}]
        BY <4>1, <4>3
      <4> QED
        BY <1>7, <4>2, <4>3
    <3>3. \A u \in Tasks : dead[u] \subseteq reached[u]
      BY DEF BroadcastTypeOK
    <3> QED
      BY <3>1, <3>2, <3>3
  <2>4. \A u \in Tasks : left'[u] <= issued'[u] /\ (Broadcasting(u)' <=> left'[u] > 0)
    BY <1>1, <1>5 DEF BroadcastTypeOK
  <2> QED
    BY <1>1, <2>1, <2>2, <2>3, <2>4 DEF BroadcastTypeOK
<1>9. EndpointInv'
  <2>1. \A v \in Conns : wire'[v] = wire[v] \/ v = ws
    BY <1>2, <1>4 DEF BroadcastTypeOK
  <2>2. Registered' = Registered
    BY <1>1 DEF Registered
  <2> QED
    BY <1>1, <1>4, <2>1, <2>2 DEF EndpointInv
<1>10. DeadInv'
  <2>1. CASE dead' = dead
    BY <1>1, <2>1 DEF DeadInv
  <2>2. CASE peer[ws] = "gone" /\ dead' = [dead EXCEPT ![t] = @ \cup {ws}]
    <3>1. dead \in [Tasks -> SUBSET Conns]
      BY DEF BroadcastTypeOK
    <3>2. \A u \in Tasks : dead'[u] \subseteq dead[u] \cup {ws}
      BY <2>2, <3>1
    <3> QED
      BY <1>1, <2>2, <3>2 DEF DeadInv
  <2> QED
    BY <1>7, <2>1, <2>2
<1>11. TriedInv'
  <2>1. \A u \in Tasks \ {t} : reached'[u] = reached[u]
    BY <1>1 DEF BroadcastTypeOK
  <2>2. reached'[t] = reached[t] \cup {ws}
    BY <1>1 DEF BroadcastTypeOK, ws
  <2>3. ASSUME NEW u \in Tasks, Broadcasting(u)', ~disturbed'[u]
        PROVE  audience'[u] \subseteq reached'[u] \cup Ahead(u)'
    <3>1. audience'[u] = audience[u] /\ audience[u] \subseteq reached[u] \cup Ahead(u)
      BY <1>1, <1>5, <2>3 DEF TriedInv
    <3>2. CASE u = t
      BY <1>4, <2>2, <3>1, <3>2
    <3>3. CASE u # t
      BY <1>5, <2>1, <3>1, <3>3
    <3> QED
      BY <3>2, <3>3
  <2> QED
    BY <2>3 DEF TriedInv
<1>12. CASE wire' = wire
  BY <1>5, <1>8, <1>9, <1>10, <1>11, <1>12, WireKept
<1>13. CASE wire' = [wire EXCEPT ![ws] = Append(@, msg)]
  <2>1. wire'[ws] = Append(wire[ws], msg) /\ \A v \in Conns \ {ws} : wire'[v] = wire[v]
    BY <1>4, <1>13 DEF BroadcastTypeOK
  <2>2. /\ Len(wire[ws]) \in Nat
        /\ DOMAIN wire[ws] = 1..Len(wire[ws]) /\ DOMAIN wire'[ws] = 1..(Len(wire[ws]) + 1)
        /\ \A k \in 1..Len(wire[ws]) : wire'[ws][k] = wire[ws][k]
        /\ wire'[ws][Len(wire[ws]) + 1] = msg
    <3> DEFINE M == [task : Tasks, n : Nat]
    <3>1. wire[ws] \in Seq(M) /\ msg \in M
      BY <1>4, <1>6 DEF BroadcastTypeOK
    <3> HIDE DEF M
    <3> QED
      BY <2>1, <3>1, AppendElements
  <2>3. \A v \in Conns : \A j \in DOMAIN wire'[v] :
          (v = ws /\ j = Len(wire[ws]) + 1 /\ wire'[v][j] = msg) \/ (j \in DOMAIN wire[v] /\ wire'[v][j] = wire[v][j])
    BY <2>1, <2>2
  <2>4. \A j \in DOMAIN wire[ws] : wire[ws][j].task = t => wire[ws][j].n < msg.n
    <3> SUFFICES ASSUME NEW j \in DOMAIN wire[ws], wire[ws][j].task = t
                 PROVE  wire[ws][j].n < msg.n
      OBVIOUS
    <3>1. wire[ws][j].n <= Sent(t)
      BY <1>4 DEF WireInv, Received
    <3>2. wire[ws][j].n \in Nat
      BY <1>4, MessageType
    <3> QED
      BY <1>6, <3>1, <3>2
  <2>5. InOrder'
    <3> SUFFICES ASSUME NEW v \in Conns, NEW j \in DOMAIN wire'[v], NEW k \in DOMAIN wire'[v],
                        j < k, wire'[v][j].task = wire'[v][k].task
                 PROVE  wire'[v][j].n < wire'[v][k].n
      BY DEF InOrder
    <3>1. CASE j \in DOMAIN wire[v] /\ k \in DOMAIN wire[v]
      <4>1. wire'[v][j] = wire[v][j] /\ wire'[v][k] = wire[v][k]
        BY <2>1, <2>2, <3>1
      <4> QED
        BY <3>1, <4>1 DEF InOrder
    <3>2. CASE k \notin DOMAIN wire[v]
      <4>1. v = ws /\ k = Len(wire[ws]) + 1 /\ wire'[v][k] = msg
        BY <2>3, <3>2
      <4>2. j \in DOMAIN wire[ws] /\ wire'[v][j] = wire[ws][j]
        BY <2>2, <4>1
      <4> QED
        BY <1>6, <2>4, <4>1, <4>2
    <3>3. CASE j \notin DOMAIN wire[v]
      <4>1. v = ws /\ j = Len(wire[ws]) + 1
        BY <2>3, <3>3
      <4> QED
        BY <2>2, <4>1
    <3> QED
      BY <3>1, <3>2, <3>3
  <2>6. ASSUME NEW v \in Conns, NEW u \in Tasks, NEW j \in DOMAIN wire'[v], wire'[v][j].task = u
        PROVE  \/ wire'[v][j].n <= Sent(u)'
               \/ wire'[v][j].n = Sent(u)' + 1 /\ Broadcasting(u)' /\ v \notin Ahead(u)'
    <3>1. CASE j \in DOMAIN wire[v] /\ wire'[v][j] = wire[v][j]
      <4>1. \/ wire[v][j].n <= Sent(u)
            \/ wire[v][j].n = Sent(u) + 1 /\ Broadcasting(u) /\ v \notin Ahead(u)
        BY <2>6, <3>1 DEF WireInv, Received
      <4> QED
        BY <1>5, <3>1, <4>1
    <3>2. CASE v = ws /\ wire'[v][j] = msg
      <4>1. u = t
        BY <1>6, <2>6, <3>2
      <4>2. wire'[v][j].n = Sent(t)' + 1 /\ Broadcasting(t)' /\ v \notin Ahead(t)'
        BY <1>1, <1>4, <1>5, <1>6, <3>2
      <4> QED
        BY <4>1, <4>2
    <3> QED
      BY <2>3, <3>1, <3>2
  <2>7. WireInv'
    BY <2>6 DEF WireInv, Received
  <2> QED
    BY <1>8, <1>9, <1>10, <1>11, <2>5, <2>7
<1> QED
  BY <1>2, <1>12, <1>13

(* Only those who have gone are dropped, and an iterator of another task is *)
(* never moved back by it.                                                  *)
LEMMA EndBroadcastInv ==
  ASSUME BroadcastInv, NEW t \in Tasks, EndBroadcast(t)
  PROVE  BroadcastInv'
<1> USE DEF BroadcastInv
<1>1. /\ UNCHANGED <<endpoint, peer, wire, issued>>
      /\ Broadcasting(t) /\ Removing(dead[t])
      /\ left' = [left EXCEPT ![t] = @ - 1]
      /\ dead' = [dead EXCEPT ![t] = {}] /\ reached' = [reached EXCEPT ![t] = {}]
      /\ disturbed' = [u \in Tasks |->
           u # t /\ (disturbed[u] \/ (Broadcasting(u) /\ connections' # connections))]
  BY DEF EndBroadcast, DropDead, NoneDead
<1>2. \/ /\ left[t] > 1
         /\ cursor' = [cursor EXCEPT ![t] = 1]
         /\ audience' = [audience EXCEPT ![t] = Registered']
      \/ /\ ~(left[t] > 1)
         /\ cursor' = [cursor EXCEPT ![t] = 0]
         /\ audience' = [audience EXCEPT ![t] = {}]
  BY DEF EndBroadcast, Registered
<1>3. /\ connections' \in Seq(Conns) /\ IsInjective(connections')
      /\ Registered' = Registered \ dead[t]
  BY <1>1, RemovingKeeps DEF BroadcastTypeOK
<1>4. left[t] \in Nat \ {0} /\ issued[t] \in Nat /\ left[t] <= issued[t]
  BY <1>1 DEF BroadcastTypeOK
<1>5. /\ \A u \in Tasks \ {t} : /\ cursor'[u] = cursor[u] /\ left'[u] = left[u]
                                /\ Broadcasting(u)' = Broadcasting(u)
                                /\ audience'[u] = audience[u] /\ reached'[u] = reached[u]
                                /\ Sent(u)' = Sent(u)
      /\ left'[t] = left[t] - 1
  <2>1. \A u \in Tasks \ {t} : cursor'[u] = cursor[u] /\ audience'[u] = audience[u]
    BY <1>2 DEF BroadcastTypeOK
  <2>2. /\ \A u \in Tasks \ {t} : left'[u] = left[u] /\ reached'[u] = reached[u]
        /\ left'[t] = left[t] - 1
    BY <1>1 DEF BroadcastTypeOK
  <2> QED
    BY <1>1, <2>1, <2>2 DEF Broadcasting, Sent
<1>6. Sent(t)' = Sent(t) + 1
  BY <1>1, <1>4, <1>5 DEF Sent
<1>7. /\ cursor'[t] \in {0, 1} /\ cursor' \in [Tasks -> Nat]
      /\ (cursor'[t] = 1 <=> left'[t] > 0)
      /\ (cursor'[t] = 1 => audience'[t] = Registered')
  <2>1. cursor \in [Tasks -> Nat] /\ audience \in [Tasks -> SUBSET Conns]
    BY DEF BroadcastTypeOK
  <2>2. CASE left[t] > 1
    <3>1. cursor' = [cursor EXCEPT ![t] = 1] /\ audience' = [audience EXCEPT ![t] = Registered']
      BY <1>2, <2>2
    <3>2. cursor'[t] = 1 /\ cursor' \in [Tasks -> Nat] /\ audience'[t] = Registered'
      BY <2>1, <3>1
    <3>3. left'[t] > 0
      BY <1>4, <1>5, <2>2
    <3> QED
      BY <3>2, <3>3
  <2>3. CASE ~(left[t] > 1)
    <3>1. cursor' = [cursor EXCEPT ![t] = 0]
      BY <1>2, <2>3
    <3>2. cursor'[t] = 0 /\ cursor' \in [Tasks -> Nat]
      BY <2>1, <3>1
    <3>3. ~(left'[t] > 0)
      BY <1>4, <1>5, <2>3
    <3> QED
      BY <3>2, <3>3
  <2> QED
    BY <2>2, <2>3
<1>8. BroadcastTypeOK'
  <2>1. left' \in [Tasks -> Nat]
    BY <1>1, <1>4 DEF BroadcastTypeOK
  <2>2. \A u \in Tasks : left'[u] <= issued'[u] /\ (Broadcasting(u)' <=> left'[u] > 0)
    <3>1. left'[t] <= issued'[t] /\ (Broadcasting(t)' <=> left'[t] > 0)
      BY <1>1, <1>4, <1>5, <1>7 DEF Broadcasting
    <3>2. \A u \in Tasks \ {t} : left'[u] <= issued'[u] /\ (Broadcasting(u)' <=> left'[u] > 0)
      BY <1>1, <1>5 DEF BroadcastTypeOK
    <3> QED
      BY <3>1, <3>2
  <2>3. Registered' \in SUBSET Conns
    BY <1>3 DEF BroadcastTypeOK, Registered, ToSet
  <2>4. audience' \in [Tasks -> SUBSET Conns]
    BY <1>2, <2>3 DEF BroadcastTypeOK
  <2>5. /\ dead' \in [Tasks -> SUBSET Conns] /\ reached' \in [Tasks -> SUBSET Conns]
        /\ \A u \in Tasks : dead'[u] \subseteq reached'[u]
    BY <1>1 DEF BroadcastTypeOK
  <2>6. disturbed' \in [Tasks -> BOOLEAN]
    <3> DEFINE D(u) == u # t /\ (disturbed[u] \/ (Broadcasting(u) /\ connections' # connections))
    <3>1. disturbed' = [u \in Tasks |-> D(u)]
      BY <1>1
    <3>2. \A u \in Tasks : D(u) \in BOOLEAN
      OBVIOUS
    <3> HIDE DEF D
    <3> QED
      BY <3>1, <3>2
  <2> QED
    BY <1>1, <1>3, <1>7, <2>1, <2>2, <2>4, <2>5, <2>6 DEF BroadcastTypeOK
<1>9. EndpointInv'
  <2>1. \A ws \in Conns : peer[ws] = "open" => ws \notin dead[t]
    BY DEF DeadInv
  <2> QED
    BY <1>1, <1>3, <2>1 DEF EndpointInv
<1>10. DeadInv'
  <2>1. \A u \in Tasks : dead'[u] \subseteq dead[u]
    BY <1>1 DEF BroadcastTypeOK
  <2> QED
    BY <1>1, <2>1 DEF DeadInv
<1>11. \A u \in Tasks \ {t} : Broadcasting(u) => Ahead(u)' \subseteq Ahead(u)
  BY <1>1, <1>5, AheadOfShrunk
<1>12. WireInv' /\ InOrder'
  BY <1>1, <1>5, <1>6, <1>11, WireKept
<1>13. TriedInv'
  <2> SUFFICES ASSUME NEW u \in Tasks, Broadcasting(u)', ~disturbed'[u]
               PROVE  audience'[u] \subseteq reached'[u] \cup Ahead(u)'
    BY DEF TriedInv
  <2>1. CASE u = t
    <3>1. cursor'[t] = 1
      BY <1>7, <2>1 DEF Broadcasting
    <3> QED
      BY <1>3, <1>7, <2>1, <3>1, AheadAtFirst
  <2>2. CASE u # t
    <3>1. ~disturbed[u] /\ connections' = connections
      BY <1>1, <1>5, <2>2
    <3>2. Ahead(u)' = Ahead(u)
      BY <1>5, <2>2, <3>1 DEF Ahead
    <3> QED
      BY <1>5, <2>2, <3>1, <3>2 DEF TriedInv
  <2> QED
    BY <2>1, <2>2
<1> QED
  BY <1>8, <1>9, <1>10, <1>12, <1>13

-----------------------------------------------------------------------------
(* The specification *)

(* The inductive invariant of the broadcaster (broadcaster.py) holds of     *)
(* every execution.                                                         *)
THEOREM BroadcastInvariant == BroadcastSpec => []BroadcastInv
<1>1. BroadcastInit => BroadcastInv
  BY InitInv
<1>2. BroadcastInv /\ [BroadcastNext]_broadcastVars => BroadcastInv'
  <2> SUFFICES ASSUME BroadcastInv, [BroadcastNext]_broadcastVars PROVE BroadcastInv'
    OBVIOUS
  <2>1. CASE \E ws \in Conns : Accept(ws) \/ Register(ws) \/ Leave(ws) \/ Unregister(ws)
    BY <2>1, AcceptInv, RegisterInv, LeaveInv, UnregisterInv
  <2>2. CASE \E t \in Tasks : Issue(t)
    BY <2>2, PublishInv DEF Issue
  <2>3. CASE \E t \in Tasks : Send(t) \/ EndBroadcast(t)
    BY <2>3, SendInv, EndBroadcastInv
  <2>4. CASE UNCHANGED broadcastVars
    <3>1. /\ UNCHANGED <<connections, endpoint, peer, left, cursor, dead, wire, issued,
                         audience, reached, disturbed>>
      BY <2>4 DEF broadcastVars, serverVars, taskVars, heardVars
    <3>2. BroadcastTypeOK'
      BY <3>1 DEF BroadcastInv, BroadcastTypeOK, Broadcasting
    <3>3. EndpointInv' /\ DeadInv' /\ InOrder'
      BY <3>1 DEF BroadcastInv, EndpointInv, DeadInv, InOrder, Registered
    <3>4. WireInv' /\ TriedInv'
      BY <3>1 DEF BroadcastInv, WireInv, TriedInv, Received, Sent, Ahead, Broadcasting
    <3> QED
      BY <3>2, <3>3, <3>4 DEF BroadcastInv
  <2> QED
    BY <2>1, <2>2, <2>3, <2>4 DEF BroadcastNext, Spent
<1> QED
  BY <1>1, <1>2, PTL DEF BroadcastSpec

(* The types hold, the connections of the list are all different, and what  *)
(* a broadcast keeps about one message is gone when the next begins.        *)
THEOREM BroadcastTypeCorrect == BroadcastSpec => []BroadcastTypeOK
<1>1. BroadcastInv => BroadcastTypeOK
  BY DEF BroadcastInv
<1> QED
  BY <1>1, BroadcastInvariant, PTL

(* ws_handler.py:36-40: however many tasks broadcast and clients come and   *)
(* go under their iterators, no connection gets a message twice and the     *)
(* messages of one task arrive in the order it made them.                   *)
THEOREM InOrderHolds == BroadcastSpec => []InOrder
<1>1. BroadcastInv => InOrder
  BY DEF BroadcastInv
<1> QED
  BY <1>1, BroadcastInvariant, PTL

(* ws_handler.py:42-46: the clean-up after a broadcast takes nobody off the *)
(* list who is being served and still there.                                *)
THEOREM OpenStaysRegisteredHolds == BroadcastSpec => []OpenStaysRegistered
<1>1. BroadcastInv => OpenStaysRegistered
  BY DEF BroadcastInv, EndpointInv, OpenStaysRegistered
<1> QED
  BY <1>1, BroadcastInvariant, PTL

(* ws_handler.py:36-46: a broadcast during which nobody else shortens the   *)
(* list tries every connection that was there when it began.                *)
THEOREM EveryoneTriedHolds == BroadcastSpec => []EveryoneTried
<1>1. BroadcastInv => EveryoneTried
  <2> SUFFICES ASSUME BroadcastInv, NEW t \in Tasks,
                      Broadcasting(t), cursor[t] > Len(connections), ~disturbed[t]
               PROVE  audience[t] \subseteq reached[t]
    BY DEF EveryoneTried
  <2>1. cursor[t] \in Nat /\ Len(connections) \in Nat
    BY DEF BroadcastInv, BroadcastTypeOK
  <2>2. Ahead(t) = {}
    BY <2>1 DEF Ahead
  <2> QED
    BY <2>2 DEF BroadcastInv, TriedInv
<1> QED
  BY <1>1, BroadcastInvariant, PTL

-----------------------------------------------------------------------------
(* The opening range strategy: its range is the window's first bar past the *)
(* session's start, and it has fired on the sides on which a bar of the day *)
(* and its session closed outside.                                          *)

Bar == [high : Int, low : Int, close : Int, ts : Times]
Closed(bar) == bar.low <= bar.close /\ bar.close <= bar.high
Window(w) == w \in Seq(Bar) /\ \A k \in 1..Len(w) : Closed(w[k])

Late(bar) == TimeOfDay[bar.ts] > SessionStart
Rth(w) == {k \in DOMAIN w : Late(w[k])}
First(w) == w[Min(Rth(w))]
RangeOf(w) == IF Rth(w) # {} /\ Tradable(First(w)) THEN {First(w)} ELSE {}
RejectedOf(w) == Rth(w) # {} /\ ~Tradable(First(w))

Sides == {"BUY", "SELL"}
Today(w, day) == {w[k] : k \in {j \in 1..Len(w) : DayOf[w[j].ts] = day}}
Broken(some, ranges) ==
    {side \in Sides : \E bar \in some : IsRth(bar) /\ \E range \in ranges : Breaks(bar, range, side)}

Orb == [date : Int, range : SUBSET Bar, rejected : BOOLEAN, fired : SUBSET Sides]

LEMMA LowestIs ==
    ASSUME NEW S, S \subseteq Int, NEW m \in S, \A y \in S : m =< y
    PROVE  Min(S) = m
<1>1. Min(S) \in S /\ \A y \in S : Min(S) =< y
  BY DEF Min
<1>2. Min(S) =< m /\ m =< Min(S) /\ Min(S) \in Int /\ m \in Int
  BY <1>1
<1> QED
  BY <1>2

(* Of indices there is a first. *)
LEMMA FirstExists ==
    ASSUME NEW n \in Nat, NEW s \in SUBSET (1..n), s # {}
    PROVE  Min(s) \in s /\ \A k \in s : Min(s) <= k
<1> DEFINE less == {r \in Nat \X Nat : r[1] < r[2]}
<1>1. IsWellFoundedOn(less, Nat)
  BY NatLessThanWellFounded DEF OpToRel
<1>2. s \subseteq Nat
  OBVIOUS
<1>3. \E m \in s : \A k \in s : <<k, m>> \notin less
  <2> HIDE DEF less
  <2> QED
    BY <1>1, <1>2, WFMin
<1>4. PICK m \in s : \A k \in s : <<k, m>> \notin less
  BY <1>3
<1>5. ASSUME NEW k \in s PROVE m =< k
  <2>1. k \in Nat /\ m \in Nat
    BY <1>2
  <2>2. k < m => <<k, m>> \in less
    BY <2>1
  <2> QED
    BY <1>4, <2>1, <2>2
<1>6. s \subseteq Int
  BY <1>2
<1>7. Min(s) = m
  BY <1>5, <1>6, LowestIs
<1> QED
  BY <1>5, <1>7

LEMMA WindowFacts ==
    ASSUME NEW w, Window(w)
    PROVE  /\ Len(w) \in Nat /\ DOMAIN w = 1..Len(w)
           /\ \A k \in 1..Len(w) : /\ w[k] \in Bar /\ Closed(w[k])
                                   /\ w[k].ts \in Times
                                   /\ w[k].high \in Int /\ w[k].low \in Int /\ w[k].close \in Int
                                   /\ TimeOfDay[w[k].ts] \in Int
<1>1. Len(w) \in Nat /\ DOMAIN w = 1..Len(w)
  BY LenProperties DEF Window
<1>2. \A k \in 1..Len(w) : w[k] \in Bar /\ Closed(w[k])
  BY <1>1 DEF Window
<1> QED
  BY <1>1, <1>2, StrategiesAssumption DEF Bar

LEMMA FirstIsLate ==
    ASSUME NEW w, Window(w), Rth(w) # {}
    PROVE  /\ Min(Rth(w)) \in 1..Len(w) /\ Late(First(w)) /\ First(w) \in Bar /\ Closed(First(w))
           /\ \A k \in Rth(w) : Min(Rth(w)) <= k
<1>1. Rth(w) \in SUBSET (1..Len(w)) /\ Len(w) \in Nat
  BY WindowFacts DEF Rth
<1>2. Min(Rth(w)) \in Rth(w) /\ \A k \in Rth(w) : Min(Rth(w)) <= k
  BY <1>1, FirstExists
<1> QED
  BY <1>1, <1>2, WindowFacts DEF Rth, First

(* A later bar leaves the range alone, once there is one. *)
LEMMA RangeStays ==
    ASSUME NEW v, Window(v), NEW bar \in Bar, Closed(bar), Rth(v) # {}
    PROVE  LET w == Append(v, bar)
           IN  Rth(w) # {} /\ RangeOf(w) = RangeOf(v) /\ RejectedOf(w) = RejectedOf(v)
<1> DEFINE w == Append(v, bar)
<1>1. /\ Len(v) \in Nat /\ Len(w) = Len(v) + 1 /\ DOMAIN w = 1..(Len(v) + 1)
      /\ DOMAIN v = 1..Len(v) /\ \A k \in 1..Len(v) : w[k] = v[k]
      /\ w[Len(v) + 1] = bar /\ w \in Seq(Bar)
  BY AppendProperties, LenProperties DEF Window
<1> DEFINE f == Min(Rth(v))
<1>3. f \in 1..Len(v) /\ f \in Rth(v) /\ \A k \in Rth(v) : f <= k
  BY FirstIsLate, FirstExists, <1>1 DEF Rth
<1> HIDE DEF w, f
<1>4. f \in Rth(w) /\ Rth(w) \subseteq 1..(Len(v) + 1)
  BY <1>1, <1>3 DEF Rth
<1>5. \A k \in Rth(w) : f <= k
  <2> SUFFICES ASSUME NEW k \in Rth(w) PROVE f <= k
    OBVIOUS
  <2>1. k \in 1..(Len(v) + 1) /\ Late(w[k])
    BY <1>1 DEF Rth
  <2>2. CASE k \in 1..Len(v)
    BY <1>1, <1>3, <2>1, <2>2 DEF Rth
  <2>3. CASE k = Len(v) + 1
    BY <1>1, <1>3, <2>3
  <2> QED
    BY <1>1, <2>1, <2>2, <2>3
<1>6. Min(Rth(w)) = f
  <2>1. Rth(w) \subseteq Int
    BY <1>1, <1>4
  <2> QED
    BY <1>4, <1>5, <2>1, LowestIs
<1>7. First(w) = First(v)
  BY <1>1, <1>3, <1>6 DEF First, f
<1> QED
  BY <1>4, <1>7 DEF RangeOf, RejectedOf, w

LEMMA WindowGrows ==
    ASSUME NEW v, Window(v), NEW bar \in Bar, Closed(bar)
    PROVE  Window(Append(v, bar))
<1> DEFINE w == Append(v, bar)
<1>1. /\ Len(v) \in Nat /\ Len(w) = Len(v) + 1 /\ DOMAIN w = 1..(Len(v) + 1)
      /\ \A k \in 1..Len(v) : w[k] = v[k]
      /\ w[Len(v) + 1] = bar /\ w \in Seq(Bar)
  BY AppendProperties, LenProperties DEF Window
<1> HIDE DEF w
<1>2. ASSUME NEW k \in 1..(Len(v) + 1) PROVE Closed(w[k])
  <2>1. CASE k \in 1..Len(v)
    BY <1>1, <2>1 DEF Window
  <2>2. CASE k = Len(v) + 1
    BY <1>1, <2>2
  <2> QED
    BY <1>1, <2>1, <2>2
<1> QED
  BY <1>1, <1>2 DEF Window, w

(* What a session's bar is the range of, as the module has it. *)
LEMMA FirstRangeIs ==
    ASSUME NEW w, Window(w), NEW day, OfOneDay(w, day)
    PROVE  FirstRange(w, day) = RangeOf(w)
<1>1. /\ Rth(w) = {k \in DOMAIN w : DayOf[w[k].ts] = day /\ TimeOfDay[w[k].ts] > SessionStart}
      /\ Rth(w) \in SUBSET (1..Len(w)) /\ Len(w) \in Nat
  BY WindowFacts DEF Rth, Late, OfOneDay
<1>2. FirstRange(w, day)
        = {w[k] : k \in {j \in Rth(w) : Tradable(w[j]) /\ \A i \in Rth(w) : j <= i}}
  BY <1>1 DEF FirstRange
<1>3. CASE Rth(w) = {}
  BY <1>2, <1>3 DEF RangeOf
<1>4. CASE Rth(w) # {}
  <2> DEFINE m == Min(Rth(w))
  <2>1. m \in Rth(w) /\ \A i \in Rth(w) : m <= i
    BY <1>1, <1>4, FirstExists
  <2>2. First(w) = w[m]
    BY DEF First
  <2> HIDE DEF m
  <2>3. \A j \in Rth(w) : (\A i \in Rth(w) : j <= i) <=> j = m
    BY <1>1, <2>1
  <2>4. {j \in Rth(w) : Tradable(w[j]) /\ \A i \in Rth(w) : j <= i}
          = IF Tradable(w[m]) THEN {m} ELSE {}
    BY <2>1, <2>3
  <2> QED
    BY <1>2, <1>4, <2>2, <2>4 DEF RangeOf
<1> QED
  BY <1>3, <1>4

(* The first of a window's bars past the session's start makes the range of *)
(* a strategy that has none; of one that has, or has rejected one, nothing  *)
(* changes.                                                                 *)
LEMMA Identifies ==
    ASSUME NEW o \in Orb, NEW w, Window(w)
    PROVE  LET now == Identified(o, w)
           IN  /\ now \in Orb /\ now.date = o.date /\ now.fired = o.fired
               /\ o.range # {} \/ o.rejected \/ Rth(w) = {} => now = o
               /\ now.range = {} /\ ~now.rejected => Rth(w) = {}
               /\ o.range = {} /\ ~o.rejected =>
                    now.range = RangeOf(w) /\ now.rejected = RejectedOf(w)
<1> DEFINE now == Identified(o, w)
<1>1. now = IF o.range # {} \/ o.rejected \/ Rth(w) = {} THEN o
            ELSE IF Tradable(First(w)) THEN [o EXCEPT !.range = {First(w)}]
            ELSE [o EXCEPT !.rejected = TRUE]
  BY DEF Identified, Rth, First, Late
<1>2. Rth(w) # {} => First(w) \in Bar
  BY FirstIsLate
<1> HIDE DEF now
<1>3. CASE o.range # {} \/ o.rejected \/ Rth(w) = {}
  <2>1. now = o
    BY <1>1, <1>3
  <2>2. o.range = {} /\ ~o.rejected =>
          Rth(w) = {} /\ RangeOf(w) = {} /\ ~RejectedOf(w) /\ RejectedOf(w) \in BOOLEAN
    BY <1>3 DEF RangeOf, RejectedOf
  <2> QED
    BY <2>1, <2>2 DEF Orb, now
<1>4. CASE o.range = {} /\ ~o.rejected /\ Rth(w) # {} /\ Tradable(First(w))
  <2>1. now = [o EXCEPT !.range = {First(w)}]
    BY <1>1, <1>4
  <2>2. RangeOf(w) = {First(w)} /\ RejectedOf(w) = FALSE /\ o.rejected = FALSE
    BY <1>4 DEF RangeOf, RejectedOf, Orb
  <2>3. now \in Orb /\ now.date = o.date /\ now.fired = o.fired
        /\ now.range = {First(w)} /\ now.rejected = FALSE
    BY <1>2, <1>4, <2>1, <2>2 DEF Orb
  <2> QED
    BY <1>4, <2>2, <2>3 DEF now
<1>5. CASE o.range = {} /\ ~o.rejected /\ Rth(w) # {} /\ ~Tradable(First(w))
  <2>1. now = [o EXCEPT !.rejected = TRUE]
    BY <1>1, <1>5
  <2>2. RangeOf(w) = {} /\ RejectedOf(w) = TRUE
    BY <1>5 DEF RangeOf, RejectedOf
  <2>3. now \in Orb /\ now.date = o.date /\ now.fired = o.fired
        /\ now.range = {} /\ now.rejected = TRUE
    BY <1>5, <2>1 DEF Orb
  <2> QED
    BY <1>5, <2>2, <2>3 DEF now
<1> QED
  BY <1>3, <1>4, <1>5

(* What an evaluation of a window makes of the strategy's state. *)
Stepped(o, windows, sym, ts) ==
    LET w == windows[sym]
        now == Identified(Entered(o, ts), w)
        step == OrbStep([orb |-> o, keys |-> {}], windows, sym, ts)
        fresh == Broken({w[Len(w)]}, now.range)
    IN  /\ Entered(o, ts) \in Orb /\ step.orb \in Orb
        /\ step.orb.date = DayOf[ts]
        /\ step.orb.range = now.range /\ step.orb.rejected = now.rejected
        /\ step.orb.fired = now.fired \cup fresh
        /\ step.keys = {<<sym, side>> : side \in fresh \ now.fired}
LEMMA OrbSteps ==
    ASSUME NEW o \in Orb, NEW windows, NEW sym \in Specs, NEW ts \in Times,
           Window(windows[sym]), windows[sym] # <<>>
    PROVE  Stepped(o, windows, sym, ts)
<1> DEFINE w == windows[sym]
           e == Entered(o, ts)
           now == Identified(e, w)
           sides == IF IsRth(Last(w)) THEN Outside(now, Last(w)) \ now.fired ELSE {}
           step == OrbStep([orb |-> o, keys |-> {}], windows, sym, ts)
           fresh == Broken({w[Len(w)]}, now.range)
<1>1. e \in Orb /\ e.date = DayOf[ts]
  <2>1. DayOf[ts] \in Int
    BY StrategiesAssumption
  <2>2. /\ [NoSession EXCEPT !.date = DayOf[ts]] \in Orb
        /\ [NoSession EXCEPT !.date = DayOf[ts]].date = DayOf[ts]
    BY <2>1 DEF NoSession, Orb
  <2> QED
    BY <2>2 DEF Entered
<1> HIDE DEF e
<1>2. now \in Orb /\ now.date = DayOf[ts]
  BY <1>1, Identifies
<1> HIDE DEF now
<1>3. step = [orb |-> [now EXCEPT !.fired = @ \cup sides],
              keys |-> {<<sym, side>> : side \in sides}]
  BY DEF OrbStep, now, e
<1> HIDE DEF step
<1>4. fresh \subseteq Sides /\ sides = fresh \ now.fired
  BY DEF Broken, Sides, Outside, Last
<1> HIDE DEF sides, fresh
<1>5. now.fired \cup sides = now.fired \cup fresh /\ now.fired \cup fresh \in SUBSET Sides
  BY <1>2, <1>4 DEF Orb
<1>6. step.orb = [now EXCEPT !.fired = now.fired \cup fresh] /\ step.keys = {<<sym, side>> : side \in sides}
  <2>1. step.orb = [now EXCEPT !.fired = now.fired \cup sides]
    BY <1>3
  <2>2. step.keys = {<<sym, side>> : side \in sides}
    BY <1>3
  <2> QED
    BY <1>5, <2>1, <2>2
<1>7. /\ step.orb \in Orb /\ step.orb.date = now.date /\ step.orb.range = now.range
      /\ step.orb.rejected = now.rejected /\ step.orb.fired = now.fired \cup fresh
  BY <1>2, <1>5, <1>6 DEF Orb
<1> QED
  BY <1>1, <1>2, <1>4, <1>6, <1>7 DEF Stepped, step, now, e, fresh

(* Breakouts of several bars are those of each. *)
LEMMA BrokenApart ==
    ASSUME NEW some, NEW others, NEW ranges
    PROVE  Broken(some \cup others, ranges) = Broken(some, ranges) \cup Broken(others, ranges)
  BY DEF Broken

LEMMA BrokenMore ==
    ASSUME NEW some, NEW others, some \subseteq others, NEW ranges
    PROVE  Broken(some, ranges) \subseteq Broken(others, ranges)
  BY DEF Broken

LEMMA BrokenNone ==
    ASSUME NEW some, NEW ranges
    PROVE  Broken({}, ranges) = {} /\ Broken(some, {}) = {}
  BY DEF Broken

(* A window without a bar past the session's start has none that breaks out. *)
LEMMA NoneLate ==
    ASSUME NEW w, Window(w), Rth(w) = {}, NEW day, NEW ranges
    PROVE  Broken(Today(w, day), ranges) = {}
<1>1. ASSUME NEW k \in 1..Len(w) PROVE ~IsRth(w[k])
  <2>1. TimeOfDay[w[k].ts] \in Int /\ SessionStart \in Int /\ k \notin Rth(w) /\ k \in DOMAIN w
    BY WindowFacts, StrategiesAssumption
  <2> QED
    BY <2>1 DEF Rth, Late, IsRth
<1> QED
  BY <1>1 DEF Broken, Today

(* A strategy of one symbol evaluates that one. *)
LEMMA FoldOfOne ==
    ASSUME NEW o, NEW windows, NEW sym, NEW ts
    PROVE  OrbEvaluates(o, windows, <<sym>>, ts)
             = OrbStep([orb |-> o, keys |-> {}], windows, sym, ts)
<1> DEFINE base == [orb |-> o, keys |-> {}]
           S == DOMAIN <<sym>>
           step(acc, i) == OrbStep(acc, windows, <<sym>>[i], ts)
           iter == CHOOSE iter : iter = [s \in SUBSET S |-> IF s = {} THEN base
                                           ELSE step(iter[s \ {Max(s)}], Max(s))]
           f == [s \in SUBSET S |-> IF s = {} THEN base ELSE step(base, 1)]
<1>1. OrbEvaluates(o, windows, <<sym>>, ts) = iter[S]
  BY DEF OrbEvaluates, FoldLeft, MapThenFoldSet
<1>2. S = {1} /\ Max({1}) = 1 /\ <<sym>>[1] = sym
  BY DEF Max
<1>3. \A s \in SUBSET S : s # {} => s = {1} /\ Max(s) = 1 /\ s \ {Max(s)} = {}
  BY <1>2
<1> HIDE DEF step, base, S
<1>4. f[{}] = base /\ {} \in SUBSET S
  OBVIOUS
<1>5. f = [s \in SUBSET S |-> IF s = {} THEN base ELSE step(f[s \ {Max(s)}], Max(s))]
  <2> HIDE DEF f
  <2>1. ASSUME NEW s \in SUBSET S
        PROVE  f[s] = IF s = {} THEN base ELSE step(f[s \ {Max(s)}], Max(s))
    BY <1>3, <1>4 DEF f
  <2>2. DOMAIN f = SUBSET S /\ f = [s \in SUBSET S |-> f[s]]
    BY DEF f
  <2> QED
    BY <2>1, <2>2
<1> HIDE DEF f
<1>6. iter = [s \in SUBSET S |-> IF s = {} THEN base ELSE step(iter[s \ {Max(s)}], Max(s))]
  BY <1>5
<1> HIDE DEF iter
<1>7. iter[{}] = base /\ S \in SUBSET S
  BY <1>4, <1>6
<1>8. iter[S] = step(iter[S \ {Max(S)}], Max(S))
  BY <1>2, <1>6, <1>7
<1>9. iter[S] = step(base, 1)
  BY <1>2, <1>3, <1>7, <1>8
<1> QED
  BY <1>1, <1>2, <1>9 DEF step, base

-----------------------------------------------------------------------------
(* The windows hold bars in the order of their times, of days that have     *)
(* come.  A strategy of one symbol that has no range and has rejected none  *)
(* has seen no bar past the session's start; it has fired on the sides on   *)
(* which a bar of the day and its session closed outside the range; and in  *)
(* a window of one day the first of the session's made the range.           *)

Ordered(w) == \A j, k \in 1..Len(w) : j < k => w[j].ts < w[k].ts

WindowInv ==
    /\ bars \in [Symbols -> Seq(Bar)] /\ inOrder \in BOOLEAN
    /\ roster # <<>> => evaluatedAt \in Times \cup {0}
    /\ \A sym \in Symbols : /\ Window(bars[sym]) /\ Ordered(bars[sym])
                            /\ Len(bars[sym]) <= WindowSize
    /\ roster # <<>> /\ inOrder =>
         \A sym \in Symbols : \A k \in 1..Len(bars[sym]) :
           DayOf[bars[sym][k].ts] <= DayOf[evaluatedAt]

Kept(o, windows, sym, day) ==
    /\ windows[sym] = <<>> => o = NoSession
    /\ windows[sym] # <<>> =>
         /\ o \in Orb /\ o.date = day
         /\ o.range = {} /\ ~o.rejected => Rth(windows[sym]) = {}
         /\ Undisturbed(windows, sym, day) => o.fired = Broken(Today(windows[sym], day), o.range)
         /\ OfOneDay(windows[sym], day) =>
              o.range = RangeOf(windows[sym]) /\ o.rejected = RejectedOf(windows[sym])

OrbInv ==
    \A s \in DOMAIN roster, sym \in Symbols :
      OrbAlone(s, sym) /\ ~crashed /\ inOrder => Kept(orb, bars, sym, DayOf[evaluatedAt])

(* A window that is full holds more than the bars of a day. *)
LEMMA DayFits ==
    ASSUME NEW w, Window(w), Ordered(w), NEW day, OfOneDay(w, day)
    PROVE  Len(w) < WindowSize
<1>1. Len(w) \in Nat /\ DOMAIN w = 1..Len(w) /\ WindowSize \in Nat \ {0}
  BY WindowFacts, StrategiesAssumption
<1>2. CASE Len(w) = 0
  BY <1>1, <1>2
<1>3. CASE Len(w) # 0
  <2> DEFINE own == {ts \in Times : DayOf[ts] = day}
             f == [k \in 1..Len(w) |-> w[k].ts]
  <2>1. \A k \in 1..Len(w) : w[k].ts \in own
    BY <1>1, WindowFacts DEF OfOneDay
  <2>2. 1 \in 1..Len(w)
    BY <1>1, <1>3
  <2>3. day \in {DayOf[ts] : ts \in Times}
    BY <2>1, <2>2
  <2>4. IsFiniteSet(own) /\ Cardinality(own) < WindowSize
    BY <2>3, StrategiesAssumption
  <2>5. f \in Injection(1..Len(w), own)
    <3>1. f \in [1..Len(w) -> own]
      BY <2>1
    <3>2. \A j, k \in 1..Len(w) : f[j] = f[k] => j = k
      <4> SUFFICES ASSUME NEW j \in 1..Len(w), NEW k \in 1..Len(w), j # k PROVE f[j] # f[k]
        OBVIOUS
      <4>1. w[j].ts \in Int /\ w[k].ts \in Int
        BY WindowFacts, StoreAssumption
      <4>2. w[j].ts < w[k].ts \/ w[k].ts < w[j].ts
        BY <1>1 DEF Ordered
      <4> QED
        BY <4>1, <4>2
    <3> QED
      BY <3>1, <3>2 DEF Injection, IsInjective
  <2>6. Cardinality(1..Len(w)) <= Cardinality(own)
    <3> HIDE DEF f, own
    <3> QED
      BY <2>4, <2>5, FS_Injection
  <2>7. Cardinality(1..Len(w)) = Len(w)
    <3>1. PICK n \in Nat : n = Len(w)
      BY <1>1
    <3>2. Cardinality(1..n) = n
      <4>1. IsFiniteSet(1..n)
                /\ Cardinality(1..n) = IF 1 > n THEN 0 ELSE n - 1 + 1
        BY FS_Interval
      <4> QED
        BY <4>1
    <3> QED
      BY <3>1, <3>2
  <2>8. Cardinality(own) \in Nat
    BY <2>4, FS_CardinalityType
  <2> QED
    BY <1>1, <2>4, <2>6, <2>7, <2>8
<1> QED
  BY <1>2, <1>3

(* A bar comes into a window, from which the oldest goes when it is full. *)
Grown(v, bar) ==
    IF Len(Append(v, bar)) > WindowSize THEN Tail(Append(v, bar)) ELSE Append(v, bar)
LEMMA Arrives ==
    ASSUME NEW v, Window(v), Ordered(v), Len(v) <= WindowSize, NEW bar \in Bar, Closed(bar),
           \A k \in DOMAIN v : v[k].ts < bar.ts
    PROVE  LET w == Grown(v, bar)
           IN  /\ Window(w) /\ Ordered(w) /\ Len(w) <= WindowSize /\ w # <<>>
               /\ Len(w) \in Nat
               /\ \A k \in 1..Len(w) : w[k] = bar \/ \E j \in 1..Len(v) : w[k] = v[j]
               /\ w[Len(w)] = bar /\ Len(w) \in 1..Len(w)
               /\ \A day : OfOneDay(w, day) => w = Append(v, bar)
<1> DEFINE grown == Append(v, bar)
           w == Grown(v, bar)
<1>1. /\ Len(v) \in Nat /\ Len(grown) = Len(v) + 1 /\ DOMAIN grown = 1..(Len(v) + 1)
      /\ DOMAIN v = 1..Len(v) /\ \A k \in 1..Len(v) : grown[k] = v[k]
      /\ grown[Len(v) + 1] = bar /\ grown \in Seq(Bar) /\ grown # <<>>
      /\ WindowSize \in Nat \ {0}
  BY AppendProperties, LenProperties, StrategiesAssumption DEF Window
<1>2. Window(grown)
  BY WindowGrows
<1>3. /\ Tail(grown) \in Seq(Bar) /\ Len(Tail(grown)) = Len(v)
      /\ \A k \in 1..Len(v) : Tail(grown)[k] = grown[k + 1]
  <2> HIDE DEF grown
  <2> QED
    BY <1>1, HeadTailProperties
<1> HIDE DEF grown
<1>4. Ordered(grown)
  BY <1>1 DEF Ordered
<1>5. Window(Tail(grown)) /\ Ordered(Tail(grown))
  <2> DEFINE rest == Tail(grown)
  <2>1. rest \in Seq(Bar) /\ Len(rest) = Len(v) /\ \A k \in 1..Len(v) : rest[k] = grown[k + 1]
    BY <1>3
  <2> HIDE DEF rest
  <2>2. \A k \in 1..Len(v) : k + 1 \in 1..(Len(v) + 1)
    BY <1>1
  <2>3. \A k \in 1..Len(rest) : Closed(rest[k])
    BY <1>1, <1>2, <2>1, <2>2 DEF Window
  <2>4. ASSUME NEW j \in 1..Len(rest), NEW k \in 1..Len(rest), j < k PROVE rest[j].ts < rest[k].ts
    <3>1. j + 1 \in 1..Len(grown) /\ k + 1 \in 1..Len(grown) /\ j + 1 < k + 1
      BY <1>1, <2>1, <2>2, <2>4
    <3>2. grown[j + 1].ts < grown[k + 1].ts
      BY <1>4, <3>1 DEF Ordered
    <3> QED
      BY <2>1, <3>2
  <2>5. Window(rest) /\ Ordered(rest)
    BY <2>1, <2>3, <2>4 DEF Window, Ordered
  <2> QED
    BY <2>5 DEF rest
<1>6. \A k \in 1..Len(grown) : grown[k] = bar \/ \E j \in 1..Len(v) : grown[k] = v[j]
  BY <1>1
<1>7. CASE Len(grown) > WindowSize
  <2>1. w = Tail(grown) /\ Len(w) = WindowSize /\ Len(v) = WindowSize
    <3>1. w = Tail(grown)
      BY <1>7 DEF Grown, grown
    <3>2. Len(v) \in Nat /\ WindowSize \in Nat /\ Len(v) <= WindowSize /\ Len(v) + 1 > WindowSize
      BY <1>1, <1>7
    <3>3. ASSUME NEW l \in Nat, NEW n \in Nat, l <= n, l + 1 > n PROVE l = n
      BY <3>3
    <3>4. Len(v) = WindowSize
      BY <3>2, <3>3
    <3> HIDE DEF w, grown
    <3> QED
      BY <1>3, <3>1, <3>4
  <2>2. ASSUME NEW day, OfOneDay(w, day) PROVE FALSE
    <3>1. Window(w) /\ Ordered(w)
      BY <1>5, <2>1
    <3> HIDE DEF w
    <3>2. Len(w) < WindowSize
      BY <2>2, <3>1, DayFits
    <3> QED
      BY <1>1, <2>1, <3>2
  <2>3. \A k \in 1..Len(w) : w[k] = bar \/ \E j \in 1..Len(v) : w[k] = v[j]
    BY <1>1, <1>3, <1>6, <2>1
  <2>4. w # <<>> /\ w[Len(w)] = bar /\ Len(w) \in 1..Len(w)
    BY <1>1, <1>3, <2>1
  <2> HIDE DEF w
  <2>5. Window(w) /\ Ordered(w) /\ Len(w) <= WindowSize /\ Len(w) \in Nat
    BY <1>1, <1>5, <2>1
  <2> QED
    BY <2>2, <2>3, <2>4, <2>5 DEF w
<1>8. CASE ~(Len(grown) > WindowSize)
  <2>1. w = grown
    BY <1>8 DEF Grown, grown
  <2> HIDE DEF w
  <2>3. Window(w) /\ Ordered(w) /\ Len(w) <= WindowSize /\ w # <<>> /\ Len(w) \in Nat
    BY <1>1, <1>2, <1>4, <1>8, <2>1
  <2>4. w[Len(w)] = bar /\ Len(w) \in 1..Len(w)
    BY <1>1, <2>1
  <2>5. \A k \in 1..Len(w) : w[k] = bar \/ \E j \in 1..Len(v) : w[k] = v[j]
    BY <1>6, <2>1
  <2>6. \A day : OfOneDay(w, day) => w = grown
    BY <2>1
  <2> QED
    BY <2>3, <2>4, <2>5, <2>6 DEF w, grown
<1> QED
  BY <1>7, <1>8

(* Of the days, the last stays in the window whole. *)
LEMMA TodayStays ==
    ASSUME NEW v, Window(v), Ordered(v), Len(v) <= WindowSize, NEW bar \in Bar, Closed(bar),
           \A k \in DOMAIN v : v[k].ts < bar.ts
    PROVE  LET w == Grown(v, bar)
               day == DayOf[bar.ts]
           IN  /\ Today(w, day) = Today(v, day) \cup {bar}
               /\ \A ranges : FirstBreakouts(w, ranges, day)
                                 = Broken({bar}, ranges) \ Broken(Today(v, day), ranges)
<1> DEFINE w == Grown(v, bar)
           grown == Append(v, bar)
           day == DayOf[bar.ts]
           before == {w[k] : k \in {j \in 1..(Len(w) - 1) : DayOf[w[j].ts] = day}}
<1>1. /\ Len(v) \in Nat /\ Len(grown) = Len(v) + 1 /\ \A k \in 1..Len(v) : grown[k] = v[k]
      /\ DOMAIN v = 1..Len(v) /\ grown \in Seq(Bar) /\ grown # <<>>
      /\ WindowSize \in Nat \ {0}
  BY AppendProperties, LenProperties, StrategiesAssumption DEF Window
<1>2. w = grown \/ (w = Tail(grown) /\ Len(v) = WindowSize)
  <2>1. w = IF Len(grown) > WindowSize THEN Tail(grown) ELSE grown
    BY DEF Grown
  <2>2. Len(v) <= WindowSize
    OBVIOUS
  <2> HIDE DEF w, grown
  <2>3. Len(grown) > WindowSize => Len(v) = WindowSize
    <3>1. Len(v) \in Nat /\ WindowSize \in Nat /\ Len(grown) = Len(v) + 1
      BY <1>1
    <3>2. ASSUME NEW l \in Nat, NEW n \in Nat, l <= n, l + 1 > n PROVE l = n
      BY <3>2
    <3> QED
      BY <2>2, <3>1, <3>2
  <2> QED
    BY <2>1, <2>3
<1>3. /\ Window(w) /\ Len(w) \in Nat /\ w[Len(w)] = bar /\ Len(w) \in 1..Len(w)
  BY Arrives
<1>4. DOMAIN w = 1..Len(w) /\ day \in Int
  BY <1>3, WindowFacts, StrategiesAssumption DEF Bar
<1> HIDE DEF w
<1>5. ASSUME w = grown PROVE before = Today(v, day)
  <2>1. Len(w) - 1 = Len(v) /\ \A k \in 1..Len(v) : w[k] = v[k]
    BY <1>1, <1>5
  <2> QED
    BY <2>1 DEF Today
<1>6. ASSUME w = Tail(grown), Len(v) = WindowSize PROVE before = Today(v, day)
  <2>1. Len(w) = Len(v) /\ \A k \in 1..Len(v) : w[k] = grown[k + 1]
    <3> HIDE DEF grown
    <3> QED
      BY <1>1, <1>6, HeadTailProperties
  <2>2. \A k \in 1..(Len(w) - 1) : k + 1 \in 1..Len(v) /\ w[k] = v[k + 1]
    BY <1>1, <2>1
  <2>3. 1 \in 1..Len(v)
    BY <1>1, <1>6
  <2>4. DayOf[v[1].ts] # day
    <3> SUFFICES ASSUME DayOf[v[1].ts] = day PROVE FALSE
      OBVIOUS
    <3>1. ASSUME NEW k \in 1..Len(v) PROVE DayOf[v[k].ts] = day
      <4>1. v[k].ts \in Times /\ bar.ts \in Times /\ v[1].ts \in Times
        BY <2>3, WindowFacts DEF Bar
      <4>2. v[k].ts < bar.ts /\ (k = 1 \/ v[1].ts < v[k].ts)
        BY <1>1, <2>3 DEF Ordered
      <4>3. DayOf[v[k].ts] \in Int /\ DayOf[v[k].ts] <= day /\ (k = 1 \/ day <= DayOf[v[k].ts])
        BY <4>1, <4>2, StrategiesAssumption
      <4> QED
        BY <1>4, <4>3
    <3>2. Len(v) < WindowSize
      BY <1>1, <3>1, DayFits DEF OfOneDay
    <3> QED
      BY <1>1, <1>6, <3>2
  <2>5. ASSUME NEW k \in 1..Len(v), DayOf[v[k].ts] = day PROVE v[k] \in before
    <3>1. k # 1 /\ k \in Nat /\ Len(w) = Len(v) /\ 1 <= k /\ k <= Len(v)
      BY <1>1, <2>1, <2>4, <2>5
    <3>2. k - 1 \in 1..(Len(w) - 1) /\ (k - 1) + 1 = k
      BY <1>1, <3>1
    <3>3. w[k - 1] = v[k]
      BY <2>2, <3>2
    <3> QED
      BY <2>5, <3>2, <3>3
  <2>6. before \subseteq Today(v, day)
    BY <2>2 DEF Today
  <2> HIDE DEF before
  <2> QED
    BY <2>5, <2>6 DEF Today
<1>7. before = Today(v, day)
  BY <1>2, <1>5, <1>6
<1>8. Today(w, day) = before \cup {bar}
  <2>1. \A k : k \in 1..Len(w) <=> k \in 1..(Len(w) - 1) \/ k = Len(w)
    BY <1>3
  <2> QED
    BY <1>3, <2>1 DEF Today
<1>9. ASSUME NEW ranges, NEW side \in Sides
      PROVE  side \in FirstBreakouts(w, ranges, day)
               <=> side \in Broken({bar}, ranges) /\ side \notin Broken(before, ranges)
  <2> DEFINE outside(k) == /\ DayOf[w[k].ts] = day /\ IsRth(w[k])
                           /\ \E range \in ranges : Breaks(w[k], range, side)
  <2>1. side \in FirstBreakouts(w, ranges, day)
          <=> outside(Len(w)) /\ \A k \in DOMAIN w : outside(k) => k = Len(w)
    BY DEF FirstBreakouts, Sides
  <2>2. outside(Len(w)) <=> side \in Broken({bar}, ranges)
    BY <1>3 DEF Broken
  <2>3. (\E k \in 1..(Len(w) - 1) : outside(k)) <=> side \in Broken(before, ranges)
    BY DEF Broken
  <2> HIDE DEF outside
  <2>4. (\A k \in DOMAIN w : outside(k) => k = Len(w)) <=> ~\E k \in 1..(Len(w) - 1) : outside(k)
    <3>1. \A k : k \in 1..(Len(w) - 1) <=> k \in DOMAIN w /\ k # Len(w)
      BY <1>3, <1>4
    <3> QED
      BY <3>1
  <2> QED
    BY <2>1, <2>2, <2>3, <2>4
<1> HIDE DEF before
<1>10. ASSUME NEW ranges
       PROVE  FirstBreakouts(w, ranges, day) = Broken({bar}, ranges) \ Broken(Today(v, day), ranges)
  <2>1. FirstBreakouts(w, ranges, day) \subseteq Sides /\ Broken({bar}, ranges) \subseteq Sides
    BY DEF FirstBreakouts, Broken, Sides
  <2> QED
    BY <1>7, <1>9, <2>1
<1> QED
  BY <1>7, <1>8, <1>10 DEF w

LEMMA BarCame ==
    ASSUME WindowInv, NEW sym \in Symbols, NEW ts \in Times, NEW shape \in Shapes,
           Observed(sym, ts, shape)
    PROVE  \E bar \in Bar :
             /\ Closed(bar) /\ bar.ts = ts
             /\ \A k \in DOMAIN bars[sym] : bars[sym][k].ts < bar.ts
             /\ bars' = [bars EXCEPT ![sym] = Grown(bars[sym], bar)]
<1> DEFINE bar == [high |-> shape.high, low |-> shape.low, close |-> shape.close, ts |-> ts]
<1>1. shape \in [high : Int, low : Int, close : Int] /\ shape.low <= shape.close /\ shape.close <= shape.high
  BY StrategiesAssumption
<1>2. bar \in Bar /\ Closed(bar) /\ bar.ts = ts
  BY <1>1 DEF Bar, Closed
<1>3. bars' = [bars EXCEPT ![sym] = Grown(bars[sym], bar)]
  BY DEF Observed, Grown
<1>4. \A k \in DOMAIN bars[sym] : bars[sym][k].ts < bar.ts
  BY <1>2 DEF Observed
<1> HIDE DEF bar
<1> QED
  BY <1>2, <1>3, <1>4

LEMMA WindowStep ==
    ASSUME WindowInv, NEW sym \in Symbols, NEW ts \in Times, NEW shape \in Shapes,
           Observed(sym, ts, shape)
    PROVE  WindowInv'
<1>1. PICK bar \in Bar :
        /\ Closed(bar) /\ bar.ts = ts
        /\ \A k \in DOMAIN bars[sym] : bars[sym][k].ts < bar.ts
        /\ bars' = [bars EXCEPT ![sym] = Grown(bars[sym], bar)]
  BY BarCame
<1> DEFINE v == bars[sym]
           w == Grown(v, bar)
<1>2. Window(v) /\ Ordered(v) /\ Len(v) <= WindowSize
  BY DEF WindowInv
<1>3. /\ Window(w) /\ Ordered(w) /\ Len(w) <= WindowSize
      /\ \A k \in 1..Len(w) : w[k] = bar \/ \E j \in 1..Len(v) : w[k] = v[j]
  BY <1>1, <1>2, Arrives
<1>4. /\ bars' \in [Symbols -> Seq(Bar)] /\ bars'[sym] = w
      /\ \A other \in Symbols \ {sym} : bars'[other] = bars[other]
  <2>1. w \in Seq(Bar)
    BY <1>3 DEF Window
  <2> QED
    BY <1>1, <2>1 DEF WindowInv
<1>5. /\ roster' = roster /\ roster # <<>> /\ evaluatedAt' = ts
      /\ inOrder' = (inOrder /\ DayOf[evaluatedAt] <= DayOf[ts])
  BY DEF Observed
<1> HIDE DEF w, v
<1>6. ASSUME NEW other \in Symbols
      PROVE  /\ Window(bars'[other]) /\ Ordered(bars'[other]) /\ Len(bars'[other]) <= WindowSize
  BY <1>3, <1>4 DEF WindowInv
<1>7. ASSUME inOrder', NEW other \in Symbols, NEW k \in 1..Len(bars'[other])
      PROVE  DayOf[bars'[other][k].ts] <= DayOf[evaluatedAt']
  <2>1. /\ inOrder /\ DayOf[evaluatedAt] <= DayOf[ts] /\ DayOf[evaluatedAt] \in Int /\ DayOf[ts] \in Int
    BY <1>5, <1>7, StrategiesAssumption DEF WindowInv
  <2>2. ASSUME NEW x \in Symbols, NEW j \in 1..Len(bars[x]) PROVE DayOf[bars[x][j].ts] <= DayOf[ts]
    <3>1. DayOf[bars[x][j].ts] <= DayOf[evaluatedAt] /\ Window(bars[x])
      BY <1>5, <2>1 DEF WindowInv
    <3>2. DayOf[bars[x][j].ts] \in Int
      BY <3>1, WindowFacts, StrategiesAssumption
    <3> QED
      BY <2>1, <3>1, <3>2
  <2>3. CASE other = sym
    <3>1. k \in 1..Len(w) /\ bars'[other][k] = w[k]
      BY <1>4, <1>7, <2>3
    <3>2. CASE w[k] = bar
      BY <1>1, <1>5, <2>1, <3>1, <3>2
    <3>3. CASE \E j \in 1..Len(v) : w[k] = v[j]
      BY <1>5, <2>2, <3>1, <3>3 DEF v
    <3> QED
      BY <1>3, <3>1, <3>2, <3>3
  <2>4. CASE other # sym
    BY <1>4, <1>5, <1>7, <2>2, <2>4
  <2> QED
    BY <2>3, <2>4
<1>8. inOrder' \in BOOLEAN
  BY <1>5
<1> QED
  BY <1>4, <1>5, <1>6, <1>7, <1>8 DEF WindowInv

(* Another symbol's bar, for which the window is evaluated again, changes   *)
(* nothing on the same day; on a new one it may.                            *)
LEMMA KeptThroughOthers ==
    ASSUME NEW old, NEW windows, NEW own \in Specs, own \in Symbols, NEW ts \in Times, NEW o,
           NEW before \in Int, Kept(o, old, own, before), before <= DayOf[ts],
           windows[own] = old[own], Window(old[own]),
           \A k \in DOMAIN old[own] : DayOf[old[own][k].ts] <= before,
           \E other \in Symbols \ {own} :
             \E k \in DOMAIN windows[other] : DayOf[windows[other][k].ts] = DayOf[ts]
    PROVE  Kept(OrbStep([orb |-> o, keys |-> {}], windows, own, ts).orb, windows, own, DayOf[ts])
<1> DEFINE w == windows[own]
           day == DayOf[ts]
           now == Identified(Entered(o, ts), w)
           step == OrbStep([orb |-> o, keys |-> {}], windows, own, ts)
<1>1. Undisturbed(windows, own, day) => OfOneDay(w, day)
  BY DEF Undisturbed
<1>2. CASE w = <<>>
  <2>1. step = [orb |-> o, keys |-> {}]
    BY <1>2 DEF OrbStep
  <2>2. o = NoSession
    BY <1>2 DEF Kept
  <2> QED
    BY <1>2, <2>1, <2>2 DEF Kept
<1>3. CASE w # <<>>
  <2>1. /\ o \in Orb /\ o.date = before
        /\ o.range = {} /\ ~o.rejected => Rth(w) = {}
        /\ Undisturbed(old, own, before) => o.fired = Broken(Today(w, before), o.range)
        /\ OfOneDay(w, before) => o.range = RangeOf(w) /\ o.rejected = RejectedOf(w)
    BY <1>3 DEF Kept
  <2>2. Window(w) /\ w # <<>>
    BY <1>3
  <2>3. /\ Entered(o, ts) \in Orb /\ step.orb \in Orb /\ step.orb.date = day
        /\ step.orb.range = now.range /\ step.orb.rejected = now.rejected
        /\ step.orb.fired = now.fired \cup Broken({w[Len(w)]}, now.range)
    <3>1. o \in Orb /\ Window(windows[own]) /\ windows[own] # <<>>
      BY <2>1, <2>2
    <3>2. Stepped(o, windows, own, ts)
      BY <3>1, OrbSteps
    <3> QED
      BY <3>2 DEF Stepped
  <2>4. now.range = {} /\ ~now.rejected => Rth(w) = {}
    BY <2>2, <2>3, Identifies
  <2>5. Len(w) \in 1..Len(w) /\ DOMAIN w = 1..Len(w)
    BY <2>2, WindowFacts, EmptySeq DEF Window
  <2>6. ASSUME OfOneDay(w, day)
        PROVE  /\ step.orb.fired = Broken(Today(w, day), step.orb.range)
               /\ step.orb.range = RangeOf(w) /\ step.orb.rejected = RejectedOf(w)
    <3>1. before = day
      <4>1. DayOf[w[Len(w)].ts] = day /\ DayOf[w[Len(w)].ts] <= before
        BY <2>5, <2>6 DEF OfOneDay
      <4>2. day \in Int
        BY StrategiesAssumption
      <4> QED
        BY <4>1, <4>2
    <3>2. Entered(o, ts) = o
      BY <2>1, <3>1 DEF Entered
    <3>3. now = o
      BY <2>1, <2>2, <3>2, Identifies
    <3>4. Undisturbed(old, own, before)
      BY <2>6, <3>1 DEF Undisturbed
    <3>5. o.fired = Broken(Today(w, day), o.range)
      BY <2>1, <3>1, <3>4
    <3>6. {w[Len(w)]} \subseteq Today(w, day)
      BY <2>5, <2>6 DEF Today, OfOneDay
    <3>7. Broken({w[Len(w)]}, o.range) \subseteq Broken(Today(w, day), o.range)
      BY <3>6, BrokenMore
    <3> HIDE DEF w, now, step
    <3> QED
      BY <2>1, <2>3, <2>6, <3>1, <3>3, <3>5, <3>7
  <2> HIDE DEF now, step
  <2> QED
    <3>1. Kept(step.orb, windows, own, day)
      BY <1>1, <1>3, <2>3, <2>4, <2>6 DEF Kept
    <3> QED
      BY <3>1 DEF step
<1> QED
  BY <1>2, <1>3

(* A bar of its own. *)
Followed(o, windows, own, ts) ==
    LET step == OrbStep([orb |-> o, keys |-> {}], windows, own, ts)
        day == DayOf[ts]
    IN  /\ Kept(step.orb, windows, own, day)
        /\ Undisturbed(windows, own, day) =>
             step.keys = {<<own, side>> :
                            side \in FirstBreakouts(windows[own], step.orb.range, day)}
LEMMA KeptThroughOwn ==
    ASSUME NEW old, NEW windows, NEW own \in Specs, own \in Symbols, NEW o,
           NEW before \in Int, Kept(o, old, own, before),
           NEW bar \in Bar, Closed(bar), before <= DayOf[bar.ts],
           Window(old[own]), Ordered(old[own]), Len(old[own]) <= WindowSize,
           \A k \in DOMAIN old[own] : old[own][k].ts < bar.ts /\ DayOf[old[own][k].ts] <= before,
           windows[own] = Grown(old[own], bar),
           \A other \in Symbols \ {own} : windows[other] = old[other]
    PROVE  Followed(o, windows, own, bar.ts)
<1> DEFINE v == old[own]
           w == windows[own]
           ts == bar.ts
           day == DayOf[ts]
           e == Entered(o, ts)
           now == Identified(e, w)
           step == OrbStep([orb |-> o, keys |-> {}], windows, own, ts)
           fresh == Broken({bar}, now.range)
           fired == Broken(Today(v, day), now.range)
<1>1. ts \in Times /\ day \in Int
  BY StrategiesAssumption DEF Bar
<1>2. /\ Window(w) /\ w # <<>> /\ w[Len(w)] = bar
      /\ OfOneDay(w, day) => w = Append(v, bar)
  BY Arrives
<1>3. /\ Today(w, day) = Today(v, day) \cup {bar}
      /\ \A ranges : FirstBreakouts(w, ranges, day)
                        = Broken({bar}, ranges) \ Broken(Today(v, day), ranges)
  <2>1. /\ Window(v) /\ Ordered(v) /\ Len(v) <= WindowSize /\ w = Grown(v, bar)
        /\ \A k \in DOMAIN v : v[k].ts < bar.ts
    OBVIOUS
  <2> HIDE DEF v, w
  <2> QED
    BY <2>1, TodayStays
<1>4. o \in Orb /\ (v # <<>> => o.date = before)
  <2>1. NoSession \in Orb
    BY DEF NoSession, Orb
  <2>2. (v = <<>> => o = NoSession) /\ (v # <<>> => o \in Orb /\ o.date = before)
    BY DEF Kept
  <2> QED
    BY <2>1, <2>2
<1>5. /\ e \in Orb /\ step.orb \in Orb /\ step.orb.date = day
      /\ step.orb.range = now.range /\ step.orb.rejected = now.rejected
      /\ step.orb.fired = now.fired \cup fresh
      /\ step.keys = {<<own, side>> : side \in fresh \ now.fired}
  <2>1. /\ e \in Orb /\ step.orb \in Orb /\ step.orb.date = day
        /\ step.orb.range = now.range /\ step.orb.rejected = now.rejected
        /\ step.orb.fired = now.fired \cup Broken({w[Len(w)]}, now.range)
        /\ step.keys = {<<own, side>> : side \in Broken({w[Len(w)]}, now.range) \ now.fired}
    <3>1. Stepped(o, windows, own, ts)
      BY <1>1, <1>2, <1>4, OrbSteps
    <3> QED
      BY <3>1 DEF Stepped
  <2> HIDE DEF e, step, now
  <2> QED
    BY <1>2, <2>1
<1>6. /\ now.fired = e.fired
      /\ now.range = {} /\ ~now.rejected => Rth(w) = {}
      /\ e.range # {} \/ e.rejected => now = e
      /\ e.range = {} /\ ~e.rejected => now.range = RangeOf(w) /\ now.rejected = RejectedOf(w)
  BY <1>2, <1>5, Identifies
<1>7. Len(v) \in Nat /\ DOMAIN v = 1..Len(v)
  BY WindowFacts
<1>8. OfOneDay(w, day) => OfOneDay(v, day)
  <2> SUFFICES ASSUME OfOneDay(w, day), NEW k \in DOMAIN v PROVE DayOf[v[k].ts] = day
    BY DEF OfOneDay
  <2>1. w = Append(v, bar) /\ v \in Seq(Bar)
    BY <1>2 DEF Window
  <2>2. k \in DOMAIN w /\ w[k] = v[k]
    BY <1>7, <2>1, AppendProperties, LenProperties
  <2> QED
    BY <2>2 DEF OfOneDay
<1>9. Undisturbed(windows, own, day) => Undisturbed(old, own, day)
  BY <1>8 DEF Undisturbed
(* What it has fired before, and its range if the window is of the day. *)
<1>10. /\ Undisturbed(windows, own, day) => now.fired = fired
       /\ OfOneDay(w, day) => now.range = RangeOf(w) /\ now.rejected = RejectedOf(w)
  <2>1. CASE v = <<>> \/ before # day
    <3>1. Today(v, day) = {}
      <4> SUFFICES ASSUME NEW k \in 1..Len(v), DayOf[v[k].ts] = day PROVE FALSE
        BY DEF Today
      <4>1. v # <<>> /\ day <= before
        BY <1>7
      <4> QED
        BY <1>1, <2>1, <4>1
    <3>2. e.range = {} /\ ~e.rejected /\ e.fired = {}
      <4>1. CASE v = <<>>
        <5>1. o = NoSession
          BY <4>1 DEF Kept
        <5> QED
          BY <5>1 DEF Entered, NoSession
      <4>2. CASE v # <<>>
        <5>1. o.date # day
          BY <1>4, <2>1, <4>2
        <5> QED
          BY <5>1 DEF Entered, NoSession
      <4> QED
        BY <4>1, <4>2
    <3>3. fired = {}
      BY <3>1, BrokenNone
    <3> HIDE DEF fired, now, e, w
    <3> QED
      BY <1>6, <3>2, <3>3
  <2>2. CASE v # <<>> /\ before = day
    <3>1. /\ o.date = day /\ (o.range = {} /\ ~o.rejected => Rth(v) = {})
          /\ Undisturbed(old, own, day) => o.fired = Broken(Today(v, day), o.range)
          /\ OfOneDay(v, day) => o.range = RangeOf(v) /\ o.rejected = RejectedOf(v)
      BY <2>2 DEF Kept
    <3>2. e = o
      BY <3>1 DEF Entered
    <3>3. ASSUME Undisturbed(windows, own, day) PROVE now.fired = fired
      <4>1. o.fired = Broken(Today(v, day), o.range)
        BY <1>9, <3>1, <3>3
      <4>2. CASE o.range # {} \/ o.rejected
        BY <1>6, <3>2, <4>1, <4>2
      <4>3. CASE o.range = {} /\ ~o.rejected
        <5>1. fired = {}
          BY <3>1, <4>3, NoneLate
        <5>2. o.fired = {}
          BY <4>1, <4>3, BrokenNone
        <5> QED
          BY <1>6, <3>2, <5>1, <5>2
      <4> QED
        BY <4>2, <4>3
    <3>4. ASSUME OfOneDay(w, day)
          PROVE  now.range = RangeOf(w) /\ now.rejected = RejectedOf(w)
      <4>1. w = Append(v, bar) /\ o.range = RangeOf(v) /\ o.rejected = RejectedOf(v)
        BY <1>2, <1>8, <3>1, <3>4
      <4>2. CASE Rth(v) = {}
        <5>1. o.range = {} /\ ~o.rejected
          BY <4>1, <4>2 DEF RangeOf, RejectedOf
        <5> QED
          BY <1>6, <3>2, <5>1
      <4>3. CASE Rth(v) # {}
        <5>1. o.range # {} \/ o.rejected
          BY <4>1, <4>3 DEF RangeOf, RejectedOf
        <5>2. RangeOf(w) = RangeOf(v) /\ RejectedOf(w) = RejectedOf(v)
          BY <4>1, <4>3, RangeStays
        <5> QED
          BY <1>6, <3>2, <4>1, <5>1, <5>2
      <4> QED
        BY <4>2, <4>3
    <3> QED
      BY <3>3, <3>4
  <2> QED
    BY <2>1, <2>2
<1>11. Broken(Today(w, day), now.range) = fired \cup fresh
  <2>1. Broken(Today(v, day) \cup {bar}, now.range) = fired \cup fresh
    BY BrokenApart
  <2> HIDE DEF w, now, fired, fresh
  <2> QED
    BY <1>3, <2>1
<1>12. FirstBreakouts(w, now.range, day) = fresh \ fired
  BY <1>3
<1> HIDE DEF step, now, e, fired, fresh
<1>13. Kept(step.orb, windows, own, day)
  BY <1>2, <1>5, <1>6, <1>10, <1>11 DEF Kept
<1>14. Undisturbed(windows, own, day) =>
         step.keys = {<<own, side>> : side \in FirstBreakouts(w, step.orb.range, day)}
  BY <1>5, <1>10, <1>12
<1> QED
  BY <1>13, <1>14 DEF Followed, step

(* What the strategy of one symbol makes of a bar. *)
LEMMA OrbFollows ==
    ASSUME WindowInv, OrbInv, NEW sym \in Symbols, NEW ts \in Times, NEW shape \in Shapes,
           Observed(sym, ts, shape), ~crashed, inOrder', NEW s \in DOMAIN roster,
           NEW own \in Symbols, OrbAlone(s, own)
    PROVE  LET evaluated == OrbEvaluates(orb, bars', roster[s].symbols, ts)
               day == DayOf[ts]
           IN  /\ Kept(evaluated.orb, bars', own, day)
               /\ own = sym /\ Undisturbed(bars', own, day) =>
                    evaluated.keys = {<<own, side>> :
                                        side \in FirstBreakouts(bars'[own], evaluated.orb.range, day)}
<1> DEFINE evaluated == OrbEvaluates(orb, bars', roster[s].symbols, ts)
           stepped == OrbStep([orb |-> orb, keys |-> {}], bars', own, ts)
           before == DayOf[evaluatedAt]
           day == DayOf[ts]
<1>1. evaluated = stepped /\ own \in Specs
  BY FoldOfOne DEF OrbAlone
<1>2. PICK bar \in Bar :
        /\ Closed(bar) /\ bar.ts = ts
        /\ \A k \in DOMAIN bars[sym] : bars[sym][k].ts < bar.ts
        /\ bars' = [bars EXCEPT ![sym] = Grown(bars[sym], bar)]
  BY BarCame
<1>3. /\ roster # <<>> /\ inOrder /\ before <= day /\ before \in Int /\ day \in Int
  BY StrategiesAssumption DEF Observed, WindowInv
<1>4. /\ Window(bars[own]) /\ Ordered(bars[own]) /\ Len(bars[own]) <= WindowSize
      /\ \A k \in DOMAIN bars[own] : DayOf[bars[own][k].ts] <= before
  BY <1>3, WindowFacts DEF WindowInv
<1>5. Kept(orb, bars, own, before)
  BY <1>3 DEF OrbInv
<1>6. /\ bars'[sym] = Grown(bars[sym], bar)
      /\ \A other \in Symbols \ {sym} : bars'[other] = bars[other]
  BY <1>2 DEF WindowInv
<1> HIDE DEF evaluated
<1>7. CASE own # sym
  <2>1. bars'[own] = bars[own]
    BY <1>6, <1>7
  <2>2. \E other \in Symbols \ {own} :
          \E k \in DOMAIN bars'[other] : DayOf[bars'[other][k].ts] = day
    <3>1. Window(bars[sym]) /\ Ordered(bars[sym]) /\ Len(bars[sym]) <= WindowSize
      BY DEF WindowInv
    <3>2. /\ Window(Grown(bars[sym], bar)) /\ Grown(bars[sym], bar)[Len(Grown(bars[sym], bar))] = bar
          /\ Len(Grown(bars[sym], bar)) \in 1..Len(Grown(bars[sym], bar))
      BY <1>2, <3>1, Arrives
    <3>3. /\ Len(bars'[sym]) \in DOMAIN bars'[sym]
          /\ bars'[sym][Len(bars'[sym])] = bar
      BY <1>6, <3>2, WindowFacts
    <3> QED
      BY <1>2, <1>7, <3>3
  <2>3. Kept(stepped.orb, bars', own, day)
    BY <1>1, <1>3, <1>4, <1>5, <2>1, <2>2, KeptThroughOthers
  <2> QED
    BY <1>1, <1>7, <2>3 DEF evaluated
<1>8. CASE own = sym
  <2>1. /\ bars'[own] = Grown(bars[own], bar) /\ before <= DayOf[bar.ts]
        /\ \A other \in Symbols \ {own} : bars'[other] = bars[other]
        /\ \A k \in DOMAIN bars[own] : bars[own][k].ts < bar.ts /\ DayOf[bars[own][k].ts] <= before
    BY <1>2, <1>3, <1>4, <1>6, <1>8
  <2>2. /\ Kept(stepped.orb, bars', own, day)
        /\ Undisturbed(bars', own, day) =>
             stepped.keys = {<<own, side>> :
                               side \in FirstBreakouts(bars'[own], stepped.orb.range, day)}
    <3>1. Followed(orb, bars', own, bar.ts)
      BY <1>1, <1>2, <1>3, <1>4, <1>5, <2>1, KeptThroughOwn
    <3>2. bar.ts = ts
      BY <1>2
    <3>3. Followed(orb, bars', own, ts)
      BY <3>1, <3>2
    <3> QED
      BY <3>3 DEF Followed
  <2> QED
    BY <1>1, <2>2 DEF evaluated
<1> QED
  BY <1>7, <1>8

(* Of what the strategies return, the breakouts are this one's. *)
LEMMA OrbReturns ==
    ASSUME NEW s \in DOMAIN roster, NEW own \in Symbols, OrbAlone(s, own), NEW ts,
           Returned(ts, Len(roster))
    PROVE  LET evaluated == OrbEvaluates(orb, bars', roster[s].symbols, ts)
           IN  orb' = evaluated.orb /\ Of(s, returned') = BrokenOut(s, evaluated, ts)
<1> DEFINE last == Len(roster)
           evaluated == OrbEvaluates(orb, bars', roster[s].symbols, ts)
           broke == [t \in Named("orb_5m", last) |-> OrbEvaluates(orb, Seen, roster[t].symbols, ts)]
           breakouts == UNION {BrokenOut(t, broke[t], ts) : t \in DOMAIN broke}
           samples == UNION {Sampled(t, ts) : t \in Named("dummy", last)}
<1>1. Named("orb_5m", last) = {s} /\ s \in Named("orb_5m", last)
  BY DEF OrbAlone
<1>2. DOMAIN broke = {s} /\ broke[s] = evaluated
  BY <1>1 DEF Seen
<1>3. PICK answer \in [Named("http", last) -> UNION {Answered(t, ts) : t \in Named("http", last)}] :
        /\ \A t \in DOMAIN answer : answer[t] \in Answered(t, ts)
        /\ returned' = (breakouts \cup samples) \cup UNION {answer[t] : t \in DOMAIN answer}
  BY DEF Returned
<1>4. orb' \in IF DOMAIN broke = {} THEN {orb} ELSE {broke[t].orb : t \in DOMAIN broke}
  BY DEF Returned
<1> HIDE DEF broke, evaluated
<1>5. orb' = evaluated.orb
  BY <1>2, <1>4
<1>6. breakouts = BrokenOut(s, evaluated, ts)
  BY <1>2
<1>7. \A c \in BrokenOut(s, evaluated, ts) : c.strategy = s
  BY DEF BrokenOut, Candidate
<1>8. roster[s].name = "orb_5m"
  BY <1>1 DEF Named
<1>9. \A c \in samples : c.strategy # s
  <2> SUFFICES ASSUME NEW t \in Named("dummy", last), NEW c \in Sampled(t, ts) PROVE c.strategy # s
    OBVIOUS
  <2>1. c.strategy = t
    BY DEF Sampled, Candidate
  <2>2. roster[t].name = "dummy"
    BY DEF Named
  <2> QED
    BY <1>8, <2>1, <2>2
<1>10. \A c \in UNION {answer[t] : t \in DOMAIN answer} : c.strategy # s
  <2> SUFFICES ASSUME NEW t \in DOMAIN answer, NEW c \in answer[t] PROVE c.strategy # s
    OBVIOUS
  <2>1. t \in Named("http", last) /\ answer[t] \in Answered(t, ts)
    BY <1>3
  <2>2. c.strategy = t
    BY <2>1 DEF Answered, Candidate
  <2>3. roster[t].name = "http"
    BY <2>1 DEF Named
  <2> QED
    BY <1>8, <2>2, <2>3
<1> HIDE DEF breakouts, samples
<1>11. Of(s, returned') = BrokenOut(s, evaluated, ts)
  <2> DEFINE answers == UNION {answer[t] : t \in DOMAIN answer}
  <2>1. \A c : c \in returned' <=> c \in breakouts \/ c \in samples \/ c \in answers
    BY <1>3
  <2> HIDE DEF answers
  <2>2. \A c \in answers : c.strategy # s
    BY <1>10 DEF answers
  <2> QED
    BY <1>6, <1>7, <1>9, <2>1, <2>2 DEF Of
<1> QED
  BY <1>5, <1>11 DEF evaluated

LEMMA OrbInitially ==
    ASSUME StrategiesInit
    PROVE  WindowInv /\ OrbInv
<1>1. \A sym \in Symbols : bars[sym] = <<>>
  BY DEF StrategiesInit
<1>2. Window(<<>>) /\ Ordered(<<>>) /\ Len(<<>>) <= WindowSize
  BY StrategiesAssumption DEF Window, Ordered
<1>3. bars \in [Symbols -> Seq(Bar)]
  BY DEF StrategiesInit
<1>4. WindowInv
  BY <1>1, <1>2, <1>3 DEF WindowInv, StrategiesInit, StoreInit
<1>5. OrbInv
  BY <1>1 DEF OrbInv, Kept, StrategiesInit
<1> QED
  BY <1>4, <1>5

LEMMA StepPreservesOrb ==
    ASSUME WindowInv, OrbInv, [StrategiesNext]_<<storeVars, strategyVars>>
    PROVE  WindowInv' /\ OrbInv'
<1>1. ASSUME NEW sym \in Symbols, NEW ts \in Times, NEW shape \in Shapes,
             StrategiesReturn(sym, ts, shape)
      PROVE  WindowInv' /\ OrbInv'
  <2>1. Observed(sym, ts, shape) /\ Returned(ts, Len(roster)) /\ crashed' = crashed
    BY <1>1 DEF StrategiesReturn
  <2>2. roster' = roster /\ evaluatedAt' = ts
    BY <2>1 DEF Observed
  <2>3. WindowInv'
    BY <2>1, WindowStep
  <2>4. ASSUME NEW s \in DOMAIN roster, NEW own \in Symbols, OrbAlone(s, own), ~crashed, inOrder'
        PROVE  Kept(orb', bars', own, DayOf[ts])
    <3>1. orb' = OrbEvaluates(orb, bars', roster[s].symbols, ts).orb
      BY <2>1, <2>4, OrbReturns
    <3> QED
      BY <2>1, <2>4, <3>1, OrbFollows
  <2>6. OrbInv'
    BY <2>1, <2>2, <2>4 DEF OrbInv, OrbAlone, Named
  <2> QED
    BY <2>3, <2>6
<1>2. ASSUME NEW sym \in Symbols, NEW ts \in Times, NEW shape \in Shapes,
             ServiceRaises(sym, ts, shape)
      PROVE  WindowInv' /\ OrbInv'
  <2>1. Observed(sym, ts, shape) /\ crashed' = TRUE
    BY <1>2 DEF ServiceRaises
  <2>2. WindowInv'
    BY <2>1, WindowStep
  <2>3. OrbInv'
    BY <2>1 DEF OrbInv
  <2> QED
    BY <2>2, <2>3
<1>3. CASE AnyStrategies
  <2>1. roster = <<>> /\ UNCHANGED strategyVars
    BY <1>3 DEF AnyStrategies
  <2>2. WindowInv'
    BY <2>1 DEF WindowInv, strategyVars
  <2>3. OrbInv'
    BY <2>1 DEF OrbInv, strategyVars
  <2> QED
    BY <2>2, <2>3
<1>4. CASE UNCHANGED <<storeVars, strategyVars>>
  <2>1. WindowInv'
    BY <1>4 DEF WindowInv, strategyVars, storeVars
  <2>2. OrbInv'
    BY <1>4 DEF OrbInv, OrbAlone, Named, Kept, Undisturbed, strategyVars, storeVars
  <2> QED
    BY <2>1, <2>2
<1> QED
  BY <1>1, <1>2, <1>3, <1>4 DEF StrategiesNext, StrategiesStopped

LEMMA StepSignals ==
    ASSUME WindowInv, OrbInv, [StrategiesNext]_<<storeVars, strategyVars>>,
           NEW s \in DOMAIN roster, NEW own \in Symbols, OrbAlone(s, own), bars'[own] # bars[own],
           ~crashed', inOrder', Undisturbed(bars', own, DayOf[evaluatedAt'])
    PROVE  /\ {c.key : c \in Of(s, returned')}
                = {<<own, side>> : side \in FirstBreakouts(bars'[own], orb'.range, DayOf[evaluatedAt'])}
           /\ OfOneDay(bars'[own], DayOf[evaluatedAt']) =>
                orb'.range = FirstRange(bars'[own], DayOf[evaluatedAt'])
<1>1. PICK sym \in Symbols, ts \in Times, shape \in Shapes :
        StrategiesReturn(sym, ts, shape) \/ ServiceRaises(sym, ts, shape)
  BY DEF StrategiesNext, AnyStrategies, StrategiesStopped, strategyVars
<1>2. /\ Observed(sym, ts, shape) /\ Returned(ts, Len(roster)) /\ ~crashed /\ evaluatedAt' = ts
  BY <1>1 DEF StrategiesReturn, ServiceRaises, Observed
<1>3. own = sym
  <2>1. bars \in [Symbols -> Seq(Bar)] /\ \E w : bars' = [bars EXCEPT ![sym] = w]
    BY <1>2 DEF WindowInv, Observed
  <2> QED
    BY <2>1
<1> DEFINE evaluated == OrbEvaluates(orb, bars', roster[s].symbols, ts)
           w == bars'[own]
           first == FirstBreakouts(w, evaluated.orb.range, DayOf[ts])
           life == SessionEndOn[DayOf[ts]] - ts
<1>4. orb' = evaluated.orb /\ Of(s, returned') = BrokenOut(s, evaluated, ts)
  BY <1>2, OrbReturns
<1>5. Kept(evaluated.orb, bars', own, DayOf[ts])
  BY <1>2, OrbFollows
<1>6. evaluated.keys = {<<own, side>> : side \in first}
  BY <1>2, <1>3, OrbFollows
<1>7. Window(w)
  BY <1>2, WindowStep DEF WindowInv
<1>8. w # <<>>
  <2>1. PICK bar \in Bar :
          /\ Closed(bar) /\ bar.ts = ts
          /\ \A k \in DOMAIN bars[sym] : bars[sym][k].ts < bar.ts
          /\ bars' = [bars EXCEPT ![sym] = Grown(bars[sym], bar)]
    BY <1>2, BarCame
  <2>2. Window(bars[sym]) /\ Ordered(bars[sym]) /\ Len(bars[sym]) <= WindowSize
    BY DEF WindowInv
  <2>3. Grown(bars[sym], bar) # <<>>
    BY <2>1, <2>2, Arrives
  <2> QED
    BY <1>3, <2>1, <2>3 DEF WindowInv
<1> HIDE DEF evaluated, first, life
<1>9. {c.key : c \in Of(s, returned')} = {<<own, side>> : side \in first}
  <2>1. \A key : Candidate(s, key, ts, life).key = key
    BY DEF Candidate
  <2>2. Of(s, returned') = {Candidate(s, key, ts, life) : key \in evaluated.keys}
    BY <1>4 DEF BrokenOut, life
  <2>3. {c.key : c \in Of(s, returned')} = evaluated.keys
    BY <2>1, <2>2
  <2> QED
    BY <1>6, <2>3
<1>10. OfOneDay(w, DayOf[ts]) => orb'.range = FirstRange(w, DayOf[ts])
  BY <1>4, <1>5, <1>7, <1>8, FirstRangeIs DEF Kept
<1> QED
  BY <1>2, <1>4, <1>9, <1>10 DEF first

(* The state the strategy keeps from bar to bar has it signal each breakout *)
(* of the day's session once, on the first bar to close outside its range,  *)
(* whatever the bars, the configuration and the days before in the window;  *)
(* the range is that of the session's first bar in a window of one day      *)
(* (orb_5m.py:77-180).                                                      *)
THEOREM SignalsFirstBreakoutsHolds == StrategiesSpec => SignalsFirstBreakouts
<1>1. StrategiesInit => WindowInv /\ OrbInv
  BY OrbInitially
<1>2. WindowInv /\ OrbInv /\ [StrategiesNext]_<<storeVars, strategyVars>> => WindowInv' /\ OrbInv'
  BY StepPreservesOrb
<1>3. ASSUME WindowInv, OrbInv, [StrategiesNext]_<<storeVars, strategyVars>>
      PROVE  \A s \in DOMAIN roster, sym \in Symbols :
               LET window == bars'[sym]
                   day == DayOf[evaluatedAt']
               IN  /\ OrbAlone(s, sym) /\ window # bars[sym] /\ ~crashed' /\ inOrder'
                   /\ Undisturbed(bars', sym, day)
                   => /\ {c.key : c \in Of(s, returned')}
                           = {<<sym, side>> : side \in FirstBreakouts(window, orb'.range, day)}
                      /\ OfOneDay(window, day) => orb'.range = FirstRange(window, day)
  BY <1>3, StepSignals
<1> QED
  BY <1>1, <1>2, <1>3, PTL DEF StrategiesSpec, SignalsFirstBreakouts

-----------------------------------------------------------------------------
(* The store under the strategies of a configuration *)

Proposal(c) == c.strategy \in Strategies /\ c.until \in Int
RosterInv ==
    /\ Len(roster) \in 0..NumStrategies
    /\ \A c \in candidates : Proposal(c)
    /\ OnePerKind

(* The strategies propose one candidate of a kind among them. *)
LEMMA ReturnedOnePerKind ==
    ASSUME NEW ts \in Times, NEW last \in Nat, last <= NumStrategies, Returned(ts, last)
    PROVE  /\ \A c \in returned' : Proposal(c)
           /\ \A c, d \in returned' : Kind(c) = Kind(d) => c = d
<1> DEFINE broke == [t \in Named("orb_5m", last) |-> OrbEvaluates(orb, Seen, roster[t].symbols, ts)]
           breakouts == UNION {BrokenOut(t, broke[t], ts) : t \in DOMAIN broke}
           samples == UNION {Sampled(t, ts) : t \in Named("dummy", last)}
           life == SessionEndOn[DayOf[ts]] - ts
           sample(t) == Candidate(t, <<roster[t].symbols[1], "BUY">>, ts, DummyLifetime)
<1>1. PICK answer \in [Named("http", last) -> UNION {Answered(t, ts) : t \in Named("http", last)}] :
        /\ \A t \in DOMAIN answer : answer[t] \in Answered(t, ts)
        /\ returned' = (breakouts \cup samples) \cup UNION {answer[t] : t \in DOMAIN answer}
  BY DEF Returned
<1>2. ts \in Int /\ life \in Int /\ DummyLifetime \in Int /\ \A a \in ServiceAnswers : a[2] \in Int
  BY StoreAssumption, RosterAssumption
<1> HIDE DEF life
<1>3. \A c \in breakouts : \E t \in Named("orb_5m", last) : \E key : c = Candidate(t, key, ts, life)
  BY DEF BrokenOut, life
<1>4. \A c \in samples : \E t \in Named("dummy", last) : c = sample(t)
  BY DEF Sampled
<1>5. \A t \in Named("http", last) : \A c, d \in answer[t] :
        c = d /\ \E a \in ServiceAnswers : c = Candidate(t, a[1], ts, a[2])
  BY <1>1 DEF Answered
<1> DEFINE answers == UNION {answer[t] : t \in DOMAIN answer}
<1>6. \A c \in answers : \E t \in Named("http", last) : c \in answer[t]
  OBVIOUS
<1> HIDE DEF breakouts, samples, answers
<1>7. \A t, key : \A lifetime \in Int :
        LET c == Candidate(t, key, ts, lifetime)
        IN  Kind(c) = <<t, key>> /\ c.strategy = t /\ c.until \in Int
  BY <1>2 DEF Candidate, Kind
<1>8. \A name, t : t \in Named(name, last) => t \in 1..last /\ roster[t].name = name
  BY DEF Named
<1>9. \A t \in 1..last : t \in Strategies
  BY StoreAssumption DEF Strategies
<1>10. ASSUME NEW c \in returned'
       PROVE  /\ c.strategy \in 1..last /\ c.until \in Int
              /\ \/ /\ roster[c.strategy].name = "orb_5m"
                    /\ \E key : c = Candidate(c.strategy, key, ts, life)
                 \/ roster[c.strategy].name = "dummy" /\ c = sample(c.strategy)
                 \/ roster[c.strategy].name = "http" /\ c.strategy \in Named("http", last)
                      /\ c \in answer[c.strategy]
  <2>1. c \in breakouts \/ c \in samples \/ c \in answers
    BY <1>1 DEF answers
  <2>2. CASE c \in breakouts
    <3>1. PICK t \in Named("orb_5m", last) : \E key : c = Candidate(t, key, ts, life)
      BY <1>3, <2>2
    <3>2. PICK key : c = Candidate(t, key, ts, life)
      BY <3>1
    <3>3. c.strategy = t /\ c.until \in Int
      BY <1>2, <1>7, <3>2
    <3>4. t \in 1..last /\ roster[t].name = "orb_5m"
      BY <1>8
    <3> QED
      BY <3>2, <3>3, <3>4
  <2>3. CASE c \in samples
    <3>1. PICK t \in Named("dummy", last) : c = sample(t)
      BY <1>4, <2>3
    <3>2. c.strategy = t /\ c.until \in Int
      BY <1>2, <1>7, <3>1
    <3>3. t \in 1..last /\ roster[t].name = "dummy"
      BY <1>8
    <3> QED
      BY <3>1, <3>2, <3>3
  <2>4. CASE c \in answers
    <3>1. PICK t \in Named("http", last) : c \in answer[t]
      BY <1>6, <2>4
    <3>2. PICK a \in ServiceAnswers : c = Candidate(t, a[1], ts, a[2])
      BY <1>5, <3>1
    <3>3. c.strategy = t /\ c.until \in Int
      BY <1>2, <1>7, <3>2
    <3>4. t \in 1..last /\ roster[t].name = "http"
      BY <1>8
    <3> QED
      BY <3>1, <3>3, <3>4
  <2> QED
    BY <2>1, <2>2, <2>3, <2>4
<1>11. \A c \in returned' : Proposal(c)
  BY <1>9, <1>10 DEF Proposal
<1>12. ASSUME NEW c \in returned', NEW d \in returned', Kind(c) = Kind(d) PROVE c = d
  <2>1. c.strategy = d.strategy
    BY <1>12 DEF Kind
  <2>2. CASE roster[c.strategy].name = "orb_5m"
    <3>1. PICK k : c = Candidate(c.strategy, k, ts, life)
      BY <1>10, <2>2
    <3>2. PICK l : d = Candidate(c.strategy, l, ts, life)
      BY <1>10, <2>1, <2>2
    <3>3. Kind(c) = <<c.strategy, k>> /\ Kind(d) = <<c.strategy, l>>
      BY <1>2, <1>7, <3>1, <3>2
    <3>4. Kind(c)[2] = k /\ Kind(d)[2] = l
      BY <3>3
    <3>5. k = l
      BY <1>12, <3>4
    <3> QED
      BY <3>1, <3>2, <3>5
  <2>3. CASE roster[c.strategy].name = "dummy"
    BY <1>10, <2>1, <2>3
  <2>4. CASE roster[c.strategy].name = "http"
    BY <1>5, <1>10, <2>1, <2>4
  <2> QED
    BY <1>10, <2>2, <2>3, <2>4
<1> QED
  BY <1>11, <1>12

LEMMA ProposedOnePerKind ==
    ASSUME NEW ts \in Times, NEW asked \in SUBSET Strategies, Proposed(ts, asked)
    PROVE  /\ \A c \in returned' : Proposal(c)
           /\ \A c, d \in returned' : Kind(c) = Kind(d) => c = d
<1>1. PICK kinds \in SUBSET (asked \X Keys) : \E life \in [kinds -> Lifetimes] :
        returned' = {Candidate(k[1], k[2], ts, life[k]) : k \in kinds}
  BY DEF Proposed
<1>2. PICK life \in [kinds -> Lifetimes] :
        returned' = {Candidate(k[1], k[2], ts, life[k]) : k \in kinds}
  BY <1>1
<1>3. ASSUME NEW k \in kinds
      PROVE  LET c == Candidate(k[1], k[2], ts, life[k])
             IN  Proposal(c) /\ Kind(c) = <<k[1], k[2]>> /\ k = <<k[1], k[2]>>
  <2>1. k \in asked \X Keys
    OBVIOUS
  <2>2. k[1] \in Strategies /\ k = <<k[1], k[2]>>
    BY <2>1
  <2>3. life[k] \in Int /\ ts \in Int
    BY StoreAssumption
  <2>4. ts + life[k] \in Int
    BY <2>3
  <2> QED
    BY <2>2, <2>4 DEF Candidate, Proposal, Kind
<1>4. \A c \in returned' : Proposal(c)
  BY <1>2, <1>3
<1>5. \A k, l \in kinds : Kind(Candidate(k[1], k[2], ts, life[k])) =
                          Kind(Candidate(l[1], l[2], ts, life[l])) => k = l
  BY <1>3
<1> QED
  BY <1>2, <1>4, <1>5

(* What a sweep takes away. *)
GoneFor(c) ==
    \/ \E d \in returned' : Kind(d) = Kind(c)
    \/ c.until <= evaluatedAt'
    \/ Cardinality({d \in candidates' : d.strategy = c.strategy /\ d.created >= c.created})
         >= MaxPerStrategy

LEMMA SweptForAReason ==
    ASSUME NEW ts \in Times, evaluatedAt' = ts, Swept(ts),
           NEW c \in candidates \ candidates', Proposal(c)
    PROVE  GoneFor(c)
<1> DEFINE Crowding == {d \in candidates' : d.strategy = c.strategy /\ d.created >= c.created}
           cands == Unexpired(Added(candidates, returned'), ts)
           s == c.strategy
<1>1. c.strategy \in Strategies /\ c.until \in Int /\ ts \in Int
  BY StoreAssumption DEF Proposal
<1>2. CASE c \notin Added(candidates, returned')
  BY <1>2 DEF Added, Kind, GoneFor
<1>3. CASE c \in Added(candidates, returned') /\ c \notin cands
  BY <1>1, <1>3 DEF Unexpired, GoneFor
<1>4. CASE c \in cands
  <2>1. /\ Of(s, candidates') # Of(s, cands) => Cardinality(Of(s, candidates')) = MaxPerStrategy
        /\ IsNewest(Of(s, candidates'), Of(s, cands))
    BY <1>1 DEF Swept, Retained
  <2>2. c \in Of(s, cands) /\ c \notin Of(s, candidates')
    BY <1>4 DEF Of
  <2>3. Crowding = Of(s, candidates')
    BY <2>1, <2>2 DEF IsNewest, Of
  <2>4. Cardinality(Crowding) = MaxPerStrategy
    BY <2>1, <2>2, <2>3
  <2>5. Cardinality(Crowding) >= MaxPerStrategy
    BY <2>4, StoreAssumption
  <2> QED
    BY <2>5 DEF GoneFor
<1> QED
  BY <1>2, <1>3, <1>4

(* A round of any kind: strategies that propose one candidate of a kind,    *)
(* and a store that is swept, or not when one has raised.                   *)
LEMMA RoundKeepsRoster ==
    ASSUME RosterInv, NEW ts \in Times, evaluatedAt' = ts, roster' = roster,
           \A c \in returned' : Proposal(c),
           \A c, d \in returned' : Kind(c) = Kind(d) => c = d,
           Swept(ts) \/ (candidates' = Added(candidates, returned') /\ crashed' = TRUE)
    PROVE  RosterInv' /\ RetentionBound' /\ \A c \in candidates \ candidates' : GoneFor(c)
<1>1. \A c, d \in Added(candidates, returned') : Kind(c) = Kind(d) => c = d
  BY DEF Added, RosterInv, OnePerKind
<1>2. \A c \in Added(candidates, returned') : Proposal(c)
  BY DEF Added, RosterInv
<1>3. candidates' \subseteq Added(candidates, returned')
  BY DEF Swept, Retained, Unexpired
<1>4. RosterInv'
  <2>1. OnePerKind'
    BY <1>1, <1>3 DEF OnePerKind, Kind
  <2>2. \A c \in candidates' : Proposal(c)
    BY <1>2, <1>3
  <2> QED
    BY <2>1, <2>2 DEF RosterInv, Proposal
<1>5. RetentionBound'
  <2>1. CASE Swept(ts)
    BY <2>1 DEF Swept, Retained, RetentionBound, Of
  <2>2. CASE crashed' = TRUE
    BY <2>2 DEF RetentionBound
  <2> QED
    BY <2>1, <2>2
<1>6. ASSUME NEW c \in candidates \ candidates' PROVE GoneFor(c)
  <2>1. CASE Swept(ts)
    BY <2>1, SweptForAReason DEF RosterInv
  <2>2. CASE candidates' = Added(candidates, returned')
    BY <2>2 DEF Added, Kind, GoneFor
  <2> QED
    BY <2>1, <2>2
<1> QED
  BY <1>4, <1>5, <1>6

LEMMA StepKeepsRoster ==
    ASSUME RosterInv, StrategiesNext, ~ UNCHANGED <<storeVars, strategyVars>>
    PROVE  RosterInv' /\ RetentionBound' /\ \A c \in candidates \ candidates' : GoneFor(c)
<1>1. Len(roster) \in Nat /\ Len(roster) <= NumStrategies /\ NumStrategies \in Nat
  BY StoreAssumption DEF RosterInv
<1>2. ASSUME NEW sym \in Symbols, NEW ts \in Times, NEW shape \in Shapes,
             StrategiesReturn(sym, ts, shape)
      PROVE  RosterInv' /\ RetentionBound' /\ \A c \in candidates \ candidates' : GoneFor(c)
  <2>1. evaluatedAt' = ts /\ roster' = roster /\ Returned(ts, Len(roster)) /\ Swept(ts)
    BY <1>2 DEF StrategiesReturn, Observed
  <2> QED
    BY <1>1, <2>1, ReturnedOnePerKind, RoundKeepsRoster
<1>3. ASSUME NEW sym \in Symbols, NEW ts \in Times, NEW shape \in Shapes,
             ServiceRaises(sym, ts, shape)
      PROVE  RosterInv' /\ RetentionBound' /\ \A c \in candidates \ candidates' : GoneFor(c)
  <2>1. /\ evaluatedAt' = ts /\ roster' = roster
        /\ candidates' = Added(candidates, returned') /\ crashed' = TRUE
    BY <1>3 DEF ServiceRaises, Observed
  <2>2. PICK s \in Named("http", Len(roster)) : Returned(ts, s - 1)
    BY <1>3 DEF ServiceRaises
  <2>3. s - 1 \in Nat /\ s - 1 <= NumStrategies
    BY <1>1 DEF Named
  <2> QED
    BY <2>1, <2>2, <2>3, ReturnedOnePerKind, RoundKeepsRoster
<1>4. CASE AnyStrategies
  <2>1. ~StoreStopped /\ roster' = roster
    BY <1>4 DEF AnyStrategies, StoreStopped, strategyVars
  <2>2. PICK ts \in AnyTimes : OnBar(ts) \/ OnBarRaises(ts)
    BY <1>4, <2>1 DEF AnyStrategies
  <2>3. ts \in Times
    BY RosterAssumption
  <2>4. \E asked \in SUBSET Strategies : Proposed(ts, asked)
    <3>1. CASE OnBar(ts)
      BY <3>1 DEF OnBar
    <3>2. CASE OnBarRaises(ts)
      <4>1. PICK k \in Strategies : Proposed(ts, 1..(k - 1))
        BY <3>2 DEF OnBarRaises
      <4>2. 1..(k - 1) \in SUBSET Strategies
        BY StoreAssumption DEF Strategies
      <4> QED
        BY <4>1, <4>2
    <3> QED
      BY <2>2, <3>1, <3>2
  <2>5. /\ evaluatedAt' = ts
        /\ Swept(ts) \/ (candidates' = Added(candidates, returned') /\ crashed' = TRUE)
    BY <2>2 DEF OnBar, OnBarRaises
  <2> QED
    BY <2>1, <2>3, <2>4, <2>5, ProposedOnePerKind, RoundKeepsRoster
<1> QED
  BY <1>2, <1>3, <1>4 DEF StrategiesNext, StrategiesStopped

(* Whatever strategies are configured, the store keeps what it promises of  *)
(* any: one candidate of a kind, the limit of each strategy, and nothing    *)
(* that vanishes without a reason (engine.py:49-63,                         *)
(* candidate_store.py:29-76).                                               *)
THEOREM StrategiesKeepStore ==
    StrategiesSpec => [](OnePerKind /\ RetentionBound) /\ LeavesForAReason
<1>1. StrategiesInit => RosterInv /\ RetentionBound
  <2> SUFFICES ASSUME StrategiesInit PROVE RosterInv /\ RetentionBound
    OBVIOUS
  <2>1. candidates = {} /\ Len(roster) \in 0..NumStrategies
    BY RosterAssumption DEF StrategiesInit, StoreInit
  <2>2. RosterInv
    BY <2>1 DEF RosterInv, OnePerKind
  <2>3. \A s \in Strategies : Of(s, candidates) = {}
    BY <2>1 DEF Of
  <2>4. RetentionBound
    BY <2>3, FS_EmptySet, StoreAssumption DEF RetentionBound
  <2> QED
    BY <2>2, <2>4
<1>2. RosterInv /\ RetentionBound /\ [StrategiesNext]_<<storeVars, strategyVars>>
        => RosterInv' /\ RetentionBound'
  <2> SUFFICES ASSUME RosterInv, RetentionBound, [StrategiesNext]_<<storeVars, strategyVars>>
               PROVE  RosterInv' /\ RetentionBound'
    OBVIOUS
  <2>1. CASE UNCHANGED <<storeVars, strategyVars>>
    <3>1. candidates' = candidates /\ roster' = roster /\ crashed' = crashed
      BY <2>1 DEF storeVars, strategyVars
    <3> QED
      BY <3>1 DEF RosterInv, OnePerKind, Kind, Proposal, RetentionBound, Of
  <2>2. CASE ~ UNCHANGED <<storeVars, strategyVars>>
    BY <2>2, StepKeepsRoster
  <2> QED
    BY <2>1, <2>2
<1>3. RosterInv => OnePerKind
  BY DEF RosterInv
<1>4. RosterInv /\ [StrategiesNext]_<<storeVars, strategyVars>>
        => [\A c \in candidates \ candidates' : GoneFor(c)]_storeVars
  <2> SUFFICES ASSUME RosterInv, [StrategiesNext]_<<storeVars, strategyVars>>,
                      NEW c \in candidates \ candidates'
               PROVE  GoneFor(c)
    OBVIOUS
  <2>1. ~ UNCHANGED <<storeVars, strategyVars>>
    BY DEF storeVars
  <2> QED
    BY <2>1, StepKeepsRoster
<1> QED
  BY <1>1, <1>2, <1>3, <1>4, PTL DEF StrategiesSpec, LeavesForAReason, GoneFor
=============================================================================
