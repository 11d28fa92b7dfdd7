----------------------------- MODULE Broadcast -----------------------------
(***************************************************************************)
(* The observer's websocket fan-out (observer/backend/src/api/             *)
(* ws_handler.py): the quote task and the bar task of wiring.py broadcast  *)
(* over one shared list of connections, which endpoints join and leave     *)
(* while a broadcast awaits a send.                                        *)
(*                                                                         *)
(* Everything runs in one asyncio event loop: an action is what one task   *)
(* does from one await to the next, and another task may run at each of    *)
(* them.  A Python list iterator is an index into the list as it is now:   *)
(* cursor is that index.                                                   *)
(***************************************************************************)
EXTENDS Naturals, Sequences, SequencesExt

CONSTANTS
    Tasks,       \* the tasks that broadcast: consume_quotes and consume_bars
    Conns,       \* WebSocket objects; a client that reconnects has a new one
    MaxBatch,    \* messages a task broadcasts one after the other: a quote, or
                 \* a bar and the candidates it made
    MaxIssued    \* bound: messages per task

ASSUME BroadcastAssumption == MaxBatch \in [Tasks -> Nat] /\ MaxIssued \in [Tasks -> Nat]

VARIABLES
    connections,  \* ConnectionManager._connections
    endpoint,     \* websocket_endpoint of each connection
    peer,         \* the client's end of each connection
    left,         \* per task how many messages it has yet to broadcast, the current one included
    cursor,       \* per task the list iterator of its broadcast, 0 outside one
    dead,         \* per task the connections its current broadcast failed on
    wire,         \* per connection what was written to it and not yet received
    issued,       \* messages issued so far, per task
    audience,     \* history: connections registered when the broadcast began
    reached,      \* history: connections the broadcast has tried
    disturbed     \* history: someone else left the list since it began

serverVars == <<connections, endpoint>>
taskVars == <<left, cursor, dead, issued>>
heardVars == <<audience, reached, disturbed>>
broadcastVars == <<serverVars, peer, taskVars, wire, heardVars>>

Registered == ToSet(connections)
Broadcasting(t) == cursor[t] > 0
Message(t, k) == [task |-> t, n |-> k]
Current(t) == Message(t, issued[t] - left[t] + 1)

\* list.remove of all of gone: the others move up, in the order they had.
Removing(gone) ==
    LET kept == {k \in DOMAIN connections : connections[k] \notin gone} IN
    \E n \in 0..Len(connections) : \E at \in [1..n -> kept] :
      /\ \A j, k \in 1..n : j < k => at[j] < at[k]
      /\ kept = {at[k] : k \in 1..n}
      /\ connections' = [k \in 1..n |-> connections[at[k]]]

-----------------------------------------------------------------------------
(* manager.connect: accept, then register after the await. *)
Accept(ws) ==
    /\ endpoint[ws] = "new"
    /\ endpoint' = [endpoint EXCEPT ![ws] = "accepted"]
    /\ peer' = [peer EXCEPT ![ws] = "open"]
    /\ UNCHANGED <<connections, taskVars, wire, heardVars>>

\* Mutant of Joined: the newcomer at the head of the list.
JoinedAtHead(ws) == <<ws>> \o connections
Joined(ws) == Append(connections, ws)

Register(ws) ==
    /\ endpoint[ws] = "accepted"
    /\ connections' = Joined(ws)
    /\ endpoint' = [endpoint EXCEPT ![ws] = "serving"]
    /\ UNCHANGED <<peer, taskVars, wire, heardVars>>

\* The client closes its end, or the network does.
Leave(ws) ==
    /\ peer[ws] = "open"
    /\ peer' = [peer EXCEPT ![ws] = "gone"]
    /\ wire' = [wire EXCEPT ![ws] = <<>>]
    /\ UNCHANGED <<serverVars, taskVars, heardVars>>

(* receive_text raises WebSocketDisconnect and manager.disconnect removes   *)
(* the connection, or raises itself when a broadcast has done so before.    *)
\* Mutant of Unregister: the disconnect is only noted.
UnregisterLater(ws) ==
    /\ endpoint[ws] = "serving" /\ peer[ws] = "gone"
    /\ endpoint' = [endpoint EXCEPT ![ws] = "closed"]
    /\ UNCHANGED <<connections, peer, taskVars, wire, heardVars>>

Unregister(ws) ==
    /\ endpoint[ws] = "serving" /\ peer[ws] = "gone"
    /\ IF ws \in Registered
       THEN /\ Removing({ws})
            /\ endpoint' = [endpoint EXCEPT ![ws] = "closed"]
            /\ disturbed' = [t \in Tasks |-> Broadcasting(t)]
       ELSE /\ endpoint' = [endpoint EXCEPT ![ws] = "raised"]
            /\ UNCHANGED <<connections, disturbed>>
    /\ UNCHANGED <<peer, taskVars, wire, audience, reached>>

-----------------------------------------------------------------------------
(* broadcast *)

NoneDead(t) == [dead EXCEPT ![t] = {}]

Begin(t) ==
    /\ cursor' = [cursor EXCEPT ![t] = 1]
    /\ dead' = NoneDead(t)
    /\ audience' = [audience EXCEPT ![t] = Registered]
    /\ reached' = [reached EXCEPT ![t] = {}]

\* A task publishes n messages, one after the other.
Publish(t, n) ==
    /\ left[t] = 0
    /\ issued[t] + n <= MaxIssued[t]
    /\ left' = [left EXCEPT ![t] = n]
    /\ issued' = [issued EXCEPT ![t] = @ + n]
    /\ Begin(t)
    /\ disturbed' = [disturbed EXCEPT ![t] = FALSE]
    /\ UNCHANGED <<serverVars, peer, wire>>

\* Mutant of Send: the dead are removed at once, under the iterator.
SendAndDrop(t) ==
    /\ Broadcasting(t) /\ cursor[t] <= Len(connections)
    /\ LET ws == connections[cursor[t]] IN
         /\ IF peer[ws] = "open"
            THEN /\ wire' = [wire EXCEPT ![ws] = Append(@, Current(t))]
                 /\ UNCHANGED connections
            ELSE Removing({ws}) /\ UNCHANGED wire
         /\ reached' = [reached EXCEPT ![t] = @ \cup {ws}]
    /\ cursor' = [cursor EXCEPT ![t] = @ + 1]
    /\ UNCHANGED <<endpoint, peer, left, issued, dead, audience, disturbed>>

(* One send_json.  Into a broken connection it fails, or the message is     *)
(* lost without a word.                                                     *)
Send(t) ==
    /\ Broadcasting(t) /\ cursor[t] <= Len(connections)
    /\ LET ws == connections[cursor[t]] IN
         /\ \/ /\ peer[ws] = "open"
               /\ wire' = [wire EXCEPT ![ws] = Append(@, Current(t))]
               /\ UNCHANGED dead
            \/ /\ peer[ws] = "gone"
               /\ dead' \in {dead, [dead EXCEPT ![t] = @ \cup {ws}]}
               /\ UNCHANGED wire
         /\ reached' = [reached EXCEPT ![t] = @ \cup {ws}]
    /\ cursor' = [cursor EXCEPT ![t] = @ + 1]
    /\ UNCHANGED <<serverVars, peer, left, issued, audience, disturbed>>

(* The end of the list: the dead are dropped, and the next message begins.  *)
\* Mutant of DropDead: a dead connection takes all later ones with it.
DropFromDead(t) ==
    connections' = SubSeq(connections, 1, Cardinality({k \in DOMAIN connections :
                     \A j \in 1..k : connections[j] \notin dead[t]}))

DropDead(t) == Removing(dead[t])

EndBroadcast(t) ==
    /\ Broadcasting(t) /\ cursor[t] > Len(connections)
    /\ DropDead(t)
    /\ left' = [left EXCEPT ![t] = @ - 1]
    /\ IF left[t] > 1
       THEN /\ cursor' = [cursor EXCEPT ![t] = 1]
            /\ audience' = [audience EXCEPT ![t] = ToSet(connections')]
       ELSE /\ cursor' = [cursor EXCEPT ![t] = 0]
            /\ audience' = [audience EXCEPT ![t] = {}]
    /\ dead' = NoneDead(t)
    /\ reached' = [reached EXCEPT ![t] = {}]
    /\ disturbed' = [u \in Tasks |->
         u # t /\ (disturbed[u] \/ (Broadcasting(u) /\ connections' # connections))]
    /\ UNCHANGED <<endpoint, peer, wire, issued>>

-----------------------------------------------------------------------------
BroadcastInit ==
    /\ connections = <<>>
    /\ endpoint = [ws \in Conns |-> "new"]
    /\ peer = [ws \in Conns |-> "absent"]
    /\ left = [t \in Tasks |-> 0]
    /\ cursor = [t \in Tasks |-> 0]
    /\ dead = [t \in Tasks |-> {}]
    /\ wire = [ws \in Conns |-> <<>>]
    /\ issued = [t \in Tasks |-> 0]
    /\ audience = [t \in Tasks |-> {}]
    /\ reached = [t \in Tasks |-> {}]
    /\ disturbed = [t \in Tasks |-> FALSE]

Issue(t) == \E n \in 1..MaxBatch[t] : Publish(t, n)

\* Not in the code: every connection has come and gone and the bound is reached.
Spent ==
    /\ \A ws \in Conns : endpoint[ws] \in {"closed", "raised"}
    /\ \A t \in Tasks : ~Broadcasting(t) /\ issued[t] = MaxIssued[t]
    /\ UNCHANGED broadcastVars

BroadcastNext ==
    \/ \E ws \in Conns : Accept(ws) \/ Register(ws) \/ Leave(ws) \/ Unregister(ws)
    \/ \E t \in Tasks : Issue(t) \/ Send(t) \/ EndBroadcast(t)
    \/ Spent

\* The event loop runs every task that is ready: an endpoint whose client has
\* gone is woken by its receive, and an accepted connection is registered.
BroadcastSpec ==
    /\ BroadcastInit /\ [][BroadcastNext]_broadcastVars
    /\ \A ws \in Conns : WF_broadcastVars(Register(ws)) /\ WF_broadcastVars(Unregister(ws))

-----------------------------------------------------------------------------
(* Types; the connections are all different, and what a broadcast keeps     *)
(* about one message is gone when the next begins.                          *)
BroadcastTypeOK ==
    /\ connections \in Seq(Conns) /\ IsInjective(connections)
    /\ \A t \in Tasks : dead[t] \subseteq reached[t]
    /\ \A t \in Tasks : left[t] <= issued[t] /\ (Broadcasting(t) <=> left[t] > 0)
    /\ endpoint \in [Conns -> {"new", "accepted", "serving", "closed", "raised"}]
    /\ peer \in [Conns -> {"absent", "open", "gone"}]
    /\ cursor \in [Tasks -> Nat]
    /\ dead \in [Tasks -> SUBSET Conns]
    /\ left \in [Tasks -> Nat] /\ issued \in [Tasks -> Nat]
    /\ wire \in [Conns -> Seq([task : Tasks, n : Nat])]
    /\ audience \in [Tasks -> SUBSET Conns] /\ reached \in [Tasks -> SUBSET Conns]
    /\ disturbed \in [Tasks -> BOOLEAN]

(* However the list changes under an iterator, no connection gets a message *)
(* twice, and the messages of one task arrive in the order it made them     *)
(* (ws_handler.py:36-40): a client never sees a quote go back by itself.    *)
InOrder ==
    \A ws \in Conns : \A j, k \in DOMAIN wire[ws] :
      j < k /\ wire[ws][j].task = wire[ws][k].task => wire[ws][j].n < wire[ws][k].n

(* A broadcast tries every connection that was registered when it began,    *)
(* those it fails on and those that come after them included, as long as    *)
(* nobody else takes a connection off the list meanwhile (36-46).           *)
EveryoneTried ==
    \A t \in Tasks :
      Broadcasting(t) /\ cursor[t] > Len(connections) /\ ~disturbed[t] =>
        audience[t] \subseteq reached[t]

(* The clean-up of one client's failed connection never costs another its   *)
(* updates: whoever is being served and still there is on the list (42-46). *)
OpenStaysRegistered ==
    \A ws \in Conns : endpoint[ws] = "serving" /\ peer[ws] = "open" => ws \in Registered

(* A client that has gone is eventually off the list for good, whether its  *)
(* endpoint or a broadcast notices first (28-30, 42-46, 68-73).             *)
GoneAreForgotten ==
    \A ws \in Conns : peer[ws] = "gone" ~> [](ws \notin Registered)
=============================================================================
