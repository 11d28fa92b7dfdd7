------------------------------ MODULE Observer ------------------------------
(***************************************************************************)
(* One browser's view of the observer: the server's two consumer tasks     *)
(* (api/wiring.py) change the market state and the candidate store and     *)
(* publish what changed, the browser merges those messages with snapshots  *)
(* it fetches when it is loaded and whenever its websocket opens           *)
(* (frontend/src/hooks).  Messages, requests and replies are under way     *)
(* while the server goes on, the link breaks, or the server is restarted.  *)
(*                                                                         *)
(* One symbol and one timeframe.  An update of the server is identified by *)
(* its number, which for a quote and a bar is all there is to know of it.  *)
(* The browser's two hooks share nothing but the link and each fetches its *)
(* own snapshots, so a behaviour follows one of them.  How a broadcast     *)
(* reaches several browsers is Broadcast's subject.                        *)
(***************************************************************************)
EXTENDS CandidateStore, Sequences, SequencesExt

CONSTANTS
    WindowSize,   \* MarketState's max_window_size, the browser's 500
    MaxEvents,    \* bound: quotes, bars and restarts
    MaxClock,     \* bound: the wall clock
    MaxOpens,     \* bound: times the websocket opens
    None

ASSUME ObserverAssumption ==
    WindowSize \in Nat \ {0} /\ {MaxEvents, MaxClock, MaxOpens} \subseteq Nat

Hooks == {"market", "candidates"}   \* useMarketData, useCandidates
Tasks == {"quotes", "bars"}         \* consume_quotes, consume_bars

VARIABLES
    quote, bars,    \* MarketState: the latest quote, 0 for none, and the window of bars
    clock,          \* datetime.now()
    events,         \* updates of the server so far
    outbox,         \* per task what it has yet to broadcast
    link,           \* the websocket: "down", "accepted" by the server, "open" for the browser
    wire,           \* what was sent over it and not yet received
    reconnectCount, \* times it has opened
    hook,           \* the hook that is followed
    fetches,        \* its snapshot requests under way, with the reply once it is made
    shown,          \* its state: the quote, bars or candidates of the browser
    known,          \* history: the latest update it has been told of
    overtaken,      \* history: its last reply was older than what it knew
    unanswered      \* history: its latest request failed

marketVars == <<quote, bars>>
linkVars == <<link, wire, reconnectCount>>
browserVars == <<hook, shown, known, overtaken, unanswered>>
observerVars == <<storeVars, marketVars, clock, events, outbox, linkVars, fetches, browserVars>>

\* Mutant of Window: the limit is off by one.
WindowShort(s) == IF Len(s) >= WindowSize THEN Tail(s) ELSE s
Window(s) == IF Len(s) > WindowSize THEN Tail(s) ELSE s
Later(m, n) == IF m < n THEN n ELSE m

-----------------------------------------------------------------------------
(* The server *)

Update == events < MaxEvents /\ events' = events + 1

Quote ==
    /\ outbox["quotes"] = <<>>
    /\ Update
    /\ quote' = events'
    /\ outbox' = [outbox EXCEPT !["quotes"] = <<[type |-> "quote_update", n |-> events']>>]
    /\ UNCHANGED <<storeVars, bars, clock, linkVars, fetches, browserVars>>

\* A bar, and the candidates the engine returned for it if there are any.
BarMessages ==
    <<[type |-> "bar_update", n |-> events']>> \o
    (IF returned' = {} THEN <<>>
     ELSE <<[type |-> "candidates_update", n |-> events', data |-> returned']>>)

Bar ==
    /\ outbox["bars"] = <<>>
    /\ Update
    /\ bars' = Window(Append(bars, events'))
    /\ \E ts \in Times : OnBar(ts)
    /\ outbox' = [outbox EXCEPT !["bars"] = BarMessages]
    /\ UNCHANGED <<quote, clock, linkVars, fetches, browserVars>>

\* A strategy raises: the bar is in the state but nobody is told.
BarRaises ==
    /\ outbox["bars"] = <<>>
    /\ Update
    /\ bars' = Window(Append(bars, events'))
    /\ \E ts \in Times : OnBarRaises(ts)
    /\ UNCHANGED <<quote, clock, outbox, linkVars, fetches, browserVars>>

\* broadcast to this browser: into nothing when the server has no link to it.
Send(t) ==
    /\ outbox[t] # <<>>
    /\ outbox' = [outbox EXCEPT ![t] = Tail(@)]
    /\ wire' = IF link = "down" THEN wire ELSE Append(wire, Head(outbox[t]))
    /\ UNCHANGED <<storeVars, marketVars, clock, events, link, reconnectCount, fetches, browserVars>>

Snapshot == [n |-> events, quote |-> quote, bars |-> bars, candidates |-> Active(clock)]

Serve(f) ==
    /\ f.reply = None
    /\ fetches' = (fetches \ {f}) \cup {[f EXCEPT !.reply = Snapshot]}
    /\ UNCHANGED <<storeVars, marketVars, clock, events, outbox, linkVars, browserVars>>

\* Nothing is read back at start, and the links are cut; requests fail.
Restart ==
    /\ Update
    /\ quote' = 0 /\ bars' = <<>> /\ candidates' = {} /\ returned' = {} /\ crashed' = FALSE
    /\ outbox' = [t \in Tasks |-> <<>>]
    /\ link' = "down" /\ wire' = <<>>
    /\ UNCHANGED <<round, evaluatedAt, clock, reconnectCount, fetches, browserVars>>

Tick ==
    /\ clock < MaxClock /\ clock' = clock + 1
    /\ UNCHANGED <<storeVars, marketVars, events, outbox, linkVars, fetches, browserVars>>

-----------------------------------------------------------------------------
(* The link: useWebSocket *)

Request(n) == [n |-> n, reply |-> None]

\* manager.connect, accept and register at once: Broadcast has what comes in
\* between.  The browser hears of it after the server.
Accept ==
    /\ link = "down" /\ reconnectCount < MaxOpens
    /\ link' = "accepted"
    /\ UNCHANGED <<storeVars, marketVars, clock, events, outbox, wire, reconnectCount, fetches,
                   browserVars>>

\* onopen: the hook fetches a snapshot when reconnectCount changes.
\* Mutant of Refetching: only the snapshot of the first load is fetched.
RefetchingNone == {}
Refetching == {Request(reconnectCount')}

Open ==
    /\ link = "accepted"
    /\ link' = "open" /\ reconnectCount' = reconnectCount + 1
    /\ fetches' = fetches \cup Refetching
    /\ unanswered' = FALSE
    /\ UNCHANGED <<storeVars, marketVars, clock, events, outbox, wire, hook, shown, known,
                   overtaken>>

\* onclose, whoever closed it; a new attempt follows after a delay.
Close ==
    /\ link # "down"
    /\ link' = "down" /\ wire' = <<>>
    /\ UNCHANGED <<storeVars, marketVars, clock, events, outbox, reconnectCount, fetches, browserVars>>

-----------------------------------------------------------------------------
(* The browser's state: useMarketData, useCandidates *)

Told(n) == known' = Later(known, n)

\* Candidates are merged by id: the round tells candidates of a kind apart.
\* Mutant of Merged: the array is replaced by the new candidates.
MergedOver(cands, new) == new
Merged(cands, new) == cands \cup new

Heard(msg) ==
    CASE hook = "market" /\ msg.type = "quote_update" ->
           shown' = [shown EXCEPT !.quote = msg.n] /\ Told(msg.n)
      [] hook = "market" /\ msg.type = "bar_update" ->
           shown' = [shown EXCEPT !.bars = Window(Append(@, msg.n))] /\ Told(msg.n)
      [] hook = "candidates" /\ msg.type = "candidates_update" ->
           shown' = [shown EXCEPT !.candidates = Merged(@, msg.data)] /\ Told(msg.n)
      [] OTHER -> UNCHANGED <<shown, known>>

Deliver ==
    /\ link = "open" /\ wire # <<>>
    /\ Heard(Head(wire))
    /\ wire' = Tail(wire)
    /\ UNCHANGED <<storeVars, marketVars, clock, events, outbox, link, reconnectCount, hook,
                   fetches, overtaken, unanswered>>

Load(snap) ==
    IF hook = "market" THEN [shown EXCEPT !.quote = snap.quote, !.bars = snap.bars]
    ELSE [shown EXCEPT !.candidates = snap.candidates]

\* The reply replaces what there is, newer or not.
FetchDone(f) ==
    /\ f.reply # None
    /\ fetches' = fetches \ {f}
    /\ shown' = Load(f.reply)
    /\ Told(f.reply.n)
    /\ overtaken' = (f.reply.n < known)
    /\ UNCHANGED <<storeVars, marketVars, clock, events, outbox, linkVars, hook, unanswered>>

FetchFails(f) ==
    /\ fetches' = fetches \ {f}
    /\ unanswered' = (unanswered \/ f.n = reconnectCount)
    /\ UNCHANGED <<storeVars, marketVars, clock, events, outbox, linkVars, hook, shown, known,
                   overtaken>>

-----------------------------------------------------------------------------
ObserverInit ==
    /\ StoreInit
    /\ quote = 0 /\ bars = <<>> /\ clock = 0 /\ events = 0
    /\ outbox = [t \in Tasks |-> <<>>]
    /\ link = "down" /\ wire = <<>> /\ reconnectCount = 0
    /\ hook \in Hooks /\ fetches = {Request(0)}
    /\ shown = [quote |-> 0, bars |-> <<>>, candidates |-> {}]
    /\ known = 0 /\ overtaken = FALSE /\ unanswered = FALSE

\* Not in the code: no further update comes within the bound.
Spent == events = MaxEvents /\ UNCHANGED observerVars

ObserverNext ==
    \/ Quote \/ Bar \/ BarRaises \/ Restart \/ Tick
    \/ \E t \in Tasks : Send(t)
    \/ Accept \/ Open \/ Close \/ Deliver
    \/ \E f \in fetches : Serve(f) \/ FetchDone(f) \/ FetchFails(f)
    \/ Spent

ObserverSpec == ObserverInit /\ [][ObserverNext]_observerVars

-----------------------------------------------------------------------------
(* Nothing is under way and the link is open: the browser shows what it     *)
(* will go on showing until something happens at the server.                *)
AtRest ==
    /\ link = "open" /\ wire = <<>> /\ fetches = {}
    /\ \A t \in Tasks : outbox[t] = <<>>

UpToDate == AtRest /\ ~overtaken /\ ~unanswered

(* Whatever was lost while the link was down, the snapshot fetched on       *)
(* opening makes up for, and what came in meanwhile is on the link: the     *)
(* browser ends with the server's quote, unless its last reply was older    *)
(* than what it knew or it got none (useMarketData.ts:19-42).               *)
QuoteCurrent == hook = "market" /\ UpToDate => shown.quote = quote

\* The bars somebody was told of: all but the one at which the bar task died.
Announced == IF crashed THEN Front(bars) ELSE bars

\* n's last place in s, before which the older bars are; 0 when a full window has lost it.
Settled(s, n) ==
    \E i \in 0..Len(s) :
      /\ IF i = 0 THEN Len(s) >= WindowSize ELSE s[i] = n
      /\ \A j \in (i + 1)..Len(s) : s[j] > n

(* The same for bars: the browser has every bar of the server's window that *)
(* was announced, before or after the bar task died, and each at its place: *)
(* a bar shown again by its late message is followed by every later one     *)
(* again, so that only newer bars stand behind its last showing, and only   *)
(* newer bars have pushed a missing one out of a full window                *)
(* (useMarketData.ts:30-41, wiring.py:55-66).                               *)
BarsComplete ==
    hook = "market" /\ UpToDate => \A n \in ToSet(Announced) : Settled(shown.bars, n)

\* The candidates nobody was told of: those of the round in which the bar task died.
Untold == IF crashed THEN returned ELSE {}

(* Every candidate the server would still give out is shown, except those   *)
(* nobody was told of (engine.py:51-62, wiring.py:55-66, useCandidates.ts). *)
ActiveShown ==
    hook = "candidates" /\ UpToDate => Active(clock) \ Untold \subseteq shown.candidates
=============================================================================
