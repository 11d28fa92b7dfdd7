--------------------------- MODULE SchwabProvider ---------------------------
(***************************************************************************)
(* The observer's connection to Schwab (providers/schwab_provider.py) and  *)
(* the tasks that live on it (api/app.py, api/wiring.py): at start the app *)
(* loads the token file and connects, then two pollers, one for quotes and *)
(* one for bars, each in an endless loop of its own, share one token, one  *)
(* flag _connected and one file.  Either may have to refresh the token     *)
(* first.  Answers come in any order, late, or not at all; the process may *)
(* stop at any point, within the rewriting of the token file included.     *)
(*                                                                         *)
(* The service is external.  It knows when an access token dies and which  *)
(* refresh tokens it still accepts; a refresh may replace the latter.      *)
(* Candles are numbered, the same for all symbols; the newest is forming.  *)
(* It answers with those of the current day, which begins with its first   *)
(* candle.                                                                 *)
(***************************************************************************)
EXTENDS Integers, Sequences, SequencesExt

CONSTANTS
    Symbols,       \* the symbols polled, in their order
    Lifetime,      \* expires_in of a token the service issues
    SavedLifetime, \* the 1800 seconds _save_token_file writes down
    Margin,        \* the 60 seconds before its expiry in which a token is refreshed
    Patience,      \* httpx gives up on a request after this time
    MaxClock,      \* bound: the wall clock
    MaxCandles,    \* bound: candles
    MaxStarts,     \* bound: times the process is started
    None

\* What is kept of a token, what a refresh is answered, what is sent.
Tokens == [dies : Nat, refresh : Nat, expiresAt : Nat]
Answers == [dies : Nat, refresh : Nat]
Requests ==
    [kind : {"get"}, sent : Nat, first : BOOLEAN, dies : Nat]
      \cup [kind : {"refresh"}, sent : Nat, refresh : Nat, answer : Answers \cup {None}]

ASSUME ProviderAssumption ==
    /\ Symbols \in Seq(STRING) /\ Symbols # <<>>
    /\ {Lifetime, SavedLifetime, Margin, Patience, MaxClock, MaxCandles, MaxStarts} \subseteq Nat
    /\ SavedLifetime <= Lifetime    \* both are 1800 for this service
    /\ Patience <= Margin           \* 15 s to get a connection, to open it, to write, to read
    /\ Patience < Lifetime
    /\ None \notin Tokens \cup Answers \cup Requests

Pollers == {"quotes", "bars"}    \* subscribe_quotes, subscribe_bars
Actors == Pollers \cup {"connect"}
Stopped == {"none", "ended", "crashed"}

VARIABLES
    clock,      \* time.time()
    candles,    \* the service: candles begun
    opens,      \* the service: candles there were before each day so far
    accepted,   \* the service: refresh tokens it accepts
    issued,     \* the service: refresh tokens given out
    file,       \* the token file, None when it cannot be read
    token,      \* _access_token, by its end, _refresh_token and _token_expires_at
    connected,  \* _connected
    pc,         \* where an actor is
    request,    \* its request under way
    turn,       \* the symbol the bar poller is at
    lastTs,     \* _last_bar_timestamps, 0 without an entry
    pending,    \* parsed bars not yet yielded
    handed,     \* history: bars the engine was given since the start, per symbol
    starts

serviceVars == <<candles, opens, accepted, issued>>
takenVars == <<lastTs, pending, handed>>
barVars == <<turn, takenVars>>
vars == <<clock, serviceVars, file, token, connected, pc, request, barVars, starts>>

SymbolAt(k) == Symbols[k]
NoBars == [k \in DOMAIN Symbols |-> 0]

-----------------------------------------------------------------------------
(* Requests *)

\* A GET carries the access token of this moment; the first of a round is the
\* one that follows _ensure_valid_token at once.
Get(first) == [kind |-> "get", sent |-> clock, first |-> first, dies |-> token'.dies]
Refresh == [kind |-> "refresh", sent |-> clock, refresh |-> token'.refresh, answer |-> None]

\* Mutant of Valid: the minute's margin is dropped.
ValidToTheEnd == clock < token'.expiresAt
Valid == clock < token'.expiresAt - Margin

\* _ensure_valid_token, and the request that follows when there is no refresh.
Ensure(a) ==
    IF Valid THEN pc' = [pc EXCEPT ![a] = "get"] /\ request' = [request EXCEPT ![a] = Get(TRUE)]
    ELSE pc' = [pc EXCEPT ![a] = "refresh"] /\ request' = [request EXCEPT ![a] = Refresh]

\* The app goes on with a stub in place of a provider that does not connect;
\* its streams end at once.
StubInstead == pc' = [a \in Actors |-> "ended"]

\* An exception within a round is logged and the poller sleeps; its next round
\* begins with the first symbol.
\* Mutant of Fail: the exception ends the loop.
FailForGood(a) ==
    /\ pc' = [pc EXCEPT ![a] = "ended"] /\ request' = [request EXCEPT ![a] = None]
    /\ turn' = turn
Fail(a) ==
    /\ IF a = "connect" THEN StubInstead ELSE pc' = [pc EXCEPT ![a] = "sleep"]
    /\ request' = [request EXCEPT ![a] = None]
    /\ turn' = IF a = "bars" THEN 1 ELSE turn

(* The service takes up a refresh.  It may fail of itself, must fail on a   *)
(* refresh token that was replaced, and may replace this one.               *)
Grant(a, refresh) == [request EXCEPT ![a].answer = [dies |-> clock + Lifetime, refresh |-> refresh]]

IssueToken(a) ==
    /\ pc[a] = "refresh" /\ request[a].answer = None
    /\ request[a].refresh \in accepted
    /\ \/ request' = Grant(a, request[a].refresh) /\ UNCHANGED <<accepted, issued>>
       \/ /\ issued' = issued + 1 /\ accepted' = {issued'}
          /\ request' = Grant(a, issued')
    /\ UNCHANGED <<clock, candles, opens, file, token, connected, pc, barVars, starts>>

\* A status other than 200: _connected is cleared before the exception.
RefreshDenied(a) ==
    /\ pc[a] = "refresh" /\ request[a].answer = None
    /\ connected' = FALSE
    /\ Fail(a)
    /\ UNCHANGED <<clock, serviceVars, file, token, takenVars, starts>>

\* The answer is taken over and saved, and the request of the round is sent.
TakeToken(a) ==
    token' = [dies |-> request[a].answer.dies, refresh |-> request[a].answer.refresh,
              expiresAt |-> clock + Lifetime]

\* _save_token_file
Saved == [dies |-> token'.dies, refresh |-> token'.refresh, expiresAt |-> clock + SavedLifetime]

RefreshAnswered(a) ==
    /\ pc[a] = "refresh" /\ request[a].answer # None
    /\ TakeToken(a)
    /\ file' = Saved
    /\ pc' = [pc EXCEPT ![a] = "get"] /\ request' = [request EXCEPT ![a] = Get(TRUE)]
    /\ UNCHANGED <<clock, serviceVars, connected, barVars, starts>>

\* httpx.HTTPError: no answer in time, also when the service has acted.
Lost(a) ==
    /\ request[a] # None
    /\ Fail(a)
    /\ UNCHANGED <<clock, serviceVars, file, token, connected, takenVars, starts>>

\* A status other than 200 to a GET: logged, the bar poller goes on to the
\* next symbol, connect raises.
NextSymbol ==
    IF turn < Len(Symbols)
    THEN /\ turn' = turn + 1 /\ token' = token
         /\ pc' = [pc EXCEPT !["bars"] = "get"]
         /\ request' = [request EXCEPT !["bars"] = Get(FALSE)]
    ELSE /\ turn' = 1 /\ token' = token
         /\ pc' = [pc EXCEPT !["bars"] = "sleep"] /\ request' = [request EXCEPT !["bars"] = None]

GetDenied(a) ==
    /\ pc[a] = "get"
    /\ IF a = "bars" THEN NextSymbol ELSE Fail(a) /\ token' = token
    /\ UNCHANGED <<clock, serviceVars, file, connected, takenVars, starts>>

-----------------------------------------------------------------------------
(* connect, and the life of the process *)

\* Nothing but the token file outlives the process.
Start ==
    /\ starts < MaxStarts /\ starts' = starts + 1
    /\ pc["connect"] = "none"
    /\ IF file = None
       THEN StubInstead /\ UNCHANGED <<token, request>>
       ELSE token' = file /\ Ensure("connect")
    /\ UNCHANGED <<clock, serviceVars, file, connected, barVars>>

Connected ==
    /\ pc["connect"] = "get"
    /\ connected' = TRUE
    /\ pc' = [connect |-> "up", quotes |-> "sleep", bars |-> "sleep"]
    /\ request' = [request EXCEPT !["connect"] = None]
    /\ UNCHANGED <<clock, serviceVars, file, token, barVars, starts>>

Down ==
    /\ pc' = [a \in Actors |-> "none"] /\ request' = [a \in Actors |-> None]
    /\ connected' = FALSE
    /\ turn' = 1 /\ lastTs' = NoBars /\ pending' = <<>>
    /\ handed' = [k \in DOMAIN Symbols |-> <<>>]
    /\ UNCHANGED <<clock, serviceVars, token, starts>>

\* disconnect and the cancelled tasks, or a crash.
Stop == pc["connect"] # "none" /\ file' = file /\ Down

\* The file is opened for writing, which empties it, and not written.
StopWhileSaving(a) == pc[a] = "refresh" /\ request[a].answer # None /\ file' = None /\ Down

-----------------------------------------------------------------------------
(* The pollers *)

\* Mutant of Awake: the flag is looked at only when the loop is entered.
AwakeAnyway == TRUE
Awake == connected

Wake(p) ==
    /\ pc[p] = "sleep"
    /\ token' = token
    /\ IF Awake THEN Ensure(p) ELSE pc' = [pc EXCEPT ![p] = "ended"] /\ UNCHANGED request
    /\ UNCHANGED <<clock, serviceVars, file, connected, barVars, starts>>

\* Every quote that can be parsed is yielded, and the state keeps the latest.
QuotesAnswered ==
    /\ pc["quotes"] = "get"
    /\ pc' = [pc EXCEPT !["quotes"] = "sleep"] /\ request' = [request EXCEPT !["quotes"] = None]
    /\ UNCHANGED <<clock, serviceVars, file, token, connected, barVars, starts>>

\* _parse_bars: of the candles of one day, those later than the last one taken,
\* oldest first.
Today == Last(opens)
Reached(k) == IF lastTs[k] < Today THEN Today ELSE lastTs[k]

\* Mutant of Parsed: the last candle taken is taken again.
ParsedAgain(k) ==
    LET before == IF Reached(k) > Today THEN Reached(k) - 1 ELSE Today
    IN  [n \in 1..(candles - before) |-> before + n]

Parsed(k) == [n \in 1..(candles - Reached(k)) |-> Reached(k) + n]
Taken(k) == IF Parsed(k) = <<>> THEN lastTs ELSE [lastTs EXCEPT ![k] = Last(Parsed(k))]

BarsAnswered ==
    /\ pc["bars"] = "get"
    /\ lastTs' = Taken(turn) /\ pending' = Parsed(turn)
    /\ IF pending' = <<>> THEN NextSymbol
       ELSE /\ pc' = [pc EXCEPT !["bars"] = "hand"]
            /\ request' = [request EXCEPT !["bars"] = None] /\ UNCHANGED <<token, turn>>
    /\ UNCHANGED <<clock, serviceVars, file, connected, handed, starts>>

\* One bar is yielded to consume_bars, which returns for the next when the
\* engine and the broadcasts are through.
Yield ==
    /\ pc["bars"] = "hand"
    /\ handed' = [handed EXCEPT ![turn] = Append(@, Head(pending))]

Hand ==
    /\ Yield
    /\ pending' = Tail(pending)
    /\ IF pending' = <<>> THEN NextSymbol ELSE UNCHANGED <<token, turn, pc, request>>
    /\ UNCHANGED <<clock, serviceVars, file, connected, lastTs, starts>>

\* A strategy raises: consume_bars logs it and returns, its generator is closed.
HandRaises ==
    /\ Yield
    /\ pending' = <<>>
    /\ pc' = [pc EXCEPT !["bars"] = "crashed"]
    /\ UNCHANGED <<clock, serviceVars, file, token, connected, request, turn, lastTs, starts>>

-----------------------------------------------------------------------------
(* The world *)

Tick ==
    /\ clock < MaxClock /\ clock' = clock + 1
    /\ \A a \in Actors : request[a] # None => clock < request[a].sent + Patience
    /\ UNCHANGED <<serviceVars, file, token, connected, pc, request, barVars, starts>>

NewCandle ==
    /\ candles < MaxCandles /\ candles' = candles + 1
    /\ \/ opens' = opens
       \/ Today < candles /\ opens' = Append(opens, candles)
    /\ UNCHANGED <<clock, accepted, issued, file, token, connected, pc, request, barVars, starts>>

Init ==
    /\ clock = Lifetime /\ starts = 0    \* the user logged in at 0
    /\ candles = 0 /\ opens = <<0>> /\ accepted = {0} /\ issued = 0
    /\ token = [dies |-> Lifetime, refresh |-> 0, expiresAt |-> SavedLifetime]
    /\ file \in {None, token}
    /\ connected = FALSE
    /\ pc = [a \in Actors |-> "none"] /\ request = [a \in Actors |-> None]
    /\ turn = 1 /\ lastTs = NoBars /\ pending = <<>>
    /\ handed = [k \in DOMAIN Symbols |-> <<>>]

(* What the event loop and the service do of themselves. *)
Progress(a) ==
    \/ IssueToken(a) \/ RefreshDenied(a) \/ RefreshAnswered(a) \/ Lost(a) \/ GetDenied(a)
    \/ a = "connect" /\ Connected
    \/ a = "quotes" /\ (Wake(a) \/ QuotesAnswered)
    \/ a = "bars" /\ (Wake(a) \/ BarsAnswered \/ Hand \/ HandRaises)

Next ==
    \/ \E a \in Actors : Progress(a) \/ StopWhileSaving(a)
    \/ Start \/ Stop \/ Tick \/ NewCandle

(* A request is answered or given up, a timer fires, a consumer comes back:  *)
(* an actor of the event loop that can go on does.                           *)
Spec == Init /\ [][Next]_vars /\ \A a \in Actors : WF_vars(Progress(a))

-----------------------------------------------------------------------------
(* Properties *)

(* Types of the variables. *)
ProviderTypeOK ==
    /\ clock \in Nat /\ starts \in Nat
    /\ candles \in Nat /\ opens \in Seq(Nat) /\ issued \in Nat /\ accepted \subseteq Nat
    /\ file \in Tokens \cup {None} /\ token \in Tokens /\ connected \in BOOLEAN
    /\ pc \in [Actors -> {"none", "get", "refresh", "sleep", "hand", "up", "ended", "crashed"}]
    /\ request \in [Actors -> Requests \cup {None}]
    /\ turn \in DOMAIN Symbols /\ lastTs \in [DOMAIN Symbols -> Nat]
    /\ pending \in Seq(Nat) /\ handed \in [DOMAIN Symbols -> Seq(Nat)]

(* The first request of a round carries a token that is still alive, whoever *)
(* refreshed it, however late the answer to that was, in whichever order two *)
(* such answers came, and when the token is that of an earlier process       *)
(* (schwab_provider.py, _ensure_valid_token).                                *)
FirstRequestAuthorised ==
    \A a \in Actors :
        pc[a] = "get" /\ request[a].first => request[a].sent < request[a].dies

\* What the engine was given of a symbol and what is still to come.
Due(k) == handed[k] \o (IF k = turn THEN pending ELSE <<>>)

\* A candle follows the one before it, or is the first of a day.
Follows(due, n) ==
    LET before == IF n = 1 THEN 0 ELSE due[n - 1]
    IN  before < due[n] /\ due[n] - 1 \in {before} \cup Range(opens)

(* The engine is given each candle of a symbol once and in order, through    *)
(* lost and refused polls, rounds begun again and refreshes; it misses only  *)
(* the rest of a day that ended before the symbol was answered again, and    *)
(* no candle within what it is given of a day.  What was taken out of an     *)
(* answer and not handed on is still to come (_parse_bars, subscribe_bars).  *)
CandlesOnceInOrder ==
    \A k \in DOMAIN Symbols :
        /\ \A n \in DOMAIN Due(k) : Follows(Due(k), n)
        /\ pc["bars"] # "crashed" =>
             lastTs[k] = IF Due(k) = <<>> THEN 0 ELSE Last(Due(k))

(* Nothing but the end of the connection or of its consumer stops a poller:  *)
(* whatever its requests meet, it asks again (subscribe_quotes and           *)
(* subscribe_bars, whose try is inside the loop).                            *)
KeepsAsking ==
    \A p \in Pollers :
        [](connected => <>(~connected \/ pc[p] = "crashed" \/ request[p] # None))

(* The two end together: a refusal met by one of them closes the connection  *)
(* for the other as well, which does not go on with a token nobody renews.   *)
EndTogether ==
    \A p \in Pollers : [](~connected => <>(connected \/ pc[p] \in Stopped))
=============================================================================
