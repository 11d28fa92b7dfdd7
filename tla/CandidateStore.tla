--------------------------- MODULE CandidateStore ---------------------------
(***************************************************************************)
(* The observer's engine and its candidate store (observer/backend/src/    *)
(* engine/engine.py, candidate_store.py): every bar of the evaluation      *)
(* timeframe lets each strategy propose trade candidates, which replace    *)
(* older ones of the same kind, expire, and are limited per strategy.      *)
(*                                                                         *)
(* Time is the bars' timestamps; a provider that polls may deliver an old  *)
(* bar, so they need not increase.                                         *)
(***************************************************************************)
EXTENDS Integers, FiniteSets

CONSTANTS
    NumStrategies,   \* strategies are evaluated in the order of the configuration
    Keys,            \* the (symbol, direction) pairs a strategy may propose
    MaxPerStrategy,  \* config.max_candidates_per_strategy
    Lifetimes,       \* valid_until - timestamp of a new candidate
    Times,           \* timestamps of bars
    MaxNew,          \* bound: candidates proposed on one bar
    MaxRounds        \* bound: bars evaluated

ASSUME StoreAssumption ==
    /\ NumStrategies \in Nat /\ MaxPerStrategy \in Nat
    /\ MaxNew \in Nat /\ MaxRounds \in Nat
    /\ Lifetimes \subseteq Int /\ Times \subseteq Int

Strategies == 1..NumStrategies

VARIABLES
    candidates,   \* CandidateStore._candidates
    round,        \* evaluations so far: a uuid is the round, strategy and key it was made in
    evaluatedAt,  \* timestamp of the last evaluation
    returned,     \* what the last on_bar returned, to be broadcast
    crashed       \* a strategy raised: consume_bars has ended

storeVars == <<candidates, round, evaluatedAt, returned, crashed>>

Kind(c) == <<c.strategy, c.key>>
Of(s, cands) == {c \in cands : c.strategy = s}

-----------------------------------------------------------------------------
(* CandidateStore *)

\* Mutant of Added: what is there already is kept.
AddedBeside(cands, new) == cands \cup new

\* add: a new candidate replaces the one of its kind.
Added(cands, new) == {c \in cands : \A d \in new : Kind(c) # Kind(d)} \cup new

\* invalidate_expired
Unexpired(cands, now) == {c \in cands : c.until > now}

\* enforce_retention: the newest of each strategy.  Of candidates created at
\* the same time the list's order decides, which is left open here.
\* Mutant of IsNewest: the oldest are kept.
IsOldest(kept, mine) == \A c \in kept, d \in mine \ kept : c.created <= d.created
IsNewest(kept, mine) == \A c \in kept, d \in mine \ kept : c.created >= d.created

Retained(cands) ==
    {kept \in SUBSET cands :
      \A s \in Strategies :
        /\ Cardinality(Of(s, kept)) <= MaxPerStrategy
        /\ Of(s, kept) # Of(s, cands) => Cardinality(Of(s, kept)) = MaxPerStrategy
        /\ IsNewest(Of(s, kept), Of(s, cands))}

-----------------------------------------------------------------------------
(* Engine *)

\* A strategy may return any candidates at ts, at most one of a kind.  The
\* strategies' batches are added one after the other; kinds of different
\* strategies differ, so that the order does not matter.
Candidate(s, key, ts, lifetime) ==
    [strategy |-> s, key |-> key, round |-> round + 1, created |-> ts, until |-> ts + lifetime]

Proposed(ts, asked) ==
    \E kinds \in SUBSET (asked \X Keys) : \E life \in [kinds -> Lifetimes] :
      /\ Cardinality(kinds) <= MaxNew
      /\ returned' = {Candidate(k[1], k[2], ts, life[k]) : k \in kinds}

\* Mutant of Swept: retention is enforced before the new ones come in.
SweptBefore(ts) ==
    \E kept \in Retained(Unexpired(candidates, ts)) : candidates' = Added(kept, returned')

Swept(ts) == candidates' \in Retained(Unexpired(Added(candidates, returned'), ts))

OnBar(ts) ==
    /\ ~crashed /\ round < MaxRounds
    /\ round' = round + 1 /\ evaluatedAt' = ts
    /\ Proposed(ts, Strategies)
    /\ Swept(ts)
    /\ UNCHANGED crashed

(* The k-th strategy raises.  The batches before it are in the store, which *)
(* is neither swept nor reported, and no bar is handled any more.           *)
OnBarRaises(ts) ==
    /\ ~crashed /\ round < MaxRounds
    /\ round' = round + 1 /\ evaluatedAt' = ts
    /\ \E k \in Strategies : Proposed(ts, 1..(k - 1))
    /\ candidates' = Added(candidates, returned')
    /\ crashed' = TRUE

\* get_active_candidates
Active(now) == {c \in candidates : c.until > now}

StoreInit ==
    /\ candidates = {} /\ returned = {}
    /\ round = 0 /\ evaluatedAt = 0 /\ crashed = FALSE

StoreStopped == (crashed \/ round = MaxRounds) /\ UNCHANGED storeVars

StoreNext == (\E ts \in Times : OnBar(ts) \/ OnBarRaises(ts)) \/ StoreStopped

StoreSpec == StoreInit /\ [][StoreNext]_storeVars

-----------------------------------------------------------------------------
(* Types of the store's variables. *)
CandidateType ==
    [strategy : Strategies, key : Keys, round : 1..MaxRounds, created : Times, until : Int]
StoreTypeOK ==
    /\ candidates \subseteq CandidateType /\ returned \subseteq CandidateType
    /\ round \in 0..MaxRounds /\ crashed \in BOOLEAN /\ evaluatedAt \in Int

(* There is never more than one opinion of a strategy on a symbol and a     *)
(* direction, expired or not, old or new (candidate_store.py:29-44).        *)
OnePerKind == \A c, d \in candidates : Kind(c) = Kind(d) => c = d

(* However many bars pass, a strategy never holds more candidates than the  *)
(* configuration allows; only a round that raised may exceed it             *)
(* (candidate_store.py:57-76, engine.py:55-62).                             *)
RetentionBound ==
    ~crashed => \A s \in Strategies : Cardinality(Of(s, candidates)) <= MaxPerStrategy

(* A candidate leaves the store for one of three reasons only: a new one of *)
(* its kind came, the bar's time has reached its end, or its strategy has   *)
(* its fill of candidates that are no older (engine.py:54-62).              *)
LeavesForAReason ==
    [][ \A c \in candidates \ candidates' :
          \/ \E d \in returned' : Kind(d) = Kind(c)
          \/ c.until <= evaluatedAt'
          \/ Cardinality({d \in candidates' : d.strategy = c.strategy /\ d.created >= c.created})
               >= MaxPerStrategy ]_storeVars
=============================================================================
