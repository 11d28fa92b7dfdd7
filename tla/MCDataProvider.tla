--------------------------- MODULE MCDataProvider ---------------------------
(* Three sessions of four, three and four minutes on days 0, 1 and 4: an    *)
(* early close and a weekend.                                               *)
EXTENDS DataProvider
CONSTANTS call, put, odd, share

Calendar == <<[open |-> 2, close |-> 6], [open |-> 12, close |-> 15], [open |-> 42, close |-> 46]>>

Configured(timeframe, start, end, kind, policy, maxAge, lookback) ==
    [timeframe |-> timeframe, start |-> start, end |-> end, kind |-> kind,
     policy |-> policy, maxAge |-> maxAge, lookback |-> lookback,
     supported |-> {"1d", "1h", "1m"}]
Policies == {"RAISE", "RETURN_EMPTY", "RETURN_PARTIAL"}
Configs ==
    {Configured("1d", 0, 49, "option", policy, age, 0) : policy \in Policies, age \in {None, 5}}
      \cup {Configured("1h", start, 46, kind, policy, None, 2) :
              start \in {0, 4, 13}, kind \in {"future", "multi"}, policy \in Policies}
      \cup {Configured("1m", start, end, "future", "RETURN_PARTIAL", None, 2) :
              start \in {3, 14}, end \in {14, 44}}
      \cup {Configured("1d", 0, 49, "multi", "RETURN_EMPTY", None, 2)}
      \cup {[Configured("1h", 0, 49, "future", policy, None, 2) EXCEPT !.supported = {"1d"}] :
              policy \in Policies}

Daily == [rows |-> {6, 15, 46}, twice |-> {}]
EveryDay == {Daily}
AcrossTheWeekend == {Configured("1d", 0, 49, "multi", "RETURN_PARTIAL", None, 2)}

Complete == {3, 4, 5, 6, 13, 14, 15, 43, 44, 45, 46}
Files == {Daily, [rows |-> Complete, twice |-> {}], [rows |-> Complete \ {6, 14}, twice |-> {}],
          [rows |-> Complete, twice |-> {15}], [rows |-> {0, 10, 40}, twice |-> {}],
          [rows |-> {}, twice |-> {}]}

Pair(bid, ask) == [bid |-> bid, ask |-> ask]
Quoted ==
    {[c \in {call, put} |-> IF c = call THEN 6 :> Pair(4, 6) @@ 15 :> Pair(8, 6)
                            ELSE 13 :> Pair(2, 2) @@ 44 :> Pair(5, 3)],
     [c \in {put, odd} |-> 12 :> Pair(1, 3) @@ 45 :> Pair(2, 4)]}

Expiries == [c \in {call, put, odd} |-> IF c = call THEN 4 ELSE 1]
Strikes == [c \in {call, put} |-> 10]
Spots == [t \in 0..49 |-> IF t < 10 THEN 10 ELSE 13]
Bands == [days \in 1..5 |-> days]
=============================================================================
