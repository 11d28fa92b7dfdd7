------------------------ MODULE MCObserverStrategies ------------------------
(* Two symbols over two days of five times: before the session (0), three  *)
(* bars of the session, and after its end (4).                              *)
EXTENDS ObserverStrategies
Keyed == {"ES", "NQ"} \X {"BUY", "SELL"}
Days == [ts \in 0..6 |-> ts \div 5]
TimesOfDay == [ts \in 0..6 |-> ts % 5]
Closes == [day \in 0..1 |-> 5 * day + 3]
Calm == [high |-> 12, low |-> 10, close |-> 11]
Above == [high |-> 15, low |-> 11, close |-> 14]
Below == [high |-> 11, low |-> 7, close |-> 7]
BarShapes == {Calm, Above, Below}
AnswersOfService == {<<<<"ES", "BUY">>, 2>>}
Lists == [both |-> <<"ES", "NQ">>, nq |-> <<"NQ">>]
File(entries) == [watchlists |-> Lists, strategies |-> entries]
Over(source) == [source |-> source]
On(watchlist) == [watchlist |-> watchlist]
Off == [enabled |-> FALSE]
Misfit == [fits |-> FALSE]
Entry(name, given) == [name |-> name] @@ given
FilesTried ==
    {File(<<>>), None,
     File(<<Entry("dummy", On("both") @@ Misfit), Entry("orb_5m", On("lost")),
            Entry("covered_call", Over("strategizer"))>>),
     File(<<Entry("other", On("both")), Entry("buy_and_hold", Over("strategizer") @@ On("nq")),
            Entry("orb_5m", On("both")), Entry("dummy", On("nq") @@ Off)>>),
     [watchlists |-> <<>>, strategies |-> <<Entry("orb_5m", On("futures_main"))>>],
     File(<<Entry("orb_5m", On("both")), Entry("dummy", On("nq"))>>)}
OneStrategy == {File(<<Entry("orb_5m", On("nq"))>>)}
=============================================================================
