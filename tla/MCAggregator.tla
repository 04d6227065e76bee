---------------------------- MODULE MCAggregator ----------------------------
(* Aggregator with few engines, answers and list files. *)
EXTENDS Aggregator, TLC

MCHit(u, t) == [url |-> u, title |-> t, description |-> "t1"]

\* Lists of results: none, one, two, the same url twice, a url that comes with
\* two different titles.
MCHits == {<<>>,
           <<MCHit("u1", "t1")>>,
           <<MCHit("u1", "t2"), MCHit("u1", "t1")>>,
           <<MCHit("u2", "t1"), MCHit("u1", "t2")>>}

MCAnswers ==
    {[kind |-> "ok", hits |-> h, error |-> "UnexpectedError"] : h \in MCHits}
    \cup {[kind |-> k, hits |-> <<>>, error |-> "RequestError"] : k \in {"error", "panic"}}

MCList(lines) ==
    [exists |-> TRUE,
     lines |-> [n \in DOMAIN lines |-> [valid |-> TRUE, found_in |-> lines[n]]]]
NotFound == [exists |-> FALSE, lines |-> <<>>]
BadLine == [exists |-> TRUE, lines |->
               <<[valid |-> TRUE, found_in |-> {"u1"}], [valid |-> FALSE, found_in |-> {}]>>]

MCLists == {NotFound, BadLine, MCList(<<>>), MCList(<<{"u1"}>>),
            MCList(<<{"u2"}, {"t2"}>>), MCList(<<{"u1", "u2"}>>)}

MCScore == [u \in Urls |-> IF u = "u1" THEN 1 ELSE 2]

\* No engine (every name of the cookie was unknown), one, several; one selected
\* twice (the names in a cookie are not deduplicated).
MCJoining ==
    /\ handlers \in {<<>>, <<"bing">>, <<"bing", "searx", "brave">>, <<"bing", "bing", "searx">>}
    /\ safe_search = 0
    /\ blocklist = NotFound /\ allowlist = NotFound
    /\ scored \in BOOLEAN

\* Two engines and any two lists, around the level that asks for filtering.
MCFiltering ==
    /\ handlers = <<"bing", "searx">>
    /\ safe_search \in {2, 3, 4}
    /\ blocklist \in MCLists /\ allowlist \in MCLists
    /\ scored = TRUE

MCInit == (MCJoining \/ MCFiltering) /\ Init

MCSpec == MCInit /\ [][Next]_vars /\ WF_vars(Aggregate) /\ WF_vars(SomeTaskEnds)
=============================================================================
