---------------------------- MODULE MCSharedCache ---------------------------
(* SharedCache with two requests and two keys. *)
EXTENDS SharedCacheRefinement, TLC

\* The routes cache and look for one page, or for its two neighbours.  The hybrid
\* build fails over at every step, so it stores one page only and reads both.
MCKeyLists ==
    [memory |-> {<<"page0">>, <<"page1", "page0">>}, hybrid |-> {<<"page0">>}]
=============================================================================
