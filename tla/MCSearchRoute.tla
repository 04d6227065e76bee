---------------------------- MODULE MCSearchRoute ---------------------------
(* SearchRoute with few pages, levels and outcomes. *)
EXTENDS SearchRoute, TLC

MCAnyOutcome == [hits: BOOLEAN, failed: BOOLEAN]
MCSomeHits == {[hits |-> TRUE, failed |-> FALSE]}

\* Lists of names: one known name, and none.
Bing == <<"bing">>
MCOneList == {<<Bing>>}
MCNoneOrOne == {<<>>, <<Bing>>}
MCUrlLevels == {0, 4, NoLevel}
MCUrlOrNot == {0, NoLevel}
MCNoLevel == {NoLevel}
=============================================================================
