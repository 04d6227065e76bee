--------------------------- MODULE MCFilterLists ----------------------------
(* FilterLists on small vectors and files. *)
EXTENDS FilterListsRefinement, TLC

CONSTANTS MaxResults,   \* longest vector to be filtered
          MaxLines      \* longest list file

\* One entry per url; the second and third share a title, so one line can
\* match several entries by different fields.
MCEntry == [u \in Urls |->
    [url |-> u,
     title |-> IF u = "u1" THEN "t1" ELSE "t2",
     description |-> IF u = "u3" THEN "t1" ELSE "t2",
     engine |-> <<CHOOSE n \in Engines : TRUE>>]]

UpTo(n, S) == UNION {[1 .. k -> S] : k \in 0 .. n}

MCResults == {[i \in DOMAIN s |-> MCEntry[s[i]]] : s \in UpTo(MaxResults, Urls)}

\* Lines that match by url, by title or description, everything (the empty
\* regular expression) or nothing.
MCLines ==
    [valid: {TRUE}, found_in: {{}, {"u1"}, {"u2"}, {"u3"}, {"t1"}, Urls \cup Texts}]
        \cup {[valid |-> FALSE, found_in |-> {}]}

MCFiles == [exists: {TRUE}, lines: UpTo(MaxLines, MCLines)]
              \cup {[exists |-> FALSE, lines |-> <<>>]}

MCFilterInit ==
    /\ map_to_be_filtered \in MCResults
    /\ resultant_map \in {r \in MCResults : Len(r) <= 1}
    /\ file \in MCFiles
    /\ FilterInit

MCFilterSpec == MCFilterInit /\ [][FilterStep]_filterVars /\ WF_filterVars(FilterStep)
=============================================================================
