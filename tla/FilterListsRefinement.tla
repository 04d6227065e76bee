----------------------- MODULE FilterListsRefinement ------------------------
(***************************************************************************)
(* The refinement mapping from the vectors of FilterLists to the sets of   *)
(* ListPartition.                                                          *)
(***************************************************************************)
EXTENDS FilterLists

Outcome == IF status \in {"opening", "scanning"} THEN "running" ELSE status

Partition ==
    INSTANCE ListPartition WITH
        kept <- Members(map_to_be_filtered),
        moved <- Members(resultant_map),
        outcome <- Outcome

\* The scan with swap_remove is a correct way to split a vector by a list: it
\* moves only entries that some line matches, and reports success only when
\* every line was applied to every entry.
ImplementsPartition == Partition!PartitionSpec
=============================================================================
