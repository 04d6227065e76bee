--------------------------- MODULE ListPartition ----------------------------
(***************************************************************************)
(* What filter_with_lists promises, without vectors and positions: results *)
(* that some line of the file matches move, one at a time, from the set of *)
(* kept results to the set of moved ones, and it finishes only when no     *)
(* kept result matches any line.  It may fail at any time before that.     *)
(***************************************************************************)
EXTENDS SearchResult

VARIABLES kept, moved, file, outcome
partition == <<kept, moved, file, outcome>>

MatchesSome(e) ==
    \E n \in DOMAIN file.lines : file.lines[n].valid /\ Matches(file.lines[n], e)

PartitionInit == outcome = "running" /\ kept \cap moved = {}

MoveOne ==
    /\ outcome = "running"
    /\ \E e \in kept :
         /\ MatchesSome(e)
         /\ kept' = kept \ {e}
         /\ moved' = moved \cup {e}
    /\ UNCHANGED <<file, outcome>>

Finish ==
    /\ outcome = "running"
    /\ file.exists
    /\ \A n \in DOMAIN file.lines : file.lines[n].valid
    /\ \A e \in kept : ~MatchesSome(e)
    /\ outcome' = "done"
    /\ UNCHANGED <<kept, moved, file>>

Fail ==
    /\ outcome = "running"
    /\ outcome' = "failed"
    /\ UNCHANGED <<kept, moved, file>>

PartitionStep == MoveOne \/ Finish \/ Fail

PartitionSpec == PartitionInit /\ [][PartitionStep]_partition
=============================================================================
