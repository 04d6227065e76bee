---------------------------- MODULE FilterLists -----------------------------
(***************************************************************************)
(* filter_with_lists: for every regular expression of a list file, scan    *)
(* one vector of results and move each matching entry to the end of        *)
(* another, with swap_remove.  The index is not advanced after a removal,  *)
(* because swap_remove has put an entry not yet looked at in that place.   *)
(***************************************************************************)
EXTENDS SearchResult

VARIABLES
    map_to_be_filtered,     \* entries still kept
    resultant_map,          \* entries moved out, in the order they were
    file,                   \* contents of the list file
    line,                   \* how many of its lines have been read
    idx,                    \* position of the scan for that line
    status                  \* "opening", "scanning", "done" or "failed"

filterVars == <<map_to_be_filtered, resultant_map, file, line, idx, status>>

\* A scan over the entries is under way (before the first line there is none).
Scanning == status = "scanning" /\ line > 0 /\ idx <= Len(map_to_be_filtered)

Open ==
    /\ status = "opening"
    /\ status' = IF file.exists THEN "scanning" ELSE "failed"
    /\ UNCHANGED <<map_to_be_filtered, resultant_map, file, line, idx>>

NextLine ==
    /\ status = "scanning"
    /\ ~Scanning
    /\ line < Len(file.lines)
    /\ IF ~file.lines[line + 1].valid
         THEN status' = "failed" /\ UNCHANGED <<line, idx>>
         ELSE line' = line + 1 /\ idx' = 1 /\ UNCHANGED status
    /\ UNCHANGED <<map_to_be_filtered, resultant_map, file>>

EndOfFile ==
    /\ status = "scanning"
    /\ ~Scanning
    /\ line = Len(file.lines)
    /\ status' = "done"
    /\ UNCHANGED <<map_to_be_filtered, resultant_map, file, line, idx>>

\* Mutants of MoveEntry: the index advances past the entry swapped in; the
\* entry is copied, not removed, and the index advances or stays; or the last
\* entry is dropped, not moved up.
MoveEntryAndAdvance ==
    /\ Scanning
    /\ Matches(file.lines[line], map_to_be_filtered[idx])
    /\ resultant_map' = Append(resultant_map, map_to_be_filtered[idx])
    /\ map_to_be_filtered' = SwapRemove(map_to_be_filtered, idx)
    /\ idx' = idx + 1
    /\ UNCHANGED <<file, line, status>>
MoveEntryByCopy ==
    /\ Scanning
    /\ Matches(file.lines[line], map_to_be_filtered[idx])
    /\ resultant_map' = Append(resultant_map, map_to_be_filtered[idx])
    /\ idx' = idx + 1
    /\ UNCHANGED <<map_to_be_filtered, file, line, status>>
MoveEntryStaying ==
    /\ Scanning
    /\ Matches(file.lines[line], map_to_be_filtered[idx])
    /\ resultant_map' = Append(resultant_map, map_to_be_filtered[idx])
    /\ UNCHANGED <<map_to_be_filtered, file, line, idx, status>>
MoveEntryTruncating ==
    /\ Scanning
    /\ Matches(file.lines[line], map_to_be_filtered[idx])
    /\ resultant_map' = Append(resultant_map, map_to_be_filtered[idx])
    /\ map_to_be_filtered' =
          SubSeq(map_to_be_filtered, 1, Len(map_to_be_filtered) - 1)
    /\ UNCHANGED <<file, line, idx, status>>

MoveEntry ==
    /\ Scanning
    /\ Matches(file.lines[line], map_to_be_filtered[idx])
    /\ resultant_map' = Append(resultant_map, map_to_be_filtered[idx])
    /\ map_to_be_filtered' = SwapRemove(map_to_be_filtered, idx)
    /\ UNCHANGED <<file, line, idx, status>>

\* Mutant of KeepEntry: the else branch that advances the index is missing.
KeepEntryInPlace ==
    /\ Scanning
    /\ ~Matches(file.lines[line], map_to_be_filtered[idx])
    /\ UNCHANGED filterVars

KeepEntry ==
    /\ Scanning
    /\ ~Matches(file.lines[line], map_to_be_filtered[idx])
    /\ idx' = idx + 1
    /\ UNCHANGED <<map_to_be_filtered, resultant_map, file, line, status>>

FilterStep == Open \/ NextLine \/ EndOfFile \/ MoveEntry \/ KeepEntry

\* Where a call of filter_with_lists begins.
FilterStart == line = 0 /\ idx = 1 /\ status = "opening"

\* The aggregator splits one vector of distinct results in two and joins them
\* again, so the two it passes are distinct and disjoint.
FilterInit ==
    /\ map_to_be_filtered \in Seq(Entry)
    /\ resultant_map \in Seq(Entry)
    /\ DistinctAcross(map_to_be_filtered, resultant_map)
    /\ file \in ListFile
    /\ FilterStart

FilterSpec == FilterInit /\ [][FilterStep]_filterVars /\ WF_filterVars(FilterStep)

-----------------------------------------------------------------------------
\* Types of the filter's state.  The scan is never further than one place past the
\* end of a vector that shrinks under it, where the loop's condition stops it.
FilterTypeOK ==
    /\ map_to_be_filtered \in Seq(Entry)
    /\ resultant_map \in Seq(Entry)
    /\ file \in ListFile
    /\ line \in 0 .. Len(file.lines)
    /\ idx \in 1 .. Len(map_to_be_filtered) + 1
    /\ status \in {"opening", "scanning", "done", "failed"}

\* The two vectors together never hold two entries of one url: swap_remove and
\* push together neither copy an entry nor leave one behind.
NoEntryTwice == DistinctAcross(map_to_be_filtered, resultant_map)

\* What the scan has established so far: the lines read are regular
\* expressions; an entry the scan has passed matches none of them, and an
\* entry it has not reached matches none before the current line.
ScanInvariant ==
    /\ status \in {"scanning", "done"} => file.exists
    /\ status = "opening" => line = 0
    /\ status = "done" =>
         line = Len(file.lines) /\ (line > 0 => idx > Len(map_to_be_filtered))
    /\ line <= Len(file.lines)
    /\ \A n \in 1 .. line : file.lines[n].valid
    /\ \A n \in 1 .. line, i \in DOMAIN map_to_be_filtered :
          (n < line \/ i < idx) => ~Matches(file.lines[n], map_to_be_filtered[i])

\* When the file has been read to its end, no entry that any of its lines
\* matches is kept.  (filter_with_lists: "the filtered results will be removed
\* from" map_to_be_filtered.)
NoMatchKept ==
    status = "done" =>
        \A e \in Members(map_to_be_filtered), n \in 1 .. Len(file.lines) :
            ~Matches(file.lines[n], e)

\* No step of the filter, on its error paths either, loses or invents an entry.
EntriesConserved ==
    [][Members(map_to_be_filtered') \cup Members(resultant_map')
         = Members(map_to_be_filtered) \cup Members(resultant_map)]_filterVars

\* How many steps of a call are still to come at most: one for each entry ahead
\* of the scan, in each line to come one for each entry kept and one to read it,
\* and one to notice the end.
EntriesAhead == IF line = 0 THEN 0 ELSE Len(map_to_be_filtered) + 1 - idx
StepsLeft ==
    IF status \in {"done", "failed"} THEN 0
    ELSE (Len(file.lines) - line) * (Len(map_to_be_filtered) + 1) + EntriesAhead
           + (IF status = "opening" THEN 2 ELSE 1)

\* Every step brings the call nearer to its end, so that it ends after at most
\* lines * (results + 1) + 2 steps: a removal shortens the vector the loop runs
\* over, any other turn advances the index, and neither takes it past the end.
ScanAdvances == [][StepsLeft' \in Nat /\ StepsLeft' < StepsLeft]_filterVars

\* The scan ends, with all of the file applied or with an error: every removal
\* shortens the vector, every other step of the inner loop advances the index.
FilterTerminates == <>(status \in {"done", "failed"})
=============================================================================
