-------------------------- MODULE FilterListsProofs -------------------------
(***************************************************************************)
(* The invariants of the filter for every vector and every list file, and  *)
(* the proof that it implements ListPartition.                             *)
(***************************************************************************)
EXTENDS FilterListsRefinement, SearchResultProofs

-----------------------------------------------------------------------------
(* The filter's invariants.                                                *)

\* The types alone, without the bounds of the scan.
FilterTypes ==
    /\ map_to_be_filtered \in Seq(Entry)
    /\ resultant_map \in Seq(Entry)
    /\ file \in ListFile
    /\ line \in Nat
    /\ idx \in Nat \ {0}
    /\ status \in {"opening", "scanning", "done", "failed"}

LEMMA FilterTypesHold == FilterSpec => []FilterTypes
<1>1. FilterInit => FilterTypes
  BY DEF FilterInit, FilterTypes, FilterStart
<1>2. FilterTypes /\ [FilterStep]_filterVars => FilterTypes'
  <2> SUFFICES ASSUME FilterTypes, [FilterStep]_filterVars
               PROVE  FilterTypes'
    OBVIOUS
  <2> USE DEF FilterTypes
  <2>1. CASE Open
    BY <2>1 DEF Open
  <2>2. CASE NextLine
    BY <2>2 DEF NextLine
  <2>3. CASE EndOfFile
    BY <2>3 DEF EndOfFile
  <2>4. CASE MoveEntry
    <3>1. idx \in 1 .. Len(map_to_be_filtered)
      BY <2>4 DEF MoveEntry, Scanning
    <3>2. /\ map_to_be_filtered' \in Seq(Entry)
          /\ map_to_be_filtered[idx] \in Entry
      BY <2>4, <3>1, SwapRemoveType DEF MoveEntry
    <3>3. QED
      BY <2>4, <3>2 DEF MoveEntry
  <2>5. CASE KeepEntry
    BY <2>5 DEF KeepEntry
  <2>6. CASE UNCHANGED filterVars
    BY <2>6 DEF filterVars
  <2>7. QED
    BY <2>1, <2>2, <2>3, <2>4, <2>5, <2>6 DEF FilterStep
<1>3. QED
  BY <1>1, <1>2, PTL DEF FilterSpec

\* Moving an entry keeps the two vectors distinct and disjoint.
LEMMA MoveKeepsDistinct ==
    ASSUME FilterTypes, NoEntryTwice, MoveEntry
    PROVE  NoEntryTwice'
<1>1. /\ map_to_be_filtered \in Seq(Entry) /\ resultant_map \in Seq(Entry)
      /\ idx \in 1 .. Len(map_to_be_filtered)
      /\ map_to_be_filtered' = SwapRemove(map_to_be_filtered, idx)
      /\ resultant_map' = Append(resultant_map, map_to_be_filtered[idx])
  BY DEF FilterTypes, MoveEntry, Scanning
<1>2. QED
  BY <1>1, MoveDistinct DEF NoEntryTwice

\* Filtering neither copies an entry nor leaves one behind in both vectors.
THEOREM FilterKeepsEntriesDistinct == FilterSpec => []NoEntryTwice
<1>1. FilterInit => NoEntryTwice
  BY DEF FilterInit, NoEntryTwice
<1>2. FilterTypes /\ NoEntryTwice /\ [FilterStep]_filterVars => NoEntryTwice'
  <2> SUFFICES ASSUME FilterTypes, NoEntryTwice, [FilterStep]_filterVars
               PROVE  NoEntryTwice'
    OBVIOUS
  <2>1. CASE MoveEntry
    BY <2>1, MoveKeepsDistinct
  <2>2. CASE Open \/ NextLine \/ EndOfFile \/ KeepEntry \/ UNCHANGED filterVars
    BY <2>2 DEF Open, NextLine, EndOfFile, KeepEntry, filterVars, NoEntryTwice, DistinctAcross
  <2>3. QED
    BY <2>1, <2>2 DEF FilterStep
<1>3. QED
  BY <1>1, <1>2, FilterTypesHold, PTL DEF FilterSpec

\* The scan invariant is inductive: an entry that swap_remove moves up comes
\* from beyond the position of the scan.
LEMMA ScanStep ==
    ASSUME FilterTypes, ScanInvariant, [FilterStep]_filterVars
    PROVE  ScanInvariant'
<1>0. /\ map_to_be_filtered \in Seq(Entry) /\ line \in Nat /\ idx \in Nat \ {0}
      /\ file.lines \in Seq(Line) /\ Len(file.lines) \in Nat
      /\ DOMAIN map_to_be_filtered = 1 .. Len(map_to_be_filtered)
      /\ Len(map_to_be_filtered) \in Nat
  BY DEF FilterTypes, ListFile
<1>1. CASE Open
  BY <1>0, <1>1 DEF Open, ScanInvariant
<1>2. CASE NextLine
  BY <1>0, <1>2 DEF NextLine, ScanInvariant, Scanning
<1>3. CASE EndOfFile
  BY <1>0, <1>3 DEF EndOfFile, ScanInvariant, Scanning
<1>4. CASE MoveEntry
  <2>1. /\ status = "scanning" /\ line > 0 /\ idx \in 1 .. Len(map_to_be_filtered)
        /\ map_to_be_filtered' = SwapRemove(map_to_be_filtered, idx)
        /\ UNCHANGED <<file, line, idx, status>>
    BY <1>0, <1>4 DEF MoveEntry, Scanning
  <2>2. /\ DOMAIN map_to_be_filtered' = 1 .. Len(map_to_be_filtered) - 1
        /\ \A j \in 1 .. Len(map_to_be_filtered) - 1 :
              map_to_be_filtered'[j] =
                  IF j = idx THEN map_to_be_filtered[Len(map_to_be_filtered)]
                             ELSE map_to_be_filtered[j]
    BY <1>0, <2>1, SwapRemoveType
  <2>3. ASSUME NEW n \in 1 .. line, NEW i \in DOMAIN map_to_be_filtered',
               n < line \/ i < idx
        PROVE  ~Matches(file.lines[n], map_to_be_filtered'[i])
    <3>1. CASE i = idx
      <4>1. n < line /\ map_to_be_filtered'[i] = map_to_be_filtered[Len(map_to_be_filtered)]
        BY <1>0, <2>2, <2>3, <3>1
      <4>2. Len(map_to_be_filtered) \in DOMAIN map_to_be_filtered
        BY <1>0, <2>1
      <4>3. QED
        BY <4>1, <4>2 DEF ScanInvariant
    <3>2. CASE i # idx
      <4>1. map_to_be_filtered'[i] = map_to_be_filtered[i]
        BY <2>2, <3>2
      <4>2. i \in DOMAIN map_to_be_filtered
        BY <1>0, <2>2
      <4>3. QED
        BY <2>3, <4>1, <4>2 DEF ScanInvariant
    <3>3. QED
      BY <3>1, <3>2
  <2>4. QED
    BY <2>1, <2>3 DEF ScanInvariant
<1>5. CASE KeepEntry
  <2>1. /\ Scanning /\ ~Matches(file.lines[line], map_to_be_filtered[idx])
        /\ idx' = idx + 1
        /\ UNCHANGED <<map_to_be_filtered, file, line, status>>
    BY <1>5 DEF KeepEntry
  <2>2. ASSUME NEW n \in 1 .. line, NEW i \in DOMAIN map_to_be_filtered,
               n < line \/ i < idx + 1
        PROVE  ~Matches(file.lines[n], map_to_be_filtered[i])
    <3>1. CASE n < line \/ i < idx
      BY <3>1 DEF ScanInvariant
    <3>2. CASE n = line /\ i = idx
      BY <2>1, <3>2
    <3>3. QED
      BY <1>0, <2>2, <3>1, <3>2
  <2>3. QED
    BY <2>1, <2>2 DEF ScanInvariant, Scanning
<1>6. CASE UNCHANGED filterVars
  BY <1>6 DEF filterVars, ScanInvariant
<1>7. QED
  BY <1>1, <1>2, <1>3, <1>4, <1>5, <1>6 DEF FilterStep

\* However far the scan has come, it has missed no entry.
THEOREM ScanIsExhaustive == FilterSpec => []ScanInvariant
<1>1. FilterInit => ScanInvariant
  BY DEF FilterInit, FilterStart, ScanInvariant, ListFile
<1>2. FilterTypes /\ ScanInvariant /\ [FilterStep]_filterVars => ScanInvariant'
  BY ScanStep
<1>3. QED
  BY <1>1, <1>2, FilterTypesHold, PTL DEF FilterSpec

LEMMA ScanRemoves == FilterTypes /\ ScanInvariant => NoMatchKept
<1> SUFFICES ASSUME FilterTypes, ScanInvariant, status = "done",
                    NEW i \in DOMAIN map_to_be_filtered, NEW n \in 1 .. Len(file.lines)
             PROVE  ~Matches(file.lines[n], map_to_be_filtered[i])
  BY DEF NoMatchKept, Members
<1>1. /\ line = Len(file.lines) /\ (line > 0 => idx > Len(map_to_be_filtered))
      /\ line \in Nat /\ idx \in Nat
      /\ Len(map_to_be_filtered) \in Nat
      /\ i \in 1 .. Len(map_to_be_filtered)
  BY DEF ScanInvariant, FilterTypes
<1>2. n \in 1 .. line /\ i < idx
  BY <1>1
<1>3. QED
  BY <1>2 DEF ScanInvariant

\* A filter that reports success has removed every entry that a line matches.
THEOREM FilterRemovesAllMatches == FilterSpec => []NoMatchKept
BY ScanRemoves, FilterTypesHold, ScanIsExhaustive, PTL

-----------------------------------------------------------------------------
(* Progress.                                                               *)

\* The scan is never further than one place past the vector's end.
ScanInBounds == EntriesAhead \in Nat /\ (line = 0 => idx = 1)

\* The steps left while a call is running, with the product named.
LEMMA StepsLeftRunning ==
    ASSUME FilterTypes, ScanInvariant, ScanInBounds
    PROVE  /\ StepsLeft \in Nat
           /\ (Len(file.lines) - line) * (Len(map_to_be_filtered) + 1) \in Nat
           /\ status \in {"opening", "scanning"} =>
                StepsLeft = (Len(file.lines) - line) * (Len(map_to_be_filtered) + 1)
                              + EntriesAhead + (IF status = "opening" THEN 2 ELSE 1)
           /\ status \in {"opening", "scanning"} => StepsLeft >= 1
<1>1. /\ Len(file.lines) - line \in Nat
      /\ Len(map_to_be_filtered) + 1 \in Nat
  BY DEF FilterTypes, ScanInvariant, ListFile
<1>2. \A m, n \in Nat : m * n \in Nat
  OBVIOUS
<1>3. (Len(file.lines) - line) * (Len(map_to_be_filtered) + 1) \in Nat
  BY <1>1, <1>2
<1> DEFINE product == (Len(file.lines) - line) * (Len(map_to_be_filtered) + 1)
<1>4. status \in {"opening", "scanning"} =>
        StepsLeft = product + EntriesAhead + (IF status = "opening" THEN 2 ELSE 1)
  BY DEF StepsLeft
<1> HIDE DEF product
<1>5. StepsLeft \in Nat /\ (status \in {"opening", "scanning"} => StepsLeft >= 1)
  <2>1. CASE status \in {"done", "failed"}
    BY <2>1 DEF StepsLeft
  <2>2. CASE status \in {"opening", "scanning"}
    BY <1>3, <1>4, <2>2 DEF ScanInBounds, product
  <2> QED
    BY <2>1, <2>2 DEF FilterTypes
<1> QED
  BY <1>3, <1>4, <1>5 DEF product

\* Every step of the filter stays within bounds and is one step fewer to come.
LEMMA FilterStepAdvances ==
    ASSUME FilterTypes, ScanInvariant, ScanInBounds, FilterTypes', ScanInvariant', FilterStep
    PROVE  ScanInBounds' /\ StepsLeft' < StepsLeft
<1> DEFINE lines == Len(file.lines) - line
           kept == Len(map_to_be_filtered)
           ahead == EntriesAhead
<1>1. /\ line \in Nat /\ idx \in Nat \ {0} /\ lines \in Nat /\ kept \in Nat /\ ahead \in Nat
      /\ Len(file.lines) \in Nat /\ StepsLeft \in Nat
      /\ status \in {"opening", "scanning", "done", "failed"}
  BY StepsLeftRunning DEF FilterTypes, ScanInvariant, ListFile, ScanInBounds
<1>2. ASSUME status \in {"opening", "scanning"}, status' \in {"done", "failed"}
      PROVE  StepsLeft' < StepsLeft
  <2>1. StepsLeft' = 0
    BY <1>2 DEF StepsLeft
  <2>2. StepsLeft >= 1
    BY <1>1, <1>2, StepsLeftRunning
  <2> QED
    BY <1>1, <2>1, <2>2
<1>3. CASE Open
  <2>1. UNCHANGED <<file, line, idx, map_to_be_filtered>> /\ status = "opening"
    BY <1>3 DEF Open
  <2>2. EntriesAhead' = EntriesAhead
    BY <2>1 DEF EntriesAhead
  <2>3. ScanInBounds'
    BY <2>1, <2>2 DEF ScanInBounds
  <2>4. CASE status' = "scanning"
    <3>1. StepsLeft' = StepsLeft - 1
      BY <1>1, <2>1, <2>2, <2>3, <2>4, StepsLeftRunning DEF StepsLeft
    <3> QED
      BY <1>1, <2>3, <3>1
  <2>5. CASE status' = "failed"
    BY <1>2, <2>1, <2>3, <2>5
  <2> QED
    BY <1>3, <2>4, <2>5 DEF Open
<1>4. CASE NextLine
  <2>1. /\ UNCHANGED <<file, map_to_be_filtered>> /\ status = "scanning" /\ ~Scanning
        /\ line < Len(file.lines)
    BY <1>4 DEF NextLine
  <2>2. CASE status' = "failed" /\ UNCHANGED <<line, idx>>
    <3>1. EntriesAhead' = EntriesAhead
      BY <2>1, <2>2 DEF EntriesAhead
    <3> QED
      BY <1>2, <2>1, <2>2, <3>1 DEF ScanInBounds
  <2>3. CASE line' = line + 1 /\ idx' = 1 /\ UNCHANGED status
    <3>1. EntriesAhead' = kept
      BY <1>1, <2>1, <2>3 DEF EntriesAhead
    <3>2. ScanInBounds'
      BY <1>1, <2>3, <3>1 DEF ScanInBounds
    <3>3. ahead = 0
      BY <1>1, <2>1 DEF EntriesAhead, Scanning
    <3>4. StepsLeft = lines * (kept + 1) + 1
      BY <1>1, <2>1, <3>3, StepsLeftRunning
    <3>5. Len(file'.lines) - line' = lines - 1 /\ Len(map_to_be_filtered') = kept
      BY <1>1, <2>1, <2>3
    <3>6. StepsLeft' = (lines - 1) * (kept + 1) + kept + 1
      <4>1. status' = "scanning"
        BY <2>1, <2>3
      <4> QED
        BY <3>1, <3>5, <4>1 DEF StepsLeft
    <3>7. \A m, n \in Nat : (m - 1) * (n + 1) + n + 1 < m * (n + 1) + 1
      <4> TAKE m, n \in Nat
      <4>1. (m - 1) * (n + 1) = m * (n + 1) - (n + 1)
        OBVIOUS
      <4> QED
        BY <4>1
    <3>8. (lines - 1) * (kept + 1) + kept + 1 < lines * (kept + 1) + 1
      BY <1>1, <3>7
    <3> QED
      BY <3>2, <3>4, <3>6, <3>8
  <2> QED
    BY <1>4, <2>2, <2>3 DEF NextLine
<1>5. CASE EndOfFile
  <2>1. /\ EntriesAhead' = EntriesAhead /\ UNCHANGED <<line, idx>>
        /\ status = "scanning" /\ status' = "done"
    BY <1>5 DEF EndOfFile, EntriesAhead
  <2> QED
    BY <1>2, <2>1 DEF ScanInBounds
<1>6. CASE MoveEntry
  <2>1. /\ UNCHANGED <<file, line, idx, status>> /\ status = "scanning" /\ line > 0
        /\ idx \in 1 .. kept /\ map_to_be_filtered' = SwapRemove(map_to_be_filtered, idx)
    BY <1>1, <1>6 DEF MoveEntry, Scanning
  <2>2. Len(map_to_be_filtered') = kept - 1
    BY <2>1, SwapRemoveType DEF FilterTypes
  <2>3. ahead = kept + 1 - idx /\ EntriesAhead' = kept - idx
    BY <1>1, <2>1, <2>2 DEF EntriesAhead
  <2>4. ScanInBounds'
    BY <1>1, <2>1, <2>3 DEF ScanInBounds
  <2>5. StepsLeft = lines * (kept + 1) + (kept + 1 - idx) + 1
    BY <1>1, <2>1, <2>3, StepsLeftRunning
  <2>6. Len(file'.lines) - line' = lines /\ Len(map_to_be_filtered') + 1 = kept
    BY <1>1, <2>1, <2>2
  <2>7. StepsLeft' = lines * kept + (kept - idx) + 1
    <3>1. status' = "scanning"
      BY <2>1
    <3> QED
      BY <2>3, <2>6, <3>1 DEF StepsLeft
  <2>8. \A m, n \in Nat : m * n \in Nat /\ m * (n + 1) = m * n + m
    OBVIOUS
  <2>9. lines * (kept + 1) = lines * kept + lines /\ lines * kept \in Nat
    <3> HIDE DEF lines, kept
    <3> QED
      BY <1>1, <2>8
  <2> HIDE DEF lines, kept
  <2> QED
    BY <1>1, <2>1, <2>4, <2>5, <2>7, <2>9
<1>7. CASE KeepEntry
  <2>1. /\ UNCHANGED <<map_to_be_filtered, file, line, status>> /\ status = "scanning"
        /\ line > 0 /\ idx <= kept /\ idx' = idx + 1
    BY <1>7 DEF KeepEntry, Scanning
  <2>2. ahead = kept + 1 - idx /\ EntriesAhead' = kept - idx
    BY <1>1, <2>1 DEF EntriesAhead
  <2>3. ScanInBounds'
    BY <1>1, <2>1, <2>2 DEF ScanInBounds
  <2>4. StepsLeft = lines * (kept + 1) + (kept + 1 - idx) + 1
    BY <1>1, <2>1, <2>2, StepsLeftRunning
  <2>5. Len(file'.lines) - line' = lines /\ Len(map_to_be_filtered') = kept
    BY <2>1
  <2>6. StepsLeft' = lines * (kept + 1) + (kept - idx) + 1
    <3>1. status' = "scanning"
      BY <2>1
    <3> QED
      BY <2>2, <2>5, <3>1 DEF StepsLeft
  <2>7. lines * (kept + 1) \in Nat
    BY StepsLeftRunning
  <2> HIDE DEF lines, kept
  <2> QED
    BY <1>1, <2>3, <2>4, <2>6, <2>7
<1> QED
  BY <1>3, <1>4, <1>5, <1>6, <1>7 DEF FilterStep

\* The scan never leaves its bounds, whatever is removed under it.
LEMMA FilterStaysInBounds == FilterSpec => []ScanInBounds
<1>1. FilterInit => ScanInBounds
  BY DEF FilterInit, FilterStart, ScanInBounds, EntriesAhead
<1>2. FilterTypes /\ ScanInvariant /\ ScanInBounds /\ FilterTypes' /\ ScanInvariant'
        /\ [FilterStep]_filterVars => ScanInBounds'
  <2>1. CASE FilterStep
    BY <2>1, FilterStepAdvances
  <2>2. CASE UNCHANGED filterVars
    BY <2>2 DEF filterVars, ScanInBounds, EntriesAhead
  <2> QED
    BY <2>1, <2>2
<1> QED
  BY <1>1, <1>2, FilterTypesHold, ScanIsExhaustive, PTL DEF FilterSpec

\* The state of the filter always has its types, and the scan is within the file
\* and the vector, or one place past their ends.
THEOREM FilterTyped == FilterSpec => []FilterTypeOK
<1>1. FilterTypes /\ ScanInvariant /\ ScanInBounds => FilterTypeOK
  <2> SUFFICES ASSUME FilterTypes, ScanInvariant, ScanInBounds
               PROVE  FilterTypeOK
    OBVIOUS
  <2>1. /\ Len(map_to_be_filtered) \in Nat /\ Len(file.lines) \in Nat
        /\ line \in Nat /\ idx \in Nat \ {0}
    BY DEF FilterTypes, ListFile
  <2>2. line \in 0 .. Len(file.lines)
    BY <2>1 DEF ScanInvariant
  <2>3. idx \in 1 .. Len(map_to_be_filtered) + 1
    BY <2>1 DEF ScanInBounds, EntriesAhead
  <2> QED
    BY <2>2, <2>3 DEF FilterTypes, FilterTypeOK
<1> QED
  BY <1>1, FilterTypesHold, ScanIsExhaustive, FilterStaysInBounds, PTL

\* Every step of a filter call brings it nearer to its end.
THEOREM FilterAdvances == FilterSpec => ScanAdvances
<1>1. FilterTypes /\ ScanInvariant /\ ScanInBounds /\ FilterTypes' /\ ScanInvariant'
        /\ (StepsLeft \in Nat)' /\ [FilterStep]_filterVars
        => [StepsLeft' \in Nat /\ StepsLeft' < StepsLeft]_filterVars
  BY FilterStepAdvances
<1>2. FilterTypes /\ ScanInvariant /\ ScanInBounds => StepsLeft \in Nat
  BY StepsLeftRunning
<1> QED
  BY <1>1, <1>2, FilterTypesHold, ScanIsExhaustive, FilterStaysInBounds, PTL
     DEF FilterSpec, ScanAdvances

-----------------------------------------------------------------------------
(* Conservation and refinement.                                            *)

\* What a removal does to the two sets of entries.
LEMMA MoveMembers ==
    ASSUME FilterTypes, NoEntryTwice, MoveEntry
    PROVE  /\ map_to_be_filtered[idx] \in Members(map_to_be_filtered)
           /\ Members(map_to_be_filtered')
                = Members(map_to_be_filtered) \ {map_to_be_filtered[idx]}
           /\ Members(resultant_map')
                = Members(resultant_map) \cup {map_to_be_filtered[idx]}
<1>1. /\ map_to_be_filtered \in Seq(Entry) /\ resultant_map \in Seq(Entry)
      /\ idx \in 1 .. Len(map_to_be_filtered)
      /\ map_to_be_filtered' = SwapRemove(map_to_be_filtered, idx)
      /\ resultant_map' = Append(resultant_map, map_to_be_filtered[idx])
      /\ map_to_be_filtered[idx] \in Entry
  BY DEF FilterTypes, MoveEntry, Scanning
<1>2. DistinctUrls(map_to_be_filtered)
  BY DEF NoEntryTwice, DistinctAcross
<1>3. map_to_be_filtered[idx] \in Members(map_to_be_filtered)
  <2>1. idx \in DOMAIN map_to_be_filtered
    BY <1>1
  <2>2. QED
    BY <2>1 DEF Members
<1>4. QED
  BY <1>1, <1>2, <1>3, SwapRemoveDistinct, AppendMembers

\* The filter never loses or invents an entry.
THEOREM FilterConservesEntries == FilterSpec => EntriesConserved
<1>1. FilterTypes /\ NoEntryTwice /\ [FilterStep]_filterVars =>
        [Members(map_to_be_filtered') \cup Members(resultant_map')
           = Members(map_to_be_filtered) \cup Members(resultant_map)]_filterVars
  <2> SUFFICES ASSUME FilterTypes, NoEntryTwice, FilterStep
               PROVE  Members(map_to_be_filtered') \cup Members(resultant_map')
                        = Members(map_to_be_filtered) \cup Members(resultant_map)
    OBVIOUS
  <2>1. CASE MoveEntry
    BY <2>1, MoveMembers
  <2>2. CASE Open \/ NextLine \/ EndOfFile \/ KeepEntry
    BY <2>2 DEF Open, NextLine, EndOfFile, KeepEntry
  <2>3. QED
    BY <2>1, <2>2 DEF FilterStep
<1>2. QED
  BY <1>1, FilterTypesHold, FilterKeepsEntriesDistinct, PTL DEF FilterSpec, EntriesConserved

\* Every step of the scan is a step of ListPartition or leaves its view alone.
LEMMA FilterStepPartitions ==
    ASSUME FilterTypes, NoEntryTwice, ScanInvariant, NoMatchKept',
           ScanInvariant', [FilterStep]_filterVars
    PROVE  [Partition!PartitionStep]_(Partition!partition)
<1> USE DEF Partition!partition
<1>1. CASE Open
  <2>1. UNCHANGED <<map_to_be_filtered, resultant_map, file>> /\ status = "opening"
    BY <1>1 DEF Open
  <2>2. CASE status' = "scanning"
    BY <2>1, <2>2 DEF Outcome
  <2>3. CASE status' = "failed"
    BY <2>1, <2>3 DEF Outcome, Partition!PartitionStep, Partition!Fail
  <2>4. QED
    BY <1>1, <2>2, <2>3 DEF Open
<1>2. CASE NextLine
  <2>1. UNCHANGED <<map_to_be_filtered, resultant_map, file>> /\ status = "scanning"
    BY <1>2 DEF NextLine
  <2>2. CASE status' = "failed"
    BY <2>1, <2>2 DEF Outcome, Partition!PartitionStep, Partition!Fail
  <2>3. CASE status' = status
    BY <2>1, <2>3 DEF Outcome
  <2>4. QED
    BY <1>2, <2>2, <2>3 DEF NextLine
<1>3. CASE EndOfFile
  <2>1. /\ UNCHANGED <<map_to_be_filtered, resultant_map, file>>
        /\ status = "scanning" /\ status' = "done"
    BY <1>3 DEF EndOfFile
  <2>2. Outcome = "running" /\ Outcome' = "done"
    BY <2>1 DEF Outcome
  <2>3. file.exists /\ DOMAIN file.lines = 1 .. Len(file.lines)
    BY <2>1 DEF ScanInvariant, FilterTypes, ListFile
  <2>4. \A n \in DOMAIN file.lines : file.lines[n].valid
    BY <2>1, <2>3 DEF ScanInvariant
  <2>5. \A e \in Members(map_to_be_filtered) : ~Partition!MatchesSome(e)
    BY <2>1, <2>3 DEF NoMatchKept, Partition!MatchesSome, Partition!Matches, Matches
  <2>6. QED
    BY <2>1, <2>2, <2>3, <2>4, <2>5 DEF Partition!PartitionStep, Partition!Finish
<1>4. CASE MoveEntry
  <2> DEFINE e == map_to_be_filtered[idx]
  <2>1. /\ e \in Members(map_to_be_filtered)
        /\ Members(map_to_be_filtered') = Members(map_to_be_filtered) \ {e}
        /\ Members(resultant_map') = Members(resultant_map) \cup {e}
    BY <1>4, MoveMembers
  <2>2. /\ UNCHANGED <<file, status>> /\ status = "scanning" /\ line > 0
        /\ Matches(file.lines[line], e)
    BY <1>4 DEF MoveEntry, Scanning
  <2>3. /\ line \in DOMAIN file.lines
        /\ file.lines[line].valid
    BY <2>2 DEF ScanInvariant, FilterTypes, ListFile
  <2>4. Partition!MatchesSome(e)
    BY <2>2, <2>3 DEF Partition!MatchesSome, Partition!Matches, Matches
  <2>5. Outcome = "running" /\ UNCHANGED <<file, Outcome>>
    BY <2>2 DEF Outcome
  <2> HIDE DEF e
  <2>6. QED
    BY <2>1, <2>4, <2>5 DEF Partition!PartitionStep, Partition!MoveOne
<1>5. CASE KeepEntry \/ UNCHANGED filterVars
  BY <1>5 DEF KeepEntry, filterVars, Outcome, Members
<1>6. QED
  BY <1>1, <1>2, <1>3, <1>4, <1>5 DEF FilterStep

\* filter_with_lists implements ListPartition.
THEOREM FilterImplementsPartition == FilterSpec => ImplementsPartition
<1>1. FilterInit => Partition!PartitionInit
  <2> SUFFICES ASSUME FilterInit
               PROVE  Partition!PartitionInit
    OBVIOUS
  <2>1. Outcome = "running"
    BY DEF FilterInit, FilterStart, Outcome
  <2>2. Members(map_to_be_filtered) \cap Members(resultant_map) = {}
    BY DEF FilterInit, DistinctAcross, Members
  <2>3. QED
    BY <2>1, <2>2 DEF Partition!PartitionInit
<1>2. FilterTypes /\ NoEntryTwice /\ ScanInvariant /\ ScanInvariant' /\ NoMatchKept'
        /\ [FilterStep]_filterVars => [Partition!PartitionStep]_(Partition!partition)
  BY FilterStepPartitions
<1>3. QED
  BY <1>1, <1>2, FilterTypesHold, FilterKeepsEntriesDistinct, ScanIsExhaustive,
     FilterRemovesAllMatches, PTL
     DEF FilterSpec, ImplementsPartition, Partition!PartitionSpec
=============================================================================
