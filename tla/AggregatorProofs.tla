-------------------------- MODULE AggregatorProofs --------------------------
(***************************************************************************)
(* The invariants of aggregate for any selection of engines, any answers   *)
(* in any order, and any list files.                                       *)
(***************************************************************************)
EXTENDS Aggregator, SearchResultProofs, FiniteSetTheorems

-----------------------------------------------------------------------------
(* Types, and the vector of names.                                         *)

\* What the loop over the JoinSet relies on: before it begins no task has been
\* joined, and from then on there is a name for every task left.
NamesInvariant ==
    /\ pc = "spawning" => joined = <<>> /\ Len(names) <= Len(handlers)
    /\ NamesCoverTasks

\* Tasks joined once each, with one left, are fewer than the handlers.
LEMMA OneTaskLeft ==
    ASSUME NEW n \in Nat, NEW s \in Seq(1 .. n), NEW i \in 1 .. n,
           i \notin Members(s),
           \A j, k \in DOMAIN s : s[j] = s[k] => j = k
    PROVE  Len(s) < n
<1>1. PICK l \in Nat : l = Len(s)
  OBVIOUS
<1>2. s \in Bijection(1 .. l, Members(s))
  <2>1. s \in [1 .. l -> Members(s)]
    BY <1>1 DEF Members
  <2>2. QED
    BY <1>1, <2>1 DEF Bijection, Injection, IsInjective, Surjection, Members
<1>3. IsFiniteSet(1 .. l) /\ Cardinality(1 .. l) = l
      /\ IsFiniteSet(1 .. n) /\ Cardinality(1 .. n) = n
  BY FS_Interval
<1>4. ExistsBijection(1 .. l, Members(s))
  BY <1>2 DEF ExistsBijection
<1>5. Cardinality(Members(s)) = l
  BY <1>3, <1>4, FS_Bijection
<1>6. Members(s) \subseteq 1 .. n
  BY DEF Members
<1>7. l <= n /\ (l = n => Members(s) = 1 .. n)
  BY <1>3, <1>5, <1>6, FS_Subset
<1>8. QED
  BY <1>1, <1>7

\* The SearchResult a task returns is an entry.
LEMMA ResponseType ==
    ASSUME NEW hits \in Seq(Hit), NEW name \in Engines
    PROVE  [k \in DOMAIN hits |-> Scraped(hits[k], name)] \in Seq(Entry)
<1>1. PICK n \in Nat : n = Len(hits)
  OBVIOUS
<1>2. DOMAIN hits = 1 .. n /\ \A k \in 1 .. n : hits[k] \in Hit
  BY <1>1
<1>3. \A k \in 1 .. n : Scraped(hits[k], name) \in Entry
  BY <1>2 DEF Scraped, Hit, Entry
<1>4. [k \in DOMAIN hits |-> Scraped(hits[k], name)] \in [1 .. n -> Entry]
  BY <1>2, <1>3
<1>5. QED
  BY <1>1, <1>4

\* push, and pop of a vector that is not empty.
LEMMA AppendType ==
    ASSUME NEW S, NEW s \in Seq(S), NEW e \in S
    PROVE  Append(s, e) \in Seq(S)
OBVIOUS

LEMMA ButLastType ==
    ASSUME NEW S, NEW s \in Seq(S), Len(s) > 0
    PROVE  /\ s[Len(s)] \in S /\ ButLast(s) \in Seq(S) /\ Len(ButLast(s)) = Len(s) - 1
           /\ \A k \in DOMAIN ButLast(s) : k \in DOMAIN s /\ ButLast(s)[k] = s[k]
<1>1. PICK n \in Nat : n = Len(s) /\ n > 0
  OBVIOUS
<1>2. /\ \A k \in 1 .. n : s[k] \in S
      /\ n \in 1 .. n /\ n - 1 \in Nat
  BY <1>1
<1>3. ButLast(s) = SubSeq(s, 1, n - 1)
  BY <1>1 DEF ButLast
<1>4. SubSeq(s, 1, n - 1) \in Seq(S) /\ Len(SubSeq(s, 1, n - 1)) = n - 1
  BY <1>1, <1>2
<1>5. \A k \in DOMAIN SubSeq(s, 1, n - 1) : k \in DOMAIN s /\ SubSeq(s, 1, n - 1)[k] = s[k]
  BY <1>1, <1>2
<1>6. QED
  BY <1>1, <1>2, <1>3, <1>4, <1>5

\* JoinNext finds a name to pop.
LEMMA NameForTask ==
    ASSUME TypeOK, NamesInvariant, pc = "joining",
           NEW i \in DOMAIN handlers, Unjoined(i)
    PROVE  /\ Len(names) \in Nat \ {0}
           /\ LastName \in Engines
           /\ ButLast(names) \in Seq(Engines)
           /\ Len(ButLast(names)) = Len(names) - 1
           /\ \A k \in DOMAIN ButLast(names) : k \in DOMAIN names /\ ButLast(names)[k] = names[k]
<1>1. PICK n \in Nat : n = Len(handlers)
  BY DEF TypeOK
<1>2. /\ DOMAIN handlers = 1 .. n /\ joined \in Seq(1 .. n) /\ names \in Seq(Engines)
      /\ Len(joined) \in Nat /\ Len(names) \in Nat
  BY <1>1 DEF TypeOK
<1>3. Len(joined) < n
  BY <1>2, OneTaskLeft DEF Unjoined, NamesInvariant, NamesCoverTasks
<1>4. Len(names) > 0
  BY <1>1, <1>2, <1>3 DEF NamesInvariant, NamesCoverTasks
<1>5. QED
  BY <1>2, <1>4, ButLastType DEF LastName

\* The task that JoinNext takes, and everything it changes, has its types.
LEMMA JoinNextType ==
    ASSUME TypeOK, NamesInvariant, NEW i \in DOMAIN handlers, JoinNext(i)
    PROVE  TypeOK' /\ NamesInvariant'
<1>1. /\ pc = "joining" /\ Unjoined(i)
      /\ joined' = Append(joined, i) /\ names' = ButLast(names)
      /\ UNCHANGED <<inputs, answer, filtering, pc, results>>
  BY DEF JoinNext
<1>2. /\ Len(names) \in Nat \ {0} /\ LastName \in Engines
      /\ names' \in Seq(Engines) /\ Len(names') = Len(names) - 1
      /\ \A k \in DOMAIN names' : k \in DOMAIN names /\ names'[k] = names[k]
  BY <1>1, NameForTask
<1>3. answer[i] \in Answer /\ answer[i].hits \in Seq(Hit)
      /\ answer[i].error \in EngineErrors /\ handlers[i] \in Engines
  BY DEF TypeOK, Answer
<1>4. response' \in Seq(Entry)
  <2>1. CASE answer[i].kind = "ok"
    BY <1>3, <2>1, ResponseType DEF JoinNext
  <2>2. CASE answer[i].kind # "ok"
    BY <2>2 DEF JoinNext, TypeOK
  <2>3. QED
    BY <2>1, <2>2
<1>5. engine_errors_info' \in Seq(EngineErrorInfo)
  <2>1. engine_errors_info' = engine_errors_info
        \/ engine_errors_info' = Append(engine_errors_info,
              [engine |-> LastName, error |-> answer[i].error])
    BY DEF JoinNext
  <2>2. [engine |-> LastName, error |-> answer[i].error]
           \in EngineErrorInfo
    BY <1>2, <1>3 DEF EngineErrorInfo
  <2>3. QED
    BY <2>1, <2>2, AppendType DEF TypeOK
<1>6. joined' \in Seq(DOMAIN handlers) /\ Len(joined') = Len(joined) + 1
  BY <1>1 DEF TypeOK
<1>7. TypeOK'
  <2>1. UNCHANGED <<handlers, safe_search, blocklist, allowlist, scored, answer,
                    pc, result_map, blacklist_map, results, line, idx, status>>
    BY <1>1 DEF inputs, filtering
  <2>2. joined' \in Seq(DOMAIN handlers')
    BY <1>6, <2>1
  <2>3. \A k \in DOMAIN names' : k \in DOMAIN handlers' /\ names'[k] = handlers'[k]
    BY <1>2, <2>1 DEF TypeOK
  <2> HIDE DEF TypeOK
  <2>4. QED
    BY <1>2, <1>4, <1>5, <2>1, <2>2, <2>3 DEF TypeOK
<1>8. Len(names') + Len(joined') = Len(handlers)
  <2>1. Len(names) + Len(joined) = Len(handlers)
    BY <1>1 DEF NamesInvariant, NamesCoverTasks
  <2>2. Len(joined) \in Nat /\ Len(handlers) \in Nat
    BY DEF TypeOK
  <2>3. Len(names') = Len(names) - 1 /\ Len(names) \in Nat
    BY <1>2
  <2>4. Len(joined') = Len(joined) + 1
    BY <1>6
  <2>5. QED
    BY <2>1, <2>2, <2>3, <2>4
<1>9. \A j, k \in DOMAIN joined' : joined'[j] = joined'[k] => j = k
  <2>1. PICK n \in Nat : n = Len(joined)
    BY DEF TypeOK
  <2>2. /\ DOMAIN joined = 1 .. n /\ DOMAIN joined' = 1 .. n + 1
        /\ \A j \in 1 .. n : joined'[j] = joined[j]
        /\ joined'[n + 1] = i
    BY <1>1, <2>1 DEF TypeOK
  <2>3. \A j \in 1 .. n : joined[j] # i
    BY <1>1, <2>2 DEF Unjoined, Members
  <2>4. \A j, k \in 1 .. n : joined[j] = joined[k] => j = k
    BY <1>1, <2>2 DEF NamesInvariant, NamesCoverTasks
  <2>5. QED
    BY <2>2, <2>3, <2>4
<1>10. QED
  BY <1>1, <1>7, <1>8, <1>9 DEF NamesInvariant, NamesCoverTasks, inputs

-----------------------------------------------------------------------------
(* Steps of the filters.                                                   *)

\* What a step of filter_with_lists does to its two vectors.
Moved(v, w, vv, ww) ==
    \/ vv = v /\ ww = w
    \/ \E i \in 1 .. Len(v) : vv = SwapRemove(v, i) /\ ww = Append(w, v[i])

LEMMA MovedType ==
    ASSUME NEW v \in Seq(Entry), NEW w \in Seq(Entry), NEW vv, NEW ww,
           Moved(v, w, vv, ww)
    PROVE  vv \in Seq(Entry) /\ ww \in Seq(Entry)
<1>1. CASE vv = v /\ ww = w
  BY <1>1
<1>2. CASE \E i \in 1 .. Len(v) : vv = SwapRemove(v, i) /\ ww = Append(w, v[i])
  <2>1. PICK i \in 1 .. Len(v) : vv = SwapRemove(v, i) /\ ww = Append(w, v[i])
    BY <1>2
  <2>2. v[i] \in Entry
    OBVIOUS
  <2>3. QED
    BY <2>1, <2>2, SwapRemoveType, AppendType
<1>3. QED
  BY <1>1, <1>2 DEF Moved

LEMMA MovedMembers ==
    ASSUME NEW v \in Seq(Entry), NEW w \in Seq(Entry), NEW vv, NEW ww,
           DistinctAcross(v, w), Moved(v, w, vv, ww)
    PROVE  /\ DistinctAcross(vv, ww)
           /\ Members(vv) \cup Members(ww) = Members(v) \cup Members(w)
<1>1. CASE vv = v /\ ww = w
  BY <1>1
<1>2. CASE \E i \in 1 .. Len(v) : vv = SwapRemove(v, i) /\ ww = Append(w, v[i])
  <2>1. PICK i \in 1 .. Len(v) : vv = SwapRemove(v, i) /\ ww = Append(w, v[i])
    BY <1>2
  <2>2. DistinctAcross(vv, ww)
    BY <2>1, MoveDistinct
  <2>3. v[i] \in Entry /\ i \in DOMAIN v /\ v[i] \in Members(v)
    BY DEF Members
  <2>4. Members(vv) = Members(v) \ {v[i]} /\ Members(ww) = Members(w) \cup {v[i]}
    BY <2>1, <2>3, SwapRemoveDistinct, AppendMembers DEF DistinctAcross
  <2>5. QED
    BY <2>2, <2>3, <2>4
<1>3. QED
  BY <1>1, <1>2 DEF Moved

\* A step of the block list's filter.
LEMMA BlockStep ==
    ASSUME TypeOK, Block!FilterStep
    PROVE  /\ Moved(result_map, blacklist_map, result_map', blacklist_map')
           /\ line' \in Nat /\ idx' \in Nat \ {0}
           /\ status' \in {"opening", "scanning", "done", "failed"}
<1>1. CASE Block!MoveEntry
  <2>1. /\ idx \in 1 .. Len(result_map)
        /\ result_map' = SwapRemove(result_map, idx)
        /\ blacklist_map' = Append(blacklist_map, result_map[idx])
        /\ UNCHANGED <<line, idx, status>>
    BY <1>1 DEF TypeOK, Block!MoveEntry, Block!Scanning, Block!SwapRemove, SwapRemove
  <2>2. QED
    BY <2>1 DEF Moved, TypeOK
<1>2. CASE Block!Open \/ Block!NextLine \/ Block!EndOfFile \/ Block!KeepEntry
  <2>1. result_map' = result_map /\ blacklist_map' = blacklist_map
    BY <1>2 DEF Block!Open, Block!NextLine, Block!EndOfFile, Block!KeepEntry
  <2>2. line' \in Nat /\ idx' \in Nat \ {0}
        /\ status' \in {"opening", "scanning", "done", "failed"}
    BY <1>2 DEF TypeOK, Block!Open, Block!NextLine, Block!EndOfFile, Block!KeepEntry
  <2>3. QED
    BY <2>1, <2>2 DEF Moved
<1>3. QED
  BY <1>1, <1>2 DEF Block!FilterStep

\* A step of the allow list's filter, which moves entries back.
LEMMA AllowStep ==
    ASSUME TypeOK, Allow!FilterStep
    PROVE  /\ Moved(blacklist_map, result_map, blacklist_map', result_map')
           /\ line' \in Nat /\ idx' \in Nat \ {0}
           /\ status' \in {"opening", "scanning", "done", "failed"}
<1>1. CASE Allow!MoveEntry
  <2>1. /\ idx \in 1 .. Len(blacklist_map)
        /\ blacklist_map' = SwapRemove(blacklist_map, idx)
        /\ result_map' = Append(result_map, blacklist_map[idx])
        /\ UNCHANGED <<line, idx, status>>
    BY <1>1 DEF TypeOK, Allow!MoveEntry, Allow!Scanning, Allow!SwapRemove, SwapRemove
  <2>2. QED
    BY <2>1 DEF Moved, TypeOK
<1>2. CASE Allow!Open \/ Allow!NextLine \/ Allow!EndOfFile \/ Allow!KeepEntry
  <2>1. result_map' = result_map /\ blacklist_map' = blacklist_map
    BY <1>2 DEF Allow!Open, Allow!NextLine, Allow!EndOfFile, Allow!KeepEntry
  <2>2. line' \in Nat /\ idx' \in Nat \ {0}
        /\ status' \in {"opening", "scanning", "done", "failed"}
    BY <1>2 DEF TypeOK, Allow!Open, Allow!NextLine, Allow!EndOfFile, Allow!KeepEntry
  <2>3. QED
    BY <2>1, <2>2 DEF Moved
<1>3. QED
  BY <1>1, <1>2 DEF Allow!FilterStep

-----------------------------------------------------------------------------
(* The invariants by induction over the steps of the call.                 *)

\* Any order of a vector's members is a vector of entries.
LEMMA RankedType ==
    ASSUME NEW vec \in Seq(Entry), NEW r \in Ranked(vec)
    PROVE  r \in Seq(Entry)
<1>1. Len(vec) \in Nat /\ Members(vec) \subseteq Entry
  BY DEF Members
<1>2. r \in [1 .. Len(vec) -> Members(vec)]
  BY DEF Ranked
<1>3. QED
  BY <1>1, <1>2

LEMMA TypeStep ==
    ASSUME TypeOK, NamesInvariant, [Next]_vars
    PROVE  TypeOK' /\ NamesInvariant'
<1>1. CASE SpawnTask
  <2>1. handlers[Len(names) + 1] \in Engines /\ Len(names) + 1 <= Len(handlers)
    BY <1>1 DEF SpawnTask, TypeOK
  <2>2. names' \in Seq(Engines) /\ Len(names') = Len(names) + 1
    BY <1>1, <2>1, AppendType DEF SpawnTask, TypeOK
  <2>5. \A k \in DOMAIN names' : k \in DOMAIN handlers /\ names'[k] = handlers[k]
    <3>1. PICK n \in Nat : n = Len(names)
      BY DEF TypeOK
    <3>2. /\ DOMAIN names = 1 .. n /\ DOMAIN names' = 1 .. n + 1
          /\ \A k \in 1 .. n : names'[k] = names[k]
          /\ names'[n + 1] = handlers[n + 1] /\ n + 1 \in DOMAIN handlers
      BY <1>1, <2>1, <3>1 DEF SpawnTask, TypeOK
    <3> QED
      BY <3>2 DEF TypeOK
  <2>3. UNCHANGED <<inputs, answer, joined, response, engine_errors_info,
                    filtering, pc, results>> /\ pc = "spawning"
    BY <1>1 DEF SpawnTask
  <2>4. QED
    BY <2>1, <2>2, <2>3, <2>5 DEF TypeOK, inputs, filtering, NamesInvariant, NamesCoverTasks
<1>2. CASE AllSpawned
  <2>1. /\ pc = "spawning" /\ Len(names) = Len(handlers) /\ pc' = "joining"
        /\ UNCHANGED <<inputs, joining, filtering, results>>
    BY <1>2 DEF AllSpawned
  <2>2. TypeOK'
    BY <2>1 DEF TypeOK, inputs, joining, filtering
  <2>3. joined' = <<>> /\ Len(names') = Len(handlers') /\ Len(handlers) \in Nat
    BY <2>1 DEF NamesInvariant, joining, inputs, TypeOK
  <2>4. QED
    BY <2>1, <2>2, <2>3 DEF NamesInvariant, NamesCoverTasks
<1>3. CASE \E i \in DOMAIN handlers : JoinNext(i)
  BY <1>3, JoinNextType
<1>4. CASE MergeResult
  <2>1. response # <<>> /\ response \in Seq(Entry)
    BY <1>4 DEF MergeResult, TypeOK
  <2>2. Head(response) \in Entry /\ Tail(response) \in Seq(Entry)
    BY <2>1
  <2>3. response' \in Seq(Entry) /\ result_map' \in Seq(Entry)
    BY <1>4, <2>2, AppendType DEF MergeResult, TypeOK
  <2>4. UNCHANGED <<inputs, answer, joined, names, engine_errors_info,
                    blacklist_map, line, idx, status, pc, results>>
    BY <1>4 DEF MergeResult
  <2>5. QED
    BY <2>3, <2>4 DEF TypeOK, inputs, NamesInvariant, NamesCoverTasks
<1>5. CASE JoinSetEmpty \/ \E i \in DOMAIN handlers : JoinPanicked(i)
  <2>1. /\ pc' \in {"blocking", "ranking"}
        /\ UNCHANGED <<inputs, joining, filtering, results>>
    BY <1>5 DEF JoinSetEmpty, JoinPanicked, AfterJoin
  <2>2. QED
    BY <2>1 DEF TypeOK, inputs, joining, filtering, NamesInvariant, NamesCoverTasks
<1>6. CASE FilterByBlocklist
  <2>1. /\ UNCHANGED <<inputs, joining, pc, results>> /\ Block!FilterStep
        /\ pc = "blocking"
    BY <1>6 DEF FilterByBlocklist
  <2>2. /\ result_map' \in Seq(Entry) /\ blacklist_map' \in Seq(Entry)
        /\ line' \in Nat /\ idx' \in Nat \ {0}
        /\ status' \in {"opening", "scanning", "done", "failed"}
    BY <2>1, BlockStep, MovedType DEF TypeOK
  <2>3. QED
    BY <2>1, <2>2 DEF TypeOK, inputs, joining, NamesInvariant, NamesCoverTasks
<1>7. CASE FilterByAllowlist
  <2>1. /\ UNCHANGED <<inputs, joining, pc, results>> /\ Allow!FilterStep
        /\ pc = "allowing"
    BY <1>7 DEF FilterByAllowlist
  <2>2. /\ result_map' \in Seq(Entry) /\ blacklist_map' \in Seq(Entry)
        /\ line' \in Nat /\ idx' \in Nat \ {0}
        /\ status' \in {"opening", "scanning", "done", "failed"}
    BY <2>1, AllowStep, MovedType DEF TypeOK
  <2>3. QED
    BY <2>1, <2>2 DEF TypeOK, inputs, joining, NamesInvariant, NamesCoverTasks
<1>8. CASE BlocklistApplied \/ AllowlistApplied \/ FilterFailed
  BY <1>8 DEF BlocklistApplied, AllowlistApplied, FilterFailed, TypeOK,
              inputs, joining, filtering, NamesInvariant, NamesCoverTasks
<1>9. CASE Rank
  <2>1. results' \in Seq(Entry)
    BY <1>9, RankedType DEF Rank, TypeOK
  <2>2. pc' = "done" /\ UNCHANGED <<inputs, joining, filtering>>
    BY <1>9 DEF Rank
  <2>3. QED
    BY <2>1, <2>2 DEF TypeOK, inputs, joining, filtering, NamesInvariant, NamesCoverTasks
<1>10. CASE SomeTaskEnds
  <2>1. PICK i \in DOMAIN handlers : TaskEnds(i)
    BY <1>10 DEF SomeTaskEnds
  <2>2. PICK a \in Answers : answer' = [answer EXCEPT ![i] = a]
    BY <2>1 DEF TaskEnds
  <2>3. answer' \in [DOMAIN handlers -> Answer]
    BY <2>2, AnswersAssumption DEF TypeOK
  <2>4. UNCHANGED <<inputs, joined, names, response, engine_errors_info,
                    filtering, pc, results>>
    BY <2>1 DEF TaskEnds
  <2>5. QED
    BY <2>3, <2>4 DEF TypeOK, inputs, filtering, NamesInvariant, NamesCoverTasks
<1>11. CASE UNCHANGED vars
  BY <1>11 DEF vars, TypeOK, inputs, joining, filtering, NamesInvariant, NamesCoverTasks
<1>12. QED
  BY <1>1, <1>2, <1>3, <1>4, <1>5, <1>6, <1>7, <1>8, <1>9, <1>10, <1>11
     DEF Next, Aggregate

LEMMA TypeInit == Init => TypeOK /\ NamesInvariant
<1> SUFFICES ASSUME Init
             PROVE  TypeOK /\ NamesInvariant
  OBVIOUS
<1>1. None \in Answer
  BY DEF None, Answer, EngineErrors
<1>2. answer \in [DOMAIN handlers -> Answer]
  BY <1>1 DEF Init
<1>3. QED
  BY <1>2 DEF Init, TypeOK, NamesInvariant, NamesCoverTasks

\* The state of a call always has its types, whatever the engines answer.
THEOREM CallTyped == Spec => []TypeOK
BY TypeInit, TypeStep, PTL DEF Spec

\* names.pop().unwrap() finds a name for every task that is joined.
THEOREM NamesSuffice == Spec => []NamesCoverTasks
<1>1. NamesInvariant => NamesCoverTasks
  BY DEF NamesInvariant
<1>2. QED
  BY <1>1, TypeInit, TypeStep, PTL DEF Spec

-----------------------------------------------------------------------------
(* Which results are kept.                                                 *)

UrlsOf(S) == {e.url : e \in S}

\* The result is that of the task joined first among those with its url, with that
\* task's engine alone: what the code does, and more than it has to.
ArrivedAlone(e) ==
    \E k \in DOMAIN joined :
        /\ \E h \in Members(answer[joined[k]].hits) :
              e = Scraped(h, handlers[joined[k]])
        /\ \A m \in 1 .. k - 1 : e.url \notin ReportedBy(m)

\* The task whose results are being merged.
Latest == joined[Len(joined)]

\* The results of the tasks joined before are all merged; those of the task
\* joined last are merged or still to come.
MergeInvariant ==
    /\ pc \in {"spawning", "joining"} => blacklist_map = <<>>
    /\ pc # "joining" => response = <<>>
    /\ pc = "spawning" => joined = <<>>
    /\ \A k \in DOMAIN joined : answer[joined[k]].kind # "none"
    /\ ResultsDistinct
    /\ \A e \in Merged : ArrivedAlone(e)
    /\ \A e \in Members(response) :
          \E h \in Members(answer[Latest].hits) : e = Scraped(h, handlers[Latest])
    /\ response # <<>> => joined # <<>>
    /\ \A k \in DOMAIN joined :
          ReportedBy(k) \subseteq
             UrlsOf(Merged)
               \cup IF k = Len(joined) THEN UrlsOf(Members(response)) ELSE {}

LEMMA HeadTailMembers ==
    ASSUME NEW S, NEW s \in Seq(S), s # <<>>
    PROVE  Members(s) = {Head(s)} \cup Members(Tail(s))
<1>1. PICK n \in Nat : n = Len(s)
  OBVIOUS
<1>2. /\ n > 0 /\ DOMAIN s = 1 .. n /\ Head(s) = s[1]
      /\ DOMAIN Tail(s) = 1 .. n - 1
      /\ \A k \in 1 .. n - 1 : Tail(s)[k] = s[k + 1]
  BY <1>1
<1>3. ASSUME NEW k \in 1 .. n
      PROVE  s[k] \in {Head(s)} \cup Members(Tail(s))
  <2>1. CASE k = 1
    BY <1>2, <2>1
  <2>2. CASE k # 1
    <3>1. k - 1 \in 1 .. n - 1 /\ s[k] = Tail(s)[k - 1]
      BY <1>2, <2>2
    <3>2. QED
      BY <1>2, <3>1 DEF Members
  <2>3. QED
    BY <2>1, <2>2
<1>4. Members(s) \subseteq {Head(s)} \cup Members(Tail(s))
  BY <1>2, <1>3 DEF Members
<1>5. Head(s) \in Members(s)
  <2>1. 1 \in DOMAIN s
    BY <1>2
  <2>2. QED
    BY <1>2, <2>1 DEF Members
<1>6. Members(Tail(s)) \subseteq Members(s)
  <2>1. ASSUME NEW k \in 1 .. n - 1
        PROVE  Tail(s)[k] \in Members(s)
    <3>1. k + 1 \in DOMAIN s /\ Tail(s)[k] = s[k + 1]
      BY <1>2
    <3>2. QED
      BY <3>1 DEF Members
  <2>2. QED
    BY <1>2, <2>1 DEF Members
<1>7. QED
  BY <1>4, <1>5, <1>6

LEMMA DistinctSymmetric ==
    ASSUME NEW v, NEW w
    PROVE  DistinctAcross(v, w) <=> DistinctAcross(w, v)
BY DEF DistinctAcross

\* A step that leaves the merged results, the joined tasks and their answers
\* as they are keeps what is said of them.
LEMMA MergeFrame ==
    ASSUME TypeOK, MergeInvariant,
           UNCHANGED <<handlers, joined, response>>,
           \A k \in DOMAIN joined : answer'[joined[k]] = answer[joined[k]],
           Merged' = Merged, ResultsDistinct',
           pc' \in {"spawning", "joining"} => blacklist_map' = <<>>,
           pc' # "joining" => response = <<>>,
           pc' = "spawning" => joined = <<>>
    PROVE  MergeInvariant'
<1>1. \A k \in DOMAIN joined : answer'[joined[k]] = answer[joined[k]]
  OBVIOUS
<1>2. joined # <<>> => answer'[Latest] = answer[Latest] /\ Latest' = Latest
  <2>1. joined # <<>> => Len(joined) \in DOMAIN joined
    BY DEF TypeOK
  <2>2. QED
    BY <1>1, <2>1 DEF Latest
<1>3. \A k \in DOMAIN joined : ReportedBy(k)' = ReportedBy(k)
  BY <1>1 DEF ReportedBy
<1>4. DOMAIN joined = 1 .. Len(joined) /\ Len(joined) \in Nat
  BY DEF TypeOK
<1>5. ASSUME NEW e \in Merged
      PROVE  ArrivedAlone(e)'
  <2>1. PICK k \in DOMAIN joined :
            /\ \E h \in Members(answer[joined[k]].hits) :
                  e = Scraped(h, handlers[joined[k]])
            /\ \A m \in 1 .. k - 1 : e.url \notin ReportedBy(m)
    BY DEF MergeInvariant, ArrivedAlone
  <2>2. \A m \in 1 .. k - 1 : m \in DOMAIN joined
    BY <1>4
  <2>3. QED
    BY <1>1, <1>3, <2>1, <2>2 DEF ArrivedAlone
<1>6. \A e \in Members(response') :
          \E h \in Members(answer'[Latest'].hits) : e = Scraped(h, handlers'[Latest'])
  BY <1>2 DEF MergeInvariant, Members
<1>7. \A k \in DOMAIN joined :
          ReportedBy(k)' \subseteq
             UrlsOf(Merged')
               \cup IF k = Len(joined) THEN UrlsOf(Members(response)) ELSE {}
  BY <1>3 DEF MergeInvariant
<1>8. \A k \in DOMAIN joined : answer'[joined[k]].kind # "none"
  BY <1>1 DEF MergeInvariant
<1>9. QED
  BY <1>5, <1>6, <1>7, <1>8 DEF MergeInvariant

\* Joining a task that returned results: all of them are still to be merged.
LEMMA JoinKeepsMerged ==
    ASSUME TypeOK, TypeOK', MergeInvariant, NEW i \in DOMAIN handlers, JoinNext(i)
    PROVE  MergeInvariant'
<1>1. PICK n \in Nat : n = Len(joined)
  BY DEF TypeOK
<1>2. /\ pc = "joining" /\ response = <<>> /\ answer[i].kind \in {"ok", "error"}
      /\ joined' = Append(joined, i)
      /\ UNCHANGED <<handlers, answer, pc, result_map, blacklist_map>>
  BY DEF JoinNext, inputs, filtering
<1>3. /\ DOMAIN joined = 1 .. n /\ DOMAIN joined' = 1 .. n + 1
      /\ \A k \in 1 .. n : joined'[k] = joined[k]
      /\ joined'[n + 1] = i /\ Len(joined') = n + 1
  BY <1>1, <1>2 DEF TypeOK
<1>4. Latest' = i
  BY <1>3 DEF Latest
<1>5. Merged' = Merged /\ ResultsDistinct'
  BY <1>2 DEF Merged, ResultsDistinct, MergeInvariant
<1>6. \A k \in 1 .. n : ReportedBy(k)' = ReportedBy(k)
  BY <1>2, <1>3 DEF ReportedBy
<1>7. \A k \in 1 .. n : ReportedBy(k) \subseteq UrlsOf(Merged)
  <2>1. Members(response) = {}
    BY <1>2 DEF Members
  <2>2. QED
    BY <1>3, <2>1 DEF MergeInvariant, UrlsOf
<1>8. ASSUME NEW e \in Merged
      PROVE  ArrivedAlone(e)'
  <2>1. PICK k \in 1 .. n :
            /\ \E h \in Members(answer[joined[k]].hits) :
                  e = Scraped(h, handlers[joined[k]])
            /\ \A m \in 1 .. k - 1 : e.url \notin ReportedBy(m)
    BY <1>3 DEF MergeInvariant, ArrivedAlone
  <2>2. k \in DOMAIN joined' /\ \A m \in 1 .. k - 1 : m \in 1 .. n
    BY <1>3
  <2>3. QED
    BY <1>2, <1>3, <1>6, <2>1, <2>2 DEF ArrivedAlone
<1>9. \A e \in Members(response') :
          \E h \in Members(answer[i].hits) : e = Scraped(h, handlers[i])
  <2>1. CASE answer[i].kind = "ok"
    BY <2>1 DEF JoinNext, Members
  <2>2. CASE answer[i].kind # "ok"
    BY <1>2, <2>2 DEF JoinNext, Members
  <2>3. QED
    BY <2>1, <2>2
<1>10. ReportedBy(n + 1)' \subseteq UrlsOf(Members(response'))
  <2>1. CASE answer[i].kind = "ok"
    <3>1. response' = [k \in DOMAIN answer[i].hits |->
                          Scraped(answer[i].hits[k], handlers[i])]
      BY <2>1 DEF JoinNext
    <3>2. ASSUME NEW k \in DOMAIN answer[i].hits
          PROVE  answer[i].hits[k].url \in UrlsOf(Members(response'))
      <4>1. response'[k] \in Members(response') /\ response'[k].url = answer[i].hits[k].url
        BY <3>1 DEF Members, Scraped
      <4>2. QED
        BY <4>1 DEF UrlsOf
    <3>3. QED
      BY <1>2, <1>3, <3>2 DEF ReportedBy, Members
  <2>2. CASE answer[i].kind # "ok"
    BY <1>2, <1>3, <2>2 DEF ReportedBy
  <2>3. QED
    BY <2>1, <2>2
<1>11. \A k \in DOMAIN joined' : answer'[joined'[k]].kind # "none"
  BY <1>2, <1>3 DEF MergeInvariant
<1>12. ASSUME NEW k \in DOMAIN joined'
       PROVE  ReportedBy(k)' \subseteq
                 UrlsOf(Merged)
                   \cup IF k = n + 1 THEN UrlsOf(Members(response')) ELSE {}
  <2>1. CASE k = n + 1
    BY <1>10, <2>1
  <2>2. CASE k # n + 1
    <3>1. k \in 1 .. n
      BY <1>3, <2>2
    <3>2. QED
      BY <1>6, <1>7, <3>1
  <2>3. QED
    BY <2>1, <2>2
<1>13. joined' # <<>>
  BY <1>3
<1>14. QED
  BY <1>2, <1>3, <1>4, <1>5, <1>8, <1>9, <1>11, <1>12, <1>13 DEF MergeInvariant

\* Merging a result whose url is known changes nothing; merging another adds a
\* result that none of the tasks joined before has reported.
LEMMA MergeKeepsMerged ==
    ASSUME TypeOK, MergeInvariant, MergeResult
    PROVE  MergeInvariant'
<1> DEFINE e == Head(response)
           known == \E x \in Members(result_map) : x.url = e.url
<1>1. /\ pc = "joining" /\ response # <<>> /\ response' = Tail(response)
      /\ result_map' = IF known THEN result_map ELSE Append(result_map, e)
      /\ UNCHANGED <<handlers, answer, joined, blacklist_map, pc>>
  BY DEF MergeResult, inputs
<1>2. /\ Members(response) = {e} \cup Members(response') /\ e \in Entry
  BY <1>1, HeadTailMembers DEF TypeOK
<1>3. PICK n \in Nat : n = Len(joined) /\ n > 0 /\ DOMAIN joined = 1 .. n
  BY <1>1 DEF TypeOK, MergeInvariant
<1> HIDE DEF e, known
<1>4. blacklist_map = <<>> /\ Members(blacklist_map) = {}
  BY <1>1 DEF MergeInvariant, Members
<1>5. Merged' = IF known THEN Merged ELSE Merged \cup {e}
  BY <1>1, <1>2, <1>4, AppendMembers DEF Merged, TypeOK
<1>6. e.url \in UrlsOf(Merged')
  BY <1>4, <1>5 DEF known, UrlsOf, Merged
<1>7. UrlsOf(Merged) \subseteq UrlsOf(Merged')
  BY <1>5 DEF UrlsOf
<1>8. ResultsDistinct'
  <2>1. CASE known
    BY <1>1, <2>1 DEF ResultsDistinct, MergeInvariant
  <2>2. CASE ~known
    <3>1. \A j \in DOMAIN result_map : result_map[j].url # e.url
      BY <2>2 DEF known, Members
    <3>2. result_map \in Seq(Entry) /\ DistinctUrls(result_map)
      BY DEF TypeOK, MergeInvariant, ResultsDistinct, DistinctAcross
    <3>3. DistinctUrls(result_map')
      BY <1>1, <1>2, <2>2, <3>1, <3>2, AppendDistinct
    <3>4. QED
      BY <1>1, <1>4, <3>3 DEF ResultsDistinct, DistinctAcross, DistinctUrls
  <2>3. QED
    BY <2>1, <2>2
<1>9. \A k \in 1 .. n : ReportedBy(k)' = ReportedBy(k)
  BY <1>1 DEF ReportedBy
<1>10. ASSUME NEW x \in Merged'
       PROVE  ArrivedAlone(x)'
  <2>1. ArrivedAlone(x)
    <3>1. CASE x \in Merged
      BY <3>1 DEF MergeInvariant
    <3>2. CASE x \notin Merged
      <4>1. x = e /\ ~known
        BY <1>5, <3>2
      <4>2. n \in DOMAIN joined
              /\ \E h \in Members(answer[joined[n]].hits) :
                    x = Scraped(h, handlers[joined[n]])
        BY <1>2, <1>3, <4>1 DEF MergeInvariant, Latest
      <4>3. x.url \notin UrlsOf(Merged)
        BY <1>4, <4>1 DEF known, UrlsOf, Merged
      <4>4. \A m \in 1 .. n - 1 : ReportedBy(m) \subseteq UrlsOf(Merged)
        <5>1. \A m \in 1 .. n - 1 : m \in DOMAIN joined /\ m # Len(joined)
          BY <1>3
        <5>2. QED
          BY <5>1 DEF MergeInvariant
      <4>5. QED
        BY <4>2, <4>3, <4>4 DEF ArrivedAlone
    <3>3. QED
      BY <3>1, <3>2
  <2>2. PICK k \in 1 .. n :
            /\ \E h \in Members(answer[joined[k]].hits) :
                  x = Scraped(h, handlers[joined[k]])
            /\ \A m \in 1 .. k - 1 : x.url \notin ReportedBy(m)
    BY <1>3, <2>1 DEF ArrivedAlone
  <2>3. \A m \in 1 .. k - 1 : m \in 1 .. n
    OBVIOUS
  <2>4. \A m \in 1 .. k - 1 : x.url \notin ReportedBy(m)'
    BY <1>9, <2>2, <2>3
  <2>5. QED
    BY <1>1, <1>3, <2>2, <2>4 DEF ArrivedAlone
<1>11. \A x \in Members(response') :
          \E h \in Members(answer[Latest].hits) : x = Scraped(h, handlers[Latest])
  BY <1>2 DEF MergeInvariant
<1>12. UrlsOf(Members(response)) \subseteq UrlsOf(Merged') \cup UrlsOf(Members(response'))
  BY <1>2, <1>6 DEF UrlsOf
<1>13. \A k \in DOMAIN joined :
          ReportedBy(k)' \subseteq
             UrlsOf(Merged')
               \cup IF k = Len(joined) THEN UrlsOf(Members(response')) ELSE {}
  BY <1>3, <1>7, <1>9, <1>12 DEF MergeInvariant
<1>14. Latest' = Latest
  BY <1>1 DEF Latest
<1>15. joined # <<>>
  BY <1>1 DEF MergeInvariant
<1>16. QED
  BY <1>1, <1>4, <1>8, <1>10, <1>11, <1>13, <1>14, <1>15 DEF MergeInvariant

LEMMA MergeStep ==
    ASSUME TypeOK, TypeOK', MergeInvariant, [Next]_vars
    PROVE  MergeInvariant'
<1>1. CASE \E i \in DOMAIN handlers : JoinNext(i)
  BY <1>1, JoinKeepsMerged
<1>2. CASE MergeResult
  BY <1>2, MergeKeepsMerged
<1>3. CASE FilterByBlocklist \/ FilterByAllowlist
  <2>1. UNCHANGED <<handlers, joined, response, answer, pc>>
        /\ pc \in {"blocking", "allowing"}
    BY <1>3 DEF FilterByBlocklist, FilterByAllowlist, inputs, joining
  <2>2. \/ Moved(result_map, blacklist_map, result_map', blacklist_map')
        \/ Moved(blacklist_map, result_map, blacklist_map', result_map')
    BY <1>3, BlockStep, AllowStep DEF FilterByBlocklist, FilterByAllowlist
  <2>3. DistinctAcross(result_map, blacklist_map)
        /\ DistinctAcross(blacklist_map, result_map)
    BY DistinctSymmetric DEF MergeInvariant, ResultsDistinct
  <2>4. result_map \in Seq(Entry) /\ blacklist_map \in Seq(Entry)
    BY DEF TypeOK
  <2>5. /\ DistinctAcross(result_map', blacklist_map')
        /\ Members(result_map') \cup Members(blacklist_map')
             = Members(result_map) \cup Members(blacklist_map)
    BY <2>2, <2>3, <2>4, MovedMembers, DistinctSymmetric
  <2>6. Merged' = Merged /\ ResultsDistinct'
    BY <2>5 DEF Merged, ResultsDistinct
  <2>7. response = <<>>
    BY <2>1 DEF MergeInvariant
  <2>8. QED
    BY <2>1, <2>6, <2>7, MergeFrame
<1>4. CASE SomeTaskEnds
  <2>1. PICK i \in DOMAIN handlers : TaskEnds(i)
    BY <1>4 DEF SomeTaskEnds
  <2>2. /\ answer[i].kind = "none"
        /\ \E a \in Answers : answer' = [answer EXCEPT ![i] = a]
        /\ UNCHANGED <<handlers, joined, response, result_map, blacklist_map, pc>>
    BY <2>1 DEF TaskEnds, inputs, filtering
  <2>3. \A k \in DOMAIN joined : answer'[joined[k]] = answer[joined[k]]
    <3>1. \A k \in DOMAIN joined : joined[k] # i /\ joined[k] \in DOMAIN answer
      BY <2>2 DEF MergeInvariant, TypeOK
    <3>2. QED
      BY <2>2, <3>1
  <2>4. Merged' = Merged /\ ResultsDistinct'
    BY <2>2 DEF Merged, ResultsDistinct, MergeInvariant
  <2>5. QED
    BY <2>2, <2>3, <2>4, MergeFrame DEF MergeInvariant
<1>5. CASE \/ SpawnTask \/ AllSpawned \/ JoinSetEmpty
           \/ \E i \in DOMAIN handlers : JoinPanicked(i)
           \/ BlocklistApplied \/ AllowlistApplied \/ FilterFailed \/ Rank
           \/ UNCHANGED vars
  <2>1. /\ UNCHANGED <<handlers, joined, response, answer, result_map, blacklist_map>>
        /\ pc' = "spawning" => pc = "spawning"
        /\ pc' = "joining" => pc \in {"spawning", "joining"}
        /\ pc = "joining" /\ pc' # "joining" => response = <<>>
    BY <1>5 DEF SpawnTask, AllSpawned, JoinSetEmpty, JoinPanicked, AfterJoin,
                BlocklistApplied, AllowlistApplied, FilterFailed, Rank,
                vars, inputs, joining, filtering
  <2>2. Merged' = Merged /\ ResultsDistinct'
    BY <2>1 DEF Merged, ResultsDistinct, MergeInvariant
  <2>3. QED
    BY <2>1, <2>2, MergeFrame DEF MergeInvariant
<1>6. QED
  BY <1>1, <1>2, <1>3, <1>4, <1>5 DEF Next, Aggregate

LEMMA MergeInit == Init => MergeInvariant
BY DEF Init, MergeInvariant, ResultsDistinct, DistinctAcross, DistinctUrls,
       Merged, Members

LEMMA MergeAlways == Spec => []MergeInvariant
BY TypeInit, TypeStep, MergeInit, MergeStep, PTL DEF Spec

\* No url is shown twice, in any interleaving and through both filters.
THEOREM NoUrlTwice == Spec => []ResultsDistinct
<1>1. MergeInvariant => ResultsDistinct
  BY DEF MergeInvariant
<1>2. QED
  BY <1>1, MergeAlways, PTL

\* The first answer with a url is the one that counts, and none is lost.
THEOREM FirstAnswerCounts == Spec => []FirstArrivalKept
<1>1. MergeInvariant => FirstArrivalKept
  <2> SUFFICES ASSUME MergeInvariant
               PROVE  FirstArrivalKept
    OBVIOUS
  <2>1. ASSUME NEW e \in Merged
        PROVE  ArrivedFirst(e)
    BY DEF MergeInvariant, ArrivedAlone, ArrivedFirst, Scraped
  <2>2. ASSUME pc # "joining", NEW k \in DOMAIN joined
        PROVE  ReportedBy(k) \subseteq UrlsOf(Merged)
    <3>1. UrlsOf(Members(response)) = {}
      BY <2>2 DEF MergeInvariant, Members, UrlsOf
    <3> QED
      BY <3>1 DEF MergeInvariant
  <2> QED
    BY <2>1, <2>2 DEF FirstArrivalKept, UrlsOf
<1>2. QED
  BY <1>1, MergeAlways, PTL
-----------------------------------------------------------------------------
(* The two calls of filter_with_lists.                                     *)

BlockProofs == INSTANCE FilterListsProofs WITH
                   map_to_be_filtered <- result_map, resultant_map <- blacklist_map,
                   file <- blocklist
AllowProofs == INSTANCE FilterListsProofs WITH
                   map_to_be_filtered <- blacklist_map, resultant_map <- result_map,
                   file <- allowlist

LEMMA FilterTypes == TypeOK => BlockProofs!FilterTypes /\ AllowProofs!FilterTypes
<1>1. /\ BlockProofs!Entry = Entry /\ BlockProofs!ListFile = ListFile
      /\ AllowProofs!Entry = Entry /\ AllowProofs!ListFile = ListFile
  BY DEF Entry, ListFile, Line, BlockProofs!Entry, BlockProofs!ListFile, BlockProofs!Line,
         AllowProofs!Entry, AllowProofs!ListFile, AllowProofs!Line
<1>2. QED
  BY <1>1 DEF TypeOK, BlockProofs!FilterTypes, AllowProofs!FilterTypes

LEMMA SameBlockStep == Block!FilterStep <=> BlockProofs!FilterStep
<1>1. Block!Scanning <=> BlockProofs!Scanning
  BY DEF Block!Scanning, BlockProofs!Scanning
<1>2. Block!Open <=> BlockProofs!Open
  BY DEF Block!Open, BlockProofs!Open
<1>3. Block!NextLine <=> BlockProofs!NextLine
  BY <1>1 DEF Block!NextLine, BlockProofs!NextLine
<1>4. Block!EndOfFile <=> BlockProofs!EndOfFile
  BY <1>1 DEF Block!EndOfFile, BlockProofs!EndOfFile
<1>5. Block!MoveEntry <=> BlockProofs!MoveEntry
  BY <1>1 DEF Block!MoveEntry, BlockProofs!MoveEntry, Block!Matches, BlockProofs!Matches,
              Block!SwapRemove, BlockProofs!SwapRemove
<1>6. Block!KeepEntry <=> BlockProofs!KeepEntry
  BY <1>1 DEF Block!KeepEntry, BlockProofs!KeepEntry, Block!Matches, BlockProofs!Matches
<1>7. QED
  BY <1>2, <1>3, <1>4, <1>5, <1>6 DEF Block!FilterStep, BlockProofs!FilterStep

LEMMA SameAllowStep == Allow!FilterStep <=> AllowProofs!FilterStep
<1>1. Allow!Scanning <=> AllowProofs!Scanning
  BY DEF Allow!Scanning, AllowProofs!Scanning
<1>2. Allow!Open <=> AllowProofs!Open
  BY DEF Allow!Open, AllowProofs!Open
<1>3. Allow!NextLine <=> AllowProofs!NextLine
  BY <1>1 DEF Allow!NextLine, AllowProofs!NextLine
<1>4. Allow!EndOfFile <=> AllowProofs!EndOfFile
  BY <1>1 DEF Allow!EndOfFile, AllowProofs!EndOfFile
<1>5. Allow!MoveEntry <=> AllowProofs!MoveEntry
  BY <1>1 DEF Allow!MoveEntry, AllowProofs!MoveEntry, Allow!Matches, AllowProofs!Matches,
              Allow!SwapRemove, AllowProofs!SwapRemove
<1>6. Allow!KeepEntry <=> AllowProofs!KeepEntry
  BY <1>1 DEF Allow!KeepEntry, AllowProofs!KeepEntry, Allow!Matches, AllowProofs!Matches
<1>7. QED
  BY <1>2, <1>3, <1>4, <1>5, <1>6 DEF Allow!FilterStep, AllowProofs!FilterStep

\* A call begins with nothing scanned.
LEMMA ScansBegin ==
    ASSUME line = 0, status = "opening", blocklist \in ListFile, allowlist \in ListFile
    PROVE  BlockProofs!ScanInvariant /\ AllowProofs!ScanInvariant
<1>1. Len(blocklist.lines) \in Nat /\ Len(allowlist.lines) \in Nat
  BY DEF ListFile
<1>2. QED
  BY <1>1 DEF BlockProofs!ScanInvariant, AllowProofs!ScanInvariant

\* swap_remove brings no new entry in; the one it takes out is the one pushed.
LEMMA EntriesMove ==
    ASSUME NEW v \in Seq(Entry), NEW w \in Seq(Entry), NEW i \in 1 .. Len(v)
    PROVE  /\ v[i] \in Members(v)
           /\ Members(SwapRemove(v, i)) \subseteq Members(v)
           /\ Members(Append(w, v[i])) = Members(w) \cup {v[i]}
<1>1. v[i] \in Entry /\ i \in DOMAIN v
  OBVIOUS
<1>2. Len(v) \in Nat /\ DOMAIN v = 1 .. Len(v) /\ Len(v) \in DOMAIN v
  OBVIOUS
<1>3. \A j \in 1 .. Len(v) - 1 : j \in DOMAIN v
  BY <1>2
<1>4. ASSUME NEW j \in 1 .. Len(v) - 1
      PROVE  SwapRemove(v, i)[j] \in Members(v)
  <2>1. SwapRemove(v, i)[j] = v[Len(v)] \/ SwapRemove(v, i)[j] = v[j]
    BY SwapRemoveType
  <2>2. v[Len(v)] \in Members(v) /\ v[j] \in Members(v)
    BY <1>2, <1>3 DEF Members
  <2>3. QED
    BY <2>1, <2>2
<1>5. DOMAIN SwapRemove(v, i) = 1 .. Len(v) - 1
  BY SwapRemoveType
<1>6. Members(SwapRemove(v, i)) \subseteq Members(v)
  BY <1>4, <1>5 DEF Members
<1>7. v[i] \in Members(v)
  BY <1>1 DEF Members
<1>8. QED
  BY <1>1, <1>6, <1>7, AppendMembers

\* The block list's call moves out entries that it lists, and when it succeeds it
\* has left none of those in.
LEMMA BlockScan ==
    ASSUME TypeOK, BlockProofs!ScanInvariant, Block!FilterStep, UNCHANGED blocklist
    PROVE  /\ BlockProofs!ScanInvariant'
           /\ \A e \in Members(blacklist_map') : e \in Members(blacklist_map) \/ Listed(blocklist, e)
<1>1. BlockProofs!ScanInvariant'
  BY FilterTypes, SameBlockStep, BlockProofs!ScanStep
<1>2. CASE Block!MoveEntry
  <2>1. /\ idx \in 1 .. Len(result_map) /\ line > 0
        /\ Matches(blocklist.lines[line], result_map[idx])
        /\ blacklist_map' = Append(blacklist_map, result_map[idx])
    BY <1>2 DEF TypeOK, Block!MoveEntry, Block!Scanning, Block!Matches, Matches
  <2>2. line \in DOMAIN blocklist.lines
    BY <2>1 DEF TypeOK, ListFile, BlockProofs!ScanInvariant
  <2>3. Listed(blocklist, result_map[idx])
    BY <2>1, <2>2 DEF Listed
  <2>4. Members(blacklist_map') = Members(blacklist_map) \cup {result_map[idx]}
    BY <2>1, EntriesMove DEF TypeOK
  <2>5. QED
    BY <1>1, <2>3, <2>4
<1>3. CASE Block!Open \/ Block!NextLine \/ Block!EndOfFile \/ Block!KeepEntry
  <2>1. blacklist_map' = blacklist_map
    BY <1>3 DEF Block!Open, Block!NextLine, Block!EndOfFile, Block!KeepEntry
  <2>2. QED
    BY <1>1, <2>1
<1>4. QED
  BY <1>2, <1>3 DEF Block!FilterStep

LEMMA BlockEnds ==
    ASSUME TypeOK, BlockProofs!ScanInvariant, status = "done"
    PROVE  \A e \in Members(result_map) : ~Listed(blocklist, e)
<1>1. BlockProofs!NoMatchKept
  BY FilterTypes, BlockProofs!ScanRemoves
<1>2. DOMAIN blocklist.lines = 1 .. Len(blocklist.lines)
  BY DEF TypeOK, ListFile
<1>3. QED
  BY <1>1, <1>2 DEF Listed, Matches, Members,
     BlockProofs!NoMatchKept, BlockProofs!Matches, BlockProofs!Members

\* The allow list's call moves back entries that it lists, and when it succeeds it
\* has left none of those out.
LEMMA AllowScan ==
    ASSUME TypeOK, AllowProofs!ScanInvariant, Allow!FilterStep, UNCHANGED allowlist
    PROVE  /\ AllowProofs!ScanInvariant'
           /\ Members(blacklist_map') \subseteq Members(blacklist_map)
           /\ \A e \in Members(result_map') : e \in Members(result_map) \/ Listed(allowlist, e)
<1>1. AllowProofs!ScanInvariant'
  BY FilterTypes, SameAllowStep, AllowProofs!ScanStep
<1>2. CASE Allow!MoveEntry
  <2>1. /\ idx \in 1 .. Len(blacklist_map) /\ line > 0
        /\ Matches(allowlist.lines[line], blacklist_map[idx])
        /\ blacklist_map' = SwapRemove(blacklist_map, idx)
        /\ result_map' = Append(result_map, blacklist_map[idx])
    BY <1>2 DEF TypeOK, Allow!MoveEntry, Allow!Scanning, Allow!Matches, Matches,
                Allow!SwapRemove, SwapRemove
  <2>2. line \in DOMAIN allowlist.lines
    BY <2>1 DEF TypeOK, ListFile, AllowProofs!ScanInvariant
  <2>3. Listed(allowlist, blacklist_map[idx])
    BY <2>1, <2>2 DEF Listed
  <2>4. /\ Members(result_map') = Members(result_map) \cup {blacklist_map[idx]}
        /\ Members(blacklist_map') \subseteq Members(blacklist_map)
    BY <2>1, EntriesMove DEF TypeOK
  <2>5. QED
    BY <1>1, <2>3, <2>4
<1>3. CASE Allow!Open \/ Allow!NextLine \/ Allow!EndOfFile \/ Allow!KeepEntry
  <2>1. blacklist_map' = blacklist_map /\ result_map' = result_map
    BY <1>3 DEF Allow!Open, Allow!NextLine, Allow!EndOfFile, Allow!KeepEntry
  <2>2. QED
    BY <1>1, <2>1
<1>4. QED
  BY <1>2, <1>3 DEF Allow!FilterStep

LEMMA AllowEnds ==
    ASSUME TypeOK, AllowProofs!ScanInvariant, status = "done"
    PROVE  \A e \in Members(blacklist_map) : ~Listed(allowlist, e)
<1>1. AllowProofs!NoMatchKept
  BY FilterTypes, AllowProofs!ScanRemoves
<1>2. DOMAIN allowlist.lines = 1 .. Len(allowlist.lines)
  BY DEF TypeOK, ListFile
<1>3. QED
  BY <1>1, <1>2 DEF Listed, Matches, Members,
     AllowProofs!NoMatchKept, AllowProofs!Matches, AllowProofs!Members

\* What holds of the two vectors before, during and after the two calls.
Blocked == \A e \in Members(blacklist_map) : Listed(blocklist, e)
NotAllowed == \A e \in Members(blacklist_map) : ~Listed(allowlist, e)
Showable == \A e \in Members(result_map) : ~Listed(blocklist, e) \/ Listed(allowlist, e)

FilteringInvariant ==
    /\ pc \in {"spawning", "joining"} => line = 0 /\ idx = 1 /\ status = "opening"
    /\ pc \in {"spawning", "joining"} => blacklist_map = <<>>
    /\ pc \in {"blocking", "allowing"} => safe_search >= 3
    /\ pc = "blocking" => BlockProofs!ScanInvariant
    /\ pc = "allowing" => AllowProofs!ScanInvariant
    /\ Blocked
    /\ pc = "allowing" => Showable
    /\ pc \in {"ranking", "done"} =>
         IF safe_search < 3 THEN blacklist_map = <<>> ELSE NotAllowed /\ Showable
    /\ pc = "done" => Members(results) = Members(result_map)

\* A step that leaves vectors and filters alone and stays in its phase.
LEMMA FilteringFrame ==
    ASSUME FilteringInvariant, UNCHANGED <<inputs, filtering, results>>,
           pc' = pc \/ (pc = "spawning" /\ pc' = "joining") \/ pc' = "failed"
    PROVE  FilteringInvariant'
<1>1. UNCHANGED <<safe_search, blocklist, allowlist, result_map, blacklist_map, line, idx,
                  status, results>>
  BY DEF inputs, filtering
<1>2. BlockProofs!ScanInvariant => BlockProofs!ScanInvariant'
  BY <1>1 DEF BlockProofs!ScanInvariant
<1>3. AllowProofs!ScanInvariant => AllowProofs!ScanInvariant'
  BY <1>1 DEF AllowProofs!ScanInvariant
<1>4. (Blocked => Blocked') /\ (NotAllowed => NotAllowed') /\ (Showable => Showable')
  BY <1>1 DEF Blocked, NotAllowed, Showable
<1>5. QED
  BY <1>1, <1>2, <1>3, <1>4 DEF FilteringInvariant

\* Joining ends: the filters begin, or the level asks for none.
LEMMA JoiningEnds ==
    ASSUME TypeOK, FilteringInvariant, pc = "joining", pc' = AfterJoin,
           UNCHANGED <<inputs, filtering, results>>
    PROVE  FilteringInvariant'
<1>1. UNCHANGED <<safe_search, blocklist, allowlist, result_map, blacklist_map, line, idx,
                  status, results>>
  BY DEF inputs, filtering
<1>2. line' = 0 /\ status' = "opening" /\ blacklist_map' = <<>>
  BY <1>1 DEF FilteringInvariant
<1>3. BlockProofs!ScanInvariant
  BY ScansBegin DEF TypeOK, FilteringInvariant
<1>4. BlockProofs!ScanInvariant'
  BY <1>1, <1>3 DEF BlockProofs!ScanInvariant
<1>5. Blocked'
  BY <1>2 DEF Blocked, Members
<1>6. \/ pc' = "blocking" /\ safe_search >= 3
      \/ pc' = "ranking" /\ safe_search < 3
  <2>1. safe_search >= 3 \/ safe_search < 3
    BY DEF TypeOK
  <2>2. (safe_search >= 3 => pc' = "blocking") /\ (~(safe_search >= 3) => pc' = "ranking")
    BY DEF AfterJoin
  <2>3. QED
    BY <2>1, <2>2
<1>7. QED
  BY <1>1, <1>2, <1>4, <1>5, <1>6 DEF FilteringInvariant

LEMMA FilteringStep ==
    ASSUME TypeOK, TypeOK', FilteringInvariant, [Next]_vars
    PROVE  FilteringInvariant'
<1>1. CASE MergeResult
  <2>1. /\ pc = "joining" /\ pc' = "joining"
        /\ UNCHANGED <<safe_search, blocklist, allowlist, blacklist_map, line, idx, status>>
    BY <1>1 DEF MergeResult, inputs
  <2>2. Blocked'
    BY <2>1 DEF FilteringInvariant, Blocked
  <2>3. QED
    BY <2>1, <2>2 DEF FilteringInvariant
<1>2. CASE JoinSetEmpty \/ \E i \in DOMAIN handlers : JoinPanicked(i)
  BY <1>2, JoiningEnds DEF JoinSetEmpty, JoinPanicked
<1>3. CASE FilterByBlocklist
  <2>1. /\ pc = "blocking" /\ pc' = "blocking" /\ Block!FilterStep
        /\ UNCHANGED <<safe_search, blocklist, allowlist>>
    BY <1>3 DEF FilterByBlocklist, inputs
  <2>2. /\ BlockProofs!ScanInvariant'
        /\ \A e \in Members(blacklist_map') : e \in Members(blacklist_map) \/ Listed(blocklist, e)
    BY <2>1, BlockScan DEF FilteringInvariant
  <2>3. Blocked'
    BY <2>1, <2>2 DEF FilteringInvariant, Blocked
  <2>4. QED
    BY <2>1, <2>2, <2>3 DEF FilteringInvariant
<1>4. CASE BlocklistApplied
  <2>1. /\ pc = "blocking" /\ pc' = "allowing" /\ status = "done"
        /\ line' = 0 /\ status' = "opening"
        /\ UNCHANGED <<safe_search, blocklist, allowlist, result_map, blacklist_map>>
    BY <1>4 DEF BlocklistApplied, inputs
  <2>2. \A e \in Members(result_map) : ~Listed(blocklist, e)
    BY <2>1, BlockEnds DEF FilteringInvariant
  <2>3. Showable' /\ Blocked'
    BY <2>1, <2>2 DEF Showable, FilteringInvariant, Blocked
  <2>4. AllowProofs!ScanInvariant'
    <3>1. Len(allowlist'.lines) \in Nat
      BY DEF TypeOK, ListFile
    <3>2. QED
      BY <2>1, <3>1 DEF AllowProofs!ScanInvariant
  <2>5. QED
    BY <2>1, <2>3, <2>4 DEF FilteringInvariant
<1>5. CASE FilterByAllowlist
  <2>1. /\ pc = "allowing" /\ pc' = "allowing" /\ Allow!FilterStep
        /\ UNCHANGED <<safe_search, blocklist, allowlist>>
    BY <1>5 DEF FilterByAllowlist, inputs
  <2>2. /\ AllowProofs!ScanInvariant'
        /\ Members(blacklist_map') \subseteq Members(blacklist_map)
        /\ \A e \in Members(result_map') : e \in Members(result_map) \/ Listed(allowlist, e)
    BY <2>1, AllowScan DEF FilteringInvariant
  <2>3. Blocked' /\ Showable'
    BY <2>1, <2>2 DEF FilteringInvariant, Blocked, Showable
  <2>4. QED
    BY <2>1, <2>2, <2>3 DEF FilteringInvariant
<1>6. CASE AllowlistApplied
  <2>1. /\ pc = "allowing" /\ pc' = "ranking" /\ status = "done"
        /\ UNCHANGED <<safe_search, blocklist, allowlist, result_map, blacklist_map>>
    BY <1>6 DEF AllowlistApplied, inputs, filtering
  <2>2. \A e \in Members(blacklist_map) : ~Listed(allowlist, e)
    BY <2>1, AllowEnds DEF FilteringInvariant
  <2>3. NotAllowed' /\ Showable' /\ Blocked'
    BY <2>1, <2>2 DEF NotAllowed, FilteringInvariant, Showable, Blocked
  <2>4. ~(safe_search < 3)
    BY <2>1 DEF FilteringInvariant, TypeOK
  <2>5. QED
    BY <2>1, <2>3, <2>4 DEF FilteringInvariant
<1>7. CASE Rank
  <2>1. /\ pc = "ranking" /\ pc' = "done" /\ results' \in Ranked(result_map)
        /\ UNCHANGED <<safe_search, blocklist, allowlist, result_map, blacklist_map>>
    BY <1>7 DEF Rank, inputs, filtering
  <2>2. Members(results') = Members(result_map')
    BY <2>1 DEF Ranked
  <2>3. Blocked' /\ (NotAllowed => NotAllowed') /\ (Showable => Showable')
    BY <2>1 DEF FilteringInvariant, Blocked, NotAllowed, Showable
  <2>4. QED
    BY <2>1, <2>2, <2>3 DEF FilteringInvariant
<1>8. CASE SpawnTask \/ AllSpawned \/ FilterFailed \/ UNCHANGED vars
           \/ SomeTaskEnds \/ \E i \in DOMAIN handlers : JoinNext(i)
  <2>1. /\ UNCHANGED <<inputs, filtering, results>>
        /\ pc' = pc \/ (pc = "spawning" /\ pc' = "joining") \/ pc' = "failed"
    BY <1>8 DEF SpawnTask, AllSpawned, FilterFailed, SomeTaskEnds, TaskEnds, JoinNext, vars
  <2>2. QED
    BY <2>1, FilteringFrame
<1>9. QED
  BY <1>1, <1>2, <1>3, <1>4, <1>5, <1>6, <1>7, <1>8 DEF Next, Aggregate

LEMMA FilteringInit == Init => FilteringInvariant
BY DEF Init, FilteringInvariant, Blocked, Members

\* What is shown is what the lists leave, whatever they and the results are.
THEOREM ResultsAreSafe == Spec => []SafeResults
<1>1. TypeOK /\ FilteringInvariant => SafeResults
  <2> SUFFICES ASSUME TypeOK, FilteringInvariant, pc = "done", NEW e \in Merged
               PROVE  e \in Members(results)
                        <=> safe_search < 3 \/ ~Listed(blocklist, e) \/ Listed(allowlist, e)
    BY DEF SafeResults
  <2>1. Members(results) = Members(result_map)
    BY DEF FilteringInvariant
  <2>2. CASE safe_search < 3
    <3>1. Members(blacklist_map) = {}
      BY <2>2 DEF FilteringInvariant, Members
    <3>2. QED
      BY <2>1, <2>2, <3>1 DEF Merged
  <2>3. CASE ~(safe_search < 3)
    <3>1. Blocked /\ NotAllowed /\ Showable
      BY <2>3 DEF FilteringInvariant
    <3>2. QED
      BY <2>1, <2>3, <3>1 DEF Merged, Blocked, NotAllowed, Showable
  <2>4. QED
    BY <2>2, <2>3
<1>2. QED
  BY <1>1, TypeInit, TypeStep, FilteringInit, FilteringStep, PTL DEF Spec

-----------------------------------------------------------------------------
(* Progress.                                                               *)

\* The scan under way is within the bounds of its vector.
BoundsInvariant ==
    /\ pc = "blocking" => BlockProofs!ScanInBounds
    /\ pc = "allowing" => AllowProofs!ScanInBounds

CallInvariant == TypeOK /\ NamesInvariant /\ FilteringInvariant

LEMMA SameStepsLeft ==
    /\ Block!StepsLeft = BlockProofs!StepsLeft
    /\ Allow!StepsLeft = AllowProofs!StepsLeft
<1>1. /\ Block!EntriesAhead = BlockProofs!EntriesAhead
      /\ Allow!EntriesAhead = AllowProofs!EntriesAhead
  BY DEF Block!EntriesAhead, BlockProofs!EntriesAhead, Allow!EntriesAhead, AllowProofs!EntriesAhead
<1>2. QED
  BY <1>1 DEF Block!StepsLeft, BlockProofs!StepsLeft, Allow!StepsLeft, AllowProofs!StepsLeft

\* What is left of a call in each phase.
PhaseTable ==
    /\ pc = "spawning" => /\ PhasesLeft = 5 /\ TasksLeft = Len(handlers) - Len(joined)
                          /\ TurnsLeft = Len(handlers) - Len(names)
    /\ pc = "joining" => /\ PhasesLeft = 4 /\ TasksLeft = Len(handlers) - Len(joined)
                         /\ TurnsLeft = Len(response)
    /\ pc = "blocking" => PhasesLeft = 3 /\ TasksLeft = 0 /\ TurnsLeft = BlockProofs!StepsLeft
    /\ pc = "allowing" => PhasesLeft = 2 /\ TasksLeft = 0 /\ TurnsLeft = AllowProofs!StepsLeft
    /\ pc = "ranking" => PhasesLeft = 1 /\ TasksLeft = 0 /\ TurnsLeft = 0
    /\ pc \in {"done", "failed"} => PhasesLeft = 0 /\ TasksLeft = 0 /\ TurnsLeft = 0

LEMMA LeftInPhase == PhaseTable
<1>1. /\ pc = "spawning" => PhasesLeft = 5
      /\ pc = "joining" => PhasesLeft = 4
      /\ pc = "blocking" => PhasesLeft = 3
      /\ pc = "allowing" => PhasesLeft = 2
      /\ pc = "ranking" => PhasesLeft = 1
      /\ pc \in {"done", "failed"} => PhasesLeft = 0
  BY DEF PhasesLeft
<1>2. /\ PhasesLeft \in {4, 5} => TasksLeft = Len(handlers) - Len(joined)
      /\ PhasesLeft \in 0 .. 3 => TasksLeft = 0
  BY DEF TasksLeft
<1>3. /\ pc = "spawning" => TurnsLeft = Len(handlers) - Len(names)
      /\ pc = "joining" => TurnsLeft = Len(response)
      /\ pc = "blocking" => TurnsLeft = Block!StepsLeft
      /\ pc = "allowing" => TurnsLeft = Allow!StepsLeft
      /\ pc \in {"ranking", "done", "failed"} => TurnsLeft = 0
  BY DEF TurnsLeft
<1>4. QED
  BY <1>1, <1>2, <1>3, SameStepsLeft DEF PhaseTable

\* It is a triple of numbers.
LEMMA LeftType ==
    ASSUME CallInvariant, BoundsInvariant
    PROVE  PhasesLeft \in 0 .. 5 /\ TasksLeft \in Nat /\ TurnsLeft \in Nat
<1>1. /\ Len(handlers) \in Nat /\ Len(joined) \in Nat /\ Len(names) \in Nat
      /\ Len(response) \in Nat
  BY DEF CallInvariant, TypeOK
<1>2. CASE pc = "spawning"
  BY <1>1, <1>2, LeftInPhase DEF PhaseTable, CallInvariant, NamesInvariant
<1>3. CASE pc = "joining"
  BY <1>1, <1>3, LeftInPhase DEF PhaseTable, CallInvariant, NamesInvariant, NamesCoverTasks
<1>4. CASE pc = "blocking"
  <2>1. BlockProofs!StepsLeft \in Nat
    BY <1>4, FilterTypes, BlockProofs!StepsLeftRunning
       DEF CallInvariant, FilteringInvariant, BoundsInvariant
  <2>2. QED
    BY <1>4, <2>1, LeftInPhase DEF PhaseTable
<1>5. CASE pc = "allowing"
  <2>1. AllowProofs!StepsLeft \in Nat
    BY <1>5, FilterTypes, AllowProofs!StepsLeftRunning
       DEF CallInvariant, FilteringInvariant, BoundsInvariant
  <2>2. QED
    BY <1>5, <2>1, LeftInPhase DEF PhaseTable
<1>6. CASE pc \in {"ranking", "done", "failed"}
  BY <1>6, LeftInPhase DEF PhaseTable
<1>7. QED
  BY <1>2, <1>3, <1>4, <1>5, <1>6 DEF CallInvariant, TypeOK

LEMMA LeftInPhaseNext == PhaseTable'
BY LeftInPhase, PTL

LEMMA FilterTypesNext == TypeOK' => BlockProofs!FilterTypes' /\ AllowProofs!FilterTypes'
BY FilterTypes, PTL

\* Every step of the call is one nearer to its end, the scans stay in bounds, and
\* a task that ends leaves it where it is.
LEMMA CallStepAdvances ==
    ASSUME CallInvariant, BoundsInvariant, CallInvariant', Next
    PROVE  /\ BoundsInvariant'
           /\ IF answer' = answer THEN Nearer
              ELSE UNCHANGED <<PhasesLeft, TasksLeft, TurnsLeft>>
<1>0. /\ PhasesLeft \in 0 .. 5 /\ TasksLeft \in Nat /\ TurnsLeft \in Nat
      /\ Len(handlers) \in Nat /\ Len(joined) \in Nat /\ Len(names) \in Nat
      /\ Len(response) \in Nat /\ answer \in [DOMAIN handlers -> Answer]
  <2>1. PhasesLeft \in 0 .. 5 /\ TasksLeft \in Nat /\ TurnsLeft \in Nat
    BY LeftType
  <2>2. /\ Len(handlers) \in Nat /\ Len(joined) \in Nat /\ Len(names) \in Nat
        /\ Len(response) \in Nat /\ answer \in [DOMAIN handlers -> Answer]
    BY DEF CallInvariant, TypeOK
  <2>3. QED
    BY <2>1, <2>2
<1> USE LeftInPhase, LeftInPhaseNext
<1>1. ASSUME pc \notin {"blocking", "allowing"}, pc' = pc
      PROVE  BoundsInvariant'
  BY <1>1 DEF BoundsInvariant
<1>2. ASSUME line' = 0, idx' = 1
      PROVE  BoundsInvariant'
  BY <1>2 DEF BoundsInvariant, BlockProofs!ScanInBounds, AllowProofs!ScanInBounds,
              BlockProofs!EntriesAhead, AllowProofs!EntriesAhead
<1>3. CASE SpawnTask
  <2>1. /\ pc = "spawning" /\ pc' = "spawning" /\ answer' = answer
        /\ UNCHANGED <<handlers, joined>> /\ names' = Append(names, handlers[Len(names) + 1])
    BY <1>3 DEF SpawnTask, inputs
  <2>2. Len(names') = Len(names) + 1
    BY <2>1 DEF CallInvariant, TypeOK
  <2>3. QED
    BY <1>0, <1>1, <2>1, <2>2 DEF PhaseTable, Nearer
<1>4. CASE AllSpawned
  <2>1. pc = "spawning" /\ pc' = "joining" /\ answer' = answer
    BY <1>4 DEF AllSpawned, joining
  <2>2. QED
    BY <1>0, <2>1 DEF PhaseTable, Nearer, BoundsInvariant
<1>5. ASSUME NEW i \in DOMAIN handlers, JoinNext(i)
      PROVE  BoundsInvariant' /\ answer' = answer /\ Nearer
  <2>1. /\ pc = "joining" /\ pc' = "joining" /\ answer' = answer
        /\ UNCHANGED handlers /\ joined' = Append(joined, i)
    BY <1>5 DEF JoinNext, inputs
  <2>2. Len(joined') = Len(joined) + 1
    BY <2>1 DEF CallInvariant, TypeOK
  <2>3. QED
    BY <1>0, <1>1, <2>1, <2>2 DEF PhaseTable, Nearer
<1>6. CASE MergeResult
  <2>1. /\ pc = "joining" /\ pc' = "joining" /\ answer' = answer
        /\ UNCHANGED <<handlers, joined>> /\ response # <<>> /\ response' = Tail(response)
    BY <1>6 DEF MergeResult, inputs
  <2>2. Len(response') = Len(response) - 1
    BY <2>1 DEF CallInvariant, TypeOK
  <2>3. QED
    BY <1>0, <1>1, <2>1, <2>2 DEF PhaseTable, Nearer
<1>7. CASE JoinSetEmpty \/ \E i \in DOMAIN handlers : JoinPanicked(i)
  <2>1. pc = "joining" /\ pc' = AfterJoin /\ answer' = answer /\ UNCHANGED filtering
    BY <1>7 DEF JoinSetEmpty, JoinPanicked, joining
  <2>2. line' = 0 /\ idx' = 1
    BY <2>1 DEF filtering, CallInvariant, FilteringInvariant
  <2>3. pc' \in {"blocking", "ranking"}
    BY <2>1 DEF AfterJoin
  <2>4. PhasesLeft' < PhasesLeft
    BY <2>1, <2>3 DEF PhaseTable
  <2>5. QED
    BY <1>2, <2>1, <2>2, <2>4 DEF Nearer
<1>8. CASE FilterByBlocklist
  <2>1. /\ pc = "blocking" /\ pc' = "blocking" /\ answer' = answer /\ BlockProofs!FilterStep
    BY <1>8, SameBlockStep DEF FilterByBlocklist, joining
  <2>2. /\ BlockProofs!FilterTypes /\ BlockProofs!ScanInvariant /\ BlockProofs!ScanInBounds
        /\ BlockProofs!FilterTypes' /\ BlockProofs!ScanInvariant'
    BY <2>1, FilterTypes, FilterTypesNext DEF CallInvariant, FilteringInvariant, BoundsInvariant
  <2>3. BlockProofs!ScanInBounds' /\ BlockProofs!StepsLeft' < BlockProofs!StepsLeft
    BY <2>1, <2>2, BlockProofs!FilterStepAdvances
  <2>4. QED
    BY <2>1, <2>3 DEF PhaseTable, Nearer, BoundsInvariant
<1>9. CASE BlocklistApplied
  <2>1. pc = "blocking" /\ pc' = "allowing" /\ answer' = answer /\ line' = 0 /\ idx' = 1
    BY <1>9 DEF BlocklistApplied, joining
  <2>2. QED
    BY <1>2, <2>1 DEF PhaseTable, Nearer
<1>10. CASE FilterByAllowlist
  <2>1. /\ pc = "allowing" /\ pc' = "allowing" /\ answer' = answer /\ AllowProofs!FilterStep
    BY <1>10, SameAllowStep DEF FilterByAllowlist, joining
  <2>2. /\ AllowProofs!FilterTypes /\ AllowProofs!ScanInvariant /\ AllowProofs!ScanInBounds
        /\ AllowProofs!FilterTypes' /\ AllowProofs!ScanInvariant'
    BY <2>1, FilterTypes, FilterTypesNext DEF CallInvariant, FilteringInvariant, BoundsInvariant
  <2>3. AllowProofs!ScanInBounds' /\ AllowProofs!StepsLeft' < AllowProofs!StepsLeft
    BY <2>1, <2>2, AllowProofs!FilterStepAdvances
  <2>4. QED
    BY <2>1, <2>3 DEF PhaseTable, Nearer, BoundsInvariant
<1>11. CASE AllowlistApplied \/ FilterFailed \/ Rank
  <2>1. /\ answer' = answer
        /\ \/ pc = "allowing" /\ pc' = "ranking"
           \/ pc \in {"blocking", "allowing"} /\ pc' = "failed"
           \/ pc = "ranking" /\ pc' = "done"
    BY <1>11 DEF AllowlistApplied, FilterFailed, Rank, joining
  <2>2. PhasesLeft' < PhasesLeft
    BY <2>1 DEF PhaseTable
  <2>3. QED
    BY <2>1, <2>2 DEF Nearer, BoundsInvariant
<1>12. CASE SomeTaskEnds
  <2>1. PICK i \in DOMAIN handlers : TaskEnds(i)
    BY <1>12 DEF SomeTaskEnds
  <2>2. UNCHANGED <<handlers, blocklist, allowlist, joined, names, response, filtering, pc>>
    BY <2>1 DEF TaskEnds, inputs
  <2>3. UNCHANGED <<result_map, blacklist_map, line, idx, status>>
    BY <2>2 DEF filtering
  <2>4. answer' # answer
    <3>1. PICK a \in Answers : answer' = [answer EXCEPT ![i] = a]
      BY <2>1 DEF TaskEnds
    <3>2. answer[i].kind = "none" /\ a.kind # "none" /\ answer'[i] = a
      BY <1>0, <2>1, <3>1, AnswersAssumption DEF TaskEnds
    <3>3. QED
      BY <3>2
  <2>5. /\ BlockProofs!EntriesAhead' = BlockProofs!EntriesAhead
        /\ AllowProofs!EntriesAhead' = AllowProofs!EntriesAhead
    BY <2>2, <2>3 DEF BlockProofs!EntriesAhead, AllowProofs!EntriesAhead
  <2>6. /\ Block!StepsLeft' = Block!StepsLeft /\ Allow!StepsLeft' = Allow!StepsLeft
    BY <2>2, <2>3 DEF Block!StepsLeft, Block!EntriesAhead, Allow!StepsLeft, Allow!EntriesAhead
  <2>7. PhasesLeft' = PhasesLeft
    BY <2>2 DEF PhasesLeft
  <2>8. TasksLeft' = TasksLeft
    BY <2>2, <2>7 DEF TasksLeft
  <2>9. TurnsLeft' = TurnsLeft
    BY <2>2, <2>6 DEF TurnsLeft
  <2>10. BoundsInvariant'
    BY <2>2, <2>3, <2>5 DEF BoundsInvariant, BlockProofs!ScanInBounds, AllowProofs!ScanInBounds
  <2>11. QED
    BY <2>4, <2>7, <2>8, <2>9, <2>10
<1>13. QED
  BY <1>3, <1>4, <1>5, <1>6, <1>7, <1>8, <1>9, <1>10, <1>11, <1>12 DEF Next, Aggregate

\* Every step of the call brings it nearer to its end, for any engines, answers of
\* any length in any order, and any list files.
THEOREM CallIsBounded == Spec => AggregateAdvances
<1>1. Spec => []CallInvariant
  BY TypeInit, TypeStep, FilteringInit, FilteringStep, PTL DEF Spec, CallInvariant
<1>2. Init => BoundsInvariant
  BY DEF Init, BoundsInvariant
<1>3. CallInvariant /\ BoundsInvariant /\ CallInvariant' /\ [Next]_vars => BoundsInvariant'
  <2>1. ASSUME BoundsInvariant, UNCHANGED vars
        PROVE  BoundsInvariant'
    <3>1. UNCHANGED <<pc, result_map, blacklist_map, line, idx>>
      BY <2>1 DEF vars, filtering
    <3>2. QED
      BY <2>1, <3>1 DEF BoundsInvariant, BlockProofs!ScanInBounds, AllowProofs!ScanInBounds,
                        BlockProofs!EntriesAhead, AllowProofs!EntriesAhead
  <2>2. QED
    BY <2>1, CallStepAdvances
<1> DEFINE Numbers == PhasesLeft \in Nat /\ TasksLeft \in Nat /\ TurnsLeft \in Nat
<1>4. CallInvariant /\ BoundsInvariant => Numbers
  BY LeftType
<1>5. CallInvariant /\ BoundsInvariant /\ CallInvariant' /\ Numbers' /\ [Next]_vars
        => [/\ PhasesLeft' \in Nat /\ TasksLeft' \in Nat /\ TurnsLeft' \in Nat
            /\ IF answer' = answer THEN Nearer
               ELSE UNCHANGED <<PhasesLeft, TasksLeft, TurnsLeft>>]_vars
  BY CallStepAdvances
<1> HIDE DEF Numbers
<1>6. QED
  BY <1>1, <1>2, <1>3, <1>4, <1>5, PTL DEF Spec, AggregateAdvances

-----------------------------------------------------------------------------
(* The count of errors.                                                    *)

FailedTasks == {i \in Members(joined) : answer[i].kind = "error"}

\* An error's name was popped from a place of its own, beyond the names that are
\* left: the places at which the names of the errors once were.
PoppedAt(g) ==
    /\ g \in [DOMAIN engine_errors_info -> DOMAIN handlers]
    /\ \A j, k \in DOMAIN engine_errors_info : g[j] = g[k] => j = k
    /\ \A k \in DOMAIN engine_errors_info :
          g[k] > Len(names) /\ handlers[g[k]] = engine_errors_info[k].engine

CountInvariant ==
    /\ Len(names) <= Len(handlers)
    /\ \A j \in 1 .. Len(names) : names[j] = handlers[j]
    /\ pc = "spawning" => joined = <<>> /\ engine_errors_info = <<>>
    /\ Len(engine_errors_info) = Cardinality(FailedTasks)
    /\ \E g : PoppedAt(g)

\* The tasks joined are finitely many.
LEMMA FailedFinite == TypeOK => IsFiniteSet(FailedTasks)
<1> SUFFICES ASSUME TypeOK
             PROVE  IsFiniteSet(FailedTasks)
  OBVIOUS
<1>1. PICK n \in Nat : n = Len(handlers)
  BY DEF TypeOK
<1>2. IsFiniteSet(1 .. n)
  BY FS_Interval
<1>3. FailedTasks \in SUBSET (1 .. n)
  BY <1>1 DEF FailedTasks, Members, TypeOK
<1>4. QED
  BY <1>2, <1>3, FS_Subset

\* A step that neither joins nor spawns.
LEMMA CountFrame ==
    ASSUME TypeOK, CountInvariant,
           UNCHANGED <<handlers, joined, names, engine_errors_info>>,
           \A k \in DOMAIN joined : answer'[joined[k]] = answer[joined[k]],
           pc' = "spawning" => pc = "spawning"
    PROVE  CountInvariant'
<1>1. FailedTasks' = FailedTasks
  BY DEF FailedTasks, Members
<1>2. \A g : PoppedAt(g) => PoppedAt(g)'
  BY DEF PoppedAt
<1>3. QED
  BY <1>1, <1>2 DEF CountInvariant

LEMMA CountJoin ==
    ASSUME TypeOK, NamesInvariant, CountInvariant, NEW i \in DOMAIN handlers, JoinNext(i)
    PROVE  CountInvariant'
<1>1. /\ pc = "joining" /\ pc' = "joining" /\ Unjoined(i) /\ answer[i].kind \in {"ok", "error"}
      /\ joined' = Append(joined, i) /\ names' = ButLast(names)
      /\ UNCHANGED <<handlers, answer>>
  BY DEF JoinNext, inputs
<1>2. PICK p \in Nat \ {0} : p = Len(names)
  BY <1>1, NameForTask
<1>3. /\ names' = SubSeq(names, 1, p - 1) /\ Len(names') = p - 1
      /\ \A j \in 1 .. p - 1 : names'[j] = names[j]
  <2>1. names \in Seq(Engines) /\ names' = SubSeq(names, 1, p - 1)
    BY <1>1, <1>2 DEF ButLast, TypeOK
  <2>2. ASSUME NEW s \in Seq(Engines), NEW n \in Nat \ {0}, n = Len(s)
        PROVE  /\ Len(SubSeq(s, 1, n - 1)) = n - 1
               /\ \A j \in 1 .. n - 1 : SubSeq(s, 1, n - 1)[j] = s[j]
    BY <2>2
  <2>3. QED
    BY <1>2, <2>1, <2>2
<1>4. PICK m \in Nat : m = Len(handlers) /\ DOMAIN handlers = 1 .. m
  <2>1. handlers \in Seq(Engines)
    BY DEF TypeOK
  <2> QED
    BY <2>1
<1>5. p \in 1 .. m /\ LastName = handlers[p]
  BY <1>2, <1>4 DEF CountInvariant, LastName
<1>6. \A j \in 1 .. Len(names') : names'[j] = handlers'[j]
  <2>1. \A j \in 1 .. p - 1 : j \in 1 .. Len(names)
    BY <1>2
  <2>2. QED
    BY <1>1, <1>3, <2>1 DEF CountInvariant
<1>7. Len(names') <= Len(handlers')
  BY <1>1, <1>3, <1>4, <1>5
<1>8. Members(joined') = Members(joined) \cup {i}
  BY <1>1, AppendMembers DEF TypeOK
<1>9. i \notin FailedTasks
  BY <1>1 DEF Unjoined, FailedTasks
<1>10. PICK n \in Nat : n = Len(engine_errors_info) /\ DOMAIN engine_errors_info = 1 .. n
  BY DEF TypeOK
<1>11. PICK g : PoppedAt(g)
  BY DEF CountInvariant
<1>12. CASE answer[i].kind = "ok"
  <2>1. engine_errors_info' = engine_errors_info
    BY <1>12 DEF JoinNext
  <2>2. FailedTasks' = FailedTasks
    BY <1>1, <1>8, <1>12 DEF FailedTasks
  <2>3. PoppedAt(g)'
    <3>1. \A k \in 1 .. n : g[k] \in Nat
      BY <1>4, <1>10, <1>11 DEF PoppedAt
    <3>2. \A k \in 1 .. n : g[k] > p - 1
      BY <1>2, <1>10, <1>11, <3>1 DEF PoppedAt
    <3>3. QED
      BY <1>1, <1>3, <1>10, <1>11, <2>1, <3>2 DEF PoppedAt
  <2>4. QED
    BY <1>1, <1>6, <1>7, <2>1, <2>2, <2>3 DEF CountInvariant
<1>13. CASE answer[i].kind = "error"
  <2> DEFINE info == [engine |-> LastName, error |-> answer[i].error]
             h == [k \in 1 .. n + 1 |-> IF k = n + 1 THEN p ELSE g[k]]
  <2>1. /\ engine_errors_info' = Append(engine_errors_info, info)
        /\ info.engine = handlers[p]
    BY <1>5, <1>13 DEF JoinNext
  <2> HIDE DEF info
  <2>2. /\ DOMAIN engine_errors_info' = 1 .. n + 1 /\ Len(engine_errors_info') = n + 1
        /\ \A k \in 1 .. n : engine_errors_info'[k] = engine_errors_info[k]
        /\ engine_errors_info'[n + 1] = info
    BY <1>10, <2>1 DEF TypeOK
  <2>3. FailedTasks' = FailedTasks \cup {i}
    BY <1>1, <1>8, <1>13 DEF FailedTasks
  <2>4. Cardinality(FailedTasks') = n + 1
    <3>1. Cardinality(FailedTasks) = n
      BY <1>10 DEF CountInvariant
    <3>2. QED
      BY <1>9, <2>3, <3>1, FailedFinite, FS_AddElement
  <2>5. \A k \in 1 .. n : g[k] \in 1 .. m /\ g[k] > p /\ handlers[g[k]] = engine_errors_info[k].engine
    BY <1>2, <1>4, <1>10, <1>11 DEF PoppedAt
  <2>6. \A j, k \in 1 .. n : g[j] = g[k] => j = k
    BY <1>10, <1>11 DEF PoppedAt
  <2>7. h[n + 1] = p /\ \A k \in 1 .. n : h[k] = g[k]
    OBVIOUS
  <2>8. h \in [1 .. n + 1 -> 1 .. m]
    BY <1>5, <2>5
  <2> HIDE DEF h
  <2>9. \A k \in 1 .. n + 1 : k = n + 1 \/ k \in 1 .. n
    OBVIOUS
  <2>10. \A j, k \in 1 .. n + 1 : h[j] = h[k] => j = k
    <3>1. \A k \in 1 .. n : h[k] # p
      BY <2>5, <2>7
    <3>2. QED
      BY <2>6, <2>7, <2>9, <3>1
  <2>11. ASSUME NEW k \in 1 .. n + 1
         PROVE  h[k] > p - 1 /\ handlers[h[k]] = engine_errors_info'[k].engine
    <3>1. CASE k = n + 1
      BY <1>2, <2>1, <2>2, <2>7, <3>1
    <3>2. CASE k \in 1 .. n
      BY <1>2, <2>2, <2>5, <2>7, <3>2
    <3>3. QED
      BY <2>9, <3>1, <3>2
  <2>12. PoppedAt(h)'
    BY <1>1, <1>3, <1>4, <2>2, <2>8, <2>10, <2>11 DEF PoppedAt
  <2>13. QED
    BY <1>1, <1>6, <1>7, <2>2, <2>4, <2>12 DEF CountInvariant
<1>14. QED
  BY <1>1, <1>12, <1>13

LEMMA CountStep ==
    ASSUME TypeOK, NamesInvariant, MergeInvariant, CountInvariant, [Next]_vars
    PROVE  CountInvariant'
<1>1. CASE SpawnTask
  <2>1. /\ pc = "spawning" /\ Len(names) < Len(handlers)
        /\ names' = Append(names, handlers[Len(names) + 1])
        /\ UNCHANGED <<handlers, answer, joined, engine_errors_info, pc>>
    BY <1>1 DEF SpawnTask, inputs
  <2>2. PICK n \in Nat : n = Len(names)
    BY DEF TypeOK
  <2>3. /\ Len(names') = n + 1 /\ names'[n + 1] = handlers[n + 1]
        /\ \A j \in 1 .. n : names'[j] = names[j]
    BY <2>1, <2>2 DEF TypeOK
  <2>4. \A j \in 1 .. n + 1 : names'[j] = handlers'[j]
    <3>1. \A j \in 1 .. n : names[j] = handlers[j]
      BY <2>2 DEF CountInvariant
    <3>2. \A j \in 1 .. n + 1 : j = n + 1 \/ j \in 1 .. n
      OBVIOUS
    <3>3. QED
      BY <2>1, <2>3, <3>1, <3>2
  <2>5. Len(names') <= Len(handlers')
    BY <2>1, <2>2, <2>3 DEF TypeOK
  <2>6. engine_errors_info = <<>> /\ joined = <<>>
    BY <2>1 DEF CountInvariant
  <2>7. \A g : PoppedAt(g) => PoppedAt(g)'
    BY <2>1, <2>6 DEF PoppedAt
  <2>8. FailedTasks' = FailedTasks
    BY <2>1 DEF FailedTasks
  <2>9. QED
    BY <2>1, <2>3, <2>4, <2>5, <2>6, <2>7, <2>8 DEF CountInvariant
<1>2. CASE \E i \in DOMAIN handlers : JoinNext(i)
  BY <1>2, CountJoin
<1>3. CASE SomeTaskEnds
  <2>1. PICK i \in DOMAIN handlers : TaskEnds(i)
    BY <1>3 DEF SomeTaskEnds
  <2>2. /\ answer[i].kind = "none"
        /\ \E a \in Answers : answer' = [answer EXCEPT ![i] = a]
        /\ UNCHANGED <<handlers, joined, names, engine_errors_info, pc>>
    BY <2>1 DEF TaskEnds, inputs
  <2>3. \A k \in DOMAIN joined : joined[k] # i /\ joined[k] \in DOMAIN answer
    BY <2>2 DEF MergeInvariant, TypeOK
  <2>4. \A k \in DOMAIN joined : answer'[joined[k]] = answer[joined[k]]
    BY <2>2, <2>3
  <2>5. QED
    BY <2>2, <2>4, CountFrame
<1>4. CASE \/ AllSpawned \/ MergeResult \/ JoinSetEmpty
           \/ \E i \in DOMAIN handlers : JoinPanicked(i)
           \/ FilterByBlocklist \/ BlocklistApplied \/ FilterByAllowlist
           \/ AllowlistApplied \/ FilterFailed \/ Rank \/ UNCHANGED vars
  <2>1. /\ UNCHANGED <<handlers, joined, names, engine_errors_info, answer>>
        /\ pc' = "spawning" => pc = "spawning"
    BY <1>4 DEF AllSpawned, MergeResult, JoinSetEmpty, JoinPanicked, AfterJoin,
                FilterByBlocklist, BlocklistApplied, FilterByAllowlist, AllowlistApplied,
                FilterFailed, Rank, vars, inputs, joining
  <2>2. QED
    BY <2>1, CountFrame
<1>5. QED
  BY <1>1, <1>2, <1>3, <1>4 DEF Next, Aggregate

LEMMA CountInit == Init => CountInvariant
<1> SUFFICES ASSUME Init
             PROVE  CountInvariant
  OBVIOUS
<1>1. /\ names = <<>> /\ joined = <<>> /\ engine_errors_info = <<>>
      /\ Len(handlers) \in Nat
  BY DEF Init
<1>2. FailedTasks = {}
  BY <1>1 DEF FailedTasks, Members
<1>3. Cardinality(FailedTasks) = 0
  BY <1>2, FS_EmptySet
<1>4. PoppedAt(<<>>)
  BY <1>1 DEF PoppedAt
<1>5. QED
  BY <1>1, <1>3, <1>4 DEF CountInvariant

\* Every failure is reported once, and no engine is blamed more often than it was asked.
THEOREM ErrorsAreCounted == Spec => []ErrorsCounted
<1>1. TypeOK /\ CountInvariant => ErrorsCounted
  <2> SUFFICES ASSUME TypeOK, CountInvariant, NEW n \in Engines
               PROVE  Cardinality({k \in DOMAIN engine_errors_info :
                                     engine_errors_info[k].engine = n})
                        <= Cardinality({i \in DOMAIN handlers : handlers[i] = n})
    BY DEF ErrorsCounted, CountInvariant, FailedTasks
  <2> DEFINE S == {k \in DOMAIN engine_errors_info : engine_errors_info[k].engine = n}
             T == {i \in DOMAIN handlers : handlers[i] = n}
  <2>1. PICK g : PoppedAt(g)
    BY DEF CountInvariant
  <2>2. PICK m \in Nat : DOMAIN handlers = 1 .. m
    BY DEF TypeOK
  <2>3. IsFiniteSet(T)
    <3>1. T \in SUBSET (1 .. m)
      BY <2>2
    <3>2. IsFiniteSet(1 .. m)
      BY FS_Interval
    <3>3. QED
      BY <3>1, <3>2, FS_Subset
  <2> DEFINE f == [k \in S |-> g[k]]
  <2>4. f \in Injection(S, T)
    <3>1. f \in [S -> T]
      BY <2>1 DEF PoppedAt
    <3>2. \A j, k \in S : f[j] = f[k] => j = k
      BY <2>1 DEF PoppedAt
    <3>3. QED
      BY <3>1, <3>2 DEF Injection, IsInjective
  <2> HIDE DEF S, T, f
  <2>5. Cardinality(S) <= Cardinality(T)
    BY <2>3, <2>4, FS_Injection
  <2>6. QED
    BY <2>5 DEF S, T
<1>2. QED
  BY <1>1, TypeInit, TypeStep, MergeAlways, CountInit, CountStep, PTL DEF Spec
=============================================================================
