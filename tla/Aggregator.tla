----------------------------- MODULE Aggregator -----------------------------
(***************************************************************************)
(* One call of aggregate: spawn a task per selected engine, join the tasks *)
(* in the order they finish, merge their results by url, record errors     *)
(* under the name popped from the vector of names, filter the merged       *)
(* results through the block and allow lists when the safe search level    *)
(* asks for it, and rank what is left.                                     *)
(*                                                                         *)
(* The tasks run concurrently with the call; everything else of the call's *)
(* state is local to it.  Filtering is FilterLists, instantiated twice     *)
(* with the two vectors exchanged.                                         *)
(***************************************************************************)
EXTENDS SearchResult, FiniteSets

EngineErrors == {"RequestError", "EmptyResultSet", "UnexpectedError"}
EngineErrorInfo == [engine: Engines, error: EngineErrors]

\* What a task returns: Ok(results), Err(error), or a panic (a JoinError).
Answer == [kind: {"none", "ok", "error", "panic"},
           hits: Seq(Hit), error: EngineErrors]
None == [kind |-> "none", hits |-> <<>>, error |-> "UnexpectedError"]

CONSTANTS
    Answers,    \* what the engines may answer
    Score       \* relevance_score of a result, by url
ASSUME AnswersAssumption == Answers \subseteq {a \in Answer : a.kind # "none"}
ASSUME ScoreAssumption == Score \in [Urls -> Nat]

VARIABLES
    \* The arguments of the call and what it finds on disk; never assigned.
    handlers,           \* upstream_search_engines: the name in each handler
    safe_search,
    blocklist, allowlist,
    scored,             \* the ranking tells results apart (see Rank)
    \* The tasks of the JoinSet.
    answer,             \* what the task of each handler has returned
    joined,             \* the handlers whose task was joined, in that order
    \* The call's local variables.
    pc,
    names,
    response,           \* results of the joined task still to be merged
    result_map,
    blacklist_map,
    engine_errors_info,
    results,
    line, idx, status   \* the running call of filter_with_lists

inputs == <<handlers, safe_search, blocklist, allowlist, scored>>
joining == <<answer, joined, names, response, engine_errors_info>>
filtering == <<result_map, blacklist_map, line, idx, status>>
vars == <<inputs, joining, filtering, pc, results>>

Block == INSTANCE FilterLists WITH
            map_to_be_filtered <- result_map, resultant_map <- blacklist_map,
            file <- blocklist
Allow == INSTANCE FilterLists WITH
            map_to_be_filtered <- blacklist_map, resultant_map <- result_map,
            file <- allowlist

Init ==
    /\ handlers \in Seq(Engines)
    /\ safe_search \in Nat
    /\ blocklist \in ListFile
    /\ allowlist \in ListFile
    /\ scored \in BOOLEAN
    /\ answer = [i \in DOMAIN handlers |-> None]
    /\ joined = <<>>
    /\ pc = "spawning"
    /\ names = <<>>
    /\ response = <<>>
    /\ result_map = <<>>
    /\ blacklist_map = <<>>
    /\ engine_errors_info = <<>>
    /\ results = <<>>
    /\ line = 0 /\ idx = 1 /\ status = "opening"

-----------------------------------------------------------------------------
(* Spawning.                                                               *)

SpawnTask ==
    /\ pc = "spawning"
    /\ Len(names) < Len(handlers)
    /\ names' = Append(names, handlers[Len(names) + 1])
    /\ UNCHANGED <<inputs, answer, joined, response, engine_errors_info,
                   filtering, pc, results>>

AllSpawned ==
    /\ pc = "spawning"
    /\ Len(names) = Len(handlers)
    /\ pc' = "joining"
    /\ UNCHANGED <<inputs, joining, filtering, results>>

\* A spawned task returns: the engine answered, timed out or could not be
\* parsed, or its code panicked.  When aggregate returns, the JoinSet is
\* dropped and the tasks still in it are aborted.
TaskEnds(i) ==
    /\ pc \notin {"done", "failed"}
    /\ pc = "spawning" => i <= Len(names)
    /\ answer[i].kind = "none"
    /\ \E a \in Answers : answer' = [answer EXCEPT ![i] = a]
    /\ UNCHANGED <<inputs, joined, names, response, engine_errors_info,
                   filtering, pc, results>>

-----------------------------------------------------------------------------
(* Joining.                                                                *)

Unjoined(i) == i \notin Members(joined)

LastName == names[Len(names)]
ButLast(s) == SubSeq(s, 1, Len(s) - 1)

\* Mutants of JoinNext: the name is looked at but not popped; it is popped
\* only when there is an error to report; or it is taken from the front.
JoinNextWithoutPop(i) ==
    /\ pc = "joining" /\ response = <<>> /\ Unjoined(i)
    /\ answer[i].kind \in {"ok", "error"}
    /\ joined' = Append(joined, i)
    /\ names' = IF Len(joined) + 1 = Len(handlers) THEN <<>> ELSE names
    /\ IF answer[i].kind = "ok"
         THEN /\ response' = [k \in DOMAIN answer[i].hits |->
                                Scraped(answer[i].hits[k], handlers[i])]
              /\ UNCHANGED engine_errors_info
         ELSE /\ engine_errors_info' = Append(engine_errors_info,
                    [engine |-> LastName, error |-> answer[i].error])
              /\ UNCHANGED response
    /\ UNCHANGED <<inputs, answer, filtering, pc, results>>
JoinNextPopsOnError(i) ==
    /\ pc = "joining" /\ response = <<>> /\ Unjoined(i)
    /\ answer[i].kind \in {"ok", "error"}
    /\ joined' = Append(joined, i)
    /\ IF answer[i].kind = "ok"
         THEN /\ response' = [k \in DOMAIN answer[i].hits |->
                                Scraped(answer[i].hits[k], handlers[i])]
              /\ UNCHANGED <<names, engine_errors_info>>
         ELSE /\ engine_errors_info' = Append(engine_errors_info,
                    [engine |-> LastName, error |-> answer[i].error])
              /\ names' = ButLast(names)
              /\ UNCHANGED response
    /\ UNCHANGED <<inputs, answer, filtering, pc, results>>
JoinNextPopsFirst(i) ==
    /\ pc = "joining" /\ response = <<>> /\ Unjoined(i)
    /\ answer[i].kind \in {"ok", "error"}
    /\ joined' = Append(joined, i)
    /\ names' = Tail(names)
    /\ IF answer[i].kind = "ok"
         THEN /\ response' = [k \in DOMAIN answer[i].hits |->
                                Scraped(answer[i].hits[k], handlers[i])]
              /\ UNCHANGED engine_errors_info
         ELSE /\ engine_errors_info' = Append(engine_errors_info,
                    [engine |-> Head(names), error |-> answer[i].error])
              /\ UNCHANGED response
    /\ UNCHANGED <<inputs, answer, filtering, pc, results>>

\* join_next yields some finished task.  Its name is taken from the end of the
\* vector of names, whichever task it is.
JoinNext(i) ==
    /\ pc = "joining"
    /\ response = <<>>
    /\ Unjoined(i)
    /\ answer[i].kind \in {"ok", "error"}
    /\ joined' = Append(joined, i)
    /\ names' = ButLast(names)
    /\ IF answer[i].kind = "ok"
         THEN /\ response' = [k \in DOMAIN answer[i].hits |->
                                Scraped(answer[i].hits[k], handlers[i])]
              /\ UNCHANGED engine_errors_info
         ELSE /\ engine_errors_info' = Append(engine_errors_info,
                    [engine |-> LastName, error |-> answer[i].error])
              /\ UNCHANGED response
    /\ UNCHANGED <<inputs, answer, filtering, pc, results>>

\* Mutants of MergeResult: push without looking for the url; the later
\* arrival replaces the earlier one.
MergeResultAlways ==
    /\ pc = "joining" /\ response # <<>>
    /\ response' = Tail(response)
    /\ result_map' = Append(result_map, Head(response))
    /\ UNCHANGED <<inputs, answer, joined, names, engine_errors_info,
                   blacklist_map, line, idx, status, pc, results>>
MergeResultLatest ==
    /\ pc = "joining" /\ response # <<>>
    /\ response' = Tail(response)
    /\ result_map' =
         IF \E e \in Members(result_map) : e.url = Head(response).url
           THEN [k \in DOMAIN result_map |->
                   IF result_map[k].url = Head(response).url
                     THEN Head(response) ELSE result_map[k]]
           ELSE Append(result_map, Head(response))
    /\ UNCHANGED <<inputs, answer, joined, names, engine_errors_info,
                   blacklist_map, line, idx, status, pc, results>>

\* One turn of the loop over the results of a task.  When the url is known
\* already, add_engines is called on a clone of the entry that is then
\* dropped, so the map stays as it is.
MergeResult ==
    /\ pc = "joining"
    /\ response # <<>>
    /\ response' = Tail(response)
    /\ result_map' = IF \E e \in Members(result_map) : e.url = Head(response).url
                       THEN result_map
                       ELSE Append(result_map, Head(response))
    /\ UNCHANGED <<inputs, answer, joined, names, engine_errors_info,
                   blacklist_map, line, idx, status, pc, results>>

AfterJoin == IF safe_search >= 3 THEN "blocking" ELSE "ranking"

\* Mutant of JoinPanicked: a panicked task is passed over but stays in the set.
JoinPanickedIgnored(i) ==
    /\ pc = "joining" /\ response = <<>> /\ Unjoined(i)
    /\ answer[i].kind = "panic"
    /\ UNCHANGED vars

\* `while let Some(Ok(response))` leaves the loop at the first JoinError, with
\* the tasks that have not been joined yet still in the set.
JoinPanicked(i) ==
    /\ pc = "joining"
    /\ response = <<>>
    /\ Unjoined(i)
    /\ answer[i].kind = "panic"
    /\ pc' = AfterJoin
    /\ UNCHANGED <<inputs, joining, filtering, results>>

JoinSetEmpty ==
    /\ pc = "joining"
    /\ response = <<>>
    /\ \A i \in DOMAIN handlers : ~Unjoined(i)
    /\ pc' = AfterJoin
    /\ UNCHANGED <<inputs, joining, filtering, results>>

-----------------------------------------------------------------------------
(* Filtering and ranking.                                                  *)

FilterByBlocklist ==
    /\ pc = "blocking"
    /\ Block!FilterStep
    /\ UNCHANGED <<inputs, joining, pc, results>>

\* Mutant of BlocklistApplied: the allow list is never consulted.
BlocklistAppliedOnly ==
    /\ pc = "blocking" /\ status = "done"
    /\ pc' = "ranking"
    /\ line' = 0 /\ idx' = 1 /\ status' = "opening"
    /\ UNCHANGED <<inputs, joining, result_map, blacklist_map, results>>

BlocklistApplied ==
    /\ pc = "blocking"
    /\ status = "done"
    /\ pc' = "allowing"
    /\ line' = 0 /\ idx' = 1 /\ status' = "opening"
    /\ UNCHANGED <<inputs, joining, result_map, blacklist_map, results>>

FilterByAllowlist ==
    /\ pc = "allowing"
    /\ Allow!FilterStep
    /\ UNCHANGED <<inputs, joining, pc, results>>

AllowlistApplied ==
    /\ pc = "allowing"
    /\ status = "done"
    /\ pc' = "ranking"
    /\ UNCHANGED <<inputs, joining, filtering, results>>

\* The ? after file_path and filter_with_lists: the whole call returns Err.
FilterFailed ==
    /\ pc \in {"blocking", "allowing"}
    /\ status = "failed"
    /\ pc' = "failed"
    /\ UNCHANGED <<inputs, joining, filtering, results>>

\* The orders an unstable sort by descending relevance_score can leave.  All
\* scores are 0.0 in the api-only build, and all are 0.0 / 0.0 when the query
\* has no word left to score; then the sort may leave any order.
Ranked(vec) ==
    {r \in [1 .. Len(vec) -> Members(vec)] :
        /\ Members(r) = Members(vec)
        /\ scored => \A i, j \in DOMAIN r :
              i < j => Score[r[i].url] >= Score[r[j].url]}

Rank ==
    /\ pc = "ranking"
    /\ results' \in Ranked(result_map)
    /\ pc' = "done"
    /\ UNCHANGED <<inputs, joining, filtering>>

Aggregate ==
    \/ SpawnTask \/ AllSpawned
    \/ \E i \in DOMAIN handlers : JoinNext(i) \/ JoinPanicked(i)
    \/ MergeResult \/ JoinSetEmpty
    \/ FilterByBlocklist \/ BlocklistApplied
    \/ FilterByAllowlist \/ AllowlistApplied \/ FilterFailed
    \/ Rank

SomeTaskEnds == \E i \in DOMAIN handlers : TaskEnds(i)

Next == Aggregate \/ SomeTaskEnds

\* Every request an engine makes carries the client's timeout, so every task
\* ends; the runtime keeps polling the call, so it goes on when it can.
Spec == Init /\ [][Next]_vars /\ WF_vars(Aggregate) /\ WF_vars(SomeTaskEnds)

-----------------------------------------------------------------------------
(* Properties.                                                             *)

\* Types of the call's state.  The names left to pop are always those of the first
\* handlers, one for each, whichever tasks are left to be joined.
TypeOK ==
    /\ handlers \in Seq(Engines)
    /\ safe_search \in Nat
    /\ blocklist \in ListFile /\ allowlist \in ListFile
    /\ scored \in BOOLEAN
    /\ answer \in [DOMAIN handlers -> Answer]
    /\ joined \in Seq(DOMAIN handlers)
    /\ pc \in {"spawning", "joining", "blocking", "allowing", "ranking",
               "done", "failed"}
    /\ names \in Seq(Engines)
    /\ \A k \in DOMAIN names : k \in DOMAIN handlers /\ names[k] = handlers[k]
    /\ response \in Seq(Entry)
    /\ result_map \in Seq(Entry) /\ blacklist_map \in Seq(Entry)
    /\ engine_errors_info \in Seq(EngineErrorInfo)
    /\ results \in Seq(Entry)
    /\ line \in Nat /\ idx \in Nat \ {0}
    /\ status \in {"opening", "scanning", "done", "failed"}

\* However the answers arrive, and wherever the filters have moved results to
\* and back, no url is shown twice ("removes duplicate results", the module's
\* own comment).
ResultsDistinct == DistinctAcross(result_map, blacklist_map)

\* There is a name to pop for every task yet to be joined: names.pop().unwrap()
\* cannot panic, and no name is left over when the set is empty.
NamesCoverTasks ==
    pc = "joining" =>
        /\ Len(names) + Len(joined) = Len(handlers)
        /\ \A i, j \in DOMAIN joined : joined[i] = joined[j] => i = j

\* Every failed task that was joined is reported once, and no engine is blamed
\* for more failures than it was asked for answers (the names themselves may
\* be those of other engines: they are popped in an order of their own).
ErrorsCounted ==
    /\ Len(engine_errors_info)
         = Cardinality({i \in Members(joined) : answer[i].kind = "error"})
    /\ \A n \in Engines :
         Cardinality({k \in DOMAIN engine_errors_info : engine_errors_info[k].engine = n})
           <= Cardinality({i \in DOMAIN handlers : handlers[i] = n})

\* The url of the k-th joined task's results that have been merged so far.
ReportedBy(k) ==
    IF answer[joined[k]].kind = "ok"
      THEN {h.url : h \in Members(answer[joined[k]].hits)} ELSE {}

\* The result is that of the task joined first among those with its url, and
\* names that task's engine before any other.
ArrivedFirst(e) ==
    \E k \in DOMAIN joined :
        /\ \E h \in Members(answer[joined[k]].hits) :
              e.url = h.url /\ e.title = h.title /\ e.description = h.description
        /\ e.engine # <<>> /\ e.engine[1] = handlers[joined[k]]
        /\ \A m \in 1 .. k - 1 : e.url \notin ReportedBy(m)

\* The results merged so far, wherever the filters have put them.
Merged == Members(result_map) \cup Members(blacklist_map)

\* Of several results for a url the title and description that are kept, or were
\* moved to the block list's vector, are those of the task joined first among
\* those that reported the url, and its engine is the first the result names
\* (EnginesAreCombined is about the others); and no reported url is lost, even when another
\* task's panic ends the loop early.
FirstArrivalKept ==
    /\ \A e \in Merged : ArrivedFirst(e)
    /\ pc # "joining" =>
         \A k \in DOMAIN joined : ReportedBy(k) \subseteq {e.url : e \in Merged}

Listed(list, e) == \E n \in DOMAIN list.lines : Matches(list.lines[n], e)

\* At safe search level 3 and above the results shown are exactly those merged
\* that no line of the block list matches or some line of the allow list does;
\* below it, all of them.
SafeResults ==
    pc = "done" =>
        \A e \in Merged :
            e \in Members(results)
              <=> \/ safe_search < 3
                  \/ ~Listed(blocklist, e)
                  \/ Listed(allowlist, e)

\* What is still to come of a call: phases, tasks to join, and turns of the
\* loop it is in.
PhasesLeft ==
    CASE pc = "spawning" -> 5
      [] pc = "joining" -> 4
      [] pc = "blocking" -> 3
      [] pc = "allowing" -> 2
      [] pc = "ranking" -> 1
      [] pc \in {"done", "failed"} -> 0
TasksLeft == IF PhasesLeft >= 4 THEN Len(handlers) - Len(joined) ELSE 0
TurnsLeft ==
    CASE pc = "spawning" -> Len(handlers) - Len(names)
      [] pc = "joining" -> Len(response)
      [] pc = "blocking" -> Block!StepsLeft
      [] pc = "allowing" -> Allow!StepsLeft
      [] pc \in {"ranking", "done", "failed"} -> 0

Nearer ==
    \/ PhasesLeft' < PhasesLeft
    \/ PhasesLeft' = PhasesLeft /\ TasksLeft' < TasksLeft
    \/ PhasesLeft' = PhasesLeft /\ TasksLeft' = TasksLeft /\ TurnsLeft' < TurnsLeft

\* No loop of the call runs on: each of its steps is a step nearer to the end, in
\* the order of phases, tasks and turns, and a task that ends at the same time,
\* with however many results, takes it no further from it.
AggregateAdvances ==
    [][/\ PhasesLeft' \in Nat /\ TasksLeft' \in Nat /\ TurnsLeft' \in Nat
       /\ IF answer' = answer THEN Nearer
          ELSE UNCHANGED <<PhasesLeft, TasksLeft, TurnsLeft>>]_vars

\* Every call returns, whatever the engines answer, in whatever order, and
\* whether or not one of them panics.
AggregateReturns == <>(pc \in {"done", "failed"})

-----------------------------------------------------------------------------
(* What the documentation says of merged results and the code does not do. *)

\* "If two results are identified as coming from multiple engines, their names are
\* combined": a result names the engine of every joined task that reported its url.
EnginesAreCombined ==
    pc = "done" =>
        \A e \in Members(results), k \in DOMAIN joined :
            e.url \in ReportedBy(k) => handlers[joined[k]] \in Members(e.engine)
=============================================================================
