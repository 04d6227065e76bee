----------------------------- MODULE SearchRoute -----------------------------
(***************************************************************************)
(* The /search route: fetch_results looks a page up in the cache, fetches  *)
(* it upstream on a miss, then makes sure that the pages before and after  *)
(* it are cached too, and only then answers.  What it fetches is cached by *)
(* background tasks.  results decides, by safe search level and selected   *)
(* engines, whether aggregate is called at all and sets the flags that the *)
(* page shows.                                                             *)
(*                                                                         *)
(* There is one query; a cache key is the hash of the url, which says the  *)
(* page, the level and the engines, the names of the latter joined by       *)
(* commas.  The cache is what ExpiringCache promises: it answers with what  *)
(* was stored or misses.                                                   *)
(***************************************************************************)
EXTENDS Naturals, SequencesExt

CONSTANTS
    Requests,       \* users with one request at a time
    PageParams,     \* values of the url parameter page; 0 for none
    UrlLevels,      \* values of the url parameter safesearch; NoLevel for none
    CookieLevels, ConfigLevels,     \* levels in cookies and in the config file
    EngineLists,    \* selections of upstream search engines
    Aggregated,     \* what aggregate may return, as [hits, failed]
    ListsFail,      \* whether reading a list file may fail
    Expires,        \* whether entries expire and the process restarts
    CacheFails,     \* whether the cache may answer with an error
    Overwrites      \* whether the cache replaces a live entry (memory) or not (redis)

NoLevel == 5
Levels == 0 .. 4
ASSUME LevelsAssumption ==
    /\ UrlLevels \subseteq Levels \cup {NoLevel}
    /\ CookieLevels \subseteq Levels /\ ConfigLevels \subseteq Levels
ASSUME PagesAssumption == PageParams \subseteq Nat
\* A name comes from a cookie and may hold commas: it is the parts between them.
ASSUME EnginesAssumption == EngineLists \subseteq Seq(Seq(STRING) \ {<<>>})
ASSUME AggregatedAssumption == Aggregated \subseteq [hits: BOOLEAN, failed: BOOLEAN]
ASSUME FlagsAssumption == {ListsFail, Expires, CacheFails, Overwrites} \subseteq BOOLEAN

-----------------------------------------------------------------------------
(* The level, the pages and the results of a request.                      *)

\* Mutant of get_safesearch_level: the parameter outranks the config file.
LevelOfUrl(url, cookie, config) == IF url # NoLevel THEN url ELSE cookie

\* get_safesearch_level: the config file decides from level 3 on, else the url
\* parameter and else the cookie.
get_safesearch_level(url, cookie, config) ==
    IF config >= 3 THEN config ELSE IF url # NoLevel THEN url ELSE cookie

\* The zero-based page.
PageOf(param) == IF param = 0 THEN 0 ELSE param - 1

\* Mutant of PagesAround: the current page is not the last.
PagesAroundCurrentFirst(page) ==
    IF page = 0 THEN <<0, 1>> ELSE <<page, page + 1, page - 1>>

\* [next, previous, current], where dedup drops the second 0 of page 0.
PagesAround(page) == IF page = 0 THEN <<1, 0>> ELSE <<page + 1, page - 1, page>>

AllPages == UNION {{pages[i] : i \in DOMAIN pages} :
                     pages \in {PagesAround(PageOf(q)) : q \in PageParams}}

\* engines.join(","), as the parts between its commas.  Lists that differ can be
\* the same text: a name with a comma is like two names, none is like the name "".
Joined(list) == IF list = <<>> THEN <<"">> ELSE FlattenSeq(list)

\* Mutant of KeyFor: the url does not say the level.
KeyWithoutLevel(page, level, engines) == [page |-> page, engines |-> Joined(engines)]

\* The url that is hashed.  The query comes first in it and is always the same here,
\* page and level are digits up to the next "&", and the engines come last.
KeyFor(page, level, engines) == [page |-> page, level |-> level, engines |-> Joined(engines)]
KeyOf(x) == KeyFor(x.page, x.level, x.engines)

\* The levels that requests can have, one way or another.
AllLevels ==
    {get_safesearch_level(url, cookie, config) :
        url \in UrlLevels, cookie \in CookieLevels, config \in ConfigLevels}

Settings == [page: AllPages, level: AllLevels, engines: EngineLists]
Keys == {KeyOf(x) : x \in Settings}

\* SearchResults, with the page, engines and failure it comes from (history).
Results(page, level, engines) ==
    [page |-> page, level |-> level, engines |-> engines, hits |-> FALSE,
     failed |-> FALSE, engine_errors_info |-> FALSE, disallowed |-> FALSE,
     filtered |-> FALSE, no_engines_selected |-> FALSE]
Error == [page |-> 0]
NotCached == [page |-> 1]

\* What aggregate returned: engine_errors_info() takes the errors out of the
\* struct to see whether there are any, and they are not put back.
Found(base, a) ==
    [base EXCEPT !.hits = a.hits, !.failed = a.failed, !.filtered = ~a.failed /\ ~a.hits]

\* results(): the outcomes for a page.  `blocked`: a line of the block list
\* matches the query.
results(page, level, engines, blocked) ==
    LET base == Results(page, level, engines)
        failure == IF ListsFail /\ level >= 3 /\ (level = 4 \/ engines # <<>>)
                     THEN {Error} ELSE {}
    IN  failure \cup
        IF level = 4 /\ ~blocked THEN {[base EXCEPT !.disallowed = TRUE]}
        ELSE IF engines = <<>> THEN {[base EXCEPT !.no_engines_selected = TRUE]}
        ELSE {Found(base, a) : a \in Aggregated}

-----------------------------------------------------------------------------
VARIABLES
    config_level, listed,   \* the config file, and the block list on the query
    cache,
    writes,         \* [key, value] pairs that background tasks are yet to cache
    at, asked,      \* where each request is, and the page, level and engines it is for
    current,        \* its results
    wanted,         \* the pages it fetches around the current one, by place
    keyed,          \* the pages whose keys their results will be zipped with
    fetched,        \* their results so far
    mishap,         \* something failed, expired or was restarted (history)
    gone,           \* keys without a cached value at some time since it began (history)
    reply           \* what the last step answered, if it did

world == <<config_level, listed>>
request == <<at, asked, current, wanted, keyed, fetched>>
vars == <<world, cache, writes, request, mishap, gone, reply>>

NoReply == [kind |-> "none"]
Cached(k) == cache[k] # NotCached
NothingAsked == [page |-> 0, level |-> NoLevel, engines |-> <<>>]

Init ==
    /\ config_level \in ConfigLevels
    /\ listed \in BOOLEAN
    /\ cache = [k \in Keys |-> NotCached]
    /\ writes = {}
    /\ at = [r \in Requests |-> "idle"]
    /\ asked = [r \in Requests |-> NothingAsked]
    /\ current = [r \in Requests |-> NotCached]
    /\ wanted = [r \in Requests |-> <<>>]
    /\ keyed = [r \in Requests |-> <<>>]
    /\ fetched = [r \in Requests |-> <<>>]
    /\ mishap = FALSE
    /\ gone = [r \in Requests |-> {}]
    /\ reply = NoReply

\* cache_keys: the last is popped and used for the current page.
Neighbours(page) == LET pages == PagesAround(page) IN [i \in 1 .. Len(pages) - 1 |-> pages[i]]
LastPage(page) == LET pages == PagesAround(page) IN pages[Len(pages)]

KeyAt(r, page) == KeyFor(page, asked[r].level, asked[r].engines)
CurrentKey(r) == KeyAt(r, LastPage(asked[r].page))
ResultsAt(r, page) == results(page, asked[r].level, asked[r].engines, listed)

Answer(r, answer) ==
    /\ at' = [at EXCEPT ![r] = "idle"]
    /\ asked' = [asked EXCEPT ![r] = NothingAsked]
    /\ current' = [current EXCEPT ![r] = NotCached]
    /\ wanted' = [wanted EXCEPT ![r] = <<>>]
    /\ keyed' = [keyed EXCEPT ![r] = <<>>]
    /\ fetched' = [fetched EXCEPT ![r] = <<>>]
    /\ gone' = [gone EXCEPT ![r] = {}]
    /\ reply' = answer

AnswerCurrent(r) == Answer(r, [kind |-> "ok", asked |-> asked[r], value |-> current[r]])
AnswerError(r) == Answer(r, [kind |-> "error"])

-----------------------------------------------------------------------------
(* fetch_results.                                                          *)

Begin(r) ==
    /\ at[r] = "idle"
    /\ \E param \in PageParams, url \in UrlLevels, cookie \in CookieLevels,
          engines \in EngineLists :
         asked' = [asked EXCEPT ![r] =
            [page |-> PageOf(param),
             level |-> get_safesearch_level(url, cookie, config_level),
             engines |-> engines]]
    /\ at' = [at EXCEPT ![r] = "reading"]
    /\ gone' = [gone EXCEPT ![r] = {k \in Keys : ~Cached(k)}]
    /\ reply' = NoReply
    /\ UNCHANGED <<world, cache, writes, current, wanted, keyed, fetched, mishap>>

ReadCache(r) ==
    /\ at[r] = "reading"
    /\ LET k == CurrentKey(r) IN
         \/ /\ Cached(k)
            /\ at' = [at EXCEPT ![r] = "checking"]
            /\ current' = [current EXCEPT ![r] = cache[k]]
         \/ /\ ~Cached(k) \/ CacheFails
            /\ at' = [at EXCEPT ![r] = "fetching"]
            /\ UNCHANGED current
    /\ reply' = NoReply
    /\ UNCHANGED <<world, cache, writes, asked, wanted, keyed, fetched, mishap, gone>>

\* Mutant of FetchCurrent: after an error the request starts over.
FetchCurrentRetrying(r) ==
    /\ at[r] = "fetching"
    /\ \E value \in ResultsAt(r, asked[r].page) :
         IF value = Error
           THEN /\ at' = [at EXCEPT ![r] = "reading"]
                /\ reply' = NoReply
                /\ UNCHANGED <<world, cache, writes, asked, current, wanted, keyed,
                               fetched, mishap, gone>>
         ELSE /\ current' = [current EXCEPT ![r] = value]
              /\ at' = [at EXCEPT ![r] = "checking"]
              /\ writes' = writes \cup {[key |-> CurrentKey(r), value |-> value]}
              /\ reply' = NoReply
              /\ UNCHANGED <<world, cache, asked, wanted, keyed, fetched, mishap, gone>>

\* Mutant of FetchCurrent: an error is taken for results.
FetchCurrentKeepingError(r) ==
    /\ at[r] = "fetching"
    /\ \E value \in ResultsAt(r, asked[r].page) :
         /\ current' = [current EXCEPT ![r] = value]
         /\ writes' = writes \cup {[key |-> CurrentKey(r), value |-> value]}
    /\ at' = [at EXCEPT ![r] = "checking"]
    /\ reply' = NoReply
    /\ UNCHANGED <<world, cache, asked, wanted, keyed, fetched, mishap, gone>>

\* A cache miss: results()? returns its error to the caller, and otherwise the
\* results are cached in the background.
FetchCurrent(r) ==
    /\ at[r] = "fetching"
    /\ \E value \in ResultsAt(r, asked[r].page) :
         IF value = Error THEN AnswerError(r) /\ mishap' = TRUE /\ UNCHANGED writes
         ELSE /\ current' = [current EXCEPT ![r] = value]
              /\ at' = [at EXCEPT ![r] = "checking"]
              /\ writes' = writes \cup {[key |-> CurrentKey(r), value |-> value]}
              /\ reply' = NoReply
              /\ UNCHANGED <<asked, wanted, keyed, fetched, mishap, gone>>
    /\ UNCHANGED <<world, cache>>

Fetch(r, pages, keys) ==
    /\ at' = [at EXCEPT ![r] = "prefetching"]
    /\ wanted' = [wanted EXCEPT ![r] = pages]
    /\ keyed' = [keyed EXCEPT ![r] = keys]
    /\ fetched' = [fetched EXCEPT ![r] = [i \in DOMAIN pages |-> NotCached]]
    /\ reply' = NoReply
    /\ UNCHANGED <<asked, current, gone>>

\* Mutant of CheckNeighbours: fetch them all.
CheckNeighboursAll(r) ==
    /\ at[r] = "checking"
    /\ Fetch(r, Neighbours(asked[r].page), Neighbours(asked[r].page))
    /\ UNCHANGED <<world, cache, writes, mishap>>

\* cached_results_exists for the neighbours: fetch those that are not cached.
CheckNeighbours(r) ==
    /\ at[r] = "checking"
    /\ LET near == Neighbours(asked[r].page)
           pages == [i \in {j \in DOMAIN near : ~Cached(KeyAt(r, near[j]))} |-> near[i]]
       IN  IF DOMAIN pages = {} THEN AnswerCurrent(r) ELSE Fetch(r, pages, pages)
    /\ UNCHANGED <<world, cache, writes, mishap>>

\* It failed: fetch all pages around, the current one included.
CheckFails(r) ==
    /\ at[r] = "checking"
    /\ CacheFails
    /\ Fetch(r, PagesAround(asked[r].page), Neighbours(asked[r].page))
    /\ UNCHANGED <<world, cache, writes, mishap>>

\* One of the calls of results that try_join_all runs concurrently ends; the
\* first error drops the others.
FetchNeighbour(r) ==
    /\ at[r] = "prefetching"
    /\ \E i \in DOMAIN wanted[r] :
         /\ fetched[r][i] = NotCached
         /\ \E value \in ResultsAt(r, wanted[r][i]) :
              IF value = Error THEN AnswerCurrent(r) /\ mishap' = TRUE
              ELSE /\ fetched' = [fetched EXCEPT ![r][i] = value]
                   /\ reply' = NoReply
                   /\ UNCHANGED <<at, asked, current, wanted, keyed, mishap, gone>>
    /\ UNCHANGED <<world, cache, writes>>

\* Mutant of CacheNeighbours: the results are not cached.
CacheNeighboursLater(r) ==
    /\ at[r] = "prefetching"
    /\ \A i \in DOMAIN wanted[r] : fetched[r][i] # NotCached
    /\ AnswerCurrent(r)
    /\ UNCHANGED <<world, cache, writes, mishap>>

\* All have: cache_results zips them with the keys, which after CheckFails are
\* those of the neighbours only.  Then the request is answered.
CacheNeighbours(r) ==
    /\ at[r] = "prefetching"
    /\ \A i \in DOMAIN wanted[r] : fetched[r][i] # NotCached
    /\ writes' = writes \cup
         {[key |-> KeyAt(r, keyed[r][i]), value |-> fetched[r][i]] :
            i \in DOMAIN keyed[r] \cap DOMAIN fetched[r]}
    /\ AnswerCurrent(r)
    /\ UNCHANGED <<world, cache, mishap>>

Step(r) ==
    \/ ReadCache(r) \/ FetchCurrent(r) \/ CheckNeighbours(r) \/ CheckFails(r)
    \/ FetchNeighbour(r) \/ CacheNeighbours(r)

\* A background task stores a value under a key, or fails to.
Write(k) ==
    \E w \in {x \in writes : x.key = k} :
        /\ writes' = writes \ {w}
        /\ \/ /\ cache' = IF Overwrites \/ ~Cached(w.key)
                            THEN [cache EXCEPT ![w.key] = w.value] ELSE cache
              /\ UNCHANGED mishap
           \/ CacheFails /\ mishap' = TRUE /\ UNCHANGED cache
        /\ reply' = NoReply
        /\ UNCHANGED <<world, request, gone>>

Expire ==
    /\ Expires
    /\ \E k \in Keys :
         /\ Cached(k)
         /\ cache' = [cache EXCEPT ![k] = NotCached]
         /\ gone' = [r \in Requests |-> IF at[r] = "idle" THEN {} ELSE gone[r] \cup {k}]
    /\ mishap' = TRUE
    /\ reply' = NoReply
    /\ UNCHANGED <<world, writes, request>>

\* The process stops and starts with another config file; what redis holds stays.
Restart ==
    /\ Expires
    /\ config_level' \in ConfigLevels
    /\ writes' = {}
    /\ cache' \in {cache, [k \in Keys |-> NotCached]}
    /\ at' = [r \in Requests |-> "idle"]
    /\ asked' = [r \in Requests |-> NothingAsked]
    /\ current' = [r \in Requests |-> NotCached]
    /\ wanted' = [r \in Requests |-> <<>>]
    /\ keyed' = [r \in Requests |-> <<>>]
    /\ fetched' = [r \in Requests |-> <<>>]
    /\ gone' = [r \in Requests |-> {}]
    /\ mishap' = TRUE
    /\ reply' = NoReply
    /\ UNCHANGED listed

Next == (\E r \in Requests : Begin(r) \/ Step(r)) \/ (\E k \in Keys : Write(k)) \/ Expire \/ Restart

\* Requests and background tasks are polled until they end, and engines answer
\* or time out; new requests, expiry and restarts are the environment's.
Spec ==
    /\ Init /\ [][Next]_vars
    /\ \A r \in Requests : WF_vars(Step(r))
    /\ \A k \in Keys : WF_vars(Write(k))

-----------------------------------------------------------------------------
(* Properties.                                                             *)

Value == [page: AllPages, level: Levels, engines: EngineLists, hits: BOOLEAN,
          failed: BOOLEAN, engine_errors_info: BOOLEAN, disallowed: BOOLEAN,
          filtered: BOOLEAN, no_engines_selected: BOOLEAN]

\* Types of the route's state.
TypeOK ==
    /\ config_level \in ConfigLevels /\ listed \in BOOLEAN
    /\ cache \in [Keys -> Value \cup {NotCached}]
    /\ writes \subseteq [key: Keys, value: Value]
    /\ at \in [Requests -> {"idle", "reading", "fetching", "checking", "prefetching"}]
    /\ asked \in [Requests -> Settings \cup {NothingAsked}]
    /\ current \in [Requests -> Value \cup {NotCached}]
    /\ \A r \in Requests :
         /\ \E places \in SUBSET (1 .. 3) :
              /\ wanted[r] \in [places -> AllPages]
              /\ fetched[r] \in [places -> Value \cup {NotCached}]
         /\ \E places \in SUBSET (1 .. 3) : keyed[r] \in [places -> AllPages]
    /\ gone \in [Requests -> SUBSET Keys] /\ mishap \in BOOLEAN
    /\ reply.kind \in {"none", "ok", "error"}

\* Names as EngineHandler::new knows them: not empty, and without a comma.
Plain(list) == \A i \in DOMAIN list : Len(list[i]) = 1 /\ list[i][1] # ""

\* A request is answered with the results of the page it asked for, fetched at
\* its own safe search level and from engines whose names, joined, are its own;
\* these are its own engines if neither list has an empty name or one with a comma
\* in it, but may be another user's if one has.  So it is whoever fetched and
\* cached them, however the lists of pages, keys and results were zipped, and
\* whatever fails in between; and nothing is ever cached under another key than
\* the one its own page, level and engines give.
RightResults ==
    /\ reply.kind = "ok" =>
         /\ reply.value.page = reply.asked.page /\ reply.value.level = reply.asked.level
         /\ Joined(reply.value.engines) = Joined(reply.asked.engines)
         /\ Plain(reply.value.engines) /\ Plain(reply.asked.engines) =>
              reply.value.engines = reply.asked.engines
    /\ \A k \in Keys : Cached(k) => KeyOf(cache[k]) = k

\* From level 3 on the level of the config file binds every answer, also one
\* that was cached before a restart with another config file.
ConfigLevelBinds ==
    reply.kind = "ok" /\ config_level >= 3 => reply.value.level = config_level

\* While the cache does not fail, a page is only fetched upstream if at some
\* time since the request began it was not cached.
NoNeedlessFetch ==
    \A r \in Requests :
        /\ at[r] = "fetching" => KeyAt(r, asked[r].page) \in gone[r]
        /\ at[r] = "prefetching" =>
             \A i \in DOMAIN wanted[r] : KeyAt(r, wanted[r][i]) \in gone[r]

\* Every request is answered, whatever fails.
Answered == \A r \in Requests : at[r] # "idle" ~> at[r] = "idle"

\* Unless something fails or expires, the page shown and the pages before and
\* after it are in the cache some time after every answer (docs/features.md:
\* without a cache "previous & next page search results are not cached").
PagesAroundGetCached ==
    \A x \in {y \in Settings : \E q \in PageParams : y.page = PageOf(q)} :
        (reply.kind = "ok" /\ reply.asked = x) ~>
            \/ mishap
            \/ \A i \in DOMAIN PagesAround(x.page) :
                  Cached(KeyFor(PagesAround(x.page)[i], x.level, x.engines))

-----------------------------------------------------------------------------
(* What the comments on SearchResults say and the code does not do.        *)

\* "the following search query was disallowed when the safe search level set to
\* 4 and it was present in the `Blocklist` file".
DisallowedQueriesAreListed == reply.kind = "ok" /\ reply.value.disallowed => listed

\* "Stores the information on which engines failed".
FailedEnginesAreReported ==
    reply.kind = "ok" /\ reply.value.failed => reply.value.engine_errors_info
=============================================================================
