# websurfx / tinysurfx in TLA+

A meta search engine: a request names a query, a page and a safe search level;
the program answers it from a cache or asks several upstream search engines at
once, merges what they return, filters it through a block list and an allow
list, ranks it and caches it. This directory models that path, from the start of the
process and the HTTP route down to the engines' page parameters and the vector
operations of the filter, checks it with TLC and proves its main facts with
TLAPS.

All paths below are relative to the repository's root; `src/` there is the
crate's source directory.

## 1. Inventory

| Part | State | Operations | Interacts with |
|---|---|---|---|
| **Search route** (`src/routes/search.rs`) | per request: level, page, cache keys, current results, pages to prefetch; process-wide `SHARED_CACHE` | `search`, `fetch_results`, `results`, `is_match_from_filter_list`, `get_safesearch_level` | cache (await), aggregator (await), background tasks that cache results, list files |
| **Results cache** (`src/cache/`) | `SharedCache(ArcSwap<SwitchCache>)`; the tables of moka and redis; a redis pipeline and connection pool inside the `SwitchCache` | `cached_results`, `cached_results_exists`, `cache_results` over the in-memory server alone (default) or with redis (hybrid) | called concurrently by all requests and background tasks; redis over the network |
| **Value encodings** (`Cacher`, `src/cache/encryption.rs`) | process-wide cipher and nonce | compress, encrypt, both, and back | between cache and servers |
| **Aggregator** (`src/aggregator.rs`, `src/models/aggregation.rs`) | per call: a `JoinSet` of tasks, a vector of names, the result map, errors | `aggregate`, `sort_search_results` | spawns engine tasks, reads the list files |
| **List filter** (`filter_with_lists`) | two vectors of results, line and index of the scan | move matching entries from one to the other | called twice by the aggregator with the vectors exchanged |
| **Engines** (`src/engines/`, `src/models/engine.rs`) | none but an HTTP client shared by all | `EngineHandler::new`, `results` | upstream over HTTPS with a timeout |
| **Relevance** (`calculate_tf_idf`) | none | score of a result | aggregator |
| **Settings cookie** (`src/routes/export_import.rs`, `src/models/search_route.rs`) | the user's cookie | `sanitize`, `download`, defaults | search route |
| **Configuration** (`src/parser.rs`, `src/handler.rs`) | parsed once, static | `Config::parse`, `file_path` | everything |
| **api-only edition** (`src/api_config.rs`, `src/api_server.rs`) | parsed once, static | `from_env_and_args`, `handle_search` | aggregator, without cache and lists |
| **HTTP server, limiter** (`src/lib.rs`) | one limiter per worker | `run` | routes |
| **Pages, templates, static files** | none | rendering | - |

What is hard in each, and what makes it correct:

* *Aggregator.* Tasks end in any order, with an error or a panic; names are
  popped in an order of their own; duplicates are merged by arrival. Correct: a
  name for every task, every url once, shown as it arrived first, nothing reported is
  lost, errors are counted, the call returns.
* *List filter.* A vector shrinks under the index that scans it, and an
  unreadable line ends the call half way. Correct: no match kept, nothing lost
  or doubled, termination.
* *Cache.* Every call works on a clone of the shared value and some store it
  back; redis may vanish between two steps; two servers expire independently.
  Correct: a hit is what was cached for that key, no older than the TTL; what
  was cached and has not expired is found; `exists` answers position by
  position; every call returns.
* *Search route.* Three parallel vectors (pages, keys, flags) are zipped after
  one lost its last element; what is fetched is cached after the answer, by
  tasks that race with other requests; errors of the cache and of the
  neighbours must not reach the user. Correct: right page, right level, right
  engines in every answer and every cache entry, though the engines are told apart
  only by a text of their names; no fetch of what was cached
  throughout; every request answered; neighbours end up cached.

* *Value encodings.* Layers are put on and taken off in two functions that must
  mirror each other in every build; the key lives in the process, the bytes
  in redis do not. Correct: what is read is the page that was stored, what a
  process stored it can read, what it cannot read goes away.
* *Engines.* Each turns a page number into upstream's own way of counting, as
  `u32`, and answers "no results", an error, results or a panic. Correct: pages
  follow each other without gap or overlap, a stricter level never asks for
  less strictness, outcomes say what happened.
* *Configuration, servers.* Conversions with fallbacks, several sources with a
  precedence, exits in between; limiters that live per worker; two cells
  initialised by whichever request comes first. Correct: what is served is what
  was configured within its bounds, every request is answered as it asked, the
  limiter lets through what it should and no more.

The hazards, each at its line and with the properties that cover it, are in
`PROJECT.json`.

## 2. Plan

Done, in this order:

1. `SearchResult`, `FilterLists`, `ListPartition` (abstract), `FilterListsRefinement`: the filter.
2. `Aggregator`, which instantiates `FilterLists` twice.
3. `SharedCache`, `ExpiringCache` (abstract), `SharedCacheRefinement`.
4. `SearchRoute`, which uses of the cache what `ExpiringCache` promises and of `aggregate` its outcomes.
5. Proofs: `SearchResultProofs`, `FilterListsProofs`, `AggregatorProofs`, `SearchRouteProofs`.
6. `CacheCodec`: the encodings of cached values in every build, with the
   process's key and restarts.
7. `YahooRedirect`, `Engines`: what each engine asks and reports.
8. `ConfigFile`, `HttpServer` (default edition), `ApiConfig`, `ApiServer`
   (api-only edition), and `Editions`, which is the program as one or the other.
9. Proofs: `CacheCodecProofs`, `SharedCacheProofs`, `EnginesProofs`,
   `EditionsProofs`, and `NoNeedlessFetch` of the route.
10. Proofs of `SafeResults` and `ErrorsCounted` of the aggregator, and of the
    refinement of `SharedCache` to `ExpiringCache`.
11. Proofs of what needs induction over data: `OutcomesAreTruthful` and
    `RedirectsAreUndone` of the engines, `ApiConfigInEffect` and
    `AnswersMatchRequests` of the api-only edition.
12. Bounds on the steps of the filter, of a call of `aggregate` and of a call of
    the cache (`ScanAdvances`, `AggregateAdvances`, `CallsAdvance`), stated,
    checked and proved.
13. A statement of a comment that the code contradicts, with a run of its own:
    `EnginesAreCombined`.

Left: the same for the requests of the route and of the HTTP server.

A module for the settings cookie was planned and dropped: nothing registers
`set_settings`.

## 3. The modules

### SearchResult, FilterLists, ListPartition

A text is a member of a small set, a regular expression the set of texts it
matches (`Line`), a result a record (`Entry`); the `(String, SearchResult)`
pairs of the code have the url as key, so the pair is the entry. `FilterLists`
has the two vectors, the file, the number of lines read and the (one-based)
index; one action is one turn of a loop of `filter_with_lists`: `Open`,
`NextLine` (reading and compiling a line, which may fail), `MoveEntry`
(`push(swap_remove(idx))`), `KeepEntry`, `EndOfFile`. `file_path`, which finds
the file, is part of `Open`. Texts are compared lower-cased in the code; the set
a line matches already means that. `ListPartition` says the same without
vectors or positions: matches move one at a time, success only when no match
is left.

### Aggregator

One call of `aggregate` and the tasks of its `JoinSet`. `SpawnTask` and
`AllSpawned` are the first loop; `TaskEnds` is an engine's task, which ends with
results, an `EngineError` or a panic at any time; `JoinNext` takes any finished
task, pops a name and either records an error or hands the results to
`MergeResult`, one per turn of the inner loop, which leaves a url that is there
already as it is, its engine's name included (`add_engines` runs on a clone); `JoinPanicked` is the exit of
`while let Some(Ok(..))` at a `JoinError`. The two filter calls are the actions
of `FilterLists`, instantiated as `Block` and as `Allow` with the vectors
exchanged. `Rank` leaves the results in any order that an unstable sort by
descending score may give, and any order at all where scores do not order
results: all are 0.0 in the api-only build, and NaN when no word of the query
is left after the stop words.

### SharedCache, ExpiringCache

`build`, chosen at the start, stands for the cargo features: in memory, or hybrid
with redis behind memory. The code has a third form, for redis alone, which
`docs/installation.md` and the `Dockerfile` build with `--no-default-features
--features redis-cache`; at this commit it does not compile, because without
`html-edition`, which always enables `memory-cache` (`Cargo.toml:218-219`),
`lib.rs` lacks its dependencies, and so it is left out. A call is
in progress at one of a few steps (`at`), between which other calls, the clock
and failures run; each step is one access to a server. A call holds the
pipeline of the `SwitchCache` it cloned (`commands`), and `StoreBack` makes it
the shared one, as `self.0.store` does. `SET
key value NX GET EX ttl` leaves a live key alone and replies with the old value,
`nil` when it sets the key; that reply is what `cached_results_exists` has to
convert to `bool`. Values are numbered by the call that brings them; an entry
holds the time it has left. A pipeline is sent as one step: redis may interleave
two pipelines command by command, but all their commands are idempotent per key.
How values are encoded is the
next module's; a redis that neither answers nor drops the connection, and memory
limits of the servers are left out. `ExpiringCache` is what a cache promises: a
read gets a value stored for its key less than TTL ago or misses.

### CacheCodec

`pre_process_search_results` and `post_process_search_results` for every
combination of servers and features that compiles (`Compiles`): encryption needs
redis, since only its module imports the cipher, and redis comes with memory. Bytes are a page
and the sequence of layers put on it, outermost first; taking off a layer that is
not the outermost is the error of that step. A page is told apart by the process
that fetched it, and an encrypted layer by the process whose key made it.
`Restart` makes a new key and an empty memory and pipeline, and leaves redis as
it is. `SharedCache` has the interleavings, so a call here is one step, with
all its reads, encodings and writes, the replayed pipeline included.

### SearchRoute

Requests run `fetch_results` concurrently: `Begin` (level, page, keys),
`ReadCache`, `FetchCurrent` on a miss, `CheckNeighbours` or `CheckFails` for
`cached_results_exists`, `FetchNeighbour` for each call that `try_join_all`
runs, `CacheNeighbours`, and the answer. `writes` holds what `tokio::spawn`ed
tasks are yet to cache. A request's page, level and engines (`asked`) make its key
(`KeyFor`), in which the engines are their names joined by commas (`Joined`). The
names come from a cookie and may have commas in them, so a name is modelled as the
list of its parts, and two selections may share a key. One query is enough: it
comes first in the url, and is the same for all keys. `results` gives the possible outcomes for a page, among them an error
when a list file cannot be read. The page, engines and failure a result comes
from are history the code does not keep; everything else in a result is a field
of `SearchResults`. Levels above 4, which a url may carry, behave as 3 where no
equality is tested and are left out, as are the empty query (answered before
anything happens) and malformed parameters.

### Engines, YahooRedirect

One task of `aggregate`: `Create` finds the engine, `Request` builds the url,
or fails or panics over it, `UpstreamAnswers` with any document or
`RequestFails`, and `Parse` makes an outcome of the document. What the engines do
alike is in the actions; where they differ is in one record for each
(`Handlers`): how the page parameter is computed, whether it is omitted or
checked, where the query stands in the url, the strictness asked for at each
level, which notice means "no results" and what becomes of a link without
`href`. `FirstResult` reads a page parameter the way upstream counts, which is
known only from how the code uses it. A strictness is 0, 1 or 2 (`Strictness`);
Qwant is sent levels 3 and 4 as they are, which are none to it. A document is its body's kind, its
notices and its items; which text a selector finds is data.
The items kept are a recursive function of those found (`Kept`), which takes or
skips them one by one. `YahooRedirect` is Yahoo's percent-decoding of a
link, byte by byte, with the three markers as single symbols; its recursion is a
recursive function too. What Yahoo's links are is known from how the code reads
them: the target itself, or a redirect that carries it with any of its bytes
encoded (`Redirects`, `Encodes`); either is a text, since a page is. `Utf8` is
what `String::from_utf8` accepts, characters of up to four bytes included
(`IsChar`); a target that is none leaves the link as it came.

### ConfigFile, HttpServer

`file_path` tries its places in order and stops at one it cannot ask about.
`Config::parse` is a conversion per option: absent, ill-typed and out-of-range
values become a default, an error or, for the limiter's keys, a panic. `HttpServer`
starts with it and serves or ends. `WorkersLimitPeers` is about actix-governor as
`lib.rs` configures it: a quota per worker and peer, kept as the time until it is
whole again (`debt`). `cell` are `SHARED_CACHE` and the user agents, `OnceCell`s
whose initialisation other requests wait for, and which a failed one leaves
empty.

### ApiConfig, ApiServer, Editions

Options come from defaults, then the environment, then the command line word by
word; the first word that is wrong ends the process, as `--help` and `--version`
do. `Reads` says what each type's parser makes of a word; `Texts` are all words,
since each of them is a list of engines. `ApiServer` starts, exits
or serves; each request is a thread that reads its parameters in order, with later
ones overriding earlier and the first bad one ending it, and maps the outcome of `aggregate` to a status,
which is 200 also when every engine failed (`failed`).
Command line and url are read by recursive functions (`AllWords`, `ParamsOf`), so
that what their first n words or parameters leave can be reasoned about. `Editions` is the disjunction of both: a binary is one or the other for good.

## 4. The runs

| Run | Shows | Bounds, and why they are enough |
|---|---|---|
| `filter_lists` | types, no entry twice, no match kept, progress, termination, refinement | up to 3 entries, 2 lines of every kind, bad and missing files: swaps need three entries, interference of lines two lines |
| `aggregator` | types, distinct urls, names, errors, first arrival, what is shown, progress, return | 0 to 3 handlers unfiltered, one engine twice, results, errors, panics (a third task shows orders that two do not); 2 handlers with every pair of 6 lists at levels 2 to 4 around the threshold |
| `cache` | right key, misses only what expired, progress, return; the in-memory build refines `ExpiringCache` | 2 users, 2 keys, TTL 2, 2 values: overlapping calls on a key with another at stake. In memory one page or two neighbours are stored; the hybrid build stores one page and reads both, with redis failing and the process restarting at every step |
| `search_pages` | right results, no needless fetch, neighbours get cached | 2 users on pages 0 and 1, whose neighbourhoods overlap; expiry and restarts |
| `search_levels` | types, right results, level, answers | every source of a level on either side of 3; cache, lists and engines fail |
| `cache_codec` | reads are the page that was stored, own entries can be read, flags are of readable entries, what cannot be read expires | all builds that compile; 2 pages, TTL 2, 3 starts of the program (an entry may be of the process before last), 2 commands in the pipeline (the first is replayed with the second) |
| `engines` | pages tile, levels are monotone, outcomes are truthful, redirects are undone | all 11 engines and an unknown one, all levels, both profiles; a `u32` of 6 bits with pages just below and above the overflow of each factor; upstream pages of up to 2 items and 2 notices; link targets of up to 3 bytes in every encoding, among them characters of 2 and 3 bytes and bytes that are none |
| `editions` | configuration in effect, answers match requests, served configuration is sound, the limiter is exact per worker, requests are answered | all command lines of up to 2 of 9 words and pairs of options, 8 environments, urls of up to 3 parameters; `config.lua` with each option at, below and above its bounds, files absent or unreadable at each place; 2 peers, 2 workers, burst 2, a clock of 2 seconds |

The remaining runs each violate one statement of the repository about itself;
`PROJECT.json` quotes it under `findings`:

| Run | The code |
|---|---|
| `aggregator_names` | shows a url that several engines found with the name of one: `add_engines` is called on a clone |
| `codec_two_features` | with compression and encryption both enabled decodes in the wrong order |
| `search_disallowed` | disallows at level 4 what the block list does *not* match |
| `search_errors` | loses the engines' errors on the way to the page |

Further disagreements met while modelling have no run:

* `aggregate` blames the wrong engine for an error: names are popped from the
  end (`src/aggregator.rs:138`) while tasks end in any order, though the vector
  is said to hold the names in order (`:35`).
* The hybrid build may answer with results older than `cache_expiry_time`
  (`docs/configuration.md:87`): what is read from redis gets a whole life again in
  memory (`src/cache/mod.rs:432`).
* The pipeline of the hybrid build is never cleared, in spite of the comment
  "size 3" (`src/cache/redis.rs:23`); a `SET` sent again revives what expired, and
  its reply comes before those of the `EXISTS` commands of the call
  (`src/cache/redis.rs:104`), which are then not at their places.
* `filtered` is set at any level when there are neither results nor errors, where
  its comment (`src/models/aggregation.rs:168`) says level 3.
* The design document of the api-only edition asks for a limiter answering 429,
  which the edition has not
  (`docs/superpowers/specs/2026-05-10-tinysurfx-api-only-edition-design.md:186`,
  `:193`); its options for a limiter are read and used by nothing. The document
  gives `threads` another default (`:129`) than the code.
* The api-only edition answers 200 when every engine failed, where its design
  document (`:185`) asks for 502.
* Level 2 filters explicit content (`docs/configuration.md:45`), but Searx is asked for
  unrestricted results at it (`src/engines/searx.rs:60`). Qwant is sent the raw
  level, although it knows only 0 to 2. A `#` in a query, which most engines do not encode, cuts the page and
  safe search parameters off.
* `number_of_requests` in `time_limit` is, as `lib.rs` sets it up, a burst and
  the period after which *one* request is allowed again, in each worker, so that the
  site as a whole admits as many times that as it has threads. On a machine with
  one core the fallback for `threads` is 0, with which the server panics at its
  start.
* Engines' names from a cookie go into a cache key joined by commas
  (`src/routes/search.rs:203`), so that a name with a comma in it is answered from
  the cache with the results of two engines.
* The shipped `websurfx/config.lua` sets `https_adaptive_window_size`; the parser reads
  `adaptive_window`, which is then false.
* In a release build, which aborts on panic, a redis that is down at the first
  search ends the process, and so does a panicking engine.

The runs of the route have one selection of engines; that results are of the
engines asked for, whichever selections there are and however their names join, is
what the proof of `RightResults` adds.

Deadlock is checked where the system goes on forever (cache, encodings and
route), and not where a call or a process ends (filter, aggregator, engines and
editions).

### Fairness

*Aggregator*: weak fairness of the call, which the runtime polls while it can
make progress, and of tasks ending, because the shared client has a timeout on
connecting and on the whole request. *Filter*: weak fairness of its steps; it is
ordinary sequential code. *Cache*: weak fairness of every call's next step, on
the assumption that redis answers or drops the connection; ticks, failures,
recoveries and new calls are never forced. *Route*: weak fairness of every
request's next step and of the background writes. *Encodings*: weak fairness of
the clock alone; an entry must expire without anybody's help. *HTTP server*:
weak fairness of each request's handler (`HttpFairness`), which its worker polls
whenever it can go on; the clock and new requests are not forced. No strong fairness is used.

## 5. The proofs

TLAPS checks these for every value of the constants; the assumptions are the
named `ASSUME`s of the modules.

* `SearchResultProofs`: lemmas on `swap_remove`, `push` and their effect on
  types, on members and on distinctness of urls.
* `FilterListsProofs`: the types, `NoEntryTwice`, `ScanInvariant` (itself
  inductive: entries behind the index match no line so far, entries ahead of it
  no earlier line, which is why the index must stay after a removal),
  `NoMatchKept` from it, `EntriesConserved` (a consequence of the refinement,
  so that no run checks it by itself), and that the scan implements
  `ListPartition`: every step moves one matching entry, finishes, fails or
  stutters. `ScanAdvances`: with the product of lines to come and places to visit
  in each as bound (`StepsLeft`), every step is one fewer, so the call ends
  after at most lines * (results + 1) + 2 of them.
* `AggregatorProofs`: `TypeOK`; `NamesCoverTasks`, strengthened to say what
  holds while spawning (`NamesInvariant`); `ResultsDistinct`; and
  `FirstArrivalKept` (title, description and first name are those of the first
  arrival), strengthened to the partly merged results of the task
  joined last (`MergeInvariant`). `ErrorsCounted` needs to know which
  name goes to which error (`CountInvariant`): every error took a name from a
  place of its own, beyond the names left. `SafeResults` follows from
  `FilteringInvariant`, which relates the two vectors between and during the
  two filter calls to what was merged. `AggregateAdvances`: phases, tasks to join
  and turns of the current loop, compared in that order, go down with every step
  of the call; a task that ends leaves them alone, however many results it
  brings, since those only count when the task is joined. The filter steps cite the theorems of
  `FilterListsProofs`, instantiated once for each call.
* `SearchRouteProofs`: `TypeOK`, `RightResults` and `ConfigLevelBinds`, from one
  inductive invariant (`RouteInvariant`). The properties speak of answers and
  of the cache only, so it adds what lies between: pending background writes are
  right; a request under way has a key that some url asks for, with the level
  the config file demands; its current results are of that key; and at every
  place of the prefetched vectors where there is a key, it is the key of the page
  fetched there (`NeighboursRight`), which is why zipping three vectors of
  different lengths after a failed `cached_results_exists` is harmless. That
  selections of plain names (`Plain`: not empty, no comma) differ as texts
  when they differ as lists is `PlainListsDiffer`.
  `NoNeedlessFetch` is proved under the assumption that writes to the cache succeed (`~CacheFails`), from
  `GoneInvariant`: whatever is not cached now has been gone since the request
  began. It fails without the assumption, since a lost write leaves nothing to
  find.
* `CacheCodecProofs`: `ReadsAreThePage` and `OwnEntriesReadBack`, for any
  number of restarts, from `CodecInvariant`: every live entry of either server,
  and every command of the pipeline, holds a page of its key in exactly the
  layers that some process up to now puts on, memory and pipeline only those of
  this process. The lemmas are that decoding undoes encoding in every build but
  the one with both features, and undoes nothing another process encrypted. `ExistsIsReadable` adds that
  a true flag is of a live entry (`FlagIsOfEntry`).
* `SharedCacheProofs`: for any users and keys, both builds and all failures,
  `HitsWereCached`, from `CacheInvariant` (both tables, every pipeline and every
  value in the hands of a call belong to the key they are under, for the call
  that brought them), and `MissesOnlyWhatExpired`, from `MissInvariant` (what
  was stored less than a TTL ago is in the table that serves it, with the rest of
  the TTL left; what a call saw when it began is not gone since). `CallsAdvance`
  bounds the steps of a call in both builds: at most three for a read and three
  more than it has keys for a write, which no failure and no other call raises.
  `FreshHits`,
  `ExistsAnswersItsKeys` and the refinement to `ExpiringCache` are proved for the
  in-memory build (the theorems say `~RedisBuild =>`), from `StoreInvariant`: in every
  entry served, age and time left
  add up to at most the TTL, and a write under way has not stored its value yet
  for the urls it has still to do. The hybrid build contradicts all three, as the
  list of disagreements says. `DistinctUrls`, their hypothesis, says that no call
  names a url twice, as is true of the lists the
  route builds: a second write of the same value would start its life again.
* `EnginesProofs`: `PagesTile` for a `u32` of any width and any page, and
  `StricterLevels` (for Qwant up to level 2), from an invariant that relates what was sent to the task
  (`RequestIsSent`) and one lemma for each engine's record. `OutcomesAreTruthful`
  and `RedirectsAreUndone` hold for answers with any number of items and links of
  any length, from `ReportsInvariant`: before the end nothing is reported, and the
  document at hand is one its engine's upstream may send. The lemmas say that
  `Kept` keeps the good items in their order, and that decoding finds the target
  of a redirect whichever bytes are encoded; whether it is used is whether it is
  UTF-8. They assume what Yahoo's links are
  (`LinksAssumption`) and that the number of items on a page is bounded, by
  anything (`MaxItemsAssumption`).
* `EditionsProofs`: `ServedConfigIsSound` for every `config.lua` and machine
  (`MachinesAssumption`: places have an outcome, a machine a number of cores),
  and `WorkersLimitPeers`, from the balance of the limiter (`InBalance`): every
  admitted request cost a period, a second pays back at most a second, and the debt
  never exceeds the burst. `ApiConfigInEffect` and `AnswersMatchRequests` follow
  from `ApiInvariant` for any environment, command line and url: what the first n
  words or parameters leave is either, for every option, the last value given
  among them (`ReadUpTo`, `ParamsUpTo`), or an end that has its reason
  (`EndedEarly`). They assume that the parsers of numbers return
  numbers in range and that an empty query is blank (`ReadsAssumption`), that the
  environment sets options to texts (`EnvsAssumption`), and that command lines and
  urls are finite lists (`ArgListsAssumption`, `UrlsAssumption`).

Induction over data is done in the form of sets: a non-empty set of numbers has a
least (`SmallestNat`), so a set that holds 0 and with every number below N the next
one holds all of 0 .. N (`UpToBound`). Applied to the set of n up to which a
recursive function has a solution, and to the set of n for which its n-th value
has a property, it gives both.

Every safety property that a passing run checks is a theorem for all values of
the constants, `ImplementsExpiringCache`
under `DistinctUrls`, `NoNeedlessFetch` under `~CacheFails`, as said above.
`FreshHits` and `ExistsAnswersItsKeys` are theorems that no run checks. Only
model-checked is liveness, which takes fairness and `ENABLED`:
`FilterTerminates`, `AggregateReturns`, `CallsReturn`, `PagesAroundGetCached`,
`Answered`, `UndecodableEntriesEnd`, `RequestsAnswered`. Of the first three the part
that does not depend on fairness, that there are only so many steps to take, is
proved.

## 6. Not modelled

* *Relevance scores*: floating point over text. Their effect on the order of
  results, NaN included, is in `Aggregator`.
* *Settings cookie and export/import*: `lib.rs` does not register `set_settings`,
  so its `sanitize` never runs; `download` keeps no state. What the cookie tells the
  route is a choice of `SearchRoute`.
* *Scraping, rendering, templates, static pages, logging* (`set_logging_level`
  included): text processing without control that properties could be about.
* The random delay before a request changes nothing but time; connections,
  keep-alive and worker threads are actix-web's, tokio's and tiny_http's.
