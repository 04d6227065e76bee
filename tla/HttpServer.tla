----------------------------- MODULE HttpServer -----------------------------
(***************************************************************************)
(* The default edition: main.rs and lib.rs start it; its workers limit the *)
(* requests of every peer, each on its own; and the first requests for a   *)
(* search initialise the cache and the user agents, in two OnceCells.      *)
(***************************************************************************)
EXTENDS ConfigFile

CONSTANTS
    Peers,          \* clients, one address and one request at a time each
    Machines,       \* files, cores, cache servers and cargo profiles
    MaxClock        \* bound on the clock, in seconds

\* Asking a place has an outcome, and a machine a number of cores.
ASSUME MachinesAssumption ==
    \A m \in Machines :
        m.config_places \in Seq({"absent", "present", "denied"}) /\ m.cores \in Nat

VARIABLES
    http,           \* [machine, at, config]: the process
    debt,           \* per worker and peer, the seconds until its quota is whole
    admitted,       \* history: requests admitted per worker and peer
    clock,
    cell,           \* per OnceCell, "empty", "ready" or the peer initialising it
    step            \* per peer, "idle" or the step of its request

httpVars == <<http, debt, admitted, clock, cell, step>>

Cells == {"SHARED_CACHE", "USER_AGENTS"}
NoSettings == [threads |-> 0]
Workers == 1 .. http.config.threads

HttpOff ==
    /\ http = [machine |-> <<>>, at |-> "off", config |-> NoSettings]
    /\ debt = <<>> /\ admitted = <<>> /\ clock = 0
    /\ cell = [c \in Cells |-> "empty"]
    /\ step = [p \in Peers |-> "idle"]

HttpInit ==
    /\ http \in [machine: Machines, at: {"started"}, config: {NoSettings}]
    /\ debt = <<>> /\ admitted = <<>> /\ clock = 0
    /\ cell = [c \in Cells |-> "empty"]
    /\ step = [p \in Peers |-> "idle"]

-----------------------------------------------------------------------------
(* Starting.                                                               *)

UnchangedService == UNCHANGED <<debt, admitted, clock, cell, step>>

ConfigPath == file_path(http.machine.config_places)
File == http.machine.files[ConfigPath]

ParseConfig ==
    /\ http.at = "started"
    /\ http' = IF ConfigPath = 0 \/ ~Converts(File) THEN [http EXCEPT !.at = "error"]
               ELSE IF Lacks(File) THEN [http EXCEPT !.at = "panic"]
               ELSE [http EXCEPT !.at = "parsed", !.config = Parse(File, http.machine)]
    /\ UnchangedService

BindHttp ==
    /\ http.at = "parsed"
    /\ \E how \in {"bound", "error"} : http' = [http EXCEPT !.at = how]
    /\ UnchangedService

\* run: without a theme folder an error; no workers, or a limiter without burst or
\* period, a panic: the latter in the factory, when a worker calls it.
Run ==
    /\ http.at = "bound"
    /\ http' = [http EXCEPT !.at =
                 IF file_path(http.machine.theme_places) = 0 THEN "error"
                 ELSE IF 0 \in {http.config.threads, http.config.number_of_requests,
                                http.config.time_limit} THEN "panic"
                 ELSE "serving"]
    /\ debt' = [w \in Workers |-> [p \in Peers |-> 0]]
    /\ admitted' = [w \in Workers |-> [p \in Peers |-> 0]]
    /\ UNCHANGED <<clock, cell, step>>

-----------------------------------------------------------------------------
(* Requests.                                                               *)

Serving == http.at = "serving"
Burst == http.config.number_of_requests
Period == http.config.time_limit

Cost(n) == n * Period

\* Mutant of WithinQuota: one request more than the burst.
WithinQuotaInclusive(w, p) == debt[w][p] <= Cost(Burst)

\* Governor: a burst, of which one request is replenished every period.
WithinQuota(w, p) == debt[w][p] <= Cost(Burst - 1)

\* A request reaches some worker, whose limiter lets it through; or else answers
\* 429, which changes nothing.  Only a search with a query goes on to the cells.
Admit(p, w) ==
    /\ Serving /\ step[p] = "idle" /\ WithinQuota(w, p)
    /\ debt' = [debt EXCEPT ![w][p] = @ + Period]
    /\ admitted' = [admitted EXCEPT ![w][p] = @ + 1]
    /\ \E next \in {"SHARED_CACHE", "idle"} : step' = [step EXCEPT ![p] = next]
    /\ UNCHANGED <<http, clock, cell>>

NextStep(c) == IF c = "SHARED_CACHE" THEN "USER_AGENTS" ELSE "fetching"

\* get_or_try_init of a cell that is ready, and of one that is empty, which this
\* request then initialises while others wait.
GetCell(p) ==
    /\ Serving /\ step[p] \in Cells /\ cell[step[p]] = "ready"
    /\ step' = [step EXCEPT ![p] = NextStep(step[p])]
    /\ UNCHANGED <<http, debt, admitted, clock, cell>>

TakeCell(p) ==
    /\ Serving /\ step[p] \in Cells /\ cell[step[p]] = "empty"
    /\ cell' = [cell EXCEPT ![step[p]] = p]
    /\ UNCHANGED <<http, debt, admitted, clock, step>>

CellInitialised(p) ==
    /\ Serving /\ step[p] \in Cells /\ cell[step[p]] = p
    /\ cell' = [cell EXCEPT ![step[p]] = "ready"]
    /\ step' = [step EXCEPT ![p] = NextStep(step[p])]
    /\ UNCHANGED <<http, debt, admitted, clock>>

\* Mutant of CellFails: the cell stays taken.
CellFailsHolding(p) ==
    /\ Serving /\ step[p] \in Cells /\ cell[step[p]] = p
    /\ step[p] = "USER_AGENTS" \/ http.machine.redis
    /\ http' = IF http.machine.profile = "release" THEN [http EXCEPT !.at = "panic"] ELSE http
    /\ cell' = cell
    /\ step' = [step EXCEPT ![p] = "idle"]
    /\ UNCHANGED <<debt, admitted, clock>>

\* The user agents' builder panics, or redis cannot be reached, which is an
\* expect.  A panic aborts a release build.  Otherwise the cell is empty again;
\* the blocking task's panic is an error answer, the other ends the connection.
CellFails(p) ==
    /\ Serving /\ step[p] \in Cells /\ cell[step[p]] = p
    /\ step[p] = "USER_AGENTS" \/ http.machine.redis
    /\ http' = IF http.machine.profile = "release" THEN [http EXCEPT !.at = "panic"] ELSE http
    /\ cell' = [cell EXCEPT ![step[p]] = "empty"]
    /\ step' = [step EXCEPT ![p] = "idle"]
    /\ UNCHANGED <<debt, admitted, clock>>

\* fetch_results from the cache on is SearchRoute.
Fetched(p) ==
    /\ Serving /\ step[p] = "fetching"
    /\ step' = [step EXCEPT ![p] = "idle"]
    /\ UNCHANGED <<http, debt, admitted, clock, cell>>

HandlerStep(p) ==
    GetCell(p) \/ TakeCell(p) \/ CellInitialised(p) \/ CellFails(p) \/ Fetched(p)

Second ==
    /\ Serving /\ clock < MaxClock
    /\ clock' = clock + 1
    /\ debt' = [w \in Workers |-> [p \in Peers |-> IF debt[w][p] = 0 THEN 0 ELSE debt[w][p] - 1]]
    /\ UNCHANGED <<http, admitted, cell, step>>

HttpNext ==
    \/ ParseConfig \/ BindHttp \/ Run \/ Second
    \/ \E p \in Peers :
         HandlerStep(p) \/ \E w \in Workers : Admit(p, w)

\* The runtime polls every handler that can go on.
HttpFairness == \A p \in Peers : WF_httpVars(HandlerStep(p))

-----------------------------------------------------------------------------
(* Properties.                                                             *)

OutOfBounds(option, value) ==
    CASE option = "threads" -> value = 0
      [] option = "safe_search" -> value > 4
      [] OTHER -> value < 60

\* Whatever config.lua says, a configuration that is served has workers, a limiter
\* that lets requests through, a level of 0 to 4 and cache times of a minute or
\* more; it is read from the first place that has a file, none before it being
\* unreadable, and an option that is in bounds is served as it is.
ServedConfigIsSound ==
    Serving =>
        LET served == http.config
            places == http.machine.config_places
            first == CHOOSE i \in DOMAIN places :
                       places[i] # "absent" /\ \A j \in 1 .. i - 1 : places[j] = "absent"
        IN  /\ served.threads > 0 /\ served.number_of_requests > 0 /\ served.time_limit > 0
            /\ served.safe_search \in 0 .. 4
            /\ served.cache_expiry_time >= 60 /\ served.http_cache_expiry_time >= 60
            /\ places[first] = "present"
            /\ \A option \in {"threads", "safe_search", "cache_expiry_time", "http_cache_expiry_time"} :
                 LET value == http.machine.files[first][option]
                 IN  served[option] = value \/ OutOfBounds(option, value)

\* Every worker limits every peer for itself: from the start it has admitted at
\* most the burst and one request for every period since, and it refuses a peer
\* only if it admitted a whole burst of it before.  So a server of n threads
\* admits up to n times the configured limit.
WorkersLimitPeers ==
    Serving => \A w \in Workers, p \in Peers :
        /\ admitted[w][p] <= Burst + clock \div Period
        /\ ~WithinQuota(w, p) => admitted[w][p] >= Burst

\* Every admitted request gets its answer while the process runs: those that wait
\* for a cell too, when the request that was to initialise it fails.
RequestsAnswered ==
    \A p \in Peers : step[p] # "idle" ~> step[p] = "idle" \/ ~Serving
=============================================================================
