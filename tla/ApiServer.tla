------------------------------ MODULE ApiServer -----------------------------
(***************************************************************************)
(* The api-only edition: bin/tinysurfx.rs starts it, api_server.rs answers *)
(* every request in a thread of its own.  The threads share the            *)
(* configuration, which nothing changes any more.                          *)
(***************************************************************************)
EXTENDS ApiConfig

CONSTANTS
    Requests,       \* the threads of the requests to the server
    Envs, ArgLists, \* environments and command lines it is started with
    Urls,           \* [method, path, params] of requests
    KnownEngines    \* names for which EngineHandler::new succeeds

ASSUME EnvsAssumption ==
    \A env \in Envs :
        /\ DOMAIN env \subseteq DOMAIN Options
        /\ \A option \in DOMAIN env : IsSet(env, option) => env[option] \in Texts
ASSUME ArgListsAssumption == ArgLists \subseteq Seq(Texts)
ASSUME UrlsAssumption == \A url \in Urls : url.params \in Seq([key: STRING, value: STRING])

VARIABLES
    api,            \* [env, args, at, config]: the process
    request         \* per thread, the request under way or answered

apiVars == <<api, request>>

NoConfig == Reading(<<>>, "none", "none")
NoRequest == [at |-> "none"]
NotFetched == [query |-> "none"]

ApiOff ==
    /\ api = [env |-> <<>>, args |-> <<>>, at |-> "off", config |-> NoConfig]
    /\ request = [c \in Requests |-> NoRequest]

ApiInit ==
    /\ api \in [env: Envs, args: ArgLists, at: {"started"}, config: {NoConfig}]
    /\ request = [c \in Requests |-> NoRequest]

\* main: --help and --version exit with 0, any other end of the reading with 2.
ReadConfig ==
    LET reading == from_env_and_args(api.env, api.args)
    IN  /\ api.at = "started"
        /\ api' = [api EXCEPT !.config = reading,
                              !.at = CASE reading.end = "ok" -> "configured"
                                       [] reading.end \in {"HelpRequested", "version"} -> "exit_0"
                                       [] OTHER -> "exit_2"]
        /\ UNCHANGED request

\* Server::http succeeds, or the address is taken and main returns an error.
BindApi ==
    /\ api.at = "configured"
    /\ \E how \in {"serving", "exit_1"} : api' = [api EXCEPT !.at = how]
    /\ UNCHANGED request

config == api.config.values

Receive(c) ==
    /\ api.at = "serving" /\ request[c].at = "none"
    /\ \E url \in Urls : request' = [request EXCEPT ![c] = [at |-> "received", url |-> url]]
    /\ UNCHANGED api

\* The parameters of handle_search as its loop leaves them, or a bad request.
Params(query, page, level, bad) == [query |-> query, page |-> page, level |-> level, bad |-> bad]

\* Mutant of NextParam: a value that is no number is passed over.
NextParamLenient(params, p) ==
    IF params.bad THEN params
    ELSE CASE p.key = "q" -> [params EXCEPT !.query = p.value]
           [] p.key = "page" /\ p.value \in DOMAIN Reads.u32 ->
                [params EXCEPT !.page = Reads.u32[p.value]]
           [] p.key = "safesearch" /\ p.value \in DOMAIN Reads.u8 ->
                [params EXCEPT !.level = Reads.u8[p.value]]
           [] OTHER -> params

NextParam(params, p) ==
    IF params.bad THEN params
    ELSE CASE p.key = "q" -> [params EXCEPT !.query = p.value]
           [] p.key = "page" -> IF p.value \in DOMAIN Reads.u32
                                  THEN [params EXCEPT !.page = Reads.u32[p.value]]
                                  ELSE [params EXCEPT !.bad = TRUE]
           [] p.key = "safesearch" -> IF p.value \in DOMAIN Reads.u8
                                        THEN [params EXCEPT !.level = Reads.u8[p.value]]
                                        ELSE [params EXCEPT !.bad = TRUE]
           [] OTHER -> params

\* params[n] is what the first n parameters of the url make.
ParamsOf(url) ==
    LET params[n \in 0 .. Len(url.params)] ==
          IF n = 0 THEN Params("", 0, config.safe_search, FALSE)
          ELSE NextParam(params[n - 1], url.params[n])
    IN  params[Len(url.params)]

\* Reads.query has the trimmed text of a query that is not blank.
IsQuery(word) == word \in DOMAIN Reads.query

Enabled == config.engines \cap KnownEngines

Respond(c, status, code) ==
    request' = [request EXCEPT ![c] = [at |-> "answered", url |-> request[c].url, status |-> status,
                                       code |-> code, fetched |-> NotFetched]]

handle_search(c) ==
    LET params == ParamsOf(request[c].url)
    IN  IF params.bad THEN Respond(c, 400, "bad_request")
        ELSE IF ~IsQuery(params.query) THEN Respond(c, 400, "empty_query")
        ELSE IF params.level > 2 THEN Respond(c, 400, "bad_request")
        ELSE IF Enabled = {} THEN Respond(c, 500, "no_engines")
        ELSE request' = [request EXCEPT ![c] =
               [at |-> "aggregating", url |-> request[c].url,
                fetched |-> [query |-> Reads.query[params.query], page |-> params.page,
                             level |-> params.level, engines |-> Enabled]]]

Endpoint(url) == IF url.method = "GET" /\ url.path \in {"/healthz", "/search"} THEN url.path ELSE "none"

route(c) ==
    /\ request[c].at = "received"
    /\ CASE Endpoint(request[c].url) = "/healthz" -> Respond(c, 200, "ok")
         [] Endpoint(request[c].url) = "/search" -> handle_search(c)
         [] OTHER -> Respond(c, 404, "not_found")
    /\ UNCHANGED api

\* aggregate fails when a list file cannot be read, which it reads from level 3
\* on; engines that fail are entries of a result like any other.
AggregateEnds(level) == {"results"} \cup IF level >= 3 THEN {"error"} ELSE {}

Aggregated(c) ==
    /\ request[c].at = "aggregating"
    /\ \E end \in AggregateEnds(request[c].fetched.level), failed \in SUBSET request[c].fetched.engines :
         request' = [request EXCEPT ![c] =
           [at |-> "answered", url |-> request[c].url, fetched |-> request[c].fetched, failed |-> failed,
            status |-> IF end = "error" THEN 502 ELSE 200,
            code |-> IF end = "error" THEN "upstream_failed" ELSE "ok"]]
    /\ UNCHANGED api

ApiNext == ReadConfig \/ BindApi \/ \E c \in Requests : Receive(c) \/ route(c) \/ Aggregated(c)

-----------------------------------------------------------------------------
(* Properties.                                                             *)

\* A server that serves has for every option the last value its flag was given,
\* else the environment's, else the default ("CLI > env > default"), and a level
\* of at most 2, threads and engines; it refuses to start only over a command line
\* or a variable that cannot be parsed, or such values in force.
ApiConfigInEffect ==
    LET env == api.env
        args == api.args
        parses == WellFormed(args) /\ \A o \in DOMAIN env : IsSet(env, o) => Parses(o, env[o])
        sound == /\ Preferred(env, args, "safe_search") <= 2
                 /\ Preferred(env, args, "threads") > 0
                 /\ Preferred(env, args, "engines") # {}
    IN  /\ api.at \in {"configured", "serving", "exit_1"} =>
             parses /\ sound /\ \A o \in DOMAIN Options : config[o] = Preferred(env, args, o)
        /\ api.at = "exit_2" => ~(parses /\ sound)
        /\ api.at = "exit_0" => \E i \in DOMAIN args : args[i] \in {"--help", "-h", "--version", "-V"}

Values(url, key) == {i \in DOMAIN url.params : url.params[i].key = key}
LastValue(url, key) ==
    url.params[CHOOSE i \in Values(url, key) : \A j \in Values(url, key) : j <= i].value

\* What the url's numbers and last values say.
Numbers(url) ==
    /\ \A i \in Values(url, "page") : url.params[i].value \in DOMAIN Reads.u32
    /\ \A i \in Values(url, "safesearch") : url.params[i].value \in DOMAIN Reads.u8
Asked(url) == Values(url, "q") # {} /\ IsQuery(LastValue(url, "q"))
Level(url) ==
    IF Values(url, "safesearch") = {} THEN config.safe_search ELSE Reads.u8[LastValue(url, "safesearch")]
Page(url) == IF Values(url, "page") = {} THEN 0 ELSE Reads.u32[LastValue(url, "page")]

Fault(url) ==
    IF ~Numbers(url) THEN "bad_request" ELSE IF ~Asked(url) THEN "empty_query"
    ELSE IF Level(url) > 2 THEN "bad_request" ELSE "none"

\* The status tells the client what happened: 200 from /search only if the last
\* query is not blank, every number in the url is one, the level in force is at
\* most 2 and an enabled engine is known, and then what was fetched is what the
\* url's last values and the configuration say; 400 only for the url's faults, 500
\* only if no enabled engine is known.  A 200 does not say that any of the engines
\* answered, though the design document promises 502 if none does.
AnswersMatchRequests ==
    \A c \in Requests : request[c].at = "answered" =>
        LET url == request[c].url
        IN  CASE Endpoint(url) = "none" -> request[c].status = 404
              [] Endpoint(url) = "/healthz" -> request[c].status = 200
              [] Endpoint(url) = "/search" ->
                   /\ request[c].status = 400 <=> Fault(url) # "none"
                   /\ request[c].status = 400 => request[c].code = Fault(url)
                   /\ request[c].status = 500 => config.engines \cap KnownEngines = {}
                   /\ request[c].status = 200 =>
                        request[c].fetched = [query |-> Reads.query[LastValue(url, "q")], page |-> Page(url),
                                              level |-> Level(url), engines |-> Enabled]
=============================================================================
