----------------------------- MODULE MCEditions -----------------------------
(* The two editions with few words, options, urls and machines. *)
EXTENDS Editions, TLC

\* Numbers, a number that is no u8, engine lists, and words of other forms.
MCReads ==
    LET numbers == ("0" :> 0) @@ ("1" :> 1) @@ ("3" :> 3)
        lists == (" , " :> {}) @@ ("Bing,x" :> {"bing", "x"}) @@ ("x" :> {"x"})
                   @@ [w \in {"0", "1", "3", "off", "[::1]:80", "socks5://h", "--help", "--version",
                              "--what", "--engines", "--threads", "--safe-search", "--bind",
                              "--proxy"} |-> {w}]
    IN  [u8 |-> numbers, u32 |-> numbers @@ ("300" :> 300), engines |-> lists,
         bool |-> ("yes" :> TRUE) @@ ("off" :> FALSE), bind |-> ("[::1]:80" :> "::1:80"),
         proxy |-> ("socks5://h" :> "socks5://h"), query |-> (" tla " :> "tla") @@ ("x" :> "x")]

Words == {"--threads", "--safe-search", "--engines", "--help", "--what", "0", "3", "x", " , "}

\* All short command lines; longer ones of two options, and of one given twice.
Pair(f, v) == <<f, v>>
Pairs == {Pair(f, v) : f \in {"--threads", "--safe-search"}, v \in {"0", "1", "x"}}
           \cup {Pair("--engines", v) : v \in {"Bing,x", " , ", "--help"}}
           \cup {Pair("--bind", "[::1]:80"), Pair("--bind", "x"), Pair("--proxy", "socks5://h")}
MCArgLists ==
    UNION {[1 .. n -> Words] : n \in 0 .. 2} \cup {a \o b : a \in Pairs, b \in Pairs}
      \cup {p \o <<w>> : p \in Pairs, w \in {"--version", "--threads", "x"}}

MCEnvs ==
    {<<>>, [threads |-> "0"], [threads |-> "x", engines |-> "x"], [safe_search |-> "3"],
     [safe_search |-> "1", engines |-> "Bing,x"], [threads |-> NotUnicode, adaptive_window |-> "off"],
     [engines |-> " , "], [adaptive_window |-> "x"]}

P(key, value) == [key |-> key, value |-> value]
Search(params) == [method |-> "GET", path |-> "/search", params |-> params]
MCParams ==
    LET some == {P("q", " tla "), P("q", " "), P("page", "1"), P("page", "300"), P("page", "x"),
                 P("safesearch", "1"), P("safesearch", "3"), P("safesearch", "300"), P("other", "x")}
    IN  UNION {[1 .. n -> some] : n \in 0 .. 2}
          \cup {<<P("q", "x")>> \o s : s \in [1 .. 2 -> {P("page", "1"), P("page", "300"), P("safesearch", "3"),
                                                         P("safesearch", "0"), P("q", " tla ")}]}
MCUrls ==
    {Search(params) : params \in MCParams}
      \cup {[method |-> m, path |-> p, params |-> <<>>] : m \in {"GET", "POST"}, p \in {"/healthz", "/"}}

MCFile ==
    [lua |-> TRUE, threads |-> 1, safe_search |-> 2, cache_expiry_time |-> 600,
     http_cache_expiry_time |-> 60, number_of_requests |-> 1, time_limit |-> 2, proxy |-> "none",
     others |-> TRUE]

\* One option after the other at, below and above its bounds, or unreadable.
MCFiles ==
    {MCFile} \cup {[MCFile EXCEPT !.lua = FALSE], [MCFile EXCEPT !.others = FALSE],
                   [MCFile EXCEPT !.proxy = "no url"]}
      \cup {[MCFile EXCEPT !.threads = n] : n \in {0, 2, 256, Nil}}
      \cup {[MCFile EXCEPT !.safe_search = n] : n \in {0, 4, 5, 255, IllTyped}}
      \cup {[MCFile EXCEPT !.cache_expiry_time = n] : n \in {0, 59, 60, 65535, 65536}}
      \cup {[MCFile EXCEPT !.http_cache_expiry_time = n] : n \in {59, 255, 256}}
      \cup {[MCFile EXCEPT !.number_of_requests = n] : n \in {0, 1, 256, Nil}}
      \cup {[MCFile EXCEPT !.time_limit = n] : n \in {0, 1, IllTyped, Nil}}

MCMachine ==
    [config_places |-> <<"absent", "present", "absent">>, theme_places |-> <<"absent", "present">>,
     files |-> <<MCFile, MCFile, MCFile>>, cores |-> 4, redis |-> FALSE, profile |-> "release"]

Places(n) == [1 .. n -> {"absent", "present", "denied"}]

\* A machine's files, directories, cores and build, one aspect at a time.
MCMachines ==
    {[MCMachine EXCEPT !.files[2] = f] : f \in MCFiles}
      \cup {[MCMachine EXCEPT !.config_places = p, !.files[1].safe_search = 0, !.files[3].safe_search = 4] :
              p \in Places(3)}
      \cup {[MCMachine EXCEPT !.theme_places = p] : p \in Places(2)}
      \cup {[MCMachine EXCEPT !.cores = n, !.files[2].threads = 0] : n \in {1, 4, 512}}
      \cup {[MCMachine EXCEPT !.redis = (p = "dev"), !.profile = p, !.files[2].threads = 2,
                             !.files[2].number_of_requests = 2] : p \in {"release", "dev"}}
=============================================================================
