----------------------------- MODULE ConfigFile -----------------------------
(***************************************************************************)
(* handler.rs and parser.rs: where the default edition finds its files,    *)
(* and what it makes of config.lua.                                        *)
(***************************************************************************)
EXTENDS Integers, Sequences

\* The places of a file, in the order in which they are tried, are each
\* "absent", "present" or "denied", where asking whether it exists is an error.
Tried(places) == {i \in DOMAIN places : places[i] # "absent"}

\* Mutant of file_path: a place that cannot be read is passed over.
file_path_skipping(places) ==
    LET found == {i \in DOMAIN places : places[i] = "present"}
    IN  IF found = {} THEN 0 ELSE CHOOSE i \in found : \A j \in found : i <= j

\* The number of the place, 0 if there is none or an error comes first.
file_path(places) ==
    IF Tried(places) = {} THEN 0
    ELSE LET first == CHOOSE i \in Tried(places) : \A j \in Tried(places) : i <= j
         IN  IF places[first] = "present" THEN first ELSE 0

\* Values of options: naturals, Nil for an option that is not set, and IllTyped
\* for anything that is no integer.  A proxy is "none", "url" or "no url".
Nil == -1
IllTyped == -2
FromLua(value, bound) == value \in 0 .. bound - 1

u8 == 256
u16 == 65536

\* Values that only bound others, or fall back to something.
Cores(machine) == (machine.cores \div 2) % u8
Threads(file, machine) == IF file.threads = 0 THEN Cores(machine) ELSE file.threads

SafeSearch(file) == IF file.safe_search <= 4 THEN file.safe_search ELSE 1
AtLeast60(time) == IF time < 60 THEN 60 ELSE time

\* What Config::parse converts with `?`.  Options that are only handed on are one:
\* others; a boolean is never an error, since mlua takes nil as false.
Converts(file) ==
    /\ file.lua
    /\ FromLua(file.threads, u8) /\ FromLua(file.safe_search, u8)
    /\ FromLua(file.cache_expiry_time, u16) /\ FromLua(file.http_cache_expiry_time, u8)
    /\ \A key \in {"number_of_requests", "time_limit"} : file[key] = Nil \/ FromLua(file[key], u8)
    /\ file.others

\* rate_limiter[..] of a HashMap panics for a key that it does not have.
Lacks(file) == file.number_of_requests = Nil \/ file.time_limit = Nil

Parse(file, machine) ==
    [threads |-> Threads(file, machine), safe_search |-> SafeSearch(file),
     cache_expiry_time |-> AtLeast60(file.cache_expiry_time),
     http_cache_expiry_time |-> AtLeast60(file.http_cache_expiry_time),
     number_of_requests |-> file.number_of_requests, time_limit |-> file.time_limit,
     proxy |-> IF file.proxy = "url" THEN "url" ELSE "none"]
=============================================================================
