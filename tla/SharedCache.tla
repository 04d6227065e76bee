----------------------------- MODULE SharedCache ----------------------------
(***************************************************************************)
(* SharedCache over SwitchCache over the cache servers: the in-memory      *)
(* cache, which the html edition always has, and redis where it is built   *)
(* with redis-cache (hybrid).  Every call clones the SwitchCache, awaits   *)
(* the servers with the clone, and cache_results stores its clone back.    *)
(* The clones share the servers; the redis pipeline is part of the clone.  *)
(***************************************************************************)
EXTENDS Integers, Sequences, FiniteSets

CONSTANTS
    Requests,       \* concurrent users of the cache
    Keys,           \* hashed urls
    KeyLists,       \* key lists that calls pass, for each build
    TTL,            \* cache_expiry_time
    Builds,         \* the cargo features, as "memory" or "hybrid"
    Failures,       \* whether redis fails and the process restarts
    MaxWrites       \* bound on the number of calls of cache_results

ASSUME KeyListsAssumption == KeyLists \in [Builds -> SUBSET Seq(Keys)]
ASSUME TTLAssumption == TTL \in Nat \ {0}
ASSUME BuildsAssumption == Builds \subseteq {"memory", "hybrid"}
ASSUME FailuresAssumption == Failures \in BOOLEAN
ASSUME BoundAssumption == MaxWrites \in Nat

\* The values cached are numbered by the call of cache_results that brings them.
Values == 1 .. MaxWrites

\* Time is kept as the number of ticks an entry has left to live.
Entry == [value: 0 .. MaxWrites, left: 0 .. TTL]
Absent == [value |-> 0, left |-> 0]
Command == [key: Keys, value: Values]     \* SET key value NX GET EX ttl

VARIABLES
    build,              \* never assigned
    redis, memory,      \* the two servers' tables
    redis_up,           \* the pool has a connection that answers PING
    pipeline,           \* RedisCache::pipeline of the shared SwitchCache
    at,                 \* where each request's call is ("idle": no call)
    keys, value,        \* its arguments
    commands,           \* pipeline of the SwitchCache it cloned
    seen,               \* the values stored for its key when it began (history)
    reply,              \* what the last step returned to a caller, if it did
    written,            \* number of calls of cache_results so far
    brought,            \* the keys each of them was called for
    undisturbed,        \* redis never failed and the process never restarted
    age                 \* ticks since a value was first stored for a key, at
                        \* most TTL; -1 until it is stored

servers == <<build, redis, memory, redis_up>>
calls == <<at, keys, value, commands, seen>>
history == <<written, brought, undisturbed, age>>
vars == <<servers, pipeline, calls, reply, history>>

\* What a call returns: a value with its age ("hit"), no value ("miss"), a
\* vector of bools ("flags") or Ok(()); with the keys it was asked about.
NoReply == [kind |-> "none", keys |-> <<>>, value |-> 0, age |-> 0, flags |-> <<>>,
            seen |-> {}]
Silent == reply' = NoReply

\* The feature redis-cache.
RedisBuild == build = "hybrid"

Init ==
    /\ build \in Builds
    /\ redis = [k \in Keys |-> Absent]
    /\ memory = [k \in Keys |-> Absent]
    /\ redis_up = TRUE      \* RedisCache::build expects the connections
    /\ pipeline = <<>>
    /\ at = [r \in Requests |-> "idle"]
    /\ keys = [r \in Requests |-> <<>>]
    /\ value = [r \in Requests |-> 0]
    /\ commands = [r \in Requests |-> <<>>]
    /\ seen = [r \in Requests |-> {}]
    /\ reply = NoReply
    /\ written = 0
    /\ brought = [v \in Values |-> {}]
    /\ undisturbed = TRUE
    /\ age = [k \in Keys |-> [v \in Values |-> -1]]

-----------------------------------------------------------------------------
(* The servers' tables.                                                    *)

Live(table, k) == table[k].left > 0

\* Mutant of Fresh: the TTL is one tick too short.
FreshTooShort(v) == [value |-> v, left |-> TTL - 1]

Fresh(v) == [value |-> v, left |-> TTL]

Older(table) ==
    [k \in Keys |-> IF table[k].left <= 1 THEN Absent ELSE [table[k] EXCEPT !.left = @ - 1]]

\* A pipeline of SET NX commands run in order: the first command for a key
\* that is not live sets it, all others for that key leave it alone.
Sets(cmds, k) == {i \in DOMAIN cmds : cmds[i].key = k}
FirstSet(cmds, k) ==
    cmds[CHOOSE i \in Sets(cmds, k) : \A j \in Sets(cmds, k) : i <= j].value

AfterSets(cmds) ==
    [k \in Keys |-> IF Live(redis, k) \/ Sets(cmds, k) = {}
                      THEN redis[k] ELSE Fresh(FirstSet(cmds, k))]

\* SET with GET replies nil when it set the key and else the value it found,
\* which is no bool.
SomeSetFindsValue(cmds) ==
    \/ \E i \in DOMAIN cmds : Live(redis, cmds[i].key)
    \/ \E k \in Keys : Cardinality(Sets(cmds, k)) > 1

\* Start the age of the values that a step puts into a table for the first time.
Born(table) ==
    [k \in Keys |-> [v \in Values |->
        IF age[k][v] = -1 /\ table[k] = Fresh(v) THEN 0 ELSE age[k][v]]]

-----------------------------------------------------------------------------
(* Calls.                                                                  *)

Call(r, step, ks, v, cmds, stored) ==
    /\ at' = [at EXCEPT ![r] = step]
    /\ keys' = [keys EXCEPT ![r] = ks]
    /\ value' = [value EXCEPT ![r] = v]
    /\ commands' = [commands EXCEPT ![r] = cmds]
    /\ seen' = [seen EXCEPT ![r] = stored]
    /\ Silent

Go(r, step) == at' = [at EXCEPT ![r] = step] /\ Silent /\ UNCHANGED <<keys, value, commands, seen>>

Return(r, answer) ==
    /\ at' = [at EXCEPT ![r] = "idle"]
    /\ keys' = [keys EXCEPT ![r] = <<>>]
    /\ value' = [value EXCEPT ![r] = 0]
    /\ commands' = [commands EXCEPT ![r] = <<>>]
    /\ seen' = [seen EXCEPT ![r] = {}]
    /\ reply' = answer

Answered(r, kind) == [NoReply EXCEPT !.kind = kind, !.keys = keys[r], !.seen = seen[r]]
Hit(r, v) == [Answered(r, "hit") EXCEPT !.value = v, !.age = age[keys[r][1]][v]]
Flags(r, bools) == [Answered(r, "flags") EXCEPT !.flags = bools]

\* SharedCache::cache clones the SwitchCache, the pipeline included.
Clone == IF RedisBuild THEN pipeline ELSE <<>>

RedisOr(redis_step, memory_step) == IF RedisBuild THEN redis_step ELSE memory_step

(* cached_results *)

BeginRead(r) ==
    /\ at[r] = "idle"
    /\ \E k \in Keys :
         Call(r, "read_memory", <<k>>, 0, <<>>, {v \in Values : age[k][v] >= 0})
    /\ UNCHANGED <<servers, pipeline, history>>

\* Mutants of ReadMemory: a hit starts the TTL again; a second miss goes back
\* to redis.
ReadMemorySliding(r) ==
    /\ at[r] \in {"read_memory", "read_memory_again"}
    /\ LET k == keys[r][1] IN
         IF Live(memory, k)
           THEN /\ memory' = [memory EXCEPT ![k] = Fresh(@.value)]
                /\ Return(r, Hit(r, memory[k].value))
         ELSE /\ IF RedisBuild /\ at[r] = "read_memory" THEN Go(r, "read_redis")
                 ELSE Return(r, Answered(r, "miss"))
              /\ UNCHANGED memory
    /\ UNCHANGED <<build, redis, redis_up, pipeline, history>>
ReadMemoryRetrying(r) ==
    /\ at[r] \in {"read_memory", "read_memory_again"}
    /\ LET k == keys[r][1] IN
         IF Live(memory, k) THEN Return(r, Hit(r, memory[k].value)) ELSE Go(r, "read_redis")
    /\ UNCHANGED <<servers, pipeline, history>>

ReadMemory(r) ==
    /\ at[r] \in {"read_memory", "read_memory_again"}
    /\ LET k == keys[r][1] IN
         IF Live(memory, k) THEN Return(r, Hit(r, memory[k].value))
         ELSE IF RedisBuild /\ at[r] = "read_memory" THEN Go(r, "read_redis")
         ELSE Return(r, Answered(r, "miss"))
    /\ UNCHANGED <<servers, pipeline, history>>

\* Mutant of ReadRedis: take the reply to another command of the shared connection.
ReadRedisOfAny(r) ==
    /\ at[r] = "read_redis"
    /\ \E k \in Keys :
         IF redis_up /\ Live(redis, k)
           THEN /\ at' = [at EXCEPT ![r] = "populate_memory"]
                /\ value' = [value EXCEPT ![r] = redis[k].value]
                /\ Silent /\ UNCHANGED <<keys, commands, seen>>
           ELSE Go(r, "read_memory_again")
    /\ UNCHANGED <<servers, pipeline, history>>

\* No connection, or a nil reply that is not a string: an Err, which sends the call
\* back to the in-memory cache.
ReadRedis(r) ==
    /\ at[r] = "read_redis"
    /\ LET k == keys[r][1] IN
         IF redis_up /\ Live(redis, k)
           THEN /\ at' = [at EXCEPT ![r] = "populate_memory"]
                /\ value' = [value EXCEPT ![r] = redis[k].value]
                /\ Silent /\ UNCHANGED <<keys, commands, seen>>
           ELSE Go(r, "read_memory_again")
    /\ UNCHANGED <<servers, pipeline, history>>

PopulateMemory(r) ==
    /\ at[r] = "populate_memory"
    /\ LET k == keys[r][1] IN
         /\ memory' = [memory EXCEPT ![k] = Fresh(value[r])]
         /\ Return(r, Hit(r, value[r]))
    /\ UNCHANGED <<build, redis, redis_up, pipeline, history>>

(* cached_results_exists *)

BeginExists(r) ==
    /\ at[r] = "idle"
    /\ \E ks \in KeyLists[build] :
         Call(r, RedisOr("exists_redis", "exists_memory"), ks, 0, Clone, {})
    /\ UNCHANGED <<servers, pipeline, history>>

\* Mutant of ExistsFlags: the urls that are not cached are left out.
ExistsFlagsFound(table, ks) ==
    LET found(k) == Live(table, k)
        ks_found == SelectSeq(ks, found)
    IN  [i \in DOMAIN ks_found |-> TRUE]

ExistsFlags(table, ks) == [i \in DOMAIN ks |-> Live(table, ks[i])]

\* The EXISTS commands are appended to whatever the cloned pipeline holds, so
\* the SET commands in it are run again and their replies precede the flags.
ExistsRedis(r) ==
    /\ at[r] = "exists_redis"
    /\ IF redis_up
         THEN /\ redis' = AfterSets(commands[r])
              /\ age' = Born(redis')
              /\ IF ~SomeSetFindsValue(commands[r])
                   THEN Return(r, Flags(r, [i \in DOMAIN commands[r] |-> FALSE]
                                          \o [i \in DOMAIN keys[r] |->
                                                redis'[keys[r][i]].left > 0]))
                   ELSE Go(r, "exists_memory")
         ELSE /\ Go(r, "exists_memory")
              /\ UNCHANGED <<redis, age>>
    /\ UNCHANGED <<build, memory, redis_up, pipeline, written, brought, undisturbed>>

ExistsMemory(r) ==
    /\ at[r] = "exists_memory"
    /\ Return(r, Flags(r, ExistsFlags(memory, keys[r])))
    /\ UNCHANGED <<servers, pipeline, history>>

(* cache_results *)

BeginWrite(r) ==
    /\ at[r] = "idle"
    /\ written < MaxWrites
    /\ written' = written + 1
    /\ \E ks \in KeyLists[build] :
         /\ Call(r, RedisOr("write_redis", "write_memory"), ks, written + 1, Clone, {})
         /\ brought' = [brought EXCEPT ![written + 1] = {ks[i] : i \in DOMAIN ks}]
    /\ UNCHANGED <<servers, pipeline, undisturbed, age>>

NewCommands(r) == [i \in DOMAIN keys[r] |-> [key |-> keys[r][i], value |-> value[r]]]

\* The commands are appended to the pipeline before a connection is looked for,
\* and stay in it whether or not there is one.
WriteRedis(r) ==
    /\ at[r] = "write_redis"
    /\ LET cmds == commands[r] \o NewCommands(r) IN
         /\ commands' = [commands EXCEPT ![r] = cmds]
         /\ IF redis_up
              THEN /\ redis' = AfterSets(cmds)
                   /\ age' = Born(redis')
                   /\ at' = [at EXCEPT ![r] = "store_back"]
              ELSE /\ at' = [at EXCEPT ![r] = "write_memory"]
                   /\ UNCHANGED <<redis, age>>
    /\ Silent /\ UNCHANGED <<keys, value, seen>>
    /\ UNCHANGED <<build, memory, redis_up, pipeline, written, brought, undisturbed>>

\* One task per key inserts into the in-memory cache, in any order; the call
\* goes on when all have.
WriteMemory(r) ==
    /\ at[r] = "write_memory"
    /\ IF keys[r] = <<>>
         THEN Go(r, "store_back") /\ UNCHANGED <<memory, age>>
         ELSE \E i \in DOMAIN keys[r] :
                /\ memory' = [memory EXCEPT ![keys[r][i]] = Fresh(value[r])]
                /\ age' = Born(memory')
                /\ keys' = [keys EXCEPT ![r] = [j \in 1 .. Len(@) - 1 |->
                                IF j < i THEN @[j] ELSE @[j + 1]]]
                /\ Silent /\ UNCHANGED <<at, value, commands, seen>>
    /\ UNCHANGED <<build, redis, redis_up, pipeline, written, brought, undisturbed>>

\* SharedCache::cache_results makes its clone the shared SwitchCache.
StoreBack(r) ==
    /\ at[r] = "store_back"
    /\ pipeline' = commands[r]
    /\ Return(r, Answered(r, "ok"))
    /\ UNCHANGED <<servers, history>>

CallStep(r) ==
    \/ ReadMemory(r) \/ ReadRedis(r) \/ PopulateMemory(r)
    \/ ExistsRedis(r) \/ ExistsMemory(r)
    \/ WriteRedis(r) \/ WriteMemory(r) \/ StoreBack(r)

BeginCall(r) == BeginRead(r) \/ BeginExists(r) \/ BeginWrite(r)

-----------------------------------------------------------------------------
(* The environment.                                                        *)

Tick ==
    /\ redis' = Older(redis)
    /\ memory' = Older(memory)
    /\ age' = [k \in Keys |-> [v \in Values |->
                  IF age[k][v] \in 0 .. TTL - 1 THEN age[k][v] + 1 ELSE age[k][v]]]
    /\ Silent
    /\ UNCHANGED <<build, redis_up, pipeline, calls, written, brought, undisturbed>>

\* The redis server becomes unreachable, and comes back with or without its data.
RedisFails ==
    /\ Failures /\ RedisBuild /\ redis_up
    /\ redis_up' = FALSE
    /\ undisturbed' = FALSE
    /\ Silent
    /\ UNCHANGED <<build, redis, memory, pipeline, calls, written, brought, age>>

RedisRecovers ==
    /\ ~redis_up
    /\ redis_up' = TRUE
    /\ redis' \in {redis, [k \in Keys |-> Absent]}
    /\ Silent
    /\ UNCHANGED <<build, memory, pipeline, calls, history>>

\* The search engine's own process stops and is started again; redis must be
\* reachable for it to start.
Restart ==
    /\ Failures /\ redis_up
    /\ memory' = [k \in Keys |-> Absent]
    /\ pipeline' = <<>>
    /\ at' = [r \in Requests |-> "idle"]
    /\ keys' = [r \in Requests |-> <<>>]
    /\ value' = [r \in Requests |-> 0]
    /\ commands' = [r \in Requests |-> <<>>]
    /\ seen' = [r \in Requests |-> {}]
    /\ reply' = NoReply
    /\ undisturbed' = FALSE
    /\ UNCHANGED <<build, redis, redis_up, written, brought, age>>

Next ==
    \/ \E r \in Requests : BeginCall(r) \/ CallStep(r)
    \/ Tick \/ RedisFails \/ RedisRecovers \/ Restart

\* Every call in progress is polled by its worker until it returns: redis
\* either answers or drops the connection.  New calls, failures and the clock
\* are the environment's.
Spec == Init /\ [][Next]_vars /\ \A r \in Requests : WF_vars(CallStep(r))

-----------------------------------------------------------------------------
(* Properties.                                                             *)

\* cached_results only ever returns, for a url, results that cache_results was
\* called with for that very url, whichever server they come from and whatever
\* calls overlap.
HitsWereCached ==
    reply.kind = "hit" => reply.keys[1] \in brought[reply.value]

\* While no server loses its data, cached_results misses only when nothing that
\* was stored for the url before the call began is younger than the TTL: what
\* cache_results has stored, every later call finds.
MissesOnlyWhatExpired ==
    reply.kind = "miss" /\ undisturbed =>
        \A v \in reply.seen : age[reply.keys[1]][v] = TTL

\* How many steps a call may still take, were it alone: reads and checks try
\* each server once or twice, a write its n keys one by one after redis failed.
StepsToReturn(step, n) ==
    CASE step = "idle" -> 0
      [] step \in {"read_memory_again", "populate_memory", "exists_memory", "store_back"} -> 1
      [] step \in {"read_redis", "exists_redis"} -> 2
      [] step = "read_memory" -> 3
      [] step = "write_memory" -> n + 2
      [] step = "write_redis" -> n + 3
CallStepsLeft(r) == StepsToReturn(at[r], Len(keys[r]))

\* No call tries forever: its every step brings it nearer to its return, and
\* nothing that happens meanwhile, redis coming and going, other calls or the
\* clock, sets it back.  A read takes at most three steps, a write three more
\* than it has keys.
CallsAdvance ==
    [][\A r \in Requests :
          /\ CallStep(r) => CallStepsLeft(r)' < CallStepsLeft(r)
          /\ at[r] # "idle" => CallStepsLeft(r)' \in 0 .. CallStepsLeft(r)]_vars

\* Every call returns, also when redis goes away or comes back between its steps.
CallsReturn == \A r \in Requests : at[r] # "idle" ~> at[r] = "idle"

-----------------------------------------------------------------------------
(* What the docs say of the cache; true of the in-memory cache alone, and  *)
(* not of the hybrid.                                                      *)

\* cached_results never returns results that were first stored TTL ago or
\* earlier (docs/configuration.md: cache_expiry_time is the "maximum time the
\* server will store the cache for").
FreshHits == reply.kind = "hit" => reply.age < TTL

RecentlyStored(k) == \E v \in Values : age[k][v] \in 0 .. TTL - 1

\* cached_results_exists returns one bool per url it was asked about ("a Vector
\* containing booleans for each respective url"), in that order, and says true
\* only of urls something was stored for within the TTL.
ExistsAnswersItsKeys ==
    reply.kind = "flags" =>
        /\ Len(reply.flags) = Len(reply.keys)
        /\ \A i \in DOMAIN reply.keys : reply.flags[i] => RecentlyStored(reply.keys[i])
=============================================================================
