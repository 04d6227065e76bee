----------------------------- MODULE CacheCodec ----------------------------
(***************************************************************************)
(* What a cached value goes through on its way to a server and back:       *)
(* postcard, then brotli, ChaCha20-Poly1305 or both, and base64 for redis, *)
(* in every build that compiles: the html edition with its in-memory cache *)
(* and, in the hybrid, redis.  The cipher's key lives in the process, so a *)
(* restart changes it, while redis keeps what it holds.  SharedCache has   *)
(* the interleavings of calls; here a call is one step.                    *)
(***************************************************************************)
EXTENDS Integers, Sequences

CONSTANTS
    Keys,           \* hashed urls
    TTL,            \* cache_expiry_time
    Builds,         \* pairs of servers and features
    MaxProcesses,   \* bound on the number of starts of the program
    MaxCommands     \* bound on the commands in the pipeline

Features == {"compress", "encrypt", "cec"}

\* Cargo.toml: html-edition enables memory-cache, and cec-cache-results the other
\* two features; encryption::* is imported only with redis-cache.
Compiles(b) ==
    /\ b.servers \in {"memory", "hybrid"} /\ b.features \subseteq Features
    /\ "encrypt" \in b.features => b.servers = "hybrid"
    /\ "cec" \in b.features => {"compress", "encrypt"} \subseteq b.features

ASSUME TTLAssumption == TTL \in Nat \ {0}
ASSUME BuildsAssumption == \A b \in Builds : Compiles(b)
ASSUME BoundsAssumption == MaxProcesses \in Nat \ {0} /\ MaxCommands \in Nat

VARIABLES
    build,          \* never assigned
    process,        \* number of the running process, and so of its CIPHER
    redis, memory,  \* the two servers' tables
    redis_up,
    pipeline,       \* RedisCache::pipeline of the shared SwitchCache
    reply           \* what the last step returned to a caller, if it did

vars == <<build, process, redis, memory, redis_up, pipeline, reply>>

RedisBuild == build.servers = "hybrid"
On(feature) == feature \in build.features

-----------------------------------------------------------------------------
(* Values and their layers, outermost first.                               *)

Compressed == [op |-> "compressed", key |-> 0]
Encrypted(p) == [op |-> "encrypted", key |-> p]
Base64 == [op |-> "base64", key |-> 0]

\* The results of a page, told apart by the process that fetched them.
Page(k, p) == [key |-> k, process |-> p]

\* Bytes, or the error of a step that could not make sense of them.
Bytes(page, layers, error) == [page |-> page, layers |-> layers, error |-> error]
Ok(b) == b.error = "none"
Missing(k, error) == Bytes(Page(k, 0), <<>>, error)

Wrap(b, layer) == Bytes(b.page, <<layer>> \o b.layers, b.error)
Unwrap(b, layer, error) ==
    IF ~Ok(b) THEN b
    ELSE IF b.layers # <<>> /\ b.layers[1] = layer
           THEN Bytes(b.page, Tail(b.layers), b.error)
           ELSE Bytes(b.page, b.layers, error)

compress_results(b) == Wrap(b, Compressed)
decompress_util(b) == Unwrap(b, Compressed, "CompressionError")

\* The compress-cache-results branch comes first in the cfg_if, and
\* cec-cache-results enables that feature.
decompress_results(b) == decompress_util(b)

encrypt_results(b, p) == Wrap(b, Encrypted(p))

\* Mutant of decrypt_results: the key outlives the process.
decrypt_results_any_key(b, p) ==
    IF b.layers # <<>> /\ b.layers[1].op = "encrypted"
      THEN [b EXCEPT !.layers = Tail(@)] ELSE [b EXCEPT !.error = "EncryptionError"]

\* Authenticated decryption fails for every key but the one that encrypted.
decrypt_results(b, p) == Unwrap(b, Encrypted(p), "EncryptionError")

compress_encrypt_compress_results(b, p) ==
    compress_results(encrypt_results(compress_results(b), p))

\* Mutant of pre_process_search_results: compresses in the encrypting build too.
pre_process_always_compressing(page, p) ==
    LET compressed == compress_results(Bytes(page, <<>>, "none"))
    IN  IF On("encrypt") THEN encrypt_results(compressed, p) ELSE compressed

pre_process_search_results(page, p) ==
    LET bytes == Bytes(page, <<>>, "none")
        compressed == IF On("compress") THEN compress_results(bytes) ELSE bytes
        encrypted == IF On("encrypt") THEN encrypt_results(compressed, p) ELSE compressed
    IN  IF On("cec") THEN compress_encrypt_compress_results(encrypted, p) ELSE encrypted

\* postcard::from_bytes of anything but what postcard wrote.
from_bytes(b) ==
    IF Ok(b) /\ b.layers # <<>> THEN Bytes(b.page, b.layers, "SerializationError") ELSE b

\* The steps are undone in the order in which they were done.
post_process_search_results(bytes, p) ==
    LET decompressed == IF On("compress") THEN decompress_results(bytes) ELSE bytes
        decrypted == IF On("encrypt") THEN decrypt_results(decompressed, p) ELSE decompressed
    IN  from_bytes(IF On("cec") THEN decompress_results(decrypted) ELSE decrypted)

base64_encode(b) == Wrap(b, Base64)
base64_decode(b) == Unwrap(b, Base64, "Base64DecodingOrEncodingError")

-----------------------------------------------------------------------------
(* The servers.  Time is the number of ticks an entry has left.            *)

Absent == [bytes |-> <<>>, left |-> 0]
Live(table, k) == table[k].left > 0

Fresh(bytes) == [bytes |-> bytes, left |-> TTL]
Older(table) ==
    [k \in Keys |-> IF table[k].left <= 1 THEN Absent ELSE [table[k] EXCEPT !.left = @ - 1]]

Command(k, bytes) == [key |-> k, bytes |-> bytes]
Sets(cmds, k) == {i \in DOMAIN cmds : cmds[i].key = k}

\* Mutant of AfterSets: SET without NX gives a key that lives a whole TTL again.
AfterSetsRenewing(cmds) ==
    [k \in Keys |-> IF Sets(cmds, k) = {} THEN redis[k]
                    ELSE IF Live(redis, k) THEN [redis[k] EXCEPT !.left = TTL]
                    ELSE Fresh(cmds[CHOOSE i \in Sets(cmds, k) : TRUE].bytes)]

\* SET NX EX of every command: the first for a key that does not live sets it.
AfterSets(cmds) ==
    [k \in Keys |-> IF Live(redis, k) \/ Sets(cmds, k) = {} THEN redis[k]
                    ELSE Fresh(cmds[CHOOSE i \in Sets(cmds, k) :
                                      \A j \in Sets(cmds, k) : i <= j].bytes)]

\* SET with GET replies with a value it finds, which is no bool.
SomeSetFindsValue(cmds) ==
    \E i \in DOMAIN cmds : Live(redis, cmds[i].key) \/ (\E j \in 1 .. i - 1 : cmds[j].key = cmds[i].key)

InMemory(k) ==
    IF Live(memory, k) THEN post_process_search_results(memory[k].bytes, process)
                       ELSE Missing(k, "MissingValue")

InRedis(k) ==
    IF ~redis_up THEN Missing(k, "PoolExhaustionWithConnectionDropError")
    ELSE IF ~Live(redis, k) THEN Missing(k, "RedisError")
    ELSE post_process_search_results(base64_decode(redis[k].bytes), process)

-----------------------------------------------------------------------------
(* The calls.                                                              *)

NoReply == [kind |-> "none"]
Silent == reply' = NoReply
Read(k, bytes) == [kind |-> "read", key |-> k, bytes |-> bytes]

Init ==
    /\ build \in Builds
    /\ process = 1
    /\ redis = [k \in Keys |-> Absent]
    /\ memory = [k \in Keys |-> Absent]
    /\ redis_up = TRUE
    /\ pipeline = <<>>
    /\ reply = NoReply

\* Mutant of cached_results: the bytes read from redis go into memory as they are.
cached_results_copying(k) ==
    /\ IF Ok(InMemory(k)) \/ ~RedisBuild \/ ~Ok(InRedis(k))
         THEN reply' = Read(k, InMemory(k)) /\ UNCHANGED memory
         ELSE /\ reply' = Read(k, InRedis(k))
              /\ memory' = [memory EXCEPT ![k] = Fresh(redis[k].bytes)]
    /\ UNCHANGED <<build, process, redis, redis_up, pipeline>>

\* In the hybrid an error of memory sends the call to redis, whose results are
\* encoded anew for memory, and an error of redis back to memory.
cached_results(k) ==
    /\ IF Ok(InMemory(k)) \/ ~RedisBuild \/ ~Ok(InRedis(k))
         THEN reply' = Read(k, InMemory(k)) /\ UNCHANGED memory
         ELSE /\ reply' = Read(k, InRedis(k))
              /\ memory' = [memory EXCEPT ![k] =
                    Fresh(pre_process_search_results(InRedis(k).page, process))]
    /\ UNCHANGED <<build, process, redis, redis_up, pipeline>>

\* The commands in the pipeline of the hybrid build are sent again; the flag is
\* the url's own, which comes after their replies (see SharedCache).
cached_results_exists(k) ==
    LET flags(table) == [kind |-> "exists", key |-> k, exists |-> Live(table, k)]
        answered == RedisBuild /\ redis_up
    IN  /\ redis' = IF answered THEN AfterSets(pipeline) ELSE redis
        /\ reply' = IF answered /\ ~SomeSetFindsValue(pipeline) THEN flags(redis')
                    ELSE flags(memory)
        /\ UNCHANGED <<build, process, memory, redis_up, pipeline>>

\* One url per call; SharedCache has calls with several.
cache_results(k) ==
    LET bytes == pre_process_search_results(Page(k, process), process)
        cmds == Append(pipeline, Command(k, base64_encode(bytes)))
    IN  /\ Len(pipeline) < MaxCommands
        /\ redis' = IF RedisBuild /\ redis_up THEN AfterSets(cmds) ELSE redis
        /\ memory' = IF RedisBuild /\ redis_up THEN memory
                                               ELSE [memory EXCEPT ![k] = Fresh(bytes)]
        /\ pipeline' = IF RedisBuild THEN cmds ELSE pipeline
        /\ Silent
        /\ UNCHANGED <<build, process, redis_up>>

Call == \E k \in Keys : cached_results(k) \/ cached_results_exists(k) \/ cache_results(k)

-----------------------------------------------------------------------------
(* The environment.  Redis keeps its data when it cannot be reached.       *)

Tick ==
    /\ redis' = Older(redis)
    /\ memory' = Older(memory)
    /\ Silent
    /\ UNCHANGED <<build, process, redis_up, pipeline>>

RedisFails ==
    /\ RedisBuild /\ redis_up
    /\ redis_up' = FALSE
    /\ Silent
    /\ UNCHANGED <<build, process, redis, memory, pipeline>>

RedisRecovers ==
    /\ ~redis_up
    /\ redis_up' = TRUE
    /\ Silent
    /\ UNCHANGED <<build, process, redis, memory, pipeline>>

\* A new process has a new CIPHER, an empty memory and a new pipeline.
Restart ==
    /\ process < MaxProcesses /\ redis_up
    /\ process' = process + 1
    /\ memory' = [k \in Keys |-> Absent]
    /\ pipeline' = <<>>
    /\ Silent
    /\ UNCHANGED <<build, redis, redis_up>>

Next == Call \/ Tick \/ RedisFails \/ RedisRecovers \/ Restart

\* Only the clock is sure to go on.
Spec == Init /\ [][Next]_vars /\ WF_vars(Tick)

-----------------------------------------------------------------------------
(* Properties.                                                             *)

\* compress-cache-results and encrypt-cache-results both enabled.
TwoFeatures == On("compress") /\ On("encrypt")

WasRead == reply.kind = "read" /\ Ok(reply.bytes)

\* A value that is read back is the page that was asked for, free of every
\* layer; in a build that encrypts it was cached by this very process: what an
\* earlier process left in redis is never answered.
ReadsAreThePage ==
    WasRead =>
        /\ reply.bytes.page.key = reply.key
        /\ reply.bytes.layers = <<>>
        /\ On("encrypt") => reply.bytes.page.process = process

\* A read errs only when no server it can reach holds the page in a form this
\* process wrote: with at most one of the two features, what a process has cached
\* it can read until it expires, whatever restarts and failovers came before.
OwnEntriesReadBack ==
    reply.kind = "read" /\ ~Ok(reply.bytes) /\ ~TwoFeatures =>
        /\ ~Live(memory, reply.key)
        /\ RedisBuild /\ redis_up /\ Live(redis, reply.key) =>
             On("encrypt") /\ redis[reply.key].bytes.page.process < process

\* Every value a build stores it can also read: cached_results "returns the
\* SearchResults from the cache if the program executes normally".
StoredIsReadBack ==
    reply.kind = "read" /\ ~Ok(reply.bytes) /\ process = 1 =>
        /\ ~Live(memory, reply.key)
        /\ ~(RedisBuild /\ redis_up /\ Live(redis, reply.key))

\* A true flag of cached_results_exists means results that can be read, unless a
\* restart has changed the key; the route fetches and caches only false ones.
ExistsIsReadable ==
    reply.kind = "exists" /\ reply.exists /\ ~TwoFeatures /\ (On("encrypt") => process = 1) =>
        Ok(InMemory(reply.key)) \/ Ok(InRedis(reply.key))

\* An entry of an earlier process in a build that encrypts: because of NX it
\* cannot be replaced either.
Undecodable(k) ==
    On("encrypt") /\ Live(redis, k) /\ redis[k].bytes.page.process < process

\* An entry left in redis by an earlier process blocks its key only for a while:
\* caching the page again does not prolong it, and it expires.
UndecodableEntriesEnd == \A k \in Keys : Undecodable(k) ~> ~Undecodable(k)
=============================================================================
