----------------------- MODULE SharedCacheRefinement ------------------------
(***************************************************************************)
(* The refinement mapping from the build without redis to ExpiringCache.   *)
(* (The hybrid build has no such mapping: see FreshHits.)                  *)
(***************************************************************************)
EXTENDS SharedCache

LiveEntries(table) ==
    {[key |-> k, value |-> table[k].value, left |-> table[k].left] :
        k \in {x \in Keys : Live(table, x)}}

Told == IF reply.kind = "hit"
          THEN [hit |-> TRUE, key |-> reply.keys[1], value |-> reply.value]
          ELSE [hit |-> FALSE]

Abstract ==
    INSTANCE ExpiringCache WITH
        entries <- LiveEntries(memory),
        issued <- {kv \in Keys \X Values : age[kv[1]][kv[2]] >= 0},
        answer <- Told

\* In the in-memory build the calls, whose writes are tasks that insert one key each
\* in any order, and the restarts add up to a cache whose entries expire.
ImplementsExpiringCache ==
    /\ ~RedisBuild => Abstract!CacheInit
    /\ [][~RedisBuild => Abstract!CacheStep]_(Abstract!cache)
=============================================================================
