---------------------------- MODULE MCCacheCodec ---------------------------
(* CacheCodec in the builds that compile. *)
EXTENDS CacheCodec, FiniteSets, TLC

MCBuilds ==
    {b \in [servers: {"memory", "hybrid"}, features: SUBSET Features] : Compiles(b)}
=============================================================================
