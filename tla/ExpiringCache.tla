---------------------------- MODULE ExpiringCache ---------------------------
(***************************************************************************)
(* What a search-results cache promises: a read answers with a value that  *)
(* was stored for its key less than TTL ago, or misses.  Entries may be    *)
(* forgotten at any time; a value is stored for a key once, so its age     *)
(* cannot be hidden by storing it again.                                   *)
(***************************************************************************)
EXTENDS Integers

CONSTANT TTL

VARIABLES
    entries,    \* [key, value, left]: stored, with the time left to live
    issued,     \* every <<key, value>> ever stored
    answer      \* what the last step told a reader, as [hit, key, value]

cache == <<entries, issued, answer>>

CacheInit == entries = {} /\ issued = {} /\ ~answer.hit

\* Several entries may be stored together, and may displace others.
Store ==
    LET new == entries' \ entries
        names == {<<e.key, e.value>> : e \in new}
    IN  /\ new # {}
        /\ \A e \in new : e.left = TTL
        /\ names \cap issued = {}
        /\ issued' = issued \cup names
        /\ ~answer'.hit

Forget ==
    /\ entries' \subseteq entries
    /\ ~answer'.hit
    /\ UNCHANGED issued

Reply ==
    /\ answer'.hit
    /\ \E e \in entries : e.key = answer'.key /\ e.value = answer'.value
    /\ UNCHANGED <<entries, issued>>

Advance ==
    /\ entries' \subseteq {[e EXCEPT !.left = @ - 1] : e \in {x \in entries : x.left > 1}}
    /\ ~answer'.hit
    /\ UNCHANGED issued

CacheStep == Store \/ Forget \/ Reply \/ Advance

CacheSpec == CacheInit /\ [][CacheStep]_cache
=============================================================================
