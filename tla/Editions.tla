------------------------------ MODULE Editions ------------------------------
(***************************************************************************)
(* The program is built as one of two editions: with the feature api-only  *)
(* as an ApiServer, without it as an HttpServer.                           *)
(***************************************************************************)
EXTENDS ApiServer, HttpServer

vars == <<apiVars, httpVars>>

Init == (ApiInit /\ HttpOff) \/ (HttpInit /\ ApiOff)

Next == (ApiNext /\ UNCHANGED httpVars) \/ (HttpNext /\ UNCHANGED apiVars)

Spec == Init /\ [][Next]_vars /\ HttpFairness
=============================================================================
