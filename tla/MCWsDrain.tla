----------------------------- MODULE MCWsDrain ------------------------------
(* Two upgrade requests and the drain; two items and three ids.            *)
EXTENDS WsSession, TLC

Symmetry == Permutations(Handlers)
=============================================================================
