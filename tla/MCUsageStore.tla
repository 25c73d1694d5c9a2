---------------------------- MODULE MCUsageStore ----------------------------
(* The usage store with a few Record calls, a queue and a batch small      *)
(* enough to fill, and counters of eight bits, so that an underflow shows. *)
EXTENDS UsageStore, TLC

Symmetry == Permutations(Calls) \cup Permutations(Closers)
=============================================================================
