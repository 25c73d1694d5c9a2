----------------------------- MODULE MCMinting -----------------------------
(* Two calls of Current race the startup mint, which may retry once; a     *)
(* token outlives the safety margin by one unit of the clock, or by none.  *)
EXTENDS Minting
=============================================================================
