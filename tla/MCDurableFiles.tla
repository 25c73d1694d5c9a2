--------------------------- MODULE MCDurableFiles ----------------------------
(* The database opened by two builds and reported on by one of them; the   *)
(* token file, replaced by two logins.                                     *)
EXTENDS DurableFiles, TLC

CONSTANTS old, current, reporter

(* The current build and the one before it.                                *)
Builds == (old :> 1) @@ (current :> 2) @@ (reporter :> 2)
=============================================================================
