----------------------------- MODULE WsSession ------------------------------
(* Upgrade requests that race the drain; and, by itself, the one shim that *)
(* lives as long as a session, over turns without end.                     *)
EXTENDS WsDrain

CONSTANTS Indices, Ids

VARIABLES subject, pinnedByOutputIndex, out, said, sent, ended

stabilizerVars == <<pinnedByOutputIndex, out, said, sent, ended>>

Stabilizer == INSTANCE ItemIDs

SessionInit == Init /\ Stabilizer!Init /\ subject \in {"drain", "stabilizer"}

SessionNext ==
    /\ UNCHANGED subject
    /\ \/ subject = "drain" /\ Next /\ UNCHANGED stabilizerVars
       \/ subject = "stabilizer" /\ Stabilizer!Next /\ UNCHANGED vars

SessionSpec == SessionInit /\ [][SessionNext]_<<subject, vars, stabilizerVars>>

(* What the stabilizer's module says of its ids.                           *)
IdsArePinned == Stabilizer!IdsArePinned
=============================================================================
