---------------------------- MODULE UsageLedger ----------------------------
(***************************************************************************)
(* What the usage store of internal/usage/sqlitestore promises, without    *)
(* its queue, its writer, its transactions or its counters: every recorded *)
(* Turn is open until it is stored or lost for good, the Turns of one      *)
(* batch are stored together, and at most one final report is published,   *)
(* which never calls a Turn safe that is not in the database.              *)
(***************************************************************************)
EXTENDS Naturals, FiniteSets

CONSTANT Turns      \* one Turn per call of Record

VARIABLES
    turn,           \* the fate of each Turn
    report          \* the published final reports: at most one

vars == <<turn, report>>

Recorded == {t \in Turns : turn[t] # "unrecorded"}
Open     == {t \in Turns : turn[t] = "open"}
Stored   == {t \in Turns : turn[t] = "stored"}

Init ==
    /\ turn = [t \in Turns |-> "unrecorded"]
    /\ report = {}

Become(S, fate) == turn' = [t \in Turns |-> IF t \in S THEN fate ELSE turn[t]]

Record(t) ==
    /\ turn[t] = "unrecorded"
    /\ Become({t}, "open")
    /\ UNCHANGED report

Store ==
    /\ \E batch \in (SUBSET Open) \ {{}} : Become(batch, "stored")
    /\ UNCHANGED report

Lose ==
    /\ \E S \in (SUBSET Open) \ {{}} : Become(S, "lost")
    /\ UNCHANGED report

(* A report covers every Turn recorded so far and may understate what is   *)
(* stored (a write whose answer was lost), never overstate it.             *)
Publish ==
    /\ report = {}
    /\ \E safe \in 0..Cardinality(Stored) :
          report' = {[recorded |-> Cardinality(Recorded),
                      lost     |-> Cardinality(Recorded) - safe]}
    /\ UNCHANGED turn

Next ==
    \/ \E t \in Turns : Record(t)
    \/ Store
    \/ Lose
    \/ Publish

Spec == Init /\ [][Next]_vars
=============================================================================
