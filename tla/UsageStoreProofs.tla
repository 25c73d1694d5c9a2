-------------------------- MODULE UsageStoreProofs --------------------------
(***************************************************************************)
(* Proofs about UsageStore for every number of Record and Close calls and  *)
(* every queue and batch capacity: that its final report cannot underflow  *)
(* (settleFinalReport), that the drain is alone, and what becomes of every *)
(* Turn, up to the refinement of UsageLedger.                              *)
(***************************************************************************)
EXTENDS UsageStore, FiniteSetTheorems, TLAPS

Producing == {c \in Calls : call[c] \in {"registered", "admitted", "leaving"}}
Begun     == {c \in Calls : call[c] # "idle"}

FinalType == [committed : Nat, runtimeLost : Nat, queueFull : Nat, late : Nat,
              started : Nat, finalLost : Int, cleanup : BOOLEAN]

(* producers counts the calls between its increment and its decrement.     *)
TypeInv == TypeOK /\ final \in FinalType /\ producers = Cardinality(Producing)

(* No Turn is counted twice: those not yet counted are in flight, queued   *)
(* or batched.  The inequality is strict once the writer gives Turns up.   *)
Conservation ==
    /\ recordStarted >= queueFullDrops + lateAfterCutoffDrops + committed + runtimeWriteLosses
                        + Cardinality(queue) + Cardinality(batch) + Cardinality(Undecided)
    /\ recordStarted <= Cardinality(Begun)

(* What publishFinal has loaded so far is no more than what it loaded from.*)
ReportInv ==
    /\ publisher \in {"queueFull", "late", "started"} =>
          outcomesSealed /\ final.committed = committed /\ final.runtimeLost = runtimeWriteLosses
    /\ publisher \in {"late", "started"} => final.queueFull <= queueFullDrops
    /\ publisher = "started" => final.late <= lateAfterCutoffDrops
    /\ FinalReportBalances

-----------------------------------------------------------------------------
(* Sets of calls.                                                          *)

LEMMA CallSets ==
    ASSUME NEW S, S \subseteq Calls
    PROVE  IsFiniteSet(S) /\ Cardinality(S) \in Nat
<1>1. IsFiniteSet(S)  BY CallsFinite, FS_Subset
<1>2. QED  BY <1>1, FS_CardinalityType

LEMMA AddCall ==
    ASSUME NEW S, S \subseteq Calls, NEW c \in Calls
    PROVE  /\ Cardinality(S \cup {c}) <= Cardinality(S) + 1
           /\ c \notin S => Cardinality(S \cup {c}) = Cardinality(S) + 1
<1>1. IsFiniteSet(S) /\ Cardinality(S) \in Nat  BY CallSets
<1>2. QED  BY <1>1, FS_AddElement

LEMMA DropCall ==
    ASSUME NEW S, S \subseteq Calls, NEW c \in S
    PROVE  Cardinality(S \ {c}) = Cardinality(S) - 1
<1>1. IsFiniteSet(S)  BY CallSets
<1>2. QED  BY <1>1, FS_RemoveElement

LEMMA MoveCalls ==
    ASSUME NEW S, S \subseteq Calls, NEW T, T \subseteq Calls, NEW M, M \subseteq S
    PROVE  Cardinality(S \ M) + Cardinality(T \cup M) <= Cardinality(S) + Cardinality(T)
<1>1. /\ IsFiniteSet(S) /\ IsFiniteSet(T) /\ IsFiniteSet(M)
      /\ IsFiniteSet(S \ M) /\ IsFiniteSet(T \cup M) /\ IsFiniteSet(T \cap M)
  BY CallSets, FS_Subset, S \ M \subseteq Calls, T \cup M \subseteq Calls, T \cap M \subseteq Calls,
     M \subseteq Calls
<1>2. /\ Cardinality(S) \in Nat /\ Cardinality(T) \in Nat /\ Cardinality(M) \in Nat
      /\ Cardinality(S \ M) \in Nat /\ Cardinality(T \cup M) \in Nat /\ Cardinality(T \cap M) \in Nat
  BY <1>1, FS_CardinalityType
<1>3. Cardinality(S \ M) = Cardinality(S) - Cardinality(M)
  <2>1. Cardinality(S \ M) = Cardinality(S) - Cardinality(S \cap M)  BY <1>1, FS_Difference
  <2>2. S \cap M = M  OBVIOUS
  <2>3. QED  BY <2>1, <2>2, Zenon
<1>4. Cardinality(T \cup M) = Cardinality(T) + Cardinality(M) - Cardinality(T \cap M)
  BY <1>1, FS_Union
<1>5. QED  BY <1>2, <1>3, <1>4

LEMMA SmallMod ==
    ASSUME NEW x \in Nat, NEW w \in Nat, x < w
    PROVE  x % w = x
OBVIOUS

LEMMA EmptySets ==
    Cardinality({}) = 0
BY FS_EmptySet

(* Where a step of Record leaves a call decides which sets it is in.       *)
LEMMA CallMoves ==
    ASSUME TypeOK, NEW c \in Calls, NEW to, Go(c, to)
    PROVE  /\ Undecided' = IF to \in {"started", "entering", "registered", "admitted"}
                              THEN Undecided \cup {c} ELSE Undecided \ {c}
           /\ Producing' = IF to \in {"registered", "admitted", "leaving"}
                              THEN Producing \cup {c} ELSE Producing \ {c}
           /\ Begun' = IF to # "idle" THEN Begun \cup {c} ELSE Begun \ {c}
<1>1. call'[c] = to /\ \A d \in Calls : d # c => call'[d] = call[d]
  BY DEF TypeOK, RecordTypeOK, Go
<1>2. QED  BY <1>1 DEF Undecided, Producing, Begun

LEMMA CallAdvances ==
    ASSUME TypeOK, NEW c \in Calls, NEW to, Go(c, to), call[c] # "idle", to # "idle"
    PROVE  /\ Begun' = Begun
           /\ c \in Undecided /\ to \in {"started", "entering", "registered", "admitted"}
                  => Undecided' = Undecided
           /\ c \in Undecided /\ to \in {"leaving", "done"} => Undecided' = Undecided \ {c}
<1>1. Begun' = Begun \cup {c} /\ c \in Begun  BY CallMoves DEF Begun
<1>2. c \in Undecided /\ to \in {"started", "entering", "registered", "admitted"}
         => Undecided' = Undecided
  <2>1. SUFFICES ASSUME c \in Undecided, to \in {"started", "entering", "registered", "admitted"}
                 PROVE  Undecided' = Undecided
    OBVIOUS
  <2>2. Undecided' = Undecided \cup {c}  BY <2>1, CallMoves
  <2>3. QED  BY <2>1, <2>2
<1>3. to \in {"leaving", "done"} => Undecided' = Undecided \ {c}
  BY CallMoves
<1>4. QED  BY <1>1, <1>2, <1>3

LEMMA CallsKept ==
    ASSUME UNCHANGED call
    PROVE  Undecided' = Undecided /\ Producing' = Producing /\ Begun' = Begun
BY DEF Undecided, Producing, Begun

-----------------------------------------------------------------------------
(* Type correctness.                                                       *)

LEMMA TypeInit == Init => TypeInv
<1> SUFFICES ASSUME Init PROVE TypeInv  OBVIOUS
<1>1. TypeOK
  BY DEF Init, TypeOK, RecordTypeOK, WriterTypeOK, DatabaseTypeOK, OutcomeTypeOK, CloseTypeOK
<1>2. final \in FinalType  BY DEF Init, NoFinal, FinalType
<1>3. Producing = {}  BY DEF Init, Producing
<1>4. producers = Cardinality(Producing)  BY <1>3, EmptySets DEF Init
<1>5. QED  BY <1>1, <1>2, <1>4 DEF TypeInv

LEMMA TypeRecord ==
    ASSUME TypeInv, NEW c \in Calls, Record(c)
    PROVE  TypeInv'
<1> USE DEF RecordOnly, At
<1>0. TypeOK /\ final \in FinalType /\ producers = Cardinality(Producing)  BY DEF TypeInv
<1>1. final' \in FinalType
  BY <1>0 DEF Record, RecordStart, RecordCheck, RecordEnter, RecordRecheck, RecordEnqueue,
              RecordLeave, closeVars
<1> HIDE DEF RecordOnly
<1>2. Producing \subseteq Calls /\ Cardinality(Producing) \in Nat
  BY CallSets DEF Producing
<1>3. CASE RecordStart(c)
  <2>1. TypeOK'  BY <1>0, <1>3 DEF TypeOK, RecordTypeOK, WriterTypeOK, DatabaseTypeOK, OutcomeTypeOK, CloseTypeOK, RecordStart, RecordOnly, Go, writerVars, dbVars, outcomeVars, logVars, closeVars
  <2>2. Producing' = Producing
    BY <1>0, <1>3, CallMoves DEF RecordStart, Producing
  <2>3. QED  BY <1>0, <1>1, <1>3, <2>1, <2>2 DEF TypeInv, RecordStart
<1>4. CASE RecordCheck(c)
  <2>1. TypeOK'  BY <1>0, <1>4 DEF TypeOK, RecordTypeOK, WriterTypeOK, DatabaseTypeOK, OutcomeTypeOK, CloseTypeOK, RecordCheck, Late, RecordOnly, Go, writerVars, dbVars, outcomeVars, logVars, closeVars
  <2>2. Producing' = Producing
    BY <1>0, <1>4, CallMoves DEF RecordCheck, Late, Producing
  <2>3. QED  BY <1>0, <1>1, <1>4, <2>1, <2>2 DEF TypeInv, RecordCheck, Late
<1>5. CASE RecordEnter(c)
  <2>1. TypeOK'  BY <1>0, <1>5 DEF TypeOK, RecordTypeOK, WriterTypeOK, DatabaseTypeOK, OutcomeTypeOK, CloseTypeOK, RecordEnter, RecordOnly, Go, writerVars, dbVars, outcomeVars, logVars, closeVars
  <2>2. Producing' = Producing \cup {c} /\ c \notin Producing
    BY <1>0, <1>5, CallMoves DEF RecordEnter, Producing
  <2>3. Cardinality(Producing') = Cardinality(Producing) + 1  BY <1>2, <2>2, AddCall
  <2>4. QED  BY <1>0, <1>1, <1>5, <2>1, <2>3 DEF TypeInv, RecordEnter
<1>6. CASE RecordRecheck(c)
  <2>1. TypeOK'  BY <1>0, <1>6 DEF TypeOK, RecordTypeOK, WriterTypeOK, DatabaseTypeOK, OutcomeTypeOK, CloseTypeOK, RecordRecheck, Late, RecordOnly, Go, writerVars, dbVars, outcomeVars, logVars, closeVars
  <2>2. Producing' = Producing
    BY <1>0, <1>6, CallMoves DEF RecordRecheck, Late, Producing
  <2>3. QED  BY <1>0, <1>1, <1>6, <2>1, <2>2 DEF TypeInv, RecordRecheck, Late
<1>7. CASE RecordEnqueue(c)
  <2>1. TypeOK'  BY <1>0, <1>7 DEF TypeOK, RecordTypeOK, WriterTypeOK, DatabaseTypeOK, OutcomeTypeOK, CloseTypeOK, RecordEnqueue, RecordOnly, Go, writerVars, dbVars, outcomeVars, logVars, closeVars
  <2>2. Producing' = Producing
    BY <1>0, <1>7, CallMoves DEF RecordEnqueue, Producing
  <2>3. QED  BY <1>0, <1>1, <1>7, <2>1, <2>2 DEF TypeInv, RecordEnqueue
<1>8. CASE RecordLeave(c)
  <2>1. Producing' = Producing \ {c} /\ c \in Producing
    BY <1>0, <1>8, CallMoves DEF RecordLeave, Producing
  <2>2. Cardinality(Producing') = Cardinality(Producing) - 1  BY <1>2, <2>1, DropCall
  <2>3. Cardinality(Producing') \in Nat  BY <1>2, <2>1, CallSets
  <2>4. producers' = Cardinality(Producing')  BY <1>0, <1>8, <2>2 DEF RecordLeave
  <2>5. TypeOK'  BY <1>0, <1>8, <2>3, <2>4 DEF TypeOK, RecordTypeOK, WriterTypeOK, DatabaseTypeOK, OutcomeTypeOK, CloseTypeOK, RecordLeave, RecordOnly, Go, writerVars, dbVars, outcomeVars, logVars, closeVars
  <2>6. QED  BY <1>1, <2>4, <2>5 DEF TypeInv
<1>9. QED  BY <1>3, <1>4, <1>5, <1>6, <1>7, <1>8 DEF Record

LEMMA TypeWriter ==
    ASSUME TypeInv, Writer
    PROVE  TypeInv'
<1>0. TypeOK /\ final \in FinalType /\ producers = Cardinality(Producing)  BY DEF TypeInv
<1>1. /\ UNCHANGED <<call, admitting, producers, recordStarted, queueFullDrops,
                     lateAfterCutoffDrops, closer, expired, finalize, publisher, final>>
      /\ queue' \subseteq queue
  BY DEF Writer, LoopTop, SelectFinalize, SelectTurn, SelectTimer, WriteBegin, WriteInsert,
         WriteCommit, WriteRollback, settleCommitted, settleRuntimeFailure, settleFinalFailure,
         runtimeSnapshot, publishRuntimeLosses, waitForProducers, Fill, Cleanup, WriterOnly
<1>2. RecordTypeOK'  BY <1>0, <1>1 DEF TypeOK, RecordTypeOK
<1>3. CloseTypeOK'
  <2>1. \/ UNCHANGED <<cleanupDone, cleanupSuccessful>>
        \/ cleanupDone' = TRUE /\ cleanupSuccessful' \in BOOLEAN
    BY DEF Writer, LoopTop, SelectFinalize, SelectTurn, SelectTimer, WriteBegin, WriteInsert,
           WriteCommit, WriteRollback, settleCommitted, settleRuntimeFailure, settleFinalFailure,
           runtimeSnapshot, publishRuntimeLosses, waitForProducers, Fill, Cleanup, WriterOnly
  <2>2. QED  BY <1>0, <1>1, <2>1 DEF TypeOK, CloseTypeOK
<1> USE DEF WriterGo, dbVars, outcomeVars, logVars
<1>4. WriterTypeOK'
  <2>0. WriterTypeOK /\ queue \subseteq Calls  BY <1>0 DEF TypeOK, RecordTypeOK
  <2> USE <2>0 DEF WriterTypeOK
  <2>1. CASE LoopTop  BY <2>1 DEF LoopTop
  <2>2. CASE SelectFinalize  BY <2>2 DEF SelectFinalize
  <2>3. CASE SelectTurn  BY <2>3 DEF SelectTurn
  <2>4. CASE SelectTimer  BY <2>4 DEF SelectTimer
  <2>5. CASE WriteBegin  BY <2>5 DEF WriteBegin, Fail
  <2>6. CASE WriteInsert  BY <2>6 DEF WriteInsert, Fail
  <2>7. CASE WriteCommit  BY <2>7 DEF WriteCommit, Fail
  <2>8. CASE WriteRollback  BY <2>8 DEF WriteRollback
  <2>9. CASE settleCommitted  BY <2>9 DEF settleCommitted, AfterFlush
  <2>10. CASE settleRuntimeFailure  BY <2>10 DEF settleRuntimeFailure, AfterFlush
  <2>11. CASE settleFinalFailure  BY <2>11 DEF settleFinalFailure
  <2>12. CASE runtimeSnapshot  BY <2>12 DEF runtimeSnapshot
  <2>13. CASE publishRuntimeLosses  BY <2>13 DEF publishRuntimeLosses
  <2>14. CASE waitForProducers  BY <2>14 DEF waitForProducers
  <2>15. CASE Fill  BY <2>15 DEF Fill
  <2>16. CASE Cleanup  BY <2>16 DEF Cleanup
  <2>17. QED
    BY <2>1, <2>2, <2>3, <2>4, <2>5, <2>6, <2>7, <2>8, <2>9, <2>10, <2>11, <2>12, <2>13, <2>14,
       <2>15, <2>16 DEF Writer
<1>5. DatabaseTypeOK'
  <2>0. DatabaseTypeOK /\ batch \subseteq Calls  BY <1>0 DEF TypeOK, WriterTypeOK
  <2> USE <2>0 DEF DatabaseTypeOK
  <2>1. CASE WriteBegin
    <3>1. inTxn' = TRUE \/ inTxn' = inTxn  BY <2>1 DEF WriteBegin
    <3>2. (pending' = {} \/ pending' = pending) /\ stored' = stored  BY <2>1 DEF WriteBegin
    <3>3. QED  BY <3>1, <3>2
  <2>2. CASE WriteInsert  BY <2>2 DEF WriteInsert
  <2>3. CASE WriteCommit
    <3>1. inTxn' = FALSE \/ inTxn' = inTxn  BY <2>3 DEF WriteCommit
    <3>2. pending' \subseteq pending /\ stored' \subseteq stored \cup pending  BY <2>3 DEF WriteCommit
    <3>3. QED  BY <3>1, <3>2
  <2>4. CASE WriteRollback  BY <2>4 DEF WriteRollback
  <2>5. CASE UNCHANGED dbVars  BY <2>5
  <2>6. QED
    BY <2>1, <2>2, <2>3, <2>4, <2>5
    DEF Writer, LoopTop, SelectFinalize, SelectTurn, SelectTimer, settleCommitted,
        settleRuntimeFailure, settleFinalFailure, runtimeSnapshot, publishRuntimeLosses,
        waitForProducers, Fill, Cleanup
<1>6. OutcomeTypeOK'
  <2>0. OutcomeTypeOK /\ Cardinality(batch) \in Nat
    BY <1>0, CallSets DEF TypeOK, WriterTypeOK
  <2> USE <2>0 DEF OutcomeTypeOK
  <2>1. CASE settleCommitted  BY <2>1 DEF settleCommitted
  <2>2. CASE settleRuntimeFailure  BY <2>2 DEF settleRuntimeFailure, NoteWriteFailure
  <2>3. CASE settleFinalFailure  BY <2>3 DEF settleFinalFailure, NoteWriteFailure
  <2>4. CASE UNCHANGED <<outcomeVars, loggingSealed>>  BY <2>4
  <2>5. QED
    BY <2>1, <2>2, <2>3, <2>4
    DEF Writer, LoopTop, SelectFinalize, SelectTurn, SelectTimer, WriteBegin, WriteInsert,
        WriteCommit, WriteRollback, runtimeSnapshot, publishRuntimeLosses, waitForProducers,
        Fill, Cleanup
<1>7. producers' = Cardinality(Producing')  BY <1>0, <1>1, CallsKept
<1>8. QED  BY <1>0, <1>1, <1>2, <1>3, <1>4, <1>5, <1>6, <1>7 DEF TypeInv, TypeOK

(* The steps of Close, publishFinal and the deadline, in one formula.      *)
CloseStep ==
    \/ StopAdmission \/ Publisher
    \/ \E k \in Closers : Closing(k) \/ ContextDone(k)

LEMMA TypeClose ==
    ASSUME TypeInv, CloseStep
    PROVE  TypeInv'
<1>0. TypeOK /\ final \in FinalType /\ producers = Cardinality(Producing)  BY DEF TypeInv
<1> USE DEF CloseOnly, SettleStep, recordVars, writerVars, dbVars, outcomeVars, logVars, closeVars
<1>1. UNCHANGED <<recordVars, writerVars, dbVars>>
  BY DEF CloseStep, StopAdmission, Publisher, SettleOutcomes, SettleQueueFull, SettleLate,
         SettleStarted, Closing, Close, CloseWaited, PublishSeal, CloseReturn, ContextDone
<1>2. admitting' = FALSE \/ admitting' = admitting
  BY DEF CloseStep, StopAdmission, Publisher, SettleOutcomes, SettleQueueFull, SettleLate,
         SettleStarted, Closing, Close, CloseWaited, PublishSeal, CloseReturn, ContextDone
<1>3. /\ UNCHANGED <<committed, runtimeWriteLosses, writeFailures, failureVersion>>
      /\ outcomesSealed' = TRUE \/ outcomesSealed' = outcomesSealed
      /\ loggingSealed' = TRUE \/ loggingSealed' = loggingSealed
  BY DEF CloseStep, StopAdmission, Publisher, SettleOutcomes, SettleQueueFull, SettleLate,
         SettleStarted, Closing, Close, CloseWaited, PublishSeal, CloseReturn, ContextDone
<1>4. RecordTypeOK' /\ WriterTypeOK' /\ DatabaseTypeOK' /\ OutcomeTypeOK'
  <2>1. RecordTypeOK'  BY <1>0, <1>1, <1>2 DEF TypeOK, RecordTypeOK
  <2>2. WriterTypeOK'  BY <1>0, <1>1 DEF TypeOK, WriterTypeOK
  <2>3. DatabaseTypeOK'  BY <1>0, <1>1 DEF TypeOK, DatabaseTypeOK
  <2>4. OutcomeTypeOK'  BY <1>0, <1>3 DEF TypeOK, OutcomeTypeOK
  <2>5. QED  BY <2>1, <2>2, <2>3, <2>4
<1>5. CloseTypeOK'
  <2> USE <1>0 DEF TypeOK, CloseTypeOK
  <2>1. CASE StopAdmission  BY <2>1 DEF StopAdmission
  <2>2. CASE Publisher
    BY <2>2 DEF Publisher, SettleOutcomes, SettleQueueFull, SettleLate, SettleStarted
  <2>3. ASSUME NEW k \in Closers, Close(k) PROVE CloseTypeOK'  BY <2>3 DEF Close
  <2>4. ASSUME NEW k \in Closers, CloseWaited(k) PROVE CloseTypeOK'  BY <2>4 DEF CloseWaited
  <2>5. ASSUME NEW k \in Closers, PublishSeal(k) PROVE CloseTypeOK'  BY <2>5 DEF PublishSeal
  <2>6. ASSUME NEW k \in Closers, CloseReturn(k) PROVE CloseTypeOK'  BY <2>6 DEF CloseReturn
  <2>7. ASSUME NEW k \in Closers, ContextDone(k) PROVE CloseTypeOK'  BY <2>7 DEF ContextDone
  <2>8. QED
    BY <2>1, <2>2, <2>3, <2>4, <2>5, <2>6, <2>7 DEF CloseStep, Closing
<1>6. final' \in FinalType
  <2>0. OutcomeTypeOK /\ RecordTypeOK /\ final \in FinalType /\ cleanupDone \in BOOLEAN
    BY <1>0 DEF TypeOK, CloseTypeOK
  <2> USE <2>0 DEF OutcomeTypeOK, RecordTypeOK, FinalType
  <2>1. CASE SettleOutcomes  BY <2>1 DEF SettleOutcomes
  <2>2. CASE SettleQueueFull  BY <2>2 DEF SettleQueueFull
  <2>3. CASE SettleLate  BY <2>3 DEF SettleLate
  <2>4. CASE SettleStarted
    <3>1. FinalFlushLosses(recordStarted) \in Int
      <4>1. Word \in Nat /\ Word > 0
        BY WordLarge, CallSets
      <4>2. QED  BY <4>1 DEF FinalFlushLosses
    <3>2. final' = [final EXCEPT !.started = recordStarted,
                                 !.finalLost = FinalFlushLosses(recordStarted)]
      BY <2>4 DEF SettleStarted
    <3>3. QED  BY <3>1, <3>2
  <2>5. ASSUME NEW k \in Closers, PublishSeal(k) PROVE final' \in FinalType
    <3>1. (cleanupDone /\ cleanupSuccessful) \in BOOLEAN  OBVIOUS
    <3>2. QED  BY <2>5, <3>1 DEF PublishSeal
  <2>6. CASE UNCHANGED final  BY <2>6
  <2>7. QED
    BY <2>1, <2>2, <2>3, <2>4, <2>5, <2>6
    DEF CloseStep, Publisher, Closing, StopAdmission, Close, CloseWaited, CloseReturn, ContextDone
<1>7. producers' = Cardinality(Producing')  BY <1>0, <1>1, CallsKept
<1>8. QED  BY <1>4, <1>5, <1>6, <1>7 DEF TypeInv, TypeOK

LEMMA TypeStep == TypeInv /\ [Next]_vars => TypeInv'
<1> SUFFICES ASSUME TypeInv, [Next]_vars PROVE TypeInv'  OBVIOUS
<1>1. ASSUME NEW c \in Calls, Record(c) PROVE TypeInv'  BY <1>1, TypeRecord
<1>2. CASE Writer  BY <1>2, TypeWriter
<1>3. CASE CloseStep  BY <1>3, TypeClose
<1>4. CASE UNCHANGED vars
  <2>1. UNCHANGED call  BY <1>4 DEF vars, recordVars
  <2>2. QED
    BY <1>4, <2>1, CallsKept DEF vars, recordVars, writerVars, dbVars, outcomeVars, logVars,
       closeVars, TypeInv, TypeOK, RecordTypeOK, WriterTypeOK, DatabaseTypeOK,
       OutcomeTypeOK, CloseTypeOK
<1>5. QED  BY <1>1, <1>2, <1>3, <1>4 DEF Next, CloseStep

(* Every reachable state of the store is of its type: in particular no     *)
(* counter of producers or losses is ever negative.                        *)
THEOREM TypeCorrect == Spec => []TypeOK
<1>1. TypeInv => TypeOK  BY DEF TypeInv
<1>2. QED  BY TypeInit, TypeStep, <1>1, PTL DEF Spec

-----------------------------------------------------------------------------
(* The final report.  IInv is inductive: Conservation keeps the classes    *)
(* disjoint, ReportInv relates what publishFinal has read so far to it.    *)

IInv == TypeInv /\ Conservation /\ ReportInv

LEMMA Cardinals ==
    ASSUME TypeInv
    PROVE  /\ Cardinality(queue) \in Nat /\ Cardinality(batch) \in Nat
           /\ Cardinality(Undecided) \in Nat /\ Cardinality(Begun) \in Nat
           /\ Undecided \subseteq Calls /\ Begun \subseteq Calls
           /\ queue \subseteq Calls /\ batch \subseteq Calls
           /\ recordStarted \in Nat /\ queueFullDrops \in Nat /\ lateAfterCutoffDrops \in Nat
           /\ committed \in Nat /\ runtimeWriteLosses \in Nat
<1>1. queue \subseteq Calls /\ batch \subseteq Calls
  BY DEF TypeInv, TypeOK, RecordTypeOK, WriterTypeOK
<1>2. Undecided \subseteq Calls /\ Begun \subseteq Calls  BY DEF Undecided, Begun
<1>3. QED
  BY <1>1, <1>2, CallSets DEF TypeInv, TypeOK, RecordTypeOK, OutcomeTypeOK

LEMMA ConservationInit == Init => Conservation
<1> SUFFICES ASSUME Init PROVE Conservation  OBVIOUS
<1>1. Undecided = {} /\ Begun = {}  BY DEF Init, Undecided, Begun
<1>2. QED  BY <1>1, EmptySets DEF Init, Conservation

LEMMA ConservationRecord ==
    ASSUME TypeInv, Conservation, NEW c \in Calls, Record(c)
    PROVE  Conservation'
<1>0. TypeOK /\ call[c] # "none"
  BY DEF TypeInv, TypeOK, RecordTypeOK
<1>1. UNCHANGED <<batch, committed, runtimeWriteLosses>>
  BY DEF Record, RecordStart, RecordCheck, RecordEnter, RecordRecheck, RecordEnqueue,
         RecordLeave, RecordOnly, writerVars, outcomeVars
<1> USE Cardinals DEF Conservation, At
<1>2. CASE RecordStart(c)
  <2>1. Undecided' = Undecided \cup {c} /\ Begun' = Begun \cup {c} /\ c \notin Begun
    BY <1>0, <1>2, CallMoves DEF RecordStart, Begun
  <2>2. /\ Cardinality(Undecided') <= Cardinality(Undecided) + 1
        /\ Cardinality(Begun') = Cardinality(Begun) + 1
        /\ Cardinality(Undecided') \in Nat
    BY <2>1, AddCall, CallSets
  <2>3. QED  BY <1>1, <1>2, <2>2 DEF RecordStart
<1>3. CASE RecordCheck(c)
  <2>0. call[c] # "idle"  BY <1>3 DEF RecordCheck
  <2>1. c \in Undecided /\ c \in Begun  BY <1>3 DEF RecordCheck, Undecided, Begun
  <2>2. CASE Late(c, "done")
    <3>1. Undecided' = Undecided \ {c} /\ Begun' = Begun
      BY <1>0, <2>0, <2>1, <2>2, CallAdvances DEF Late
    <3>2. Cardinality(Undecided') = Cardinality(Undecided) - 1  BY <2>1, <3>1, DropCall
    <3>3. QED  BY <1>1, <2>2, <3>1, <3>2 DEF Late
  <2>3. CASE ~Late(c, "done")
    <3>1. Undecided' = Undecided /\ Begun' = Begun
      BY <1>0, <1>3, <2>0, <2>1, <2>3, CallAdvances DEF RecordCheck
    <3>2. QED  BY <1>1, <1>3, <2>3, <3>1 DEF RecordCheck
  <2>4. QED  BY <2>2, <2>3
<1>4. CASE RecordEnter(c)
  <2>1. Undecided' = Undecided /\ Begun' = Begun
    BY <1>0, <1>4, CallMoves DEF RecordEnter, Undecided, Begun
  <2>2. QED  BY <1>1, <1>4, <2>1 DEF RecordEnter
<1>5. CASE RecordRecheck(c)
  <2>0. call[c] # "idle"  BY <1>5 DEF RecordRecheck
  <2>1. c \in Undecided /\ c \in Begun  BY <1>5 DEF RecordRecheck, Undecided, Begun
  <2>2. CASE Late(c, "leaving")
    <3>1. Undecided' = Undecided \ {c} /\ Begun' = Begun
      BY <1>0, <2>0, <2>1, <2>2, CallAdvances DEF Late
    <3>2. Cardinality(Undecided') = Cardinality(Undecided) - 1  BY <2>1, <3>1, DropCall
    <3>3. QED  BY <1>1, <2>2, <3>1, <3>2 DEF Late
  <2>3. CASE ~Late(c, "leaving")
    <3>1. Undecided' = Undecided /\ Begun' = Begun
      BY <1>0, <1>5, <2>0, <2>1, <2>3, CallAdvances DEF RecordRecheck
    <3>2. QED  BY <1>1, <1>5, <2>3, <3>1 DEF RecordRecheck
  <2>4. QED  BY <2>2, <2>3
<1>6. CASE RecordEnqueue(c)
  <2>0. call[c] # "idle"  BY <1>6 DEF RecordEnqueue
  <2>1. c \in Undecided /\ c \in Begun  BY <1>6 DEF RecordEnqueue, Undecided, Begun
  <2>2. Undecided' = Undecided \ {c} /\ Begun' = Begun
    BY <1>0, <1>6, <2>0, <2>1, CallAdvances DEF RecordEnqueue
  <2>3. Cardinality(Undecided') = Cardinality(Undecided) - 1  BY <2>1, <2>2, DropCall
  <2>4. CASE Cardinality(queue) < QueueCapacity
    <3>1. queue' = queue \cup {c} /\ queueFullDrops' = queueFullDrops
      BY <1>6, <2>4 DEF RecordEnqueue
    <3>2. Cardinality(queue') <= Cardinality(queue) + 1 /\ Cardinality(queue') \in Nat
      BY <3>1, AddCall, CallSets
    <3>3. QED  BY <1>1, <1>6, <2>2, <2>3, <3>1, <3>2 DEF RecordEnqueue
  <2>5. CASE ~(Cardinality(queue) < QueueCapacity)
    BY <1>1, <1>6, <2>2, <2>3, <2>5 DEF RecordEnqueue
  <2>6. QED  BY <2>4, <2>5
<1>7. CASE RecordLeave(c)
  <2>1. Undecided' = Undecided /\ Begun' = Begun
    BY <1>0, <1>7, CallMoves DEF RecordLeave, Undecided, Begun
  <2>2. QED  BY <1>1, <1>7, <2>1 DEF RecordLeave
<1>8. QED  BY <1>2, <1>3, <1>4, <1>5, <1>6, <1>7 DEF Record

(* The writer only moves Turns from the queue to the batch, and from the   *)
(* batch to one counter, or gives them up.                                 *)
LEMMA WriterMoves ==
    ASSUME TypeInv, Writer
    PROVE  committed' + runtimeWriteLosses' + Cardinality(queue') + Cardinality(batch')
               <= committed + runtimeWriteLosses + Cardinality(queue) + Cardinality(batch)
<1> USE Cardinals DEF outcomeVars
<1>1. CASE SelectTurn
  <2>1. PICK c \in queue : batch' = batch \cup {c} /\ queue' = queue \ {c}
    BY <1>1 DEF SelectTurn
  <2>2. /\ Cardinality(queue') + Cardinality(batch') <= Cardinality(queue) + Cardinality(batch)
        /\ Cardinality(queue') \in Nat /\ Cardinality(batch') \in Nat
    BY <2>1, MoveCalls, CallSets, {c} \subseteq queue
  <2>3. QED  BY <1>1, <2>2 DEF SelectTurn
<1>2. CASE Fill
  <2>1. PICK taken \in SUBSET queue : batch' = batch \cup taken /\ queue' = queue \ taken
    BY <1>2 DEF Fill
  <2>2. /\ Cardinality(queue') + Cardinality(batch') <= Cardinality(queue) + Cardinality(batch)
        /\ Cardinality(queue') \in Nat /\ Cardinality(batch') \in Nat
    BY <2>1, MoveCalls, CallSets
  <2>3. QED  BY <1>2, <2>2 DEF Fill
<1>3. CASE settleCommitted
  BY <1>3, EmptySets DEF settleCommitted
<1>4. CASE settleRuntimeFailure
  BY <1>4, EmptySets DEF settleRuntimeFailure
<1>5. CASE settleFinalFailure
  BY <1>5, EmptySets DEF settleFinalFailure
<1>6. CASE UNCHANGED <<committed, runtimeWriteLosses, queue, batch>>
  BY <1>6
<1>7. QED
  BY <1>1, <1>2, <1>3, <1>4, <1>5, <1>6
  DEF Writer, LoopTop, SelectFinalize, SelectTimer, WriteBegin, WriteInsert, WriteCommit,
      WriteRollback, runtimeSnapshot, publishRuntimeLosses, waitForProducers, Cleanup

LEMMA ConservationWriter ==
    ASSUME TypeInv, TypeInv', Conservation, Writer
    PROVE  Conservation'
<1>1. UNCHANGED <<call, recordStarted, queueFullDrops, lateAfterCutoffDrops>>
  BY DEF Writer, LoopTop, SelectFinalize, SelectTurn, SelectTimer, WriteBegin, WriteInsert,
         WriteCommit, WriteRollback, settleCommitted, settleRuntimeFailure, settleFinalFailure,
         runtimeSnapshot, publishRuntimeLosses, waitForProducers, Fill, Cleanup, WriterOnly
<1>2. Undecided' = Undecided /\ Begun' = Begun  BY <1>1, CallsKept
<1>3. /\ committed' \in Nat /\ runtimeWriteLosses' \in Nat
      /\ Cardinality(queue') \in Nat /\ Cardinality(batch') \in Nat
  BY CallSets DEF TypeInv, TypeOK, RecordTypeOK, WriterTypeOK, OutcomeTypeOK
<1>4. QED  BY <1>1, <1>2, <1>3, WriterMoves, Cardinals DEF Conservation

LEMMA ConservationClose ==
    ASSUME Conservation, CloseStep
    PROVE  Conservation'
<1>1. UNCHANGED <<recordVars, batch, committed, runtimeWriteLosses>>
  BY DEF CloseStep, StopAdmission, Publisher, SettleOutcomes, SettleQueueFull, SettleLate,
         SettleStarted, Closing, Close, CloseWaited, PublishSeal, CloseReturn, ContextDone,
         CloseOnly, SettleStep, writerVars, outcomeVars
<1>2. QED  BY <1>1, CallsKept DEF recordVars, Conservation

LEMMA ReportRecord ==
    ASSUME TypeInv, ReportInv, NEW c \in Calls, Record(c)
    PROVE  ReportInv'
<1>1. UNCHANGED <<publisher, final, outcomesSealed, committed, runtimeWriteLosses>>
  BY DEF Record, RecordStart, RecordCheck, RecordEnter, RecordRecheck, RecordEnqueue,
         RecordLeave, RecordOnly, outcomeVars, closeVars
<1>2. queueFullDrops' >= queueFullDrops /\ lateAfterCutoffDrops' >= lateAfterCutoffDrops
  BY Cardinals
  DEF Record, RecordStart, RecordCheck, RecordEnter, RecordRecheck, RecordEnqueue, RecordLeave, Late
<1>3. /\ queueFullDrops' \in Nat /\ lateAfterCutoffDrops' \in Nat
      /\ final.queueFull \in Nat /\ final.late \in Nat
  <2>1. TypeInv'  BY TypeRecord
  <2>2. QED  BY <2>1 DEF TypeInv, TypeOK, RecordTypeOK, FinalType
<1>4. QED  BY <1>1, <1>2, <1>3, Cardinals DEF ReportInv, FinalReportBalances

LEMMA ReportWriter ==
    ASSUME TypeInv, ReportInv, Writer
    PROVE  ReportInv'
<1>1. UNCHANGED <<publisher, final, queueFullDrops, lateAfterCutoffDrops, outcomesSealed>>
  BY DEF Writer, LoopTop, SelectFinalize, SelectTurn, SelectTimer, WriteBegin, WriteInsert,
         WriteCommit, WriteRollback, settleCommitted, settleRuntimeFailure, settleFinalFailure,
         runtimeSnapshot, publishRuntimeLosses, waitForProducers, Fill, Cleanup, WriterOnly,
         outcomeVars
<1>2. outcomesSealed => UNCHANGED <<committed, runtimeWriteLosses>>
  <2>1. SUFFICES ASSUME outcomesSealed PROVE UNCHANGED <<committed, runtimeWriteLosses>>
    OBVIOUS
  <2>2. CASE settleRuntimeFailure  BY <2>1, <2>2, Cardinals DEF settleRuntimeFailure
  <2>3. CASE settleCommitted  BY <2>1, <2>3 DEF settleCommitted
  <2>4. QED
    BY <2>1, <2>2, <2>3
    DEF Writer, LoopTop, SelectFinalize, SelectTurn, SelectTimer, WriteBegin, WriteInsert,
        WriteCommit, WriteRollback, settleFinalFailure, runtimeSnapshot, publishRuntimeLosses,
        waitForProducers, Fill, Cleanup, outcomeVars
<1>3. QED  BY <1>1, <1>2 DEF ReportInv, FinalReportBalances

(* The residual is the difference of naturals that Conservation says it is.*)
LEMMA Balance ==
    ASSUME TypeInv, Conservation, ReportInv, publisher = "started"
    PROVE  final.queueFull + final.late + final.committed + final.runtimeLost
               + FinalFlushLosses(recordStarted) = recordStarted
<1> DEFINE loaded == final.queueFull + final.late + final.committed + final.runtimeLost
           counted == queueFullDrops + lateAfterCutoffDrops + committed + runtimeWriteLosses
<1>1. /\ final.queueFull \in Nat /\ final.late \in Nat
      /\ final.committed \in Nat /\ final.runtimeLost \in Nat
  BY DEF TypeInv, FinalType
<1>2. loaded <= counted  BY <1>1, Cardinals DEF ReportInv
<1>3. counted <= recordStarted  BY Cardinals DEF Conservation
<1>4. recordStarted - loaded \in Nat  BY <1>1, <1>2, <1>3, Cardinals
<1>5. recordStarted < Word /\ Word \in Nat
  <2>1. Cardinality(Begun) <= Cardinality(Calls) /\ Cardinality(Calls) \in Nat
    BY Cardinals, CallsFinite, FS_Subset, FS_CardinalityType
  <2>2. QED  BY <2>1, WordLarge, Cardinals DEF Conservation
<1>6. recordStarted - loaded < Word  BY <1>1, <1>4, <1>5, Cardinals
<1>7. (recordStarted - loaded) % Word = recordStarted - loaded  BY <1>4, <1>5, <1>6, SmallMod
<1>8. FinalFlushLosses(recordStarted) = (recordStarted - loaded) % Word
  <2>1. recordStarted - final.queueFull - final.late - final.committed - final.runtimeLost
            = recordStarted - loaded
    BY <1>1, Cardinals
  <2>2. QED  BY <2>1 DEF FinalFlushLosses
<1>9. QED  BY <1>1, <1>7, <1>8, Cardinals

LEMMA ReportClose ==
    ASSUME TypeInv, Conservation, ReportInv, CloseStep
    PROVE  ReportInv'
<1>0. final \in FinalType  BY DEF TypeInv
<1>1. UNCHANGED <<queueFullDrops, lateAfterCutoffDrops, committed, runtimeWriteLosses, recordStarted>>
  BY DEF CloseStep, StopAdmission, Publisher, SettleOutcomes, SettleQueueFull, SettleLate,
         SettleStarted, Closing, Close, CloseWaited, PublishSeal, CloseReturn, ContextDone,
         CloseOnly, SettleStep, recordVars, outcomeVars
<1> USE <1>0, <1>1, Cardinals DEF ReportInv, FinalReportBalances, SettleStep, outcomeVars, FinalType
<1>2. CASE SettleOutcomes  BY <1>2 DEF SettleOutcomes
<1>3. CASE SettleQueueFull  BY <1>3 DEF SettleQueueFull
<1>4. CASE SettleLate  BY <1>4 DEF SettleLate
<1>5. CASE SettleStarted
  <2>1. /\ publisher' = "published"
        /\ final'.started = recordStarted /\ final'.finalLost = FinalFlushLosses(recordStarted)
        /\ final'.queueFull = final.queueFull /\ final'.late = final.late
        /\ final'.committed = final.committed /\ final'.runtimeLost = final.runtimeLost
    BY <1>5 DEF SettleStarted
  <2>2. publisher = "started"  BY <1>5 DEF SettleStarted
  <2>3. QED  BY <2>1, <2>2, Balance
<1>6. ASSUME NEW k \in Closers, PublishSeal(k) PROVE ReportInv'  BY <1>6 DEF PublishSeal
<1>7. CASE UNCHANGED <<publisher, final, outcomesSealed>>  BY <1>7
<1>8. QED
  BY <1>2, <1>3, <1>4, <1>5, <1>6, <1>7
  DEF CloseStep, Publisher, Closing, StopAdmission, Close, CloseWaited, CloseReturn, ContextDone, closeVars

LEMMA IInvInit == Init => IInv
<1> SUFFICES ASSUME Init PROVE IInv  OBVIOUS
<1>1. ReportInv  BY DEF Init, ReportInv, FinalReportBalances
<1>2. QED  BY <1>1, TypeInit, ConservationInit DEF IInv

LEMMA IInvStep == IInv /\ [Next]_vars => IInv'
<1> SUFFICES ASSUME IInv, [Next]_vars PROVE IInv'  OBVIOUS
<1>0. TypeInv /\ Conservation /\ ReportInv /\ TypeInv'  BY TypeStep DEF IInv
<1>1. ASSUME NEW c \in Calls, Record(c) PROVE Conservation' /\ ReportInv'
  BY <1>0, <1>1, ConservationRecord, ReportRecord
<1>2. CASE Writer  BY <1>0, <1>2, ConservationWriter, ReportWriter DEF IInv
<1>3. CASE CloseStep  BY <1>0, <1>3, ConservationClose, ReportClose DEF IInv
<1>4. CASE UNCHANGED vars
  <2>1. UNCHANGED call  BY <1>4 DEF vars, recordVars
  <2>2. Conservation'
    BY <1>0, <1>4, <2>1, CallsKept DEF vars, recordVars, writerVars, outcomeVars, Conservation
  <2>3. ReportInv'
    BY <1>0, <1>4 DEF vars, recordVars, outcomeVars, closeVars, ReportInv, FinalReportBalances
  <2>4. QED  BY <1>0, <2>2, <2>3 DEF IInv
<1>5. QED  BY <1>0, <1>1, <1>2, <1>3, <1>4 DEF Next, CloseStep, IInv

(* The published classes sum to the calls started, and the unsigned        *)
(* residual of settleFinalReport is a true difference: it never wraps.     *)
THEOREM ReportBalances == Spec => []FinalReportBalances
<1>1. IInv => FinalReportBalances  BY DEF IInv, ReportInv
<1>2. QED  BY IInvInit, IInvStep, <1>1, PTL DEF Spec

-----------------------------------------------------------------------------
(* Draining.  Once waitForProducers saw no producer, a call that is still  *)
(* short of its second look at admitting will find it false.               *)

DrainInv ==
    /\ finishing => finalize # {} /\ writer \notin {"top", "select", "snapshot", "report"}
    /\ finalize # {} => ~admitting
    /\ Draining => \A c \in Calls : call[c] # "admitted"

LEMMA DrainInit == Init => DrainInv
BY DEF Init, DrainInv, Draining

LEMMA DrainRecord ==
    ASSUME TypeInv, DrainInv, NEW c \in Calls, Record(c)
    PROVE  DrainInv' /\ (Draining => queue' \subseteq queue)
<1>1. UNCHANGED <<admitting, finishing, writer, finalize>>
  BY DEF Record, RecordStart, RecordCheck, RecordEnter, RecordRecheck, RecordEnqueue,
         RecordLeave, RecordOnly, writerVars, closeVars
<1>2. \A d \in Calls : call'[d] = "admitted" => call[d] = "admitted" \/ admitting
  BY DEF Record, RecordStart, RecordCheck, RecordEnter, RecordRecheck, RecordEnqueue,
         RecordLeave, Late, Go, TypeInv, TypeOK, RecordTypeOK
<1>3. call[c] # "admitted" => queue' = queue
  BY DEF Record, RecordStart, RecordCheck, RecordEnter, RecordRecheck, RecordEnqueue,
         RecordLeave, Late, At
<1>4. QED  BY <1>1, <1>2, <1>3 DEF DrainInv, Draining

LEMMA DrainWriter ==
    ASSUME TypeInv, DrainInv, Writer
    PROVE  DrainInv' /\ (Draining => queue' \subseteq queue)
<1>1. UNCHANGED <<call, admitting, finalize>> /\ queue' \subseteq queue
  BY DEF Writer, LoopTop, SelectFinalize, SelectTurn, SelectTimer, WriteBegin, WriteInsert,
         WriteCommit, WriteRollback, settleCommitted, settleRuntimeFailure, settleFinalFailure,
         runtimeSnapshot, publishRuntimeLosses, waitForProducers, Fill, Cleanup, WriterOnly
<1>2. finishing' =>
          (finishing \/ finalize # {}) /\ writer' \notin {"top", "select", "snapshot", "report"}
  BY DEF Writer, LoopTop, SelectFinalize, SelectTurn, SelectTimer, WriteBegin, WriteInsert,
         WriteCommit, WriteRollback, settleCommitted, settleRuntimeFailure, settleFinalFailure,
         runtimeSnapshot, publishRuntimeLosses, waitForProducers, Fill, Cleanup, WriterGo, Fail,
         AfterFlush, DrainInv
<1>3. Draining' => Draining \/ producers = 0
  BY DEF Writer, LoopTop, SelectFinalize, SelectTurn, SelectTimer, WriteBegin, WriteInsert,
         WriteCommit, WriteRollback, settleCommitted, settleRuntimeFailure, settleFinalFailure,
         runtimeSnapshot, publishRuntimeLosses, waitForProducers, Fill, Cleanup, WriterGo, Fail,
         Draining, DrainInv
<1>4. producers = 0 => \A c \in Calls : call[c] # "admitted"
  <2>1. producers = 0 => Producing = {}
    BY CallSets, FS_EmptySet DEF TypeInv, Producing
  <2>2. QED  BY <2>1 DEF Producing
<1>5. QED  BY <1>1, <1>2, <1>3, <1>4 DEF DrainInv

LEMMA DrainClose ==
    ASSUME DrainInv, CloseStep
    PROVE  DrainInv' /\ queue' \subseteq queue
<1>1. UNCHANGED <<call, queue, finishing, writer>>
  BY DEF CloseStep, StopAdmission, Publisher, SettleOutcomes, SettleQueueFull, SettleLate,
         SettleStarted, Closing, Close, CloseWaited, PublishSeal, CloseReturn, ContextDone,
         CloseOnly, SettleStep, recordVars, writerVars
<1>2. /\ finalize # {} => finalize' # {}
      /\ finalize' # {} => finalize # {} \/ admitting' = FALSE
      /\ admitting' = admitting \/ admitting' = FALSE
  BY DEF CloseStep, StopAdmission, Publisher, SettleOutcomes, SettleQueueFull, SettleLate,
         SettleStarted, Closing, Close, CloseWaited, PublishSeal, CloseReturn, ContextDone,
         SettleStep, closeVars
<1>3. QED  BY <1>1, <1>2 DEF DrainInv, Draining

(* While finish drains the queue, no Record call of any number that are    *)
(* under way can put another Turn into it.                                 *)
THEOREM DrainsAlone == Spec => NoArrivalWhileDraining
<1> DEFINE I == TypeInv /\ DrainInv
<1>1. Init => I  BY TypeInit, DrainInit
<1>2. I /\ [Next]_vars => I' /\ [Draining => queue' \subseteq queue]_vars
  <2> SUFFICES ASSUME TypeInv, DrainInv, [Next]_vars
               PROVE  TypeInv' /\ DrainInv' /\ [Draining => queue' \subseteq queue]_vars
    OBVIOUS
  <2>1. TypeInv'  BY TypeStep
  <2>2. ASSUME NEW c \in Calls, Record(c)
        PROVE  DrainInv' /\ (Draining => queue' \subseteq queue)
    BY <2>2, DrainRecord
  <2>3. ASSUME Writer PROVE DrainInv' /\ (Draining => queue' \subseteq queue)
    BY <2>3, DrainWriter
  <2>4. ASSUME CloseStep PROVE DrainInv' /\ queue' \subseteq queue
    BY <2>4, DrainClose
  <2>5. ASSUME UNCHANGED vars PROVE DrainInv'
    BY <2>5 DEF vars, recordVars, writerVars, closeVars, DrainInv, Draining
  <2>6. QED  BY <2>1, <2>2, <2>3, <2>4, <2>5 DEF Next, CloseStep
<1>3. QED  BY <1>1, <1>2, PTL DEF Spec, NoArrivalWhileDraining
-----------------------------------------------------------------------------
(***************************************************************************)
(* What becomes of each Turn that the store takes: none is written twice,  *)
(* an untroubled Close loses nothing, the loss records advance, and the    *)
(* store implements UsageLedger.                                           *)
(***************************************************************************)
Writing == {"begin", "insert", "rollback", "settle", "settleFailure"}

(* Where a Turn is: decided calls alone are queued, batched or stored, and *)
(* in one of them; a batch is in the database only once it is written.     *)
PlacesInv ==
    /\ \A c \in queue \cup batch \cup stored : call[c] \in {"leaving", "done"}
    /\ queue \cap (batch \cup stored) = {}
    /\ writer \notin {"rollback", "settle", "settleFailure", "cleanup", "exited"} =>
          batch \cap stored = {}
    /\ writer = "insert" => pending \subseteq batch
    /\ writer = "settle" => batch \subseteq stored
    /\ writer \in Writing => batch # {}

(* What is counted: the calls begun, and the stored Turns of settled batches. *)
CountInv ==
    /\ recordStarted = Cardinality(Begun)
    /\ committed <= Cardinality(stored \ batch)

(* The writer's way out.                                                   *)
ExitInv ==
    /\ writer \in {"quiesce", "fill", "cleanup", "exited"} => finishing
    /\ writer = "exited" <=> cleanupDone
    /\ (\E k \in Closers : closer[k] = "publish") \/ publisher # "none" => cleanupDone \/ expired # {}
    /\ outcomesSealed => publisher # "none"

Untroubled == expired = {} /\ writeFailures = 0 /\ runtimeWriteLosses = 0

(* While nothing fails and no deadline passes, every Turn that was neither *)
(* late nor dropped is in the queue, the batch or the database.            *)
NothingLostInv ==
    /\ expired = {} /\ runtimeWriteLosses = 0 /\ writeFailures > 0 => writer \in {"cleanup", "exited"}
    /\ Untroubled =>
          /\ recordStarted = queueFullDrops + lateAfterCutoffDrops
                             + Cardinality(queue \cup batch \cup stored) + Cardinality(Undecided)
          /\ finishing /\ writer # "quiesce" => \A c \in Calls : call[c] # "admitted"
          /\ writer \in {"cleanup", "exited"} => queue = {} /\ batch = {}

Totals == [queueFull : Nat, runtimeLost : Nat, version : Nat]

UpTo(r, s) == r.queueFull <= s.queueFull /\ r.runtimeLost <= s.runtimeLost

(* Every total logged was read before, and none is read back.              *)
LogInv ==
    /\ snapshot \in Totals /\ lastReported \in Totals
    /\ UpTo(lastReported, snapshot)
    /\ snapshot.queueFull <= queueFullDrops /\ snapshot.runtimeLost <= runtimeWriteLosses
    /\ logged \in {<<>>, <<"runtime", lastReported>>} \/ publisher = "published"
    /\ loggingSealed <=> publisher # "none"
    /\ publisher \in {"queueFull", "late", "started"} => lastReported.runtimeLost <= final.runtimeLost
    /\ publisher \in {"late", "started"} => lastReported.queueFull <= final.queueFull

FateInv == IInv /\ DrainInv /\ PlacesInv /\ CountInv /\ ExitInv

-----------------------------------------------------------------------------
(* What the steps of a Record call, of the writer and of Close come to.    *)

LEMMA RecordEffect ==
    ASSUME TypeInv, NEW c \in Calls, Record(c)
    PROVE  /\ UNCHANGED <<admitting, writer, finishing, batch, pending, stored, closer, expired,
                          finalize, publisher, final, cleanupDone>>
           /\ UNCHANGED <<committed, runtimeWriteLosses, writeFailures, outcomesSealed>>
           /\ UNCHANGED <<snapshot, lastReported, loggingSealed, logged>>
           /\ \/ /\ call[c] = "idle" /\ Go(c, "started") /\ recordStarted' = recordStarted + 1
                 /\ UNCHANGED <<queue, queueFullDrops, lateAfterCutoffDrops>>
              \/ /\ c \in Undecided /\ UNCHANGED <<recordStarted, queue, queueFullDrops, lateAfterCutoffDrops>>
                 /\ \/ Go(c, "entering") \/ Go(c, "registered")
                    \/ admitting /\ Go(c, "admitted")
              \/ /\ c \in Undecided /\ UNCHANGED <<recordStarted, queue>>
                 /\ Go(c, "leaving") \/ Go(c, "done")
                 /\ \/ queueFullDrops' = queueFullDrops + 1 /\ UNCHANGED lateAfterCutoffDrops
                    \/ lateAfterCutoffDrops' = lateAfterCutoffDrops + 1 /\ UNCHANGED queueFullDrops
              \/ /\ c \in Undecided /\ call[c] = "admitted" /\ Go(c, "leaving")
                 /\ queue' = queue \cup {c}
                 /\ UNCHANGED <<recordStarted, queueFullDrops, lateAfterCutoffDrops>>
              \/ /\ call[c] = "leaving" /\ Go(c, "done")
                 /\ UNCHANGED <<recordStarted, queue, queueFullDrops, lateAfterCutoffDrops>>
<1>1. RecordOnly
  BY DEF Record, RecordStart, RecordCheck, RecordEnter, RecordRecheck, RecordEnqueue, RecordLeave
<1>2. /\ UNCHANGED <<admitting, writer, finishing, batch, pending, stored, closer, expired,
                     finalize, publisher, final, cleanupDone>>
      /\ UNCHANGED <<committed, runtimeWriteLosses, writeFailures, outcomesSealed>>
      /\ UNCHANGED <<snapshot, lastReported, loggingSealed, logged>>
  BY <1>1 DEF RecordOnly, writerVars, dbVars, outcomeVars, logVars, closeVars
<1>3. QED
  BY <1>2
  DEF Record, RecordStart, RecordCheck, RecordEnter, RecordRecheck, RecordEnqueue, RecordLeave,
      Late, At, Undecided

LEMMA WriterFrame ==
    ASSUME Writer
    PROVE  UNCHANGED <<call, admitting, producers, recordStarted, queueFullDrops,
                       lateAfterCutoffDrops, closer, expired, finalize, publisher, final>>
BY DEF Writer, LoopTop, SelectFinalize, SelectTurn, SelectTimer, WriteBegin, WriteInsert,
       WriteCommit, WriteRollback, settleCommitted, settleRuntimeFailure, settleFinalFailure,
       runtimeSnapshot, publishRuntimeLosses, waitForProducers, Fill, Cleanup, WriterOnly

LEMMA CloseFrame ==
    ASSUME CloseStep
    PROVE  /\ UNCHANGED <<call, queue, recordStarted, queueFullDrops, lateAfterCutoffDrops, producers>>
           /\ UNCHANGED <<writer, finishing, batch, pending, stored, cleanupDone, snapshot, lastReported>>
           /\ UNCHANGED <<committed, runtimeWriteLosses, writeFailures>>
           /\ expired \subseteq expired' /\ (admitting' = admitting \/ admitting' = FALSE)
BY DEF CloseStep, StopAdmission, Publisher, SettleOutcomes, SettleQueueFull, SettleLate,
       SettleStarted, Closing, Close, CloseWaited, PublishSeal, CloseReturn, ContextDone,
       CloseOnly, SettleStep, recordVars, writerVars, dbVars, outcomeVars, logVars, closeVars

(* The writer's steps as they move Turns: into the batch, into the         *)
(* database, and out of the batch.                                         *)
Takes ==
    \E taken \in SUBSET queue :
       batch' = batch \cup taken /\ queue' = queue \ taken /\ UNCHANGED <<stored, committed>>

Commits ==
    writer = "insert" /\ stored' = stored \cup pending /\ UNCHANGED <<batch, queue, committed>>

Settles ==
    /\ writer = "settle" /\ batch' = {} /\ UNCHANGED <<stored, queue>>
    /\ committed' = committed \/ committed' = committed + Cardinality(batch)

DropsBatch == writer = "settleFailure" /\ ~finishing /\ batch' = {} /\ UNCHANGED <<stored, queue, committed>>

DropsQueue == writer = "settleFailure" /\ finishing /\ queue' = {} /\ UNCHANGED <<stored, batch, committed>>

LEMMA WriterEffect ==
    ASSUME Writer
    PROVE  Takes \/ Commits \/ Settles \/ DropsBatch \/ DropsQueue
<1> USE DEF Takes, Commits, Settles, DropsBatch, DropsQueue, WriterGo, outcomeVars, dbVars
<1>1. CASE SelectTurn
  <2>1. PICK c \in queue : batch' = batch \cup {c} /\ queue' = queue \ {c}  BY <1>1 DEF SelectTurn
  <2>2. {c} \in SUBSET queue  OBVIOUS
  <2>3. UNCHANGED <<stored, committed>>  BY <1>1 DEF SelectTurn
  <2>4. QED  BY <2>1, <2>2, <2>3
<1>2. CASE Fill
  BY <1>2 DEF Fill
<1>3. CASE WriteCommit
  <2>1. UNCHANGED <<batch, queue, committed>> /\ writer = "insert"  BY <1>3 DEF WriteCommit
  <2>2. stored' = stored \cup pending \/ stored' = stored  BY <1>3 DEF WriteCommit
  <2>3. {} \in SUBSET queue /\ batch = batch \cup {} /\ queue = queue \ {}  OBVIOUS
  <2>4. QED  BY <2>1, <2>2, <2>3
<1>4. CASE settleCommitted
  BY <1>4 DEF settleCommitted
<1>5. CASE settleRuntimeFailure
  BY <1>5 DEF settleRuntimeFailure
<1>6. CASE settleFinalFailure
  BY <1>6 DEF settleFinalFailure
<1>7. CASE UNCHANGED <<stored, committed, batch, queue>>
  <2>1. {} \in SUBSET queue /\ batch = batch \cup {} /\ queue = queue \ {}  OBVIOUS
  <2>2. QED  BY <1>7, <2>1
<1>8. QED
  BY <1>1, <1>2, <1>3, <1>4, <1>5, <1>6, <1>7
  DEF Writer, LoopTop, SelectFinalize, SelectTimer, WriteBegin, WriteInsert, WriteRollback,
      runtimeSnapshot, publishRuntimeLosses, waitForProducers, Cleanup

-----------------------------------------------------------------------------
(* Where the Turns are.                                                    *)

LEMMA PlacesInit == Init => PlacesInv /\ CountInv /\ ExitInv
<1> SUFFICES ASSUME Init PROVE PlacesInv /\ CountInv /\ ExitInv  OBVIOUS
<1>1. PlacesInv  BY DEF Init, PlacesInv, Writing
<1>2. Begun = {} /\ stored \ batch = {}  BY DEF Init, Begun
<1>3. CountInv  BY <1>2, EmptySets DEF Init, CountInv
<1>4. ExitInv  BY DEF Init, ExitInv
<1>5. QED  BY <1>1, <1>3, <1>4

LEMMA PlacesRecord ==
    ASSUME TypeInv, PlacesInv, NEW c \in Calls, Record(c)
    PROVE  PlacesInv'
<1>1. UNCHANGED <<writer, batch, pending, stored>>  BY RecordEffect
<1>2. call \in [Calls -> {"idle", "started", "entering", "registered", "admitted", "leaving", "done"}]
      /\ queue \cup batch \cup stored \subseteq Calls
  BY DEF TypeInv, TypeOK, RecordTypeOK, WriterTypeOK, DatabaseTypeOK
<1>3. CASE c \in Undecided \/ call[c] = "idle"
  <2>1. c \notin queue \cup batch \cup stored  BY <1>3 DEF PlacesInv, Undecided
  <2>2. \A d \in Calls : d # c => call'[d] = call[d]
    BY <1>2, RecordEffect DEF Go
  <2>3. queue' = queue \/ (queue' = queue \cup {c} /\ call'[c] = "leaving")
    BY <1>2, <1>3, RecordEffect DEF Go
  <2>4. QED  BY <1>1, <1>2, <2>1, <2>2, <2>3 DEF PlacesInv
<1>4. CASE call[c] = "leaving"
  <2>1. Go(c, "done") /\ UNCHANGED queue  BY <1>4, RecordEffect DEF Undecided
  <2>2. QED  BY <1>1, <1>2, <2>1 DEF PlacesInv, Go
<1>5. QED  BY <1>3, <1>4, RecordEffect

LEMMA PlacesWriter ==
    ASSUME TypeInv, PlacesInv, Writer
    PROVE  PlacesInv'
<1> USE DEF WriterGo, dbVars
<1>0. UNCHANGED call  BY WriterFrame
<1>1. pending \subseteq batch \/ writer # "insert"  BY DEF PlacesInv
<1>2. /\ queue' \cup batch' \cup stored' \subseteq queue \cup batch \cup stored
      /\ queue' \cap (batch' \cup stored') = {}
  BY <1>1, WriterEffect DEF PlacesInv, Takes, Commits, Settles, DropsBatch, DropsQueue
<1>3. /\ writer' \notin {"rollback", "settle", "settleFailure", "cleanup", "exited"} =>
            batch' \cap stored' = {}
      /\ writer' = "insert" => pending' \subseteq batch'
      /\ writer' = "settle" => batch' \subseteq stored'
      /\ writer' \in Writing => batch' # {}
  <2> USE DEF PlacesInv, Writing
  <2>1. CASE LoopTop
    <3>1. Cardinality(batch) = BatchCapacity => batch # {}  BY CapacityPos, EmptySets
    <3>2. QED  BY <2>1, <3>1 DEF LoopTop
  <2>2. CASE SelectFinalize  BY <2>2 DEF SelectFinalize
  <2>3. CASE SelectTurn  BY <2>3 DEF SelectTurn
  <2>4. CASE SelectTimer  BY <2>4 DEF SelectTimer
  <2>5. CASE WriteBegin  BY <2>5 DEF WriteBegin, Fail
  <2>6. CASE WriteInsert  BY <2>6 DEF WriteInsert, Fail
  <2>7. CASE WriteCommit  BY <2>7 DEF WriteCommit, Fail
  <2>8. CASE WriteRollback  BY <2>8 DEF WriteRollback
  <2>9. CASE settleCommitted  BY <2>9 DEF settleCommitted, AfterFlush
  <2>10. CASE settleRuntimeFailure  BY <2>10 DEF settleRuntimeFailure, AfterFlush
  <2>11. CASE settleFinalFailure  BY <2>11 DEF settleFinalFailure
  <2>12. CASE runtimeSnapshot  BY <2>12 DEF runtimeSnapshot
  <2>13. CASE publishRuntimeLosses  BY <2>13 DEF publishRuntimeLosses
  <2>14. CASE waitForProducers  BY <2>14 DEF waitForProducers
  <2>15. CASE Fill  BY <2>15 DEF Fill
  <2>16. CASE Cleanup  BY <2>16 DEF Cleanup
  <2>17. QED
    BY <2>1, <2>2, <2>3, <2>4, <2>5, <2>6, <2>7, <2>8, <2>9, <2>10, <2>11, <2>12, <2>13, <2>14,
       <2>15, <2>16 DEF Writer
<1>4. QED  BY <1>0, <1>2, <1>3 DEF PlacesInv

LEMMA PlacesStep ==
    ASSUME TypeInv, PlacesInv, [Next]_vars
    PROVE  PlacesInv'
<1>1. ASSUME NEW c \in Calls, Record(c) PROVE PlacesInv'  BY <1>1, PlacesRecord
<1>2. CASE Writer  BY <1>2, PlacesWriter
<1>3. CASE CloseStep  BY <1>3, CloseFrame DEF PlacesInv
<1>4. CASE UNCHANGED vars  BY <1>4 DEF vars, recordVars, writerVars, dbVars, PlacesInv
<1>5. QED  BY <1>1, <1>2, <1>3, <1>4 DEF Next, CloseStep

(* A batch that may be in the database already is settled, never begun     *)
(* again: no stored Turn is written a second time.                         *)
THEOREM NothingIsReplayed == Spec => []NoReplay
<1> DEFINE I == TypeInv /\ PlacesInv
<1>1. Init => I  BY TypeInit, PlacesInit
<1>2. I /\ [Next]_vars => I'  BY TypeStep, PlacesStep
<1>3. I => NoReplay  BY DEF PlacesInv, NoReplay
<1>4. QED  BY <1>1, <1>2, <1>3, PTL DEF Spec

-----------------------------------------------------------------------------
(* What is counted, and the writer's way out.                              *)

LEMMA Stored ==
    ASSUME TypeInv
    PROVE  /\ stored \subseteq Calls /\ batch \subseteq Calls
           /\ IsFiniteSet(stored) /\ IsFiniteSet(batch) /\ IsFiniteSet(stored \ batch)
           /\ Cardinality(stored) \in Nat /\ Cardinality(batch) \in Nat
           /\ Cardinality(stored \ batch) \in Nat /\ Cardinality(stored \ batch) <= Cardinality(stored)
<1>1. stored \subseteq Calls /\ batch \subseteq Calls
  BY DEF TypeInv, TypeOK, WriterTypeOK, DatabaseTypeOK
<1>2. stored \ batch \subseteq Calls  BY <1>1
<1>3. Cardinality(stored \ batch) <= Cardinality(stored)
  BY <1>1, CallSets, FS_Subset, stored \ batch \subseteq stored
<1>4. QED  BY <1>1, <1>2, <1>3, CallSets

LEMMA CountStep ==
    ASSUME TypeInv, PlacesInv, CountInv, [Next]_vars
    PROVE  CountInv'
<1>1. ASSUME NEW c \in Calls, Record(c) PROVE CountInv'
  <2>1. UNCHANGED <<committed, stored, batch>> /\ TypeOK  BY <1>1, RecordEffect DEF TypeInv
  <2>2. CASE call[c] = "idle"
    <3>1. Go(c, "started") /\ recordStarted' = recordStarted + 1
      BY <1>1, <2>2, RecordEffect DEF Undecided
    <3>2. Begun' = Begun \cup {c} /\ c \notin Begun  BY <2>1, <2>2, <3>1, CallMoves DEF Begun
    <3>3. Cardinality(Begun') = Cardinality(Begun) + 1  BY <3>2, AddCall, Cardinals
    <3>4. QED  BY <2>1, <3>1, <3>3 DEF CountInv
  <2>3. CASE call[c] # "idle"
    <3>1. recordStarted' = recordStarted
          /\ \E to : Go(c, to) /\ to # "idle"
      BY <1>1, <2>3, RecordEffect
    <3>2. Begun' = Begun  BY <2>1, <2>3, <3>1, CallAdvances
    <3>3. QED  BY <2>1, <3>1, <3>2 DEF CountInv
  <2>4. QED  BY <2>2, <2>3
<1>2. CASE Writer
  <2>1. recordStarted' = recordStarted /\ Begun' = Begun  BY <1>2, WriterFrame, CallsKept
  <2>2. committed' <= Cardinality(stored' \ batch')
    <3> USE Stored, Cardinals
    <3>1. CASE Takes
      <4>1. PICK taken \in SUBSET queue : batch' = batch \cup taken /\ UNCHANGED <<stored, committed>>
        BY <3>1 DEF Takes
      <4>2. stored \ (batch \cup taken) = stored \ batch  BY DEF PlacesInv
      <4>3. QED  BY <4>1, <4>2 DEF CountInv
    <3>2. CASE Commits
      <4>1. (stored \cup pending) \ batch = stored \ batch  BY <3>2 DEF PlacesInv, Commits
      <4>2. QED  BY <3>2, <4>1 DEF CountInv, Commits
    <3>3. CASE Settles
      <4>1. Cardinality(stored \ batch) = Cardinality(stored) - Cardinality(batch)
        <5>1. stored \cap batch = batch  BY <3>3 DEF PlacesInv, Settles
        <5>2. Cardinality(stored \ batch) = Cardinality(stored) - Cardinality(stored \cap batch)
          BY FS_Difference
        <5>3. QED  BY <5>1, <5>2, Zenon
      <4>2. stored' \ batch' = stored  BY <3>3 DEF Settles
      <4>3. QED  BY <3>3, <4>1, <4>2 DEF CountInv, Settles
    <3>4. CASE DropsBatch
      <4>1. stored' \ batch' = stored  BY <3>4 DEF DropsBatch
      <4>2. QED  BY <3>4, <4>1 DEF CountInv, DropsBatch
    <3>5. CASE DropsQueue  BY <3>5 DEF CountInv, DropsQueue
    <3>6. QED  BY <1>2, <3>1, <3>2, <3>3, <3>4, <3>5, WriterEffect
  <2>3. QED  BY <2>1, <2>2 DEF CountInv
<1>3. CASE CloseStep
  <2>1. UNCHANGED <<call, recordStarted, committed, stored, batch>>  BY <1>3, CloseFrame
  <2>2. QED  BY <2>1, CallsKept DEF CountInv
<1>4. CASE UNCHANGED vars
  <2>1. UNCHANGED <<call, recordStarted, committed, stored, batch>>
    BY <1>4 DEF vars, recordVars, writerVars, dbVars, outcomeVars
  <2>2. QED  BY <2>1, CallsKept DEF CountInv
<1>5. QED  BY <1>1, <1>2, <1>3, <1>4 DEF Next, CloseStep

LEMMA ExitStep ==
    ASSUME TypeInv, ExitInv, [Next]_vars
    PROVE  ExitInv'
<1>1. ASSUME NEW c \in Calls, Record(c) PROVE ExitInv'
  BY <1>1, RecordEffect DEF ExitInv
<1>2. CASE Writer
  <2>1. UNCHANGED <<closer, expired, publisher>>  BY <1>2, WriterFrame
  <2>2. /\ UNCHANGED outcomesSealed
        /\ writer' \in {"quiesce", "fill", "cleanup", "exited"} => finishing'
    BY <1>2
    DEF ExitInv, Writer, LoopTop, SelectFinalize, SelectTurn, SelectTimer, WriteBegin, WriteInsert,
        WriteCommit, WriteRollback, settleCommitted, settleRuntimeFailure, settleFinalFailure,
        runtimeSnapshot, publishRuntimeLosses, waitForProducers, Fill, Cleanup,
        WriterGo, Fail, AfterFlush, outcomeVars
  <2>3. (writer' = "exited" <=> cleanupDone') /\ (cleanupDone => cleanupDone')
    <3>1. CASE Cleanup  BY <3>1 DEF Cleanup, WriterGo
    <3>2. CASE UNCHANGED cleanupDone /\ writer # "exited" /\ writer' # "exited"
      BY <3>2 DEF ExitInv
    <3>3. QED
      BY <1>2, <3>1, <3>2
      DEF Writer, LoopTop, SelectFinalize, SelectTurn, SelectTimer, WriteBegin, WriteInsert,
          WriteCommit, WriteRollback, settleCommitted, settleRuntimeFailure, settleFinalFailure,
          runtimeSnapshot, publishRuntimeLosses, waitForProducers, Fill, WriterOnly,
          WriterGo, Fail, AfterFlush
  <2>4. QED  BY <2>1, <2>2, <2>3 DEF ExitInv
<1>3. CASE CloseStep
  <2>1. UNCHANGED <<writer, finishing, cleanupDone>> /\ expired \subseteq expired'
    BY <1>3, CloseFrame
  <2>2. (\E k \in Closers : closer'[k] = "publish") \/ publisher' # "none" =>
           \/ (\E k \in Closers : closer[k] = "publish") \/ publisher # "none"
           \/ cleanupDone \/ expired # {}
    BY <1>3
    DEF CloseStep, StopAdmission, Publisher, SettleOutcomes, SettleQueueFull, SettleLate,
        SettleStarted, Closing, Close, CloseWaited, PublishSeal, CloseReturn, ContextDone,
        CloseOnly, SettleStep, closeVars, TypeInv, TypeOK, CloseTypeOK
  <2>3. outcomesSealed' => outcomesSealed \/ publisher' # "none"
    BY <1>3
    DEF CloseStep, StopAdmission, Publisher, SettleOutcomes, SettleQueueFull, SettleLate,
        SettleStarted, Closing, Close, CloseWaited, PublishSeal, CloseReturn, ContextDone,
        CloseOnly, SettleStep, closeVars, outcomeVars
  <2>4. publisher # "none" => publisher' # "none"
    BY <1>3
    DEF CloseStep, StopAdmission, Publisher, SettleOutcomes, SettleQueueFull, SettleLate,
        SettleStarted, Closing, Close, CloseWaited, PublishSeal, CloseReturn, ContextDone,
        CloseOnly, SettleStep, closeVars
  <2>5. QED  BY <2>1, <2>2, <2>3, <2>4 DEF ExitInv
<1>4. CASE UNCHANGED vars
  BY <1>4 DEF vars, writerVars, outcomeVars, closeVars, ExitInv
<1>5. QED  BY <1>1, <1>2, <1>3, <1>4 DEF Next, CloseStep

LEMMA FateStep == FateInv /\ [Next]_vars => FateInv'
<1> SUFFICES ASSUME FateInv, [Next]_vars PROVE FateInv'  OBVIOUS
<1>1. IInv' /\ TypeInv  BY IInvStep DEF FateInv, IInv
<1>2. DrainInv'
  <2>1. ASSUME NEW c \in Calls, Record(c) PROVE DrainInv'  BY <1>1, <2>1, DrainRecord DEF FateInv
  <2>2. CASE Writer  BY <1>1, <2>2, DrainWriter DEF FateInv
  <2>3. CASE CloseStep  BY <2>3, DrainClose DEF FateInv
  <2>4. CASE UNCHANGED vars
    BY <2>4 DEF vars, recordVars, writerVars, closeVars, FateInv, DrainInv, Draining
  <2>5. QED  BY <2>1, <2>2, <2>3, <2>4 DEF Next, CloseStep
<1>3. PlacesInv' /\ CountInv' /\ ExitInv'  BY <1>1, PlacesStep, CountStep, ExitStep DEF FateInv
<1>4. QED  BY <1>1, <1>2, <1>3 DEF FateInv

LEMMA FateInit == Init => FateInv
BY IInvInit, DrainInit, PlacesInit DEF FateInv

-----------------------------------------------------------------------------
(* The refinement: a step changes the fate of some open Turns to one other *)
(* fate, or records a Turn, or publishes the report, or none of these.     *)

LEMMA LedgerCounts ==
    ASSUME NEW S
    PROVE  Ledger!Cardinality(S) = Cardinality(S)
BY Zenon DEF Cardinality, Ledger!Cardinality, IsFiniteSet, Ledger!IsFiniteSet

LEMMA FatesKept ==
    ASSUME \A c \in Calls : Fate(c)' = Fate(c), UNCHANGED Published
    PROVE  [Ledger!Next]_Ledger!vars
<1>1. [c \in Calls |-> Fate(c)]' = [c \in Calls |-> Fate(c)]  OBVIOUS
<1>2. QED  BY <1>1 DEF Ledger!vars

LEMMA TurnsOfOneFate ==
    ASSUME NEW S \in SUBSET Calls, NEW fate \in {"stored", "lost"},
           \A c \in S : Fate(c) = "open",
           \A c \in Calls : Fate(c)' = IF c \in S THEN fate ELSE Fate(c),
           UNCHANGED Published
    PROVE  [Ledger!Next]_Ledger!vars
<1>1. CASE S = {}
  <2>1. \A c \in Calls : Fate(c)' = Fate(c)  BY <1>1
  <2>2. QED  BY <2>1, FatesKept
<1>2. CASE S # {}
  <2>1. S \in (SUBSET Ledger!Open) \ {{}}  BY <1>2 DEF Ledger!Open
  <2>2. Ledger!Become(S, fate)  BY DEF Ledger!Become
  <2>3. QED  BY <2>1, <2>2 DEF Ledger!Next, Ledger!Store, Ledger!Lose
<1>3. QED  BY <1>1, <1>2

LEMMA LedgerInit == Init => Ledger!Init
BY DEF Init, Ledger!Init, Fate, Published

LEMMA PublishedKept ==
    ASSUME UNCHANGED <<publisher, final>>
    PROVE  UNCHANGED Published
BY DEF Published

LEMMA LedgerRecord ==
    ASSUME FateInv, NEW c \in Calls, Record(c)
    PROVE  [Ledger!Next]_Ledger!vars
<1>1. TypeInv /\ PlacesInv  BY DEF FateInv, IInv
<1>2. /\ UNCHANGED <<writer, batch, stored>> /\ UNCHANGED Published
      /\ \A d \in Calls : d # c => call'[d] = call[d]
  BY <1>1, RecordEffect, PublishedKept DEF Go, TypeInv, TypeOK, RecordTypeOK
<1>3. queue' = queue \/ queue' = queue \cup {c}  BY <1>1, RecordEffect
<1>4. \A d \in Calls : d # c => Fate(d)' = Fate(d)
  BY <1>2, <1>3 DEF Fate, Undecided
<1>5. ASSUME NEW to, Go(c, to) PROVE call'[c] = to
  BY <1>1, <1>5 DEF Go, TypeInv, TypeOK, RecordTypeOK
<1>6. CASE call[c] = "idle"
  <2>1. call'[c] = "started" /\ UNCHANGED queue
    BY <1>1, <1>5, <1>6, RecordEffect DEF Undecided
  <2>2. Fate(c) = "unrecorded" /\ Fate(c)' = "open"
    BY <1>1, <1>2, <1>6, <2>1 DEF Fate, Undecided, PlacesInv
  <2>3. Ledger!Become({c}, "open")  BY <1>4, <2>2 DEF Ledger!Become
  <2>4. Ledger!Record(c)  BY <1>2, <2>2, <2>3 DEF Ledger!Record
  <2>5. QED  BY <2>4 DEF Ledger!Next
<1>7. CASE c \in Undecided
  <2>1. c \notin queue \cup batch \cup stored /\ call[c] # "idle"
    BY <1>1, <1>7 DEF PlacesInv, Undecided
  <2>2. Fate(c) = "open"  BY <1>7, <2>1 DEF Fate, Undecided
  <2>3. Fate(c)' = "open" \/ Fate(c)' = "lost"
    <3>1. c \notin stored' /\ call'[c] # "idle"
      BY <1>1, <1>2, <1>5, <1>7, <2>1, RecordEffect DEF Undecided
    <3>2. QED  BY <3>1 DEF Fate
  <2>4. CASE Fate(c)' = "open"
    <3>1. \A d \in Calls : Fate(d)' = Fate(d)  BY <1>4, <2>2, <2>4
    <3>2. QED  BY <1>2, <3>1, FatesKept
  <2>5. CASE Fate(c)' = "lost"
    <3>1. \A d \in Calls : Fate(d)' = IF d \in {c} THEN "lost" ELSE Fate(d)  BY <1>4, <2>5
    <3>2. QED  BY <1>2, <2>2, <3>1, TurnsOfOneFate
  <2>6. QED  BY <2>3, <2>4, <2>5
<1>8. CASE call[c] = "leaving"
  <2>1. call'[c] = "done" /\ UNCHANGED queue
    BY <1>1, <1>5, <1>8, RecordEffect DEF Undecided
  <2>2. Fate(c)' = Fate(c)  BY <1>2, <1>8, <2>1 DEF Fate, Undecided
  <2>3. \A d \in Calls : Fate(d)' = Fate(d)  BY <1>4, <2>2
  <2>4. QED  BY <1>2, <2>3, FatesKept
<1>9. QED  BY <1>1, <1>6, <1>7, <1>8, RecordEffect

LEMMA LedgerWriter ==
    ASSUME FateInv, Writer
    PROVE  [Ledger!Next]_Ledger!vars
<1>1. /\ PlacesInv /\ queue \subseteq Calls /\ batch \subseteq Calls /\ pending \subseteq Calls
  BY DEF FateInv, IInv, TypeInv, TypeOK, RecordTypeOK, WriterTypeOK, DatabaseTypeOK
<1>2. UNCHANGED call /\ UNCHANGED Published /\ Undecided' = Undecided
  BY WriterFrame, PublishedKept, CallsKept
<1>3. \A c \in queue \cup batch \cup stored : c \notin Undecided /\ call[c] # "idle"
  BY <1>1 DEF PlacesInv, Undecided
<1>4. CASE Cleanup
  <2>1. UNCHANGED <<queue, batch, stored>> /\ writer = "cleanup" /\ writer' = "exited"
    BY <1>4 DEF Cleanup, WriterGo, dbVars
  <2>2. \A c \in (queue \cup batch) \ stored : Fate(c) = "open"  BY <1>3, <2>1 DEF Fate
  <2>3. \A c \in Calls : Fate(c)' = IF c \in (queue \cup batch) \ stored THEN "lost" ELSE Fate(c)
    BY <1>2, <1>3, <2>1 DEF Fate
  <2>4. (queue \cup batch) \ stored \in SUBSET Calls  BY <1>1
  <2>5. QED  BY <1>2, <2>2, <2>3, <2>4, TurnsOfOneFate
<1>5. CASE writer # "exited" /\ writer' # "exited"
  <2>1. CASE Takes
    <3>1. queue' \cup batch' = queue \cup batch /\ UNCHANGED stored  BY <2>1 DEF Takes
    <3>2. \A c \in Calls : Fate(c)' = Fate(c)  BY <1>2, <1>5, <3>1 DEF Fate
    <3>3. QED  BY <1>2, <3>2, FatesKept
  <2>2. CASE Commits
    <3>1. UNCHANGED <<queue, batch>> /\ stored' = stored \cup pending /\ pending \subseteq batch
      BY <1>1, <2>2 DEF Commits, PlacesInv
    <3>2. \A c \in pending \ stored : Fate(c) = "open"  BY <1>3, <1>5, <3>1 DEF Fate
    <3>3. \A c \in Calls : Fate(c)' = IF c \in pending \ stored THEN "stored" ELSE Fate(c)
      BY <1>2, <1>5, <3>1 DEF Fate
    <3>4. pending \ stored \in SUBSET Calls  BY <1>1
    <3>5. QED  BY <1>2, <3>2, <3>3, <3>4, TurnsOfOneFate
  <2>3. CASE Settles
    <3>1. UNCHANGED <<queue, stored>> /\ batch' = {} /\ batch \subseteq stored
      BY <1>1, <2>3 DEF Settles, PlacesInv
    <3>2. \A c \in Calls : Fate(c)' = Fate(c)  BY <1>2, <1>5, <3>1 DEF Fate
    <3>3. QED  BY <1>2, <3>2, FatesKept
  <2>4. CASE DropsBatch
    <3>1. UNCHANGED <<queue, stored>> /\ batch' = {} /\ queue \cap batch = {}
      BY <1>1, <2>4 DEF DropsBatch, PlacesInv
    <3>2. \A c \in batch \ stored : Fate(c) = "open"  BY <1>3, <1>5 DEF Fate
    <3>3. \A c \in Calls : Fate(c)' = IF c \in batch \ stored THEN "lost" ELSE Fate(c)
      BY <1>2, <1>3, <1>5, <3>1 DEF Fate
    <3>4. batch \ stored \in SUBSET Calls  BY <1>1
    <3>5. QED  BY <1>2, <3>2, <3>3, <3>4, TurnsOfOneFate
  <2>5. CASE DropsQueue
    <3>1. UNCHANGED <<batch, stored>> /\ queue' = {} /\ queue \cap (batch \cup stored) = {}
      BY <1>1, <2>5 DEF DropsQueue, PlacesInv
    <3>2. \A c \in queue : Fate(c) = "open"  BY <1>3, <1>5, <3>1 DEF Fate
    <3>3. \A c \in Calls : Fate(c)' = IF c \in queue THEN "lost" ELSE Fate(c)
      BY <1>2, <1>3, <1>5, <3>1 DEF Fate
    <3>4. QED  BY <1>1, <1>2, <3>2, <3>3, TurnsOfOneFate
  <2>6. QED  BY <2>1, <2>2, <2>3, <2>4, <2>5, WriterEffect
<1>6. QED
  BY <1>4, <1>5
  DEF Writer, LoopTop, SelectFinalize, SelectTurn, SelectTimer, WriteBegin, WriteInsert,
      WriteCommit, WriteRollback, settleCommitted, settleRuntimeFailure, settleFinalFailure,
      runtimeSnapshot, publishRuntimeLosses, waitForProducers, Fill, WriterGo, Fail, AfterFlush

LEMMA LedgerClose ==
    ASSUME FateInv, CloseStep
    PROVE  [Ledger!Next]_Ledger!vars
<1>0. TypeInv /\ PlacesInv /\ Conservation /\ ReportInv /\ CountInv  BY DEF FateInv, IInv
<1>1. UNCHANGED <<call, queue, batch, stored, writer>>  BY CloseFrame
<1>2. \A c \in Calls : Fate(c)' = Fate(c)  BY <1>1, CallsKept DEF Fate
<1>3. CASE SettleStarted
  <2> DEFINE lost == recordStarted - final.committed
  <2>1. publisher = "started" /\ publisher' = "published"  BY <1>3 DEF SettleStarted, SettleStep
  <2>2. /\ final'.started = recordStarted
        /\ final'.queueFull + final'.late + final'.runtimeLost + final'.finalLost = lost
    <3>1. /\ final'.started = recordStarted /\ final'.finalLost = FinalFlushLosses(recordStarted)
          /\ final'.queueFull = final.queueFull /\ final'.late = final.late
          /\ final'.runtimeLost = final.runtimeLost
      BY <1>0, <1>3 DEF SettleStarted, TypeInv, FinalType
    <3>2. /\ final.queueFull \in Nat /\ final.late \in Nat /\ final.committed \in Nat
          /\ final.runtimeLost \in Nat /\ FinalFlushLosses(recordStarted) \in Int
      <4>1. final.queueFull \in Nat /\ final.late \in Nat /\ final.committed \in Nat
            /\ final.runtimeLost \in Nat
        BY <1>0 DEF TypeInv, FinalType
      <4>2. TypeInv'  BY <1>0, TypeClose
      <4>3. final'.finalLost \in Int  BY <4>2 DEF TypeInv, FinalType
      <4>4. QED  BY <3>1, <4>1, <4>3
    <3>3. final.queueFull + final.late + final.committed + final.runtimeLost
             + FinalFlushLosses(recordStarted) = recordStarted
      BY <1>0, <2>1, Balance
    <3>4. QED  BY <1>0, <3>1, <3>2, <3>3, Cardinals
  <2>3. Published = {} /\ Published' = {[recorded |-> recordStarted, lost |-> lost]}
    BY <2>1, <2>2 DEF Published
  <2>4. Ledger!Recorded = Begun /\ Ledger!Stored = stored
    <3>1. \A c \in Calls : Fate(c) # "unrecorded" <=> c \in Begun
      BY <1>0 DEF Fate, Begun, PlacesInv
    <3>2. \A c \in Calls : Fate(c) = "stored" <=> c \in stored  BY DEF Fate
    <3>3. Begun \subseteq Calls /\ stored \subseteq Calls  BY <1>0, Cardinals, Stored
    <3>4. QED  BY <3>1, <3>2, <3>3 DEF Ledger!Recorded, Ledger!Stored
  <2>5. final.committed \in 0 .. Cardinality(Ledger!Stored)
        /\ recordStarted = Cardinality(Ledger!Recorded)
    <3>1. final.committed = committed  BY <1>0, <2>1 DEF ReportInv
    <3>2. committed <= Cardinality(stored \ batch)  BY <1>0 DEF CountInv
    <3>3. committed \in 0 .. Cardinality(stored)  BY <1>0, <3>2, Stored, Cardinals
    <3>4. recordStarted = Cardinality(Begun)  BY <1>0 DEF CountInv
    <3>5. QED  BY <2>4, <3>1, <3>3, <3>4
  <2>6. [c \in Calls |-> Fate(c)]' = [c \in Calls |-> Fate(c)]  BY <1>2
  <2>7. Ledger!Publish
    <3>1. Published' = {[recorded |-> Cardinality(Ledger!Recorded),
                         lost     |-> Cardinality(Ledger!Recorded) - final.committed]}
      BY <2>3, <2>5
    <3>2. QED  BY <2>3, <2>5, <2>6, <3>1, LedgerCounts DEF Ledger!Publish
  <2>8. QED  BY <2>7 DEF Ledger!Next
<1>4. CASE UNCHANGED Published  BY <1>2, <1>4, FatesKept
<1>5. CASE UNCHANGED <<publisher, final>>  BY <1>4, <1>5, PublishedKept
<1>6. CASE publisher # "published" /\ publisher' # "published"  BY <1>4, <1>6 DEF Published
<1>7. QED
  BY <1>3, <1>5, <1>6
  DEF CloseStep, StopAdmission, Publisher, SettleOutcomes, SettleQueueFull, SettleLate,
      Closing, Close, CloseWaited, PublishSeal, CloseReturn, ContextDone, SettleStep, closeVars

(* The store does what UsageLedger promises: a recorded Turn is open until *)
(* it is stored or lost for good, the Turns of a batch are stored at once, *)
(* and the one report counts every call and calls no Turn safe that is not *)
(* in the database.                                                        *)
THEOREM StoreImplementsLedger == Spec => ImplementsLedger
<1>1. FateInv /\ [Next]_vars => [Ledger!Next]_Ledger!vars
  <2> SUFFICES ASSUME FateInv, [Next]_vars PROVE [Ledger!Next]_Ledger!vars  OBVIOUS
  <2>1. ASSUME NEW c \in Calls, Record(c) PROVE [Ledger!Next]_Ledger!vars
    BY <2>1, LedgerRecord
  <2>2. CASE Writer  BY <2>2, LedgerWriter
  <2>3. CASE CloseStep  BY <2>3, LedgerClose
  <2>4. CASE UNCHANGED vars
    <3>1. UNCHANGED <<call, queue, batch, stored, writer, publisher, final>>
      BY <2>4 DEF vars, recordVars, writerVars, dbVars, closeVars
    <3>2. UNCHANGED Published /\ \A c \in Calls : Fate(c)' = Fate(c)
      BY <3>1, PublishedKept, CallsKept DEF Fate
    <3>3. QED  BY <3>2, FatesKept
  <2>5. QED  BY <2>1, <2>2, <2>3, <2>4 DEF Next, CloseStep
<1>2. QED  BY FateInit, FateStep, LedgerInit, <1>1, PTL DEF Spec, ImplementsLedger, Ledger!Spec

-----------------------------------------------------------------------------
(* An orderly Close.                                                       *)

LEMMA NothingLostInit == Init => NothingLostInv
<1> SUFFICES ASSUME Init PROVE NothingLostInv  OBVIOUS
<1>1. Undecided = {} /\ queue \cup batch \cup stored = {}  BY DEF Init, Undecided
<1>2. QED  BY <1>1, EmptySets DEF Init, NothingLostInv

LEMMA Taken ==
    ASSUME TypeInv
    PROVE  /\ queue \cup batch \cup stored \subseteq Calls
           /\ Cardinality(queue \cup batch \cup stored) \in Nat
           /\ writeFailures \in Nat /\ runtimeWriteLosses \in Nat
<1>1. queue \cup batch \cup stored \subseteq Calls  BY Cardinals, Stored
<1>2. QED  BY <1>1, CallSets DEF TypeInv, TypeOK, OutcomeTypeOK

LEMMA NothingLostRecord ==
    ASSUME FateInv, NothingLostInv, NEW c \in Calls, Record(c)
    PROVE  NothingLostInv'
<1>0. TypeInv /\ TypeOK /\ PlacesInv /\ DrainInv  BY DEF FateInv, IInv, TypeInv
<1>1. UNCHANGED <<admitting, writer, finishing, batch, stored, expired, finalize,
                  runtimeWriteLosses, writeFailures>>
  BY <1>0, RecordEffect
<1>2. SUFFICES ASSUME Untroubled
      PROVE  /\ recordStarted' = queueFullDrops' + lateAfterCutoffDrops'
                                 + Cardinality(queue' \cup batch' \cup stored') + Cardinality(Undecided')
             /\ finishing /\ writer # "quiesce" => \A d \in Calls : call'[d] # "admitted"
             /\ writer \in {"cleanup", "exited"} => queue' = {}
  BY <1>1 DEF NothingLostInv, Untroubled
<1>3. /\ recordStarted = queueFullDrops + lateAfterCutoffDrops
                         + Cardinality(queue \cup batch \cup stored) + Cardinality(Undecided)
      /\ finishing /\ writer # "quiesce" => \A d \in Calls : call[d] # "admitted"
      /\ writer \in {"cleanup", "exited"} => queue = {} /\ finishing
  <2>1. writer \in {"cleanup", "exited"} => finishing  BY DEF FateInv, ExitInv
  <2>2. QED  BY <1>2, <2>1 DEF NothingLostInv
<1>4. finishing => ~admitting  BY <1>0 DEF DrainInv
<1>5. \A d \in Calls : call'[d] = "admitted" => call[d] = "admitted" \/ admitting
  BY <1>0, RecordEffect DEF Go, TypeOK, RecordTypeOK
<1>6. queue' = queue \/ call[c] = "admitted"  BY <1>0, RecordEffect
<1>7. /\ finishing /\ writer # "quiesce" => \A d \in Calls : call'[d] # "admitted"
      /\ writer \in {"cleanup", "exited"} => queue' = {}
  BY <1>3, <1>4, <1>5, <1>6
<1>8. recordStarted' = queueFullDrops' + lateAfterCutoffDrops'
                       + Cardinality(queue' \cup batch' \cup stored') + Cardinality(Undecided')
  <2> USE Cardinals, Taken
  <2>1. CASE call[c] = "idle"
    <3>1. /\ Go(c, "started") /\ recordStarted' = recordStarted + 1
          /\ UNCHANGED <<queue, queueFullDrops, lateAfterCutoffDrops>>
      BY <1>0, <2>1, RecordEffect DEF Undecided
    <3>2. Undecided' = Undecided \cup {c} /\ c \notin Undecided
      BY <1>0, <2>1, <3>1, CallMoves DEF Undecided
    <3>3. Cardinality(Undecided') = Cardinality(Undecided) + 1  BY <1>0, <3>2, AddCall
    <3>4. QED  BY <1>0, <1>1, <1>3, <3>1, <3>3
  <2>2. CASE /\ c \in Undecided /\ UNCHANGED <<recordStarted, queue, queueFullDrops, lateAfterCutoffDrops>>
             /\ Go(c, "entering") \/ Go(c, "registered") \/ Go(c, "admitted")
    <3>1. call[c] # "idle"  BY <2>2 DEF Undecided
    <3>2. Undecided' = Undecided  BY <1>0, <2>2, <3>1, CallAdvances
    <3>3. QED  BY <1>1, <1>3, <2>2, <3>2
  <2>3. CASE /\ c \in Undecided /\ UNCHANGED <<recordStarted, queue>>
             /\ Go(c, "leaving") \/ Go(c, "done")
             /\ \/ queueFullDrops' = queueFullDrops + 1 /\ UNCHANGED lateAfterCutoffDrops
                \/ lateAfterCutoffDrops' = lateAfterCutoffDrops + 1 /\ UNCHANGED queueFullDrops
    <3>1. call[c] # "idle"  BY <2>3 DEF Undecided
    <3>2. Undecided' = Undecided \ {c}  BY <1>0, <2>3, <3>1, CallAdvances
    <3>3. Cardinality(Undecided') = Cardinality(Undecided) - 1  BY <1>0, <2>3, <3>2, DropCall
    <3>4. QED  BY <1>0, <1>1, <1>3, <2>3, <3>3
  <2>4. CASE /\ c \in Undecided /\ Go(c, "leaving") /\ queue' = queue \cup {c}
             /\ UNCHANGED <<recordStarted, queueFullDrops, lateAfterCutoffDrops>>
    <3>1. call[c] # "idle"  BY <2>4 DEF Undecided
    <3>2. Undecided' = Undecided \ {c}  BY <1>0, <2>4, <3>1, CallAdvances
    <3>3. Cardinality(Undecided') = Cardinality(Undecided) - 1  BY <1>0, <2>4, <3>2, DropCall
    <3>4. c \notin queue \cup batch \cup stored  BY <1>0, <2>4 DEF PlacesInv, Undecided
    <3>5. queue' \cup batch' \cup stored' = (queue \cup batch \cup stored) \cup {c}
      BY <1>1, <2>4
    <3>6. Cardinality(queue' \cup batch' \cup stored') = Cardinality(queue \cup batch \cup stored) + 1
      BY <1>0, <3>4, <3>5, AddCall
    <3>7. QED  BY <1>0, <1>3, <2>4, <3>3, <3>6
  <2>5. CASE /\ call[c] = "leaving" /\ Go(c, "done")
             /\ UNCHANGED <<recordStarted, queue, queueFullDrops, lateAfterCutoffDrops>>
    <3>1. Undecided' = Undecided  BY <1>0, <2>5, CallMoves DEF Undecided
    <3>2. QED  BY <1>1, <1>3, <2>5, <3>1
  <2>6. QED  BY <1>0, <2>1, <2>2, <2>3, <2>4, <2>5, RecordEffect
<1>9. QED  BY <1>7, <1>8

(* Before the writer is out, and with no deadline passed, nothing is       *)
(* sealed: a failure is noted.                                             *)
LEMMA FailuresAreNoted ==
    ASSUME FateInv, expired = {}, writer # "exited"
    PROVE  ~outcomesSealed
BY DEF FateInv, ExitInv

LEMMA NothingLostWriter ==
    ASSUME FateInv, NothingLostInv, Writer
    PROVE  NothingLostInv'
<1>0. TypeInv /\ PlacesInv /\ DrainInv /\ ExitInv  BY DEF FateInv, IInv
<1>1. UNCHANGED <<call, expired, recordStarted, queueFullDrops, lateAfterCutoffDrops>>
      /\ Undecided' = Undecided
  BY WriterFrame, CallsKept
<1>2. CASE settleRuntimeFailure
  <2>1. expired = {} => runtimeWriteLosses' # 0
    <3>1. batch # {} /\ writer # "exited" /\ batch \subseteq Calls
      BY <1>0, <1>2, Stored DEF settleRuntimeFailure, WriterGo, PlacesInv, Writing
    <3>2. Cardinality(batch) \in Nat \ {0}
      BY <3>1, CallSets, FS_EmptySet
    <3>3. expired = {} => runtimeWriteLosses' = runtimeWriteLosses + Cardinality(batch)
      BY <1>2, <3>1, FailuresAreNoted DEF settleRuntimeFailure
    <3>4. QED  BY <1>0, <3>2, <3>3, Taken
  <2>2. QED  BY <1>1, <2>1 DEF NothingLostInv, Untroubled
<1>3. CASE settleFinalFailure
  <2>1. expired = {} => writeFailures' # 0 /\ writer' = "cleanup"
    <3>1. writer # "exited" /\ writer' = "cleanup"  BY <1>3 DEF settleFinalFailure, WriterGo
    <3>2. expired = {} => writeFailures' = writeFailures + 1
      BY <1>3, <3>1, FailuresAreNoted DEF settleFinalFailure, NoteWriteFailure
    <3>3. QED  BY <1>0, <3>1, <3>2, Taken
  <2>2. QED  BY <1>1, <2>1 DEF NothingLostInv, Untroubled
<1>4. CASE ~settleRuntimeFailure /\ ~settleFinalFailure
  <2>1. /\ UNCHANGED runtimeWriteLosses
        /\ UNCHANGED writeFailures \/ (writer = "settle" /\ writeFailures' = 0)
    BY <1>4
    DEF Writer, LoopTop, SelectFinalize, SelectTurn, SelectTimer, WriteBegin, WriteInsert,
        WriteCommit, WriteRollback, settleCommitted, runtimeSnapshot, publishRuntimeLosses,
        waitForProducers, Fill, Cleanup, WriterGo, outcomeVars
  <2>2. writer = "cleanup" => writer' = "exited"
    BY <1>4
    DEF Writer, LoopTop, SelectFinalize, SelectTurn, SelectTimer, WriteBegin, WriteInsert,
        WriteCommit, WriteRollback, settleCommitted, runtimeSnapshot, publishRuntimeLosses,
        waitForProducers, Fill, Cleanup, WriterGo, Fail
  <2>3. writer # "exited"
    BY <1>4
    DEF Writer, LoopTop, SelectFinalize, SelectTurn, SelectTimer, WriteBegin, WriteInsert,
        WriteCommit, WriteRollback, settleCommitted, runtimeSnapshot, publishRuntimeLosses,
        waitForProducers, Fill, Cleanup, WriterGo, Fail
  <2>4. expired' = {} /\ runtimeWriteLosses' = 0 /\ writeFailures' > 0 =>
            writer' \in {"cleanup", "exited"}
    BY <1>1, <2>1, <2>2, <2>3 DEF NothingLostInv
  <2>5. SUFFICES ASSUME Untroubled'
        PROVE  /\ recordStarted = queueFullDrops + lateAfterCutoffDrops
                        + Cardinality(queue' \cup batch' \cup stored') + Cardinality(Undecided)
               /\ finishing' /\ writer' # "quiesce" => \A c \in Calls : call[c] # "admitted"
               /\ writer' \in {"cleanup", "exited"} => queue' = {} /\ batch' = {}
    BY <1>1, <2>4 DEF NothingLostInv
  <2>6. Untroubled
    <3>1. expired = {} /\ runtimeWriteLosses = 0  BY <1>1, <2>1, <2>5 DEF Untroubled
    <3>2. writer = "settle" => ~(writeFailures > 0)  BY <3>1 DEF NothingLostInv
    <3>3. writer = "settle" => writeFailures = 0  BY <1>0, <3>2, Taken
    <3>4. QED  BY <2>1, <2>5, <3>1, <3>3 DEF Untroubled
  <2>7. queue' \cup batch' \cup stored' = queue \cup batch \cup stored
    <3>1. CASE Takes  BY <3>1 DEF Takes
    <3>2. CASE Commits  BY <1>0, <3>2 DEF Commits, PlacesInv
    <3>3. CASE Settles  BY <1>0, <3>3 DEF Settles, PlacesInv
    <3>4. CASE DropsBatch \/ DropsQueue
      <4>1. FALSE
        BY <1>4, <3>4
        DEF DropsBatch, DropsQueue, Writer, LoopTop, SelectFinalize, SelectTurn, SelectTimer,
            WriteBegin, WriteInsert, WriteCommit, WriteRollback, settleCommitted, runtimeSnapshot,
            publishRuntimeLosses, waitForProducers, Fill, Cleanup, WriterGo
      <4>2. QED  BY <4>1
    <3>5. QED  BY <3>1, <3>2, <3>3, <3>4, WriterEffect
  <2>8. recordStarted = queueFullDrops + lateAfterCutoffDrops
                        + Cardinality(queue' \cup batch' \cup stored') + Cardinality(Undecided)
    BY <2>6, <2>7 DEF NothingLostInv
  <2>9. finishing' /\ writer' # "quiesce" => \A c \in Calls : call[c] # "admitted"
    <3>1. producers = 0 => \A c \in Calls : call[c] # "admitted"
      <4>1. producers = 0 => Producing = {}
        BY <1>0, CallSets, FS_EmptySet DEF TypeInv, Producing
      <4>2. QED  BY <4>1 DEF Producing
    <3>2. finishing' /\ writer' # "quiesce" => finishing /\ (writer # "quiesce" \/ producers = 0)
      <4>1. CASE waitForProducers
        BY <2>6, <4>1 DEF waitForProducers, WriterGo, Untroubled
      <4>2. CASE LoopTop \/ SelectFinalize
        <5>1. ~finishing  BY <1>0, <4>2 DEF DrainInv, LoopTop, SelectFinalize, WriterGo
        <5>2. finishing' => writer' = "quiesce"
          BY <4>2, <5>1 DEF LoopTop, SelectFinalize, WriterGo
        <5>3. QED  BY <5>2
      <4>3. CASE UNCHANGED finishing /\ writer # "quiesce"  BY <4>3
      <4>4. QED
        BY <1>4, <4>1, <4>2, <4>3
        DEF Writer, SelectTurn, SelectTimer, WriteBegin, WriteInsert, WriteCommit, WriteRollback,
            settleCommitted, runtimeSnapshot, publishRuntimeLosses, Fill, Cleanup, WriterGo
    <3>3. QED  BY <2>6, <3>1, <3>2 DEF NothingLostInv
  <2>10. writer' \in {"cleanup", "exited"} => queue' = {} /\ batch' = {}
    <3>1. CASE Cleanup
      BY <2>6, <3>1 DEF Cleanup, WriterGo, NothingLostInv
    <3>2. CASE Fill
      <4>1. PICK taken \in SUBSET queue :
               /\ taken = queue \/ Cardinality(batch \cup taken) = BatchCapacity
               /\ batch' = batch \cup taken /\ queue' = queue \ taken
               /\ writer' = IF batch \cup taken = {} THEN "cleanup" ELSE "begin"
        BY <3>2 DEF Fill
      <4>2. batch \cup taken = {} => taken = queue
        BY <4>1, CapacityPos, EmptySets
      <4>3. QED  BY <4>1, <4>2
    <3>3. CASE waitForProducers
      BY <2>6, <3>3 DEF waitForProducers, WriterGo, Untroubled
    <3>4. QED
      BY <1>4, <3>1, <3>2, <3>3
      DEF Writer, LoopTop, SelectFinalize, SelectTurn, SelectTimer, WriteBegin, WriteInsert,
          WriteCommit, WriteRollback, settleCommitted, runtimeSnapshot, publishRuntimeLosses,
          WriterGo, Fail, AfterFlush
  <2>11. QED  BY <2>8, <2>9, <2>10
<1>5. QED  BY <1>2, <1>3, <1>4

LEMMA NothingLostStep ==
    ASSUME FateInv, NothingLostInv, [Next]_vars
    PROVE  NothingLostInv'
<1>1. ASSUME NEW c \in Calls, Record(c) PROVE NothingLostInv'  BY <1>1, NothingLostRecord
<1>2. CASE Writer  BY <1>2, NothingLostWriter
<1>3. CASE CloseStep
  <2>1. UNCHANGED <<call, queue, batch, stored, writer, finishing, recordStarted, queueFullDrops,
                    lateAfterCutoffDrops, runtimeWriteLosses, writeFailures>>
        /\ expired \subseteq expired'
    BY <1>3, CloseFrame
  <2>2. QED  BY <2>1, CallsKept DEF NothingLostInv, Untroubled
<1>4. CASE UNCHANGED vars
  <2>1. UNCHANGED <<call, queue, batch, stored, writer, finishing, recordStarted, queueFullDrops,
                    lateAfterCutoffDrops, runtimeWriteLosses, writeFailures, expired>>
    BY <1>4 DEF vars, recordVars, writerVars, dbVars, outcomeVars, closeVars
  <2>2. QED  BY <2>1, CallsKept DEF NothingLostInv, Untroubled
<1>5. QED  BY <1>1, <1>2, <1>3, <1>4 DEF Next, CloseStep

(* When the writer is out, no deadline has passed and no write has failed, *)
(* every call of Record was stored, dropped, late, or is not decided yet.  *)
THEOREM CleanCloseStoresAll == Spec => []CleanCloseLosesNothing
<1> DEFINE I == FateInv /\ NothingLostInv
<1>1. Init => I  BY FateInit, NothingLostInit
<1>2. I /\ [Next]_vars => I'  BY FateStep, NothingLostStep
<1>3. I => CleanCloseLosesNothing
  <2> SUFFICES ASSUME I, writer = "exited", Untroubled
               PROVE  recordStarted = Cardinality(stored) + Cardinality(Undecided)
                                      + queueFullDrops + lateAfterCutoffDrops
    BY DEF CleanCloseLosesNothing, Untroubled
  <2>1. queue \cup batch \cup stored = stored  BY DEF NothingLostInv
  <2>2. recordStarted = queueFullDrops + lateAfterCutoffDrops
                        + Cardinality(stored) + Cardinality(Undecided)
    BY <2>1 DEF NothingLostInv
  <2>3. TypeInv  BY DEF FateInv, IInv
  <2>4. QED  BY <2>2, <2>3, Cardinals, Stored
<1>4. QED  BY <1>1, <1>2, <1>3, PTL DEF Spec

-----------------------------------------------------------------------------
(* The loss records.                                                       *)

LEMMA LogInit == Init => LogInv
BY DEF Init, LogInv, NoReport, Totals, UpTo

LEMMA LogRecord ==
    ASSUME TypeInv, LogInv, NEW c \in Calls, Record(c)
    PROVE  LogInv' /\ UNCHANGED logged
<1>1. UNCHANGED <<snapshot, lastReported, loggingSealed, logged, publisher, final, runtimeWriteLosses>>
  BY RecordEffect
<1>2. queueFullDrops' = queueFullDrops \/ queueFullDrops' = queueFullDrops + 1  BY RecordEffect
<1>3. snapshot.queueFull \in Nat  BY DEF LogInv, Totals
<1>4. snapshot.queueFull <= queueFullDrops'  BY <1>2, <1>3, Cardinals DEF LogInv
<1>5. QED  BY <1>1, <1>4 DEF LogInv

(* What the writer logs is its snapshot, and only while nothing is sealed. *)
LEMMA LogWriter ==
    ASSUME TypeInv, LogInv, Writer
    PROVE  /\ LogInv'
           /\ logged' # logged => publisher = "none" /\ logged' = <<"runtime", snapshot>>
<1>1. UNCHANGED <<queueFullDrops, publisher, final>>  BY WriterFrame
<1>2. /\ snapshot.queueFull \in Nat /\ snapshot.runtimeLost \in Nat
      /\ lastReported.queueFull \in Nat /\ lastReported.runtimeLost \in Nat
  BY DEF LogInv, Totals
<1>3. CASE runtimeSnapshot
  <2>1. /\ snapshot' = [queueFull |-> queueFullDrops, runtimeLost |-> runtimeWriteLosses,
                        version |-> failureVersion]
        /\ UNCHANGED <<lastReported, loggingSealed, logged, runtimeWriteLosses>>
    BY <1>3 DEF runtimeSnapshot, outcomeVars
  <2>2. failureVersion \in Nat  BY DEF TypeInv, TypeOK, OutcomeTypeOK
  <2>3. snapshot' \in Totals /\ snapshot'.queueFull = queueFullDrops
        /\ snapshot'.runtimeLost = runtimeWriteLosses
    BY <2>1, <2>2, Cardinals DEF Totals
  <2>4. UpTo(lastReported, snapshot)'
    BY <1>2, <2>1, <2>3, Cardinals DEF LogInv, UpTo
  <2>5. QED  BY <1>1, <2>1, <2>3, <2>4, Cardinals DEF LogInv
<1>4. CASE publishRuntimeLosses
  <2>1. UNCHANGED <<snapshot, loggingSealed, runtimeWriteLosses>> /\ LogMuFree
    BY <1>4 DEF publishRuntimeLosses, outcomeVars
  <2>2. CASE UNCHANGED <<lastReported, logged>>  BY <1>1, <2>1, <2>2 DEF LogInv, UpTo
  <2>3. CASE ~loggingSealed /\ lastReported' = snapshot /\ logged' = <<"runtime", snapshot>>
    <3>1. publisher = "none"  BY <2>3 DEF LogInv
    <3>2. UpTo(snapshot, snapshot)  BY <1>2 DEF UpTo
    <3>3. QED  BY <1>1, <2>1, <2>3, <3>1, <3>2 DEF LogInv, UpTo
  <2>4. QED  BY <1>4, <2>2, <2>3 DEF publishRuntimeLosses
<1>5. CASE UNCHANGED logVars
  <2>1. UNCHANGED <<snapshot, lastReported, loggingSealed, logged>>  BY <1>5 DEF logVars
  <2>2. runtimeWriteLosses' >= runtimeWriteLosses /\ runtimeWriteLosses' \in Nat
    <3>1. CASE settleRuntimeFailure  BY <3>1, Cardinals DEF settleRuntimeFailure
    <3>2. CASE UNCHANGED runtimeWriteLosses  BY <3>2, Cardinals
    <3>3. QED
      BY <3>1, <3>2
      DEF Writer, LoopTop, SelectFinalize, SelectTurn, SelectTimer, WriteBegin, WriteInsert,
          WriteCommit, WriteRollback, settleCommitted, settleFinalFailure, runtimeSnapshot,
          publishRuntimeLosses, waitForProducers, Fill, Cleanup, outcomeVars
  <2>3. snapshot.runtimeLost <= runtimeWriteLosses'  BY <1>2, <2>2, Cardinals DEF LogInv
  <2>4. QED  BY <1>1, <2>1, <2>3 DEF LogInv, UpTo
<1>6. QED
  BY <1>3, <1>4, <1>5
  DEF Writer, LoopTop, SelectFinalize, SelectTurn, SelectTimer, WriteBegin, WriteInsert,
      WriteCommit, WriteRollback, settleCommitted, settleRuntimeFailure, settleFinalFailure,
      waitForProducers, Fill, Cleanup

LEMMA LogClose ==
    ASSUME TypeInv, LogInv, CloseStep
    PROVE  /\ LogInv'
           /\ logged' # logged =>
                 /\ publisher = "started"
                 /\ logged'[2].queueFull = final.queueFull /\ logged'[2].runtimeLost = final.runtimeLost
<1>0. UNCHANGED <<snapshot, lastReported, queueFullDrops, runtimeWriteLosses>>  BY CloseFrame
<1>1. /\ snapshot.queueFull \in Nat /\ snapshot.runtimeLost \in Nat
      /\ lastReported.queueFull \in Nat /\ lastReported.runtimeLost \in Nat
      /\ final \in FinalType
  BY DEF LogInv, Totals, TypeInv
<1>2. lastReported.queueFull <= queueFullDrops /\ lastReported.runtimeLost <= runtimeWriteLosses
  BY <1>1, Cardinals DEF LogInv, UpTo
<1> USE <1>0 DEF SettleStep
<1>3. CASE SettleOutcomes
  <2>1. publisher = "outcomes" /\ publisher' = "queueFull" /\ UNCHANGED <<loggingSealed, logged>>
    BY <1>3 DEF SettleOutcomes, logVars
  <2>2. final'.runtimeLost = runtimeWriteLosses  BY <1>1, <1>3 DEF SettleOutcomes, FinalType
  <2>3. QED  BY <1>2, <2>1, <2>2 DEF LogInv, UpTo
<1>4. CASE SettleQueueFull
  <2>1. publisher = "queueFull" /\ publisher' = "late" /\ UNCHANGED <<loggingSealed, logged>>
    BY <1>4 DEF SettleQueueFull, logVars
  <2>2. final'.queueFull = queueFullDrops /\ final'.runtimeLost = final.runtimeLost
    BY <1>1, <1>4 DEF SettleQueueFull, FinalType
  <2>3. QED  BY <1>2, <2>1, <2>2 DEF LogInv, UpTo
<1>5. CASE SettleLate
  <2>1. publisher = "late" /\ publisher' = "started" /\ UNCHANGED <<loggingSealed, logged>>
    BY <1>5 DEF SettleLate, logVars
  <2>2. final'.queueFull = final.queueFull /\ final'.runtimeLost = final.runtimeLost
    BY <1>1, <1>5 DEF SettleLate, FinalType
  <2>3. QED  BY <1>2, <2>1, <2>2 DEF LogInv, UpTo
<1>6. CASE SettleStarted
  <2>1. publisher = "started" /\ publisher' = "published" /\ UNCHANGED loggingSealed
    BY <1>6 DEF SettleStarted
  <2>2. logged'[2].queueFull = final.queueFull /\ logged'[2].runtimeLost = final.runtimeLost
    BY <1>6 DEF SettleStarted
  <2>3. QED  BY <2>1, <2>2 DEF LogInv, UpTo
<1>7. ASSUME NEW k \in Closers, PublishSeal(k)
      PROVE  LogInv' /\ UNCHANGED logged
  <2>1. publisher = "none" /\ publisher' = "outcomes" /\ loggingSealed' = TRUE /\ UNCHANGED logged
    BY <1>7 DEF PublishSeal
  <2>2. QED  BY <2>1 DEF LogInv, UpTo
<1>8. CASE UNCHANGED <<publisher, final, loggingSealed, logged>>  BY <1>8 DEF LogInv, UpTo
<1>9. QED
  BY <1>3, <1>4, <1>5, <1>6, <1>7, <1>8
  DEF CloseStep, StopAdmission, Publisher, Closing, Close, CloseWaited, CloseReturn, ContextDone,
      logVars, closeVars

(* Loss totals in the log never go back, and no record of the running      *)
(* writer follows the final one.                                           *)
THEOREM LossesAdvance == Spec => LossRecordsAdvance
<1> DEFINE I == TypeInv /\ LogInv
           Advances == logged # <<>> /\ logged' # logged =>
              /\ logged[1] = "runtime"
              /\ logged'[2].queueFull >= logged[2].queueFull
              /\ logged'[2].runtimeLost >= logged[2].runtimeLost
<1>1. Init => I  BY TypeInit, LogInit
<1>2. I /\ [Next]_vars => I' /\ [Advances]_vars
  <2> SUFFICES ASSUME TypeInv, LogInv, [Next]_vars
               PROVE  TypeInv' /\ LogInv' /\ [Advances]_vars
    OBVIOUS
  <2>0. TypeInv'  BY TypeStep
  <2>1. /\ lastReported \in Totals /\ snapshot \in Totals /\ UpTo(lastReported, snapshot)
        /\ snapshot.queueFull \in Nat /\ snapshot.runtimeLost \in Nat
        /\ lastReported.queueFull \in Nat /\ lastReported.runtimeLost \in Nat
    BY DEF LogInv, Totals
  <2>2. ASSUME logged # <<>>, publisher # "published" PROVE logged = <<"runtime", lastReported>>
    BY <2>2 DEF LogInv
  <2>3. ASSUME NEW c \in Calls, Record(c) PROVE LogInv' /\ Advances
    BY <2>3, LogRecord
  <2>4. ASSUME Writer PROVE LogInv' /\ Advances
    <3>1. LogInv'  BY <2>4, LogWriter
    <3>2. Advances
      <4> SUFFICES ASSUME logged # <<>>, logged' # logged PROVE Advances  OBVIOUS
      <4>1. logged = <<"runtime", lastReported>> /\ logged' = <<"runtime", snapshot>>
        BY <2>2, <2>4, LogWriter
      <4>2. QED  BY <2>1, <4>1 DEF UpTo
    <3>3. QED  BY <3>1, <3>2
  <2>5. ASSUME CloseStep PROVE LogInv' /\ Advances
    <3>1. LogInv'  BY <2>5, LogClose
    <3>2. Advances
      <4> SUFFICES ASSUME logged # <<>>, logged' # logged PROVE Advances  OBVIOUS
      <4>1. /\ publisher = "started" /\ logged = <<"runtime", lastReported>>
            /\ logged'[2].queueFull = final.queueFull /\ logged'[2].runtimeLost = final.runtimeLost
        BY <2>2, <2>5, LogClose
      <4>2. lastReported.queueFull <= final.queueFull /\ lastReported.runtimeLost <= final.runtimeLost
        BY <4>1 DEF LogInv
      <4>3. final.queueFull \in Nat /\ final.runtimeLost \in Nat  BY DEF TypeInv, FinalType
      <4>4. QED  BY <2>1, <4>1, <4>2, <4>3
    <3>3. QED  BY <3>1, <3>2
  <2>6. ASSUME UNCHANGED vars PROVE LogInv'
    <3>1. UNCHANGED <<snapshot, lastReported, loggingSealed, logged, publisher, final,
                      runtimeWriteLosses, queueFullDrops>>
      BY <2>6 DEF vars, recordVars, outcomeVars, logVars, closeVars
    <3>2. QED  BY <3>1 DEF LogInv, UpTo
  <2>7. QED  BY <2>0, <2>3, <2>4, <2>5, <2>6 DEF Next, CloseStep
<1>3. QED  BY <1>1, <1>2, PTL DEF Spec, LossRecordsAdvance
=============================================================================
