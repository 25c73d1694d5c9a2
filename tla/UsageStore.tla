----------------------------- MODULE UsageStore -----------------------------
(***************************************************************************)
(* The usage store of internal/usage/sqlitestore/store.go: Record calls of *)
(* many request goroutines, the one writer goroutine that batches Turns    *)
(* into SQLite transactions, and Close, which cuts admission off, waits    *)
(* for the writer only as long as its context lasts, and publishes one     *)
(* final loss report.                                                      *)
(*                                                                         *)
(* Each atomic operation, channel operation and mutex section of the code  *)
(* is a step.  A Turn is named by the call of Record that carries it.  The *)
(* queue and the batch are sets: nothing in the code depends on the order  *)
(* of Turns, and taking any of them covers the channel's FIFO order.       *)
(***************************************************************************)
EXTENDS Integers, FiniteSets

CONSTANTS
    Calls,              \* calls of Record
    Closers,            \* calls of Close, each with a context of its own
    QueueCapacity,      \* queueCapacity
    BatchCapacity,      \* batchCapacity
    Word                \* 2^64, the modulus of the uint64 counters

ASSUME CallsFinite    == IsFiniteSet(Calls)
ASSUME CapacityPos    == QueueCapacity \in Nat \ {0} /\ BatchCapacity \in Nat \ {0}
ASSUME WordLarge      == Word \in Nat /\ Cardinality(Calls) < Word

VARIABLES
    \* Record
    call,               \* how far each Record call is
    admitting, producers, queue,
    recordStarted, queueFullDrops, lateAfterCutoffDrops,
    \* the writer
    writer,             \* its program counter
    finishing,          \* it is inside finish, not the run loop
    lossesDue,          \* publishRuntimeLosses follows this flush
    batch,
    \* the database connection
    inTxn, pending, stored,
    \* writer outcomes, under outcomeMu
    committed, runtimeWriteLosses, outcomesSealed, writeFailures, failureVersion,
    \* loss records, under logMu
    snapshot, lastReported, loggingSealed, logged,
    \* Close
    closer,             \* how far each Close call is
    expired,            \* the Close calls whose context is done
    finalize,           \* the Close call whose request is the finalize channel's
    cleanupDone, cleanupSuccessful,
    publisher,          \* how far publishFinal is
    final               \* the final report under construction, then published

recordVars  == <<call, producers, queue, recordStarted, queueFullDrops, lateAfterCutoffDrops>>
writerVars  == <<writer, finishing, lossesDue, batch>>
dbVars      == <<inTxn, pending, stored>>
outcomeVars == <<committed, runtimeWriteLosses, outcomesSealed, writeFailures, failureVersion>>
logVars     == <<snapshot, lastReported, loggingSealed, logged>>
closeVars   == <<closer, expired, finalize, cleanupDone, cleanupSuccessful, publisher, final>>
vars == <<recordVars, admitting, writerVars, dbVars, outcomeVars, logVars, closeVars>>

NoReport == [queueFull |-> 0, runtimeLost |-> 0, version |-> 0]
NoFinal  == [committed |-> 0, runtimeLost |-> 0, queueFull |-> 0, late |-> 0,
             started |-> 0, finalLost |-> 0, cleanup |-> FALSE]

Init ==
    /\ call = [c \in Calls |-> "idle"]
    /\ admitting = TRUE /\ producers = 0 /\ queue = {}
    /\ recordStarted = 0 /\ queueFullDrops = 0 /\ lateAfterCutoffDrops = 0
    /\ writer = "top" /\ finishing = FALSE /\ lossesDue = FALSE /\ batch = {}
    /\ inTxn = FALSE /\ pending = {} /\ stored = {}
    /\ committed = 0 /\ runtimeWriteLosses = 0 /\ outcomesSealed = FALSE
    /\ writeFailures = 0 /\ failureVersion = 0
    /\ snapshot = NoReport /\ lastReported = NoReport
    /\ loggingSealed = FALSE /\ logged = <<>>
    /\ closer = [k \in Closers |-> "idle"] /\ expired = {} /\ finalize = {}
    /\ cleanupDone = FALSE /\ cleanupSuccessful = FALSE
    /\ publisher = "none" /\ final = NoFinal

-----------------------------------------------------------------------------
(* Record.  A load of admitting that returns false and the increment that  *)
(* counts the call as late are one step: admitting never becomes true      *)
(* again.  So are a full queue and the increment that counts the drop.     *)

RecordOnly == UNCHANGED <<admitting, writerVars, dbVars, outcomeVars, logVars, closeVars>>

At(c, from) == call[c] = from
Go(c, to)   == call' = [call EXCEPT ![c] = to]

Late(c, to) ==
    /\ ~admitting
    /\ lateAfterCutoffDrops' = lateAfterCutoffDrops + 1
    /\ Go(c, to)
    /\ UNCHANGED <<producers, queue, recordStarted, queueFullDrops>>

(* Mutant: started is counted below the first check, late calls not at all. *)
RecordStartAdmittedOnly(c) ==
    /\ At(c, "idle") /\ Go(c, "started")
    /\ recordStarted' = recordStarted + IF admitting THEN 1 ELSE 0
    /\ UNCHANGED <<producers, queue, queueFullDrops, lateAfterCutoffDrops>>
    /\ RecordOnly

RecordStart(c) ==
    /\ At(c, "idle") /\ Go(c, "started")
    /\ recordStarted' = recordStarted + 1
    /\ UNCHANGED <<producers, queue, queueFullDrops, lateAfterCutoffDrops>>
    /\ RecordOnly

(* Mutant: the deferred decrement stands above the first check.            *)
RecordCheckDeferred(c) ==
    /\ At(c, "started")
    /\ \/ Late(c, "leaving")
       \/ admitting /\ Go(c, "entering")
          /\ UNCHANGED <<producers, queue, recordStarted, queueFullDrops, lateAfterCutoffDrops>>
    /\ RecordOnly

RecordCheck(c) ==
    /\ At(c, "started")
    /\ \/ Late(c, "done")
       \/ admitting /\ Go(c, "entering")
          /\ UNCHANGED <<producers, queue, recordStarted, queueFullDrops, lateAfterCutoffDrops>>
    /\ RecordOnly

RecordEnter(c) ==
    /\ At(c, "entering") /\ Go(c, "registered")
    /\ producers' = producers + 1
    /\ UNCHANGED <<queue, recordStarted, queueFullDrops, lateAfterCutoffDrops>>
    /\ RecordOnly

(* Mutant: admitting is not looked at again once the producer is counted.  *)
RecordNoRecheck(c) ==
    /\ At(c, "registered") /\ Go(c, "admitted")
    /\ UNCHANGED <<producers, queue, recordStarted, queueFullDrops, lateAfterCutoffDrops>>
    /\ RecordOnly

RecordRecheck(c) ==
    /\ At(c, "registered")
    /\ \/ Late(c, "leaving")
       \/ admitting /\ Go(c, "admitted")
          /\ UNCHANGED <<producers, queue, recordStarted, queueFullDrops, lateAfterCutoffDrops>>
    /\ RecordOnly

RecordEnqueue(c) ==
    /\ At(c, "admitted") /\ Go(c, "leaving")
    /\ IF Cardinality(queue) < QueueCapacity
          THEN queue' = queue \cup {c} /\ UNCHANGED queueFullDrops
          ELSE queueFullDrops' = queueFullDrops + 1 /\ UNCHANGED queue
    /\ UNCHANGED <<producers, recordStarted, lateAfterCutoffDrops>>
    /\ RecordOnly

RecordLeave(c) ==
    /\ At(c, "leaving") /\ Go(c, "done")
    /\ producers' = producers - 1
    /\ UNCHANGED <<queue, recordStarted, queueFullDrops, lateAfterCutoffDrops>>
    /\ RecordOnly

Record(c) ==
    \/ RecordStart(c) \/ RecordCheck(c) \/ RecordEnter(c)
    \/ RecordRecheck(c) \/ RecordEnqueue(c) \/ RecordLeave(c)

(* StopAdmission, as Close and the serve lifecycle call it.                *)
StopAdmission ==
    /\ admitting /\ admitting' = FALSE
    /\ UNCHANGED <<recordVars, writerVars, dbVars, outcomeVars, logVars, closeVars>>

-----------------------------------------------------------------------------
(* runWriter.                                                              *)

WriterOnly ==
    /\ UNCHANGED <<call, admitting, producers, recordStarted, queueFullDrops, lateAfterCutoffDrops>>
    /\ UNCHANGED <<closer, expired, finalize, cleanupDone, cleanupSuccessful, publisher, final>>

WriterGo(from, to) == writer = from /\ writer' = to

(* The top of the loop: a finalize request goes first, a full batch next.  *)
LoopTop ==
    /\ \/ finalize # {} /\ WriterGo("top", "quiesce") /\ finishing' = TRUE
          /\ UNCHANGED lossesDue
       \/ /\ finalize = {} /\ Cardinality(batch) = BatchCapacity
          /\ WriterGo("top", "begin") /\ UNCHANGED finishing
          /\ lossesDue' \in BOOLEAN        \* has the interval passed since the last report?
       \/ finalize = {} /\ Cardinality(batch) # BatchCapacity
          /\ WriterGo("top", "select") /\ UNCHANGED <<finishing, lossesDue>>
    /\ UNCHANGED <<batch, queue, dbVars, outcomeVars, logVars>> /\ WriterOnly

SelectFinalize ==
    /\ finalize # {} /\ WriterGo("select", "quiesce") /\ finishing' = TRUE
    /\ UNCHANGED <<lossesDue, batch, queue, dbVars, outcomeVars, logVars>> /\ WriterOnly

SelectTurn ==
    /\ WriterGo("select", "top")
    /\ \E c \in queue : batch' = batch \cup {c} /\ queue' = queue \ {c}
    /\ UNCHANGED <<finishing, lossesDue, dbVars, outcomeVars, logVars>> /\ WriterOnly

(* Mutant: the timer reports losses and leaves a partial batch waiting.    *)
SelectTimerReportsOnly ==
    /\ WriterGo("select", "snapshot") /\ lossesDue' = TRUE
    /\ UNCHANGED <<finishing, batch, queue, dbVars, outcomeVars, logVars>> /\ WriterOnly

SelectTimer ==
    /\ WriterGo("select", IF batch = {} THEN "snapshot" ELSE "begin")
    /\ lossesDue' = TRUE
    /\ UNCHANGED <<finishing, batch, queue, dbVars, outcomeVars, logVars>> /\ WriterOnly

-----------------------------------------------------------------------------
(* writeBatch, whose statements may each fail.  Inside finish they run     *)
(* under the context of the Close call that asked for it.                  *)

ContextLive == ~finishing \/ finalize \cap expired = {}

Fail == WriterGo(writer, "rollback")

WriteBegin ==
    /\ writer = "begin"
    /\ \/ ContextLive /\ ~inTxn /\ WriterGo("begin", "insert")
          /\ inTxn' = TRUE /\ pending' = {}
       \/ Fail /\ inTxn' = TRUE /\ UNCHANGED pending   \* acquired, then reported ctx.Err
       \/ Fail /\ UNCHANGED <<inTxn, pending>>
    /\ UNCHANGED <<finishing, lossesDue, batch, stored, queue, outcomeVars, logVars>> /\ WriterOnly

WriteInsert ==
    /\ writer = "insert" /\ batch \ pending # {}
    /\ \/ /\ ContextLive /\ UNCHANGED writer
          /\ \E c \in batch \ pending : pending' = pending \cup {c}
       \/ Fail /\ UNCHANGED pending
    /\ UNCHANGED <<finishing, lossesDue, batch, inTxn, stored, queue, outcomeVars, logVars>>
    /\ WriterOnly

(* Mutant: a failed COMMIT is taken for a success.                         *)
WriteCommitUnchecked ==
    /\ writer = "insert" /\ batch \subseteq pending /\ writer' = "settle"
    /\ \/ ContextLive /\ stored' = stored \cup pending
       \/ UNCHANGED stored
    /\ inTxn' = FALSE /\ pending' = {}
    /\ UNCHANGED <<finishing, lossesDue, batch, queue, outcomeVars, logVars>> /\ WriterOnly

WriteCommit ==
    /\ writer = "insert" /\ batch \subseteq pending
    /\ \/ ContextLive /\ writer' = "settle"
          /\ stored' = stored \cup pending /\ inTxn' = FALSE /\ pending' = {}
       \/ Fail /\ stored' = stored \cup pending /\ inTxn' = FALSE /\ pending' = {}
       \/ Fail /\ UNCHANGED dbVars
    /\ UNCHANGED <<finishing, lossesDue, batch, queue, outcomeVars, logVars>> /\ WriterOnly

(* The deferred ROLLBACK of every write that did not reach its end.        *)
WriteRollback ==
    /\ WriterGo("rollback", "settleFailure")
    /\ inTxn' = FALSE /\ pending' = {}
    /\ UNCHANGED <<finishing, lossesDue, batch, stored, queue, outcomeVars, logVars>> /\ WriterOnly

-----------------------------------------------------------------------------
(* Settling a batch: the counters move unless the final report sealed them *)

(* Mutant: finish writes one batch and leaves the rest of the queue.       *)
AfterFlushOnce == IF finishing THEN "cleanup" ELSE IF lossesDue THEN "snapshot" ELSE "top"

AfterFlush == IF finishing THEN "fill" ELSE IF lossesDue THEN "snapshot" ELSE "top"

settleCommitted ==
    /\ WriterGo("settle", AfterFlush)
    /\ IF outcomesSealed
          THEN UNCHANGED <<committed, writeFailures, failureVersion>>
          ELSE /\ committed' = committed + Cardinality(batch)
               /\ writeFailures' = 0
               /\ failureVersion' = failureVersion + IF writeFailures > 0 THEN 1 ELSE 0
    /\ batch' = {}
    /\ UNCHANGED <<runtimeWriteLosses, outcomesSealed, finishing, lossesDue, queue, dbVars, logVars>>
    /\ WriterOnly

NoteWriteFailure ==
    IF outcomesSealed THEN UNCHANGED <<writeFailures, failureVersion>>
    ELSE writeFailures' = writeFailures + 1 /\ failureVersion' = failureVersion + 1

(* Mutant: a failed batch is kept, to be written again.                    *)
settleRuntimeFailureRetry ==
    /\ ~finishing /\ WriterGo("settleFailure", AfterFlush)
    /\ runtimeWriteLosses' = runtimeWriteLosses + IF outcomesSealed THEN 0 ELSE Cardinality(batch)
    /\ NoteWriteFailure
    /\ UNCHANGED <<batch, committed, outcomesSealed, finishing, lossesDue, queue, dbVars, logVars>>
    /\ WriterOnly

settleRuntimeFailure ==
    /\ ~finishing /\ WriterGo("settleFailure", AfterFlush)
    /\ runtimeWriteLosses' = runtimeWriteLosses + IF outcomesSealed THEN 0 ELSE Cardinality(batch)
    /\ NoteWriteFailure
    /\ batch' = {}
    /\ UNCHANGED <<committed, outcomesSealed, finishing, lossesDue, queue, dbVars, logVars>>
    /\ WriterOnly

(* finish gives the batch up, and drainCount empties the queue.            *)
settleFinalFailure ==
    /\ finishing /\ WriterGo("settleFailure", "cleanup")
    /\ NoteWriteFailure
    /\ queue' = {}
    /\ UNCHANGED <<committed, runtimeWriteLosses, outcomesSealed, finishing, lossesDue, batch, dbVars, logVars>>
    /\ WriterOnly

-----------------------------------------------------------------------------
(* publishRuntimeLosses: the totals are read first and logged, when they   *)
(* changed and the final record is not out, under logMu.  publishFinal     *)
(* holds logMu from sealing until its record is out.                       *)

LogMuFree == publisher \in {"none", "published"}

runtimeSnapshot ==
    /\ WriterGo("snapshot", "report")
    /\ snapshot' = [queueFull |-> queueFullDrops, runtimeLost |-> runtimeWriteLosses,
                    version |-> failureVersion]
    /\ UNCHANGED <<lastReported, loggingSealed, logged>>
    /\ UNCHANGED <<finishing, lossesDue, batch, queue, dbVars, outcomeVars>> /\ WriterOnly

(* Mutant: loggingSealed is not looked at under logMu.                     *)
publishRuntimeLossesUnsealed ==
    /\ WriterGo("report", "top") /\ LogMuFree
    /\ lastReported' = snapshot
    /\ logged' = IF snapshot = lastReported THEN logged ELSE <<"runtime", snapshot>>
    /\ lossesDue' = FALSE
    /\ UNCHANGED <<snapshot, loggingSealed, finishing, batch, queue, dbVars, outcomeVars>> /\ WriterOnly

publishRuntimeLosses ==
    /\ WriterGo("report", "top") /\ LogMuFree
    /\ IF loggingSealed \/ snapshot = lastReported
          THEN UNCHANGED <<lastReported, logged>>
          ELSE lastReported' = snapshot /\ logged' = <<"runtime", snapshot>>
    /\ lossesDue' = FALSE
    /\ UNCHANGED <<snapshot, loggingSealed, finishing, batch, queue, dbVars, outcomeVars>> /\ WriterOnly

-----------------------------------------------------------------------------
(* finish.                                                                 *)

waitForProducers ==
    /\ \/ producers = 0 /\ WriterGo("quiesce", "fill")
       \/ producers # 0 /\ finalize \cap expired # {} /\ WriterGo("quiesce", "cleanup")
    /\ UNCHANGED <<finishing, lossesDue, batch, queue, dbVars, outcomeVars, logVars>> /\ WriterOnly

Fill ==
    /\ writer = "fill"
    /\ \E taken \in SUBSET queue :
          /\ \/ taken = queue /\ Cardinality(batch \cup taken) <= BatchCapacity
             \/ Cardinality(batch \cup taken) = BatchCapacity
          /\ batch' = batch \cup taken /\ queue' = queue \ taken
          /\ writer' = IF batch \cup taken = {} THEN "cleanup" ELSE "begin"
    /\ UNCHANGED <<finishing, lossesDue, dbVars, outcomeVars, logVars>> /\ WriterOnly

Cleanup ==
    /\ WriterGo("cleanup", "exited")
    /\ cleanupDone' = TRUE /\ cleanupSuccessful' \in BOOLEAN   \* did both closes succeed?
    /\ UNCHANGED <<call, admitting, producers, recordStarted, queueFullDrops, lateAfterCutoffDrops>>
    /\ UNCHANGED <<closer, expired, finalize, publisher, final>>
    /\ UNCHANGED <<finishing, lossesDue, batch, queue, dbVars, outcomeVars, logVars>>

Writer ==
    \/ LoopTop \/ SelectFinalize \/ SelectTurn \/ SelectTimer
    \/ WriteBegin \/ WriteInsert \/ WriteCommit \/ WriteRollback
    \/ settleCommitted \/ settleRuntimeFailure \/ settleFinalFailure
    \/ runtimeSnapshot \/ publishRuntimeLosses
    \/ waitForProducers \/ Fill \/ Cleanup

-----------------------------------------------------------------------------
(* Close.  closeOnce hands the writer the first caller's context only.     *)

CloseOnly == UNCHANGED <<recordVars, writerVars, dbVars>>

Close(k) ==
    /\ closer[k] = "idle" /\ closer' = [closer EXCEPT ![k] = "waiting"]
    /\ admitting' = FALSE
    /\ finalize' = IF finalize = {} THEN {k} ELSE finalize
    /\ UNCHANGED <<expired, cleanupDone, cleanupSuccessful, publisher, final, outcomeVars, logVars>>
    /\ CloseOnly

ContextDone(k) ==
    /\ closer[k] # "idle" /\ k \notin expired /\ expired' = expired \cup {k}
    /\ UNCHANGED <<admitting, closer, finalize, cleanupDone, cleanupSuccessful, publisher, final>>
    /\ UNCHANGED <<outcomeVars, logVars>> /\ CloseOnly

CloseWaited(k) ==
    /\ closer[k] = "waiting" /\ (cleanupDone \/ k \in expired)
    /\ closer' = [closer EXCEPT ![k] = "publish"]
    /\ UNCHANGED <<admitting, expired, finalize, cleanupDone, cleanupSuccessful, publisher, final>>
    /\ UNCHANGED <<outcomeVars, logVars>> /\ CloseOnly

(* publishFinalOnce: the first caller publishes, the others wait for it.   *)
PublishSeal(k) ==
    /\ closer[k] = "publish" /\ publisher = "none"
    /\ closer' = [closer EXCEPT ![k] = "publishing"]
    /\ publisher' = "outcomes" /\ loggingSealed' = TRUE
    /\ final' = [final EXCEPT !.cleanup = cleanupDone /\ cleanupSuccessful]
    /\ UNCHANGED <<admitting, expired, finalize, cleanupDone, cleanupSuccessful>>
    /\ UNCHANGED <<snapshot, lastReported, logged, outcomeVars>> /\ CloseOnly

SettleStep(from, to) ==
    /\ publisher = from /\ publisher' = to
    /\ UNCHANGED <<admitting, closer, expired, finalize, cleanupDone, cleanupSuccessful>>
    /\ CloseOnly

SettleOutcomes ==
    /\ SettleStep("outcomes", "queueFull")
    /\ outcomesSealed' = TRUE
    /\ final' = [final EXCEPT !.committed = committed, !.runtimeLost = runtimeWriteLosses]
    /\ UNCHANGED <<committed, runtimeWriteLosses, writeFailures, failureVersion, logVars>>

SettleQueueFull ==
    /\ SettleStep("queueFull", "late")
    /\ final' = [final EXCEPT !.queueFull = queueFullDrops]
    /\ UNCHANGED <<outcomeVars, logVars>>

SettleLate ==
    /\ SettleStep("late", "started")
    /\ final' = [final EXCEPT !.late = lateAfterCutoffDrops]
    /\ UNCHANGED <<outcomeVars, logVars>>

FinalFlushLosses(started) ==
    (started - final.queueFull - final.late - final.committed - final.runtimeLost) % Word

(* The last load, the subtraction, the final record, and logMu released.   *)
SettleStarted ==
    /\ SettleStep("started", "published")
    /\ final' = [final EXCEPT !.started = recordStarted,
                              !.finalLost = FinalFlushLosses(recordStarted)]
    /\ logged' = <<"final", [queueFull   |-> final.queueFull,
                             runtimeLost |-> final.runtimeLost, version |-> failureVersion]>>
    /\ UNCHANGED <<outcomeVars, snapshot, lastReported, loggingSealed>>

(* Mutant: only the caller that published leaves publishFinalOnce.         *)
CloseReturnFirst(k) ==
    /\ closer[k] = "publishing" /\ publisher = "published"
    /\ closer' = [closer EXCEPT ![k] = "returned"]
    /\ UNCHANGED <<admitting, expired, finalize, cleanupDone, cleanupSuccessful, publisher, final>>
    /\ UNCHANGED <<outcomeVars, logVars>> /\ CloseOnly

CloseReturn(k) ==
    /\ closer[k] \in {"publish", "publishing"} /\ publisher = "published"
    /\ closer' = [closer EXCEPT ![k] = "returned"]
    /\ UNCHANGED <<admitting, expired, finalize, cleanupDone, cleanupSuccessful, publisher, final>>
    /\ UNCHANGED <<outcomeVars, logVars>> /\ CloseOnly

Publisher == SettleOutcomes \/ SettleQueueFull \/ SettleLate \/ SettleStarted

Closing(k) == Close(k) \/ CloseWaited(k) \/ PublishSeal(k) \/ CloseReturn(k)

Next ==
    \/ \E c \in Calls : Record(c)
    \/ StopAdmission
    \/ Writer
    \/ \E k \in Closers : Closing(k) \/ ContextDone(k)
    \/ Publisher

Spec == Init /\ [][Next]_vars

(* Goroutines are scheduled, SQLite calls come back (busy_timeout bounds   *)
(* them), the timer fires, every Close context has a deadline, and a       *)
(* select that keeps offering a ready channel takes it in the end.  Calls  *)
(* of Record, StopAdmission and Close need never come.                     *)
Fairness ==
    /\ \A c \in Calls : WF_vars(Record(c) /\ ~At(c, "idle"))
    /\ WF_vars(Writer) /\ SF_vars(SelectTurn) /\ SF_vars(SelectFinalize)
    /\ \A k \in Closers : WF_vars(Closing(k) /\ closer[k] # "idle") /\ WF_vars(ContextDone(k))
    /\ WF_vars(Publisher)

FairSpec == Spec /\ Fairness

-----------------------------------------------------------------------------
(* Properties.                                                             *)

Undecided == {c \in Calls : call[c] \in {"started", "entering", "registered", "admitted"}}

RecordTypeOK ==
    /\ call \in [Calls -> {"idle", "started", "entering", "registered", "admitted", "leaving", "done"}]
    /\ admitting \in BOOLEAN /\ producers \in Nat /\ queue \subseteq Calls
    /\ recordStarted \in Nat /\ queueFullDrops \in Nat /\ lateAfterCutoffDrops \in Nat

WriterTypeOK ==
    /\ writer \in {"top", "select", "begin", "insert", "rollback", "settle", "settleFailure",
                   "snapshot", "report", "quiesce", "fill", "cleanup", "exited"}
    /\ finishing \in BOOLEAN /\ lossesDue \in BOOLEAN /\ batch \subseteq Calls

DatabaseTypeOK == inTxn \in BOOLEAN /\ pending \subseteq Calls /\ stored \subseteq Calls

OutcomeTypeOK ==
    /\ committed \in Nat /\ runtimeWriteLosses \in Nat
    /\ writeFailures \in Nat /\ failureVersion \in Nat
    /\ outcomesSealed \in BOOLEAN /\ loggingSealed \in BOOLEAN

CloseTypeOK ==
    /\ closer \in [Closers -> {"idle", "waiting", "publish", "publishing", "returned"}]
    /\ expired \subseteq Closers /\ finalize \subseteq Closers
    /\ cleanupDone \in BOOLEAN /\ cleanupSuccessful \in BOOLEAN
    /\ publisher \in {"none", "outcomes", "queueFull", "late", "started", "published"}

(* Every counter is a count and every program counter one of the places of *)
(* the code: Record, runWriter, finish, writeBatch, Close, publishFinal.   *)
TypeOK == RecordTypeOK /\ WriterTypeOK /\ DatabaseTypeOK /\ OutcomeTypeOK /\ CloseTypeOK

(* settleFinalReport's claim: its classes are disjoint and sum to the      *)
(* calls started, so the unsigned residual cannot wrap, whatever Record    *)
(* calls and writer steps run between its five loads.                      *)
FinalReportBalances ==
    publisher = "published" =>
        final.queueFull + final.late + final.committed + final.runtimeLost + final.finalLost
            = final.started

(* While finish drains, no Record call can add to the queue: the producers *)
(* count and the second look at admitting close the window between them.   *)
Draining == finishing /\ writer \in {"fill", "begin", "insert", "rollback", "settle", "settleFailure"}
NoArrivalWhileDraining == [][Draining => queue' \subseteq queue]_vars

(* An orderly Close, whose context outlives the writer and whose writes    *)
(* succeed, leaves every Turn that was neither late nor dropped stored.    *)
CleanCloseLosesNothing ==
    writer = "exited" /\ expired = {} /\ writeFailures = 0 /\ runtimeWriteLosses = 0 =>
        recordStarted = Cardinality(stored) + Cardinality(Undecided)
                        + queueFullDrops + lateAfterCutoffDrops

(* A failed or ambiguously committed batch is never replayed: no Turn that *)
(* is in the database is written again.                                    *)
NoReplay == writer = "begin" => batch \cap stored = {}

(* Loss totals in the log never go back, and no runtime record follows the *)
(* final one, though the writer logs from a snapshot taken before logMu.   *)
LossRecordsAdvance ==
    [][logged # <<>> /\ logged' # logged =>
          /\ logged[1] = "runtime"
          /\ logged'[2].queueFull >= logged[2].queueFull
          /\ logged'[2].runtimeLost >= logged[2].runtimeLost]_vars

(* Each Turn, seen from outside.  What the writer abandons when it exits,  *)
(* and what a straggler puts into the abandoned queue, is lost.            *)
Fate(c) ==
    IF c \in stored THEN "stored"
    ELSE IF call[c] = "idle" THEN "unrecorded"
    ELSE IF c \in Undecided \/ (c \in queue \cup batch /\ writer # "exited") THEN "open"
    ELSE "lost"

Published ==
    IF publisher # "published" THEN {}
    ELSE {[recorded |-> final.started,
           lost     |-> final.queueFull + final.late + final.runtimeLost + final.finalLost]}

Ledger == INSTANCE UsageLedger
    WITH Turns <- Calls, turn <- [c \in Calls |-> Fate(c)], report <- Published

(* The store implements the ledger: no Turn leaves the database or comes   *)
(* back from the lost, and the one report overstates nothing.              *)
ImplementsLedger == Ledger!Spec

(* Close returns: the writer's cleanup or the deadline ends every wait.    *)
CloseReturns == \A k \in Closers : closer[k] = "waiting" ~> closer[k] = "returned"

(* Every recorded Turn ends stored or lost, Close or no Close: the timer   *)
(* flushes a batch that never fills.                                       *)
TurnsSettle == \A c \in Calls : call[c] = "started" ~> Fate(c) \in {"stored", "lost"}
=============================================================================
