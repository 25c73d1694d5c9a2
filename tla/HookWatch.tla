----------------------------- MODULE HookWatch ------------------------------
(***************************************************************************)
(* Hook overruns: internal/shim's Watchdog, one for each direction of a    *)
(* transport, and the count in the request's Summary that they share.      *)
(*                                                                         *)
(* A direction invokes its hooks one after the other.  The watchdog's one  *)
(* timer is stopped and set again for each invocation, but a callback that *)
(* the timer has already started goes on whatever becomes of its           *)
(* invocation.  The state lock mu is a step of the model's, except where a *)
(* callback holds it while it waits for the publication lock.              *)
(***************************************************************************)
EXTENDS Naturals, FiniteSets, Sequences

CONSTANTS
    Directions,     \* of the transport; each has its watchdog
    Callbacks,      \* the timer's goroutines that can be there at once
    Threshold,      \* shim-hook-overrun-threshold, in ticks
    MaxInvocations  \* the bound on each direction's invocations

ASSUME HookWatchAssumption ==
    /\ Threshold \in Nat \ {0} /\ MaxInvocations \in Nat
    /\ IsFiniteSet(Directions) /\ Callbacks \cap {"nobody", "hook"} = {}

Nobody == "nobody"
Hook == "hook"          \* the goroutine that invokes the hooks
Off == Threshold + 1    \* a timer that is not set

VARIABLES
    hook,       \* each direction's hook goroutine
    turn,       \* the number of its invocation
    active, crossed, elapsed,   \* Watchdog.active, .crossed, the time since .started
    timer,      \* the ticks that are left, or Off
    callback,   \* each callback, and the invocation it publishes
    mu,         \* the callback that holds mu from one step to the next
    publishMu,  \* who holds publishMu
    records,    \* each direction's "shim hook overrun" records
    overruns,   \* Summary.hookOverruns
    access      \* the count in the access record, once it is closed

watchdogVars == <<active, crossed, elapsed, timer, mu, publishMu>>
summaryVars  == <<overruns, access>>
watchVars == <<hook, turn, watchdogVars, callback, records, summaryVars>>

Open == MaxInvocations * Cardinality(Directions) + 1    \* Summary.closed is false

WatchInit ==
    /\ hook = [d \in Directions |-> "between"]
    /\ turn = [d \in Directions |-> 0]
    /\ active = [d \in Directions |-> FALSE] /\ crossed = [d \in Directions |-> FALSE]
    /\ elapsed = [d \in Directions |-> 0] /\ timer = [d \in Directions |-> Off]
    /\ callback = [d \in Directions |-> [c \in Callbacks |-> [at |-> "none", turn |-> 0]]]
    /\ mu = [d \in Directions |-> Nobody] /\ publishMu = [d \in Directions |-> Nobody]
    /\ records = [d \in Directions |-> <<>>]
    /\ overruns = 0 /\ access = Open

Set(f, d, v) == [f EXCEPT ![d] = v]

Publish(d, n, state) == records' = Set(records, d, Append(records[d], [turn |-> n, state |-> state]))

-----------------------------------------------------------------------------
(* Invoke.                                                                 *)

(* The adapters invoke one hook at a time, so begin never finds the        *)
(* watchdog active.                                                        *)
Begins(d) ==
    /\ hook[d] = "between" /\ turn[d] < MaxInvocations /\ mu[d] = Nobody /\ ~active[d]
    /\ hook' = Set(hook, d, "running") /\ turn' = Set(turn, d, turn[d] + 1)
    /\ active' = Set(active, d, TRUE)
    /\ elapsed' = Set(elapsed, d, 0) /\ timer' = Set(timer, d, Threshold)
    /\ UNCHANGED <<callback, mu, publishMu, records, summaryVars>>

(* Mutant: what the last invocation crossed stays crossed.                 *)
BeginStillCrossed(d) == Begins(d) /\ UNCHANGED crossed

Begin(d) == Begins(d) /\ crossed' = Set(crossed, d, FALSE)

(* The hook returns or panics; either way finish is next.                  *)
HookEnds(d) ==
    /\ hook[d] = "running"
    /\ \E state \in {"returned", "panicked"} : hook' = Set(hook, d, state)
    /\ UNCHANGED <<turn, watchdogVars, callback, records, summaryVars>>

(* finish, while it holds mu.                                              *)
Finish(d) ==
    /\ hook[d] \in {"returned", "panicked"} /\ mu[d] = Nobody
    /\ timer' = Set(timer, d, Off) /\ active' = Set(active, d, FALSE)
    /\ hook' = Set(hook, d, IF ~crossed[d] THEN "between"
                            ELSE IF hook[d] = "returned" THEN "owes returned" ELSE "owes panicked")
    /\ UNCHANGED <<turn, crossed, elapsed, callback, mu, publishMu, records, summaryVars>>

Owed(d) == IF hook[d] = "owes returned" THEN "returned" ELSE "panicked"

(* The rest of finish: it waits for publishMu, and the logger may take its *)
(* time.                                                                   *)
LockEnding(d) ==
    /\ hook[d] \in {"owes returned", "owes panicked"} /\ publishMu[d] = Nobody
    /\ publishMu' = Set(publishMu, d, Hook)
    /\ UNCHANGED <<hook, turn, active, crossed, elapsed, timer, callback, mu, records, summaryVars>>

LogEnding(d) ==
    /\ publishMu[d] = Hook
    /\ Publish(d, turn[d], Owed(d))
    /\ publishMu' = Set(publishMu, d, Nobody) /\ hook' = Set(hook, d, "between")
    /\ UNCHANGED <<turn, active, crossed, elapsed, timer, callback, mu, summaryVars>>

(* runtime.Goexit in the hook: the goroutine ends, and says nothing.       *)
Abandon(d) ==
    /\ hook[d] = "running" /\ mu[d] = Nobody
    /\ timer' = Set(timer, d, Off) /\ active' = Set(active, d, FALSE)
    /\ hook' = Set(hook, d, "gone")
    /\ UNCHANGED <<turn, crossed, elapsed, callback, mu, publishMu, records, summaryVars>>

(* The transport is done with this direction.                              *)
Join(d) ==
    /\ hook[d] = "between" /\ hook' = Set(hook, d, "joined")
    /\ UNCHANGED <<turn, watchdogVars, callback, records, summaryVars>>

-----------------------------------------------------------------------------
(* The timer and publishCrossing.                                          *)

Tick ==
    /\ \E d \in Directions : (active[d] /\ elapsed[d] < Threshold) \/ timer[d] \in 1 .. Threshold
    /\ elapsed' = [d \in Directions |->
                     IF active[d] /\ elapsed[d] < Threshold THEN elapsed[d] + 1 ELSE elapsed[d]]
    /\ timer' = [d \in Directions |-> IF timer[d] \in 1 .. Threshold THEN timer[d] - 1 ELSE timer[d]]
    /\ UNCHANGED <<hook, turn, active, crossed, callback, mu, publishMu, records, summaryVars>>

CallbackAt(d, c, from, to, n) ==
    /\ callback[d][c].at = from
    /\ callback' = [callback EXCEPT ![d][c] = [at |-> to, turn |-> n]]

Fire(d, c) ==
    /\ timer[d] = 0 /\ timer' = Set(timer, d, Off)
    /\ CallbackAt(d, c, "none", "queued", 0)
    /\ UNCHANGED <<hook, turn, active, crossed, elapsed, mu, publishMu, records, summaryVars>>

(* A callback that has no invocation to report ends; any other goes on to  *)
(* wait for publishMu, and keeps mu.                                       *)
LooksAt(d, c, due) ==
    /\ mu[d] = Nobody
    /\ IF active[d] /\ ~crossed[d] /\ due
          THEN CallbackAt(d, c, "queued", "locking", 0) /\ mu' = Set(mu, d, c)
          ELSE CallbackAt(d, c, "queued", "none", 0) /\ UNCHANGED mu
    /\ UNCHANGED <<hook, turn, active, crossed, elapsed, timer, publishMu, records, summaryVars>>

Look(d, c) == LooksAt(d, c, elapsed[d] >= Threshold)

Cross(d, c) ==
    /\ publishMu[d] = Nobody
    /\ CallbackAt(d, c, "locking", "logging", turn[d])
    /\ publishMu' = Set(publishMu, d, c)
    /\ crossed' = Set(crossed, d, TRUE) /\ mu' = Set(mu, d, Nobody)
    /\ UNCHANGED <<hook, turn, active, elapsed, timer, records, summaryVars>>

LogsCrossing(d, c) ==
    /\ CallbackAt(d, c, "logging", "counting", callback[d][c].turn)
    /\ Publish(d, callback[d][c].turn, "in_flight")
    /\ UNCHANGED <<hook, turn, active, crossed, elapsed, timer, mu, summaryVars>>

(* Mutant: publishMu covers the logger only.                               *)
LogAndUnlock(d, c) == LogsCrossing(d, c) /\ publishMu' = Set(publishMu, d, Nobody)

LogCrossing(d, c) == LogsCrossing(d, c) /\ UNCHANGED publishMu

(* HookOverrunRecorder.Increment: a closed Summary ignores it.             *)
Increment(d, c) ==
    /\ CallbackAt(d, c, "counting", "none", 0)
    /\ overruns' = IF access = Open THEN overruns + 1 ELSE overruns
    /\ publishMu' = IF publishMu[d] = c THEN Set(publishMu, d, Nobody) ELSE publishMu
    /\ UNCHANGED <<hook, turn, active, crossed, elapsed, timer, mu, records, access>>

-----------------------------------------------------------------------------
(* Summary.Finish, when the handler has returned: not before each          *)
(* direction is joined or gone.  A handler whose every goroutine is gone   *)
(* has gone with them.                                                     *)
FinishSummary ==
    /\ access = Open
    /\ \A d \in Directions : hook[d] \in {"joined", "gone"}
    /\ \E d \in Directions : hook[d] = "joined"
    /\ access' = overruns
    /\ UNCHANGED <<hook, turn, watchdogVars, callback, records, overruns>>

Invoke(d) == Begin(d) \/ Finish(d) \/ LockEnding(d) \/ LogEnding(d)
publishCrossing(d, c) == Look(d, c) \/ Cross(d, c) \/ LogCrossing(d, c) \/ Increment(d, c)

WatchNext ==
    \/ \E d \in Directions : Invoke(d) \/ HookEnds(d) \/ Abandon(d) \/ Join(d)
    \/ Tick \/ FinishSummary
    \/ \E d \in Directions, c \in Callbacks : Fire(d, c) \/ publishCrossing(d, c)

(* Time passes, timers fire, callbacks run, and the logger returns.  Hooks *)
(* need not.                                                               *)
WatchFairness ==
    /\ WF_watchVars(Tick)
    /\ \A d \in Directions : WF_watchVars(\E c \in Callbacks : Fire(d, c))
    /\ \A d \in Directions, c \in Callbacks : WF_watchVars(publishCrossing(d, c))

WatchSpec == WatchInit /\ [][WatchNext]_watchVars /\ WatchFairness

-----------------------------------------------------------------------------
WatchTypeOK ==
    /\ turn \in [Directions -> 0 .. MaxInvocations]
    /\ active \in [Directions -> BOOLEAN] /\ crossed \in [Directions -> BOOLEAN]
    /\ elapsed \in [Directions -> 0 .. Threshold] /\ timer \in [Directions -> 0 .. Off]
    /\ mu \in [Directions -> Callbacks \cup {Nobody}]
    /\ publishMu \in [Directions -> Callbacks \cup {Nobody, Hook}]
    /\ overruns \in 0 .. Open /\ access \in 0 .. Open

Reports(d, n) == {i \in DOMAIN records[d] : records[d][i].turn = n}
Crossed(d, i) == records[d][i].state = "in_flight"

(* An invocation leaves no record, or its crossing, or its crossing and    *)
(* then its ending; and one that has ended has not left its crossing alone *)
(* (monitor.go, "publishMu preserves crossing-before-ending order").       *)
Ended(d, n) == turn[d] > n \/ (turn[d] = n /\ hook[d] \in {"between", "joined"})
CrossingThenEnding ==
    \A d \in Directions, n \in 1 .. MaxInvocations :
        /\ \A i, j \in Reports(d, n) : i < j => Crossed(d, i) /\ ~Crossed(d, j)
        /\ \A j \in Reports(d, n) : ~Crossed(d, j) => \E i \in Reports(d, n) : i < j
        /\ \A i \in Reports(d, n) : Crossed(d, i) /\ Ended(d, n) => \E j \in Reports(d, n) : i < j

(* What a late callback of an earlier invocation finds is not reported     *)
(* before it is overdue itself (monitor.go, publishCrossing).              *)
OnlyOverdueCross == \A d \in Directions : crossed[d] /\ active[d] => elapsed[d] >= Threshold

Crossings == {s \in Directions \X (1 .. MaxInvocations) : Reports(s[1], s[2]) # {}}
Pairs == {s \in Crossings : \E i \in Reports(s[1], s[2]) : ~Crossed(s[1], i)}

(* The access record counts each pair of records in the log, although the  *)
(* callbacks that count them are joined by nobody, and counts nothing that *)
(* the log does not have.                                                  *)
AccessCountsPairs ==
    access # Open => Cardinality(Pairs) <= access /\ access <= Cardinality(Crossings)

(* Nobody waits for publishMu with mu in hand: a slow logger holds up      *)
(* neither begin nor the part of finish that needs mu.                     *)
StateLockIsPrompt == \A d \in Directions : mu[d] # Nobody => publishMu[d] = Nobody

(* The records of the log and the access count, in all four respects.      *)
RecordsAreTrue == CrossingThenEnding /\ OnlyOverdueCross /\ AccessCountsPairs /\ StateLockIsPrompt

(* A hook that never returns is reported, whatever was reported before it  *)
(* (ADR-0016, "a finite earlier overrun can never suppress a later         *)
(* permanently in-flight invocation").  The invocation is the direction's  *)
(* current one: another cannot begin before this one has stopped running.  *)
StuckHookIsReported ==
    \A d \in Directions :
        hook[d] = "running" ~> hook[d] # "running" \/ <<d, turn[d]>> \in Crossings
=============================================================================
