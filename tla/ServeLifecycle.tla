--------------------------- MODULE ServeLifecycle ---------------------------
(***************************************************************************)
(* The serve lifecycle of cmd/copilotd/main.go: setup, Server.Run, the end *)
(* of usage admission and the store's finalization, with the requests that *)
(* record usage and the startup sequence that nobody joins.                *)
(*                                                                         *)
(* The parts that have modules of their own are kept to what they promise: *)
(* the WebSocket drain is clean only when its handlers have returned       *)
(* (WsDrain), a Record is admitted or late and Close returns (UsageStore), *)
(* and the startup steps end with their context (CachedValues, Minting).   *)
(***************************************************************************)
EXTENDS Naturals, FiniteSets

CONSTANTS
    HttpRequests, WsRequests    \* the requests that arrive, by transport

ASSUME RequestsFinite == IsFiniteSet(HttpRequests) /\ IsFiniteSet(WsRequests)

Requests == HttpRequests \cup WsRequests

VARIABLES
    pc,             \* runServeLifecycle
    meter,          \* cfg.ShimUsageMeterEnabled
    cancelled,      \* ctx, which SIGTERM cancels
    listener,       \* "none", "open" or "closed"
    store,          \* the usage store: "none", "open" or "closed"
    admitting, late,            \* its admission, and the Records that it refused
    startupCancelled, startup,  \* the startup context and sequence
    serving,        \* http.Server.Serve accepts
    serveFailed,    \* Serve has failed, and its error waits in serveErr
    expired,        \* the shutdown deadline has passed
    httpErr, wsErr, \* the results of the two drains
    outcome,        \* the lifecycle's result
    request,        \* each request
    admitted        \* those whose Turn the store has taken

lifecycleVars == <<pc, meter, listener, store, startupCancelled, outcome>>
drainVars     == <<serving, serveFailed, expired, httpErr, wsErr>>
usageVars     == <<late, request, admitted>>
vars == <<lifecycleVars, cancelled, admitting, startup, drainVars, usageVars>>

Init ==
    /\ pc = "entered" /\ meter \in BOOLEAN /\ cancelled \in BOOLEAN
    /\ listener \in {"none", "open"}    \* a listener may be supplied
    /\ store = "none" /\ admitting = FALSE /\ late = 0
    /\ startupCancelled = FALSE /\ startup = "none"
    /\ serving = FALSE /\ serveFailed = FALSE /\ expired = FALSE
    /\ httpErr = "none" /\ wsErr = "none"
    /\ outcome = "none"
    /\ request = [r \in Requests |-> "idle"] /\ admitted = {}

-----------------------------------------------------------------------------
(* Setup.  pc names the step that is behind; the context is looked at      *)
(* after every step and within none.                                       *)

Cancel ==
    /\ ~cancelled /\ pc # "returned" /\ cancelled' = TRUE
    /\ UNCHANGED <<lifecycleVars, admitting, startup, drainVars, usageVars>>

Setup == {"entered", "provider", "caches", "path", "store", "registry", "bind", "startup", "server"}

After(step) ==
    CASE step = "entered"  -> "provider"
      [] step = "provider" -> "caches"
      [] step = "caches"   -> IF meter THEN "path" ELSE "registry"
      [] step = "path"     -> "store"
      [] step = "store"    -> "registry"
      [] step = "registry" -> "bind"
      [] step = "bind"     -> "startup"
      [] step = "startup"  -> "server"
      [] OTHER             -> "running"

CanFail(step) == step \in {"provider", "path", "store"} \/ (step = "bind" /\ listener = "none")

(* A step without an outcome of its own: what it acquires, it releases on  *)
(* no path but endUnserved's and Run's.                                    *)
StepSucceeds ==
    /\ pc \in Setup /\ ~cancelled
    /\ pc' = After(pc)
    /\ store' = IF pc' = "store" THEN "open" ELSE store
    /\ admitting' = (admitting \/ pc' = "store")
    /\ listener' = IF pc' = "bind" THEN "open" ELSE listener
    /\ startup' = IF pc' = "startup" THEN "priming" ELSE startup
    /\ serving' = (pc' = "running")
    /\ UNCHANGED <<meter, cancelled, startupCancelled, outcome>>
    /\ UNCHANGED <<serveFailed, expired, httpErr, wsErr, usageVars>>

(* endUnserved, up to finalizeServe.                                       *)
EndUnserved(result) ==
    /\ pc' = "finalizing" /\ outcome' = result
    /\ listener' = IF listener = "none" THEN "none" ELSE "closed"
    /\ UNCHANGED <<meter, cancelled, store, admitting, startupCancelled, startup>>
    /\ UNCHANGED <<drainVars, usageVars>>

StepFails ==
    /\ pc \in Setup /\ ~cancelled /\ CanFail(After(pc))
    /\ EndUnserved(IF After(pc) = "bind" THEN "bind failure" ELSE "pre-bind failure")

StepCancelled ==
    /\ pc \in Setup /\ cancelled
    /\ EndUnserved("clean")

-----------------------------------------------------------------------------
(* Server.Run and Server.shutdown.                                         *)

ServerOnly == UNCHANGED <<meter, cancelled, store, admitting, startupCancelled, startup, usageVars>>

(* Serve ends by itself; it closes the listener.                           *)
ServeFails ==
    /\ serving /\ serving' = FALSE /\ serveFailed' = TRUE /\ listener' = "closed"
    /\ UNCHANGED <<pc, outcome, expired, httpErr, wsErr>> /\ ServerOnly

SelectServeErr ==
    /\ pc = "running" /\ serveFailed
    /\ pc' = "served" /\ outcome' = "serve failure"
    /\ UNCHANGED <<listener, drainVars>> /\ ServerOnly

(* Shutdown closes the listener; the WebSocket admission is closed first.  *)
SelectDone ==
    /\ pc = "running" /\ cancelled
    /\ pc' = "draining" /\ serving' = FALSE /\ listener' = "closed"
    /\ httpErr' = "draining" /\ wsErr' = "draining"
    /\ UNCHANGED <<outcome, serveFailed, expired>> /\ ServerOnly

Expire ==
    /\ pc = "draining" /\ ~expired /\ expired' = TRUE
    /\ UNCHANGED <<pc, outcome, listener, serving, serveFailed, httpErr, wsErr>> /\ ServerOnly

Idle(R) == \A r \in R : request[r] # "handled" /\ request[r] # "recorded"

HttpDrains ==
    /\ httpErr = "draining"
    /\ \/ Idle(HttpRequests) /\ httpErr' = "drained"
       \/ expired /\ httpErr' = "deadline"
       \/ httpErr' = "failed"
    /\ UNCHANGED <<pc, outcome, listener, serving, serveFailed, expired, wsErr>> /\ ServerOnly

(* Mutant: the WebSocket drain waits for nobody.                           *)
WsDrainsUnasked ==
    /\ wsErr = "draining" /\ wsErr' = "drained"
    /\ UNCHANGED <<pc, outcome, listener, serving, serveFailed, expired, httpErr>> /\ ServerOnly

WsDrains ==
    /\ wsErr = "draining"
    /\ \/ Idle(WsRequests) /\ wsErr' = "drained"
       \/ expired /\ wsErr' = "deadline"
    /\ UNCHANGED <<pc, outcome, listener, serving, serveFailed, expired, httpErr>> /\ ServerOnly

Classify ==
    /\ pc = "draining" /\ "draining" \notin {httpErr, wsErr}
    /\ pc' = "served"
    /\ outcome' = IF {httpErr, wsErr} = {"drained"} THEN "clean"
                  ELSE IF "failed" \in {httpErr, wsErr} THEN "serve failure" ELSE "forced drain"
    /\ UNCHANGED <<listener, drainVars>> /\ ServerOnly

-----------------------------------------------------------------------------
(* After Run.                                                              *)

LifecycleAt(from, to) == pc = from /\ pc' = to
Ending == UNCHANGED <<meter, cancelled, listener, startup, outcome, drainVars, usageVars>>

StopAdmission ==
    /\ LifecycleAt("served", "cut off") /\ admitting' = FALSE
    /\ UNCHANGED <<store, startupCancelled>> /\ Ending

CancelStartup ==
    /\ LifecycleAt("cut off", "finalizing") /\ startupCancelled' = TRUE
    /\ UNCHANGED <<store, admitting>> /\ Ending

(* finalizeUsageStore: StopAdmission, and Close within a fresh timeout.    *)
FinalizeStopsAdmission ==
    /\ LifecycleAt("finalizing", "closing") /\ admitting' = FALSE
    /\ UNCHANGED <<store, startupCancelled>> /\ Ending

(* Close has returned, and so does the lifecycle; cancelStartup is         *)
(* deferred.                                                               *)
Return ==
    /\ LifecycleAt("closing", "returned")
    /\ store' = IF store = "open" THEN "closed" ELSE store
    /\ startupCancelled' = TRUE
    /\ UNCHANGED <<admitting>> /\ Ending

-----------------------------------------------------------------------------
(* The startup sequence.  Each step ends with the context at the latest;   *)
(* the refresh loops end only with it.                                     *)
runServeStartup ==
    /\ \/ startup = "priming" /\ startup' = "minting"
       \/ startup = "minting" /\ startup' = "refreshing"
       \/ startup = "refreshing" /\ (startupCancelled \/ cancelled) /\ startup' = "ended"
    /\ UNCHANGED <<lifecycleVars, cancelled, admitting, drainVars, usageVars>>

-----------------------------------------------------------------------------
(* The requests.                                                           *)

RequestOnly == UNCHANGED <<lifecycleVars, cancelled, admitting, startup, drainVars>>

(* A connection that is kept alive may bring a request while HTTP drains;  *)
(* an upgrade is refused from StartDrain on.                               *)
Arrive(r) ==
    /\ request[r] = "idle"
    /\ serving \/ (r \in HttpRequests /\ httpErr = "draining")
    /\ request' = [request EXCEPT ![r] = "handled"]
    /\ UNCHANGED <<late, admitted>> /\ RequestOnly

(* The usage meter, in the handler.                                        *)
Record(r) ==
    /\ meter /\ request[r] = "handled"
    /\ request' = [request EXCEPT ![r] = "recorded"]
    /\ IF admitting THEN admitted' = admitted \cup {r} /\ UNCHANGED late
                    ELSE late' = late + 1 /\ UNCHANGED admitted
    /\ RequestOnly

HandlerReturns(r) ==
    /\ request[r] \in {"handled", "recorded"}
    /\ request' = [request EXCEPT ![r] = "done"]
    /\ UNCHANGED <<late, admitted>> /\ RequestOnly

SetupStep == StepSucceeds \/ StepFails \/ StepCancelled
RunStep == SelectServeErr \/ SelectDone \/ Expire \/ Classify
EndStep == StopAdmission \/ CancelStartup \/ FinalizeStopsAdmission \/ Return

Next ==
    \/ Cancel \/ SetupStep \/ RunStep \/ ServeFails \/ HttpDrains \/ WsDrains
    \/ EndStep \/ runServeStartup
    \/ \E r \in Requests : Arrive(r) \/ Record(r) \/ HandlerReturns(r)

(* The lifecycle, its deadline and the startup sequence go on; requests    *)
(* need not end, and nothing need be cancelled or fail.                    *)
Fairness ==
    /\ WF_vars(SetupStep) /\ WF_vars(RunStep) /\ WF_vars(EndStep)
    /\ WF_vars(HttpDrains) /\ WF_vars(WsDrains) /\ WF_vars(runServeStartup)

Spec == Init /\ [][Next]_vars /\ Fairness

-----------------------------------------------------------------------------
TypeOK ==
    /\ pc \in Setup \cup {"running", "draining", "served", "cut off", "finalizing",
                          "closing", "returned"}
    /\ listener \in {"none", "open", "closed"} /\ store \in {"none", "open", "closed"}
    /\ startup \in {"none", "priming", "minting", "refreshing", "ended"}
    /\ {httpErr, wsErr} \subseteq {"none", "draining", "drained", "deadline", "failed"}
    /\ request \in [Requests -> {"idle", "handled", "recorded", "done"}]
    /\ admitted \subseteq Requests /\ late \in 0 .. Cardinality(Requests)

(* A clean stop has refused no Turn: admission is cut off after the last   *)
(* handler of both transports has returned (main.go, "Usage admission      *)
(* stays open through the drain").                                         *)
CleanStopIsNeverLate == outcome = "clean" => late = 0

(* A signal ends the lifecycle and the startup goroutines, at any stage,   *)
(* and though a request never ends; so does a failure; and by then the     *)
(* listener and the usage store are closed (the contract above             *)
(* runServeLifecycle).                                                     *)
StopEnds ==
    (cancelled \/ serveFailed \/ pc = "finalizing")
        ~> (/\ pc = "returned" /\ startup \in {"none", "ended"}
            /\ startupCancelled /\ listener # "open" /\ store # "open")
=============================================================================
