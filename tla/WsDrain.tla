------------------------------ MODULE WsDrain -------------------------------
(***************************************************************************)
(* WebSocket sessions and their drain: internal/wsforward (Proxy.Handler,  *)
(* runSession, Proxy.Shutdown) under Server.shutdown, which drains HTTP at *)
(* the same time and with the same deadline.                               *)
(*                                                                         *)
(* A session has two pumps, named for the peer they read from.  A pump's   *)
(* failure is its peer's doing or copilotd's own: a cancelled context, a   *)
(* transport that was forced shut.  Peers need not answer a close frame.   *)
(***************************************************************************)
EXTENDS Naturals, FiniteSets

CONSTANTS
    Handlers            \* the upgrade requests that arrive

Peers == {"client", "upstream"}
None == "none"
NoFailure == [peer |-> None, by |-> None]

VARIABLES
    admissionClosed, drainCtx, baseCtx,     \* closed, done, done
    counted, sessions,  \* wg: the admitted handlers; the tracked sessions
    forced,             \* sessions whose transports were forced shut
    hpc,                \* each handler
    pump,               \* its two pumps: "off", "pumping", "failed", "joined"
    terminal,           \* the first failure in runSession's channel
    failure,            \* the failure that ended the session, or NoFailure
    released,           \* its release channel is closed, its context cancelled
    closing,            \* the peers whose close handshake goes on
    ending,             \* how the session ended
    spc,                \* Server.shutdown
    expired,            \* its deadline has passed
    snapshot,           \* the sessions that forceCloseSessions found
    http,               \* http.Server.Shutdown: "serving", "draining", or its result
    wsErr, outcome

proxyVars   == <<admissionClosed, drainCtx, baseCtx, counted, sessions, forced>>
sessionVars == <<hpc, pump, terminal, failure, released, closing, ending>>
serverVars  == <<spc, expired, snapshot, http, wsErr, outcome>>
vars == <<proxyVars, sessionVars, serverVars>>

Init ==
    /\ admissionClosed = FALSE /\ drainCtx = FALSE /\ baseCtx = FALSE
    /\ counted = {} /\ sessions = {} /\ forced = {}
    /\ hpc = [h \in Handlers |-> "idle"]
    /\ pump = [h \in Handlers |-> [p \in Peers |-> "off"]]
    /\ terminal = [h \in Handlers |-> NoFailure]
    /\ failure = [h \in Handlers |-> NoFailure]
    /\ released = {} /\ closing = [h \in Handlers |-> {}]
    /\ ending = [h \in Handlers |-> None]
    /\ spc = "serving" /\ expired = FALSE /\ snapshot = {}
    /\ http = "serving" /\ wsErr = None /\ outcome = None

-----------------------------------------------------------------------------
(* Proxy.Handler, up to the session.                                       *)

HandlerAt(h, from, to) == hpc[h] = from /\ hpc' = [hpc EXCEPT ![h] = to]

BeforeSession == UNCHANGED <<pump, terminal, failure, released, closing, ending, serverVars>>

(* Mutant: the cutoff is read before the handler is counted, not with it.  *)
AdmitInTwoSteps(h) ==
    /\ \/ HandlerAt(h, "idle", IF admissionClosed THEN "rejected" ELSE "admitting") /\ UNCHANGED counted
       \/ HandlerAt(h, "admitting", "phase") /\ counted' = counted \cup {h}
    /\ UNCHANGED <<admissionClosed, drainCtx, baseCtx, sessions, forced>> /\ BeforeSession

Admit(h) ==
    /\ IF admissionClosed
          THEN HandlerAt(h, "idle", "rejected") /\ UNCHANGED counted
          ELSE HandlerAt(h, "idle", "phase") /\ counted' = counted \cup {h}
    /\ UNCHANGED <<admissionClosed, drainCtx, baseCtx, sessions, forced>> /\ BeforeSession

(* Credentials or the dial fail, the client leaves, or the forced context  *)
(* ends the phase; nothing is upgraded.                                    *)
PhaseEnds(h) ==
    /\ HandlerAt(h, "phase", "leaving")
    /\ UNCHANGED proxyVars /\ BeforeSession

(* Both connections are upgraded.  An upgrade that was under way when the  *)
(* base context ended still completes.                                     *)
Upgrade(h) ==
    /\ HandlerAt(h, "phase", "upgraded")
    /\ UNCHANGED proxyVars /\ BeforeSession

trackSession(h) ==
    /\ HandlerAt(h, "upgraded", "session")
    /\ sessions' = sessions \cup {h}
    /\ pump' = [pump EXCEPT ![h] = [p \in Peers |-> "pumping"]]
    /\ UNCHANGED <<admissionClosed, drainCtx, baseCtx, counted, forced>>
    /\ UNCHANGED <<terminal, failure, released, closing, ending, serverVars>>

-----------------------------------------------------------------------------
(* runSession.                                                             *)

InSession == UNCHANGED <<proxyVars, serverVars>>

(* copilotd itself has cut this session's connections or contexts.         *)
CutOff(h) == baseCtx \/ h \in released \/ h \in forced

(* The read from one peer or the write to the other fails, by that peer or *)
(* by what copilotd did.                                                   *)
Failures(h) == [peer : Peers, by : {"peer"} \cup (IF CutOff(h) THEN {"copilotd"} ELSE {})]

(* A pump ends and reports it.  The channel has room for both pumps; only  *)
(* what was sent first is ever received.                                   *)
PumpFails(h, p) ==
    /\ pump[h][p] = "pumping"
    /\ pump' = [pump EXCEPT ![h][p] = "failed"]
    /\ IF terminal[h] = NoFailure /\ hpc[h] = "session"
          THEN \E f \in Failures(h) : terminal' = [terminal EXCEPT ![h] = f]
          ELSE UNCHANGED terminal
    /\ UNCHANGED <<hpc, failure, released, closing, ending>> /\ InSession

PumpJoins(h, p) ==
    /\ pump[h][p] = "failed" /\ h \in released
    /\ pump' = [pump EXCEPT ![h][p] = "joined"]
    /\ UNCHANGED <<hpc, terminal, failure, released, closing, ending>> /\ InSession

(* The select: the first failure, or the drain; either when both are ready.*)
SessionSelects(h) ==
    /\ HandlerAt(h, "session", "ended")
    /\ \/ terminal[h] # NoFailure /\ failure' = [failure EXCEPT ![h] = terminal[h]]
       \/ drainCtx /\ UNCHANGED failure
    /\ terminal' = [terminal EXCEPT ![h] = NoFailure]
    /\ UNCHANGED <<pump, released, closing, ending>> /\ InSession

(* terminalReason: whom the end of a session is put down to.  A drain      *)
(* counts as closed by upstream; which code and which operation decide     *)
(* that a failure is an error is left out.                                 *)
Blame(f) == IF f = NoFailure THEN {"upstream"} ELSE {f.peer, "error"}

(* A session cut off by force is not closed again; any other is closed,    *)
(* with the failure's code or as going away.                               *)
(* Mutant: it is closed and put down to its failure all the same.          *)
SessionEndsUnlooked(h) ==
    /\ HandlerAt(h, "ended", "closing")
    /\ closing' = [closing EXCEPT ![h] = Peers]
    /\ \E e \in Blame(failure[h]) : ending' = [ending EXCEPT ![h] = e]
    /\ UNCHANGED <<pump, terminal, failure, released>> /\ InSession

SessionEnds(h) ==
    /\ IF baseCtx
          THEN /\ HandlerAt(h, "ended", "joining")
               /\ ending' = [ending EXCEPT ![h] = "aborted"]
               /\ released' = released \cup {h} /\ UNCHANGED closing
          ELSE /\ HandlerAt(h, "ended", "closing")
               /\ closing' = [closing EXCEPT ![h] = Peers]
               /\ \E e \in Blame(failure[h]) : ending' = [ending EXCEPT ![h] = e]
               /\ UNCHANGED released
    /\ UNCHANGED <<pump, terminal, failure>> /\ InSession

(* One conn.Close returns: the peer answered, or its transport is shut.    *)
CloseReturns(h, p) ==
    /\ p \in closing[h]
    /\ closing' = [closing EXCEPT ![h] = @ \ {p}]
    /\ UNCHANGED <<hpc, pump, terminal, failure, released, ending>> /\ InSession

closeBoth(h) ==
    /\ closing[h] = {} /\ HandlerAt(h, "closing", "joining")
    /\ released' = released \cup {h}
    /\ UNCHANGED <<pump, terminal, failure, closing, ending>> /\ InSession

(* The result is recorded, and the session's own state is gone with it.    *)
untrackSession(h) ==
    /\ \A p \in Peers : pump[h][p] = "joined"
    /\ HandlerAt(h, "joining", "leaving")
    /\ sessions' = sessions \ {h}
    /\ failure' = [failure EXCEPT ![h] = NoFailure] /\ ending' = [ending EXCEPT ![h] = None]
    /\ UNCHANGED <<pump, terminal, released, closing>>
    /\ UNCHANGED <<admissionClosed, drainCtx, baseCtx, counted, forced, serverVars>>

Leave(h) ==
    /\ HandlerAt(h, "leaving", "done")
    /\ counted' = counted \ {h}
    /\ UNCHANGED <<pump, terminal, failure, released, closing, ending>>
    /\ UNCHANGED <<admissionClosed, drainCtx, baseCtx, sessions, forced, serverVars>>

-----------------------------------------------------------------------------
(* Server.shutdown and Proxy.Shutdown.                                     *)

ServerAt(from, to) == spc = from /\ spc' = to

StartDrain ==
    /\ ServerAt("serving", "draining")
    /\ admissionClosed' = TRUE /\ http' = "draining"
    /\ UNCHANGED <<drainCtx, baseCtx, counted, sessions, forced, sessionVars>>
    /\ UNCHANGED <<expired, snapshot, wsErr, outcome>>

Shutdown ==
    /\ ServerAt("draining", "waiting")
    /\ drainCtx' = TRUE
    /\ UNCHANGED <<admissionClosed, baseCtx, counted, sessions, forced, sessionVars>>
    /\ UNCHANGED <<expired, snapshot, http, wsErr, outcome>>

(* The WaitGroup falls to zero.                                            *)
Drained ==
    /\ ServerAt("waiting", "joining") /\ counted = {}
    /\ baseCtx' = TRUE
    /\ UNCHANGED <<admissionClosed, drainCtx, counted, sessions, forced, sessionVars>>
    /\ UNCHANGED <<expired, snapshot, http, wsErr, outcome>>

ServerOnly == UNCHANGED <<admissionClosed, drainCtx, counted, sessions, sessionVars, expired, http, outcome>>

(* The deadline wins: cancel the base context, then force the sessions     *)
(* that are tracked by then.                                               *)
(* Mutant: the sessions are forced first, the context cancelled after.     *)
ForceCloseThenCancel ==
    /\ \/ /\ ServerAt("waiting", "forcing") /\ expired /\ snapshot' = sessions
          /\ UNCHANGED <<baseCtx, forced, wsErr>>
       \/ /\ ServerAt("forcing", "cancelling") /\ forced' = forced \cup snapshot
          /\ UNCHANGED <<baseCtx, snapshot, wsErr>>
       \/ /\ ServerAt("cancelling", "joining") /\ baseCtx' = TRUE /\ wsErr' = "deadline"
          /\ UNCHANGED <<forced, snapshot>>
    /\ ServerOnly

CancelThenForceClose ==
    /\ \/ /\ ServerAt("waiting", "cancelled") /\ expired /\ baseCtx' = TRUE
          /\ UNCHANGED <<forced, snapshot, wsErr>>
       \/ /\ ServerAt("cancelled", "forcing") /\ snapshot' = sessions
          /\ UNCHANGED <<baseCtx, forced, wsErr>>
       \/ /\ ServerAt("forcing", "joining") /\ forced' = forced \cup snapshot /\ wsErr' = "deadline"
          /\ UNCHANGED <<baseCtx, snapshot>>
    /\ ServerOnly

(* http.Server.Shutdown, on its own goroutine: it drains, its context ends *)
(* it, or closing the listeners failed.                                    *)
HttpShutdown ==
    /\ http = "draining"
    /\ http' \in {"drained", "failed"} \cup (IF expired THEN {"deadline"} ELSE {})
    /\ UNCHANGED <<proxyVars, sessionVars, spc, expired, snapshot, wsErr, outcome>>

(* A drain is forced when the deadline passed and nothing else went wrong. *)
Joined ==
    /\ ServerAt("joining", "returned") /\ http \notin {"serving", "draining"}
    /\ outcome' = IF http = "drained" /\ wsErr = None THEN "clean"
                  ELSE IF expired /\ http # "failed" THEN "forced" ELSE "error"
    /\ UNCHANGED <<proxyVars, sessionVars, expired, snapshot, http, wsErr>>

Expire ==
    /\ spc # "serving" /\ ~expired /\ expired' = TRUE
    /\ UNCHANGED <<proxyVars, sessionVars, spc, snapshot, http, wsErr, outcome>>

(* Serve itself fails: Run returns at once and drains nothing.             *)
ServeFails ==
    /\ ServerAt("serving", "failed") /\ outcome' = "error"
    /\ UNCHANGED <<proxyVars, sessionVars, expired, snapshot, http, wsErr>>

HandlerStep(h) ==
    \/ SessionSelects(h) \/ SessionEnds(h) \/ closeBoth(h)
    \/ trackSession(h) \/ untrackSession(h) \/ Leave(h)
    \/ \E p \in Peers : PumpJoins(h, p)

ServerStep == Shutdown \/ Drained \/ CancelThenForceClose \/ Joined

Next ==
    \/ \E h \in Handlers :
          \/ Admit(h) \/ PhaseEnds(h) \/ Upgrade(h) \/ HandlerStep(h)
          \/ \E p \in Peers : PumpFails(h, p) \/ CloseReturns(h, p)
    \/ StartDrain \/ ServerStep \/ HttpShutdown \/ Expire \/ ServeFails

(* Goroutines run and the deadline comes; a phase ends once the base       *)
(* context is done; a pump fails once its context is done or its transport *)
(* shut, a close returns once the transport is shut.  Peers owe nothing.   *)
Fairness ==
    /\ \A h \in Handlers :
          /\ WF_vars(HandlerStep(h))
          /\ WF_vars(baseCtx /\ (PhaseEnds(h) \/ Upgrade(h)))
          /\ \A p \in Peers :
                /\ WF_vars(CutOff(h) /\ PumpFails(h, p))
                /\ WF_vars(h \in forced /\ CloseReturns(h, p))
    /\ WF_vars(ServerStep) /\ WF_vars(Expire) /\ WF_vars(expired /\ HttpShutdown)

Spec == Init /\ [][Next]_vars /\ Fairness

-----------------------------------------------------------------------------
(* A handler is over when it has left, or never came in.                   *)
Over(h) == hpc[h] \in {"idle", "rejected", "done"}

(* A clean shutdown leaves nobody behind, and nobody comes in after it:    *)
(* admission and the WaitGroup cannot be raced (proxy.go:273-285).         *)
CleanMeansEmpty == outcome = "clean" => \A h \in Handlers : Over(h) /\ h \notin sessions

(* A session is asked to close, and aborted only when the grace deadline   *)
(* has passed.                                                             *)
AbortOnlyAtDeadline == \A h \in Handlers : ending[h] = "aborted" => expired

(* A drain is called forced when the deadline passed and was all that went *)
(* wrong, and an error only when something else did, with the deadline or  *)
(* without it (the comment on Run): the drains' results are told apart     *)
(* though both ran on while the deadline came.                             *)
ForcedIsTheDeadlines ==
    /\ outcome = "forced" => expired /\ http # "failed" /\ "deadline" \in {http, wsErr}
    /\ outcome = "error" => spc = "failed" \/ http = "failed"

(* What a shutdown tells of its sessions and of itself, in all respects.   *)
DrainIsHonest == CleanMeansEmpty /\ AbortOnlyAtDeadline /\ ForcedIsTheDeadlines

(* A failure that copilotd caused by cutting the session off is never put  *)
(* down to a peer.                                                         *)
OwnCutsBlameNobody ==
    \A h \in Handlers : ending[h] \in Peers => failure[h].by # "copilotd"

(* However late its sessions start and however deaf their peers are, a     *)
(* shutdown returns and every handler it found is over in the end.         *)
ShutdownEnds ==
    spc = "draining" ~> spc = "returned" /\ \A h \in Handlers : Over(h)
=============================================================================
