----------------------------- MODULE Forwarding -----------------------------
(***************************************************************************)
(* One gated request from the router to its access record: the middleware  *)
(* (internal/server), the forwarder and the raw passthrough                *)
(* (internal/forward), the models catalog (internal/catalog/handler.go),   *)
(* the upstream Caller (internal/upstream), the errors that copilotd       *)
(* originates (internal/apierror) and the request summary.                 *)
(*                                                                         *)
(* The client may leave, the outbound timer may fire and the upstream body *)
(* may break between any two steps.  Bodies are abstracted to whether they *)
(* fit their cap, headers to what decides a branch, shims to what a hook   *)
(* may return; the SSE pump is StreamPump's and only ends here.            *)
(***************************************************************************)
EXTENDS Naturals, Sequences

VARIABLES
    endpoint,       \* "forward", "passthrough" or "catalog"
    pc,             \* the goroutine that serves the request
    gone,           \* the client has left: r.Context() is cancelled
    cause,          \* of the derived context: "none", "canceled" or "deadline"
    timer,          \* the outbound timer: "off", "armed", "fired" or "stopped"
    response,       \* what Do has returned
    body,           \* the upstream body: "none", "open" or "closed"
    fate, failure,  \* what has gone wrong, and the Failure that Buffered returns
    wire,           \* the responses committed
    summary, records    \* requestsummary, and the access records emitted

vars == <<endpoint, pc, gone, cause, timer, response, body, fate, failure, wire, summary, records>>
callVars == <<endpoint, gone, cause, timer, response, body>>

NoResponse == [status |-> 0, stream |-> FALSE, identity |-> TRUE, correlated |-> FALSE]
Responses == [status : {200, 500}, stream : BOOLEAN, identity : BOOLEAN, correlated : BOOLEAN]

Init ==
    /\ endpoint \in {"forward", "passthrough", "catalog"}
    /\ pc = "gate" /\ gone = FALSE /\ cause = "none" /\ timer = "off"
    /\ response = NoResponse /\ body = "none" /\ fate = "none" /\ failure = "none" /\ wire = <<>>
    /\ summary = [context |-> "binding", stream |-> "none"] /\ records = <<>>

(* apierror.table.                                                         *)
Status ==
    [unauthorized |-> 401, notReady |-> 503, backgroundUnsupported |-> 400,
     payloadTooLarge |-> 413, badGateway |-> 502, gatewayTimeout |-> 504,
     shimError |-> 500, invalidRequest |-> 400, panic |-> 500, catalog |-> 200]

Signals == DOMAIN Status
StatusOf(answer) == IF answer = "upstream" THEN response.status ELSE Status[answer]

-----------------------------------------------------------------------------
(* The environment.                                                        *)

Leave ==
    /\ ~gone /\ pc # "recorded" /\ gone' = TRUE
    /\ cause' = IF cause = "none" THEN "canceled" ELSE cause
    /\ UNCHANGED <<endpoint, pc, timer, response, body, fate, failure, wire, summary, records>>

(* The passthrough's timer cancels without a cause of its own.             *)
OutboundTimeout ==
    /\ timer = "armed" /\ timer' = "fired"
    /\ cause' = IF cause # "none" THEN cause
                ELSE IF endpoint = "passthrough" THEN "canceled" ELSE "deadline"
    /\ UNCHANGED <<endpoint, pc, gone, response, body, fate, failure, wire, summary, records>>

-----------------------------------------------------------------------------
(* Steps.                                                                  *)

Goes(from, to) == pc = from /\ pc' = to
Quietly == UNCHANGED <<callVars, fate, failure, wire, summary, records>>

(* copilotd answers in the surface's dialect.                              *)
Answer(from, kind, to) ==
    /\ Goes(from, to) /\ wire' = Append(wire, kind)
    /\ UNCHANGED <<callVars, fate, failure, summary, records>>

(* A hook's deliberate rejection, its error, or its panic.                 *)
HookFails(from, to) ==
    \/ Answer(from, "invalidRequest", to)
    \/ Answer(from, "shimError", to)
    \/ Goes(from, "panicking") /\ Quietly

(* authMW, then readinessMW.                                               *)
Gate ==
    \/ Answer("gate", "unauthorized", "returned")
    \/ Answer("gate", "notReady", "returned")
    \/ Goes("gate", IF endpoint = "forward" THEN "reading" ELSE "preparing") /\ Quietly

(* A body that breaks otherwise than at its cap (a client that has left,   *)
(* but also one whose body is short or malformed and that waits) is not    *)
(* answered: the context is not asked.                                     *)
readBody ==
    \/ Answer("reading", "payloadTooLarge", "returned")
    \/ /\ Goes("reading", "returned") /\ fate' = "request broken"
       /\ UNCHANGED <<callVars, failure, wire, summary, records>>
    \/ Goes("reading", "request hooks") /\ Quietly

RunRequest ==
    \/ HookFails("request hooks", "returned")
    \/ Answer("request hooks", "backgroundUnsupported", "returned")
    \/ Goes("request hooks", "preparing") /\ Quietly

-----------------------------------------------------------------------------
(* The Caller.                                                             *)

classifyByContext(fallback) ==
    CASE cause = "deadline" -> "gatewayTimeout"
      [] cause = "canceled" -> "clientGone"
      [] OTHER -> fallback

(* RespondTo: a ClientGone failure writes nothing.                         *)
Responding(kind) == wire' = IF kind = "clientGone" THEN wire ELSE Append(wire, kind)

Fails(from, why, kind) ==
    /\ Goes(from, "cancelling") /\ fate' = why /\ Responding(kind)
    /\ UNCHANGED <<callVars, failure, summary, records>>

(* Current, and the request that is built of it.                           *)
Prepare ==
    \/ Goes("preparing", "calling") /\ Quietly
    \/ Fails("preparing", "no credential", classifyByContext("notReady"))
    \/ Fails("preparing", "unbuildable", "badGateway")

Correlate(answer) == IF answer.correlated THEN [summary EXCEPT !.context = "correlated"] ELSE summary

(* The transport's own timeout is a deadline by errors.Is.                 *)
ClientDo ==
    \/ /\ Goes("calling", "responded") /\ response' \in Responses /\ body' = "open"
       /\ (endpoint # "forward") => ~response'.stream
       /\ summary' = Correlate(response')
       /\ UNCHANGED <<endpoint, gone, cause, timer, fate, failure, wire, records>>
    \/ Fails("calling", "headers late", "gatewayTimeout")
    \/ Fails("calling", "unreachable", classifyByContext("badGateway"))

(* What follows the headers: the timer, unless the body is an event stream.*)
Responded ==
    /\ Goes("responded", CASE endpoint = "forward" -> "prelude hooks"
                           [] endpoint = "passthrough" -> "committing"
                           [] OTHER -> "buffering")
    /\ timer' = IF response.stream THEN "off" ELSE "armed"
    /\ UNCHANGED <<endpoint, gone, cause, response, body, fate, failure, wire, summary, records>>

(* Buffered closes the body before its caller hears of the failure.        *)
ReadFails(why, kind) ==
    \/ endpoint = "forward" /\ Fails("buffering", why, kind)
    \/ /\ endpoint = "catalog" /\ Goes("buffering", "closing catalog")
       /\ fate' = why /\ failure' = kind
       /\ UNCHANGED <<callVars, wire, summary, records>>

ReadWhole ==
    Goes("buffering", IF endpoint = "catalog" THEN "closing catalog" ELSE "body hooks") /\ Quietly

(* Mutant: whatever has cut the read, the context is asked.                *)
ReadByContext ==
    \/ ReadFails("over cap", classifyByContext("badGateway"))
    \/ ReadFails("read broken", classifyByContext("badGateway"))
    \/ ReadWhole

(* An over-cap body has been read: nothing that follows changes its class. *)
ReadBounded ==
    \/ ReadFails("over cap", "badGateway")
    \/ ReadFails("read broken", classifyByContext("badGateway"))
    \/ ReadWhole

-----------------------------------------------------------------------------
(* forward, after the headers.                                             *)

RunPrelude ==
    \/ response.stream /\ ~response.identity /\ Answer("prelude hooks", "badGateway", "cancelling")
    \/ /\ ~response.stream \/ response.identity
       /\ \/ HookFails("prelude hooks", "cancelling")
          \/ \E buffered \in BOOLEAN :     \* HasBufferedTransformer
               Goes("prelude hooks", IF ~response.stream /\ buffered /\ response.identity
                                     THEN "buffering" ELSE "committing") /\ Quietly

(* The headers go out; the body is pumped or copied after them.            *)
Commit == Answer("committing", "upstream", "copying")

RunBuffered ==
    \/ HookFails("body hooks", "cancelling")
    \/ Answer("body hooks", "upstream", "cancelling")

(* The copy or the pump ends: at the end of the body, at an error, or with *)
(* the context; a pump's result is recorded.                               *)
CopyEnds ==
    /\ Goes("copying", "cancelling")
    /\ \E outcome \in {"clean", "stall", "client_cancel"} :
           summary' = IF response.stream THEN [summary EXCEPT !.stream = outcome] ELSE summary
    /\ UNCHANGED <<callVars, fate, failure, wire, records>>

(* The catalog, whose body Buffered has closed.                            *)
RespondToFailure ==
    /\ failure # "none" /\ Goes("rendering", "returned") /\ Responding(failure)
    /\ UNCHANGED <<callVars, fate, failure, summary, records>>

RenderCatalog ==
    /\ failure = "none"
    /\ \/ Answer("rendering", "badGateway", "returned")   \* the status, the bytes, the rendering
       \/ response.status = 200 /\ Answer("rendering", "catalog", "returned")

-----------------------------------------------------------------------------
(* The way out: cancel, then close, for a Close that may wait for it.  A   *)
(* panic takes the same deferred way.                                      *)

Deferred ==
    [at \in {"cancelling", "panicking", "closing catalog"} |->
        CASE at = "cancelling" -> "closing"
          [] at = "panicking"  -> "unwinding"
          [] OTHER             -> "closed catalog"]

After ==
    [at \in {"closing", "unwinding", "closed catalog"} |->
        CASE at = "closing"   -> "returned"
          [] at = "unwinding" -> "panicked"
          [] OTHER            -> "rendering"]

(* Mutant: the body is closed first.                                       *)
CloseFirst ==
    /\ pc \in DOMAIN Deferred /\ pc' = Deferred[pc]
    /\ UNCHANGED <<endpoint, gone, cause, timer, response, body, fate, failure, wire, summary, records>>

CancelCall ==
    /\ pc \in DOMAIN Deferred /\ pc' = Deferred[pc]
    /\ cause' = IF cause = "none" THEN "canceled" ELSE cause
    /\ timer' = IF timer = "armed" THEN "stopped" ELSE timer
    /\ UNCHANGED <<endpoint, gone, response, body, fate, failure, wire, summary, records>>

CloseBody ==
    /\ pc \in DOMAIN After /\ pc' = After[pc]
    /\ body = "open" => cause # "none"
    /\ body' = IF body = "open" THEN "closed" ELSE body
    /\ UNCHANGED <<endpoint, gone, cause, timer, response, fate, failure, wire, summary, records>>

(* recoverMW, inside accessLog.                                            *)
Recover == Answer("panicked", "panic", "returned")

Level(status, outcome) ==
    IF status >= 500 \/ outcome = "stall" THEN "warn" ELSE "info"

RecordOf(status) ==
    [status |-> status, context |-> summary.context, stream |-> summary.stream,
     level |-> Level(status, summary.stream)]

(* statusWriter: the first status written, or the 200 that net/http sends. *)
AccessLog ==
    /\ Goes("returned", "recorded")
    /\ records' = Append(records, RecordOf(IF wire = <<>> THEN 200 ELSE StatusOf(Head(wire))))
    /\ UNCHANGED <<callVars, fate, failure, wire, summary>>

HandlerStep ==
    \/ Gate \/ readBody \/ RunRequest \/ Prepare \/ ClientDo \/ Responded
    \/ RunPrelude \/ Commit \/ ReadBounded \/ RunBuffered
    \/ RespondToFailure \/ RenderCatalog
    \/ CancelCall \/ CloseBody \/ Recover \/ AccessLog

Next == HandlerStep \/ CopyEnds \/ Leave \/ OutboundTimeout

(* The handler's steps go on; a timer fires; and a read of the upstream    *)
(* body or a pump ends when its context does.  (Before the headers the     *)
(* transport's timeout ends the call: ClientDo.)                           *)
Fairness ==
    /\ WF_vars(HandlerStep /\ pc # "buffering") /\ WF_vars(OutboundTimeout)
    /\ WF_vars((ReadBounded \/ CopyEnds) /\ cause # "none")

Spec == Init /\ [][Next]_vars /\ Fairness

-----------------------------------------------------------------------------
(* A client that is still there gets one answer, never two, unless its own *)
(* body broke, which is never answered; a response that is committed is    *)
(* never replaced; and the one access record says what was answered, under *)
(* the context of the response it was answered of (the comments on forward *)
(* and on RespondTo, and the order of newHandler).                         *)
OneTrueAnswer ==
    /\ Len(wire) <= 1 /\ Len(records) <= 1
    /\ pc \in {"returned", "recorded"} /\ wire = <<>> => gone \/ fate = "request broken"
    /\ fate = "request broken" => wire = <<>>
    /\ pc = "recorded" =>
         /\ wire # <<>> => records[1].status = StatusOf(wire[1])
         /\ response.correlated => records[1].context = "correlated"
         /\ records[1].stream # "none" => wire = <<"upstream">> /\ response.stream

(* A timeout is named only where one has passed, and a body over its cap   *)
(* is named as such though the client leaves or the timer fires meanwhile  *)
(* (the comment in Caller.ReadBounded).                                    *)
FailureIsHonest ==
    /\ wire = <<"gatewayTimeout">> => fate = "headers late" \/ timer = "fired"
    /\ fate = "over cap" /\ pc \in {"returned", "recorded"} => wire = <<"badGateway">>
    /\ fate = "no credential" => wire \in {<<>>, <<"notReady">>}

(* Only a client that has left goes without an answer (the comment on      *)
(* readBody: a read error other than the cap's "means the client vanished  *)
(* mid-body, so nothing useful can be sent").                              *)
SilenceMeansGone == pc \in {"returned", "recorded"} /\ wire = <<>> => gone

(* What the client is told, in both respects.                              *)
AnswerIsTrue == OneTrueAnswer /\ FailureIsHonest

(* Once the client has left or the timer has fired, and whenever copilotd  *)
(* has answered for itself, the request ends and lets go of its upstream   *)
(* body.                                                                   *)
RequestEnds ==
    (gone \/ timer = "fired" \/ pc = "cancelling") ~> (pc = "recorded" /\ body # "open")
=============================================================================
