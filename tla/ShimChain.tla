------------------------------ MODULE ShimChain -----------------------------
(***************************************************************************)
(* One HTTP exchange through the chain of enabled shims (internal/shim):   *)
(* the request inward through their hooks and out under the header policy  *)
(* (internal/upstream), the answer's envelope, its whole body or its       *)
(* frames back outward, and what the shims held at the end.  A WebSocket   *)
(* session's messages go the same ways, each until a hook drops it.  A     *)
(* shim is known by its position in the registry, a frame or message by    *)
(* where it began and by the hooks that had it.                            *)
(***************************************************************************)
EXTENDS Naturals, Sequences, FiniteSets

CONSTANTS
    Registry,           \* the shims in order: name, hooks, and the routes of their scope
    Configs,            \* the settings: the shims enabled, whether a usage sink opened, and what other shims do
    Rules,              \* the model override's rules
    Replaced,           \* what json.Unmarshal makes of a text that decodes only with replacement
    Exchanges,          \* a route, a transport, a payload, and the headers of client and answer
    HopByHop, Inbound,  \* header names of a connection, and of copilotd's own request alone
    Credentials,        \* the impersonation headers
    MaxArrivals         \* bound: the upstream's frames, or a session's messages

Shims == DOMAIN Registry
Own == {"x-request-id", "accept-encoding", "authorization"}     \* headers that Do itself sets

(* Names are unique (shim_test.go, TestCanonicalRegistryNamesAreNonEmpty-  *)
(* AndUnique), and the meter comes after the override (CanonicalRegistry). *)
(* The header names are those of header_policy.go and of impersonation's   *)
(* Set.                                                                    *)
ASSUME ShimChainAssumption ==
    /\ Len(Registry) \in Nat /\ Shims = 1 .. Len(Registry) /\ MaxArrivals \in Nat
    /\ \A i, j \in Shims : Registry[i].name = Registry[j].name => i = j
    /\ \A i, j \in Shims : Registry[i].name = "model-override" /\ Registry[j].name = "usage-meter" => i < j
    /\ DOMAIN Credentials \cap (HopByHop \cup Inbound \cup Own) = {}
    /\ Own \cap HopByHop = {} /\ Own \cap Inbound = {"authorization"}
    /\ \A e \in Exchanges :
          /\ e.transport \in {"stream", "whole", "websocket"}
          /\ e.payload \in [object : BOOLEAN,
                            members : Seq([name : STRING, kind : {"string", "lossy", "other"}, text : STRING])]
          /\ \A i \in DOMAIN e.payload.members :
                LET m == e.payload.members[i]
                IN  m.kind = "lossy" => m.text \in DOMAIN Replaced /\ Replaced[m.text] # m.text

VARIABLES
    exchange, config,   \* what is asked, and the settings
    chain,              \* the shims that take part
    hook, at,           \* the half of the onion in progress, and the next shim in it
    payload, requested, \* the request's body, and the model that the meter took from it
    sent,               \* the headers that went upstream
    envelope,           \* the answer's headers, and the shims that had them
    passage, held,      \* the frames in passage, and those that each shim holds
    came, out           \* how many came from upstream, and those written to the client (or upstream)

requestVars == <<chain, payload, requested, sent>>
answerVars == <<envelope, passage, held, came, out>>
chainVars == <<exchange, config, hook, at, requestVars, answerVars>>

Unread == "none"
Peer == Len(Registry) + 1   \* what is within the innermost shim

(* A frame came from a position, its maker's or the peer's, and has been   *)
(* through the hooks of the shims it passed.                               *)
Arrival(origin, n) == [origin |-> origin, from |-> Peer, index |-> n, passed |-> <<>>]

ChainInit ==
    /\ exchange \in Exchanges /\ config \in Configs
    /\ chain = {} /\ hook = "new" /\ at = 0
    /\ payload = exchange.payload /\ requested = Unread /\ sent = <<>>
    /\ envelope = [header |-> <<>>, passed |-> <<>>]
    /\ passage = <<>> /\ held = [i \in Shims |-> <<>>] /\ came = 0 /\ out = <<>>

Named(i, name) == i \in chain /\ Registry[i].name = name
Hooked(i, kind) == i \in chain /\ kind \in Registry[i].hooks
Takes(i) == Hooked(i, hook)

(* What a shim that is not one of copilotd's own does.                     *)
Does(i) == LET name == Registry[i].name IN IF name \in DOMAIN config.does THEN config.does[name] ELSE "keeps"

-----------------------------------------------------------------------------
(* The request.                                                            *)

(* configuredShimRegistry, and NewChain: the enabled shims of the route.   *)
Enabled(shim) == shim.name \in config.enabled /\ (shim.name = "usage-meter" => config.sink)
NewChain ==
    /\ hook = "new"
    /\ chain' = {i \in Shims : Enabled(Registry[i]) /\ exchange.route \in Registry[i].routes}
    /\ IF exchange.transport = "websocket" THEN hook' = "session" /\ at' = 0 ELSE hook' = "request" /\ at' = 1
    /\ UNCHANGED <<exchange, config, payload, requested, sent, answerVars>>

(* A payload: whether it is one JSON object in valid UTF-8, and the        *)
(* object's members; a value is a string, or one that decodes only with    *)
(* replacement, or another.                                                *)
Occurrences(p, name) == {i \in DOMAIN p.members : p.members[i].name = name}
decode(p, name) ==
    IF Cardinality(Occurrences(p, name)) # 1 THEN {}
    ELSE {p.members[i].text : i \in {j \in Occurrences(p, name) : p.members[j].kind = "string"}}

(* The model override: one exact lookup, for the one string it is sure of, *)
(* in a message only if it creates a response.                             *)
rewrite(p, requireResponseCreate) ==
    IF p.object /\ (requireResponseCreate => decode(p, "type") = {"response.create"})
    THEN [p EXCEPT !.members = [i \in DOMAIN p.members |->
            IF i \in Occurrences(p, "model") /\ decode(p, "model") \cap DOMAIN Rules # {}
            THEN [p.members[i] EXCEPT !.text = Rules[p.members[i].text]] ELSE p.members[i]]]
    ELSE p

(* The meter: of one member alone, of what encoding/json makes of it: the  *)
(* body is valid UTF-8, but an escape may name half of a pair, and is      *)
(* replaced then.                                                          *)
unmarshal(m) == IF m.kind = "lossy" THEN Replaced[m.text] ELSE m.text
requestedModelFrom(p) ==
    LET texts == {unmarshal(p.members[i]) : i \in {j \in Occurrences(p, "model") : p.members[j].kind # "other"}}
    IN  IF p.object /\ Cardinality(Occurrences(p, "model")) = 1 /\ texts # {} THEN CHOOSE t \in texts : TRUE ELSE Unread

Fails(i) == Takes(i) /\ Does(i) = "fails"
Fail == hook' = "failed" /\ UNCHANGED <<at, exchange, config, requestVars, answerVars>>

RunRequest ==
    /\ hook = "request" /\ at <= Len(Registry)
    /\ IF Fails(at) THEN Fail
       ELSE /\ at' = at + 1
            /\ payload' = IF Named(at, "model-override") THEN rewrite(payload, FALSE) ELSE payload
            /\ requested' = IF Named(at, "usage-meter") THEN requestedModelFrom(payload) ELSE requested
            /\ UNCHANGED <<hook, exchange, config, chain, sent, answerVars>>

Listed(header) == IF "connection" \in DOMAIN header THEN header["connection"] ELSE {}
Without(header, names) == [n \in DOMAIN header \ (names \cup Listed(header)) |-> header[n]]

(* Mutant: the client's headers over copilotd's own.                       *)
ClientHeadersLast ==
    LET client == Without(exchange.header, HopByHop \cup Inbound)
    IN  [n \in DOMAIN client \cup DOMAIN Credentials \cup {"authorization", "x-request-id"} |->
            IF n \in DOMAIN client THEN client[n] ELSE IF n \in DOMAIN Credentials THEN Credentials[n] ELSE {"ours"}]

(* Client headers that may pass, the bearer, the impersonation headers,    *)
(* the request id, and identity encoding, each over the ones before.       *)
authenticatedOutboundHeaders ==
    LET client == Without(exchange.header, HopByHop \cup Inbound)
        own == {"x-request-id", "accept-encoding"}
    IN  [n \in DOMAIN client \cup DOMAIN Credentials \cup own \cup {"authorization"} |->
            IF n = "accept-encoding" THEN {"identity"}
            ELSE IF n = "x-request-id" THEN {"ours"}
            ELSE IF n \in DOMAIN Credentials THEN Credentials[n]
            ELSE IF n = "authorization" THEN {"bearer"} ELSE client[n]]

CallUpstream ==
    /\ hook = "request" /\ at = Peer
    /\ sent' = authenticatedOutboundHeaders
    /\ hook' = "called" /\ at' = 0
    /\ UNCHANGED <<exchange, config, chain, payload, requested, answerVars>>

-----------------------------------------------------------------------------
(* The answer: from the innermost shim, the last of the chain, outward.    *)

CopyResponseHeaders(header) == Without(header, HopByHop \cup {"x-request-id"})

Answered ==
    /\ hook = "called"
    /\ envelope' = [header |-> CopyResponseHeaders(exchange.answer), passed |-> <<>>]
    /\ hook' = "prelude" /\ at' = Len(Registry)
    /\ UNCHANGED <<exchange, config, requestVars, passage, held, came, out>>

RunPrelude ==
    /\ hook = "prelude" /\ at >= 1
    /\ IF Fails(at) THEN Fail
       ELSE /\ at' = at - 1
            /\ envelope' = IF Takes(at) THEN [envelope EXCEPT !.passed = Append(@, at)] ELSE envelope
            /\ UNCHANGED <<hook, exchange, config, requestVars, passage, held, came, out>>

(* A body is buffered whole only for a hook that wants it.                 *)
HasBufferedTransformer == \E i \in chain : "buffered" \in Registry[i].hooks
Commit ==
    /\ hook = "prelude" /\ at = 0
    /\ IF exchange.transport = "stream" THEN hook' = "stream" /\ UNCHANGED <<at, passage, came, out>>
       ELSE IF HasBufferedTransformer
       THEN hook' = "buffered" /\ at' = Len(Registry) /\ passage' = <<Arrival("upstream", 1)>> /\ came' = 1 /\ UNCHANGED out
       ELSE hook' = "done" /\ came' = 1 /\ out' = <<Arrival("upstream", 1)>> /\ UNCHANGED <<at, passage>>
    /\ UNCHANGED <<exchange, config, requestVars, envelope, held>>

Passed(f) == [f EXCEPT !.passed = Append(@, at)]
AllPassed(fs) == [k \in 1 .. Len(fs) |-> Passed(fs[k])]

RunBuffered ==
    /\ hook = "buffered" /\ at >= 1
    /\ IF Fails(at) THEN Fail
       ELSE /\ at' = at - 1
            /\ passage' = IF Takes(at) THEN AllPassed(passage) ELSE passage
            /\ UNCHANGED <<hook, exchange, config, requestVars, envelope, held, came, out>>

(* What comes of the frames at a shim's event hook: each is kept, dropped, *)
(* doubled, or held by the shim.                                           *)
Holds(i) == Hooked(i, "event") /\ Does(i) = "holds"
Transformed(fs) ==
    CASE ~Hooked(at, "event") -> fs
      [] Hooked(at, "event") /\ Does(at) \in {"drops", "holds"} -> <<>>
      [] Hooked(at, "event") /\ Does(at) = "splits" -> [k \in 1 .. 2 * Len(fs) |-> Passed(fs[(k + 1) \div 2])]
      [] OTHER -> AllPassed(fs)
NewlyHeld(fs) == IF Holds(at) THEN AllPassed(fs) ELSE <<>>

FrameComes ==
    /\ hook = "stream" /\ came < MaxArrivals /\ came' = came + 1
    /\ passage' = <<Arrival("upstream", came + 1)>>
    /\ hook' = "event" /\ at' = Len(Registry)
    /\ UNCHANGED <<exchange, config, requestVars, envelope, held, out>>

TransformEvent ==
    /\ hook = "event" /\ at >= 1 /\ at' = at - 1
    /\ passage' = Transformed(passage) /\ held' = [held EXCEPT ![at] = @ \o NewlyHeld(passage)]
    /\ UNCHANGED <<hook, exchange, config, requestVars, envelope, came, out>>

WriteOut(next) ==
    /\ hook' = next /\ out' = out \o passage /\ passage' = <<>>
    /\ UNCHANGED <<at, exchange, config, requestVars, envelope, held, came>>
EventWritten == hook = "event" /\ at = 0 /\ WriteOut("stream")
WholeWritten == hook = "buffered" /\ at = 0 /\ WriteOut("done")

UpstreamEnds ==
    /\ hook = "stream" /\ hook' = "finalize" /\ at' = Len(Registry)
    /\ UNCHANGED <<exchange, config, requestVars, answerVars>>

(* What a shim gives at the end: all that it holds, and a frame of its own.*)
Final == [origin |-> "shim", from |-> at, index |-> MaxArrivals + 1, passed |-> <<>>]
Released(holding) == IF Hooked(at, "finalize") THEN Append(holding, Final) ELSE <<>>

Finalizes(frames) ==
    /\ hook = "finalize" /\ at >= 1 /\ at' = at - 1
    /\ passage' = frames /\ held' = [held EXCEPT ![at] = <<>>]
    /\ UNCHANGED <<hook, exchange, config, requestVars, envelope, came, out>>

(* Mutant: what the inner shims release goes by the outer hooks.           *)
FinalizePastHooks == Finalizes(passage \o Released(held[at]))

(* What the inner shims release passes a shim's event hook, and its own    *)
(* release comes after.                                                    *)
FinalizeShim == Finalizes(Transformed(passage) \o Released(held[at] \o NewlyHeld(passage)))

Finalized == hook = "finalize" /\ at = 0 /\ WriteOut("done")

-----------------------------------------------------------------------------
(* A session's messages: the client's inward, the server's outward.        *)

MessageComes(origin, first) ==
    /\ hook = "session" /\ came < MaxArrivals /\ came' = came + 1
    /\ hook' = origin /\ at' = first /\ passage' = <<Arrival(origin, came + 1)>>
    /\ UNCHANGED <<exchange, config, chain, requested, sent, envelope, held, out>>
ClientMessage == MessageComes("client", 1) /\ payload' = exchange.payload
ServerMessage == MessageComes("server", Len(Registry)) /\ UNCHANGED payload

MessageHook ==
    /\ \/ hook = "client" /\ at <= Len(Registry) /\ at' = at + 1
       \/ hook = "server" /\ at >= 1 /\ at' = at - 1
    /\ IF Takes(at) /\ Does(at) = "drops" THEN hook' = "session" /\ passage' = <<>>
       ELSE passage' = (IF Takes(at) THEN AllPassed(passage) ELSE passage) /\ UNCHANGED hook
    /\ payload' = IF hook = "client" /\ Named(at, "model-override") THEN rewrite(payload, TRUE) ELSE payload
    /\ UNCHANGED <<exchange, config, chain, requested, sent, envelope, held, came, out>>
MessageWritten ==
    /\ \/ hook = "client" /\ at = Peer
       \/ hook = "server" /\ at = 0
    /\ WriteOut("session")

ChainNext ==
    \/ NewChain \/ RunRequest \/ CallUpstream \/ Answered \/ RunPrelude \/ Commit
    \/ RunBuffered \/ FrameComes \/ TransformEvent \/ EventWritten \/ WholeWritten
    \/ UpstreamEnds \/ FinalizeShim \/ Finalized
    \/ ClientMessage \/ ServerMessage \/ MessageHook \/ MessageWritten

ChainSpec == ChainInit /\ [][ChainNext]_chainVars

-----------------------------------------------------------------------------
(* The shims outside a position that have a hook of a kind, and passing    *)
(* all of some shims once, from the inside out or from the outside in.     *)
Outside(position, kind) == {i \in chain : i < position /\ kind \in Registry[i].hooks}
Through(passed, shims) == {passed[k] : k \in DOMAIN passed} = shims
Outward(passed, shims) == Through(passed, shims) /\ \A j, k \in DOMAIN passed : j < k => passed[k] < passed[j]
Inward(passed, shims) == Through(passed, shims) /\ \A j, k \in DOMAIN passed : j < k => passed[j] < passed[k]

FrameKind == IF exchange.transport = "stream" THEN "event" ELSE "buffered"
Completes(f) ==
    CASE f.origin = "client" -> Inward(f.passed, Outside(f.from, "client"))
      [] f.origin = "server" -> Outward(f.passed, Outside(f.from, "server"))
      [] OTHER -> Outward(f.passed, Outside(f.from, FrameKind))

InOrder(fs) == \A j, k \in DOMAIN fs : j < k => fs[j].index <= fs[k].index

(* Every frame the client gets completed the onion: one of the upstream    *)
(* has been through each shim's hook, one that a shim made at the end      *)
(* through those of all shims outside it, from the inside out, and a       *)
(* client's message from the outside in; and frames keep their order,      *)
(* whichever shims dropped, doubled or held some of them.                  *)
EveryFrameCompletesTheOnion ==
    /\ \A k \in DOMAIN out : Completes(out[k])
    /\ InOrder(out)
    /\ hook \in {"buffered", "stream", "event", "finalize", "done"} => Outward(envelope.passed, Outside(Peer, "prelude"))

(* What goes upstream is the client's request but for the one model that a *)
(* rule named, looked up once; nothing of the client's connection or of    *)
(* its own key goes with it, and copilotd's identity is whole; and a model *)
(* that the meter tells of is the one that went upstream, alone in its     *)
(* body, but for one that decodes only with replacement: no rule rewrites  *)
(* it, and the meter tells of what the replacement left of it, even where  *)
(* a rule names that.  (The comment in requestedModelFrom calls such a     *)
(* request one of unknown attribution; the code holds to it for bytes that *)
(* are not UTF-8 only.)                                                    *)
OneModelReplaced ==
    /\ DOMAIN payload.members = DOMAIN exchange.payload.members
    /\ \A i \in DOMAIN payload.members :
         LET was == exchange.payload.members[i]
             is == payload.members[i]
         IN  is # was => /\ was.name = "model" /\ was.text \in DOMAIN Rules /\ is = [was EXCEPT !.text = Rules[was.text]]
                         /\ Occurrences(payload, "model") = {i} /\ was.kind = "string"
OwnIdentity ==
    /\ DOMAIN sent \cap (HopByHop \cup (Inbound \ {"authorization"})) = {}
    /\ sent["authorization"] = {"bearer"} /\ sent["x-request-id"] = {"ours"}
    /\ \A n \in DOMAIN Credentials : sent[n] = Credentials[n]
MeterTellsTheModel ==
    /\ requested # Unread =>
          \E i \in DOMAIN payload.members :
             /\ Occurrences(payload, "model") = {i}
             /\ CASE payload.members[i].kind = "string" -> requested = payload.members[i].text
                  [] payload.members[i].kind = "lossy" -> /\ requested = Replaced[payload.members[i].text]
                                                          /\ payload.members[i] = exchange.payload.members[i]
                  [] OTHER -> FALSE
    /\ decode(payload, "model") # {} /\ payload.object /\ (\E i \in chain : Named(i, "usage-meter")) =>
          requested \in decode(payload, "model")
SentIsAttributed == OneModelReplaced /\ (hook = "called" => OwnIdentity /\ MeterTellsTheModel)
=============================================================================
