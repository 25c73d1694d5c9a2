------------------------------ MODULE MCExchange -----------------------------
(* What serves one request, one part at a time: the forwarding of it with  *)
(* every answer of its surroundings, its way through the shims, and the    *)
(* pump of its stream.                                                     *)
EXTENDS Exchange, ShimChain, TLC

VARIABLE subject

-----------------------------------------------------------------------------
(* The chain: copilotd's own shims between two that may do anything the    *)
(* hooks allow; payloads whose model the override can and cannot be sure   *)
(* of, one whose replacement a rule names among them; a client whose       *)
(* headers try for copilotd's own.                                         *)

All == {"request", "prelude", "buffered", "event", "finalize", "client", "server"}
Shim(name, hooks, routes) == [name |-> name, hooks |-> hooks, routes |-> routes]
MCRegistry ==
    <<Shim("outer", All \ {"buffered"}, {"responses"}), Shim("nop", {}, {"responses"}),
      Shim("responses-item-id-stabilizer", {"event", "server"}, {"responses"}),
      Shim("model-override", {"request", "client"}, {"responses", "count"}),
      Shim("inner", All, {"responses"}),
      Shim("usage-meter", {"request", "buffered", "event", "server"}, {"responses"})>>
Behaviours == {"keeps", "drops", "splits", "holds", "fails"}
MCConfigs ==
    {[enabled |-> {MCRegistry[i].name : i \in Shims}, sink |-> TRUE, does |-> ("outer" :> a) @@ ("inner" :> b)] :
        a, b \in Behaviours} \cup
    {[enabled |-> {"model-override", "usage-meter"}, sink |-> s, does |-> <<>>] : s \in BOOLEAN}

Member(name, kind, text) == [name |-> name, kind |-> kind, text |-> text]
Payload(object, members) == [object |-> object, members |-> members]
Model(t) == Member("model", "string", t)
Create == Member("type", "string", "response.create")
Payloads ==
    {Payload(TRUE, <<Model("a"), Create>>), Payload(TRUE, <<Model("a"), Model("a")>>),
     Payload(FALSE, <<Model("a"), Create>>), Payload(TRUE, <<Member("model", "lossy", "lone"), Create>>),
     Payload(TRUE, <<Member("model", "other", "a")>>), Payload(TRUE, <<Member("input", "string", "a"), Model("b")>>)}
Header == ("authorization" :> {"key"}) @@ ("x-api-key" :> {"key"}) @@ ("connection" :> {"x-hop"}) @@ ("x-hop" :> {"1"})
            @@ ("x-request-id" :> {"client"}) @@ ("editor-version" :> {"client"}) @@ ("accept" :> {"*"})
Asking(route, transport, asked, headers) ==
    [route |-> route, transport |-> transport, payload |-> asked, header |-> headers, answer |-> headers]

MCRules == ("a" :> "b") @@ ("b" :> "a")
MCReplaced == "lone" :> "a"
MCExchanges ==
    {Asking("responses", "stream", Payload(TRUE, <<Model("a")>>), Header)}
      \cup {Asking("responses", t, p, Header) : t \in {"whole", "websocket"}, p \in Payloads}
      \cup {Asking("count", "whole", p, <<>>) : p \in Payloads}
MCHopByHop == {"connection", "te"}
MCInbound == {"authorization", "x-api-key", "host"}
MCCredentials == "editor-version" :> {"ours"}

-----------------------------------------------------------------------------
PumpAtRest == Init /\ transforming /\ stall = "armed" /\ keepalive = "armed"
ForwardingAtRest == Forward!Init /\ endpoint = "forward"
ChainAtRest == ChainInit /\ exchange.transport = "stream" /\ config = CHOOSE c \in Configs : TRUE

ExchangeInit ==
    \/ subject = "stream" /\ Init /\ ForwardingAtRest /\ ChainAtRest
    \/ subject = "forwarding" /\ PumpAtRest /\ Forward!Init /\ ChainAtRest
    \/ subject = "chain" /\ PumpAtRest /\ ForwardingAtRest /\ ChainInit

ExchangeNext ==
    /\ UNCHANGED subject
    /\ \/ subject = "stream" /\ Next /\ UNCHANGED forwardingVars /\ UNCHANGED chainVars
       \/ subject = "forwarding" /\ Forward!Next /\ UNCHANGED vars /\ UNCHANGED chainVars
       \/ subject = "chain" /\ ChainNext /\ UNCHANGED vars /\ UNCHANGED forwardingVars

ExchangeSpec ==
    /\ ExchangeInit /\ [][ExchangeNext]_<<subject, vars, forwardingVars, chainVars>>
    /\ \/ subject = "stream" /\ Fairness
       \/ subject = "forwarding" /\ Forward!Fairness
       \/ subject = "chain"

(* The properties of the parts, under the names they have there.           *)
RequestEnds == subject = "forwarding" => Forward!RequestEnds
StreamIsOver == subject = "stream" => StreamEnds
SilenceMeansGone == Forward!SilenceMeansGone
=============================================================================
