------------------------------ MODULE Exchange -------------------------------
(* One proxied request, as its handler sees it: the forwarding of it, and  *)
(* the pump of the stream that it may end in.                              *)
EXTENDS StreamPump

VARIABLES
    endpoint, serving, gone, over, timer, response, body, fate, failure, answers, summary, records

forwardingVars ==
    <<endpoint, serving, gone, over, timer, response, body, fate, failure, answers, summary, records>>

Forward == INSTANCE Forwarding WITH pc <- serving, cause <- over, wire <- answers

(* What the forwarding's module says of the answer and the access record.  *)
AnswerIsTrue == Forward!AnswerIsTrue
=============================================================================
