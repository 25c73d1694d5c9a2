---------------------------- MODULE MintingProofs ---------------------------
(***************************************************************************)
(* Proofs about Minting, for any number of callers, of startup retries and *)
(* any lifetimes of the tokens: no exchange is needless, nobody is failed  *)
(* by another caller's leaving, and the startup mint counts its attempts.  *)
(***************************************************************************)
EXTENDS Minting, TLAPS

Tokens  == {Minted(t) : t \in [expiresAt : Int]}
Answers == {None, Failed("transient"), Failed("permanent")} \cup Tokens

Places == {"idle", "claim", "wait", "backoff", "done"}
Phases == {"idle", "check", "exchange", "store", "deliver"}

(* No flight is answered with a cancellation: its context is its own.      *)
FlightOK ==
    /\ now \in Int /\ cached \in {None} \cup Tokens
    /\ flight \in [phase : Phases, outcome : Answers, waiters : SUBSET Everyone]
    /\ inbox \in [Everyone -> Answers]

CallersOK ==
    /\ pc \in [Everyone -> Places]
    /\ result \in [Everyone -> Answers \cup {Cancelled}]
    /\ gone \subseteq Everyone

StoreInv == flight.phase = "store" => flight.outcome \in Tokens

(* Between attempts there is one left.                                     *)
AttemptInv ==
    /\ attempt \in 0 .. StartupRetries + 1
    /\ pc[Boot] = "backoff" => attempt <= StartupRetries

IInv ==
    /\ FlightOK /\ CallersOK /\ StoreInv /\ AttemptInv
    /\ NoNeedlessExchange /\ LeavingPoisonsNobody

-----------------------------------------------------------------------------
(* What an answer can be.                                                  *)

LEMMA AnswerShapes ==
    /\ None.kind = "none" /\ None \in Answers
    /\ \A t \in Tokens : t.kind = "token" /\ t.token.expiresAt \in Int
    /\ Failed("transient").kind = "error" /\ Failed("permanent").kind = "error"
    /\ Cancelled.kind = "error" /\ Cancelled \notin Answers
<1>1. None.kind = "none" /\ None \in Answers  BY DEF None, Answers
<1>2. \A t \in Tokens : t.kind = "token" /\ t.token.expiresAt \in Int  BY DEF Tokens, Minted
<1>3. Failed("transient").kind = "error" /\ Failed("permanent").kind = "error"  BY DEF Failed
<1>4. Cancelled.kind = "error" /\ Cancelled.class = "cancelled"  BY DEF Cancelled, Failed
<1>5. Failed("transient").class = "transient" /\ Failed("permanent").class = "permanent"  BY DEF Failed
<1>6. Cancelled \notin Answers  BY <1>1, <1>2, <1>4, <1>5 DEF Answers
<1>7. QED  BY <1>1, <1>2, <1>3, <1>4, <1>6

LEMMA OutcomesAreAnswers ==
    ASSUME FlightOK, NEW o \in Outcomes
    PROVE  o \in Answers /\ (o.kind = "token" => o \in Tokens)
<1>1. \A l \in Lifetimes : [expiresAt |-> now + l] \in [expiresAt : Int]
  BY MintingAssumption DEF FlightOK
<1>2. \A l \in Lifetimes : Minted([expiresAt |-> now + l]) \in Tokens
  BY <1>1 DEF Tokens
<1>3. o \in Tokens \/ o \in {Failed("transient"), Failed("permanent")}
  BY <1>2 DEF Outcomes
<1>4. QED  BY <1>3, AnswerShapes DEF Answers

LEMMA IInvInit == Init => IInv
<1> SUFFICES ASSUME Init PROVE IInv  OBVIOUS
<1>1. FlightOK  BY AnswerShapes DEF Init, FlightOK, Idle, Phases
<1>2. CallersOK  BY AnswerShapes DEF Init, CallersOK, Places
<1>3. LeavingPoisonsNobody  BY AnswerShapes DEF Init, LeavingPoisonsNobody
<1>4. StoreInv /\ NoNeedlessExchange  BY DEF Init, Idle, StoreInv, NoNeedlessExchange
<1>5. AttemptInv  BY MintingAssumption DEF Init, AttemptInv, Everyone
<1>6. QED  BY <1>1, <1>2, <1>3, <1>4, <1>5 DEF IInv

-----------------------------------------------------------------------------
(* The flight.                                                             *)

LEMMA FlightKeeps ==
    ASSUME IInv, Flight
    PROVE  IInv'
<1> USE DEF IInv, FlightOK
<1>0. UNCHANGED <<now, pc, result, gone, attempt>>
  BY DEF Flight, FlightCheck, exchange, store, Deliver, FlightOnly
<1>1. CallersOK' /\ AttemptInv' /\ LeavingPoisonsNobody'
  BY <1>0 DEF CallersOK, AttemptInv, LeavingPoisonsNobody
<1>2. CASE FlightCheck
  <2>1. UNCHANGED <<cached, inbox>>  BY <1>2 DEF FlightCheck
  <2>2. \/ FreshCached(cached) /\ flight' = [flight EXCEPT !.phase = "deliver", !.outcome = cached]
        \/ ~FreshCached(cached) /\ flight' = [flight EXCEPT !.phase = "exchange"]
    BY <1>2 DEF FlightCheck
  <2>3. FlightOK' /\ StoreInv'
    BY <1>0, <2>1, <2>2, AnswerShapes DEF Phases, Answers, StoreInv
  <2>4. NoNeedlessExchange'
    BY <1>0, <2>1, <2>2 DEF NoNeedlessExchange, FreshCached
  <2>5. QED  BY <1>1, <2>3, <2>4
<1>3. CASE exchange
  <2>1. PICK o \in Outcomes :
            flight' = [flight EXCEPT !.phase = IF o.kind = "token" THEN "store" ELSE "deliver",
                                     !.outcome = o]
    BY <1>3 DEF exchange
  <2>2. UNCHANGED <<cached, inbox>> /\ flight.phase = "exchange"  BY <1>3 DEF exchange
  <2>3. FlightOK' /\ StoreInv'
    BY <1>0, <2>1, <2>2, OutcomesAreAnswers DEF Phases, StoreInv
  <2>4. NoNeedlessExchange'
    BY <1>0, <2>1, <2>2 DEF NoNeedlessExchange, FreshCached
  <2>5. QED  BY <1>1, <2>3, <2>4
<1>4. CASE store
  <2>1. /\ flight.phase = "store" /\ cached' = flight.outcome /\ UNCHANGED inbox
        /\ flight' = [flight EXCEPT !.phase = "deliver"]
    BY <1>4 DEF store
  <2>2. FlightOK' /\ StoreInv' /\ NoNeedlessExchange'
    BY <1>0, <2>1 DEF Phases, StoreInv, NoNeedlessExchange
  <2>3. QED  BY <1>1, <2>2
<1>5. CASE Deliver
  <2>1. /\ flight' = Idle /\ UNCHANGED cached
        /\ inbox' = [c \in Everyone |-> IF c \in flight.waiters THEN flight.outcome ELSE inbox[c]]
    BY <1>5 DEF Deliver
  <2>2. FlightOK'  BY <1>0, <2>1, AnswerShapes DEF Idle, Phases
  <2>3. StoreInv' /\ NoNeedlessExchange'  BY <2>1 DEF Idle, StoreInv, NoNeedlessExchange
  <2>4. QED  BY <1>1, <2>2, <2>3
<1>6. QED  BY <1>2, <1>3, <1>4, <1>5 DEF Flight

-----------------------------------------------------------------------------
(* The callers and the startup mint.                                       *)

CallerStep(c) ==
    Current(c) \/ DoChan(c) \/ Receive(c) \/ Leave(c) \/ ContextDone(c)

(* What a call returns it has from the cache, from its flight, or from its *)
(* own context.                                                            *)
LEMMA ResultsHonest ==
    ASSUME IInv, NEW c \in Everyone, NEW r, Finish(c, r),
           r \in Answers \/ (r = Cancelled /\ c \in gone), UNCHANGED gone
    PROVE  CallersOK' /\ LeavingPoisonsNobody'
BY AnswerShapes DEF IInv, CallersOK, LeavingPoisonsNobody, Finish, Places

LEMMA CallerKeeps ==
    ASSUME IInv, NEW c \in Everyone, CallerStep(c)
    PROVE  IInv'
<1> USE DEF IInv
<1>1. CASE Current(c) \/ Receive(c) \/ Leave(c)
  <2>1. UNCHANGED <<now, cached, flight, inbox, gone, attempt>>
    BY <1>1 DEF Current, Receive, Leave
  <2>2. FlightOK' /\ StoreInv' /\ NoNeedlessExchange'
    BY <2>1 DEF FlightOK, StoreInv, NoNeedlessExchange, FreshCached
  <2>3. c # Boot /\ pc'[Boot] = pc[Boot]
    BY <1>1, MintingAssumption DEF Current, Receive, Leave, Finish, CallersOK, Everyone
  <2>4. AttemptInv'  BY <2>1, <2>3 DEF AttemptInv
  <2>5. \/ pc' = [pc EXCEPT ![c] = "claim"] /\ UNCHANGED result
        \/ \E r \in Answers : Finish(c, r)
        \/ c \in gone /\ Finish(c, Cancelled)
    BY <1>1, AnswerShapes DEF Current, Receive, Leave, FreshCached, FlightOK, Answers
  <2>6. CallersOK' /\ LeavingPoisonsNobody'
    <3>1. CASE pc' = [pc EXCEPT ![c] = "claim"] /\ UNCHANGED result
      BY <2>1, <3>1 DEF CallersOK, LeavingPoisonsNobody, Places
    <3>2. QED  BY <2>1, <2>5, <3>1, ResultsHonest
  <2>7. QED  BY <2>2, <2>4, <2>6
<1>2. CASE DoChan(c)
  <2>1. /\ pc' = [pc EXCEPT ![c] = "wait"] /\ inbox' = [inbox EXCEPT ![c] = None]
        /\ UNCHANGED <<now, cached, result, gone, attempt>>
    BY <1>2 DEF DoChan
  <2>2. \/ flight' = [phase |-> "check", outcome |-> None, waiters |-> {c}]
        \/ flight' = [flight EXCEPT !.waiters = flight.waiters \cup {c}]
    BY <1>2 DEF DoChan
  <2>3. FlightOK'  BY <2>1, <2>2, AnswerShapes DEF FlightOK, Phases
  <2>4. StoreInv' /\ NoNeedlessExchange'
    BY <2>1, <2>2 DEF FlightOK, StoreInv, NoNeedlessExchange, FreshCached
  <2>5. CallersOK' /\ LeavingPoisonsNobody'
    BY <2>1 DEF CallersOK, LeavingPoisonsNobody, Places
  <2>6. AttemptInv'  BY <2>1 DEF AttemptInv, CallersOK, Everyone
  <2>7. QED  BY <2>3, <2>4, <2>5, <2>6
<1>3. CASE ContextDone(c)
  <2>1. UNCHANGED <<now, cached, flight, inbox, pc, result, attempt>> /\ gone' = gone \cup {c}
    BY <1>3 DEF ContextDone
  <2>2. QED
    BY <2>1 DEF FlightOK, CallersOK, StoreInv, AttemptInv, NoNeedlessExchange, FreshCached,
                LeavingPoisonsNobody
<1>4. QED  BY <1>1, <1>2, <1>3 DEF CallerStep

LEMMA BootKeeps ==
    ASSUME IInv, BootAttempt \/ Startup
    PROVE  IInv'
<1> USE DEF IInv
<1>0. UNCHANGED <<now, cached, flight, inbox, gone>> /\ Boot \in Everyone
  BY DEF BootAttempt, Startup, BootAnswered, BootBackoff, BootStep, Everyone
<1>1. FlightOK' /\ StoreInv' /\ NoNeedlessExchange'
  BY <1>0 DEF FlightOK, StoreInv, NoNeedlessExchange, FreshCached
<1>2. CallersOK' /\ LeavingPoisonsNobody'
  <2>1. CASE UNCHANGED result /\ \E to \in Places : pc' = [pc EXCEPT ![Boot] = to]
    BY <1>0, <2>1 DEF CallersOK, LeavingPoisonsNobody
  <2>2. CASE \E r : Finish(Boot, r) /\ (r \in Answers \/ (r = Cancelled /\ Boot \in gone))
    BY <1>0, <2>2, ResultsHonest
  <2>3. CASE BootAnswered
    <3>1. inbox[Boot] \in Answers  BY <1>0 DEF FlightOK
    <3>2. QED  BY <2>1, <2>2, <2>3, <3>1 DEF BootAnswered, Places
  <2>4. CASE BootAttempt \/ BootBackoff
    BY <2>1, <2>2, <2>4 DEF BootAttempt, BootBackoff, Places
  <2>5. QED  BY <2>3, <2>4 DEF Startup
<1>3. AttemptInv'
  BY <1>0, MintingAssumption
  DEF BootAttempt, Startup, BootAnswered, BootBackoff, Finish, AttemptInv, CallersOK
<1>4. QED  BY <1>1, <1>2, <1>3

LEMMA TickKeeps ==
    ASSUME IInv, Tick
    PROVE  IInv'
<1> USE DEF IInv
<1>1. UNCHANGED <<cached, flight, inbox, pc, result, gone, attempt>> /\ now' = now + 1  BY DEF Tick
<1>2. FlightOK' /\ CallersOK' /\ StoreInv' /\ AttemptInv' /\ LeavingPoisonsNobody'
  BY <1>1 DEF FlightOK, CallersOK, StoreInv, AttemptInv, LeavingPoisonsNobody
<1>3. FreshCached(cached)' => FreshCached(cached)
  BY <1>1, AnswerShapes, MintingAssumption DEF FreshCached, fresh, FlightOK
<1>4. QED  BY <1>1, <1>2, <1>3 DEF NoNeedlessExchange

LEMMA IInvStep == IInv /\ [Next]_vars => IInv'
<1> SUFFICES ASSUME IInv, [Next]_vars PROVE IInv'  OBVIOUS
<1>1. ASSUME NEW c \in Everyone, CallerStep(c) PROVE IInv'  BY <1>1, CallerKeeps
<1>2. CASE Flight  BY <1>2, FlightKeeps
<1>3. CASE BootAttempt \/ Startup  BY <1>3, BootKeeps
<1>4. CASE Tick  BY <1>4, TickKeeps
<1>5. CASE UNCHANGED vars
  BY <1>5 DEF vars, IInv, FlightOK, CallersOK, StoreInv, AttemptInv, NoNeedlessExchange, FreshCached,
              LeavingPoisonsNobody
<1>6. QED  BY <1>1, <1>2, <1>3, <1>4, <1>5 DEF Next, Caller, CallerStep, Everyone

(* While an exchange is under way, and until its token is stored, no fresh *)
(* token is in the cache, whoever raced for the singleflight key.          *)
THEOREM ExchangesAreNeeded == Spec => []NoNeedlessExchange
<1>1. IInv => NoNeedlessExchange  BY DEF IInv
<1>2. QED  BY IInvInit, IInvStep, <1>1, PTL DEF Spec

(* Only a caller whose own context is done is told of a cancellation.      *)
THEOREM NobodyIsPoisoned == Spec => []LeavingPoisonsNobody
<1>1. IInv => LeavingPoisonsNobody  BY DEF IInv
<1>2. QED  BY IInvInit, IInvStep, <1>1, PTL DEF Spec

(* StartupMint asks once and then at most StartupMintRetries times more.   *)
THEOREM RetriesAreCounted == Spec => [](attempt <= StartupRetries + 1)
<1>1. IInv => attempt <= StartupRetries + 1  BY MintingAssumption DEF IInv, AttemptInv
<1>2. QED  BY IInvInit, IInvStep, <1>1, PTL DEF Spec
=============================================================================
