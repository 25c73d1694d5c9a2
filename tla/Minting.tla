------------------------------ MODULE Minting ------------------------------
(***************************************************************************)
(* The Copilot token of internal/identity/manager.go: a cache under a      *)
(* mutex, one singleflight key shared by every request and by the startup  *)
(* mint, and an exchange that runs on a context of its own, so that a      *)
(* caller that leaves neither cancels nor poisons what others wait for.    *)
(*                                                                         *)
(* Each member of Callers is one call of Current; Boot is the goroutine    *)
(* that runs StartupMint.  Times are whole units of the wall clock.        *)
(***************************************************************************)
EXTENDS Integers

CONSTANTS
    Callers,            \* calls of Current
    Boot,               \* the startup mint
    StartupRetries,     \* StartupMintRetries
    Lifetimes,          \* how long the tokens GitHub issues may live
    SafetyMargin,       \* SafetyMargin
    MaxTime             \* bound: the last instant of the clock

ASSUME MintingAssumption ==
    /\ Boot \notin Callers
    /\ StartupRetries \in Nat /\ SafetyMargin \in Nat \ {0} /\ MaxTime \in Nat
    /\ Lifetimes \subseteq Int

Everyone == Callers \cup {Boot}

None     == [kind |-> "none"]
Minted(t) == [kind |-> "token", token |-> t]
Failed(class) == [kind |-> "error", class |-> class]
Cancelled == Failed("cancelled")

VARIABLES
    now,                \* the clock
    cached,             \* the cached token, or None (hasCached false)
    flight,             \* the singleflight key: its phase and who waits on it
    inbox,              \* what DoChan has delivered to each caller
    pc, result,         \* where each caller is, what it returned
    gone,               \* callers whose context is done
    attempt             \* StartupMint's attempts so far

vars == <<now, cached, flight, inbox, pc, result, gone, attempt>>

Idle == [phase |-> "idle", outcome |-> None, waiters |-> {}]

Init ==
    /\ now = 0
    /\ cached = None
    /\ flight = Idle
    /\ inbox = [c \in Everyone |-> None]
    /\ pc = [c \in Everyone |-> "idle"]
    /\ result = [c \in Everyone |-> None]
    /\ gone = {}
    /\ attempt = 0

-----------------------------------------------------------------------------
fresh(token, t) == t < token.expiresAt - SafetyMargin

FreshCached(c) == c.kind = "token" /\ fresh(c.token, now)

Finish(c, r) ==
    /\ pc' = [pc EXCEPT ![c] = "done"]
    /\ result' = [result EXCEPT ![c] = r]

(* Current: a fresh cached token is returned without touching the flight.  *)
Current(c) ==
    /\ c \in Callers /\ pc[c] = "idle"
    /\ IF FreshCached(cached)
          THEN Finish(c, cached)
          ELSE pc' = [pc EXCEPT ![c] = "claim"] /\ UNCHANGED result
    /\ UNCHANGED <<now, cached, flight, inbox, gone, attempt>>

(* mint, DoChan: join the flight that holds the key, or start one.         *)
DoChan(c) ==
    /\ pc[c] = "claim"
    /\ pc' = [pc EXCEPT ![c] = "wait"]
    /\ flight' = IF flight.phase = "idle"
                    THEN [phase |-> "check", outcome |-> None, waiters |-> {c}]
                    ELSE [flight EXCEPT !.waiters = @ \cup {c}]
    /\ inbox' = [inbox EXCEPT ![c] = None]
    /\ UNCHANGED <<now, cached, result, gone, attempt>>

(* mint, the caller's select: its result or its own context.  A caller     *)
(* that leaves stays in the flight; nobody reads what it is sent.          *)
Receive(c) ==
    /\ c \in Callers /\ pc[c] = "wait" /\ inbox[c] # None
    /\ Finish(c, inbox[c])
    /\ UNCHANGED <<now, cached, flight, inbox, gone, attempt>>

Leave(c) ==
    /\ c \in Callers /\ pc[c] = "wait" /\ c \in gone
    /\ Finish(c, Cancelled)
    /\ UNCHANGED <<now, cached, flight, inbox, gone, attempt>>

-----------------------------------------------------------------------------
(* The flight, on its own goroutine.                                       *)

FlightOnly == UNCHANGED <<now, pc, result, gone, attempt>>

(* Mutant: the flight exchanges without looking at the cache again.        *)
FlightNoCheck ==
    /\ flight.phase = "check"
    /\ flight' = [flight EXCEPT !.phase = "exchange"]
    /\ UNCHANGED <<cached, inbox>> /\ FlightOnly

FlightCheck ==
    /\ flight.phase = "check"
    /\ flight' = IF FreshCached(cached)
                    THEN [flight EXCEPT !.phase = "deliver", !.outcome = cached]
                    ELSE [flight EXCEPT !.phase = "exchange"]
    /\ UNCHANGED <<cached, inbox>> /\ FlightOnly

(* What one exchange yields: a token of some lifetime, or a failure of a   *)
(* class.  A timeout of its own context is a transient failure.            *)
Outcomes ==
    {Minted([expiresAt |-> now + l]) : l \in Lifetimes}
    \cup {Failed("transient"), Failed("permanent")}

(* Mutant: the exchange runs on the context of a caller that waits for it. *)
ExchangeOnCallerContext ==
    /\ flight.phase = "exchange"
    /\ \E o \in Outcomes \cup {Cancelled} :
          /\ o = Cancelled => flight.waiters \cap gone # {}
          /\ flight' = [flight EXCEPT !.phase = IF o.kind = "token" THEN "store" ELSE "deliver",
                                      !.outcome = o]
    /\ UNCHANGED <<cached, inbox>> /\ FlightOnly

exchange ==
    /\ flight.phase = "exchange"
    /\ \E o \in Outcomes :
          flight' = [flight EXCEPT !.phase = IF o.kind = "token" THEN "store" ELSE "deliver",
                                   !.outcome = o]
    /\ UNCHANGED <<cached, inbox>> /\ FlightOnly

store ==
    /\ flight.phase = "store"
    /\ cached' = flight.outcome
    /\ flight' = [flight EXCEPT !.phase = "deliver"]
    /\ UNCHANGED inbox /\ FlightOnly

(* singleflight frees the key and answers every waiter in one section.     *)
Deliver ==
    /\ flight.phase = "deliver"
    /\ inbox' = [c \in Everyone |-> IF c \in flight.waiters THEN flight.outcome ELSE inbox[c]]
    /\ flight' = Idle
    /\ UNCHANGED cached /\ FlightOnly

Flight == FlightCheck \/ exchange \/ store \/ Deliver

-----------------------------------------------------------------------------
(* StartupMint.  Its mint does not look at the cache before the flight.    *)

BootStep == UNCHANGED <<now, cached, flight, inbox, gone>>

BootAttempt ==
    /\ pc[Boot] = "idle"
    /\ pc' = [pc EXCEPT ![Boot] = "claim"] /\ attempt' = 1
    /\ UNCHANGED result /\ BootStep

BootAnswered ==
    /\ pc[Boot] = "wait"
    /\ \E r \in {inbox[Boot]} \cup (IF Boot \in gone THEN {Cancelled} ELSE {}) :
          /\ r # None
          /\ IF \/ r.kind = "token" \/ Boot \in gone
                \/ r = Failed("permanent") \/ attempt = StartupRetries + 1
             THEN Finish(Boot, r)
             ELSE pc' = [pc EXCEPT ![Boot] = "backoff"] /\ UNCHANGED result
    /\ UNCHANGED attempt /\ BootStep

(* Mutant: a retry is not counted.                                         *)
BootBackoffUncounted ==
    /\ pc[Boot] = "backoff"
    /\ \/ Boot \in gone /\ Finish(Boot, Cancelled)
       \/ pc' = [pc EXCEPT ![Boot] = "claim"] /\ UNCHANGED result
    /\ UNCHANGED attempt /\ BootStep

(* sleepCtx: the backoff passes, or the context ends it.                   *)
BootBackoff ==
    /\ pc[Boot] = "backoff"
    /\ \/ Boot \in gone /\ Finish(Boot, Cancelled) /\ UNCHANGED attempt
       \/ /\ pc' = [pc EXCEPT ![Boot] = "claim"] /\ UNCHANGED result
          /\ attempt' = attempt + 1
    /\ BootStep

-----------------------------------------------------------------------------
(* Contexts end, and time passes, on their own.                            *)

ContextDone(c) ==
    /\ c \notin gone /\ gone' = gone \cup {c}
    /\ UNCHANGED <<now, cached, flight, inbox, pc, result, attempt>>

Tick ==
    /\ now < MaxTime /\ now' = now + 1
    /\ UNCHANGED <<cached, flight, inbox, pc, result, gone, attempt>>

Caller(c) == DoChan(c) \/ Receive(c) \/ Leave(c)

Startup == BootAnswered \/ BootBackoff

Next ==
    \/ \E c \in Callers : Current(c)
    \/ \E c \in Everyone : Caller(c) \/ ContextDone(c)
    \/ Flight
    \/ BootAttempt \/ Startup
    \/ Tick

(* Goroutines run, an exchange ends within its timeout, a backoff ends.    *)
Fairness ==
    /\ \A c \in Everyone : WF_vars(Caller(c))
    /\ WF_vars(Flight) /\ WF_vars(Startup)

Spec == Init /\ [][Next]_vars /\ Fairness

-----------------------------------------------------------------------------
(* While an exchange is under way, and until its token is stored, the      *)
(* cache holds no fresh token: no exchange is wasted and no fresh token is *)
(* overwritten, though the caller that started the flight looked at the    *)
(* cache before it claimed the key, and others ended a flight in between.  *)
NoNeedlessExchange == flight.phase \in {"exchange", "store"} => ~FreshCached(cached)

(* The comment on fresh, manager.go:52-54: a token within the margin is     *)
(* stale and re-minted, so that upstream never receives one that could die *)
(* mid-call.  What an exchange or a flight delivers is not looked at again.*)
NoDyingTokenHandedOut ==
    [][\A c \in Callers :
          result'[c] # result[c] /\ result'[c].kind = "token" => fresh(result'[c].token, now)]_vars

(* A caller is told of a cancellation only when its own context is done:   *)
(* whoever leaves cannot fail the exchange the others wait for.            *)
LeavingPoisonsNobody ==
    \A c \in Everyone : result[c] = Cancelled => c \in gone

(* Every call of Current answers, and the startup mint ends by itself,     *)
(* however often the exchange fails.                                       *)
CallsReturn == \A c \in Everyone : pc[c] = "claim" ~> pc[c] = "done"
=============================================================================
