---------------------------- MODULE CachedValues ----------------------------
(***************************************************************************)
(* The cached values of internal/cache and their registry: one startup     *)
(* attempt per value under a bounded wait (Registry.Prime), then one       *)
(* refresh loop per value (Value.Run), both through Value.attempt, while   *)
(* upstream publishes and withdraws releases and its answers fail or come  *)
(* late.                                                                   *)
(*                                                                         *)
(* A release has one content for ever (the Codex edge resolves its tag to  *)
(* a commit before it reads); two releases may have the same content.  A   *)
(* content stands for its hash.  Every Value has two goroutines, "prime"   *)
(* and "loop".                                                             *)
(***************************************************************************)
EXTENDS Naturals, FiniteSets

CONSTANTS
    Values,             \* the registered cached values
    Releases,           \* what upstream may publish as its latest
    Content,            \* the content of each release
    Floor,              \* the release embedded in the binary
    Valid               \* the contents that Validate accepts

ASSUME CachedValuesAssumption ==
    /\ Floor \in Releases
    /\ DOMAIN Content = Releases

Routines == {"prime", "loop"}

None == "none"

VARIABLES
    peeking, pinned,    \* the values with a Version function; those whose TTL is not positive
    latest,             \* upstream: the release it names as its latest
    during,             \* history: its latest releases since the attempt began
    served,             \* currentSource, currentVersion, and the effective value
    outcome,            \* the last attempt: None, "success", "failure"
    fetched,            \* lastSuccess is set
    holder,             \* attemptMu
    pc, got,            \* each goroutine, and what its attempt has read
    ticked,             \* a tick waits in the loop's ticker
    main,               \* runServeStartup: "prime", "start" or "started"
    primed,             \* the values whose prime has sent to done
    expired,            \* Prime's context is done
    cancelled           \* the startup context is done

setupVars    == <<peeking, pinned>>
upstreamVars == <<latest, during>>
valueVars    == <<served, outcome, fetched, holder>>
mainVars     == <<main, primed, expired, cancelled>>
vars         == <<upstreamVars, valueVars, pc, got, ticked, mainVars>>

Nothing == [version |-> None, content |-> None]

Fallback(version) == [source |-> "fallback", version |-> version, content |-> Content[Floor]]
Fetched(g)        == [source |-> "fetched", version |-> g.version, content |-> g.content]

Init ==
    /\ peeking \in SUBSET Values /\ pinned \in SUBSET Values
    /\ latest = [v \in Values |-> Floor] /\ during = [v \in Values |-> {}]
    /\ served = [v \in Values |-> Fallback(Floor)]
    /\ outcome = [v \in Values |-> None]
    /\ fetched = [v \in Values |-> FALSE]
    /\ holder = [v \in Values |-> None]
    /\ pc = [v \in Values |-> [r \in Routines |-> IF r = "prime" THEN "ready" ELSE "absent"]]
    /\ got = [v \in Values |-> [r \in Routines |-> Nothing]]
    /\ ticked = [v \in Values |-> FALSE]
    /\ main = "prime" /\ primed = {} /\ expired = FALSE /\ cancelled = FALSE

-----------------------------------------------------------------------------
Done(r) == IF r = "prime" THEN expired ELSE cancelled

Goto(v, r, where) == pc' = [pc EXCEPT ![v][r] = where]

(* attempt: take attemptMu, then peek at the version or fetch at once.     *)
(* Mutant: two attempts of one value may run side by side.                 *)
AttemptUnlocked(v, r) ==
    /\ pc[v][r] = "attempt"
    /\ Goto(v, r, IF v \in peeking THEN "peek" ELSE "tag")
    /\ during' = [during EXCEPT ![v] = {latest[v]}]
    /\ UNCHANGED <<latest, valueVars, got, ticked, mainVars>>

Attempt(v, r) ==
    /\ pc[v][r] = "attempt" /\ holder[v] = None
    /\ holder' = [holder EXCEPT ![v] = r]
    /\ Goto(v, r, IF v \in peeking THEN "peek" ELSE "tag")
    /\ during' = [during EXCEPT ![v] = {latest[v]}]
    /\ UNCHANGED <<latest, served, outcome, fetched, got, ticked, mainVars>>

(* An edge call that does not answer, or answers nonsense.  Once the       *)
(* context is done it ends this way, unless the answer was already there.  *)
EdgeFails(v, r) ==
    /\ pc[v][r] \in {"peek", "tag", "read"}
    /\ Goto(v, r, "failed")
    /\ UNCHANGED <<upstreamVars, valueVars, got, ticked, mainVars>>

PeekAnswers(v, r) ==
    /\ pc[v][r] = "peek"
    /\ got' = [got EXCEPT ![v][r].version = latest[v]]
    /\ Goto(v, r, "peeked")
    /\ UNCHANGED <<upstreamVars, valueVars, ticked, mainVars>>

(* The fetch names its release itself, then reads that release's content.  *)
TagAnswers(v, r) ==
    /\ pc[v][r] = "tag"
    /\ got' = [got EXCEPT ![v][r].version = latest[v]]
    /\ Goto(v, r, "read")
    /\ UNCHANGED <<upstreamVars, valueVars, ticked, mainVars>>

ReadAnswers(v, r) ==
    /\ pc[v][r] = "read"
    /\ got' = [got EXCEPT ![v][r].content = Content[got[v][r].version]]
    /\ Goto(v, r, "compare")
    /\ UNCHANGED <<upstreamVars, valueVars, ticked, mainVars>>

-----------------------------------------------------------------------------
(* How an attempt ends: attemptMu is released and what it found recorded.  *)

Records(v, r, result) ==
    /\ outcome' = [outcome EXCEPT ![v] = result]
    /\ holder' = [holder EXCEPT ![v] = None]
    /\ Goto(v, r, "ended")
    /\ got' = [got EXCEPT ![v][r] = Nothing] /\ during' = [during EXCEPT ![v] = {}]
    /\ UNCHANGED <<latest, ticked, mainVars>>

(* The peeked version is the served one: an attempt, no fresh content.     *)
(* Mutant: a version is taken over as soon as it is peeked at.             *)
PeekComparesAdopting(v, r) ==
    /\ pc[v][r] = "peeked"
    /\ IF got[v][r].version = served[v].version
          THEN Records(v, r, "success") /\ UNCHANGED <<served, fetched>>
          ELSE /\ Goto(v, r, "tag")
               /\ served' = [served EXCEPT ![v].version = got[v][r].version]
               /\ UNCHANGED <<upstreamVars, outcome, fetched, holder, got, ticked, mainVars>>

PeekCompares(v, r) ==
    /\ pc[v][r] = "peeked"
    /\ IF got[v][r].version = served[v].version
          THEN Records(v, r, "success") /\ UNCHANGED <<served, fetched>>
          ELSE Goto(v, r, "tag") /\ UNCHANGED <<upstreamVars, valueVars, got, ticked, mainVars>>

(* The same content, the floor's content, or new content to be validated.  *)
Compares(v, r) ==
    /\ pc[v][r] = "compare"
    /\ LET content == got[v][r].content IN
       Goto(v, r, CASE content = served[v].content -> "keep"
                    [] content # served[v].content /\ content = Content[Floor] -> "revert"
                    [] content \notin {served[v].content, Content[Floor]} ->
                          IF content \in Valid THEN "accept" ELSE "failed")
    /\ UNCHANGED <<upstreamVars, valueVars, got, ticked, mainVars>>

(* Mutant: the same content keeps the version it was first served under.   *)
CommitsKeepingVersion(v, r) ==
    /\ pc[v][r] \in {"keep", "revert", "accept"}
    /\ served' = [served EXCEPT ![v] =
          CASE pc[v][r] = "keep"   -> @
            [] pc[v][r] = "revert" -> Fallback(got[v][r].version)
            [] pc[v][r] = "accept" -> Fetched(got[v][r])]
    /\ fetched' = [fetched EXCEPT ![v] = TRUE]
    /\ Records(v, r, "success")

Commits(v, r) ==
    /\ pc[v][r] \in {"keep", "revert", "accept"}
    /\ served' = [served EXCEPT ![v] =
          CASE pc[v][r] = "keep"   -> [@ EXCEPT !.version = got[v][r].version]
            [] pc[v][r] = "revert" -> Fallback(got[v][r].version)
            [] pc[v][r] = "accept" -> Fetched(got[v][r])]
    /\ fetched' = [fetched EXCEPT ![v] = TRUE]
    /\ Records(v, r, "success")

failed(v, r) ==
    /\ pc[v][r] = "failed"
    /\ Records(v, r, "failure")
    /\ UNCHANGED <<served, fetched>>

AttemptStep(v, r) ==
    \/ Attempt(v, r)
    \/ PeekCompares(v, r) \/ Compares(v, r)
    \/ Commits(v, r) \/ failed(v, r)

EdgeAnswers(v, r) == PeekAnswers(v, r) \/ TagAnswers(v, r) \/ ReadAnswers(v, r)

-----------------------------------------------------------------------------
(* Registry.Prime: one goroutine per value, each sending to a channel with *)
(* room for all, and a wait for them that the context bounds.              *)

PrimeGo(v) ==
    /\ pc[v]["prime"] = "ready"
    /\ Goto(v, "prime", IF v \in pinned THEN "ended" ELSE "attempt")
    /\ UNCHANGED <<upstreamVars, valueVars, got, ticked, mainVars>>

PrimeSends(v) ==
    /\ pc[v]["prime"] = "ended"
    /\ Goto(v, "prime", "gone") /\ primed' = primed \cup {v}
    /\ UNCHANGED <<upstreamVars, valueVars, got, ticked, main, expired, cancelled>>

PrimeReturns ==
    /\ main = "prime" /\ (expired \/ primed = Values)
    /\ main' = "start" /\ expired' = TRUE
    /\ UNCHANGED <<upstreamVars, valueVars, pc, got, ticked, primed, cancelled>>

(* Registry.Start: a loop for each value; a pinned one returns at once.    *)
Start ==
    /\ main = "start" /\ main' = "started"
    /\ pc' = [v \in Values |-> [pc[v] EXCEPT !["loop"] = IF v \in pinned THEN "gone" ELSE "select"]]
    /\ UNCHANGED <<upstreamVars, valueVars, got, ticked, primed, expired, cancelled>>

(* Run's select: cancellation or a tick; either when both are ready.       *)
LoopSelects(v) ==
    /\ pc[v]["loop"] = "select"
    /\ \/ cancelled /\ Goto(v, "loop", "gone") /\ UNCHANGED ticked
       \/ /\ ticked[v] /\ ticked' = [ticked EXCEPT ![v] = FALSE]
          /\ Goto(v, "loop", "attempt")
    /\ UNCHANGED <<upstreamVars, valueVars, got, mainVars>>

LoopGoesOn(v) ==
    /\ pc[v]["loop"] = "ended"
    /\ Goto(v, "loop", IF cancelled THEN "gone" ELSE "select")
    /\ UNCHANGED <<upstreamVars, valueVars, got, ticked, mainVars>>

-----------------------------------------------------------------------------
(* The environment: upstream names another latest release, time passes,    *)
(* the process is told to stop.                                            *)

Publish(v) ==
    /\ v \notin pinned
    /\ \E release \in Releases \ {latest[v]} :
          /\ latest' = [latest EXCEPT ![v] = release]
          /\ during' = [during EXCEPT ![v] = IF holder[v] = None THEN @ ELSE @ \cup {release}]
    /\ UNCHANGED <<valueVars, pc, got, ticked, mainVars>>

(* A ticker holds one tick; more are dropped until the loop takes it.      *)
Tick(v) ==
    /\ pc[v]["loop"] \notin {"absent", "gone"} /\ ~ticked[v]
    /\ ticked' = [ticked EXCEPT ![v] = TRUE]
    /\ UNCHANGED <<upstreamVars, valueVars, pc, got, mainVars>>

Expire ==
    /\ main = "prime" /\ ~expired /\ expired' = TRUE
    /\ UNCHANGED <<upstreamVars, valueVars, pc, got, ticked, main, primed, cancelled>>

Cancel ==
    /\ ~cancelled /\ cancelled' = TRUE /\ expired' = TRUE
    /\ UNCHANGED <<upstreamVars, valueVars, pc, got, ticked, main, primed>>

RoutineStep(v, r) == AttemptStep(v, r) \/ (Done(r) /\ EdgeFails(v, r))

LoopStep(v) == LoopSelects(v) \/ LoopGoesOn(v)

Next ==
    /\ UNCHANGED setupVars
    /\ \/ \E v \in Values :
             \/ \E r \in Routines : AttemptStep(v, r) \/ EdgeFails(v, r) \/ EdgeAnswers(v, r)
             \/ PrimeGo(v) \/ PrimeSends(v) \/ LoopStep(v)
             \/ Publish(v) \/ Tick(v)
       \/ PrimeReturns \/ Start
       \/ Expire \/ Cancel

(* Goroutines run, Prime's timer fires, and an edge call ends once its     *)
(* context is done.  Nothing else makes upstream answer, or tick.          *)
Fairness ==
    /\ \A v \in Values :
          /\ \A r \in Routines : WF_vars(RoutineStep(v, r)) /\ SF_vars(Attempt(v, r))
          /\ WF_vars(PrimeGo(v)) /\ WF_vars(PrimeSends(v)) /\ WF_vars(LoopStep(v))
    /\ WF_vars(PrimeReturns) /\ WF_vars(Start) /\ WF_vars(Expire)

Spec == Init /\ [][Next]_<<setupVars, vars>> /\ Fairness

-----------------------------------------------------------------------------
(* What is served is a release as it was published, accepted or embedded:  *)
(* version, source and content always belong together, though each is read *)
(* and compared in a section of its own (value.go:203-246).                *)
ServedIsPublished ==
    \A v \in Values :
       /\ served[v].content = Content[served[v].version]
       /\ served[v].content \in Valid \cup {Content[Floor]}
       /\ served[v].source = "fallback" <=> served[v].content = Content[Floor]

(* A successful attempt leaves the value on a release that was upstream's  *)
(* latest during that attempt, though releases come and go between the     *)
(* peek and the fetch; and only what an attempt has read and accepted      *)
(* replaces a value: a failure holds the last good one (ADR-0008).         *)
SuccessIsCurrent ==
    [][\A v \in Values :
          /\ holder[v] # None /\ holder'[v] = None /\ outcome'[v] = "success"
                => served'[v].version \in during[v]
          /\ served'[v] # served[v] =>
                \E r \in Routines :
                   holder[v] = r /\ got[v][r].version = served'[v].version
                   /\ got[v][r].content = served'[v].content /\ outcome'[v] = "success"]_vars

(* Startup discovery is a wait, not a gate: an upstream that never answers *)
(* holds the startup sequence no longer than Prime's own deadline.         *)
PrimeIsBounded == main = "prime" ~> main = "started"

(* Once the startup context is done every goroutine ends, however often    *)
(* the ticker is ready and however slow upstream is.                       *)
RoutinesEnd ==
    cancelled ~> \A v \in Values, r \in Routines : pc[v][r] = "gone"

(* When upstream stays on an acceptable release and answers, the value     *)
(* comes to it and stays there: a version peek never hides a release.      *)
KeepsUp ==
    \A v \in Values :
       (/\ v \notin pinned
        /\ <>[][latest'[v] = latest[v] /\ ~EdgeFails(v, "loop")]_vars
        /\ <>[](Content[latest[v]] \in Valid \cup {Content[Floor]} /\ ~cancelled)
        /\ []<><<EdgeAnswers(v, "loop")>>_vars)
       => <>[](served[v].version = latest[v] /\ served[v].content = Content[latest[v]])

(* What the values and their routines come to, in all three respects.      *)
ValuesGoOn == PrimeIsBounded /\ RoutinesEnd /\ KeepsUp
=============================================================================
