----------------------------- MODULE PriceList ------------------------------
(***************************************************************************)
(* The price list that reports are priced by (internal/usage/pricing/      *)
(* source.go): a refresh fetches and publishes it while reports capture    *)
(* it, and one parsed copy is kept from report to report behind a gate.    *)
(* How the cached value itself is refreshed is CachedValues'.              *)
(***************************************************************************)
EXTENDS Naturals, FiniteSets

CONSTANTS
    Callers,
    Artifacts,          \* documents, each its own version
    Embedded,           \* the one built in
    Providers,          \* the providers a document has, and whose ids match
    IdentityBytes,      \* what its identities weigh
    Limits,             \* what a report has room for
    MaxFetches          \* bound

selectedProviders == {"openai", "anthropic", "google", "xai"}

(* The document that is built in parses, and no report is named as a gate  *)
(* that nobody holds.                                                      *)
ASSUME PriceListAssumption ==
    Embedded \in Artifacts /\ selectedProviders \subseteq Providers[Embedded] /\ "free" \notin Callers

VARIABLES
    published,          \* the effective document
    fetches,
    gate,               \* the report that holds parsedGate
    parsed,             \* the version kept parsed
    pc, limit,          \* of each report
    captured,           \* the version Current captured and tells of
    snapshot,           \* the version of the snapshot it returns
    seen                \* the versions that were effective during the call

listVars == <<published, fetches, gate, parsed, pc, limit, captured, snapshot, seen>>

Free == "free"
Nothing == "nothing"

ListInit ==
    /\ published = Embedded /\ parsed = Embedded /\ fetches = 0 /\ gate = Free
    /\ pc = [r \in Callers |-> "idle"] /\ limit \in [Callers -> Limits]
    /\ captured = [r \in Callers |-> Nothing] /\ snapshot = [r \in Callers |-> Nothing]
    /\ seen = [r \in Callers |-> {}]

(* parseSnapshot: each selected provider is there, and within the limit.   *)
Parses(a) == selectedProviders \subseteq Providers[a]
Fits(a, bytes) == IdentityBytes[a] <= bytes

(* A refresh: what is fetched whole and parses, whatever its size to a     *)
(* report, is published.                                                   *)
Publish ==
    /\ fetches < MaxFetches /\ fetches' = fetches + 1
    /\ \E a \in Artifacts \cup {"failed", "too large", "status"} :
         /\ published' = IF a \in Artifacts /\ Parses(a) THEN a ELSE published
    /\ seen' = [r \in Callers |-> IF pc[r] \in {"idle", "done"} THEN seen[r] ELSE seen[r] \cup {published'}]
    /\ UNCHANGED <<gate, parsed, pc, limit, captured, snapshot>>

Step(r, from, to) == pc[r] = from /\ pc' = [pc EXCEPT ![r] = to]

(* Current, up to its error or its snapshot.                               *)
Capture(r) ==
    /\ Step(r, "idle", "waiting")
    /\ captured' = [captured EXCEPT ![r] = published] /\ seen' = [seen EXCEPT ![r] = {published}]
    /\ UNCHANGED <<published, fetches, gate, parsed, limit, snapshot>>

TakeGate(r) ==
    /\ gate = Free /\ gate' = r /\ Step(r, "waiting", "holding")
    /\ UNCHANGED <<published, fetches, parsed, limit, captured, snapshot, seen>>

(* The report's context ends, at the gate or while it parses.              *)
Cancelled(r) ==
    /\ \E from \in {"waiting", "holding", "parsing"} : Step(r, from, "done")
    /\ gate' = IF gate = r THEN Free ELSE gate
    /\ UNCHANGED <<published, fetches, parsed, limit, captured, snapshot, seen>>

Returns(r, a) == gate' = Free /\ snapshot' = [snapshot EXCEPT ![r] = a]

(* Mutant: whatever is kept parsed is taken.                               *)
HitAny(r) ==
    /\ Step(r, "holding", "done")
    /\ Returns(r, IF Fits(parsed, limit[r]) THEN parsed ELSE Nothing)
    /\ UNCHANGED <<published, fetches, parsed, limit, captured, seen>>

Hit(r) ==
    /\ parsed = captured[r] /\ Step(r, "holding", "done")
    /\ Returns(r, IF Fits(parsed, limit[r]) THEN parsed ELSE Nothing)
    /\ UNCHANGED <<published, fetches, parsed, limit, captured, seen>>

Miss(r) ==
    /\ parsed # captured[r]
    /\ \/ Step(r, "holding", "parsing") /\ Fits(captured[r], limit[r]) /\ UNCHANGED <<gate, snapshot>>
       \/ Step(r, "holding", "done") /\ ~Fits(captured[r], limit[r]) /\ Returns(r, Nothing)
    /\ UNCHANGED <<published, fetches, parsed, limit, captured, seen>>

(* The second look at the current version, and what it decides: a refresh  *)
(* may come between the two.                                               *)
Look(r) ==
    /\ Step(r, "parsing", IF published = captured[r] THEN "storing" ELSE "returning")
    /\ UNCHANGED <<published, fetches, gate, parsed, limit, captured, snapshot, seen>>

Store(r) ==
    /\ Step(r, "storing", "returning") /\ parsed' = captured[r]
    /\ UNCHANGED <<published, fetches, gate, limit, captured, snapshot, seen>>

Return(r) ==
    /\ Step(r, "returning", "done") /\ Returns(r, captured[r])
    /\ UNCHANGED <<published, fetches, parsed, limit, captured, seen>>

(* The next report.                                                        *)
Again(r) ==
    /\ Step(r, "done", "idle")
    /\ captured' = [captured EXCEPT ![r] = Nothing] /\ snapshot' = [snapshot EXCEPT ![r] = Nothing]
    /\ seen' = [seen EXCEPT ![r] = {}] /\ limit' \in {[limit EXCEPT ![r] = l] : l \in Limits}
    /\ UNCHANGED <<published, fetches, gate, parsed>>

Called(r) == TakeGate(r) \/ Hit(r) \/ Miss(r) \/ Look(r) \/ Store(r) \/ Return(r)
ListNext == Publish \/ \E r \in Callers : Capture(r) \/ Cancelled(r) \/ Called(r) \/ Again(r)
ListSpec == ListInit /\ [][ListNext]_listVars

-----------------------------------------------------------------------------
(* A report is priced by the very version it names, which was in effect    *)
(* during its call, and by none only if its own room did not do: neither a *)
(* refresh that overtakes the stored copy nor another report's limit shows.*)
PricedByTheVersionNamed ==
    /\ \A r \in Callers :
         /\ snapshot[r] # Nothing => snapshot[r] = captured[r] /\ captured[r] \in seen[r]
         /\ snapshot[r] # Nothing => Fits(captured[r], limit[r])
         /\ gate = r <=> pc[r] \in {"holding", "parsing", "storing", "returning"}
    /\ Parses(parsed) /\ Parses(published)
=============================================================================
