-------------------------- MODULE AccountingProofs ---------------------------
(***************************************************************************)
(* What usage is accounted by: that the Turns the meters submit are those  *)
(* the streams are worth (UsageMeter), for streams of any length and any   *)
(* counts; that a report is priced by the version of the price list it     *)
(* names (PriceList), for any reports, documents and refreshes; that no    *)
(* model is priced as another (ModelMatch), for any identities; that a     *)
(* turn is priced exactly or excluded for a reason that stands (Pricing),  *)
(* for any rates, tiers, modes and counts; and that a report partitions    *)
(* its window and adds its rows up (Calendar, UsageReport), in any zone.   *)
(***************************************************************************)
EXTENDS UsageMeter, PriceList, ModelMatch, Pricing, UsageReport, FiniteSetTheorems,
        WellFoundedInduction, TLAPS

Holding == {"holding", "parsing", "storing", "returning"}
Version == Artifacts \cup {"nothing"}

ListTypeOK ==
    /\ published \in Artifacts /\ parsed \in Artifacts
    /\ pc \in [Callers -> {"idle", "waiting", "done"} \cup Holding]
    /\ limit \in [Callers -> Limits]
    /\ captured \in [Callers -> Version] /\ snapshot \in [Callers -> Version]
    /\ seen \in [Callers -> SUBSET Artifacts]

(* The gate is its holder's; what is published or kept parsed does parse.  *)
GateInv ==
    /\ \A r \in Callers : gate = r <=> pc[r] \in Holding
    /\ Parses(parsed) /\ Parses(published)

(* A report that is under way has captured a version that was in effect    *)
(* while it ran; it has room for it once it parses; and what it returns is *)
(* that version.                                                           *)
CaptureInv ==
    \A r \in Callers :
        /\ pc[r] # "idle" => captured[r] \in seen[r] /\ Parses(captured[r])
        /\ pc[r] \in {"parsing", "storing", "returning"} => Fits(captured[r], limit[r])
        /\ snapshot[r] # "nothing" =>
              pc[r] = "done" /\ snapshot[r] = captured[r] /\ Fits(captured[r], limit[r])

ListInv == ListTypeOK /\ GateInv /\ CaptureInv

LEMMA ListInvInit == ListInit => ListInv
<1> SUFFICES ASSUME ListInit PROVE ListInv  OBVIOUS
<1> USE PriceListAssumption DEF ListInit, Nothing, Free, Parses
<1>1. ListTypeOK  BY DEF ListTypeOK, Version
<1>2. GateInv  BY DEF GateInv, Holding
<1>3. CaptureInv  BY DEF CaptureInv
<1>4. QED  BY <1>1, <1>2, <1>3 DEF ListInv

(* A refresh publishes what parses, and is seen by the reports under way.  *)
LEMMA PublishKeeps == ListInv /\ Publish => ListInv'
<1> SUFFICES ASSUME ListInv, Publish PROVE ListInv'  OBVIOUS
<1>1. ListTypeOK /\ GateInv /\ CaptureInv  BY DEF ListInv
<1>2. /\ UNCHANGED <<gate, parsed, pc, limit, captured, snapshot>>
      /\ published' \in Artifacts /\ Parses(published')
      /\ seen' = [r \in Callers |-> IF pc[r] \in {"idle", "done"} THEN seen[r] ELSE seen[r] \cup {published'}]
  BY <1>1 DEF Publish, ListTypeOK, GateInv
<1>3. \A r \in Callers : seen[r] \subseteq seen'[r] /\ seen'[r] \subseteq Artifacts
  BY <1>1, <1>2 DEF ListTypeOK
<1>4. ListTypeOK'  BY <1>1, <1>2, <1>3 DEF ListTypeOK
<1>5. GateInv'  BY <1>1, <1>2 DEF GateInv
<1>6. CaptureInv'  BY <1>1, <1>2, <1>3 DEF CaptureInv, Fits, Parses
<1>7. QED  BY <1>4, <1>5, <1>6 DEF ListInv

(* A step of one report.                                                   *)
ReportStep(r) == Capture(r) \/ Cancelled(r) \/ Called(r) \/ Again(r)

LEMMA ReportEffects ==
    ASSUME ListTypeOK, NEW r \in Callers, ReportStep(r)
    PROVE  /\ published' = published
           /\ \A q \in Callers \ {r} : /\ pc'[q] = pc[q] /\ limit'[q] = limit[q] /\ captured'[q] = captured[q]
                                       /\ snapshot'[q] = snapshot[q] /\ seen'[q] = seen[q]
<1> USE DEF ListTypeOK, Step, Returns
<1>1. CASE Capture(r)  BY <1>1 DEF Capture
<1>2. CASE Cancelled(r)  BY <1>2 DEF Cancelled
<1>3. CASE TakeGate(r) \/ Hit(r) \/ Miss(r)  BY <1>3 DEF TakeGate, Hit, Miss
<1>4. CASE Look(r) \/ Store(r) \/ Return(r)  BY <1>4 DEF Look, Store, Return
<1>5. CASE Again(r)  BY <1>5 DEF Again
<1>6. QED  BY <1>1, <1>2, <1>3, <1>4, <1>5 DEF ReportStep, Called

(* What one report's step leaves behind, when it leaves the gate to its    *)
(* holder and what it says of itself true.                                 *)
LEMMA OneReport ==
    ASSUME ListInv, NEW r \in Callers, ReportStep(r), ListTypeOK',
           parsed' = parsed \/ Parses(parsed'),
           gate' \in {gate, r, "free"},
           gate' = r <=> pc'[r] \in Holding,
           gate' # gate => gate \in {"free", r},
           /\ pc'[r] # "idle" => captured'[r] \in seen'[r] /\ Parses(captured'[r])
           /\ pc'[r] \in {"parsing", "storing", "returning"} => Fits(captured'[r], limit'[r])
           /\ snapshot'[r] # "nothing" =>
                 pc'[r] = "done" /\ snapshot'[r] = captured'[r] /\ Fits(captured'[r], limit'[r])
    PROVE  ListInv'
<1>1. ListTypeOK /\ GateInv /\ CaptureInv  BY DEF ListInv
<1>2. CaptureInv'
  <2>1. \A q \in Callers \ {r} : /\ pc'[q] = pc[q] /\ limit'[q] = limit[q] /\ captured'[q] = captured[q]
                                 /\ snapshot'[q] = snapshot[q] /\ seen'[q] = seen[q]
    BY <1>1, ReportEffects
  <2>2. QED  BY <1>1, <2>1 DEF CaptureInv, Fits, Parses
<1>3. \A q \in Callers : gate' = q <=> pc'[q] \in Holding
  BY <1>1, ReportEffects, PriceListAssumption DEF GateInv
<1>4. Parses(parsed)' /\ Parses(published)'
  BY <1>1, ReportEffects DEF GateInv, Parses
<1>5. QED  BY <1>2, <1>3, <1>4 DEF ListInv, GateInv

LEMMA ReportKeeps ==
    ASSUME ListInv, NEW r \in Callers, ReportStep(r)
    PROVE  ListInv'
<1>1. ListTypeOK /\ GateInv /\ CaptureInv  BY DEF ListInv
<1>2. "nothing" \in Version /\ Artifacts \subseteq Version  BY DEF Version
<1> USE DEF Step, Returns, Nothing, Free, Holding
<1>3. CASE Capture(r)
  <2>1. /\ pc[r] = "idle" /\ pc' = [pc EXCEPT ![r] = "waiting"] /\ captured' = [captured EXCEPT ![r] = published]
        /\ seen' = [seen EXCEPT ![r] = {published}] /\ UNCHANGED <<published, gate, parsed, limit, snapshot>>
    BY <1>3 DEF Capture
  <2>2. ListTypeOK'  BY <1>1, <1>2, <2>1 DEF ListTypeOK
  <2>3. snapshot[r] = "nothing" /\ gate # r /\ Parses(published)  BY <1>1, <2>1 DEF CaptureInv, GateInv
  <2>4. pc'[r] = "waiting" /\ captured'[r] = published /\ published \in seen'[r]  BY <1>1, <2>1 DEF ListTypeOK
  <2>5. QED  BY <2>1, <2>2, <2>3, <2>4, OneReport
<1>4. CASE TakeGate(r)
  <2>1. /\ pc[r] = "waiting" /\ pc' = [pc EXCEPT ![r] = "holding"] /\ gate = "free" /\ gate' = r
        /\ UNCHANGED <<published, parsed, limit, captured, snapshot, seen>>
    BY <1>4 DEF TakeGate
  <2>2. ListTypeOK' /\ pc'[r] = "holding"  BY <1>1, <2>1 DEF ListTypeOK
  <2>3. snapshot[r] = "nothing" /\ captured[r] \in seen[r] /\ Parses(captured[r])
    BY <1>1, <2>1 DEF CaptureInv
  <2>4. QED  BY <2>1, <2>2, <2>3, OneReport
<1>5. CASE Cancelled(r)
  <2>1. /\ pc[r] \in {"waiting", "holding", "parsing"} /\ pc' = [pc EXCEPT ![r] = "done"]
        /\ gate' = IF gate = r THEN "free" ELSE gate
        /\ UNCHANGED <<published, parsed, limit, captured, snapshot, seen>>
    BY <1>5 DEF Cancelled
  <2>2. ListTypeOK' /\ pc'[r] = "done"  BY <1>1, <2>1 DEF ListTypeOK
  <2>3. snapshot[r] = "nothing" /\ captured[r] \in seen[r] /\ Parses(captured[r])
    BY <1>1, <2>1 DEF CaptureInv
  <2>4. gate' # r  BY <2>1, PriceListAssumption
  <2>5. QED  BY <2>1, <2>2, <2>3, <2>4, OneReport
<1>6. CASE Hit(r)
  <2>1. /\ pc[r] = "holding" /\ pc' = [pc EXCEPT ![r] = "done"] /\ gate' = "free" /\ parsed = captured[r]
        /\ snapshot' = [snapshot EXCEPT ![r] = IF Fits(parsed, limit[r]) THEN parsed ELSE "nothing"]
        /\ UNCHANGED <<published, parsed, limit, captured, seen>>
    BY <1>6 DEF Hit
  <2>2. ListTypeOK' /\ pc'[r] = "done"  BY <1>1, <1>2, <2>1 DEF ListTypeOK
  <2>3. captured[r] \in seen[r] /\ Parses(captured[r])  BY <1>1, <2>1 DEF CaptureInv
  <2>4. snapshot'[r] # "nothing" => snapshot'[r] = captured[r] /\ Fits(captured[r], limit[r])
    BY <1>1, <2>1 DEF ListTypeOK
  <2>5. gate = r /\ gate' # r  BY <1>1, <2>1, PriceListAssumption DEF GateInv
  <2>6. QED  BY <2>1, <2>2, <2>3, <2>4, <2>5, OneReport
<1>7. CASE Miss(r)
  <2>1. /\ pc[r] = "holding" /\ UNCHANGED <<published, parsed, limit, captured, seen>>
        /\ \/ /\ pc' = [pc EXCEPT ![r] = "parsing"] /\ Fits(captured[r], limit[r])
              /\ gate' = gate /\ snapshot' = snapshot
           \/ /\ pc' = [pc EXCEPT ![r] = "done"] /\ gate' = "free"
              /\ snapshot' = [snapshot EXCEPT ![r] = "nothing"]
    BY <1>7 DEF Miss
  <2>2. ListTypeOK' /\ (pc'[r] = "parsing" \/ pc'[r] = "done")  BY <1>1, <1>2, <2>1 DEF ListTypeOK
  <2>3. snapshot'[r] = "nothing" /\ captured[r] \in seen[r] /\ Parses(captured[r])
    BY <1>1, <2>1 DEF CaptureInv, ListTypeOK
  <2>4. gate = r /\ r # "free"  BY <1>1, <2>1, PriceListAssumption DEF GateInv
  <2>5. /\ gate' = r <=> pc'[r] \in Holding
        /\ pc'[r] \in {"parsing", "storing", "returning"} => Fits(captured[r], limit[r])
    BY <1>1, <2>1, <2>4 DEF ListTypeOK
  <2>6. QED  BY <2>1, <2>2, <2>3, <2>4, <2>5, OneReport
<1>8. CASE Look(r) \/ Store(r)
  <2>1. /\ pc[r] \in {"parsing", "storing"} /\ \E to \in {"storing", "returning"} : pc' = [pc EXCEPT ![r] = to]
        /\ parsed' \in {parsed, captured[r]}
        /\ UNCHANGED <<published, gate, limit, captured, snapshot, seen>>
    BY <1>8 DEF Look, Store
  <2>2. snapshot[r] = "nothing" /\ captured[r] \in seen[r] /\ Parses(captured[r]) /\ Fits(captured[r], limit[r])
    BY <1>1, <2>1 DEF CaptureInv
  <2>3. ListTypeOK' /\ pc'[r] \in {"storing", "returning"}  BY <1>1, <2>1, <2>2 DEF ListTypeOK
  <2>4. gate = r  BY <1>1, <2>1 DEF GateInv
  <2>5. parsed' = parsed \/ Parses(parsed')  BY <2>1, <2>2
  <2>6. QED  BY <2>1, <2>2, <2>3, <2>4, <2>5, OneReport
<1>9. CASE Return(r)
  <2>1. /\ pc[r] = "returning" /\ pc' = [pc EXCEPT ![r] = "done"] /\ gate' = "free"
        /\ snapshot' = [snapshot EXCEPT ![r] = captured[r]]
        /\ UNCHANGED <<published, parsed, limit, captured, seen>>
    BY <1>9 DEF Return
  <2>2. ListTypeOK' /\ pc'[r] = "done" /\ snapshot'[r] = captured[r]  BY <1>1, <2>1 DEF ListTypeOK
  <2>3. captured[r] \in seen[r] /\ Parses(captured[r]) /\ Fits(captured[r], limit[r])
    BY <1>1, <2>1 DEF CaptureInv
  <2>4. gate = r /\ gate' # r  BY <1>1, <2>1, PriceListAssumption DEF GateInv
  <2>5. QED  BY <2>1, <2>2, <2>3, <2>4, OneReport
<1>10. CASE Again(r)
  <2>1. /\ pc[r] = "done" /\ pc' = [pc EXCEPT ![r] = "idle"] /\ captured' = [captured EXCEPT ![r] = "nothing"]
        /\ snapshot' = [snapshot EXCEPT ![r] = "nothing"] /\ seen' = [seen EXCEPT ![r] = {}]
        /\ limit' \in {[limit EXCEPT ![r] = l] : l \in Limits} /\ UNCHANGED <<published, gate, parsed>>
    BY <1>10 DEF Again
  <2>2. ListTypeOK'  BY <1>1, <1>2, <2>1 DEF ListTypeOK
  <2>3. pc'[r] = "idle" /\ snapshot'[r] = "nothing"  BY <1>1, <2>1 DEF ListTypeOK
  <2>4. gate # r  BY <1>1, <2>1 DEF GateInv
  <2>5. QED  BY <2>1, <2>2, <2>3, <2>4, OneReport
<1>11. QED  BY <1>3, <1>4, <1>5, <1>6, <1>7, <1>8, <1>9, <1>10 DEF ReportStep, Called

(* Every report is priced by the version it names, in effect while it ran, *)
(* however refreshes, other reports and cancellations fall between.        *)
THEOREM ReportsNameTheirPrices == ListSpec => []PricedByTheVersionNamed
<1>1. ListInit => ListInv  BY ListInvInit
<1>2. ListInv /\ [ListNext]_(listVars) => ListInv'
  <2> SUFFICES ASSUME ListInv, [ListNext]_(listVars) PROVE ListInv'  OBVIOUS
  <2>1. ASSUME NEW r \in Callers, ReportStep(r) PROVE ListInv'  BY <2>1, ReportKeeps
  <2>2. CASE UNCHANGED listVars
    BY <2>2 DEF listVars, ListInv, ListTypeOK, GateInv, CaptureInv, Parses, Fits
  <2>3. QED  BY <2>1, <2>2, PublishKeeps DEF ListNext, ReportStep
<1>3. ListInv => PricedByTheVersionNamed
  BY DEF ListInv, GateInv, CaptureInv, Holding, PricedByTheVersionNamed, Nothing
<1>4. QED  BY <1>1, <1>2, <1>3, PTL DEF ListSpec

-----------------------------------------------------------------------------
(***************************************************************************)
(* The usage meters.  A prefix of a stream is judged once: what comes      *)
(* later changes neither which messages it told nor what it reported.      *)
(***************************************************************************)
Heard == AnthropicEvents \cup OpenAIEvents

Last == Len(heard)

MeterTypeOK ==
    /\ heard \in Seq(Heard)
    /\ surface \in {"anthropic", "openai"} /\ active \in BOOLEAN /\ poisoned \in BOOLEAN
    /\ started \in Nat /\ counts \in Updates /\ turns \in Seq([message : Nat, counts : Updates])

(* Nothing has spoilt the stream up to its k-th event.                     *)
Trusted(k) == \A j \in 1 .. k : ~Spoils(j)

(* The accumulator is poisoned where the stream is spoilt, and holds else  *)
(* the one message that is open, with the counts last reported.            *)
AccumulatorInv ==
    surface = "anthropic" =>
        /\ poisoned <=> ~Trusted(Last)
        /\ ~poisoned /\ active =>
              started \in 1 .. Last /\ OpenAt(started, Last + 1) /\ counts = Reports(started, Last)
        /\ ~poisoned /\ ~active => \A i \in 1 .. Last : ~OpenAt(i, Last + 1)

(* The Turns are in the order of their messages, and before the open one.  *)
OrderInv ==
    /\ \A n \in 1 .. Len(turns) : turns[n].message <= Last
    /\ surface = "anthropic" /\ ~poisoned /\ active => \A n \in 1 .. Len(turns) : turns[n].message < started

(* Where a count has been reported, there is a last report of it.          *)
Reported(i, k, c) == {j \in i .. k : heard[j].counts[c] # Unreported}
LatestInv ==
    \A i, k \in 1 .. Last, c \in Counts :
        Reported(i, k, c) # {} => \E j \in Reported(i, k, c) : \A l \in Reported(i, k, c) : l <= j

MeterInv == MeterTypeOK /\ AccumulatorInv /\ OrderInv /\ LatestInv /\ TurnsMatchStream

(* An event is appended, and the ones before it are as they were.          *)
Grown == Last \in Nat /\ Last' = Last + 1 /\ \A j \in 1 .. Last : heard'[j] = heard[j]

LEMMA AppendGrows ==
    ASSUME heard \in Seq(Heard), NEW e \in Heard, heard' = Append(heard, e)
    PROVE  Grown /\ heard' \in Seq(Heard) /\ heard'[Last + 1] = e
  BY DEF Last, Grown

LEMMA OpenStays ==
    ASSUME Grown
    PROVE  /\ \A i \in 1 .. Last, k \in 1 .. Last + 1 : OpenAt(i, k)' <=> OpenAt(i, k)
           /\ \A k \in 1 .. Last : Spoils(k)' <=> Spoils(k)
<1>1. ASSUME NEW i \in 1 .. Last, NEW k \in 1 .. Last + 1 PROVE OpenAt(i, k)' <=> OpenAt(i, k)
  <2>1. \A j \in i + 1 .. k - 1 : j \in 1 .. Last  BY DEF Grown
  <2>2. heard'[i] = heard[i] /\ \A j \in i + 1 .. k - 1 : heard'[j] = heard[j]
    BY <2>1 DEF Grown
  <2>3. QED  BY <2>2 DEF OpenAt, IsAt
<1>2. ASSUME NEW k \in 1 .. Last PROVE Spoils(k)' <=> Spoils(k)
  <2>1. heard'[k] = heard[k]  BY DEF Grown
  <2>2. k \in 1 .. Last + 1 /\ \A i \in 1 .. k - 1 : i \in 1 .. Last  BY DEF Grown
  <2>3. \A i \in 1 .. k - 1 : OpenAt(i, k)' <=> OpenAt(i, k)  BY <1>1, <2>2
  <2>4. QED  BY <2>1, <2>3 DEF Spoils, IsAt
<1>3. QED  BY <1>1, <1>2

(* Nor does it change what a count was last reported as.                   *)
LEMMA ReportsStay ==
    ASSUME Grown, LatestInv, NEW i \in 1 .. Last, NEW k \in 1 .. Last
    PROVE  Reports(i, k)' = Reports(i, k)
<1>1. ASSUME NEW c \in Counts PROVE LastReport(i, k, c)' = LastReport(i, k, c)
  <2> DEFINE now  == Reported(i, k, c)
             then == {j \in i .. k : heard'[j].counts[c] # Unreported}
             latest(S) == CHOOSE j \in S : \A l \in S : l <= j
  <2>1. \A j \in i .. k : j \in 1 .. Last  BY DEF Grown
  <2>2. \A j \in i .. k : heard'[j] = heard[j]  BY <2>1 DEF Grown
  <2>3. then = now  BY <2>2 DEF Reported
  <2>4. LastReport(i, k, c) = IF now = {} THEN Unreported ELSE heard[latest(now)].counts[c]
    BY DEF LastReport, Reported
  <2>5. LastReport(i, k, c)' = IF then = {} THEN Unreported ELSE heard'[latest(then)].counts[c]
    BY DEF LastReport
  <2>6. now # {} => latest(now) \in now
    <3>1. now # {} => \E j \in now : \A l \in now : l <= j  BY DEF LatestInv
    <3> HIDE DEF now
    <3>2. QED  BY <3>1
  <2>7. now \subseteq i .. k  BY DEF Reported
  <2> HIDE DEF now, latest
  <2>8. heard'[latest(now)] = heard[latest(now)] \/ now = {}  BY <2>2, <2>6, <2>7
  <2>9. LastReport(i, k, c)' = IF now = {} THEN Unreported ELSE heard'[latest(now)].counts[c]
    BY <2>3, <2>5
  <2>10. QED  BY <2>4, <2>8, <2>9
<1>2. QED  BY <1>1 DEF Reports

(* What the new event adds to the reports.                                 *)
LEMMA LatestStep ==
    ASSUME Grown, LatestInv
    PROVE  LatestInv'
<1> SUFFICES ASSUME NEW i \in 1 .. Last + 1, NEW k \in 1 .. Last + 1, NEW c \in Counts,
                    Reported(i, k, c)' # {}
             PROVE  \E j \in Reported(i, k, c)' : \A l \in Reported(i, k, c)' : l <= j
  BY DEF LatestInv, Grown
<1>1. Reported(i, k, c)' = {j \in i .. k : heard'[j].counts[c] # Unreported}  BY DEF Reported
<1>2. Last \in Nat /\ \A j \in 1 .. Last : heard'[j] = heard[j]  BY DEF Grown
<1>3. CASE k \in 1 .. Last
  <2>1. \A j \in i .. k : j \in 1 .. Last  BY <1>2, <1>3
  <2>2. Reported(i, k, c)' = Reported(i, k, c)  BY <1>1, <1>2, <2>1 DEF Reported
  <2>3. i \in 1 .. Last  BY <1>1, <1>2, <1>3
  <2>4. QED  BY <1>3, <2>2, <2>3 DEF LatestInv
<1>4. CASE k = Last + 1 /\ Last + 1 \in Reported(i, k, c)'
  <2>1. \A l \in Reported(i, k, c)' : l <= Last + 1  BY <1>1, <1>2, <1>4
  <2>2. QED  BY <1>4, <2>1
<1>5. CASE k = Last + 1 /\ Last + 1 \notin Reported(i, k, c)'
  <2>1. i \in 1 .. Last  BY <1>1, <1>2, <1>5
  <2>2. \A j \in i .. Last : j \in 1 .. Last /\ j \in i .. k  BY <1>2, <1>5
  <2>3. \A j \in i .. k : j # Last + 1 => j \in i .. Last  BY <1>2, <1>5
  <2>4. Reported(i, k, c)' = Reported(i, Last, c)  BY <1>1, <1>2, <1>5, <2>2, <2>3 DEF Reported
  <2>5. Last \in 1 .. Last  BY <1>2, <2>1
  <2>6. QED  BY <2>1, <2>4, <2>5 DEF LatestInv
<1>6. k \in 1 .. Last \/ k = Last + 1  BY <1>2
<1>7. QED  BY <1>3, <1>4, <1>5, <1>6

(* The latest report, when the last event of a span reports.               *)
LEMMA LastIsLatest ==
    ASSUME NEW S, NEW m \in S, S \subseteq Nat, \A l \in S : l <= m
    PROVE  (CHOOSE j \in S : \A l \in S : l <= j) = m
<1> DEFINE latest == CHOOSE j \in S : \A l \in S : l <= j
<1>1. latest \in S /\ \A l \in S : l <= latest  OBVIOUS
<1> HIDE DEF latest
<1>2. latest <= m /\ m <= latest /\ latest \in Nat /\ m \in Nat  BY <1>1
<1>3. latest = m  BY <1>2
<1>4. QED  BY <1>3 DEF latest

LEMMA ReportsGrow ==
    ASSUME Grown, LatestInv, NEW i \in 1 .. Last, NEW k, k = Last + 1
    PROVE  Reports(i, k)' = Apply(Reports(i, Last), heard'[k].counts)
<1>1. Last \in Nat /\ Last' = Last + 1 /\ \A j \in 1 .. Last : heard'[j] = heard[j]  BY DEF Grown
<1> DEFINE update == heard'[k].counts
<1>2. ASSUME NEW c \in Counts
      PROVE  LastReport(i, k, c)' = IF update[c] = Unreported THEN LastReport(i, Last, c) ELSE update[c]
  <2> DEFINE now  == Reported(i, Last, c)
             then == {j \in i .. k : heard'[j].counts[c] # Unreported}
             latest(S) == CHOOSE j \in S : \A l \in S : l <= j
  <2>1. LastReport(i, Last, c) = IF now = {} THEN Unreported ELSE heard[latest(now)].counts[c]
    BY DEF LastReport, Reported
  <2>2. LastReport(i, k, c)' = IF then = {} THEN Unreported ELSE heard'[latest(then)].counts[c]
    BY DEF LastReport
  <2>3. CASE update[c] = Unreported
    <3>1. \A j \in i .. Last : j \in 1 .. Last /\ j \in i .. k  BY <1>1
    <3>2. \A j \in i .. k : j # k => j \in i .. Last  BY <1>1
    <3>3. then = now  BY <1>1, <2>3, <3>1, <3>2 DEF Reported
    <3>4. now # {} => latest(now) \in now
      <4>1. Last \in 1 .. Last  BY <1>1
      <4>2. now # {} => \E j \in now : \A l \in now : l <= j  BY <4>1 DEF LatestInv
      <4> HIDE DEF now
      <4>3. QED  BY <4>2
    <3>5. now \subseteq 1 .. Last  BY <3>1 DEF Reported
    <3> HIDE DEF now, latest, then
    <3>6. now # {} => heard'[latest(now)] = heard[latest(now)]  BY <1>1, <3>4, <3>5
    <3>7. QED  BY <2>1, <2>2, <2>3, <3>3, <3>6
  <2>4. CASE update[c] # Unreported
    <3>1. k \in then /\ then \subseteq Nat /\ \A l \in then : l <= k  BY <1>1, <2>4
    <3> HIDE DEF then
    <3>2. latest(then) = k  BY <3>1, LastIsLatest
    <3> HIDE DEF latest
    <3>3. QED  BY <2>2, <2>4, <3>1, <3>2
  <2>5. QED  BY <2>3, <2>4
<1>3. \A c \in Counts : Reports(i, Last)[c] = LastReport(i, Last, c)  BY DEF Reports
<1>4. Reports(i, k)' = [c \in Counts |-> LastReport(i, k, c)']  BY DEF Reports
<1>5. QED  BY <1>2, <1>3, <1>4 DEF Apply

LEMMA ReportsStart ==
    ASSUME NEW k \in Nat
    PROVE  Reports(k, k)' = Apply(NoCounts, heard'[k].counts)
<1>1. ASSUME NEW c \in Counts
      PROVE  LastReport(k, k, c)' = IF heard'[k].counts[c] = Unreported THEN NoCounts[c] ELSE heard'[k].counts[c]
  <2> DEFINE own == {j \in k .. k : heard'[j].counts[c] # Unreported}
             latest(S) == CHOOSE j \in S : \A l \in S : l <= j
  <2>1. LastReport(k, k, c)' = IF own = {} THEN Unreported ELSE heard'[latest(own)].counts[c]
    BY DEF LastReport
  <2>2. CASE heard'[k].counts[c] = Unreported
    <3>1. own = {}  BY <2>2
    <3>2. QED  BY <2>1, <2>2, <3>1 DEF NoCounts
  <2>3. CASE heard'[k].counts[c] # Unreported
    <3>1. k \in own /\ own \subseteq Nat /\ \A l \in own : l <= k  BY <2>3
    <3> HIDE DEF own
    <3>2. latest(own) = k  BY <3>1, LastIsLatest
    <3> HIDE DEF latest
    <3>3. QED  BY <2>1, <2>3, <3>1, <3>2
  <2>4. QED  BY <2>2, <2>3
<1>2. QED  BY <1>1 DEF Reports, Apply

(* A stream is spoilt by its last event or was so before.                  *)
LEMMA TrustedStep ==
    ASSUME Grown, NEW k, k = Last + 1
    PROVE  /\ Trusted(k)' <=> Trusted(Last) /\ ~Spoils(k)'
           /\ Spoils(k)' <=> \/ heard'[k].type \in {"error", "unreadable"}
                             \/ heard'[k].type = "message_start" /\ \E i \in 1 .. Last : OpenAt(i, k)
           /\ Trusted(Last)' <=> Trusted(k)'
<1>1. Last \in Nat /\ Last' = k /\ k \in Nat  BY DEF Grown
<1>2. \A j \in 1 .. Last : Spoils(j)' <=> Spoils(j)  BY OpenStays
<1>3. Trusted(k)' <=> Trusted(Last) /\ ~Spoils(k)'
  <2>1. \A j : j \in 1 .. k <=> j \in 1 .. Last \/ j = k  BY <1>1
  <2>2. Trusted(k)' <=> \A j \in 1 .. k : ~Spoils(j)'  BY DEF Trusted
  <2>3. QED  BY <1>2, <2>1, <2>2 DEF Trusted
<1>4. Spoils(k)' <=> \/ heard'[k].type \in {"error", "unreadable"}
                     \/ heard'[k].type = "message_start" /\ \E i \in 1 .. Last : OpenAt(i, k)
  <2>1. k \in 1 .. Last + 1 /\ k - 1 = Last  BY <1>1
  <2>2. \A i \in 1 .. Last : OpenAt(i, k)' <=> OpenAt(i, k)  BY <2>1, OpenStays
  <2>3. Spoils(k)' <=> \/ heard'[k].type \in {"error", "unreadable"}
                       \/ heard'[k].type = "message_start" /\ \E i \in 1 .. k - 1 : OpenAt(i, k)'
    BY DEF Spoils, IsAt
  <2>4. QED  BY <2>1, <2>2, <2>3
<1>5. Trusted(Last)' <=> Trusted(k)'  BY <1>1 DEF Trusted
<1>6. QED  BY <1>3, <1>4, <1>5

(* A message stays open until a stop, and a start opens one.               *)
LEMMA OpenStep ==
    ASSUME Grown, NEW k, k = Last + 1
    PROVE  /\ \A i \in 1 .. Last : OpenAt(i, k + 1)' <=> OpenAt(i, k) /\ heard'[k].type # "message_stop"
           /\ OpenAt(k, k + 1)' <=> heard'[k].type = "message_start"
<1>1. Last \in Nat /\ k \in Nat  BY DEF Grown
<1>2. ASSUME NEW i \in 1 .. Last
      PROVE  OpenAt(i, k + 1)' <=> OpenAt(i, k) /\ heard'[k].type # "message_stop"
  <2>1. OpenAt(i, k)' <=> OpenAt(i, k)  BY <1>1, OpenStays
  <2>2. \A j : j \in i + 1 .. k + 1 - 1 <=> j \in i + 1 .. k - 1 \/ j = k  BY <1>1
  <2>3. OpenAt(i, k + 1)' <=> heard'[i].type = "message_start"
                              /\ \A j \in i + 1 .. k + 1 - 1 : heard'[j].type # "message_stop"
    BY DEF OpenAt, IsAt
  <2>4. OpenAt(i, k)' <=> heard'[i].type = "message_start"
                          /\ \A j \in i + 1 .. k - 1 : heard'[j].type # "message_stop"
    BY DEF OpenAt, IsAt
  <2>5. QED  BY <2>1, <2>2, <2>3, <2>4
<1>3. OpenAt(k, k + 1)' <=> heard'[k].type = "message_start"
  <2>1. k + 1 .. k + 1 - 1 = {}  BY <1>1
  <2>2. QED  BY <2>1 DEF OpenAt, IsAt
<1>4. QED  BY <1>2, <1>3

(* In a trusted stream one message is open at most.                        *)
LEMMA OneIsOpen ==
    ASSUME NEW n \in Nat, Trusted(n), NEW i \in 1 .. n, NEW j \in 1 .. n,
           OpenAt(i, n + 1), OpenAt(j, n + 1)
    PROVE  i = j
<1>1. ASSUME NEW a \in 1 .. n, NEW b \in 1 .. n, OpenAt(a, n + 1), OpenAt(b, n + 1), a < b
      PROVE  FALSE
  <2>1. \A l \in a + 1 .. b - 1 : l \in a + 1 .. n + 1 - 1  BY <1>1
  <2>2. OpenAt(a, b)  BY <1>1, <2>1 DEF OpenAt
  <2>3. a \in 1 .. b - 1  BY <1>1
  <2>4. IsAt(b, "message_start")  BY <1>1 DEF OpenAt
  <2>5. Spoils(b)  BY <2>2, <2>3, <2>4 DEF Spoils
  <2>6. QED  BY <1>1, <2>5 DEF Trusted
<1>2. i < j \/ j < i \/ i = j  OBVIOUS
<1>3. QED  BY <1>1, <1>2

(* What a span is worth, it stays worth.                                   *)
LEMMA WorthStays ==
    ASSUME Grown, LatestInv, NEW i \in 1 .. Last, NEW j \in 1 .. Last
    PROVE  Worth(i, j)' <=> Worth(i, j)
<1>1. Last \in Nat /\ heard'[j] = heard[j] /\ j \in 1 .. Last + 1  BY DEF Grown
<1>2. OpenAt(i, j)' <=> OpenAt(i, j)  BY <1>1, OpenStays
<1>3. \A l \in 1 .. j : l \in 1 .. Last  BY <1>1
<1>4. \A l \in 1 .. j : Spoils(l)' <=> Spoils(l)  BY <1>3, OpenStays
<1>5. Reports(i, j)' = Reports(i, j)  BY ReportsStay
<1>6. Complete(Reports(i, j))' <=> Complete(Reports(i, j))  BY <1>5 DEF Complete
<1>7. IsAt(j, "message_stop")' <=> IsAt(j, "message_stop")  BY <1>1 DEF IsAt
<1>8. QED  BY <1>2, <1>4, <1>6, <1>7 DEF Worth

(* The Turns a stream is worth.                                            *)
Told == {[message |-> s[1], counts |-> Reports(s[1], s[2])] : s \in Spans}

LEMMA SpansLieWithin ==
    ASSUME heard \in Seq(Heard)
    PROVE  Last \in Nat /\ Spans \subseteq (1 .. Last) \X (1 .. Last)
  BY DEF Spans, Last

(* A stream that grows keeps its spans, and a new one ends at its last     *)
(* event.                                                                  *)
LEMMA SpansGrow ==
    ASSUME heard \in Seq(Heard), Grown, LatestInv, surface = "anthropic", surface' = surface,
           NEW k, k = Last + 1
    PROVE  \A s : s \in Spans' <=> \/ s \in Spans
                                   \/ \E i \in 1 .. Last : s = <<i, k>> /\ Worth(i, k)'
<1>1. Last \in Nat /\ Len(heard)' = k /\ k \in Nat  BY DEF Grown, Last
<1>2. Spans = {s \in (1 .. Last) \X (1 .. Last) : s[1] < s[2] /\ Worth(s[1], s[2])}  BY DEF Spans, Last
<1>3. Spans' = {s \in (1 .. k) \X (1 .. k) : s[1] < s[2] /\ Worth(s[1], s[2])'}  BY <1>1 DEF Spans
<1>4. ASSUME NEW s, s \in Spans'
      PROVE  s \in Spans \/ \E i \in 1 .. Last : s = <<i, k>> /\ Worth(i, k)'
  <2>1. PICK i \in 1 .. k, j \in 1 .. k : s = <<i, j>> /\ i < j /\ Worth(i, j)'  BY <1>3, <1>4
  <2>2. i \in 1 .. Last /\ (j \in 1 .. Last \/ j = k)  BY <1>1, <2>1
  <2>3. CASE j \in 1 .. Last
    <3>1. Worth(i, j)  BY <2>1, <2>2, <2>3, WorthStays
    <3>2. QED  BY <1>2, <2>1, <2>2, <2>3, <3>1
  <2>4. CASE j = k
    BY <2>1, <2>2, <2>4
  <2>5. QED  BY <2>2, <2>3, <2>4
<1>5. ASSUME NEW s, s \in Spans PROVE s \in Spans'
  <2>1. PICK i \in 1 .. Last, j \in 1 .. Last : s = <<i, j>> /\ i < j /\ Worth(i, j)  BY <1>2, <1>5
  <2>2. Worth(i, j)'  BY <2>1, WorthStays
  <2>3. i \in 1 .. k /\ j \in 1 .. k  BY <1>1
  <2>4. QED  BY <1>3, <2>1, <2>2, <2>3
<1>6. ASSUME NEW i \in 1 .. Last, Worth(i, k)' PROVE <<i, k>> \in Spans'
  <2>1. i \in 1 .. k /\ k \in 1 .. k /\ i < k  BY <1>1
  <2>2. QED  BY <1>3, <1>6, <2>1
<1>7. QED  BY <1>4, <1>5, <1>6

LEMMA ToldStays ==
    ASSUME heard \in Seq(Heard), Grown, LatestInv, Spans' = Spans
    PROVE  Told' = Told
<1>1. Spans \subseteq (1 .. Last) \X (1 .. Last)  BY SpansLieWithin
<1>2. \A s \in Spans : s[1] \in 1 .. Last /\ s[2] \in 1 .. Last  BY <1>1
<1>3. \A i, j \in 1 .. Last : Reports(i, j)' = Reports(i, j)  BY ReportsStay
<1>4. \A s \in Spans : Reports(s[1], s[2])' = Reports(s[1], s[2])  BY <1>2, <1>3
<1>5. Told' = {[message |-> s[1], counts |-> Reports(s[1], s[2])'] : s \in Spans}  BY DEF Told
<1>6. QED  BY <1>4, <1>5 DEF Told

LEMMA ToldGrows ==
    ASSUME heard \in Seq(Heard), Grown, LatestInv, NEW i, NEW k, Spans' = Spans \cup {<<i, k>>}
    PROVE  Told' = Told \cup {[message |-> i, counts |-> Reports(i, k)']}
<1>1. Spans \subseteq (1 .. Last) \X (1 .. Last)  BY SpansLieWithin
<1>2. \A s \in Spans : s[1] \in 1 .. Last /\ s[2] \in 1 .. Last  BY <1>1
<1>3. \A a, b \in 1 .. Last : Reports(a, b)' = Reports(a, b)  BY ReportsStay
<1>4. \A s \in Spans : Reports(s[1], s[2])' = Reports(s[1], s[2])  BY <1>2, <1>3
<1> DEFINE told(s) == [message |-> s[1], counts |-> Reports(s[1], s[2])']
<1>5. Told' = {told(s) : s \in Spans \cup {<<i, k>>}}  BY DEF Told
<1>6. Told = {told(s) : s \in Spans}  BY <1>4 DEF Told
<1>7. told(<<i, k>>) = [message |-> i, counts |-> Reports(i, k)']  OBVIOUS
<1> HIDE DEF told
<1>8. QED  BY <1>5, <1>6, <1>7

(* The sink's Turns keep matching: nothing is told and nothing submitted,  *)
(* or the same Turn is told and submitted.                                 *)
LEMMA MatchStays ==
    ASSUME TurnsMatchStream, Told' = Told, turns' = turns
    PROVE  TurnsMatchStream'
<1>1. TurnsMatchStream <=> /\ {turns[n] : n \in 1 .. Len(turns)} = Told
                           /\ \A m, n \in 1 .. Len(turns) : m < n => turns[m].message < turns[n].message
  BY DEF TurnsMatchStream, Told
<1>2. TurnsMatchStream' <=> /\ {turns'[n] : n \in 1 .. Len(turns')} = Told'
                            /\ \A m, n \in 1 .. Len(turns') : m < n => turns'[m].message < turns'[n].message
  BY DEF TurnsMatchStream, Told
<1>3. QED  BY <1>1, <1>2

LEMMA MatchGrows ==
    ASSUME TurnsMatchStream, NEW R, turns \in Seq(R), NEW t \in R,
           Told' = Told \cup {t}, turns' = Append(turns, t),
           \A n \in 1 .. Len(turns) : turns[n].message < t.message
    PROVE  TurnsMatchStream'
<1>1. TurnsMatchStream <=> /\ {turns[n] : n \in 1 .. Len(turns)} = Told
                           /\ \A m, n \in 1 .. Len(turns) : m < n => turns[m].message < turns[n].message
  BY DEF TurnsMatchStream, Told
<1>2. TurnsMatchStream' <=> /\ {turns'[n] : n \in 1 .. Len(turns')} = Told'
                            /\ \A m, n \in 1 .. Len(turns') : m < n => turns'[m].message < turns'[n].message
  BY DEF TurnsMatchStream, Told
<1> DEFINE given == Len(turns)
<1>3. given \in Nat /\ Len(turns') = given + 1 /\ turns'[given + 1] = t
      /\ \A n \in 1 .. given : turns'[n] = turns[n]
  OBVIOUS
<1>4. \A m, n \in 1 .. given : m < n => turns[m].message < turns[n].message  BY <1>1
<1>5. {turns[n] : n \in 1 .. given} = Told  BY <1>1
<1>6. \A n \in 1 .. given : turns[n].message < t.message  OBVIOUS
<1> HIDE DEF given
<1>7. \A n : n \in 1 .. given + 1 <=> n \in 1 .. given \/ n = given + 1  BY <1>3
<1>8. {turns'[n] : n \in 1 .. given + 1} = {turns[n] : n \in 1 .. given} \cup {t}  BY <1>3, <1>7
<1>9. \A m, n \in 1 .. given + 1 : m < n => turns'[m].message < turns'[n].message
  <2>1. \A m, n \in 1 .. given + 1 : m < n => m \in 1 .. given  BY <1>3
  <2>2. QED  BY <1>3, <1>4, <1>6, <1>7, <2>1
<1>10. QED  BY <1>2, <1>3, <1>5, <1>8, <1>9

(* What an event of a Messages stream is.                                  *)
LEMMA EventTypes ==
    ASSUME NEW e \in AnthropicEvents
    PROVE  /\ e \in Heard /\ e.counts \in Updates
           /\ e.type \in {"message_start", "message_delta", "message_stop", "error", "unreadable"}
           /\ e.type = "message_stop" => e.counts = NoCounts
<1>1. NoCounts \in Updates  BY DEF NoCounts, Updates
<1>2. QED  BY <1>1 DEF AnthropicEvents, Heard

LEMMA NothingAdded ==
    ASSUME NEW cs \in Updates
    PROVE  Apply(cs, NoCounts) = cs
  BY DEF Apply, NoCounts, Updates

(* Each event leaves the accumulator as the stream says.                   *)
LEMMA AccumulatorStep ==
    ASSUME heard \in Seq(Heard), active \in BOOLEAN, poisoned \in BOOLEAN, LatestInv, AccumulatorInv,
           surface = "anthropic", NEW e \in AnthropicEvents, heard' = Append(heard, e), observeEvent(e),
           NEW k, k = Last + 1
    PROVE  AccumulatorInv'
<1>1. Grown /\ heard'[k] = e  BY EventTypes, AppendGrows
<1>2. Last \in Nat /\ Last' = k /\ k \in Nat  BY <1>1 DEF Grown
<1>3. /\ Trusted(k)' <=> Trusted(Last) /\ ~Spoils(k)'
      /\ Spoils(k)' <=> (\/ e.type \in {"error", "unreadable"}
                         \/ e.type = "message_start" /\ \E i \in 1 .. Last : OpenAt(i, k))
      /\ Trusted(Last)' <=> Trusted(k)'
  BY <1>1, TrustedStep
<1>4. /\ \A i \in 1 .. Last : OpenAt(i, k + 1)' <=> OpenAt(i, k) /\ e.type # "message_stop"
      /\ OpenAt(k, k + 1)' <=> e.type = "message_start"
  BY <1>1, OpenStep
<1>5. /\ poisoned <=> ~Trusted(Last)
      /\ ~poisoned /\ active =>
            started \in 1 .. Last /\ OpenAt(started, k) /\ counts = Reports(started, Last)
      /\ ~poisoned /\ ~active => \A i \in 1 .. Last : ~OpenAt(i, k)
  BY DEF AccumulatorInv
<1>6. \A i : i \in 1 .. k <=> i \in 1 .. Last \/ i = k  BY <1>2
<1>7. SUFFICES /\ poisoned' <=> ~Trusted(k)'
               /\ ~poisoned' /\ active' =>
                     started' \in 1 .. k /\ OpenAt(started, k + 1)' /\ counts' = Reports(started, k)'
               /\ ~poisoned' /\ ~active' => \A i \in 1 .. k : ~OpenAt(i, k + 1)'
  BY <1>2, <1>3 DEF AccumulatorInv
<1>8. CASE poisoned
  BY <1>3, <1>5, <1>8 DEF observeEvent, Ignore, accumulatorVars
<1>9. CASE ~poisoned /\ e.type = "message_start" /\ active
  <2>1. poisoned' = TRUE  BY <1>9 DEF observeEvent, observeStart, Poison
  <2>2. QED  BY <1>3, <1>5, <1>9, <2>1
<1>10. CASE ~poisoned /\ e.type = "message_start" /\ ~active
  <2>1. poisoned' = poisoned /\ active' = TRUE /\ started' = k /\ counts' = Apply(NoCounts, e.counts)
    BY <1>10 DEF observeEvent, observeStart, Position, Last
  <2>2. Reports(k, k)' = Apply(NoCounts, e.counts)
    <3>1. Reports(k, k)' = Apply(NoCounts, heard'[k].counts)  BY <1>2, ReportsStart
    <3>2. QED  BY <1>1, <3>1
  <2>3. Reports(started, k)' = Reports(k, k)' /\ (OpenAt(started, k + 1)' <=> OpenAt(k, k + 1)')
    BY <2>1 DEF Reports, LastReport, OpenAt, IsAt
  <2>4. QED  BY <1>2, <1>3, <1>4, <1>5, <1>6, <1>10, <2>1, <2>2, <2>3
<1>11. CASE ~poisoned /\ e.type = "message_delta"
  <2>1. poisoned' = poisoned /\ active' = active /\ started' = started
        /\ (active => counts' = Apply(counts, e.counts))
    BY <1>11 DEF observeEvent, observeDelta
  <2>2. CASE active
    <3>1. PICK s \in 1 .. Last : s = started /\ OpenAt(s, k) /\ counts = Reports(s, Last)  BY <1>5, <1>11, <2>2
    <3>2. Reports(s, k)' = Apply(counts, e.counts)
      <4>1. Reports(s, k)' = Apply(Reports(s, Last), heard'[k].counts)  BY <1>1, ReportsGrow
      <4>2. QED  BY <1>1, <3>1, <4>1
    <3>3. Reports(started, k)' = Reports(s, k)' /\ (OpenAt(started, k + 1)' <=> OpenAt(s, k + 1)')
      BY <2>1, <3>1 DEF Reports, LastReport, OpenAt, IsAt
    <3>4. OpenAt(s, k + 1)'  BY <1>4, <1>11, <3>1
    <3>5. started' \in 1 .. k  BY <1>6, <2>1, <3>1
    <3>6. counts' = Reports(started, k)'  BY <2>1, <2>2, <3>2, <3>3
    <3>7. poisoned' <=> ~Trusted(k)'  BY <1>3, <1>5, <1>11, <2>1
    <3>8. QED  BY <2>1, <2>2, <3>3, <3>4, <3>5, <3>6, <3>7
  <2>3. CASE ~active
    BY <1>3, <1>4, <1>5, <1>6, <1>11, <2>1, <2>3
  <2>4. QED  BY <2>2, <2>3
<1>12. CASE ~poisoned /\ e.type = "message_stop"
  <2>1. poisoned' = poisoned /\ active' = FALSE  BY <1>12 DEF observeEvent, observeStop
  <2>2. QED  BY <1>3, <1>4, <1>5, <1>6, <1>12, <2>1
<1>13. CASE ~poisoned /\ e.type \in {"error", "unreadable"}
  <2>1. poisoned' = TRUE  BY <1>13 DEF observeEvent, Poison
  <2>2. QED  BY <1>3, <1>13, <2>1
<1>14. QED  BY <1>8, <1>9, <1>10, <1>11, <1>12, <1>13, EventTypes

(* An event of a Messages stream completes one message, or tells nothing.  *)
LEMMA ToldStep ==
    ASSUME heard \in Seq(Heard), active \in BOOLEAN, poisoned \in BOOLEAN, counts \in Updates,
           LatestInv, AccumulatorInv,
           surface = "anthropic", surface' = surface, NEW e \in AnthropicEvents,
           heard' = Append(heard, e), observeEvent(e), NEW k, k = Last + 1
    PROVE  \/ Told' = Told /\ turns' = turns
           \/ /\ ~poisoned /\ active /\ active' = FALSE
              /\ Told' = Told \cup {[message |-> started, counts |-> counts]}
              /\ turns' = Append(turns, [message |-> started, counts |-> counts])
<1>1. Grown /\ heard'[k] = e  BY EventTypes, AppendGrows
<1>2. Last \in Nat /\ Last' = k /\ k \in Nat  BY <1>1 DEF Grown
<1>3. /\ Trusted(k)' <=> Trusted(Last) /\ ~Spoils(k)'
      /\ Spoils(k)' <=> (\/ e.type \in {"error", "unreadable"}
                         \/ e.type = "message_start" /\ \E i \in 1 .. Last : OpenAt(i, k))
  BY <1>1, TrustedStep
<1>4. \A i \in 1 .. Last : OpenAt(i, k)' <=> OpenAt(i, k)
  <2>1. k \in 1 .. Last + 1  BY <1>2
  <2>2. QED  BY <1>1, <2>1, OpenStays
<1>5. /\ poisoned <=> ~Trusted(Last)
      /\ ~poisoned /\ active =>
            started \in 1 .. Last /\ OpenAt(started, k) /\ counts = Reports(started, Last)
      /\ ~poisoned /\ ~active => \A i \in 1 .. Last : ~OpenAt(i, k)
  BY DEF AccumulatorInv
<1>6. \A i \in 1 .. Last : Worth(i, k)' <=> /\ e.type = "message_stop" /\ OpenAt(i, k) /\ Trusted(k)'
                                            /\ Complete(Reports(i, k))'
  BY <1>1, <1>4 DEF Worth, IsAt, Trusted
<1>7. \A s : s \in Spans' <=> \/ s \in Spans
                              \/ \E i \in 1 .. Last : s = <<i, k>> /\ Worth(i, k)'
  BY <1>1, SpansGrow
<1>8. ASSUME \A i \in 1 .. Last : ~Worth(i, k)'
      PROVE  Told' = Told
  <2>1. Spans' = Spans  BY <1>7, <1>8
  <2>2. QED  BY <1>1, <2>1, ToldStays
<1>9. CASE poisoned
  <2>1. turns' = turns  BY <1>9 DEF observeEvent, Ignore
  <2>2. QED  BY <1>3, <1>5, <1>6, <1>8, <1>9, <2>1
<1>10. CASE ~poisoned /\ e.type # "message_stop"
  <2>1. turns' = turns
    BY <1>10, EventTypes DEF observeEvent, observeStart, observeDelta, Poison
  <2>2. QED  BY <1>6, <1>8, <1>10, <2>1
<1>11. CASE ~poisoned /\ e.type = "message_stop" /\ ~active
  <2>1. turns' = turns  BY <1>11 DEF observeEvent, observeStop
  <2>2. QED  BY <1>5, <1>6, <1>8, <1>11, <2>1
<1>12. CASE ~poisoned /\ e.type = "message_stop" /\ active
  <2>1. PICK s \in 1 .. Last : s = started /\ OpenAt(s, k) /\ counts = Reports(s, Last)  BY <1>5, <1>12
  <2>2. Reports(s, k)' = counts
    <3>1. Reports(s, k)' = Apply(Reports(s, Last), heard'[k].counts)  BY <1>1, ReportsGrow
    <3>2. heard'[k].counts = NoCounts  BY <1>1, <1>12, EventTypes
    <3>3. QED  BY <2>1, <3>1, <3>2, NothingAdded
  <2>3. Trusted(k)'  BY <1>3, <1>5, <1>12
  <2>4. \A i \in 1 .. Last : OpenAt(i, k) => i = s  BY <1>2, <1>5, <1>12, <2>1, OneIsOpen
  <2>5. Complete(Reports(s, k))' <=> Complete(counts)  BY <2>2 DEF Complete
  <2>6. CASE Complete(counts)
    <3>1. turns' = Append(turns, [message |-> s, counts |-> counts]) /\ active' = FALSE
      BY <1>12, <2>1, <2>6 DEF observeEvent, observeStop, Submit
    <3>2. Worth(s, k)'  BY <1>6, <1>12, <2>1, <2>3, <2>5, <2>6
    <3>3. \A i \in 1 .. Last : Worth(i, k)' => i = s  BY <1>6, <2>4
    <3>4. Spans' = Spans \cup {<<s, k>>}  BY <1>7, <3>2, <3>3
    <3>5. Told' = Told \cup {[message |-> s, counts |-> Reports(s, k)']}  BY <1>1, <3>4, ToldGrows
    <3>6. QED  BY <1>12, <2>1, <2>2, <3>1, <3>5
  <2>7. CASE ~Complete(counts)
    <3>1. turns' = turns  BY <1>12, <2>7 DEF observeEvent, observeStop
    <3>2. \A i \in 1 .. Last : ~Worth(i, k)'  BY <1>6, <2>4, <2>5, <2>7
    <3>3. QED  BY <1>8, <3>1, <3>2
  <2>8. QED  BY <2>6, <2>7
<1>13. QED  BY <1>9, <1>10, <1>11, <1>12

(* An event of a Responses stream is told by itself.                       *)
LEMMA ResponseStep ==
    ASSUME heard \in Seq(Heard), LatestInv, surface = "openai", surface' = surface,
           NEW e \in OpenAIEvents, heard' = Append(heard, e), NEW k, k = Last + 1
    PROVE  IF e.type = "response.completed" /\ Complete(e.counts)
           THEN Told' = Told \cup {[message |-> k, counts |-> e.counts]}
           ELSE Told' = Told
<1> DEFINE whole(j) == heard[j].type = "response.completed" /\ Complete(heard[j].counts)
           wholeNow(j) == heard'[j].type = "response.completed" /\ Complete(heard'[j].counts)
<1>1. Grown /\ heard'[k] = e  BY AppendGrows DEF Heard
<1>2. Last \in Nat /\ Len(heard)' = k /\ k \in Nat /\ \A j \in 1 .. Last : heard'[j] = heard[j]
  BY <1>1 DEF Grown, Last
<1>3. e.counts \in Updates  BY DEF OpenAIEvents, NoCounts, Updates
<1>4. Spans = {<<i, i>> : i \in {j \in 1 .. Last : whole(j)}}  BY DEF Spans, IsAt, Last
<1>5. Spans' = {<<i, i>> : i \in {j \in 1 .. k : wholeNow(j)}}
  <2>1. \A j : Complete(heard[j].counts)' <=> Complete(heard'[j].counts)  BY DEF Complete
  <2>2. QED  BY <1>2, <2>1 DEF Spans, IsAt
<1>6. \A j \in 1 .. Last : wholeNow(j) <=> whole(j)  BY <1>2
<1>7. wholeNow(k) <=> e.type = "response.completed" /\ Complete(e.counts)  BY <1>1
<1> HIDE DEF whole, wholeNow
<1>8. \A j : j \in 1 .. k <=> j \in 1 .. Last \/ j = k  BY <1>2
<1>9. CASE wholeNow(k)
  <2>1. {j \in 1 .. k : wholeNow(j)} = {j \in 1 .. Last : whole(j)} \cup {k}  BY <1>6, <1>8, <1>9
  <2>2. Spans' = Spans \cup {<<k, k>>}  BY <1>4, <1>5, <2>1
  <2>3. Told' = Told \cup {[message |-> k, counts |-> Reports(k, k)']}  BY <1>1, <2>2, ToldGrows
  <2>4. Reports(k, k)' = e.counts
    <3>1. Reports(k, k)' = Apply(NoCounts, heard'[k].counts)  BY <1>2, ReportsStart
    <3>2. \A c \in Counts : (IF e.counts[c] = Unreported THEN NoCounts[c] ELSE e.counts[c]) = e.counts[c]
      BY DEF NoCounts
    <3>3. Apply(NoCounts, e.counts) = e.counts  BY <1>3, <3>2 DEF Apply, Updates
    <3>4. QED  BY <1>1, <3>1, <3>3
  <2>5. QED  BY <1>7, <1>9, <2>3, <2>4
<1>10. CASE ~wholeNow(k)
  <2>1. {j \in 1 .. k : wholeNow(j)} = {j \in 1 .. Last : whole(j)}  BY <1>6, <1>8, <1>10
  <2>2. Spans' = Spans  BY <1>4, <1>5, <2>1
  <2>3. QED  BY <1>1, <1>7, <1>10, <2>2, ToldStays
<1>11. QED  BY <1>9, <1>10

LEMMA AppliedIsAnUpdate ==
    ASSUME NEW cs \in Updates, NEW update \in Updates
    PROVE  Apply(cs, update) \in Updates /\ NoCounts \in Updates
  BY DEF Apply, Updates, NoCounts

(* The meters' state keeps its type.                                       *)
LEMMA MeterTypeStep ==
    ASSUME MeterTypeOK, [Next]_vars
    PROVE  MeterTypeOK'
<1> DEFINE Turn == [message : Nat, counts : Updates]
<1>0. /\ heard \in Seq(Heard) /\ surface \in {"anthropic", "openai"}
      /\ active \in BOOLEAN /\ poisoned \in BOOLEAN
      /\ started \in Nat /\ counts \in Updates /\ turns \in Seq(Turn)
  BY DEF MeterTypeOK
<1>1. CASE Messages
  <2>1. PICK e \in AnthropicEvents : heard' = Append(heard, e) /\ observeEvent(e)  BY <1>1 DEF Messages
  <2>2. heard' \in Seq(Heard) /\ Position \in Nat /\ e.counts \in Updates
    BY <1>0, <2>1, EventTypes, AppendGrows DEF Position
  <2>3. /\ Apply(counts, e.counts) \in Updates /\ Apply(NoCounts, e.counts) \in Updates
        /\ NoCounts \in Updates
    BY <1>0, <2>2, AppliedIsAnUpdate
  <2>4. CASE e.type = "message_start"
    BY <1>0, <1>1, <2>1, <2>2, <2>3, <2>4
    DEF MeterTypeOK, Messages, observeEvent, observeStart, Poison, Ignore, accumulatorVars
  <2>5. CASE e.type = "message_delta"
    BY <1>0, <1>1, <2>1, <2>2, <2>3, <2>5
    DEF MeterTypeOK, Messages, observeEvent, observeDelta, Ignore, accumulatorVars
  <2>6. CASE e.type = "message_stop"
    <3>1. [message |-> started, counts |-> counts] \in Turn  BY <1>0
    <3> DEFINE newest == [message |-> started, counts |-> counts]
    <3>2. Append(turns, newest) \in Seq(Turn)  BY <1>0, <3>1
    <3>3. turns' = turns \/ turns' = Append(turns, newest)
      BY <2>1, <2>6 DEF observeEvent, observeStop, Submit, Ignore
    <3>4. /\ active' \in BOOLEAN /\ poisoned' \in BOOLEAN
          /\ started' \in Nat /\ counts' \in Updates /\ surface' = surface
      <4>1. surface' = surface  BY <1>1 DEF Messages
      <4>2. \/ UNCHANGED accumulatorVars
            \/ active' = FALSE /\ started' = 0 /\ counts' = NoCounts /\ poisoned' = poisoned
        BY <2>1, <2>6 DEF observeEvent, observeStop, Ignore
      <4>3. CASE UNCHANGED accumulatorVars  BY <1>0, <4>1, <4>3 DEF accumulatorVars
      <4>4. CASE active' = FALSE /\ started' = 0 /\ counts' = NoCounts /\ poisoned' = poisoned
        BY <1>0, <2>3, <4>1, <4>4
      <4>5. QED  BY <4>2, <4>3, <4>4
    <3> HIDE DEF newest
    <3>5. QED  BY <1>0, <2>2, <3>2, <3>3, <3>4 DEF MeterTypeOK
  <2>7. CASE e.type \in {"error", "unreadable"}
    BY <1>0, <1>1, <2>1, <2>2, <2>7
    DEF MeterTypeOK, Messages, observeEvent, Poison, Ignore, accumulatorVars
  <2>8. QED  BY <2>4, <2>5, <2>6, <2>7, EventTypes
<1>2. CASE Responses
  <2>1. PICK e \in OpenAIEvents :
              /\ heard' = Append(heard, e)
              /\ IF e.type = "response.completed" /\ Complete(e.counts)
                    THEN Submit(Position, e.counts) ELSE UNCHANGED turns
    BY <1>2 DEF Responses
  <2> DEFINE newest == [message |-> Position, counts |-> e.counts]
  <2>2. heard' \in Seq(Heard)  BY <1>0, <2>1, AppendGrows DEF Heard
  <2>3. e.counts \in Updates  BY DEF OpenAIEvents, NoCounts, Updates
  <2>4. newest \in Turn  BY <1>0, <2>3 DEF Position
  <2>5. Append(turns, newest) \in Seq(Turn)  BY <1>0, <2>4
  <2>6. turns' = turns \/ turns' = Append(turns, newest)  BY <2>1 DEF Submit
  <2> HIDE DEF newest
  <2>7. QED  BY <1>0, <1>2, <2>2, <2>5, <2>6 DEF MeterTypeOK, Responses, accumulatorVars
<1>3. CASE UNCHANGED vars
  BY <1>0, <1>3 DEF MeterTypeOK, vars, accumulatorVars
<1>4. QED  BY <1>1, <1>2, <1>3 DEF Next

LEMMA MessagesAreNumbers ==
    ASSUME turns \in Seq([message : Nat, counts : Updates])
    PROVE  \A n \in 1 .. Len(turns) : turns[n].message \in Nat
<1> DEFINE Turn == [message : Nat, counts : Updates]
<1>1. \A t \in Turn : t.message \in Nat  OBVIOUS
<1>2. turns \in Seq(Turn)  OBVIOUS
<1> HIDE DEF Turn
<1>3. QED  BY <1>1, <1>2

(* The inductive invariant of the meters.                                  *)
LEMMA MeterInit == Init => MeterInv
<1> SUFFICES ASSUME Init PROVE MeterInv
  OBVIOUS
<1>1. heard = <<>> /\ turns = <<>> /\ Len(heard) = 0 /\ Len(turns) = 0 /\ Last = 0  BY DEF Init, Last
<1>2. MeterTypeOK
  <2>1. NoCounts \in Updates  BY DEF NoCounts, Updates
  <2>2. heard \in Seq(Heard) /\ turns \in Seq([message : Nat, counts : Updates])  BY <1>1
  <2>3. QED  BY <2>1, <2>2 DEF Init, MeterTypeOK
<1>3. AccumulatorInv  BY <1>1 DEF Init, AccumulatorInv, Trusted
<1>4. OrderInv  BY <1>1 DEF OrderInv
<1>5. LatestInv  BY <1>1 DEF LatestInv
<1>6. Spans = {}  BY <1>1 DEF Spans
<1>7. TurnsMatchStream  BY <1>1, <1>6 DEF TurnsMatchStream
<1>8. QED  BY <1>2, <1>3, <1>4, <1>5, <1>7 DEF MeterInv

LEMMA MeterNext == MeterInv /\ [Next]_vars => MeterInv'
<1> SUFFICES ASSUME MeterInv, [Next]_vars PROVE MeterInv'
  OBVIOUS
<1> DEFINE Turn == [message : Nat, counts : Updates]
<1>0. /\ MeterTypeOK /\ AccumulatorInv /\ OrderInv /\ LatestInv /\ TurnsMatchStream
      /\ heard \in Seq(Heard) /\ surface \in {"anthropic", "openai"}
      /\ active \in BOOLEAN /\ poisoned \in BOOLEAN
      /\ started \in Nat /\ counts \in Updates /\ turns \in Seq(Turn)
  BY DEF MeterInv, MeterTypeOK
<1>1. MeterTypeOK'  BY <1>0, MeterTypeStep
<1>2. CASE Messages
  <2>1. PICK e \in AnthropicEvents : heard' = Append(heard, e) /\ observeEvent(e)  BY <1>2 DEF Messages
  <2>2. surface = "anthropic" /\ surface' = surface  BY <1>2 DEF Messages
  <2>3. e \in Heard  BY EventTypes
  <2>4. Grown  BY <1>0, <2>1, <2>3, AppendGrows
  <2>5. PICK k : k = Last + 1 /\ Last' = k /\ k \in Nat /\ Last \in Nat  BY <2>4 DEF Grown
  <2>6. LatestInv'  BY <1>0, <2>4, LatestStep
  <2>7. AccumulatorInv'  BY <1>0, <2>1, <2>2, <2>5, AccumulatorStep
  <2>8. \/ Told' = Told /\ turns' = turns
        \/ /\ ~poisoned /\ active /\ active' = FALSE
           /\ Told' = Told \cup {[message |-> started, counts |-> counts]}
           /\ turns' = Append(turns, [message |-> started, counts |-> counts])
    BY <1>0, <2>1, <2>2, <2>5, ToldStep
  <2>9. CASE Told' = Told /\ turns' = turns
    <3>1. TurnsMatchStream'  BY <1>0, <2>9, MatchStays
    <3>2. poisoned' \/ ~active' \/ started' = k \/ (~poisoned /\ active /\ started' = started)
      BY <2>1, <2>5, EventTypes
      DEF observeEvent, observeStart, observeDelta, observeStop, Poison, Ignore, Position, Last, accumulatorVars
    <3>3. \A n \in 1 .. Len(turns) : turns[n].message \in Nat  BY <1>0, MessagesAreNumbers
    <3>4. \A n \in 1 .. Len(turns) : turns[n].message <= Last  BY <1>0 DEF OrderInv
    <3>5. ~poisoned /\ active => \A n \in 1 .. Len(turns) : turns[n].message < started
      BY <1>0, <2>2 DEF OrderInv
    <3>6. \A n \in 1 .. Len(turns) : turns[n].message <= k /\ turns[n].message < k  BY <2>5, <3>3, <3>4
    <3>7. OrderInv'  BY <2>5, <2>9, <3>2, <3>5, <3>6 DEF OrderInv
    <3>8. QED  BY <1>1, <2>6, <2>7, <3>1, <3>7 DEF MeterInv
  <2>10. CASE /\ ~poisoned /\ active /\ active' = FALSE
              /\ Told' = Told \cup {[message |-> started, counts |-> counts]}
              /\ turns' = Append(turns, [message |-> started, counts |-> counts])
    <3> DEFINE newest == [message |-> started, counts |-> counts]
    <3>1. newest \in Turn /\ newest.message = started  BY <1>0
    <3>2. \A n \in 1 .. Len(turns) : turns[n].message < started  BY <1>0, <2>2, <2>10 DEF OrderInv
    <3>3. started \in 1 .. Last  BY <1>0, <2>2, <2>10 DEF AccumulatorInv
    <3> HIDE DEF newest
    <3>4. TurnsMatchStream'  BY <1>0, <2>10, <3>1, <3>2, MatchGrows DEF newest
    <3>5. \A n \in 1 .. Len(turns') : (n \in 1 .. Len(turns) /\ turns'[n] = turns[n]) \/ turns'[n] = newest
      BY <1>0, <2>10, <3>1 DEF newest
    <3>6. \A n \in 1 .. Len(turns) : turns[n].message \in Nat  BY <1>0, MessagesAreNumbers
    <3>7. \A n \in 1 .. Len(turns') : turns'[n].message <= k  BY <2>5, <3>1, <3>2, <3>3, <3>5, <3>6
    <3>8. OrderInv'  BY <2>5, <2>10, <3>7 DEF OrderInv
    <3>9. QED  BY <1>1, <2>6, <2>7, <3>4, <3>8 DEF MeterInv
  <2>11. QED  BY <2>8, <2>9, <2>10
<1>3. CASE Responses
  <2>1. PICK e \in OpenAIEvents :
              /\ heard' = Append(heard, e)
              /\ IF e.type = "response.completed" /\ Complete(e.counts)
                    THEN Submit(Position, e.counts) ELSE UNCHANGED turns
    BY <1>3 DEF Responses
  <2>2. surface = "openai" /\ surface' = surface  BY <1>3 DEF Responses
  <2>3. Grown  BY <1>0, <2>1, AppendGrows DEF Heard
  <2>4. PICK k : k = Last + 1 /\ Last' = k /\ k \in Nat /\ Last \in Nat /\ Position = k
    BY <2>3 DEF Grown, Position, Last
  <2>5. LatestInv'  BY <1>0, <2>3, LatestStep
  <2>6. AccumulatorInv'  BY <2>2 DEF AccumulatorInv
  <2>7. IF e.type = "response.completed" /\ Complete(e.counts)
        THEN Told' = Told \cup {[message |-> k, counts |-> e.counts]}
        ELSE Told' = Told
    BY <1>0, <2>1, <2>2, <2>4, ResponseStep
  <2>8. \A n \in 1 .. Len(turns) : turns[n].message \in Nat  BY <1>0, MessagesAreNumbers
  <2>9. \A n \in 1 .. Len(turns) : turns[n].message <= Last  BY <1>0 DEF OrderInv
  <2>10. \A n \in 1 .. Len(turns) : turns[n].message <= k /\ turns[n].message < k  BY <2>4, <2>8, <2>9
  <2>11. CASE e.type = "response.completed" /\ Complete(e.counts)
    <3> DEFINE newest == [message |-> k, counts |-> e.counts]
    <3>1. e.counts \in Updates  BY DEF OpenAIEvents, NoCounts, Updates
    <3>2. newest \in Turn /\ newest.message = k  BY <2>4, <3>1
    <3>3. turns' = Append(turns, newest)  BY <2>1, <2>4, <2>11 DEF Submit
    <3> HIDE DEF newest
    <3>4. TurnsMatchStream'  BY <1>0, <2>7, <2>10, <2>11, <3>2, <3>3, MatchGrows DEF newest
    <3>5. \A n \in 1 .. Len(turns') : (n \in 1 .. Len(turns) /\ turns'[n] = turns[n]) \/ turns'[n] = newest
      BY <1>0, <3>2, <3>3
    <3>6. \A n \in 1 .. Len(turns') : turns'[n].message <= k  BY <2>4, <2>10, <3>2, <3>5
    <3>7. OrderInv'  BY <2>2, <2>4, <3>6 DEF OrderInv
    <3>8. QED  BY <1>1, <2>5, <2>6, <3>4, <3>7 DEF MeterInv
  <2>12. CASE ~(e.type = "response.completed" /\ Complete(e.counts))
    <3>1. Told' = Told /\ turns' = turns  BY <2>1, <2>7, <2>12
    <3>2. TurnsMatchStream'  BY <1>0, <3>1, MatchStays
    <3>3. OrderInv'  BY <2>2, <2>4, <2>10, <3>1 DEF OrderInv
    <3>4. QED  BY <1>1, <2>5, <2>6, <3>2, <3>3 DEF MeterInv
  <2>13. QED  BY <2>11, <2>12
<1>4. CASE UNCHANGED vars
  <2>1. /\ heard' = heard /\ surface' = surface /\ active' = active /\ poisoned' = poisoned
        /\ started' = started /\ counts' = counts /\ turns' = turns
    BY <1>4 DEF vars, accumulatorVars
  <2>2. \A i, j : OpenAt(i, j)' <=> OpenAt(i, j)  BY <2>1 DEF OpenAt, IsAt
  <2>3. \A j : Spoils(j)' <=> Spoils(j)  BY <2>1, <2>2 DEF Spoils, IsAt
  <2>4. \A i, j, c : LastReport(i, j, c)' = LastReport(i, j, c)  BY <2>1 DEF LastReport
  <2>5. \A i, j : Reports(i, j)' = Reports(i, j)  BY <2>4 DEF Reports
  <2>6. \A i, j : Worth(i, j)' <=> Worth(i, j)  BY <2>1, <2>2, <2>3, <2>5 DEF Worth, Complete, IsAt
  <2>7. Last' = Last  BY <2>1 DEF Last
  <2>8. AccumulatorInv'
    <3>1. OpenAt(started, Last + 1)' <=> OpenAt(started, Last + 1)
      BY <2>1 DEF OpenAt, IsAt, Last
    <3>2. Reports(started, Last)' = Reports(started, Last)
      BY <2>1 DEF Reports, LastReport, Last
    <3>3. \A i : OpenAt(i, Last + 1)' <=> OpenAt(i, Last + 1)  BY <2>1 DEF OpenAt, IsAt, Last
    <3>4. Trusted(Last)' <=> Trusted(Last)  BY <2>3, <2>7 DEF Trusted
    <3>5. QED  BY <1>0, <2>1, <2>7, <3>1, <3>2, <3>3, <3>4 DEF AccumulatorInv
  <2>9. OrderInv'  BY <1>0, <2>1, <2>7 DEF OrderInv
  <2>10. LatestInv'
    <3>1. \A i, j, c : Reported(i, j, c)' = Reported(i, j, c)  BY <2>1 DEF Reported
    <3>2. QED  BY <1>0, <2>7, <3>1 DEF LatestInv
  <2>11. TurnsMatchStream'
    <3>1. Spans' = Spans
      <4>1. {<<i, i>> : i \in {j \in 1 .. Len(heard) : IsAt(j, "response.completed") /\ Complete(heard[j].counts)}}'
              = {<<i, i>> : i \in {j \in 1 .. Len(heard) : IsAt(j, "response.completed") /\ Complete(heard[j].counts)}}
        BY <2>1 DEF IsAt, Complete
      <4>2. {s \in (1 .. Len(heard)) \X (1 .. Len(heard)) : s[1] < s[2] /\ Worth(s[1], s[2])}'
              = {s \in (1 .. Len(heard)) \X (1 .. Len(heard)) : s[1] < s[2] /\ Worth(s[1], s[2])}
        BY <2>1, <2>6
      <4>3. QED  BY <2>1, <4>1, <4>2 DEF Spans
    <3>2. Told' = Told
      <4>1. Told' = {[message |-> s[1], counts |-> Reports(s[1], s[2])'] : s \in Spans}  BY <3>1 DEF Told
      <4>2. QED  BY <2>5, <4>1 DEF Told
    <3>3. QED  BY <1>0, <2>1, <3>2, MatchStays
  <2>12. QED  BY <1>1, <2>8, <2>9, <2>10, <2>11 DEF MeterInv
<1>5. QED  BY <1>2, <1>3, <1>4 DEF Next

(* The sink is given exactly one Turn for each message that the stream     *)
(* tells whole, with the counts last reported, in their order, and none    *)
(* from where the stream cannot be trusted on: the meters of internal/shim *)
(* on any stream, for any counts.                                          *)
THEOREM TurnsAreTheStreams == Spec => []TurnsMatchStream
<1>1. Init => MeterInv  BY MeterInit
<1>2. MeterInv /\ [Next]_vars => MeterInv'  BY MeterNext
<1>3. MeterInv => TurnsMatchStream  BY DEF MeterInv
<1>4. QED  BY <1>1, <1>2, <1>3, PTL DEF Spec

-----------------------------------------------------------------------------
(* The matching of models: what an index has of a key, in terms of what    *)
(* was filed in it, pairs of a key and an identity.                        *)

Filed(name, c) == {<<Key(NoScope, name), c>>, <<Key(c.provider, name), c>>}

Indexes(index, filed) ==
    /\ \A f \in filed : f = <<f[1], f[2]>> /\ f[1] \in DOMAIN index
    /\ index = [k \in DOMAIN index |-> [identity |-> index[k].identity, ambiguous |-> index[k].ambiguous]]
    /\ \A k \in DOMAIN index :
          /\ <<k, index[k].identity>> \in filed
          /\ index[k].ambiguous \in BOOLEAN
          /\ index[k].ambiguous <=> \E f \in filed : f[1] = k /\ f[2] # index[k].identity

ExactFiled == UNION {Filed(c.name, c) : c \in listed}
NormalFiled == UNION {Filed(normalize(c.name), c) : c \in listed}
DatedFiled == UNION {Filed(normalize(Stripped(c.name)), c) : c \in {d \in listed : isDated(d.name)}}

(* The indexes tell of every identity that was listed, and no other; what  *)
(* was resolved is what the policies say of them.                          *)
MatchInv ==
    /\ \E cs \in Candidates : left \cup listed = cs
    /\ Indexes(exact, ExactFiled)
    /\ Indexes(normalized, NormalFiled)
    /\ Indexes(datedNormalized, DatedFiled)
    /\ listing = "resolved" =>
          reported \in ReportedModels /\ resolution = Resolved(reported.provider, reported.name)

(* One key is filed: it is taken, or shared by one identity more.          *)
LEMMA OneIsFiled ==
    ASSUME NEW index, NEW filed, Indexes(index, filed), NEW k, NEW c
    PROVE  Indexes(addSelection(index, k, c), filed \cup {<<k, c>>})
<1> DEFINE after == addSelection(index, k, c)
           now == filed \cup {<<k, c>>}
<1>1. index = [l \in DOMAIN index |-> [identity |-> index[l].identity, ambiguous |-> index[l].ambiguous]]
  BY DEF Indexes
<1>2. \A f \in filed : f = <<f[1], f[2]>> /\ f[1] \in DOMAIN index  BY DEF Indexes
<1>3. \A l \in DOMAIN index :
          /\ <<l, index[l].identity>> \in filed
          /\ index[l].ambiguous \in BOOLEAN
          /\ index[l].ambiguous <=> \E f \in filed : f[1] = l /\ f[2] # index[l].identity
  BY DEF Indexes
<1>4. \A f \in now : f \in filed \/ f = <<k, c>>  OBVIOUS
<1>5. CASE k \notin DOMAIN index
  <2>1. after = [l \in DOMAIN index \cup {k} |->
                    IF l = k THEN [identity |-> c, ambiguous |-> FALSE] ELSE index[l]]
    BY <1>5 DEF addSelection
  <2>2. DOMAIN after = DOMAIN index \cup {k}  BY <2>1
  <2>3. after[k] = [identity |-> c, ambiguous |-> FALSE]  BY <2>1
  <2>4. \A l \in DOMAIN index : after[l] = index[l] /\ l # k  BY <1>5, <2>1
  <2>5. \A f \in now : f[1] = k <=> f = <<k, c>>  BY <1>2, <1>4, <1>5
  <2>6. \A f \in now : f = <<f[1], f[2]>> /\ f[1] \in DOMAIN after  BY <1>2, <1>4, <2>2
  <2>7. after = [l \in DOMAIN after |-> [identity |-> after[l].identity, ambiguous |-> after[l].ambiguous]]
    <3>1. \A l \in DOMAIN after : after[l] = [identity |-> after[l].identity, ambiguous |-> after[l].ambiguous]
      BY <1>1, <2>2, <2>3, <2>4
    <3> HIDE DEF after
    <3>2. after = [l \in DOMAIN after |-> after[l]]  BY <2>1
    <3> QED  BY <3>1, <3>2
  <2>8. /\ <<k, after[k].identity>> \in now
        /\ after[k].ambiguous \in BOOLEAN
        /\ after[k].ambiguous <=> \E f \in now : f[1] = k /\ f[2] # after[k].identity
    BY <2>3, <2>5
  <2>9. ASSUME NEW l \in DOMAIN index
        PROVE  /\ <<l, after[l].identity>> \in now
               /\ after[l].ambiguous \in BOOLEAN
               /\ after[l].ambiguous <=> \E f \in now : f[1] = l /\ f[2] # after[l].identity
    <3>1. after[l] = index[l] /\ l # k  BY <2>4
    <3>2. \A f \in now : f[1] = l => f \in filed  BY <1>4, <3>1
    <3> HIDE DEF after
    <3> QED  BY <1>3, <3>1, <3>2
  <2> HIDE DEF after, now
  <2> QED  BY <2>2, <2>6, <2>7, <2>8, <2>9 DEF Indexes, after, now
<1>6. CASE k \in DOMAIN index
  <2>1. after = [index EXCEPT ![k].ambiguous = @ \/ index[k].identity # c]  BY <1>6 DEF addSelection
  <2>2. after = [l \in DOMAIN index |->
                    IF l = k THEN [index[k] EXCEPT !.ambiguous = @ \/ index[k].identity # c] ELSE index[l]]
    BY <2>1
  <2>3. DOMAIN after = DOMAIN index  BY <2>2
  <2>4. after[k] = [identity |-> index[k].identity, ambiguous |-> index[k].ambiguous \/ index[k].identity # c]
    <3>1. index[k] = [identity |-> index[k].identity, ambiguous |-> index[k].ambiguous]  BY <1>1, <1>6
    <3>2. after[k] = [index[k] EXCEPT !.ambiguous = @ \/ index[k].identity # c]  BY <1>6, <2>2
    <3> HIDE DEF after
    <3> QED  BY <3>1, <3>2
  <2>5. \A l \in DOMAIN index : l # k => after[l] = index[l]  BY <2>2
  <2>6. \A f \in now : f = <<f[1], f[2]>> /\ f[1] \in DOMAIN after  BY <1>2, <1>4, <1>6, <2>3
  <2>7. after = [l \in DOMAIN after |-> [identity |-> after[l].identity, ambiguous |-> after[l].ambiguous]]
    <3>1. \A l \in DOMAIN after : after[l] = [identity |-> after[l].identity, ambiguous |-> after[l].ambiguous]
      <4> HIDE DEF after
      <4> QED  BY <1>1, <2>3, <2>4, <2>5
    <3>2. after = [l \in DOMAIN after |-> after[l]]  BY <2>2
    <3> HIDE DEF after
    <3> QED  BY <3>1, <3>2
  <2>8. /\ <<k, after[k].identity>> \in now
        /\ after[k].ambiguous \in BOOLEAN
        /\ after[k].ambiguous <=> \E f \in now : f[1] = k /\ f[2] # after[k].identity
    <3>1. \E f \in now : f[1] = k /\ f[2] = c
      <4> <<k, c>> \in now  OBVIOUS
      <4> QED  BY DEF now
    <3>2. \A f \in now : f[2] # c => f \in filed  BY <1>4
    <3>3. after[k].identity = index[k].identity
          /\ after[k].ambiguous = (index[k].ambiguous \/ index[k].identity # c)  BY <2>4
    <3> HIDE DEF after
    <3>4. (\E f \in now : f[1] = k /\ f[2] # index[k].identity)
            <=> (\E f \in filed : f[1] = k /\ f[2] # index[k].identity) \/ index[k].identity # c
      <4>1. \A f \in filed : f \in now  OBVIOUS
      <4> HIDE DEF now
      <4> QED  BY <3>1, <3>2, <4>1
    <3> QED  BY <1>3, <1>6, <3>3, <3>4
  <2>9. ASSUME NEW l \in DOMAIN index, l # k
        PROVE  /\ <<l, after[l].identity>> \in now
               /\ after[l].ambiguous \in BOOLEAN
               /\ after[l].ambiguous <=> \E f \in now : f[1] = l /\ f[2] # after[l].identity
    <3>1. after[l] = index[l]  BY <2>5, <2>9
    <3>2. \A f \in now : f[1] = l => f \in filed  BY <1>4, <2>9
    <3> HIDE DEF after
    <3> QED  BY <1>3, <3>1, <3>2
  <2> HIDE DEF after, now
  <2> QED  BY <2>3, <2>6, <2>7, <2>8, <2>9 DEF Indexes, after, now
<1> QED  BY <1>5, <1>6

(* Both keys of a name are.                                                *)
LEMMA BothAreFiled ==
    ASSUME NEW index, NEW filed, Indexes(index, filed), NEW name, NEW c
    PROVE  Indexes(Selections(index, name, c), filed \cup Filed(name, c))
<1> DEFINE once == addSelection(index, Key(NoScope, name), c)
           and == filed \cup {<<Key(NoScope, name), c>>}
<1>1. Indexes(once, and)  BY OneIsFiled
<1>2. Indexes(addSelection(once, Key(c.provider, name), c), and \cup {<<Key(c.provider, name), c>>})
  <2> HIDE DEF once, and
  <2> QED  BY <1>1, OneIsFiled
<1>3. and \cup {<<Key(c.provider, name), c>>} = filed \cup Filed(name, c)  BY DEF Filed
<1> QED  BY <1>2, <1>3 DEF Selections

LEMMA MatchInvInit == MatchInit => MatchInv
<1> SUFFICES ASSUME MatchInit PROVE MatchInv  OBVIOUS
<1>1. listed = {} /\ left \in Candidates /\ listing # "resolved"  BY DEF MatchInit
<1>2. ExactFiled = {} /\ NormalFiled = {} /\ DatedFiled = {}  BY <1>1 DEF ExactFiled, NormalFiled, DatedFiled
<1>3. Indexes(<<>>, {})  BY DEF Indexes
<1> QED  BY <1>1, <1>2, <1>3 DEF MatchInit, MatchInv

(* A turn of the loop files one identity more in each index, or in none.   *)
LEMMA MatchInvAdd == MatchInv /\ AddCandidate => MatchInv'
<1> SUFFICES ASSUME MatchInv, AddCandidate PROVE MatchInv'  OBVIOUS
<1>1. PICK cs \in Candidates : left \cup listed = cs  BY DEF MatchInv
<1>2. Indexes(exact, ExactFiled) /\ Indexes(normalized, NormalFiled) /\ Indexes(datedNormalized, DatedFiled)
  BY DEF MatchInv
<1>3. listing' # "resolved"  BY DEF AddCandidate
<1>4. CASE UNCHANGED <<left, listed, exact, normalized, datedNormalized, retained>>
  BY <1>2, <1>3, <1>4, <1>1 DEF MatchInv, ExactFiled, NormalFiled, DatedFiled, Indexes
<1>5. ASSUME NEW c \in left,
             exact' = Selections(exact, c.name, c),
             normalized' = Selections(normalized, normalize(c.name), c),
             datedNormalized' = IF isDated(c.name)
                                THEN Selections(datedNormalized, normalize(Stripped(c.name)), c)
                                ELSE datedNormalized,
             left' = left \ {c}, listed' = listed \cup {c}
      PROVE  MatchInv'
  <2>1. left' \cup listed' = cs  BY <1>1, <1>5
  <2>2. ExactFiled' = ExactFiled \cup Filed(c.name, c)  BY <1>5 DEF ExactFiled
  <2>3. NormalFiled' = NormalFiled \cup Filed(normalize(c.name), c)  BY <1>5 DEF NormalFiled
  <2>4. DatedFiled' = IF isDated(c.name) THEN DatedFiled \cup Filed(normalize(Stripped(c.name)), c)
                                         ELSE DatedFiled
    BY <1>5 DEF DatedFiled
  <2>5. Indexes(exact', ExactFiled')  BY <1>2, <1>5, <2>2, BothAreFiled
  <2>6. Indexes(normalized', NormalFiled')  BY <1>2, <1>5, <2>3, BothAreFiled
  <2>7. Indexes(datedNormalized', DatedFiled')  BY <1>2, <1>5, <2>4, BothAreFiled
  <2> QED  BY <1>1, <1>3, <2>1, <2>5, <2>6, <2>7 DEF MatchInv, Indexes
<1> QED  BY <1>4, <1>5 DEF AddCandidate

LEMMA MatchInvResolve == MatchInv /\ Resolve => MatchInv'
<1> SUFFICES ASSUME MatchInv, Resolve PROVE MatchInv'  OBVIOUS
<1>1. PICK r \in ReportedModels : reported' = r /\ resolution' = Resolved(r.provider, r.name)
  BY DEF Resolve
<1>2. UNCHANGED <<left, listed, exact, normalized, datedNormalized>>  BY DEF Resolve
<1>3. Resolved(r.provider, r.name)' = Resolved(r.provider, r.name)
  BY <1>2 DEF Resolved, Found, Lookup, Dated
<1>4. reported' \in ReportedModels /\ resolution' = Resolved(reported.provider, reported.name)'
  BY <1>1, <1>3
<1>5. \E cs \in Candidates : left' \cup listed' = cs  BY <1>2 DEF MatchInv
<1>6. Indexes(exact, ExactFiled)'  BY <1>2 DEF MatchInv, ExactFiled, Indexes
<1>7. Indexes(normalized, NormalFiled)'  BY <1>2 DEF MatchInv, NormalFiled, Indexes
<1>8. Indexes(datedNormalized, DatedFiled)'  BY <1>2 DEF MatchInv, DatedFiled, Indexes
<1> QED  BY <1>4, <1>5, <1>6, <1>7, <1>8 DEF MatchInv

LEMMA ReadIndex ==
    ASSUME NEW index, NEW filed, Indexes(index, filed), NEW k
    PROVE  /\ \A c : <<k, c>> \in filed => k \in DOMAIN index
           /\ k \in DOMAIN index =>
                /\ index[k] = [identity |-> index[k].identity, ambiguous |-> index[k].ambiguous]
                /\ <<k, index[k].identity>> \in filed /\ index[k].ambiguous \in BOOLEAN
                /\ index[k].ambiguous <=> \E c : <<k, c>> \in filed /\ c # index[k].identity
<1>1. \A f \in filed : f = <<f[1], f[2]>> /\ f[1] \in DOMAIN index  BY DEF Indexes
<1>2. \A x : (\E f \in filed : f[1] = k /\ f[2] # x) <=> \E c : <<k, c>> \in filed /\ c # x
  <2> SUFFICES ASSUME NEW x PROVE (\E f \in filed : f[1] = k /\ f[2] # x) <=> \E c : <<k, c>> \in filed /\ c # x
    OBVIOUS
  <2>1. ASSUME NEW f \in filed, f[1] = k, f[2] # x PROVE \E c : <<k, c>> \in filed /\ c # x
    <3>1. <<k, f[2]>> \in filed  BY <1>1, <2>1
    <3> QED  BY <2>1, <3>1
  <2>2. ASSUME NEW c, <<k, c>> \in filed, c # x PROVE \E f \in filed : f[1] = k /\ f[2] # x
    <3>1. <<k, c>>[1] = k /\ <<k, c>>[2] = c  OBVIOUS
    <3> QED  BY <2>2, <3>1
  <2> QED  BY <2>1, <2>2
<1>3. \A c : <<k, c>> \in filed => k \in DOMAIN index
  <2> TAKE c
  <2>1. <<k, c>>[1] = k  OBVIOUS
  <2> QED  BY <1>1, <2>1
<1>4. k \in DOMAIN index =>
        /\ index[k] = [identity |-> index[k].identity, ambiguous |-> index[k].ambiguous]
        /\ <<k, index[k].identity>> \in filed /\ index[k].ambiguous \in BOOLEAN
        /\ index[k].ambiguous <=> \E f \in filed : f[1] = k /\ f[2] # index[k].identity
  <2>1. k \in DOMAIN index =>
          index[k] = [identity |-> index[k].identity, ambiguous |-> index[k].ambiguous]
    BY DEF Indexes
  <2> QED  BY <2>1 DEF Indexes
<1>5. k \in DOMAIN index =>
        (index[k].ambiguous <=> \E c : <<k, c>> \in filed /\ c # index[k].identity)
  <2> HAVE k \in DOMAIN index
  <2> DEFINE x == index[k].identity
  <2>1. index[k].ambiguous <=> \E f \in filed : f[1] = k /\ f[2] # x  BY <1>4
  <2>2. index[k].ambiguous <=> \E c : <<k, c>> \in filed /\ c # x
    <3> HIDE DEF x
    <3>1. (\E f \in filed : f[1] = k /\ f[2] # x) <=> \E c : <<k, c>> \in filed /\ c # x  BY <1>2
    <3> QED  BY <2>1, <3>1
  <2> QED  BY <2>2
<1> QED  BY <1>3, <1>4, <1>5

(* The identities that a provider, or none, was named for.                 *)
Of(provider) == {c \in listed : provider \in {NoScope, c.provider}}

LEMMA ReadExact ==
    ASSUME MatchInv, NEW p, NEW n
    PROVE  /\ \A c \in Of(p) : c.name = n => Key(p, n) \in DOMAIN exact
           /\ Key(p, n) \in DOMAIN exact =>
                /\ exact[Key(p, n)].identity \in Of(p) /\ exact[Key(p, n)].identity.name = n
                /\ exact[Key(p, n)].ambiguous \in BOOLEAN
                /\ exact[Key(p, n)].ambiguous <=>
                      \E c \in Of(p) : c.name = n /\ c # exact[Key(p, n)].identity
<1> DEFINE k == Key(p, n)
           has(c) == c.name = n
<1>1. \A c : <<k, c>> \in ExactFiled <=> c \in Of(p) /\ has(c)  BY DEF ExactFiled, Filed, Key, Of
<1>2. Indexes(exact, ExactFiled)  BY DEF MatchInv
<1> HIDE DEF k, has
<1>3. /\ \A c : <<k, c>> \in ExactFiled => k \in DOMAIN exact
      /\ k \in DOMAIN exact =>
           /\ exact[k] = [identity |-> exact[k].identity, ambiguous |-> exact[k].ambiguous]
           /\ <<k, exact[k].identity>> \in ExactFiled /\ exact[k].ambiguous \in BOOLEAN
           /\ exact[k].ambiguous <=> \E c : <<k, c>> \in ExactFiled /\ c # exact[k].identity
  BY <1>2, ReadIndex
<1>4. /\ \A c \in Of(p) : has(c) => k \in DOMAIN exact
      /\ k \in DOMAIN exact =>
           /\ exact[k].identity \in Of(p) /\ has(exact[k].identity)
           /\ exact[k].ambiguous <=> \E c \in Of(p) : has(c) /\ c # exact[k].identity
  BY <1>1, <1>3
<1> QED  BY <1>3, <1>4 DEF k, has

LEMMA ReadNormal ==
    ASSUME MatchInv, NEW p, NEW n
    PROVE  /\ \A c \in Of(p) : normalize(c.name) = n => Key(p, n) \in DOMAIN normalized
           /\ Key(p, n) \in DOMAIN normalized =>
                /\ normalized[Key(p, n)].identity \in Of(p) /\ normalize(normalized[Key(p, n)].identity.name) = n
                /\ normalized[Key(p, n)].ambiguous \in BOOLEAN
                /\ normalized[Key(p, n)].ambiguous <=>
                      \E c \in Of(p) : normalize(c.name) = n /\ c # normalized[Key(p, n)].identity
<1> DEFINE k == Key(p, n)
           has(c) == normalize(c.name) = n
<1>1. \A c : <<k, c>> \in NormalFiled <=> c \in Of(p) /\ has(c)  BY DEF NormalFiled, Filed, Key, Of
<1>2. Indexes(normalized, NormalFiled)  BY DEF MatchInv
<1> HIDE DEF k, has
<1>3. /\ \A c : <<k, c>> \in NormalFiled => k \in DOMAIN normalized
      /\ k \in DOMAIN normalized =>
           /\ normalized[k] = [identity |-> normalized[k].identity, ambiguous |-> normalized[k].ambiguous]
           /\ <<k, normalized[k].identity>> \in NormalFiled /\ normalized[k].ambiguous \in BOOLEAN
           /\ normalized[k].ambiguous <=> \E c : <<k, c>> \in NormalFiled /\ c # normalized[k].identity
  BY <1>2, ReadIndex
<1>4. /\ \A c \in Of(p) : has(c) => k \in DOMAIN normalized
      /\ k \in DOMAIN normalized =>
           /\ normalized[k].identity \in Of(p) /\ has(normalized[k].identity)
           /\ normalized[k].ambiguous <=> \E c \in Of(p) : has(c) /\ c # normalized[k].identity
  BY <1>1, <1>3
<1> QED  BY <1>3, <1>4 DEF k, has

LEMMA ReadDated ==
    ASSUME MatchInv, NEW p, NEW n
    PROVE  LET s == datedNormalized[Key(p, n)]
               has(c) == isDated(c.name) /\ normalize(Stripped(c.name)) = n
           IN  /\ \A c \in Of(p) : has(c) => Key(p, n) \in DOMAIN datedNormalized
               /\ Key(p, n) \in DOMAIN datedNormalized =>
                    /\ s = [identity |-> s.identity, ambiguous |-> s.ambiguous]
                    /\ s.identity \in Of(p) /\ has(s.identity) /\ s.ambiguous \in BOOLEAN
                    /\ s.ambiguous <=> \E c \in Of(p) : has(c) /\ c # s.identity
<1> DEFINE k == Key(p, n)
           has(c) == isDated(c.name) /\ normalize(Stripped(c.name)) = n
<1>1. \A c : <<k, c>> \in DatedFiled <=> c \in Of(p) /\ has(c)  BY DEF DatedFiled, Filed, Key, Of
<1>2. Indexes(datedNormalized, DatedFiled)  BY DEF MatchInv
<1> HIDE DEF k, has
<1>3. /\ \A c : <<k, c>> \in DatedFiled => k \in DOMAIN datedNormalized
      /\ k \in DOMAIN datedNormalized =>
           /\ datedNormalized[k] = [identity |-> datedNormalized[k].identity, ambiguous |-> datedNormalized[k].ambiguous]
           /\ <<k, datedNormalized[k].identity>> \in DatedFiled /\ datedNormalized[k].ambiguous \in BOOLEAN
           /\ datedNormalized[k].ambiguous <=> \E c : <<k, c>> \in DatedFiled /\ c # datedNormalized[k].identity
  BY <1>2, ReadIndex
<1>4. /\ \A c \in Of(p) : has(c) => k \in DOMAIN datedNormalized
      /\ k \in DOMAIN datedNormalized =>
           /\ datedNormalized[k].identity \in Of(p) /\ has(datedNormalized[k].identity)
           /\ datedNormalized[k].ambiguous <=> \E c \in Of(p) : has(c) /\ c # datedNormalized[k].identity
  BY <1>1, <1>3
<1> QED  BY <1>3, <1>4 DEF k, has

-----------------------------------------------------------------------------
(* Names: what a name without its last suffix says, the whole one says.    *)

Within(n, m) == n.stem = m.stem /\ (Fast(n) => Fast(m)) /\ DateOf(n) \subseteq DateOf(m)

LEMMA TailIs ==
    ASSUME NEW n, IsName(n)
    PROVE  /\ n.tail \in Seq({"fast"} \cup Dates) /\ Len(n.tail) \in 0 .. 2
           /\ DOMAIN n.tail = 1 .. Len(n.tail) /\ (n.tail # <<>> => Len(n.tail) \in 1 .. 2)
<1>1. n.tail \in Seq({"fast"} \cup Dates) /\ Len(n.tail) <= 2  BY DEF IsName
<1>2. Len(n.tail) \in Nat /\ DOMAIN n.tail = 1 .. Len(n.tail)  BY <1>1
<1>3. n.tail # <<>> => Len(n.tail) # 0  BY <1>1
<1>4. \A l \in Nat : l <= 2 => l \in 0 .. 2 /\ (l # 0 => l \in 1 .. 2)  OBVIOUS
<1>5. Len(n.tail) \in 0 .. 2 /\ (Len(n.tail) # 0 => Len(n.tail) \in 1 .. 2)  BY <1>1, <1>2, <1>4
<1> QED  BY <1>1, <1>2, <1>3, <1>5

Name(stem, respelled, tail) == [stem |-> stem, respelled |-> respelled, tail |-> tail]
Shortened(tail) == SubSeq(tail, 1, Len(tail) - 1)

LEMMA NormalSays ==
    ASSUME NEW n, IsName(n)
    PROVE  /\ normalize(n) = Name(n.stem, FALSE, n.tail)
           /\ Stripped(n) = Name(n.stem, n.respelled, Shortened(n.tail))
           /\ normalize(Stripped(n)) = Name(n.stem, FALSE, Shortened(n.tail))
<1>1. ASSUME NEW stem, NEW respelled, NEW tail
      PROVE  /\ normalize(Name(stem, respelled, tail)) = Name(stem, FALSE, tail)
             /\ Stripped(Name(stem, respelled, tail)) = Name(stem, respelled, Shortened(tail))
  <2>1. normalize(Name(stem, respelled, tail)) = Name(stem, FALSE, tail)
    <3>1. \A b : [[stem |-> stem, respelled |-> respelled, tail |-> tail] EXCEPT !.respelled = b]
                  = [stem |-> stem, respelled |-> b, tail |-> tail]
      OBVIOUS
    <3> QED  BY <3>1 DEF normalize, Name
  <2>2. \A t : [[stem |-> stem, respelled |-> respelled, tail |-> tail] EXCEPT !.tail = t]
                = [stem |-> stem, respelled |-> respelled, tail |-> t]
    OBVIOUS
  <2>3. Stripped(Name(stem, respelled, tail)) = Name(stem, respelled, Shortened(tail))
    BY <2>2 DEF Stripped, Name, Shortened
  <2> QED  BY <2>1, <2>3
<1>2. n = Name(n.stem, n.respelled, n.tail)  BY DEF IsName, Name
<1>3. normalize(n) = Name(n.stem, FALSE, n.tail)
  <2>1. normalize(Name(n.stem, n.respelled, n.tail)) = Name(n.stem, FALSE, n.tail)  BY <1>1
  <2> QED  BY <1>2, <2>1
<1>4. Stripped(n) = Name(n.stem, n.respelled, Shortened(n.tail))
  <2>1. Stripped(Name(n.stem, n.respelled, n.tail)) = Name(n.stem, n.respelled, Shortened(n.tail))  BY <1>1
  <2> QED  BY <1>2, <2>1
<1>5. normalize(Name(n.stem, n.respelled, Shortened(n.tail))) = Name(n.stem, FALSE, Shortened(n.tail))  BY <1>1
<1>6. normalize(Stripped(n)) = Name(n.stem, FALSE, Shortened(n.tail))  BY <1>4, <1>5
<1> QED  BY <1>3, <1>4, <1>6

LEMMA StrippedSaysLess ==
    ASSUME NEW n, IsName(n), n.tail # <<>>
    PROVE  /\ IsName(Stripped(n)) /\ Within(Stripped(n), n)
           /\ Len(n.tail) \in 1 .. 2 /\ Len(Stripped(n).tail) = Len(n.tail) - 1
           /\ \A k \in DOMAIN Stripped(n).tail : Stripped(n).tail[k] = n.tail[k]
<1>1. n.tail \in Seq({"fast"} \cup Dates) /\ Len(n.tail) \in 1 .. 2 /\ DOMAIN n.tail = 1 .. Len(n.tail)
  BY TailIs
<1>2. Stripped(n) = [stem |-> n.stem, respelled |-> n.respelled, tail |-> Shortened(n.tail)]
  BY NormalSays DEF Name
<1> DEFINE short == Shortened(n.tail)
<1>3. /\ short \in Seq({"fast"} \cup Dates) /\ Len(short) = Len(n.tail) - 1
      /\ \A k \in 1 .. Len(n.tail) - 1 : short[k] = n.tail[k]
  BY <1>1 DEF Shortened
<1> HIDE DEF short
<1>4. Stripped(n).stem = n.stem /\ Stripped(n).respelled = n.respelled /\ Stripped(n).tail = short
  BY <1>2 DEF short
<1>5. DOMAIN short = 1 .. Len(n.tail) - 1  BY <1>1, <1>3
<1>6. IsName(Stripped(n))
  <2>1. Stripped(n) = [stem |-> Stripped(n).stem, respelled |-> Stripped(n).respelled,
                       tail |-> Stripped(n).tail]
    BY <1>2, <1>4 DEF short
  <2> QED  BY <1>1, <1>3, <1>4, <2>1 DEF IsName
<1>7. \A k \in DOMAIN short : k \in DOMAIN n.tail /\ short[k] = n.tail[k]  BY <1>1, <1>3, <1>5
<1>8. Within(Stripped(n), n)  BY <1>4, <1>7 DEF Within, Fast, DateOf
<1> QED  BY <1>1, <1>3, <1>4, <1>6, <1>7, <1>8

(* Names of one normal form say the same.                                  *)
LEMMA SpellingSaysNothing ==
    ASSUME NEW n, NEW m, IsName(n), IsName(m), normalize(n) = normalize(m)
    PROVE  /\ n.stem = m.stem /\ n.tail = m.tail /\ Within(n, m)
           /\ isDated(n) <=> isDated(m)
           /\ normalize(Stripped(n)) = normalize(Stripped(m))
<1>1. /\ normalize(n) = Name(n.stem, FALSE, n.tail) /\ normalize(m) = Name(m.stem, FALSE, m.tail)
      /\ normalize(Stripped(n)) = Name(n.stem, FALSE, Shortened(n.tail))
      /\ normalize(Stripped(m)) = Name(m.stem, FALSE, Shortened(m.tail))
  BY NormalSays
<1>2. n.stem = m.stem /\ n.tail = m.tail
  <2>1. Name(n.stem, FALSE, n.tail).stem = n.stem /\ Name(n.stem, FALSE, n.tail).tail = n.tail  BY DEF Name
  <2>2. Name(m.stem, FALSE, m.tail).stem = m.stem /\ Name(m.stem, FALSE, m.tail).tail = m.tail  BY DEF Name
  <2>3. Name(n.stem, FALSE, n.tail) = Name(m.stem, FALSE, m.tail)  BY <1>1
  <2> QED  BY <2>1, <2>2, <2>3
<1>3. normalize(Stripped(n)) = normalize(Stripped(m))  BY <1>1, <1>2
<1> QED  BY <1>2, <1>3 DEF Within, Fast, DateOf, isDated, EndsIn

(* The other names that are tried say no more than the reported one.       *)
LEMMA AlternativesSayLess ==
    ASSUME NEW n, IsName(n)
    PROVE  /\ DOMAIN Alternatives(n) \subseteq {1, 2}
           /\ \A k \in DOMAIN Alternatives(n) : IsName(Alternatives(n)[k]) /\ Within(Alternatives(n)[k], n)
<1> DEFINE bare == Stripped(n)
<1>1. CASE n.tail = <<>>
  BY <1>1 DEF Alternatives, isFast, isDated, EndsIn
<1>2. CASE n.tail # <<>>
  <2>1. IsName(bare) /\ Within(bare, n)  BY <1>2, StrippedSaysLess
  <2>2. CASE bare.tail = <<>>
    <3>1. ~isFast(bare) /\ ~isDated(bare)  BY <2>2 DEF isFast, isDated, EndsIn
    <3>2. Alternatives(n) \in {<<bare>>, <<>>}  BY <3>1 DEF Alternatives
    <3> HIDE DEF bare
    <3> QED  BY <2>1, <3>2
  <2>3. CASE bare.tail # <<>>
    <3>1. IsName(Stripped(bare)) /\ Within(Stripped(bare), bare)  BY <2>1, <2>3, StrippedSaysLess
    <3>2. Within(Stripped(bare), n)  BY <2>1, <3>1 DEF Within
    <3>3. Alternatives(n) \in {<<bare, Stripped(bare)>>, <<bare>>, <<>>}  BY DEF Alternatives
    <3> HIDE DEF bare
    <3> QED  BY <2>1, <3>1, <3>2, <3>3
  <2> QED  BY <2>2, <2>3
<1> QED  BY <1>1, <1>2

(* A dated name is its stem's, and an undated one tells of no date.        *)
LEMMA DatedSaysMore ==
    ASSUME NEW n, NEW m, IsName(n), IsName(m), isDated(n), normalize(Stripped(n)) = normalize(m)
    PROVE  n.stem = m.stem /\ (Fast(n) => Fast(m))
<1>1. n.tail # <<>> /\ n.tail[Len(n.tail)] \in Dates  BY DEF isDated, EndsIn
<1>2. /\ IsName(Stripped(n)) /\ Within(Stripped(n), n) /\ Len(n.tail) \in 1 .. 2
      /\ Len(Stripped(n).tail) = Len(n.tail) - 1
      /\ \A k \in DOMAIN Stripped(n).tail : Stripped(n).tail[k] = n.tail[k]
  BY <1>1, StrippedSaysLess
<1>3. Within(Stripped(n), m)  BY <1>2, SpellingSaysNothing
<1>4. Fast(n) => Fast(Stripped(n))
  <2>1. DOMAIN n.tail = 1 .. Len(n.tail) /\ DOMAIN Stripped(n).tail = 1 .. Len(n.tail) - 1
    BY <1>2 DEF IsName
  <2>2. n.tail[Len(n.tail)] # "fast"  BY <1>1, ModelMatchAssumption
  <2> QED  BY <1>2, <2>1, <2>2 DEF Fast
<1> QED  BY <1>2, <1>3, <1>4 DEF Within

LEMMA UndatedTellsNoDate ==
    ASSUME NEW n, IsName(n), ~hasDateSuffix(n)
    PROVE  DateOf(n) = {}
<1>1. n.tail \in Seq({"fast"} \cup Dates) /\ Len(n.tail) \in 0 .. 2 /\ DOMAIN n.tail = 1 .. Len(n.tail)
  BY TailIs
<1>2. CASE n.tail = <<>>
  BY <1>2 DEF DateOf
<1>3. CASE n.tail # <<>>
  <2>1. n.tail[Len(n.tail)] \notin Dates  BY <1>3 DEF hasDateSuffix, isDated, EndsIn
  <2>2. n.tail[Len(n.tail)] = "fast"  BY <1>1, <1>3, <2>1
  <2>3. ~isDated(Stripped(n))  BY <1>3, <2>2 DEF hasDateSuffix, isFast, EndsIn
  <2>4. /\ Len(Stripped(n).tail) = Len(n.tail) - 1 /\ IsName(Stripped(n))
        /\ \A k \in DOMAIN Stripped(n).tail : Stripped(n).tail[k] = n.tail[k]
    BY <1>3, StrippedSaysLess
  <2>5. ASSUME NEW k \in DOMAIN n.tail, k # Len(n.tail) PROVE n.tail[k] \notin Dates
    <3>1. k \in 1 .. Len(n.tail)  BY <1>1
    <3>2. k = 1 /\ Len(n.tail) = 2
      <4>1. PICK l \in 0 .. 2 : l = Len(n.tail)  BY <1>1
      <4>2. k \in 1 .. l /\ k # l  BY <2>5, <3>1, <4>1
      <4>3. k = 1 /\ l = 2  BY <4>2
      <4> QED  BY <4>1, <4>3
    <3>3. Len(Stripped(n).tail) = 1 /\ DOMAIN Stripped(n).tail = 1 .. Len(Stripped(n).tail)
      BY <2>4, <3>2, TailIs
    <3>4. Stripped(n).tail # <<>> /\ Stripped(n).tail[1] = n.tail[1]  BY <2>4, <3>3
    <3> QED  BY <2>3, <3>2, <3>3, <3>4 DEF isDated, EndsIn
  <2> QED  BY <2>1, <2>5 DEF DateOf
<1> QED  BY <1>2, <1>3

-----------------------------------------------------------------------------
(* What a resolution of a model must be, for the parts of the property.    *)

Spelled(p, says) == {c \in Of(p) : c.name = says}

MatchIsTrue(p, says, r) ==
    r.status = "matched" =>
      LET is == r.identity.name
          others == Of(p) \ {r.identity}
      IN  /\ r.identity \in Of(p)
          /\ is.stem = says.stem
          /\ Fast(is) => Fast(says)
          /\ DateOf(says) = {} \/ DateOf(is) \subseteq DateOf(says)
          /\ \A c \in others : c.name # is
          /\ r.method \notin {"exact", "suffix"} => \A c \in others : ~SameButSpelling(c.name, is)
          /\ r.method = "dated" =>
               \A c \in others, n \in Undated(says) :
                   isDated(c.name) => ~SameButSpelling(Stripped(c.name), n)
ExactFirst(p, says, r) ==
    Spelled(p, says) # {} =>
      r = Selected([identity |-> CHOOSE c \in Spelled(p, says) : TRUE,
                    ambiguous |-> Cardinality(Spelled(p, says)) > 1], "exact")
UnknownIsTrue(p, says, r) ==
    r.status = "unknown" => \A c \in Of(p) : ~SameButSpelling(c.name, says)

Judged(p, says, r) == MatchIsTrue(p, says, r) /\ ExactFirst(p, says, r) /\ UnknownIsTrue(p, says, r)

LEMMA ListedAreModels ==
    ASSUME MatchInv
    PROVE  IsFiniteSet(listed) /\ \A c \in listed : IsName(c.name)
<1>1. PICK cs \in Candidates : left \cup listed = cs  BY DEF MatchInv
<1>2. IsFiniteSet(cs) /\ \A c \in cs : IsName(c.name)  BY ModelMatchAssumption
<1>3. listed \subseteq cs  BY <1>1
<1> QED  BY <1>2, <1>3, FS_Subset

(* A model that is spelled as reported is the one, or one of several.      *)
LEMMA ExactIsRight ==
    ASSUME MatchInv, NEW p, NEW says, Key(p, says) \in DOMAIN exact
    PROVE  Judged(p, says, Selected(exact[Key(p, says)], "exact"))
<1> DEFINE s == exact[Key(p, says)]
           r == Selected(s, "exact")
           spelled == Spelled(p, says)
<1> SUFFICES Judged(p, says, r)  OBVIOUS
<1>1. /\ s.identity \in Of(p) /\ s.identity.name = says /\ s.ambiguous \in BOOLEAN
      /\ s.ambiguous <=> \E c \in Of(p) : c.name = says /\ c # s.identity
  BY ReadExact
<1> HIDE DEF s
<1>2. s.identity \in spelled  BY <1>1 DEF Spelled
<1>3. CASE s.ambiguous
  <2>1. r = [status |-> "ambiguous"] /\ r.status = "ambiguous"  BY <1>3 DEF Selected
  <2>2. PICK other \in spelled : other # s.identity  BY <1>1, <1>3 DEF Spelled
  <2>3. IsFiniteSet(spelled)
    <3>1. spelled \subseteq listed  BY DEF Spelled, Of
    <3> QED  BY <3>1, ListedAreModels, FS_Subset
  <2>4. Cardinality(spelled) > 1
    <3>1. Cardinality(spelled) \in Nat  BY <2>3, FS_CardinalityType
    <3>2. Cardinality(spelled) # 0  BY <1>2, <2>3, FS_EmptySet
    <3>3. Cardinality(spelled) # 1
      <4>1. \A x : spelled # {x}  BY <1>2, <2>2
      <4> QED  BY <2>3, <4>1, FS_Singleton
    <3> QED  BY <3>1, <3>2, <3>3
  <2>5. Selected([identity |-> CHOOSE c \in spelled : TRUE, ambiguous |-> Cardinality(spelled) > 1], "exact")
          = [status |-> "ambiguous"]
    BY <2>4 DEF Selected
  <2> HIDE DEF r
  <2>6. ExactFirst(p, says, r)  BY <2>1, <2>5 DEF ExactFirst
  <2>7. MatchIsTrue(p, says, r)  BY <2>1 DEF MatchIsTrue
  <2>8. UnknownIsTrue(p, says, r)  BY <2>1 DEF UnknownIsTrue
  <2> QED  BY <2>6, <2>7, <2>8 DEF Judged
<1>4. CASE ~s.ambiguous
  <2>1. /\ r = [status |-> "matched", identity |-> s.identity, method |-> "exact"]
        /\ r.status = "matched" /\ r.identity = s.identity /\ r.method = "exact"
    BY <1>4 DEF Selected
  <2>2. \A c \in Of(p) : c.name = says => c = s.identity  BY <1>1, <1>4
  <2>3. spelled = {s.identity}  BY <1>2, <2>2 DEF Spelled
  <2>4. ExactFirst(p, says, r)
    <3>1. (CHOOSE c \in spelled : TRUE) = s.identity  BY <2>3
    <3>2. (Cardinality(spelled) > 1) = FALSE
      <4>1. Cardinality(spelled) = 1
        <5>1. Cardinality({s.identity}) = 1  BY FS_Singleton
        <5> QED  BY <2>3, <5>1
      <4> HIDE DEF spelled
      <4> QED  BY <4>1
    <3> HIDE DEF spelled
    <3>3. Selected([identity |-> CHOOSE c \in spelled : TRUE, ambiguous |-> Cardinality(spelled) > 1], "exact")
            = [status |-> "matched", identity |-> s.identity, method |-> "exact"]
      <4>1. [identity |-> CHOOSE c \in spelled : TRUE, ambiguous |-> Cardinality(spelled) > 1]
              = [identity |-> s.identity, ambiguous |-> FALSE]
        BY <3>1, <3>2
      <4>2. Selected([identity |-> s.identity, ambiguous |-> FALSE], "exact")
              = [status |-> "matched", identity |-> s.identity, method |-> "exact"]
        BY DEF Selected
      <4> QED  BY <4>1, <4>2
    <3> HIDE DEF r
    <3> QED  BY <2>1, <3>3 DEF ExactFirst, spelled
  <2> HIDE DEF r
  <2>5. MatchIsTrue(p, says, r)  BY <1>1, <2>1, <2>2 DEF MatchIsTrue
  <2>6. UnknownIsTrue(p, says, r)  BY <2>1 DEF UnknownIsTrue
  <2> QED  BY <2>4, <2>5, <2>6 DEF Judged
<1> QED  BY <1>1, <1>3, <1>4

(* Where nothing is spelled as reported, the spelling decides nothing.     *)
LEMMA NothingIsSpelled ==
    ASSUME MatchInv, NEW p, NEW says, NEW r, Key(p, says) \notin DOMAIN exact
    PROVE  ExactFirst(p, says, r)
<1>1. \A c \in Of(p) : c.name # says  BY ReadExact
<1> QED  BY <1>1 DEF ExactFirst, Spelled

(* A name that is looked up finds one that says the same, or several.      *)
LEMMA FoundSaysTheSame ==
    ASSUME MatchInv, NEW p, NEW n, IsName(n), Found(p, n)
    PROVE  LET s == Lookup(p, n)
           IN  /\ s.ambiguous \in BOOLEAN
               /\ s.identity \in Of(p) /\ IsName(s.identity.name) /\ Within(s.identity.name, n)
               /\ ~s.ambiguous => \A c \in Of(p) \ {s.identity} : c.name # s.identity.name
               /\ Key(p, n) \notin DOMAIN exact /\ ~s.ambiguous =>
                    \A c \in Of(p) \ {s.identity} : ~SameButSpelling(c.name, s.identity.name)
<1> DEFINE s == Lookup(p, n)
<1>1. CASE Key(p, n) \in DOMAIN exact
  <2>1. s = exact[Key(p, n)]  BY <1>1 DEF Lookup
  <2> DEFINE e == exact[Key(p, n)]
  <2>2. /\ e.identity \in Of(p) /\ e.identity.name = n /\ e.ambiguous \in BOOLEAN
        /\ e.ambiguous <=> \E c \in Of(p) : c.name = n /\ c # e.identity
    BY <1>1, ReadExact
  <2> HIDE DEF e, s
  <2> s = e  BY <2>1 DEF e
  <2>3. Within(n, n)  BY DEF Within
  <2> QED  BY <1>1, <2>2, <2>3 DEF s
<1>2. CASE Key(p, n) \notin DOMAIN exact
  <2>1. s = normalized[Key(p, normalize(n))] /\ Key(p, normalize(n)) \in DOMAIN normalized
    BY <1>2 DEF Lookup, Found
  <2> DEFINE e == normalized[Key(p, normalize(n))]
  <2>2. /\ e.identity \in Of(p) /\ normalize(e.identity.name) = normalize(n) /\ e.ambiguous \in BOOLEAN
        /\ e.ambiguous <=> \E c \in Of(p) : normalize(c.name) = normalize(n) /\ c # e.identity
    BY <2>1, ReadNormal
  <2> HIDE DEF e, s
  <2> s = e  BY <2>1 DEF e
  <2>3. IsName(s.identity.name)  BY <2>2, ListedAreModels DEF Of
  <2>4. Within(s.identity.name, n)  BY <2>2, <2>3, SpellingSaysNothing
  <2>5. ~s.ambiguous => \A c \in Of(p) \ {s.identity} : normalize(c.name) # normalize(s.identity.name)
    BY <2>2
  <2>6. ~s.ambiguous => \A c \in Of(p) \ {s.identity} :
            c.name # s.identity.name /\ ~SameButSpelling(c.name, s.identity.name)
    BY <2>5 DEF SameButSpelling
  <2> QED  BY <2>2, <2>3, <2>4, <2>6 DEF s
<1> QED  BY <1>1, <1>2

(* A name tried that says no more than the reported one finds its match.   *)
LEMMA FoundIsRight ==
    ASSUME MatchInv, NEW p, NEW says, IsName(says), Key(p, says) \notin DOMAIN exact,
           NEW n, IsName(n), Within(n, says), Found(p, n),
           NEW method, method = "suffix" \/ (method = "normalized" /\ n = says)
    PROVE  Judged(p, says, Selected(Lookup(p, n), method))
<1> DEFINE s == Lookup(p, n)
           r == Selected(s, method)
<1> SUFFICES Judged(p, says, r)  OBVIOUS
<1>1. /\ s.ambiguous \in BOOLEAN
      /\ s.identity \in Of(p) /\ IsName(s.identity.name) /\ Within(s.identity.name, n)
      /\ ~s.ambiguous => \A c \in Of(p) \ {s.identity} : c.name # s.identity.name
      /\ Key(p, n) \notin DOMAIN exact /\ ~s.ambiguous =>
           \A c \in Of(p) \ {s.identity} : ~SameButSpelling(c.name, s.identity.name)
  BY FoundSaysTheSame
<1> HIDE DEF s
<1>2. ExactFirst(p, says, r)  BY NothingIsSpelled
<1>3. CASE s.ambiguous
  <2>1. r.status = "ambiguous"  BY <1>3 DEF Selected
  <2> HIDE DEF r
  <2> QED  BY <1>2, <2>1 DEF Judged, MatchIsTrue, UnknownIsTrue
<1>4. CASE ~s.ambiguous
  <2>1. r.status = "matched" /\ r.identity = s.identity /\ r.method = method  BY <1>4 DEF Selected
  <2> HIDE DEF r
  <2>2. Within(s.identity.name, says)  BY <1>1 DEF Within
  <2>3. method = "normalized" => Key(p, n) \notin DOMAIN exact  OBVIOUS
  <2>4. method # "dated" /\ method \in {"normalized", "suffix"}  OBVIOUS
  <2>5. MatchIsTrue(p, says, r)  BY <1>1, <1>4, <2>1, <2>2, <2>3, <2>4 DEF MatchIsTrue, Within
  <2>6. UnknownIsTrue(p, says, r)  BY <2>1 DEF UnknownIsTrue
  <2> QED  BY <1>2, <2>5, <2>6 DEF Judged
<1> QED  BY <1>3, <1>4

(* An undated name finds the one dated identity of its stem, or several.   *)
LEMMA DatedIsRight ==
    ASSUME MatchInv, NEW p, NEW says, IsName(says), Key(p, says) \notin DOMAIN exact, ~Found(p, says)
    PROVE  Judged(p, says, Dated(p, says))
<1> DEFINE r == Dated(p, says)
           hits == {Key(p, normalize(n)) : n \in Undated(says)} \cap DOMAIN datedNormalized
<1> SUFFICES Judged(p, says, r)  OBVIOUS
<1>1. ExactFirst(p, says, r)  BY NothingIsSpelled
<1>2. UnknownIsTrue(p, says, r)
  <2>1. Key(p, normalize(says)) \notin DOMAIN normalized  BY DEF Found
  <2>2. \A c \in Of(p) : normalize(c.name) # normalize(says)  BY <2>1, ReadNormal
  <2> QED  BY <2>2 DEF UnknownIsTrue, SameButSpelling
<1>3. CASE hasDateSuffix(says) \/ hits = {}
  <2>1. r = Unknown /\ r.status = "unknown"  BY <1>3 DEF Dated, Unknown
  <2> HIDE DEF r
  <2> QED  BY <1>1, <1>2, <2>1 DEF Judged, MatchIsTrue
<1>4. CASE ~hasDateSuffix(says) /\ hits # {}
  <2> DEFINE k == CHOOSE h \in hits : TRUE
             l == CHOOSE h \in hits : hits = {k, h}
             s == datedNormalized[k]
             t == datedNormalized[l]
             m == mergeSelections(s, t)
  <2>1. r = Selected(m, "dated")  BY <1>4 DEF Dated
  <2>2. \A n \in Undated(says) : IsName(n) /\ Within(n, says)
    <3>1. Within(says, says)  BY DEF Within
    <3>2. isFast(says) => IsName(Stripped(says)) /\ Within(Stripped(says), says)
      BY StrippedSaysLess DEF isFast, EndsIn
    <3> QED  BY <3>1, <3>2 DEF Undated
  <2>3. k \in hits /\ l \in hits /\ hits = {k, l}
    <3>1. k \in hits  BY <1>4
    <3>2. \E h \in hits : hits = {k, h}
      <4>1. PICK x, y : hits \subseteq {x, y}
        <5>1. hits \subseteq {Key(p, normalize(says)), Key(p, normalize(Stripped(says)))}  BY DEF Undated
        <5> QED  BY <5>1
      <4> HIDE DEF hits, k
      <4> QED  BY <3>1, <4>1
    <3> QED  BY <3>1, <3>2
  <2>4. ASSUME NEW h \in hits, NEW n \in Undated(says), h = Key(p, normalize(n))
        PROVE  LET u == datedNormalized[h]
                   has(c) == isDated(c.name) /\ normalize(Stripped(c.name)) = normalize(n)
               IN  /\ u = [identity |-> u.identity, ambiguous |-> u.ambiguous] /\ u.ambiguous \in BOOLEAN
                   /\ u.identity \in Of(p) /\ has(u.identity)
                   /\ u.ambiguous <=> \E c \in Of(p) : has(c) /\ c # u.identity
    BY <2>4, ReadDated
  <2>5. \A h \in hits : \E n \in Undated(says) : h = Key(p, normalize(n))  OBVIOUS
  <2>6. \A n \in Undated(says), c \in Of(p) :
            isDated(c.name) /\ normalize(Stripped(c.name)) = normalize(n) => Key(p, normalize(n)) \in hits
    BY ReadDated
  <2> HIDE DEF hits, k, l, r
  <2>7. PICK n \in Undated(says) : k = Key(p, normalize(n))  BY <2>3, <2>5
  <2>8. PICK o \in Undated(says) : l = Key(p, normalize(o))  BY <2>3, <2>5
  <2>9. /\ s = [identity |-> s.identity, ambiguous |-> s.ambiguous] /\ s.ambiguous \in BOOLEAN
        /\ s.identity \in Of(p) /\ isDated(s.identity.name)
        /\ normalize(Stripped(s.identity.name)) = normalize(n)
        /\ s.ambiguous <=> \E c \in Of(p) : /\ isDated(c.name) /\ c # s.identity
                                            /\ normalize(Stripped(c.name)) = normalize(n)
    BY <2>3, <2>4, <2>7
  <2>10. /\ t.ambiguous \in BOOLEAN
         /\ t.ambiguous <=> \E c \in Of(p) : /\ isDated(c.name) /\ c # t.identity
                                             /\ normalize(Stripped(c.name)) = normalize(o)
    BY <2>3, <2>4, <2>8
  <2> HIDE DEF s, t
  <2>11. m = [identity |-> s.identity, ambiguous |-> s.ambiguous \/ t.ambiguous \/ s.identity # t.identity]
    BY <2>9 DEF mergeSelections
  <2> HIDE DEF m
  <2>12. CASE s.ambiguous \/ t.ambiguous \/ s.identity # t.identity
    <3>1. m.ambiguous  BY <2>11, <2>12
    <3>2. r.status = "ambiguous"  BY <2>1, <3>1 DEF Selected
    <3> QED  BY <1>1, <1>2, <3>2 DEF Judged, MatchIsTrue
  <2>13. CASE ~s.ambiguous /\ ~t.ambiguous /\ s.identity = t.identity
    <3> DEFINE id == s.identity
    <3>1. ~m.ambiguous /\ m.identity = id  BY <2>11, <2>13
    <3>2. r.status = "matched" /\ r.identity = id /\ r.method = "dated"  BY <2>1, <3>1 DEF Selected
    <3>3. ASSUME NEW c \in Of(p) \ {id}, isDated(c.name), NEW q \in Undated(says),
                 normalize(Stripped(c.name)) = normalize(q)
          PROVE  FALSE
      <4>1. Key(p, normalize(q)) \in hits  BY <2>6, <3>3
      <4>2. Key(p, normalize(q)) = k \/ Key(p, normalize(q)) = l  BY <2>3, <4>1
      <4>3. normalize(q) = normalize(n) \/ normalize(q) = normalize(o)  BY <2>7, <2>8, <4>2 DEF Key
      <4> QED  BY <2>9, <2>10, <2>13, <3>3, <4>3
    <3>4. IsName(id.name) /\ \A c \in Of(p) : IsName(c.name)  BY <2>9, ListedAreModels DEF Of
    <3>5. id.name.stem = says.stem /\ (Fast(id.name) => Fast(says))
      <4>1. IsName(n) /\ Within(n, says)  BY <2>2
      <4>2. id.name.stem = n.stem /\ (Fast(id.name) => Fast(n))  BY <2>9, <3>4, <4>1, DatedSaysMore
      <4> QED  BY <4>1, <4>2 DEF Within
    <3>6. DateOf(says) = {}  BY <1>4, UndatedTellsNoDate
    <3>7. \A c \in Of(p) \ {id} : c.name # id.name /\ ~SameButSpelling(c.name, id.name)
      <4> SUFFICES ASSUME NEW c \in Of(p) \ {id}, normalize(c.name) = normalize(id.name) PROVE FALSE
        BY DEF SameButSpelling
      <4>1. isDated(c.name) /\ normalize(Stripped(c.name)) = normalize(Stripped(id.name))
        BY <2>9, <3>4, SpellingSaysNothing
      <4> QED  BY <2>9, <3>3, <4>1
    <3>8. \A c \in Of(p) \ {id}, q \in Undated(says) :
              isDated(c.name) => ~SameButSpelling(Stripped(c.name), q)
      BY <3>3 DEF SameButSpelling
    <3>9. MatchIsTrue(p, says, r)  BY <2>9, <3>2, <3>5, <3>6, <3>7, <3>8 DEF MatchIsTrue
    <3> QED  BY <1>1, <1>2, <3>9 DEF Judged
  <2> QED  BY <2>12, <2>13
<1> QED  BY <1>3, <1>4

(* Every policy is right.                                                  *)
LEMMA ResolvedIsRight ==
    ASSUME MatchInv, NEW p, NEW says, IsName(says)
    PROVE  Judged(p, says, Resolved(p, says))
<1> DEFINE others == Alternatives(says)
           hits == {k \in DOMAIN others : Found(p, others[k])}
           first == CHOOSE k \in hits : \A j \in hits : k <= j
<1>1. CASE Key(p, says) \in DOMAIN exact
  <2>1. Resolved(p, says) = Selected(exact[Key(p, says)], "exact")  BY <1>1 DEF Resolved, Found
  <2>2. Judged(p, says, Selected(exact[Key(p, says)], "exact"))  BY <1>1, ExactIsRight
  <2> QED  BY <2>1, <2>2
<1>2. CASE Key(p, says) \notin DOMAIN exact /\ Found(p, says)
  <2>1. Resolved(p, says) = Selected(Lookup(p, says), "normalized")  BY <1>2 DEF Resolved
  <2>2. Within(says, says)  BY DEF Within
  <2>3. Judged(p, says, Selected(Lookup(p, says), "normalized"))  BY <1>2, <2>2, FoundIsRight
  <2> QED  BY <2>1, <2>3
<1>3. CASE ~Found(p, says) /\ hits # {}
  <2>1. Key(p, says) \notin DOMAIN exact  BY <1>3 DEF Found
  <2>2. Resolved(p, says) = Selected(Lookup(p, others[first]), "suffix")  BY <1>3, <2>1 DEF Resolved
  <2>3. DOMAIN others \subseteq {1, 2}  BY AlternativesSayLess
  <2>4. first \in hits
    <3>1. hits \subseteq {1, 2}  BY <2>3
    <3> HIDE DEF hits
    <3>2. \E k \in hits : \A j \in hits : k <= j
      <4>1. CASE 1 \in hits
        <5>1. \A j \in hits : 1 <= j  BY <3>1
        <5> QED  BY <4>1, <5>1
      <4>2. CASE 1 \notin hits
        <5>1. 2 \in hits /\ \A j \in hits : j = 2  BY <1>3, <3>1, <4>2
        <5> QED  BY <5>1
      <4> QED  BY <4>1, <4>2
    <3> QED  BY <3>2
  <2>5. first \in DOMAIN others /\ Found(p, others[first])
    <3> HIDE DEF first
    <3> QED  BY <2>4
  <2> HIDE DEF first
  <2>6. IsName(others[first]) /\ Within(others[first], says)  BY <2>5, AlternativesSayLess
  <2> HIDE DEF others
  <2>7. Judged(p, says, Selected(Lookup(p, others[first]), "suffix"))  BY <2>1, <2>5, <2>6, FoundIsRight
  <2> QED  BY <2>2, <2>7
<1>4. CASE ~Found(p, says) /\ hits = {}
  <2>1. Key(p, says) \notin DOMAIN exact  BY <1>4 DEF Found
  <2>2. Resolved(p, says) = Dated(p, says)  BY <1>4, <2>1 DEF Resolved
  <2> QED  BY <1>4, <2>1, <2>2, DatedIsRight
<1>5. Key(p, says) \in DOMAIN exact => Found(p, says)  BY DEF Found
<1> QED  BY <1>1, <1>2, <1>3, <1>4, <1>5

LEMMA MatchInvSuffices == MatchInv => NoModelIsPricedAsAnother
<1> SUFFICES ASSUME MatchInv, listing = "resolved" PROVE NoModelIsPricedAsAnother
  BY DEF NoModelIsPricedAsAnother
<1>1. reported \in ReportedModels /\ resolution = Resolved(reported.provider, reported.name)
  BY DEF MatchInv
<1>2. IsName(reported.name)  BY <1>1, ModelMatchAssumption
<1>3. Judged(reported.provider, reported.name, resolution)  BY <1>1, <1>2, ResolvedIsRight
<1> QED  BY <1>3 DEF Judged, MatchIsTrue, ExactFirst, UnknownIsTrue, Spelled, Of, NoModelIsPricedAsAnother

(* A model is priced as itself or not at all, of whatever identities a     *)
(* price list has, and in whatever order they are indexed.                 *)
THEOREM ModelsArePricedAsThemselves == MatchSpec => []NoModelIsPricedAsAnother
<1>1. MatchInv /\ UNCHANGED matchVars => MatchInv'
  <2> SUFFICES ASSUME MatchInv, UNCHANGED matchVars PROVE MatchInv'  OBVIOUS
  <2>1. UNCHANGED <<listing, left, listed, exact, normalized, datedNormalized, reported, resolution>>
    BY DEF matchVars
  <2>2. Resolved(reported.provider, reported.name)' = Resolved(reported.provider, reported.name)
    BY <2>1 DEF Resolved, Found, Lookup, Dated
  <2> QED  BY <2>1, <2>2 DEF MatchInv, ExactFiled, NormalFiled, DatedFiled, Indexes
<1>2. MatchInv /\ [MatchNext]_matchVars => MatchInv'
  BY <1>1, MatchInvAdd, MatchInvResolve DEF MatchNext
<1> QED  BY <1>2, MatchInvInit, MatchInvSuffices, PTL DEF MatchSpec

-----------------------------------------------------------------------------
(* Rates as parseCostRow leaves them, and schedules as parseCost does:     *)
(* tiers are numbered from 1.                                              *)
ParsedRows == [Categories -> Nat \cup {Missing}]
IsSchedule(s) ==
    /\ s.base \in ParsedRows
    /\ \E n \in Nat : DOMAIN s.tiers = 1 .. n
    /\ \A k \in DOMAIN s.tiers : s.tiers[k].rates \in ParsedRows

(* The modes read so far; the Fast schedule is of the one that is Fast.    *)
FastRead == {k \in DOMAIN entry.modes \ modesLeft : Candidate(entry.modes[k])}
FastIsTheirs ==
    \/ fast = {} /\ FastRead = {}
    \/ \E k, f : FastRead = {k} /\ fast = {f} /\ f.base = entry.modes[k].rates

PremiumsAreKept ==
    \A f \in fast, k \in DOMAIN normal.tiers, c \in Categories :
        LET derived == f.tiers[k].rates[c]
        IN  derived # Missing => derived * normal.base[c] = f.base[c] * normal.tiers[k].rates[c]

(* A tariff in the making, and the turn that it has valued.                *)
PriceTypeOK ==
    /\ entry \in Entries /\ modesLeft \subseteq DOMAIN entry.modes
    /\ parsing \in {"cost", "modes", "rejected", "accepted", "valued"}
    /\ IsSchedule(normal) /\ \A f \in fast : IsSchedule(f)

PriceInv ==
    /\ PriceTypeOK
    /\ parsing = "cost" => fast = {} /\ modesLeft = DOMAIN entry.modes
    /\ parsing = "rejected" => ~Fine
    /\ parsing \in {"modes", "accepted", "valued"} =>
         /\ \A cost \in entry.cost : Acceptable(cost)
         /\ \A k \in DOMAIN entry.modes \ modesLeft : ~BadMode(entry.modes[k])
         /\ FastIsTheirs
    /\ parsing \in {"accepted", "valued"} => modesLeft = {} /\ PremiumsAreKept
    /\ parsing = "valued" => turn \in Turns /\ contribution = Valued(turn)

LEMMA PriceInvInit == PricingInit => PriceInv
<1> SUFFICES ASSUME PricingInit PROVE PriceInv  OBVIOUS
<1>1. DOMAIN NoSchedule.tiers = 1 .. 0  BY DEF NoSchedule
<1>2. IsSchedule(NoSchedule)
  BY <1>1 DEF IsSchedule, NoSchedule, NoRates, ParsedRows, Missing
<1> QED  BY <1>2 DEF PricingInit, PriceInv, PriceTypeOK

(* A cost that is acceptable makes a schedule.                             *)
LEMMA CostMakesASchedule ==
    ASSUME NEW cost, IsCost(cost), Acceptable(cost), NEW tiers \in Tiers(cost)
    PROVE  IsSchedule([base |-> cost.base, tiers |-> tiers])
<1> DEFINE s == [base |-> cost.base, tiers |-> tiers]
<1>1. \A row \in CostRows : parseCostRow(row) => row \in ParsedRows
  BY DEF CostRows, parseCostRow, ParsedRows
<1>2. s.base \in ParsedRows  BY <1>1 DEF IsCost, Acceptable
<1>3. CASE cost.tiers = <<>> /\ cost.legacy # {}
  <2>1. PICK r \in cost.legacy : tiers = <<[size |-> LegacyContext, rates |-> r]>>
    BY <1>3 DEF Tiers
  <2>2. DOMAIN tiers = 1 .. 1 /\ tiers[1].rates = r  BY <2>1
  <2>3. r \in ParsedRows  BY <1>1 DEF IsCost, Acceptable
  <2> QED  BY <1>2, <2>2, <2>3 DEF IsSchedule
<1>4. CASE ~(cost.tiers = <<>> /\ cost.legacy # {})
  <2>1. /\ DOMAIN tiers = DOMAIN cost.tiers
        /\ \A j \in DOMAIN tiers : \E k \in DOMAIN cost.tiers : tiers[j] = cost.tiers[k]
    BY <1>4 DEF Tiers, Sorted
  <2>2. DOMAIN cost.tiers = 1 .. Len(cost.tiers) /\ Len(cost.tiers) \in Nat  BY DEF IsCost
  <2>3. ASSUME NEW k \in DOMAIN cost.tiers PROVE cost.tiers[k].rates \in ParsedRows
    <3> DEFINE Tier == [size : Nat \cup {Bad}, rates : CostRows]
    <3>1. cost.tiers \in Seq(Tier)  BY DEF IsCost
    <3>2. cost.tiers[k].rates \in CostRows
      <4> HIDE DEF Tier
      <4>1. cost.tiers[k] \in Tier  BY <2>2, <3>1
      <4> QED  BY <4>1 DEF Tier
    <3>3. parseCostRow(cost.tiers[k].rates)  BY DEF Acceptable
    <3> QED  BY <1>1, <3>2, <3>3
  <2> QED  BY <1>2, <2>1, <2>2, <2>3 DEF IsSchedule
<1> QED  BY <1>3, <1>4

LEMMA PriceInvCost == PriceInv /\ parseCost => PriceInv'
<1> SUFFICES ASSUME PriceInv, parseCost PROVE PriceInv'  OBVIOUS
<1>1. /\ parsing = "cost" /\ fast = {} /\ modesLeft = DOMAIN entry.modes /\ entry \in Entries
      /\ IsSchedule(normal) /\ UNCHANGED <<entry, modesLeft, fast, turn, contribution>>
  BY DEF PriceInv, PriceTypeOK, parseCost
<1>2. FastRead' = {} /\ FastIsTheirs'  BY <1>1 DEF FastRead, FastIsTheirs
<1>3. CASE parsing' = "modes"
  <2>1. IsSchedule(normal') /\ \A cost \in entry.cost : Acceptable(cost)
    <3>1. CASE entry.cost = {}  BY <1>1, <1>3, <3>1 DEF parseCost
    <3>2. CASE entry.cost # {}
      <4>1. PICK cost \in entry.cost :
              Acceptable(cost) /\ \E tiers \in Tiers(cost) : normal' = [base |-> cost.base, tiers |-> tiers]
        BY <1>3, <3>2 DEF parseCost
      <4>2. IsCost(cost) /\ \A other \in entry.cost : other = cost  BY <1>1, PricingAssumption
      <4> QED  BY <4>1, <4>2, CostMakesASchedule
    <3> QED  BY <3>1, <3>2
  <2> QED  BY <1>1, <1>2, <1>3, <2>1 DEF PriceInv, PriceTypeOK
<1>4. CASE parsing' = "rejected"
  <2>1. \E cost \in entry.cost : ~Acceptable(cost) /\ UNCHANGED normal  BY <1>4 DEF parseCost
  <2>2. ~Fine'  BY <1>1, <2>1 DEF Fine
  <2> QED  BY <1>1, <1>4, <2>1, <2>2 DEF PriceInv, PriceTypeOK
<1> QED  BY <1>3, <1>4 DEF parseCost

(* Two modes that are Fast are too many.                                   *)
LEMMA TwoAreTooMany ==
    ASSUME entry \in Entries, NEW j \in FastModes, NEW k \in FastModes, j # k
    PROVE  ~(Cardinality(FastModes) <= 1)
<1>1. DOMAIN entry.modes = 1 .. Len(entry.modes) /\ Len(entry.modes) \in Nat  BY PricingAssumption
<1>2. IsFiniteSet(DOMAIN entry.modes)  BY <1>1, FS_Interval
<1>3. FastModes \in SUBSET DOMAIN entry.modes  BY DEF FastModes
<1>4. IsFiniteSet(FastModes)  BY <1>2, <1>3, FS_Subset
<1>5. Cardinality(FastModes) \in Nat  BY <1>4, FS_CardinalityType
<1>6. Cardinality(FastModes) # 0  BY <1>4, FS_EmptySet
<1>7. Cardinality(FastModes) # 1  BY <1>4, FS_Singleton
<1> QED  BY <1>5, <1>6, <1>7

LEMMA PriceInvMode == PriceInv /\ ParseMode => PriceInv'
<1> SUFFICES ASSUME PriceInv, ParseMode PROVE PriceInv'  OBVIOUS
<1>1. /\ parsing = "modes" /\ UNCHANGED <<entry, normal, turn, contribution>>
      /\ \A cost \in entry.cost : Acceptable(cost)
      /\ \A k \in DOMAIN entry.modes \ modesLeft : ~BadMode(entry.modes[k])
      /\ FastIsTheirs /\ PriceTypeOK
  BY DEF PriceInv, ParseMode
<1> DEFINE mode(k) == entry.modes[k]
           second(k) == Candidate(mode(k)) /\ fast # {}
<1>2. PICK k \in modesLeft :
        /\ parsing' = IF BadMode(mode(k)) \/ second(k) THEN "rejected" ELSE "modes"
        /\ fast' = IF Candidate(mode(k)) /\ ~BadMode(mode(k)) /\ ~second(k)
                   THEN {[base |-> mode(k).rates, tiers |-> <<>>]} ELSE fast
        /\ modesLeft' = modesLeft \ {k}
  BY DEF ParseMode
<1>3. k \in DOMAIN entry.modes /\ modesLeft \subseteq DOMAIN entry.modes  BY <1>1 DEF PriceTypeOK
<1>4. CASE BadMode(mode(k)) \/ second(k)
  <2>1. parsing' = "rejected" /\ fast' = fast  BY <1>2, <1>4
  <2>2. ~Fine
    <3>1. CASE BadMode(mode(k))  BY <1>3, <3>1 DEF Fine
    <3>2. CASE second(k)
      <4>1. PICK j : FastRead = {j}  BY <1>1, <3>2 DEF FastIsTheirs
      <4>2. j \in FastModes /\ j # k  BY <4>1, <1>2 DEF FastRead, FastModes
      <4>3. k \in FastModes  BY <1>3, <3>2 DEF FastModes
      <4>4. ~(Cardinality(FastModes) <= 1)  BY <1>1, <4>2, <4>3, TwoAreTooMany DEF PriceTypeOK
      <4> QED  BY <4>4 DEF Fine
    <3> QED  BY <1>4, <3>1, <3>2
  <2>3. ~Fine'  BY <1>1, <2>2 DEF Fine, FastModes
  <2> QED  BY <1>1, <1>2, <2>1, <2>3 DEF PriceInv, PriceTypeOK
<1>5. CASE ~BadMode(mode(k)) /\ ~second(k)
  <2>1. parsing' = "modes"  BY <1>2, <1>5
  <2>2. \A i \in DOMAIN entry.modes \ modesLeft' : ~BadMode(entry.modes[i])  BY <1>1, <1>2, <1>5
  <2>3. FastRead' = IF Candidate(mode(k)) THEN FastRead \cup {k} ELSE FastRead
    BY <1>1, <1>2, <1>3 DEF FastRead
  <2>4. FastIsTheirs' /\ \A f \in fast' : IsSchedule(f)
    <3>1. CASE Candidate(mode(k))
      <4> DEFINE f == [base |-> mode(k).rates, tiers |-> <<>>]
      <4>1. fast = {} /\ fast' = {f}  BY <1>2, <1>5, <3>1
      <4>2. FastRead' = {k}  BY <1>1, <2>3, <3>1, <4>1 DEF FastIsTheirs
      <4>3. f.base = entry.modes[k].rates  OBVIOUS
      <4>4. mode(k).rates \in CostRows  BY <1>1, <1>3, PricingAssumption DEF PriceTypeOK
      <4>5. f.base \in ParsedRows  BY <1>5, <4>4 DEF BadMode, parseCostRow, CostRows, ParsedRows
      <4>6. DOMAIN f.tiers = 1 .. 0  OBVIOUS
      <4>7. IsSchedule(f)  BY <4>5, <4>6 DEF IsSchedule
      <4> HIDE DEF f
      <4> QED  BY <1>1, <4>1, <4>2, <4>3, <4>7 DEF FastIsTheirs
    <3>2. CASE ~Candidate(mode(k))
      <4>1. fast' = fast /\ FastRead' = FastRead  BY <1>2, <2>3, <3>2
      <4> QED  BY <1>1, <4>1 DEF FastIsTheirs, PriceTypeOK
    <3> QED  BY <3>1, <3>2
  <2> QED  BY <1>1, <1>2, <2>1, <2>2, <2>4 DEF PriceInv, PriceTypeOK
<1> QED  BY <1>4, <1>5

(* What is derived is the product itself.                                  *)
LEMMA DerivedIsExact ==
    ASSUME NEW b \in Nat \cup {Missing}, NEW q \in Nat \cup {Missing}, NEW x \in Nat \cup {Missing}
    PROVE  /\ Derived(b, q, x) \in Nat \cup {Missing}
           /\ Derived(b, q, x) # Missing => Derived(b, q, x) * b = q * x
<1>1. CASE Missing \in {b, q, x} \/ b = 0  BY <1>1 DEF Derived
<1>2. CASE Missing \notin {b, q, x} /\ b # 0 /\ 0 \in {q, x}
  <2>1. Derived(b, q, x) = 0  BY <1>2 DEF Derived
  <2>2. b \in Nat /\ q \in Nat /\ x \in Nat  BY <1>2
  <2>3. 0 * b = 0  BY <2>2
  <2>4. q * x = 0  BY <1>2, <2>2
  <2> QED  BY <2>1, <2>3, <2>4
<1>3. CASE Missing \notin {b, q, x} /\ b # 0 /\ 0 \notin {q, x}
  <2> DEFINE p == q * x
  <2>1. b \in Nat /\ b > 0 /\ q \in Nat /\ x \in Nat  BY <1>3
  <2>2. p \in Nat  BY <2>1
  <2>3. Derived(b, q, x) = IF p % b = 0 /\ p \div b < MaxRate THEN p \div b ELSE Missing
    BY <1>3 DEF Derived
  <2> HIDE DEF p
  <2>4. p \div b \in Nat  BY <2>1, <2>2
  <2>5. p = b * (p \div b) + (p % b)  BY <2>1, <2>2
  <2>6. p % b = 0 => (p \div b) * b = p
    <3> SUFFICES ASSUME p % b = 0 PROVE (p \div b) * b = p  OBVIOUS
    <3>1. PICK d \in Nat : d = p \div b  BY <2>4
    <3>2. PICK m \in Nat : m = p % b  BY <2>1, <2>2
    <3>3. p = b * d + m /\ m = 0  BY <2>5, <3>1, <3>2
    <3>4. d * b = p  BY <2>1, <3>1, <3>3
    <3> QED  BY <3>1, <3>4
  <2> QED  BY <2>3, <2>4, <2>6 DEF p
<1> QED  BY <1>1, <1>2, <1>3

LEMMA PriceInvFinish == PriceInv /\ FinishModes => PriceInv'
<1> SUFFICES ASSUME PriceInv, FinishModes PROVE PriceInv'  OBVIOUS
<1> DEFINE Whole(f) ==
      [base |-> f.base,
       tiers |-> [k \in DOMAIN normal.tiers |->
           [size |-> normal.tiers[k].size,
            rates |-> [c \in Categories |->
                Derived(normal.base[c], f.base[c], normal.tiers[k].rates[c])]]]]
<1>1. /\ parsing = "modes" /\ modesLeft = {} /\ parsing' = "accepted"
      /\ fast' = {Whole(f) : f \in fast}
      /\ UNCHANGED <<entry, modesLeft, normal, turn, contribution>>
  BY DEF FinishModes
<1>2. /\ \A cost \in entry.cost : Acceptable(cost)
      /\ \A k \in DOMAIN entry.modes \ modesLeft : ~BadMode(entry.modes[k])
      /\ FastIsTheirs /\ PriceTypeOK
  BY <1>1 DEF PriceInv
<1>3. ASSUME NEW f \in fast
      PROVE  /\ IsSchedule(Whole(f)) /\ Whole(f).base = f.base
             /\ \A k \in DOMAIN normal.tiers, c \in Categories :
                  Whole(f).tiers[k].rates[c] # Missing =>
                      Whole(f).tiers[k].rates[c] * normal.base[c] = f.base[c] * normal.tiers[k].rates[c]
  <2> DEFINE w == Whole(f)
  <2>1. f.base \in ParsedRows /\ IsSchedule(normal) /\ normal.base \in ParsedRows
    BY <1>2 DEF PriceTypeOK, IsSchedule
  <2>2. w.base = f.base /\ DOMAIN w.tiers = DOMAIN normal.tiers  OBVIOUS
  <2>3. ASSUME NEW k \in DOMAIN normal.tiers, NEW c \in Categories
        PROVE  /\ w.tiers[k].rates[c] \in Nat \cup {Missing}
               /\ w.tiers[k].rates[c] # Missing =>
                      w.tiers[k].rates[c] * normal.base[c] = f.base[c] * normal.tiers[k].rates[c]
    <3> DEFINE b == normal.base[c]
               q == f.base[c]
               x == normal.tiers[k].rates[c]
    <3>1. normal.tiers[k].rates \in ParsedRows  BY <2>1 DEF IsSchedule
    <3>2. b \in Nat \cup {Missing} /\ q \in Nat \cup {Missing} /\ x \in Nat \cup {Missing}
      BY <2>1, <3>1 DEF ParsedRows
    <3>3. w.tiers[k].rates[c] = Derived(b, q, x)  OBVIOUS
    <3> HIDE DEF b, q, x, w
    <3>4. /\ Derived(b, q, x) \in Nat \cup {Missing}
          /\ Derived(b, q, x) # Missing => Derived(b, q, x) * b = q * x
      BY <3>2, DerivedIsExact
    <3> QED  BY <3>3, <3>4 DEF b, q, x
  <2>4. \A k \in DOMAIN normal.tiers : w.tiers[k].rates = [c \in Categories |-> w.tiers[k].rates[c]]
    OBVIOUS
  <2> SUFFICES /\ IsSchedule(w) /\ w.base = f.base
               /\ \A k \in DOMAIN normal.tiers, c \in Categories :
                    w.tiers[k].rates[c] # Missing =>
                        w.tiers[k].rates[c] * normal.base[c] = f.base[c] * normal.tiers[k].rates[c]
    OBVIOUS
  <2> HIDE DEF w
  <2>5. \A k \in DOMAIN normal.tiers : w.tiers[k].rates \in ParsedRows  BY <2>3, <2>4 DEF ParsedRows
  <2>6. IsSchedule(w)  BY <2>1, <2>2, <2>5 DEF IsSchedule
  <2> QED  BY <2>2, <2>3, <2>6
<1>4. \A f \in fast' : IsSchedule(f)
  <2> HIDE DEF Whole
  <2> QED  BY <1>1, <1>3
<1>5. PremiumsAreKept'
  <2> HIDE DEF Whole
  <2> SUFFICES ASSUME NEW g \in fast', NEW k \in DOMAIN normal.tiers, NEW c \in Categories,
                      g.tiers[k].rates[c] # Missing
               PROVE  g.tiers[k].rates[c] * normal.base[c] = g.base[c] * normal.tiers[k].rates[c]
    BY <1>1 DEF PremiumsAreKept
  <2>1. PICK f \in fast : g = Whole(f)  BY <1>1
  <2> QED  BY <1>3, <2>1
<1>6. FastIsTheirs'
  <2> HIDE DEF Whole
  <2>1. FastRead' = FastRead  BY <1>1 DEF FastRead
  <2>2. CASE fast = {} /\ FastRead = {}  BY <1>1, <2>1, <2>2 DEF FastIsTheirs
  <2>3. CASE \E k, f : FastRead = {k} /\ fast = {f} /\ f.base = entry.modes[k].rates
    <3>1. PICK k, f : FastRead = {k} /\ fast = {f} /\ f.base = entry.modes[k].rates  BY <2>3
    <3>2. fast' = {Whole(f)} /\ Whole(f).base = entry.modes[k].rates  BY <1>1, <1>3, <3>1
    <3> QED  BY <1>1, <2>1, <3>1, <3>2 DEF FastIsTheirs
  <2> QED  BY <1>2, <2>2, <2>3 DEF FastIsTheirs
<1>7. IsSchedule(normal')  BY <1>1, <1>2 DEF PriceTypeOK
<1> HIDE DEF Whole
<1> QED  BY <1>1, <1>2, <1>4, <1>5, <1>6, <1>7 DEF PriceInv, PriceTypeOK

LEMMA PriceInvValue == PriceInv /\ Value => PriceInv'
<1> SUFFICES ASSUME PriceInv, Value PROVE PriceInv'  OBVIOUS
<1>1. /\ parsing = "accepted" /\ parsing' = "valued"
      /\ turn' \in Turns /\ contribution' = Valued(turn')
      /\ UNCHANGED <<entry, modesLeft, normal, fast>>
  BY DEF Value
<1>2. turn' \in Turns'  BY <1>1 DEF Turns
<1>3. contribution' = Valued(turn)'  BY <1>1 DEF Valued, OpenAI
<1>4. FastRead' = FastRead  BY <1>1 DEF FastRead
<1>5. FastIsTheirs' /\ PremiumsAreKept'  BY <1>1, <1>4 DEF PriceInv, FastIsTheirs, PremiumsAreKept
<1> QED  BY <1>1, <1>2, <1>3, <1>5 DEF PriceInv, PriceTypeOK

LEMMA PriceInvStays == PriceInv /\ UNCHANGED pricingVars => PriceInv'
<1> SUFFICES ASSUME PriceInv, UNCHANGED pricingVars PROVE PriceInv'  OBVIOUS
<1>1. UNCHANGED <<parsing, entry, modesLeft, normal, fast, turn, contribution>>  BY DEF pricingVars
<1>2. Fine' = Fine  BY <1>1 DEF Fine, FastModes
<1>3. FastRead' = FastRead  BY <1>1 DEF FastRead
<1>4. FastIsTheirs' = FastIsTheirs /\ PremiumsAreKept' = PremiumsAreKept
  BY <1>1, <1>3 DEF FastIsTheirs, PremiumsAreKept
<1>5. Valued(turn)' = Valued(turn) /\ Turns' = Turns  BY <1>1 DEF Valued, OpenAI, Turns
<1> QED  BY <1>1, <1>2, <1>4, <1>5 DEF PriceInv, PriceTypeOK

-----------------------------------------------------------------------------
(* The rates of any input are a row of the schedule.                       *)
RowsOf(s) == {s.base} \cup {s.tiers[k].rates : k \in DOMAIN s.tiers}

LEMMA RatesAreARow ==
    ASSUME NEW s, IsSchedule(s), NEW input
    PROVE  rates(s, input) \in RowsOf(s) /\ RowsOf(s) \subseteq ParsedRows
<1> DEFINE below == {k \in DOMAIN s.tiers : s.tiers[k].size < input}
<1>1. PICK n \in Nat : DOMAIN s.tiers = 1 .. n  BY DEF IsSchedule
<1>2. RowsOf(s) \subseteq ParsedRows  BY DEF IsSchedule, RowsOf
<1>3. CASE below = {}  BY <1>2, <1>3 DEF rates, RowsOf
<1>4. CASE below # {}
  <2>1. rates(s, input) = s.tiers[Cardinality(below)].rates  BY <1>4 DEF rates
  <2>2. IsFiniteSet(1 .. n) /\ Cardinality(1 .. n) = n  BY FS_Interval
  <2>3. below \in SUBSET (1 .. n)  BY <1>1
  <2> HIDE DEF below
  <2>4. IsFiniteSet(below) /\ Cardinality(below) <= n  BY <2>2, <2>3, FS_Subset
  <2>5. Cardinality(below) \in Nat /\ Cardinality(below) # 0
    BY <1>4, <2>4, FS_CardinalityType, FS_EmptySet
  <2>6. Cardinality(below) \in DOMAIN s.tiers  BY <1>1, <2>4, <2>5
  <2> QED  BY <1>2, <2>1, <2>6 DEF RowsOf
<1> QED  BY <1>3, <1>4

(* A rate that is missing is missed whatever completes the counts.         *)
Completes(u, t) == \A c \in Categories : t[c] # Missing => u[c] = t[c]

LEMMA MissingStays ==
    ASSUME NEW t, IsTurn(t), NEW u, IsTurn(u), Completes(u, t), NEW row, missingRate(t, row)
    PROVE  missingRate(u, row)
<1>1. t.read > 0 => u.read = t.read  BY DEF IsTurn, Completes, Categories, Missing
<1>2. t.write > 0 => u.write = t.write  BY DEF IsTurn, Completes, Categories, Missing
<1> QED  BY <1>1, <1>2 DEF missingRate

LEMMA WholeIsCompleted ==
    ASSUME NEW t, IsTurn(t), NEW u, Completes(u, t), ~Untold(t)
    PROVE  u.input = t.input /\ u.output = t.output /\ u.read = t.read /\ u.write = t.write
BY DEF IsTurn, Completes, Categories, Untold, Missing

(* Each class that counts has a rate, and the sum is theirs.               *)
Charged(paid, row, amount) ==
    /\ \A c \in Categories : paid[c] > 0 => row[c] # Missing
    /\ amount = paid["input"] * row.input + paid["output"] * row.output
                 + paid["read"] * row.read + paid["write"] * row.write

LEMMA PricedTells ==
    ASSUME NEW n, NEW sum, sum = [reason |-> "", amount |-> n]
    PROVE  sum.reason = "" /\ sum.amount = n
OBVIOUS

LEMMA SumIsCharged ==
    ASSUME NEW paid, paid.input \in Nat, paid.output \in Nat, paid.read \in Nat, paid.write \in Nat,
           NEW row \in ParsedRows, ~missingRate(paid, row)
    PROVE  LET sum == sumPricedLines(paid, row)
           IN  /\ sum.reason \in {"", "overflow"}
               /\ sum.reason = "" => Charged(paid, row, sum.amount)
<1> DEFINE amount == Line(paid.input, row.input) + Line(paid.output, row.output)
                      + Line(paid.read, row.read) + Line(paid.write, row.write)
<1>1. row.input \in Int /\ row.output \in Int /\ row.read \in Int /\ row.write \in Int
  BY DEF Categories, ParsedRows, Missing
<1>2. \A n \in Nat, r \in Int : Line(n, r) = n * r  BY DEF Line
<1>3. amount = paid.input * row.input + paid.output * row.output
                + paid.read * row.read + paid.write * row.write
  BY <1>1, <1>2
<1>4. Charged(paid, row, amount)
  <2>1. \A c \in Categories : paid[c] > 0 => row[c] # Missing  BY DEF Categories, missingRate
  <2> HIDE DEF amount
  <2> QED  BY <1>3, <2>1 DEF Charged
<1>5. sumPricedLines(paid, row) =
        IF amount > MaxAmount THEN [reason |-> "overflow"] ELSE [reason |-> "", amount |-> amount]
  BY DEF sumPricedLines
<1> HIDE DEF amount
<1>6. CASE amount > MaxAmount
  <2>1. sumPricedLines(paid, row) = [reason |-> "overflow"]  BY <1>5, <1>6
  <2> QED  BY <2>1
<1>7. CASE ~(amount > MaxAmount)
  <2>1. sumPricedLines(paid, row) = [reason |-> "", amount |-> amount]  BY <1>5, <1>7
  <2>2. sumPricedLines(paid, row).reason = "" /\ sumPricedLines(paid, row).amount = amount
    BY <2>1, PricedTells
  <2> QED  BY <1>4, <2>2
<1> QED  BY <1>6, <1>7

LEMMA AnthropicAtIs ==
    ASSUME NEW t, IsTurn(t), NEW row \in ParsedRows
    PROVE  LET told == AnthropicAt(t, row)
           IN  /\ told.reason = "missing_rate" <=> missingRate(t, row)
               /\ told.reason = "missing_usage" => Untold(t)
               /\ told.reason = "" => Charged(t, row, told.amount)
<1>1. CASE missingRate(t, row)
  <2>1. AnthropicAt(t, row) = [reason |-> "missing_rate"]  BY <1>1 DEF AnthropicAt, Excluded
  <2> QED  BY <1>1, <2>1
<1>2. CASE ~missingRate(t, row) /\ Untold(t)
  <2>1. AnthropicAt(t, row) = [reason |-> "missing_usage"]  BY <1>2 DEF AnthropicAt, Excluded
  <2> QED  BY <1>2, <2>1
<1>3. CASE ~missingRate(t, row) /\ ~Untold(t)
  <2>1. AnthropicAt(t, row) = sumPricedLines(t, row)  BY <1>3 DEF AnthropicAt
  <2>2. t.input \in Nat /\ t.output \in Nat /\ t.read \in Nat /\ t.write \in Nat
    BY <1>3 DEF IsTurn, Untold
  <2>3. LET sum == sumPricedLines(t, row)
        IN  sum.reason \in {"", "overflow"} /\ (sum.reason = "" => Charged(t, row, sum.amount))
    BY <1>3, <2>2, SumIsCharged
  <2> QED  BY <1>3, <2>1, <2>3
<1> QED  BY <1>1, <1>2, <1>3

PaidBy(t) == [input |-> t.input - t.read - t.write, output |-> t.output, read |-> t.read, write |-> t.write]

LEMMA OpenAIAtIs ==
    ASSUME NEW t, IsTurn(t), NEW row \in ParsedRows
    PROVE  LET told == OpenAIAt(t, row)
           IN  /\ told.reason = "missing_rate" <=> missingRate(t, row)
               /\ told.reason = "missing_usage" => Untold(t)
               /\ told.reason = "" => ~Untold(t) /\ Charged(PaidBy(t), row, told.amount)
<1>1. CASE missingRate(t, row)
  <2>1. OpenAIAt(t, row) = [reason |-> "missing_rate"]  BY <1>1 DEF OpenAIAt, Excluded
  <2> QED  BY <1>1, <2>1
<1>2. CASE ~missingRate(t, row) /\ Untold(t)
  <2>1. OpenAIAt(t, row) = [reason |-> "missing_usage"]  BY <1>2 DEF OpenAIAt, Excluded
  <2> QED  BY <1>2, <2>1
<1>3. CASE ~missingRate(t, row) /\ ~Untold(t) /\ (t.read > t.input \/ t.write > t.input - t.read)
  <2>1. OpenAIAt(t, row) = [reason |-> "inconsistent_usage"]  BY <1>3 DEF OpenAIAt, Excluded
  <2> QED  BY <1>3, <2>1
<1>4. CASE ~missingRate(t, row) /\ ~Untold(t) /\ ~(t.read > t.input \/ t.write > t.input - t.read)
  <2> DEFINE paid == PaidBy(t)
  <2>1. OpenAIAt(t, row) = sumPricedLines(paid, row)  BY <1>4 DEF OpenAIAt, PaidBy
  <2>2. t.input \in Nat /\ t.output \in Nat /\ t.read \in Nat /\ t.write \in Nat
    BY <1>4 DEF IsTurn, Untold
  <2>3. /\ paid.input = t.input - t.read - t.write /\ paid.output = t.output
        /\ paid.read = t.read /\ paid.write = t.write
    BY DEF PaidBy
  <2>4. paid.input \in Nat  BY <1>4, <2>2, <2>3
  <2>5. ~missingRate(paid, row)  BY <1>4, <2>3 DEF missingRate
  <2>6. LET sum == sumPricedLines(paid, row)
        IN  sum.reason \in {"", "overflow"} /\ (sum.reason = "" => Charged(paid, row, sum.amount))
    <3> HIDE DEF paid
    <3> QED  BY <2>2, <2>3, <2>4, <2>5, SumIsCharged
  <2> QED  BY <1>4, <2>1, <2>6
<1> QED  BY <1>1, <1>2, <1>3, <1>4

(* A schedule of context: while the input is not known, only a rate that   *)
(* every row lacks is missing.                                             *)
LEMMA AnthropicStands ==
    ASSUME NEW s, IsSchedule(s), NEW t, IsTurn(t)
    PROVE  LET told == Anthropic(t, s)
           IN  /\ told.reason = "missing_rate" =>
                    \A u : IsTurn(u) /\ Completes(u, t) /\ ~Untold(u) =>
                        Anthropic(u, s).reason = "missing_rate"
               /\ told.reason = "missing_usage" => Untold(t)
               /\ told.reason = "" => \E row \in RowsOf(s) : Charged(t, row, told.amount)
<1> DEFINE Never(v) == \A row \in RowsOf(s) : missingRate(v, row)
           never(v, reason) == [reason |-> IF Never(v) THEN "missing_rate" ELSE reason]
           At(v) == rates(s, CompleteInput(v))
           Huge(v) == CompleteInput(v) > 2 * MaxInt + 1
<1>1. \A v : /\ s.tiers = <<>> => Anthropic(v, s) = AnthropicAt(v, s.base)
             /\ s.tiers # <<>> /\ Untold(v) => Anthropic(v, s) = never(v, "missing_usage")
             /\ s.tiers # <<>> /\ ~Untold(v) /\ Huge(v) =>
                  Anthropic(v, s) = never(v, "inconsistent_usage")
             /\ s.tiers # <<>> /\ ~Untold(v) /\ ~Huge(v) => Anthropic(v, s) = AnthropicAt(v, At(v))
  BY DEF Anthropic, Excluded, RowsOf
<1>2. \A v : At(v) \in RowsOf(s) /\ RowsOf(s) \subseteq ParsedRows  BY RatesAreARow
<1>3. s.base \in RowsOf(s)  BY DEF RowsOf
<1>4. \A v, row : IsTurn(v) /\ row \in RowsOf(s) =>
        LET told == AnthropicAt(v, row)
        IN  /\ told.reason = "missing_rate" <=> missingRate(v, row)
            /\ told.reason = "missing_usage" => Untold(v)
            /\ told.reason = "" => Charged(v, row, told.amount)
  BY <1>2, AnthropicAtIs
<1>5. \A v, reason : never(v, reason).reason = IF Never(v) THEN "missing_rate" ELSE reason  OBVIOUS
<1>6. ASSUME NEW u, IsTurn(u), Completes(u, t), ~Untold(u)
      PROVE  /\ \A row : missingRate(t, row) => missingRate(u, row)
             /\ Never(t) => Never(u)
             /\ ~Untold(t) => CompleteInput(u) = CompleteInput(t)
  <2>1. \A row : missingRate(t, row) => missingRate(u, row)  BY <1>6, MissingStays
  <2>2. ~Untold(t) => CompleteInput(u) = CompleteInput(t)
    BY <1>6, WholeIsCompleted DEF CompleteInput
  <2> QED  BY <2>1, <2>2
<1> HIDE DEF Never, never, At, Huge
<1>7. CASE s.tiers = <<>>
  <2>1. \A v : Anthropic(v, s) = AnthropicAt(v, s.base)  BY <1>1, <1>7
  <2> QED  BY <1>3, <1>4, <1>6, <2>1
<1>8. CASE s.tiers # <<>> /\ Untold(t)
  <2>1. Anthropic(t, s) = never(t, "missing_usage")  BY <1>1, <1>8
  <2>2. Anthropic(t, s).reason = IF Never(t) THEN "missing_rate" ELSE "missing_usage"
    BY <1>5, <2>1
  <2>3. ASSUME Never(t), NEW u, IsTurn(u), Completes(u, t), ~Untold(u)
        PROVE  Anthropic(u, s).reason = "missing_rate"
    <3>1. Never(u)  BY <1>6, <2>3
    <3>2. CASE Huge(u)  BY <1>1, <1>5, <1>8, <2>3, <3>1, <3>2
    <3>3. CASE ~Huge(u)
      <4>1. Anthropic(u, s) = AnthropicAt(u, At(u))  BY <1>1, <1>8, <2>3, <3>3
      <4>2. missingRate(u, At(u))  BY <1>2, <3>1 DEF Never
      <4> QED  BY <1>2, <1>4, <2>3, <4>1, <4>2
    <3> QED  BY <3>2, <3>3
  <2> QED  BY <1>8, <2>2, <2>3
<1>9. CASE s.tiers # <<>> /\ ~Untold(t) /\ Huge(t)
  <2>1. Anthropic(t, s) = never(t, "inconsistent_usage")  BY <1>1, <1>9
  <2>2. Anthropic(t, s).reason = IF Never(t) THEN "missing_rate" ELSE "inconsistent_usage"
    BY <1>5, <2>1
  <2>3. ASSUME Never(t), NEW u, IsTurn(u), Completes(u, t), ~Untold(u)
        PROVE  Anthropic(u, s).reason = "missing_rate"
    <3>1. Never(u) /\ Huge(u)  BY <1>6, <1>9, <2>3 DEF Huge
    <3> QED  BY <1>1, <1>5, <1>9, <2>3, <3>1
  <2> QED  BY <1>9, <2>2, <2>3
<1>10. CASE s.tiers # <<>> /\ ~Untold(t) /\ ~Huge(t)
  <2>1. Anthropic(t, s) = AnthropicAt(t, At(t))  BY <1>1, <1>10
  <2>2. ASSUME NEW u, IsTurn(u), Completes(u, t), ~Untold(u), missingRate(t, At(t))
        PROVE  Anthropic(u, s).reason = "missing_rate"
    <3>1. ~Huge(u) /\ At(u) = At(t)  BY <1>6, <1>10, <2>2 DEF Huge, At
    <3>2. Anthropic(u, s) = AnthropicAt(u, At(u))  BY <1>1, <1>10, <2>2, <3>1
    <3>3. missingRate(u, At(u))  BY <1>6, <2>2, <3>1
    <3> QED  BY <1>2, <1>4, <2>2, <3>2, <3>3
  <2> QED  BY <1>2, <1>4, <2>1, <2>2
<1> QED  BY <1>7, <1>8, <1>9, <1>10

(* The schedule is the tier's, and the row the input's: both are known.    *)
ScheduleOf(t) == IF fast # {} /\ t.tier \in FastAliases THEN CHOOSE f \in fast : TRUE ELSE normal

LEMMA OpenAIStands ==
    ASSUME PriceTypeOK, NEW t, IsTurn(t)
    PROVE  /\ OpenAI(t).reason = "missing_rate" =>
                \A u : IsTurn(u) /\ Completes(u, t) /\ u.tier = t.tier =>
                    OpenAI(u).reason = "missing_rate"
           /\ OpenAI(t).reason = "missing_usage" => Untold(t)
           /\ OpenAI(t).reason = "" =>
                ~Untold(t) /\ \E row \in Rows : Charged(PaidBy(t), row, OpenAI(t).amount)
<1> DEFINE At(v) == rates(ScheduleOf(v), v.input)
<1>1. \A v : OpenAI(v) = OpenAIAt(v, At(v))  BY DEF OpenAI, ScheduleOf
<1>2. \A v : ScheduleOf(v) \in {normal} \cup fast /\ IsSchedule(ScheduleOf(v))
  <2>1. fast # {} => (CHOOSE f \in fast : TRUE) \in fast  OBVIOUS
  <2> QED  BY <2>1 DEF ScheduleOf, PriceTypeOK
<1>3. \A v : At(v) \in RowsOf(ScheduleOf(v)) /\ At(v) \in ParsedRows  BY <1>2, RatesAreARow
<1>4. \A v : At(v) \in Rows  BY <1>2, <1>3 DEF Rows, RowsOf
<1>5. \A v : IsTurn(v) =>
        LET told == OpenAIAt(v, At(v))
        IN  /\ told.reason = "missing_rate" <=> missingRate(v, At(v))
            /\ told.reason = "missing_usage" => Untold(v)
            /\ told.reason = "" => ~Untold(v) /\ Charged(PaidBy(v), At(v), told.amount)
  BY <1>3, OpenAIAtIs
<1>6. ASSUME NEW u, IsTurn(u), Completes(u, t), u.tier = t.tier, missingRate(t, At(t))
      PROVE  missingRate(u, At(u))
  <2>1. u.input = t.input  BY <1>6 DEF IsTurn, Completes, Categories, Missing
  <2>2. At(u) = At(t)  BY <1>6, <2>1 DEF ScheduleOf
  <2> QED  BY <1>6, <2>2, MissingStays
<1> HIDE DEF At
<1> QED  BY <1>1, <1>4, <1>5, <1>6

LEMMA PriceInvSuffices == PriceInv => PriceIsExact
<1> SUFFICES ASSUME PriceInv PROVE AcceptedInAnyOrder /\ ExclusionsStand  BY DEF PriceIsExact
<1>1. PriceTypeOK  BY DEF PriceInv
<1>2. AcceptedInAnyOrder
  <2>1. parsing = "rejected" => ~Fine  BY DEF PriceInv
  <2>2. ASSUME parsing = "accepted"
        PROVE  Fine /\ {f.base : f \in fast} = {entry.modes[k].rates : k \in FastModes}
    <3>1. FastRead = FastModes  BY <2>2 DEF PriceInv, FastRead, FastModes
    <3>2. /\ \A cost \in entry.cost : Acceptable(cost)
          /\ \A k \in DOMAIN entry.modes : ~BadMode(entry.modes[k])
          /\ FastIsTheirs
      BY <2>2 DEF PriceInv
    <3>3. CASE fast = {} /\ FastRead = {}
      <4>1. Cardinality(FastModes) = 0  BY <3>1, <3>3, FS_EmptySet
      <4> QED  BY <3>1, <3>2, <3>3, <4>1 DEF Fine
    <3>4. CASE \E k, f : FastRead = {k} /\ fast = {f} /\ f.base = entry.modes[k].rates
      <4>1. PICK k, f : FastRead = {k} /\ fast = {f} /\ f.base = entry.modes[k].rates  BY <3>4
      <4>2. Cardinality(FastModes) = 1  BY <3>1, <4>1, FS_Singleton
      <4> QED  BY <3>1, <3>2, <4>1, <4>2 DEF Fine
    <3> QED  BY <3>2, <3>3, <3>4 DEF FastIsTheirs
  <2>3. parsing = "accepted" => PremiumsAreKept  BY DEF PriceInv
  <2> QED  BY <2>1, <2>2, <2>3 DEF AcceptedInAnyOrder, PremiumsAreKept
<1>3. ExclusionsStand
  <2> SUFFICES ASSUME parsing = "valued" PROVE ExclusionsStand  BY DEF ExclusionsStand
  <2>1. turn \in Turns /\ contribution = Valued(turn)  BY DEF PriceInv
  <2>2. \A t \in Turns : IsTurn(t)  BY PricingAssumption DEF Turns
  <2>3. CASE entry.provider = "openai"
    <3>1. \A t : Valued(t) = OpenAI(t)  BY <2>3 DEF Valued
    <3>2. /\ OpenAI(turn).reason = "missing_rate" =>
               \A u : IsTurn(u) /\ Completes(u, turn) /\ u.tier = turn.tier =>
                   OpenAI(u).reason = "missing_rate"
          /\ OpenAI(turn).reason = "missing_usage" => Untold(turn)
          /\ OpenAI(turn).reason = "" =>
               ~Untold(turn) /\ \E row \in Rows : Charged(PaidBy(turn), row, OpenAI(turn).amount)
      BY <1>1, <2>1, <2>2, OpenAIStands
    <3>3. \A u \in Completions(turn) : IsTurn(u) /\ Completes(u, turn) /\ u.tier = turn.tier
      BY <2>2, <2>3 DEF Completions, Completes
    <3>4. ~Untold(turn) => \A c \in Categories : Paid(turn, c) = PaidBy(turn)[c]
      BY <2>1, <2>2, <2>3 DEF Paid, PaidBy, Categories, IsTurn, Untold
    <3>5. /\ contribution.reason = "missing_rate" =>
               \A u \in Completions(turn) : Valued(u).reason = "missing_rate"
          /\ contribution.reason = "missing_usage" => Untold(turn)
      BY <2>1, <3>1, <3>2, <3>3
    <3>6. ASSUME contribution.reason = "", NEW row \in Rows, ~Untold(turn),
                 Charged(PaidBy(turn), row, contribution.amount)
          PROVE  /\ \A c \in Categories : Paid(turn, c) > 0 => row[c] # Missing
                 /\ contribution.amount = Paid(turn, "input") * row.input + Paid(turn, "output") * row.output
                                           + Paid(turn, "read") * row.read + Paid(turn, "write") * row.write
      <4>1. /\ Paid(turn, "input") = PaidBy(turn)["input"] /\ Paid(turn, "output") = PaidBy(turn)["output"]
            /\ Paid(turn, "read") = PaidBy(turn)["read"] /\ Paid(turn, "write") = PaidBy(turn)["write"]
        BY <3>4, <3>6 DEF Categories
      <4> QED  BY <3>4, <3>6, <4>1 DEF Charged
    <3> QED  BY <2>1, <3>1, <3>2, <3>5, <3>6 DEF ExclusionsStand
  <2>4. CASE entry.provider # "openai"
    <3>1. \A t : Valued(t) = Anthropic(t, normal)  BY <2>4 DEF Valued
    <3>2. IsSchedule(normal) /\ IsTurn(turn)  BY <1>1, <2>1, <2>2 DEF PriceTypeOK
    <3>3. /\ Anthropic(turn, normal).reason = "missing_rate" =>
               \A u : IsTurn(u) /\ Completes(u, turn) /\ ~Untold(u) =>
                   Anthropic(u, normal).reason = "missing_rate"
          /\ Anthropic(turn, normal).reason = "missing_usage" => Untold(turn)
          /\ Anthropic(turn, normal).reason = "" =>
               \E row \in RowsOf(normal) : Charged(turn, row, Anthropic(turn, normal).amount)
      BY <3>2, AnthropicStands
    <3>4. \A u \in Completions(turn) : IsTurn(u) /\ Completes(u, turn) /\ ~Untold(u)
      BY <2>2 DEF Completions, Completes
    <3>5. \A c \in Categories : Paid(turn, c) = turn[c]
      BY <2>4, <3>2 DEF Paid, Categories, IsTurn, Missing
    <3>6. RowsOf(normal) \subseteq Rows  BY DEF Rows, RowsOf
    <3>7. /\ contribution.reason = "missing_rate" =>
               \A u \in Completions(turn) : Valued(u).reason = "missing_rate"
          /\ contribution.reason = "missing_usage" => Untold(turn)
      BY <2>1, <3>1, <3>3, <3>4
    <3>8. ASSUME NEW row \in RowsOf(normal), Charged(turn, row, contribution.amount)
          PROVE  /\ \A c \in Categories : Paid(turn, c) > 0 => row[c] # Missing
                 /\ contribution.amount = Paid(turn, "input") * row.input + Paid(turn, "output") * row.output
                                           + Paid(turn, "read") * row.read + Paid(turn, "write") * row.write
      <4>1. /\ Paid(turn, "input") = turn["input"] /\ Paid(turn, "output") = turn["output"]
            /\ Paid(turn, "read") = turn["read"] /\ Paid(turn, "write") = turn["write"]
        BY <3>5 DEF Categories
      <4> QED  BY <3>5, <3>8, <4>1 DEF Charged
    <3> QED  BY <2>1, <3>1, <3>3, <3>6, <3>7, <3>8 DEF ExclusionsStand
  <2> QED  BY <2>3, <2>4
<1> QED  BY <1>2, <1>3

(* Whatever a price list holds and in whatever order its modes are read:   *)
(* a tariff is accepted for what it is, and a turn is priced exactly or    *)
(* excluded for a reason that stands.                                      *)
THEOREM PricesAreExact == PricingSpec => []PriceIsExact
<1>1. PriceInv /\ [PricingNext]_pricingVars => PriceInv'
  BY PriceInvCost, PriceInvMode, PriceInvFinish, PriceInvValue, PriceInvStays DEF PricingNext
<1> QED  BY <1>1, PriceInvInit, PriceInvSuffices, PTL DEF PricingSpec

-----------------------------------------------------------------------------
(* Reports.                                                                *)
(*                                                                         *)
(* Sets of numbers have a least one, or a greatest, where they are         *)
(* bounded; an induction below argues from the least counterexample.       *)
LEMMA LeastNat ==
    ASSUME NEW T \in SUBSET Nat, T # {}
    PROVE  \E x \in T : \A y \in T : x <= y
<1>1. IsWellFoundedOn(OpToRel(<, Nat), Nat)  BY NatLessThanWellFounded
<1>2. PICK x \in T : \A y \in T : ~(<<y, x>> \in OpToRel(<, Nat))  BY <1>1, WFMin
<1>3. \A y \in T : ~(y < x)  BY <1>2 DEF OpToRel
<1> QED  BY <1>3

LEMMA LeastIs ==
    ASSUME NEW T \in SUBSET Int, NEW low \in Int, \A x \in T : low <= x, T # {}
    PROVE  Min(T) \in T /\ \A y \in T : Min(T) <= y
<1> DEFINE above == {x - low : x \in T}
<1>1. above \in SUBSET Nat /\ above # {}
  <2>1. \A x \in T : x - low \in Nat  OBVIOUS
  <2> QED  BY <2>1
<1>2. PICK n \in above : \A m \in above : n <= m  BY <1>1, LeastNat
<1>3. PICK x \in T : n = x - low  BY <1>2
<1>4. ASSUME NEW y \in T PROVE x <= y
  <2>1. y - low \in above  OBVIOUS
  <2>2. n <= y - low  BY <1>2, <2>1
  <2> QED  BY <1>3, <2>2
<1> HIDE DEF above
<1> QED  BY <1>3, <1>4 DEF Min

LEMMA GreatestIs ==
    ASSUME NEW T \in SUBSET Int, NEW high \in Int, \A x \in T : x <= high, T # {}
    PROVE  Max(T) \in T /\ \A y \in T : y <= Max(T)
<1> DEFINE below == {high - x : x \in T}
<1>1. below \in SUBSET Nat /\ below # {}
  <2>1. \A x \in T : high - x \in Nat  OBVIOUS
  <2> QED  BY <2>1
<1>2. PICK n \in below : \A m \in below : n <= m  BY <1>1, LeastNat
<1>3. PICK x \in T : n = high - x  BY <1>2
<1>4. ASSUME NEW y \in T PROVE y <= x
  <2>1. high - y \in below  OBVIOUS
  <2>2. n <= high - y  BY <1>2, <2>1
  <2> QED  BY <1>3, <2>2
<1> HIDE DEF below
<1> QED  BY <1>3, <1>4 DEF Max

LEMMA TheLesser == ASSUME NEW a \in Int, NEW b \in Int PROVE Min({a, b}) = IF a <= b THEN a ELSE b
BY DEF Min

LEMMA TheGreater == ASSUME NEW a \in Int, NEW b \in Int PROVE Max({a, b}) = IF a <= b THEN b ELSE a
BY DEF Max

(* A date is a run of DayLength local instants.                            *)
LEMMA DayOf ==
    ASSUME NEW x \in Int, NEW d \in Int
    PROVE  x \div DayLength = d <=> d * DayLength <= x /\ x < (d + 1) * DayLength
<1> USE CalendarAssumption
<1>1. PICK q \in Int : q = x \div DayLength  OBVIOUS
<1>2. PICK r \in 0 .. DayLength - 1 : x = q * DayLength + r
  <2>1. x % DayLength \in 0 .. DayLength - 1  OBVIOUS
  <2>2. x = DayLength * (x \div DayLength) + (x % DayLength)  OBVIOUS
  <2> QED  BY <1>1, <2>1, <2>2
<1>3. \A m, n \in Int : m < n => m * DayLength + DayLength <= n * DayLength
  <2> SUFFICES ASSUME NEW m \in Int, NEW n \in Int, m < n PROVE m * DayLength + DayLength <= n * DayLength
    OBVIOUS
  <2>1. (n - m - 1) * DayLength >= 0  OBVIOUS
  <2>2. (n - m - 1) * DayLength = n * DayLength - m * DayLength - DayLength  OBVIOUS
  <2> QED  BY <2>1, <2>2
<1>4. (d + 1) * DayLength = d * DayLength + DayLength  OBVIOUS
<1>5. d * DayLength \in Int /\ q * DayLength \in Int  OBVIOUS
<1>6. CASE q = d  BY <1>1, <1>2, <1>4, <1>5, <1>6
<1>7. CASE q < d
  <2>1. q * DayLength + DayLength <= d * DayLength  BY <1>3, <1>7
  <2> QED  BY <1>1, <1>2, <1>5, <1>7, <2>1
<1>8. CASE d < q
  <2>1. d * DayLength + DayLength <= q * DayLength  BY <1>3, <1>8
  <2> QED  BY <1>1, <1>2, <1>4, <1>5, <1>8, <2>1
<1> QED  BY <1>6, <1>7, <1>8

(* The clock has one offset throughout a run, and a run for each instant.  *)
LEMMA RunsAreConstant ==
    ASSUME NEW zone \in [Instants -> Int], NEW i \in RunStarts(zone)
    PROVE  /\ i \in Instants /\ RunEnd(zone, i) \in Int /\ i < RunEnd(zone, i) /\ RunEnd(zone, i) <= Horizon
           /\ \A j \in RunStarts(zone) : j > i => RunEnd(zone, i) <= j
           /\ \A k \in i .. RunEnd(zone, i) - 1 : k \in Instants /\ zone[k] = zone[i]
<1> USE CalendarAssumption
<1> DEFINE ends == {Horizon} \cup {j \in RunStarts(zone) : j > i}
           stop == RunEnd(zone, i)
<1>1. RunStarts(zone) \subseteq Instants  BY DEF RunStarts
<1>2. /\ ends \in SUBSET Int /\ ends # {} /\ \A x \in ends : i < x /\ x <= Horizon
  BY <1>1 DEF Instants
<1>3. stop \in ends /\ \A y \in ends : stop <= y
  <2>1. i \in Int /\ \A x \in ends : i <= x  BY <1>1, <1>2 DEF Instants
  <2>2. Min(ends) \in ends /\ \A y \in ends : Min(ends) <= y
    <3> HIDE DEF ends
    <3> QED  BY <1>2, <2>1, LeastIs
  <2> QED  BY <2>2 DEF RunEnd
<1>4. ASSUME NEW k \in i .. stop - 1 PROVE k \in Instants /\ zone[k] = zone[i]
  <2> DEFINE other == {n \in Nat : n \in i .. stop - 1 /\ zone[n] # zone[i]}
  <2>1. stop \in Int /\ i \in Int /\ 0 <= i /\ stop <= Horizon  BY <1>1, <1>2, <1>3 DEF Instants
  <2>2. i .. stop - 1 \subseteq Instants  BY <2>1 DEF Instants
  <2>3. other = {}
    <3> SUFFICES ASSUME other # {} PROVE FALSE  OBVIOUS
    <3>1. PICK n \in other : \A m \in other : n <= m  BY LeastNat
    <3>2. n \in i .. stop - 1 /\ n # i /\ zone[n] # zone[i]  BY <3>1
    <3>3. n - 1 \in i .. stop - 1 /\ n - 1 \in Nat  BY <2>1, <3>2
    <3>4. zone[n - 1] = zone[i]  BY <2>1, <3>1, <3>2, <3>3
    <3>5. n \in RunStarts(zone)  BY <2>2, <3>2, <3>4 DEF RunStarts
    <3>6. n \in ends  BY <2>1, <3>2, <3>5
    <3> QED  BY <1>3, <2>1, <3>2, <3>6
  <2>4. k \in Nat  BY <2>1
  <2> QED  BY <2>2, <2>3, <2>4
<1> QED  BY <1>1, <1>2, <1>3, <1>4

LEMMA EachHasARun ==
    ASSUME NEW zone \in [Instants -> Int], NEW t \in Instants
    PROVE  \E r \in RunStarts(zone) : t \in r .. RunEnd(zone, r) - 1
<1> USE CalendarAssumption
<1> DEFINE before == {j \in RunStarts(zone) : j <= t}
<1>1. RunStarts(zone) \subseteq Instants /\ 0 \in RunStarts(zone)  BY DEF RunStarts, Instants
<1>2. before \in SUBSET Int /\ before # {} /\ t \in Int /\ \A x \in before : x <= t
  BY <1>1 DEF Instants
<1>3. PICK r \in before : \A j \in before : j <= r
  <2> HIDE DEF before
  <2> QED  BY <1>2, GreatestIs
<1>4. r \in RunStarts(zone) /\ r <= t  BY <1>3
<1>5. RunEnd(zone, r) = Horizon \/ (RunEnd(zone, r) \in RunStarts(zone) /\ RunEnd(zone, r) > r)
  <2> DEFINE ends == {Horizon} \cup {j \in RunStarts(zone) : j > r}
  <2>1. ends \in SUBSET Int /\ ends # {} /\ r \in Int /\ \A x \in ends : r <= x
    BY <1>1, <1>4 DEF Instants
  <2>2. Min(ends) \in ends
    <3> HIDE DEF ends
    <3> QED  BY <2>1, LeastIs
  <2> QED  BY <2>2 DEF RunEnd
<1>6. t < RunEnd(zone, r)
  <2>1. CASE RunEnd(zone, r) = Horizon  BY <2>1 DEF Instants
  <2>2. CASE RunEnd(zone, r) \in RunStarts(zone) /\ RunEnd(zone, r) > r
    <3>1. RunEnd(zone, r) \in Int /\ r \in Int  BY <1>1, <1>4, <2>2 DEF Instants
    <3>2. RunEnd(zone, r) \notin before  BY <1>3, <1>4, <2>2, <3>1
    <3> QED  BY <1>2, <2>2, <3>1, <3>2
  <2> QED  BY <1>5, <2>1, <2>2
<1>7. r \in Int /\ RunEnd(zone, r) \in Int  BY <1>1, <1>4, RunsAreConstant DEF Instants
<1> QED  BY <1>2, <1>4, <1>6, <1>7

(* From and To are where a run shows a date.                               *)
LEMMA ShownFromTo ==
    ASSUME NEW zone \in [Instants -> Int], NEW date \in Int, NEW i \in RunStarts(zone)
    PROVE  /\ From(zone, i, date) \in Int /\ To(zone, i, date) \in Int
           /\ i <= From(zone, i, date) /\ To(zone, i, date) <= RunEnd(zone, i)
           /\ \A k \in Int : /\ k \in i .. RunEnd(zone, i) - 1 /\ DateAt(zone, k) = date
                             <=> From(zone, i, date) <= k /\ k < To(zone, i, date)
<1> USE CalendarAssumption
<1> DEFINE stop == RunEnd(zone, i)
           a == date * DayLength - zone[i]
           b == (date + 1) * DayLength - zone[i]
<1>1. /\ i \in Int /\ stop \in Int /\ zone[i] \in Int
      /\ \A k \in i .. stop - 1 : k \in Instants /\ zone[k] = zone[i]
  <2>1. /\ i \in Instants /\ stop \in Int
        /\ \A k \in i .. stop - 1 : k \in Instants /\ zone[k] = zone[i]
    BY RunsAreConstant
  <2>2. i \in Int  BY <2>1 DEF Instants
  <2> QED  BY <2>1, <2>2
<1>2. a \in Int /\ b \in Int  BY <1>1
<1>3. From(zone, i, date) = IF i <= a THEN a ELSE i  BY <1>1, <1>2, TheGreater DEF From
<1>4. To(zone, i, date) = IF stop <= b THEN stop ELSE b  BY <1>1, <1>2, TheLesser DEF To
<1>5. ASSUME NEW k \in i .. stop - 1 PROVE DateAt(zone, k) = date <=> a <= k /\ k < b
  <2>1. k \in Int /\ zone[k] = zone[i] /\ k + zone[i] \in Int  BY <1>1
  <2>2. DateAt(zone, k) = date <=>
          date * DayLength <= k + zone[i] /\ k + zone[i] < (date + 1) * DayLength
    BY <2>1, DayOf DEF DateAt
  <2>3. date * DayLength \in Int /\ (date + 1) * DayLength \in Int  OBVIOUS
  <2> QED  BY <1>1, <2>1, <2>2, <2>3
<1> HIDE DEF a, b, stop
<1>6. ASSUME NEW k \in Int
      PROVE  /\ k \in i .. stop - 1 /\ DateAt(zone, k) = date
             <=> From(zone, i, date) <= k /\ k < To(zone, i, date)
  BY <1>1, <1>2, <1>3, <1>4, <1>5
<1> QED  BY <1>1, <1>2, <1>3, <1>4, <1>6 DEF stop

(* Earliest is the first instant that has the date, or none.               *)
LEMMA EarliestIs ==
    ASSUME NEW zone \in [Instants -> Int], NEW date \in Int
    PROVE  /\ Earliest(zone, date) \in 0 .. Horizon
           /\ Earliest(zone, date) < Horizon =>
                Earliest(zone, date) \in Instants /\ DateAt(zone, Earliest(zone, date)) = date
           /\ \A t \in Instants : DateAt(zone, t) = date =>
                Earliest(zone, date) <= t /\ Earliest(zone, date) < Horizon
<1> USE CalendarAssumption
<1> DEFINE shown == {t \in Instants : DateAt(zone, t) = date}
<1>1. CASE shown = {}
  <2>1. Earliest(zone, date) = Horizon  BY <1>1 DEF Earliest
  <2> QED  BY <1>1, <2>1
<1>2. CASE shown # {}
  <2>1. shown \in SUBSET Int /\ \A x \in shown : 0 <= x  BY DEF Instants
  <2>2. Min(shown) \in shown /\ \A y \in shown : Min(shown) <= y
    <3> HIDE DEF shown
    <3> QED  BY <1>2, <2>1, LeastIs
  <2>3. PICK m : m = Min(shown)  OBVIOUS
  <2>4. Earliest(zone, date) = m  BY <1>2, <2>3 DEF Earliest
  <2>5. m \in Instants /\ DateAt(zone, m) = date  BY <2>2, <2>3
  <2>6. \A t \in Instants : DateAt(zone, t) = date => m <= t  BY <2>2, <2>3
  <2>7. m \in 0 .. Horizon /\ m < Horizon  BY <2>5 DEF Instants
  <2> QED  BY <2>4, <2>5, <2>6, <2>7
<1> QED  BY <1>1, <1>2

(* dateResolver.start finds the first instant that has the date.           *)
LEMMA StartIsEarliest ==
    ASSUME NEW zone \in [Instants -> Int], NEW date \in Int
    PROVE  start(zone, date) =
             IF Earliest(zone, date) = Horizon THEN NoDate ELSE Earliest(zone, date)
<1> USE CalendarAssumption
<1> DEFINE runs == {i \in RunStarts(zone) : Displays(zone, i, date)}
<1>1. RunStarts(zone) \in SUBSET Int /\ \A i \in RunStarts(zone) : 0 <= i
  BY DEF RunStarts, Instants
<1>2. ASSUME NEW t \in Instants, DateAt(zone, t) = date
      PROVE  \E r \in runs : From(zone, r, date) <= t /\ t < To(zone, r, date)
  <2>1. PICK r \in RunStarts(zone) : t \in r .. RunEnd(zone, r) - 1  BY EachHasARun
  <2>2. t \in Int  BY DEF Instants
  <2>3. From(zone, r, date) <= t /\ t < To(zone, r, date)  BY <1>2, <2>1, <2>2, ShownFromTo
  <2>4. From(zone, r, date) \in Int /\ To(zone, r, date) \in Int  BY <2>1, ShownFromTo
  <2>5. Displays(zone, r, date)  BY <2>2, <2>3, <2>4 DEF Displays
  <2> QED  BY <2>1, <2>3, <2>5
<1>3. CASE runs = {}
  <2>1. start(zone, date) = NoDate  BY <1>3 DEF start
  <2>2. \A t \in Instants : DateAt(zone, t) # date  BY <1>2, <1>3
  <2>3. ~(Earliest(zone, date) < Horizon)  BY <2>2, EarliestIs
  <2> QED  BY <2>1, <2>3, EarliestIs
<1>4. CASE runs # {}
  <2>1. runs \in SUBSET Int /\ \A x \in runs : 0 <= x  BY <1>1
  <2>2. PICK r : r = Min(runs)  OBVIOUS
  <2>3. r \in runs /\ \A y \in runs : r <= y
    <3>1. Min(runs) \in runs /\ \A y \in runs : Min(runs) <= y
      <4> HIDE DEF runs
      <4> QED  BY <1>4, <2>1, LeastIs
    <3> QED  BY <2>2, <3>1
  <2>4. PICK f : f = From(zone, r, date)  OBVIOUS
  <2>5. start(zone, date) = f  BY <1>4, <2>2, <2>4 DEF start
  <2>6. r \in RunStarts(zone) /\ f \in Int /\ To(zone, r, date) \in Int /\ f < To(zone, r, date)
        /\ To(zone, r, date) <= RunEnd(zone, r) /\ r <= f
    BY <2>3, <2>4, ShownFromTo DEF Displays
  <2>7. /\ RunEnd(zone, r) \in Int /\ RunEnd(zone, r) <= Horizon
        /\ \A j \in RunStarts(zone) : j > r => RunEnd(zone, r) <= j
    BY <2>6, RunsAreConstant
  <2>8. f \in Instants /\ DateAt(zone, f) = date
    <3>1. DateAt(zone, f) = date  BY <2>4, <2>6, ShownFromTo
    <3>2. 0 <= r /\ r \in Int  BY <1>1, <2>6
    <3> QED  BY <2>6, <2>7, <3>1, <3>2 DEF Instants
  <2>9. ASSUME NEW t \in Instants, DateAt(zone, t) = date PROVE f <= t
    <3>1. PICK s \in runs : From(zone, s, date) <= t /\ t < To(zone, s, date)  BY <1>2, <2>9
    <3>2. CASE s = r  BY <2>4, <3>1, <3>2
    <3>3. CASE s # r
      <4>1. s \in Int /\ r \in Int /\ r <= s  BY <1>1, <2>3, <2>6
      <4>2. RunEnd(zone, r) <= s  BY <2>7, <3>3, <4>1
      <4>3. From(zone, s, date) \in Int /\ s <= From(zone, s, date)  BY ShownFromTo
      <4>4. t \in Int  BY DEF Instants
      <4> QED  BY <2>6, <2>7, <3>1, <4>1, <4>2, <4>3, <4>4
    <3> QED  BY <3>2, <3>3
  <2>10. Earliest(zone, date) <= f /\ Earliest(zone, date) < Horizon  BY <2>8, EarliestIs
  <2>11. f <= Earliest(zone, date)  BY <2>9, <2>10, EarliestIs
  <2>12. Earliest(zone, date) = f  BY <2>6, <2>10, <2>11, EarliestIs
  <2>13. f # Horizon  BY <2>8 DEF Instants
  <2> QED  BY <2>5, <2>12, <2>13
<1> QED  BY <1>3, <1>4

(* dateResolver.edge: of the first date that is shown.                     *)
LEMMA EdgeIs ==
    ASSUME NEW zone \in [Instants -> Int], NEW date \in Int
    PROVE  \/ edge(zone, date) = NoDate /\ \A d \in date .. date + MaxDates : Earliest(zone, d) = Horizon
           \/ \E d \in date .. date + MaxDates :
                /\ edge(zone, date) = Earliest(zone, d) /\ Earliest(zone, d) \in Instants
                /\ \A s \in date .. d - 1 : Earliest(zone, s) = Horizon
<1> USE CalendarAssumption
<1> DEFINE there == {d \in date .. date + MaxDates : start(zone, d) # NoDate}
<1>1. \A d \in date .. date + MaxDates :
        /\ d \in Int /\ Earliest(zone, d) \in 0 .. Horizon
        /\ start(zone, d) = IF Earliest(zone, d) = Horizon THEN NoDate ELSE Earliest(zone, d)
  BY StartIsEarliest, EarliestIs
<1>2. \A d \in date .. date + MaxDates : d \in there <=> Earliest(zone, d) # Horizon
  BY <1>1 DEF NoDate
<1>3. CASE there = {}
  <2>1. edge(zone, date) = NoDate  BY <1>3 DEF edge
  <2> QED  BY <1>2, <1>3, <2>1
<1>4. CASE there # {}
  <2>1. there \in SUBSET Int /\ \A x \in there : date <= x  OBVIOUS
  <2>2. PICK d : d = Min(there)  OBVIOUS
  <2>3. d \in there /\ \A y \in there : d <= y
    <3> HIDE DEF there
    <3> QED  BY <1>4, <2>1, <2>2, LeastIs
  <2>4. edge(zone, date) = start(zone, d)  BY <1>4, <2>2 DEF edge
  <2>5. d \in date .. date + MaxDates /\ Earliest(zone, d) # Horizon  BY <1>2, <2>3
  <2>6. edge(zone, date) = Earliest(zone, d) /\ Earliest(zone, d) \in Instants
    BY <1>1, <2>4, <2>5 DEF Instants
  <2>7. ASSUME NEW s \in date .. d - 1 PROVE Earliest(zone, s) = Horizon
    <3>1. s \in date .. date + MaxDates /\ s < d  BY <2>5
    <3>2. s \notin there  BY <2>3, <3>1
    <3> QED  BY <1>2, <3>1, <3>2
  <2> QED  BY <2>5, <2>6, <2>7
<1> QED  BY <1>3, <1>4

(* A period has begun at its edge.                                         *)
LEMMA BegunIs ==
    ASSUME NEW zone \in [Instants -> Int], NEW date \in Int, NEW t \in Instants
    PROVE  Begun(zone, date, t) <=> edge(zone, date) # NoDate /\ edge(zone, date) <= t
<1> USE CalendarAssumption
<1>0. t \in Int /\ t < Horizon /\ 0 <= t  BY DEF Instants
<1>1. ASSUME Begun(zone, date, t) PROVE edge(zone, date) # NoDate /\ edge(zone, date) <= t
  <2>1. PICK d \in date .. date + MaxDates :
          Earliest(zone, d) <= t /\ \A skipped \in date .. d - 1 : Earliest(zone, skipped) = Horizon
    BY <1>1 DEF Begun
  <2>2. Earliest(zone, d) # Horizon /\ d \in Int  BY <1>0, <2>1
  <2>3. PICK c \in date .. date + MaxDates :
          /\ edge(zone, date) = Earliest(zone, c) /\ Earliest(zone, c) \in Instants
          /\ \A s \in date .. c - 1 : Earliest(zone, s) = Horizon
    BY <2>1, <2>2, EdgeIs
  <2>4. Earliest(zone, c) # Horizon  BY <2>3 DEF Instants
  <2>5. ~(c < d)  BY <2>1, <2>3, <2>4
  <2>6. ~(d < c)  BY <2>1, <2>2, <2>3
  <2>7. c = d  BY <2>1, <2>3, <2>5, <2>6
  <2> QED  BY <2>1, <2>3, <2>7 DEF Instants, NoDate
<1>2. ASSUME edge(zone, date) # NoDate, edge(zone, date) <= t PROVE Begun(zone, date, t)
  <2>1. PICK c \in date .. date + MaxDates :
          /\ edge(zone, date) = Earliest(zone, c) /\ Earliest(zone, c) \in Instants
          /\ \A s \in date .. c - 1 : Earliest(zone, s) = Horizon
    BY <1>2, EdgeIs
  <2> QED  BY <1>2, <2>1 DEF Begun
<1> QED  BY <1>1, <1>2

LEMMA EdgeType ==
    ASSUME NEW zone \in [Instants -> Int], NEW date \in Int
    PROVE  edge(zone, date) \in Int /\ (edge(zone, date) # NoDate => edge(zone, date) \in Instants)
BY EdgeIs DEF Instants, NoDate

-----------------------------------------------------------------------------
(* The periods of a window.                                                *)
LEMMA FirstEdgeIs ==
    ASSUME NEW period \in DOMAIN PeriodStarts, NEW since \in Int,
           \E s \in PeriodStarts[period] : s <= since
    PROVE  /\ FirstEdge(period, since) \in PeriodStarts[period] /\ FirstEdge(period, since) \in Int
           /\ FirstEdge(period, since) <= since
           /\ \A s \in PeriodStarts[period] : s <= since => s <= FirstEdge(period, since)
<1> DEFINE before == {s \in PeriodStarts[period] : s <= since}
<1>1. before \in SUBSET Int /\ before # {} /\ \A x \in before : x <= since
  BY CalendarAssumption
<1>2. Max(before) \in before /\ \A y \in before : y <= Max(before)
  <2> HIDE DEF before
  <2> QED  BY <1>1, GreatestIs
<1> QED  BY <1>1, <1>2 DEF FirstEdge

LEMMA NextEdgeIs ==
    ASSUME NEW period \in DOMAIN PeriodStarts, NEW e \in Int,
           \E s \in PeriodStarts[period] : s > e
    PROVE  /\ NextEdge(period, e) \in PeriodStarts[period] /\ NextEdge(period, e) \in Int
           /\ e < NextEdge(period, e)
           /\ \A s \in PeriodStarts[period] : s > e => NextEdge(period, e) <= s
<1> DEFINE after == {s \in PeriodStarts[period] : s > e}
<1>1. after \in SUBSET Int /\ after # {} /\ \A x \in after : e <= x
  BY CalendarAssumption
<1>2. Min(after) \in after /\ \A y \in after : Min(after) <= y
  <2> HIDE DEF after
  <2> QED  BY <1>1, LeastIs
<1> QED  BY <1>1, <1>2 DEF NextEdge

-----------------------------------------------------------------------------
(* The calendar of a query, whatever its zone.                             *)

AskedOf(q) ==
    /\ q \in [zone : Zones, period : DOMAIN PeriodStarts, since : Int, until : Int, now : {Now}]
    /\ <<q.since, q.until>> \in Windows

FirstOf(q) == FirstEdge(q.period, q.since)
Starting(q) == {e \in PeriodStarts[q.period] : FirstOf(q) <= e}

BucketSet == [date : Int, from : Int, to : Int, partial : BOOLEAN, inProgress : BOOLEAN]

(* The edges so far do not run backwards.                                  *)
EdgesAdvance(q, n) ==
    \A e, f \in Starting(q) : e <= f /\ f <= n /\ e < n =>
        /\ edge(q.zone, e) # NoDate /\ edge(q.zone, f) # NoDate
        /\ edge(q.zone, e) <= edge(q.zone, f)

(* A bucket lies between the edge of its period and the next.              *)
OfItsPeriod(q, b) ==
    /\ b.date \in Starting(q) /\ b.date < q.until
    /\ edge(q.zone, b.date) <= b.from /\ b.from < b.to
    /\ b.to <= edge(q.zone, NextEdge(q.period, b.date))
    /\ start(q.zone, q.since) <= b.from

Adjoin(q, bs) ==
    /\ bs \in Seq(BucketSet)
    /\ \A k \in DOMAIN bs : OfItsPeriod(q, bs[k]) /\ (k > 1 => bs[k].from = bs[k - 1].to)
    /\ bs # <<>> => bs[1].from = start(q.zone, q.since)

(* The calendar, with the next edge to cut at.                             *)
FitsWindow(q, n, bs) ==
    /\ q.since < q.until /\ n \in Starting(q)
    /\ NoDate \notin {start(q.zone, q.since), start(q.zone, q.until)}
    /\ start(q.zone, q.since) < start(q.zone, q.until)
    /\ EdgesAdvance(q, n)
    /\ Adjoin(q, bs)
    /\ IF bs = <<>> THEN edge(q.zone, n) = edge(q.zone, FirstOf(q))
       ELSE LastTo(bs) = Min({edge(q.zone, n), start(q.zone, q.until)})

LEMMA AskedIs ==
    ASSUME NEW q, AskedOf(q)
    PROVE  /\ q.zone \in [Instants -> Int] /\ q.period \in DOMAIN PeriodStarts
           /\ q.since \in Int /\ q.until \in Int /\ PeriodStarts[q.period] \subseteq Int
           /\ \E s \in PeriodStarts[q.period] : s <= q.since
           /\ \E s \in PeriodStarts[q.period] : s >= q.until
<1>1. /\ q.zone \in Zones /\ q.period \in DOMAIN PeriodStarts /\ q.since \in Int /\ q.until \in Int
      /\ <<q.since, q.until>> \in Windows
  BY DEF AskedOf
<1>2. PICK w \in Windows : w = <<q.since, q.until>>  BY <1>1
<1>3. w[1] = q.since /\ w[2] = q.until  BY <1>2
<1> QED  BY <1>1, <1>3, CalendarAssumption, UsageReportAssumption

(* The edges: the first, and the next while the window has not ended.      *)
LEMMA StartingIs ==
    ASSUME NEW q, AskedOf(q)
    PROVE  /\ Starting(q) \in SUBSET Int /\ FirstOf(q) \in Starting(q)
           /\ FirstOf(q) <= q.since
           /\ \A e \in Starting(q) : FirstOf(q) <= e /\ (e <= q.since => e = FirstOf(q))
           /\ \A e \in Starting(q) : e < q.until =>
                /\ NextEdge(q.period, e) \in Starting(q) /\ e < NextEdge(q.period, e)
                /\ \A s \in Starting(q) : s > e => NextEdge(q.period, e) <= s
<1>1. /\ q.period \in DOMAIN PeriodStarts /\ q.since \in Int /\ q.until \in Int
      /\ PeriodStarts[q.period] \subseteq Int
      /\ \E s \in PeriodStarts[q.period] : s <= q.since
      /\ \E s \in PeriodStarts[q.period] : s >= q.until
  BY AskedIs
<1>2. FirstOf(q) \in PeriodStarts[q.period] /\ FirstOf(q) \in Int /\ FirstOf(q) <= q.since
      /\ \A s \in PeriodStarts[q.period] : s <= q.since => s <= FirstOf(q)
  BY <1>1, FirstEdgeIs DEF FirstOf
<1>3. ASSUME NEW e \in Starting(q), e < q.until
      PROVE  /\ NextEdge(q.period, e) \in Starting(q) /\ e < NextEdge(q.period, e)
             /\ \A s \in Starting(q) : s > e => NextEdge(q.period, e) <= s
  <2>1. e \in Int /\ FirstOf(q) <= e  BY <1>1 DEF Starting
  <2>2. \E s \in PeriodStarts[q.period] : s > e  BY <1>1, <1>3, <2>1
  <2>3. /\ NextEdge(q.period, e) \in PeriodStarts[q.period] /\ NextEdge(q.period, e) \in Int
        /\ e < NextEdge(q.period, e)
        /\ \A s \in PeriodStarts[q.period] : s > e => NextEdge(q.period, e) <= s
    BY <1>1, <2>1, <2>2, NextEdgeIs
  <2> QED  BY <1>2, <2>1, <2>3 DEF Starting
<1>4. ASSUME NEW e \in Starting(q) PROVE FirstOf(q) <= e /\ (e <= q.since => e = FirstOf(q))
  <2>1. e \in PeriodStarts[q.period] /\ e \in Int /\ FirstOf(q) <= e  BY <1>1 DEF Starting
  <2> QED  BY <1>2, <2>1
<1>5. Starting(q) \in SUBSET Int /\ FirstOf(q) \in Starting(q)  BY <1>1, <1>2 DEF Starting
<1> QED  BY <1>2, <1>3, <1>4, <1>5

(* One turn of the loop keeps what was cut, and what is left fits it.      *)
LEMMA CutFits ==
    ASSUME NEW q, AskedOf(q), NEW n, NEW bs, FitsWindow(q, n, bs), n < q.until,
           NEW cut, cut = Cut(q.zone, q.period, start(q.zone, q.since), start(q.zone, q.until), q.now, bs, n),
           cut.error = "none"
    PROVE  FitsWindow(q, NextEdge(q.period, n), cut.buckets)
<1> DEFINE a == edge(q.zone, n)
           m == NextEdge(q.period, n)
           b == edge(q.zone, m)
           lo == start(q.zone, q.since)
           hi == start(q.zone, q.until)
           from == Max({a, lo})
           to == Min({b, hi})
           previous == IF bs = <<>> THEN lo ELSE LastTo(bs)
<1>1. /\ q.zone \in [Instants -> Int] /\ q.since \in Int /\ q.until \in Int
  BY AskedIs
<1>2. /\ n \in Starting(q) /\ n \in Int /\ m \in Starting(q) /\ m \in Int /\ n < m
      /\ \A s \in Starting(q) : s > n => m <= s
  BY StartingIs DEF FitsWindow
<1>3. a \in Int /\ b \in Int /\ lo \in Int /\ hi \in Int
  <2>1. a \in Int /\ b \in Int  BY <1>1, <1>2, EdgeType
  <2>2. lo \in Int /\ hi \in Int  BY <1>1, StartIsEarliest, EarliestIs DEF NoDate
  <2> QED  BY <2>1, <2>2
<1>4. from = (IF a <= lo THEN lo ELSE a) /\ to = (IF b <= hi THEN b ELSE hi)
  BY <1>3, TheGreater, TheLesser
<1>5. /\ a # NoDate /\ b # NoDate
      /\ \/ a = b /\ cut.buckets = bs
         \/ /\ a < b /\ from < to /\ from = previous
            /\ cut.buckets = Append(bs,
                 [date |-> n, from |-> from, to |-> to,
                  partial |-> a # from \/ b # to, inProgress |-> a <= q.now /\ q.now < b])
  <2> HIDE DEF a, b, lo, hi, m
  <2>1. CASE NoDate \in {a, b}
    <3>1. cut = Failed("too_large")  BY <2>1 DEF Cut, a, b, m
    <3>2. cut.error # "none"  BY <3>1 DEF Failed
    <3> QED  BY <3>2
  <2>2. CASE NoDate \notin {a, b} /\ a = b
    <3>1. ~(NoDate \in {a, b}) /\ ~(a # b) /\ ~(a < b)  BY <1>3, <2>2
    <3>2. cut = Kept(bs)  BY <3>1 DEF Cut, a, b, m
    <3> QED  BY <2>2, <3>2 DEF Kept
  <2>3. CASE NoDate \notin {a, b} /\ a # b /\ ~(a < b /\ from < to /\ from = previous)
    <3>1. cut = Failed("invalid")  BY <2>3 DEF Cut, a, b, m, lo, hi
    <3>2. cut.error # "none"  BY <3>1 DEF Failed
    <3> QED  BY <3>2
  <2>4. CASE NoDate \notin {a, b} /\ a # b /\ a < b /\ from < to /\ from = previous /\ Len(bs) >= MaxBuckets
    <3>1. cut = Failed("too_large")  BY <2>4 DEF Cut, a, b, m, lo, hi
    <3>2. cut.error # "none"  BY <3>1 DEF Failed
    <3> QED  BY <3>2
  <2>5. CASE NoDate \notin {a, b} /\ a # b /\ a < b /\ from < to /\ from = previous /\ ~(Len(bs) >= MaxBuckets)
    <3>1. cut = Kept(Append(bs,
                 [date |-> n, from |-> from, to |-> to,
                  partial |-> a # from \/ b # to, inProgress |-> a <= q.now /\ q.now < b]))
      BY <2>5 DEF Cut, a, b, m, lo, hi
    <3> QED  BY <2>5, <3>1 DEF Kept
  <2> QED  BY <2>1, <2>2, <2>3, <2>4, <2>5
<1>6. a <= b  BY <1>3, <1>5
<1>7. EdgesAdvance(q, m)
  <2> SUFFICES ASSUME NEW e \in Starting(q), NEW f \in Starting(q), e <= f, f <= m, e < m
               PROVE  /\ edge(q.zone, e) # NoDate /\ edge(q.zone, f) # NoDate
                      /\ edge(q.zone, e) <= edge(q.zone, f)
    BY DEF EdgesAdvance
  <2>1. e \in Int /\ f \in Int  BY StartingIs
  <2>2. edge(q.zone, e) \in Int  BY <1>1, <2>1, EdgeType
  <2>3. e <= n /\ (f <= n \/ f = m)  BY <1>2, <2>1
  <2>4. e < n => edge(q.zone, e) # NoDate /\ edge(q.zone, e) <= a
    BY <1>2, <2>1 DEF FitsWindow, EdgesAdvance
  <2>5. edge(q.zone, e) # NoDate /\ edge(q.zone, e) <= a
    <3>1. CASE e < n  BY <2>4, <3>1
    <3>2. CASE e = n  BY <1>3, <1>5, <3>2
    <3> QED  BY <1>2, <2>1, <2>3, <3>1, <3>2
  <2>6. CASE f = m  BY <1>3, <1>5, <1>6, <2>2, <2>5, <2>6
  <2>7. CASE f <= n /\ e < n  BY <2>7 DEF FitsWindow, EdgesAdvance
  <2>8. CASE f <= n /\ e = n
    <3>1. f = n  BY <1>2, <2>1, <2>8
    <3> QED  BY <1>3, <1>5, <2>8, <3>1
  <2> QED  BY <1>2, <2>1, <2>3, <2>6, <2>7, <2>8
<1>8. CASE a = b /\ cut.buckets = bs
  <2>1. bs = <<>> => b = edge(q.zone, FirstOf(q))  BY <1>8 DEF FitsWindow
  <2>2. bs # <<>> => LastTo(bs) = Min({b, hi})  BY <1>8 DEF FitsWindow
  <2> QED  BY <1>2, <1>7, <1>8, <2>1, <2>2 DEF FitsWindow
<1>9. CASE ~(a = b /\ cut.buckets = bs)
  <2> DEFINE new == [date |-> n, from |-> from, to |-> to,
                     partial |-> a # from \/ b # to, inProgress |-> a <= q.now /\ q.now < b]
             cs == cut.buckets
  <2>1. a < b /\ from < to /\ from = previous /\ cs = Append(bs, new)  BY <1>5, <1>9
  <2>2. from \in Int /\ to \in Int /\ a <= from /\ lo <= from /\ to <= b  BY <1>3, <1>4
  <2>3. new \in BucketSet  BY <1>2, <2>2 DEF BucketSet
  <2>4. bs \in Seq(BucketSet)  BY DEF FitsWindow, Adjoin
  <2>5. /\ cs \in Seq(BucketSet) /\ cs # <<>> /\ Len(cs) = Len(bs) + 1 /\ cs[Len(cs)] = new
        /\ \A k \in 1 .. Len(bs) : cs[k] = bs[k]
    <3> HIDE DEF new
    <3> QED  BY <2>1, <2>3, <2>4
  <2>6. new.date = n /\ new.from = from /\ new.to = to  OBVIOUS
  <2> HIDE DEF new, cs
  <2>7. OfItsPeriod(q, new)  BY <1>2, <2>1, <2>2, <2>6 DEF OfItsPeriod
  <2>8. Len(bs) \in Nat /\ DOMAIN bs = 1 .. Len(bs) /\ DOMAIN cs = 1 .. Len(bs) + 1
    BY <2>4, <2>5
  <2>9. ASSUME NEW k \in DOMAIN cs
        PROVE  OfItsPeriod(q, cs[k]) /\ (k > 1 => cs[k].from = cs[k - 1].to)
    <3>1. CASE k \in DOMAIN bs
      <4>1. OfItsPeriod(q, bs[k]) /\ (k > 1 => bs[k].from = bs[k - 1].to)
        BY <3>1 DEF FitsWindow, Adjoin
      <4>2. cs[k] = bs[k] /\ (k > 1 => cs[k - 1] = bs[k - 1])  BY <2>5, <2>8, <3>1
      <4> QED  BY <4>1, <4>2
    <3>2. CASE k = Len(bs) + 1
      <4>1. cs[k] = new  BY <2>5, <3>2
      <4>2. k > 1 => cs[k - 1] = bs[Len(bs)] /\ bs # <<>>  BY <2>5, <2>8, <3>2
      <4>3. k > 1 => cs[k - 1].to = previous  BY <4>2 DEF LastTo
      <4> QED  BY <2>1, <2>6, <2>7, <4>1, <4>3
    <3> QED  BY <2>8, <3>1, <3>2
  <2>10. cs[1].from = lo
    <3>1. CASE bs = <<>>
      <4>1. cs[1] = new  BY <2>5, <3>1
      <4> QED  BY <2>1, <2>6, <3>1, <4>1
    <3>2. CASE bs # <<>>
      <4>1. 1 \in 1 .. Len(bs)  BY <2>4, <3>2
      <4>2. bs[1].from = lo  BY <3>2 DEF FitsWindow, Adjoin
      <4> QED  BY <2>5, <4>1, <4>2
    <3> QED  BY <3>1, <3>2
  <2>11. Adjoin(q, cs)  BY <2>5, <2>9, <2>10 DEF Adjoin
  <2>12. LastTo(cs) = to  BY <2>5, <2>6 DEF LastTo
  <2> QED  BY <1>2, <1>7, <2>5, <2>11, <2>12 DEF FitsWindow, cs
<1> QED  BY <1>8, <1>9

(* Buckets that reach the window's end partition it: the latest of the     *)
(* edges begun by an instant is its bucket's.                              *)
LEMMA CutPartitions ==
    ASSUME NEW q, AskedOf(q), NEW n, NEW bs, FitsWindow(q, n, bs), n >= q.until,
           bs # <<>>, LastTo(bs) = start(q.zone, q.until)
    PROVE  Partitions(bs, q.zone, q.period, q.since, q.until)
<1>1. /\ q.zone \in [Instants -> Int] /\ q.since \in Int /\ q.until \in Int
  BY AskedIs
<1>2. n \in Starting(q) /\ n \in Int /\ Starting(q) \in SUBSET Int  BY StartingIs DEF FitsWindow
<1>3. /\ start(q.zone, q.since) = Earliest(q.zone, q.since)
      /\ start(q.zone, q.until) = Earliest(q.zone, q.until)
      /\ Earliest(q.zone, q.until) \in Instants /\ Earliest(q.zone, q.since) \in Instants
  <2>1. NoDate \notin {start(q.zone, q.since), start(q.zone, q.until)}  BY DEF FitsWindow
  <2>2. /\ Earliest(q.zone, q.since) # Horizon /\ Earliest(q.zone, q.until) # Horizon
        /\ start(q.zone, q.since) = Earliest(q.zone, q.since)
        /\ start(q.zone, q.until) = Earliest(q.zone, q.until)
    BY <1>1, <2>1, StartIsEarliest
  <2>3. Earliest(q.zone, q.since) \in 0 .. Horizon /\ Earliest(q.zone, q.until) \in 0 .. Horizon
    BY <1>1, EarliestIs
  <2> QED  BY <2>2, <2>3, CalendarAssumption DEF Instants
<1>4. /\ bs \in Seq(BucketSet) /\ bs[1].from = start(q.zone, q.since)
      /\ \A k \in DOMAIN bs : OfItsPeriod(q, bs[k]) /\ (k > 1 => bs[k].from = bs[k - 1].to)
  BY DEF FitsWindow, Adjoin
<1>5. ASSUME NEW k \in DOMAIN bs, NEW i \in bs[k].from .. bs[k].to - 1
      PROVE  OwnerOf(q.zone, q.period, q.since, q.until, i) = bs[k].date
  <2> DEFINE d == bs[k].date
             m == NextEdge(q.period, d)
             owners == {e \in Edges(q.period, q.since, q.until) : Begun(q.zone, e, i)}
  <2>1. bs[k].from \in Int /\ bs[k].to \in Int /\ d \in Int
    <3>1. bs[k] \in BucketSet  BY <1>4
    <3> QED  BY <3>1 DEF BucketSet
  <2>2. /\ d \in Starting(q) /\ d < q.until /\ edge(q.zone, d) <= bs[k].from
        /\ bs[k].to <= edge(q.zone, m) /\ start(q.zone, q.since) <= bs[k].from
    BY <1>4 DEF OfItsPeriod
  <2>3. m \in Starting(q) /\ m \in Int /\ d < m /\ \A s \in Starting(q) : s > d => m <= s
    BY <1>2, <2>2, StartingIs
  <2>4. edge(q.zone, d) \in Int /\ edge(q.zone, m) \in Int
        /\ (edge(q.zone, m) # NoDate => edge(q.zone, m) \in Instants)
    BY <1>1, <2>1, <2>3, EdgeType
  <2>5. i \in Instants /\ i < edge(q.zone, m) /\ edge(q.zone, d) <= i
    <3>1. start(q.zone, q.since) \in Int /\ 0 <= start(q.zone, q.since)  BY <1>3 DEF Instants
    <3>2. i \in Int /\ bs[k].from <= i /\ i < bs[k].to  BY <2>1
    <3>3. 0 <= i /\ i < edge(q.zone, m) /\ edge(q.zone, d) <= i  BY <2>1, <2>2, <2>4, <3>1, <3>2
    <3>4. edge(q.zone, m) \in Instants  BY <2>4, <3>2, <3>3 DEF NoDate
    <3>5. Horizon \in Int /\ edge(q.zone, m) < Horizon  BY <3>4, CalendarAssumption DEF Instants
    <3> QED  BY <2>4, <3>2, <3>3, <3>5 DEF Instants
  <2>6. edge(q.zone, d) # NoDate
    BY <1>1, <1>2, <2>1, <2>2 DEF FitsWindow, EdgesAdvance
  <2>7. Edges(q.period, q.since, q.until) = {e \in Starting(q) : e < q.until}
    BY DEF Edges, Starting, FirstOf
  <2>8. d \in owners  BY <1>1, <2>1, <2>2, <2>5, <2>6, <2>7, BegunIs
  <2>9. ASSUME NEW e \in owners PROVE e <= d
    <3>1. e \in Starting(q) /\ e < q.until /\ Begun(q.zone, e, i) /\ e \in Int  BY <1>2, <2>7
    <3>2. edge(q.zone, e) <= i /\ edge(q.zone, e) \in Int
      BY <1>1, <2>5, <3>1, BegunIs, EdgeType
    <3>3. ASSUME e > d PROVE FALSE
      <4>1. m <= e  BY <2>3, <3>1, <3>3
      <4>2. m <= e /\ e <= n /\ m < n  BY <1>1, <1>2, <2>3, <3>1, <4>1
      <4>3. edge(q.zone, m) <= edge(q.zone, e)
        BY <2>3, <3>1, <4>2 DEF FitsWindow, EdgesAdvance
      <4>4. i \in Int  BY <2>5 DEF Instants
      <4> QED  BY <2>4, <2>5, <3>2, <4>3, <4>4
    <3> QED  BY <2>1, <3>1, <3>3
  <2>10. owners \in SUBSET Int  BY <1>2, <2>7
  <2>11. Max(owners) \in owners /\ \A y \in owners : y <= Max(owners)
    <3> HIDE DEF owners
    <3> QED  BY <2>1, <2>8, <2>9, <2>10, GreatestIs
  <2>12. PICK g : g = Max(owners)  OBVIOUS
  <2>13. g \in owners /\ d <= g  BY <2>8, <2>11, <2>12
  <2>14. g = d
    <3> HIDE DEF owners
    <3>1. g <= d  BY <2>9, <2>13
    <3>2. g \in Int  BY <2>10, <2>13
    <3> HIDE DEF d
    <3> QED  BY <2>1, <2>13, <3>1, <3>2
  <2> QED  BY <2>12, <2>14 DEF OwnerOf
<1>6. ASSUME NEW k \in DOMAIN bs PROVE bs[k].from < bs[k].to /\ (k > 1 => bs[k].from = bs[k - 1].to)
  BY <1>4 DEF OfItsPeriod
<1> QED  BY <1>3, <1>4, <1>5, <1>6 DEF Partitions

-----------------------------------------------------------------------------
(* What is refused, in a zone whose dates never run backwards.             *)

(* A later date is shown later.                                            *)
LEMMA MonotoneEarliest ==
    ASSUME NEW zone \in [Instants -> Int], Monotone(zone), NEW c \in Int, NEW d \in Int, c < d,
           Earliest(zone, c) < Horizon, Earliest(zone, d) < Horizon
    PROVE  Earliest(zone, c) < Earliest(zone, d)
<1>1. PICK t : t = Earliest(zone, c)  OBVIOUS
<1>2. PICK u : u = Earliest(zone, d)  OBVIOUS
<1>3. t \in Instants /\ DateAt(zone, t) = c  BY <1>1, EarliestIs
<1>4. u \in Instants /\ DateAt(zone, u) = d  BY <1>2, EarliestIs
<1>5. ~(u < t)  BY <1>3, <1>4 DEF Monotone
<1>6. t # u  BY <1>3, <1>4
<1>7. t \in Int /\ u \in Int  BY <1>3, <1>4 DEF Instants
<1> QED  BY <1>1, <1>2, <1>5, <1>6, <1>7

(* An edge is where its date, or the next that is shown, begins.           *)
LEMMA EdgeBounds ==
    ASSUME NEW zone \in [Instants -> Int], Monotone(zone), NEW e \in Int, NEW d \in Int,
           Earliest(zone, d) < Horizon, edge(zone, e) # NoDate
    PROVE  /\ e <= d => edge(zone, e) <= Earliest(zone, d)
           /\ d <= e => Earliest(zone, d) <= edge(zone, e)
           /\ d < e => Earliest(zone, d) < edge(zone, e)
           /\ e <= d /\ edge(zone, e) = Earliest(zone, d) => \A s \in e .. d - 1 : Earliest(zone, s) = Horizon
<1> USE CalendarAssumption
<1>1. PICK c \in e .. e + MaxDates :
        /\ edge(zone, e) = Earliest(zone, c) /\ Earliest(zone, c) \in Instants
        /\ \A s \in e .. c - 1 : Earliest(zone, s) = Horizon
  BY EdgeIs
<1>2. c \in Int /\ e <= c /\ Earliest(zone, c) < Horizon /\ Earliest(zone, c) \in Int
  BY <1>1 DEF Instants
<1>3. Earliest(zone, d) \in Int  BY EarliestIs
<1>4. ~(e <= d /\ d < c)
  <2>1. e <= d /\ d < c => d \in e .. c - 1  BY <1>2
  <2>2. Earliest(zone, d) # Horizon  BY <1>3
  <2> QED  BY <1>1, <2>1, <2>2
<1>5. c < d => Earliest(zone, c) < Earliest(zone, d)  BY <1>2, MonotoneEarliest
<1>6. d < c => Earliest(zone, d) < Earliest(zone, c)  BY <1>2, MonotoneEarliest
<1>7. CASE c = d  BY <1>1, <1>2, <1>3, <1>7
<1>8. CASE c < d
  <2>1. e <= d /\ ~(d <= e)  BY <1>2, <1>8
  <2> QED  BY <1>1, <1>2, <1>3, <1>5, <1>8, <2>1
<1>9. CASE d < c
  <2>1. d < e  BY <1>2, <1>4, <1>9
  <2> QED  BY <1>1, <1>2, <1>3, <1>6, <1>9, <2>1
<1> QED  BY <1>2, <1>7, <1>8, <1>9

LEMMA EdgesMonotone ==
    ASSUME NEW zone \in [Instants -> Int], Monotone(zone), NEW e \in Int, NEW f \in Int, e <= f,
           edge(zone, e) # NoDate, edge(zone, f) # NoDate
    PROVE  edge(zone, e) <= edge(zone, f)
<1> USE CalendarAssumption
<1>1. PICK c \in f .. f + MaxDates : edge(zone, f) = Earliest(zone, c) /\ Earliest(zone, c) \in Instants
  BY EdgeIs
<1>2. c \in Int /\ e <= c /\ Earliest(zone, c) < Horizon  BY <1>1 DEF Instants
<1> QED  BY <1>1, <1>2, EdgeBounds

(* The bounds of a window that may be refused there.                       *)
LEMMA BoundsAre ==
    ASSUME NEW q, AskedOf(q),
           Earliest(q.zone, q.since) < Horizon, Earliest(q.zone, q.until) < Horizon
    PROVE  /\ start(q.zone, q.since) = Earliest(q.zone, q.since)
           /\ start(q.zone, q.until) = Earliest(q.zone, q.until)
           /\ Earliest(q.zone, q.since) \in Int /\ Earliest(q.zone, q.until) \in Int
           /\ Earliest(q.zone, q.since) # NoDate /\ Earliest(q.zone, q.until) # NoDate
<1> USE CalendarAssumption
<1>1. q.zone \in [Instants -> Int] /\ q.since \in Int /\ q.until \in Int  BY AskedIs
<1>2. Earliest(q.zone, q.since) \in 0 .. Horizon /\ Earliest(q.zone, q.until) \in 0 .. Horizon
  BY <1>1, EarliestIs
<1>3. Earliest(q.zone, q.since) # Horizon /\ Earliest(q.zone, q.until) # Horizon  BY <1>2
<1> QED  BY <1>1, <1>2, <1>3, StartIsEarliest DEF NoDate

(* There, bounds that are shown are in order.                              *)
LEMMA UnfitRightly ==
    ASSUME NEW q, AskedOf(q), Monotone(q.zone), q.since < q.until,
           Earliest(q.zone, q.since) < Horizon, Earliest(q.zone, q.until) < Horizon
    PROVE  Unfit(q.zone, q.since, q.until) # "invalid"
<1>1. q.zone \in [Instants -> Int] /\ q.since \in Int /\ q.until \in Int  BY AskedIs
<1>2. Earliest(q.zone, q.since) < Earliest(q.zone, q.until)  BY <1>1, MonotoneEarliest
<1> DEFINE lo == start(q.zone, q.since)
           hi == start(q.zone, q.until)
<1>3. ~(NoDate \in {lo, hi}) /\ ~(lo >= hi)  BY <1>2, BoundsAre
<1>4. ~(q.since >= q.until)  BY <1>1
<1> HIDE DEF lo, hi
<1>5. CASE q.until - q.since > MaxDates
  <2>1. Unfit(q.zone, q.since, q.until) = "too_large"  BY <1>4, <1>5 DEF Unfit
  <2> QED  BY <2>1
<1>6. CASE ~(q.until - q.since > MaxDates)
  <2>1. Unfit(q.zone, q.since, q.until) = "none"  BY <1>3, <1>4, <1>6 DEF Unfit, lo, hi
  <2> QED  BY <2>1
<1> QED  BY <1>5, <1>6

(* A cut is refused there only where the window ends on the edge.          *)
LEMMA CutRefusesRightly ==
    ASSUME NEW q, AskedOf(q), Monotone(q.zone),
           Earliest(q.zone, q.since) < Horizon, Earliest(q.zone, q.until) < Horizon,
           NEW n, NEW bs, FitsWindow(q, n, bs), n < q.until,
           NEW cut, cut = Cut(q.zone, q.period, start(q.zone, q.since), start(q.zone, q.until), q.now, bs, n),
           cut.error = "invalid"
    PROVE  \A d \in n .. q.until - 1 : Earliest(q.zone, d) = Horizon
<1> SUFFICES ASSUME ~(\A d \in n .. q.until - 1 : Earliest(q.zone, d) = Horizon) PROVE FALSE
  OBVIOUS
<1> DEFINE a == edge(q.zone, n)
           m == NextEdge(q.period, n)
           b == edge(q.zone, m)
           lo == start(q.zone, q.since)
           hi == start(q.zone, q.until)
           from == Max({a, lo})
           to == Min({b, hi})
           previous == IF bs = <<>> THEN lo ELSE LastTo(bs)
<1>1. /\ q.zone \in [Instants -> Int] /\ q.since \in Int /\ q.until \in Int
  BY AskedIs
<1>2. /\ n \in Starting(q) /\ n \in Int /\ m \in Starting(q) /\ m \in Int /\ n < m /\ q.since < m
      /\ FirstOf(q) \in Int /\ FirstOf(q) <= q.since
  <2>1. /\ n \in Starting(q) /\ n \in Int /\ m \in Starting(q) /\ m \in Int /\ n < m
        /\ FirstOf(q) \in Int /\ FirstOf(q) <= q.since
    BY StartingIs DEF FitsWindow
  <2>2. FirstOf(q) <= n /\ (m <= q.since => m = FirstOf(q))  BY <2>1, StartingIs
  <2> QED  BY <1>1, <2>1, <2>2
<1>3. a \in Int /\ b \in Int /\ lo \in Int /\ hi \in Int
      /\ lo = Earliest(q.zone, q.since) /\ hi = Earliest(q.zone, q.until) /\ lo < hi
  <2>1. a \in Int /\ b \in Int  BY <1>1, <1>2, EdgeType
  <2>2. lo < hi  BY DEF FitsWindow
  <2> QED  BY <2>1, <2>2, BoundsAre
<1>4. from = (IF a <= lo THEN lo ELSE a) /\ to = (IF b <= hi THEN b ELSE hi)
  BY <1>3, TheGreater, TheLesser
<1>5. NoDate \notin {a, b} /\ a # b /\ ~(a < b /\ from < to /\ from = previous)
  <2> HIDE DEF a, b, lo, hi, m
  <2>1. CASE NoDate \in {a, b}
    <3>1. cut = Failed("too_large")  BY <2>1 DEF Cut, a, b, m
    <3>2. cut.error # "invalid"  BY <3>1 DEF Failed
    <3> QED  BY <3>2
  <2>2. CASE NoDate \notin {a, b} /\ a = b
    <3>1. ~(NoDate \in {a, b}) /\ ~(a # b) /\ ~(a < b)  BY <1>3, <2>2
    <3>2. cut = Kept(bs)  BY <3>1 DEF Cut, a, b, m
    <3> QED  BY <3>2 DEF Kept
  <2>3. CASE NoDate \notin {a, b} /\ a # b /\ a < b /\ from < to /\ from = previous /\ Len(bs) >= MaxBuckets
    <3>1. cut = Failed("too_large")  BY <2>3 DEF Cut, a, b, m, lo, hi
    <3>2. cut.error # "invalid"  BY <3>1 DEF Failed
    <3> QED  BY <3>2
  <2>4. CASE NoDate \notin {a, b} /\ a # b /\ a < b /\ from < to /\ from = previous /\ ~(Len(bs) >= MaxBuckets)
    <3>1. cut = Kept(Append(bs,
                 [date |-> n, from |-> from, to |-> to,
                  partial |-> a # from \/ b # to, inProgress |-> a <= q.now /\ q.now < b]))
      BY <2>4 DEF Cut, a, b, m, lo, hi
    <3> QED  BY <3>1 DEF Kept
  <2> QED  BY <2>1, <2>2, <2>3, <2>4
<1>6. a < b
  <2>1. a <= b  BY <1>1, <1>2, <1>5, EdgesMonotone
  <2> QED  BY <1>3, <1>5, <2>1
<1>7. a < hi
  <2>1. a <= hi /\ a # hi  BY <1>1, <1>2, <1>3, <1>5, EdgeBounds
  <2> QED  BY <1>3, <2>1
<1>8. lo < b  BY <1>1, <1>2, <1>3, <1>5, EdgeBounds
<1>9. from < to  BY <1>3, <1>4, <1>6, <1>7, <1>8
<1>10. from = previous
  <2>1. CASE bs = <<>>
    <3>1. a = edge(q.zone, FirstOf(q))  BY <2>1 DEF FitsWindow
    <3>2. a <= lo  BY <1>1, <1>2, <1>3, <1>5, <3>1, EdgeBounds
    <3> QED  BY <1>4, <2>1, <3>2
  <2>2. CASE bs # <<>>
    <3>1. LastTo(bs) = Min({a, hi}) /\ bs \in Seq(BucketSet)  BY <2>2 DEF FitsWindow, Adjoin
    <3>2. LastTo(bs) = a  BY <1>3, <1>7, <3>1, TheLesser
    <3>3. Len(bs) \in DOMAIN bs  BY <2>2, <3>1
    <3>4. OfItsPeriod(q, bs[Len(bs)]) /\ bs[Len(bs)] \in BucketSet  BY <3>1, <3>3 DEF FitsWindow, Adjoin
    <3>5. bs[Len(bs)].from \in Int /\ lo <= bs[Len(bs)].from /\ bs[Len(bs)].from < a
      BY <3>2, <3>4 DEF OfItsPeriod, BucketSet, LastTo
    <3> QED  BY <1>3, <1>4, <2>2, <3>2, <3>5
  <2> QED  BY <2>1, <2>2
<1> QED  BY <1>5, <1>6, <1>9, <1>10

(* The last bucket ends where the window does.                             *)
LEMMA EndIsReached ==
    ASSUME NEW q, AskedOf(q), Monotone(q.zone),
           Earliest(q.zone, q.since) < Horizon, Earliest(q.zone, q.until) < Horizon,
           NEW n, NEW bs, FitsWindow(q, n, bs), n >= q.until
    PROVE  bs # <<>> /\ LastTo(bs) = start(q.zone, q.until)
<1> DEFINE lo == start(q.zone, q.since)
           hi == start(q.zone, q.until)
           first == edge(q.zone, FirstOf(q))
           last == edge(q.zone, n)
<1>1. /\ q.zone \in [Instants -> Int] /\ q.since \in Int /\ q.until \in Int
  BY AskedIs
<1>2. /\ n \in Starting(q) /\ n \in Int /\ FirstOf(q) \in Starting(q)
      /\ FirstOf(q) \in Int /\ FirstOf(q) <= q.since /\ q.since < q.until
  BY StartingIs DEF FitsWindow
<1>3. lo = Earliest(q.zone, q.since) /\ hi = Earliest(q.zone, q.until) /\ lo < hi
      /\ lo \in Int /\ hi \in Int /\ first \in Int /\ last \in Int
  <2>1. lo < hi  BY DEF FitsWindow
  <2> QED  BY <1>1, <1>2, <2>1, BoundsAre, EdgeType
<1>4. first # NoDate /\ last # NoDate
  <2>1. FirstOf(q) <= n /\ FirstOf(q) < n  BY <1>1, <1>2
  <2> QED  BY <1>2, <2>1 DEF FitsWindow, EdgesAdvance
<1>5. first <= lo /\ hi <= last  BY <1>1, <1>2, <1>3, <1>4, EdgeBounds
<1>6. bs # <<>>
  <2>1. bs = <<>> => last = first  BY DEF FitsWindow
  <2> QED  BY <1>3, <1>5, <2>1
<1>7. LastTo(bs) = Min({last, hi})  BY <1>6 DEF FitsWindow
<1> QED  BY <1>3, <1>5, <1>6, <1>7, TheLesser

-----------------------------------------------------------------------------
(* Totals, for tables of any length.                                       *)

RowSet == [at : Int, model : Models, count : (0 .. MaxSum) \cup {Null}, value : Reasons \cup {"priced"}]

(* The sums of a table's counts up to each row.                            *)
Term(table, S, k) == IF k \in S THEN table[k].count ELSE 0
IsSums(table, S, f, n) ==
    /\ f \in [0 .. n -> Nat] /\ f[0] = 0
    /\ \A k \in 1 .. n : f[k] = f[k - 1] + Term(table, S, k)

LEMMA SumsExist ==
    ASSUME NEW table, NEW S, NEW len \in Nat, \A k \in 1 .. len : Term(table, S, k) \in Nat,
           NEW n \in 0 .. len
    PROVE  \E f : IsSums(table, S, f, n)
<1> DEFINE Lacking == {m \in Nat : m <= len /\ ~\E f : IsSums(table, S, f, m)}
<1>1. Lacking = {}
  <2> SUFFICES ASSUME Lacking # {} PROVE FALSE  OBVIOUS
  <2>1. PICK m \in Lacking : \A y \in Lacking : m <= y  BY LeastNat
  <2>2. m \in Nat /\ m <= len /\ ~\E f : IsSums(table, S, f, m)  BY <2>1
  <2>3. m # 0
    <3> DEFINE f == [k \in 0 .. 0 |-> 0]
    <3>1. IsSums(table, S, f, 0)  BY DEF IsSums
    <3> QED  BY <2>2, <3>1
  <2>4. m - 1 \in Nat /\ m - 1 <= len /\ m - 1 \notin Lacking  BY <2>1, <2>2, <2>3
  <2>5. PICK g : IsSums(table, S, g, m - 1)  BY <2>4
  <2> DEFINE f == [k \in 0 .. m |-> IF k = m THEN g[m - 1] + Term(table, S, m) ELSE g[k]]
  <2>6. g \in [0 .. m - 1 -> Nat] /\ g[0] = 0
        /\ \A k \in 1 .. m - 1 : g[k] = g[k - 1] + Term(table, S, k)
    BY <2>5 DEF IsSums
  <2>7. Term(table, S, m) \in Nat /\ g[m - 1] \in Nat  BY <2>2, <2>3, <2>6
  <2>8. f \in [0 .. m -> Nat] /\ f[0] = 0  BY <2>2, <2>3, <2>6, <2>7
  <2>9. ASSUME NEW k \in 1 .. m PROVE f[k] = f[k - 1] + Term(table, S, k)
    <3>1. CASE k = m  BY <2>2, <2>3, <3>1
    <3>2. CASE k # m  BY <2>2, <2>6, <3>2
    <3> QED  BY <3>1, <3>2
  <2>10. IsSums(table, S, f, m)
    <3> HIDE DEF f
    <3> QED  BY <2>8, <2>9 DEF IsSums
  <2> QED  BY <2>2, <2>10
<1>2. n \in Nat /\ n <= len  OBVIOUS
<1> QED  BY <1>1, <1>2

(* Sums that begin alike and go on alike are alike.                        *)
LEMMA SumsAgree ==
    ASSUME NEW n \in Nat, NEW f, NEW g, f[0] = g[0],
           \A k \in 1 .. n : f[k - 1] = g[k - 1] => f[k] = g[k]
    PROVE  f[n] = g[n]
<1> DEFINE Apart == {m \in Nat : m <= n /\ f[m] # g[m]}
<1>1. Apart = {}
  <2> SUFFICES ASSUME Apart # {} PROVE FALSE  OBVIOUS
  <2>1. PICK m \in Apart : \A y \in Apart : m <= y  BY LeastNat
  <2>2. m \in 1 .. n /\ m - 1 \in Nat /\ m - 1 <= n /\ m - 1 \notin Apart  BY <2>1
  <2> QED  BY <2>1, <2>2
<1> QED  BY <1>1

LEMMA SumOfIs ==
    ASSUME NEW table, NEW S, Len(table) \in Nat, NEW f, IsSums(table, S, f, Len(table))
    PROVE  SumOf(table, S) = f[Len(table)]
<1> DEFINE sums == CHOOSE u : u = [n \in 0 .. Len(table) |-> IF n = 0 THEN 0 ELSE u[n - 1] + Term(table, S, n)]
<1>1. SumOf(table, S) = sums[Len(table)]  BY DEF SumOf, Term
<1>2. f = [n \in 0 .. Len(table) |-> IF n = 0 THEN 0 ELSE f[n - 1] + Term(table, S, n)]
  BY DEF IsSums
<1>3. sums = [n \in 0 .. Len(table) |-> IF n = 0 THEN 0 ELSE sums[n - 1] + Term(table, S, n)]
  BY <1>2
<1> HIDE DEF sums
<1>4. sums[0] = f[0]  BY <1>3 DEF IsSums
<1>5. \A k \in 1 .. Len(table) : sums[k - 1] = f[k - 1] => sums[k] = f[k]
  <2> SUFFICES ASSUME NEW k \in 1 .. Len(table), sums[k - 1] = f[k - 1] PROVE sums[k] = f[k]
    OBVIOUS
  <2>1. sums[k] = sums[k - 1] + Term(table, S, k)  BY <1>3
  <2>2. f[k] = f[k - 1] + Term(table, S, k)  BY DEF IsSums
  <2> QED  BY <2>1, <2>2
<1>6. sums[Len(table)] = f[Len(table)]  BY <1>4, <1>5, SumsAgree
<1> QED  BY <1>1, <1>6

CountedOf(table) == {k \in DOMAIN table : table[k].count # Null}

LEMMA TermType ==
    ASSUME NEW table \in Seq(RowSet), NEW S \in SUBSET CountedOf(table)
    PROVE  \A k \in 1 .. Len(table) : Term(table, S, k) \in Nat
<1> SUFFICES ASSUME NEW k \in 1 .. Len(table) PROVE Term(table, S, k) \in Nat  OBVIOUS
<1>1. table[k] \in RowSet  OBVIOUS
<1>2. table[k].count \in Nat \cup {Null}  BY <1>1 DEF RowSet
<1>3. k \in S => table[k].count # Null  BY DEF CountedOf
<1> QED  BY <1>2, <1>3 DEF Term

LEMMA SumOfType ==
    ASSUME NEW table \in Seq(RowSet), NEW S \in SUBSET CountedOf(table)
    PROVE  SumOf(table, S) \in Nat
<1>1. Len(table) \in Nat /\ Len(table) \in 0 .. Len(table)
      /\ \A k \in 1 .. Len(table) : Term(table, S, k) \in Nat
  BY TermType
<1>2. PICK f : IsSums(table, S, f, Len(table))  BY <1>1, SumsExist
<1>3. SumOf(table, S) = f[Len(table)]  BY <1>1, <1>2, SumOfIs
<1>4. f \in [0 .. Len(table) -> Nat]  BY <1>2 DEF IsSums
<1> QED  BY <1>1, <1>3, <1>4

(* A row that is counted adds its count, and another adds nothing.         *)
LEMMA SumOfGrows ==
    ASSUME NEW table \in Seq(RowSet), NEW row \in RowSet, NEW S \in SUBSET CountedOf(table)
    PROVE  /\ SumOf(table, S) \in Nat /\ (S = {} => SumOf(table, S) = 0)
           /\ SumOf(Append(table, row), S) = SumOf(table, S)
           /\ row.count # Null =>
                SumOf(Append(table, row), S \cup {Len(table) + 1}) = SumOf(table, S) + row.count
<1> DEFINE n == Len(table)
           more == Append(table, row)
           T == S \cup {n + 1}
<1>1. n \in Nat /\ Len(more) = n + 1 /\ more[n + 1] = row /\ (\A k \in 1 .. n : more[k] = table[k])
      /\ more \in Seq(RowSet) /\ DOMAIN more = 1 .. n + 1 /\ DOMAIN table = 1 .. n
  OBVIOUS
<1> HIDE DEF n, more
<1>2. S \subseteq 1 .. n /\ n + 1 \notin S /\ S \in SUBSET CountedOf(more)
      /\ (row.count # Null => T \in SUBSET CountedOf(more))
  BY <1>1 DEF CountedOf
<1>3. PICK f : IsSums(table, S, f, n)
  <2>1. \A k \in 1 .. n : Term(table, S, k) \in Nat  BY TermType DEF n
  <2>2. n \in 0 .. n  BY <1>1
  <2> QED  BY <1>1, <2>1, <2>2, SumsExist
<1>4. PICK g : IsSums(more, S, g, n + 1)
  <2>1. \A k \in 1 .. n + 1 : Term(more, S, k) \in Nat  BY <1>1, <1>2, TermType
  <2>2. n + 1 \in Nat /\ n + 1 \in 0 .. n + 1  BY <1>1
  <2> QED  BY <2>1, <2>2, SumsExist
<1>5. SumOf(table, S) = f[n] /\ f[n] \in Nat  BY <1>1, <1>3, SumOfIs DEF n, IsSums
<1>6. SumOf(more, S) = g[n + 1]  BY <1>1, <1>4, SumOfIs
<1>7. \A k \in 1 .. n : Term(more, S, k) = Term(table, S, k) /\ Term(more, T, k) = Term(table, S, k)
  BY <1>1 DEF Term
<1>8. g[n + 1] = f[n]
  <2>1. g[0] = f[0]  BY <1>3, <1>4 DEF IsSums
  <2>2. \A k \in 1 .. n : g[k - 1] = f[k - 1] => g[k] = f[k]
    BY <1>1, <1>3, <1>4, <1>7 DEF IsSums
  <2>3. g[n] = f[n]  BY <1>1, <2>1, <2>2, SumsAgree
  <2>4. g[n + 1] = g[n] + Term(more, S, n + 1)
    <3>1. n + 1 \in 1 .. n + 1 /\ n + 1 - 1 = n  BY <1>1
    <3>2. \A k \in 1 .. n + 1 : g[k] = g[k - 1] + Term(more, S, k)  BY <1>4 DEF IsSums
    <3>3. g[n + 1] = g[(n + 1) - 1] + Term(more, S, n + 1)  BY <3>1, <3>2
    <3> QED  BY <1>1, <3>1, <3>3
  <2>5. Term(more, S, n + 1) = 0  BY <1>2 DEF Term
  <2> QED  BY <1>5, <2>3, <2>4, <2>5
<1>9. ASSUME row.count # Null PROVE SumOf(more, T) = f[n] + row.count
  <2>0. PICK h : IsSums(more, T, h, n + 1)
    <3>1. T \in SUBSET CountedOf(more)  BY <1>2, <1>9
    <3>2. \A k \in 1 .. n + 1 : Term(more, T, k) \in Nat
      <4> HIDE DEF T
      <4> QED  BY <1>1, <3>1, TermType
    <3>3. n + 1 \in Nat /\ n + 1 \in 0 .. n + 1  BY <1>1
    <3> HIDE DEF T
    <3> QED  BY <3>2, <3>3, SumsExist
  <2>1. h[0] = f[0]  BY <1>3, <2>0 DEF IsSums
  <2>2. \A k \in 1 .. n : h[k - 1] = f[k - 1] => h[k] = f[k]
    <3>1. \A k \in 1 .. n + 1 : h[k] = h[k - 1] + Term(more, T, k)  BY <2>0 DEF IsSums
    <3>2. \A k \in 1 .. n : f[k] = f[k - 1] + Term(table, S, k)  BY <1>3 DEF IsSums
    <3> SUFFICES ASSUME NEW k \in 1 .. n, h[k - 1] = f[k - 1] PROVE h[k] = f[k]  OBVIOUS
    <3>3. k \in 1 .. n + 1  BY <1>1
    <3> HIDE DEF T
    <3> QED  BY <1>7, <3>1, <3>2, <3>3
  <2>3. h[n] = f[n]  BY <1>1, <2>1, <2>2, SumsAgree
  <2>4. h[n + 1] = h[n] + Term(more, T, n + 1)
    <3>1. n + 1 \in 1 .. n + 1 /\ n + 1 - 1 = n  BY <1>1
    <3>2. \A k \in 1 .. n + 1 : h[k] = h[k - 1] + Term(more, T, k)  BY <2>0 DEF IsSums
    <3> HIDE DEF T
    <3>3. h[n + 1] = h[(n + 1) - 1] + Term(more, T, n + 1)  BY <3>1, <3>2
    <3> QED  BY <1>1, <3>1, <3>3
  <2>5. Term(more, T, n + 1) = row.count  BY <1>1 DEF Term
  <2>6. SumOf(more, T) = h[n + 1]  BY <1>1, <2>0, SumOfIs
  <2> QED  BY <2>3, <2>4, <2>5, <2>6
<1>10. ASSUME S = {} PROVE f[n] = 0
  <2> DEFINE z == [k \in 0 .. n |-> 0]
  <2>1. f[0] = z[0]  BY <1>1, <1>3 DEF IsSums
  <2>2. \A k \in 1 .. n : f[k - 1] = z[k - 1] => f[k] = z[k]
    BY <1>1, <1>3, <1>10 DEF IsSums, Term
  <2>3. z[n] = 0  BY <1>1
  <2> HIDE DEF z
  <2> QED  BY <1>1, <2>1, <2>2, <2>3, SumsAgree
<1> QED  BY <1>5, <1>6, <1>8, <1>9, <1>10 DEF n, more

(* What a row does to each part of a total.                                *)
LEMMA AddIs ==
    ASSUME NEW t, NEW nTurns, NEW nReported, NEW sum, NEW priced, NEW amount, NEW unpriced, NEW row,
           t = [turns |-> nTurns, reported |-> nReported, sum |-> sum, priced |-> priced,
                amount |-> amount, unpriced |-> unpriced]
    PROVE  Add(t, row) =
             [turns |-> nTurns + 1,
              reported |-> IF row.count = Null THEN nReported ELSE nReported + 1,
              sum |-> IF row.count = Null THEN sum ELSE row.count + (IF sum = Null THEN 0 ELSE sum),
              priced |-> IF row.value = "priced" THEN priced + 1 ELSE priced,
              amount |-> IF row.value = "priced" THEN (IF amount = Null THEN 0 ELSE amount) + Amount
                         ELSE IF priced = 0 THEN Null ELSE amount,
              unpriced |-> IF row.value = "priced" THEN unpriced
                           ELSE [unpriced EXCEPT ![row.value] = @ + 1]]
<1>1. PICK rep : rep = IF row.count = Null THEN nReported ELSE nReported + 1  OBVIOUS
<1>2. PICK summed : summed = IF row.count = Null THEN sum ELSE row.count + (IF sum = Null THEN 0 ELSE sum)
  OBVIOUS
<1>3. PICK c : c = [turns |-> nTurns + 1, reported |-> rep, sum |-> summed, priced |-> priced,
                    amount |-> amount, unpriced |-> unpriced]
  OBVIOUS
<1>4. Counted(t, row) = c
  <2>1. CASE row.count = Null  BY <1>1, <1>2, <1>3, <2>1 DEF Counted
  <2>2. CASE row.count # Null
    <3>1. PICK turned : turned = [t EXCEPT !.turns = @ + 1]  OBVIOUS
    <3>2. turned = [turns |-> nTurns + 1, reported |-> nReported, sum |-> sum, priced |-> priced,
                    amount |-> amount, unpriced |-> unpriced]
      BY <3>1
    <3>3. Counted(t, row) =
            [turned EXCEPT !.reported = @ + 1, !.sum = row.count + (IF @ = Null THEN 0 ELSE @)]
      BY <2>2, <3>1 DEF Counted
    <3>4. Counted(t, row) =
            [turns |-> nTurns + 1, reported |-> nReported + 1,
             sum |-> row.count + (IF sum = Null THEN 0 ELSE sum), priced |-> priced,
             amount |-> amount, unpriced |-> unpriced]
      BY <3>2, <3>3
    <3> QED  BY <1>1, <1>2, <1>3, <2>2, <3>4
  <2> QED  BY <2>1, <2>2
<1>5. Add(t, row) = addCost(c, row)  BY <1>4 DEF Add
<1>6. CASE row.value = "priced"
  <2>1. addCost(c, row) = [c EXCEPT !.priced = @ + 1, !.amount = (IF @ = Null THEN 0 ELSE @) + Amount]
    BY <1>6 DEF addCost
  <2>2. addCost(c, row) =
          [turns |-> nTurns + 1, reported |-> rep, sum |-> summed, priced |-> priced + 1,
           amount |-> (IF amount = Null THEN 0 ELSE amount) + Amount, unpriced |-> unpriced]
    BY <1>3, <2>1
  <2> QED  BY <1>1, <1>2, <1>5, <1>6, <2>2
<1>7. CASE row.value # "priced"
  <2>1. addCost(c, row) =
          [c EXCEPT !.unpriced[row.value] = @ + 1, !.amount = IF c.priced = 0 THEN Null ELSE @]
    BY <1>7 DEF addCost
  <2>2. addCost(c, row) =
          [turns |-> nTurns + 1, reported |-> rep, sum |-> summed, priced |-> priced,
           amount |-> IF priced = 0 THEN Null ELSE amount,
           unpriced |-> [unpriced EXCEPT ![row.value] = @ + 1]]
    BY <1>3, <2>1
  <2> QED  BY <1>1, <1>2, <1>5, <1>7, <2>2
<1> QED  BY <1>6, <1>7

(* A total is empty of no rows.                                            *)
LEMMA TallyNone == ASSUME NEW table \in Seq(RowSet) PROVE Tally(table, {}) = EmptyTotal
<1>1. Cardinality({}) = 0  BY FS_EmptySet
<1>2. Amount * 0 = 0  BY UsageReportAssumption
<1>3. {k \in {} : table[k].count # Null} = {} /\ {k \in {} : table[k].value = "priced"} = {}
      /\ \A r \in Reasons : {k \in {} : table[k].value = r} = {}
  OBVIOUS
<1> QED  BY <1>1, <1>2, <1>3 DEF Tally, EmptyTotal

(* Another row, of others.                                                 *)
LEMMA TallyStays ==
    ASSUME NEW table \in Seq(RowSet), NEW row \in RowSet, NEW S \in SUBSET DOMAIN table
    PROVE  Tally(Append(table, row), S) = Tally(table, S)
<1> DEFINE more == Append(table, row)
<1>1. \A k \in S : more[k] = table[k]  OBVIOUS
<1> HIDE DEF more
<1>2. /\ {k \in S : more[k].count # Null} = {k \in S : table[k].count # Null}
      /\ {k \in S : more[k].value = "priced"} = {k \in S : table[k].value = "priced"}
      /\ \A r \in Reasons : {k \in S : more[k].value = r} = {k \in S : table[k].value = r}
  BY <1>1
<1> DEFINE counted == {k \in S : table[k].count # Null}
<1>3. counted \in SUBSET CountedOf(table)  BY DEF CountedOf
<1>4. SumOf(more, counted) = SumOf(table, counted)
  <2> HIDE DEF counted
  <2> QED  BY <1>3, SumOfGrows DEF more
<1>5. [r \in Reasons |-> Cardinality({k \in S : more[k].value = r})]
        = [r \in Reasons |-> Cardinality({k \in S : table[k].value = r})]
  BY <1>2
<1>6. Tally(more, S) = Tally(table, S)  BY <1>2, <1>4, <1>5 DEF Tally
<1> QED  BY <1>6 DEF more

(* Another row, of these.                                                  *)
LEMMA TallyGrows ==
    ASSUME NEW table \in Seq(RowSet), NEW row \in RowSet, NEW S \in SUBSET DOMAIN table
    PROVE  Tally(Append(table, row), S \cup {Len(table) + 1}) = Add(Tally(table, S), row)
<1> DEFINE n == Len(table)
           more == Append(table, row)
           T == S \cup {n + 1}
           counted == {k \in S : table[k].count # Null}
           priced == {k \in S : table[k].value = "priced"}
           Has(r) == {k \in S : table[k].value = r}
           counted2 == {k \in T : more[k].count # Null}
           priced2 == {k \in T : more[k].value = "priced"}
           Has2(r) == {k \in T : more[k].value = r}
           unpriced == [r \in Reasons |-> Cardinality(Has(r))]
<1>1. more[n + 1] = row /\ n + 1 \notin S /\ \A k \in S : more[k] = table[k]  OBVIOUS
<1>2. IsFiniteSet(S)
  <2>1. IsFiniteSet(1 .. n) /\ S \subseteq 1 .. n  BY FS_Interval
  <2> QED  BY <2>1, FS_Subset
<1> HIDE DEF more, n
<1>3. counted2 = (IF row.count = Null THEN counted ELSE counted \cup {n + 1})
  BY <1>1
<1>4. priced2 = (IF row.value = "priced" THEN priced \cup {n + 1} ELSE priced)
  BY <1>1
<1>5. \A r \in Reasons : Has2(r) = (IF row.value = r THEN Has(r) \cup {n + 1} ELSE Has(r))
  BY <1>1
<1>6. /\ IsFiniteSet(counted) /\ IsFiniteSet(priced) /\ \A r \in Reasons : IsFiniteSet(Has(r))
      /\ n + 1 \notin counted /\ n + 1 \notin priced /\ \A r \in Reasons : n + 1 \notin Has(r)
  <2>1. counted \subseteq S /\ priced \subseteq S /\ \A r \in Reasons : Has(r) \subseteq S  OBVIOUS
  <2> HIDE DEF counted, priced, Has
  <2> QED  BY <1>1, <1>2, <2>1, FS_Subset
<1>7. counted \in SUBSET CountedOf(table)  BY DEF CountedOf
<1>8. /\ Cardinality(S) \in Nat /\ Cardinality(counted) \in Nat /\ Cardinality(priced) \in Nat
      /\ \A r \in Reasons : Cardinality(Has(r)) \in Nat
      /\ (Cardinality(priced) = 0 <=> priced = {})
  <2> HIDE DEF counted, priced, Has
  <2> QED  BY <1>2, <1>6, FS_CardinalityType, FS_EmptySet
<1>9. /\ Cardinality(T) = Cardinality(S) + 1
      /\ Cardinality(counted \cup {n + 1}) = Cardinality(counted) + 1
      /\ Cardinality(priced \cup {n + 1}) = Cardinality(priced) + 1
      /\ \A r \in Reasons : Cardinality(Has(r) \cup {n + 1}) = Cardinality(Has(r)) + 1
  <2> HIDE DEF counted, priced, Has
  <2> QED  BY <1>1, <1>2, <1>6, FS_AddElement
<1>10. /\ SumOf(table, counted) \in Nat /\ (counted = {} => SumOf(table, counted) = 0)
       /\ SumOf(more, counted) = SumOf(table, counted)
       /\ row.count # Null => SumOf(more, counted \cup {n + 1}) = SumOf(table, counted) + row.count
  <2> HIDE DEF counted
  <2> QED  BY <1>7, SumOfGrows DEF more, n
<1>11. row.count # Null => row.count \in Nat  BY DEF RowSet
<1> DEFINE sum == IF counted = {} THEN Null ELSE SumOf(table, counted)
           amount == IF priced = {} /\ S # {} THEN Null ELSE Amount * Cardinality(priced)
<1>12. Tally(table, S) = [turns |-> Cardinality(S), reported |-> Cardinality(counted), sum |-> sum,
                          priced |-> Cardinality(priced), amount |-> amount, unpriced |-> unpriced]
  BY DEF Tally
<1>13. Tally(more, T) =
         [turns |-> Cardinality(T), reported |-> Cardinality(counted2),
          sum |-> IF counted2 = {} THEN Null ELSE SumOf(more, counted2),
          priced |-> Cardinality(priced2),
          amount |-> IF priced2 = {} /\ T # {} THEN Null ELSE Amount * Cardinality(priced2),
          unpriced |-> [r \in Reasons |-> Cardinality(Has2(r))]]
  BY DEF Tally
<1> HIDE DEF counted2, priced2, Has2, counted, priced, Has
<1>14. (IF counted2 = {} THEN Null ELSE SumOf(more, counted2))
         = (IF row.count = Null THEN sum ELSE row.count + (IF sum = Null THEN 0 ELSE sum))
  <2>1. CASE row.count = Null  BY <1>3, <1>10, <2>1
  <2>2. CASE row.count # Null
    <3>1. counted2 # {} /\ SumOf(more, counted2) = SumOf(table, counted) + row.count
      BY <1>3, <1>10, <2>2
    <3>2. (IF sum = Null THEN 0 ELSE sum) = SumOf(table, counted)  BY <1>10 DEF Null
    <3> QED  BY <1>10, <1>11, <2>2, <3>1, <3>2
  <2> QED  BY <2>1, <2>2
<1>15. (IF priced2 = {} /\ T # {} THEN Null ELSE Amount * Cardinality(priced2))
         = (IF row.value = "priced" THEN (IF amount = Null THEN 0 ELSE amount) + Amount
            ELSE IF Cardinality(priced) = 0 THEN Null ELSE amount)
  <2>1. Amount \in Nat /\ Amount * Cardinality(priced) \in Nat  BY <1>8, UsageReportAssumption
  <2>2. CASE row.value = "priced"
    <3>1. priced2 # {} /\ Cardinality(priced2) = Cardinality(priced) + 1  BY <1>4, <1>9, <2>2
    <3>2. Amount * (Cardinality(priced) + 1) = Amount * Cardinality(priced) + Amount  BY <1>8, <2>1
    <3>3. priced = {} => Amount * Cardinality(priced) = 0  BY <1>8, <2>1
    <3>4. (IF amount = Null THEN 0 ELSE amount) = Amount * Cardinality(priced)
      BY <2>1, <3>3 DEF Null
    <3> QED  BY <2>2, <3>1, <3>2, <3>4
  <2>3. CASE row.value # "priced"
    <3>1. priced2 = priced /\ T # {}  BY <1>4, <2>3
    <3>2. CASE priced = {}  BY <1>8, <2>3, <3>1, <3>2
    <3>3. CASE priced # {}  BY <1>8, <2>3, <3>1, <3>3
    <3> QED  BY <3>2, <3>3
  <2> QED  BY <2>2, <2>3
<1>16. [r \in Reasons |-> Cardinality(Has2(r))]
         = (IF row.value = "priced" THEN unpriced ELSE [unpriced EXCEPT ![row.value] = @ + 1])
  <2>1. row.value \in Reasons \cup {"priced"} /\ "priced" \notin Reasons  BY DEF RowSet, Reasons
  <2>2. \A r \in Reasons : Cardinality(Has2(r)) = IF row.value = r THEN Cardinality(Has(r)) + 1 ELSE Cardinality(Has(r))
    BY <1>5, <1>9
  <2>3. CASE row.value = "priced"
    <3>1. \A r \in Reasons : Cardinality(Has2(r)) = Cardinality(Has(r))  BY <2>1, <2>2, <2>3
    <3> QED  BY <2>3, <3>1
  <2>4. CASE row.value # "priced"
    <3>1. row.value \in Reasons  BY <2>1, <2>4
    <3> QED  BY <2>2, <2>4, <3>1
  <2> QED  BY <2>3, <2>4
<1>17. Cardinality(counted2) = (IF row.count = Null THEN Cardinality(counted) ELSE Cardinality(counted) + 1)
       /\ Cardinality(priced2) = (IF row.value = "priced" THEN Cardinality(priced) + 1 ELSE Cardinality(priced))
  BY <1>3, <1>4, <1>9
<1> DEFINE reported3 == IF row.count = Null THEN Cardinality(counted) ELSE Cardinality(counted) + 1
           sum3 == IF row.count = Null THEN sum ELSE row.count + (IF sum = Null THEN 0 ELSE sum)
           priced3 == IF row.value = "priced" THEN Cardinality(priced) + 1 ELSE Cardinality(priced)
           amount3 == IF row.value = "priced" THEN (IF amount = Null THEN 0 ELSE amount) + Amount
                      ELSE IF Cardinality(priced) = 0 THEN Null ELSE amount
           unpriced3 == IF row.value = "priced" THEN unpriced ELSE [unpriced EXCEPT ![row.value] = @ + 1]
           grown == [turns |-> Cardinality(S) + 1, reported |-> reported3, sum |-> sum3,
                     priced |-> priced3, amount |-> amount3, unpriced |-> unpriced3]
<1> HIDE DEF sum, amount, unpriced, T
<1>18. Add(Tally(table, S), row) = grown  BY <1>12, AddIs
<1>19. Tally(more, T) = grown
  <2>1. /\ Cardinality(T) = Cardinality(S) + 1
        /\ Cardinality(counted2) = reported3 /\ Cardinality(priced2) = priced3
    BY <1>9, <1>17 DEF T
  <2>2. (IF counted2 = {} THEN Null ELSE SumOf(more, counted2)) = sum3  BY <1>14
  <2>3. (IF priced2 = {} /\ T # {} THEN Null ELSE Amount * Cardinality(priced2)) = amount3  BY <1>15
  <2>4. [r \in Reasons |-> Cardinality(Has2(r))] = unpriced3  BY <1>16
  <2> HIDE DEF reported3, sum3, priced3, amount3, unpriced3
  <2> QED  BY <1>13, <2>1, <2>2, <2>3, <2>4
<1> QED  BY <1>18, <1>19 DEF more, n, T

LEMMA TallyType ==
    ASSUME NEW table \in Seq(RowSet), NEW S \in SUBSET DOMAIN table
    PROVE  Tally(table, S).turns \in Nat /\ Tally(table, S).sum \in Nat \cup {Null}
<1> DEFINE counted == {k \in S : table[k].count # Null}
<1>1. IsFiniteSet(S)
  <2>1. IsFiniteSet(1 .. Len(table)) /\ S \subseteq 1 .. Len(table)  BY FS_Interval
  <2> QED  BY <2>1, FS_Subset
<1>2. Cardinality(S) \in Nat  BY <1>1, FS_CardinalityType
<1>3. counted \in SUBSET CountedOf(table)  BY DEF CountedOf
<1>4. SumOf(table, counted) \in Nat
  <2> HIDE DEF counted
  <2> QED  BY <1>3, SumOfType
<1>5. Tally(table, S).turns = Cardinality(S)
      /\ Tally(table, S).sum = (IF counted = {} THEN Null ELSE SumOf(table, counted))
  BY DEF Tally
<1> QED  BY <1>2, <1>4, <1>5

(* Totals by key, where a row is added to one.                             *)
RowFor(table, H, Mine, Mine2, key) ==
    /\ key \in H /\ \A h \in H : Mine[h] \in SUBSET DOMAIN table
    /\ \A h \in H : Mine2[h] = IF h = key THEN Mine[h] \cup {Len(table) + 1} ELSE Mine[h]
TotalsBy(table, H, Mine) == [h \in {g \in H : Mine[g] # {}} |-> Tally(table, Mine[h])]

LEMMA KeyedGrow ==
    ASSUME NEW table \in Seq(RowSet), NEW row \in RowSet,
           NEW H, NEW key, NEW Mine, NEW Mine2, RowFor(table, H, Mine, Mine2, key),
           NEW totals, totals = TotalsBy(table, H, Mine)
    PROVE  /\ TotalAt(totals, key) = Tally(table, Mine[key])
           /\ With(totals, key, Add(TotalAt(totals, key), row)) = TotalsBy(Append(table, row), H, Mine2)
<1> DEFINE more == Append(table, row)
           new == Add(TotalAt(totals, key), row)
<1> USE DEF RowFor
<1>1. TotalAt(totals, key) = Tally(table, Mine[key])
  <2>1. CASE Mine[key] # {}  BY <2>1 DEF TotalAt, TotalsBy
  <2>2. CASE Mine[key] = {}  BY <2>2, TallyNone DEF TotalAt, TotalsBy
  <2> QED  BY <2>1, <2>2
<1>2. new = Tally(more, Mine2[key])
  <2>1. Mine[key] \in SUBSET DOMAIN table /\ Mine2[key] = Mine[key] \cup {Len(table) + 1}  OBVIOUS
  <2> QED  BY <1>1, <2>1, TallyGrows
<1>3. \A h \in H : h # key => Mine2[h] = Mine[h] /\ Tally(more, Mine2[h]) = Tally(table, Mine[h])
  BY TallyStays
<1> HIDE DEF new, more
<1>4. {g \in H : Mine2[g] # {}} = DOMAIN totals \cup {key}  BY DEF TotalsBy
<1>5. With(totals, key, new) = TotalsBy(more, H, Mine2)
  <2>1. With(totals, key, new) = [h \in DOMAIN totals \cup {key} |-> IF h = key THEN new ELSE totals[h]]
    BY DEF With
  <2>2. \A h \in DOMAIN totals \cup {key} : (IF h = key THEN new ELSE totals[h]) = Tally(more, Mine2[h])
    BY <1>2, <1>3 DEF TotalsBy
  <2> QED  BY <1>4, <2>1, <2>2 DEF TotalsBy
<1> QED  BY <1>1, <1>5 DEF new, more

(* A total that does not overflow stays within int64.                      *)
Bounded(t) == t.turns \in Int /\ t.turns <= MaxSum /\ t.sum \in Int /\ t.sum <= MaxSum

LEMMA AddBounded ==
    ASSUME NEW table \in Seq(RowSet), NEW row \in RowSet, NEW S \in SUBSET DOMAIN table,
           Bounded(Tally(table, S)), ~Overflows(Tally(table, S), row)
    PROVE  Bounded(Add(Tally(table, S), row))
<1>1. PICK t : t = Tally(table, S)  OBVIOUS
<1>2. t.turns \in Nat /\ t.sum \in Nat \cup {Null} /\ t.turns <= MaxSum /\ t.sum <= MaxSum
  BY <1>1, TallyType DEF Bounded
<1>3. MaxSum \in Nat /\ row.count \in (0 .. MaxSum) \cup {Null}  BY UsageReportAssumption DEF RowSet
<1>4. t.turns # MaxSum /\ (row.count # Null /\ t.sum # Null => row.count <= MaxSum - t.sum)
  BY <1>1, <1>2, <1>3 DEF Overflows, Null
<1>5. /\ Add(t, row).turns = t.turns + 1
      /\ Add(t, row).sum = IF row.count = Null THEN t.sum ELSE row.count + (IF t.sum = Null THEN 0 ELSE t.sum)
  <2>1. t = [turns |-> t.turns, reported |-> t.reported, sum |-> t.sum, priced |-> t.priced,
             amount |-> t.amount, unpriced |-> t.unpriced]
    BY <1>1 DEF Tally
  <2> QED  BY <2>1, AddIs
<1>6. Add(t, row).sum \in Int /\ Add(t, row).sum <= MaxSum
  <2>1. CASE row.count = Null  BY <1>2, <1>5, <2>1 DEF Null
  <2>2. CASE row.count # Null /\ t.sum = Null  BY <1>3, <1>5, <2>2
  <2>3. CASE row.count # Null /\ t.sum # Null  BY <1>2, <1>3, <1>4, <1>5, <2>3
  <2> QED  BY <2>1, <2>2, <2>3
<1> QED  BY <1>1, <1>2, <1>3, <1>4, <1>5, <1>6 DEF Bounded

-----------------------------------------------------------------------------
(* The buckets of a window are in order.                                   *)
LEMMA BucketsInOrder ==
    ASSUME NEW q, NEW bs, Adjoin(q, bs)
    PROVE  /\ bs \in Seq(BucketSet)
           /\ \A k \in DOMAIN bs : bs[k].from \in Int /\ bs[k].to \in Int /\ bs[k].from < bs[k].to
           /\ \A k, l \in DOMAIN bs : k < l => bs[k].to <= bs[l].from
<1>1. /\ bs \in Seq(BucketSet) /\ DOMAIN bs = 1 .. Len(bs) /\ Len(bs) \in Nat
      /\ \A k \in DOMAIN bs : OfItsPeriod(q, bs[k]) /\ (k > 1 => bs[k].from = bs[k - 1].to)
  BY DEF Adjoin
<1>2. ASSUME NEW k \in DOMAIN bs PROVE bs[k].from \in Int /\ bs[k].to \in Int /\ bs[k].from < bs[k].to
  <2>1. bs[k] \in BucketSet /\ OfItsPeriod(q, bs[k])  BY <1>1
  <2> QED  BY <2>1 DEF BucketSet, OfItsPeriod
<1>3. ASSUME NEW k \in DOMAIN bs, NEW l \in DOMAIN bs, k < l PROVE bs[k].to <= bs[l].from
  <2> DEFINE Wrong == {x \in Nat : x \in DOMAIN bs /\ k < x /\ ~(bs[k].to <= bs[x].from)}
  <2>1. Wrong = {}
    <3> SUFFICES ASSUME Wrong # {} PROVE FALSE  OBVIOUS
    <3>1. PICK x \in Wrong : \A y \in Wrong : x <= y  BY LeastNat
    <3>2. x \in DOMAIN bs /\ k < x /\ ~(bs[k].to <= bs[x].from) /\ x \in Nat /\ k \in Nat  BY <1>1, <3>1
    <3>3. x > 1 /\ x - 1 \in DOMAIN bs /\ x - 1 \in Nat /\ bs[x].from = bs[x - 1].to  BY <1>1, <3>2
    <3>4. x - 1 \notin Wrong  BY <3>1, <3>2
    <3>5. CASE x - 1 = k  BY <1>2, <3>2, <3>3, <3>5
    <3>6. CASE x - 1 # k
      <4>1. bs[k].to <= bs[x - 1].from  BY <3>2, <3>3, <3>4, <3>6
      <4> QED  BY <1>2, <3>2, <3>3, <4>1
    <3> QED  BY <3>5, <3>6
  <2>2. l \in Nat  BY <1>1
  <2> QED  BY <1>3, <2>1, <2>2
<1> QED  BY <1>1, <1>2, <1>3

(* The cursor moves to the bucket of a row that is not before it.          *)
LEMMA BucketForIs ==
    ASSUME NEW q, Adjoin(q, buckets), cursor \in DOMAIN buckets,
           NEW at \in Int, buckets[cursor].from <= at, at < LastTo(buckets)
    PROVE  /\ BucketFor(at) \in DOMAIN buckets
           /\ \A k \in DOMAIN buckets : buckets[k].from <= at /\ at < buckets[k].to <=> k = BucketFor(at)
<1> DEFINE those == {b \in cursor .. Len(buckets) : at < buckets[b].to}
<1>1. /\ DOMAIN buckets = 1 .. Len(buckets) /\ Len(buckets) \in Nat /\ cursor \in Nat
      /\ \A k \in DOMAIN buckets :
           buckets[k].from \in Int /\ buckets[k].to \in Int /\ buckets[k].from < buckets[k].to
      /\ \A k, l \in DOMAIN buckets : k < l => buckets[k].to <= buckets[l].from
      /\ \A k \in DOMAIN buckets : k > 1 => buckets[k].from = buckets[k - 1].to
  <2>1. /\ buckets \in Seq(BucketSet)
        /\ \A k \in DOMAIN buckets :
             buckets[k].from \in Int /\ buckets[k].to \in Int /\ buckets[k].from < buckets[k].to
        /\ \A k, l \in DOMAIN buckets : k < l => buckets[k].to <= buckets[l].from
    BY BucketsInOrder
  <2>2. \A k \in DOMAIN buckets : k > 1 => buckets[k].from = buckets[k - 1].to  BY DEF Adjoin
  <2>3. DOMAIN buckets = 1 .. Len(buckets) /\ Len(buckets) \in Nat  BY <2>1
  <2> QED  BY <2>1, <2>2, <2>3
<1>2. Len(buckets) \in those  BY <1>1 DEF LastTo
<1>3. those \in SUBSET Int /\ those # {} /\ cursor \in Int /\ \A x \in those : cursor <= x
  BY <1>1, <1>2
<1>4. Min(those) \in those /\ \A y \in those : Min(those) <= y
  <2> HIDE DEF those
  <2> QED  BY <1>3, LeastIs
<1>5. PICK b : b = BucketFor(at)  OBVIOUS
<1>6. b \in those /\ \A y \in those : b <= y  BY <1>4, <1>5 DEF BucketFor
<1>7. b \in DOMAIN buckets /\ at < buckets[b].to /\ cursor <= b  BY <1>1, <1>6
<1>8. buckets[b].from <= at
  <2>1. CASE b = cursor  BY <2>1
  <2>2. CASE b # cursor
    <3>1. b > 1 /\ b - 1 \in cursor .. Len(buckets) /\ b - 1 \in DOMAIN buckets  BY <1>1, <1>7, <2>2
    <3>2. b - 1 \notin those  BY <1>1, <1>6, <1>7
    <3>3. ~(at < buckets[b - 1].to) /\ buckets[b - 1].to \in Int  BY <1>1, <3>1, <3>2
    <3>4. buckets[b].from = buckets[b - 1].to  BY <1>1, <1>7, <3>1
    <3> QED  BY <3>3, <3>4
  <2> QED  BY <2>1, <2>2
<1>9. ASSUME NEW k \in DOMAIN buckets, buckets[k].from <= at, at < buckets[k].to PROVE k = b
  <2>1. ~(k < b)  BY <1>1, <1>7, <1>8, <1>9
  <2>2. ~(b < k)  BY <1>1, <1>7, <1>8, <1>9
  <2> QED  BY <1>1, <1>7, <2>1, <2>2
<1> QED  BY <1>5, <1>7, <1>8, <1>9

-----------------------------------------------------------------------------
(* The groups, the models and the total of a section.                      *)

OfGroup(rs, bs, h) == RowsIn(rs, bs[h[1]]) \cap RowsOfModel(rs, h[2])

TotalsFor(rs, bs, t, ms, gs) ==
    /\ t = Tally(rs, DOMAIN rs)
    /\ ms = [m \in {rs[k].model : k \in DOMAIN rs} |-> Tally(rs, RowsOfModel(rs, m))]
    /\ gs = [g \in {h \in (DOMAIN bs) \X Models : OfGroup(rs, bs, h) # {}} |-> Tally(rs, OfGroup(rs, bs, g))]

LEMMA TotalsOfNone ==
    ASSUME NEW bs, NEW t, NEW ms, NEW gs
    PROVE  TotalsFor(<<>>, bs, t, ms, gs) <=> t = EmptyTotal /\ ms = NoTotals /\ gs = NoTotals
<1>1. DOMAIN <<>> = {} /\ <<>> \in Seq(RowSet)  OBVIOUS
<1>2. Tally(<<>>, DOMAIN <<>>) = EmptyTotal  BY <1>1, TallyNone
<1> DEFINE ms0 == [m \in {<<>>[k].model : k \in DOMAIN <<>>} |-> Tally(<<>>, RowsOfModel(<<>>, m))]
           gs0 == [g \in {h \in (DOMAIN bs) \X Models : OfGroup(<<>>, bs, h) # {}} |-> Tally(<<>>, OfGroup(<<>>, bs, g))]
<1>3. ms0 = NoTotals
  <2>1. {<<>>[k].model : k \in DOMAIN <<>>} = {}  BY <1>1
  <2> QED  BY <2>1 DEF NoTotals
<1>4. gs0 = NoTotals
  <2>1. \A h : OfGroup(<<>>, bs, h) = {}  BY <1>1 DEF OfGroup, RowsIn, RowsOfModel
  <2>2. {h \in (DOMAIN bs) \X Models : OfGroup(<<>>, bs, h) # {}} = {}  BY <2>1
  <2> QED  BY <2>2 DEF NoTotals
<1>5. TotalsFor(<<>>, bs, t, ms, gs) <=> t = Tally(<<>>, DOMAIN <<>>) /\ ms = ms0 /\ gs = gs0
  BY DEF TotalsFor
<1> QED  BY <1>2, <1>3, <1>4, <1>5

OnlyIn(bs, at, b) == b \in DOMAIN bs /\ \A k \in DOMAIN bs : bs[k].from <= at /\ at < bs[k].to <=> k = b
IsTally(rs, t) == \E S \in SUBSET DOMAIN rs : t = Tally(rs, S)

(* A row is added to its model and to the group of its only bucket.        *)
LEMMA TotalsGrow ==
    ASSUME NEW rs \in Seq(RowSet), NEW bs, NEW t, NEW ms, NEW gs,
           TotalsFor(rs, bs, t, ms, gs), NEW row \in RowSet, NEW b, OnlyIn(bs, row.at, b)
    PROVE  /\ IsTally(rs, t) /\ IsTally(rs, TotalAt(ms, row.model)) /\ IsTally(rs, TotalAt(gs, <<b, row.model>>))
           /\ TotalsFor(Append(rs, row), bs, Add(t, row),
                        With(ms, row.model, Add(TotalAt(ms, row.model), row)),
                        With(gs, <<b, row.model>>, Add(TotalAt(gs, <<b, row.model>>), row)))
<1> DEFINE n == Len(rs)
           more == Append(rs, row)
           H == (DOMAIN bs) \X Models
           ofModel == [m \in Models |-> RowsOfModel(rs, m)]
           ofModel2 == [m \in Models |-> RowsOfModel(more, m)]
           ofGroup == [h \in H |-> OfGroup(rs, bs, h)]
           ofGroup2 == [h \in H |-> OfGroup(more, bs, h)]
<1> USE DEF OnlyIn
<1>1. /\ more \in Seq(RowSet) /\ DOMAIN more = 1 .. n + 1 /\ DOMAIN rs = 1 .. n /\ n \in Nat
      /\ more[n + 1] = row /\ \A k \in 1 .. n : more[k] = rs[k] /\ rs[k] \in RowSet
  OBVIOUS
<1>2. row.model \in Models /\ \A k \in 1 .. n : rs[k].model \in Models  BY <1>1 DEF RowSet
<1> HIDE DEF more, n
<1>3. Add(t, row) = Tally(more, DOMAIN more) /\ t = Tally(rs, DOMAIN rs)
  <2>1. t = Tally(rs, DOMAIN rs)  BY DEF TotalsFor
  <2>2. DOMAIN more = DOMAIN rs \cup {Len(rs) + 1}  BY <1>1 DEF n
  <2> QED  BY <2>1, <2>2, TallyGrows DEF more
<1>4. \A m \in Models : RowsOfModel(more, m) = IF m = row.model THEN RowsOfModel(rs, m) \cup {n + 1} ELSE RowsOfModel(rs, m)
  BY <1>1 DEF RowsOfModel
<1>5. \A h \in H : OfGroup(more, bs, h) =
        IF h = <<b, row.model>> THEN OfGroup(rs, bs, h) \cup {n + 1} ELSE OfGroup(rs, bs, h)
  <2> SUFFICES ASSUME NEW h \in H
               PROVE  OfGroup(more, bs, h) =
                        IF h = <<b, row.model>> THEN OfGroup(rs, bs, h) \cup {n + 1} ELSE OfGroup(rs, bs, h)
    OBVIOUS
  <2>1. PICK k \in DOMAIN bs, m \in Models : h = <<k, m>>  OBVIOUS
  <2>2. RowsIn(more, bs[k]) = IF k = b THEN RowsIn(rs, bs[k]) \cup {n + 1} ELSE RowsIn(rs, bs[k])
    BY <1>1 DEF RowsIn
  <2>3. OfGroup(more, bs, h) = RowsIn(more, bs[k]) \cap RowsOfModel(more, m)
        /\ OfGroup(rs, bs, h) = RowsIn(rs, bs[k]) \cap RowsOfModel(rs, m)
    BY <2>1 DEF OfGroup
  <2>4. n + 1 \notin RowsIn(rs, bs[k]) /\ n + 1 \notin RowsOfModel(rs, m)
    BY <1>1 DEF RowsIn, RowsOfModel
  <2>5. h = <<b, row.model>> <=> k = b /\ m = row.model  BY <2>1
  <2>6. RowsOfModel(more, m) = IF m = row.model THEN RowsOfModel(rs, m) \cup {n + 1} ELSE RowsOfModel(rs, m)
    BY <1>4
  <2> QED  BY <2>2, <2>3, <2>4, <2>5, <2>6
<1>6. /\ \A m \in Models : ofModel[m] \in SUBSET DOMAIN rs
      /\ \A h \in H : ofGroup[h] \in SUBSET DOMAIN rs
  BY <1>1 DEF RowsOfModel, OfGroup
<1>7. ms = TotalsBy(rs, Models, ofModel)
  <2>1. {rs[k].model : k \in DOMAIN rs} = {m \in Models : RowsOfModel(rs, m) # {}}
    BY <1>1, <1>2 DEF RowsOfModel
  <2>2. ms = [m \in {rs[k].model : k \in DOMAIN rs} |-> Tally(rs, RowsOfModel(rs, m))]
    BY DEF TotalsFor
  <2> QED  BY <2>1, <2>2 DEF TotalsBy
<1>8. gs = TotalsBy(rs, H, ofGroup)
  BY DEF TotalsFor, TotalsBy
<1>9. /\ TotalAt(ms, row.model) = Tally(rs, ofModel[row.model])
      /\ With(ms, row.model, Add(TotalAt(ms, row.model), row)) = TotalsBy(more, Models, ofModel2)
  <2>1. RowFor(rs, Models, ofModel, ofModel2, row.model)  BY <1>2, <1>4, <1>6 DEF RowFor, n
  <2> HIDE DEF ofModel, ofModel2, ofGroup, ofGroup2, H
  <2> QED  BY <1>7, <2>1, KeyedGrow DEF more
<1>10. /\ TotalAt(gs, <<b, row.model>>) = Tally(rs, ofGroup[<<b, row.model>>])
       /\ With(gs, <<b, row.model>>, Add(TotalAt(gs, <<b, row.model>>), row)) = TotalsBy(more, H, ofGroup2)
  <2>1. RowFor(rs, H, ofGroup, ofGroup2, <<b, row.model>>)  BY <1>2, <1>5, <1>6 DEF RowFor, n
  <2> HIDE DEF ofModel, ofModel2, ofGroup, ofGroup2, H
  <2> QED  BY <1>8, <2>1, KeyedGrow DEF more
<1>11. TotalsBy(more, Models, ofModel2)
         = [m \in {more[k].model : k \in DOMAIN more} |-> Tally(more, RowsOfModel(more, m))]
  <2>1. {more[k].model : k \in DOMAIN more} = {m \in Models : RowsOfModel(more, m) # {}}
    <3>1. \A k \in 1 .. n + 1 : more[k].model \in Models  BY <1>1, <1>2
    <3> QED  BY <1>1, <3>1 DEF RowsOfModel
  <2> QED  BY <2>1 DEF TotalsBy
<1>12. TotalsFor(more, bs, Add(t, row),
                 With(ms, row.model, Add(TotalAt(ms, row.model), row)),
                 With(gs, <<b, row.model>>, Add(TotalAt(gs, <<b, row.model>>), row)))
  BY <1>3, <1>9, <1>10, <1>11 DEF TotalsFor, TotalsBy
<1>13. /\ ofModel[row.model] \in SUBSET DOMAIN rs /\ ofGroup[<<b, row.model>>] \in SUBSET DOMAIN rs
  BY <1>2, <1>6
<1> QED  BY <1>3, <1>9, <1>10, <1>12, <1>13 DEF more, IsTally

-----------------------------------------------------------------------------
(* The invariant of a query: what was cut so far fits the window, what was *)
(* read is what the totals say, and a refusal was due.                     *)

Served == {"reading", "reported"}
RefusedRightly(q, e) ==
    /\ e = "invalid" /\ q.since < q.until /\ Monotone(q.zone)
    /\ Earliest(q.zone, q.since) < Horizon /\ Earliest(q.zone, q.until) < Horizon
    => \E f \in Edges(q.period, q.since, q.until) :
         \A d \in f .. q.until - 1 : ~(Earliest(q.zone, d) < Horizon)

CalendarInv ==
    /\ phase \in {"asked", "cutting", "failed"} \cup Served
    /\ AskedOf(query) /\ matches \in Resolutions
    /\ phase # "failed" => error = "none"
    /\ phase = "asked" => buckets = <<>>
    /\ phase \in {"cutting"} \cup Served => FitsWindow(query, next, buckets)
    /\ phase \in Served => next >= query.until /\ buckets # <<>> /\ LastTo(buckets) = Hi
    /\ RefusedRightly(query, error)

AllBounded(t, ms, gs) ==
    Bounded(t) /\ (\A m \in DOMAIN ms : Bounded(ms[m])) /\ (\A g \in DOMAIN gs : Bounded(gs[g]))
InBudget(ex, md, gs, rs) ==
    /\ ex \in Nat /\ ex <= MaxRows /\ md \in Nat /\ md <= MaxGroups
    /\ IsFiniteSet(DOMAIN gs) /\ md >= Cardinality(DOMAIN gs) /\ ex >= Len(rs)

RowsInv ==
    /\ rows \in Seq(RowSet) /\ (phase \notin Served => rows = <<>>) /\ (rows = <<>> => cursor = 1)
    /\ phase \in Served =>
         cursor \in DOMAIN buckets /\ (rows # <<>> => buckets[cursor].from <= rows[Len(rows)].at)
    /\ TotalsFor(rows, buckets, total, models, groups)
    /\ AllBounded(total, models, groups)
    /\ InBudget(examined, made, groups, rows)

ReportInv == CalendarInv /\ RowsInv

LEMMA NothingBounded == AllBounded(EmptyTotal, NoTotals, NoTotals)
<1>1. EmptyTotal.turns = 0 /\ EmptyTotal.sum = -1  BY DEF EmptyTotal, Null
<1>2. DOMAIN NoTotals = {}  BY DEF NoTotals
<1> QED  BY <1>1, <1>2, UsageReportAssumption DEF AllBounded, Bounded

LEMMA NothingRead ==
    ASSUME NEW ex \in Nat, ex <= MaxRows, NEW md \in Nat, md <= MaxGroups, NEW bs
    PROVE  /\ <<>> \in Seq(RowSet)
           /\ TotalsFor(<<>>, bs, EmptyTotal, NoTotals, NoTotals)
           /\ AllBounded(EmptyTotal, NoTotals, NoTotals)
           /\ InBudget(ex, md, NoTotals, <<>>)
<1>1. TotalsFor(<<>>, bs, EmptyTotal, NoTotals, NoTotals)  BY TotalsOfNone
<1>2. AllBounded(EmptyTotal, NoTotals, NoTotals)  BY NothingBounded
<1>3. DOMAIN NoTotals = {} /\ IsFiniteSet({}) /\ Cardinality({}) = 0  BY FS_EmptySet DEF NoTotals
<1>4. Len(<<>>) = 0  OBVIOUS
<1> QED  BY <1>1, <1>2, <1>3, <1>4 DEF InBudget

LEMMA ReportStarts ==
    ASSUME ReportInit PROVE ReportInv
<1>1. PICK z \in Zones, p \in DOMAIN PeriodStarts, w \in Windows :
        query = [zone |-> z, period |-> p, since |-> w[1], until |-> w[2], now |-> Now]
  BY DEF ReportInit
<1>2. w \in Int \X Int /\ w = <<w[1], w[2]>>  BY UsageReportAssumption
<1>3. AskedOf(query)  BY <1>1, <1>2 DEF AskedOf
<1>4. CalendarInv  BY <1>3 DEF ReportInit, CalendarInv, RefusedRightly, Served
<1>5. RowsInv
  <2>1. /\ rows = <<>> /\ cursor = 1 /\ phase \notin Served /\ total = EmptyTotal /\ models = NoTotals
        /\ groups = NoTotals /\ examined = 0 /\ made = 0
    BY DEF ReportInit, Served
  <2>2. 0 \in Nat /\ 0 <= MaxRows /\ 0 <= MaxGroups  BY UsageReportAssumption
  <2> QED  BY <2>1, <2>2, NothingRead DEF RowsInv
<1> QED  BY <1>4, <1>5 DEF ReportInv

LEMMA FailKeeps ==
    ASSUME ReportInv, NEW w, Fail(w), w = "invalid" => RefusedRightly(query, "invalid")
    PROVE  ReportInv'
<1>1. /\ phase' = "failed" /\ error' = w /\ query' = query /\ matches' = matches /\ rows' = <<>> /\ cursor' = 1
      /\ total' = EmptyTotal /\ models' = NoTotals /\ groups' = NoTotals /\ examined' = 0 /\ made' = 0
      /\ phase' \notin Served
  BY DEF Fail, Resting, Served
<1>2. RefusedRightly(query, w)
  <2>1. CASE w = "invalid"  BY <2>1
  <2>2. CASE w # "invalid"  BY <2>2 DEF RefusedRightly
  <2> QED  BY <2>1, <2>2
<1>3. CalendarInv'
  BY <1>1, <1>2 DEF ReportInv, CalendarInv
<1>4. RowsInv'
  <2>1. 0 \in Nat /\ 0 <= MaxRows /\ 0 <= MaxGroups  BY UsageReportAssumption
  <2> QED  BY <1>1, <2>1, NothingRead DEF RowsInv
<1> QED  BY <1>3, <1>4 DEF ReportInv

(* The calendar moves while nothing is read.                               *)
LEMMA RowsRest ==
    ASSUME ReportInv, rows = <<>>, NEW bs,
           UNCHANGED <<cursor, Folded>>, buckets' = bs,
           phase' \in Served => bs # <<>> /\ bs \in Seq(BucketSet)
    PROVE  RowsInv'
<1>1. total = EmptyTotal /\ models = NoTotals /\ groups = NoTotals
  BY TotalsOfNone DEF ReportInv, RowsInv
<1>2. /\ rows' = <<>> /\ cursor' = 1 /\ total' = EmptyTotal /\ models' = NoTotals /\ groups' = NoTotals
      /\ examined' = examined /\ made' = made
  BY <1>1 DEF Folded, ReportInv, RowsInv
<1>3. examined \in Nat /\ examined <= MaxRows /\ made \in Nat /\ made <= MaxGroups
  BY DEF ReportInv, RowsInv, InBudget
<1>4. phase' \in Served => 1 \in DOMAIN bs  OBVIOUS
<1> QED  BY <1>2, <1>3, <1>4, NothingRead DEF RowsInv

LEMMA QueryKeeps ==
    ASSUME ReportInv, Query PROVE ReportInv'
<1> DEFINE unfit == Unfit(query.zone, query.since, query.until)
<1>1. phase = "asked" /\ AskedOf(query) /\ buckets = <<>> /\ rows = <<>> /\ error = "none"
      /\ matches \in Resolutions
  BY DEF Query, ReportInv, CalendarInv, RowsInv, Served
<1>2. CASE unfit # "none" /\ Fail(unfit)
  <2>1. unfit = "invalid" => RefusedRightly(query, "invalid")
    BY <1>1, UnfitRightly DEF RefusedRightly
  <2> HIDE DEF unfit
  <2> QED  BY <1>2, <2>1, FailKeeps
<1>3. CASE /\ unfit = "none" /\ phase' = "cutting" /\ next' = FirstEdge(query.period, query.since)
           /\ Resting /\ UNCHANGED <<buckets, error, section, cursor, Folded>>
  <2>1. /\ query' = query /\ matches' = matches /\ buckets' = <<>> /\ error' = "none"
        /\ next' = FirstOf(query) /\ phase' = "cutting" /\ phase' \notin Served
    BY <1>1, <1>3 DEF Resting, FirstOf, Served
  <2>2. /\ query.since < query.until
        /\ NoDate \notin {start(query.zone, query.since), start(query.zone, query.until)}
        /\ start(query.zone, query.since) < start(query.zone, query.until)
    <3>1. query.zone \in [Instants -> Int] /\ query.since \in Int /\ query.until \in Int  BY <1>1, AskedIs
    <3>2. start(query.zone, query.since) \in Int /\ start(query.zone, query.until) \in Int
      BY <3>1, StartIsEarliest, EarliestIs DEF NoDate
    <3>3. query.since < query.until  BY <1>3, <3>1 DEF Unfit
    <3>4. ~(query.until - query.since > MaxDates)  BY <1>3, <3>3 DEF Unfit
    <3>5. ~(query.since >= query.until)  BY <3>1, <3>3
    <3>6. unfit = IF NoDate \in {start(query.zone, query.since), start(query.zone, query.until)}
                       \/ start(query.zone, query.since) >= start(query.zone, query.until)
                  THEN "invalid" ELSE "none"
      BY <3>4, <3>5 DEF Unfit
    <3> QED  BY <1>3, <3>2, <3>3, <3>6
  <2>3. FirstOf(query) \in Starting(query) /\ \A e \in Starting(query) : e \in Int /\ FirstOf(query) <= e
    BY <1>1, StartingIs
  <2>4. EdgesAdvance(query, FirstOf(query))
    <3>1. FirstOf(query) \in Int /\ \A e \in Starting(query) : ~(e < FirstOf(query))  BY <2>3
    <3> QED  BY <3>1 DEF EdgesAdvance
  <2>5. Adjoin(query, <<>>)  BY DEF Adjoin
  <2>6. FitsWindow(query, FirstOf(query), <<>>)  BY <2>2, <2>3, <2>4, <2>5 DEF FitsWindow
  <2>7. CalendarInv'  BY <1>1, <2>1, <2>6 DEF CalendarInv, RefusedRightly
  <2>8. RowsInv'  BY <1>1, <1>3, <2>1, RowsRest
  <2> QED  BY <2>7, <2>8 DEF ReportInv
<1> QED  BY <1>2, <1>3 DEF Query, Unless

LEMMA CutNextKeeps ==
    ASSUME ReportInv, CutNext PROVE ReportInv'
<1> DEFINE cut == Cut(query.zone, query.period, Lo, Hi, query.now, buckets, next)
<1>1. /\ phase = "cutting" /\ next < query.until /\ AskedOf(query) /\ rows = <<>> /\ error = "none"
      /\ matches \in Resolutions /\ FitsWindow(query, next, buckets)
      /\ Lo = start(query.zone, query.since) /\ Hi = start(query.zone, query.until)
  BY DEF CutNext, ReportInv, CalendarInv, RowsInv, Served, Lo, Hi
<1>2. CASE cut.error # "none" /\ Fail(cut.error)
  <2>1. ASSUME cut.error = "invalid" PROVE RefusedRightly(query, "invalid")
    <3> SUFFICES ASSUME Monotone(query.zone),
                        Earliest(query.zone, query.since) < Horizon, Earliest(query.zone, query.until) < Horizon
                 PROVE  \E f \in Edges(query.period, query.since, query.until) :
                          \A d \in f .. query.until - 1 : ~(Earliest(query.zone, d) < Horizon)
      BY DEF RefusedRightly
    <3>1. \A d \in next .. query.until - 1 : Earliest(query.zone, d) = Horizon
      <4> HIDE DEF cut
      <4>1. cut = Cut(query.zone, query.period, start(query.zone, query.since),
                      start(query.zone, query.until), query.now, buckets, next)
        BY <1>1 DEF cut
      <4> QED  BY <1>1, <2>1, <4>1, CutRefusesRightly
    <3>2. next \in Edges(query.period, query.since, query.until)
      BY <1>1 DEF Edges, FitsWindow, Starting, FirstOf
    <3>3. ~(Horizon < Horizon)  BY CalendarAssumption
    <3> QED  BY <3>1, <3>2, <3>3
  <2> HIDE DEF cut
  <2> QED  BY <1>2, <2>1, FailKeeps
<1>3. CASE /\ cut.error = "none" /\ buckets' = cut.buckets /\ next' = NextEdge(query.period, next)
           /\ Resting /\ UNCHANGED <<phase, error, section, cursor, Folded>>
  <2>1. FitsWindow(query, NextEdge(query.period, next), cut.buckets)
    <3> HIDE DEF cut
    <3>1. cut = Cut(query.zone, query.period, start(query.zone, query.since),
                    start(query.zone, query.until), query.now, buckets, next)
      BY <1>1 DEF cut
    <3> QED  BY <1>1, <1>3, <3>1, CutFits
  <2> HIDE DEF cut
  <2>2. /\ query' = query /\ matches' = matches /\ error' = "none" /\ phase' = "cutting"
        /\ FitsWindow(query', next', buckets') /\ phase' \notin Served
    BY <1>1, <1>3, <2>1 DEF Resting, Served
  <2>3. CalendarInv'  BY <1>1, <2>2 DEF CalendarInv, RefusedRightly, Served
  <2>4. RowsInv'  BY <1>1, <1>3, <2>2, RowsRest
  <2> QED  BY <2>3, <2>4 DEF ReportInv
<1> QED  BY <1>2, <1>3 DEF CutNext, Unless

LEMMA CapturedKeeps ==
    ASSUME ReportInv, Captured PROVE ReportInv'
<1> DEFINE whole == buckets # <<>> /\ LastTo(buckets) = Hi
           failed == CASE ~whole -> "invalid"
                       [] whole /\ capture = "limit" -> "too_large"
                       [] whole /\ capture = "other" -> "internal"
                       [] OTHER -> "none"
<1>1. /\ phase = "cutting" /\ next >= query.until /\ AskedOf(query) /\ rows = <<>> /\ error = "none"
      /\ matches \in Resolutions /\ FitsWindow(query, next, buckets) /\ Hi = start(query.zone, query.until)
  BY DEF Captured, ReportInv, CalendarInv, RowsInv, Served, Hi
<1>2. failed = "invalid" => ~whole  OBVIOUS
<1>3. failed = "none" => whole  OBVIOUS
<1>4. CASE failed # "none" /\ Fail(failed)
  <2>1. failed = "invalid" => RefusedRightly(query, "invalid")
    BY <1>1, <1>2, EndIsReached DEF RefusedRightly
  <2> HIDE DEF failed
  <2> QED  BY <1>4, <2>1, FailKeeps
<1>5. CASE /\ failed = "none" /\ phase' = "reading"
           /\ Resting /\ UNCHANGED <<next, buckets, error, section, cursor, Folded>>
  <2>1. whole  BY <1>3, <1>5
  <2> HIDE DEF failed
  <2>2. /\ query' = query /\ matches' = matches /\ error' = "none" /\ phase' = "reading" /\ next' = next
        /\ buckets' = buckets /\ Hi' = Hi
    BY <1>1, <1>5 DEF Resting, Hi
  <2>3. CalendarInv'  BY <1>1, <2>1, <2>2 DEF CalendarInv, RefusedRightly, Served
  <2>4. buckets # <<>> /\ buckets \in Seq(BucketSet)  BY <1>1, <2>1 DEF FitsWindow, Adjoin
  <2>5. RowsInv'  BY <1>1, <1>5, <2>2, <2>4, RowsRest
  <2> QED  BY <2>3, <2>5 DEF ReportInv
<1> QED  BY <1>4, <1>5 DEF Captured, Unless

(* A row of the query is in one bucket, the one the cursor moves to.       *)
LEMMA RowIs ==
    ASSUME ReportInv, phase = "reading",
           NEW i \in NextTimes, NEW m \in Models, NEW c \in RowCounts \cup {Null}, NEW v \in Valuations(m),
           NEW row, row = [at |-> i, model |-> m, count |-> c, value |-> v]
    PROVE  row \in RowSet /\ OnlyIn(buckets, row.at, BucketFor(row.at))
<1>1. i \in Int /\ buckets[1].from <= i /\ i < LastTo(buckets) /\ (rows # <<>> => i >= rows[Len(rows)].at)
  BY UsageReportAssumption DEF NextTimes
<1>2. matches[m] \in Reasons \cup {"matched"}
  BY UsageReportAssumption DEF ReportInv, CalendarInv
<1>3. v \in Reasons \cup {"priced"}  BY <1>2 DEF Valuations, Reasons
<1>4. c \in (0 .. MaxSum) \cup {Null}  BY UsageReportAssumption
<1>5. row \in RowSet  BY <1>1, <1>3, <1>4 DEF RowSet
<1>6. Adjoin(query, buckets)  BY DEF ReportInv, CalendarInv, Served, FitsWindow
<1>7. cursor \in DOMAIN buckets /\ buckets[cursor].from <= i
  <2>1. /\ cursor \in DOMAIN buckets /\ (rows = <<>> => cursor = 1) /\ rows \in Seq(RowSet)
        /\ (rows # <<>> => buckets[cursor].from <= rows[Len(rows)].at)
    BY DEF ReportInv, RowsInv, Served
  <2>2. CASE rows = <<>>  BY <1>1, <2>1, <2>2
  <2>3. CASE rows # <<>>
    <3>1. Len(rows) \in DOMAIN rows  BY <2>1, <2>3
    <3>2. rows[Len(rows)] \in RowSet  BY <2>1, <3>1
    <3>3. rows[Len(rows)].at \in Int  BY <3>2 DEF RowSet
    <3>4. buckets[cursor].from \in Int  BY <1>6, <2>1, BucketsInOrder
    <3> QED  BY <1>1, <2>1, <2>3, <3>3, <3>4
  <2> QED  BY <2>2, <2>3
<1>8. row.at = i  OBVIOUS
<1> QED  BY <1>1, <1>5, <1>6, <1>7, <1>8, BucketForIs DEF OnlyIn

LEMMA LastRowIs ==
    ASSUME NEW rs \in Seq(RowSet), NEW row \in RowSet
    PROVE  LET more == Append(rs, row)
           IN  more \in Seq(RowSet) /\ more # <<>> /\ more[Len(more)] = row
OBVIOUS

(* A row that is read.                                                     *)
LEMMA RowKeeps ==
    ASSUME ReportInv, phase = "reading", NEW row \in RowSet,
           NEW b, OnlyIn(buckets, row.at, b),
           NEW key, key = <<b, row.model>>,
           ~(examined + 1 > MaxRows), ~(key \notin DOMAIN groups /\ made + 1 > MaxGroups),
           ~\E t \in {TotalAt(groups, key), TotalAt(models, row.model), total} : Overflows(t, row),
           groups' = With(groups, key, Add(TotalAt(groups, key), row)),
           models' = With(models, row.model, Add(TotalAt(models, row.model), row)),
           total' = Add(total, row), examined' = examined + 1,
           made' = IF key \notin DOMAIN groups THEN made + 1 ELSE made,
           cursor' = b, rows' = Append(rows, row), Resting, UNCHANGED <<phase, next, buckets, error, section>>
    PROVE  ReportInv'
<1>1. /\ TotalsFor(rows, buckets, total, models, groups) /\ rows \in Seq(RowSet)
      /\ AllBounded(total, models, groups) /\ InBudget(examined, made, groups, rows)
  BY DEF ReportInv, RowsInv
<1>2. CalendarInv'  BY DEF ReportInv, CalendarInv, Resting, Hi
<1>3. TotalsFor(rows', buckets', total', models', groups')  BY <1>1, TotalsGrow
<1>4. ASSUME NEW t, IsTally(rows, t), Bounded(t), ~Overflows(t, row) PROVE Bounded(Add(t, row))
  <2>1. PICK S \in SUBSET DOMAIN rows : t = Tally(rows, S)  BY <1>4 DEF IsTally
  <2> QED  BY <1>1, <1>4, <2>1, AddBounded
<1>5. Bounded(total') /\ Bounded(Add(TotalAt(models, row.model), row)) /\ Bounded(Add(TotalAt(groups, key), row))
  <2>1. IsTally(rows, total) /\ IsTally(rows, TotalAt(models, row.model)) /\ IsTally(rows, TotalAt(groups, key))
    BY <1>1, TotalsGrow
  <2>2. Bounded(total) /\ Bounded(TotalAt(models, row.model)) /\ Bounded(TotalAt(groups, key))
    BY <1>1, NothingBounded DEF AllBounded, TotalAt
  <2>3. /\ ~Overflows(total, row) /\ ~Overflows(TotalAt(models, row.model), row)
        /\ ~Overflows(TotalAt(groups, key), row)
    OBVIOUS
  <2>4. Bounded(Add(total, row))  BY <1>4, <2>1, <2>2, <2>3
  <2>5. Bounded(Add(TotalAt(models, row.model), row))  BY <1>4, <2>1, <2>2, <2>3
  <2>6. Bounded(Add(TotalAt(groups, key), row))  BY <1>4, <2>1, <2>2, <2>3
  <2> QED  BY <2>4, <2>5, <2>6
<1>6. AllBounded(total', models', groups')
  <2>1. \A n \in DOMAIN models' : Bounded(models'[n])  BY <1>1, <1>5 DEF AllBounded, With
  <2>2. \A g \in DOMAIN groups' : Bounded(groups'[g])  BY <1>1, <1>5 DEF AllBounded, With
  <2> QED  BY <1>5, <2>1, <2>2 DEF AllBounded
<1>7. InBudget(examined', made', groups', rows')
  <2>1. /\ examined \in Nat /\ made \in Nat /\ made <= MaxGroups /\ IsFiniteSet(DOMAIN groups)
        /\ made >= Cardinality(DOMAIN groups) /\ examined >= Len(rows) /\ MaxRows \in Nat /\ MaxGroups \in Nat
    BY <1>1, UsageReportAssumption DEF InBudget
  <2>2. DOMAIN groups' = DOMAIN groups \cup {key}  BY DEF With
  <2>3. Cardinality(DOMAIN groups) \in Nat  BY <2>1, FS_CardinalityType
  <2>4. IsFiniteSet(DOMAIN groups') /\ made' >= Cardinality(DOMAIN groups') /\ made' \in Nat /\ made' <= MaxGroups
    <3>1. CASE key \in DOMAIN groups
      <4>1. DOMAIN groups' = DOMAIN groups /\ made' = made  BY <2>2, <3>1
      <4> QED  BY <2>1, <4>1
    <3>2. CASE key \notin DOMAIN groups
      <4>1. IsFiniteSet(DOMAIN groups') /\ Cardinality(DOMAIN groups') = Cardinality(DOMAIN groups) + 1
        <5>1. IsFiniteSet(DOMAIN groups)  BY <2>1
        <5> QED  BY <2>2, <3>2, <5>1, FS_AddElement
      <4>2. made' = made + 1 /\ ~(made + 1 > MaxGroups)  BY <3>2
      <4> QED  BY <2>1, <2>3, <4>1, <4>2
    <3> QED  BY <3>1, <3>2
  <2>5. Len(rows') = Len(rows) + 1 /\ Len(rows) \in Nat  BY <1>1
  <2> QED  BY <2>1, <2>4, <2>5 DEF InBudget
<1>8. /\ rows' \in Seq(RowSet) /\ rows' # <<>> /\ rows'[Len(rows')] = row /\ cursor' \in DOMAIN buckets'
      /\ buckets'[cursor'].from <= rows'[Len(rows')].at /\ phase' = "reading"
  <2>1. rows' \in Seq(RowSet) /\ rows' # <<>> /\ rows'[Len(rows')] = row
    <3>1. rows \in Seq(RowSet) /\ rows' = Append(rows, row)  BY <1>1
    <3> QED  BY <3>1, LastRowIs
  <2>2. b \in DOMAIN buckets /\ buckets[b].from <= row.at  BY DEF OnlyIn
  <2> QED  BY <2>1, <2>2
<1>9. RowsInv'  BY <1>3, <1>6, <1>7, <1>8 DEF RowsInv, Served
<1> QED  BY <1>2, <1>9 DEF ReportInv

LEMMA NextRowKeeps ==
    ASSUME ReportInv, NextRow PROVE ReportInv'
<1>1. phase = "reading"  BY DEF NextRow
<1>2. PICK i \in NextTimes, m \in Models, c \in RowCounts \cup {Null} :
        \E v \in Valuations(m) : ReadRow([at |-> i, model |-> m, count |-> c, value |-> v])
  BY DEF NextRow
<1>3. PICK v \in Valuations(m) : ReadRow([at |-> i, model |-> m, count |-> c, value |-> v])  BY <1>2
<1>4. PICK row : row = [at |-> i, model |-> m, count |-> c, value |-> v]  OBVIOUS
<1>5. ReadRow(row)  BY <1>3, <1>4
<1>6. row \in RowSet /\ OnlyIn(buckets, row.at, BucketFor(row.at))
  BY <1>1, <1>4, RowIs
<1>7. PICK b : b = BucketFor(row.at)  OBVIOUS
<1>8. PICK key : key = <<b, row.model>>  OBVIOUS
<1>9. ASSUME NEW w, Fail(w), w # "invalid" PROVE ReportInv'  BY <1>9, FailKeeps
<1> DEFINE heavy == held + Cardinality(identities \cup {row.model}) > MaxIdentities
           full == key \notin DOMAIN groups /\ made + 1 > MaxGroups
           over == \E t \in {TotalAt(groups, key), TotalAt(models, row.model), total} : Overflows(t, row)
           step == /\ groups' = With(groups, key, Add(TotalAt(groups, key), row))
                   /\ models' = With(models, row.model, Add(TotalAt(models, row.model), row))
                   /\ total' = Add(total, row) /\ examined' = examined + 1
                   /\ made' = (IF key \notin DOMAIN groups THEN made + 1 ELSE made)
                   /\ cursor' = b /\ rows' = Append(rows, row)
                   /\ Resting /\ UNCHANGED <<phase, next, buckets, error, section>>
<1>10. \/ Fail("too_large") \/ Fail("overflow")
       \/ ~(examined + 1 > MaxRows) /\ ~full /\ ~over /\ step
  <2>1. IF examined + 1 > MaxRows \/ heavy \/ full THEN Fail("too_large")
        ELSE IF over THEN Fail("overflow") ELSE step
    BY <1>5, <1>7, <1>8 DEF ReadRow
  <2> HIDE DEF heavy, full, over, step
  <2> QED  BY <2>1
<1>11. CASE Fail("too_large")  BY <1>9, <1>11
<1>12. CASE Fail("overflow")  BY <1>9, <1>12
<1>13. CASE ~(examined + 1 > MaxRows) /\ ~full /\ ~over /\ step
  BY <1>1, <1>6, <1>7, <1>8, <1>13, RowKeeps
<1> QED  BY <1>10, <1>11, <1>12, <1>13

LEMMA NextSectionKeeps ==
    ASSUME ReportInv, NextSection PROVE ReportInv'
<1>1. /\ phase = "reading" /\ phase' = phase /\ cursor' = 1 /\ rows' = <<>> /\ groups' = NoTotals
      /\ models' = NoTotals /\ total' = EmptyTotal /\ next' = next /\ buckets' = buckets /\ error' = error
      /\ examined' = examined /\ made' = made /\ query' = query /\ matches' = matches
  BY DEF NextSection, Resting
<1>2. CalendarInv'  BY <1>1 DEF ReportInv, CalendarInv, Hi
<1>3. /\ examined \in Nat /\ examined <= MaxRows /\ made \in Nat /\ made <= MaxGroups
      /\ buckets # <<>> /\ buckets \in Seq(BucketSet)
  BY <1>1 DEF ReportInv, CalendarInv, RowsInv, InBudget, Served, FitsWindow, Adjoin
<1>4. 1 \in DOMAIN buckets  BY <1>3
<1>5. RowsInv'  BY <1>1, <1>3, <1>4, NothingRead DEF RowsInv
<1> QED  BY <1>2, <1>5 DEF ReportInv

LEMMA AnsweredKeeps ==
    ASSUME ReportInv, Answered PROVE ReportInv'
<1>1. /\ phase = "reading" /\ phase' = "reported" /\ query' = query /\ matches' = matches
      /\ UNCHANGED <<next, buckets, error, section, cursor, groups, models, total, examined, made, rows>>
  BY DEF Answered, Resting, Folded
<1>2. CalendarInv'  BY <1>1 DEF ReportInv, CalendarInv, Hi, Served
<1>3. RowsInv'  BY <1>1 DEF ReportInv, RowsInv, Served
<1> QED  BY <1>2, <1>3 DEF ReportInv

LEMMA ReportSteps == ReportInv /\ [ReportNext]_reportVars => ReportInv'
<1> SUFFICES ASSUME ReportInv, [ReportNext]_reportVars PROVE ReportInv'
  OBVIOUS
<1>1. CASE Query  BY <1>1, QueryKeeps
<1>2. CASE CutNext  BY <1>2, CutNextKeeps
<1>3. CASE Captured  BY <1>3, CapturedKeeps
<1>4. CASE Expired
  <2>1. Fail("expired")  BY <1>4 DEF Expired
  <2> QED  BY <2>1, FailKeeps
<1>5. CASE NextRow  BY <1>5, NextRowKeeps
<1>6. CASE BadRow
  <2>1. CASE Fail("internal")  BY <2>1, FailKeeps
  <2>2. CASE Fail("overflow")  BY <2>2, FailKeeps
  <2> QED  BY <1>6, <2>1, <2>2 DEF BadRow
<1>7. CASE NextSection  BY <1>7, NextSectionKeeps
<1>8. CASE Answered  BY <1>8, AnsweredKeeps
<1>9. CASE UNCHANGED reportVars
  BY <1>9 DEF reportVars, ReportInv, CalendarInv, RowsInv, Hi
<1> QED  BY <1>1, <1>2, <1>3, <1>4, <1>5, <1>6, <1>7, <1>8, <1>9 DEF ReportNext

LEMMA ReportExact == ASSUME ReportInv PROVE ReportIsExact
<1>1. BucketsPartitionWindow
  <2>1. phase \in {"reading", "reported"} => Partitions(buckets, query.zone, query.period, query.since, query.until)
    BY CutPartitions DEF ReportInv, CalendarInv, Served, Hi
  <2>2. RefusedRightly(query, error)  BY DEF ReportInv, CalendarInv
  <2> QED  BY <2>1, <2>2 DEF BucketsPartitionWindow, RefusedRightly, Refused, Shown
<1>2. TotalsAreTheRows
  <2>1. /\ TotalsFor(rows, buckets, total, models, groups) /\ AllBounded(total, models, groups)
        /\ InBudget(examined, made, groups, rows)
    BY DEF ReportInv, RowsInv
  <2>2. \A t \in {total} \cup {models[m] : m \in DOMAIN models} \cup {groups[g] : g \in DOMAIN groups} : Bounded(t)
    BY <2>1 DEF AllBounded
  <2> QED  BY <2>1, <2>2 DEF TotalsAreTheRows, TotalsFor, OfGroup, Bounded, InBudget
<1> QED  BY <1>1, <1>2 DEF ReportIsExact

(* In any zone, for any window, periods, rows and limits: a report that is *)
(* served partitions its window, and its totals are its rows'.             *)
THEOREM ReportsAreExact == ReportSpec => []ReportIsExact
<1>1. ReportInit => ReportInv  BY ReportStarts
<1>2. ReportInv /\ [ReportNext]_reportVars => ReportInv'  BY ReportSteps
<1>3. ReportInv => ReportIsExact  BY ReportExact
<1> QED  BY <1>1, <1>2, <1>3, PTL DEF ReportSpec
=============================================================================
