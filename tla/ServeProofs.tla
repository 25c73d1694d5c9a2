----------------------------- MODULE ServeProofs -----------------------------
(***************************************************************************)
(* What a stop of the daemon promises (ServeLifecycle), proved for any     *)
(* number of requests of either transport: a clean stop has refused no     *)
(* Turn, and one that has returned holds nothing open.  And what its       *)
(* configuration is (Configuration), for any commands, settings and texts. *)
(***************************************************************************)
EXTENDS ServeLifecycle, Configuration, TLAPS

(***************************************************************************)
(* The lifecycle.  Requests come only while the server serves or HTTP      *)
(* drains; admission is open from the store's opening to the end of Run;   *)
(* and what a drain has found idle stays idle.                             *)
(***************************************************************************)
Before == Setup \cup {"running", "draining"}

LifecycleTypeOK ==
    /\ pc \in Before \cup {"served", "cut off", "finalizing", "closing", "returned"}
    /\ request \in [Requests -> {"idle", "handled", "recorded", "done"}]
    /\ late \in Nat

(* When the server serves and when its transports drain.                   *)
PhaseInv ==
    /\ pc \in Setup => ~serveFailed /\ \A r \in Requests : request[r] = "idle"
    /\ serving => pc = "running" /\ ~serveFailed
    /\ pc \in Setup \cup {"running"} => httpErr = "none" /\ wsErr = "none"
    /\ "draining" \in {httpErr, wsErr} => pc = "draining"

(* What a drain has found idle stays idle; an upgrade never comes by HTTP's*)
(* leave, unless the same request is of both transports.                   *)
DrainedInv ==
    /\ httpErr = "drained" => Idle(HttpRequests)
    /\ wsErr = "drained" => Idle(WsRequests \ HttpRequests)

(* With the meter there is a store, and it admits until Run has returned.  *)
AdmissionInv ==
    /\ meter /\ pc \in {"store", "registry", "bind", "startup", "server", "running", "draining", "served"}
           => admitting
    /\ pc \in Before \cup {"served"} => late = 0

(* A clean stop is final: no request is in a handler, and none will be.    *)
CleanInv ==
    outcome = "clean" => pc \notin Before /\ late = 0 /\ Idle(Requests)

(* The listener and the store, wherever the lifecycle ends.                *)
ReleaseInv ==
    /\ serveFailed => listener = "closed"
    /\ pc \in {"draining", "served", "cut off", "finalizing", "closing", "returned"} => listener # "open"
    /\ pc = "returned" => store # "open" /\ startupCancelled

StopInv ==
    /\ LifecycleTypeOK /\ PhaseInv /\ DrainedInv /\ AdmissionInv /\ CleanInv /\ ReleaseInv

LEMMA StopInit == Init => StopInv
<1> SUFFICES ASSUME Init PROVE StopInv  OBVIOUS
<1> USE DEF Init
<1>1. LifecycleTypeOK  BY DEF LifecycleTypeOK, Before, Setup
<1>2. PhaseInv  BY DEF PhaseInv
<1>3. DrainedInv /\ AdmissionInv /\ CleanInv  BY DEF DrainedInv, AdmissionInv, CleanInv
<1>4. ReleaseInv  BY DEF ReleaseInv, Setup
<1>5. QED  BY <1>1, <1>2, <1>3, <1>4 DEF StopInv

(* The steps of setup: no request has come yet.                            *)
LEMMA SetupKeeps == StopInv /\ SetupStep => StopInv'
<1> SUFFICES ASSUME StopInv, SetupStep PROVE StopInv'  OBVIOUS
<1> USE DEF StopInv, LifecycleTypeOK, Before, Setup
<1>1. /\ pc \in Setup /\ UNCHANGED <<meter, httpErr, wsErr, serveFailed, late, request>>
      /\ \A r \in Requests : request[r] = "idle"
  BY DEF PhaseInv, SetupStep, StepSucceeds, StepFails, StepCancelled, EndUnserved, usageVars, drainVars
<1>2. Idle(Requests)'  BY <1>1 DEF Idle
<1>3. CASE StepSucceeds
  <2>1. /\ pc' = After(pc) /\ pc' \in {"provider", "caches", "path", "store", "registry", "bind", "startup",
                                        "server", "running"}
        /\ serving' = (pc' = "running") /\ UNCHANGED outcome
        /\ listener' = IF pc' = "bind" THEN "open" ELSE listener
    BY <1>1, <1>3 DEF StepSucceeds, After
  <2>2. LifecycleTypeOK' /\ PhaseInv' /\ DrainedInv'
    BY <1>1, <2>1 DEF PhaseInv, DrainedInv
  <2>3. AdmissionInv'
    <3>1. admitting' = (admitting \/ pc' = "store") /\ pc' = After(pc) /\ UNCHANGED meter
      BY <1>3 DEF StepSucceeds
    <3>2. meter /\ pc' \in {"store", "registry", "bind", "startup", "server", "running"} => admitting'
      BY <1>1, <3>1 DEF After, AdmissionInv
    <3>3. late' = 0  BY <1>1 DEF AdmissionInv
    <3>4. QED  BY <1>1, <2>1, <3>2, <3>3 DEF AdmissionInv
  <2>4. CleanInv'  BY <1>1, <2>1 DEF CleanInv
  <2>5. ReleaseInv'
    <3>1. ~serveFailed  BY <1>1 DEF PhaseInv
    <3>2. QED  BY <1>1, <2>1, <3>1 DEF ReleaseInv
  <2>6. QED  BY <2>2, <2>3, <2>4, <2>5
<1>4. CASE StepFails \/ StepCancelled
  <2>1. /\ pc' = "finalizing" /\ UNCHANGED <<serving, admitting>>
        /\ listener' = IF listener = "none" THEN "none" ELSE "closed"
    BY <1>4 DEF StepFails, StepCancelled, EndUnserved, drainVars
  <2>2. late' = 0  BY <1>1 DEF AdmissionInv
  <2>3. LifecycleTypeOK' /\ PhaseInv' /\ DrainedInv' /\ AdmissionInv'
    BY <1>1, <2>1, <2>2 DEF PhaseInv, DrainedInv, AdmissionInv
  <2>4. CleanInv' /\ ReleaseInv'  BY <1>1, <1>2, <2>1, <2>2 DEF CleanInv, ReleaseInv
  <2>5. QED  BY <2>3, <2>4
<1>5. QED  BY <1>3, <1>4 DEF SetupStep

(* Run, and what ends beside it: Serve, and the two drains.                *)
LEMMA RunKeeps == StopInv /\ (RunStep \/ ServeFails \/ HttpDrains \/ WsDrains) => StopInv'
<1> SUFFICES ASSUME StopInv, RunStep \/ ServeFails \/ HttpDrains \/ WsDrains PROVE StopInv'  OBVIOUS
<1> USE DEF StopInv, LifecycleTypeOK, Before, Setup, ServerOnly, usageVars, drainVars
<1>0. UNCHANGED <<meter, store, admitting, startupCancelled, late, request>>
  BY DEF RunStep, SelectServeErr, SelectDone, Expire, Classify, ServeFails, HttpDrains, WsDrains
<1>1. \A R : Idle(R)' = Idle(R)  BY <1>0 DEF Idle
<1>2. CASE SelectServeErr
  <2>1. /\ pc = "running" /\ pc' = "served" /\ serveFailed /\ outcome' = "serve failure"
        /\ UNCHANGED <<listener, serving, serveFailed, httpErr, wsErr>>
    BY <1>2 DEF SelectServeErr
  <2>2. ~serving /\ httpErr = "none" /\ wsErr = "none"  BY <2>1 DEF PhaseInv
  <2>3. PhaseInv' /\ DrainedInv'  BY <2>1, <2>2 DEF PhaseInv, DrainedInv
  <2>4. QED  BY <1>0, <2>1, <2>3 DEF AdmissionInv, CleanInv, ReleaseInv
<1>3. CASE SelectDone
  BY <1>0, <1>1, <1>3 DEF SelectDone, PhaseInv, DrainedInv, AdmissionInv, CleanInv, ReleaseInv
<1>4. CASE Expire
  BY <1>0, <1>1, <1>4 DEF Expire, PhaseInv, DrainedInv, AdmissionInv, CleanInv, ReleaseInv
<1>5. CASE ServeFails
  BY <1>0, <1>1, <1>5 DEF ServeFails, PhaseInv, DrainedInv, AdmissionInv, CleanInv, ReleaseInv
<1>6. CASE HttpDrains
  BY <1>0, <1>1, <1>6 DEF HttpDrains, PhaseInv, DrainedInv, AdmissionInv, CleanInv, ReleaseInv
<1>7. CASE WsDrains
  <2>1. wsErr' = "drained" => Idle(WsRequests \ HttpRequests)
    BY <1>7 DEF WsDrains, Idle
  <2>2. QED  BY <1>0, <1>1, <1>7, <2>1 DEF WsDrains, PhaseInv, DrainedInv, AdmissionInv, CleanInv, ReleaseInv
<1>8. CASE Classify
  <2>1. /\ pc = "draining" /\ pc' = "served" /\ UNCHANGED <<listener, serving, serveFailed, httpErr, wsErr>>
        /\ "draining" \notin {httpErr, wsErr}
        /\ outcome' = "clean" => httpErr = "drained" /\ wsErr = "drained"
    BY <1>8 DEF Classify
  <2>2. httpErr = "drained" /\ wsErr = "drained" => Idle(Requests)
    BY DEF DrainedInv, Idle, Requests
  <2>3. CleanInv'  BY <1>0, <1>1, <2>1, <2>2 DEF CleanInv, AdmissionInv
  <2>4. QED  BY <1>0, <1>1, <2>1, <2>3 DEF PhaseInv, DrainedInv, AdmissionInv, ReleaseInv
<1>9. QED  BY <1>2, <1>3, <1>4, <1>5, <1>6, <1>7, <1>8 DEF RunStep

(* After Run: admission ends only when the last handler has, or the stop   *)
(* is not a clean one.                                                     *)
LEMMA EndKeeps == StopInv /\ EndStep => StopInv'
<1> SUFFICES ASSUME StopInv, EndStep PROVE StopInv'  OBVIOUS
<1> USE DEF StopInv, LifecycleTypeOK, Before, Setup, Ending, LifecycleAt, usageVars, drainVars
<1>1. UNCHANGED <<meter, listener, outcome, serving, serveFailed, httpErr, wsErr, late, request>>
  BY DEF EndStep, StopAdmission, CancelStartup, FinalizeStopsAdmission, Return
<1>2. pc \in {"served", "cut off", "finalizing", "closing"} /\ pc' \in {"cut off", "finalizing", "closing", "returned"}
  BY DEF EndStep, StopAdmission, CancelStartup, FinalizeStopsAdmission, Return
<1>3. pc' = "returned" => store' # "open" /\ startupCancelled'
  BY DEF EndStep, StopAdmission, CancelStartup, FinalizeStopsAdmission, Return
<1>4. \A R : Idle(R)' = Idle(R)  BY <1>1 DEF Idle
<1>5. PhaseInv' /\ DrainedInv' /\ AdmissionInv' /\ CleanInv'
  BY <1>1, <1>2, <1>4 DEF PhaseInv, DrainedInv, AdmissionInv, CleanInv
<1>6. QED  BY <1>1, <1>2, <1>3, <1>5 DEF ReleaseInv

(* A request arrives, records its Turn or leaves.                          *)
LEMMA RequestKeeps ==
    ASSUME StopInv, NEW r \in Requests, Arrive(r) \/ Record(r) \/ HandlerReturns(r)
    PROVE  StopInv'
<1>0. /\ LifecycleTypeOK /\ PhaseInv /\ DrainedInv /\ AdmissionInv /\ CleanInv /\ ReleaseInv
      /\ request \in [Requests -> {"idle", "handled", "recorded", "done"}]
      /\ late \in Nat
  BY DEF StopInv, LifecycleTypeOK
<1> USE DEF RequestOnly, lifecycleVars, drainVars
<1>1. UNCHANGED <<pc, meter, listener, store, startupCancelled, outcome, admitting, serving, serveFailed, httpErr, wsErr>>
  BY DEF Arrive, Record, HandlerReturns
<1>2. CASE Arrive(r)
  <2>1. /\ request' = [request EXCEPT ![r] = "handled"] /\ late' = late
        /\ pc \in {"running", "draining"}
        /\ serving \/ (r \in HttpRequests /\ httpErr = "draining")
    BY <1>0, <1>2 DEF Arrive, PhaseInv
  <2>2. DrainedInv'
    <3>1. CASE serving  BY <1>0, <1>1, <3>1 DEF DrainedInv, PhaseInv
    <3>2. CASE r \in HttpRequests /\ httpErr = "draining"
      <4>1. wsErr = "drained" => Idle(WsRequests \ HttpRequests)'  BY <1>0, <2>1, <3>2 DEF DrainedInv, Idle, Requests
      <4>2. QED  BY <1>1, <3>2, <4>1 DEF DrainedInv
    <3>3. QED  BY <2>1, <3>1, <3>2
  <2>3. CleanInv'  BY <1>0, <1>1, <2>1 DEF CleanInv, Before
  <2>4. LifecycleTypeOK'  BY <1>0, <1>1, <2>1 DEF LifecycleTypeOK
  <2>5. PhaseInv' /\ AdmissionInv' /\ ReleaseInv'
    BY <1>0, <1>1, <2>1 DEF PhaseInv, AdmissionInv, ReleaseInv, Setup
  <2>6. QED  BY <2>2, <2>3, <2>4, <2>5 DEF StopInv
<1>3. CASE Record(r) \/ HandlerReturns(r)
  <2>1. /\ request[r] \in {"handled", "recorded"}
        /\ \E to \in {"recorded", "done"} : request' = [request EXCEPT ![r] = to]
        /\ late' = late \/ (late' = late + 1 /\ meter /\ ~admitting)
    BY <1>3 DEF Record, HandlerReturns
  <2>2. \A R : Idle(R) => r \notin R  BY <2>1 DEF Idle
  <2>3. \A R : R \subseteq Requests /\ Idle(R) => Idle(R)'  BY <1>0, <2>1, <2>2 DEF Idle
  <2>4. pc \notin Setup  BY <1>0, <2>1 DEF PhaseInv
  <2>5. DrainedInv'  BY <1>0, <1>1, <2>3 DEF DrainedInv, Requests
  <2>6. AdmissionInv'  BY <1>0, <1>1, <2>1, <2>4 DEF AdmissionInv, Before, Setup
  <2>7. CleanInv'  BY <1>0, <1>1, <2>2 DEF CleanInv
  <2>8. late' \in Nat  BY <1>0, <2>1
  <2>9. request' \in [Requests -> {"idle", "handled", "recorded", "done"}]  BY <1>0, <2>1
  <2>10. LifecycleTypeOK'  BY <1>0, <1>1, <2>8, <2>9 DEF LifecycleTypeOK
  <2>11. PhaseInv' /\ ReleaseInv'  BY <1>0, <1>1, <2>4 DEF PhaseInv, ReleaseInv
  <2>12. QED  BY <2>5, <2>6, <2>7, <2>10, <2>11 DEF StopInv
<1>4. QED  BY <1>2, <1>3

LEMMA StopStep == StopInv /\ [Next]_vars => StopInv'
<1> SUFFICES ASSUME StopInv, [Next]_vars PROVE StopInv'  OBVIOUS
<1>1. ASSUME UNCHANGED <<lifecycleVars, admitting, drainVars, usageVars>> PROVE StopInv'
  <2> USE <1>1 DEF lifecycleVars, drainVars, usageVars
  <2>1. \A R : Idle(R)' = Idle(R)  BY DEF Idle
  <2>2. LifecycleTypeOK' /\ PhaseInv' /\ ReleaseInv'  BY DEF StopInv, LifecycleTypeOK, PhaseInv, ReleaseInv
  <2>3. DrainedInv' /\ AdmissionInv' /\ CleanInv'  BY <2>1 DEF StopInv, DrainedInv, AdmissionInv, CleanInv
  <2>4. QED  BY <2>2, <2>3 DEF StopInv
<1>2. CASE Cancel \/ runServeStartup \/ UNCHANGED vars  BY <1>1, <1>2 DEF Cancel, runServeStartup, vars
<1>3. QED  BY <1>2, SetupKeeps, RunKeeps, EndKeeps, RequestKeeps DEF Next

(* A clean stop has refused no Turn, for any requests of either transport: *)
(* admission is cut off only after the last handler has returned.          *)
THEOREM CleanStopsAreNeverLate == Spec => []CleanStopIsNeverLate
<1>1. StopInv => CleanStopIsNeverLate  BY DEF StopInv, CleanInv, CleanStopIsNeverLate
<1>2. QED  BY <1>1, StopInit, StopStep, PTL DEF Spec

(* A lifecycle that has returned, on whatever path, has closed its listener*)
(* and its usage store and cancelled its startup (the contract above       *)
(* runServeLifecycle).                                                     *)
ReturnReleasesAll ==
    pc = "returned" => listener # "open" /\ store # "open" /\ startupCancelled

(* The safety half of StopEnds: there is no path on which something stays  *)
(* open.                                                                   *)
THEOREM ReturnsHoldNothing == Spec => []ReturnReleasesAll
<1>1. StopInv => ReturnReleasesAll  BY DEF StopInv, ReleaseInv, ReturnReleasesAll
<1>2. QED  BY <1>1, StopInit, StopStep, PTL DEF Spec

-----------------------------------------------------------------------------
(***************************************************************************)
(* The configuration.  HighestLayerWins is about the end; before it, what  *)
(* has been read of the command line is what its last flags so far say     *)
(* (FlagsInv), and config is what the layers laid so far say (LayersInv),  *)
(* none of which had a text that is no value.                              *)
(***************************************************************************)
FlagValues(s, text) == IF s = "config" THEN {text} ELSE Parse(s, text)

ConfigTypeOK ==
    /\ input \in Invocations
    /\ parsed \in 0..Len(input.flags)
    /\ step \in {"parsing", "file", "environment", "flags", "check", "running", "told", "refused"}

Layering == {"file", "environment", "flags", "check", "running"}

FlagsInv ==
    /\ set \subseteq Settings \cup {"config"}
    /\ DOMAIN stored = Settings \cup set
    /\ \A i \in 1..parsed :
         /\ input.flags[i][1] \in set
         /\ FlagValues(input.flags[i][1], input.flags[i][2]) # {}
    /\ \A s \in set : \E i \in 1..parsed :
         /\ input.flags[i][1] = s /\ stored[s] \in FlagValues(s, input.flags[i][2])
         /\ \A j \in (i + 1)..parsed : input.flags[j][1] # s
    /\ step \in Layering => parsed = Len(input.flags) /\ input.verb \in DOMAIN Commands

(* What the file, and the file and the environment, make of a setting.     *)
FromFile(s) == IF s \in DOMAIN FileText THEN Parse(s, FileText[s]) ELSE {Row[s].default}
FromEnvironment(s) == IF s \in DOMAIN input.environment THEN Parse(s, input.environment[s]) ELSE FromFile(s)

FileReadable == \A s \in Settings \cap DOMAIN FileText : Parse(s, FileText[s]) # {}
EnvironmentReadable == \A s \in Settings \cap DOMAIN input.environment : Parse(s, input.environment[s]) # {}

LayersInv ==
    /\ step = "file" => config = Defaults
    /\ step = "environment" => \A s \in Settings : config[s] \in FromFile(s)
    /\ step = "flags" => \A s \in Settings : config[s] \in FromEnvironment(s)
    /\ step \in {"check", "running"} => \A s \in Settings : config[s] \in Effective(s)
    /\ step \in {"environment", "flags", "check", "running"} => FileReadable
    /\ step \in {"flags", "check", "running"} => EnvironmentReadable

Accepted == step = "running" => \A s \in Settings : Check(s, config[s]) /\ (s \in logged => ~Row[s].secret)

Blamed(s) ==
    \/ \E text \in Written(s) : Parse(s, text) = {}
    \/ \A value \in Effective(s) : ~Check(s, value)
Refused == step = "refused" => \A s \in refusal \cap Settings : Blamed(s)

ConfigInv == ConfigTypeOK /\ FlagsInv /\ LayersInv /\ Accepted /\ Refused

(* A text has at most one value for a setting.                             *)
LEMMA ParseIsOne ==
    ASSUME NEW s, Row[s].kind \in Kinds, NEW raw, NEW v \in Parse(s, raw), NEW w \in Parse(s, raw)
    PROVE  v = w
<1>1. CASE Row[s].kind = "string"
  BY <1>1 DEF Parse
<1>2. CASE Row[s].kind = "optional"
  BY <1>2 DEF Parse
<1>3. CASE Row[s].kind = "number"
  BY <1>3 DEF Parse
<1>4. CASE Row[s].kind = "switch"
  BY <1>4 DEF Parse
<1>5. CASE Row[s].kind \in {"aliases", "reviewers", "models"}
  <2>1. Parse(s, raw) = parseStringMap(Row[s].kind, raw)
    BY <1>5 DEF Parse
  <2>2. \A kind : \A a, b \in parseStringMap(kind, raw) : a = b
    BY DEF parseStringMap
  <2> QED
    BY <2>1, <2>2
<1> QED
  BY <1>1, <1>2, <1>3, <1>4, <1>5 DEF Kinds

LEMMA EffectiveIsOne ==
    ASSUME ConfigTypeOK, NEW s \in Settings, NEW v \in Effective(s), NEW w \in Effective(s)
    PROVE  v = w
<1>1. Row[s].kind \in Kinds
  BY ConfigurationAssumption DEF Settings
<1>2. \A raw : \A a, b \in Parse(s, raw) : a = b
  BY <1>1, ParseIsOne
<1> QED
  BY <1>2 DEF Effective

(* Settings are not what a refusal may name else.                          *)
LEMMA SettingsAreNoReasons ==
    /\ Settings \cap {"config", "flag", "operand"} = {}
    /\ input.verb \notin DOMAIN Commands => Settings = {}
  BY ConfigurationAssumption DEF Settings

(* Once all flags are read, a setting of set has its last one's value, and *)
(* no other was given.                                                     *)
LEMMA LastFlagIsStored ==
    ASSUME ConfigTypeOK, FlagsInv, parsed = Len(input.flags), NEW s \in Settings \cup {"config"}
    PROVE  /\ s \in set => Given(s) # {} /\ stored[s] \in FlagValues(s, input.flags[LastGiven(s)][2])
           /\ s \notin set => Given(s) = {}
<1>1. DOMAIN input.flags = 1..parsed /\ parsed \in Nat
  BY ConfigurationAssumption DEF ConfigTypeOK
<1>2. CASE s \in set
  <2>1. PICK i \in 1..parsed :
          /\ input.flags[i][1] = s /\ stored[s] \in FlagValues(s, input.flags[i][2])
          /\ \A j \in (i + 1)..parsed : input.flags[j][1] # s
    BY <1>2 DEF FlagsInv
  <2>2. i \in Given(s) /\ \A j \in Given(s) : j <= i
    BY <1>1, <2>1 DEF Given
  <2>3. LastGiven(s) \in Given(s) /\ \A j \in Given(s) : j <= LastGiven(s)
    BY <2>2 DEF LastGiven
  <2>4. LastGiven(s) = i
    BY <1>1, <2>2, <2>3 DEF Given
  <2> QED
    BY <1>2, <2>1, <2>2, <2>4
<1>3. CASE s \notin set
  BY <1>1, <1>3 DEF FlagsInv, Given
<1> QED
  BY <1>2, <1>3

(* The file that is read is the file of the property.                      *)
LEMMA FileIsRead ==
    ASSUME ConfigTypeOK, FlagsInv, parsed = Len(input.flags)
    PROVE  FileText = IF resolveConfigPath # "" /\ resolveConfigPath \in DOMAIN input.files
                      THEN input.files[resolveConfigPath] ELSE <<>>
<1>1. CASE "config" \in set
  <2>1. Given("config") # {} /\ stored["config"] = input.flags[LastGiven("config")][2]
    BY <1>1, LastFlagIsStored DEF FlagValues
  <2> QED
    BY <1>1, <2>1 DEF FileText, resolveConfigPath
<1>2. CASE "config" \notin set
  <2>1. Given("config") = {}
    BY <1>2, LastFlagIsStored
  <2> QED
    BY <1>2, <2>1 DEF FileText, resolveConfigPath
<1> QED
  BY <1>1, <1>2

(* What depends on the invocation alone.                                   *)
LEMMA InputKeeps ==
    ASSUME input' = input
    PROVE  /\ Settings' = Settings /\ FileText' = FileText /\ Defaults' = Defaults
           /\ FileReadable' = FileReadable /\ EnvironmentReadable' = EnvironmentReadable
           /\ \A s : /\ Blamed(s)' = Blamed(s) /\ Effective(s)' = Effective(s)
                     /\ FromFile(s)' = FromFile(s) /\ FromEnvironment(s)' = FromEnvironment(s)
<1>1. Settings' = Settings
  BY DEF Settings
<1>2. Defaults' = Defaults
  BY <1>1 DEF Defaults
<1>3. \A s : Given(s)' = Given(s)
  BY DEF Given
<1>4. \A s : LastGiven(s)' = LastGiven(s)
  BY <1>3 DEF LastGiven
<1>5. FileText' = FileText
  BY <1>3, <1>4 DEF FileText
<1>6. FileReadable' = FileReadable /\ EnvironmentReadable' = EnvironmentReadable
  BY <1>1, <1>5 DEF FileReadable, EnvironmentReadable
<1>7. \A s : FromFile(s)' = FromFile(s)
  BY <1>5 DEF FromFile
<1>8. \A s : FromEnvironment(s)' = FromEnvironment(s)
  BY <1>7 DEF FromEnvironment
<1>9. \A s : Effective(s)' = Effective(s)
  BY <1>3, <1>4, <1>5 DEF Effective
<1>10. \A s : Written(s)' = Written(s)
  BY <1>3, <1>5 DEF Written
<1>11. \A s : Blamed(s)' = Blamed(s)
  BY <1>9, <1>10 DEF Blamed
<1> QED
  BY <1>1, <1>2, <1>5, <1>6, <1>7, <1>8, <1>9, <1>11

LEMMA ConfigInitially == ConfigInit => ConfigInv
<1> SUFFICES ASSUME ConfigInit PROVE ConfigInv
  OBVIOUS
<1>1. ConfigTypeOK
  <2>1. input \in Invocations /\ parsed = 0 /\ step = "parsing"
    BY DEF ConfigInit
  <2>2. Len(input.flags) \in Nat
    BY <2>1, ConfigurationAssumption
  <2> QED
    BY <2>1, <2>2 DEF ConfigTypeOK
<1>2. FlagsInv
  BY DEF ConfigInit, FlagsInv, Defaults, Layering
<1>3. LayersInv /\ Accepted /\ Refused
  BY DEF ConfigInit, LayersInv, Accepted, Refused
<1> QED
  BY <1>1, <1>2, <1>3 DEF ConfigInv

(* A refusal ends the command; what it blames of the settings is all that  *)
(* is left to show.                                                        *)
LEMMA RefuseKeeps ==
    ASSUME ConfigInv, NEW reasons, Refuse(reasons), \A s \in reasons \cap Settings : Blamed(s)
    PROVE  ConfigInv'
<1>1. ConfigTypeOK'
  BY DEF ConfigInv, ConfigTypeOK, Refuse
<1>2. step' = "refused" /\ refusal' = reasons /\ UNCHANGED <<input, parsed, stored, set, config, logged>>
  BY DEF Refuse
<1>3. FlagsInv'
  BY <1>2, InputKeeps DEF ConfigInv, FlagsInv, FlagValues, Layering
<1>4. LayersInv' /\ Accepted'
  BY <1>2 DEF LayersInv, Accepted
<1>5. Refused'
  BY <1>2, InputKeeps DEF Refused
<1> QED
  BY <1>1, <1>3, <1>4, <1>5 DEF ConfigInv

(* A step after the command line, which leaves its flags as they are.      *)
LEMMA FlagsKeep ==
    ASSUME FlagsInv, UNCHANGED <<input, parsed, stored, set>>,
           \/ step' \in Layering => step \in Layering
           \/ parsed = Len(input.flags) /\ input.verb \in DOMAIN Commands
    PROVE  FlagsInv'
  BY InputKeeps DEF FlagsInv, FlagValues

LEMMA ParseFlagKeeps ==
    ASSUME ConfigInv, ParseFlag
    PROVE  ConfigInv'
<1> DEFINE flag == input.flags[parsed + 1]
           values == IF flag[1] = "config" THEN {flag[2]} ELSE Parse(flag[1], flag[2])
<1>1. step = "parsing" /\ parsed < Len(input.flags) /\ DOMAIN input.flags = 1..Len(input.flags)
      /\ parsed \in Nat /\ Len(input.flags) \in Nat
  BY ConfigurationAssumption DEF ParseFlag, ConfigInv, ConfigTypeOK
<1>2. CASE flag[1] \notin Settings \cup {"config"}
  <2>1. Refuse({"flag"})
    BY <1>2 DEF ParseFlag
  <2> QED
    BY <2>1, RefuseKeeps, SettingsAreNoReasons
<1>3. CASE flag[1] \in Settings \cup {"config"} /\ values = {}
  <2>1. Refuse({flag[1]})
    BY <1>3 DEF ParseFlag
  <2>2. flag[2] \in Written(flag[1])
    <3>1. parsed + 1 \in Given(flag[1])
      BY <1>1 DEF Given
    <3> QED
      BY <3>1 DEF Written
  <2>3. Blamed(flag[1])
    BY <1>3, <2>2 DEF Blamed
  <2> QED
    BY <2>1, <2>3, RefuseKeeps
<1>4. CASE flag[1] \in Settings \cup {"config"} /\ values # {}
  <2>1. PICK v \in values : stored' = [s \in DOMAIN stored \cup {flag[1]} |-> IF s = flag[1] THEN v ELSE stored[s]]
    BY <1>4 DEF ParseFlag
  <2>2. set' = set \cup {flag[1]} /\ parsed' = parsed + 1 /\ UNCHANGED <<input, step, config, logged, refusal>>
    BY <1>4 DEF ParseFlag
  <2>3. ConfigTypeOK'
    BY <1>1, <2>2 DEF ConfigInv, ConfigTypeOK
  <2>4. values = FlagValues(flag[1], flag[2])
    BY DEF FlagValues
  <2>5. set' \subseteq Settings' \cup {"config"} /\ DOMAIN stored' = Settings' \cup set'
    BY <1>4, <2>1, <2>2, InputKeeps DEF ConfigInv, FlagsInv
  <2>6. \A i \in 1..parsed' : input'.flags[i][1] \in set' /\ FlagValues(input'.flags[i][1], input'.flags[i][2]) # {}
    <3> SUFFICES ASSUME NEW i \in 1..parsed'
                 PROVE  input.flags[i][1] \in set' /\ FlagValues(input.flags[i][1], input.flags[i][2]) # {}
      BY <2>2
    <3>1. CASE i = parsed + 1
      BY <3>1, <1>4, <2>2, <2>4
    <3>2. CASE i # parsed + 1
      <4>1. i \in 1..parsed
        BY <3>2, <1>1, <2>2
      <4> QED
        BY <4>1, <2>2 DEF ConfigInv, FlagsInv
    <3> QED
      BY <3>1, <3>2
  <2>7. ASSUME NEW s \in set'
        PROVE  \E i \in 1..parsed' :
                 /\ input'.flags[i][1] = s /\ stored'[s] \in FlagValues(s, input'.flags[i][2])
                 /\ \A j \in (i + 1)..parsed' : input'.flags[j][1] # s
    <3>1. CASE s = flag[1]
      <4>1. parsed + 1 \in 1..parsed' /\ (parsed + 1 + 1)..parsed' = {}
        BY <1>1, <2>2
      <4>2. stored'[s] \in FlagValues(s, flag[2])
        BY <3>1, <2>1, <2>4
      <4> QED
        BY <3>1, <4>1, <4>2, <2>2
    <3>2. CASE s # flag[1]
      <4>1. s \in set /\ s \in DOMAIN stored
        BY <3>2, <2>2 DEF ConfigInv, FlagsInv
      <4>2. PICK i \in 1..parsed :
              /\ input.flags[i][1] = s /\ stored[s] \in FlagValues(s, input.flags[i][2])
              /\ \A j \in (i + 1)..parsed : input.flags[j][1] # s
        BY <4>1 DEF ConfigInv, FlagsInv
      <4>3. stored'[s] = stored[s]
        BY <4>1, <3>2, <2>1
      <4>4. \A j \in (i + 1)..parsed' : j = parsed + 1 \/ j \in (i + 1)..parsed
        BY <1>1, <2>2, <4>2
      <4>5. i \in 1..parsed'
        BY <1>1, <2>2, <4>2
      <4> QED
        BY <3>2, <4>2, <4>3, <4>4, <4>5, <2>2
    <3> QED
      BY <3>1, <3>2
  <2>8. FlagsInv'
    BY <1>1, <2>2, <2>5, <2>6, <2>7 DEF FlagsInv, FlagValues, Layering
  <2>9. LayersInv' /\ Accepted' /\ Refused'
    BY <1>1, <2>2 DEF LayersInv, Accepted, Refused
  <2> QED
    BY <2>3, <2>8, <2>9 DEF ConfigInv
<1> QED
  BY <1>2, <1>3, <1>4

LEMMA DispatchKeeps ==
    ASSUME ConfigInv, Dispatch
    PROVE  ConfigInv'
<1>1. CASE Refuse({"verb"}) /\ input.verb \notin DOMAIN Commands
  BY <1>1, RefuseKeeps, SettingsAreNoReasons
<1>2. CASE Refuse({"operand"})
  BY <1>2, RefuseKeeps, SettingsAreNoReasons
<1>3. CASE /\ step = "parsing" /\ parsed = Len(input.flags)
           /\ step' = IF input.verb \in DOMAIN Commands THEN "file" ELSE "told"
           /\ config' = Defaults
           /\ UNCHANGED <<input, parsed, stored, set, logged, refusal>>
  <2>1. ConfigTypeOK'
    BY <1>3 DEF ConfigInv, ConfigTypeOK
  <2>2. FlagsInv'
    BY <1>3, FlagsKeep DEF ConfigInv, Layering
  <2>3. LayersInv' /\ Accepted' /\ Refused'
    BY <1>3, InputKeeps DEF LayersInv, Accepted, Refused
  <2> QED
    BY <2>1, <2>2, <2>3 DEF ConfigInv
<1> QED
  BY <1>1, <1>2, <1>3 DEF Dispatch

(* A layer of texts over the configuration: each setting that it has gets  *)
(* the text's value, and no text is without one.                           *)
LEMMA OverlayEffect ==
    ASSUME NEW texts, NEW next, Overlay(texts, next)
    PROVE  \/ \E bad : /\ Refuse(bad)
                       /\ \A s \in bad : s \in Settings \cap DOMAIN texts /\ Parse(s, texts[s]) = {}
           \/ /\ step' = next /\ UNCHANGED <<input, parsed, stored, set, logged, refusal>>
              /\ \A s \in Settings \cap DOMAIN texts : Parse(s, texts[s]) # {} /\ config'[s] \in Parse(s, texts[s])
              /\ \A s \in Settings \ DOMAIN texts : config'[s] = config[s]
<1> DEFINE given == Settings \cap DOMAIN texts
           bad == {s \in given : Parse(s, texts[s]) = {}}
<1>1. CASE bad # {}
  <2>1. Refuse(bad)
    BY <1>1 DEF Overlay
  <2> QED
    BY <2>1
<1>2. CASE bad = {}
  <2>1. /\ config' = [s \in Settings |-> IF s \in given THEN CHOOSE v \in Parse(s, texts[s]) : TRUE ELSE config[s]]
        /\ step' = next /\ UNCHANGED <<input, parsed, stored, set, logged, refusal>>
    BY <1>2 DEF Overlay
  <2>2. ASSUME NEW s \in given
        PROVE  Parse(s, texts[s]) # {} /\ config'[s] \in Parse(s, texts[s])
    <3>1. Parse(s, texts[s]) # {}
      BY <1>2
    <3>2. (CHOOSE v \in Parse(s, texts[s]) : TRUE) \in Parse(s, texts[s])
      BY <3>1
    <3> QED
      BY <3>1, <3>2, <2>1
  <2>3. \A s \in Settings \ DOMAIN texts : config'[s] = config[s]
    BY <2>1
  <2> QED
    BY <2>1, <2>2, <2>3
<1> QED
  BY <1>1, <1>2

(* A step from one layer to the next.                                      *)
LEMMA LayerKeeps ==
    ASSUME ConfigInv, step \in Layering, step' \in Layering \ {"running"},
           UNCHANGED <<input, parsed, stored, set, logged, refusal>>, LayersInv'
    PROVE  ConfigInv'
<1>1. ConfigTypeOK'
  BY DEF ConfigInv, ConfigTypeOK, Layering
<1>2. FlagsInv'
  BY FlagsKeep DEF ConfigInv
<1>3. Accepted' /\ Refused'
  BY DEF Accepted, Refused, Layering
<1> QED
  BY <1>1, <1>2, <1>3 DEF ConfigInv

LEMMA OverlayFileKeeps ==
    ASSUME ConfigInv, OverlayFile
    PROVE  ConfigInv'
<1>1. step = "file" /\ config = Defaults /\ parsed = Len(input.flags)
  BY DEF OverlayFile, ConfigInv, LayersInv, FlagsInv, Layering
<1>2. \A s \in Settings : config[s] = Row[s].default
  BY <1>1 DEF Defaults
<1>3. FileText = IF resolveConfigPath # "" /\ resolveConfigPath \in DOMAIN input.files
                 THEN input.files[resolveConfigPath] ELSE <<>>
  BY <1>1, FileIsRead DEF ConfigInv
<1>4. CASE resolveConfigPath = ""
  <2>1. step' = "environment" /\ UNCHANGED <<input, parsed, stored, set, config, logged, refusal>>
    BY <1>4 DEF OverlayFile
  <2>2. DOMAIN FileText = {}
    <3>1. FileText = <<>>
      BY <1>3, <1>4, Zenon
    <3> QED
      BY <3>1
  <2>3. FileReadable /\ \A s \in Settings : config[s] \in FromFile(s)
    BY <1>2, <2>2 DEF FileReadable, FromFile
  <2>4. LayersInv'
    BY <2>1, <2>3, InputKeeps DEF LayersInv
  <2> QED
    BY <1>1, <2>1, <2>4, LayerKeeps DEF Layering
<1>5. CASE resolveConfigPath # "" /\ resolveConfigPath \notin DOMAIN input.files
  <2>1. Refuse({"config"})
    BY <1>5 DEF OverlayFile
  <2> QED
    BY <2>1, RefuseKeeps, SettingsAreNoReasons
<1>6. CASE resolveConfigPath # "" /\ resolveConfigPath \in DOMAIN input.files
  <2>1. Overlay(FileText, "environment")
    BY <1>3, <1>6 DEF OverlayFile
  <2>2. CASE \E bad : Refuse(bad) /\ \A s \in bad : s \in Settings \cap DOMAIN FileText /\ Parse(s, FileText[s]) = {}
    <3>1. PICK bad : Refuse(bad) /\ \A s \in bad : s \in Settings \cap DOMAIN FileText /\ Parse(s, FileText[s]) = {}
      BY <2>2
    <3>2. \A s \in bad : FileText[s] \in Written(s) /\ Parse(s, FileText[s]) = {}
      BY <3>1 DEF Written
    <3>3. \A s \in bad : Blamed(s)
      BY <3>2 DEF Blamed
    <3> QED
      BY <3>1, <3>3, RefuseKeeps
  <2>3. CASE /\ step' = "environment" /\ UNCHANGED <<input, parsed, stored, set, logged, refusal>>
             /\ \A s \in Settings \cap DOMAIN FileText :
                  Parse(s, FileText[s]) # {} /\ config'[s] \in Parse(s, FileText[s])
             /\ \A s \in Settings \ DOMAIN FileText : config'[s] = config[s]
    <3>1. FileReadable /\ \A s \in Settings : config'[s] \in FromFile(s)
      BY <1>2, <2>3 DEF FileReadable, FromFile
    <3>2. LayersInv'
      BY <2>3, <3>1, InputKeeps DEF LayersInv
    <3> QED
      BY <1>1, <2>3, <3>2, LayerKeeps DEF Layering
  <2> QED
    BY <2>1, <2>2, <2>3, OverlayEffect
<1> QED
  BY <1>4, <1>5, <1>6

LEMMA OverlayEnvironmentKeeps ==
    ASSUME ConfigInv, OverlayEnvironment
    PROVE  ConfigInv'
<1> DEFINE texts == input.environment
<1>1. step = "environment" /\ FileReadable /\ \A s \in Settings : config[s] \in FromFile(s)
  BY DEF OverlayEnvironment, ConfigInv, LayersInv
<1>2. CASE \E bad : Refuse(bad) /\ \A s \in bad : s \in Settings \cap DOMAIN texts /\ Parse(s, texts[s]) = {}
  <2>1. PICK bad : Refuse(bad) /\ \A s \in bad : s \in Settings \cap DOMAIN texts /\ Parse(s, texts[s]) = {}
    BY <1>2
  <2>2. \A s \in bad : texts[s] \in Written(s) /\ Parse(s, texts[s]) = {}
    BY <2>1 DEF Written
  <2>3. \A s \in bad : Blamed(s)
    BY <2>2 DEF Blamed
  <2> QED
    BY <2>1, <2>3, RefuseKeeps
<1>3. CASE /\ step' = "flags" /\ UNCHANGED <<input, parsed, stored, set, logged, refusal>>
           /\ \A s \in Settings \cap DOMAIN texts : Parse(s, texts[s]) # {} /\ config'[s] \in Parse(s, texts[s])
           /\ \A s \in Settings \ DOMAIN texts : config'[s] = config[s]
  <2>1. EnvironmentReadable /\ \A s \in Settings : config'[s] \in FromEnvironment(s)
    BY <1>1, <1>3 DEF EnvironmentReadable, FromEnvironment
  <2>2. LayersInv'
    BY <1>1, <1>3, <2>1, InputKeeps DEF LayersInv
  <2> QED
    BY <1>1, <1>3, <2>2, LayerKeeps DEF Layering
<1> QED
  BY <1>2, <1>3, OverlayEffect DEF OverlayEnvironment

LEMMA applyFlagsKeeps ==
    ASSUME ConfigInv, applyFlags
    PROVE  ConfigInv'
<1>1. step = "flags" /\ step' = "check" /\ UNCHANGED <<input, parsed, stored, set, logged, refusal>>
  BY DEF applyFlags
<1>2. FileReadable /\ EnvironmentReadable /\ parsed = Len(input.flags)
      /\ \A s \in Settings : config[s] \in FromEnvironment(s)
  BY <1>1 DEF ConfigInv, LayersInv, FlagsInv, Layering
<1>3. ASSUME NEW s \in Settings
      PROVE  config'[s] \in Effective(s)
  <2>1. config'[s] = IF s \in set THEN stored[s] ELSE config[s]
    BY DEF applyFlags
  <2>2. s # "config"
    BY SettingsAreNoReasons
  <2>3. CASE s \in set
    <3>1. Given(s) # {} /\ stored[s] \in FlagValues(s, input.flags[LastGiven(s)][2])
      BY <2>3, <1>2, LastFlagIsStored DEF ConfigInv
    <3> QED
      BY <2>1, <2>2, <2>3, <3>1 DEF Effective, FlagValues
  <2>4. CASE s \notin set
    <3>1. Given(s) = {}
      BY <2>4, <1>2, LastFlagIsStored DEF ConfigInv
    <3> QED
      BY <2>1, <2>4, <3>1, <1>2 DEF Effective, FromEnvironment, FromFile
  <2> QED
    BY <2>3, <2>4
<1>4. LayersInv'
  BY <1>1, <1>2, <1>3, InputKeeps DEF LayersInv
<1> QED
  BY <1>1, <1>4, LayerKeeps DEF Layering

LEMMA ValidateKeeps ==
    ASSUME ConfigInv, Validate
    PROVE  ConfigInv'
<1> DEFINE bad == {s \in Settings : ~Check(s, config[s])}
<1>1. step = "check" /\ \A s \in Settings : config[s] \in Effective(s)
  BY DEF Validate, ConfigInv, LayersInv
<1>2. CASE bad # {}
  <2>1. Refuse(bad)
    BY <1>2 DEF Validate
  <2>2. ASSUME NEW s \in bad
        PROVE  Blamed(s)
    <3>1. \A value \in Effective(s) : value = config[s]
      BY <1>1, EffectiveIsOne DEF ConfigInv
    <3> QED
      BY <3>1 DEF Blamed
  <2> QED
    BY <2>1, <2>2, RefuseKeeps
<1>3. CASE bad = {}
  <2>1. /\ step' = "running" /\ UNCHANGED <<input, parsed, stored, set, config, refusal>>
        /\ logged' = IF input.verb = "usage" THEN {} ELSE {s \in Settings : ~Row[s].secret}
    BY <1>3 DEF Validate
  <2>2. ConfigTypeOK'
    BY <2>1 DEF ConfigInv, ConfigTypeOK
  <2>3. FlagsInv'
    BY <1>1, <2>1, FlagsKeep DEF ConfigInv, Layering
  <2>4. LayersInv'
    BY <1>1, <2>1, InputKeeps DEF ConfigInv, LayersInv
  <2>5. \A s \in Settings : Check(s, config[s])
    BY <1>3
  <2>6. \A s : Check(s, config[s])' = Check(s, config[s])
    BY <2>1
  <2>7. Accepted'
    BY <2>1, <2>5, <2>6, InputKeeps DEF Accepted
  <2>8. Refused'
    BY <2>1 DEF Refused
  <2> QED
    BY <2>2, <2>3, <2>4, <2>7, <2>8 DEF ConfigInv
<1> QED
  BY <1>2, <1>3

LEMMA ConfigStep == ConfigInv /\ [ConfigNext]_configVars => ConfigInv'
<1> SUFFICES ASSUME ConfigInv, [ConfigNext]_configVars PROVE ConfigInv'
  OBVIOUS
<1>1. CASE UNCHANGED configVars
  <2>1. UNCHANGED <<input, step, parsed, stored, set, config, logged, refusal>>
    BY <1>1 DEF configVars
  <2>2. ConfigTypeOK' /\ FlagsInv'
    BY <2>1, FlagsKeep DEF ConfigInv, ConfigTypeOK
  <2>3. LayersInv'
    BY <2>1, InputKeeps DEF ConfigInv, LayersInv
  <2>4. \A s : Check(s, config[s])' = Check(s, config[s])
    BY <2>1
  <2>5. Accepted' /\ Refused'
    BY <2>1, <2>4, InputKeeps DEF ConfigInv, Accepted, Refused
  <2> QED
    BY <2>2, <2>3, <2>5 DEF ConfigInv
<1> QED
  BY <1>1, ParseFlagKeeps, DispatchKeeps, OverlayFileKeeps, OverlayEnvironmentKeeps, applyFlagsKeeps,
     ValidateKeeps DEF ConfigNext

(* A command that runs has every setting at the value of its highest       *)
(* layer, none of whose layers said what is no value; one that is refused  *)
(* for a setting is refused for what was written of it; no secret is told. *)
THEOREM TheHighestLayerWins == ConfigSpec => []HighestLayerWins
<1>1. ConfigInv => HighestLayerWins
  <2> SUFFICES ASSUME ConfigInv PROVE HighestLayerWins
    OBVIOUS
  <2>1. ASSUME step = "running", NEW s \in Settings
        PROVE  /\ config[s] \in Effective(s) /\ Check(s, config[s])
               /\ \A text \in Written(s) : Parse(s, text) # {}
               /\ s \in logged => ~Row[s].secret
    <3>1. FileReadable /\ EnvironmentReadable /\ config[s] \in Effective(s) /\ parsed = Len(input.flags)
      BY <2>1 DEF ConfigInv, LayersInv, FlagsInv, Layering
    <3>2. DOMAIN input.flags = 1..parsed /\ s # "config"
      BY <3>1, ConfigurationAssumption, SettingsAreNoReasons DEF ConfigInv, ConfigTypeOK
    <3>3. \A i \in Given(s) : Parse(s, input.flags[i][2]) # {}
      BY <3>2 DEF ConfigInv, FlagsInv, Given, FlagValues
    <3>4. \A text \in Written(s) : Parse(s, text) # {}
      BY <3>1, <3>3 DEF Written, FileReadable, EnvironmentReadable
    <3> QED
      BY <2>1, <3>1, <3>4 DEF ConfigInv, Accepted
  <2>2. step = "refused" => \A s \in refusal \cap Settings : Blamed(s)
    BY DEF ConfigInv, Refused
  <2> QED
    BY <2>1, <2>2 DEF HighestLayerWins, Blamed
<1> QED
  BY <1>1, ConfigInitially, ConfigStep, PTL DEF ConfigSpec
=============================================================================
