--------------------------- MODULE WsSessionProofs ---------------------------
(***************************************************************************)
(* What a WebSocket session is promised, proved for any number of upgrade  *)
(* requests, items, events and hooks: that the account which its drain     *)
(* gives of itself and of its sessions is true (WsDrain), that items keep  *)
(* their ids for as long as a turn lasts (ItemIDs), and that the records of*)
(* hook overruns come in pairs and are counted (HookWatch).                *)
(***************************************************************************)
EXTENDS WsSession, HookWatch, TLAPS, FiniteSetTheorems

(***************************************************************************)
(* The WebSocket drain, for any handlers.                                  *)
(***************************************************************************)
Tracked  == {"session", "ended", "closing", "joining"}
Admitted == {"phase", "upgraded", "leaving"} \cup Tracked

Blamed == {NoFailure} \cup [peer : Peers, by : {"peer", "copilotd"}]

DrainTypeOK ==
    /\ hpc \in [Handlers -> {"idle", "rejected", "done"} \cup Admitted]
    /\ terminal \in [Handlers -> Blamed] /\ failure \in [Handlers -> Blamed]
    /\ ending \in [Handlers -> Peers \cup {"none", "error", "aborted"}]

(* The WaitGroup counts the handlers that are in, the sessions are those   *)
(* tracked, and a session's context is cancelled as it ends.               *)
MembersInv ==
    /\ counted = {h \in Handlers : hpc[h] \in Admitted}
    /\ sessions = {h \in Handlers : hpc[h] \in Tracked}
    /\ released \subseteq {h \in Handlers : hpc[h] \in {"joining", "leaving", "done"}}
    /\ \A h \in Handlers : ending[h] # "none" => hpc[h] \in {"closing", "joining"}

(* The stages of the server's shutdown: admission is closed before the     *)
(* drain waits; the base context ends when nobody is left or the deadline *)
(* has passed; and nothing is forced before the context has ended.         *)
ShutdownInv ==
    /\ admissionClosed <=> spc \notin {"serving", "failed"}
    /\ spc \in {"cancelled", "forcing"} => expired /\ baseCtx
    /\ wsErr # "none" => expired
    /\ spc \in {"joining", "returned"} => wsErr # "none" \/ counted = {}
    /\ baseCtx => spc \in {"cancelled", "forcing", "joining", "returned"}
    /\ forced # {} => baseCtx
    /\ outcome = "clean" => spc = "returned" /\ wsErr = "none"

(* The drains' results, and what the shutdown makes of them.               *)
ResultInv ==
    /\ http \in {"serving", "draining", "drained", "failed", "deadline"}
    /\ wsErr \in {"none", "deadline"} /\ (wsErr = "deadline" => expired)
    /\ http = "deadline" => expired
    /\ outcome # "none" => spc \in {"returned", "failed"}
    /\ spc = "returned" => http \notin {"serving", "draining"}
    /\ spc = "failed" => outcome = "error"
    /\ ForcedIsTheDeadlines

(* No session is told to go by the base context but at the deadline; and  *)
(* what copilotd has cut it has cut with that context.                     *)
CauseInv ==
    /\ \A h \in Handlers : ending[h] = "aborted" => expired
    /\ \A h \in Handlers : "copilotd" \in {terminal[h].by, failure[h].by} => baseCtx
    /\ OwnCutsBlameNobody

DrainInv == DrainTypeOK /\ MembersInv /\ ShutdownInv /\ ResultInv /\ CauseInv

LEMMA DrainInit == Init => DrainInv
<1> SUFFICES ASSUME Init PROVE DrainInv  OBVIOUS
<1> USE DEF Init, NoFailure, None, Peers
<1>1. NoFailure \in Blamed  BY DEF Blamed
<1>2. DrainTypeOK  BY <1>1 DEF DrainTypeOK
<1>3. MembersInv  BY DEF MembersInv, Tracked, Admitted
<1>4. ShutdownInv  BY <1>3 DEF ShutdownInv, MembersInv
<1>5. ResultInv  BY DEF ResultInv, ForcedIsTheDeadlines
<1>6. CauseInv  BY DEF CauseInv, OwnCutsBlameNobody
<1>7. QED  BY <1>2, <1>3, <1>4, <1>5, <1>6 DEF DrainInv

(* The steps of the handlers, and of the server.                           *)
SessionStep(h) ==
    \/ Admit(h) \/ PhaseEnds(h) \/ Upgrade(h) \/ HandlerStep(h)
    \/ \E p \in Peers : PumpFails(h, p) \/ CloseReturns(h, p)

ShutdownStep ==
    \/ StartDrain \/ ServerStep \/ HttpShutdown \/ Expire \/ ServeFails

(* The server's steps leave the sessions alone.                            *)
LEMMA ShutdownKeeps == DrainInv /\ ShutdownStep => DrainInv'
<1> SUFFICES ASSUME DrainInv, ShutdownStep PROVE DrainInv'  OBVIOUS
<1>0. DrainTypeOK /\ MembersInv /\ ShutdownInv /\ ResultInv /\ CauseInv  BY DEF DrainInv
<1> USE DEF ServerAt, sessionVars, proxyVars, ServerOnly, None
<1>1. UNCHANGED <<counted, sessions, released, hpc, terminal, failure, ending>>
  BY DEF ShutdownStep, StartDrain, ServerStep, HttpShutdown, Expire, ServeFails,
         Shutdown, Drained, CancelThenForceClose, Joined
<1>2. (baseCtx => baseCtx') /\ (expired => expired')
  BY DEF ShutdownStep, StartDrain, ServerStep, HttpShutdown, Expire, ServeFails,
         Shutdown, Drained, CancelThenForceClose, Joined
<1>3. DrainTypeOK' /\ MembersInv'  BY <1>0, <1>1 DEF DrainTypeOK, MembersInv
<1>4. CauseInv'  BY <1>0, <1>1, <1>2 DEF CauseInv, OwnCutsBlameNobody
<1>5. ShutdownInv'
  <2>1. CASE StartDrain  BY <1>0, <2>1 DEF ShutdownInv, StartDrain
  <2>2. CASE Shutdown  BY <1>0, <2>2 DEF ShutdownInv, Shutdown
  <2>3. CASE Drained  BY <1>0, <2>3 DEF ShutdownInv, Drained
  <2>4. CASE CancelThenForceClose  BY <1>0, <2>4 DEF ShutdownInv, CancelThenForceClose
  <2>5. CASE Joined  BY <1>0, <2>5 DEF ShutdownInv, Joined
  <2>6. CASE HttpShutdown  BY <1>0, <2>6 DEF ShutdownInv, HttpShutdown
  <2>7. CASE Expire  BY <1>0, <2>7 DEF ShutdownInv, Expire
  <2>8. CASE ServeFails  BY <1>0, <2>8 DEF ShutdownInv, ServeFails
  <2>9. QED  BY <2>1, <2>2, <2>3, <2>4, <2>5, <2>6, <2>7, <2>8 DEF ShutdownStep, ServerStep
<1>6. ResultInv'
  <2> USE <1>0 DEF ResultInv, ForcedIsTheDeadlines
  <2>1. CASE StartDrain  BY <2>1 DEF StartDrain
  <2>2. CASE Shutdown  BY <2>2 DEF Shutdown
  <2>3. CASE Drained  BY <2>3 DEF Drained
  <2>4. CASE CancelThenForceClose  BY <2>4 DEF CancelThenForceClose, ShutdownInv
  <2>5. CASE Joined  BY <2>5 DEF Joined
  <2>6. CASE HttpShutdown  BY <2>6 DEF HttpShutdown
  <2>7. CASE Expire  BY <2>7 DEF Expire
  <2>8. CASE ServeFails  BY <2>8 DEF ServeFails
  <2>9. QED  BY <2>1, <2>2, <2>3, <2>4, <2>5, <2>6, <2>7, <2>8 DEF ShutdownStep, ServerStep
<1>7. QED  BY <1>3, <1>4, <1>5, <1>6 DEF DrainInv

LEMMA SessionEffects ==
    ASSUME NEW h \in Handlers, SessionStep(h)
    PROVE  /\ UNCHANGED <<admissionClosed, drainCtx, baseCtx, forced, spc, expired, http, wsErr, outcome>>
           /\ counted' \subseteq counted \/ ~admissionClosed
<1> USE DEF BeforeSession, InSession, serverVars, proxyVars
<1>1. CASE Admit(h)  BY <1>1 DEF Admit
<1>2. CASE PhaseEnds(h) \/ Upgrade(h)  BY <1>2 DEF PhaseEnds, Upgrade
<1>3. CASE SessionSelects(h) \/ SessionEnds(h) \/ closeBoth(h)
  BY <1>3 DEF SessionSelects, SessionEnds, closeBoth
<1>4. CASE trackSession(h) \/ untrackSession(h) \/ Leave(h)
  BY <1>4 DEF trackSession, untrackSession, Leave
<1>5. ASSUME NEW p \in Peers, PumpJoins(h, p) \/ PumpFails(h, p) \/ CloseReturns(h, p)
      PROVE  UNCHANGED <<admissionClosed, drainCtx, baseCtx, forced, spc, expired, http, wsErr, outcome, counted>>
  BY <1>5 DEF PumpJoins, PumpFails, CloseReturns
<1>6. QED  BY <1>1, <1>2, <1>3, <1>4, <1>5 DEF SessionStep, HandlerStep

(* A handler's move from one stage to the next, with what follows it.      *)
LEMMA MemberMoves ==
    ASSUME NEW h \in Handlers, DrainTypeOK, MembersInv,
           NEW to \in {"rejected", "done"} \cup Admitted, hpc' = [hpc EXCEPT ![h] = to],
           counted' = IF to \in Admitted THEN counted \cup {h} ELSE counted \ {h},
           sessions' = IF to \in Tracked THEN sessions \cup {h} ELSE sessions \ {h},
           released' \subseteq released \cup {h},
           h \in released' => to \in {"joining", "leaving", "done"},
           \A g \in Handlers \ {h} : ending'[g] = ending[g],
           ending'[h] # "none" => to \in {"closing", "joining"}
    PROVE  MembersInv' /\ hpc' \in [Handlers -> {"idle", "rejected", "done"} \cup Admitted]
<1>1. hpc' \in [Handlers -> {"idle", "rejected", "done"} \cup Admitted]  BY DEF DrainTypeOK
<1>2. hpc'[h] = to /\ \A g \in Handlers \ {h} : hpc'[g] = hpc[g]  BY DEF DrainTypeOK
<1>3. counted' = {g \in Handlers : hpc'[g] \in Admitted}  BY <1>2 DEF MembersInv
<1>4. sessions' = {g \in Handlers : hpc'[g] \in Tracked}  BY <1>2 DEF MembersInv
<1>5. released' \subseteq {g \in Handlers : hpc'[g] \in {"joining", "leaving", "done"}}
  BY <1>2 DEF MembersInv
<1>6. \A g \in Handlers : ending'[g] # "none" => hpc'[g] \in {"closing", "joining"}
  BY <1>2 DEF MembersInv
<1>7. QED  BY <1>1, <1>3, <1>4, <1>5, <1>6 DEF MembersInv

(* The steps that leave failures and endings alone.                        *)
LEMMA StagesKeep ==
    ASSUME DrainInv, NEW h \in Handlers,
           \/ Admit(h) \/ PhaseEnds(h) \/ Upgrade(h)
           \/ trackSession(h) \/ closeBoth(h) \/ Leave(h)
    PROVE  DrainTypeOK' /\ MembersInv' /\ CauseInv'
<1>0. DrainTypeOK /\ MembersInv /\ CauseInv  BY DEF DrainInv
<1> USE DEF HandlerAt, BeforeSession, InSession, serverVars, proxyVars
<1>1. UNCHANGED <<baseCtx, expired, terminal, failure, ending>>
  BY DEF Admit, PhaseEnds, Upgrade, trackSession, closeBoth, Leave
<1>2. PICK to \in {"rejected", "done"} \cup Admitted :
          /\ hpc' = [hpc EXCEPT ![h] = to]
          /\ counted' = IF to \in Admitted THEN counted \cup {h} ELSE counted \ {h}
          /\ sessions' = IF to \in Tracked THEN sessions \cup {h} ELSE sessions \ {h}
          /\ released' \subseteq released \cup {h}
          /\ h \in released' => to \in {"joining", "leaving", "done"}
          /\ ending[h] # "none" => to \in {"closing", "joining"}
  <2> USE <1>0 DEF MembersInv, Admitted, Tracked
  <2>1. CASE Admit(h)  BY <2>1 DEF Admit
  <2>2. CASE PhaseEnds(h)  BY <2>2 DEF PhaseEnds
  <2>3. CASE Upgrade(h)  BY <2>3 DEF Upgrade
  <2>4. CASE trackSession(h)  BY <2>4 DEF trackSession
  <2>5. CASE closeBoth(h)  BY <2>5 DEF closeBoth
  <2>6. CASE Leave(h)  BY <2>6 DEF Leave
  <2>7. QED  BY <2>1, <2>2, <2>3, <2>4, <2>5, <2>6
<1>3. MembersInv' /\ hpc' \in [Handlers -> {"idle", "rejected", "done"} \cup Admitted]
  BY <1>0, <1>1, <1>2, MemberMoves
<1>4. DrainTypeOK'  BY <1>0, <1>1, <1>3 DEF DrainTypeOK
<1>5. CauseInv'  BY <1>0, <1>1 DEF CauseInv, OwnCutsBlameNobody
<1>6. QED  BY <1>3, <1>4, <1>5

(* The end of a session: what it selects, how it ends, and that it is gone.*)
LEMMA EndingKeeps ==
    ASSUME DrainInv, NEW h \in Handlers,
           SessionSelects(h) \/ SessionEnds(h) \/ untrackSession(h)
    PROVE  DrainTypeOK' /\ MembersInv' /\ CauseInv'
<1>0. DrainTypeOK /\ MembersInv /\ ShutdownInv /\ ResultInv /\ CauseInv  BY DEF DrainInv
<1> USE DEF HandlerAt, InSession, serverVars, proxyVars
<1>1. UNCHANGED <<baseCtx, expired>>
  BY DEF SessionSelects, SessionEnds, untrackSession
<1>2. NoFailure \in Blamed /\ NoFailure.by = "none"  BY DEF NoFailure, None, Blamed
<1>3. CASE SessionSelects(h)
  <2>1. /\ hpc[h] = "session" /\ hpc' = [hpc EXCEPT ![h] = "ended"]
        /\ terminal' = [terminal EXCEPT ![h] = NoFailure]
        /\ failure' = [failure EXCEPT ![h] = terminal[h]] \/ failure' = failure
        /\ UNCHANGED <<counted, sessions, released, ending>>
    BY <1>3 DEF SessionSelects
  <2>2. h \in counted /\ h \in sessions /\ h \notin released /\ ending[h] = "none"
    BY <1>0, <2>1 DEF MembersInv, Admitted, Tracked
  <2>3. MembersInv' /\ hpc' \in [Handlers -> {"idle", "rejected", "done"} \cup Admitted]
    <3>1. "ended" \in Tracked /\ "ended" \in Admitted  BY DEF Admitted, Tracked
    <3>2. /\ counted' = counted \cup {h} /\ sessions' = sessions \cup {h}
          /\ released' \subseteq released \cup {h} /\ h \notin released' /\ ending'[h] = "none"
          /\ \A g \in Handlers \ {h} : ending'[g] = ending[g]
      BY <2>1, <2>2
    <3>3. QED  BY <1>0, <2>1, <3>1, <3>2, MemberMoves
  <2>4. DrainTypeOK'  BY <1>0, <1>2, <2>1, <2>3 DEF DrainTypeOK
  <2>5. \A g \in Handlers : /\ terminal'[g].by \in {terminal[g].by, "none"}
                            /\ failure'[g].by \in {failure[g].by, terminal[g].by}
                            /\ ending'[g] # "none" => failure'[g] = failure[g]
    BY <1>0, <1>2, <2>1, <2>2 DEF DrainTypeOK
  <2>6. CauseInv'
    BY <1>0, <1>1, <2>1, <2>5 DEF CauseInv, OwnCutsBlameNobody, Peers
  <2>7. QED  BY <2>3, <2>4, <2>6
<1>4. CASE SessionEnds(h)
  <2>1. PICK to \in {"joining", "closing"}, e \in Peers \cup {"error", "aborted"} :
            /\ hpc[h] = "ended" /\ hpc' = [hpc EXCEPT ![h] = to]
            /\ ending' = [ending EXCEPT ![h] = e]
            /\ e = "aborted" => baseCtx
            /\ e \in Peers => ~baseCtx
            /\ released' \subseteq released \cup {h}
            /\ h \in released' => h \in released \/ to = "joining"
            /\ UNCHANGED <<counted, sessions, terminal, failure>>
    <3>1. \A e \in Blame(failure[h]) : e \in Peers \cup {"error"}
      <4>1. failure[h] = NoFailure \/ failure[h].peer \in Peers
        BY <1>0 DEF DrainTypeOK, Blamed
      <4>2. QED  BY <4>1 DEF Blame, Peers
    <3>2. QED  BY <1>4, <3>1 DEF SessionEnds, Peers
  <2>2. h \in counted /\ h \in sessions /\ h \notin released
    BY <1>0, <2>1 DEF MembersInv, Admitted, Tracked
  <2>3. MembersInv' /\ hpc' \in [Handlers -> {"idle", "rejected", "done"} \cup Admitted]
    <3>1. to \in Tracked /\ to \in Admitted  BY DEF Admitted, Tracked
    <3>2. /\ counted' = counted \cup {h} /\ sessions' = sessions \cup {h}
          /\ \A g \in Handlers \ {h} : ending'[g] = ending[g]
      BY <1>0, <2>1, <2>2 DEF DrainTypeOK
    <3>3. QED  BY <1>0, <2>1, <2>2, <3>1, <3>2, MemberMoves
  <2>4. DrainTypeOK'  BY <1>0, <2>1, <2>3 DEF DrainTypeOK
  <2>5. baseCtx => expired
    BY <1>0, <2>2 DEF ShutdownInv
  <2>6. CauseInv'
    BY <1>0, <1>1, <2>1, <2>5 DEF CauseInv, DrainTypeOK, OwnCutsBlameNobody
  <2>7. QED  BY <2>3, <2>4, <2>6
<1>5. CASE untrackSession(h)
  <2>1. /\ hpc[h] = "joining" /\ hpc' = [hpc EXCEPT ![h] = "leaving"] /\ sessions' = sessions \ {h}
        /\ failure' = [failure EXCEPT ![h] = NoFailure] /\ ending' = [ending EXCEPT ![h] = "none"]
        /\ UNCHANGED <<counted, released, terminal>>
    BY <1>5 DEF untrackSession, None
  <2>2. h \in counted  BY <1>0, <2>1 DEF MembersInv, Admitted, Tracked
  <2>3. MembersInv' /\ hpc' \in [Handlers -> {"idle", "rejected", "done"} \cup Admitted]
    <3>1. "leaving" \in Admitted /\ "leaving" \notin Tracked  BY DEF Admitted, Tracked
    <3>2. counted' = counted \cup {h} /\ ending'[h] = "none" /\ \A g \in Handlers \ {h} : ending'[g] = ending[g]
      BY <1>0, <2>1, <2>2 DEF DrainTypeOK
    <3>3. QED  BY <1>0, <2>1, <3>1, <3>2, MemberMoves
  <2>4. DrainTypeOK'  BY <1>0, <1>2, <2>1, <2>3 DEF DrainTypeOK
  <2>5. \A g \in Handlers : /\ ending'[g] \in {ending[g], "none"}
                            /\ failure'[g].by \in {failure[g].by, "none"}
                            /\ ending'[g] # "none" => failure'[g] = failure[g]
    BY <1>0, <1>2, <2>1 DEF DrainTypeOK
  <2>6. CauseInv'
    BY <1>0, <1>1, <2>1, <2>5 DEF CauseInv, OwnCutsBlameNobody, Peers
  <2>7. QED  BY <2>3, <2>4, <2>6
<1>6. QED  BY <1>3, <1>4, <1>5

(* The pumps and the close handshakes.                                     *)
LEMMA PumpKeeps ==
    ASSUME DrainInv, NEW h \in Handlers, NEW p \in Peers,
           PumpFails(h, p) \/ PumpJoins(h, p) \/ CloseReturns(h, p)
    PROVE  DrainTypeOK' /\ MembersInv' /\ CauseInv'
<1>0. DrainTypeOK /\ MembersInv /\ ShutdownInv /\ ResultInv /\ CauseInv  BY DEF DrainInv
<1>1. UNCHANGED <<hpc, counted, sessions, released, failure, ending, baseCtx, expired>>
  BY DEF PumpFails, PumpJoins, CloseReturns, InSession, serverVars, proxyVars
<1>2. \/ terminal' = terminal
      \/ hpc[h] = "session" /\ \E f \in Failures(h) : terminal' = [terminal EXCEPT ![h] = f]
  BY DEF PumpFails, PumpJoins, CloseReturns
<1>3. ASSUME hpc[h] = "session", NEW f \in Failures(h)
      PROVE  f \in Blamed /\ (f.by = "copilotd" => baseCtx)
  <2>1. h \notin released  BY <1>0, <1>3 DEF MembersInv
  <2>2. CutOff(h) => baseCtx  BY <1>0, <2>1 DEF ShutdownInv, CutOff
  <2>3. f.peer \in Peers /\ f \in [peer : Peers, by : {"peer", "copilotd"}]
    BY <1>3 DEF Failures
  <2>4. f.by = "copilotd" => CutOff(h)  BY <1>3 DEF Failures
  <2>5. QED  BY <2>2, <2>3, <2>4 DEF Blamed
<1>4. terminal' \in [Handlers -> Blamed] /\ \A g \in Handlers : terminal'[g].by = "copilotd" => baseCtx
  <2>1. CASE terminal' = terminal  BY <1>0, <2>1 DEF DrainTypeOK, CauseInv
  <2>2. ASSUME hpc[h] = "session", NEW f \in Failures(h), terminal' = [terminal EXCEPT ![h] = f]
        PROVE  terminal' \in [Handlers -> Blamed] /\ \A g \in Handlers : terminal'[g].by = "copilotd" => baseCtx
    BY <1>0, <1>3, <2>2 DEF DrainTypeOK, CauseInv
  <2>3. QED  BY <1>2, <2>1, <2>2
<1>5. DrainTypeOK' /\ MembersInv'  BY <1>0, <1>1, <1>4 DEF DrainTypeOK, MembersInv
<1>6. CauseInv'  BY <1>0, <1>1, <1>4 DEF CauseInv, OwnCutsBlameNobody
<1>7. QED  BY <1>5, <1>6

LEMMA SessionKeeps ==
    ASSUME DrainInv, NEW h \in Handlers, SessionStep(h)
    PROVE  DrainInv'
<1>1. DrainTypeOK' /\ MembersInv' /\ CauseInv'
  BY StagesKeep, EndingKeeps, PumpKeeps DEF SessionStep, HandlerStep
<1>2. ShutdownInv /\ counted \subseteq Handlers  BY DEF DrainInv, MembersInv
<1>3. ShutdownInv'
  <2>1. /\ UNCHANGED <<admissionClosed, drainCtx, baseCtx, forced, spc, expired, http, wsErr, outcome>>
        /\ counted' \subseteq counted \/ ~admissionClosed
    BY SessionEffects
  <2>2. spc \in {"joining", "returned"} => wsErr # "none" \/ counted' = {}
    BY <1>2, <2>1 DEF ShutdownInv
  <2>3. QED  BY <1>2, <2>1, <2>2 DEF ShutdownInv
<1>4. ResultInv'
  <2>1. UNCHANGED <<spc, expired, http, wsErr, outcome>>  BY SessionEffects
  <2>2. ResultInv  BY DEF DrainInv
  <2>3. QED  BY <2>1, <2>2 DEF ResultInv, ForcedIsTheDeadlines
<1>5. QED  BY <1>1, <1>3, <1>4 DEF DrainInv

LEMMA DrainStep == DrainInv /\ [Next]_vars => DrainInv'
<1> SUFFICES ASSUME DrainInv, [Next]_vars PROVE DrainInv'  OBVIOUS
<1>1. ASSUME NEW h \in Handlers, SessionStep(h) PROVE DrainInv'  BY <1>1, SessionKeeps
<1>2. CASE ShutdownStep  BY <1>2, ShutdownKeeps
<1>3. CASE UNCHANGED vars
  BY <1>3 DEF vars, proxyVars, sessionVars, serverVars, DrainInv, DrainTypeOK,
     MembersInv, ShutdownInv, ResultInv, ForcedIsTheDeadlines, CauseInv, OwnCutsBlameNobody
<1>4. QED  BY <1>1, <1>2, <1>3 DEF Next, SessionStep, ShutdownStep

(* A shutdown that is called clean leaves nobody behind and lets nobody in *)
(* after it, no session is aborted before the deadline, and a drain is     *)
(* called forced for the deadline and nothing else, however many upgrades  *)
(* race the cutoff.                                                        *)
THEOREM DrainsTellTheTruth == Spec => []DrainIsHonest
<1>1. DrainInv => DrainIsHonest
  <2> SUFFICES ASSUME DrainInv PROVE CleanMeansEmpty /\ AbortOnlyAtDeadline /\ ForcedIsTheDeadlines
    BY DEF DrainIsHonest
  <2>1. DrainTypeOK /\ MembersInv /\ ShutdownInv /\ ResultInv /\ CauseInv  BY DEF DrainInv
  <2>2. ASSUME outcome = "clean", NEW h \in Handlers PROVE Over(h) /\ h \notin sessions
    <3>1. h \notin counted  BY <2>1, <2>2 DEF ShutdownInv
    <3>2. hpc[h] \notin Admitted /\ hpc[h] \in {"idle", "rejected", "done"}
      BY <2>1, <3>1 DEF MembersInv, DrainTypeOK
    <3>3. QED  BY <2>1, <3>2 DEF MembersInv, Admitted, Over
  <2>3. AbortOnlyAtDeadline  BY <2>1 DEF CauseInv, AbortOnlyAtDeadline
  <2>4. ForcedIsTheDeadlines  BY <2>1 DEF ResultInv
  <2>5. QED  BY <2>2, <2>3, <2>4 DEF CleanMeansEmpty
<1>2. QED  BY <1>1, DrainInit, DrainStep, PTL DEF Spec

(* A failure that copilotd caused by cutting a session off is never put    *)
(* down to a peer: whatever it cuts, it has cut the base context first, and*)
(* a session that finds that context done is recorded as aborted.          *)
THEOREM CutsBlameNobody == Spec => []OwnCutsBlameNobody
<1>1. DrainInv => OwnCutsBlameNobody  BY DEF DrainInv, CauseInv
<1>2. QED  BY <1>1, DrainInit, DrainStep, PTL DEF Spec

-----------------------------------------------------------------------------
(***************************************************************************)
(* The item-id stabilizer, the one shim that lives as long as a session,   *)
(* for any events of any turns.                                            *)
(***************************************************************************)
(* What is pinned is what the client knows the turn's items by, and is of  *)
(* upstream's making.                                                      *)
PinInv ==
    /\ said \in [Indices -> Ids \cup {"nothing"}] /\ sent \in [Indices -> SUBSET Ids]
    /\ pinnedByOutputIndex = Stabilizer!Said
    /\ \A i \in Indices : pinnedByOutputIndex[i] \in Stabilizer!Sent[i] \cup {"nothing"}

StabilizerInv == PinInv /\ Stabilizer!GenuineIds

LEMMA StabilizerInit == Stabilizer!Init => StabilizerInv
  BY DEF Stabilizer!Init, StabilizerInv, PinInv, Stabilizer!GenuineIds, Stabilizer!NoIds, Stabilizer!Nothing,
         Stabilizer!Said, Stabilizer!Sent, Stabilizer!Opaque, Stabilizer!IdsAt

(* What the client gets names an item by its pinned id, or else by what    *)
(* upstream named it.                                                      *)
LEMMA RewriteNames ==
    ASSUME NEW e \in Stabilizer!Events, NEW i \in Indices
    PROVE  LET given == Stabilizer!rewrite(e) IN
             /\ given.certain = e.certain
             /\ Stabilizer!IdsAt(given, i) \subseteq Stabilizer!IdsAt(e, i) \cup {pinnedByOutputIndex[i]}
             /\ e.certain /\ pinnedByOutputIndex[i] # "nothing"
                    => Stabilizer!IdsAt(given, i) \subseteq {pinnedByOutputIndex[i]}
<1> USE DEF Stabilizer!rewrite, Stabilizer!IdsAt, Stabilizer!Stabilized, Stabilizer!Nothing
<1>1. CASE e \in Stabilizer!ItemEvents
  BY <1>1 DEF Stabilizer!ItemEvents, Stabilizer!rewritePerItem
<1>2. CASE e \in Stabilizer!Envelopes
  BY <1>2 DEF Stabilizer!Envelopes, Stabilizer!rewriteEnvelope
<1>3. CASE e \in Stabilizer!Opaque  BY <1>3 DEF Stabilizer!Opaque
<1>4. QED  BY <1>1, <1>2, <1>3 DEF Stabilizer!Events

LEMMA PinKeeps ==
    ASSUME PinInv, NEW e \in Stabilizer!Events, Stabilizer!Receive(e)
    PROVE  PinInv'
<1> USE DEF PinInv, Stabilizer!Nothing, Stabilizer!Surface
<1>1. /\ out' = Stabilizer!rewrite(e) /\ pinnedByOutputIndex' = Stabilizer!TurnReset(e)
      /\ sent' = [i \in Indices |-> Stabilizer!Sent[i] \cup Stabilizer!IdsAt(e, i)] /\ ended' = e.terminal
      /\ e.terminal \in BOOLEAN
  BY DEF Stabilizer!Receive, Stabilizer!Transform, Stabilizer!Events, Stabilizer!ItemEvents, Stabilizer!Envelopes,
         Stabilizer!Opaque
<1>2. Stabilizer!Said \in [Indices -> Ids \cup {"nothing"}] /\ Stabilizer!Sent \in [Indices -> SUBSET Ids]
  BY DEF Stabilizer!Said, Stabilizer!Sent, Stabilizer!NoIds
<1>3. \A i \in Indices : Stabilizer!IdsAt(e, i) \subseteq Ids
  BY DEF Stabilizer!IdsAt, Stabilizer!Events, Stabilizer!ItemEvents, Stabilizer!Envelopes, Stabilizer!Opaque
<1>4. sent' \in [Indices -> SUBSET Ids]  BY <1>1, <1>2, <1>3
<1>5. said' = Stabilizer!Pinned(e)
  <2>1. CASE e.certain /\ e.kind = "item" /\ Stabilizer!Said[e.index] = "nothing"
    <3>1. e \in Stabilizer!ItemEvents
      BY <2>1 DEF Stabilizer!Events, Stabilizer!ItemEvents, Stabilizer!Envelopes, Stabilizer!Opaque
    <3>2. Stabilizer!FirstSurface(out') = Stabilizer!FirstSurface(e)
      BY <1>1, <2>1, <3>1 DEF Stabilizer!rewrite, Stabilizer!rewritePerItem, Stabilizer!Stabilized,
         Stabilizer!FirstSurface, Stabilizer!ItemEvents
    <3>3. QED  BY <2>1, <3>2 DEF Stabilizer!Receive, Stabilizer!Pinned
  <2>2. CASE ~(e.certain /\ e.kind = "item" /\ Stabilizer!Said[e.index] = "nothing")
    BY <2>2 DEF Stabilizer!Receive, Stabilizer!Pinned
  <2>3. QED  BY <2>1, <2>2
<1>6. /\ Stabilizer!Pinned(e) \in [Indices -> Ids \cup {"nothing"}]
      /\ \A i \in Indices : Stabilizer!Pinned(e)[i] \in Stabilizer!Sent[i] \cup Stabilizer!IdsAt(e, i) \cup {"nothing"}
  <2>1. CASE e.certain /\ e.kind = "item" /\ pinnedByOutputIndex[e.index] = "nothing"
    <3>1. e \in Stabilizer!ItemEvents
      BY <2>1 DEF Stabilizer!Events, Stabilizer!ItemEvents, Stabilizer!Envelopes, Stabilizer!Opaque
    <3>2. /\ Stabilizer!FirstSurface(e) \in Ids \cup {"nothing"} /\ e.index \in Indices
          /\ Stabilizer!FirstSurface(e) \in Stabilizer!IdsAt(e, e.index) \cup {"nothing"}
      BY <3>1 DEF Stabilizer!FirstSurface, Stabilizer!IdsAt, Stabilizer!ItemEvents
    <3>3. Stabilizer!Pinned(e) = [pinnedByOutputIndex EXCEPT ![e.index] = Stabilizer!FirstSurface(e)]
      BY <2>1 DEF Stabilizer!Pinned
    <3>4. QED  BY <1>2, <3>2, <3>3
  <2>2. CASE ~(e.certain /\ e.kind = "item" /\ pinnedByOutputIndex[e.index] = "nothing")
    BY <1>2, <2>2 DEF Stabilizer!Pinned
  <2>3. QED  BY <2>1, <2>2
<1>7. said' \in [Indices -> Ids \cup {"nothing"}]  BY <1>5, <1>6
<1>8. pinnedByOutputIndex' = Stabilizer!Said'
  BY <1>1, <1>5 DEF Stabilizer!TurnReset, Stabilizer!Said
<1>9. \A i \in Indices : pinnedByOutputIndex'[i] \in Stabilizer!Sent'[i] \cup {"nothing"}
  <2>1. CASE e.terminal
    BY <1>1, <2>1 DEF Stabilizer!TurnReset, Stabilizer!NoIds
  <2>2. CASE ~e.terminal
    <3>1. Stabilizer!Sent' = sent' /\ pinnedByOutputIndex' = Stabilizer!Pinned(e)
      BY <1>1, <2>2 DEF Stabilizer!TurnReset, Stabilizer!Sent
    <3>2. QED  BY <1>1, <1>6, <3>1
  <2>3. QED  BY <2>1, <2>2
<1>10. QED  BY <1>4, <1>7, <1>8, <1>9

LEMMA StabilizerStep ==
    StabilizerInv /\ [Stabilizer!Next]_(Stabilizer!vars)
        => StabilizerInv' /\ [Stabilizer!Stays]_(Stabilizer!vars)
<1> SUFFICES ASSUME StabilizerInv, [Stabilizer!Next]_(Stabilizer!vars)
             PROVE  StabilizerInv' /\ [Stabilizer!Stays]_(Stabilizer!vars)
  OBVIOUS
<1>1. ASSUME NEW e \in Stabilizer!Events, Stabilizer!Receive(e)
      PROVE  StabilizerInv' /\ Stabilizer!Stays
  <2>1. PinInv'  BY <1>1, PinKeeps DEF StabilizerInv
  <2>2. /\ out' = Stabilizer!rewrite(e)
        /\ sent' = [i \in Indices |-> Stabilizer!Sent[i] \cup Stabilizer!IdsAt(e, i)]
    BY <1>1 DEF Stabilizer!Receive, Stabilizer!Transform
  <2>3. PinInv  BY DEF StabilizerInv
  <2>4. Stabilizer!GenuineIds'
    <3>1. \A i \in Indices : "nothing" \notin Stabilizer!IdsAt(out', i)  BY DEF Stabilizer!IdsAt, Stabilizer!Nothing
    <3>2. \A i \in Indices : Stabilizer!IdsAt(out', i) \subseteq sent'[i]
      BY <2>2, <2>3, <3>1, RewriteNames DEF PinInv
    <3>3. QED  BY <3>2 DEF Stabilizer!GenuineIds, Stabilizer!IdsAt
  <2>5. Stabilizer!Stays
    BY <2>2, <2>3, RewriteNames DEF PinInv, Stabilizer!Stays, Stabilizer!Nothing
  <2>6. QED  BY <2>1, <2>4, <2>5 DEF StabilizerInv
<1>2. CASE UNCHANGED Stabilizer!vars
  BY <1>2 DEF Stabilizer!vars, StabilizerInv, PinInv, Stabilizer!GenuineIds, Stabilizer!IdsAt, Stabilizer!Said,
     Stabilizer!Sent
<1>3. QED  BY <1>1, <1>2 DEF Stabilizer!Next

(* An item keeps the id the client knows it by, to the turn's last event,  *)
(* and every id is one that upstream gave the item in that turn; whatever  *)
(* events come, in any order, over any number of turns.                    *)
THEOREM IdsStayPinned == Stabilizer!Spec => IdsArePinned
<1>1. StabilizerInv => Stabilizer!GenuineIds  BY DEF StabilizerInv
<1>2. QED  BY <1>1, StabilizerInit, StabilizerStep, PTL DEF Stabilizer!Spec, IdsArePinned, Stabilizer!IdsArePinned, Stabilizer!StableIds

-----------------------------------------------------------------------------
(***************************************************************************)
(* The watchdogs of a transport's hooks (HookWatch), for any directions,   *)
(* any callbacks at once, any threshold and any number of invocations.     *)
(***************************************************************************)
Steps == {"none", "queued", "locking", "logging", "counting"}
Hooks == {"between", "running", "returned", "panicked", "owes returned", "owes panicked", "gone", "joined"}
Entries == [turn : Nat, state : {"in_flight", "returned", "panicked"}]

WatchdogTypeOK ==
    /\ hook \in [Directions -> Hooks] /\ turn \in [Directions -> 0 .. MaxInvocations]
    /\ active \in [Directions -> BOOLEAN] /\ crossed \in [Directions -> BOOLEAN]
    /\ elapsed \in [Directions -> Nat] /\ timer \in [Directions -> Nat]
    /\ callback \in [Directions -> [Callbacks -> [at : Steps, turn : Nat]]]
    /\ mu \in [Directions -> Callbacks \cup {Nobody}]
    /\ publishMu \in [Directions -> Callbacks \cup {Nobody, Hook}]
    /\ records \in [Directions -> Seq(Entries)]
    /\ overruns \in Nat /\ access \in Nat

(* Who holds the locks, and for what.  A callback publishes the invocation *)
(* that is still there, and finish waits for it.                           *)
Holders(d) ==
    /\ \A c \in Callbacks : callback[d][c].at = "locking" <=> mu[d] = c
    /\ \A c \in Callbacks : callback[d][c].at \in {"logging", "counting"} <=> publishMu[d] = c
    /\ \A c \in Callbacks : publishMu[d] = c =>
          callback[d][c].turn = turn[d] /\ crossed[d] /\ hook[d] \notin {"between", "joined"}
Places(d) ==
    /\ publishMu[d] = Hook => hook[d] \in {"owes returned", "owes panicked"}
    /\ mu[d] # Nobody => active[d] /\ ~crossed[d] /\ elapsed[d] >= Threshold
    /\ active[d] <=> hook[d] \in {"running", "returned", "panicked"}
    /\ hook[d] \in {"owes returned", "owes panicked"} => crossed[d]
    /\ hook[d] \notin {"between", "joined"} => turn[d] >= 1
    /\ crossed[d] /\ active[d] => elapsed[d] >= Threshold
Locks(d) == Holders(d) /\ Places(d)

(* What the log has of the invocation that is there now.                   *)
Logging(d) == \E c \in Callbacks : callback[d][c].at = "logging"
Logs(d) ==
    /\ \A i \in DOMAIN records[d] : records[d][i].turn \in 1 .. turn[d]
    /\ Reports(d, turn[d]) # {} => crossed[d] /\ ~Logging(d)
    /\ crossed[d] => Reports(d, turn[d]) # {} \/ Logging(d)
    /\ \A i \in Reports(d, turn[d]) : ~Crossed(d, i) => hook[d] \in {"between", "joined"}

(* CrossingThenEnding, of one invocation.                                  *)
InPairs(d, n) ==
    /\ \A i, j \in Reports(d, n) : i < j => Crossed(d, i) /\ ~Crossed(d, j)
    /\ \A j \in Reports(d, n) : ~Crossed(d, j) => \E i \in Reports(d, n) : i < j
    /\ \A i \in Reports(d, n) : Crossed(d, i) /\ Ended(d, n) => \E j \in Reports(d, n) : i < j

Watched(d) == Locks(d) /\ Logs(d) /\ \A n \in 1 .. MaxInvocations : InPairs(d, n)

(* The crossings whose callback has counted them: all of those in pairs.   *)
Counting(s) == \E c \in Callbacks : callback[s[1]][c].at = "counting" /\ callback[s[1]][c].turn = s[2]
Counted == {s \in Crossings : ~Counting(s)}

CountInv ==
    /\ access = Open => Cardinality(Counted) = overruns
    /\ access # Open => AccessCountsPairs /\ \A d \in Directions : hook[d] \in {"joined", "gone"}

WatchInv == WatchdogTypeOK /\ (\A d \in Directions : Watched(d)) /\ CountInv

LEMMA CallbacksAreNoOwners == \A c \in Callbacks : c # Nobody /\ c # Hook
  BY HookWatchAssumption DEF Nobody, Hook

LEMMA WatchStarts == WatchInit => WatchInv
<1> SUFFICES ASSUME WatchInit PROVE WatchInv  OBVIOUS
<1> USE DEF WatchInit
<1>1. /\ \A d \in Directions : records[d] = <<>> /\ DOMAIN records[d] = {}
      /\ \A d \in Directions, n \in Nat : Reports(d, n) = {}
  BY DEF Reports
<1>2. WatchdogTypeOK
  <2>1. Open \in Nat
    <3>1. Cardinality(Directions) \in Nat  BY HookWatchAssumption, FS_CardinalityType
    <3>2. QED  BY <3>1, HookWatchAssumption DEF Open
  <2>2. Off \in Nat /\ 0 \in 0 .. MaxInvocations  BY HookWatchAssumption DEF Off
  <2>3. <<>> \in Seq(Entries)  OBVIOUS
  <2>4. [at |-> "none", turn |-> 0] \in [at : Steps, turn : Nat] /\ "between" \in Hooks  BY DEF Steps, Hooks
  <2>5. QED  BY <2>1, <2>2, <2>3, <2>4 DEF WatchdogTypeOK
<1>3. ASSUME NEW d \in Directions PROVE Watched(d)
  <2>1. turn[d] = 0 /\ 0 \in Nat  OBVIOUS
  <2>2. Locks(d)  BY CallbacksAreNoOwners DEF Locks, Holders, Places, Nobody, Hook
  <2>3. Logs(d)  BY <1>1, <2>1 DEF Logs, Logging
  <2>4. \A n \in 1 .. MaxInvocations : InPairs(d, n)
    <3>1. \A n \in 1 .. MaxInvocations : Reports(d, n) = {}  BY <1>1
    <3>2. QED  BY <3>1 DEF InPairs
  <2>5. QED  BY <2>2, <2>3, <2>4 DEF Watched
<1>4. Counted = {}
  <2>1. \A s \in Directions \X (1 .. MaxInvocations) : s[1] \in Directions /\ s[2] \in Nat  OBVIOUS
  <2>2. QED  BY <1>1, <2>1 DEF Counted, Crossings
<1>5. CountInv  BY <1>4, FS_EmptySet DEF CountInv
<1>6. QED  BY <1>2, <1>3, <1>5 DEF WatchInv

-----------------------------------------------------------------------------
(* What the steps of another direction leave as it is.                     *)
Untouched(d) ==
    /\ hook'[d] = hook[d] /\ turn'[d] = turn[d] /\ active'[d] = active[d] /\ crossed'[d] = crossed[d]
    /\ elapsed'[d] = elapsed[d] /\ callback'[d] = callback[d] /\ mu'[d] = mu[d]
    /\ publishMu'[d] = publishMu[d] /\ records'[d] = records[d]

LEMMA UntouchedStays ==
    ASSUME NEW d \in Directions, Watched(d), Untouched(d) PROVE Watched(d)'
<1>1. Locks(d)'
  <2>1. Holders(d)'  BY DEF Watched, Untouched, Locks, Holders
  <2>2. Places(d)'  BY DEF Watched, Untouched, Locks, Places
  <2>3. QED  BY <2>1, <2>2 DEF Locks
<1>2. \A n : Reports(d, n)' = Reports(d, n)  BY DEF Untouched, Reports
<1>3. \A i : Crossed(d, i)' = Crossed(d, i)  BY DEF Untouched, Crossed
<1>4. Logs(d)'
  <2>1. turn'[d] = turn[d] /\ Reports(d, turn[d])' = Reports(d, turn[d]) /\ Logging(d)' = Logging(d)
    BY <1>2 DEF Untouched, Reports, Logging
  <2>2. QED  BY <1>3, <2>1 DEF Watched, Untouched, Logs
<1>5. \A n \in 1 .. MaxInvocations : InPairs(d, n)'
  BY <1>2, <1>3 DEF Watched, Untouched, InPairs, Ended
<1>6. QED  BY <1>1, <1>4, <1>5 DEF Watched

(* The steps of a direction that write no record.                          *)
WatcherStep(d) ==
    \/ Begin(d) \/ Finish(d) \/ LockEnding(d) \/ HookEnds(d) \/ Abandon(d) \/ Join(d)
    \/ \E c \in Callbacks : Fire(d, c) \/ Look(d, c) \/ Cross(d, c) \/ Increment(d, c)

(* One callback's step.                                                    *)
LEMMA CallbackMoves ==
    ASSUME WatchdogTypeOK, NEW d \in Directions, NEW c \in Callbacks,
           NEW from \in Steps, NEW to \in Steps, NEW n \in Nat, CallbackAt(d, c, from, to, n)
    PROVE  /\ callback' \in [Directions -> [Callbacks -> [at : Steps, turn : Nat]]]
           /\ callback[d][c].at = from /\ callback'[d][c] = [at |-> to, turn |-> n]
           /\ \A b \in Callbacks \ {c} : callback'[d][b] = callback[d][b]
           /\ \A e \in Directions \ {d} : callback'[e] = callback[e]
<1>1. callback[d] \in [Callbacks -> [at : Steps, turn : Nat]]  BY DEF WatchdogTypeOK
<1>2. callback' = [callback EXCEPT ![d][c] = [at |-> to, turn |-> n]] /\ callback[d][c].at = from  BY DEF CallbackAt
<1>3. [at |-> to, turn |-> n] \in [at : Steps, turn : Nat]  OBVIOUS
<1>4. callback'[d] = [callback[d] EXCEPT ![c] = [at |-> to, turn |-> n]]  BY <1>2 DEF WatchdogTypeOK
<1>5. \A e \in Directions \ {d} : callback'[e] = callback[e]  BY <1>2 DEF WatchdogTypeOK
<1>6. callback'[d] \in [Callbacks -> [at : Steps, turn : Nat]]  BY <1>1, <1>3, <1>4
<1>7. callback' = [callback EXCEPT ![d] = callback'[d]]  BY <1>2, <1>4 DEF WatchdogTypeOK
<1>8. QED  BY <1>1, <1>2, <1>4, <1>5, <1>6, <1>7 DEF WatchdogTypeOK

LEMMA WatcherTypes ==
    ASSUME WatchInv, NEW d \in Directions, WatcherStep(d) PROVE WatchdogTypeOK'
<1> USE DEF WatchInv, WatchdogTypeOK, watchdogVars, summaryVars, Set
<1>0. Off \in Nat /\ Threshold \in Nat  BY HookWatchAssumption DEF Off
<1>1. CASE Begin(d)
  <2>1. turn[d] + 1 \in 0 .. MaxInvocations  BY <1>1, HookWatchAssumption DEF Begin, Begins
  <2>2. QED  BY <1>0, <1>1, <2>1 DEF Begin, Begins, Hooks
<1>2. CASE Finish(d)  BY <1>0, <1>2 DEF Finish, Hooks
<1>3. CASE LockEnding(d)  BY <1>3 DEF LockEnding
<1>4. CASE HookEnds(d)  BY <1>4 DEF HookEnds, Hooks
<1>5. CASE Abandon(d)  BY <1>0, <1>5 DEF Abandon, Hooks
<1>6. CASE Join(d)  BY <1>6 DEF Join, Hooks
<1>7. ASSUME NEW c \in Callbacks, Fire(d, c) \/ Look(d, c) \/ Cross(d, c) \/ Increment(d, c)
      PROVE  WatchdogTypeOK'
  <2>1. /\ callback' \in [Directions -> [Callbacks -> [at : Steps, turn : Nat]]]
        /\ UNCHANGED <<hook, turn, active, elapsed, records, access>>
    <3>1. \E from, to \in Steps, n \in Nat : CallbackAt(d, c, from, to, n)
      BY <1>7 DEF Fire, Look, LooksAt, Cross, Increment, Steps
    <3>2. UNCHANGED <<hook, turn, active, elapsed, records, access>>
      BY <1>7 DEF Fire, Look, LooksAt, Cross, Increment
    <3>3. QED  BY <3>1, <3>2, CallbackMoves
  <2>2. CASE Fire(d, c)  BY <1>0, <2>1, <2>2 DEF Fire
  <2>3. CASE Look(d, c)  BY <2>1, <2>3 DEF Look, LooksAt
  <2>4. CASE Cross(d, c)  BY <2>1, <2>4 DEF Cross
  <2>5. CASE Increment(d, c)  BY <2>1, <2>5 DEF Increment
  <2>6. QED  BY <1>7, <2>2, <2>3, <2>4, <2>5
<1>8. QED  BY <1>1, <1>2, <1>3, <1>4, <1>5, <1>6, <1>7 DEF WatcherStep

(* Each leaves its direction's locks as they should be.                    *)
LEMMA WatcherLocks ==
    ASSUME WatchInv, NEW d \in Directions, WatcherStep(d) PROVE Locks(d)'
<1>0. WatchdogTypeOK /\ Locks(d)  BY DEF WatchInv, Watched
<1>a. Holders(d) /\ Places(d)  BY <1>0 DEF Locks
<1>1. CASE Begin(d)
  <2>1. /\ hook[d] = "between" /\ hook'[d] = "running" /\ turn'[d] = turn[d] + 1 /\ turn[d] \in Nat
        /\ active'[d] /\ ~crossed'[d] /\ mu[d] = Nobody /\ UNCHANGED <<callback, mu, publishMu>>
    BY <1>0, <1>1, HookWatchAssumption DEF Begin, Begins, WatchdogTypeOK, Set
  <2>2. \A c \in Callbacks : publishMu[d] # c  BY <1>a, <2>1 DEF Holders
  <2>3. Holders(d)'  BY <1>a, <2>1, <2>2 DEF Holders
  <2>4. Places(d)'  BY <1>a, <2>1 DEF Places
  <2>5. QED  BY <2>3, <2>4 DEF Locks
<1>2. CASE Finish(d)
  <2>1. /\ hook[d] \in {"returned", "panicked"} /\ ~active'[d] /\ mu[d] = Nobody
        /\ IF crossed[d] THEN hook'[d] \in {"owes returned", "owes panicked"} ELSE hook'[d] = "between"
        /\ UNCHANGED <<turn, crossed, callback, mu, publishMu>>
    BY <1>0, <1>2 DEF Finish, WatchdogTypeOK, Set
  <2>2. Holders(d)'  BY <1>a, <2>1 DEF Holders
  <2>3. Places(d)'  BY <1>a, <2>1 DEF Places
  <2>4. QED  BY <2>2, <2>3 DEF Locks
<1>3. CASE LockEnding(d)
  <2>1. /\ hook[d] \in {"owes returned", "owes panicked"} /\ publishMu[d] = Nobody /\ publishMu'[d] = Hook
        /\ UNCHANGED <<hook, turn, active, crossed, elapsed, callback, mu>>
    BY <1>0, <1>3 DEF LockEnding, WatchdogTypeOK, Set
  <2>2. \A c \in Callbacks : publishMu[d] # c /\ publishMu'[d] # c  BY <2>1, CallbacksAreNoOwners
  <2>3. Holders(d)'  BY <1>a, <2>1, <2>2 DEF Holders
  <2>4. Places(d)'  BY <1>a, <2>1 DEF Places
  <2>5. QED  BY <2>3, <2>4 DEF Locks
<1>4. CASE HookEnds(d)
  <2>1. /\ hook[d] = "running" /\ hook'[d] \in {"returned", "panicked"}
        /\ UNCHANGED <<turn, active, crossed, elapsed, callback, mu, publishMu>>
    BY <1>0, <1>4 DEF HookEnds, watchdogVars, WatchdogTypeOK, Set
  <2>2. Holders(d)'  BY <1>a, <2>1 DEF Holders
  <2>3. Places(d)'  BY <1>a, <2>1 DEF Places
  <2>4. QED  BY <2>2, <2>3 DEF Locks
<1>5. CASE Abandon(d)
  <2>1. /\ hook[d] = "running" /\ hook'[d] = "gone" /\ ~active'[d] /\ mu[d] = Nobody
        /\ UNCHANGED <<turn, crossed, callback, mu, publishMu>>
    BY <1>0, <1>5 DEF Abandon, WatchdogTypeOK, Set
  <2>2. Holders(d)'  BY <1>a, <2>1 DEF Holders
  <2>3. Places(d)'  BY <1>a, <2>1 DEF Places
  <2>4. QED  BY <2>2, <2>3 DEF Locks
<1>6. CASE Join(d)
  <2>1. /\ hook[d] = "between" /\ hook'[d] = "joined"
        /\ UNCHANGED <<turn, active, crossed, elapsed, callback, mu, publishMu>>
    BY <1>0, <1>6 DEF Join, watchdogVars, WatchdogTypeOK, Set
  <2>2. Holders(d)'  BY <1>a, <2>1 DEF Holders
  <2>3. Places(d)'  BY <1>a, <2>1 DEF Places
  <2>4. QED  BY <2>2, <2>3 DEF Locks
<1>7. ASSUME NEW c \in Callbacks, Fire(d, c) \/ Look(d, c) PROVE Locks(d)'
  <2>1. PICK from \in {"none", "queued"}, to \in {"none", "queued", "locking"} :
            /\ CallbackAt(d, c, from, to, 0)
            /\ to # "locking" => mu'[d] = mu[d]
            /\ to = "locking" => /\ mu[d] = Nobody /\ mu'[d] = c
                                 /\ active[d] /\ ~crossed[d] /\ elapsed[d] >= Threshold
    BY <1>0, <1>7 DEF Fire, Look, LooksAt, WatchdogTypeOK, Set
  <2>2. UNCHANGED <<hook, turn, active, crossed, elapsed, publishMu>>  BY <1>7 DEF Fire, Look, LooksAt
  <2>3. /\ callback[d][c].at = from /\ callback'[d][c] = [at |-> to, turn |-> 0]
        /\ \A b \in Callbacks \ {c} : callback'[d][b] = callback[d][b]
    <3>1. WatchdogTypeOK /\ from \in Steps /\ to \in Steps /\ 0 \in Nat /\ CallbackAt(d, c, from, to, 0)
      BY <1>0, <2>1 DEF Steps
    <3>2. QED  BY <3>1, CallbackMoves
  <2>4. ASSUME NEW b \in Callbacks PROVE callback'[d][b].at = "locking" <=> mu'[d] = b
    <3>1. callback[d][b].at = "locking" <=> mu[d] = b  BY <1>0 DEF Locks, Holders
    <3>2. CASE b = c  BY <2>1, <2>3, <3>1, <3>2
    <3>3. CASE b # c
      <4>1. callback'[d][b] = callback[d][b]  BY <2>3, <3>3
      <4>2. QED  BY <2>1, <3>1, <3>3, <4>1, CallbacksAreNoOwners
    <3>4. QED  BY <3>2, <3>3
  <2>5. publishMu[d] # c  BY <1>0, <2>1, <2>3 DEF Locks, Holders
  <2>6. ASSUME NEW b \in Callbacks PROVE callback'[d][b].at \in {"logging", "counting"} <=> publishMu[d] = b
    <3>1. callback[d][b].at \in {"logging", "counting"} <=> publishMu[d] = b  BY <1>0 DEF Locks, Holders
    <3>2. CASE b = c
      <4>1. callback'[d][b].at = to  BY <2>3, <3>2
      <4>2. QED  BY <2>5, <3>2, <4>1
    <3>3. CASE b # c
      <4>1. callback'[d][b] = callback[d][b]  BY <2>3, <3>3
      <4>2. QED  BY <3>1, <4>1
    <3>4. QED  BY <3>2, <3>3
  <2>7. \A b \in Callbacks : publishMu[d] = b =>
          callback'[d][b].turn = turn[d] /\ crossed[d] /\ hook[d] \notin {"between", "joined"}
    <3>1. SUFFICES ASSUME NEW b \in Callbacks, publishMu[d] = b
                   PROVE  callback'[d][b].turn = turn[d] /\ crossed[d] /\ hook[d] \notin {"between", "joined"}
      OBVIOUS
    <3>2. callback'[d][b] = callback[d][b]  BY <2>3, <2>5, <3>1
    <3>3. QED  BY <1>a, <3>1, <3>2 DEF Holders
  <2>8. mu'[d] # Nobody => active[d] /\ ~crossed[d] /\ elapsed[d] >= Threshold  BY <1>0, <2>1 DEF Locks, Places
  <2>9. QED  BY <1>0, <2>2, <2>4, <2>6, <2>7, <2>8 DEF Locks, Holders, Places
<1>8. ASSUME NEW c \in Callbacks, Cross(d, c) PROVE Locks(d)'
  <2>1. /\ callback[d][c].at = "locking" /\ callback'[d][c] = [at |-> "logging", turn |-> turn[d]]
        /\ \A b \in Callbacks \ {c} : callback'[d][b] = callback[d][b]
    <3>1. turn[d] \in Nat  BY <1>0, HookWatchAssumption DEF WatchdogTypeOK
    <3>2. WatchdogTypeOK /\ "locking" \in Steps /\ "logging" \in Steps /\ CallbackAt(d, c, "locking", "logging", turn[d])
      BY <1>0, <1>8 DEF Cross, Steps
    <3>3. QED  BY <3>1, <3>2, CallbackMoves
  <2>2. /\ UNCHANGED <<hook, turn, active, elapsed>> /\ crossed'[d] /\ mu'[d] = Nobody /\ publishMu'[d] = c
        /\ publishMu[d] = Nobody /\ mu[d] = c
    <3>1. mu[d] = c  BY <1>a, <2>1 DEF Holders
    <3>2. QED  BY <1>0, <1>8, <3>1 DEF Cross, WatchdogTypeOK, Set
  <2>3. ASSUME NEW b \in Callbacks
        PROVE  /\ callback'[d][b].at # "locking"
               /\ callback'[d][b].at \in {"logging", "counting"} <=> b = c
    <3>1. /\ callback[d][b].at = "locking" <=> mu[d] = b
          /\ callback[d][b].at \in {"logging", "counting"} <=> publishMu[d] = b
      BY <1>0 DEF Locks, Holders
    <3>2. CASE b = c
      <4>1. callback'[d][b].at = "logging"  BY <2>1, <3>2
      <4>2. QED  BY <3>2, <4>1
    <3>3. CASE b # c
      <4>1. callback'[d][b] = callback[d][b]  BY <2>1, <3>3
      <4>2. QED  BY <2>2, <3>1, <3>3, <4>1, CallbacksAreNoOwners
    <3>4. QED  BY <3>2, <3>3
  <2>4. active[d] /\ elapsed[d] >= Threshold  BY <1>0, <2>2, CallbacksAreNoOwners DEF Locks, Places
  <2>5. /\ callback'[d][c].turn = turn'[d] /\ publishMu'[d] # Hook
        /\ \A b \in Callbacks : mu'[d] # b /\ (publishMu'[d] = b <=> b = c)
    BY <2>1, <2>2, CallbacksAreNoOwners
  <2>6. hook'[d] \notin {"between", "joined"}  BY <1>0, <2>2, <2>4 DEF Locks, Places
  <2>7. QED  BY <1>0, <2>2, <2>3, <2>4, <2>5, <2>6 DEF Locks, Holders, Places
<1>9. ASSUME NEW c \in Callbacks, Increment(d, c) PROVE Locks(d)'
  <2>1. /\ callback[d][c].at = "counting" /\ callback'[d][c] = [at |-> "none", turn |-> 0]
        /\ \A b \in Callbacks \ {c} : callback'[d][b] = callback[d][b]
    <3>1. /\ WatchdogTypeOK /\ "counting" \in Steps /\ "none" \in Steps /\ 0 \in Nat
          /\ CallbackAt(d, c, "counting", "none", 0)
      BY <1>0, <1>9 DEF Increment, Steps
    <3>2. QED  BY <3>1, CallbackMoves
  <2>2. UNCHANGED <<hook, turn, active, crossed, elapsed, mu>> /\ publishMu[d] = c /\ publishMu'[d] = Nobody
    BY <1>0, <1>9, <2>1 DEF Increment, WatchdogTypeOK, Set, Locks, Holders
  <2>3. ASSUME NEW b \in Callbacks
        PROVE  /\ callback'[d][b].at = "locking" <=> mu[d] = b
               /\ callback'[d][b].at \notin {"logging", "counting"}
    <3>1. /\ callback[d][b].at = "locking" <=> mu[d] = b
          /\ callback[d][b].at \in {"logging", "counting"} <=> publishMu[d] = b
      BY <1>0 DEF Locks, Holders
    <3>2. CASE b = c
      <4>1. callback'[d][b].at = "none" /\ callback[d][b].at = "counting"  BY <2>1, <3>2
      <4>2. QED  BY <3>1, <4>1
    <3>3. CASE b # c
      <4>1. callback'[d][b] = callback[d][b]  BY <2>1, <3>3
      <4>2. QED  BY <2>2, <3>1, <3>3, <4>1
    <3>4. QED  BY <3>2, <3>3
  <2>4. \A b \in Callbacks : publishMu'[d] # b  BY <2>2, CallbacksAreNoOwners
  <2>5. publishMu'[d] # Hook  BY <2>2 DEF Nobody, Hook
  <2>6. QED  BY <1>0, <2>2, <2>3, <2>4, <2>5 DEF Locks, Holders, Places
<1>10. QED  BY <1>1, <1>2, <1>3, <1>4, <1>5, <1>6, <1>7, <1>8, <1>9 DEF WatcherStep

(* And what it says of the log.  Nothing but a crossing starts to log, and *)
(* an invocation ends with no more to say when it has left no crossing.    *)
LEMMA WatcherLogs ==
    ASSUME WatchInv, NEW d \in Directions, WatcherStep(d)
    PROVE  Logs(d)' /\ \A n \in 1 .. MaxInvocations : InPairs(d, n)'
<1>0. WatchdogTypeOK /\ Watched(d) /\ Locks(d) /\ Logs(d)  BY DEF WatchInv, Watched
<1>1. /\ records' = records /\ \A n : Reports(d, n)' = Reports(d, n)
      /\ \A i : Crossed(d, i)' = Crossed(d, i)
  BY DEF WatcherStep, Begin, Begins, Finish, LockEnding, HookEnds, Abandon, Join, Fire, Look, LooksAt, Cross,
         Increment, Reports, Crossed
<1>2. \A i \in DOMAIN records[d] : records[d][i].turn \in 1 .. turn[d]  BY <1>0 DEF Logs
<1>3. turn[d] \in Nat /\ MaxInvocations \in Nat  BY <1>0, HookWatchAssumption DEF WatchdogTypeOK
<1>4. CASE Begin(d)
  <2>1. /\ turn'[d] = turn[d] + 1 /\ hook[d] = "between" /\ hook'[d] = "running" /\ ~crossed'[d]
        /\ callback' = callback /\ publishMu[d] \notin Callbacks
    <3>1. hook[d] = "between"  BY <1>4 DEF Begin, Begins
    <3>2. QED  BY <1>0, <1>4, <3>1 DEF Begin, Begins, WatchdogTypeOK, Set, Locks, Holders, Places
  <2>2. Reports(d, turn[d] + 1) = {}  BY <1>2, <1>3 DEF Reports
  <2>3. ~Logging(d)'  BY <1>0, <2>1 DEF Locks, Holders, Logging
  <2>4. Logs(d)'
    <3>1. Reports(d, turn[d])' = {}  BY <1>1, <2>1, <2>2 DEF Reports
    <3>2. \A i \in DOMAIN records'[d] : records'[d][i].turn \in 1 .. turn'[d]  BY <1>1, <1>2, <1>3, <2>1
    <3>3. QED  BY <2>1, <3>1, <3>2 DEF Logs
  <2>5. \A n \in Nat : Ended(d, n)' => Ended(d, n)  BY <1>3, <2>1 DEF Ended
  <2>6. QED  BY <1>0, <1>1, <2>4, <2>5 DEF Watched, InPairs
<1>5. CASE Finish(d)
  <2>1. UNCHANGED <<turn, crossed, callback>> /\ (hook'[d] \in {"between", "joined"} => ~crossed[d])
        /\ hook[d] \in {"returned", "panicked"}
    BY <1>0, <1>5 DEF Finish, WatchdogTypeOK, Set
  <2>2. Logs(d)'
    <3>1. Reports(d, turn[d])' = Reports(d, turn[d]) /\ Logging(d)' = Logging(d)
      BY <1>1, <2>1 DEF Reports, Logging
    <3>2. \A i \in Reports(d, turn[d]) : Crossed(d, i)  BY <1>0, <2>1 DEF Logs
    <3>3. QED  BY <1>0, <1>1, <2>1, <3>1, <3>2 DEF Logs
  <2>3. \A n \in Nat : Ended(d, n)' => Ended(d, n) \/ Reports(d, n) = {}
    BY <1>0, <1>3, <2>1 DEF Ended, Logs
  <2>4. QED  BY <1>0, <1>1, <2>2, <2>3 DEF Watched, InPairs
<1>6. CASE LockEnding(d) \/ HookEnds(d) \/ Abandon(d) \/ Join(d)
  <2>1. /\ UNCHANGED <<turn, crossed, callback>>
        /\ hook'[d] \in {"between", "joined"} <=> hook[d] \in {"between", "joined"}
    BY <1>0, <1>6 DEF LockEnding, HookEnds, Abandon, Join, watchdogVars, WatchdogTypeOK, Set
  <2>2. Reports(d, turn[d])' = Reports(d, turn[d]) /\ Logging(d)' = Logging(d)
    BY <1>1, <2>1 DEF Reports, Logging
  <2>3. Logs(d)'  BY <1>0, <1>1, <2>1, <2>2 DEF Logs
  <2>4. QED  BY <1>0, <1>1, <2>1, <2>3 DEF Watched, InPairs, Ended
<1>7. ASSUME NEW c \in Callbacks, Fire(d, c) \/ Look(d, c) \/ Increment(d, c)
      PROVE  Logs(d)' /\ \A n \in 1 .. MaxInvocations : InPairs(d, n)'
  <2>1. /\ UNCHANGED <<turn, crossed, hook>>
        /\ callback[d][c].at \in {"none", "queued", "counting"}
        /\ \E e \in [at : {"none", "queued", "locking"}, turn : Nat] : callback' = [callback EXCEPT ![d][c] = e]
    BY <1>7 DEF Fire, Look, LooksAt, Increment, CallbackAt
  <2>2. Logging(d)' = Logging(d)  BY <1>0, <2>1 DEF Logging, WatchdogTypeOK
  <2>3. Reports(d, turn[d])' = Reports(d, turn[d])  BY <1>1, <2>1 DEF Reports
  <2>4. Logs(d)'  BY <1>0, <1>1, <2>1, <2>2, <2>3 DEF Logs
  <2>5. QED  BY <1>0, <1>1, <2>1, <2>4 DEF Watched, InPairs, Ended
<1>8. ASSUME NEW c \in Callbacks, Cross(d, c)
      PROVE  Logs(d)' /\ \A n \in 1 .. MaxInvocations : InPairs(d, n)'
  <2>1. UNCHANGED <<turn, hook>> /\ crossed'[d] /\ callback'[d][c].at = "logging" /\ ~crossed[d]
    <3>1. /\ UNCHANGED <<turn, hook>> /\ crossed'[d] /\ callback[d][c].at = "locking"
          /\ callback'[d][c].at = "logging"
      BY <1>0, <1>8 DEF Cross, CallbackAt, WatchdogTypeOK, Set
    <3>2. mu[d] = c  BY <1>0, <3>1 DEF Locks, Holders
    <3>3. ~crossed[d]  BY <1>0, <3>2, CallbacksAreNoOwners DEF Locks, Places
    <3>4. QED  BY <3>1, <3>3
  <2>2. Logging(d)'  BY <2>1 DEF Logging
  <2>3. Reports(d, turn[d])' = {}  BY <1>0, <1>1, <2>1 DEF Reports, Logs
  <2>4. Logs(d)'
    <3>1. \A i \in DOMAIN records'[d] : records'[d][i].turn \in 1 .. turn'[d]  BY <1>1, <1>2, <2>1
    <3>2. QED  BY <2>1, <2>2, <2>3, <3>1 DEF Logs
  <2>5. QED  BY <1>0, <1>1, <2>1, <2>4 DEF Watched, InPairs, Ended
<1>9. QED  BY <1>4, <1>5, <1>6, <1>7, <1>8 DEF WatcherStep
-----------------------------------------------------------------------------
(* What one more record does to a direction's log.                         *)
LEMMA RecordAppends ==
    ASSUME WatchdogTypeOK, NEW d \in Directions, NEW n \in Nat,
           NEW state \in {"in_flight", "returned", "panicked"}, Publish(d, n, state),
           NEW last, last = Len(records[d]) + 1
    PROVE  /\ records' \in [Directions -> Seq(Entries)]
           /\ \A e \in Directions \ {d} : records'[e] = records[e]
           /\ DOMAIN records[d] = 1 .. last - 1 /\ DOMAIN records'[d] = 1 .. last /\ last \in Nat
           /\ records'[d][last].turn = n
           /\ \A i \in 1 .. last - 1 : records'[d][i] = records[d][i] /\ Crossed(d, i)' = Crossed(d, i)
           /\ Crossed(d, last)' = (state = "in_flight")
           /\ \A m : Reports(d, m)' = Reports(d, m) \cup (IF m = n THEN {last} ELSE {})
<1> DEFINE entry == [turn |-> n, state |-> state]
<1>1. entry \in Entries  BY DEF Entries
<1>2. records[d] \in Seq(Entries)  BY DEF WatchdogTypeOK
<1>3. records' = [records EXCEPT ![d] = Append(records[d], entry)]  BY DEF Publish, Set
<1>4. entry.turn = n /\ entry.state = state  OBVIOUS
<1> HIDE DEF entry
<1>5. Append(records[d], entry) \in Seq(Entries)  BY <1>1, <1>2
<1>6. /\ records' \in [Directions -> Seq(Entries)] /\ records'[d] = Append(records[d], entry)
      /\ \A e \in Directions \ {d} : records'[e] = records[e]
  BY <1>3, <1>5 DEF WatchdogTypeOK
<1>7. last \in Nat /\ DOMAIN records[d] = 1 .. last - 1 /\ DOMAIN records'[d] = 1 .. last
  BY <1>1, <1>2, <1>6
<1>8. records'[d][last] = entry /\ \A i \in 1 .. last - 1 : records'[d][i] = records[d][i]
  BY <1>1, <1>2, <1>6, <1>7
<1>9. \A i \in 1 .. last - 1 : Crossed(d, i)' = Crossed(d, i)  BY <1>8 DEF Crossed
<1>10. Crossed(d, last)' = (state = "in_flight")  BY <1>4, <1>8 DEF Crossed
<1>11. ASSUME NEW m PROVE Reports(d, m)' = Reports(d, m) \cup (IF m = n THEN {last} ELSE {})
  <2>1. 1 .. last = (1 .. last - 1) \cup {last}  BY <1>7
  <2>2. Reports(d, m)' = {i \in 1 .. last : records'[d][i].turn = m}  BY <1>7 DEF Reports
  <2>3. Reports(d, m) = {i \in 1 .. last - 1 : records[d][i].turn = m}  BY <1>7 DEF Reports
  <2>4. QED  BY <1>4, <1>8, <2>1, <2>2, <2>3
<1>12. QED  BY <1>4, <1>6, <1>7, <1>8, <1>9, <1>10, <1>11

(* finish logs its ending after the crossing, which its callback has left: *)
(* it has let go of publishMu.                                             *)
LEMMA EndingLogs ==
    ASSUME WatchInv, NEW d \in Directions, LogEnding(d)
    PROVE  /\ WatchdogTypeOK' /\ Watched(d)'
           /\ Reports(d, turn[d]) # {} /\ \A n \in Nat : n # turn[d] => Reports(d, n)' = Reports(d, n)
           /\ \A n \in Nat : Reports(d, n)' = {} <=> Reports(d, n) = {}
<1>0. WatchdogTypeOK /\ Locks(d) /\ Logs(d) /\ \A n \in 1 .. MaxInvocations : InPairs(d, n)
  BY DEF WatchInv, Watched
<1>a. PICK last, n : last = Len(records[d]) + 1 /\ n = turn[d]  OBVIOUS
<1>1. /\ hook[d] \in {"owes returned", "owes panicked"} /\ crossed[d] /\ publishMu[d] = Hook /\ ~active[d]
      /\ hook' = [hook EXCEPT ![d] = "between"] /\ hook'[d] = "between"
      /\ publishMu' = [publishMu EXCEPT ![d] = Nobody] /\ publishMu'[d] = Nobody
      /\ UNCHANGED <<turn, active, crossed, elapsed, timer, callback, mu, overruns, access>>
  <2>1. /\ publishMu[d] = Hook
        /\ hook' = [hook EXCEPT ![d] = "between"] /\ publishMu' = [publishMu EXCEPT ![d] = Nobody]
        /\ UNCHANGED <<turn, active, crossed, elapsed, timer, callback, mu, overruns, access>>
    BY DEF LogEnding, Set, summaryVars
  <2>2. hook'[d] = "between" /\ publishMu'[d] = Nobody  BY <1>0, <2>1 DEF WatchdogTypeOK
  <2>3. hook[d] \in {"owes returned", "owes panicked"} /\ crossed[d] /\ ~active[d]
    BY <1>0, <2>1 DEF Locks, Places
  <2>4. QED  BY <2>1, <2>2, <2>3
<1>2. n \in 1 .. MaxInvocations /\ n \in Nat
  <2>1. turn[d] \in 0 .. MaxInvocations /\ MaxInvocations \in Nat  BY <1>0, HookWatchAssumption DEF WatchdogTypeOK
  <2>2. turn[d] >= 1  BY <1>0, <1>1 DEF Locks, Places
  <2>3. QED  BY <1>a, <2>1, <2>2
<1>3. \E state \in {"returned", "panicked"} : Publish(d, n, state)  BY <1>0, <1>a DEF LogEnding, Owed
<1>4. /\ records' \in [Directions -> Seq(Entries)]
      /\ DOMAIN records[d] = 1 .. last - 1 /\ DOMAIN records'[d] = 1 .. last /\ last \in Nat
      /\ records'[d][last].turn = n
      /\ \A i \in 1 .. last - 1 : records'[d][i] = records[d][i] /\ Crossed(d, i)' = Crossed(d, i)
      /\ ~Crossed(d, last)'
      /\ \A m : Reports(d, m)' = Reports(d, m) \cup (IF m = n THEN {last} ELSE {})
  <2>1. PICK state \in {"returned", "panicked"} : Publish(d, n, state)  BY <1>3
  <2>2. /\ WatchdogTypeOK /\ n \in Nat /\ state \in {"in_flight", "returned", "panicked"}
        /\ Publish(d, n, state) /\ last = Len(records[d]) + 1 /\ state # "in_flight"
    BY <1>0, <1>2, <1>a, <2>1
  <2>3. Crossed(d, last)' = (state = "in_flight")  BY <2>2, RecordAppends
  <2>4. ~Crossed(d, last)'  BY <2>2, <2>3
  <2>5. QED  BY <2>2, <2>4, RecordAppends
<1>5. WatchdogTypeOK'
  <2>1. hook' \in [Directions -> Hooks] /\ publishMu' \in [Directions -> Callbacks \cup {Nobody, Hook}]
    BY <1>0, <1>1 DEF WatchdogTypeOK, Hooks
  <2>2. QED  BY <1>0, <1>1, <1>4, <2>1 DEF WatchdogTypeOK
<1>6. \A c \in Callbacks : publishMu[d] # c /\ publishMu'[d] # c /\ publishMu'[d] # Hook
  BY <1>1, CallbacksAreNoOwners DEF Nobody, Hook
<1>7. Locks(d)'
  <2>1. ~active'[d] /\ mu'[d] = Nobody  BY <1>0, <1>1 DEF Locks, Places
  <2>2. publishMu'[d] # Hook  BY <1>1 DEF Nobody, Hook
  <2>3. QED  BY <1>0, <1>1, <1>6, <2>1, <2>2 DEF Locks, Holders, Places
<1>8. ~Logging(d) /\ ~Logging(d)'  BY <1>0, <1>1, <1>6 DEF Locks, Holders, Logging
<1>9. Reports(d, n) # {} /\ \A i \in Reports(d, n) : Crossed(d, i)
  BY <1>0, <1>1, <1>8, <1>a DEF Logs
<1>10. \A m : Reports(d, m) \subseteq 1 .. last - 1  BY <1>4 DEF Reports
<1>11. n = turn[d] /\ turn' = turn  BY <1>1, <1>a
<1>12. Logs(d)'
  <2>1. \A i \in 1 .. last : records'[d][i].turn \in 1 .. turn[d]
    <3>1. \A i \in 1 .. last - 1 : records[d][i].turn \in 1 .. turn[d]  BY <1>0, <1>4 DEF Logs
    <3>2. \A i \in 1 .. last : i \in 1 .. last - 1 \/ i = last  BY <1>4
    <3>3. n \in 1 .. turn[d]  BY <1>2, <1>11
    <3>4. QED  BY <1>4, <3>1, <3>2, <3>3
  <2>2. Reports(d, turn[d])' = Reports(d, n)'  BY <1>11 DEF Reports
  <2>3. \A i \in DOMAIN records'[d] : records'[d][i].turn \in 1 .. turn'[d]  BY <1>4, <1>11, <2>1
  <2>4. Reports(d, turn[d])' # {}  BY <1>4, <1>9, <2>2
  <2>5. QED  BY <1>1, <1>8, <2>3, <2>4 DEF Logs
<1>13. ASSUME NEW m \in 1 .. MaxInvocations PROVE InPairs(d, m)'
  <2>1. CASE m # n
    <3>1. Reports(d, m)' = Reports(d, m)  BY <1>4, <2>1
    <3>2. \A i \in Reports(d, m) : Crossed(d, i)' = Crossed(d, i)  BY <1>4, <1>10
    <3>3. Ended(d, m)' = Ended(d, m)  BY <1>1, <1>11, <2>1 DEF Ended
    <3>4. QED  BY <1>0, <3>1, <3>2, <3>3 DEF InPairs
  <2>2. CASE m = n
    <3>1. Reports(d, m)' = Reports(d, n) \cup {last}  BY <1>4, <2>2
    <3>2. \A i \in Reports(d, n) : Crossed(d, i)' /\ i < last /\ i \in Nat  BY <1>4, <1>9, <1>10
    <3>3. \A i, j \in Reports(d, n) : ~(i < j)  BY <1>0, <1>2, <1>9 DEF InPairs
    <3>4. \A i, j \in Reports(d, m)' : i < j => i \in Reports(d, n) /\ j = last  BY <1>4, <3>1, <3>2, <3>3
    <3>5. \A j \in Reports(d, m)' : ~Crossed(d, j)' => j = last  BY <3>1, <3>2
    <3>6. QED  BY <1>4, <1>9, <3>1, <3>2, <3>4, <3>5 DEF InPairs
  <2>3. QED  BY <2>1, <2>2
<1>14. /\ \A m : m # n => Reports(d, m)' = Reports(d, m)
       /\ \A m \in Nat : Reports(d, m)' = {} <=> Reports(d, m) = {}
  <2>1. ASSUME NEW m PROVE Reports(d, m)' = {} <=> Reports(d, m) = {}
    <3>1. CASE m = n  BY <1>4, <1>9, <3>1
    <3>2. CASE m # n  BY <1>4, <3>2
    <3>3. QED  BY <3>1, <3>2
  <2>2. QED  BY <1>4, <2>1
<1>15. QED  BY <1>5, <1>7, <1>9, <1>11, <1>12, <1>13, <1>14 DEF Watched

(* A callback logs the first record of the invocation that is still there. *)
LEMMA CrossingLogs ==
    ASSUME WatchInv, NEW d \in Directions, NEW c \in Callbacks, LogCrossing(d, c)
    PROVE  /\ WatchdogTypeOK' /\ Watched(d)'
           /\ callback[d][c].at = "logging" /\ callback[d][c].turn = turn[d]
           /\ turn[d] \in 1 .. MaxInvocations /\ Reports(d, turn[d]) = {}
           /\ \A n : IF n = turn[d] THEN \E i : Reports(d, n)' = {i} /\ Crossed(d, i)'
                     ELSE Reports(d, n)' = Reports(d, n)
           /\ \A n \in Nat : \A i \in Reports(d, n) : Crossed(d, i)' = Crossed(d, i)
<1>0. WatchdogTypeOK /\ Locks(d) /\ Logs(d) /\ \A n \in 1 .. MaxInvocations : InPairs(d, n)
  BY DEF WatchInv, Watched
<1>a. PICK last, n : last = Len(records[d]) + 1 /\ n = turn[d]  OBVIOUS
<1>1. /\ callback[d][c].at = "logging" /\ callback'[d][c] = [at |-> "counting", turn |-> callback[d][c].turn]
      /\ callback' \in [Directions -> [Callbacks -> [at : Steps, turn : Nat]]]
      /\ \A b \in Callbacks \ {c} : callback'[d][b] = callback[d][b]
  <2>1. callback[d][c].turn \in Nat  BY <1>0 DEF WatchdogTypeOK
  <2>2. /\ WatchdogTypeOK /\ "logging" \in Steps /\ "counting" \in Steps
        /\ CallbackAt(d, c, "logging", "counting", callback[d][c].turn)
    BY <1>0 DEF LogCrossing, LogsCrossing, Steps
  <2>3. QED  BY <2>1, <2>2, CallbackMoves
<1>2. /\ UNCHANGED <<hook, turn, active, crossed, elapsed, timer, mu, publishMu, overruns, access>>
      /\ Publish(d, callback[d][c].turn, "in_flight")
  BY DEF LogCrossing, LogsCrossing, summaryVars
<1>3. publishMu[d] = c /\ callback[d][c].turn = turn[d] /\ crossed[d] /\ hook[d] \notin {"between", "joined"}
  BY <1>0, <1>1 DEF Locks, Holders
<1>4. n \in 1 .. MaxInvocations /\ n \in Nat
  <2>1. turn[d] \in 0 .. MaxInvocations /\ MaxInvocations \in Nat  BY <1>0, HookWatchAssumption DEF WatchdogTypeOK
  <2>2. turn[d] >= 1  BY <1>0, <1>3 DEF Locks, Places
  <2>3. QED  BY <1>a, <2>1, <2>2
<1>5. Logging(d) /\ Reports(d, n) = {}  BY <1>0, <1>1, <1>a DEF Logging, Logs
<1>6. Publish(d, n, "in_flight") /\ n = turn[d]  BY <1>2, <1>3, <1>a
<1>7. /\ records' \in [Directions -> Seq(Entries)]
      /\ DOMAIN records[d] = 1 .. last - 1 /\ DOMAIN records'[d] = 1 .. last /\ last \in Nat
      /\ records'[d][last].turn = n
      /\ \A i \in 1 .. last - 1 : records'[d][i] = records[d][i] /\ Crossed(d, i)' = Crossed(d, i)
      /\ Crossed(d, last)'
      /\ \A m : Reports(d, m)' = Reports(d, m) \cup (IF m = n THEN {last} ELSE {})
  <2>1. PICK state \in {"in_flight", "returned", "panicked"} : state = "in_flight" /\ Publish(d, n, state)
    BY <1>6
  <2>2. /\ WatchdogTypeOK /\ n \in Nat /\ last = Len(records[d]) + 1
        /\ Publish(d, n, state) /\ state = "in_flight"
    BY <1>0, <1>4, <1>a, <2>1
  <2>3. Crossed(d, last)' = (state = "in_flight")  BY <2>2, RecordAppends
  <2>4. Crossed(d, last)'  BY <2>2, <2>3
  <2>5. QED  BY <2>2, <2>4, RecordAppends
<1>8. WatchdogTypeOK'  BY <1>0, <1>1, <1>2, <1>7 DEF WatchdogTypeOK
<1>9. ASSUME NEW b \in Callbacks
      PROVE  /\ callback'[d][b].at = "locking" <=> mu[d] = b
             /\ callback'[d][b].at \in {"logging", "counting"} <=> publishMu[d] = b
             /\ callback'[d][b].turn = callback[d][b].turn
             /\ callback'[d][b].at # "logging"
  <2>1. /\ callback[d][b].at = "locking" <=> mu[d] = b
        /\ callback[d][b].at \in {"logging", "counting"} <=> publishMu[d] = b
    BY <1>0 DEF Locks, Holders
  <2>2. CASE b = c
    <3>1. callback'[d][b].at = "counting" /\ callback'[d][b].turn = callback[d][b].turn  BY <1>1, <2>2
    <3>2. QED  BY <1>1, <1>3, <2>1, <2>2, <3>1
  <2>3. CASE b # c
    <3>1. callback'[d][b] = callback[d][b]  BY <1>1, <2>3
    <3>2. QED  BY <1>3, <2>1, <2>3, <3>1
  <2>4. QED  BY <2>2, <2>3
<1>10. Locks(d)'
  <2>1. \A b \in Callbacks : publishMu[d] = b =>
          callback'[d][b].turn = turn[d] /\ crossed[d] /\ hook[d] \notin {"between", "joined"}
    BY <1>3, <1>9
  <2>2. QED  BY <1>0, <1>2, <1>9, <2>1 DEF Locks, Holders, Places
<1>11. ~Logging(d)'  BY <1>9 DEF Logging
<1>12. \A m : Reports(d, m) \subseteq 1 .. last - 1  BY <1>7 DEF Reports
<1>13. Reports(d, n)' = {last}  BY <1>5, <1>7
<1>14. Logs(d)'
  <2>1. \A i \in 1 .. last : records'[d][i].turn \in 1 .. turn[d]
    <3>1. \A i \in 1 .. last - 1 : records[d][i].turn \in 1 .. turn[d]  BY <1>0, <1>7 DEF Logs
    <3>2. \A i \in 1 .. last : i \in 1 .. last - 1 \/ i = last  BY <1>7
    <3>3. n \in 1 .. turn[d]  BY <1>4, <1>6
    <3>4. QED  BY <1>7, <3>1, <3>2, <3>3
  <2>2. Reports(d, turn[d])' = {last}  BY <1>2, <1>6, <1>13 DEF Reports
  <2>3. \A i \in DOMAIN records'[d] : records'[d][i].turn \in 1 .. turn'[d]  BY <1>2, <1>7, <2>1
  <2>4. QED  BY <1>2, <1>3, <1>7, <1>11, <2>2, <2>3 DEF Logs
<1>15. ASSUME NEW m \in 1 .. MaxInvocations PROVE InPairs(d, m)'
  <2>1. CASE m # n
    <3>1. Reports(d, m)' = Reports(d, m)  BY <1>7, <2>1
    <3>2. \A i \in Reports(d, m) : Crossed(d, i)' = Crossed(d, i)  BY <1>7, <1>12
    <3>3. Ended(d, m)' = Ended(d, m)  BY <1>2 DEF Ended
    <3>4. QED  BY <1>0, <3>1, <3>2, <3>3 DEF InPairs
  <2>2. CASE m = n
    <3>1. ~Ended(d, m)'  BY <1>2, <1>3, <1>4, <1>6, <2>2 DEF Ended
    <3>2. QED  BY <1>7, <1>13, <2>2, <3>1 DEF InPairs
  <2>3. QED  BY <2>1, <2>2
<1>16. \A m \in Nat : \A i \in Reports(d, m) : Crossed(d, i)' = Crossed(d, i)
  BY <1>7, <1>12
<1>17. \A m : IF m = n THEN \E i : Reports(d, m)' = {i} /\ Crossed(d, i)' ELSE Reports(d, m)' = Reports(d, m)
  <2>1. ASSUME NEW m, m # n PROVE Reports(d, m)' = Reports(d, m)  BY <1>7, <2>1
  <2>2. Crossed(d, last)'  BY <1>7
  <2>3. QED  BY <1>13, <2>1, <2>2
<1>18. Watched(d)'  BY <1>10, <1>14, <1>15 DEF Watched
<1>19. QED  BY <1>1, <1>3, <1>4, <1>5, <1>6, <1>8, <1>16, <1>17, <1>18

-----------------------------------------------------------------------------
(* The count.                                                              *)
LEMMA CrossingsAreFinite ==
    IsFiniteSet(Crossings) /\ IsFiniteSet(Counted) /\ Counted \subseteq Crossings /\ Pairs \subseteq Crossings
<1>1. Crossings \subseteq Directions \X (1 .. MaxInvocations)  BY DEF Crossings
<1>2. IsFiniteSet(1 .. MaxInvocations)  BY HookWatchAssumption, FS_Interval
<1>3. IsFiniteSet(Directions \X (1 .. MaxInvocations))  BY <1>2, HookWatchAssumption, FS_Product
<1>4. Counted \subseteq Crossings /\ Pairs \subseteq Crossings  BY DEF Counted, Pairs
<1>5. QED  BY <1>1, <1>3, <1>4, FS_Subset

(* While the log keeps its crossings and its pairs, and nobody starts or   *)
(* ends a count, the counts stay as they are.                              *)
LEMMA CountsStay ==
    ASSUME CountInv, Crossings' = Crossings, Pairs' = Pairs, \A s \in Crossings : Counting(s)' = Counting(s),
           UNCHANGED <<overruns, access>>, access = Open \/ \A d \in Directions : hook'[d] \in {"joined", "gone"}
    PROVE  CountInv'
<1>1. Counted' = Counted  BY DEF Counted
<1>2. Open' = Open  BY DEF Open
<1>3. QED  BY <1>1, <1>2 DEF CountInv, AccessCountsPairs

(* A hook that has ended for good stays as it is.                          *)
LEMMA WatcherCounts ==
    ASSUME WatchInv, NEW d \in Directions,
           \/ Begin(d) \/ Finish(d) \/ LockEnding(d) \/ HookEnds(d) \/ Abandon(d) \/ Join(d)
           \/ \E c \in Callbacks : Fire(d, c) \/ Look(d, c) \/ Cross(d, c)
    PROVE  CountInv'
<1>0. WatchdogTypeOK /\ Locks(d) /\ CountInv  BY DEF WatchInv, Watched
<1> USE DEF watchdogVars, summaryVars, Set
<1>1. UNCHANGED <<records, overruns, access>>
  BY DEF Begin, Begins, Finish, LockEnding, HookEnds, Abandon, Join, Fire, Look, LooksAt, Cross
<1>2. Crossings' = Crossings /\ Pairs' = Pairs  BY <1>1 DEF Crossings, Pairs, Reports, Crossed
<1>3. access = Open \/ \A e \in Directions : hook'[e] \in {"joined", "gone"}
  <2>1. SUFFICES ASSUME access # Open PROVE \A e \in Directions : hook'[e] \in {"joined", "gone"}  OBVIOUS
  <2>2. hook[d] \in {"joined", "gone"} /\ \A e \in Directions : hook[e] \in {"joined", "gone"}
    BY <1>0, <2>1 DEF CountInv
  <2>3. hook' = hook
    BY <2>2 DEF Begin, Begins, Finish, LockEnding, HookEnds, Abandon, Join, Fire, Look, LooksAt, Cross
  <2>4. QED  BY <2>2, <2>3
<1>4. ASSUME NEW s \in Crossings PROVE Counting(s)' = Counting(s)
  <2>1. s[1] \in Directions  BY DEF Crossings
  <2>2. CASE callback' = callback  BY <2>2 DEF Counting
  <2>3. ASSUME NEW c \in Callbacks, Fire(d, c) \/ Look(d, c) \/ Cross(d, c) PROVE Counting(s)' = Counting(s)
    <3>1. PICK from \in {"none", "queued", "locking"}, to \in {"none", "queued", "locking", "logging"}, n \in Nat :
              CallbackAt(d, c, from, to, n)
      <4>1. turn[d] \in Nat  BY <1>0, HookWatchAssumption DEF WatchdogTypeOK
      <4>2. QED  BY <2>3, <4>1 DEF Fire, Look, LooksAt, Cross
    <3>2. WatchdogTypeOK /\ from \in Steps /\ to \in Steps /\ n \in Nat /\ CallbackAt(d, c, from, to, n)
      BY <1>0, <3>1 DEF Steps
    <3>3. /\ callback[d][c].at = from /\ callback'[d][c] = [at |-> to, turn |-> n]
          /\ \A b \in Callbacks \ {c} : callback'[d][b] = callback[d][b]
          /\ \A e \in Directions \ {d} : callback'[e] = callback[e]
      BY <3>2, CallbackMoves
    <3>4. callback'[d][c].at # "counting" /\ callback[d][c].at # "counting"  BY <3>1, <3>3
    <3>5. \A e \in Directions, b \in Callbacks : e # d \/ b # c => callback'[e][b] = callback[e][b]  BY <3>3
    <3>6. QED  BY <2>1, <3>4, <3>5 DEF Counting
  <2>4. QED
    BY <2>2, <2>3 DEF Begin, Begins, Finish, LockEnding, HookEnds, Abandon, Join
<1>5. QED  BY <1>0, <1>1, <1>2, <1>3, <1>4, CountsStay

LEMMA EndingCounts ==
    ASSUME WatchInv, NEW d \in Directions, LogEnding(d) PROVE CountInv'
<1>0. WatchdogTypeOK /\ Locks(d) /\ CountInv  BY DEF WatchInv, Watched
<1>1. /\ Reports(d, turn[d]) # {} /\ \A n \in Nat : Reports(d, n)' = {} <=> Reports(d, n) = {}
  BY EndingLogs
<1>2. /\ hook[d] \in {"owes returned", "owes panicked"} /\ UNCHANGED <<callback, overruns, access>>
      /\ \A e \in Directions \ {d} : records'[e] = records[e]
  <2>1. publishMu[d] = Hook /\ UNCHANGED <<callback, overruns, access>>  BY DEF LogEnding, summaryVars
  <2>2. hook[d] \in {"owes returned", "owes panicked"}  BY <1>0, <2>1 DEF Locks, Places
  <2>3. \A e \in Directions \ {d} : records'[e] = records[e]
    BY <1>0 DEF LogEnding, Set, Publish, WatchdogTypeOK
  <2>4. QED  BY <2>1, <2>2, <2>3
<1>3. access = Open  BY <1>0, <1>2 DEF CountInv
<1>4. Crossings' = Crossings
  <2>1. \A s \in Directions \X (1 .. MaxInvocations) : s[1] \in Directions /\ s[2] \in Nat
    BY HookWatchAssumption
  <2>2. \A e \in Directions, n \in Nat : Reports(e, n)' = {} <=> Reports(e, n) = {}
    <3>1. \A e \in Directions \ {d}, n \in Nat : Reports(e, n)' = Reports(e, n)  BY <1>2 DEF Reports
    <3>2. QED  BY <1>1, <3>1
  <2>3. QED  BY <2>1, <2>2 DEF Crossings
<1>5. Counted' = Counted  BY <1>2, <1>4 DEF Counted, Counting
<1>6. Open' = Open  BY DEF Open
<1>7. QED  BY <1>0, <1>2, <1>3, <1>5, <1>6 DEF CountInv

(* A crossing that is logged is not counted yet, and is in no pair.        *)
LEMMA CrossingCounts ==
    ASSUME WatchInv, NEW d \in Directions, NEW c \in Callbacks, LogCrossing(d, c) PROVE CountInv'
<1>0. WatchdogTypeOK /\ Locks(d) /\ CountInv  BY DEF WatchInv, Watched
<1>a. PICK n : n = turn[d]  OBVIOUS
<1>1. /\ callback[d][c].at = "logging" /\ callback[d][c].turn = n /\ n \in 1 .. MaxInvocations
      /\ Reports(d, n) = {} /\ \E i : Reports(d, n)' = {i} /\ Crossed(d, i)'
      /\ \A m : m # n => Reports(d, m)' = Reports(d, m)
      /\ \A m \in Nat : \A i \in Reports(d, m) : Crossed(d, i)' = Crossed(d, i)
  BY <1>a, CrossingLogs
<1>2. UNCHANGED <<hook, overruns, access>> /\ \A e \in Directions \ {d} : records'[e] = records[e]
  BY <1>0 DEF LogCrossing, LogsCrossing, Set, summaryVars, Publish, WatchdogTypeOK
<1>3. /\ callback'[d][c] = [at |-> "counting", turn |-> n]
      /\ \A b \in Callbacks \ {c} : callback'[d][b] = callback[d][b]
      /\ \A e \in Directions \ {d} : callback'[e] = callback[e]
  <2>1. /\ WatchdogTypeOK /\ "logging" \in Steps /\ "counting" \in Steps /\ n \in Nat
        /\ CallbackAt(d, c, "logging", "counting", n)
    BY <1>0, <1>1, HookWatchAssumption DEF LogCrossing, LogsCrossing, Steps
  <2>2. QED  BY <2>1, CallbackMoves
<1>4. \A e \in Directions \ {d} : \A m : Reports(e, m)' = Reports(e, m) /\ (\A i : Crossed(e, i)' = Crossed(e, i))
  BY <1>2 DEF Reports, Crossed
<1>5. \A s \in Directions \X (1 .. MaxInvocations) :
          s[1] \in Directions /\ s[2] \in Nat /\ s = <<s[1], s[2]>>
  BY HookWatchAssumption
<1>6. Crossings' = Crossings \cup {<<d, n>>} /\ <<d, n>> \notin Crossings
  <2>1. ASSUME NEW s \in Directions \X (1 .. MaxInvocations)
        PROVE  Reports(s[1], s[2])' # {} <=> Reports(s[1], s[2]) # {} \/ s = <<d, n>>
    <3>1. CASE s = <<d, n>>  BY <1>1, <3>1
    <3>2. CASE s # <<d, n>> /\ s[1] = d  BY <1>1, <1>5, <3>2
    <3>3. CASE s[1] # d  BY <1>4, <1>5, <3>3
    <3>4. QED  BY <3>1, <3>2, <3>3
  <2>2. <<d, n>> \in Directions \X (1 .. MaxInvocations)  BY <1>1
  <2>3. QED  BY <1>1, <2>1, <2>2 DEF Crossings
<1>7. ASSUME NEW s \in Directions \X (1 .. MaxInvocations)
      PROVE  Counting(s)' <=> Counting(s) \/ s = <<d, n>>
  <2>1. callback'[d][c].at = "counting" /\ callback'[d][c].turn = n  BY <1>3
  <2>2. \A e \in Directions, b \in Callbacks : e # d \/ b # c => callback'[e][b] = callback[e][b]  BY <1>3
  <2>3. CASE s = <<d, n>>  BY <2>1, <2>3 DEF Counting
  <2>4. CASE s # <<d, n>>
    <3>1. ASSUME NEW b \in Callbacks
          PROVE  callback'[s[1]][b].at = "counting" /\ callback'[s[1]][b].turn = s[2]
                     <=> callback[s[1]][b].at = "counting" /\ callback[s[1]][b].turn = s[2]
      <4>1. CASE s[1] = d /\ b = c  BY <1>1, <1>5, <2>1, <2>4, <4>1
      <4>2. CASE s[1] # d \/ b # c  BY <1>5, <2>2, <4>2
      <4>3. QED  BY <4>1, <4>2
    <3>2. QED  BY <2>4, <3>1 DEF Counting
  <2>5. QED  BY <2>3, <2>4
<1>8. Counted' = Counted  BY <1>6, <1>7 DEF Counted, Crossings
<1>9. Pairs' = Pairs
  <2>1. ASSUME NEW s \in Crossings
        PROVE  (\E i \in Reports(s[1], s[2]) : ~Crossed(s[1], i))'
                   <=> \E i \in Reports(s[1], s[2]) : ~Crossed(s[1], i)
    <3>1. s \in Directions \X (1 .. MaxInvocations) /\ s # <<d, n>>  BY <1>6 DEF Crossings
    <3>2. CASE s[1] = d
      <4>1. s[2] # n /\ s[2] \in Nat  BY <1>5, <3>1, <3>2
      <4>2. QED  BY <1>1, <3>2, <4>1
    <3>3. CASE s[1] # d  BY <1>4, <1>5, <3>1, <3>3
    <3>4. QED  BY <3>2, <3>3
  <2>2. ~(\E i \in Reports(d, n) : ~Crossed(d, i))'  BY <1>1
  <2>3. QED  BY <1>6, <2>1, <2>2 DEF Pairs
<1>10. Cardinality(Crossings) <= Cardinality(Crossings') /\ Cardinality(Crossings) \in Nat
       /\ Cardinality(Crossings') \in Nat /\ Cardinality(Pairs) \in Nat
  <2>1. IsFiniteSet(Crossings')
    BY <1>6, CrossingsAreFinite, FS_AddElement
  <2>2. QED  BY <1>6, <2>1, CrossingsAreFinite, FS_Subset, FS_CardinalityType
<1>11. Open' = Open  BY DEF Open
<1>12. CASE access = Open  BY <1>0, <1>2, <1>8, <1>11, <1>12 DEF CountInv
<1>13. CASE access # Open
  <2>1. AccessCountsPairs'
    BY <1>0, <1>2, <1>9, <1>10, <1>11, <1>13 DEF CountInv, AccessCountsPairs, WatchdogTypeOK
  <2>2. QED  BY <1>0, <1>2, <1>11, <1>13, <2>1 DEF CountInv
<1>14. QED  BY <1>12, <1>13

(* A callback counts the crossing it has logged, once.                     *)
LEMMA IncrementCounts ==
    ASSUME WatchInv, NEW d \in Directions, NEW c \in Callbacks, Increment(d, c) PROVE CountInv'
<1>0. WatchdogTypeOK /\ Locks(d) /\ Logs(d) /\ CountInv  BY DEF WatchInv, Watched
<1>a. PICK n : n = turn[d]  OBVIOUS
<1>1. /\ callback[d][c].at = "counting" /\ callback'[d][c] = [at |-> "none", turn |-> 0]
      /\ \A b \in Callbacks \ {c} : callback'[d][b] = callback[d][b]
      /\ \A e \in Directions \ {d} : callback'[e] = callback[e]
  <2>1. /\ WatchdogTypeOK /\ "counting" \in Steps /\ "none" \in Steps /\ 0 \in Nat
        /\ CallbackAt(d, c, "counting", "none", 0)
    BY <1>0 DEF Increment, Steps
  <2>2. QED  BY <2>1, CallbackMoves
<1>2. /\ UNCHANGED <<hook, records, access>>
      /\ overruns' = IF access = Open THEN overruns + 1 ELSE overruns
  BY DEF Increment
<1>3. /\ publishMu[d] = c /\ callback[d][c].turn = n /\ crossed[d] /\ hook[d] \notin {"between", "joined"}
      /\ \A b \in Callbacks \ {c} : callback[d][b].at \notin {"logging", "counting"}
  <2>1. /\ callback[d][c].at \in {"logging", "counting"} <=> publishMu[d] = c
        /\ publishMu[d] = c => callback[d][c].turn = turn[d] /\ crossed[d] /\ hook[d] \notin {"between", "joined"}
    BY <1>0 DEF Locks, Holders
  <2>2. \A b \in Callbacks : callback[d][b].at \in {"logging", "counting"} <=> publishMu[d] = b  BY <1>0 DEF Locks, Holders
  <2>3. publishMu[d] = c  BY <1>1, <2>1
  <2>4. QED  BY <1>a, <2>1, <2>2, <2>3
<1>4. n \in 1 .. MaxInvocations /\ Reports(d, n) # {}
  <2>1. turn[d] \in 0 .. MaxInvocations /\ MaxInvocations \in Nat  BY <1>0, HookWatchAssumption DEF WatchdogTypeOK
  <2>2. turn[d] >= 1  BY <1>0, <1>3 DEF Locks, Places
  <2>3. ~Logging(d)  BY <1>1, <1>3 DEF Logging
  <2>4. QED  BY <1>0, <1>3, <1>a, <2>1, <2>2, <2>3 DEF Logs
<1>5. <<d, n>> \in Crossings  BY <1>4 DEF Crossings
<1>6. Crossings' = Crossings /\ Pairs' = Pairs  BY <1>2 DEF Crossings, Pairs, Reports, Crossed
<1>7. ASSUME NEW s \in Crossings PROVE Counting(s) <=> Counting(s)' \/ s = <<d, n>>
  <2>0. s[1] \in Directions /\ s = <<s[1], s[2]>>  BY DEF Crossings
  <2>1. CASE s = <<d, n>>  BY <1>1, <1>3, <2>1 DEF Counting
  <2>2. CASE s # <<d, n>>
    <3>1. ASSUME NEW b \in Callbacks
          PROVE  callback'[s[1]][b].at = "counting" /\ callback'[s[1]][b].turn = s[2]
                     <=> callback[s[1]][b].at = "counting" /\ callback[s[1]][b].turn = s[2]
      <4>1. CASE s[1] = d /\ b = c
        <5>1. callback'[d][c].at = "none"  BY <1>1
        <5>2. s[2] # n  BY <2>0, <2>2, <4>1
        <5>3. QED  BY <1>3, <4>1, <5>1, <5>2
      <4>2. CASE s[1] # d \/ b # c
        <5>1. callback'[s[1]][b] = callback[s[1]][b]  BY <1>1, <2>0, <4>2
        <5>2. QED  BY <5>1
      <4>3. QED  BY <4>1, <4>2
    <3>2. QED  BY <2>2, <3>1 DEF Counting
  <2>3. QED  BY <2>1, <2>2
<1>8. ~Counting(<<d, n>>)'
  <2>1. ASSUME NEW b \in Callbacks PROVE callback'[d][b].at # "counting"
    <3>1. CASE b = c  BY <1>1, <3>1
    <3>2. CASE b # c  BY <1>1, <1>3, <3>2
    <3>3. QED  BY <3>1, <3>2
  <2>2. QED  BY <2>1 DEF Counting
<1>9. Counted' = Counted \cup {<<d, n>>} /\ <<d, n>> \notin Counted
  <2>1. Counted' = {s \in Crossings : ~Counting(s)'}  BY <1>6 DEF Counted
  <2>2. Counting(<<d, n>>)  BY <1>5, <1>7
  <2>3. QED  BY <1>5, <1>7, <1>8, <2>1, <2>2 DEF Counted
<1>10. Cardinality(Counted') = Cardinality(Counted) + 1
  BY <1>9, CrossingsAreFinite, FS_AddElement
<1>11. Open' = Open  BY DEF Open
<1>12. QED  BY <1>0, <1>2, <1>6, <1>10, <1>11 DEF CountInv, AccessCountsPairs

(* The access record is closed when no hook runs: each pair is counted by  *)
(* then, since its ending has waited for its crossing's callback.          *)
LEMMA FinishCounts ==
    ASSUME WatchInv, FinishSummary PROVE CountInv'
<1>0. WatchdogTypeOK /\ CountInv /\ \A d \in Directions : Locks(d) /\ Logs(d)  BY DEF WatchInv, Watched
<1>1. /\ access = Open /\ access' = overruns /\ UNCHANGED <<overruns, hook, turn, callback, records>>
      /\ \A d \in Directions : hook[d] \in {"joined", "gone"}
  BY DEF FinishSummary
<1>2. Crossings' = Crossings /\ Pairs' = Pairs /\ Counted' = Counted /\ Open' = Open
  BY <1>1 DEF Crossings, Pairs, Counted, Counting, Reports, Crossed, Open
<1>3. Pairs \subseteq Counted
  <2> SUFFICES ASSUME NEW s \in Pairs, Counting(s) PROVE FALSE  BY DEF Pairs, Counted
  <2>1. s[1] \in Directions /\ \E i \in Reports(s[1], s[2]) : ~Crossed(s[1], i)  BY DEF Pairs, Crossings
  <2>2. PICK c \in Callbacks : callback[s[1]][c].at = "counting" /\ callback[s[1]][c].turn = s[2]  BY DEF Counting
  <2>3. PICK d \in Directions : d = s[1]  BY <2>1
  <2>4. s[2] = turn[d] /\ hook[d] \notin {"between", "joined"}
    <3>1. callback[d][c].at = "counting" /\ callback[d][c].turn = s[2]  BY <2>2, <2>3
    <3>2. /\ callback[d][c].at \in {"logging", "counting"} <=> publishMu[d] = c
          /\ publishMu[d] = c => callback[d][c].turn = turn[d] /\ hook[d] \notin {"between", "joined"}
      <4>1. Locks(d)  BY <1>0
      <4>2. QED  BY <4>1 DEF Locks, Holders, Places
    <3>3. QED  BY <3>1, <3>2
  <2>5. hook[d] \in {"between", "joined"}
    <3>1. \E i \in Reports(d, turn[d]) : ~Crossed(d, i)  BY <2>1, <2>3, <2>4
    <3>2. QED  BY <1>0, <3>1 DEF Logs
  <2>6. QED  BY <2>4, <2>5
<1>4. /\ Cardinality(Pairs) <= Cardinality(Counted) /\ Cardinality(Counted) <= Cardinality(Crossings)
      /\ Cardinality(Counted) = overruns
  BY <1>0, <1>1, <1>3, CrossingsAreFinite, FS_Subset DEF CountInv
<1>5. QED  BY <1>1, <1>2, <1>4 DEF CountInv, AccessCountsPairs

LEMMA TickKeeps == WatchInv /\ Tick => WatchInv'
<1> SUFFICES ASSUME WatchInv, Tick PROVE WatchInv'  OBVIOUS
<1>0. WatchdogTypeOK /\ (\A d \in Directions : Watched(d)) /\ CountInv  BY DEF WatchInv
<1>1. UNCHANGED <<hook, turn, active, crossed, callback, mu, publishMu, records, overruns, access>>
  BY DEF Tick, summaryVars
<1>2. /\ elapsed' \in [Directions -> Nat] /\ timer' \in [Directions -> Nat]
      /\ \A d \in Directions : elapsed'[d] >= elapsed[d]
  BY <1>0, HookWatchAssumption DEF Tick, WatchdogTypeOK
<1>3. WatchdogTypeOK'  BY <1>0, <1>1, <1>2 DEF WatchdogTypeOK
<1>4. ASSUME NEW d \in Directions PROVE Watched(d)'
  <2>1. Threshold \in Nat /\ elapsed[d] \in Nat /\ elapsed'[d] \in Nat /\ elapsed'[d] >= elapsed[d]
    BY <1>0, <1>2, HookWatchAssumption DEF WatchdogTypeOK
  <2>2. elapsed[d] >= Threshold => elapsed'[d] >= Threshold  BY <2>1
  <2>a. Locks(d)  BY <1>0 DEF Watched
  <2>3. Locks(d)'
    <3>1. /\ mu'[d] # Nobody => active'[d] /\ ~crossed'[d] /\ elapsed'[d] >= Threshold
          /\ crossed'[d] /\ active'[d] => elapsed'[d] >= Threshold
      BY <1>1, <2>2, <2>a DEF Locks, Holders, Places
    <3>2. QED  BY <1>1, <2>a, <3>1 DEF Locks, Holders, Places
  <2>4. Logs(d)'  BY <1>0, <1>1 DEF Watched, Logs, Reports, Crossed, Logging
  <2>5. \A n \in 1 .. MaxInvocations : InPairs(d, n)'
    BY <1>0, <1>1 DEF Watched, InPairs, Reports, Crossed, Ended
  <2>6. QED  BY <2>3, <2>4, <2>5 DEF Watched
<1>5. CountInv'
  <2>1. Crossings' = Crossings /\ Pairs' = Pairs /\ Counted' = Counted /\ Open' = Open
    BY <1>1 DEF Crossings, Pairs, Counted, Counting, Reports, Crossed, Open
  <2>2. QED  BY <1>0, <1>1, <2>1 DEF CountInv, AccessCountsPairs
<1>6. QED  BY <1>3, <1>4, <1>5 DEF WatchInv

(* The steps of one direction, for all of them.                            *)
LEMMA DirectionKeeps ==
    ASSUME WatchInv, NEW d \in Directions,
           WatcherStep(d) \/ LogEnding(d) \/ \E c \in Callbacks : LogCrossing(d, c)
    PROVE  WatchInv'
<1>0. WatchdogTypeOK /\ \A e \in Directions : Watched(e)  BY DEF WatchInv
<1>1. WatchdogTypeOK' /\ Watched(d)'
  <2>1. CASE WatcherStep(d)  BY <2>1, WatcherTypes, WatcherLocks, WatcherLogs DEF Watched
  <2>2. CASE LogEnding(d)  BY <2>2, EndingLogs
  <2>3. ASSUME NEW c \in Callbacks, LogCrossing(d, c) PROVE WatchdogTypeOK' /\ Watched(d)'
    BY <2>3, CrossingLogs
  <2>4. QED  BY <2>1, <2>2, <2>3
<1>2. CountInv'
  <2>1. ASSUME NEW c \in Callbacks, Increment(d, c) PROVE CountInv'  BY <2>1, IncrementCounts
  <2>2. ASSUME NEW c \in Callbacks, LogCrossing(d, c) PROVE CountInv'  BY <2>2, CrossingCounts
  <2>3. CASE LogEnding(d)  BY <2>3, EndingCounts
  <2>4. CASE \/ Begin(d) \/ Finish(d) \/ LockEnding(d) \/ HookEnds(d) \/ Abandon(d) \/ Join(d)
             \/ \E c \in Callbacks : Fire(d, c) \/ Look(d, c) \/ Cross(d, c)
    BY <2>4, WatcherCounts
  <2>5. QED  BY <2>1, <2>2, <2>3, <2>4 DEF WatcherStep
<1>3. ASSUME NEW e \in Directions, e # d PROVE Watched(e)'
  <2>1. Untouched(e)
    <3> USE <1>0, <1>3 DEF WatchdogTypeOK, Untouched, Set, Publish, CallbackAt, watchdogVars
    <3>1. CASE Begin(d) \/ Finish(d) \/ LockEnding(d) \/ LogEnding(d)
      BY <3>1 DEF Begin, Begins, Finish, LockEnding, LogEnding
    <3>2. CASE HookEnds(d) \/ Abandon(d) \/ Join(d)  BY <3>2 DEF HookEnds, Abandon, Join
    <3>3. ASSUME NEW c \in Callbacks, Fire(d, c) \/ Look(d, c) \/ Cross(d, c) PROVE Untouched(e)
      BY <3>3 DEF Fire, Look, LooksAt, Cross
    <3>4. ASSUME NEW c \in Callbacks, LogCrossing(d, c) \/ Increment(d, c) PROVE Untouched(e)
      BY <3>4 DEF LogCrossing, LogsCrossing, Increment
    <3>5. QED  BY <3>1, <3>2, <3>3, <3>4 DEF WatcherStep
  <2>2. QED  BY <1>0, <2>1, UntouchedStays
<1>4. QED  BY <1>1, <1>2, <1>3 DEF WatchInv

LEMMA WatchStep == WatchInv /\ [WatchNext]_watchVars => WatchInv'
<1> SUFFICES ASSUME WatchInv, [WatchNext]_watchVars PROVE WatchInv'  OBVIOUS
<1>0. WatchdogTypeOK /\ (\A d \in Directions : Watched(d)) /\ CountInv  BY DEF WatchInv
<1>1. ASSUME NEW d \in Directions,
             WatcherStep(d) \/ LogEnding(d) \/ \E c \in Callbacks : LogCrossing(d, c)
      PROVE  WatchInv'
  BY <1>1, DirectionKeeps
<1>2. CASE FinishSummary
  <2>1. UNCHANGED <<hook, turn, active, crossed, elapsed, timer, callback, mu, publishMu, records, overruns>>
        /\ access' = overruns
    BY <1>2 DEF FinishSummary, watchdogVars
  <2>2. WatchdogTypeOK'  BY <1>0, <2>1 DEF WatchdogTypeOK
  <2>3. \A d \in Directions : Watched(d)'  BY <1>0, <2>1, UntouchedStays DEF Untouched
  <2>4. QED  BY <1>2, <2>2, <2>3, FinishCounts DEF WatchInv
<1>3. CASE UNCHANGED watchVars
  <2>1. UNCHANGED <<hook, turn, active, crossed, elapsed, timer, callback, mu, publishMu, records, overruns, access>>
    BY <1>3 DEF watchVars, watchdogVars, summaryVars
  <2>2. WatchdogTypeOK'  BY <1>0, <2>1 DEF WatchdogTypeOK
  <2>3. \A d \in Directions : Watched(d)'  BY <1>0, <2>1, UntouchedStays DEF Untouched
  <2>4. CountInv'
    <3>1. Crossings' = Crossings /\ Pairs' = Pairs /\ Counted' = Counted /\ Open' = Open
      BY <2>1 DEF Crossings, Pairs, Counted, Counting, Reports, Crossed, Open
    <3>2. QED  BY <1>0, <2>1, <3>1 DEF CountInv, AccessCountsPairs
  <2>5. QED  BY <2>2, <2>3, <2>4 DEF WatchInv
<1>4. QED  BY <1>1, <1>2, <1>3, TickKeeps DEF WatchNext, Invoke, publishCrossing, WatcherStep

(* The log and the access record are true of the hooks in all four respects*)
(* that HookWatch lists, whatever callbacks outlive their invocations.     *)
THEOREM OverrunRecordsAreTrue == WatchSpec => []RecordsAreTrue
<1>1. WatchInv => RecordsAreTrue
  <2> SUFFICES ASSUME WatchInv PROVE RecordsAreTrue  OBVIOUS
  <2>0. WatchdogTypeOK /\ CountInv /\ \A d \in Directions : Watched(d) /\ Locks(d)  BY DEF WatchInv, Watched
  <2>1. CrossingThenEnding  BY <2>0 DEF Watched, InPairs, CrossingThenEnding
  <2>2. OnlyOverdueCross  BY <2>0 DEF Locks, Places, OnlyOverdueCross
  <2>3. AccessCountsPairs  BY <2>0 DEF CountInv, AccessCountsPairs
  <2>4. StateLockIsPrompt
    <3> SUFFICES ASSUME NEW d \in Directions, mu[d] # Nobody PROVE publishMu[d] = Nobody  BY DEF StateLockIsPrompt
    <3>1. ~crossed[d] /\ active[d]  BY <2>0 DEF Locks, Places
    <3>2. publishMu[d] \notin Callbacks /\ publishMu[d] # Hook  BY <2>0, <3>1 DEF Locks, Holders, Places
    <3>3. QED  BY <2>0, <3>2 DEF WatchdogTypeOK
  <2>5. QED  BY <2>1, <2>2, <2>3, <2>4 DEF RecordsAreTrue
<1>2. QED  BY <1>1, WatchStarts, WatchStep, PTL DEF WatchSpec
=============================================================================
