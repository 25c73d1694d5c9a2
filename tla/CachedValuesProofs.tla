-------------------------- MODULE CachedValuesProofs ------------------------
(***************************************************************************)
(* Proofs about CachedValues, for any number of values and any releases    *)
(* and contents: what is served is a release as it was published, and a    *)
(* successful attempt leaves its value on a release that was current.  And *)
(* about Catalog, for any releases, documents, lists and settings: every   *)
(* document and every answer of a catalog stands by itself.                *)
(***************************************************************************)
EXTENDS CachedValues, Catalog, TLAPS

Holding == {"peek", "peeked", "tag", "read", "compare", "keep", "revert", "accept", "failed"}
Places  == Holding \cup {"ready", "absent", "attempt", "select", "ended", "gone"}

Contents == {Content[r] : r \in Releases}
Services == [source : {"fallback", "fetched"}, version : Releases, content : Contents]
Readings == [version : Releases \cup {None}, content : Contents \cup {None}]

UpstreamOK == latest \in [Values -> Releases] /\ during \in [Values -> SUBSET Releases]

ValuesOK ==
    /\ served \in [Values -> Services]
    /\ outcome \in [Values -> {None, "success", "failure"}]
    /\ fetched \in [Values -> BOOLEAN]
    /\ holder \in [Values -> Routines \cup {None}]

RoutinesOK ==
    /\ pc \in [Values -> [Routines -> Places]]
    /\ got \in [Values -> [Routines -> Readings]]
    /\ main \in {"prime", "start", "started"}
    /\ main # "started" => \A v \in Values : pc[v]["loop"] = "absent"

TypeOK == UpstreamOK /\ ValuesOK /\ RoutinesOK

(* attemptMu is held by the routine that is inside its attempt, and during *)
(* has what upstream named since.                                          *)
LockInv ==
    \A v \in Values :
        /\ \A r \in Routines : pc[v][r] \in Holding <=> holder[v] = r
        /\ holder[v] # None => latest[v] \in during[v]

(* What an attempt has read so far, at each place of it.                   *)
Read(v, r) ==
    /\ pc[v][r] \in {"peeked", "read", "compare", "keep", "revert", "accept"} =>
          got[v][r].version \in during[v]
    /\ pc[v][r] \in {"compare", "keep", "revert", "accept"} =>
          got[v][r].content = Content[got[v][r].version]
    /\ pc[v][r] = "keep"   => got[v][r].content = served[v].content
    /\ pc[v][r] = "revert" => got[v][r].content = Content[Floor]
    /\ pc[v][r] = "accept" => got[v][r].content \in Valid /\ got[v][r].content # Content[Floor]

ReadInv == \A v \in Values, r \in Routines : Read(v, r)

IInv == TypeOK /\ LockInv /\ ReadInv /\ ServedIsPublished

-----------------------------------------------------------------------------
(* What one value may be served as: ServedIsPublished, of one value.       *)
AsPublished(s) ==
    /\ s \in Services
    /\ s.content = Content[s.version]
    /\ s.content \in Valid \cup {Content[Floor]}
    /\ s.source = "fallback" <=> s.content = Content[Floor]

LEMMA RoutineNames == "prime" \in Routines /\ "loop" \in Routines /\ None \notin Routines
BY DEF Routines, None

LEMMA Typed ==
    ASSUME IInv, NEW v \in Values, NEW r \in Routines
    PROVE  /\ latest[v] \in Releases /\ during[v] \in SUBSET Releases
           /\ AsPublished(served[v])
           /\ pc[v][r] \in Places /\ got[v][r] \in Readings
           /\ got[v][r].version \in Releases => Content[got[v][r].version] \in Contents
BY DEF IInv, TypeOK, UpstreamOK, ValuesOK, RoutinesOK, ServedIsPublished, AsPublished, Contents

(* The routine inside its attempt is the only one: attemptMu.              *)
LEMMA AttemptIsAlone ==
    ASSUME IInv, NEW v \in Values, NEW r \in Routines, pc[v][r] \in Holding
    PROVE  /\ holder[v] = r /\ holder[v] # None
           /\ \A q \in Routines : q # r => pc[v][q] \notin Holding
BY RoutineNames DEF IInv, LockInv

LEMMA IInvInit == Init => IInv
<1> SUFFICES ASSUME Init PROVE IInv  OBVIOUS
<1>1. Content[Floor] \in Contents /\ Fallback(Floor) \in Services /\ Nothing \in Readings
  BY CachedValuesAssumption DEF Contents, Services, Readings, Fallback, Nothing
<1>2. UpstreamOK  BY CachedValuesAssumption DEF Init, UpstreamOK
<1>3. ValuesOK  BY <1>1 DEF Init, ValuesOK
<1>4. RoutinesOK  BY <1>1, RoutineNames DEF Init, RoutinesOK, Places
<1>5. LockInv  BY RoutineNames DEF Init, LockInv, Holding
<1>6. ReadInv  BY DEF Init, ReadInv, Read
<1>7. ServedIsPublished  BY DEF Init, ServedIsPublished, Fallback
<1>8. QED  BY <1>2, <1>3, <1>4, <1>5, <1>6, <1>7 DEF IInv, TypeOK

-----------------------------------------------------------------------------
(* Inside an attempt: a routine that goes from place to place and keeps    *)
(* what it reads.                                                          *)
LEMMA MovingKeeps ==
    ASSUME IInv, NEW v \in Values, NEW r \in Routines, NEW w \in Holding, NEW g \in Readings,
           pc[v][r] \in Holding, Goto(v, r, w), got' = [got EXCEPT ![v][r] = g],
           UNCHANGED <<upstreamVars, valueVars, main>>, Read(v, r)'
    PROVE  IInv'
<1>1. UNCHANGED <<latest, during, served, outcome, fetched, holder, main>>
  BY DEF upstreamVars, valueVars
<1>2. UpstreamOK' /\ ValuesOK' /\ ServedIsPublished'
  BY <1>1 DEF IInv, TypeOK, UpstreamOK, ValuesOK, ServedIsPublished
<1>3. w \in Places /\ w # "absent"  BY DEF Places, Holding
<1>4. main # "started" => r # "loop"
  BY DEF IInv, TypeOK, RoutinesOK, Holding
<1>5. RoutinesOK'
  BY <1>1, <1>3, <1>4, RoutineNames DEF IInv, TypeOK, RoutinesOK, Goto
<1>6. LockInv'
  BY <1>1, AttemptIsAlone DEF IInv, TypeOK, RoutinesOK, LockInv, Goto
<1>7. ASSUME NEW u \in Values, NEW q \in Routines PROVE Read(u, q)'
  <2>1. CASE u = v /\ q = r  BY <2>1
  <2>2. CASE u # v \/ q # r
    <3>1. pc'[u][q] = pc[u][q] /\ got'[u][q] = got[u][q]
      BY <2>2 DEF IInv, TypeOK, RoutinesOK, Goto
    <3>2. QED  BY <1>1, <1>7, <3>1 DEF IInv, ReadInv, Read
  <2>3. QED  BY <2>1, <2>2
<1>8. QED  BY <1>2, <1>5, <1>6, <1>7 DEF IInv, TypeOK, ReadInv

(* Its end, which leaves a value that was published.                       *)
LEMMA EndingKeeps ==
    ASSUME IInv, NEW v \in Values, NEW r \in Routines, NEW s, NEW result \in {"success", "failure"},
           pc[v][r] \in Holding, Records(v, r, result),
           served' = [served EXCEPT ![v] = s], AsPublished(s),
           fetched' \in [Values -> BOOLEAN]
    PROVE  IInv'
<1>1. /\ UNCHANGED <<latest, main>> /\ pc' = [pc EXCEPT ![v][r] = "ended"]
      /\ got' = [got EXCEPT ![v][r] = Nothing] /\ during' = [during EXCEPT ![v] = {}]
      /\ holder' = [holder EXCEPT ![v] = None] /\ outcome' = [outcome EXCEPT ![v] = result]
  BY DEF Records, Goto, mainVars
<1>2. UpstreamOK'  BY <1>1 DEF IInv, TypeOK, UpstreamOK
<1>3. ValuesOK'  BY <1>1 DEF IInv, TypeOK, ValuesOK, AsPublished
<1>4. main # "started" => r # "loop"
  BY DEF IInv, TypeOK, RoutinesOK, Holding
<1>5. Nothing \in Readings /\ "ended" \in Places  BY DEF Nothing, Readings, Places
<1>6. RoutinesOK'
  BY <1>1, <1>4, <1>5, RoutineNames DEF IInv, TypeOK, RoutinesOK
<1>7. LockInv'
  <2>1. "ended" \notin Holding  BY DEF Holding
  <2>2. QED
    BY <1>1, <2>1, AttemptIsAlone, RoutineNames
    DEF IInv, TypeOK, UpstreamOK, ValuesOK, RoutinesOK, LockInv
<1>8. ASSUME NEW u \in Values, NEW q \in Routines PROVE Read(u, q)'
  <2>1. CASE u = v
    <3>1. pc'[u][q] \notin Holding
      BY <1>1, <2>1, AttemptIsAlone DEF IInv, TypeOK, RoutinesOK, Holding
    <3>2. QED  BY <3>1 DEF Read, Holding
  <2>2. CASE u # v
    <3>1. /\ pc'[u][q] = pc[u][q] /\ got'[u][q] = got[u][q]
          /\ during'[u] = during[u] /\ served'[u] = served[u]
      BY <1>1, <2>2 DEF IInv, TypeOK, UpstreamOK, ValuesOK, RoutinesOK
    <3>2. QED  BY <1>8, <3>1 DEF IInv, ReadInv, Read
  <2>3. QED  BY <2>1, <2>2
<1>9. ServedIsPublished'
  BY DEF IInv, TypeOK, ValuesOK, ServedIsPublished, AsPublished
<1>10. QED  BY <1>2, <1>3, <1>6, <1>7, <1>8, <1>9 DEF IInv, TypeOK, ReadInv

(* What happens outside every attempt.                                     *)
LEMMA OutsideKeeps ==
    ASSUME IInv, UNCHANGED <<upstreamVars, valueVars, got>>, RoutinesOK',
           \A v \in Values, r \in Routines :
              pc[v][r] \in Holding \/ pc'[v][r] \in Holding => pc'[v][r] = pc[v][r]
    PROVE  IInv'
<1>1. UNCHANGED <<latest, during, served, outcome, fetched, holder, got>>
  BY DEF upstreamVars, valueVars
<1>2. UpstreamOK' /\ ValuesOK' /\ ServedIsPublished'
  BY <1>1 DEF IInv, TypeOK, UpstreamOK, ValuesOK, ServedIsPublished
<1>3. LockInv'  BY <1>1 DEF IInv, LockInv
<1>4. ReadInv'  BY <1>1 DEF IInv, ReadInv, Read, Holding
<1>5. QED  BY <1>2, <1>3, <1>4 DEF IInv, TypeOK

-----------------------------------------------------------------------------
(* The steps of an attempt.                                                *)

LEMMA AttemptKeeps ==
    ASSUME IInv, NEW v \in Values, NEW r \in Routines, Attempt(v, r)
    PROVE  IInv'
<1>1. /\ pc[v][r] = "attempt" /\ holder[v] = None
      /\ holder' = [holder EXCEPT ![v] = r] /\ during' = [during EXCEPT ![v] = {latest[v]}]
      /\ UNCHANGED <<latest, served, outcome, fetched, got, main>>
  BY DEF Attempt, mainVars
<1>2. PICK w \in {"peek", "tag"} : pc' = [pc EXCEPT ![v][r] = w]  BY DEF Attempt, Goto
<1>3. w \in Holding /\ w \in Places /\ w # "absent"  BY DEF Holding, Places
<1>4. UpstreamOK'  BY <1>1 DEF IInv, TypeOK, UpstreamOK
<1>5. ValuesOK'  BY <1>1 DEF IInv, TypeOK, ValuesOK
<1>6. RoutinesOK'
  BY <1>1, <1>2, <1>3, RoutineNames DEF IInv, TypeOK, RoutinesOK
<1>7. \A q \in Routines : pc[v][q] \notin Holding  BY <1>1, RoutineNames DEF IInv, LockInv
<1>8. LockInv'
  BY <1>1, <1>2, <1>3, <1>7 DEF IInv, TypeOK, UpstreamOK, ValuesOK, RoutinesOK, LockInv
<1>9. ASSUME NEW u \in Values, NEW q \in Routines PROVE Read(u, q)'
  <2>1. CASE u = v
    <3>1. pc'[u][q] = pc[u][q] \/ pc'[u][q] = w
      BY <1>2, <2>1 DEF IInv, TypeOK, RoutinesOK
    <3>2. pc'[u][q] \notin Holding \ {"peek", "tag"}
      BY <1>2, <1>7, <2>1, <3>1
    <3>3. QED  BY <3>2 DEF Read, Holding
  <2>2. CASE u # v
    <3>1. /\ pc'[u][q] = pc[u][q] /\ got'[u][q] = got[u][q]
          /\ during'[u] = during[u] /\ served'[u] = served[u]
      BY <1>1, <1>2, <2>2 DEF IInv, TypeOK, UpstreamOK, RoutinesOK
    <3>2. QED  BY <1>9, <3>1 DEF IInv, ReadInv, Read
  <2>3. QED  BY <2>1, <2>2
<1>10. ServedIsPublished'  BY <1>1 DEF IInv, ServedIsPublished
<1>11. QED  BY <1>4, <1>5, <1>6, <1>8, <1>9, <1>10 DEF IInv, TypeOK, ReadInv

LEMMA EdgeKeeps ==
    ASSUME IInv, NEW v \in Values, NEW r \in Routines,
           EdgeFails(v, r) \/ EdgeAnswers(v, r)
    PROVE  IInv'
<1> DEFINE g == got[v][r]
<1>1. /\ UNCHANGED <<upstreamVars, valueVars, main>> /\ pc[v][r] \in Holding
      /\ UNCHANGED <<latest, during, served>>
  BY DEF EdgeFails, EdgeAnswers, PeekAnswers, TagAnswers, ReadAnswers, upstreamVars, valueVars,
         mainVars, Holding
<1>2. latest[v] \in during[v] /\ latest[v] \in Releases
  BY <1>1, AttemptIsAlone, Typed DEF IInv, LockInv
<1>3. g \in Readings /\ got \in [Values -> [Routines -> Readings]]
      /\ pc \in [Values -> [Routines -> Places]]
  BY Typed DEF IInv, TypeOK, RoutinesOK
<1>4. CASE EdgeFails(v, r)
  <2>1. got' = [got EXCEPT ![v][r] = g] /\ Goto(v, r, "failed")  BY <1>3, <1>4 DEF EdgeFails
  <2>2. Read(v, r)'  BY <1>3, <2>1 DEF Read, Goto
  <2>3. "failed" \in Holding  BY DEF Holding
  <2>4. QED  BY <1>1, <1>3, <2>1, <2>2, <2>3, MovingKeeps
<1>5. CASE PeekAnswers(v, r) \/ TagAnswers(v, r)
  <2> DEFINE h == [g EXCEPT !.version = latest[v]]
  <2>1. PICK w \in {"peeked", "read"} : Goto(v, r, w)
    BY <1>5 DEF PeekAnswers, TagAnswers
  <2>2. got' = [got EXCEPT ![v][r] = h]  BY <1>5 DEF PeekAnswers, TagAnswers
  <2>3. h \in Readings /\ h.version = latest[v]  BY <1>2, <1>3 DEF Readings
  <2> HIDE DEF h
  <2>4. Read(v, r)'  BY <1>1, <1>2, <1>3, <2>1, <2>2, <2>3 DEF Read, Goto
  <2>5. w \in Holding  BY DEF Holding
  <2>6. QED  BY <1>1, <2>1, <2>2, <2>3, <2>4, <2>5, MovingKeeps
<1>6. CASE ReadAnswers(v, r)
  <2> DEFINE h == [g EXCEPT !.content = Content[g.version]]
  <2>1. Goto(v, r, "compare") /\ pc[v][r] = "read" /\ got' = [got EXCEPT ![v][r] = h]
    BY <1>6 DEF ReadAnswers
  <2>2. g.version \in during[v] /\ g.version \in Releases
    BY <2>1, Typed DEF IInv, ReadInv, Read
  <2>3. Content[g.version] \in Contents  BY <2>2 DEF Contents
  <2>4. h \in Readings /\ h.version = g.version /\ h.content = Content[g.version]
    BY <1>3, <2>3 DEF Readings
  <2> HIDE DEF h
  <2>5. Read(v, r)'  BY <1>1, <1>3, <2>1, <2>2, <2>4 DEF Read, Goto
  <2>6. "compare" \in Holding  BY DEF Holding
  <2>7. QED  BY <1>1, <2>1, <2>4, <2>5, <2>6, MovingKeeps
<1>7. QED  BY <1>4, <1>5, <1>6 DEF EdgeAnswers

LEMMA ComparingKeeps ==
    ASSUME IInv, NEW v \in Values, NEW r \in Routines,
           PeekCompares(v, r) \/ Compares(v, r) \/ failed(v, r)
    PROVE  IInv'
<1> DEFINE g == got[v][r]
<1>1. g \in Readings /\ got \in [Values -> [Routines -> Readings]]
      /\ pc \in [Values -> [Routines -> Places]]
  BY Typed DEF IInv, TypeOK, RoutinesOK
<1>2. got = [got EXCEPT ![v][r] = g]  BY <1>1
<1>3. pc[v][r] \in Holding /\ AsPublished(served[v])
  BY Typed DEF PeekCompares, Compares, failed, Holding
<1>4. ASSUME NEW result \in {"success", "failure"}, Records(v, r, result), UNCHANGED <<served, fetched>>
      PROVE  IInv'
  <2>1. served' = [served EXCEPT ![v] = served[v]] /\ fetched' \in [Values -> BOOLEAN]
    BY <1>4 DEF IInv, TypeOK, ValuesOK
  <2>2. QED  BY <1>3, <1>4, <2>1, EndingKeeps
<1>5. CASE PeekCompares(v, r)
  <2>1. CASE Records(v, r, "success") /\ UNCHANGED <<served, fetched>>  BY <1>4, <2>1
  <2>2. CASE Goto(v, r, "tag") /\ UNCHANGED <<upstreamVars, valueVars, got, main>>
    <3>1. Read(v, r)' /\ "tag" \in Holding  BY <1>1, <2>2 DEF Read, Goto, Holding
    <3>2. got' = [got EXCEPT ![v][r] = g]  BY <1>2, <2>2
    <3>3. QED  BY <1>1, <1>3, <2>2, <3>1, <3>2, MovingKeeps
  <2>3. QED  BY <1>5, <2>1, <2>2 DEF PeekCompares, mainVars
<1>6. CASE Compares(v, r)
  <2>1. UNCHANGED <<upstreamVars, valueVars, got, main>> /\ pc[v][r] = "compare"
    BY <1>6 DEF Compares, mainVars
  <2>2. PICK w : /\ Goto(v, r, w)
                 /\ w \in {"keep", "revert", "accept", "failed"}
                 /\ w = "keep" => g.content = served[v].content
                 /\ w = "revert" => g.content = Content[Floor]
                 /\ w = "accept" => g.content \in Valid /\ g.content # Content[Floor]
    <3>1. \/ g.content = served[v].content /\ Goto(v, r, "keep")
          \/ g.content = Content[Floor] /\ Goto(v, r, "revert")
          \/ g.content # Content[Floor] /\ g.content \in Valid /\ Goto(v, r, "accept")
          \/ Goto(v, r, "failed")
      BY <1>6 DEF Compares
    <3>2. QED  BY <3>1
  <2>3. g.version \in during[v] /\ g.content = Content[g.version]
    BY <2>1 DEF IInv, ReadInv, Read
  <2>4. Read(v, r)' /\ w \in Holding
    <3>1. pc'[v][r] = w /\ got'[v][r] = g /\ UNCHANGED <<during, served>>
      BY <1>1, <2>1, <2>2 DEF Goto, upstreamVars, valueVars
    <3>2. QED  BY <2>2, <2>3, <3>1 DEF Read, Holding
  <2>5. got' = [got EXCEPT ![v][r] = g]  BY <1>2, <2>1
  <2>6. QED  BY <1>1, <1>3, <2>1, <2>2, <2>4, <2>5, MovingKeeps
<1>7. CASE failed(v, r)  BY <1>4, <1>7 DEF failed
<1>8. QED  BY <1>5, <1>6, <1>7

(* A commit leaves the release it has read, as published.                  *)
LEMMA CommitEffect ==
    ASSUME IInv, NEW v \in Values, NEW r \in Routines, Commits(v, r)
    PROVE  \E s : /\ served' = [served EXCEPT ![v] = s] /\ AsPublished(s)
                  /\ s.version = got[v][r].version /\ s.version \in during[v]
                  /\ s.content = got[v][r].content
<1> DEFINE g == got[v][r]
<1>1. pc[v][r] \in {"keep", "revert", "accept"}  BY DEF Commits
<1>2. g.version \in during[v] /\ g.content = Content[g.version] /\ g.version \in Releases
  BY <1>1, Typed DEF IInv, ReadInv, Read
<1>3. g.content \in Contents  BY <1>2 DEF Contents
<1>4. AsPublished(served[v])  BY Typed
<1>5. CASE pc[v][r] = "keep"
  <2> DEFINE s == [served[v] EXCEPT !.version = g.version]
  <2>1. served' = [served EXCEPT ![v] = s]  BY <1>5 DEF Commits
  <2>2. g.content = served[v].content  BY <1>5 DEF IInv, ReadInv, Read
  <2>3. s \in Services /\ s.version = g.version /\ s.content = served[v].content
        /\ s.source = served[v].source
    BY <1>2, <1>4 DEF AsPublished, Services
  <2> HIDE DEF s
  <2>4. AsPublished(s)  BY <1>2, <1>4, <2>2, <2>3 DEF AsPublished
  <2>5. QED  BY <1>2, <2>1, <2>2, <2>3, <2>4
<1>6. CASE pc[v][r] = "revert"
  <2>1. served' = [served EXCEPT ![v] = Fallback(g.version)]  BY <1>6 DEF Commits
  <2>2. g.content = Content[Floor]  BY <1>6 DEF IInv, ReadInv, Read
  <2>3. AsPublished(Fallback(g.version))  BY <1>2, <1>3, <2>2 DEF AsPublished, Fallback, Services
  <2>4. Fallback(g.version).version = g.version /\ Fallback(g.version).content = Content[Floor]
    BY DEF Fallback
  <2>5. QED  BY <1>2, <2>1, <2>2, <2>3, <2>4
<1>7. CASE pc[v][r] = "accept"
  <2>1. served' = [served EXCEPT ![v] = Fetched(g)]  BY <1>7 DEF Commits
  <2>2. g.content \in Valid /\ g.content # Content[Floor]  BY <1>7 DEF IInv, ReadInv, Read
  <2>3. AsPublished(Fetched(g))  BY <1>2, <1>3, <2>2 DEF AsPublished, Fetched, Services
  <2>4. Fetched(g).version = g.version /\ Fetched(g).content = g.content  BY DEF Fetched
  <2>5. QED  BY <1>2, <2>1, <2>2, <2>3, <2>4
<1>8. QED  BY <1>1, <1>5, <1>6, <1>7

LEMMA CommittingKeeps ==
    ASSUME IInv, NEW v \in Values, NEW r \in Routines, Commits(v, r)
    PROVE  IInv'
<1>1. PICK s : served' = [served EXCEPT ![v] = s] /\ AsPublished(s)  BY CommitEffect
<1>2. pc[v][r] \in Holding /\ Records(v, r, "success")  BY DEF Commits, Holding
<1>3. fetched' \in [Values -> BOOLEAN]  BY DEF Commits, IInv, TypeOK, ValuesOK
<1>4. QED  BY <1>1, <1>2, <1>3, EndingKeeps

-----------------------------------------------------------------------------
(* Startup, the loops' waits, and the environment.                         *)

LEMMA RoutineOutside ==
    ASSUME IInv, NEW v \in Values, PrimeGo(v) \/ PrimeSends(v) \/ LoopStep(v) \/ Tick(v)
    PROVE  IInv'
<1>1. UNCHANGED <<upstreamVars, valueVars, got, main>>
  BY DEF PrimeGo, PrimeSends, LoopStep, LoopSelects, LoopGoesOn, Tick, mainVars
<1>2. CASE UNCHANGED pc
  BY <1>1, <1>2, OutsideKeeps DEF IInv, TypeOK, RoutinesOK
<1>3. ASSUME NEW r \in Routines, NEW w \in {"ended", "attempt", "gone", "select"},
             Goto(v, r, w), pc[v][r] \notin Holding, r = "loop" => pc[v][r] # "absent"
      PROVE  IInv'
  <2>1. w \in Places /\ w \notin Holding  BY DEF Places, Holding
  <2>2. RoutinesOK'
    BY <1>1, <1>3, <2>1, RoutineNames DEF IInv, TypeOK, RoutinesOK, Goto
  <2>3. \A u \in Values, q \in Routines :
           pc[u][q] \in Holding \/ pc'[u][q] \in Holding => pc'[u][q] = pc[u][q]
    BY <1>3, <2>1 DEF IInv, TypeOK, RoutinesOK, Goto
  <2>4. QED  BY <1>1, <2>2, <2>3, OutsideKeeps
<1>4. CASE PrimeGo(v) \/ PrimeSends(v)
  <2>1. pc[v]["prime"] \notin Holding /\ \E w \in {"ended", "attempt", "gone"} : Goto(v, "prime", w)
    BY <1>4 DEF PrimeGo, PrimeSends, Holding
  <2>2. QED  BY <1>3, <2>1, RoutineNames
<1>5. CASE LoopStep(v)
  <2>1. /\ pc[v]["loop"] \notin Holding /\ pc[v]["loop"] # "absent"
        /\ \E w \in {"attempt", "gone", "select"} : Goto(v, "loop", w)
    BY <1>5 DEF LoopStep, LoopSelects, LoopGoesOn, Holding
  <2>2. QED  BY <1>3, <2>1, RoutineNames
<1>6. QED  BY <1>2, <1>4, <1>5 DEF Tick

LEMMA MainOutside ==
    ASSUME IInv, PrimeReturns \/ Start \/ Expire \/ Cancel
    PROVE  IInv'
<1>1. UNCHANGED <<upstreamVars, valueVars, got>>
  BY DEF PrimeReturns, Start, Expire, Cancel
<1>2. CASE PrimeReturns \/ Expire \/ Cancel
  <2>1. UNCHANGED pc /\ (main' = main \/ (main = "prime" /\ main' = "start"))
    BY <1>2 DEF PrimeReturns, Expire, Cancel
  <2>2. QED  BY <1>1, <2>1, OutsideKeeps DEF IInv, TypeOK, RoutinesOK
<1>3. CASE Start
  <2>1. /\ main = "start" /\ main' = "started"
        /\ pc' = [v \in Values |->
                    [pc[v] EXCEPT !["loop"] = IF v \in pinned THEN "gone" ELSE "select"]]
    BY <1>3 DEF Start
  <2>2. \A v \in Values : /\ pc[v]["loop"] = "absent" /\ pc[v] \in [Routines -> Places]
                          /\ pc'[v]["loop"] \in {"gone", "select"}
                          /\ pc'[v]["prime"] = pc[v]["prime"]
    BY <2>1, RoutineNames DEF IInv, TypeOK, RoutinesOK
  <2>3. pc' \in [Values -> [Routines -> Places]]
    BY <2>1, <2>2 DEF Places
  <2>4. RoutinesOK'  BY <1>1, <2>1, <2>3 DEF IInv, TypeOK, RoutinesOK
  <2>5. \A v \in Values, r \in Routines :
           pc[v][r] \in Holding \/ pc'[v][r] \in Holding => pc'[v][r] = pc[v][r]
    BY <2>2 DEF Routines, Holding
  <2>6. QED  BY <1>1, <2>4, <2>5, OutsideKeeps
<1>4. QED  BY <1>2, <1>3

LEMMA PublishKeeps ==
    ASSUME IInv, NEW v \in Values, Publish(v)
    PROVE  IInv'
<1>1. PICK release \in Releases :
         /\ latest' = [latest EXCEPT ![v] = release]
         /\ during' = [during EXCEPT ![v] = IF holder[v] = None THEN @ ELSE @ \cup {release}]
  BY DEF Publish
<1>2. UNCHANGED <<served, outcome, fetched, holder, pc, got, main>>
  BY DEF Publish, valueVars, mainVars
<1>3. UpstreamOK'  BY <1>1 DEF IInv, TypeOK, UpstreamOK
<1>4. ValuesOK' /\ ServedIsPublished'
  BY <1>2 DEF IInv, TypeOK, ValuesOK, ServedIsPublished
<1>5. RoutinesOK'  BY <1>2 DEF IInv, TypeOK, RoutinesOK
<1>6. LockInv'  BY <1>1, <1>2 DEF IInv, TypeOK, UpstreamOK, LockInv
<1>7. \A u \in Values : during[u] \subseteq during'[u]
  BY <1>1 DEF IInv, TypeOK, UpstreamOK
<1>8. ReadInv'
  <2> SUFFICES ASSUME NEW u \in Values, NEW q \in Routines PROVE Read(u, q)'  BY DEF ReadInv
  <2>1. Read(u, q)  BY DEF IInv, ReadInv
  <2>2. QED  BY <1>2, <1>7, <2>1 DEF Read
<1>9. QED  BY <1>3, <1>4, <1>5, <1>6, <1>8 DEF IInv, TypeOK

LEMMA IInvStep == IInv /\ [Next]_<<setupVars, vars>> => IInv'
<1> SUFFICES ASSUME IInv, [Next]_<<setupVars, vars>> PROVE IInv'  OBVIOUS
<1>1. ASSUME NEW v \in Values, NEW r \in Routines, AttemptStep(v, r) PROVE IInv'
  BY <1>1, AttemptKeeps, ComparingKeeps, CommittingKeeps DEF AttemptStep
<1>2. ASSUME NEW v \in Values, NEW r \in Routines, EdgeFails(v, r) \/ EdgeAnswers(v, r) PROVE IInv'
  BY <1>2, EdgeKeeps
<1>3. ASSUME NEW v \in Values, PrimeGo(v) \/ PrimeSends(v) \/ LoopStep(v) \/ Tick(v) PROVE IInv'
  BY <1>3, RoutineOutside
<1>4. ASSUME NEW v \in Values, Publish(v) PROVE IInv'  BY <1>4, PublishKeeps
<1>5. CASE PrimeReturns \/ Start \/ Expire \/ Cancel  BY <1>5, MainOutside
<1>6. CASE UNCHANGED <<setupVars, vars>>
  <2>1. UNCHANGED <<upstreamVars, valueVars, got, pc, main>>  BY <1>6 DEF vars, mainVars
  <2>2. QED  BY <2>1, OutsideKeeps DEF IInv, TypeOK, RoutinesOK
<1>7. QED  BY <1>1, <1>2, <1>3, <1>4, <1>5, <1>6 DEF Next

(* Whatever a value serves is a release as upstream published it, or the   *)
(* embedded content: the sections of an attempt never mix two releases.    *)
THEOREM ServedAsPublished == Spec => []ServedIsPublished
<1>1. IInv => ServedIsPublished  BY DEF IInv
<1>2. QED  BY IInvInit, IInvStep, <1>1, PTL DEF Spec

-----------------------------------------------------------------------------
(* What SuccessIsCurrent asks of a step, of one value.                     *)
Current(v) ==
    /\ holder[v] # None /\ holder'[v] = None /\ outcome'[v] = "success"
          => served'[v].version \in during[v]
    /\ served'[v] # served[v] =>
          \E r \in Routines :
             holder[v] = r /\ got[v][r].version = served'[v].version
             /\ got[v][r].content = served'[v].content /\ outcome'[v] = "success"

LEMMA CurrentStep ==
    ASSUME IInv, NEW v \in Values, NEW r \in Routines, AttemptStep(v, r), NEW u \in Values
    PROVE  Current(u)
<1> USE DEF Current
<1>1. CASE Attempt(v, r)
  <2>1. UNCHANGED served /\ holder' = [holder EXCEPT ![v] = r] /\ holder[v] = None
    BY <1>1 DEF Attempt
  <2>2. holder[u] # None => holder'[u] # None
    BY <2>1 DEF IInv, TypeOK, ValuesOK
  <2>3. QED  BY <2>1, <2>2
<1>2. CASE PeekCompares(v, r) \/ Compares(v, r) \/ failed(v, r)
  <2>1. UNCHANGED served
    BY <1>2 DEF PeekCompares, Compares, failed, valueVars
  <2>2. CASE UNCHANGED holder  BY <2>1, <2>2
  <2>3. CASE failed(v, r)
    <3>1. holder' = [holder EXCEPT ![v] = None] /\ outcome' = [outcome EXCEPT ![v] = "failure"]
      BY <2>3 DEF failed, Records
    <3>2. u = v => outcome'[u] = "failure"  BY <3>1 DEF IInv, TypeOK, ValuesOK
    <3>3. u # v => holder'[u] = holder[u]  BY <3>1 DEF IInv, TypeOK, ValuesOK
    <3>4. QED  BY <2>1, <3>2, <3>3
  <2>4. CASE PeekCompares(v, r) /\ got[v][r].version = served[v].version
    <3>1. holder' = [holder EXCEPT ![v] = None] /\ pc[v][r] = "peeked"
      BY <2>4 DEF PeekCompares, Records
    <3>2. served[v].version \in during[v]  BY <2>4, <3>1 DEF IInv, ReadInv, Read
    <3>3. u # v => holder'[u] = holder[u]  BY <3>1 DEF IInv, TypeOK, ValuesOK
    <3>4. QED  BY <2>1, <3>2, <3>3
  <2>5. QED  BY <1>2, <2>2, <2>3, <2>4 DEF PeekCompares, Compares, valueVars
<1>3. CASE Commits(v, r)
  <2>1. PICK s : /\ served' = [served EXCEPT ![v] = s]
                 /\ s.version = got[v][r].version /\ s.version \in during[v]
                 /\ s.content = got[v][r].content
    BY <1>3, CommitEffect
  <2>2. holder' = [holder EXCEPT ![v] = None] /\ outcome' = [outcome EXCEPT ![v] = "success"]
    BY <1>3 DEF Commits, Records
  <2>3. holder[v] = r  BY <1>3, AttemptIsAlone DEF Commits, Holding
  <2>4. u = v => served'[u] = s /\ outcome'[u] = "success"
    BY <2>1, <2>2 DEF IInv, TypeOK, ValuesOK
  <2>5. u # v => served'[u] = served[u] /\ holder'[u] = holder[u]
    BY <2>1, <2>2 DEF IInv, TypeOK, ValuesOK
  <2>6. QED  BY <2>1, <2>3, <2>4, <2>5
<1>4. QED  BY <1>1, <1>2, <1>3 DEF AttemptStep

(* A successful attempt leaves its value on a release that upstream named  *)
(* as its latest during that attempt, and nothing but an attempt that has  *)
(* read and accepted a release replaces what is served (ADR-0008).         *)
THEOREM SuccessMeansCurrent == Spec => SuccessIsCurrent
<1> DEFINE Step == \A v \in Values :
          /\ holder[v] # None /\ holder'[v] = None /\ outcome'[v] = "success"
                => served'[v].version \in during[v]
          /\ served'[v] # served[v] =>
                \E r \in Routines :
                   holder[v] = r /\ got[v][r].version = served'[v].version
                   /\ got[v][r].content = served'[v].content /\ outcome'[v] = "success"
<1>1. IInv /\ [Next]_<<setupVars, vars>> => [Step]_vars
  <2> SUFFICES ASSUME IInv, Next PROVE \A u \in Values : Current(u)
    BY DEF vars, Current
  <2> SUFFICES ASSUME NEW u \in Values PROVE Current(u)  OBVIOUS
  <2>1. CASE \E v \in Values, r \in Routines : AttemptStep(v, r)  BY <2>1, CurrentStep
  <2>2. CASE UNCHANGED <<served, holder>>  BY <2>2 DEF Current
  <2>3. QED
    BY <2>1, <2>2
    DEF Next, EdgeFails, EdgeAnswers, PeekAnswers, TagAnswers, ReadAnswers, PrimeGo, PrimeSends,
        LoopStep, LoopSelects, LoopGoesOn, Publish, Tick, PrimeReturns, Start, Expire, Cancel,
        valueVars
<1>2. QED  BY IInvInit, IInvStep, <1>1, PTL DEF Spec, SuccessIsCurrent

-----------------------------------------------------------------------------
(***************************************************************************)
(* The catalog.  CatalogStandsAlone says nothing of a fetch in progress,   *)
(* nor of an answer before it is given.  What it rests on is that a commit *)
(* read for a tag is one that the tag had (FetchInv), and that the shape   *)
(* of an answer is chosen with the answer (ShapeInv).                      *)
(***************************************************************************)
CatalogTypeOK ==
    /\ head \in [Tags -> Revisions]
    /\ partly \in [tag : Tags \cup {Missing}, commit : Revisions \cup {Missing}]

FetchInv ==
    /\ \A t \in Tags : <<t, head[t]>> \in been
    /\ fetching \in {"tagged", "resolved"} => partly.tag \in Tags
    /\ fetching = "resolved" => partly.commit \in Revisions /\ <<partly.tag, partly.commit>> \in been

ShapeInv == request \in {"asked", "decoded"} => shape = Missing

(* The four parts of CatalogStandsAlone.                                   *)
DocumentIsAsPublished ==
    current.tag # "embedded" =>
        \E c \in Revisions : <<current.tag, c>> \in been /\ current.document = Document[c]

Instructed(document) ==
    \A i \in DOMAIN document :
        /\ {document[i].fields[f] : f \in {"template", "base"}} \cap {"given"} # {}
        /\ document[i].fields["template"] # "empty"

CodexAnswer ==
    request = "answered" /\ shape = "codex" =>
        LET slugs == {rendered[k].slug : k \in DOMAIN rendered}
        IN  /\ slugs \subseteq Ids
            /\ \A k \in DOMAIN rendered :
                 LET e == rendered[k] IN
                 /\ e.reviewer \in slugs \cup {"official"}
                 /\ e.metadata # e.slug => config.aliases[e.slug] = e.metadata
                 /\ Reviewer(e.slug) \in {"", e.reviewer} \/ <<e.slug, Reviewer(e.slug)>> \in told
            /\ \A a \in DOMAIN config.aliases :
                 \/ \E k \in DOMAIN rendered : rendered[k].slug = a /\ rendered[k].metadata = config.aliases[a]
                 \/ \E why \in {"alias_not_forwardable", "shadowed_by_official", "metadata_source_missing"} :
                       <<a, why>> \in told

NormalizedAnswer ==
    request = "answered" /\ config.normalize /\ config.surface = "anthropic" =>
        \A j, k \in DOMAIN rendered : j # k => rendered[j].slug # rendered[k].slug

CatalogInv ==
    /\ CatalogTypeOK /\ FetchInv /\ ShapeInv
    /\ DocumentIsAsPublished /\ Instructed(current.document)
    /\ CodexAnswer /\ NormalizedAnswer

(* Every entry of a document that is accepted has instructions.            *)
LEMMA AcceptedIsInstructed ==
    ASSUME NEW document, validateCodexModels(document)
    PROVE  Instructed(document)
<1> SUFFICES ASSUME NEW i \in DOMAIN document
             PROVE  /\ {document[i].fields[f] : f \in {"template", "base"}} \cap {"given"} # {}
                    /\ document[i].fields["template"] # "empty"
  BY DEF Instructed
<1> DEFINE e == document[i].fields
<1>1. validateCodexInstructionSource(e)
  BY DEF validateCodexModels, validateCodexModel
<1>2. e["template"] = "given" \/ e["base"] = "given"
  BY <1>1 DEF validateCodexInstructionSource
<1>3. e["template"] # "empty"
  BY <1>1 DEF validateCodexInstructionSource
<1> QED
  BY <1>2, <1>3

LEMMA CatalogInitially == CatalogInit => CatalogInv
<1> SUFFICES ASSUME CatalogInit PROVE CatalogInv
  OBVIOUS
<1>1. CatalogTypeOK /\ FetchInv /\ ShapeInv
  BY CatalogAssumption DEF CatalogInit, CatalogTypeOK, FetchInv, ShapeInv
<1>2. DocumentIsAsPublished /\ CodexAnswer /\ NormalizedAnswer
  BY DEF CatalogInit, DocumentIsAsPublished, CodexAnswer, NormalizedAnswer
<1>3. Instructed(current.document)
  BY CatalogAssumption, AcceptedIsInstructed DEF CatalogInit
<1> QED
  BY <1>1, <1>2, <1>3 DEF CatalogInv

(* The parts that a step of the fetch, and a step of the request, can      *)
(* disturb; the others go by what it leaves alone.                         *)
LEMMA RequestKeeps ==
    ASSUME UNCHANGED requestVars, CodexAnswer, NormalizedAnswer, ShapeInv
    PROVE  CodexAnswer' /\ NormalizedAnswer' /\ ShapeInv'
<1>1. Ids' = Ids
  BY DEF requestVars, Ids, Forwardable, Filter
<1>2. \A id : Reviewer(id)' = Reviewer(id)
  BY DEF requestVars, Reviewer
<1>3. CodexAnswer'
  BY <1>1, <1>2 DEF requestVars, CodexAnswer
<1>4. NormalizedAnswer' /\ ShapeInv'
  BY DEF requestVars, NormalizedAnswer, ShapeInv
<1> QED
  BY <1>3, <1>4

LEMMA FetchKeeps ==
    ASSUME UNCHANGED gitVars, UNCHANGED fetchVars, CatalogInv
    PROVE  (CatalogTypeOK /\ FetchInv /\ DocumentIsAsPublished /\ Instructed(current.document))'
  BY DEF gitVars, fetchVars, CatalogInv, CatalogTypeOK, FetchInv, DocumentIsAsPublished, Instructed

LEMMA GitHubMovesKeeps ==
    ASSUME CatalogInv, GitHubMoves
    PROVE  CatalogInv'
<1> USE DEF CatalogInv, GitHubMoves, fetchVars
<1>1. CodexAnswer' /\ NormalizedAnswer' /\ ShapeInv'
  BY RequestKeeps
<1>2. head' \in [Tags -> Revisions]
  BY DEF CatalogTypeOK
<1>3. CatalogTypeOK'
  BY <1>2 DEF CatalogTypeOK
<1>4. FetchInv'
  BY DEF FetchInv
<1>5. DocumentIsAsPublished'
  BY DEF DocumentIsAsPublished
<1>6. Instructed(current.document)'
  BY DEF Instructed
<1> QED
  BY <1>1, <1>3, <1>4, <1>5, <1>6

(* A step of the fetch that leaves the document alone.                     *)
LEMMA ReadingKeeps ==
    ASSUME CatalogInv, latestReleaseTag \/ releaseCommit \/ (Failed /\ UNCHANGED <<gitVars, requestVars>>)
    PROVE  CatalogInv'
<1> USE DEF CatalogInv, gitVars
<1>1. UNCHANGED <<current, gitVars, requestVars>>
  BY DEF latestReleaseTag, releaseCommit, Failed
<1>2. CodexAnswer' /\ NormalizedAnswer' /\ ShapeInv'
  BY <1>1, RequestKeeps
<1>3. CatalogTypeOK'
  BY <1>1 DEF CatalogTypeOK, FetchInv, latestReleaseTag, releaseCommit, Failed
<1>4. FetchInv'
  BY <1>1 DEF CatalogTypeOK, FetchInv, latestReleaseTag, releaseCommit, Failed
<1>5. DocumentIsAsPublished'
  BY <1>1 DEF DocumentIsAsPublished
<1>6. Instructed(current.document)'
  BY <1>1 DEF Instructed
<1> QED
  BY <1>2, <1>3, <1>4, <1>5, <1>6

(* A document is taken whole, as the tag that was read for it.             *)
LEMMA PublishedKeeps ==
    ASSUME CatalogInv, fetching = "resolved", Published(partly.tag, Document[partly.commit])
    PROVE  CatalogInv'
<1> USE DEF CatalogInv, gitVars, Published, Idle
<1>1. CodexAnswer' /\ NormalizedAnswer' /\ ShapeInv'
  BY RequestKeeps
<1>2. CatalogTypeOK' /\ FetchInv'
  BY DEF CatalogTypeOK, FetchInv
<1>3. CASE validateCodexModels(Document[partly.commit])
  <2>1. current' = [tag |-> partly.tag, document |-> Document[partly.commit]]
    BY <1>3
  <2>2. DocumentIsAsPublished'
    BY <2>1 DEF DocumentIsAsPublished, FetchInv
  <2>3. Instructed(current'.document)
    BY <1>3, <2>1, AcceptedIsInstructed
  <2> QED
    BY <1>1, <1>2, <2>2, <2>3 DEF Instructed
<1>4. CASE ~validateCodexModels(Document[partly.commit])
  <2>1. DocumentIsAsPublished'
    BY <1>4 DEF DocumentIsAsPublished
  <2>2. Instructed(current.document)'
    BY <1>4 DEF Instructed
  <2> QED
    BY <1>1, <1>2, <2>1, <2>2
<1> QED
  BY <1>3, <1>4

(* A step that gives no answer.                                            *)
LEMMA UnansweredKeeps ==
    ASSUME CatalogInv, request \in {"asked", "decoded"}, request' \in {"decoded", "bad gateway"},
           UNCHANGED <<list, config, shape, rendered, told, gitVars, fetchVars>>
    PROVE  CatalogInv'
<1>1. (CatalogTypeOK /\ FetchInv /\ DocumentIsAsPublished /\ Instructed(current.document))'
  BY FetchKeeps
<1>2. CodexAnswer' /\ NormalizedAnswer'
  BY DEF CodexAnswer, NormalizedAnswer
<1>3. ShapeInv'
  BY DEF ShapeInv, CatalogInv
<1> QED
  BY <1>1, <1>2, <1>3 DEF CatalogInv

LEMMA RenderOpenAIKeeps ==
    ASSUME CatalogInv, RenderOpenAI
    PROVE  CatalogInv'
<1>1. CASE request' = "bad gateway"
  BY <1>1, UnansweredKeeps DEF RenderOpenAI, BadGateway, Answer
<1>2. CASE request' # "bad gateway"
  <2>1. request' = "answered" /\ shape' = "openai" /\ config' = config /\ config.surface = "openai"
        /\ UNCHANGED gitVars /\ UNCHANGED fetchVars
    BY <1>2 DEF RenderOpenAI, BadGateway, Answer
  <2>2. CodexAnswer' /\ NormalizedAnswer' /\ ShapeInv'
    BY <2>1 DEF CodexAnswer, NormalizedAnswer, ShapeInv
  <2> QED
    BY <2>1, <2>2, FetchKeeps DEF CatalogInv
<1> QED
  BY <1>1, <1>2

LEMMA RenderAnthropicKeeps ==
    ASSUME CatalogInv, RenderAnthropic
    PROVE  CatalogInv'
<1>1. CASE request' = "bad gateway"
  BY <1>1, UnansweredKeeps DEF RenderAnthropic, BadGateway, Answer
<1>2. CASE request' # "bad gateway"
  <2>1. /\ request' = "answered" /\ shape' = shape /\ config' = config /\ config.surface = "anthropic"
        /\ rendered' = [k \in Forwardable |-> [slug |-> Normalized(list[k])]]
        /\ UNCHANGED gitVars /\ UNCHANGED fetchVars
    BY <1>2 DEF RenderAnthropic, BadGateway, Answer
  <2>2. config.normalize => \A j, k \in Forwardable : j # k => Normalized(list[j]) # Normalized(list[k])
    BY <1>2 DEF RenderAnthropic, BadGateway, Answer
  <2>3. NormalizedAnswer'
    BY <2>1, <2>2 DEF NormalizedAnswer
  <2>4. shape' # "codex"
    BY <2>1 DEF CatalogInv, ShapeInv, RenderAnthropic, Missing
  <2>5. CodexAnswer' /\ ShapeInv'
    BY <2>1, <2>4 DEF CodexAnswer, ShapeInv
  <2> QED
    BY <2>1, <2>3, <2>5, FetchKeeps DEF CatalogInv
<1> QED
  BY <1>1, <1>2

(* A Codex catalog.  Each clause of CodexAnswer is about one kind of       *)
(* entry or setting.                                                       *)
LEMMA RenderCodexKeeps ==
    ASSUME CatalogInv, RenderCodex
    PROVE  CatalogInv'
<1>1. CASE request' = "bad gateway"
  BY <1>1, UnansweredKeeps DEF RenderCodex, BadGateway, Answer
<1>2. CASE request' # "bad gateway"
  <2> DEFINE emitted   == {k \in Forwardable : list[k].id \in Resolved}
             unapplied == {a \in DOMAIN config.aliases : codexAliasSkipReason(a) # Missing}
             skipped   == {id \in Resolved : Reviewer(id) # "" /\ ~injectReviewer(id)}
             slugs     == {list[k].id : k \in emitted}
  <2>1. /\ request' = "answered" /\ shape' = "codex"
        /\ list' = list /\ config' = config /\ config.surface = "openai"
        /\ rendered' = [k \in emitted |-> Entry(list[k])]
        /\ told' = {<<a, codexAliasSkipReason(a)>> : a \in unapplied} \cup {<<id, Reviewer(id)>> : id \in skipped}
        /\ UNCHANGED gitVars /\ UNCHANGED fetchVars
    BY <1>2 DEF RenderCodex, BadGateway, Answer, servesCodexShape
  <2>2. \A k \in emitted : /\ rendered'[k].slug = list[k].id
                           /\ rendered'[k].metadata = Source(list[k].id)
                           /\ rendered'[k].reviewer = IF injectReviewer(list[k].id) THEN Reviewer(list[k].id)
                                                      ELSE "official"
    BY <2>1 DEF Entry
  <2>3. DOMAIN rendered' = emitted /\ {rendered'[k].slug : k \in DOMAIN rendered'} = slugs
    <3>1. DOMAIN rendered' = emitted
      BY <2>1
    <3>2. \A k \in emitted : rendered'[k].slug = list[k].id
      BY <2>2
    <3> HIDE DEF emitted
    <3> QED
      BY <3>1, <3>2
  <2>4. slugs = Resolved /\ slugs \subseteq Ids
    BY DEF Resolved, Ids
  <2>5. \A id : Reviewer(id)' = Reviewer(id)
    BY <2>1 DEF Reviewer
  <2>6. Ids' = Ids
    BY <2>1 DEF Ids, Forwardable, Filter
  <2>7. ASSUME NEW k \in emitted
        PROVE  /\ rendered'[k].reviewer \in slugs \cup {"official"}
               /\ rendered'[k].metadata # rendered'[k].slug
                    => config.aliases[rendered'[k].slug] = rendered'[k].metadata
               /\ \/ Reviewer(rendered'[k].slug) \in {"", rendered'[k].reviewer}
                  \/ <<rendered'[k].slug, Reviewer(rendered'[k].slug)>> \in told'
    <3> DEFINE id == list[k].id
    <3>1. id \in Resolved
      OBVIOUS
    <3>2. rendered'[k].reviewer \in slugs \cup {"official"}
      BY <2>2, <2>4 DEF injectReviewer
    <3>3. Source(id) # id => config.aliases[id] = Source(id)
      BY DEF Source
    <3>4. CASE injectReviewer(id) \/ Reviewer(id) = ""
      BY <3>4, <3>2, <3>3, <2>2
    <3>5. CASE ~injectReviewer(id) /\ Reviewer(id) # ""
      <4>1. id \in skipped
        BY <3>1, <3>5
      <4>2. <<id, Reviewer(id)>> \in told'
        BY <4>1, <2>1
      <4> QED
        BY <4>2, <3>2, <3>3, <2>2
    <3> QED
      BY <3>4, <3>5
  <2>8. ASSUME NEW a \in DOMAIN config.aliases
        PROVE  \/ \E k \in emitted : rendered'[k].slug = a /\ rendered'[k].metadata = config.aliases[a]
               \/ \E why \in {"alias_not_forwardable", "shadowed_by_official", "metadata_source_missing"} :
                     <<a, why>> \in told'
    <3>1. CASE a \in unapplied
      <4>1. <<a, codexAliasSkipReason(a)>> \in told'
        BY <3>1, <2>1
      <4>2. codexAliasSkipReason(a) \in {"alias_not_forwardable", "shadowed_by_official", "metadata_source_missing"}
        BY <3>1 DEF codexAliasSkipReason
      <4> QED
        BY <4>1, <4>2
    <3>2. CASE a \notin unapplied
      <4>1. a \in Ids /\ a \notin Official /\ config.aliases[a] \in Official
        BY <3>2 DEF codexAliasSkipReason, Missing
      <4>2. a \in Resolved /\ Source(a) = config.aliases[a]
        BY <4>1 DEF Resolved, Source
      <4>3. PICK k \in emitted : list[k].id = a
        BY <4>2, <2>4
      <4> QED
        BY <4>2, <4>3, <2>2
    <3> QED
      BY <3>1, <3>2
  <2>9. CodexAnswer'
    <3> HIDE DEF emitted, slugs
    <3> QED
      BY <2>1, <2>3, <2>4, <2>5, <2>6, <2>7, <2>8 DEF CodexAnswer
  <2>10. NormalizedAnswer' /\ ShapeInv'
    BY <2>1 DEF NormalizedAnswer, ShapeInv
  <2> QED
    BY <2>1, <2>9, <2>10, FetchKeeps DEF CatalogInv
<1> QED
  BY <1>1, <1>2

LEMMA CatalogStep == CatalogInv /\ [CatalogNext]_catalogVars => CatalogInv'
<1> SUFFICES ASSUME CatalogInv, [CatalogNext]_catalogVars PROVE CatalogInv'
  OBVIOUS
<1>1. CASE GitHubMoves
  BY <1>1, GitHubMovesKeeps
<1>2. CASE latestReleaseTag \/ releaseCommit
  BY <1>2, ReadingKeeps
<1>3. CASE FetchContent
  BY <1>3, ReadingKeeps, PublishedKeeps DEF FetchContent
<1>4. CASE Decode
  BY <1>4, UnansweredKeeps DEF Decode, BadGateway
<1>5. CASE RenderOpenAI
  BY <1>5, RenderOpenAIKeeps
<1>6. CASE RenderAnthropic
  BY <1>6, RenderAnthropicKeeps
<1>7. CASE RenderCodex
  BY <1>7, RenderCodexKeeps
<1>8. CASE UNCHANGED catalogVars
  <2>1. UNCHANGED gitVars /\ UNCHANGED fetchVars /\ UNCHANGED requestVars
    BY <1>8 DEF catalogVars
  <2> QED
    BY <2>1, FetchKeeps, RequestKeeps DEF CatalogInv
<1> QED
  BY <1>1, <1>2, <1>3, <1>4, <1>5, <1>6, <1>7, <1>8 DEF CatalogNext

(* However releases and tags move during a fetch, whatever Copilot lists   *)
(* and whatever the settings say, every document is one that its tag named *)
(* and Codex can use, and every answer names only what it serves.          *)
THEOREM CatalogsStandAlone == CatalogSpec => []CatalogStandsAlone
<1>1. CatalogInv => CatalogStandsAlone
  BY DEF CatalogInv, CatalogStandsAlone, DocumentIsAsPublished, Instructed, CodexAnswer, NormalizedAnswer
<1> QED
  BY <1>1, CatalogInitially, CatalogStep, PTL DEF CatalogSpec
=============================================================================
