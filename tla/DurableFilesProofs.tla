-------------------------- MODULE DurableFilesProofs ------------------------
(***************************************************************************)
(* Proofs about what outlives a process, for any number of processes, of   *)
(* builds, of crashes and of logins: a store that opens finds its schema,  *)
(* a report reads one moment, and the token file is whole.                 *)
(***************************************************************************)
EXTENDS DurableFiles, TLAPS

Database == [version : Nat, scripts : Seq(Nat), batches : Nat]

Preparing == {"entered", "making", "creating", "failed"}
Holding   == {"migrating", "writing"}

DatabaseTypeOK ==
    /\ parent \in {"absent", "private", "open", "irregular"}
    /\ file \in {"absent", "private", "open", "irregular"}
    /\ database \in Database /\ holder \in Openers \cup {Nobody, Outside}

OpeningTypeOK ==
    /\ pc \in [Openers -> Preparing \cup Admitting \cup Holding \cup {"open"}]
    /\ expired \in [Openers -> BOOLEAN]
    /\ transaction \in [Openers -> [version : Nat, applied : Seq(Nat)]]

ReportTypeOK ==
    /\ report \in [Readers -> {"asked", "reading", "reported", "refused", "failed"}]
    /\ snapshot \in [Readers -> Database] /\ sections \in [Readers -> Seq(Database)]

DatabaseOK == DatabaseTypeOK /\ OpeningTypeOK /\ ReportTypeOK

(* Past its preparation a process has a private path.                      *)
PathInv ==
    \A o \in Openers :
        /\ pc[o] \notin Preparing => parent = "private" /\ file = "private"
        /\ pc[o] = "creating" => parent = "private"

(* Who migrates or writes has the lock, so that what it read still holds.  *)
LockInv == \A o \in Openers : pc[o] \in Holding => holder = o

Continues(t, o) ==
    /\ t.version = database.version
    /\ \A i \in 1 .. Len(t.applied) : t.applied[i] = database.version + i
    /\ t.applied # <<>> => t.version + Len(t.applied) <= Supports[o]

MigrationInv == \A o \in Openers : pc[o] = "migrating" => Continues(transaction[o], o)

(* SchemaIsVersioned, script by script.                                    *)
ScriptsInv ==
    Len(database.scripts) = database.version
    /\ \A i \in 1 .. database.version : database.scripts[i] = i

OpeningInv == PathInv /\ LockInv /\ MigrationInv /\ ScriptsInv /\ OpenIsReady

SectionsInv ==
    \A r \in Readers :
        /\ \A i \in 1 .. Len(sections[r]) : sections[r][i] = snapshot[r]
        /\ report[r] = "asked" => sections[r] = <<>>
        /\ report[r] = "reading" => Len(sections[r]) < 2
        /\ report[r] = "reported" => Len(sections[r]) = 2
        /\ report[r] \in {"reading", "reported"} => snapshot[r].version = Supports[r]

(* The steps of one opening, with what goes on around it.                  *)
OpenerStep(o) == OpenStep(o) \/ Expire(o) \/ BeginBatch(o) \/ Crash(o)
ReaderStep(r) == CheckVersion(r) \/ ReadSection(r) \/ ReadFails(r)

LEMMA TypeInit == Init => DatabaseOK
<1> SUFFICES ASSUME Init PROVE DatabaseOK  OBVIOUS
<1>1. PICK v \in Nat : database = [version |-> v, scripts |-> [i \in 1 .. v |-> i], batches |-> 0]
  BY BoundsAreNumbers DEF Init
<1>2. [i \in 1 .. v |-> i] \in Seq(Nat)  OBVIOUS
<1>3. database \in Database  BY <1>1, <1>2 DEF Database
<1>4. DatabaseTypeOK  BY <1>3 DEF Init, DatabaseTypeOK
<1>5. OpeningTypeOK  BY DEF Init, OpeningTypeOK, NoTransaction, Preparing
<1>6. ReportTypeOK  BY <1>3 DEF Init, ReportTypeOK
<1>7. QED  BY <1>4, <1>5, <1>6 DEF DatabaseOK

LEMMA Concatenation ==
    ASSUME NEW s \in Seq(Nat), NEW t \in Seq(Nat)
    PROVE  /\ s \o t \in Seq(Nat) /\ Len(s \o t) = Len(s) + Len(t)
           /\ \A i \in 1 .. Len(s) : (s \o t)[i] = s[i]
           /\ \A i \in Len(s) + 1 .. Len(s) + Len(t) : (s \o t)[i] = t[i - Len(s)]
OBVIOUS

Places == Preparing \cup Admitting \cup Holding \cup {"open"}
Transactions == [version : Nat, applied : Seq(Nat)]

(* What a step of o can do to each variable.                               *)
LEMMA OpenerEffects ==
    ASSUME DatabaseOK, NEW o \in Openers, OpenerStep(o)
    PROVE  /\ parent' \in {"absent", "private", "open", "irregular"}
           /\ file' \in {"absent", "private", "open", "irregular"}
           /\ holder' \in {holder, Nobody, o}
           /\ \E to \in Places : pc' = [pc EXCEPT ![o] = to]
           /\ \E b \in BOOLEAN : expired' = [expired EXCEPT ![o] = b]
           /\ \E t \in Transactions : transaction' = [transaction EXCEPT ![o] = t]
           /\ database' \in Database
           /\ UNCHANGED readVars
<1> USE DEF DatabaseOK, pathVars, openVars
<1>1. parent' \in {"absent", "private", "open", "irregular"} /\ file' \in {"absent", "private", "open", "irregular"}
  BY DEF DatabaseTypeOK, OpenerStep, OpenStep, CheckParent, MakeParent, PrepareMainFile, PrepareFails, OutOfBudget,
         StartAttempt, Configure, BeginImmediate, BackOff, RollBack, ApplyMigration, Commit, BeginBatch,
         CommitBatch, Crash, Expire, Goes, Ends, AttemptOnly, OpenerOnly
<1>2. holder' \in {holder, Nobody, o} /\ UNCHANGED readVars
  BY DEF DatabaseTypeOK, OpenerStep, OpenStep, CheckParent, MakeParent, PrepareMainFile, PrepareFails, OutOfBudget,
         StartAttempt, Configure, BeginImmediate, BackOff, RollBack, ApplyMigration, Commit, BeginBatch,
         CommitBatch, Crash, Expire, Goes, Ends, AttemptOnly, OpenerOnly
<1>3. \E to \in Places : pc' = [pc EXCEPT ![o] = to]
  <2>1. pc[o] \in Places /\ pc = [pc EXCEPT ![o] = pc[o]]  BY DEF OpeningTypeOK, Places
  <2>2. pc' = pc \/ \E to \in Places : pc' = [pc EXCEPT ![o] = to]
    BY <2>1 DEF Places, Preparing, Admitting, Holding, OpenerStep, OpenStep, CheckParent, MakeParent, PrepareMainFile, PrepareFails, OutOfBudget,
         StartAttempt, Configure, BeginImmediate, BackOff, RollBack, ApplyMigration, Commit, BeginBatch,
         CommitBatch, Crash, Expire, Goes, Ends, AttemptOnly, OpenerOnly
  <2>3. QED  BY <2>1, <2>2
<1>4. \E b \in BOOLEAN : expired' = [expired EXCEPT ![o] = b]
  <2>1. expired[o] \in BOOLEAN /\ expired = [expired EXCEPT ![o] = expired[o]]  BY DEF OpeningTypeOK
  <2>2. \/ expired' = expired \/ expired' = [expired EXCEPT ![o] = TRUE]
        \/ expired' = [expired EXCEPT ![o] = FALSE]
    BY DEF OpenerStep, OpenStep, CheckParent, MakeParent, PrepareMainFile, PrepareFails, OutOfBudget,
         StartAttempt, Configure, BeginImmediate, BackOff, RollBack, ApplyMigration, Commit, BeginBatch,
         CommitBatch, Crash, Expire, Goes, Ends, AttemptOnly, OpenerOnly
  <2>3. QED  BY <2>1, <2>2
<1>5. \E t \in Transactions : transaction' = [transaction EXCEPT ![o] = t]
  <2>1. transaction[o] \in Transactions /\ transaction = [transaction EXCEPT ![o] = transaction[o]]
    BY DEF OpeningTypeOK, Transactions
  <2>2. NoTransaction \in Transactions /\ BegunOn(database) \in Transactions
    BY DEF NoTransaction, BegunOn, Transactions, DatabaseTypeOK, Database
  <2>3. CASE ApplyMigration(o)
    <3>1. Reached(o) + 1 \in Nat  BY <2>1 DEF Reached, Transactions
    <3>2. Append(transaction[o].applied, Reached(o) + 1) \in Seq(Nat)  BY <2>1, <3>1 DEF Transactions
    <3>3. transaction' = [transaction EXCEPT ![o] =
              [transaction[o] EXCEPT !.applied = Append(transaction[o].applied, Reached(o) + 1)]]
      BY <2>3 DEF ApplyMigration
    <3>4. QED  BY <2>1, <3>2, <3>3 DEF Transactions
  <2>4. \/ transaction' = transaction \/ transaction' = [transaction EXCEPT ![o] = NoTransaction]
        \/ transaction' = [transaction EXCEPT ![o] = BegunOn(database)] \/ ApplyMigration(o)
    BY DEF OpenerStep, OpenStep, CheckParent, MakeParent, PrepareMainFile, PrepareFails, OutOfBudget,
         StartAttempt, Configure, BeginImmediate, BackOff, RollBack, ApplyMigration, Commit, BeginBatch,
         CommitBatch, Crash, Expire, Goes, Ends, AttemptOnly, OpenerOnly
  <2>5. QED  BY <2>1, <2>2, <2>3, <2>4
<1>6. database' \in Database
  <2>1. CASE Commit(o)
    <3>1. database.scripts \o transaction[o].applied \in Seq(Nat)
      BY Concatenation DEF OpeningTypeOK, DatabaseTypeOK, Database
    <3>2. QED  BY <2>1, <3>1, BuildsAreVersioned DEF Commit, DatabaseTypeOK, Database
  <2>2. CASE CommitBatch(o)  BY <2>2 DEF CommitBatch, DatabaseTypeOK, Database
  <2>3. UNCHANGED database \/ Commit(o) \/ CommitBatch(o)
    BY DEF OpenerStep, OpenStep, CheckParent, MakeParent, PrepareMainFile, PrepareFails, OutOfBudget,
         StartAttempt, Configure, BeginImmediate, BackOff, RollBack, ApplyMigration, Commit, BeginBatch,
         CommitBatch, Crash, Expire, Goes, Ends, AttemptOnly, OpenerOnly
  <2>4. QED  BY <2>1, <2>2, <2>3 DEF DatabaseTypeOK
<1> HIDE DEF DatabaseOK, pathVars, openVars
<1>7. QED  BY <1>1, <1>2, <1>3, <1>4, <1>5, <1>6

LEMMA OpenerType ==
    ASSUME DatabaseOK, NEW o \in Openers, OpenerStep(o)
    PROVE  DatabaseOK'
<1>1. DatabaseTypeOK'  BY OpenerEffects DEF DatabaseOK, DatabaseTypeOK
<1>2. OpeningTypeOK'
  <2>1. pc \in [Openers -> Places] /\ expired \in [Openers -> BOOLEAN]
        /\ transaction \in [Openers -> Transactions]
    BY DEF DatabaseOK, OpeningTypeOK, Places, Transactions
  <2>2. pc' \in [Openers -> Places] /\ expired' \in [Openers -> BOOLEAN]
        /\ transaction' \in [Openers -> Transactions]
    BY <2>1, OpenerEffects
  <2>3. QED  BY <2>2 DEF OpeningTypeOK, Places, Transactions
<1>3. ReportTypeOK'  BY OpenerEffects DEF DatabaseOK, ReportTypeOK, readVars
<1>4. QED  BY <1>1, <1>2, <1>3 DEF DatabaseOK

(* How a step of o moves o, and what it leaves of the others.              *)
LEMMA OthersStay ==
    ASSUME DatabaseOK, NEW o \in Openers, OpenerStep(o), NEW p \in Openers, p # o
    PROVE  pc'[p] = pc[p] /\ transaction'[p] = transaction[p]
<1>1. pc \in [Openers -> Places] /\ transaction \in [Openers -> Transactions]
  BY DEF DatabaseOK, OpeningTypeOK, Places, Transactions
<1>2. QED  BY <1>1, OpenerEffects

LEMMA PathStep ==
    ASSUME DatabaseOK, PathInv, NEW o \in Openers, OpenerStep(o)
    PROVE  PathInv'
<1> USE DEF pathVars, openVars, Preparing, Admitting
<1>1. (parent = "private" => parent' = "private") /\ (file = "private" => file' = "private")
  BY DEF OpenerStep, OpenStep, CheckParent, MakeParent, PrepareMainFile, PrepareFails, OutOfBudget,
         StartAttempt, Configure, BeginImmediate, BackOff, RollBack, ApplyMigration, Commit, BeginBatch,
         CommitBatch, Crash, Expire, Goes, Ends, AttemptOnly, OpenerOnly
<1>2. /\ pc'[o] \notin Preparing => parent' = "private" /\ file' = "private"
      /\ pc'[o] = "creating" => parent' = "private"
  BY DEF DatabaseOK, OpeningTypeOK, PathInv, OpenerStep, OpenStep, CheckParent, MakeParent, PrepareMainFile, PrepareFails, OutOfBudget,
         StartAttempt, Configure, BeginImmediate, BackOff, RollBack, ApplyMigration, Commit, BeginBatch,
         CommitBatch, Crash, Expire, Goes, Ends, AttemptOnly, OpenerOnly
<1>3. QED  BY <1>1, <1>2, OthersStay DEF PathInv

LEMMA LockStep ==
    ASSUME DatabaseOK, LockInv, NEW o \in Openers, OpenerStep(o)
    PROVE  /\ LockInv'
           /\ UNCHANGED database \/ holder = o
<1> USE DEF pathVars, openVars, Preparing, Admitting, Holding
<1>1. pc'[o] \in Holding => holder' = o
  BY DEF DatabaseOK, OpeningTypeOK, LockInv, OpenerStep, OpenStep, CheckParent, MakeParent, PrepareMainFile, PrepareFails, OutOfBudget,
         StartAttempt, Configure, BeginImmediate, BackOff, RollBack, ApplyMigration, Commit, BeginBatch,
         CommitBatch, Crash, Expire, Goes, Ends, AttemptOnly, OpenerOnly
<1>2. holder' = holder \/ holder = Nobody \/ holder = o
  BY DEF LockInv, OpenerStep, OpenStep, CheckParent, MakeParent, PrepareMainFile, PrepareFails, OutOfBudget,
         StartAttempt, Configure, BeginImmediate, BackOff, RollBack, ApplyMigration, Commit, BeginBatch,
         CommitBatch, Crash, Expire, Goes, Ends, AttemptOnly, OpenerOnly
<1>3. UNCHANGED database \/ holder = o
  BY DEF LockInv, OpenerStep, OpenStep, CheckParent, MakeParent, PrepareMainFile, PrepareFails, OutOfBudget,
         StartAttempt, Configure, BeginImmediate, BackOff, RollBack, ApplyMigration, Commit, BeginBatch,
         CommitBatch, Crash, Expire, Goes, Ends, AttemptOnly, OpenerOnly
<1>4. \A p \in Openers : p # o /\ pc'[p] \in Holding => holder = p /\ p # Nobody
  BY OthersStay, ProcessesHaveNames DEF LockInv
<1>5. QED  BY <1>1, <1>2, <1>3, <1>4 DEF LockInv

LEMMA MigrationStep ==
    ASSUME DatabaseOK, LockInv, MigrationInv, NEW o \in Openers, OpenerStep(o)
    PROVE  MigrationInv'
<1> USE DEF pathVars, openVars, Preparing, Admitting, Holding
<1>0. transaction \in [Openers -> Transactions] /\ pc \in [Openers -> Places]
  BY DEF DatabaseOK, OpeningTypeOK, Transactions, Places
<1>1. ASSUME NEW p \in Openers, p # o, pc'[p] = "migrating" PROVE Continues(transaction[p], p)'
  <2>1. holder = p /\ pc[p] = "migrating"  BY <1>1, OthersStay DEF LockInv
  <2>2. UNCHANGED database  BY <1>1, <2>1, LockStep
  <2>3. QED  BY <1>1, <2>1, <2>2, OthersStay DEF MigrationInv, Continues
<1>2. ASSUME pc'[o] = "migrating" PROVE Continues(transaction[o], o)'
  <2>1. CASE BeginImmediate(o)
    <3>1. transaction'[o] = BegunOn(database) /\ UNCHANGED database
      BY <1>0, <1>2, <2>1 DEF BeginImmediate, Goes, AttemptOnly
    <3>2. QED  BY <3>1 DEF BegunOn, Continues
  <2>2. CASE ApplyMigration(o)
    <3>1. Continues(transaction[o], o)  BY <2>2 DEF ApplyMigration, MigrationInv
    <3> DEFINE s == transaction[o].applied
               v == database.version
    <3>2. s \in Seq(Nat) /\ v \in Nat /\ Supports[o] \in Nat /\ transaction[o].version = v
      BY <1>0, <3>1, BuildsAreVersioned DEF Transactions, DatabaseOK, DatabaseTypeOK, Database, Continues
    <3>3. /\ transaction'[o].version = v /\ database' = database
          /\ transaction'[o].applied = Append(s, v + Len(s) + 1)
          /\ v + Len(s) < Supports[o]
      BY <1>0, <2>2, <3>2 DEF ApplyMigration, Reached, Transactions
    <3> HIDE DEF s, v
    <3>4. Len(Append(s, v + Len(s) + 1)) = Len(s) + 1  BY <3>2
    <3>5. \A i \in 1 .. Len(s) + 1 : Append(s, v + Len(s) + 1)[i] = IF i = Len(s) + 1 THEN v + Len(s) + 1 ELSE s[i]
      BY <3>2
    <3>6. \A i \in 1 .. Len(s) : s[i] = v + i  BY <3>1 DEF Continues, s, v
    <3>7. \A i \in 1 .. Len(s) + 1 : Append(s, v + Len(s) + 1)[i] = v + i
      <4>1. SUFFICES ASSUME NEW i \in 1 .. Len(s) + 1 PROVE Append(s, v + Len(s) + 1)[i] = v + i  OBVIOUS
      <4>2. Len(s) \in Nat  BY <3>2
      <4>3. CASE i = Len(s) + 1  BY <3>2, <3>5, <4>2, <4>3
      <4>4. CASE i # Len(s) + 1
        <5>1. i \in 1 .. Len(s)  BY <4>2, <4>4
        <5>2. QED  BY <3>5, <3>6, <4>4, <5>1
      <4>5. QED  BY <4>3, <4>4
    <3>8. Len(s) \in Nat  BY <3>2
    <3>9. QED  BY <3>2, <3>3, <3>4, <3>7, <3>8 DEF Continues, v
  <2>3. CASE pc[o] = "migrating" /\ UNCHANGED <<transaction, database>>
    BY <2>3 DEF MigrationInv, Continues
  <2>4. BeginImmediate(o) \/ ApplyMigration(o) \/ (pc[o] = "migrating" /\ UNCHANGED <<transaction, database>>)
    BY <1>0, <1>2 DEF Places, OpenerStep, OpenStep, CheckParent, MakeParent, PrepareMainFile, PrepareFails, OutOfBudget,
         StartAttempt, Configure, BeginImmediate, BackOff, RollBack, ApplyMigration, Commit, BeginBatch,
         CommitBatch, Crash, Expire, Goes, Ends, AttemptOnly, OpenerOnly
  <2>5. QED  BY <2>1, <2>2, <2>3, <2>4
<1>3. QED  BY <1>1, <1>2 DEF MigrationInv

(* COMMIT brings the schema to the build's version, and no further back.   *)
LEMMA CommitExtends ==
    ASSUME DatabaseOK, MigrationInv, ScriptsInv, NEW o \in Openers, Commit(o)
    PROVE  /\ database'.version = Supports[o] /\ database'.version >= database.version
           /\ ScriptsInv'
<1> DEFINE s == database.scripts
           t == transaction[o].applied
           v == database.version
<1>1. s \in Seq(Nat) /\ v \in Nat /\ t \in Seq(Nat) /\ Supports[o] \in Nat
  BY BuildsAreVersioned DEF DatabaseOK, DatabaseTypeOK, OpeningTypeOK, Database
<1>2. Continues(transaction[o], o)  BY DEF Commit, Ends, Goes, MigrationInv
<1>3. v + Len(t) = Supports[o] /\ Len(t) \in Nat
  <2>1. v <= Supports[o] /\ v + Len(t) >= Supports[o]
    BY <1>1, <1>2 DEF Commit, IsNewer, Reached, Continues
  <2>2. t = <<>> \/ v + Len(t) <= Supports[o]  BY <1>2 DEF Continues
  <2>3. t = <<>> => Len(t) = 0  OBVIOUS
  <2>4. Len(t) \in Nat  BY <1>1
  <2> HIDE DEF s, t, v
  <2>5. QED  BY <1>1, <2>1, <2>2, <2>3, <2>4
<1>4. database'.version = Supports[o] /\ database'.scripts = s \o t
  BY DEF Commit, DatabaseOK, DatabaseTypeOK, Database
<1>5. /\ \A i \in 1 .. v : s[i] = i /\ Len(s) = v
      /\ \A i \in 1 .. Len(t) : t[i] = v + i
  BY <1>2 DEF ScriptsInv, Continues
<1> HIDE DEF s, t, v
<1>6. \A i \in 1 .. v + Len(t) : (s \o t)[i] = i
  <2>1. SUFFICES ASSUME NEW i \in 1 .. v + Len(t) PROVE (s \o t)[i] = i  OBVIOUS
  <2>2. Len(s) = v
    <3>1. CASE v = 0  BY <3>1, <1>1 DEF s, v, ScriptsInv
    <3>2. QED  BY DEF s, v, ScriptsInv
  <2>3. CASE i <= v
    <3>1. i \in 1 .. Len(s)  BY <1>1, <2>2, <2>3
    <3>2. (s \o t)[i] = s[i]  BY <1>1, <3>1, Concatenation
    <3>3. QED  BY <1>5, <2>2, <3>1, <3>2
  <2>4. CASE ~(i <= v)
    <3>1. i \in Len(s) + 1 .. Len(s) + Len(t)  BY <1>1, <1>3, <2>2, <2>4
    <3>2. (s \o t)[i] = t[i - Len(s)]  BY <1>1, <3>1, Concatenation
    <3>3. i - v \in 1 .. Len(t)  BY <1>1, <1>3, <2>4
    <3>4. t[i - v] = v + (i - v)  BY <1>5, <3>3
    <3>5. QED  BY <1>1, <1>3, <2>2, <3>2, <3>4
  <2>5. QED  BY <2>3, <2>4
<1>7. Len(s \o t) = v + Len(t)
  <2>1. Len(s) = v  BY DEF s, v, ScriptsInv
  <2>2. QED  BY <1>1, <2>1, Concatenation
<1>8. ScriptsInv'  BY <1>3, <1>4, <1>6, <1>7 DEF ScriptsInv
<1>9. Supports[o] >= v  BY <1>1, <1>3
<1>10. QED  BY <1>4, <1>8, <1>9 DEF v

LEMMA ReadyStep ==
    ASSUME DatabaseOK, OpeningInv, NEW o \in Openers, OpenerStep(o)
    PROVE  ScriptsInv' /\ OpenIsReady'
<1> USE BuildsAreVersioned DEF OpeningInv, pathVars, openVars, Preparing, Admitting, Holding
<1>0. /\ database.version \in Nat /\ database'.version \in Nat /\ database \in Database
      /\ pc \in [Openers -> Places]
  BY OpenerType DEF DatabaseOK, DatabaseTypeOK, Database, OpeningTypeOK, Places
<1>1. UNCHANGED <<database.version, database.scripts>> \/ Commit(o)
  <2>1. UNCHANGED database \/ CommitBatch(o) \/ Commit(o)
    BY DEF OpenerStep, OpenStep, CheckParent, MakeParent, PrepareMainFile, PrepareFails, OutOfBudget,
         StartAttempt, Configure, BeginImmediate, BackOff, RollBack, ApplyMigration, Commit, BeginBatch,
         CommitBatch, Crash, Expire, Goes, Ends, AttemptOnly, OpenerOnly
  <2>2. CommitBatch(o) => UNCHANGED <<database.version, database.scripts>>
    BY <1>0 DEF CommitBatch, Database
  <2>3. QED  BY <2>1, <2>2
<1>2. ScriptsInv' /\ database'.version >= database.version
  <2>1. CASE Commit(o)  BY <2>1, CommitExtends
  <2>2. CASE UNCHANGED <<database.version, database.scripts>>  BY <1>0, <2>2 DEF ScriptsInv
  <2>3. QED  BY <1>1, <2>1, <2>2
<1>3. pc'[o] \in {"open", "writing"} => pc[o] \in {"open", "writing"} \/ Commit(o)
  BY <1>0 DEF Places, OpenerStep, OpenStep, CheckParent, MakeParent, PrepareMainFile, PrepareFails, OutOfBudget,
         StartAttempt, Configure, BeginImmediate, BackOff, RollBack, ApplyMigration, Commit, BeginBatch,
         CommitBatch, Crash, Expire, Goes, Ends, AttemptOnly, OpenerOnly
<1>4. pc'[o] \in {"open", "writing"} => database'.version >= Supports[o]
  <2>1. CASE Commit(o)
    <3>1. database'.version = Supports[o]  BY <2>1, CommitExtends
    <3>2. QED  BY <1>0, <3>1
  <2>2. CASE pc[o] \in {"open", "writing"}  BY <1>0, <1>2, <2>2 DEF OpenIsReady
  <2>3. QED  BY <1>3, <2>1, <2>2
<1>5. \A p \in Openers : p # o /\ pc'[p] \in {"open", "writing"} => database'.version >= Supports[p]
  BY <1>0, <1>2, OthersStay DEF OpenIsReady
<1>6. PathInv'  BY PathStep
<1>7. QED  BY <1>2, <1>4, <1>5, <1>6 DEF OpenIsReady, PathInv

LEMMA OpeningInit == Init => OpeningInv /\ SectionsInv
<1> SUFFICES ASSUME Init PROVE OpeningInv /\ SectionsInv  OBVIOUS
<1>1. PICK v \in Nat : database = [version |-> v, scripts |-> [i \in 1 .. v |-> i], batches |-> 0]
  BY BoundsAreNumbers DEF Init
<1>2. ScriptsInv  BY <1>1 DEF ScriptsInv
<1>3. \A o \in Openers : pc[o] = "entered"  BY DEF Init
<1>4. PathInv /\ LockInv /\ MigrationInv /\ OpenIsReady
  BY <1>3 DEF PathInv, LockInv, MigrationInv, OpenIsReady, Preparing, Holding
<1>5. SectionsInv  BY DEF Init, SectionsInv
<1>6. QED  BY <1>2, <1>4, <1>5 DEF OpeningInv

LEMMA ReaderType ==
    ASSUME DatabaseOK, NEW r \in Readers, ReaderStep(r)
    PROVE  DatabaseOK'
<1>1. UNCHANGED <<pathVars, database, holder, openVars>>
  BY DEF ReaderStep, CheckVersion, ReadSection, ReadFails, ReaderOnly
<1>2. DatabaseTypeOK' /\ OpeningTypeOK'
  BY <1>1 DEF DatabaseOK, DatabaseTypeOK, OpeningTypeOK, pathVars, openVars
<1> USE DEF DatabaseOK, DatabaseTypeOK, ReportTypeOK
<1>3. CASE CheckVersion(r)
  <2>1. report' \in [Readers -> {"asked", "reading", "reported", "refused", "failed"}]
    BY <1>3 DEF CheckVersion
  <2>2. snapshot' \in [Readers -> Database] /\ sections' = sections  BY <1>3 DEF CheckVersion
  <2>3. QED  BY <1>2, <2>1, <2>2
<1>4. CASE ReadSection(r)
  <2>1. Append(sections[r], snapshot[r]) \in Seq(Database)  OBVIOUS
  <2>2. sections' \in [Readers -> Seq(Database)] /\ snapshot' = snapshot
    BY <1>4, <2>1 DEF ReadSection
  <2>3. report' \in [Readers -> {"asked", "reading", "reported", "refused", "failed"}]
    BY <1>4 DEF ReadSection
  <2>4. QED  BY <1>2, <2>2, <2>3
<1>5. CASE ReadFails(r)  BY <1>2, <1>5 DEF ReadFails
<1>6. QED  BY <1>3, <1>4, <1>5 DEF ReaderStep

LEMMA SectionsStep ==
    ASSUME DatabaseOK, SectionsInv, NEW r \in Readers, ReaderStep(r)
    PROVE  SectionsInv'
<1> USE DEF DatabaseOK, ReportTypeOK
<1> DEFINE Good(q) ==
        /\ \A i \in 1 .. Len(sections[q]) : sections[q][i] = snapshot[q]
        /\ report[q] = "asked" => sections[q] = <<>>
        /\ report[q] = "reading" => Len(sections[q]) < 2
        /\ report[q] = "reported" => Len(sections[q]) = 2
        /\ report[q] \in {"reading", "reported"} => snapshot[q].version = Supports[q]
<1>1. \A q \in Readers : Good(q)  BY DEF SectionsInv
<1>2. ASSUME NEW q \in Readers, q # r PROVE Good(q)'
  <2>1. report'[q] = report[q] /\ snapshot'[q] = snapshot[q] /\ sections'[q] = sections[q]
    BY <1>2 DEF ReaderStep, CheckVersion, ReadSection, ReadFails
  <2>2. QED  BY <1>1, <2>1
<1>3. Good(r)'
  <2>1. CASE CheckVersion(r)
    <3>1. sections'[r] = <<>> /\ report'[r] \in {"reading", "refused"}
      BY <1>1, <2>1 DEF CheckVersion
    <3>2. report'[r] = "reading" => snapshot'[r].version = Supports[r]
      BY <2>1 DEF CheckVersion
    <3>3. Len(sections'[r]) = 0  BY <3>1
    <3>4. QED  BY <3>1, <3>2, <3>3
  <2>2. CASE ReadSection(r)
    <3> DEFINE s == sections[r]
    <3>1. report[r] = "reading" /\ sections'[r] = Append(s, snapshot[r]) /\ snapshot' = snapshot
      BY <2>2 DEF ReadSection
    <3>2. report'[r] = IF Len(sections'[r]) = 2 THEN "reported" ELSE "reading"
      BY <2>2, <3>1 DEF ReadSection
    <3>3. /\ Len(s) \in Nat /\ Len(s) < 2 /\ \A i \in 1 .. Len(s) : s[i] = snapshot[r]
          /\ snapshot[r].version = Supports[r]
      BY <1>1, <3>1
    <3>4. s \in Seq(Database) /\ snapshot[r] \in Database  OBVIOUS
    <3> HIDE DEF s
    <3>5. /\ Len(Append(s, snapshot[r])) = Len(s) + 1
          /\ \A i \in 1 .. Len(s) + 1 : Append(s, snapshot[r])[i] = snapshot[r]
      BY <3>3, <3>4
    <3>6. QED  BY <3>1, <3>2, <3>3, <3>5
  <2>3. CASE ReadFails(r)  BY <1>1, <2>3 DEF ReadFails
  <2>4. QED  BY <2>1, <2>2, <2>3 DEF ReaderStep
<1>4. QED  BY <1>2, <1>3 DEF SectionsInv

IInv == DatabaseOK /\ OpeningInv /\ SectionsInv

LEMMA IInvStep == IInv /\ [Next]_databaseVars => IInv'
<1> SUFFICES ASSUME IInv, [Next]_databaseVars PROVE IInv'  OBVIOUS
<1> USE DEF IInv
<1>1. ASSUME NEW o \in Openers, OpenerStep(o) PROVE IInv'
  <2>1. DatabaseOK' /\ PathInv' /\ LockInv' /\ MigrationInv' /\ ScriptsInv' /\ OpenIsReady'
    BY <1>1, OpenerType, PathStep, LockStep, MigrationStep, ReadyStep DEF OpeningInv
  <2>2. UNCHANGED readVars  BY <1>1, OpenerEffects
  <2>3. SectionsInv'  BY <2>2 DEF SectionsInv, readVars
  <2>4. QED  BY <2>1, <2>3 DEF OpeningInv
<1>2. ASSUME NEW r \in Readers, ReaderStep(r) PROVE IInv'
  <2>1. UNCHANGED <<pathVars, database, holder, openVars>>
    BY <1>2 DEF ReaderStep, CheckVersion, ReadSection, ReadFails, ReaderOnly
  <2>2. OpeningInv'
    BY <2>1 DEF OpeningInv, PathInv, LockInv, MigrationInv, Continues, ScriptsInv, OpenIsReady, pathVars, openVars
  <2>3. QED  BY <1>2, <2>2, ReaderType, SectionsStep
<1>3. CASE OutsideReleases
  <2>1. UNCHANGED <<pathVars, database, openVars, readVars>> /\ holder = Outside /\ holder' = Nobody
    BY <1>3 DEF OutsideReleases, OpenerOnly
  <2>2. \A o \in Openers : pc[o] \notin Holding  BY <2>1, ProcessesHaveNames DEF OpeningInv, LockInv
  <2>3. LockInv'  BY <2>1, <2>2 DEF LockInv, openVars
  <2>4. OpeningInv'
    BY <2>1, <2>3 DEF OpeningInv, PathInv, MigrationInv, Continues, ScriptsInv, OpenIsReady, pathVars, openVars
  <2>5. DatabaseOK' /\ SectionsInv'
    BY <2>1 DEF DatabaseOK, DatabaseTypeOK, OpeningTypeOK, ReportTypeOK, SectionsInv, pathVars, openVars, readVars
  <2>6. QED  BY <2>4, <2>5
<1>4. CASE UNCHANGED databaseVars
  BY <1>4 DEF databaseVars, pathVars, openVars, readVars, DatabaseOK, DatabaseTypeOK, OpeningTypeOK, ReportTypeOK,
     OpeningInv, PathInv, LockInv, MigrationInv, Continues, ScriptsInv, OpenIsReady, SectionsInv
<1>5. QED  BY <1>1, <1>2, <1>3, <1>4 DEF Next, OpenerStep, ReaderStep

(* Through every crash, race and mix of builds the committed scripts are   *)
(* those up to the version, each once and in order, and a store that is    *)
(* open has its build's schema in a private file.                          *)
THEOREM SchemaSurvives == Spec => []OpenedOnSchema
<1>1. IInv => OpenedOnSchema
  <2> SUFFICES ASSUME IInv PROVE SchemaIsVersioned /\ OpenIsReady  BY DEF OpenedOnSchema
  <2>1. database.scripts \in Seq(Nat) /\ database.version \in Nat
    BY DEF IInv, DatabaseOK, DatabaseTypeOK, Database
  <2>2. ScriptsInv /\ OpenIsReady  BY DEF IInv, OpeningInv
  <2>3. database.scripts = [i \in 1 .. database.version |-> i]  BY <2>1, <2>2 DEF ScriptsInv
  <2>4. QED  BY <2>2, <2>3 DEF SchemaIsVersioned
<1>2. Init => IInv  BY TypeInit, OpeningInit DEF IInv
<1>3. QED  BY <1>1, <1>2, IInvStep, PTL DEF Spec

(* The two sections of every report are of one moment, and of the schema   *)
(* its build knows.                                                        *)
THEOREM ReportsReadOneMoment == Spec => []ReportIsOneSnapshot
<1>1. IInv => ReportIsOneSnapshot
  BY DEF IInv, DatabaseOK, ReportTypeOK, SectionsInv, ReportIsOneSnapshot
<1>2. Init => IInv  BY TypeInit, OpeningInit DEF IInv
<1>3. QED  BY <1>1, <1>2, IInvStep, PTL DEF Spec

-----------------------------------------------------------------------------
Token == Logins \cup {"none", "old", "blank", "empty", "half"}
File  == [token : Token, private : BOOLEAN]

LoginTypeOK ==
    /\ step \in [Logins -> {"requesting", "waiting", "polling", "confirming", "writing", "created",
                            "half written", "written", "done", "failed", "cut"}]
    /\ confirmed \subseteq Logins
    /\ temporary \in [Logins -> File] /\ tokenFile \in File

(* What a login writes is its own token, whole before it is renamed; and   *)
(* it writes only once its user's name is confirmed.                       *)
WritingInv ==
    \A l \in Logins :
        /\ step[l] \in {"writing", "created", "half written", "written"} => l \in confirmed
        /\ step[l] \in {"created", "half written", "written"} => temporary[l].private
        /\ step[l] = "written" => temporary[l].token = l

LoginInv == LoginTypeOK /\ WritingInv /\ TokenFile!TokenFileIsWhole
LEMMA TokenFileInit ==
    ASSUME TokenFile!Init
    PROVE  LoginInv
<1> USE DEF TokenFile!Init, TokenFile!NoFile
<1>1. LoginTypeOK
  <2>1. [token |-> "none", private |-> TRUE] \in File  BY DEF File, Token
  <2>2. [token : {"old", "blank"}, private : BOOLEAN] \subseteq File  BY DEF File, Token
  <2>3. tokenFile \in File /\ temporary \in [Logins -> File]  BY <2>1, <2>2
  <2>4. QED  BY <2>3 DEF LoginTypeOK
<1>2. WritingInv  BY DEF WritingInv
<1>3. TokenFile!TokenFileIsWhole  BY DEF TokenFile!TokenFileIsWhole
<1>4. QED  BY <1>1, <1>2, <1>3 DEF LoginInv

(* The steps of one login that only follow the flow, and those that write. *)
FlowStep(l) ==
    \/ TokenFile!requestDeviceCode(l) \/ TokenFile!Sleep(l) \/ TokenFile!Pending(l)
    \/ TokenFile!SlowDown(l) \/ TokenFile!TokenGranted(l) \/ TokenFile!fetchUsername(l)
    \/ TokenFile!FlowFails(l) \/ TokenFile!Cut(l)

WriteStep(l) ==
    \/ TokenFile!CreateTemp(l) \/ TokenFile!WriteSome(l) \/ TokenFile!WriteRest(l)
    \/ TokenFile!Rename(l) \/ TokenFile!WriteFails(l)

LEMMA FlowKeeps ==
    ASSUME LoginInv, NEW l \in Logins, FlowStep(l)
    PROVE  LoginInv'
<1> USE DEF LoginInv, LoginTypeOK, TokenFile!FlowOnly, TokenFile!WriteOnly, TokenFile!At
<1>1. UNCHANGED <<temporary, tokenFile, serve, resolved>>
  BY DEF FlowStep, TokenFile!requestDeviceCode, TokenFile!Sleep, TokenFile!Pending, TokenFile!SlowDown,
         TokenFile!TokenGranted, TokenFile!fetchUsername, TokenFile!FlowFails, TokenFile!Cut
<1>2. PICK to \in {"waiting", "polling", "confirming", "writing", "failed", "cut"} :
          /\ step' = [step EXCEPT ![l] = to]
          /\ to = "writing" => confirmed' = confirmed \cup {l}
          /\ to # "writing" => confirmed' = confirmed
  BY DEF FlowStep, TokenFile!requestDeviceCode, TokenFile!Sleep, TokenFile!Pending, TokenFile!SlowDown,
         TokenFile!TokenGranted, TokenFile!fetchUsername, TokenFile!FlowFails, TokenFile!Cut
<1>3. LoginTypeOK'  BY <1>1, <1>2
<1>4. WritingInv'  BY <1>1, <1>2 DEF WritingInv
<1>5. confirmed \subseteq confirmed' /\ confirmed' \subseteq Logins  BY <1>2
<1>6. tokenFile.token \in confirmed' => tokenFile.token \in confirmed
  BY <1>5, NamesAreTokens DEF TokenFile!TokenFileIsWhole
<1>7. TokenFile!TokenFileIsWhole'  BY <1>1, <1>5, <1>6 DEF TokenFile!TokenFileIsWhole
<1>8. QED  BY <1>3, <1>4, <1>7
(* WriteTokenFile's own steps.                                             *)
LEMMA WriteKeeps ==
    ASSUME LoginInv, NEW l \in Logins, WriteStep(l)
    PROVE  LoginInv'
<1> USE DEF LoginInv, LoginTypeOK, WritingInv, TokenFile!WriteOnly, TokenFile!At, TokenFile!NoFile, TokenFile!Half
<1>0. l \in Token /\ {"none", "empty", "half"} \subseteq Token  BY DEF Token
<1>1. CASE TokenFile!CreateTemp(l)
  <2>1. step' = [step EXCEPT ![l] = "created"] /\ step[l] = "writing" /\ tokenFile' = tokenFile
        /\ temporary' = [temporary EXCEPT ![l] = [token |-> "empty", private |-> TRUE]]
        /\ UNCHANGED <<confirmed, resolved>>
    BY <1>1 DEF TokenFile!CreateTemp
  <2>2. [token |-> "empty", private |-> TRUE] \in File  BY <1>0 DEF File
  <2>3. LoginTypeOK' /\ WritingInv'  BY <2>1, <2>2
  <2>4. QED  BY <2>1, <2>3 DEF TokenFile!TokenFileIsWhole
<1>2. CASE TokenFile!WriteSome(l)
  <2> DEFINE f == [temporary[l] EXCEPT !.token = "half"]
  <2>1. /\ step' = [step EXCEPT ![l] = "half written"] /\ step[l] = "created"
        /\ temporary' = [temporary EXCEPT ![l] = f] /\ UNCHANGED <<confirmed, resolved, tokenFile>>
    BY <1>2 DEF TokenFile!WriteSome
  <2>2. f \in File /\ f.private = temporary[l].private /\ f.token = "half"  BY <1>0 DEF File
  <2> HIDE DEF f
  <2>3. LoginTypeOK' /\ WritingInv'  BY <2>1, <2>2
  <2>4. QED  BY <2>1, <2>3 DEF TokenFile!TokenFileIsWhole
<1>3. CASE TokenFile!WriteRest(l)
  <2> DEFINE f == [temporary[l] EXCEPT !.token = l]
  <2>1. /\ step' = [step EXCEPT ![l] = "written"] /\ step[l] = "half written"
        /\ temporary' = [temporary EXCEPT ![l] = f] /\ UNCHANGED <<confirmed, resolved, tokenFile>>
    BY <1>3 DEF TokenFile!WriteRest
  <2>2. f \in File /\ f.private = temporary[l].private /\ f.token = l  BY <1>0 DEF File
  <2> HIDE DEF f
  <2>3. LoginTypeOK' /\ WritingInv'  BY <2>1, <2>2
  <2>4. QED  BY <2>1, <2>3 DEF TokenFile!TokenFileIsWhole
<1>4. CASE TokenFile!Rename(l)
  <2>1. step' = [step EXCEPT ![l] = "done"] /\ step[l] = "written" /\ tokenFile' = temporary[l]
        /\ temporary' = [temporary EXCEPT ![l] = [token |-> "none", private |-> TRUE]]
        /\ UNCHANGED <<confirmed, resolved>>
    BY <1>4 DEF TokenFile!Rename
  <2>2. [token |-> "none", private |-> TRUE] \in File  BY <1>0 DEF File
  <2>3. LoginTypeOK' /\ WritingInv'  BY <2>1, <2>2
  <2>4. tokenFile'.token = l /\ tokenFile'.private /\ l \in confirmed  BY <2>1
  <2>5. QED  BY <2>1, <2>3, <2>4 DEF TokenFile!TokenFileIsWhole
<1>5. CASE TokenFile!WriteFails(l)
  <2>1. step' = [step EXCEPT ![l] = "failed"] /\ tokenFile' = tokenFile
        /\ temporary' = [temporary EXCEPT ![l] = [token |-> "none", private |-> TRUE]]
        /\ UNCHANGED <<confirmed, resolved>>
    BY <1>5 DEF TokenFile!WriteFails
  <2>2. [token |-> "none", private |-> TRUE] \in File  BY <1>0 DEF File
  <2>3. LoginTypeOK' /\ WritingInv'  BY <2>1, <2>2
  <2>4. QED  BY <2>1, <2>3 DEF TokenFile!TokenFileIsWhole
<1>6. QED  BY <1>1, <1>2, <1>3, <1>4, <1>5 DEF WriteStep

(* The daemon that resolves its token reads the file and changes nothing.  *)
LEMMA ServeKeeps ==
    ASSUME LoginInv, TokenFile!ResolveInline \/ TokenFile!StatTokenFile \/ TokenFile!ReadTokenFile
    PROVE  LoginInv'
<1>1. UNCHANGED <<step, confirmed, temporary, tokenFile>>
  BY DEF TokenFile!ResolveInline, TokenFile!StatTokenFile, TokenFile!ReadTokenFile, TokenFile!ServeOnly
<1>2. \/ resolved' \in {resolved, "inline"}
      \/ resolved' = tokenFile.token /\ tokenFile.token # "blank"
  BY DEF TokenFile!ResolveInline, TokenFile!StatTokenFile, TokenFile!ReadTokenFile
<1>3. TokenFile!TokenFileIsWhole'  BY <1>1, <1>2 DEF LoginInv, TokenFile!TokenFileIsWhole
<1>4. QED  BY <1>1, <1>3 DEF LoginInv, LoginTypeOK, WritingInv

(* Wherever logins are cut, the token file is what it was or the whole     *)
(* token of a confirmed user, private to its owner; and so is any token    *)
(* that a daemon reads meanwhile.                                          *)
THEOREM TokenFileStaysWhole == TokenFile!Spec => []TokenFileIsWhole
<1>1. TokenFile!Init => LoginInv  BY TokenFileInit
<1>2. LoginInv /\ [TokenFile!Next]_(TokenFile!loginVars) => LoginInv'
  <2> SUFFICES ASSUME LoginInv, [TokenFile!Next]_(TokenFile!loginVars) PROVE LoginInv'  OBVIOUS
  <2>1. ASSUME NEW l \in Logins, FlowStep(l) PROVE LoginInv'  BY <2>1, FlowKeeps
  <2>2. ASSUME NEW l \in Logins, WriteStep(l) PROVE LoginInv'  BY <2>2, WriteKeeps
  <2>3. CASE TokenFile!ResolveInline \/ TokenFile!StatTokenFile \/ TokenFile!ReadTokenFile
    BY <2>3, ServeKeeps
  <2>4. CASE UNCHANGED TokenFile!loginVars
    BY <2>4 DEF TokenFile!loginVars, LoginInv, LoginTypeOK, WritingInv, TokenFile!TokenFileIsWhole
  <2>5. QED  BY <2>1, <2>2, <2>3, <2>4 DEF TokenFile!Next, FlowStep, WriteStep
<1>3. LoginInv => TokenFileIsWhole  BY DEF LoginInv, TokenFileIsWhole
<1>4. QED  BY <1>1, <1>2, <1>3, PTL DEF TokenFile!Spec
=============================================================================
