---------------------------- MODULE UsageDatabase ----------------------------
(***************************************************************************)
(* Opening the usage database (internal/usage/sqlitestore: openStore,      *)
(* prepare*.go, admit, migrate) by several processes, perhaps of different *)
(* builds, that may crash anywhere; and the reports that read it meanwhile *)
(* (internal/usage/report/read.go).                                        *)
(*                                                                         *)
(* SQLite is external and kept to what the code relies on: one immediate   *)
(* transaction at a time, nothing of a transaction visible before COMMIT   *)
(* or after a crash, and a read transaction that sees the state of its     *)
(* first read.  A batch of Turns goes to both native tables in one         *)
(* transaction, so the number of batches stands for both tables' rows.     *)
(***************************************************************************)
EXTENDS Naturals, Sequences, FiniteSets

CONSTANTS
    Openers, Readers,
    Supports,           \* len(migrationNames) in the build of each of them
    Newest,             \* bound: the newest schema a database may have had
    MaxBatches, MaxCrashes

ASSUME BuildsAreVersioned == Supports \in [Openers \cup Readers -> Nat]

Nobody == "nobody"
Outside == "outside"    \* a process that is not copilotd, with the lock

ASSUME ProcessesHaveNames == Openers \cap {Nobody, Outside} = {}
ASSUME BoundsAreNumbers   == Newest \in Nat

VARIABLES
    parent, file,       \* "absent", "private", "open" to others, or "irregular"
    database,           \* what is committed: the version, the scripts, the batches
    holder,             \* who has the immediate transaction
    pc, expired,        \* each opening, and whether its startup budget is spent
    transaction,        \* of each: the version that it read, the scripts it applied
    report, snapshot, sections,     \* each report, its transaction, what it has read
    crashes

NoTransaction == [version |-> 0, applied |-> <<>>]
BegunOn(d) == [version |-> d.version, applied |-> <<>>]

pathVars   == <<parent, file>>
openVars   == <<pc, expired, transaction>>
readVars   == <<report, snapshot, sections>>
databaseVars == <<pathVars, database, holder, openVars, readVars, crashes>>

Init ==
    /\ parent \in {"absent", "private", "open", "irregular"}
    /\ file \in IF parent = "absent" THEN {"absent"} ELSE {"absent", "private", "open", "irregular"}
    /\ \E v \in IF file = "absent" THEN {0} ELSE 0 .. Newest :
           database = [version |-> v, scripts |-> [i \in 1 .. v |-> i], batches |-> 0]
    /\ holder \in {Nobody, Outside}
    /\ pc = [o \in Openers |-> "entered"] /\ expired = [o \in Openers |-> FALSE]
    /\ transaction = [o \in Openers |-> NoTransaction]
    /\ report = [r \in Readers |-> "asked"]
    /\ snapshot = [r \in Readers |-> database] /\ sections = [r \in Readers |-> <<>>]
    /\ crashes = 0

OpenerOnly == UNCHANGED <<readVars, crashes>>
Goes(o, from, to) == pc[o] = from /\ pc' = [pc EXCEPT ![o] = to]

-----------------------------------------------------------------------------
(* preparePrivateDatabase.                                                 *)

CheckParent(o) ==
    /\ \/ parent = "absent" /\ Goes(o, "entered", "making")
       \/ parent = "private" /\ Goes(o, "entered", "creating")
       \/ parent \in {"open", "irregular"} /\ Goes(o, "entered", "failed")
    /\ UNCHANGED <<pathVars, database, holder, expired, transaction>> /\ OpenerOnly

(* MkdirAll takes a directory that is there; what is there is looked at.   *)
MakeParent(o) ==
    /\ parent' = IF parent = "absent" THEN "private" ELSE parent
    /\ Goes(o, "making", IF parent' = "private" THEN "creating" ELSE "failed")
    /\ UNCHANGED <<file, database, holder, expired, transaction>> /\ OpenerOnly

PrepareMainFile(o) ==
    /\ file' = IF file = "absent" THEN "private" ELSE file
    /\ Goes(o, "creating", IF file' = "private" THEN "admitting" ELSE "failed")
    /\ UNCHANGED <<parent, database, holder, expired, transaction>> /\ OpenerOnly

(* Lstat, MkdirAll or OpenFile fails for another reason.                   *)
PrepareFails(o) ==
    /\ pc[o] \in {"entered", "making", "creating"} /\ Goes(o, pc[o], "failed")
    /\ UNCHANGED <<pathVars, database, holder, expired, transaction>> /\ OpenerOnly

-----------------------------------------------------------------------------
(* admit and attemptAdmission.                                             *)

NotADeadline(o) == FALSE    \* Mutant: only a free lock ends the loop.
OverBudget(o) == expired[o]

Admitting == {"admitting", "configuring", "acquiring", "backing off"}

Expire(o) ==
    /\ pc[o] \in Admitting /\ ~expired[o]
    /\ expired' = [expired EXCEPT ![o] = TRUE]
    /\ UNCHANGED <<pathVars, database, holder, pc, transaction>> /\ OpenerOnly

AttemptOnly == UNCHANGED <<pathVars, database, expired>> /\ OpenerOnly

OutOfBudget(o) ==
    /\ OverBudget(o) /\ pc[o] \in {"admitting", "configuring", "acquiring"}
    /\ Goes(o, pc[o], "failed")
    /\ UNCHANGED <<holder, transaction>> /\ AttemptOnly

StartAttempt(o) ==
    /\ ~OverBudget(o) /\ Goes(o, "admitting", "configuring")
    /\ UNCHANGED <<holder, transaction>> /\ AttemptOnly

(* Another connection may keep the WAL or synchronous pragma busy; any     *)
(* other error ends the opening.                                           *)
Configure(o) ==
    /\ ~OverBudget(o)
    /\ \E to \in {"acquiring", "backing off", "failed"} : Goes(o, "configuring", to)
    /\ UNCHANGED <<holder, transaction>> /\ AttemptOnly

(* Mutant: BEGIN, which takes no lock.                                     *)
BeginDeferred(o) ==
    /\ ~OverBudget(o) /\ Goes(o, "acquiring", "migrating")
    /\ holder' = o /\ transaction' = [transaction EXCEPT ![o] = BegunOn(database)]
    /\ AttemptOnly

(* BEGIN IMMEDIATE; busy once the handler has waited its time, or broken.  *)
BeginImmediate(o) ==
    /\ ~OverBudget(o)
    /\ \/ /\ holder = Nobody /\ Goes(o, "acquiring", "migrating")
          /\ holder' = o /\ transaction' = [transaction EXCEPT ![o] = BegunOn(database)]
       \/ /\ \/ holder # Nobody /\ Goes(o, "acquiring", "backing off")
             \/ Goes(o, "acquiring", "failed")
          /\ UNCHANGED <<holder, transaction>>
    /\ AttemptOnly

BackOff(o) ==
    /\ Goes(o, "backing off", "admitting")
    /\ UNCHANGED <<holder, transaction>> /\ AttemptOnly

-----------------------------------------------------------------------------
(* migrateAcquired, in the transaction, under no deadline: a failure here  *)
(* is not tried again.                                                     *)

Ends(o, to) ==
    /\ Goes(o, "migrating", to)
    /\ holder' = Nobody /\ transaction' = [transaction EXCEPT ![o] = NoTransaction]
    /\ UNCHANGED <<pathVars, expired>> /\ OpenerOnly

IsNewer(o) == transaction[o].version > Supports[o]
Reached(o) == transaction[o].version + Len(transaction[o].applied)

RollBack(o) == Ends(o, "failed") /\ UNCHANGED database

ApplyMigration(o) ==
    /\ pc[o] = "migrating" /\ ~IsNewer(o) /\ Reached(o) < Supports[o]
    /\ transaction' = [transaction EXCEPT ![o].applied = Append(@, Reached(o) + 1)]
    /\ UNCHANGED <<pathVars, database, holder, pc, expired>> /\ OpenerOnly

(* The version goes with the scripts; the runtime busy timeout, set after  *)
(* COMMIT, may still fail the opening.                                     *)
Commit(o) ==
    /\ ~IsNewer(o) /\ Reached(o) >= Supports[o]
    /\ database' = [database EXCEPT !.version = Supports[o],
                                    !.scripts = @ \o transaction[o].applied]
    /\ Ends(o, "open") \/ Ends(o, "failed")

-----------------------------------------------------------------------------
(* What goes on around an opening: the batches of the stores that are      *)
(* open, the lock of somebody else, and crashes.                           *)

BeginBatch(o) ==
    /\ holder = Nobody /\ database.batches < MaxBatches
    /\ Goes(o, "open", "writing") /\ holder' = o
    /\ UNCHANGED <<pathVars, database, expired, transaction>> /\ OpenerOnly

CommitBatch(o) ==
    /\ Goes(o, "writing", "open") /\ holder' = Nobody
    /\ database' = [database EXCEPT !.batches = @ + 1]
    /\ UNCHANGED <<pathVars, expired, transaction>> /\ OpenerOnly

OutsideReleases ==
    /\ holder = Outside /\ holder' = Nobody
    /\ UNCHANGED <<pathVars, database, openVars>> /\ OpenerOnly

(* The process dies, at any point, and is started again.                   *)
Crash(o) ==
    /\ pc[o] # "entered" /\ crashes < MaxCrashes /\ crashes' = crashes + 1
    /\ pc' = [pc EXCEPT ![o] = "entered"] /\ expired' = [expired EXCEPT ![o] = FALSE]
    /\ transaction' = [transaction EXCEPT ![o] = NoTransaction]
    /\ holder' = IF holder = o THEN Nobody ELSE holder
    /\ UNCHANGED <<pathVars, database, readVars>>

-----------------------------------------------------------------------------
(* Reporter.read: one read-only connection, one deferred transaction for   *)
(* the version, the probes and both sections.                              *)

ReaderOnly == UNCHANGED <<pathVars, database, holder, openVars, crashes>>

CheckVersion(r) ==
    /\ report[r] = "asked" /\ file # "absent"
    /\ snapshot' = [snapshot EXCEPT ![r] = database]
    /\ report' = [report EXCEPT ![r] =
           IF database.version = Supports[r] THEN "reading" ELSE "refused"]
    /\ UNCHANGED sections /\ ReaderOnly

(* Mutant: no BEGIN, so each query sees the latest commit.                 *)
ReadSectionUnbegun(r) ==
    /\ report[r] = "reading"
    /\ sections' = [sections EXCEPT ![r] = Append(@, database)]
    /\ report' = [report EXCEPT ![r] = IF Len(sections'[r]) = 2 THEN "reported" ELSE @]
    /\ UNCHANGED snapshot /\ ReaderOnly

(* anthropic, then openai.                                                 *)
ReadSection(r) ==
    /\ report[r] = "reading"
    /\ sections' = [sections EXCEPT ![r] = Append(@, snapshot[r])]
    /\ report' = [report EXCEPT ![r] = IF Len(sections'[r]) = 2 THEN "reported" ELSE @]
    /\ UNCHANGED snapshot /\ ReaderOnly

(* No database, a lock longer than the wait, or the request's context.     *)
ReadFails(r) ==
    /\ report[r] \in {"asked", "reading"}
    /\ report' = [report EXCEPT ![r] = "failed"]
    /\ UNCHANGED <<snapshot, sections>> /\ ReaderOnly

-----------------------------------------------------------------------------
OpenStep(o) ==
    \/ CheckParent(o) \/ MakeParent(o) \/ PrepareMainFile(o) \/ PrepareFails(o)
    \/ OutOfBudget(o) \/ StartAttempt(o) \/ Configure(o) \/ BeginImmediate(o) \/ BackOff(o)
    \/ RollBack(o) \/ ApplyMigration(o) \/ Commit(o) \/ CommitBatch(o)

Next ==
    \/ \E o \in Openers : OpenStep(o) \/ Expire(o) \/ BeginBatch(o) \/ Crash(o)
    \/ \E r \in Readers : CheckVersion(r) \/ ReadSection(r) \/ ReadFails(r)
    \/ OutsideReleases

(* A process goes on and its clock runs; nobody else's lock need be freed. *)
Fairness == \A o \in Openers : WF_databaseVars(OpenStep(o)) /\ WF_databaseVars(Expire(o))

Spec == Init /\ [][Next]_databaseVars /\ Fairness

-----------------------------------------------------------------------------
(* Through every crash, race and mix of builds, what is committed is the   *)
(* scripts up to the version, each once and in order; and a store that is  *)
(* open has at least its own build's schema, in a file nobody else reads.  *)
SchemaIsVersioned == database.scripts = [i \in 1 .. database.version |-> i]

OpenIsReady ==
    \A o \in Openers : pc[o] \in {"open", "writing"} =>
        parent = "private" /\ file = "private" /\ database.version >= Supports[o]

OpenedOnSchema == SchemaIsVersioned /\ OpenIsReady

(* A report's two sections are of one moment and of the schema its build   *)
(* knows, whatever is written or migrated while it reads.                  *)
ReportIsOneSnapshot ==
    \A r \in Readers : report[r] = "reported" =>
        sections[r][1] = sections[r][2] /\ sections[r][1].version = Supports[r]

(* Every opening ends, though the lock be never free: within its budget.   *)
OpeningEnds ==
    \A o \in Openers : pc[o] \in Admitting ~> (pc[o] \notin Admitting)
=============================================================================
