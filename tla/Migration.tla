----------------------------- MODULE Migration -----------------------------
(***************************************************************************)
(* The runtime executor: operators that apply the migration candidates to  *)
(* one PostgreSQL database, each candidate and its row of the history in   *)
(* one transaction.                                                        *)
(*                                                                         *)
(* PostgreSQL is modelled at READ COMMITTED by what the executor relies    *)
(* on: a transaction is atomic, an object or a history key that another    *)
(* open transaction is creating makes the statement wait, and one that     *)
(* exists makes it fail.  A statement may also fail by itself (a deadlock  *)
(* the server breaks is such a failure), a connection may be lost, with    *)
(* the commit under way done or not, and an operator's process may end.    *)
(***************************************************************************)
EXTENDS Naturals, FiniteSets

CONSTANTS
    Operators,      \* processes that run the executor
    N,              \* the candidates of the manifest (9)
    AuditFrom,      \* the candidate that installs the history's audit trigger (7)
    FixAt,          \* the one that repairs the function it calls (9)
    Environment,    \* of the target: DISPOSABLE_LOCAL or STAGING
    MaxRuns,        \* bound: runs started
    MaxFaults,      \* bound: failures, lost connections and crashes
    MaxEdits,       \* bound: changes of the candidate files on disk
    None

Candidates == 1..N

ASSUME MigrationAssumption ==
    /\ N \in Nat \ {0} /\ AuditFrom \in 2..N /\ FixAt \in AuditFrom + 1..N
    /\ Environment \in {"DISPOSABLE_LOCAL", "STAGING"}
    /\ MaxRuns \in Nat /\ MaxFaults \in Nat /\ MaxEdits \in Nat
    /\ None \notin {"APPLIED", "BLOCKED", "VALIDATION_PASS", "VALIDATION_FAILED", "VALIDATION_BLOCKED"}

VARIABLES
    rows,       \* committed: governance.schema_migrations, by candidate
    objects,    \* committed: the candidates whose objects exist
    ran,        \* committed: the text each candidate was applied from, or None
    text,       \* the candidate files on disk: as hashed in the manifest, or not
    pc,         \* [operator -> where its run is]
    cand,       \* [operator -> the candidate in progress]
    tx,         \* [operator -> its uncommitted changes]
    result,     \* [operator -> the report being built]
    runs, faults, edits

dbVars == <<rows, objects, ran>>
boundVars == <<runs, faults, edits>>
vars == <<rows, objects, ran, text, pc, cand, tx, result, runs, faults, edits>>

RowStates == {"APPLIED", "BLOCKED", None}
Texts == {"manifest", "edited"}
Phases == {"idle", "connect", "history", "sql", "record", "commit", "note",
           "postflight", "validate", "done"}
Modes == {"PLAN_ONLY", "DRY_RUN", "APPLY", "PRODUCTION_APPLY"}
Validated == {"VALIDATION_PASS", "VALIDATION_FAILED", "VALIDATION_BLOCKED"}
Statuses == Validated \cup {"PLANNED", "DRY_RUN_READY", "BLOCKED", None}

NoTx == [ddl |-> {}, row |-> None, from |-> "manifest"]
NoResult == [status |-> None, migrations |-> None, applied |-> {}, ready |-> FALSE]

Init ==
    /\ rows = [c \in Candidates |-> None]
    /\ objects = {}
    /\ ran = [c \in Candidates |-> None]
    /\ text = "manifest"
    /\ pc = [o \in Operators |-> "idle"]
    /\ cand = [o \in Operators |-> 1]
    /\ tx = [o \in Operators |-> NoTx]
    /\ result = [o \in Operators |-> NoResult]
    /\ runs = 0 /\ faults = 0 /\ edits = 0

----------------------------------------------------------------------------
(* The history and the database.                                           *)

Applied == {c \in Candidates : rows[c] = "APPLIED"}
Recorded == {c \in Candidates : rows[c] # None}

\* _validated_history_prefix finds no issue.
ValidHistory == Recorded = Applied /\ Recorded = 1..Cardinality(Recorded)

\* to_regclass('governance.schema_migrations'); candidate 1 creates it.
HistoryTable == 1 \in objects

\* An insert into the history fires an audit trigger whose function cannot
\* run: it calls public.digest, and pgcrypto is in extensions.
AuditBreaks(o) ==
    LET seen == objects \cup tx[o].ddl
    IN  AuditFrom \in seen /\ FixAt \notin seen

\* _history_trigger_policy, for the candidates it is given to.
Bypassed(c) == Environment = "DISPOSABLE_LOCAL" /\ c \in AuditFrom..FixAt - 1

\* Another operator's open transaction is creating the same objects, or has
\* inserted the same key.
WaitsForObjects(o) == \E p \in Operators \ {o} : cand[o] \in tx[p].ddl
WaitsForRow(o) == \E p \in Operators \ {o} : tx[p].row # None /\ cand[p] = cand[o]

----------------------------------------------------------------------------
(* A run of the executor.                                                  *)

Goto(o, phase) == pc' = [pc EXCEPT ![o] = phase]
RollBack(o) == tx' = [tx EXCEPT ![o] = NoTx]

\* The report of a run that is over; its connection is closed.
Finish(o, status) ==
    /\ Goto(o, "done")
    /\ result' = [result EXCEPT ![o].status = status]
    /\ RollBack(o)

\* plan: the files on disk have the hashes of the manifest, and the mode is
\* not the production one.
PlanStatus(mode) ==
    IF text # "manifest" \/ mode = "PRODUCTION_APPLY" THEN "BLOCKED"
    ELSE IF mode = "PLAN_ONLY" THEN "PLANNED" ELSE "DRY_RUN_READY"

\* Only a plan for APPLY that nothing blocks goes on to connect.
Start(o, mode) ==
    /\ pc[o] = "idle" /\ runs < MaxRuns
    /\ runs' = runs + 1
    /\ IF mode = "APPLY" /\ PlanStatus(mode) # "BLOCKED"
       THEN Goto(o, "connect") /\ UNCHANGED result
       ELSE /\ Goto(o, "done")
            /\ result' = [result EXCEPT ![o].status = PlanStatus(mode)]
    /\ UNCHANGED <<dbVars, text, cand, tx, faults, edits>>

\* No settings, no driver, no connection, or a target that is not the one
\* described (RPF-01 to 04, 06, 08, 09).
Unavailable(o) ==
    /\ pc[o] = "connect"
    /\ Finish(o, "BLOCKED")
    /\ UNCHANGED <<dbVars, text, cand, boundVars>>

\* RPF-05.  The two reads of the history are taken as one, the later.
Preflight(o) ==
    /\ pc[o] = "connect"
    /\ IF ValidHistory THEN Goto(o, "history") /\ UNCHANGED <<result, tx>>
       ELSE Finish(o, "BLOCKED")
    /\ UNCHANGED <<dbVars, text, cand, boundVars>>

\* _apply_candidates reads the history again and takes what is left of it.
ReadHistory(o) ==
    /\ pc[o] = "history"
    /\ IF ~ValidHistory THEN Finish(o, "BLOCKED") /\ UNCHANGED cand
       ELSE IF Applied = Candidates
       THEN /\ Goto(o, "postflight")
            /\ result' = [result EXCEPT ![o].migrations = "ALREADY_APPLIED"]
            /\ UNCHANGED <<cand, tx>>
       ELSE /\ Goto(o, "sql")
            /\ cand' = [cand EXCEPT ![o] = Cardinality(Applied) + 1]
            /\ UNCHANGED <<result, tx>>
    /\ UNCHANGED <<dbVars, text, boundVars>>

\* Mutant: each statement commits by itself, so the objects are there at once.
ExecuteSql_Autocommit(o) ==
    /\ pc[o] = "sql" /\ ~WaitsForObjects(o)
    /\ cand[o] \notin objects
    /\ objects' = objects \cup {cand[o]}
    /\ tx' = [tx EXCEPT ![o].from = text]
    /\ Goto(o, "record")
    /\ UNCHANGED <<rows, ran, text, cand, result, boundVars>>

\* The file is read here, not where its hash was verified.
ExecuteSql(o) ==
    /\ pc[o] = "sql" /\ ~WaitsForObjects(o)
    /\ cand[o] \notin objects
    /\ tx' = [tx EXCEPT ![o].ddl = {cand[o]}, ![o].from = text]
    /\ Goto(o, "record")
    /\ UNCHANGED <<dbVars, text, cand, result, boundVars>>

\* Mutant: a failed candidate is tried again.
Fail_Retries(o) == RollBack(o) /\ Goto(o, "sql") /\ UNCHANGED result

\* The handler of an exception: roll back, then try to record the failure.
Fail(o) ==
    /\ RollBack(o)
    /\ Goto(o, "note")
    /\ result' = [result EXCEPT ![o].migrations =
                    IF pc[o] = "sql" THEN "FAILED" ELSE "PARTIAL_FAIL"]

\* The objects exist: another operator has applied the candidate meanwhile.
ExecuteFails(o) ==
    /\ pc[o] = "sql" /\ ~WaitsForObjects(o)
    /\ cand[o] \in objects
    /\ Fail(o)
    /\ UNCHANGED <<dbVars, text, cand, boundVars>>

\* _record_history, in the transaction of the candidate.
RecordHistory(o) ==
    /\ pc[o] = "record" /\ ~WaitsForRow(o)
    /\ rows[cand[o]] = None
    /\ AuditBreaks(o) => Bypassed(cand[o])
    /\ tx' = [tx EXCEPT ![o].row = "APPLIED"]
    /\ Goto(o, "commit")
    /\ UNCHANGED <<dbVars, text, cand, result, boundVars>>

\* The key exists, or the audit trigger raises.
RecordFails(o) ==
    /\ pc[o] = "record" /\ ~WaitsForRow(o)
    /\ rows[cand[o]] # None \/ (AuditBreaks(o) /\ ~Bypassed(cand[o]))
    /\ Fail(o)
    /\ UNCHANGED <<dbVars, text, cand, boundVars>>

\* What the server does with a transaction that is committed.
Committed(o) ==
    /\ rows' = [rows EXCEPT ![cand[o]] = tx[o].row]
    /\ objects' = objects \cup tx[o].ddl
    /\ ran' = [ran EXCEPT ![cand[o]] = tx[o].from]

Commit(o) ==
    /\ pc[o] = "commit"
    /\ Committed(o)
    /\ RollBack(o)
    /\ IF cand[o] = N
       THEN /\ Goto(o, "postflight") /\ UNCHANGED cand
            /\ result' = [result EXCEPT ![o].applied = @ \cup {N}, ![o].migrations = "PASS"]
       ELSE /\ Goto(o, "sql")
            /\ cand' = [cand EXCEPT ![o] = @ + 1]
            /\ result' = [result EXCEPT ![o].applied = @ \cup {cand[o]}]
    /\ UNCHANGED <<text, boundVars>>

\* Mutant: the row is overwritten when there is one (ON CONFLICT DO UPDATE).
NoteFailure_Overwrites(o) ==
    /\ pc[o] = "note" /\ ~WaitsForRow(o)
    /\ HistoryTable /\ ~AuditBreaks(o)
    /\ rows' = [rows EXCEPT ![cand[o]] = "BLOCKED"]
    /\ Finish(o, "BLOCKED")
    /\ UNCHANGED <<objects, ran, text, cand, boundVars>>

\* _try_record_failure: a BLOCKED row, in a transaction of its own.
NoteFailure(o) ==
    /\ pc[o] = "note" /\ ~WaitsForRow(o)
    /\ HistoryTable /\ rows[cand[o]] = None /\ ~AuditBreaks(o)
    /\ rows' = [rows EXCEPT ![cand[o]] = "BLOCKED"]
    /\ Finish(o, "BLOCKED")
    /\ UNCHANGED <<objects, ran, text, cand, boundVars>>

\* There is no table, or the insert raises and the exception is dropped.
NoteIsLost(o) ==
    /\ pc[o] = "note"
    /\ \/ ~HistoryTable
       \/ ~WaitsForRow(o) /\ (rows[cand[o]] # None \/ AuditBreaks(o))
    /\ Finish(o, "BLOCKED")
    /\ UNCHANGED <<dbVars, text, cand, boundVars>>

Postflight(o) ==
    /\ pc[o] = "postflight"
    /\ IF ValidHistory /\ Recorded = Candidates
       THEN Goto(o, "validate") /\ UNCHANGED <<result, tx>>
       ELSE Finish(o, "BLOCKED")
    /\ UNCHANGED <<dbVars, text, cand, boundVars>>

\* The schema checks and the runtime cases; ready is staging_readiness.
Validate(o) ==
    /\ pc[o] = "validate"
    /\ \E s \in Validated, ready \in BOOLEAN :
          /\ ready => s = "VALIDATION_PASS"
          /\ result' = [result EXCEPT ![o].status = s, ![o].ready = ready]
    /\ Goto(o, "done") /\ RollBack(o)
    /\ UNCHANGED <<dbVars, text, cand, boundVars>>

\* The process ends, and with it all it knew.
Ends(o) ==
    /\ Goto(o, "idle")
    /\ RollBack(o)
    /\ cand' = [cand EXCEPT ![o] = 1]
    /\ result' = [result EXCEPT ![o] = NoResult]

\* The report is printed.
Exit(o) ==
    /\ pc[o] = "done"
    /\ Ends(o)
    /\ UNCHANGED <<dbVars, text, boundVars>>

----------------------------------------------------------------------------
(* What may go wrong.                                                      *)

Fault == faults < MaxFaults /\ faults' = faults + 1

\* A statement of the candidate, its insert or its commit raises.
StatementFails(o) ==
    /\ pc[o] \in {"sql", "record", "commit"} /\ Fault
    /\ Fail(o)
    /\ UNCHANGED <<dbVars, text, cand, runs, edits>>

\* The rollback of the handler raises as well, so nothing is recorded.
ConnectionLost(o) ==
    /\ pc[o] \in {"history", "sql", "record", "commit", "note", "postflight"} /\ Fault
    /\ \/ UNCHANGED dbVars
       \/ pc[o] = "commit" /\ Committed(o)
    /\ Finish(o, "BLOCKED")
    /\ UNCHANGED <<text, cand, runs, edits>>

Crash(o) ==
    /\ pc[o] # "idle" /\ Fault
    /\ \/ UNCHANGED dbVars
       \/ pc[o] = "commit" /\ Committed(o)
    /\ Ends(o)
    /\ UNCHANGED <<text, runs, edits>>

\* Someone changes a candidate file, or puts it back.
EditFiles ==
    /\ edits < MaxEdits /\ edits' = edits + 1
    /\ text' = IF text = "manifest" THEN "edited" ELSE "manifest"
    /\ UNCHANGED <<dbVars, pc, cand, tx, result, runs, faults>>

----------------------------------------------------------------------------

\* The steps a run takes by itself.
Advance(o) ==
    \/ Unavailable(o) \/ Preflight(o) \/ ReadHistory(o)
    \/ ExecuteSql(o) \/ ExecuteFails(o) \/ RecordHistory(o) \/ RecordFails(o)
    \/ Commit(o) \/ NoteFailure(o) \/ NoteIsLost(o)
    \/ Postflight(o) \/ Validate(o)

Begin(o) == \E mode \in Modes : Start(o, mode)

Faults(o) == StatementFails(o) \/ ConnectionLost(o) \/ Crash(o)

Next ==
    \/ \E o \in Operators : Begin(o) \/ Advance(o) \/ Exit(o) \/ Faults(o)
    \/ EditFiles

Spec == Init /\ [][Next]_vars

\* A run's process is scheduled and the database answers it; nobody need start
\* a run, and nothing need go wrong.
Fairness == \A o \in Operators : WF_vars(Advance(o) \/ Exit(o))

FairSpec == Spec /\ Fairness

----------------------------------------------------------------------------
(* Properties.                                                             *)

TypeOK ==
    /\ rows \in [Candidates -> RowStates]
    /\ objects \subseteq Candidates
    /\ ran \in [Candidates -> Texts \cup {None}]
    /\ text \in Texts
    /\ pc \in [Operators -> Phases]
    /\ cand \in [Operators -> Candidates]
    /\ tx \in [Operators -> [ddl : SUBSET Candidates, row : {"APPLIED", None}, from : Texts]]
    /\ result \in [Operators -> [status : Statuses,
                                 migrations : {"ALREADY_APPLIED", "PASS", "FAILED", "PARTIAL_FAIL", None},
                                 applied : SUBSET Candidates,
                                 ready : BOOLEAN]]
    /\ runs \in 0..MaxRuns /\ faults \in 0..MaxFaults /\ edits \in 0..MaxEdits

\* The history is a prefix of the manifest, followed by at most one recorded
\* failure, however many operators insert into it.
HistoryIsPrefix ==
    \A c \in Candidates :
        /\ rows[c] # None => \A d \in 1..c - 1 : rows[d] = "APPLIED"

\* The objects of a candidate exist exactly when its row says APPLIED: neither
\* a failure nor a crash separates the DDL from its history.
ObjectsMatchHistory == objects = Applied

\* A recorded failure is the end: not even an operator that was past its
\* preflight adds anything to the database.
FailureIsFinal == [][(\E c \in Candidates : rows[c] = "BLOCKED") => UNCHANGED dbVars]_vars

\* A report that reached the validations is about a database that has every
\* candidate, and what a run reports as applied is in the history.
ReportsAreTrue ==
    \A o \in Operators :
        /\ result[o].applied \subseteq Applied
        /\ result[o].status \in Validated \/ result[o].ready => objects = Candidates

\* No candidate is reported as applied by two runs.
AppliedByOneRun ==
    \A o, p \in Operators : o # p => result[o].applied \cap result[p].applied = {}

\* Every run that is started ends, though operators wait for each other.
RunsEnd == \A o \in Operators : pc[o] # "idle" ~> pc[o] = "idle"

\* The history implements the abstract ledger.
Ledger == INSTANCE CandidateLedger WITH
    applied <- Cardinality(Applied), closed <- Recorded # Applied
ImplementsLedger == Ledger!Spec

\* docs/V4_RUNTIME_EXECUTOR.md: on failure it records a separate BLOCKED row
\* when the history table is available.  A run whose handler got that far
\* leaves a row for the candidate it failed at.
FailuresAreRecorded ==
    \A o \in Operators :
        pc[o] = "done" /\ result[o].migrations \in {"FAILED", "PARTIAL_FAIL"} /\ HistoryTable =>
            rows[cand[o]] # None

\* Every candidate was applied from the text whose hash was verified.
AppliedAsVerified == \A c \in Applied : ran[c] = "manifest"

\* What is recorded, what exists and what is reported never part: whatever two
\* operators and one fault do, in the database and in their reports.
RecordsAgree == HistoryIsPrefix /\ ObjectsMatchHistory /\ ReportsAreTrue /\ AppliedByOneRun

\* The history is a ledger that grows in the manifest's order, and a recorded
\* failure is the end of it: not even an operator past its preflight adds to it.
LedgerIsFinal == ImplementsLedger /\ FailureIsFinal
============================================================================
