---------------------------- MODULE RuntimeCases ----------------------------
(***************************************************************************)
(* The runtime validation cases: runners that create the roles they need,  *)
(* run every case in a transaction that is rolled back, and remove the     *)
(* roles again.  Roles and memberships belong to the whole server, so      *)
(* runners on any of its databases share them.                             *)
(***************************************************************************)
EXTENDS Naturals, Sequences

CONSTANTS
    Runners,
    Roles,          \* DISPOSABLE_ROLE_NAMES
    CaseCount,      \* the cases of the catalog, known by their places in it
    Rejected,       \* those expected to be rejected
    MaxRuns,        \* bound: runs of the cases
    MaxFaults,      \* bound: failures, lost connections and crashes
    None

CaseIds == 1..CaseCount

ASSUME CasesAssumption ==
    /\ CaseCount \in Nat \ {0} /\ Rejected \subseteq CaseIds
    /\ MaxRuns \in Nat /\ MaxFaults \in Nat
    /\ None \notin {"PASS", "FAIL", "BLOCKED"} \cup Runners

VARIABLES
    roles,      \* the roles that exist
    members,    \* those that are members of service_role
    kept,       \* the cases whose writes were committed
    driver,     \* the driver that is installed; psycopg2's connections have reset()
    maker,      \* [role -> the runner that created it in its present run, or None]
    pc,         \* [runner -> where it is]
    created,    \* [runner -> roles that were absent when it looked]
    granted,    \* [runner -> memberships that were absent when it looked]
    prepared,   \* [runner -> status of its preparation, or None]
    writes,     \* [runner -> the cases with writes in its open transaction]
    usable,     \* [runner -> not _connection_unusable]
    alive,      \* [runner -> the connection is]
    results,    \* [runner -> the results so far]
    cleanup,    \* [runner -> status of its teardown, or None]
    before,     \* [runner -> the roles and members when it began]
    runs, faults

shared == <<roles, members, kept, driver, maker>>

CanReset == driver = "psycopg2"
vars == <<shared, pc, created, granted, prepared, writes, usable,
          alive, results, cleanup, before, runs, faults>>

Phases == {"idle", "look", "create", "verify", "begin", "act", "close",
           "teardown", "revoke", "done"}
PassStatuses == {"PASS_EXPECTED_ACCEPT", "PASS_EXPECTED_REJECT"}
FailStatuses == {"FAIL_UNEXPECTED_ACCEPT", "FAIL_UNEXPECTED_REJECT"}
ResultStatuses == PassStatuses \cup FailStatuses \cup {"BLOCKED_ENVIRONMENT"}

Init ==
    /\ roles \in SUBSET Roles /\ members \in SUBSET roles
    /\ kept = {}
    /\ driver \in {"psycopg", "psycopg2"}
    /\ maker = [a \in Roles |-> None]
    /\ pc = [r \in Runners |-> "idle"]
    /\ created = [r \in Runners |-> {}]
    /\ granted = [r \in Runners |-> {}]
    /\ prepared = [r \in Runners |-> None]
    /\ writes = [r \in Runners |-> {}]
    /\ usable = [r \in Runners |-> TRUE]
    /\ alive = [r \in Runners |-> TRUE]
    /\ results = [r \in Runners |-> <<>>]
    /\ cleanup = [r \in Runners |-> None]
    /\ before = [r \in Runners |-> <<{}, {}>>]
    /\ runs = 0 /\ faults = 0

Goto(r, phase) == pc' = [pc EXCEPT ![r] = phase]
Current(r) == Len(results[r]) + 1

\* What ROLLBACK and COMMIT do to the open transaction.
RollsBack(r) == writes' = [writes EXCEPT ![r] = {}]
Commits(r) ==
    /\ kept' = kept \cup writes[r]
    /\ writes' = [writes EXCEPT ![r] = {}]

----------------------------------------------------------------------------
(* prepare.                                                                *)

Start(r) ==
    /\ pc[r] = "idle" /\ runs < MaxRuns
    /\ runs' = runs + 1
    /\ Goto(r, "look")
    /\ before' = [before EXCEPT ![r] = <<roles, members>>]
    /\ UNCHANGED <<shared, created, granted, prepared, writes, usable, alive,
                   results, cleanup, faults>>

\* Which roles and memberships the runner will take as its own.
Look(r) ==
    /\ pc[r] = "look" /\ alive[r]
    /\ created' = [created EXCEPT ![r] = Roles \ roles]
    /\ granted' = [granted EXCEPT ![r] = Roles \ members]
    /\ Goto(r, "create")
    /\ UNCHANGED <<shared, prepared, writes, usable, alive, results, cleanup, before, runs, faults>>

\* What the server has once the transaction of prepare is committed.
Made(r) ==
    /\ roles' = Roles
    /\ members' = Roles
    /\ maker' = [a \in Roles |-> IF a \in roles THEN maker[a] ELSE r]

\* CREATE ROLE where there is none, GRANT, commit.
Create(r) ==
    /\ pc[r] = "create" /\ alive[r]
    /\ Made(r) /\ Commits(r)
    /\ Goto(r, "verify")
    /\ UNCHANGED <<driver, created, granted, prepared, usable, alive, results, cleanup,
                   before, runs, faults>>

\* With the preparation blocked every case is, without being run.
NotPrepared(r) ==
    /\ prepared' = [prepared EXCEPT ![r] = "BLOCKED"]
    /\ results' = [results EXCEPT ![r] = [n \in CaseIds |-> "BLOCKED_ENVIRONMENT"]]
    /\ Goto(r, "teardown")

\* The roles are read again.
Verify(r) ==
    /\ pc[r] = "verify" /\ alive[r]
    /\ IF roles = Roles /\ members = Roles
       THEN /\ prepared' = [prepared EXCEPT ![r] = "PASS"]
            /\ Goto(r, "begin") /\ UNCHANGED results
       ELSE NotPrepared(r)
    /\ UNCHANGED <<shared, created, granted, writes, usable, alive, cleanup, before, runs, faults>>

\* A statement raises on a dead connection.
PrepareRaises(r) ==
    /\ pc[r] \in {"look", "create", "verify"} /\ ~alive[r]
    /\ NotPrepared(r)
    /\ UNCHANGED <<shared, created, granted, writes, usable, alive, cleanup, before, runs, faults>>

----------------------------------------------------------------------------
(* run_case.                                                               *)

\* _evaluate and _normalize_adapter_result: a rejection counts only with the
\* SQLSTATE and mechanism of the contract, and either only when verified.
Evaluate(c, accepted, matches, verified) ==
    IF c \notin Rejected
    THEN IF ~accepted THEN "FAIL_UNEXPECTED_REJECT"
         ELSE IF verified THEN "PASS_EXPECTED_ACCEPT" ELSE "FAIL_UNEXPECTED_ACCEPT"
    ELSE IF accepted THEN "FAIL_UNEXPECTED_ACCEPT"
         ELSE IF matches /\ verified THEN "PASS_EXPECTED_REJECT" ELSE "FAIL_UNEXPECTED_REJECT"

\* The result of the case in progress; after the last one comes the teardown.
Result(r, status) ==
    /\ results' = [results EXCEPT ![r] = Append(@, status)]
    /\ Goto(r, IF Current(r) = CaseCount THEN "teardown" ELSE "begin")

\* A quarantined connection runs no case.
Quarantined(r) ==
    /\ pc[r] = "begin" /\ ~usable[r]
    /\ Result(r, "BLOCKED_ENVIRONMENT")
    /\ UNCHANGED <<shared, created, granted, prepared, writes, usable, alive, cleanup, before, runs, faults>>

\* CaseContext.begin rolls back first.
BeginCase(r) ==
    /\ pc[r] = "begin" /\ usable[r] /\ alive[r]
    /\ RollsBack(r)
    /\ Goto(r, "act")
    /\ UNCHANGED <<shared, created, granted, prepared, usable, alive, results, cleanup, before, runs, faults>>

\* It raises on a dead connection, and may on a live one, before or after its rollback.
BeginFails(r) ==
    /\ pc[r] = "begin" /\ usable[r]
    /\ ~alive[r] \/ faults < MaxFaults
    /\ faults' = IF alive[r] THEN faults + 1 ELSE faults
    /\ UNCHANGED writes \/ RollsBack(r)
    /\ Goto(r, "close")
    /\ UNCHANGED <<shared, created, granted, prepared, usable, alive, results, cleanup, before, runs>>

\* The handler writes its fixtures as the owner.
Act(r) ==
    /\ pc[r] = "act"
    /\ writes' = [writes EXCEPT ![r] = IF alive[r] THEN @ \cup {Current(r)} ELSE {}]
    /\ Goto(r, "close")
    /\ UNCHANGED <<shared, created, granted, prepared, usable, alive, results, cleanup, before, runs, faults>>

\* A handler that could not set its roles or lost its connection is blocked;
\* otherwise the database answers what it answers.
Outcomes(r) ==
    IF alive[r] /\ writes[r] # {} /\ roles = Roles
    THEN {Evaluate(Current(r), a, m, v) : a, m, v \in BOOLEAN}
    ELSE {"BLOCKED_ENVIRONMENT"}

\* CaseContext.close.
CloseCase(r) ==
    /\ pc[r] = "close" /\ alive[r]
    /\ RollsBack(r)
    /\ \E status \in Outcomes(r) : Result(r, status)
    /\ UNCHANGED <<shared, created, granted, prepared, usable, alive, cleanup, before, runs, faults>>

\* The rollback raises, because the connection is dead or by itself, and there is no
\* reset() or it raises too: the connection is quarantined with what its transaction
\* has, and the case is blocked.
CloseFails(r) ==
    /\ pc[r] = "close"
    /\ ~alive[r] \/ faults < MaxFaults
    /\ faults' = IF alive[r] THEN faults + 1 ELSE faults
    /\ Result(r, "BLOCKED_ENVIRONMENT")
    /\ usable' = [usable EXCEPT ![r] = FALSE]
    /\ UNCHANGED <<shared, created, granted, prepared, writes, alive, cleanup, before, runs>>

\* The rollback raises on a live connection and reset() recovers it.
CloseRecovers(r) ==
    /\ pc[r] = "close" /\ CanReset /\ alive[r] /\ faults < MaxFaults
    /\ faults' = faults + 1
    /\ RollsBack(r)
    /\ \E status \in Outcomes(r) : Result(r, status)
    /\ UNCHANGED <<shared, created, granted, prepared, usable, alive, cleanup, before, runs>>

----------------------------------------------------------------------------
(* teardown and the summary.                                               *)

\* Mutant: what a case left in its transaction stays there.
TeardownRollback_Skipped(r) ==
    /\ pc[r] = "teardown" /\ alive[r]
    /\ Goto(r, "revoke")
    /\ UNCHANGED <<shared, created, granted, prepared, writes, usable, alive, results, cleanup,
                   before, runs, faults>>

\* The transaction is given up first.
TeardownRollback(r) ==
    /\ pc[r] = "teardown" /\ alive[r]
    /\ RollsBack(r)
    /\ Goto(r, "revoke")
    /\ UNCHANGED <<shared, created, granted, prepared, usable, alive, results, cleanup,
                   before, runs, faults>>

\* What the server has once the transaction of teardown is committed.
Removed(r) ==
    /\ roles' = roles \ created[r]
    /\ members' = members \ (granted[r] \cup created[r])

\* REVOKE, DROP IF EXISTS, commit.
Teardown(r) ==
    /\ pc[r] = "revoke" /\ alive[r]
    /\ granted[r] \subseteq roles
    /\ Removed(r) /\ Commits(r)
    /\ cleanup' = [cleanup EXCEPT ![r] = "PASS"]
    /\ Goto(r, "done")
    /\ UNCHANGED <<driver, maker, created, granted, prepared, usable, alive, results, before, runs, faults>>

\* The rollback, REVOKE, which may name a role that does not exist, or another
\* statement raises: the second rollback may raise too, and nothing is committed.
TeardownFails(r) ==
    /\ pc[r] \in {"teardown", "revoke"}
    /\ LET told == ~alive[r] \/ (pc[r] = "revoke" /\ ~(granted[r] \subseteq roles))
       IN  /\ told \/ faults < MaxFaults
           /\ faults' = IF told THEN faults ELSE faults + 1
    /\ UNCHANGED writes \/ RollsBack(r)
    /\ cleanup' = [cleanup EXCEPT ![r] = "FAIL"]
    /\ Goto(r, "done")
    /\ UNCHANGED <<shared, created, granted, prepared, usable, alive, results, before, runs>>

\* Mutant: a run whose cleanup failed may pass.
Status_IgnoresCleanup(r) ==
    IF \A n \in DOMAIN results[r] : results[r][n] \in PassStatuses THEN "PASS"
    ELSE IF \E n \in DOMAIN results[r] : results[r][n] \in FailStatuses THEN "FAIL"
    ELSE "BLOCKED"

\* run_runtime_cases' status.
Status(r) ==
    IF \E n \in DOMAIN results[r] : results[r][n] \in FailStatuses THEN "FAIL"
    ELSE IF cleanup[r] = "PASS" /\ \A n \in DOMAIN results[r] : results[r][n] \in PassStatuses
    THEN "PASS" ELSE "BLOCKED"

\* The connection is closed and the runner forgotten.
Ends(r) ==
    /\ Goto(r, "idle")
    /\ created' = [created EXCEPT ![r] = {}]
    /\ granted' = [granted EXCEPT ![r] = {}]
    /\ prepared' = [prepared EXCEPT ![r] = None]
    /\ writes' = [writes EXCEPT ![r] = {}]
    /\ usable' = [usable EXCEPT ![r] = TRUE]
    /\ alive' = [alive EXCEPT ![r] = TRUE]
    /\ results' = [results EXCEPT ![r] = <<>>]
    /\ cleanup' = [cleanup EXCEPT ![r] = None]
    /\ before' = [before EXCEPT ![r] = <<{}, {}>>]
    /\ maker' = [a \in Roles |-> IF maker[a] = r THEN None ELSE maker[a]]
    /\ UNCHANGED <<roles, members, kept, driver>>

Leave(r) ==
    /\ pc[r] = "done"
    /\ Ends(r)
    /\ UNCHANGED <<runs, faults>>

----------------------------------------------------------------------------
(* What may go wrong.                                                      *)

Fault == faults < MaxFaults /\ faults' = faults + 1

\* The server rolls back, or has just committed what prepare or teardown did.
LoseConnection(r) ==
    /\ pc[r] \notin {"idle", "done"} /\ alive[r] /\ Fault
    /\ alive' = [alive EXCEPT ![r] = FALSE]
    /\ \/ RollsBack(r) /\ UNCHANGED <<roles, members, kept, maker>>
       \/ pc[r] = "create" /\ Made(r) /\ Commits(r)
       \/ /\ pc[r] = "revoke" /\ granted[r] \subseteq roles
          /\ Removed(r) /\ Commits(r) /\ UNCHANGED maker
    /\ UNCHANGED <<driver, pc, created, granted, prepared, usable, results, cleanup, before, runs>>

\* A statement of prepare raises: another runner is creating the same role.
PrepareFails(r) ==
    /\ pc[r] \in {"look", "create"} /\ alive[r] /\ Fault
    /\ NotPrepared(r)
    /\ UNCHANGED <<shared, created, granted, writes, usable, alive, cleanup, before, runs>>

Crash(r) ==
    /\ pc[r] # "idle" /\ Fault
    /\ Ends(r)
    /\ UNCHANGED runs

----------------------------------------------------------------------------

Advance(r) ==
    \/ Look(r) \/ Create(r) \/ Verify(r) \/ PrepareRaises(r)
    \/ Quarantined(r) \/ BeginCase(r) \/ BeginFails(r) \/ Act(r)
    \/ CloseCase(r) \/ CloseFails(r) \/ CloseRecovers(r)
    \/ TeardownRollback(r) \/ Teardown(r) \/ TeardownFails(r) \/ Leave(r)

Next ==
    \E r \in Runners :
        Start(r) \/ Advance(r) \/ LoseConnection(r) \/ PrepareFails(r) \/ Crash(r)

Spec == Init /\ [][Next]_vars

----------------------------------------------------------------------------
(* Properties.                                                             *)

TypeOK ==
    /\ members \subseteq roles /\ roles \subseteq Roles
    /\ kept \subseteq CaseIds
    /\ pc \in [Runners -> Phases]
    /\ created \in [Runners -> SUBSET Roles] /\ granted \in [Runners -> SUBSET Roles]
    /\ prepared \in [Runners -> {"PASS", "BLOCKED", None}]
    /\ writes \in [Runners -> SUBSET CaseIds]
    /\ usable \in [Runners -> BOOLEAN] /\ alive \in [Runners -> BOOLEAN]
    /\ results \in [Runners -> Seq(ResultStatuses)]
    /\ \A r \in Runners : Len(results[r]) <= CaseCount
    /\ before \in [Runners -> (SUBSET Roles) \X (SUBSET Roles)]
    /\ cleanup \in [Runners -> {"PASS", "FAIL", None}]
    /\ maker \in [Roles -> Runners \cup {None}]
    /\ runs \in 0..MaxRuns /\ faults \in 0..MaxFaults

\* No write of a case is ever committed: those of a case whose own rollback failed
\* are in the open transaction that the teardown goes on with and commits.
CasesLeaveNothing == kept = {}

\* A runner alone on its server that reports its cleanup as passed leaves the
\* roles and memberships it found, whatever earlier runs left behind.
CleanupRestores ==
    \A r \in Runners :
        Runners = {r} /\ cleanup[r] = "PASS" => <<roles, members>> = before[r]

\* A run that lost its connection, even after its last case, does not pass.
LostRunsDoNotPass ==
    \A r \in Runners : pc[r] = "done" /\ Status(r) = "PASS" => alive[r] /\ usable[r]

\* runtime_case_handlers.py, teardown: "Remove only roles/memberships created
\* by this disposable runner."
TeardownRemovesOwn ==
    [][\A r \in Runners, a \in roles \ roles' : pc[r] = "revoke" /\ pc'[r] = "done" =>
          maker[a] = r]_vars

\* A run that says it passed kept its connection, and a cleanup that says so
\* put everything back.
PassedRunsAreClean == TypeOK /\ CleanupRestores /\ LostRunsDoNotPass
==============================================================================
