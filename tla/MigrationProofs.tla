-------------------------- MODULE MigrationProofs --------------------------
(***************************************************************************)
(* Theorems about Migration and RuntimeEvidence, for any number of         *)
(* operators, candidates, runs and faults.                                 *)
(*                                                                         *)
(* The argument: a transaction that is open holds the first candidate that *)
(* is not applied (Standing), so two of them would hold the same one, and  *)
(* the locks of PostgreSQL let only one in (Alone).  What it commits       *)
(* therefore extends the prefix by one, and a recorded failure can only be *)
(* of the candidate right after the prefix (History).                      *)
(*                                                                         *)
(* Of the reports: two runs never have the same place in the order they    *)
(* finished in (Apart), so each writes a report of its own, part by part   *)
(* (Placed); and what a report says of the database stays true, because    *)
(* objects are never lost (Sound).                                         *)
(***************************************************************************)
EXTENDS RuntimeEvidence, FiniteSetTheorems, TLAPS

Prefix(k) ==
    /\ objects = 1..k /\ Applied = 1..k
    /\ Recorded \subseteq 1..k + 1

History == \E k \in 0..N : Prefix(k)

Writing(o) == pc[o] \in {"record", "commit"}

\* What the place of a run says of its transaction and of the database.
Standing(o) ==
    /\ tx[o].ddl = IF Writing(o) THEN {cand[o]} ELSE {}
    /\ tx[o].row = IF pc[o] = "commit" THEN "APPLIED" ELSE None
    /\ Writing(o) => cand[o] \notin objects
    /\ pc[o] = "commit" => rows[cand[o]] = None
    /\ pc[o] \in {"sql", "record", "commit", "note"} =>
          \A c \in Candidates : c < cand[o] => c \in objects
    /\ pc[o] = "validate" => objects = Candidates

Alone == \A o, p \in Operators : Writing(o) /\ Writing(p) => o = p

Claims(o) == result[o].status \in Validated \/ result[o].ready

Truthful(o) ==
    /\ result[o].applied \subseteq objects
    /\ Claims(o) => objects = Candidates

IInv ==
    /\ TypeOK
    /\ History
    /\ \A o \in Operators : Standing(o) /\ Truthful(o)
    /\ Alone
    /\ AppliedByOneRun

\* A step of one operator leaves the others as they are.
Others(o) ==
    \A p \in Operators \ {o} :
        /\ pc'[p] = pc[p] /\ cand'[p] = cand[p]
        /\ tx'[p] = tx[p] /\ result'[p] = result[p]

----------------------------------------------------------------------------
(* Types.                                                                  *)

TxType == [ddl : SUBSET Candidates, row : {"APPLIED", None}, from : Texts]

ResultType ==
    [status : Statuses,
     migrations : {"ALREADY_APPLIED", "PASS", "FAILED", "PARTIAL_FAIL", None},
     applied : SUBSET Candidates,
     ready : BOOLEAN]

Migrations == {"ALREADY_APPLIED", "PASS", "FAILED", "PARTIAL_FAIL", None}

LEMMA TypesNamed ==
    TypeOK => tx \in [Operators -> TxType] /\ result \in [Operators -> ResultType]
BY DEF TypeOK, TxType, ResultType

\* A change of one part of a transaction or of a report keeps its type.
LEMMA TxEdits ==
    ASSUME NEW t \in TxType, NEW d \in SUBSET Candidates, NEW f \in Texts
    PROVE  /\ [t EXCEPT !.ddl = d, !.from = f] \in TxType
           /\ [t EXCEPT !.row = "APPLIED"] \in TxType
BY DEF TxType

LEMMA ResultEdits ==
    ASSUME NEW r \in ResultType, NEW s \in Statuses, NEW m \in Migrations,
           NEW a \in SUBSET Candidates, NEW b \in BOOLEAN
    PROVE  /\ [r EXCEPT !.status = s] \in ResultType
           /\ [r EXCEPT !.migrations = m] \in ResultType
           /\ [r EXCEPT !.applied = a] \in ResultType
           /\ [r EXCEPT !.applied = a, !.migrations = m] \in ResultType
           /\ [r EXCEPT !.status = s, !.ready = b] \in ResultType
BY DEF ResultType, Migrations

LEMMA TypeInit == Init => TypeOK
BY MigrationAssumption
   DEF Init, TypeOK, Candidates, RowStates, Texts, Phases, NoTx, NoResult, Statuses

\* The commit of a transaction keeps the types.
LEMMA TypeCommitted ==
    ASSUME TypeOK, NEW o \in Operators, Committed(o)
    PROVE  /\ rows' \in [Candidates -> RowStates] /\ objects' \subseteq Candidates
           /\ ran' \in [Candidates -> Texts \cup {None}]
BY DEF TypeOK, Committed, RowStates

\* What a run's end and its report leave is of the types.
LEMMA TypeFinish ==
    ASSUME TypeOK, NEW o \in Operators, NEW s \in Statuses, Finish(o, s)
    PROVE  /\ pc' \in [Operators -> Phases]
           /\ tx' \in [Operators -> TxType]
           /\ result' \in [Operators -> ResultType]
BY DEF TypeOK, Finish, Goto, RollBack, NoTx, Phases, Texts, TxType, ResultType

\* The candidate after a prefix is a candidate.
LEMMA NextOfPrefix ==
    ASSUME NEW k \in 0..N, Applied = 1..k
    PROVE  /\ Cardinality(Applied) = k
           /\ Applied # Candidates => k + 1 \in Candidates
<1>1. Cardinality(1..k) = k
  BY FS_Interval, MigrationAssumption
<1> QED  BY <1>1, MigrationAssumption DEF Candidates

\* Every step of the system keeps the types.
LEMMA TypeStep ==
    ASSUME TypeOK, History, [Next]_vars
    PROVE  TypeOK'
<1> USE MigrationAssumption
<1>1. CASE UNCHANGED vars
  BY <1>1 DEF vars, TypeOK
<1>2. CASE EditFiles
  BY <1>2 DEF EditFiles, TypeOK, Texts, dbVars
<1>3. ASSUME NEW o \in Operators, Begin(o)
      PROVE  TypeOK'
  <2>1. PICK mode \in Modes : Start(o, mode)
    BY <1>3 DEF Begin
  <2>2. PlanStatus(mode) \in Statuses
    BY DEF PlanStatus, Statuses
  <2>3. result' \in [Operators -> ResultType]
    <3>1. result' = result \/ result' = [result EXCEPT ![o].status = PlanStatus(mode)]
      BY <2>1 DEF Start
    <3>2. [result[o] EXCEPT !.status = PlanStatus(mode)] \in ResultType
      BY <2>2, ResultEdits, TypesNamed DEF Migrations
    <3> QED  BY <3>1, <3>2, TypesNamed
  <2>4. pc' = [pc EXCEPT ![o] = "connect"] \/ pc' = [pc EXCEPT ![o] = "done"]
    BY <2>1 DEF Start, Goto
  <2>5. runs' \in 0..MaxRuns
    BY <2>1 DEF Start, TypeOK
  <2>6. pc' \in [Operators -> Phases]
    BY <2>4 DEF TypeOK, Phases
  <2> QED  BY <2>1, <2>3, <2>5, <2>6 DEF Start, TypeOK, dbVars, ResultType
<1>4. ASSUME NEW o \in Operators, Unavailable(o)
      PROVE  TypeOK'
  BY <1>4, TypeFinish DEF Unavailable, TypeOK, TxType, ResultType, dbVars, boundVars, Statuses
<1>5. ASSUME NEW o \in Operators, Preflight(o) \/ Postflight(o)
      PROVE  TypeOK'
  <2>1. CASE Finish(o, "BLOCKED")
    BY <1>5, <2>1, TypeFinish DEF Preflight, Postflight, TypeOK, TxType, ResultType, dbVars, boundVars, Statuses
  <2>2. CASE ~Finish(o, "BLOCKED")
    BY <1>5, <2>2 DEF Preflight, Postflight, Goto, TypeOK, dbVars, boundVars, Phases
  <2> QED  BY <2>1, <2>2
<1>6. ASSUME NEW o \in Operators, ReadHistory(o)
      PROVE  TypeOK'
  <2>1. CASE Finish(o, "BLOCKED") /\ UNCHANGED cand
    BY <1>6, <2>1, TypeFinish DEF ReadHistory, TypeOK, TxType, ResultType, dbVars, boundVars, Statuses
  <2>2. CASE ~(Finish(o, "BLOCKED") /\ UNCHANGED cand)
    <3>1. Applied # Candidates => Cardinality(Applied) + 1 \in Candidates
      BY NextOfPrefix DEF History, Prefix
    <3>2. result' \in [Operators -> ResultType]
      <4>1. result' = result \/ result' = [result EXCEPT ![o].migrations = "ALREADY_APPLIED"]
        BY <1>6, <2>2 DEF ReadHistory
      <4>2. [result[o] EXCEPT !.migrations = "ALREADY_APPLIED"] \in ResultType
        BY ResultEdits, TypesNamed DEF Migrations, Statuses
      <4> QED  BY <4>1, <4>2, TypesNamed
    <3>3. pc' \in [Operators -> Phases] /\ cand' \in [Operators -> Candidates]
      BY <1>6, <2>2, <3>1 DEF ReadHistory, Goto, TypeOK, Phases
    <3>4. UNCHANGED tx
      BY <1>6, <2>2 DEF ReadHistory
    <3> QED  BY <1>6, <3>2, <3>3, <3>4 DEF ReadHistory, TypeOK, dbVars, boundVars, ResultType
  <2> QED  BY <2>1, <2>2
<1>7. ASSUME NEW o \in Operators, ExecuteSql(o) \/ RecordHistory(o)
      PROVE  TypeOK'
  <2>1. tx' \in [Operators -> TxType]
    <3>1. \/ tx' = [tx EXCEPT ![o].ddl = {cand[o]}, ![o].from = text]
          \/ tx' = [tx EXCEPT ![o].row = "APPLIED"]
      BY <1>7 DEF ExecuteSql, RecordHistory
    <3>2. {cand[o]} \in SUBSET Candidates /\ text \in Texts /\ tx[o] \in TxType
      BY TypesNamed DEF TypeOK
    <3>3. /\ [tx[o] EXCEPT !.ddl = {cand[o]}, !.from = text] \in TxType
          /\ [tx[o] EXCEPT !.row = "APPLIED"] \in TxType
      BY <3>2, TxEdits
    <3> QED  BY <3>1, <3>3, TypesNamed
  <2>2. pc' \in [Operators -> Phases]
    BY <1>7 DEF ExecuteSql, RecordHistory, Goto, TypeOK, Phases
  <2> QED  BY <1>7, <2>1, <2>2 DEF ExecuteSql, RecordHistory, TypeOK, dbVars, boundVars, TxType
<1>8. ASSUME NEW o \in Operators, ExecuteFails(o) \/ RecordFails(o) \/ StatementFails(o)
      PROVE  TypeOK'
  <2>1. faults' \in 0..MaxFaults
    BY <1>8 DEF ExecuteFails, RecordFails, StatementFails, Fault, boundVars, TypeOK
  <2>2. Fail(o)
    BY <1>8 DEF ExecuteFails, RecordFails, StatementFails
  <2>3. pc' \in [Operators -> Phases] /\ tx' \in [Operators -> TxType]
    BY <2>2 DEF Fail, Goto, RollBack, NoTx, TypeOK, Phases, TxType, Texts
  <2>4. result' \in [Operators -> ResultType]
    BY <2>2 DEF Fail, TypeOK, ResultType
  <2> QED
    BY <1>8, <2>1, <2>3, <2>4 DEF ExecuteFails, RecordFails, StatementFails,
                                  TypeOK, dbVars, boundVars, TxType, ResultType
<1>9. ASSUME NEW o \in Operators, Commit(o)
      PROVE  TypeOK'
  <2>1. cand[o] # N => cand[o] + 1 \in Candidates
    BY DEF TypeOK, Candidates
  <2>2. N \in Candidates
    BY DEF Candidates
  <2>3. result' \in [Operators -> ResultType]
    <3>1. /\ result[o] \in ResultType
          /\ result[o].applied \cup {cand[o]} \in SUBSET Candidates
          /\ result[o].applied \cup {N} \in SUBSET Candidates
      BY <2>2, TypesNamed DEF TypeOK, ResultType
    <3>2. /\ [result[o] EXCEPT !.applied = @ \cup {N}, !.migrations = "PASS"] \in ResultType
          /\ [result[o] EXCEPT !.applied = @ \cup {cand[o]}] \in ResultType
      BY <3>1, ResultEdits DEF Migrations, Statuses
    <3>3. \/ result' = [result EXCEPT ![o].applied = @ \cup {N}, ![o].migrations = "PASS"]
          \/ result' = [result EXCEPT ![o].applied = @ \cup {cand[o]}]
      BY <1>9 DEF Commit
    <3> QED  BY <3>2, <3>3, TypesNamed
  <2>4. /\ cand' \in [Operators -> Candidates] /\ pc' \in [Operators -> Phases]
        /\ tx' \in [Operators -> TxType]
    BY <1>9, <2>1 DEF Commit, Goto, RollBack, NoTx, Phases, Texts, TypeOK, TxType
  <2> QED  BY <1>9, <2>3, <2>4, TypeCommitted DEF Commit, TypeOK, boundVars, TxType, ResultType
<1>10. ASSUME NEW o \in Operators, NoteFailure(o) \/ NoteIsLost(o)
       PROVE  TypeOK'
  BY <1>10, TypeFinish
      DEF NoteFailure, NoteIsLost, TypeOK, TxType, ResultType, dbVars, boundVars, Statuses, RowStates
<1>11. ASSUME NEW o \in Operators, Validate(o)
       PROVE  TypeOK'
  <2>1. PICK s \in Validated, ready \in BOOLEAN :
           result' = [result EXCEPT ![o].status = s, ![o].ready = ready]
    BY <1>11 DEF Validate
  <2>2. result' \in [Operators -> ResultType]
    <3>1. [result[o] EXCEPT !.status = s, !.ready = ready] \in ResultType
      BY ResultEdits, TypesNamed DEF Migrations, Statuses
    <3> QED  BY <2>1, <3>1, TypesNamed
  <2>3. pc' \in [Operators -> Phases] /\ tx' \in [Operators -> TxType]
    BY <1>11 DEF Validate, Goto, RollBack, NoTx, TypeOK, Phases, TxType, Texts
  <2> QED  BY <1>11, <2>2, <2>3 DEF Validate, TypeOK, dbVars, boundVars, TxType, ResultType
<1>12. ASSUME NEW o \in Operators, Exit(o) \/ Crash(o)
       PROVE  TypeOK'
  <2>1. 1 \in Candidates
    BY DEF Candidates
  <2>2. /\ rows' \in [Candidates -> RowStates] /\ objects' \subseteq Candidates
        /\ ran' \in [Candidates -> Texts \cup {None}]
    BY <1>12, TypeCommitted DEF Exit, Crash, TypeOK, dbVars
  <2>3. faults' \in 0..MaxFaults /\ runs' = runs /\ edits' = edits /\ text' = text
    BY <1>12 DEF Exit, Crash, Fault, boundVars, TypeOK
  <2>4. Ends(o)
    BY <1>12 DEF Exit, Crash
  <2>5. /\ pc' \in [Operators -> Phases] /\ cand' \in [Operators -> Candidates]
        /\ tx' \in [Operators -> TxType]
    BY <2>4, <2>1 DEF Ends, Goto, RollBack, NoTx, TypeOK, Phases, TxType, Texts
  <2>6. result' \in [Operators -> ResultType]
    BY <2>4 DEF Ends, NoResult, TypeOK, ResultType, Statuses
  <2> QED  BY <2>2, <2>3, <2>5, <2>6 DEF TypeOK, TxType, ResultType
<1>13. ASSUME NEW o \in Operators, ConnectionLost(o)
       PROVE  TypeOK'
  <2>1. /\ rows' \in [Candidates -> RowStates] /\ objects' \subseteq Candidates
        /\ ran' \in [Candidates -> Texts \cup {None}]
    BY <1>13, TypeCommitted DEF ConnectionLost, TypeOK, dbVars
  <2>2. faults' \in 0..MaxFaults /\ runs' = runs /\ edits' = edits
    BY <1>13 DEF ConnectionLost, Fault, TypeOK
  <2> QED  BY <1>13, <2>1, <2>2, TypeFinish
           DEF ConnectionLost, TypeOK, TxType, ResultType, Statuses
<1> QED
  BY <1>1, <1>2, <1>3, <1>4, <1>5, <1>6, <1>7, <1>8, <1>9, <1>10, <1>11, <1>12, <1>13
     DEF Next, Advance, Faults

----------------------------------------------------------------------------
(* The invariant.                                                          *)

LEMMA InvInit == Init => IInv
<1> SUFFICES ASSUME Init PROVE IInv
  OBVIOUS
<1> USE MigrationAssumption
<1>1. TypeOK
  BY TypeInit
<1>2. Prefix(0)
  BY DEF Init, Prefix, Applied, Recorded, Candidates
<1>3. \A o \in Operators : Standing(o) /\ Truthful(o)
  BY DEF Init, Standing, Truthful, Claims, Writing, NoTx, NoResult, Validated
<1>4. Alone /\ AppliedByOneRun
  BY DEF Init, Alone, AppliedByOneRun, Writing, NoResult
<1> QED  BY <1>1, <1>2, <1>3, <1>4 DEF IInv, History

\* A step that leaves the history and the objects alone keeps the invariant, if
\* what it says of its own operator is true.
LEMMA QuietStep ==
    ASSUME IInv, TypeOK', NEW o \in Operators, Others(o),
           UNCHANGED <<rows, objects>>,
           Standing(o)',
           Writing(o)' => \A p \in Operators \ {o} : ~Writing(p),
           result'[o].applied \subseteq result[o].applied,
           Claims(o)' => objects = Candidates
    PROVE  IInv'
<1>1. History'
  BY DEF IInv, History, Prefix, Applied, Recorded
<1>2. \A p \in Operators : Standing(p)' /\ Truthful(p)'
  <2>1. Truthful(o)'
    BY DEF IInv, Truthful
  <2>2. ASSUME NEW p \in Operators \ {o}
        PROVE  Standing(p)' /\ Truthful(p)'
    <3>1. /\ pc'[p] = pc[p] /\ cand'[p] = cand[p] /\ tx'[p] = tx[p] /\ result'[p] = result[p]
          /\ Standing(p) /\ Truthful(p)
      BY <2>2 DEF IInv, Others
    <3>2. Standing(p)'
      BY <3>1 DEF Standing, Writing
    <3>3. Truthful(p)'
      BY <3>1 DEF Truthful, Claims
    <3> QED  BY <3>2, <3>3
  <2> QED  BY <2>1, <2>2
<1>3. Alone'
  BY DEF IInv, Alone, Others, Writing
<1>4. AppliedByOneRun'
  BY DEF IInv, AppliedByOneRun, Others
<1> QED  BY <1>1, <1>2, <1>3, <1>4 DEF IInv

\* The candidate a run stands at is the first that is not applied, once it is
\* known not to be applied.
LEMMA FirstUnapplied ==
    ASSUME IInv, NEW o \in Operators, NEW k \in 0..N, Prefix(k),
           pc[o] \in {"sql", "record", "commit", "note"}, cand[o] \notin objects
    PROVE  cand[o] = k + 1 /\ k < N
<1>1. /\ cand[o] \in 1..N /\ objects = 1..k
      /\ \A c \in 1..N : c < cand[o] => c \in objects
  BY DEF IInv, TypeOK, Standing, Candidates, Prefix
<1>2. cand[o] > k
  BY <1>1, MigrationAssumption
<1>3. ~(k + 1 < cand[o])
  BY <1>1, <1>2, MigrationAssumption
<1> QED  BY <1>1, <1>2, <1>3, MigrationAssumption

\* What a commit does to the history: the prefix grows by the candidate.
LEMMA CommitGrows ==
    ASSUME IInv, TypeOK', NEW o \in Operators, pc[o] = "commit", Committed(o),
           NEW k \in 0..N, Prefix(k)
    PROVE  /\ cand[o] = k + 1 /\ k < N
           /\ Recorded = Applied
           /\ Applied' = 1..k + 1 /\ Recorded' = Applied' /\ objects' = 1..k + 1
<1> USE MigrationAssumption
<1>1. /\ cand[o] \notin objects /\ rows[cand[o]] = None
      /\ tx[o].ddl = {cand[o]} /\ tx[o].row = "APPLIED"
  BY DEF IInv, Standing, Writing
<1>2. cand[o] = k + 1 /\ k < N
  BY <1>1, FirstUnapplied
<1>3. k + 1 \notin Recorded /\ Applied = 1..k /\ Recorded \subseteq 1..k + 1
  BY <1>1, <1>2 DEF Recorded, Prefix
<1>4. Applied \subseteq Recorded
  BY DEF Applied, Recorded
<1>5. Recorded = Applied
  <2>1. \A c \in 1..k + 1 : c # k + 1 => c \in 1..k
    OBVIOUS
  <2> QED  BY <1>3, <1>4, <2>1
<1>6. \A c \in Candidates : rows'[c] = IF c = k + 1 THEN "APPLIED" ELSE rows[c]
  BY <1>1, <1>2 DEF Committed, IInv, TypeOK
<1>7. Applied' = Applied \cup {k + 1} /\ Recorded' = Recorded \cup {k + 1}
  BY <1>2, <1>6 DEF Applied, Recorded, Candidates
<1>8. objects' = 1..k + 1
  BY <1>1, <1>2 DEF Committed, Prefix
<1>9. 1..k + 1 = (1..k) \cup {k + 1}
  OBVIOUS
<1> QED  BY <1>2, <1>3, <1>5, <1>7, <1>8, <1>9

\* A commit keeps the invariant, whether or not its operator learns of it.
LEMMA CommitStep ==
    ASSUME IInv, TypeOK', NEW o \in Operators, Others(o), pc[o] = "commit", Committed(o),
           Standing(o)', ~Writing(o)',
           result'[o].applied \subseteq result[o].applied \cup {cand[o]},
           ~Claims(o)'
    PROVE  IInv'
<1> USE MigrationAssumption
<1>1. PICK k \in 0..N : Prefix(k)
  BY DEF IInv, History
<1>2. /\ cand[o] = k + 1 /\ k < N
      /\ Applied' = 1..k + 1 /\ Recorded' = Applied' /\ objects' = 1..k + 1
  BY <1>1, CommitGrows
<1>3. History'
  <2>1. Prefix(k + 1)'
    BY <1>2 DEF Prefix
  <2> QED  BY <1>2, <2>1 DEF History
<1>4. objects' = objects \cup {cand[o]} /\ cand[o] \notin objects /\ cand[o] \in Candidates
  BY <1>1, <1>2 DEF Prefix, Candidates
<1>5. ASSUME NEW p \in Operators \ {o}
      PROVE  Standing(p)' /\ Truthful(p)'
  <2>1. ~Writing(p)
    BY <1>5 DEF IInv, Alone, Writing
  <2>2. objects # Candidates
    BY <1>4
  <2> QED
    BY <1>4, <2>1, <2>2 DEF IInv, Standing, Truthful, Claims, Others, Writing
<1>6. Truthful(o)'
  BY <1>4 DEF IInv, Truthful
<1>7. Alone'
  BY DEF IInv, Alone, Others, Writing
<1>8. AppliedByOneRun'
  <2>1. \A p \in Operators : cand[o] \notin result[p].applied
    BY <1>4 DEF IInv, Truthful
  <2> QED  BY <2>1 DEF IInv, AppliedByOneRun, Others
<1> QED  BY <1>3, <1>5, <1>6, <1>7, <1>8 DEF IInv

\* What a recorded failure does to the history: it stands right after the prefix.
LEMMA NoteCloses ==
    ASSUME IInv, TypeOK', NEW o \in Operators, NoteFailure(o), NEW k \in 0..N, Prefix(k)
    PROVE  /\ cand[o] = k + 1 /\ k < N
           /\ Recorded = Applied /\ Applied' = Applied
           /\ Recorded' = 1..k + 1 /\ UNCHANGED objects
<1> USE MigrationAssumption
<1>1. /\ pc[o] = "note" /\ rows[cand[o]] = None /\ UNCHANGED objects
      /\ rows' = [rows EXCEPT ![cand[o]] = "BLOCKED"]
  BY DEF NoteFailure
<1>2. cand[o] \in Candidates /\ cand[o] \notin Recorded
  BY <1>1 DEF IInv, TypeOK, Recorded
<1>3. Applied \subseteq Recorded /\ Applied = 1..k /\ objects = 1..k
  BY DEF Applied, Recorded, Prefix
<1>4. cand[o] = k + 1 /\ k < N
  BY <1>1, <1>2, <1>3, FirstUnapplied
<1>5. Recorded = Applied
  <2>1. \A c \in 1..k + 1 : c # k + 1 => c \in 1..k
    OBVIOUS
  <2> QED  BY <1>2, <1>3, <1>4, <2>1 DEF Prefix
<1>6. \A c \in Candidates : rows'[c] = IF c = k + 1 THEN "BLOCKED" ELSE rows[c]
  BY <1>1, <1>4 DEF IInv, TypeOK
<1>7. Applied' = Applied /\ Recorded' = Recorded \cup {k + 1}
  BY <1>2, <1>4, <1>6 DEF Applied, Recorded, Candidates
<1>8. 1..k + 1 = (1..k) \cup {k + 1}
  OBVIOUS
<1> QED  BY <1>1, <1>3, <1>4, <1>5, <1>7, <1>8

LEMMA NoteStep ==
    ASSUME IInv, TypeOK', NEW o \in Operators, NoteFailure(o), Others(o), Standing(o)',
           result'[o].applied \subseteq result[o].applied,
           Claims(o)' => objects = Candidates
    PROVE  IInv'
<1> USE MigrationAssumption
<1>1. PICK k \in 0..N : Prefix(k)
  BY DEF IInv, History
<1>2. /\ cand[o] = k + 1 /\ k < N
      /\ Applied' = Applied /\ Recorded' = 1..k + 1 /\ UNCHANGED objects
  BY <1>1, NoteCloses
<1>3. History'
  BY <1>1, <1>2 DEF Prefix, History
<1>4. pc' = [pc EXCEPT ![o] = "done"] /\ \A p \in Operators \ {o} : tx[p].row = None \/ cand[p] # cand[o]
  BY DEF NoteFailure, Finish, Goto, WaitsForRow
<1>5. ASSUME NEW p \in Operators \ {o}
      PROVE  Standing(p)' /\ Truthful(p)'
  <2>1. pc[p] = "commit" => cand[p] # cand[o]
    BY <1>4, MigrationAssumption DEF IInv, Standing
  <2>2. pc[p] = "commit" => rows'[cand[p]] = None
    BY <2>1 DEF NoteFailure, IInv, Standing, TypeOK
  <2> QED
    <3>1. /\ pc'[p] = pc[p] /\ cand'[p] = cand[p] /\ tx'[p] = tx[p] /\ result'[p] = result[p]
          /\ Standing(p) /\ Truthful(p)
      BY <1>5 DEF IInv, Others
    <3>2. Standing(p)'
      BY <3>1, <2>2, <1>2 DEF Standing, Writing
    <3>3. Truthful(p)'
      BY <3>1, <1>2 DEF Truthful, Claims
    <3> QED  BY <3>2, <3>3
<1>6. Truthful(o)'
  BY <1>2 DEF IInv, Truthful
<1>7. Alone'
  <2>1. ~Writing(o)'
    BY <1>4 DEF IInv, TypeOK, Writing
  <2>2. \A p \in Operators \ {o} : Writing(p)' = Writing(p)
    BY DEF Others, Writing
  <2> QED  BY <2>1, <2>2 DEF IInv, Alone
<1>8. AppliedByOneRun'
  BY DEF IInv, AppliedByOneRun, Others
<1> QED  BY <1>3, <1>5, <1>6, <1>7, <1>8 DEF IInv

\* What an operator's step says of itself and leaves to the others, for the steps
\* that end a run with a report.
LEMMA FinishLeaves ==
    ASSUME IInv, NEW o \in Operators, NEW s \in Statuses \ Validated, Finish(o, s), UNCHANGED cand
    PROVE  /\ Others(o)
           /\ pc'[o] = "done" /\ tx'[o] = NoTx /\ result'[o].applied = result[o].applied
           /\ Claims(o)' => Claims(o)
           /\ Standing(o)' /\ ~Writing(o)'
<1>1. pc' = [pc EXCEPT ![o] = "done"] /\ tx' = [tx EXCEPT ![o] = NoTx]
  BY DEF Finish, Goto, RollBack
<1>2. result' = [result EXCEPT ![o].status = s]
  BY DEF Finish
<1>3. pc'[o] = "done" /\ tx'[o] = NoTx
  BY <1>1 DEF IInv, TypeOK
<1>4. /\ result'[o].applied = result[o].applied /\ result'[o].status = s
      /\ result'[o].ready = result[o].ready
  BY <1>2, TypesNamed DEF IInv, ResultType
<1>5. Others(o)
  BY <1>1, <1>2 DEF Others, IInv, TypeOK
<1>6. Standing(o)' /\ ~Writing(o)'
  BY <1>3 DEF Standing, Writing, NoTx
<1> QED  BY <1>3, <1>4, <1>5, <1>6 DEF Claims

\* The same for a run whose process ends.
LEMMA EndsLeaves ==
    ASSUME IInv, NEW o \in Operators, Ends(o)
    PROVE  /\ Others(o)
           /\ result'[o].applied = {} /\ ~Claims(o)'
           /\ Standing(o)' /\ ~Writing(o)'
<1>1. /\ pc' = [pc EXCEPT ![o] = "idle"] /\ tx' = [tx EXCEPT ![o] = NoTx]
      /\ cand' = [cand EXCEPT ![o] = 1] /\ result' = [result EXCEPT ![o] = NoResult]
  BY DEF Ends, Goto, RollBack
<1>2. pc'[o] = "idle" /\ tx'[o] = NoTx /\ result'[o] = NoResult
  BY <1>1 DEF IInv, TypeOK
<1>3. Others(o)
  BY <1>1 DEF Others, IInv, TypeOK
<1>4. Standing(o)' /\ ~Writing(o)'
  BY <1>2 DEF Standing, Writing, NoTx
<1>5. result'[o].applied = {} /\ ~Claims(o)'
  BY <1>2, MigrationAssumption DEF Claims, NoResult, Validated
<1> QED  BY <1>3, <1>4, <1>5

\* And for the handler of an exception.
LEMMA FailLeaves ==
    ASSUME IInv, NEW o \in Operators, Fail(o), UNCHANGED <<cand, rows, objects>>,
           pc[o] \in {"sql", "record", "commit"}
    PROVE  /\ Others(o)
           /\ result'[o].applied = result[o].applied /\ Claims(o)' = Claims(o)
           /\ Standing(o)' /\ ~Writing(o)'
<1>1. pc' = [pc EXCEPT ![o] = "note"] /\ tx' = [tx EXCEPT ![o] = NoTx]
  BY DEF Fail, Goto, RollBack
<1>2. PICK m \in Migrations : result' = [result EXCEPT ![o].migrations = m]
  BY DEF Fail, Migrations
<1>3. pc'[o] = "note" /\ tx'[o] = NoTx
  BY <1>1 DEF IInv, TypeOK
<1>4. /\ result'[o].applied = result[o].applied /\ result'[o].status = result[o].status
      /\ result'[o].ready = result[o].ready
  BY <1>2, TypesNamed DEF IInv, ResultType
<1>5. Others(o)
  BY <1>1, <1>2 DEF Others, IInv, TypeOK
<1>6. Standing(o)' /\ ~Writing(o)'
  <2>1. \A c \in Candidates : c < cand[o] => c \in objects
    BY DEF IInv, Standing
  <2>2. cand'[o] = cand[o] /\ objects' = objects
    OBVIOUS
  <2> QED  BY <1>3, <2>1, <2>2 DEF Standing, Writing, NoTx
<1> QED  BY <1>4, <1>5, <1>6 DEF Claims

\* Every step of the system keeps the invariant.
LEMMA InvStep ==
    ASSUME IInv, [Next]_vars
    PROVE  IInv'
<1> USE MigrationAssumption
<1>0. TypeOK'
  BY TypeStep DEF IInv
<1>1. CASE UNCHANGED vars \/ EditFiles
  <2>1. UNCHANGED <<rows, objects, pc, cand, tx, result>>
    BY <1>1 DEF vars, EditFiles, dbVars
  <2> QED
    <3>1. History'
      BY <2>1 DEF IInv, History, Prefix, Applied, Recorded
    <3>2. \A o \in Operators : Standing(o)'
      BY <2>1 DEF IInv, Standing, Writing
    <3>3. \A o \in Operators : Truthful(o)'
      BY <2>1 DEF IInv, Truthful, Claims
    <3>4. Alone' /\ AppliedByOneRun'
      BY <2>1 DEF IInv, Alone, Writing, AppliedByOneRun
    <3> QED  BY <1>0, <3>1, <3>2, <3>3, <3>4 DEF IInv
<1>2. ASSUME NEW o \in Operators, Finish(o, "BLOCKED"), UNCHANGED <<cand, rows, objects>>
      PROVE  IInv'
  <2>1. "BLOCKED" \in Statuses \ Validated
    BY DEF Statuses, Validated
  <2>2. Claims(o) => objects = Candidates
    BY DEF IInv, Truthful
  <2> QED  BY <1>0, <1>2, <2>1, <2>2, FinishLeaves, QuietStep
<1>3. ASSUME NEW o \in Operators, Begin(o)
      PROVE  IInv'
  <2>1. PICK mode \in Modes : Start(o, mode)
    BY <1>3 DEF Begin
  <2>2. PlanStatus(mode) \in Statuses \ Validated
    BY DEF PlanStatus, Statuses, Validated
  <2>3. /\ pc[o] = "idle" /\ UNCHANGED <<cand, tx, rows, objects>>
        /\ pc' = [pc EXCEPT ![o] = "connect"] \/ pc' = [pc EXCEPT ![o] = "done"]
    BY <2>1 DEF Start, Goto, dbVars
  <2>4. result' = result \/ result' = [result EXCEPT ![o].status = PlanStatus(mode)]
    BY <2>1 DEF Start
  <2>5. /\ result'[o].applied = result[o].applied /\ result'[o].ready = result[o].ready
        /\ result'[o].status \in {result[o].status, PlanStatus(mode)}
    BY <2>4, TypesNamed DEF IInv, ResultType
  <2>6. pc'[o] \in {"connect", "done"} /\ Others(o)
    BY <2>3, <2>4 DEF Others, IInv, TypeOK
  <2>7. Standing(o)' /\ ~Writing(o)'
    BY <2>3, <2>6 DEF IInv, Standing, Writing
  <2>8. Claims(o)' => Claims(o)
    BY <2>2, <2>5 DEF Claims
  <2> QED  BY <1>0, <2>3, <2>5, <2>6, <2>7, <2>8, QuietStep DEF IInv, Truthful
<1>4. ASSUME NEW o \in Operators, NEW phase \in Phases \ {"record", "commit"},
             pc' = [pc EXCEPT ![o] = phase], UNCHANGED <<tx, rows, objects>>,
             cand' = cand \/ \E c \in Candidates : cand' = [cand EXCEPT ![o] = c],
             result' = result \/ result' = [result EXCEPT ![o].migrations = "ALREADY_APPLIED"],
             ~Writing(o),
             phase \in {"sql", "note"} => \A c \in Candidates : c < cand'[o] => c \in objects,
             phase = "validate" => objects = Candidates
      PROVE  IInv'
  <2>1. pc'[o] = phase
    BY <1>4 DEF IInv, TypeOK
  <2>2. Others(o)
    BY <1>4 DEF Others, IInv, TypeOK
  <2>3. /\ result'[o].applied = result[o].applied /\ result'[o].ready = result[o].ready
        /\ result'[o].status = result[o].status
    BY <1>4, TypesNamed DEF IInv, ResultType
  <2>4. ~Writing(o)'
    BY <1>4, <2>1 DEF Writing
  <2>5. Standing(o)'
    BY <1>4, <2>1, <2>4 DEF IInv, Standing, Writing
  <2>6. Claims(o)' => objects = Candidates
    BY <2>3 DEF IInv, Truthful, Claims
  <2> QED  BY <1>0, <1>4, <2>2, <2>3, <2>4, <2>5, <2>6, QuietStep
<1>5. ASSUME NEW o \in Operators, Preflight(o) \/ Postflight(o)
      PROVE  IInv'
  <2>1. CASE Finish(o, "BLOCKED")
    BY <1>2, <1>5, <2>1 DEF Preflight, Postflight, dbVars
  <2>2. CASE Preflight(o) /\ ~Finish(o, "BLOCKED")
    <3>1. /\ pc' = [pc EXCEPT ![o] = "history"] /\ UNCHANGED <<tx, rows, objects, cand, result>>
          /\ pc[o] = "connect" /\ "history" \in Phases \ {"record", "commit"}
      BY <2>2 DEF Preflight, Goto, dbVars, Phases
    <3> QED  BY <1>4, <3>1 DEF Writing
  <2>3. CASE Postflight(o) /\ ~Finish(o, "BLOCKED")
    <3>1. /\ pc' = [pc EXCEPT ![o] = "validate"] /\ UNCHANGED <<tx, rows, objects, cand, result>>
          /\ pc[o] = "postflight" /\ "validate" \in Phases \ {"record", "commit"}
          /\ Recorded = Applied /\ Recorded = Candidates
      BY <2>3 DEF Postflight, Goto, dbVars, Phases, ValidHistory
    <3>2. objects = Candidates
      BY <3>1 DEF IInv, History, Prefix
    <3> QED  BY <1>4, <3>1, <3>2 DEF Writing
  <2> QED  BY <1>5, <2>1, <2>2, <2>3
<1>6. ASSUME NEW o \in Operators, ReadHistory(o)
      PROVE  IInv'
  <2>1. CASE Finish(o, "BLOCKED") /\ UNCHANGED cand
    BY <1>2, <1>6, <2>1 DEF ReadHistory, dbVars
  <2>2. CASE ~(Finish(o, "BLOCKED") /\ UNCHANGED cand) /\ Applied = Candidates
    <3>1. /\ pc' = [pc EXCEPT ![o] = "postflight"] /\ UNCHANGED <<tx, rows, objects, cand>>
          /\ result' = [result EXCEPT ![o].migrations = "ALREADY_APPLIED"]
          /\ pc[o] = "history" /\ "postflight" \in Phases \ {"record", "commit"}
      BY <1>6, <2>2 DEF ReadHistory, Goto, dbVars, Phases
    <3> QED  BY <1>4, <3>1 DEF Writing
  <2>3. CASE ~(Finish(o, "BLOCKED") /\ UNCHANGED cand) /\ Applied # Candidates
    <3>1. PICK k \in 0..N : Prefix(k)
      BY DEF IInv, History
    <3>2. Cardinality(Applied) + 1 = k + 1 /\ k + 1 \in Candidates
      BY <2>3, <3>1, NextOfPrefix DEF Prefix
    <3>3. /\ pc' = [pc EXCEPT ![o] = "sql"] /\ UNCHANGED <<tx, rows, objects, result>>
          /\ cand' = [cand EXCEPT ![o] = k + 1]
          /\ pc[o] = "history" /\ "sql" \in Phases \ {"record", "commit"}
      BY <1>6, <2>3, <3>2 DEF ReadHistory, Goto, dbVars, Phases
    <3>4. \A c \in Candidates : c < cand'[o] => c \in objects
      BY <3>1, <3>3 DEF Prefix, Candidates, IInv, TypeOK
    <3> QED  BY <1>4, <3>2, <3>3, <3>4 DEF Writing
  <2> QED  BY <2>1, <2>2, <2>3
<1>7. ASSUME NEW o \in Operators, ExecuteSql(o)
      PROVE  IInv'
  <2>1. /\ pc[o] = "sql" /\ cand[o] \notin objects /\ UNCHANGED <<rows, objects, cand, result>>
        /\ \A p \in Operators \ {o} : cand[o] \notin tx[p].ddl
        /\ pc' = [pc EXCEPT ![o] = "record"]
        /\ tx' = [tx EXCEPT ![o].ddl = {cand[o]}, ![o].from = text]
    BY <1>7 DEF ExecuteSql, WaitsForObjects, Goto, dbVars
  <2>2. pc'[o] = "record" /\ tx'[o].ddl = {cand[o]} /\ tx'[o].row = tx[o].row
    BY <2>1, TypesNamed DEF IInv, TypeOK, TxType
  <2>3. Others(o)
    BY <2>1 DEF Others, IInv, TypeOK
  <2>4. Standing(o)'
    BY <2>1, <2>2 DEF IInv, Standing, Writing
  <2>5. ASSUME NEW p \in Operators \ {o}
        PROVE  ~Writing(p)
    <3>1. SUFFICES ASSUME Writing(p) PROVE FALSE
      OBVIOUS
    <3>2. PICK k \in 0..N : Prefix(k)
      BY DEF IInv, History
    <3>3. cand[p] \notin objects /\ tx[p].ddl = {cand[p]}
      BY <3>1 DEF IInv, Standing
    <3>4. cand[p] = k + 1 /\ cand[o] = k + 1
      BY <2>1, <3>1, <3>2, <3>3, FirstUnapplied DEF Writing
    <3> QED  BY <2>1, <3>3, <3>4
  <2>6. Claims(o)' => objects = Candidates
    BY <2>1 DEF IInv, Truthful, Claims
  <2> QED  BY <1>0, <2>1, <2>3, <2>4, <2>5, <2>6, QuietStep
<1>8. ASSUME NEW o \in Operators, RecordHistory(o)
      PROVE  IInv'
  <2>1. /\ pc[o] = "record" /\ rows[cand[o]] = None /\ UNCHANGED <<rows, objects, cand, result>>
        /\ pc' = [pc EXCEPT ![o] = "commit"]
        /\ tx' = [tx EXCEPT ![o].row = "APPLIED"]
    BY <1>8 DEF RecordHistory, Goto, dbVars
  <2>2. pc'[o] = "commit" /\ tx'[o].ddl = tx[o].ddl /\ tx'[o].row = "APPLIED"
    BY <2>1, TypesNamed DEF IInv, TypeOK, TxType
  <2>3. Others(o)
    BY <2>1 DEF Others, IInv, TypeOK
  <2>4. Standing(o)'
    BY <2>1, <2>2 DEF IInv, Standing, Writing
  <2>5. \A p \in Operators \ {o} : ~Writing(p)
    BY <2>1 DEF IInv, Alone, Writing
  <2>6. Claims(o)' => objects = Candidates
    BY <2>1 DEF IInv, Truthful, Claims
  <2> QED  BY <1>0, <2>1, <2>3, <2>4, <2>5, <2>6, QuietStep
<1>9. ASSUME NEW o \in Operators, ExecuteFails(o) \/ RecordFails(o) \/ StatementFails(o)
      PROVE  IInv'
  <2>1. /\ Fail(o) /\ UNCHANGED <<cand, rows, objects>>
        /\ pc[o] \in {"sql", "record", "commit"}
    BY <1>9 DEF ExecuteFails, RecordFails, StatementFails, dbVars
  <2>2. Claims(o) => objects = Candidates
    BY DEF IInv, Truthful
  <2> QED  BY <1>0, <2>1, <2>2, FailLeaves, QuietStep
\* An operator in a transaction has nothing to claim: the database lacks its candidate.
<1>10. ASSUME NEW o \in Operators, pc[o] = "commit"
       PROVE  ~Claims(o) /\ cand[o] \in Candidates
  BY <1>10 DEF IInv, TypeOK, Standing, Truthful, Writing
<1>11. ASSUME NEW o \in Operators, Commit(o)
       PROVE  IInv'
  <2>1. /\ pc[o] = "commit" /\ Committed(o) /\ tx' = [tx EXCEPT ![o] = NoTx]
        /\ \/ /\ cand[o] = N /\ pc' = [pc EXCEPT ![o] = "postflight"] /\ UNCHANGED cand
              /\ result' = [result EXCEPT ![o].applied = @ \cup {N}, ![o].migrations = "PASS"]
           \/ /\ cand[o] # N /\ pc' = [pc EXCEPT ![o] = "sql"]
              /\ cand' = [cand EXCEPT ![o] = @ + 1]
              /\ result' = [result EXCEPT ![o].applied = @ \cup {cand[o]}]
    BY <1>11 DEF Commit, Goto, RollBack
  <2>2. /\ result'[o].applied = result[o].applied \cup {cand[o]}
        /\ result'[o].status = result[o].status /\ result'[o].ready = result[o].ready
    BY <2>1, TypesNamed DEF IInv, ResultType
  <2>3. Others(o)
    BY <2>1 DEF Others, IInv, TypeOK
  <2>4. /\ tx'[o] = NoTx
        /\ pc'[o] = "postflight" \/ (pc'[o] = "sql" /\ cand'[o] = cand[o] + 1)
    BY <2>1 DEF IInv, TypeOK
  <2>5. PICK k \in 0..N : Prefix(k)
    BY DEF IInv, History
  <2>6. cand[o] = k + 1 /\ objects' = 1..k + 1
    BY <1>0, <2>1, <2>5, CommitGrows
  <2>7. pc'[o] = "sql" => \A c \in Candidates : c < cand'[o] => c \in objects'
    BY <2>4, <2>6 DEF Candidates
  <2>8. Standing(o)' /\ ~Writing(o)'
    BY <2>4, <2>7 DEF Standing, Writing, NoTx
  <2>9. ~Claims(o)'
    BY <1>10, <2>1, <2>2 DEF Claims
  <2> QED  BY <1>0, <2>1, <2>2, <2>3, <2>8, <2>9, CommitStep
<1>12. ASSUME NEW o \in Operators, NoteFailure(o) \/ NoteIsLost(o)
       PROVE  IInv'
  <2>1. CASE NoteIsLost(o)
    BY <1>2, <2>1 DEF NoteIsLost, dbVars
  <2>2. CASE NoteFailure(o)
    <3>1. Finish(o, "BLOCKED") /\ UNCHANGED cand /\ "BLOCKED" \in Statuses \ Validated
      BY <2>2 DEF NoteFailure, Statuses, Validated
    <3>2. Claims(o) => objects = Candidates
      BY DEF IInv, Truthful
    <3> QED  BY <1>0, <2>2, <3>1, <3>2, FinishLeaves, NoteStep
  <2> QED  BY <1>12, <2>1, <2>2
<1>13. ASSUME NEW o \in Operators, Validate(o)
       PROVE  IInv'
  <2>1. PICK s \in Validated, ready \in BOOLEAN :
           result' = [result EXCEPT ![o].status = s, ![o].ready = ready]
    BY <1>13 DEF Validate
  <2>2. /\ pc[o] = "validate" /\ pc' = [pc EXCEPT ![o] = "done"]
        /\ tx' = [tx EXCEPT ![o] = NoTx] /\ UNCHANGED <<rows, objects, cand>>
    BY <1>13 DEF Validate, Goto, RollBack, dbVars
  <2>3. pc'[o] = "done" /\ tx'[o] = NoTx /\ result'[o].applied = result[o].applied
    BY <2>1, <2>2, TypesNamed DEF IInv, TypeOK, ResultType
  <2>4. objects = Candidates
    BY <2>2 DEF IInv, Standing
  <2>5. Others(o)
    BY <2>1, <2>2 DEF Others, IInv, TypeOK
  <2>6. Standing(o)' /\ ~Writing(o)'
    BY <2>3 DEF Standing, Writing, NoTx
  <2> QED  BY <1>0, <2>2, <2>3, <2>4, <2>5, <2>6, QuietStep
<1>14. ASSUME NEW o \in Operators, Exit(o) \/ Crash(o)
       PROVE  IInv'
  <2>1. Ends(o) /\ (UNCHANGED dbVars \/ (pc[o] = "commit" /\ Committed(o)))
    BY <1>14 DEF Exit, Crash, dbVars
  <2>2. CASE UNCHANGED dbVars
    BY <1>0, <2>1, <2>2, EndsLeaves, QuietStep DEF dbVars
  <2>3. CASE pc[o] = "commit" /\ Committed(o)
    BY <1>0, <2>1, <2>3, EndsLeaves, CommitStep
  <2> QED  BY <2>1, <2>2, <2>3
<1>15. ASSUME NEW o \in Operators, ConnectionLost(o)
       PROVE  IInv'
  <2>1. /\ Finish(o, "BLOCKED") /\ UNCHANGED cand /\ "BLOCKED" \in Statuses \ Validated
        /\ UNCHANGED dbVars \/ (pc[o] = "commit" /\ Committed(o))
    BY <1>15 DEF ConnectionLost, Statuses, Validated, dbVars
  <2>2. CASE UNCHANGED dbVars
    BY <1>2, <2>1, <2>2 DEF dbVars
  <2>3. CASE pc[o] = "commit" /\ Committed(o)
    <3>1. ~Claims(o)'
      BY <1>10, <2>1, <2>3, FinishLeaves
    <3> QED  BY <1>0, <2>1, <2>3, <3>1, FinishLeaves, CommitStep
  <2> QED  BY <2>1, <2>2, <2>3
<1>16. ASSUME NEW o \in Operators, Unavailable(o)
       PROVE  IInv'
  BY <1>2, <1>16 DEF Unavailable, dbVars
<1> QED
  BY <1>1, <1>3, <1>5, <1>6, <1>7, <1>8, <1>9, <1>11, <1>12, <1>13, <1>14, <1>15, <1>16
     DEF Next, Advance, Faults

LEMMA Invariance == Spec => []IInv
<1>1. Init => IInv
  BY InvInit
<1>2. IInv /\ [Next]_vars => IInv'
  BY InvStep
<1> QED  BY <1>1, <1>2, PTL DEF Spec

----------------------------------------------------------------------------
(* Theorems.                                                               *)

\* The types of the database, of the runs and of their reports hold in every
\* reachable state (runtime_executor.execute).
THEOREM TypeCorrect == Spec => []TypeOK
<1>1. IInv => TypeOK
  BY DEF IInv
<1> QED  BY <1>1, Invariance, PTL

\* Whatever operators run at once, crash or lose their connection: the history is
\* a prefix of the manifest, an object exists exactly when its row says APPLIED,
\* and no two reports and no report and the history disagree
\* (runtime_executor._apply_candidates).
THEOREM Agreement == Spec => []RecordsAgree
<1>1. IInv => RecordsAgree
  <2> SUFFICES ASSUME IInv PROVE RecordsAgree
    OBVIOUS
  <2>1. PICK k \in 0..N : Prefix(k)
    BY DEF IInv, History
  <2>2. HistoryIsPrefix
    <3>1. ASSUME NEW c \in Candidates, rows[c] # None, NEW d \in 1..c - 1
          PROVE  rows[d] = "APPLIED"
      <4>1. c \in 1..k + 1
        BY <2>1, <3>1 DEF Prefix, Recorded
      <4>2. d \in Applied
        BY <2>1, <4>1, MigrationAssumption DEF Prefix
      <4> QED  BY <4>2 DEF Applied
    <3> QED  BY <3>1 DEF HistoryIsPrefix
  <2>3. ObjectsMatchHistory
    BY <2>1 DEF Prefix, ObjectsMatchHistory
  <2>4. ReportsAreTrue
    BY <2>3 DEF IInv, Truthful, Claims, ReportsAreTrue, ObjectsMatchHistory
  <2> QED  BY <2>2, <2>3, <2>4 DEF IInv, RecordsAgree
<1> QED  BY <1>1, Invariance, PTL

\* What a step does to the history: nothing, a commit's growth, or a recorded failure.
LEMMA HistorySteps ==
    ASSUME IInv, [Next]_vars
    PROVE  \/ UNCHANGED dbVars
           \/ \E o \in Operators : pc[o] = "commit" /\ Committed(o)
           \/ \E o \in Operators : NoteFailure(o) /\ UNCHANGED ran
<1>1. CASE UNCHANGED vars \/ EditFiles
  BY <1>1 DEF vars, EditFiles, dbVars
<1>2. ASSUME NEW o \in Operators,
             Begin(o) \/ Unavailable(o) \/ Preflight(o) \/ ReadHistory(o) \/ ExecuteSql(o)
      PROVE  UNCHANGED dbVars
  BY <1>2 DEF Begin, Start, Unavailable, Preflight, ReadHistory, ExecuteSql, dbVars
<1>3. ASSUME NEW o \in Operators,
             \/ ExecuteFails(o) \/ RecordHistory(o) \/ RecordFails(o) \/ NoteIsLost(o)
             \/ Postflight(o) \/ Validate(o) \/ Exit(o) \/ StatementFails(o)
      PROVE  UNCHANGED dbVars
  BY <1>3 DEF ExecuteFails, RecordHistory, RecordFails, NoteIsLost, Postflight, Validate,
              Exit, StatementFails, dbVars
<1>4. ASSUME NEW o \in Operators, Commit(o) \/ ConnectionLost(o) \/ Crash(o)
      PROVE  UNCHANGED dbVars \/ (pc[o] = "commit" /\ Committed(o))
  BY <1>4 DEF Commit, ConnectionLost, Crash, dbVars
<1>5. ASSUME NEW o \in Operators, NoteFailure(o)
      PROVE  UNCHANGED ran
  BY <1>5 DEF NoteFailure
<1> QED  BY <1>1, <1>2, <1>3, <1>4, <1>5 DEF Next, Advance, Faults

\* The ledger grows by the next candidate or is closed, in each step of the history.
LEMMA LedgerStep ==
    ASSUME IInv, IInv', [Next]_vars
    PROVE  [Ledger!ApplyNext \/ Ledger!Close]_<<Cardinality(Applied), Recorded # Applied>>
<1> USE MigrationAssumption
<1>1. PICK k \in 0..N : Prefix(k)
  BY DEF IInv, History
<1>2. Cardinality(Applied) = k
  BY <1>1, NextOfPrefix DEF Prefix
<1>3. CASE UNCHANGED dbVars
  <2>1. Applied' = Applied /\ Recorded' = Recorded
    BY <1>3 DEF Applied, Recorded, dbVars
  <2> QED  BY <2>1
<1>4. ASSUME NEW o \in Operators, pc[o] = "commit", Committed(o)
      PROVE  Ledger!ApplyNext
  <2>1. /\ k < N /\ Recorded = Applied /\ Applied' = 1..k + 1 /\ Recorded' = Applied'
    BY <1>1, <1>4, CommitGrows DEF IInv
  <2>2. k + 1 \in 0..N
    BY <2>1
  <2>3. Cardinality(1..k + 1) = k + 1
    BY <2>2, FS_Interval
  <2>4. Cardinality(Applied)' = k + 1 /\ (Recorded # Applied)' = FALSE
    BY <2>1, <2>3
  <2> QED  BY <1>2, <2>1, <2>4 DEF Ledger!ApplyNext
<1>5. ASSUME NEW o \in Operators, NoteFailure(o)
      PROVE  Ledger!Close
  <2>1. k < N /\ Recorded = Applied /\ Applied' = Applied /\ Recorded' = 1..k + 1
    BY <1>1, <1>5, NoteCloses DEF IInv
  <2>2. k + 1 \in Recorded' /\ k + 1 \notin Applied'
    BY <1>1, <2>1 DEF Prefix
  <2>3. Cardinality(Applied)' = k /\ (Recorded # Applied)' = TRUE
    BY <1>2, <2>1, <2>2
  <2> QED  BY <1>2, <2>1, <2>3 DEF Ledger!Close
<1> QED  BY <1>3, <1>4, <1>5, HistorySteps

\* A recorded failure stands after the prefix, where nothing can be added.
LEMMA FailureStep ==
    ASSUME IInv, IInv', [Next]_vars, \E c \in Candidates : rows[c] = "BLOCKED"
    PROVE  UNCHANGED dbVars
<1> USE MigrationAssumption
<1>1. PICK k \in 0..N : Prefix(k)
  BY DEF IInv, History
<1>2. Recorded # Applied
  BY DEF Recorded, Applied
<1>3. \A o \in Operators : ~(pc[o] = "commit" /\ Committed(o)) /\ ~NoteFailure(o)
  BY <1>1, <1>2, CommitGrows, NoteCloses DEF IInv
<1> QED  BY <1>3, HistorySteps

\* The history implements the abstract ledger: candidates are applied one at a time
\* and in order, by whichever operator, and a recorded failure closes it for good
\* (runtime_executor._apply_candidates, _try_record_failure).
THEOREM LedgerCorrect == Spec => LedgerIsFinal
<1>1. Init => Ledger!Init
  <2> SUFFICES ASSUME Init PROVE Ledger!Init
    OBVIOUS
  <2>1. Applied = {} /\ Recorded = {}
    BY MigrationAssumption DEF Init, Applied, Recorded, Candidates
  <2>2. Cardinality({}) = 0
    BY FS_EmptySet
  <2> QED  BY <2>1, <2>2 DEF Ledger!Init
<1>2. IInv /\ IInv' /\ [Next]_vars =>
         [Ledger!ApplyNext \/ Ledger!Close]_<<Cardinality(Applied), Recorded # Applied>>
  BY LedgerStep
<1>3. Spec => ImplementsLedger
  BY <1>1, <1>2, Invariance, PTL DEF Spec, ImplementsLedger, Ledger!Spec
<1>4. IInv /\ IInv' /\ [Next]_vars =>
         [(\E c \in Candidates : rows[c] = "BLOCKED") => UNCHANGED dbVars]_vars
  BY FailureStep
<1>5. Spec => FailureIsFinal
  BY <1>4, Invariance, PTL DEF Spec, FailureIsFinal
<1> QED  BY <1>3, <1>5 DEF LedgerIsFinal

----------------------------------------------------------------------------
(* The reports on disk.                                                    *)

Active == {o \in Operators : pc[o] \notin {"idle", "done"}}

\* Every run that was started is active or has ended; none ends twice.
Counted == IsFiniteSet(Active) /\ order + Cardinality(Active) <= runs

Written(s) ==
    IF s = "json" THEN {} ELSE IF s = "markdown" THEN {"json"} ELSE {"json", "markdown"}

\* Where a run is with its report.
Placed(o) ==
    /\ pc[o] # "idle" => ident[o] \in Heads
    /\ pc[o] # "done" => stage[o] = "json"
    /\ pc[o] = "done" => ended[o] \in 1..order /\ saved[ended[o]].parts = Written(stage[o])

Apart ==
    \A o, p \in Operators :
        pc[o] = "done" /\ pc[p] = "done" /\ ended[o] = ended[p] => o = p

\* A report that is there is of the commit its run began with, and true.
Sound(n) ==
    /\ n > order => saved[n].parts = {}
    /\ saved[n].parts # {} =>
          /\ saved[n].began = saved[n].head
          /\ saved[n].ready \/ saved[n].status \in Validated => objects = Candidates

ReportType ==
    [parts : SUBSET {"json", "markdown"}, head : Heads \cup {None}, began : Heads \cup {None},
     status : Statuses, ready : BOOLEAN]

EvidenceTypes ==
    /\ head \in Heads /\ pointer \in Reports \cup {None}
    /\ ident \in [Operators -> Heads \cup {None}]
    /\ ended \in [Operators -> 0..MaxRuns] /\ order \in 0..MaxRuns
    /\ stage \in [Operators -> {"json", "markdown", "pointer"}]
    /\ saved \in [Reports -> ReportType]

EvidenceInv ==
    /\ IInv
    /\ EvidenceTypes /\ Counted
    /\ \A o \in Operators : Placed(o)
    /\ Apart
    /\ \A n \in Reports : Sound(n)
    /\ PointedReportIsComplete

\* One operator's place changes: what that does to the number of active runs.
LEMMA ActiveCount ==
    ASSUME TypeOK, IsFiniteSet(Active), NEW o \in Operators, NEW x, pc' = [pc EXCEPT ![o] = x]
    PROVE  /\ IsFiniteSet(Active') /\ Cardinality(Active) \in Nat
           /\ o \in Active => Cardinality(Active) >= 1
           /\ Cardinality(Active') = Cardinality(Active) + (IF x \in {"idle", "done"} THEN 0 ELSE 1)
                                                        - (IF o \in Active THEN 1 ELSE 0)
<1> DEFINE rest == Active \ {o}
<1>1. /\ IsFiniteSet(rest) /\ Cardinality(rest) \in Nat /\ Cardinality(Active) \in Nat
      /\ Cardinality(Active) = Cardinality(rest) + (IF o \in Active THEN 1 ELSE 0)
  <2>1. /\ IsFiniteSet(rest)
        /\ Cardinality(rest) = IF o \in Active THEN Cardinality(Active) - 1 ELSE Cardinality(Active)
    BY FS_RemoveElement
  <2>2. Cardinality(Active) \in Nat /\ Cardinality(rest) \in Nat
    BY <2>1, FS_CardinalityType
  <2> HIDE DEF rest
  <2> QED  BY <2>1, <2>2
<1>2. Active' = IF x \in {"idle", "done"} THEN rest ELSE rest \cup {o}
  <2>1. pc'[o] = x /\ \A p \in Operators \ {o} : pc'[p] = pc[p]
    BY DEF TypeOK
  <2> QED  BY <2>1 DEF Active
<1>3. o \notin rest
  OBVIOUS
<1> HIDE DEF rest
<1>4. /\ IsFiniteSet(rest \cup {o}) /\ Cardinality(rest \cup {o}) = Cardinality(rest) + 1
  BY <1>1, <1>3, FS_AddElement
<1> QED  BY <1>1, <1>2, <1>4

\* Where the steps of a run take it.
LEMMA BeginGoes ==
    ASSUME NEW o \in Operators, Begin(o)
    PROVE  /\ pc[o] = "idle" /\ runs < MaxRuns /\ runs' = runs + 1 /\ UNCHANGED objects
           /\ \E x \in {"connect", "done"} : pc' = [pc EXCEPT ![o] = x]
BY DEF Begin, Start, Goto, dbVars

LEMMA AdvanceGoes ==
    ASSUME NEW o \in Operators, Advance(o) \/ StatementFails(o) \/ ConnectionLost(o)
    PROVE  /\ pc[o] \notin {"idle", "done"} /\ runs' = runs
           /\ \E x \in Phases \ {"idle"} : pc' = [pc EXCEPT ![o] = x]
<1>1. CASE Unavailable(o) \/ Preflight(o) \/ ReadHistory(o) \/ Postflight(o) \/ Validate(o)
  BY <1>1 DEF Unavailable, Preflight, ReadHistory, Postflight, Validate, Finish, Goto, boundVars, Phases
<1>2. CASE ExecuteSql(o) \/ ExecuteFails(o) \/ RecordHistory(o) \/ RecordFails(o) \/ StatementFails(o)
  BY <1>2 DEF ExecuteSql, ExecuteFails, RecordHistory, RecordFails, StatementFails, Fault, Fail,
              Goto, boundVars, Phases
<1>3. CASE Commit(o) \/ NoteFailure(o) \/ NoteIsLost(o) \/ ConnectionLost(o)
  BY <1>3 DEF Commit, NoteFailure, NoteIsLost, ConnectionLost, Finish, Goto, Fault, boundVars, Phases
<1> QED  BY <1>1, <1>2, <1>3 DEF Advance

LEMMA EndGoes ==
    ASSUME NEW o \in Operators, Exit(o) \/ Crash(o)
    PROVE  pc[o] # "idle" /\ runs' = runs /\ pc' = [pc EXCEPT ![o] = "idle"]
BY DEF Exit, Crash, Fault, Ends, Goto, boundVars

LEMMA ObjectsGrow == ASSUME IInv, [Next]_vars PROVE objects \subseteq objects'
<1>1. CASE UNCHANGED dbVars
  BY <1>1 DEF dbVars
<1>2. ASSUME NEW o \in Operators, Committed(o) PROVE objects \subseteq objects'
  BY <1>2 DEF Committed
<1>3. ASSUME NEW o \in Operators, NoteFailure(o) PROVE objects \subseteq objects'
  BY <1>3 DEF NoteFailure
<1> QED  BY <1>1, <1>2, <1>3, HistorySteps

\* Every step with reports is a step of the runs, or leaves them alone.
LEMMA EvidenceStepsAreSteps == EvidenceNext => [Next]_vars
BY DEF EvidenceNext, RunBegins, RunAdvances, Write, WriteJson, LeaveUnwritten, WriteMarkdown,
       WritePointer, Leave, WriterCrashes, MoveHead, Next, Faults

\* What the reports say of the database stays true while objects only grow.
LEMMA SoundStays ==
    ASSUME EvidenceInv, IInv', objects \subseteq objects', NEW n \in Reports,
           saved'[n] = saved[n], order' \in {order, order + 1}
    PROVE  Sound(n)'
<1>1. objects = Candidates => objects' = Candidates
  BY DEF IInv, TypeOK
<1>2. order \in Nat /\ n \in Nat
  BY DEF EvidenceInv, EvidenceTypes, Reports
<1>3. n > order' => n > order
  BY <1>2
<1> QED  BY <1>1, <1>3 DEF EvidenceInv, Sound

\* A step of a run: its place may change, its run may end, and its end gets the
\* next place in the order.
LEMMA RunStep ==
    ASSUME EvidenceInv, IInv', objects \subseteq objects', NEW o \in Operators,
           RunBegins(o) \/ RunAdvances(o)
    PROVE  EvidenceInv'
<1> USE MigrationAssumption
<1>1. /\ UNCHANGED <<head, stage, saved, pointer>> /\ pc[o] # "done"
      /\ IF pc'[o] = "done"
         THEN ended' = [ended EXCEPT ![o] = order + 1] /\ order' = order + 1
         ELSE UNCHANGED <<ended, order>>
      /\ ident' = ident \/ ident' = [ident EXCEPT ![o] = head]
      /\ pc[o] = "idle" => ident' = [ident EXCEPT ![o] = head]
  BY BeginGoes, AdvanceGoes DEF RunBegins, RunAdvances
<1>2. PICK x : pc' = [pc EXCEPT ![o] = x] /\ x # "idle"
  BY BeginGoes, AdvanceGoes DEF RunBegins, RunAdvances
<1>3. pc'[o] = x /\ \A p \in Operators \ {o} : pc'[p] = pc[p]
  BY <1>2 DEF EvidenceInv, IInv, TypeOK
<1>4. runs' = runs + (IF pc[o] = "idle" THEN 1 ELSE 0)
  BY BeginGoes, AdvanceGoes DEF RunBegins, RunAdvances, EvidenceInv, IInv, TypeOK
<1>5. TypeOK /\ TypeOK' /\ EvidenceTypes /\ Counted
  BY DEF EvidenceInv, IInv
<1>6. runs' \in 0..MaxRuns /\ runs \in Nat /\ order \in Nat /\ MaxRuns \in Nat
  BY <1>5 DEF TypeOK, EvidenceTypes
<1>7. order' + Cardinality(Active') <= runs' /\ IsFiniteSet(Active') /\ Cardinality(Active') \in Nat
  <2>1. /\ IsFiniteSet(Active') /\ Cardinality(Active) \in Nat
        /\ o \in Active => Cardinality(Active) >= 1
        /\ Cardinality(Active') = Cardinality(Active) + (IF x \in {"idle", "done"} THEN 0 ELSE 1)
                                                     - (IF o \in Active THEN 1 ELSE 0)
    BY <1>2, <1>5, ActiveCount DEF Counted
  <2>2. o \in Active <=> pc[o] # "idle"
    BY <1>1 DEF Active
  <2>3. order + Cardinality(Active) <= runs
    BY <1>5 DEF Counted
  <2>4. order' = IF x = "done" THEN order + 1 ELSE order
    BY <1>1, <1>3
  <2> QED  BY <1>2, <1>4, <1>6, <2>1, <2>2, <2>3, <2>4
<1>8. order' \in 0..MaxRuns /\ order' \in {order, order + 1}
  BY <1>1, <1>6, <1>7
<1>9. EvidenceTypes'
  <2>1. ended' \in [Operators -> 0..MaxRuns] /\ ident' \in [Operators -> Heads \cup {None}]
    BY <1>1, <1>5, <1>8 DEF EvidenceTypes
  <2> QED  BY <1>1, <1>5, <1>8, <2>1 DEF EvidenceTypes
<1>10. ASSUME NEW p \in Operators \ {o}
       PROVE  /\ pc'[p] = pc[p] /\ ended'[p] = ended[p] /\ ident'[p] = ident[p]
              /\ Placed(p)'
  <2>1. pc'[p] = pc[p] /\ ended'[p] = ended[p] /\ ident'[p] = ident[p]
    BY <1>1, <1>3, <1>5 DEF EvidenceTypes
  <2>2. Placed(p)
    BY DEF EvidenceInv
  <2>3. ended[p] \in 1..order => ended[p] \in 1..order'
    BY <1>6, <1>8
  <2> QED  BY <1>1, <2>1, <2>2, <2>3 DEF Placed
<1>11. x = "done" => /\ ended'[o] = order + 1 /\ order' = order + 1 /\ order + 1 \in Reports
                     /\ saved[order + 1].parts = {}
  <2>1. x = "done" => ended'[o] = order + 1 /\ order' = order + 1
    BY <1>1, <1>3, <1>5 DEF EvidenceTypes
  <2>2. x = "done" => order + 1 \in Reports /\ order + 1 > order
    BY <1>6, <1>8, <2>1 DEF Reports
  <2> QED  BY <2>1, <2>2 DEF EvidenceInv, Sound
<1>12. Placed(o)'
  <2>1. stage'[o] = "json"
    BY <1>1 DEF EvidenceInv, Placed
  <2>2. ident'[o] \in Heads
    BY <1>1, <1>5 DEF EvidenceInv, Placed, EvidenceTypes
  <2>3. x = "done" => ended'[o] \in 1..order'
    BY <1>6, <1>11
  <2> QED  BY <1>1, <1>3, <1>11, <2>1, <2>2, <2>3 DEF Placed, Written
<1>13. Apart'
  <2>1. ASSUME NEW p \in Operators \ {o}, pc'[p] = "done", x = "done"
        PROVE  ended'[p] # ended'[o]
    <3>1. ended'[p] \in 1..order
      BY <1>10, <2>1 DEF EvidenceInv, Placed
    <3> QED  BY <1>6, <1>11, <2>1, <3>1
  <2> QED  BY <1>3, <1>10, <2>1 DEF EvidenceInv, Apart
<1>14. \A n \in Reports : Sound(n)'
  BY <1>1, <1>8, SoundStays
<1>15. PointedReportIsComplete'
  BY <1>1 DEF EvidenceInv, PointedReportIsComplete
<1> QED  BY <1>7, <1>9, <1>10, <1>12, <1>13, <1>14, <1>15 DEF EvidenceInv, Counted

\* A run is left, its report written or not: its operator is as if it had none.
LEMMA LeaveStep ==
    ASSUME EvidenceInv, IInv', objects \subseteq objects', NEW o \in Operators,
           Exit(o) \/ Crash(o), Forgets(o), UNCHANGED <<head, order, saved>>,
           pointer' = pointer \/ (pc[o] = "done" /\ stage[o] = "pointer" /\ pointer' = ended[o])
    PROVE  EvidenceInv'
<1> USE MigrationAssumption
<1>1. pc[o] # "idle" /\ runs' = runs /\ pc' = [pc EXCEPT ![o] = "idle"]
  BY EndGoes
<1>2. TypeOK /\ EvidenceTypes /\ Counted
  BY DEF EvidenceInv, IInv
<1>3. /\ pc'[o] = "idle" /\ stage'[o] = "json"
      /\ \A p \in Operators \ {o} : /\ pc'[p] = pc[p] /\ stage'[p] = stage[p]
                                    /\ ended'[p] = ended[p] /\ ident'[p] = ident[p]
  BY <1>1, <1>2 DEF Forgets, TypeOK, EvidenceTypes
<1>4. Counted'
  <2>1. /\ IsFiniteSet(Active') /\ Cardinality(Active) \in Nat
        /\ o \in Active => Cardinality(Active) >= 1
        /\ Cardinality(Active') = Cardinality(Active) + (IF "idle" \in {"idle", "done"} THEN 0 ELSE 1)
                                                     - (IF o \in Active THEN 1 ELSE 0)
    BY <1>1, <1>2, ActiveCount DEF Counted
  <2>2. order \in Nat /\ runs \in Nat /\ order + Cardinality(Active) <= runs
    BY <1>2 DEF Counted, TypeOK, EvidenceTypes
  <2> QED  BY <1>1, <2>1, <2>2 DEF Counted
<1>5. ASSUME pointer' # pointer
      PROVE  pointer' \in Reports /\ saved[pointer'].parts = {"json", "markdown"}
  <2>1. pc[o] = "done" /\ stage[o] = "pointer" /\ pointer' = ended[o]
    BY <1>5
  <2>2. Placed(o) /\ order \in 0..MaxRuns
    BY <1>2 DEF EvidenceInv, EvidenceTypes
  <2> QED  BY <2>1, <2>2 DEF Placed, Written, Reports
<1>6. EvidenceTypes'
  BY <1>2, <1>5 DEF Forgets, EvidenceTypes
<1>7. \A p \in Operators : Placed(p)'
  <2>1. Placed(o)'
    BY <1>3 DEF Placed
  <2>2. ASSUME NEW p \in Operators \ {o} PROVE Placed(p)'
    BY <1>3 DEF EvidenceInv, Placed
  <2> QED  BY <2>1, <2>2
<1>8. Apart'
  BY <1>3 DEF EvidenceInv, Apart
<1>9. \A n \in Reports : Sound(n)'
  BY SoundStays
<1>10. PointedReportIsComplete'
  BY <1>5 DEF EvidenceInv, PointedReportIsComplete
<1> QED  BY <1>4, <1>6, <1>7, <1>8, <1>9, <1>10 DEF EvidenceInv

\* A part of a report is written.
LEMMA WriteStep ==
    ASSUME EvidenceInv, IInv', NEW o \in Operators, WriteJson(o) \/ WriteMarkdown(o)
    PROVE  EvidenceInv'
<1> USE MigrationAssumption
<1> DEFINE n == ended[o]
<1>1. /\ pc[o] = "done" /\ UNCHANGED <<vars, head, ident, ended, order, pointer>>
      /\ \/ stage[o] = "json" /\ stage' = [stage EXCEPT ![o] = "markdown"]
         \/ stage[o] = "markdown" /\ stage' = [stage EXCEPT ![o] = "pointer"]
  BY DEF WriteJson, WriteMarkdown
<1>2. UNCHANGED <<objects, pc, runs, result>>
  BY <1>1 DEF vars
<1>3. EvidenceTypes /\ TypeOK /\ Placed(o) /\ Truthful(o) /\ result[o] \in ResultType
  BY TypesNamed DEF EvidenceInv, IInv
<1>4. n \in Reports /\ n \in 1..order /\ n \notin {m \in Reports : m > order}
  BY <1>1, <1>3 DEF EvidenceTypes, Placed, Reports
<1>5. PICK r \in ReportType :
        /\ saved' = [saved EXCEPT ![n] = r]
        /\ r.parts = Written(stage'[o])
        /\ r.began = r.head /\ (r.ready \/ r.status \in Validated => objects = Candidates)
  <2>1. CASE WriteJson(o)
    <3> DEFINE r == [parts |-> {"json"}, head |-> head, began |-> ident[o],
                     status |-> result[o].status, ready |-> result[o].ready]
    <3>1. saved' = [saved EXCEPT ![n] = r] /\ head = ident[o] /\ stage'[o] = "markdown"
      BY <1>3, <2>1 DEF WriteJson, EvidenceTypes
    <3>2. r \in ReportType
      BY <1>3 DEF ReportType, ResultType, EvidenceTypes
    <3>3. r.ready \/ r.status \in Validated => objects = Candidates
      BY <1>3 DEF Truthful, Claims
    <3> QED  BY <3>1, <3>2, <3>3 DEF Written
  <2>2. CASE WriteMarkdown(o)
    <3> DEFINE r == [saved[n] EXCEPT !.parts = @ \cup {"markdown"}]
    <3>1. saved' = [saved EXCEPT ![n] = r] /\ stage[o] = "markdown" /\ stage'[o] = "pointer"
      BY <1>3, <2>2 DEF WriteMarkdown, EvidenceTypes
    <3>2. saved[n] \in ReportType /\ saved[n].parts = {"json"} /\ Sound(n)
      BY <1>1, <1>3, <1>4, <3>1 DEF EvidenceTypes, EvidenceInv, Placed, Written
    <3>3. /\ r \in ReportType /\ r.parts = {"json", "markdown"}
          /\ r.began = saved[n].began /\ r.head = saved[n].head
          /\ r.ready = saved[n].ready /\ r.status = saved[n].status
      BY <3>2 DEF ReportType
    <3> HIDE DEF r
    <3> QED  BY <3>1, <3>2, <3>3 DEF Written, Sound
  <2> QED  BY <2>1, <2>2
<1>6. saved'[n] = r /\ \A m \in Reports \ {n} : saved'[m] = saved[m]
  BY <1>3, <1>4, <1>5 DEF EvidenceTypes
<1>7. EvidenceTypes'
  <2>1. saved' \in [Reports -> ReportType] /\ stage' \in [Operators -> {"json", "markdown", "pointer"}]
    BY <1>1, <1>3, <1>5 DEF EvidenceTypes
  <2> QED  BY <1>1, <1>3, <2>1 DEF EvidenceTypes
<1>8. Counted' /\ Apart'
  BY <1>1, <1>2 DEF EvidenceInv, Counted, Apart, Active
<1>9. ASSUME NEW p \in Operators PROVE Placed(p)'
  <2>1. CASE p = o
    BY <1>1, <1>2, <1>3, <1>5, <1>6, <2>1 DEF Placed
  <2>2. CASE p # o
    <3>1. stage'[p] = stage[p]
      BY <1>1, <1>3, <2>2 DEF EvidenceTypes
    <3>2. pc[p] = "done" => ended[p] # n /\ ended[p] \in Reports
      BY <1>1, <1>3, <2>2 DEF EvidenceInv, Apart, Placed, EvidenceTypes, Reports
    <3> QED  BY <1>1, <1>2, <1>6, <3>1, <3>2 DEF EvidenceInv, Placed
  <2> QED  BY <2>1, <2>2
<1>10. ASSUME NEW m \in Reports PROVE Sound(m)'
  BY <1>1, <1>2, <1>4, <1>5, <1>6 DEF EvidenceInv, Sound
<1>11. PointedReportIsComplete'
  <2>1. pointer # None => pointer \in Reports \ {n}
    <3>1. saved[n].parts # {"json", "markdown"}
      BY <1>1, <1>3 DEF Placed, Written
    <3> QED  BY <1>3, <3>1 DEF EvidenceInv, PointedReportIsComplete, EvidenceTypes
  <2> QED  BY <1>1, <1>6, <2>1 DEF EvidenceInv, PointedReportIsComplete
<1> QED  BY <1>7, <1>8, <1>9, <1>10, <1>11 DEF EvidenceInv

LEMMA EvidenceStart == EvidenceInit => EvidenceInv
<1> SUFFICES ASSUME EvidenceInit PROVE EvidenceInv
  OBVIOUS
<1> USE MigrationAssumption
<1>1. IInv
  BY InvInit DEF EvidenceInit
<1>2. EvidenceTypes
  BY DEF EvidenceInit, EvidenceTypes, NoReport, ReportType, Statuses
<1>3. Counted
  <2>1. Active = {}
    BY DEF EvidenceInit, Init, Active
  <2> QED  BY <2>1, FS_EmptySet DEF EvidenceInit, Init, Counted
<1>4. \A o \in Operators : Placed(o)
  BY DEF EvidenceInit, Init, Placed
<1>5. Apart /\ PointedReportIsComplete
  BY DEF EvidenceInit, Init, Apart, PointedReportIsComplete
<1>6. \A n \in Reports : Sound(n)
  BY DEF EvidenceInit, Sound, NoReport
<1> QED  BY <1>1, <1>2, <1>3, <1>4, <1>5, <1>6 DEF EvidenceInv

LEMMA EvidenceStep ==
    ASSUME EvidenceInv, [EvidenceNext]_allVars
    PROVE  EvidenceInv'
<1>1. [Next]_vars
  BY EvidenceStepsAreSteps DEF allVars
<1>2. IInv' /\ objects \subseteq objects'
  BY <1>1, InvStep, ObjectsGrow DEF EvidenceInv
<1>3. ASSUME NEW o \in Operators, RunBegins(o) \/ RunAdvances(o) PROVE EvidenceInv'
  BY <1>2, <1>3, RunStep
<1>4. ASSUME NEW o \in Operators, LeaveUnwritten(o) \/ WritePointer(o) \/ WriterCrashes(o)
      PROVE  EvidenceInv'
  <2>1. /\ Exit(o) \/ Crash(o)
        /\ Forgets(o) /\ UNCHANGED <<head, order, saved>>
        /\ pointer' = pointer \/ (pc[o] = "done" /\ stage[o] = "pointer" /\ pointer' = ended[o])
    BY <1>4 DEF LeaveUnwritten, WritePointer, WriterCrashes, Leave, Exit
  <2> QED  BY <1>2, <2>1, LeaveStep
<1>5. ASSUME NEW o \in Operators, WriteJson(o) \/ WriteMarkdown(o) PROVE EvidenceInv'
  BY <1>2, <1>5, WriteStep
<1>6. CASE /\ UNCHANGED <<pc, runs, objects, ident, ended, order, stage, saved, pointer>>
           /\ head' \in Heads
  <2>1. EvidenceTypes' /\ Counted' /\ Apart' /\ PointedReportIsComplete'
    BY <1>6 DEF EvidenceInv, EvidenceTypes, Counted, Active, Apart, PointedReportIsComplete
  <2>2. \A o \in Operators : Placed(o)'
    BY <1>6 DEF EvidenceInv, Placed
  <2>3. \A n \in Reports : Sound(n)'
    BY <1>6 DEF EvidenceInv, Sound
  <2> QED  BY <1>2, <2>1, <2>2, <2>3 DEF EvidenceInv
<1>7. (EditFiles /\ UNCHANGED evidenceVars) \/ MoveHead \/ UNCHANGED allVars =>
         /\ UNCHANGED <<pc, runs, objects, ident, ended, order, stage, saved, pointer>>
         /\ head' \in Heads
  BY DEF EvidenceInv, EvidenceTypes, EditFiles, dbVars, evidenceVars, MoveHead, allVars, vars
<1> QED  BY <1>3, <1>4, <1>5, <1>6, <1>7 DEF EvidenceNext, Write

\* Whatever runs are under way, fail or crash in writing their reports, and wherever
\* HEAD moves meanwhile: the pointer names a whole report, and one that passes the
\* review is of a run from the commit of HEAD, and true of the database
\* (review_runtime_evidence, write_runtime_report).
THEOREM ReviewIsSound == EvidenceSpec => []ReviewedEvidenceHolds
<1>1. EvidenceInv => ReviewedEvidenceHolds
  <2> SUFFICES ASSUME EvidenceInv PROVE ReviewedEvidenceHolds
    OBVIOUS
  <2>1. EvidenceTypeOK
    BY DEF EvidenceInv, IInv, EvidenceTypes, EvidenceTypeOK, ReportType
  <2>2. EvidenceHolds
    <3>1. SUFFICES ASSUME ReviewPasses
                   PROVE  /\ saved[pointer].began = head
                          /\ saved[pointer].ready \/ saved[pointer].status \in Validated =>
                                objects = Candidates
      BY DEF EvidenceHolds
    <3>2. pointer \in Reports /\ saved[pointer].parts # {} /\ saved[pointer].head = head
      BY <3>1 DEF ReviewPasses, EvidenceInv, EvidenceTypes
    <3> QED  BY <3>2 DEF EvidenceInv, Sound
  <2> QED  BY <2>1, <2>2 DEF EvidenceInv, ReviewedEvidenceHolds
<1> QED  BY <1>1, EvidenceStart, EvidenceStep, PTL DEF EvidenceSpec
=============================================================================
