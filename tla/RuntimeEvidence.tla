--------------------------- MODULE RuntimeEvidence ---------------------------
(***************************************************************************)
(* The reports of the runtime executor on disk: one directory for a run,   *)
(* the JSON and the Markdown in it, and latest.json, the pointer that      *)
(* review_runtime_evidence follows.  The writers are the operators of      *)
(* Migration, after their run; HEAD moves under them.                      *)
(***************************************************************************)
EXTENDS Migration

CONSTANTS
    Heads,          \* commits HEAD may name
    MaxMoves        \* bound: moves of HEAD

ASSUME EvidenceAssumption == MaxMoves \in Nat /\ None \notin Heads

VARIABLES
    head,       \* git rev-parse HEAD
    ident,      \* [operator -> the commit its run captured when it started]
    ended,      \* [operator -> the place of its run in the order of finished_at]
    order,      \* runs that finished
    stage,      \* [operator -> the part of the report it writes next]
    saved,      \* the reports on disk, by order of their finished_at
    pointer,    \* latest.json: the report it names, or None
    moves

evidenceVars == <<head, ident, ended, order, stage, saved, pointer, moves>>
allVars == <<vars, evidenceVars>>

Reports == 1..MaxRuns
NoReport == [parts |-> {}, head |-> None, began |-> None, status |-> None, ready |-> FALSE]

EvidenceInit ==
    /\ Init
    /\ head \in Heads
    /\ ident = [o \in Operators |-> None]
    /\ ended = [o \in Operators |-> 0]
    /\ order = 0
    /\ stage = [o \in Operators |-> "json"]
    /\ saved = [n \in Reports |-> NoReport]
    /\ pointer = None
    /\ moves = 0

\* execute captures HEAD before anything else, and finished_at at its end.
RunBegins(o) ==
    /\ Begin(o)
    /\ ident' = [ident EXCEPT ![o] = head]
    /\ IF pc'[o] = "done"
       THEN ended' = [ended EXCEPT ![o] = order + 1] /\ order' = order + 1
       ELSE UNCHANGED <<ended, order>>
    /\ UNCHANGED <<head, stage, saved, pointer, moves>>

RunAdvances(o) ==
    /\ Advance(o) \/ StatementFails(o) \/ ConnectionLost(o)
    /\ IF pc'[o] = "done"
       THEN ended' = [ended EXCEPT ![o] = order + 1] /\ order' = order + 1
       ELSE UNCHANGED <<ended, order>>
    /\ UNCHANGED <<head, ident, stage, saved, pointer, moves>>

----------------------------------------------------------------------------
(* write_runtime_report.                                                   *)

Forgets(o) ==
    /\ stage' = [stage EXCEPT ![o] = "json"]
    /\ ident' = [ident EXCEPT ![o] = None]
    /\ ended' = [ended EXCEPT ![o] = 0]

Leave(o) == Exit(o) /\ Forgets(o)

\* Mutant: HEAD is not compared with the commit the run captured.
WriteJson_AnyHead(o) ==
    /\ pc[o] = "done" /\ stage[o] = "json"
    /\ saved' = [saved EXCEPT ![ended[o]] =
                    [parts |-> {"json"}, head |-> head, began |-> ident[o],
                     status |-> result[o].status, ready |-> result[o].ready]]
    /\ stage' = [stage EXCEPT ![o] = "markdown"]
    /\ UNCHANGED <<vars, head, ident, ended, order, pointer, moves>>

\* HEAD is captured again and must be what the report says; both files of the
\* report have it.  began is the commit the run itself captured.
WriteJson(o) ==
    /\ pc[o] = "done" /\ stage[o] = "json"
    /\ head = ident[o]
    /\ saved' = [saved EXCEPT ![ended[o]] =
                    [parts |-> {"json"}, head |-> head, began |-> ident[o],
                     status |-> result[o].status, ready |-> result[o].ready]]
    /\ stage' = [stage EXCEPT ![o] = "markdown"]
    /\ UNCHANGED <<vars, head, ident, ended, order, pointer, moves>>

\* HEAD has moved: GIT_HEAD_ARGUMENT_MISMATCH, and nothing is written.  Or no
\* report is asked for.
LeaveUnwritten(o) ==
    /\ stage[o] = "json"
    /\ Leave(o)
    /\ UNCHANGED <<head, order, saved, pointer, moves>>

WriteMarkdown(o) ==
    /\ pc[o] = "done" /\ stage[o] = "markdown"
    /\ saved' = [saved EXCEPT ![ended[o]].parts = @ \cup {"markdown"}]
    /\ stage' = [stage EXCEPT ![o] = "pointer"]
    /\ UNCHANGED <<vars, head, ident, ended, order, pointer, moves>>

\* The pointer is replaced whatever it named.
WritePointer(o) ==
    /\ stage[o] = "pointer"
    /\ pointer' = ended[o]
    /\ Leave(o)
    /\ UNCHANGED <<head, order, saved, moves>>

WriterCrashes(o) ==
    /\ Crash(o)
    /\ Forgets(o)
    /\ UNCHANGED <<head, order, saved, pointer, moves>>

MoveHead ==
    /\ moves < MaxMoves /\ moves' = moves + 1
    /\ \E h \in Heads \ {head} : head' = h
    /\ UNCHANGED <<vars, ident, ended, order, stage, saved, pointer>>

Write(o) == WriteJson(o) \/ LeaveUnwritten(o) \/ WriteMarkdown(o) \/ WritePointer(o)

EvidenceNext ==
    \/ \E o \in Operators : RunBegins(o) \/ RunAdvances(o) \/ Write(o) \/ WriterCrashes(o)
    \/ (EditFiles /\ UNCHANGED evidenceVars)
    \/ MoveHead

EvidenceSpec == EvidenceInit /\ [][EvidenceNext]_allVars 

----------------------------------------------------------------------------
(* review_runtime_evidence.                                                *)

\* The pointer and both files exist and have the commit HEAD names.  That the
\* production target is known is a file of the repository, taken as given.
ReviewPasses ==
    /\ pointer # None
    /\ saved[pointer].parts = {"json", "markdown"}
    /\ saved[pointer].head = head

\* select_latest_runtime_report.
Newest ==
    LET written == {n \in Reports : "json" \in saved[n].parts}
    IN  CHOOSE n \in written : \A m \in written : m <= n

----------------------------------------------------------------------------
(* Properties.                                                             *)

EvidenceTypeOK ==
    /\ TypeOK
    /\ head \in Heads /\ pointer \in Reports \cup {None}
    /\ ident \in [Operators -> Heads \cup {None}]
    /\ ended \in [Operators -> 0..MaxRuns] /\ order \in 0..MaxRuns
    /\ stage \in [Operators -> {"json", "markdown", "pointer"}]
    /\ \A n \in Reports : saved[n].parts \subseteq {"json", "markdown"}

\* The pointer never names a report that is not complete, whatever crashed.
PointedReportIsComplete == pointer # None => saved[pointer].parts = {"json", "markdown"}

\* Evidence that passes the review is of a run that started from the commit
\* HEAD names now; when it says the validations passed, the database has every
\* candidate, though other runs failed or are under way.
EvidenceHolds ==
    ReviewPasses =>
        /\ saved[pointer].began = head
        /\ saved[pointer].ready \/ saved[pointer].status \in Validated => objects = Candidates

\* docs/V4_RUNTIME_EXECUTOR.md: latest.json is an atomic pointer to the newest
\* run, and the review validates the latest evidence.
ReviewIsOfNewest == ReviewPasses => pointer = Newest

\* What the review follows is a whole report, and what passes it is true.
ReviewedEvidenceHolds == EvidenceTypeOK /\ PointedReportIsComplete /\ EvidenceHolds
============================================================================
