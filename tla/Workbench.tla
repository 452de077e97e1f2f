----------------------------- MODULE Workbench -----------------------------
(***************************************************************************)
(* The manual review workbench: one server process over one output         *)
(* directory, with an append-only ledger of human reviews and the exports  *)
(* it rewrites after every review.                                         *)
(*                                                                         *)
(* submit and skip hold the lock from their first read to their answer.    *)
(* Between two of their writes the process may end, or a write may raise.  *)
(* The exports are replaced atomically; the ledger is appended to, so what *)
(* an interrupted append leaves is any prefix of the line.                 *)
(***************************************************************************)
EXTENDS Naturals, Sequences, FiniteSets

CONSTANTS
    Items,          \* the cells of the queue
    Texts,          \* source texts of values, past the checks of their format
    Notes,
    Breaking,       \* texts and notes with a character that ends a line for
                    \* str.splitlines and that json.dumps leaves unescaped
    OcrText,        \* [Items -> the text CONFIRM_OCR_VALUE takes, or None]
    MaxLines,       \* bound: appends to the ledger
    MaxCrashes,     \* bound: process ends
    MaxFailures,    \* bound: writes that raise
    None,           \* Python's None
    Absent          \* no such file

Actions == {"CONFIRM_OCR_VALUE", "ENTER_CORRECT_VALUE", "UNKNOWN", "CONFLICT"}

\* manual_review_record_id is derived from item and revision.
RecordIds == [key : Items, rev : Nat \ {0}]
Records == [id : RecordIds, sup : RecordIds \cup {None}, action : Actions,
            text : Texts \cup {None}, note : Notes]

\* bytes: the whole line, all but its newline, or less.
Chunks == [record : Records, bytes : {"line", "open", "torn"}]

Answers == {"committed", "warning", "failed"}

\* None and Absent are no values of the data.
ASSUME WorkbenchAssumption ==
    /\ IsFiniteSet(Items)
    /\ None \notin Items \cup Texts \cup Records \cup RecordIds \cup Answers
    /\ Absent \notin {None} \cup Seq(Chunks)
    /\ Breaking \subseteq Texts \cup Notes /\ None \notin Breaking
    /\ OcrText \in [Items -> Texts \cup {None}]
    /\ MaxLines \in Nat /\ MaxCrashes \in Nat /\ MaxFailures \in Nat

VARIABLES
    disk,       \* [file -> its content, or Absent]
    phase,      \* where the process is
    todo,       \* the export a refresh writes next
    pending,    \* the record that is being appended, or None
    answer,     \* what the last submission was answered
    crashes, failures

vars == <<disk, phase, todo, pending, answer, crashes, failures>>

Ledger == disk["ledger"]

----------------------------------------------------------------------------
(* Reading the ledger.                                                     *)

Splits(r) == r.text \in Breaking \/ r.note \in Breaking

\* read_jsonl: every line is one JSON object.
Loads(chunks) ==
    \A n \in DOMAIN chunks :
        /\ chunks[n].bytes # "torn" /\ ~Splits(chunks[n].record)
        /\ n < Len(chunks) => chunks[n].bytes = "line"

\* _load_records does not raise.
CanRead == Ledger # Absent /\ Loads(Ledger)

Reviewed(chunks, i) == {chunks[n].record : n \in {m \in DOMAIN chunks : chunks[m].record.id.key = i}}

\* latest_by_item.
LatestByItem(chunks) ==
    [i \in {chunks[n].record.id.key : n \in DOMAIN chunks} |->
        CHOOSE r \in Reviewed(chunks, i) : \A s \in Reviewed(chunks, i) : s.id.rev <= r.id.rev]

\* Every status a record may have is terminal.
Remaining(latest) == Items \ DOMAIN latest

With(latest, actions) == {i \in DOMAIN latest : latest[i].action \in actions}

Confirming == {"CONFIRM_OCR_VALUE", "ENTER_CORRECT_VALUE"}

Summary(chunks) ==
    LET latest == LatestByItem(chunks)
    IN  [confirmed |-> Cardinality(With(latest, Confirming)),
         unknown |-> Cardinality(With(latest, {"UNKNOWN"})),
         conflict |-> Cardinality(With(latest, {"CONFLICT"})),
         remaining |-> Cardinality(Remaining(latest)),
         ready |-> With(latest, Confirming) = Items]

----------------------------------------------------------------------------
(* Starting.                                                               *)

\* The files in the order a first start writes them, and a refresh.
CreationOrder == <<"dir", "queue", "queue_manifest", "summary", "manifest", "ledger",
                   "conflicts", "remaining", "session", "report">>
RefreshOrder == <<"remaining", "conflicts", "manifest", "summary", "session", "report">>
Files == {CreationOrder[n] : n \in DOMAIN CreationOrder}
Exports == {"remaining", "conflicts", "manifest", "summary"}

\* What an export says of a ledger; the manifest holds the hash of its bytes.
\* Of the queue, its manifest and the report only their presence is kept.
Export(file, chunks) ==
    LET latest == LatestByItem(chunks)
    IN  CASE file = "remaining" -> Remaining(latest)
          [] file = "conflicts" -> {latest[i] : i \in With(latest, {"CONFLICT"})}
          [] file = "manifest" -> [hash |-> chunks, summary |-> Summary(chunks)]
          [] file = "summary" -> Summary(chunks)

SessionState(skipped, chunks) == [skipped |-> skipped, summary |-> Summary(chunks)]

FirstContent(file) ==
    CASE file \in Exports -> Export(file, <<>>)
      [] file = "ledger" -> <<>>
      [] file = "session" -> SessionState({}, <<>>)
      [] OTHER -> None

Init ==
    /\ disk = [f \in Files |-> Absent]
    /\ phase = "down" /\ todo = 1 /\ pending = None /\ answer = None
    /\ crashes = 0 /\ failures = 0

Write(file, content) == disk' = [disk EXCEPT ![file] = content]

\* initialize_workbench, one file at a time.
Create ==
    /\ \/ phase = "down" /\ disk["dir"] = Absent
       \/ phase = "creating"
    /\ \E n \in DOMAIN CreationOrder :
          /\ disk[CreationOrder[n]] = Absent
          /\ \A m \in 1..(n - 1) : disk[CreationOrder[m]] # Absent
          /\ Write(CreationOrder[n], FirstContent(CreationOrder[n]))
          /\ phase' = IF n = Len(CreationOrder) THEN "idle" ELSE "creating"
    /\ UNCHANGED <<todo, pending, answer, crashes, failures>>

\* A directory without the queue manifest is refused; no other file is asked for.
Resume ==
    /\ phase = "down" /\ disk["queue_manifest"] # Absent
    /\ phase' = "idle"
    /\ UNCHANGED <<disk, todo, pending, answer, crashes, failures>>

----------------------------------------------------------------------------
(* submit.  What it refuses for its input alone changes nothing.           *)

SubmittedText(i, action, text) ==
    CASE action = "CONFIRM_OCR_VALUE" -> OcrText[i]
      [] action = "UNKNOWN" -> None
      [] OTHER -> text

\* DuplicateSubmissionError; the note is not compared.
Repeats(prior, action, text) ==
    prior # None /\ prior.action = action /\ prior.text = text

\* Mutant: the revision counts the records of all items.
RecordOf_GlobalRevision(i, prior, action, text, note) ==
    [id |-> [key |-> i, rev |-> Len(Ledger) + 1],
     sup |-> IF prior = None THEN None ELSE prior.id,
     action |-> action, text |-> text, note |-> note]

RecordOf(i, prior, action, text, note) ==
    [id |-> [key |-> i, rev |-> IF prior = None THEN 1 ELSE prior.id.rev + 1],
     sup |-> IF prior = None THEN None ELSE prior.id,
     action |-> action, text |-> text, note |-> note]

\* Mutant: lines that do not parse are passed over.
MayRead_SkipsBadLines == Ledger # Absent

\* The reads of a submission and of a skip raise otherwise.
MayRead == CanRead

Submit(i, action, text, note) ==
    LET latest == LatestByItem(Ledger)
        prior == IF i \in DOMAIN latest THEN latest[i] ELSE None
        source_text == SubmittedText(i, action, text)
    IN  /\ phase = "idle" /\ MayRead /\ Len(Ledger) < MaxLines
        /\ action = "CONFIRM_OCR_VALUE" => OcrText[i] # None
        /\ ~Repeats(prior, action, source_text)
        /\ pending' = RecordOf(i, prior, action, source_text, note)
        /\ phase' = "append" /\ answer' = None
        /\ UNCHANGED <<disk, todo, crashes, failures>>

Appended(bytes) == Append(Ledger, [record |-> pending, bytes |-> bytes])

\* _append_jsonl returns: the review is committed.
AppendLine ==
    /\ phase = "append"
    /\ Write("ledger", Appended("line"))
    /\ phase' = "refresh" /\ todo' = 1 /\ pending' = None
    /\ UNCHANGED <<answer, crashes, failures>>

\* It raises, or the process ends in it: some prefix of the line is written.
Interrupted ==
    \/ UNCHANGED disk
    \/ \E bytes \in {"torn", "open", "line"} : Write("ledger", Appended(bytes))

AppendFails ==
    /\ phase = "append" /\ failures < MaxFailures
    /\ Interrupted
    /\ phase' = "idle" /\ pending' = None /\ failures' = failures + 1
    /\ UNCHANGED <<todo, answer, crashes>>

----------------------------------------------------------------------------
(* _refresh_exports.                                                       *)

SessionAfter == SessionState(disk["session"].skipped, Ledger)

Refreshed(file) ==
    CASE file = "session" -> SessionAfter
      [] file = "report" -> None
      [] OTHER -> Export(file, Ledger)

Refreshable == CanRead /\ (RefreshOrder[todo] = "session" => disk["session"] # Absent)

RefreshFile ==
    /\ phase = "refresh" /\ Refreshable
    /\ Write(RefreshOrder[todo], Refreshed(RefreshOrder[todo]))
    /\ IF todo < Len(RefreshOrder)
       THEN todo' = todo + 1 /\ UNCHANGED <<phase, answer>>
       ELSE todo' = 1 /\ phase' = "idle" /\ answer' = "committed"
    /\ UNCHANGED <<pending, crashes, failures>>

\* Mutant: the reply does not tell that the refresh failed.
FailedRefreshAnswer_NoWarning == IF CanRead THEN "committed" ELSE "failed"

\* The exception becomes a warning; then summary reads the ledger once more.
FailedRefreshAnswer == IF CanRead THEN "warning" ELSE "failed"

RefreshFails ==
    /\ phase = "refresh"
    /\ \/ ~Refreshable /\ UNCHANGED failures
       \/ failures < MaxFailures /\ failures' = failures + 1
    /\ answer' = FailedRefreshAnswer
    /\ phase' = "idle" /\ todo' = 1
    /\ UNCHANGED <<disk, pending, crashes>>

\* SKIP_FOR_LATER writes the session state alone.
Skip(i) ==
    /\ phase = "idle" /\ MayRead /\ disk["session"] # Absent
    /\ Write("session", SessionState(disk["session"].skipped \cup {i}, Ledger))
    /\ UNCHANGED <<phase, todo, pending, answer, crashes, failures>>

Crash ==
    /\ phase # "down" /\ crashes < MaxCrashes
    /\ IF phase = "append" THEN Interrupted ELSE UNCHANGED disk
    /\ phase' = "down" /\ todo' = 1 /\ pending' = None /\ crashes' = crashes + 1
    /\ UNCHANGED <<answer, failures>>

Next ==
    \/ Create \/ Resume
    \/ \E i \in Items, action \in Actions, text \in Texts, note \in Notes :
          Submit(i, action, text, note)
    \/ AppendLine \/ AppendFails \/ RefreshFile \/ RefreshFails
    \/ \E i \in Items : Skip(i)
    \/ Crash

Spec == Init /\ [][Next]_vars

----------------------------------------------------------------------------
(* Safety.                                                                 *)

TypeOK ==
    /\ DOMAIN disk = Files
    /\ Ledger = Absent \/ (Ledger \in Seq(Chunks) /\ Len(Ledger) <= MaxLines)
    /\ disk["remaining"] = Absent \/ disk["remaining"] \subseteq Items
    /\ disk["conflicts"] = Absent \/ disk["conflicts"] \subseteq Records
    /\ disk["session"] # Absent => disk["session"].skipped \subseteq Items
    /\ phase \in {"down", "creating", "idle", "append", "refresh"}
    /\ todo \in DOMAIN RefreshOrder
    /\ pending \in Records \cup {None}
    /\ phase \in {"append", "refresh"} => Ledger # Absent
    /\ phase = "append" <=> pending # None
    /\ answer \in Answers \cup {None}
    /\ crashes \in 0..MaxCrashes /\ failures \in 0..MaxFailures

\* "A different later decision creates a new explicit superseding revision and
\* does not rewrite the old record": the ledger is one line of revisions for each
\* item, through crashes, failed appends and repeated submissions.
ReviewLog == INSTANCE RevisionLog
    WITH Records <- Records,
         log <- IF Ledger = Absent THEN {}
                ELSE {Ledger[n].record : n \in {m \in DOMAIN Ledger : Ledger[m].bytes # "torn"}}
ImplementsReviewLog == ReviewLog!LinearSpec

\* "Identical duplicate submissions are rejected", also when the first one was
\* committed and never answered: a revision says something else than its
\* predecessor.
NoRepeatedReview ==
    Ledger # Absent =>
        \A n, m \in DOMAIN Ledger :
            LET r == Ledger[n].record
                s == Ledger[m].record
            IN  n # m /\ s.sup = r.id /\ "torn" \notin {Ledger[n].bytes, Ledger[m].bytes}
                    => r.action # s.action \/ r.text # s.text

\* A ledger that no longer reads, after a torn append or a line that splits, is
\* left as it is: no submission writes behind it, and no export is made from it.
UnreadableIsFrozen ==
    [][ Ledger # Absent /\ ~Loads(Ledger) => UNCHANGED disk ]_vars

\* Exports may be stale after a crash or a failed refresh, but each says of the
\* ledger what was true of it once: after some number of its appends.
ExportsAreSnapshots ==
    \A f \in Exports : disk[f] # Absent =>
        \/ disk[f] = Export(f, <<>>)
        \/ Ledger # Absent /\ \E n \in DOMAIN Ledger : disk[f] = Export(f, SubSeq(Ledger, 1, n))

\* A submission answered as committed without a warning has refreshed every
\* export; they stay fresh until the next submission, through restarts.
CommittedIsExported ==
    answer = "committed" =>
        /\ \A f \in Exports : disk[f] = Export(f, Ledger)
        /\ disk["session"].summary = Summary(Ledger)

\* What was skipped stays skipped, through refreshes and restarts.
SkipsAreKept ==
    [][ disk["session"] # Absent => disk["session"].skipped \subseteq disk'["session"].skipped ]_vars

\* No review is repeated, the exports are of one ledger, and what was answered
\* as committed is in them or was warned about.
ReviewsAreExported == TypeOK /\ NoRepeatedReview /\ ExportsAreSnapshots /\ CommittedIsExported

\* An unreadable ledger is left alone, and no refresh undoes a skip.
FilesAreKept == UnreadableIsFrozen /\ SkipsAreKept

\* "If a post-append export/report refresh fails ..., the API returns HTTP success
\* with submission_committed".
CommittedIsReported == answer # "failed"
=============================================================================
