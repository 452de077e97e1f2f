---------------------------- MODULE VisualReview ----------------------------
(* The AI visual review: each cell of the queue is looked at twice, in its   *)
(* crop and in the whole image, and the two observations and the OCR value   *)
(* decide.  A batch keeps its records in memory and writes them at its end,  *)
(* over the files of the batch before: records, escalations, manifest and,   *)
(* by the runner, a summary.  An observation that breaks the protocol ends   *)
(* the batch.                                                                *)
EXTENDS CellTrace, SequencesExt

CONSTANTS
    Bindings,    \* [item |-> [ocr, hashes, crop, raw]]: ocr a number, another text or
                 \* None; the flags say whether the item's hashes are hashes and the
                 \* bytes of its crop and its image are found and have them
    Replies,     \* what a provider may answer: [kind, status, value, label, evidence]
    Kinds,       \* of batches: "no provider" and "runner" by the runner, "adapter"
    MaxBatches

VARIABLES
    batch,      \* [kind, number, records], or None
    batches,    \* how many were begun
    files,      \* [records, escalations, manifest, summary] of the output directory
    failed      \* the batches that were ended by an observation
visualVars == <<batch, batches, files, failed>>

Item(p) ==
    LET b == Bindings[p]
    IN  [id |-> p, label |-> Inventory[p[2]].label, ocr |-> b.ocr, hashes |-> b.hashes, crop |-> b.crop, raw |-> b.raw]

-----------------------------------------------------------------------------
(* An observation. *)

NotExecuted == [status |-> "NOT_EXECUTED", value |-> None, label |-> None, evidence |-> TRUE]

\* The request needs the hashes of image, crop and locator, and the resolver the bytes
\* that have them; the first failure raises.
RequestOK(item, pass) == item.hashes /\ IF pass = "PASS_A" THEN item.crop ELSE item.raw

\* The adapter turns an error of the provider into a pass that was not executed, and
\* raises for a reply of a wrong form.  The runner takes the provider's word and lets
\* its errors through.
Wellformed(reply) ==
    /\ reply.kind = "object" /\ reply.evidence
    /\ reply.status \in {"READABLE", "UNREADABLE", "AMBIGUOUS", "CONFLICT", "NOT_EXECUTED"}
    /\ (reply.status = "READABLE") => (reply.value # None /\ reply.label # None)
    /\ (reply.status # "READABLE") => reply.value = None

Observation(reply) ==
    IF reply.kind = "error" THEN NotExecuted
    ELSE [status |-> reply.status, value |-> reply.value, label |-> reply.label, evidence |-> reply.evidence]

\* A value that is a number is an integer.
Readable(observation) == observation.status = "READABLE"

Valid(o, item) ==
    /\ o.label # None => o.label = item.label
    /\ Readable(o) => o.label = item.label /\ o.value \in Int /\ o.evidence
    /\ ~Readable(o) => o.value = None

\* The OCR value counts when it is a number; any other text is as none.
Decision(item, a, b) ==
    IF "CONFLICT" \in {a.status, b.status} THEN "CONFLICT"
    ELSE IF "AMBIGUOUS" \in {a.status, b.status} THEN "AI_REVIEW_AMBIGUOUS"
    ELSE IF ~Readable(a) \/ ~Readable(b) THEN "HUMAN_ESCALATION_REQUIRED"
    ELSE IF a.value # b.value THEN "CONFLICT"
    ELSE IF item.ocr \in Int /\ a.value # item.ocr THEN "CONFLICT"
    ELSE "AI_CONFIRMED"

\* Mutant: only what no pass could read goes to a person.
EscalatedWhenUnread(records) == {r \in Range(records) : r.status = "HUMAN_ESCALATION_REQUIRED"}

Escalated(records) == {r \in Range(records) : r.status # "AI_CONFIRMED"}

-----------------------------------------------------------------------------
VisualInit ==
    /\ batch = None /\ batches = 0 /\ failed = {}
    /\ files = [records |-> None, escalations |-> None, manifest |-> None, summary |-> None]

Begin(kind) ==
    /\ queue # None /\ batch = None /\ batches < MaxBatches
    /\ batches' = batches + 1
    /\ batch' = [kind |-> kind, number |-> batches', records |-> <<>>, next |-> 1]
    /\ UNCHANGED <<traceVars, files, failed>>

\* Both passes of the next item, and its record.
Review(a, b) ==
    LET item == Item(queue[Len(batch.records) + 1])
        seen(reply) == IF batch.kind = "no provider" THEN NotExecuted ELSE Observation(reply)
        adapterOK == \A pass \in {"PASS_A", "PASS_B"} :
                        RequestOK(item, pass) /\ LET reply == IF pass = "PASS_A" THEN a ELSE b
                                                 IN  reply.kind = "error" \/ Wellformed(reply)
        sound == /\ batch.kind = "adapter" => adapterOK
                 /\ batch.kind = "runner" => "error" \notin {a.kind, b.kind}
                 /\ item.hashes /\ Valid(seen(a), item) /\ Valid(seen(b), item)
        record == [id |-> item.id, status |-> Decision(item, seen(a), seen(b)), a |-> seen(a), b |-> seen(b)]
    IN  /\ batch # None /\ Len(batch.records) < Len(queue)
        /\ batch.kind = "no provider" => a = b
        /\ IF sound THEN batch' = [batch EXCEPT !.records = Append(@, record)] /\ UNCHANGED failed
                    ELSE batch' = None /\ failed' = failed \cup {batch.number}
        /\ UNCHANGED <<traceVars, batches, files>>

FileOrder(kind) ==
    IF kind = "adapter" THEN <<"records", "escalations", "manifest">>
    ELSE <<"records", "escalations", "manifest", "summary">>

Content(file) ==
    CASE file = "records" -> batch.records
      [] file = "escalations" -> Escalated(batch.records)
      [] OTHER -> Len(batch.records)

\* The next file, over the one that is there.
WriteNext ==
    LET file == FileOrder(batch.kind)[batch.next]
    IN  /\ batch # None /\ Len(batch.records) = Len(queue)
        /\ files' = [files EXCEPT ![file] = [number |-> batch.number, content |-> Content(file)]]
        /\ batch' = IF batch.next = Len(FileOrder(batch.kind)) THEN None ELSE [batch EXCEPT !.next = @ + 1]
        /\ UNCHANGED <<traceVars, batches, failed>>

KillBatch == batch # None /\ batch' = None /\ UNCHANGED <<traceVars, batches, files, failed>>

VisualNext ==
    \/ \E kind \in Kinds : Begin(kind)
    \/ \E a, b \in Replies : Review(a, b)
    \/ WriteNext \/ KillBatch

-----------------------------------------------------------------------------
\* While the manifest is of the batch whose records are there, each cell of the queue
\* has its record, and either a person is asked about it or both passes and the OCR
\* number, when there is one, say the same: a batch that ended early, or another that
\* was written over it, has not hidden a cell.
NoCellIsHidden ==
    (/\ files.manifest # None
     /\ files.manifest.number = files.records.number) =>
        \A i \in DOMAIN queue :
            LET r == files.records.content[i]
            IN  /\ r.id = queue[i]
                /\ \/ \E e \in files.escalations.content : e.id = r.id
                   \/ /\ r.a.value = r.b.value /\ r.a.value # None
                      /\ Bindings[queue[i]].ocr \notin Int \/ Bindings[queue[i]].ocr = r.a.value

\* "... either both equal a readable OCR value or both independently agree while OCR is
\* empty" (the protocol, its decision rule).
ConfirmedOnReadableOcr ==
    files.records # None =>
        \A i \in DOMAIN queue :
            files.records.content[i].status = "AI_CONFIRMED" => Bindings[queue[i]].ocr = None \/ Bindings[queue[i]].ocr \in Int

\* "... or invalid evidence becomes AI_REVIEW_AMBIGUOUS, CONFLICT, or
\* HUMAN_ESCALATION_REQUIRED" (the protocol, its decision rule).
InvalidEvidenceIsEscalated == failed = {}
=============================================================================
