---------------------------- MODULE OcrConsensus ----------------------------
(* The cells of the review queue are read again by the OCR engines of this   *)
(* machine, in threads; what the engines do not confirm goes to a package    *)
(* for visual review, and the response to it is imported.  Each of the three *)
(* programs makes an output directory of its own, refuses one that is there, *)
(* and writes its files one after another; nothing is cleaned up when it     *)
(* fails.  Nobody else writes to that directory, so a run that is cut short  *)
(* is one that wrote fewer files, the last of them perhaps in part.          *)
EXTENDS CellTrace, SequencesExt

CONSTANTS
    Engines,      \* sets of engines that may be found
    Passes,       \* the preprocessing passes
    Texts,        \* what an engine may read: [value, whole, fraction, points, zeroLed]
    Workers,      \* threads
    Limits,       \* --limit: how much of the queue, 0 for all
    OcrOutputs, ReviewPackages, Imports,   \* the names of output directories
    Answers,      \* rows of a response: [id, crop, method, status, value]
    MaxAnswers    \* rows of a response at most

VARIABLES
    crop,       \* [item |-> the item that its crop file shows now, or None]
    ocr,        \* the run under way: [at, output, queue, engines, done], or at = "idle"
    outputs,    \* [OCR output |-> [records, exceptions, whole]]
    packages,   \* [package |-> [from, items, count]]
    imports     \* [import |-> [package, rows]]
ocrVars == <<crop, ocr, outputs, packages, imports>>

\* What the queue records as a crop's hash is the hash of a picture of that item: the
\* item itself stands for it.
Queued == {queue[i] : i \in DOMAIN queue}
Put(f, name, value) == [n \in DOMAIN f \cup {name} |-> IF n = name THEN value ELSE f[n]]

-----------------------------------------------------------------------------
(* One cell. *)

\* A text is a decimal, told apart by its digits: 1.5 and 1.50 are two.  It must not
\* have a second point, a leading zero, five digits before the point or after it, or a
\* point with no digit after it.
Normalized(text) ==
    IF /\ text.points <= 1 /\ ~text.zeroLed
       /\ text.whole \in 1..4 /\ text.fraction \in text.points..4
       /\ text.value > 0 /\ text.value <= 9999 * 10000
    THEN [value |-> text.value, fraction |-> text.fraction]
    ELSE None

\* Mutant: passes are counted where engines should be.
ConsensusOfPasses(runs) ==
    LET values == {r.value : r \in runs} \ {None}
    IN  IF values = {} THEN [status |-> "UNRESOLVED", value |-> None]
        ELSE IF Cardinality(values) > 1 THEN [status |-> "CONFLICT", value |-> None]
        ELSE [status |-> IF Cardinality({r.pass : r \in runs}) >= 2 THEN "CONFIRMED" ELSE "AMBIGUOUS",
              value |-> CHOOSE v \in values : TRUE]

Consensus(runs) ==
    LET values == {r.value : r \in runs} \ {None}
    IN  IF values = {} THEN [status |-> "UNRESOLVED", value |-> None]
        ELSE IF Cardinality(values) > 1 THEN [status |-> "CONFLICT", value |-> None]
        ELSE [status |-> IF Cardinality({r.engine : r \in runs}) >= 2 THEN "CONFIRMED" ELSE "AMBIGUOUS",
              value |-> CHOOSE v \in values : TRUE]

\* A pass fails alone: it leaves an error and no run.  Without an engine there is one
\* run without a value, which counts for no engine.
Runs(engines, reads) ==
    IF engines = {} THEN {}
    ELSE {[engine |-> "tesseract", pass |-> p, value |-> Normalized(reads[p])] : p \in {q \in Passes : reads[q] # None}}

-----------------------------------------------------------------------------
(* run_local_ocr_consensus. *)

NoRun == [at |-> "idle"]

OcrInit ==
    /\ crop = [p \in Items |-> p]
    /\ ocr = NoRun /\ outputs = <<>> /\ packages = <<>> /\ imports = <<>>

\* The output directory is made before anything is read.
StartOcr(name, engines, limit) ==
    LET cells == SubSeq(queue, 1, IF limit \in 1..Len(queue) THEN limit ELSE Len(queue))
    IN  /\ queue # None /\ ocr = NoRun /\ name \notin DOMAIN outputs
        /\ outputs' = Put(outputs, name, [records |-> None, exceptions |-> None, whole |-> FALSE])
        /\ ocr' = [at |-> "reading", output |-> name, cells |-> cells, engines |-> engines, done |-> <<>>]
        /\ UNCHANGED <<traceVars, crop, packages, imports>>

\* Threads take the items in order and finish them in any.
Started(i) == Cardinality({j \in 1..(i - 1) : j \notin DOMAIN ocr.done}) < Workers

\* A crop that is missing or is not the queue's raises out of its future, and so out of
\* the run, once the other threads are through.  The file is opened for its hash and
\* again by each pass; that it changes in between is a reading like any other: \E gives
\* the engines every text for every pass.
ReadCell(i, reads) ==
    LET p == ocr.cells[i]
        record == [id |-> p, crop |-> p, engines |-> {r.engine : r \in Runs(ocr.engines, reads)},
                   consensus |-> Consensus(Runs(ocr.engines, reads))]
    IN  /\ ocr.at = "reading" /\ i \in DOMAIN ocr.cells \ DOMAIN ocr.done /\ Started(i)
        /\ ocr' = IF crop[p] = p THEN [ocr EXCEPT !.done = Put(ocr.done, i, record)] ELSE NoRun
        /\ UNCHANGED <<traceVars, crop, outputs, packages, imports>>

\* The exceptions among the first n records; they are written in the order of these.
Unconfirmed(records, n) ==
    {records[i] : i \in {k \in 1..n : records[k].consensus.status # "CONFIRMED"}}

\* The records and the exceptions, then inventory, errors, summary and manifest.  What of
\* it is there when the machine stops is for \E to say: a file may end within a line, and
\* then cannot be read, or after one.
WriteOcr(written, kept, whole) ==
    LET records == [i \in DOMAIN ocr.cells |-> ocr.done[i]]
    IN  /\ ocr.at = "reading" /\ DOMAIN ocr.done = DOMAIN ocr.cells
        /\ kept \in 0..Len(ocr.cells)
        /\ whole => written = 2 /\ kept = Len(ocr.cells)
        /\ outputs' = Put(outputs, ocr.output,
                [records |-> IF written >= 1 THEN records ELSE None,
                 exceptions |-> IF written >= 2 THEN Unconfirmed(records, kept) ELSE None,
                 whole |-> whole])
        /\ ocr' = NoRun
        /\ UNCHANGED <<traceVars, crop, packages, imports>>

KillOcr == ocr # NoRun /\ ocr' = NoRun /\ UNCHANGED <<traceVars, crop, outputs, packages, imports>>

\* The evidence directory is not the programs' own.  A picture of no item of the queue
\* has none of its hashes, and is refused like a missing file: None.
ChangeCrop(p, shown) ==
    /\ queue # None /\ p \in Queued /\ shown \in Queued \cup {None}
    /\ crop[p] # shown /\ packages = <<>>    \* later changes meet no program
    /\ crop' = [crop EXCEPT ![p] = shown]
    /\ UNCHANGED <<traceVars, ocr, outputs, packages, imports>>

-----------------------------------------------------------------------------
(* build_chatgpt_review_package. *)

\* Every exception must be in the queue and its crop the one that was read.  The builder
\* asks for the exceptions alone, not for the run's manifest.  The items are written
\* before package.json.
BuildPackage(name, output, written) ==
    LET exceptions == outputs[output].exceptions
        items == {[id |-> e.id, crop |-> e.crop, status |-> e.consensus.status] : e \in exceptions}
        sound == \A e \in exceptions : e.id \in Queued /\ crop[e.id] = e.crop
    IN  /\ name \notin DOMAIN packages /\ exceptions # None
        /\ packages' = Put(packages, name,
                [from |-> output,
                 items |-> IF sound /\ written >= 1 THEN items ELSE None,
                 count |-> IF sound /\ written >= 2 THEN Cardinality(items) ELSE None])
        /\ UNCHANGED <<traceVars, crop, ocr, outputs, imports>>

-----------------------------------------------------------------------------
(* import_chatgpt_review_response. *)

AnswerOK(a, item) ==
    /\ a.crop = item.crop
    /\ a.method = "CHATGPT_ASSISTED_VISUAL_REVIEW"
    /\ a.status \in {"CHATGPT_CONFIRMED", "CHATGPT_REVIEW_AMBIGUOUS", "CHATGPT_UNREADABLE",
                     "CHATGPT_SOURCE_MISMATCH", "CHATGPT_CONFLICT"}
    /\ a.value # None => Normalized(a.value) # None
    /\ (a.status = "CHATGPT_CONFIRMED") = (a.value # None)

\* One row for each item, and all of them sound; the response names its items and their
\* crops and not the package that it answers.
Accepted(package, rows) ==
    /\ package.count = Cardinality(package.items)
    /\ \A i, j \in DOMAIN rows : rows[i].id = rows[j].id => i = j
    /\ \A i \in DOMAIN rows : \E item \in package.items : item.id = rows[i].id /\ AnswerOK(rows[i], item)
    /\ \A item \in package.items : \E i \in DOMAIN rows : rows[i].id = item.id

Import(name, package, rows) ==
    /\ name \notin DOMAIN imports
    /\ packages[package].items # None /\ packages[package].count # None
    /\ Accepted(packages[package], rows)
    /\ imports' = Put(imports, name, [package |-> package, rows |-> rows])
    /\ UNCHANGED <<traceVars, crop, ocr, outputs, packages>>

Responses == UNION {[1..n -> Answers] : n \in 0..MaxAnswers}

OcrNext ==
    \/ \E name \in OcrOutputs, engines \in Engines, limit \in Limits : StartOcr(name, engines, limit)
    \/ \E i \in 1..Cardinality(Items), reads \in [Passes -> Texts \cup {None}] : ReadCell(i, reads)
    \/ \E written \in 0..2, kept \in 0..Cardinality(Items), whole \in BOOLEAN : WriteOcr(written, kept, whole)
    \/ KillOcr
    \/ \E p \in Items, shown \in Items \cup {None} : ChangeCrop(p, shown)
    \/ \E name \in ReviewPackages, output \in DOMAIN outputs, written \in 0..2 : BuildPackage(name, output, written)
    \/ \E name \in Imports, package \in DOMAIN packages, rows \in Responses : Import(name, package, rows)

-----------------------------------------------------------------------------
\* When the response to the exceptions of a finished run over the whole queue was
\* imported, every cell of a market on a recognized page has its value in the trace, or
\* was confirmed by two engines, or has one imported row, about its own crop, with a
\* value just when the row confirms it: threads, crops that change and runs that were
\* cut short lose no cell and mix no crops up.
EveryCellIsAnswered ==
    \A n \in DOMAIN imports :
        LET output == outputs[packages[imports[n].package].from]
            rows == imports[n].rows
            byEngines(p) == \E i \in DOMAIN output.records :
                LET r == output.records[i]
                IN  r.id = p /\ r.consensus.status = "CONFIRMED" /\ Cardinality(r.engines) >= 2
            byReview(p) == Cardinality({k \in DOMAIN rows :
                /\ rows[k].id = p /\ rows[k].crop = p
                /\ (rows[k].value # None) = (rows[k].status = "CHATGPT_CONFIRMED")}) = 1
        IN  (output.whole /\ Len(output.records) = Len(queue)) =>
                \A p \in Items : Missing(p) => byEngines(p) \/ byReview(p)

\* The same without asking that the run had come to its end.
EveryCellOfAnyRunIsAnswered ==
    \A n \in DOMAIN imports :
        LET output == outputs[packages[imports[n].package].from]
        IN  \A i \in DOMAIN output.records :
                output.records[i].consensus.status # "CONFIRMED" =>
                    \E k \in DOMAIN imports[n].rows : imports[n].rows[k].id = output.records[i].id
=============================================================================
