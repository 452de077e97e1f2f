# JCFB V4: verification project

This directory holds TLA+ models of JCFB V4, the TLC runs that check them on
small instances, and TLAPS proofs of what matters most for every value of the
constants.  JCFB V4 is a football prediction system.  Its repository implements,
so far, everything *before* a prediction: governed intake of match identities,
facts, odds and screenshots, an append-only archive of sources, review of cells
by hand and by vision models, feature engines, a training data set builder with
its splits, and the harness that applies database migrations.  One idea recurs,
the append-only record with a revision and a predecessor; one promise recurs, that
nothing later than a cutoff is ever used.  The models follow these two through the
code.

Run everything here with `tlc -config X.cfg M` and `tlapm M.tla`; `PROJECT.json`
lists which `.cfg` goes with which module, what each run checks, which source
lines each definition stands for, and for every property a mutant of the model
that breaks it.

1. [Inventory](#1-inventory)
2. [Modules and how they correspond to the code](#2-modules-and-how-they-correspond-to-the-code)
3. [Runs, bounds and what they show](#3-runs-bounds-and-what-they-show)
4. [Fairness, liveness and deadlock](#4-fairness-liveness-and-deadlock)
5. [Proofs](#5-proofs)
6. [Findings](#6-findings)
7. [What is not modelled](#7-what-is-not-modelled)
8. [Plan](#8-plan)

## 1. Inventory

Paths are below `src/`.  "Store" means an object whose dictionaries live as long
as the process; "directory" means files that outlive it.

| component | source | state | operations | status |
| --- | --- | --- | --- | --- |
| Historical source archive | `src/historical_source_archive/` | directory of artifact, manifest, original and session files; four dictionaries rebuilt at start | start, `capture_pre_match`, three single-record captures, reader's `read_as_of` and supersedes chain | partly: not the replay policy |
| Canonical match identity (V4-020) | `tools/canonical_intake/match_identity.py` | store: envelopes, structural index, observations, delivery keys, events | `ingest` | modelled |
| Canonical fact envelopes (V4-021) | `.../fact_envelope.py` | store: observations, envelopes, latest per match and type, events | `ingest` | modelled |
| Cutoff and time lineage (V4-022) | `.../time_lineage.py` | store: decisions, events | `evaluate` | modelled |
| Canonical intake orchestrator (V4-023) | `.../orchestrator.py` | store: deliveries per idempotency key, events | `ingest` of a packet | modelled |
| Manual review workbench | `tools/manual_review_workbench/` | directory: queue, JSONL ledger, exports, session state; a lock | first start, restart, submit, skip, refresh of exports | partly: the queue's construction is in `CellTrace`; not HTTP reads |
| Official odds, screenshots, availability, ledger (V4-024 to 027) | `.../official_*.py` | four stores over the identity store | ingest, evaluate, record | modelled |
| Evidence graph, source conflicts (V4-036/037) | `.../evidence_graph.py`, `source_conflict.py` | items, assessments and their history, resolutions | ingest, assess, resolve, evaluate | modelled |
| Team context (V4-032 to 035) | `.../team_context.py` | a linker and three stores with one append protocol | ingest | modelled |
| External markets (V4-028 to 031) | `.../external_market.py`, `external_time_normalization.py` | store of snapshots with predecessors | ingest, normalise | modelled |
| Feature bundles (V4-038 to 040) | `.../feature_bundle.py`, `feature_snapshot.py`, `feature_assembly.py` | registries of schemas and adapters, bundles, hand-offs | register, ingest, seal, assemble | modelled |
| Statistical strength (V4-041 to 043) | `.../statistical_strength.py` | manifests, features | build, three engines, append | modelled |
| Market features (V4-046 to 048) | `.../market_intelligence.py`, `market_movement.py`, `market_risk_interpretation.py` | three stores | normalise, generate, interpret, append | modelled |
| Football intelligence to the quality gate (V4-044, 045, 049 to 051) | `.../football_intelligence*.py`, `context_feature_integration.py`, `tactical_league_profile.py`, `data_quality_assessment.py`, `provenance_quality_gate.py` | five stores | generate, evaluate, append | modelled |
| Migration executor and its evidence | `tools/migration_harness/runtime_executor.py` and the files it calls | PostgreSQL history table and objects, JSON reports, `latest.json` | plan, preflight, apply, record failure, postflight, report, review | partly: the catalogue by the outcome of its checks |
| Runtime validation cases | `tools/migration_harness/runtime_case_handlers.py`, `runtime_tests.py` | roles and memberships of the server, a transaction per case | prepare, run each case, roll back, tear down | partly: what each handler inserts is an answer of the database |
| Migration design checks | the other files of `tools/migration_harness/` | none | compare documents, catalogs and test databases with expectations | not modelled |
| Database | `database/` | tables with append-only triggers, model release states | statements | not modelled |
| Historical backfill intake | `src/historical_backfill_intake/` | staging directory | check a handoff or package, stage it | modelled |
| Odds cell extraction, OCR consensus | `src/official_odds_cells/`, `src/local_ocr_consensus/`, `scripts/run_local_ocr_consensus.py` | traces of the screenshots and one queue, output directories | trace, OCR run in threads, decoding and preparation of pixels | partly: not tesseract and the colour of a dark row |
| Assisted visual review | `scripts/build_chatgpt_review_package.py`, `import_chatgpt_review_response.py` | packages, imports | build a package, import a response | modelled |
| AI visual review | `tools/ai_visual_review/` | records, escalations, manifest, summary, rewritten by each batch | review a batch, each item in two passes | modelled |
| Training data sets and training | `src/prediction_training/` | approved data sets, reports, parameter artifacts | eligibility, build, split, gate of a fit, fitting boundary | partly: not the metric formulas |
| Prediction runtime skeleton | `src/prediction_runtime/` | none | freeze inputs, load a model, synthetic run | not modelled |
| Readiness harnesses | `tools/training_harness/`, `tools/forward_archive/` | none | rehearse on synthetic data, write one report | not modelled |
| Scripts | `scripts/` (the others) | none | command lines and document validators | not modelled |

### How the components interact

- The orchestrator calls the identity store, the fact store and the time gate in
  this order, in one thread; the fact store reads the identity store's
  envelopes and the time gate reads the fact store's.  The three stores also
  take observations by themselves, and share no lock with it.
- The official odds, screenshot, availability, ledger, context, evidence,
  external market and feature stores each hold a reference to the identity store
  and refuse what it does not resolve.  Beyond that they meet in values that a
  caller carries from one to the next: a snapshot that was returned, a bundle, an
  artifact.
- The archive's writer (`ArchiveRuntime`) and its reader
  (`GovernedArchiveReader`) meet in the directory alone.  The data set builder
  reads through the reader, once for each candidate match.
- A data set, a split report and a fitting contract are files: what one program
  wrote the next one reads, after a person committed it.
- The workbench's HTTP server calls `Workbench` from several threads; one
  re-entrant lock covers each submit and skip.  Ledger and exports
  meet in the output directory.
- The migration executor meets other operators, and its own earlier runs, in the
  database's history table and in the directory of reports.  Runners of the
  validation cases meet in the roles of the server.
- Stagers, OCR runs and the two visual reviews meet in directories that each makes
  itself, or, in the AI review, rewrites.

### What is hard, and what makes each component correct

The hazards are listed in `PROJECT.json`, each at its line.  In short:

- *Archive.* Three files per record, none written atomically, no lock, no
  repair: a crash or `OSError` between any two steps, a retry after it, and an
  index rebuilt in directory order.  Correct means: a manifest never without its
  artifact, lineage that always reaches an archived predecessor, nothing
  acknowledged ever lost, and an as-of view that later corrections do not disturb.
- *Intake.* Observations of one fixture from several sources in any order, with
  and without an official number; duplicates found before or after checks;
  stages that append and then a later stage that refuses; idempotency keys used
  again.  Correct means: one match per fixture, no contradictory merge, no orphan
  fact, one line of revisions per match and type, exact leakage decisions, and
  deliveries that cite what is really stored.
- *Workbench.* An append that is not atomic followed by exports that are; a reply
  lost after a commit; a torn ledger; a session state that two operations
  rewrite.  Correct means: a linear ledger without repetitions through all of
  this, and exports that are each true of some moment.
- *Canonical stores.* Ids supplied by callers and ids made of content; successors of
  entries, forks among them; answers given from what is stored rather than from
  what is true now.  Correct means: allowed odds were gated and known, context and
  evidence that count were there before the cutoff, one team per reference,
  corrections that stay on their line.
- *Feature pipeline.* Cutoffs checked in one engine and not in the next, late values
  inside timely records.  Correct means: a number rests on the past alone, and what
  is eligible rests on sound inputs.
- *Migration.* One transaction per candidate and a second one to record its
  failure; a commit whose acknowledgement is lost; two operators; a BLOCKED row
  that stops every later run; HEAD and `latest.json` that move.  Correct means: the
  history, the objects and the reports agree, and every run ends.
- *Runtime cases.* Roles that outlive a runner, a rollback that raises.  Correct
  means: cases leave nothing behind, and no run that lost its connection passes.
- *Training.* An archive read again and again while captures go on; documents
  written one after the other; folds cut between cutoffs.  Correct means: manifests
  that are backed, samples that could have been taken at their cutoff, folds apart,
  fits on the evidence they name.
- *Backfill and reviews.* Several non-atomic writes, processes that race for a
  directory, threads that finish in any order, two observations and an OCR text
  from which one status must follow.  Correct means: what is reported is whole, no
  cell is lost or hidden, both decoders read the image.

## 2. Modules and how they correspond to the code

```
RevisionLog                         what a store promises of its revisions
  ^ implemented by
  |-- Archive          <- MCArchive, ArchiveProofs
  |-- FactStore
  |-- Workbench        <- MCWorkbench, WorkbenchProofs
  |-- OfficialOdds, Evidence, ContextStores
  `-- MarketFeatures, QualityGate

MatchIdentity <- FactStore <- TimeLineage <- Intake   <- MCIntake
                                                       <- IntakeProofs

ResolvedMatches <- OfficialOdds, Evidence, ContextStores, ExternalMarket   <- MCCanonicalStores
                <- FeatureBundles, Strength, MarketFeatures, QualityGate   <- MCFeaturePipeline
                   MCCanonicalStores, MCFeaturePipeline                    <- StoreProofs

CandidateLedger  what the migration history promises
  ^ implemented by
  Migration <- RuntimeEvidence <- MCMigration
                               <- MigrationProofs
RuntimeCases    <- RuntimeCasesProofs

EngineRoles <- TrainingEligibility <- TrainingDataset   <- MCTraining
            <- TemporalSplit       <- FittingBoundary   <- TrainingProofs
                 (both extend the data set and the fitting boundary)

CellTrace <- OcrConsensus, VisualReview
BackfillStaging, OcrConsensus, VisualReview, PngRows   <- MCBackfill <- BackfillProofs
```

An arrow `<-` is EXTENDS.  The four intake modules are one per store, and the
last one composes them, as the orchestrator composes the stores.  Names are the
source's where TLA+ allows it: `latest_by_logical_key`, `delivery_keys`,
`match_id_by_structural_key`, `by_source_ref`, `latest_by_match`.  A definition
`X_Something` (or `XStrict` and the like) that a comment calls a mutant is a plausible bug in X, kept
beside it, used by no specification.  A few properties are in the modules with the
comment "Refuted": they are in no run, section 6 has them.

### RevisionLog (abstract)

A growing set of immutable records.  A record is the first of its key or
supersedes one that is there, one revision below.  `Spec` allows two records to
supersede the same one; `LinearSpec` does not.  The archive implements `Spec`
under faults and `LinearSpec` without them, the fact store and the review ledger
implement `LinearSpec` always.

### Archive

`disk` maps each of the three parts of a record (`artifact`, `manifest`,
`original`) to its content, to `Absent`, or to `Torn`: `write_bytes` creates the
file and then fills it, so a write is `CreateFile` and then `FillFile`, and
`KeepFile` and `Collide` are the two ways `_append_json` and `_append_bytes` treat
a path that exists.  `pc` is where the single writer is in `_build_record` and in
`capture_pre_match` around it; `job` is what the latter has collected.  `Open` is
`_load_persisted`: it drops nothing, refuses to start on a torn file, and leaves
in `latest_by_logical_key` *any* record of the key, because `glob` promises no
order.  `Crash` ends the process anywhere and `WriteFails` is an `OSError`, after
which the process goes on.  `Visible` and `ChainOf` are the reader's
`_select_visible` and `resolve_supersedes_chain`.

Abstractions.

- `Payloads` stands for the payload together with the source reference; `Execs`
  for the execution id and capture times, which are in the bytes of a file and not
  in the record's identity, so that a retry may collide with its own first try.
- All checks that look at the artifact alone (type, times, hashes, forbidden
  fields) are one action, `CaptureInvalid`.
- `PostKeys` are the keys of post-match labels, which `capture_pre_match` refuses
  and to which the reader applies no cutoff.
- A clean stop is a `Crash` in an idle state.  One process writes.
- The state of a session (CAPTURED, PARTIAL, BLOCKED) is a function of its records
  and of whether something failed, so a session is identified by these two; the
  BLOCKED session of an empty call coincides with that of a call all of whose
  artifacts were refused.
- Where revisions fork, `Visible` holds all candidates among which the reader's
  choice depends on the order of files.

### MatchIdentity, FactStore, TimeLineage, Intake

One variable per dictionary or list of each store, one action per outcome of its
`ingest` or `evaluate`.  `IdentityIngest`, `FactIngest` and `TimeEvaluate` are
complete and mutually exclusive outcomes, so `Intake` composes them by
conjunction: `TimeJudges(p)` is a packet that passes all three stages, each stage
reading what the one before it has just written (`envelopes'`, `fact_envelopes'`).
`IdentityStageRaises` is the packet whose row makes `ingest` raise: the row stays,
the delivery is not recorded.  `ObserveMatch`, `ReportFact` and `RequestTime` are
the stores used without the orchestrator.

Abstractions.

- A match id is the UUIDv5 of its business key, so a match is named by that key.
- Observations, facts and requests are records of the fields the decisions look
  at.  `source` folds source, type, reference, displayed names; `note` folds what is
  in an observation's id and not in its payload hash.  Times are naturals; the
  truncation of sub-second parts is done before they are compared.
- What `from_dict` refuses is one value, `Invalid`.
- Event lists are sets of the named items: their order and multiplicity are left
  out, no property is about them.
- A fact's `ingested` time is not in its observation id: the first delivery's stays.
- A decision is named by its content; a delivery's request hash by its packet.
- The three stores are wired as the orchestrator's constructor wires them.

### Workbench

`disk` maps each file of the output directory to its content.  The ledger is a
sequence of chunks: a record and how much of its line is there (`line`, `open` for
all but the newline, `torn`).  Exports are replaced atomically, so each is one
write.  `phase` is where the process is: `Create` writes the files of a first
start one at a time, `Resume` is a restart, which looks at the queue manifest
only; `Submit`, `AppendLine` and six `RefreshFile` steps are a submission;
`AppendFails`, `RefreshFails` and `Crash` come between any two writes.  `answer`
is what the reviewer was told.

Abstractions.

- One server process; the lock makes a submission or a skip atomic with respect to
  other requests, so no two are in progress.
- A value is its source text; the checks of its format are passed.  `Breaking`
  are the texts that hold U+2028, U+2029 or U+0085.
- Of queue, queue manifest and report only the presence is kept; the hash of the
  ledger in the export manifest is the ledger's content.
- Inputs that are refused for themselves change nothing and have no action.
- Not modelled: the reads of the HTTP layer, the reviewer id, the index in the
  session state, the text of exports.

### ResolvedMatches and the canonical stores

The stores that bind records to a match look at one thing of the identity store,
whether it knows the match.  `ResolvedMatches` keeps the set of known matches, which
only grows; every store's `Next` has `ResolveMatch`, so a record may come before its
match.  Four modules extend it.

- `OfficialOdds`: `ingest` of the feed and of screenshots, `evaluate` of the
  availability gate, `record` of the ledger.  A supplied snapshot id replaces what the
  store held under it, and a gate's result is looked up by the two ids, as in the
  code; `issued` are the snapshots callers still hold.  Times count in `Second`s,
  because the ledger compares full times and its identity holds whole seconds.
- `Evidence`: admission, assessment, resolution; `Blockers` is `evaluate`.
  `ConflictState` says RESOLVED as soon as any resolution of the claim exists.
- `ContextStores`: the linker and the availability, lineup and operational stores.
  `RetainContext` is their common append protocol, `by_source_ref` and `latest` the
  two indexes links and records stand on.
- `ExternalMarket`: snapshots of three adapters by line, corrections, and
  `Normalizable` and `NormalizedOK` for the source-time normaliser.

Abstractions: an id that is a hash of content is that content; what is refused
without being retained has no action; event lists, texts and free metadata are left
out.  A record that is kept though it is blocked is kept here as well.

### FeatureBundles, Strength, MarketFeatures, QualityGate

One action per append, with the engine whose output is appended: the engines are
pure, so what a caller can store is what an engine returns for inputs that the
caller holds.  `Strength`'s numbers are the tuples of the observations they are computed
from, so that "the same number" and "a number of the past" can be said without
arithmetic; which of two equally new matches is kept (`NewestMatches`) is left open, for
it depends on their ids alone.  A number that is adjusted for the opponents has in
`ratings` the numbers of theirs, which are of the same target and perhaps of another
cutoff.  A bundle's summary has its counts as the caller wrote them, numbers or texts
in tenths: `Counted` is the `int()` they are compared by, and the hand-off has them
unconverted.  `MarketFeatures` has prices as small naturals and the movements between
snapshots as differences.  `QualityGate` runs from the sealed bundle to the gate: a
feature's late or expired value is dropped by `ObservedFeature` and `TacticalFeature`,
blockers of the assessment by `InputBlockers`, and what is eligible follows in
`FeatureEligibility` and `Eligibility`.

### Migration, RuntimeEvidence, CandidateLedger, RuntimeCases

`Migration` is `execute` for any number of operators over one database at READ
COMMITTED: `rows` and `objects` are what is committed, `tx[o]` an operator's open
transaction.  Creating an object, or inserting a key, that another open transaction
has waits; one that exists fails.  `Start` is the plan, `Preflight`, `ReadHistory`,
`ExecuteSql`, `RecordHistory` and `Commit` the application of one candidate,
`NoteFailure` the BLOCKED row in a transaction of its own, `NoteIsLost` the
exception that is dropped, `Postflight` and `Validate` what follows the last
candidate.  `StatementFails`, `ConnectionLost` (with the commit done or not) and
`Crash` come anywhere; `EditFiles` changes a candidate file between the check of
its hash and its reading.  `AuditFrom` and `FixAt` are the candidates between which
the audit trigger cannot run.

`RuntimeEvidence` goes on after the run: JSON, Markdown and `latest.json`, one write
after the other, with `HEAD` moving, and `review_runtime_evidence` as the operator
`ReviewPasses`.  `RuntimeCases` is the runner of the validation cases: which roles are
its own is looked at (`Look`) before they are made (`Create`); a case is a
transaction that is rolled back; a rollback that raises quarantines the connection,
and what the case wrote stays in `writes`, its open transaction.  `Commits` keeps
whatever that transaction has: `Create` and `Teardown` commit, and only
`TeardownRollback` (which may raise too, and then ends the teardown) stands between a
case's surviving writes and the second of them.

Abstractions: the objects of a candidate are one; schema checks and what a handler
inserts are a nondeterministic answer of the database.

### TrainingEligibility, TrainingDataset, TemporalSplit, FittingBoundary

`TrainingEligibility` holds the pure rules of both eligibility profiles.
`TrainingDataset.BuildStep` is one document of the builder (staging file, then copy);
`Capture` adds to the archive between any two of them and `Crash` ends a build before,
between or inside the two file operations, so that a torn file may be left in staging or
in the approved root.  `_write_append_only` never writes over one, and a torn manifest or
gate record is not even read: such a data set id stays stuck, which
`BuildsStopForACause` counts among the four causes that end a build in an error. `TemporalSplit` binds a revision's samples, splits them (explicitly or by
walking forward) and reports; `RequestFit` is the gate of EWP-004, which judges what
its caller says (`FitClaims`) and reads no report, and `ValidateReal` is the check of
the real files, which names no split and so never passes.
`FittingBoundary` has artifacts, lists of them, packages, selections and promotions
as values that a caller keeps, so an old list may be appended to again.

### BackfillStaging, CellTrace, OcrConsensus, VisualReview, PngRows

`BackfillStaging` checks handoffs and packages of both contracts with the code's
order of refusals and stages a package as a check, `mkdir` and one step per file of
`Plan`, by several processes that may crash at any of them.  The calls that only
read are one action each, taken before any staging (`calls = 0`), because they
neither read nor change what staging does.  The script of the command line passes
no metadata files, so neither do the packages here.

`CellTrace` is `build_full_trace` under both layout contracts: locators in millionths
with the code's rounding, availability, value and status of every cell; and
`_build_queue_from_sources`, which takes the records of a whole set of screenshots.
That function asks for a complete trace and compares sums, the candidates of each
market and the unavailable cells over all screenshots, so a screenshot whose layout is
not recognized passes it unseen when the others make up the sums; the set's own
numbers (64 screenshots, 432 candidates, nine unavailable) are constants.  The
bindings of hashes that it checks beside this are left out: the files do not change.
`OcrConsensus` reads the queue's items in threads, writes the run's
files one after the other, builds the review package and imports its response.
`VisualReview` is the two passes, the decision, and the batches of the runner and the
adapter over the files of the batch before.  `PngRows` has both PNG decoders and the
transforms of the prepared pixels.

## 3. Runs, bounds and what they show

A run of several components lets each behaviour exercise one of them (`focus`, `stage`):
they share nothing, so interleaving them would only multiply the states.

| run | states | asks |
| --- | --- | --- |
| `archive` | 117 938 | Two crashes and a failed write anywhere in single-record operations and in `capture_pre_match` calls: order of files, lineage and sessions grounded, durability of what was acknowledged, no fork before the first fault, the log of revisions; and, without faults, the view of a cutoff that later corrections leave alone. |
| `intake` | 48 544 | Rows and facts of several sources in every order, the gate over all orders and equalities of its times, packets with reused keys and refused stages: one match per fixture, no contradictory merge, nothing accepted that was not known before the match, one line of revisions per match and type. |
| `workbench` | 650 319 | Three reviews, a crash and a failed write anywhere: a linear ledger, exports that follow it or a warning, an unreadable ledger left alone, skips that stay. |
| `migration` | 334 107 | Two operators, three runs, one fault anywhere: history, objects and reports agree; a failure is final; what passes the review is true; every run ends. |
| `runtime_cases` | 14 268 | Two runs with two faults anywhere, over any roles at the start: no case leaves anything, a passed cleanup restored the roles, a lost connection does not pass. |
| `canonical_stores` | 173 968 | Odds, evidence, context and external markets, records before and after their match: allowed odds were gated and known, conflicts settled and not passed over, context prematch, one team per reference, corrections on their line, logs of revisions. |
| `feature_pipeline` | 55 305 | Bundles, strength, market features, quality gate: hand-offs count what is stored, numbers are of the past of their cutoff and one per question, profiles rest on movements of before the cutoff, nothing late becomes eligible. |
| `training` | 73 518 | Builds with captures and a crash between any two file operations, splits and gates over revisions of a data set, the fitting boundary: manifests backed, samples as of their cutoff, folds apart, READY reports on what they show, builds end. |
| `backfill` | 246 904 | Two stagers, traces of three screenshots of both contracts and their queue, OCR run, both reviews, both PNG decoders: what is reported is whole, cells are accounted for, none is hidden by an older file, the image is read. |
| `archive_fork_restart` | violation | A second correction of the same revision after a restart. |
| `intake_audit` | violation | A retained row without an event. |
| `migration_unrecorded` | violation | A failed candidate without a BLOCKED row. |

A property that is a conjunction of named parts (`ArchivedIsGrounded`,
`ReviewsAreExported`, `RecordsAgree`, `StoresAreLogs` and others) says one thing of
the run's records in several clauses; the parts are defined just above it.

The bounds, and why the interesting cases fit in them.

- *Archive.* Two revisions of one key let a correction race with the loss of its
  predecessor's files; two crashes let a second start see what a first restart
  left; one failed write lets the process go on with disk and dictionaries apart.
  Two execution ids are needed for a retry to collide.  Sessions have two
  keys, one of post-match labels, and two artifacts per call, so that one can be
  refused beside one that is archived.  The as-of view meets a correction that is
  available earlier, or later, than what it corrects.
- *Intake.* `MCIntake` lists rows and facts such that each pair is decided
  differently: same fixture under another number, without number, with swapped
  teams, postponed, in another zone; facts corrected, stale, mislabelled, of another
  match.  In the gate each of the times is before, at or after the others.
  Decisions neither read nor change one another, so states with at most one are
  followed (`OneDecision`).
- *Workbench.* Two cells, the first with an OCR text and the second without; three
  appends, the least for a value to return after a change; one note that breaks
  lines; one crash and one failed write, which may meet in one submission.
- *Migration.* Six candidates stand for the nine: three before the audit trigger is
  installed (`AuditFrom = 4`), two under it, one after its repair (`FixAt = 6`);
  the others behave as one of these.  Three runs: two that race and one that finds
  what they left.  One fault: a second one finds a database that the first could have
  left.  With reports, two runs and two moves of HEAD, away and back; with an edited
  candidate, one run.
- *Runtime cases.* One runner: with two, `TeardownRemovesOwn` does not hold
  (section 6).  Two cases, the second expected to be rejected; two runs, so that one
  finds what a crashed one left.
- *Canonical stores.* `MCCanonicalStores` has, for each store, inputs that differ in
  what one decision looks at: a supplied id reused, a correction of another match, a
  screenshot that contradicts; evidence of the same claim that agrees, differs,
  disputes or says itself resolved; links of one reference to both sides; market lines
  that change.  Times at, before and after cutoff and kickoff.  `OddsBounds` keeps two
  of each kind at once, the least for one to replace or supersede another.
- *Feature pipeline.* A summary that counts 1, 1.9, "1" or "1.9".  Manifests of two
  cutoffs for one match, with an observation, its correction in time and too late for
  the first cutoff, so that a rating of the later one can adjust a number of the
  earlier; three quotes of one source for an acceleration;
  seven sets of assessed inputs, one per rule of the gate.  The bounds beside each
  stage say what is kept at once.
- *Training.* One match with records at, before and after the cutoff and two that
  arrive during a build, one of which makes a role eligible, or one that puts off the
  kickoff and so makes a second candidate (`DatasetBounds`: that one comes alone); two
  builder versions; at most six files when a build begins, which lets a second build
  follow a first; one crash.  Seven samples over five cutoffs,
  one match with cutoffs on both sides of a boundary, five configurations.
  `FittingBounds` bounds the artifacts, lists and packages a caller holds, and does
  not follow a refused call, which leaves the state as it was; it bounds that part
  alone.
- *Backfill.* Two stagers on two names, ten packages, one per reason of refusal or
  failure; three screenshots, each one of twenty-one at sizes that round differently,
  whose queue must have one item of each market: of one screenshot or of two, with the
  third valued or not recognized.  The reviews start from `Reviewed`, one item of the
  first screenshot, one of the third and a second that is not recognized, since they read nothing of
  them but the queue.  A byte has four values in `PngRows`: the predictors compare differences,
  and four are enough for every order of ties between them; the transforms are those of
  the eight passes, and prepare the rows of one choice of filters (`PreparedOnce`),
  since rows are the same for each.

Every property of a passing run has a mutant in `PROJECT.json` that breaks it under
the same `.cfg`.

## 4. Fairness, liveness and deadlock

Two runs check liveness.

- `RunsAloneEnd` (migration): a run that started ends.  Weak fairness is on
  `Advance(o) \/ Exit(o)`: the process of an operator is scheduled, its database
  answers, and PostgreSQL lets a statement go on when the lock it waits for is free.
  Nothing need start a run, and no fault need happen.  The property would fail if
  a failed operator kept its transaction open, for the other one waits for it.  The
  reports are left out of these behaviours; writing them waits for nobody.
- `BuildsComplete` (training): a build under way ends, and in an error only for one of
  the four causes of `BuildsStopForACause`.  Weak fairness is on `BuildStep`, the builder's own file
  operations.

The other components are libraries and request-driven servers: nothing in them retries,
polls or waits, and no document promises that a call which stopped half way is
ever finished.

Deadlock is checked in the archive and intake runs.  The archive never stops, as a
refused start leaves it where it is (`OpenFails`), and the intake stores always
take another observation.  The other configurations say `CHECK_DEADLOCK FALSE`,
because their systems may really stop: a workbench whose first start was interrupted
is refused at every later one; operators, runners and builders make a bounded number of
runs; append-only stores with a finite set of inputs fill up.

## 5. Proofs

All theorems are about the specifications as TLC runs them, for every value of the
constants that satisfies the named assumptions of their modules (`ArchiveAssumption`,
`FactAssumption`, `MigrationAssumption`, `ContextAssumption`, `EvidenceAssumption`,
`PlanAssumption`, `InventoryAssumption`, `ImagesAssumption`, `WorkbenchAssumption`, `OddsInputsAssumption`, `OffersAssumption`,
`ArchiveIsOrdered` and so on).  These say what the constants are (times are naturals or
missing, a list is finite), and that special values such as `None` are not among the
ordinary ones, ids, records and reasons included.  Numbers of operators,
candidates, crashes, failed writes, revisions and calls are constants, which
may be any naturals.

### ArchiveProofs

| theorem | says |
| --- | --- |
| `TypeCorrect` | types |
| `SealedManifests` | a manifest is never there without its artifact |
| `GroundedLineage` | a correction's predecessor is archived, one revision below |
| `DurableAcknowledgements` | what was reported APPENDED stays, with its original |
| `FilesAreAppendOnly` | no step changes a whole file |
| `Refinement` | the archive implements `RevisionLog!Spec` |
| `ArchivedIsAlwaysGrounded` | besides the lineage, every chain of predecessors ends in a first revision, and a session lists what is archived |
| `ForkFreeAlwaysUntilFault` | until the first crash or failed write no revision is superseded twice, and only the file being written is torn |
| `ViewsAreStable` | what a cutoff sees changes only with a record of that key which was available by then |

The three safety properties are not inductive: they say nothing of the record being
written.  `IInv` adds `FilesOK` (a file holds the record it is named for),
`PendingOK` (the record being built extends the lineage on disk, and which of its
files are in place at which `pc`), `MemoryOK` (the dictionaries hold only what is
on disk) and `JobOK`.  `FillFile` of the manifest is the step that matters: there
the artifact is known to be in place by `PendingFiles`, and the predecessor's
manifest by `PendingGrounded`.  The refinement maps the log to the whole manifests;
that fill is its only step that is not a stutter.

Sessions need only that what a call has collected is archived already (`SessionsInv`).
A chain is a recursive function of the number of steps, so that it exists at all is
proved first (`Iterates`); each step goes one revision down, and one that went on for
ever would have a revision below the least (`LeastNatural`).  Without faults the
dictionaries and the disk agree exactly: `CleanInv` says that the files of a record are
written in their order to free paths (`FreshFiles`) and that the index has the highest
revision of a key (`LatestIsHighest`).  This is what a restart does not restore, since
the index is rebuilt in any order (section 6).

### IntakeProofs

`StoresMoveByTheirSteps` is the lemma the module is built on: every step of the
system is, for each store, one of that store's operations or none.  So each store's
invariant is proved against its own operations, whoever calls them, and the
orchestrator's on top of them.

| theorem | says |
| --- | --- |
| `OneMatch`, `Agreement` | one match per fixture; rows agree with their match |
| `NoOrphans` | an envelope has its match |
| `GateIsSound`, `GateIsExact` | what passes was known; leakage is exact |
| `AcceptedPackets`, `CitedEvidence` | deliveries stand on what is stored |
| `AppendOnlyStores` | nothing is taken back |
| `FactsAreALog` | the fact store implements `RevisionLog!LinearSpec` |
| `TypeCorrect` | types |

`IdentityInv` strengthens `AliasesAgree` to all delivery keys, retained observation
or not, because a redelivered row with another note is answered from the key alone.
`FactInv` adds that the latest fact of a key has an envelope of that key.
`DeliveryInv` says of each delivery what its stage implies of the stores
(`Evidence`), which stays true because the stores only grow (`EvidenceStays`).
`LinearInv` adds that the latest fact of a key has its highest revision and that what
a fact supersedes has an envelope; the log is mapped to the facts with envelopes, and
`FactAppended` is the only step that is not a stutter.

### WorkbenchProofs

| theorem | says |
| --- | --- |
| `TypeCorrectness` | types |
| `ReviewsAreAlwaysExported` | no review is committed twice, every export was true after some append, what is answered as committed is exported |
| `FilesAreAlwaysKept` | no step changes a file once the ledger does not parse; no refresh drops a skipped item |
| `ReviewsAreOneLine` | the ledger implements `RevisionLog!LinearSpec` |

They hold for every queue of cells and any number of appends, crashes and failed
writes.  `IInv` adds what the properties leave open: the ledger's whole lines are one
line of revisions for each item (`Linear`), only its last chunk can be short of a
line, an export is a prefix of the ledger, and `phase` says which of the six exports
the current refresh has already replaced.  A ledger that does not parse is the state
to argue about: from then on no request passes `MayRead`.

### MigrationProofs

| theorem | says |
| --- | --- |
| `TypeCorrect` | types |
| `Agreement` | history a prefix, objects those of its rows, reports true, no candidate applied by two runs |
| `LedgerCorrect` | the history implements `CandidateLedger`, and a recorded failure is the end of it |
| `ReviewIsSound` | `latest.json` names a whole report, and one that passes the review is of a run from the commit of HEAD and true of the database |

`RecordsAgree` says nothing of what is not committed.  `IInv` adds, for each operator,
`Standing`: what its place in the run says of its transaction (`commit` has the row,
`record` the objects) and of the database (all candidates below the one it works on
are applied).  Two open transactions therefore hold the same candidate, the first that
is not applied, and the waits of PostgreSQL let one of them in: `Alone`.  So a commit
extends the prefix by one (`History`), and a failure can be recorded only right
after it, where it blocks every later commit.  `Truthful` is the part of the
reports.  The ledger maps to the number of applied rows and whether another row
follows them.  `EvidenceInv` keeps all of this and says of each report on disk which
run it is of, and that a run reports once its outcome no longer changes: the
history only grows, so a report stays true while it waits to be reviewed.

### BackfillProofs

| theorem | says |
| --- | --- |
| `StagedPackagesAreWhole`, `StagedPackagesStayWhole` | what a stager reports as staged has every file of its plan, all written by that call, however many race and crash |
| `CellsAreAlwaysAccounted` | the cells of a market tile its region, the queue has once each missing cell of the pages of a known layout, and no other, and the imported answers to a whole run leave none of them out |
| `NoCellIsEverHidden` | under a manifest of the records' batch each queued cell is escalated or was read alike by both passes and the OCR |
| `ImagesAreAlwaysRead` | both PNG decoders give back the encoded rows; every transform gives bytes; the threshold compares a pixel with the mean around it |

*Staging.*  `mkdir` gives a name to one call, so a directory that is being written has
one writer that has not reported (`Owned`); that writer has written its plan up to
`next` (`WritesItsPlan`).  `PlanAssumption` says that a package's plan is a sequence of
writes.

*Cells.*  That a queue in the order of the markets exists at all is proved first
(`CellsCanBeSorted`), for otherwise the model's choice of one would mean nothing; then
the queue is onto the items to review, because it has as many places as they are and no
item twice (`QueueIsABijection`).  An item is to be reviewed just when its layout is known,
its market is there and its value is not: that is the four statuses against the seven of
the parser (`StatusOfARecord`).  The sums are not used, so nothing depends on what they are.
`TraceHeld` keeps the order, and that each trace is the one that `Record` makes of its
screenshot.  `CellsAreTiled` is arithmetic: an edge of a cell is
rounded down to a millionth and then outwards to a pixel, so two neighbours overlap by
at most one pixel and leave no gap (`SideOfACell`, `GridCellInPixels`).
`InventoryAssumption` says what the two contract files say of the cells, their numbers
and their markets; `GridsAssumption` that a cell of a grid is at least a millionth high
and wide, and an image has pixels.

*Reviews.*  `OcrHeld` says of each directory what its files were made from.  A run reads
the front of the queue, in any order (`RunHeld`); only the run that made an output
writes to it, and until then it has no exceptions, so no package can be of it; what is
in packages and imports never changes.  From there `AnswersAreThere` counts: a queued
cell that two engines do not confirm is an exception, so an item, so it has
exactly one row.  The adapter's files are different, as one batch writes over those of
another: `BatchHeld` says which of the four are already of the batch under way, and
`ManifestHeld` that a manifest and records of one number are of one queue.

*Pixels.*  A decoded row is chosen as a solution of its recursion; the encoded row is one
(`ModuloUndone` takes the filter's estimate off again), and a least byte where another
one differs cannot exist (`DecodingUndoesEncoding`).  `PredictorsAgree` compares the
three forms of the Paeth estimate.  Sums over windows are folds over sets, of which is
proved that they exist and are one (`SumsExist`, `SumsAreOne`), and that the order of
the elements does not matter (`TotalByOne`, `TotalOfTwo`); the integral's entries are
such sums, and four of them give a window (`BoxOfIntegral`).  `ImagesAssumption` says
that rows have one length and bytes, `TransformsAssumption` names the transforms,
at any factor.

### StoreProofs

| theorem | says |
| --- | --- |
| `OneTeam` | the links of one source reference in a match are of one side and team |
| `ContextIsPrematch` | admitted context was known before the kickoff and stands on a link that names its team |
| `EvidenceSettled` | a resolution settled a conflict that was there; evidence that may be used at a cutoff was known by then and contradicted by nothing unresolved |
| `HandoffsCount` | a hand-off under an id made of content cites what the bundle stored under it has, and its summary, read as whole numbers, counts its features |
| `AllowedOddsAreAlwaysSound` | odds allowed before the match passed the gate with every market on offer and were known at the cutoff; snapshots are numbered, and corrections come after what they correct |
| `MarketLinesAreAlwaysSound` | corrections stay on their market line; an accepted set is priced and in the order of its source times |
| `LedgerIsALog`, `GraphIsALog`, `ContextsAreLogs` | the odds ledger and the evidence graph implement `RevisionLog!Spec`, the context stores `LinearSpec` |
| `StoresAreLogsTogether` | so they do when they share one identity store |
| `NumbersAreAlwaysSound` | a number kept for a team, like each rating of an opponent it was adjusted by, rests on few enough other, known matches and on nothing from after its own cutoff, and is the only one for its question |
| `ProfilesAlwaysRestOnMoves` | a profile's movements are of its cutoff; those with a direction go forward between prices of one source |
| `EligibleIsAlwaysSound` | no engine hands on a value of after the cutoff; what is eligible is known, and nothing is wrong with the inputs it was assessed by |
| `EnginesAreAlwaysLogs` | the artifact store implements `RevisionLog!Spec`, the intelligence store `LinearSpec` |

`OneTeamPerReference` relates all links, an ingest looks at the index only:
`LinksIndexed` says that the index agrees with every link, not just the last.
`ContextIsPrematch` needs in addition that `latest` names a record of its key
(`ContextHeld`); the order of an observation's times carries the cutoff's bound to all
of them.  For the evidence, a second resolution of a claim is accepted because a
first one exists; that it still settles a conflict is `ConflictsStay`: evidence is
never withdrawn, so what contradicted itself still does when more is held, unless
a lone item came in as RESOLVED.  `HandoffsCounted` is about hand-offs alone, as the two stores
share no state; that an id of content determines what it covers is the rest.

*Odds.*  The ledger looks a gate's result up by the ids of snapshot and evidence, so
`OddsInv` says of a result what it means for the content of such ids (`Passed`): all
markets AVAILABLE, and those of the screenshot the same.  Ids supplied by callers
mean nothing, as section 6 shows, and the property is about computed ones.  That
each record which is stored has the id of its observation (`OddsHeld`) connects the two.

*Logs.*  Each store is mapped to the set of its records, each with its id and that of
its predecessor.  The context stores are linear because `latest` has the highest
revision of its line (`LineInv`); the ledger and the graph check only that a
predecessor is there, so they may fork.  `StoresBehaveApart` carries the theorems over to
the stores together: what they share, only `ResolveMatch` changes.

*Market lines.*  `InSourceOrder` chooses an order in which nobody precedes one that
is earlier; that such an order exists (`OrdersExist`) takes a smallest set without one.
The first definition of that order asked for strictly increasing times, and two
snapshots of one time had none: the attempt to prove this corrected the model.

*Strength.*  `StrengthInv` says where things come from: a manifest has observations of
one list that were accepted (`IsPast`), of at most `MaxMatches` matches for each team;
a feature uses no more than is in its manifest (`MadeOf`), and the ratings it was
adjusted by are kept (`Adjusted`), so what holds of every number holds of them.  `EnginesUseTheManifest`
goes through the engines; the home items need that the last of some
observations exists (`LastIsThere`), the window that the newest matches can be chosen
(`NewestCanBeKept`), both from `FiniteSetsHaveFirsts`.

*Movements.*  A directed movement comes from a pair that `PairOK` looked at
(`Directional`), in a series as well as alone; a profile takes movements of one cutoff.

*Gate.*  The assessment computes the blockers and the gate only reads them, so
`AssessmentsHeld` keeps what blocks each input of every assessment, and
`UnblockedIsSound` concludes from the absence of a blocker what is right with an input.
`ValuesAreInTime` is the drop of a late value; each later engine hands on what it was given.

### RuntimeCasesProofs

| theorem | says |
| --- | --- |
| `CasesNeverLeaveAnything` | no commit keeps a write of a case, whatever the number of runners and of rollbacks that raise |
| `PassedRunsAreAlwaysClean` | a run that passed kept its connection; a passed cleanup of a lone runner put back the roles that were there |

`Honest` says that a transaction which is about to be committed has no write of a
case, and that a connection becomes unusable only with a blocked case, which stays in
the results; `Restorable` that a runner which is alone still knows, from what
it noted before it created the roles, what to put back.  For several runners the
second theorem says nothing of the roles, and `TeardownRemovesOwn` is refuted.

### TrainingProofs

| theorem | says |
| --- | --- |
| `FoldsAreAlwaysSeparated` | no match lies in two partitions, and training precedes validation precedes holdout, in every fold of both policies |
| `FittingIsAlwaysSound` | a READY report rests on the classes its first fold shows; artifacts of one id in a list are one line |
| `ManifestsAreAlwaysSound` | a manifest has every file it names, and revisions of a data set and of its samples are one line |
| `SamplesAreAlwaysAsOf` | no sample cites a record, a number or a label from the wrong side of its cutoff |

The first two follow from lemmas about the operators of the split: what is placed by
matches and is ordered is separated (`PlacedIsSeparated`), for the explicit policy
and for every fold of the walk.

The builder's theorems rest on `DatasetInv`.  `DiskInv` is what is on disk: besides
the two properties, that the manifests of an id are numbered 1 to n, each revision
once.  `JobInv` is what the build under way knows: the samples it holds are those it
has written (`HasWritten`), what it has judged is as of the candidate's cutoff
(`Judges`), and its manifest will supersede the last one of its id (`WillRevise`).
Captures and crashes in between leave all of it alone, because nothing is read
again that was judged.  Two assumptions say what the archive gives: `ArchiveRecords`
(a hash names one record, times are naturals or missing, and a pre-match record has
an availability time) and `ArchiveIsOrdered` (of some records one is the newest).

A proof attempt changed one property.  `RevisionsAreLinear` first said that from the
second revision on each sample supersedes one of the revision just before, and the run
agreed.  It is not so: a correction captured during a second build can make a role
eligible that was not, and its sample supersedes nothing.  The property now says that
a sample supersedes the newest of its match, profile and role in the revisions before
its own, where there is one (`Continues`), and the run has a correction that does this.

### Model-checked only

Every safety invariant and every action property that a run checks is stated by a
theorem.  Beyond the prover are liveness under fairness (`RunsAloneEnd`,
`BuildsComplete`), ENABLED, and induction over data by the library's theorems: where an
argument by induction is needed above, it is one about the least counterexample
(`LeastNumber`, or a well-founded set).  The theorems hold for the constants that the
assumptions describe, so what the runs alone show is that inputs of every kind
satisfy them and that the mutants are caught.

## 6. Findings

Three runs end in a violation of what a document or a comment of the repository
says.  `PROJECT.json` quotes the line and the run prints the trace.

1. `archive_fork_restart`: the index of the latest revision is rebuilt in directory
   order, so after a restart a correction of a superseded revision is accepted.
   "corrections must supersede the latest revision" is then not enforced.  A write
   of the original that fails after the manifest has the same effect without a
   restart.
2. `intake_audit`: a row without official number and without a known fixture is
   retained, and then a missing argument raises before its event is appended.
3. `migration_unrecorded`: once 0007 is applied and until 0009 is, the insert of the
   BLOCKED row fires an audit trigger that cannot run; the exception is dropped, and
   the next run goes on as if nothing had failed.

Other statements were tried and do not hold of the code.  They are definitions in
the modules, with the words they come from, and no run checks them.

| property | module | why it does not hold |
| --- | --- | --- |
| `CapturedKeepsOriginal` | Archive | after a crash between manifest and original, the same capture is a duplicate and the original is never written |
| `UnresolvedSubjectsAreBlocked` | FactStore | a fact blocked for its subject is accepted, as a duplicate without envelope, at its second delivery; the orchestrator also asks for the envelope and is not misled |
| `CommittedIsReported` | Workbench | a text with U+2028, U+2029 or U+0085 splits its line on reading: the review is committed, its answer is an error, and no earlier one can be read |
| `AppliedAsVerified` | Migration | a candidate is read again after its hash was verified |
| `ReviewIsOfNewest` | RuntimeEvidence | `latest.json` is replaced whatever it named, so a slow older run may point back |
| `TeardownRemovesOwn` | RuntimeCases | with two runners the first teardown drops roles the other made |
| `AllowedOddsPassedTheGate`, `CitedEvidenceAgrees` | OfficialOdds | a snapshot under a supplied id that is in use is answered with the gate's result for the one before it |
| `QualityHistoryKept` | Evidence | an assessment sent under an id that is in use takes its place in the history |
| `ResolutionsCoverClaims` | Evidence | a resolution holds for evidence that arrives after it |
| `RetainedIsRecorded`, `LinkKnownAtCutoff` | ContextStores | a blocked observation is a duplicate when sent again; the latest link is used whenever it was seen |
| `PublishedSnapshotsKept`, `LatestIsNewest` | ExternalMarket | the same capture with another ingestion time computes the id of the snapshot it replaces |
| `SummariesReconcile` | FeatureBundles | a count of 1.9, or the text "1", is compared as 1 and handed off as it is |
| `MinimumCountsMatches` | Strength | an observation and its correction count as two matches |
| `RatingsAreOfThePast` | Strength | an opponent's rating may be of a manifest with a later cutoff: its target and configuration are looked at |
| `ReversalsAreOfOneSource` | MarketFeatures | the prices of a pair move apart, and that is flagged as a reversal |
| `BlockedWhenAHardBlockerExists`, `ProfilesAreOfOneBundle` | QualityGate | a narrow hard blocker leaves the set partially eligible; a context of the same times and another bundle is taken |
| `OnlyACaptureStopsABuild` | TrainingDataset | a torn file, a second candidate of one match and profile, or another builder version stops one too |
| `SamplesAreOfTheirSnapshot`, `NewestIsActive` | TrainingDataset | the archive is read again for each candidate; only a manifest that supersedes nothing is active |
| `EveryFoldIsReady`, `TrainingResultsAreKnown` | TemporalSplit | the report looks at the first fold; cutoffs are compared, kickoffs never |
| `FitsRestOnEvidence` | TemporalSplit | the gate of a fit believes its caller's word for the data set, the split and the report |
| `SelectionIsOrderFree`, `PackagesBindTheirArtifact` | FittingBoundary | ties between configurations go to the first; `extra_bindings` replaces any of the lineage |
| `WrittenOnce`, `ConflictsWriteNothing` | BackfillStaging | a raw file named like a document is written over it; contract 1.0 stages a package whose candidates conflict |
| `UnresolvedIsQueuedOrCounted` | CellTrace | the report counts UNSUPPORTED_LAYOUT among the unresolved; the queue leaves those cells out and does not count them |
| `UnknownIsNotUnavailable` | CellTrace | coverage that is missing from the fields comes out as unavailable |
| `EveryCellOfAnyRunIsAnswered` | OcrConsensus | a run that was cut short leaves fewer cells than the queue |
| `ConfirmedOnReadableOcr`, `InvalidEvidenceIsEscalated` | VisualReview | an unreadable OCR value is compared like a readable one; an observation that breaks the protocol ends the batch instead |

`source_conflict.py` line 253 says "resolution requires a conflicting claim set".  An
item may come in saying of itself that it is RESOLVED, and then a resolution of it
alone is accepted; `ResolutionsSettleConflicts` names this exception.

## 7. What is not modelled

The components that section 1 calls "not modelled" have no state that outlives a
call: comparisons of documents and catalogs, rehearsals on synthetic data, command
lines; the triggers of the database are in the plan.  Of the modelled components the
following is left out.

- Two processes on one archive or one workbench directory (the documents describe
  one), and an archive whose start meets a torn JSON file beyond the refusal that is
  modelled; the archive's `evaluate_verified_historical_candidate`,
  `verify_provenance_replay` and replay policy, which change no state; the workbench's
  HTTP reads.
- The bodies of the migrations, the catalogue behind the outcome of its checks, the
  handlers of the runtime cases, and the binding of the production target.  In the
  STAGING environment, where no trigger is bypassed, 0007 can never be
  recorded; the runs take `DISPOSABLE_LOCAL`.
- Numbers: ratings, heat and pressure, log loss and Brier score, floating-point
  projection of rectangles under contract 1.1.
- Tesseract, the HTTP client of the vision provider (it answers, answers badly or
  fails), ZIP bytes, the chunks and compression of PNG, the colour that makes a
  row dark.

Known weaknesses of the code that no property here is about: a visual response is
not bound to the hash of its package or trace; `normalize_numeric` loses a sign; both
visual passes may be of one provider; `package_substantive_hash` of a manifest is never
compared; two UNVERIFIED candidates share an identity key; the path of a sample does
not name its data set; revisions are compared as text in file names, where `r1000`
comes before `r999`.

## 8. Plan

Done: the components of section 1 that are "modelled" or "partly", most important
first: the archive, from which everything is read back; the identity store, on
which every store stands; the places where processes race (workbench, migrations,
stagers, builders); then the stores and engines that carry cutoffs.

Next, in this order.

1. `Database`: append-only triggers and the release states with one active
   production model, as the actions of a database that accepts or rejects a statement.
2. Compositions: the builder over the archive's own reader (`Visible`) instead of a
   set of records; bundles made of what the canonical stores hold.
3. Theorems: what the builder's reader and the archive promise each other, once they
   are composed.
4. The prediction runtime's frozen inputs, once it has state.
