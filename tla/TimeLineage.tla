---------------------------- MODULE TimeLineage ----------------------------
(***************************************************************************)
(* TimeLineageStore: decides whether a fact was knowable before the        *)
(* prediction cutoff of its match, and keeps every decision.               *)
(***************************************************************************)
EXTENDS FactStore

CONSTANTS
    TimeRequests,       \* time_lineage objects that callers may send
    Default             \* a time the request leaves to the fact envelope

Bases == {"SOURCE_PUBLISHED_AT", "SOURCE_TIMESTAMP", "OBSERVED_AT"}

\* match and source are the optional cross-checks against the fact.
ASSUME TimeAssumption ==
    /\ \A r \in TimeRequests :
          /\ DOMAIN r = {"cutoff", "kickoff", "basis", "timestamp", "published",
                         "observed", "ingested", "match", "source"}
          /\ r.cutoff \in Times /\ r.kickoff \in Times /\ r.basis \in Bases
          /\ r.timestamp \in Times \cup {None}
          /\ r.published \in Times \cup {None, Default}
          /\ r.observed \in Times \cup {Default}
          /\ r.ingested \in Times \cup {Default}
    /\ Invalid \notin TimeRequests
    /\ None \notin Times /\ Default \notin Times /\ Default # None

VARIABLES
    decisions,          \* append-only; a decision is named by its content
    time_events         \* the facts the append-only event list names

time_vars == <<decisions, time_events>>

TimeInit == decisions = {} /\ time_events = {}

Otherwise(t, default) == IF t = Default THEN default ELSE t

\* from_dict: the request's times, or else the fact's.
TimesOf(r, f) ==
    [cutoff |-> r.cutoff, kickoff |-> r.kickoff, basis |-> r.basis,
     timestamp |-> r.timestamp,
     published |-> Otherwise(r.published, f.published),
     observed |-> Otherwise(r.observed, f.observed),
     ingested |-> Otherwise(r.ingested, f.ingested)]

\* _validate_reference
ReferenceAgrees(r, f) ==
    r.match \in {None, f.subject} /\ r.source \in {None, f.source}

Precedes(t, published) == published # None /\ t < published

SelectedTime(t) ==
    CASE t.basis = "SOURCE_PUBLISHED_AT" -> t.published
      [] t.basis = "SOURCE_TIMESTAMP" -> t.timestamp
      [] t.basis = "OBSERVED_AT" -> t.observed

\* Mutant: a fact is late after the kickoff only.
Late_AfterKickoff(t) == SelectedTime(t) > t.kickoff

Late(t) == SelectedTime(t) > t.cutoff

\* _decide: the first check that applies.
Reason(t, status) ==
    IF t.cutoff >= t.kickoff THEN "CUTOFF_NOT_BEFORE_KICKOFF"
    ELSE IF t.ingested < t.observed THEN "INGESTED_BEFORE_OBSERVED"
    ELSE IF Precedes(t.observed, t.published) THEN "OBSERVED_BEFORE_PUBLISHED"
    ELSE IF Precedes(t.observed, t.timestamp) THEN "OBSERVED_BEFORE_SOURCE_TIMESTAMP"
    ELSE IF SelectedTime(t) = None THEN "AVAILABILITY_TIME_UNKNOWN"
    ELSE IF status = "FUTURE_DATA" THEN "FACT_MARKED_FUTURE_DATA"
    ELSE IF status # "AVAILABLE" THEN "FACT_STATUS_NOT_FORMALLY_ELIGIBLE"
    ELSE IF SelectedTime(t) >= t.kickoff THEN "AVAILABLE_AT_OR_AFTER_KICKOFF"
    ELSE IF Late(t) THEN "AFTER_DECLARED_CUTOFF"
    ELSE "PREMATCH_CUTOFF_PASSED"

StatusOf(reason) ==
    CASE reason = "PREMATCH_CUTOFF_PASSED" -> "PREMATCH_ALLOWED"
      [] reason = "AVAILABLE_AT_OR_AFTER_KICKOFF" -> "POSTMATCH_ONLY"
      [] reason \in {"FACT_MARKED_FUTURE_DATA", "AFTER_DECLARED_CUTOFF"} ->
         "FUTURE_INFORMATION_LEAKAGE"
      [] OTHER -> "BLOCKED"

\* The reasons that are given before a source time is selected.
NoAvailability ==
    {"CUTOFF_NOT_BEFORE_KICKOFF", "INGESTED_BEFORE_OBSERVED",
     "OBSERVED_BEFORE_PUBLISHED", "OBSERVED_BEFORE_SOURCE_TIMESTAMP",
     "AVAILABILITY_TIME_UNKNOWN"}

Decide(r, f) ==
    LET t == TimesOf(r, f)
        reason == Reason(t, f.status)
    IN  [fact |-> f, times |-> t, reason |-> reason,
         status |-> StatusOf(reason),
         availability |-> IF reason \in NoAvailability THEN None ELSE SelectedTime(t)]

\* accepted, tier_a_eligible and promotion_evidence
Allows(d) == d.status = "PREMATCH_ALLOWED"

\* future_information_leakage and run_invalid
Leaks(d) == d.status \in {"POSTMATCH_ONLY", "FUTURE_INFORMATION_LEAKAGE"}

----------------------------------------------------------------------------
(* evaluate.  envs: the fact store's envelopes when the request arrives.   *)

\* None when the fact has no envelope, or the request is malformed or
\* contradicts the fact.
DecisionFor(r, f, envs) ==
    IF f = None \/ r = Invalid THEN None
    ELSE IF envs[f] = None \/ ~ReferenceAgrees(r, f) THEN None
    ELSE Decide(r, f)

TimeRefused(r, f, envs) ==
    /\ DecisionFor(r, f, envs) = None
    /\ time_events' = time_events \cup {f}
    /\ UNCHANGED decisions

\* DECISION_APPENDED, or DUPLICATE_NOOP when the decision is there already.
TimeDecided(r, f, envs) ==
    /\ DecisionFor(r, f, envs) # None
    /\ time_events' = time_events \cup {f}
    /\ decisions' = decisions \cup {DecisionFor(r, f, envs)}

TimeEvaluate(r, f, envs) == TimeRefused(r, f, envs) \/ TimeDecided(r, f, envs)

TimeTypeOK ==
    /\ decisions \subseteq {Decide(r, f) : r \in TimeRequests, f \in FactObservations}
    /\ time_events \subseteq FactObservations \cup {None}

----------------------------------------------------------------------------
(* Safety.                                                                 *)

\* No future information: what a decision lets into the pre-match path comes
\* from an AVAILABLE fact with an envelope, whose source time is known, is at
\* or before the cutoff, and not later than the fact was ingested.
PrematchIsKnownAtCutoff ==
    \A d \in decisions : Allows(d) =>
        /\ fact_envelopes[d.fact] # None /\ d.fact.status = "AVAILABLE"
        /\ d.availability \in Times
        /\ d.availability <= d.times.cutoff /\ d.times.cutoff < d.times.kickoff
        /\ d.availability <= d.times.ingested

\* An AVAILABLE fact that the gate calls future or
\* post-match information has a source time after the cutoff, and every fact
\* with a source time after the cutoff that passes the ordering checks and is
\* AVAILABLE is called so.
LeakageIsExact ==
    \A d \in decisions :
        d.fact.status = "AVAILABLE" /\ d.availability # None =>
            (Leaks(d) <=> d.availability > d.times.cutoff)
============================================================================
