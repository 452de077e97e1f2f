----------------------------- MODULE FactStore -----------------------------
(***************************************************************************)
(* CanonicalFactStore: an append-only store of typed facts about canonical *)
(* matches.  A fact with new content is a new revision of its match and    *)
(* fact type; nothing is ever overwritten.                                 *)
(***************************************************************************)
EXTENDS MatchIdentity

CONSTANTS
    FactObservations,   \* fact observations that sources may send
    FactTypes

\* subject and key are the subject's match_id and match_identity_key: a match
\* is named by the business key it was made from, whatever key the fact claims.
\* source: source, reference, payload, reason and conflict evidence.
\* ingested is not in the observation id: it is that of the first delivery.
ASSUME FactAssumption ==
    /\ \A f \in FactObservations :
          /\ DOMAIN f = {"subject", "key", "type", "source", "status",
                         "published", "observed", "ingested"}
          /\ f.subject \in BusinessKeys /\ f.type \in FactTypes
          /\ f.status \in {"AVAILABLE", "UNKNOWN", "UNAVAILABLE", "CONFLICT",
                           "STALE", "FUTURE_DATA", "BLOCKED"}
          /\ f.published \in Times \cup {None}
          /\ f.observed \in Times /\ f.ingested \in Times
    /\ None \notin FactObservations /\ Invalid \notin FactObservations

VARIABLES
    fact_observations,  \* retained, those blocked for their subject included
    fact_envelopes,     \* [fact -> its revision and the one it supersedes]
    latest_by_key,      \* [<<match, type>> -> the fact appended last]
    fact_events         \* the observations the append-only event list names

fact_vars == <<fact_observations, fact_envelopes, latest_by_key, fact_events>>

FactEvent(f) == fact_events' = fact_events \cup {f}

FactKeys == BusinessKeys \X FactTypes
FactKey(f) == <<f.subject, f.type>>
Revisions == [rev : Nat \ {0}, sup : FactObservations \cup {None}]

\* What the revision log names a revision by.
FactIds == [key : FactKeys, rev : Nat \ {0}, fact : FactObservations]

ASSUME RevisionAssumption == None \notin Revisions /\ None \notin FactIds

FactTypeOK ==
    /\ fact_observations \subseteq FactObservations
    /\ fact_envelopes \in [FactObservations -> Revisions \cup {None}]
    /\ latest_by_key \in [FactKeys -> FactObservations \cup {None}]
    /\ fact_events \subseteq FactObservations \cup {Invalid}

FactInit ==
    /\ fact_observations = {}
    /\ fact_envelopes = [f \in FactObservations |-> None]
    /\ latest_by_key = [k \in FactKeys |-> None]
    /\ fact_events = {}

----------------------------------------------------------------------------
(* ingest.  ids: the identity store's envelopes when the fact arrives.     *)

\* The identity store only makes AVAILABLE, RESOLVED envelopes.
SubjectResolves(f, ids) == ids[f.subject] # None /\ f.key = f.subject

FactInvalid(f) ==
    /\ f = Invalid
    /\ FactEvent(f)
    /\ UNCHANGED <<fact_observations, fact_envelopes, latest_by_key>>

\* Duplicates are found before the subject is looked up.
FactDuplicate(f) ==
    /\ f \in fact_observations
    /\ FactEvent(f)
    /\ UNCHANGED <<fact_observations, fact_envelopes, latest_by_key>>

\* _blocked_identity
FactSubjectBlocked(f, ids) ==
    /\ f \in FactObservations \ fact_observations
    /\ ~SubjectResolves(f, ids)
    /\ fact_observations' = fact_observations \cup {f}
    /\ FactEvent(f)
    /\ UNCHANGED <<fact_envelopes, latest_by_key>>

Predecessor(f) == latest_by_key[FactKey(f)]

EnvelopeOf(f) ==
    [rev |-> IF Predecessor(f) = None THEN 1
             ELSE fact_envelopes[Predecessor(f)].rev + 1,
     sup |-> Predecessor(f)]

\* Mutant: the fact does not become the latest of its key.
FactAppended_NotLatest(f, ids) ==
    /\ f \in FactObservations \ fact_observations
    /\ SubjectResolves(f, ids)
    /\ fact_observations' = fact_observations \cup {f}
    /\ fact_envelopes' = [fact_envelopes EXCEPT ![f] = EnvelopeOf(f)]
    /\ FactEvent(f)
    /\ UNCHANGED latest_by_key

FactAppended(f, ids) ==
    /\ f \in FactObservations \ fact_observations
    /\ SubjectResolves(f, ids)
    /\ fact_observations' = fact_observations \cup {f}
    /\ fact_envelopes' = [fact_envelopes EXCEPT ![f] = EnvelopeOf(f)]
    /\ latest_by_key' = [latest_by_key EXCEPT ![FactKey(f)] = f]
    /\ FactEvent(f)

FactIngest(f, ids) ==
    \/ FactInvalid(f) \/ FactDuplicate(f)
    \/ FactSubjectBlocked(f, ids) \/ FactAppended(f, ids)

\* What ingest answers: `accepted', and whether it returns an envelope.
FactAccepts(f, ids) ==
    f # Invalid /\ (f \in fact_observations \/ SubjectResolves(f, ids))

FactEnvelopeReturned(f, ids) ==
    f # Invalid /\ IF f \in fact_observations THEN fact_envelopes[f] # None
                   ELSE SubjectResolves(f, ids)

----------------------------------------------------------------------------
(* Safety.                                                                 *)

\* No orphan facts: an envelope stands on a retained observation and on a
\* canonical match that claims the same identity key.
NoOrphanFacts ==
    \A f \in FactObservations : fact_envelopes[f] # None =>
        /\ f \in fact_observations
        /\ envelopes[f.subject] # None
        /\ f.key = f.subject

\* The store implements a linear revision log: one line of revisions per match
\* and fact type, in which each revision supersedes the one before it.
FactId(f) == [key |-> FactKey(f), rev |-> fact_envelopes[f].rev, fact |-> f]

FactRecord(f) ==
    [id |-> FactId(f),
     sup |-> IF fact_envelopes[f].sup = None THEN None
             ELSE FactId(fact_envelopes[f].sup)]

FactRecords == [id : FactIds, sup : FactIds \cup {None}]

FactLog == INSTANCE RevisionLog WITH
    Records <- FactRecords,
    log <- {FactRecord(f) : f \in {g \in FactObservations : fact_envelopes[g] # None}}

ImplementsFactLog == FactLog!LinearSpec

\* A subject the identity store does not resolve is blocked, whenever the fact
\* is delivered.
UnresolvedSubjectsAreBlocked ==
    \A f \in FactObservations :
        FactAccepts(f, envelopes) => envelopes[f.subject] # None /\ f.key = f.subject
============================================================================
