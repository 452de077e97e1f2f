---------------------------- MODULE QualityGate ----------------------------
(***************************************************************************)
(* From a sealed bundle to the gate: football intelligence (V4-044), its   *)
(* integration with more context (V4-045), tactical and league profiles    *)
(* (V4-049), the assessment of the inputs' quality (V4-050) and the gate   *)
(* that decides what is eligible (V4-051), each with its store.            *)
(*                                                                         *)
(* An id made of content is the content; whom a correction supersedes is   *)
(* no part of it.  An engine is given bundles whose seal it verifies and   *)
(* what the store before it holds.  The match is what the bundle says it   *)
(* is.                                                                     *)
(***************************************************************************)
EXTENDS ResolvedMatches

CONSTANTS
    SealedBundles,      \* [id, match, cutoff, kickoff, refs], numbers name references
    Statistics,         \* sets of [match, cutoff, generator]
    ContextSets,        \* sets of observations of V4-044 and V4-045
    TacticalSets,       \* sets of observations of V4-049
    AssessmentSets,     \* sets of inputs of V4-050
    MaxRevision

ASSUME QualityGateAssumption ==
    /\ MaxRevision \in Nat /\ None \notin Nat
    /\ \A b \in SealedBundles : b.cutoff \in Nat /\ b.kickoff \in Nat

ASSUME GateInputsAssumption ==
    /\ \A O \in ContextSets \cup TacticalSets : \A o \in O :
          {o.source, o.observed, o.effective} \subseteq Nat \cup {None}
    /\ \A I \in AssessmentSets : \A i \in I : i.available \in Nat \cup {None}

VARIABLES
    intelligence,       \* V4-044 artifacts
    integrations,       \* V4-045 artifacts
    tacticals,          \* V4-049 artifacts
    assessments,        \* V4-050 artifacts
    gate_records        \* V4-051 records

gate_store == <<intelligence, integrations, tacticals, assessments, gate_records>>
gate_vars == <<matches, gate_store>>

GateInit ==
    /\ matches = {} /\ intelligence = {} /\ integrations = {}
    /\ tacticals = {} /\ assessments = {} /\ gate_records = {}

Revisions == 1..MaxRevision

ArtifactIdentity(x) == [x EXCEPT !.supersedes = None]

\* The linear stores: the next revision of the line of its family, of the latest.
FollowsLatest(x, line) ==
    IF line = {} THEN x.revision = 1 /\ x.supersedes = None
    ELSE \E y \in line :
            /\ \A z \in line : z.revision <= y.revision
            /\ x.revision = y.revision + 1
            /\ x.supersedes = ArtifactIdentity(y)

\* The other stores: the first, or the next revision of one of the match.
FollowsStored(x, log) ==
    IF x.supersedes = None THEN x.revision = 1
    ELSE \E y \in log : /\ ArtifactIdentity(y) = x.supersedes
                        /\ x.revision = y.revision + 1
                        /\ y.match = x.match

IsNew(x, log) == \A y \in log : ArtifactIdentity(y) # ArtifactIdentity(x)

\* Whom a caller may say a correction supersedes.
Correctable(log) == {None} \cup {ArtifactIdentity(y) : y \in log}

----------------------------------------------------------------------------
(* V4-044: FootballIntelligenceEngine and FootballIntelligenceStore.       *)

EffectiveTime(o) ==
    IF o.effective # None THEN o.effective
    ELSE IF o.source # None THEN o.source
    ELSE o.observed

TimesFollow(o) ==
    /\ o.source # None /\ o.observed # None => o.source <= o.observed
    /\ o.observed # None /\ o.effective # None => o.observed <= o.effective

\* _observation_feature's refusals.  A declared state other than AVAILABLE
\* carries a reason and no value.
ObservationOK(o, b, known) ==
    /\ o.match = b.match
    /\ o.ref \in known
    /\ ~(o.context = "PROJECTED" /\ o.numeric)
    /\ TimesFollow(o) /\ EffectiveTime(o) # None
    /\ (o.state = "AVAILABLE") = (o.value # None)

\* _observation_feature: what is late or expired loses its value.
ObservedFeature(o, b) ==
    LET state == IF o.state # "AVAILABLE" THEN o.state
                 ELSE IF EffectiveTime(o) > b.cutoff THEN "FUTURE_DATA"
                 ELSE IF o.expires # None /\ o.expires < b.cutoff THEN "STALE"
                 ELSE "AVAILABLE"
    IN  [key |-> o.key, team |-> o.team, ref |-> o.ref, state |-> state,
         value |-> IF state = "AVAILABLE" THEN o.value ELSE None,
         source |-> o.source, observed |-> o.observed, effective |-> o.effective]

\* _statistical_refs: their cutoff is not looked at.
StatisticsOK(S, b) ==
    /\ \A s \in S : s.match = b.match
    /\ {"041", "042", "043"} \subseteq {s.generator : s \in S}

\* validate_pre_freeze_artifact
PreFreezeOK(x) ==
    /\ x.bundle.cutoff < x.bundle.kickoff
    /\ x.features # {}
    /\ \A f \in x.features : (f.state = "AVAILABLE") = (f.value # None)

\* FootballIntelligenceArtifact.from_dict, which generate ends with.
IntelligenceOK(x) ==
    /\ PreFreezeOK(x)
    /\ x.revision = 1 => x.supersedes = None

IntelligenceFamily(x) == x.bundle.id

IntelligenceArtifact(b, S, O, rev, sup) ==
    [match |-> b.match, bundle |-> b, statistics |-> S, revision |-> rev,
     features |-> {ObservedFeature(o, b) : o \in O}, supersedes |-> sup]

\* generate and append.
AppendIntelligence(b, S, O, rev, sup) ==
    LET x == IntelligenceArtifact(b, S, O, rev, sup)
    IN  /\ StatisticsOK(S, b)
        /\ \A o \in O : ObservationOK(o, b, b.refs \cup {b.id})
        /\ IntelligenceOK(x)
        /\ IsNew(x, intelligence)
        /\ FollowsLatest(x, {y \in intelligence : IntelligenceFamily(y) = IntelligenceFamily(x)})
        /\ intelligence' = intelligence \cup {x}
        /\ UNCHANGED <<integrations, tacticals, assessments, gate_records>>

----------------------------------------------------------------------------
(* V4-045: ContextFeatureIntegrationEngine and its store.                  *)

SameSubject(f, g) == f.key = g.key /\ f.team = g.team

\* A feature with the key of one that is there must be it; the first in the
\* order of references is the one that is looked at.
Collides(f, features) ==
    \E g \in features :
        /\ SameSubject(f, g)
        /\ \A h \in features : SameSubject(f, h) => g.ref <= h.ref
        /\ g # f

Added(F, features) ==
    {f \in F : \A g \in features : ~SameSubject(f, g)}

\* ContextFeatureIntegrationArtifact.from_dict, which generate ends with.
IntegrationOK(x) ==
    /\ x.features # {}
    /\ \A f \in x.features : (f.state = "AVAILABLE") = (f.value # None)
    /\ x.revision = 1 => x.supersedes = None

IntegrationFamily(x) == x.intelligence

\* generate and append.  The bundle itself is no reference an observation may
\* cite, and two of the new observations collide as well.
AppendIntegration(a, O, rev, sup) ==
    LET F == {ObservedFeature(o, a.bundle) : o \in O}
        x == [match |-> a.match, intelligence |-> ArtifactIdentity(a),
              bundle |-> a.bundle, features |-> a.features \cup Added(F, a.features),
              revision |-> rev, supersedes |-> sup]
    IN  /\ \A o \in O : ObservationOK(o, a.bundle, a.bundle.refs)
        /\ \A f \in F : ~Collides(f, a.features)
        /\ \A f, g \in F : SameSubject(f, g) => f = g
        /\ IntegrationOK(x)
        /\ IsNew(x, integrations)
        /\ FollowsLatest(x, {y \in integrations : IntegrationFamily(y) = IntegrationFamily(x)})
        /\ integrations' = integrations \cup {x}
        /\ UNCHANGED <<intelligence, tacticals, assessments, gate_records>>

----------------------------------------------------------------------------
(* V4-049: TacticalLeagueProfileEngine and its store.                      *)

\* _validate_feature: the times overrule the declared state, and their order
\* is not looked at.
TacticalFeature(o, b) ==
    LET time == EffectiveTime(o)
        state == IF time = None THEN "BLOCKED"
                 ELSE IF time > b.cutoff THEN "FUTURE_DATA"
                 ELSE IF o.state = "AVAILABLE" /\ o.expires # None /\ o.expires < b.cutoff
                 THEN "STALE"
                 ELSE o.state
        reason == IF time = None THEN "SOURCE_TIMESTAMP_UNKNOWN"
                  ELSE IF time > b.cutoff THEN "FUTURE_DATA"
                  ELSE o.reason
    IN  [key |-> o.key, category |-> o.category, required |-> o.required,
         state |-> state, reason |-> IF state = "AVAILABLE" THEN None ELSE reason,
         value |-> IF state = "AVAILABLE" THEN o.value ELSE None,
         source |-> o.source, observed |-> o.observed, effective |-> o.effective]

\* TacticalLeagueProfileArtifact.from_dict, which generate ends with.
ProfileOK(x) ==
    /\ x.bundle.cutoff < x.bundle.kickoff
    /\ x.features # {}
    /\ x.revision = 1 => x.supersedes = None

\* generate and append.  The context is one of the match, cutoff and kickoff of
\* the bundle, not of the bundle.
AppendTactical(b, c, O, rev, sup) ==
    LET x == [match |-> b.match, bundle |-> b, context |-> ArtifactIdentity(c),
              features |-> {TacticalFeature(o, b) : o \in O},
              revision |-> rev, supersedes |-> sup]
    IN  /\ <<c.match, c.bundle.cutoff, c.bundle.kickoff>> = <<b.match, b.cutoff, b.kickoff>>
        /\ \A o \in O : /\ o.ref \in c.bundle.refs
                        /\ (o.state = "AVAILABLE") = (o.value # None)
        /\ ProfileOK(x)
        /\ IsNew(x, tacticals) /\ FollowsStored(x, tacticals)
        /\ tacticals' = tacticals \cup {x}
        /\ UNCHANGED <<intelligence, integrations, assessments, gate_records>>

----------------------------------------------------------------------------
(* V4-050: DataQualityAssessmentEngine and its store.                      *)

Blocker(code, scope, domain) == [code |-> code, scope |-> scope, domain |-> domain]

\* What an input blocks.  Only one of two inputs of an id conflicts, but a
\* blocker does not say which.
InputBlockers(i, I, b) ==
    (IF i.hash = None
     THEN {Blocker("REQUIRED_HASH_MISSING", "AFFECTED_LINEAGE", i.domain)} ELSE {})
      \cup (IF i.match \notin {None, b.match}
            THEN {Blocker("CANONICAL_IDENTITY_MISMATCH", "CANDIDATE_SET", i.domain)} ELSE {})
      \cup {Blocker("REVISION_HASH_CONFLICT", "AFFECTED_LINEAGE", i.domain) :
              j \in {k \in I : k.id = i.id /\ <<k.hash, k.revision>> # <<i.hash, i.revision>>}}
      \cup (IF i.available = None
            THEN {Blocker("SOURCE_TIMESTAMP_UNKNOWN", "AFFECTED_DOMAIN", i.domain)}
            ELSE IF i.available >= b.kickoff
            THEN {Blocker("POST_MATCH_DATA", "AFFECTED_DOMAIN", i.domain)}
            ELSE IF i.available > b.cutoff
            THEN {Blocker("FUTURE_DATA", "AFFECTED_DOMAIN", i.domain)} ELSE {})

\* DataQualityAssessmentArtifact.from_dict, which generate ends with.
AssessmentOK(x) ==
    /\ x.cutoff < x.kickoff
    /\ x.inputs # {}
    /\ x.revision = 1 => x.supersedes = None

\* generate and append.
AppendAssessment(b, I, rev, sup) ==
    LET x == [match |-> b.match, cutoff |-> b.cutoff, kickoff |-> b.kickoff,
              inputs |-> I, blockers |-> UNION {InputBlockers(i, I, b) : i \in I},
              revision |-> rev, supersedes |-> sup]
    IN  /\ AssessmentOK(x)
        /\ IsNew(x, assessments) /\ FollowsStored(x, assessments)
        /\ assessments' = assessments \cup {x}
        /\ UNCHANGED <<intelligence, integrations, tacticals, gate_records>>

----------------------------------------------------------------------------
(* V4-051: ProvenanceQualityGateEngine and its store.                      *)

\* The hard blockers of the matrix that a tactical feature can name.
HardRule ==
    [code \in {"SOURCE_TIMESTAMP_UNKNOWN", "FUTURE_DATA", "UPSTREAM_BLOCKED"} |->
        IF code = "UPSTREAM_BLOCKED" THEN "MATRIX_RULE" ELSE "AFFECTED_DOMAIN"]

WideScopes == {"AFFECTED_LINEAGE", "CANDIDATE_SET", "MATRIX_RULE"}

GateBlockers(t, a) ==
    a.blockers
      \cup {Blocker(f.reason, HardRule[f.reason], f.category) :
              f \in {g \in t.features : /\ g.state \in {"BLOCKED", "FUTURE_DATA"}
                                        /\ g.reason \in DOMAIN HardRule}}

\* Mutant: only a blocker of the feature's own domain is related to it.
RelatedHard_OwnDomain(f, B) == {x \in B : x.domain = f.category}

RelatedHard(f, B) ==
    {x \in B : x.scope \in WideScopes \/ x.domain \in {f.category, "CONTEXT"}}

FeatureEligibility(f, B) ==
    IF RelatedHard(f, B) # {} THEN "BLOCKED"
    ELSE IF f.state = "AVAILABLE" THEN "ELIGIBLE"
    ELSE IF f.state \in {"BLOCKED", "FUTURE_DATA"} THEN "BLOCKED"
    ELSE "INELIGIBLE"

Eligibility(S, blocked) ==
    IF blocked THEN "BLOCKED"
    ELSE IF \E r \in S : r.state = "INELIGIBLE" /\ r.feature.required THEN "INELIGIBLE"
    ELSE IF \E r \in S : r.state # "ELIGIBLE" THEN "PARTIALLY_ELIGIBLE"
    ELSE "ELIGIBLE"

\* The domain of a feature, or one that only a blocker names.
DomainEligibility(domain, R, B) ==
    LET S == {r \in R : r.feature.category = domain}
        own == {x \in B : x.domain = domain}
    IN  IF S = {} THEN "BLOCKED"
        ELSE Eligibility(S, \/ \E r \in S : r.state = "BLOCKED"
                            \/ \E x \in own : x.scope \in {"AFFECTED_DOMAIN",
                                                           "AFFECTED_LINEAGE"})

\* evaluate and append.  The candidate set is blocked by the blockers of a wide
\* scope alone.
AppendGate(t, a, rev, sup) ==
    LET B == GateBlockers(t, a)
        R == {[feature |-> f, state |-> FeatureEligibility(f, B)] : f \in t.features}
        domains == {f.category : f \in t.features} \cup {x.domain : x \in B}
        x == [match |-> t.match, tactical |-> ArtifactIdentity(t),
              assessment |-> ArtifactIdentity(a), blockers |-> B, features |-> R,
              domains |-> [d \in domains |-> DomainEligibility(d, R, B)],
              overall |-> Eligibility(R, \E y \in B : y.scope \in WideScopes),
              revision |-> rev, supersedes |-> sup]
    IN  /\ <<t.match, t.bundle.cutoff, t.bundle.kickoff>> = <<a.match, a.cutoff, a.kickoff>>
        /\ IsNew(x, gate_records) /\ FollowsStored(x, gate_records)
        /\ gate_records' = gate_records \cup {x}
        /\ UNCHANGED <<intelligence, integrations, tacticals, assessments>>

----------------------------------------------------------------------------
GateNext ==
    /\ UNCHANGED matches
    /\ \E rev \in Revisions :
        \/ \E b \in SealedBundles, S \in Statistics, O \in ContextSets,
              sup \in Correctable(intelligence) :
              AppendIntelligence(b, S, O, rev, sup)
        \/ \E a \in intelligence, O \in ContextSets, sup \in Correctable(integrations) :
              AppendIntegration(a, O, rev, sup)
        \/ \E b \in SealedBundles, c \in integrations, O \in TacticalSets,
              sup \in Correctable(tacticals) : AppendTactical(b, c, O, rev, sup)
        \/ \E b \in SealedBundles, I \in AssessmentSets, sup \in Correctable(assessments) :
              AppendAssessment(b, I, rev, sup)
        \/ \E t \in tacticals, a \in assessments, sup \in Correctable(gate_records) :
              AppendGate(t, a, rev, sup)

GateSpec == GateInit /\ [][GateNext]_gate_vars

----------------------------------------------------------------------------
(* Safety.                                                                 *)

\* No engine carries a value that took effect after the cutoff of its bundle:
\* not the features a later stage takes over, nor those of a correction.
LateValuesAreDropped ==
    \A x \in intelligence \cup integrations \cup tacticals :
        \A f \in x.features :
            f.value # None =>
                \A t \in {f.effective, IF f.effective = None THEN f.source ELSE None} :
                    t # None => t <= x.bundle.cutoff

\* What the gate calls eligible is known, and no input it was assessed with is
\* unidentified, of another match, in conflict or, in its own domain or that of
\* the context, late.
EligibleRestsOnSoundInputs ==
    \A g \in gate_records : \A r \in g.features :
        r.state = "ELIGIBLE" =>
            /\ r.feature.value # None
            /\ \A i \in g.assessment.inputs :
                  /\ i.hash # None
                  /\ i.match \in {None, g.match}
                  /\ \A j \in g.assessment.inputs :
                        j.id = i.id => <<j.hash, j.revision>> = <<i.hash, i.revision>>
                  /\ i.domain \in {r.feature.category, "CONTEXT"} =>
                        i.available # None /\ i.available <= g.assessment.cutoff

\* The V4-044 and V4-045 stores are logs with one line of revisions of a
\* bundle, or of a V4-044 artifact.
IntelligenceId(x) ==
    [key |-> IntelligenceFamily(x), rev |-> x.revision, content |-> x]

IntelligenceRecord(x) ==
    [id |-> IntelligenceId(ArtifactIdentity(x)),
     sup |-> IF x.supersedes = None THEN None ELSE IntelligenceId(x.supersedes)]

IntelligenceContents ==
    {IntelligenceArtifact(b, S, O, n, None) :
        b \in SealedBundles, S \in Statistics, O \in ContextSets, n \in Revisions}

IntelligenceIds ==
    [key : {b.id : b \in SealedBundles}, rev : Revisions, content : IntelligenceContents]

ASSUME IntelligenceAssumption == None \notin IntelligenceContents \cup IntelligenceIds

IntelligenceLog == INSTANCE RevisionLog WITH
    Records <- [id : IntelligenceIds, sup : IntelligenceIds \cup {None}],
    log <- {IntelligenceRecord(x) : x \in intelligence}

ImplementsIntelligenceLog == IntelligenceLog!LinearSpec

\* Refuted.  V4_FEATURE_ELIGIBILITY_CONTRACT: "PARTIALLY_ELIGIBLE: No hard
\* blocker exists", BLOCKED when a time or future-data blocker does.
BlockedWhenAHardBlockerExists ==
    \A g \in gate_records : g.blockers # {} => g.overall = "BLOCKED"

\* Refuted.  The bundle a profile names is the one its context was made of.
ProfilesAreOfOneBundle ==
    \A t \in tacticals : t.bundle = t.context.bundle
=============================================================================
