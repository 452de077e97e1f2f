------------------------- MODULE TrainingEligibility -------------------------
(***************************************************************************)
(* Which archived records make a training sample: the minimum feature      *)
(* profile (src/prediction_training/training_eligibility.py) and the full  *)
(* readiness rule of the data set builder (dataset_builder.py).  Pure: the *)
(* operators take the archive records visible to a candidate and return    *)
(* the reasons for which a role is refused.                                *)
(*                                                                         *)
(* An archive record is [id, match, profile, cutoff, kickoff, type, key,   *)
(* domain, rev, sup, avail, stamp, lacks, stored, official, cells, clean,  *)
(* values]: "lacks" names the evidence that is missing or broken ("hash",  *)
(* "provenance", "refs"), "stored" how it may be reconstructed, "cells"    *)
(* the official odds cells that parse, "clean" that no row of them is bad, *)
(* "values" the numbers a feature artifact carries.                        *)
(***************************************************************************)
EXTENDS EngineRoles, Naturals, FiniteSets

CONSTANTS MarketCells, \* role -> the labels of the official odds cells it needs
          SideFeatures,\* role -> the numbers it needs of each feature artifact
          FeatureTypes \* the artifact types the full readiness rule asks for

ASSUME RolesHaveCells == DOMAIN MarketCells = Roles /\ DOMAIN SideFeatures = Roles

(* The two domains whose numbers come from a feature artifact of their own. *)
SideTypes == {"statistical_feature_artifact_ref", "football_intelligence_ref"}
OddsTypes == {"official_odds_screenshot", "official_odds_snapshot"}

LabelTypes(r) ==
    {"final_result"} \cup CASE r = "OUTCOME"  -> {"outcome_label"}
                            [] r = "HANDICAP" -> {"handicap_label_basis"}
                            [] r = "GOALS"    -> {"goals_label"}
                            [] r = "HTFT"     -> {"htft_label", "halftime_result"}

(* A profile: the features each role requires, all numbers, none tactical. *)
Profile(version) ==
    [version  |-> version,
     required |-> [r \in Roles |-> {<<"MARKET", c>> : c \in MarketCells[r]}
                                     \cup (SideTypes \X SideFeatures[r])]]

ProfileOK(p) ==
    /\ DOMAIN p.required = Roles
    /\ \A r \in Roles : p.required[r] # {} /\ \A f \in p.required[r] : f[1] # "TACTICAL"

GateRuleOK(g) == g.status = "ACTIVE" /\ g.appendOnly

(* The record a domain is read from: the highest revision, then the id. *)
Newest(S) == CHOOSE e \in S : \A o \in S : o.rev < e.rev \/ (o.rev = e.rev /\ o.id <= e.id)
DomainEntry(S, types) ==
    LET of == {e \in S : e.type \in types} IN IF of = {} THEN {} ELSE {Newest(of)}

AsOf(avail, c) == avail # None /\ avail <= c.cutoff /\ c.cutoff < c.kickoff

(* The official odds record the newest market artifact names, if visible. *)
OfficialEntry(S) ==
    {o \in S : o.type \in OddsTypes
               /\ \E m \in DomainEntry(S, {"market_intelligence_ref"}) : m.official = o.id}

MarketReasons(r, S, c) ==
    IF OfficialEntry(S) = {} THEN {"MISSING_NATIVE_MARKET_SOURCE_REF"}
    ELSE UNION {(IF o.clean THEN {} ELSE {"MARKET_NATIVE_CORE_INVALID"})
                \cup (IF MarketCells[r] \subseteq o.cells[r] THEN {} ELSE {"MARKET_NATIVE_CORE_INCOMPLETE"})
                \cup (IF AsOf(o.avail, c) THEN {} ELSE {"MARKET_SOURCE_AS_OF_BOUNDARY_FAILED"})
                  : o \in OfficialEntry(S)}

(* The entry a required feature is read from: its market cell or its artifact. *)
Carrier(f, r, S) ==
    IF f[1] = "MARKET" THEN {o \in OfficialEntry(S) : f[2] \in o.cells[r]}
                       ELSE {e \in DomainEntry(S, {f[1]}) : f[2] \in DOMAIN e.values}

(* A value inherits the availability and the refs of its entry unless it   *)
(* states its own; a market cell always has its official record's.         *)
FeatureReasons(f, r, S, c) ==
    IF Carrier(f, r, S) = {} THEN {"MISSING_REQUIRED_MINIMUM_FEATURE"}
    ELSE UNION {
        LET v == IF f[1] = "MARKET"
                 THEN [number |-> TRUE, avail |-> e.avail, rebuilt |-> "hash" \notin e.lacks]
                 ELSE e.values[f[2]]
        IN IF ~v.number THEN {"MISSING_REQUIRED_MINIMUM_FEATURE"}
           ELSE (IF AsOf(v.avail, c) THEN {} ELSE {"FEATURE_AS_OF_BOUNDARY_FAILED"})
                \cup (IF e.lacks \cap {"hash", "refs"} = {} THEN {} ELSE {"REQUIRED_FEATURE_PROVENANCE_MISSING"})
                \cup (IF v.rebuilt THEN {} ELSE {"DETERMINISTIC_RECONSTRUCTION_METADATA_MISSING"})
          : e \in Carrier(f, r, S)}

(* evaluate_training_eligibility: the reasons a role is refused under the  *)
(* minimum profile; empty is ELIGIBLE.  It raises CUTOFF_BINDING_INVALID   *)
(* for a cutoff that is not before the kickoff, which the archive has no   *)
(* pre-match record of.                                                    *)
MinimumReasons(p, r, S, c, label) ==
    MarketReasons(r, S, c)
    \cup UNION {FeatureReasons(f, r, S, c) : f \in p.required[r]}
    \cup (IF label = {} THEN {"MISSING_POST_MATCH_LABEL"} ELSE {})
    \cup UNION {(IF l.stamp = None \/ l.stamp < c.kickoff THEN {"POST_MATCH_LABEL_TIME_INVALID"} ELSE {})
                \cup (IF l.lacks \cap {"hash", "refs"} = {} THEN {} ELSE {"LABEL_PROVENANCE_INVALID"})
                  : l \in label}
    \cup (IF r = "HANDICAP" /\ Carrier(<<"MARKET", "official_handicap">>, r, S) = {}
          THEN {"OFFICIAL_RQSPF_REQUIRED"} ELSE {})

(* The availability times the features of an accepted role rest on. *)
FeatureTimes(p, r, S) ==
    UNION {{IF f[1] = "MARKET" THEN e.avail ELSE e.values[f[2]].avail : e \in Carrier(f, r, S)}
             : f \in p.required[r]}

-----------------------------------------------------------------------------
(* A supersedes chain ends at a first revision, all of it in the archive.  *)
Resolves(e, archive) ==
    LET Back[n \in 0..Cardinality(archive)] ==
            IF n = 0 THEN {e}
            ELSE {o \in archive : \E x \in Back[n - 1] : x.sup = o.id}
    IN \E n \in 0..Cardinality(archive) :
           /\ \E x \in Back[n] : x.sup = None
           /\ \A k \in 0..n : Back[k] # {}

(* The stored artifact is used when it was accepted, else an exact replay. *)
Reconstructs(e) == e.stored \in {"accepted", "exact_replay"}

Integrity(e, c) == AsOf(e.avail, c) /\ e.lacks = {}

(* _feature_domains: a required domain is its newest record or nothing. *)
DomainReasons(S, c, archive) ==
    UNION {IF DomainEntry(S, {t}) = {} THEN {"MISSING_REQUIRED_DOMAIN_ARTIFACT"}
           ELSE UNION {IF ~Resolves(e, archive) THEN {"UNRESOLVABLE_SUPERSEDES_CHAIN"}
                       ELSE IF ~Integrity(e, c) THEN {"BROKEN_INTEGRITY"}
                       ELSE IF ~Reconstructs(e) THEN {"RECONSTRUCTION_PATH_UNAVAILABLE"} ELSE {}
                         : e \in DomainEntry(S, {t})}
             : t \in FeatureTypes}

\* Mutant: the label's time is not compared with the kickoff.
LabelReasons_AnyTime(r, post, c, archive) ==
    IF DomainEntry(post, LabelTypes(r)) = {} THEN {"MISSING_POST_MATCH_LABEL"} ELSE {}

(* _labels: the newest record of the role's label types, or nothing. *)
LabelReasons(r, post, c, archive) ==
    LET of == DomainEntry(post, LabelTypes(r)) IN
    IF of = {} THEN {"MISSING_POST_MATCH_LABEL"}
    ELSE UNION {IF ~Resolves(e, archive) THEN {"UNRESOLVABLE_SUPERSEDES_CHAIN"}
                ELSE (IF e.stamp = None \/ e.stamp < c.kickoff THEN {"POST_MATCH_LABEL_TIME_INVALID"} ELSE {})
                     \cup (IF "hash" \in e.lacks THEN {"LABEL_HASH_INVALID"} ELSE {})
                     \cup (IF "provenance" \in e.lacks THEN {"MISSING_LABEL_PROVENANCE"} ELSE {})
                  : e \in of}

Label(r, post, c, archive) ==
    IF LabelReasons(r, post, c, archive) = {} THEN DomainEntry(post, LabelTypes(r)) ELSE {}

(* _rqspf: some official odds record of the candidate states the handicap. *)
StatesHandicap(S) ==
    "HANDICAP" \in Roles => \E o \in S : o.type \in OddsTypes /\ "official_handicap" \in o.cells["HANDICAP"]

FullReasons(r, S, post, c, archive) ==
    DomainReasons(S, c, archive) \cup LabelReasons(r, post, c, archive)
    \cup (IF r = "HANDICAP" /\ ~StatesHandicap(S) THEN {"OFFICIAL_RQSPF_MISSING"} ELSE {})
=============================================================================
