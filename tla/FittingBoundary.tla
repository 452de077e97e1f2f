--------------------------- MODULE FittingBoundary ---------------------------
(***************************************************************************)
(* The EWP-004 fitting boundary (src/prediction_training/ewp004_runtime.py *)
(* and ewp004_contract.py): a runtime that opens only on a frozen contract *)
(* and a boundary that authorises no fit, dispatches a family to a role,   *)
(* and handles synthetic parameter artifacts, packages, selections and     *)
(* promotions as values the caller keeps.                                  *)
(*                                                                         *)
(* A list of artifacts is a value: append returns a new one and the old    *)
(* one is still there, so that "lists" holds every list ever returned.     *)
(***************************************************************************)
EXTENDS TemporalSplit

CONSTANTS Families,      \* the two governed model families
          Contracts,     \* the contract files a runtime may be given
          Boundaries,    \* [authorized, executed, fit, contract, ewp004, ewp005]: manifest and registry
          Payloads,      \* feature -> "number", "declared missing" or another value
          Bindings,      \* the lineage bindings a caller may state
          MetricRows,    \* candidates with their metrics
          MaxArtifacts,  \* bound: the length of a list, and the revisions stated
          MaxKept        \* bound: the artifacts, lists, packages and selections kept

VARIABLES runtime,   \* the contract of the open runtime, or None
          refused,   \* why the last call was refused, "none" if it was not
          built,     \* the artifacts built so far
          lists,     \* the artifact lists returned so far
          packages,  \* the packages built
          chosen,    \* [from, winner] of each selection
          stages     \* the promotion states the caller's candidates are in
fittingVars == <<runtime, refused, built, lists, packages, chosen, stages>>

-----------------------------------------------------------------------------
(* A contract is [authorized, executed, leaks, broken, families, profiles, *)
(* configs, bound, readyStates, threads]; "leaks" are the flags that say a *)
(* fit was authorised or artifacts made, "broken" the parts whose own hash *)
(* or frozen wording is not what it must be.                               *)
ProfileIsSound(p, r) ==
    /\ p.role = r /\ p.families = Families /\ p.required # {}
    /\ p.classes = p.order /\ Len(p.order) > 0

(* validate_contract: no failure at all. *)
ContractOK(c) ==
    /\ c.authorized = c.executed /\ c.leaks = {} /\ c.broken = {}
    /\ c.families = Families
    /\ DOMAIN c.profiles = Roles /\ \A r \in Roles : ProfileIsSound(c.profiles[r], r)
    /\ DOMAIN c.configs = Roles \X Families
    /\ \A x \in DOMAIN c.configs : c.configs[x].hashOK /\ c.configs[x].budget > 0
                                   /\ c.configs[x].holdout = "FORBIDDEN" /\ c.bound[x] = c.configs[x].id
    /\ c.readyStates = {"READY"} /\ c.threads = 1

(* _validate_execution_boundary: EWP-004 may run, EWP-005 may not. *)
BoundaryCode(b, c) ==
    IF ~b.authorized THEN "EWP004_NOT_AUTHORIZED"
    ELSE IF ~b.executed THEN "EWP004_IMPLEMENTATION_NOT_COMPLETE"
    ELSE IF b.fit THEN "EWP005_AUTHORIZATION_LEAK"
    ELSE IF b.contract # c THEN "CONTRACT_HASH_MISMATCH"
    ELSE IF ~b.ewp004 \/ b.ewp005 THEN "EWP005_AUTHORIZATION_LEAK" ELSE "none"

(* validate_training_config: an exhaustive grid whose size is the budget,  *)
(* of values of the declared type, in range, none left to the library.     *)
GridSize(cfg) ==
    MapThenFoldSet(LAMBDA x, y : x * y, 1, LAMBDA s : Cardinality(s.values),
                   LAMBDA S : CHOOSE s \in S : TRUE, cfg.search)
ConfigOK(cfg) ==
    /\ cfg.hashOK /\ cfg.holdout = "FORBIDDEN" /\ cfg.method = "GRID_EXHAUSTIVE"
    /\ cfg.fixed # {} /\ "LIBRARY_DEFAULT" \notin cfg.fixed /\ cfg.search # {}
    /\ \A s \in cfg.search : s.values # {} /\ s.typed /\ s.values \subseteq s.range
    /\ cfg.budget > 0 /\ GridSize(cfg) = cfg.budget

(* dispatch_candidate_family. *)
DispatchCode(c, r, f) ==
    IF r \notin Roles THEN "UNSUPPORTED_ENGINE_ROLE"
    ELSE IF f \notin c.families \/ f \notin c.profiles[r].families THEN "UNSUPPORTED_MODEL_FAMILY"
    ELSE IF ~ConfigOK(c.configs[<<r, f>>]) THEN "INVALID_TRAINING_CONFIG" ELSE "none"

(* validate_feature_payload: every required feature is a number, an        *)
(* optional one may be missing in a declared way, and nothing else is in.  *)
PayloadCode(p, payload) ==
    IF \E f \in p.required : f \notin DOMAIN payload \/ payload[f] # "number" THEN "REQUIRED_FEATURE_MISSING"
    ELSE IF \E f \in DOMAIN payload \cap p.optional : payload[f] \notin {"number", "declared missing"}
    THEN "INVALID_TYPED_MISSING_STATE"
    ELSE IF DOMAIN payload \subseteq p.required \cup p.optional THEN "none" ELSE "UNDECLARED_FEATURE"

-----------------------------------------------------------------------------
Kept(S) == Cardinality(S) < MaxKept
Refuse(code) == refused' = code /\ UNCHANGED <<runtime, built, lists, packages, chosen, stages>>

FittingInit ==
    /\ runtime = None /\ refused = "none" /\ built = {} /\ lists = {<<>>}
    /\ packages = {} /\ chosen = {} /\ stages = {"CANDIDATE"}

(* Ewp004Runtime(...): a new runtime, or none. *)
OpenRuntime == \E c \in Contracts, b \in Boundaries :
    LET code == IF ~ContractOK(c) THEN "CONTRACT_INVALID" ELSE BoundaryCode(b, c) IN
    /\ runtime = None
    /\ IF code # "none" THEN Refuse(code)
       ELSE /\ runtime' = c /\ refused' = "none"
            /\ UNCHANGED <<built, lists, packages, chosen, stages>>

(* CandidateFittingAdapter.fit with synthetic rows: dispatch, no fit. *)
FitSynthetic == \E r \in Roles, f \in Families, p \in Payloads :
    /\ runtime # None
    /\ Refuse(IF PayloadCode(runtime.profiles[r], p) # "none" THEN PayloadCode(runtime.profiles[r], p)
              ELSE DispatchCode(runtime, r, f))

(* build_ephemeral_parameter_artifact: all of the lineage is bound, the    *)
(* hashes are hashes, and the revision is the caller's to state.           *)
BuildArtifact == \E r \in Roles, f \in Families, b \in Bindings, n \in 1..MaxArtifacts, sup \in BOOLEAN :
    LET a == [id |-> <<r, f>>, lineage |-> b, config |-> runtime.configs[<<r, f>>].id,
              rev |-> n, sup |-> IF sup THEN <<r, f>> ELSE None]
        code == IF DispatchCode(runtime, r, f) # "none" THEN DispatchCode(runtime, r, f)
                ELSE IF None \in {b.dataset, b.split, b.report} THEN "PARAMETER_ARTIFACT_BINDING_INCOMPLETE"
                ELSE IF ~b.hashes THEN "PARAMETER_ARTIFACT_HASH_INVALID" ELSE "none"
    IN /\ runtime # None /\ Kept(built)
       /\ IF code # "none" THEN Refuse(code)
          ELSE /\ built' = built \cup {a} /\ refused' = "none"
               /\ UNCHANGED <<runtime, lists, packages, chosen, stages>>

(* append_parameter_artifact: onto a list the caller holds. *)
RevisionsOf(list, id) == {list[k].rev : k \in {j \in DOMAIN list : list[j].id = id}}

AppendOK(list, a) ==
    RevisionsOf(list, a.id) # {} => a.rev > Max(RevisionsOf(list, a.id)) /\ a.sup = a.id

AppendArtifact == \E list \in lists, a \in built :
    /\ Len(list) < MaxArtifacts /\ Kept(lists)
    /\ IF ~AppendOK(list, a) THEN Refuse("REJECT_PARAMETER_ARTIFACT_OVERWRITE")
       ELSE /\ lists' = lists \cup {Append(list, a)} /\ refused' = "none"
            /\ UNCHANGED <<runtime, built, packages, chosen, stages>>

(* build_ephemeral_model_package: the artifact's bindings, and whatever    *)
(* the caller puts over them as long as they are hashes.                   *)
BuildPackage == \E a \in built, over \in {None} \cup Bindings :
    /\ runtime # None /\ Kept(packages)
    /\ IF over # None /\ (None \in {over.dataset, over.split, over.report} \/ ~over.hashes)
       THEN Refuse("BLOCKED_MODEL_ARTIFACT_PACKAGING_BINDING_INCOMPLETE")
       ELSE /\ packages' = packages \cup {[of |-> a, status |-> "CANDIDATE",
                                           lineage |-> IF over = None THEN a.lineage ELSE over]}
            /\ refused' = "none"
            /\ UNCHANGED <<runtime, built, lists, chosen, stages>>

(* select_candidate: the first least one by loss, Brier score, variance,   *)
(* complexity and family name, in the order the candidates are given.      *)
Better(x, y) ==
    LET k == {j \in 1..5 : x.key[j] # y.key[j]} IN k # {} /\ x.key[Min(k)] < y.key[Min(k)]
Winner(cands) ==
    CHOOSE j \in DOMAIN cands : /\ \A i \in DOMAIN cands : ~Better(cands[i], cands[j])
                                /\ \A i \in 1..(j - 1) : Better(cands[j], cands[i])
PartitionCode(p, purpose) ==
    IF p \notin {"train", "validation", "out_of_time", "holdout"} THEN "EVALUATION_PARTITION_INVALID"
    ELSE IF p = "holdout" /\ purpose # "final_independent_evaluation" THEN "HOLDOUT_LEAKAGE_REJECTED" ELSE "none"

SelectCandidate == \E x, y \in MetricRows, p \in {"validation", "holdout", "test"} :
    LET cands == <<x, y>>  code == PartitionCode(p, "candidate_selection") IN
    /\ runtime # None /\ Kept(chosen)
    /\ IF code # "none" THEN Refuse(code)
       ELSE /\ chosen' = chosen \cup {[of |-> {x, y}, winner |-> cands[Winner(cands)]]}
            /\ refused' = "none"
            /\ UNCHANGED <<runtime, built, lists, packages, stages>>

(* promote_candidate: the caller's candidate moves on, never to approval. *)
PromotionStates == {"CANDIDATE", "VALIDATED", "APPROVED_FOR_ENGINE", "REJECTED"}
Allowed == {<<"CANDIDATE", "VALIDATED">>, <<"VALIDATED", "APPROVED_FOR_ENGINE">>, <<"VALIDATED", "REJECTED">>}
PromotionCode(from, to, human) ==
    IF <<from, to>> \notin Allowed THEN "PROMOTION_TRANSITION_INVALID"
    ELSE IF to # "APPROVED_FOR_ENGINE" THEN "none"
    ELSE IF human THEN "EWP004_PROMOTION_OUT_OF_SCOPE" ELSE "PROMOTION_HUMAN_GATE_REQUIRED"

Promote == \E from \in stages, to \in PromotionStates, human \in BOOLEAN :
    LET code == PromotionCode(from, to, human) IN
    /\ runtime # None
    /\ IF code # "none" THEN Refuse(code)
       ELSE /\ stages' = (stages \ {from}) \cup {to} /\ refused' = "none"
            /\ UNCHANGED <<runtime, built, lists, packages, chosen>>

FittingNext ==
    \/ OpenRuntime \/ FitSynthetic \/ BuildArtifact \/ AppendArtifact
    \/ BuildPackage \/ SelectCandidate \/ Promote
FittingSpec == FittingInit /\ [][FittingNext]_fittingVars

-----------------------------------------------------------------------------
(* Whatever list a caller appends to, the artifacts of one id in a list    *)
(* are one line of rising revisions, each of which supersedes the id.      *)
ListsAreLinear ==
    \A list \in lists : \A i, j \in DOMAIN list :
        (i < j /\ list[i].id = list[j].id) => list[i].rev < list[j].rev /\ list[j].sup = list[j].id

(* What a READY report says is shown, and a list of artifacts is one line. *)
FittingIsSound == ReadyReportsShow /\ ListsAreLinear

(* The same candidates give the same winner, in whatever order they come.  *)
(* Refuted when two configurations of one family tie on every metric: the  *)
(* key ends with the family, and the first of the two is taken.            *)
SelectionIsOrderFree == \A x, y \in chosen : x.of = y.of => x.winner = y.winner

(* A package is bound to the lineage of its parameter artifact.  Refuted:  *)
(* extra_bindings replaces any of it.                                      *)
PackagesBindTheirArtifact == \A p \in packages : p.lineage = p.of.lineage
=============================================================================
