------------------------------ MODULE MCTraining ------------------------------
(* The data set builder, the temporal splits and the fitting boundary, for   *)
(* TLC.  Each reads files that the one before it wrote and a person approved *)
(* by committing their names, so a behaviour exercises one of them: focus.   *)
EXTENDS TrainingDataset, FittingBoundary

MCRoles == {"HANDICAP"}
MCMarketCells == [r \in MCRoles |-> {"official_handicap"}]
MCSideFeatures == [r \in MCRoles |-> {"form"}]
MCFeatureTypes == {"market_intelligence_ref", "statistical_feature_artifact_ref"}

Good == [number |-> TRUE, avail |-> 1, rebuilt |-> TRUE]
Late == [number |-> TRUE, avail |-> 4, rebuilt |-> TRUE]

Record(id, type, rev, sup, avail) ==
    [id |-> id, match |-> "m1", profile |-> "T60", cutoff |-> 2, kickoff |-> 3, type |-> type, key |-> type,
     domain |-> "pre_match", rev |-> rev, sup |-> sup, avail |-> avail, stamp |-> avail, lacks |-> {},
     stored |-> "accepted", official |-> None, cells |-> [r \in MCRoles |-> {}], clean |-> TRUE, values |-> <<>>]

Odds   == [Record(1, "official_odds_snapshot", 1, None, 1) EXCEPT !.cells = MCMarketCells]
Market == [Record(2, "market_intelligence_ref", 1, None, 1) EXCEPT !.official = 1]
Stats  == [Record(3, "statistical_feature_artifact_ref", 1, None, 1) EXCEPT !.values = [form |-> Good]]
Form   == [Record(4, "football_intelligence_ref", 1, None, 1) EXCEPT !.values = [form |-> Late]]
Result == [Record(5, "final_result", 1, None, 5) EXCEPT !.domain = "post_match"]
\* Statistics of after the cutoff, and what is captured later: the form of before it
\* without the late number that keeps the match out, and a label stamped before the kickoff.
LateStats == [Record(6, "statistical_feature_artifact_ref", 2, 3, 4) EXCEPT !.values = [form |-> Late]]
NewForm   == [Record(7, "football_intelligence_ref", 2, 4, 2) EXCEPT !.values = [form |-> Good]]
\* The same match with its kickoff put off: a second candidate of one path.
Moved     == [Record(8, "football_intelligence_ref", 2, 4, 2) EXCEPT !.kickoff = 4]
Early     == [Record(9, "handicap_label_basis", 3, None, 1) EXCEPT !.domain = "post_match"]

MCArchived == {Odds, Market, Stats, LateStats, Form, Result}
MCArriving == {NewForm, Moved, Early}
Request(mode, builder) == [profile |-> None, mode |-> mode, builder |-> builder, minimum |-> 1,
                           rule |-> [status |-> "ACTIVE", appendOnly |-> TRUE]]
MCRequests == {Request("full", 1), Request("full", 2), Request("minimum", 1)}

-----------------------------------------------------------------------------
\* Five cutoffs, two of one match, a class missing in the second fold's holdout.
SampleOf(match, cutoff, class) ==
    [match |-> match, cutoff |-> cutoff, kickoff |-> cutoff + 2, avail |-> cutoff, role |-> "HANDICAP",
     class |-> class, league |-> "L1", state |-> "ELIGIBLE", features |-> "yes", version |-> 1]
Required == {SampleOf("a", 1, "w"), SampleOf("b", 2, "l"), SampleOf("c", 3, "w"), SampleOf("d", 3, "l"),
             SampleOf("e", 4, "w"), SampleOf("f", 4, "l"), SampleOf("g", 5, "w")}
Straddling == [SampleOf("a", 3, "l") EXCEPT !.league = "L2", !.features = "no"]
Bad == {[SampleOf("h", 1, "w") EXCEPT !.avail = 2], [SampleOf("i", 1, "w") EXCEPT !.version = 2],
        SampleOf("j", 4, None)}
Partial == {SampleOf("f", 4, "l")} \cup {[SampleOf("f", 4, "l") EXCEPT !.state = "PARTIALLY_ELIGIBLE"]}
MCRevisions ==
    {Required \ S : S \in {T \in SUBSET Required : Cardinality(T) <= 1}}
    \cup {Required \cup {Straddling}, (Required \ Partial) \cup (Partial \ Required), {}} \cup {Required \cup {s} : s \in Bad}
MCClasses == [r \in MCRoles |-> {"w", "l"}]
MCMinimum == [p \in {"train", "validation", "holdout"} |-> 1]
\* What a READY report of a split allows to say, and what a caller may say otherwise.
Claim == [dataset |-> "hash", split |-> "hash", report |-> "hash", ready |-> TRUE, usable |-> 1,
          authorized |-> TRUE]
MCFitClaims ==
    {Claim, [Claim EXCEPT !.report = ""], [Claim EXCEPT !.split = "NONE"], [Claim EXCEPT !.dataset = "bad hash"],
     [Claim EXCEPT !.ready = FALSE], [Claim EXCEPT !.usable = 0], [Claim EXCEPT !.authorized = FALSE]}
MCScopes == {None, {"L1"}, {"L1", "L2"}}

ExplicitConfig == [strategy |-> "explicit", trainEnd |-> 2, validation |-> <<3, 3>>, holdout |-> <<4, 5>>,
                   separation |-> 1]
Walk == [strategy |-> "walk_forward", mode |-> "expanding", width |-> 2, first |-> None, period |-> 1, step |-> 1,
         horizon |-> 1, holdHorizon |-> 1, policy |-> "DROP", minimumFolds |-> 1]
MCConfigs == {ExplicitConfig, [ExplicitConfig EXCEPT !.separation = 2], Walk,
              [Walk EXCEPT !.mode = "sliding", !.policy = "REJECT", !.minimumFolds = 2],
              [strategy |-> "random"]}

-----------------------------------------------------------------------------
MCFamilies == {"logistic", "boosted"}
Grid == [id |-> "grid", hashOK |-> TRUE, holdout |-> "FORBIDDEN", method |-> "GRID_EXHAUSTIVE", fixed |-> {"seed"},
         search |-> {[name |-> "depth", values |-> {2, 4}, range |-> 1..9, typed |-> TRUE],
                     [name |-> "leaf", values |-> {1, 2}, range |-> 1..9, typed |-> TRUE]}, budget |-> 4]
Frozen ==
    [authorized |-> TRUE, executed |-> TRUE, leaks |-> {}, broken |-> {}, families |-> MCFamilies,
     profiles |-> [r \in MCRoles |-> [role |-> r, families |-> MCFamilies, required |-> {"a"}, optional |-> {"b"},
                                      classes |-> <<"w", "l">>, order |-> <<"w", "l">>]],
     configs |-> [x \in MCRoles \X MCFamilies |-> Grid], bound |-> [x \in MCRoles \X MCFamilies |-> "grid"],
     readyStates |-> {"READY"}, threads |-> 1]
\* A contract whose boosted grid is larger than its budget opens all the same.
OverBudget == [Frozen EXCEPT !.configs[<<"HANDICAP", "boosted">>].budget = 3]
MCContracts == {Frozen, OverBudget, [Frozen EXCEPT !.leaks = {"formal_model_fit_authorized"}]}
Boundary == [authorized |-> TRUE, executed |-> TRUE, fit |-> FALSE, contract |-> Frozen, ewp004 |-> TRUE, ewp005 |-> FALSE]
MCBoundaries == {Boundary, [Boundary EXCEPT !.contract = OverBudget], [Boundary EXCEPT !.ewp005 = TRUE]}
MCPayloads == [{"a"} -> {"number", "text"}] \cup [{"a", "b"} -> {"number", "declared missing"}] \cup [{"a", "z"} -> {"number"}]
Bound == [dataset |-> 1, split |-> 1, report |-> 1, hashes |-> TRUE]
MCBindings == {Bound, [Bound EXCEPT !.report = 2], [Bound EXCEPT !.split = None]}
Row(family, config, loss) == [family |-> family, config |-> config, key |-> <<loss, 1, 1, 1, family>>]
MCMetricRows == {Row(1, 1, 2), Row(1, 2, 2), Row(2, 3, 1)}

\* What is kept at once.  A refused call, or an answer of the gate, leaves the rest as
\* it was, so that what follows it is what follows the state before it.
FittingBounds ==
    /\ refused = "none" /\ grants = {}
    /\ Cardinality(built) <= 2 /\ Cardinality(lists) <= 3 /\ Cardinality(packages) + Cardinality(chosen) <= 2
    /\ built # {} => chosen = {} /\ stages = {"CANDIDATE"}
    /\ lists # {<<>>} => packages = {}

-----------------------------------------------------------------------------
\* The second candidate comes alone.
DatasetBounds == Moved \in archive => archive = Archived \cup {Moved}

VARIABLE focus
trainingVars == <<datasetVars, splitVars, fittingVars, focus>>

TrainingInit == DatasetInit /\ SplitInit /\ FittingInit /\ focus \in {"dataset", "split", "fitting"}
TrainingNext ==
    \/ focus = "dataset" /\ DatasetNext /\ UNCHANGED <<splitVars, fittingVars, focus>>
    \/ focus = "split" /\ SplitNext /\ UNCHANGED <<datasetVars, fittingVars, focus>>
    \/ focus = "fitting" /\ FittingNext /\ UNCHANGED <<datasetVars, splitVars, focus>>
TrainingSpec == TrainingInit /\ [][TrainingNext]_trainingVars /\ WF_datasetVars(BuildStep)

-----------------------------------------------------------------------------
(* A build under way ends, and in an error only for one of four causes.    *)
BuildsComplete == BuildsStopForACause /\ BuildsEnd
=============================================================================
