---------------------------- MODULE MCMigration ----------------------------
(* An instance of Migration and RuntimeEvidence for TLC: behaviours of the   *)
(* runs alone, under their fairness, and of the runs with their reports.     *)
EXTENDS RuntimeEvidence

CONSTANTS o1, o2, h1, h2

VARIABLE focus

\* Bounds: the reports are checked for two runs, HEAD moving away and back.
Within ==
    IF focus = "runs" THEN edits = 0 \/ runs <= 1 ELSE edits = 0 /\ runs <= 2

MCInit ==
    /\ EvidenceInit
    /\ focus \in {"runs", "reports"}
    /\ head = h1

MCNext ==
    /\ UNCHANGED focus
    /\ \/ focus = "runs" /\ Next /\ UNCHANGED evidenceVars
       \/ focus = "reports" /\ EvidenceNext
    /\ Within'

MCSpec ==
    /\ MCInit /\ [][MCNext]_<<allVars, focus>>
    /\ focus = "runs" => Fairness

\* The runs alone end.
RunsAloneEnd == focus = "runs" => RunsEnd
============================================================================
