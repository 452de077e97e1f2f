----------------------------- MODULE EngineRoles -----------------------------
(* The engine roles a sample is made for, a split is judged by and a model *)
(* is fitted for, each on its own: OUTCOME, HANDICAP, GOALS and HTFT.      *)
CONSTANTS Roles, None

ASSUME RolesAreNamed == Roles \subseteq {"OUTCOME", "HANDICAP", "GOALS", "HTFT"} /\ None \notin Roles
=============================================================================
