-------------------------- MODULE ResolvedMatches --------------------------
(* What the stores that bind their records to a match see of the           *)
(* CanonicalMatchIdentityStore: whether get answers with an identity.  Every *)
(* identity it holds is AVAILABLE and RESOLVED, and none is ever removed.  *)
EXTENDS Integers, FiniteSets

CONSTANTS Matches, None

VARIABLE matches

ResolveMatch(m) == matches' = matches \cup {m}
=============================================================================
