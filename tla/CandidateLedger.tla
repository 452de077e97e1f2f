--------------------------- MODULE CandidateLedger ---------------------------
(***************************************************************************)
(* What the migration history promises: the candidates of the manifest     *)
(* are applied one at a time and in order, and a recorded failure of the   *)
(* next one closes the ledger for good.                                    *)
(***************************************************************************)
EXTENDS Naturals

CONSTANT N

VARIABLES
    applied,    \* how many candidates are applied
    closed      \* a failure is recorded after them

Init == applied = 0 /\ closed = FALSE

ApplyNext ==
    /\ ~closed /\ applied < N
    /\ applied' = applied + 1
    /\ UNCHANGED closed

Close ==
    /\ ~closed /\ applied < N
    /\ closed' = TRUE
    /\ UNCHANGED applied

Spec == Init /\ [][ApplyNext \/ Close]_<<applied, closed>>
==============================================================================
