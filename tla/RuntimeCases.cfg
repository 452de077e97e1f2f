\* One runner, two runs of it, two faults anywhere; any roles at the start.  Of
\* the two cases the second is expected to be rejected.
SPECIFICATION Spec
CONSTANTS
    Runners = {r1}
    Roles = {a1, a2}
    CaseCount = 2
    Rejected = {2}
    MaxRuns = 2
    MaxFaults = 2
    None = None
INVARIANTS
    CasesLeaveNothing
    PassedRunsAreClean
CHECK_DEADLOCK FALSE
