\* A candidate fails where the audit trigger cannot run.
SPECIFICATION MCSpec
CONSTANTS
    o1 = o1
    o2 = o2
    h1 = h1
    h2 = h2
    Operators = {o1, o2}
    N = 6
    AuditFrom = 4
    FixAt = 6
    Environment = "DISPOSABLE_LOCAL"
    MaxRuns = 3
    MaxFaults = 1
    MaxEdits = 1
    MaxMoves = 2
    Heads = {h1, h2}
    None = None
INVARIANT FailuresAreRecorded
CHECK_DEADLOCK FALSE
