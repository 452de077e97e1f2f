\* Two operators on a disposable database, three runs between them, with one
\* failure, lost connection or crash anywhere; and the reports they write.
SPECIFICATION MCSpec
CONSTANTS
    o1 = o1
    o2 = o2
    h1 = h1
    h2 = h2
    Operators = {o1, o2}
    N = 6
    AuditFrom = 4
    FixAt = 6
    Environment = "DISPOSABLE_LOCAL"
    MaxRuns = 3
    MaxFaults = 1
    MaxEdits = 1
    MaxMoves = 2
    Heads = {h1, h2}
    None = None
INVARIANTS
    RecordsAgree
    ReviewedEvidenceHolds
PROPERTIES
    LedgerIsFinal
    RunsAloneEnd
CHECK_DEADLOCK FALSE
