\* A restart between two corrections of one key.
SPECIFICATION MCSpec
CONSTANTS
    Keys = {k1}
    PostKeys = {}
    Files = {f1}
    Payloads = {p1, p2}
    Execs = {e1}
    Times = {1}
    SuppliedRevs = {None}
    MaxRev = 2
    MaxBatch = 0
    MaxCrashes = 1
    MaxFailures = 0
    None = None
    Absent = Absent
    Torn = Torn
INVARIANT CorrectionsSupersedeLatest
