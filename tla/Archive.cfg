\* Crashes and failed writes, in single-record operations and in
\* capture_pre_match calls with their session manifests; the reader's view of
\* corrections with earlier and later availability.
SPECIFICATION MCSpec
CONSTANTS
    Keys = {k1, k2}
    PostKeys = {k2}
    Files = {f1}
    Payloads = {p1}
    Execs = {e1, e2}
    Times = {1, 2}
    SuppliedRevs = {None, 2}
    MaxRev = 2
    MaxBatch = 2
    MaxCrashes = 2
    MaxFailures = 1
    None = None
    Absent = Absent
    Torn = Torn
INVARIANTS
    ManifestSealsArtifact
    AcknowledgedIsDurable
    ForkFreeUntilFault
    ArchivedIsGrounded
PROPERTIES
    AsOfStable
    ImplementsRevisions
