\* Reviews of two cells with crashes and failed writes anywhere.
SPECIFICATION Spec
CONSTANTS
    i1 = i1
    i2 = i2
    t1 = t1
    n1 = n1
    n2 = n2
    Items = {i1, i2}
    Texts = {t1}
    Notes = {n1, n2}
    Breaking = {n2}
    OcrText <- OcrOfFirst
    MaxLines = 3
    MaxCrashes = 1
    MaxFailures = 1
    None = None
    Absent = Absent
INVARIANTS
    ReviewsAreExported
PROPERTIES
    ImplementsReviewLog
    FilesAreKept
CHECK_DEADLOCK FALSE
