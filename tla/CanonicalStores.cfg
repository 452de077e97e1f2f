SPECIFICATION StoresSpec
CONSTANTS
    Matches = {"m1", "m2"}
    None = None
    Markets = {"spf"}
    Payloads = {"p", "q"}
    Times = {0, 1, 2, 3, 4, 5, 6}
    Second = 2
    OddsInputs <- MCOddsInputs
    ScreenshotInputs <- MCScreenshotInputs
    LedgerRequests <- MCLedgerRequests
    MaxEntries = 2
    Claims = {"fitness", "weather"}
    EvidenceInputs <- MCEvidenceInputs
    Assessments <- MCAssessments
    Resolutions <- MCResolutions
    Questions <- MCQuestions
    Fixture <- MCFixture
    References = {"ref"}
    ContextInputs <- MCContextInputs
    MarketInputs <- MCMarketInputs
    Adapter = "ASIAN_HANDICAP"
INVARIANTS
    AllowedOddsAreSound
    EvidenceIsSettled
    AdmittedContextIsPrematch
    OneTeamPerReference
    MarketLinesAreSound
PROPERTY StoresAreLogs
CONSTRAINT OddsBounds
CHECK_DEADLOCK FALSE
