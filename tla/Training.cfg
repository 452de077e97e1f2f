SPECIFICATION TrainingSpec
CONSTANTS
    None = None
    Roles <- MCRoles
    MarketCells <- MCMarketCells
    SideFeatures <- MCSideFeatures
    FeatureTypes <- MCFeatureTypes
    Archived <- MCArchived
    Arriving <- MCArriving
    Requests <- MCRequests
    MaxFiles = 6
    MaxCrashes = 1
    Revisions <- MCRevisions
    Configs <- MCConfigs
    Scopes <- MCScopes
    Classes <- MCClasses
    Minimum <- MCMinimum
    Version = 1
    FitClaims <- MCFitClaims
    MaxReports = 1
    Families <- MCFamilies
    Contracts <- MCContracts
    Boundaries <- MCBoundaries
    Payloads <- MCPayloads
    Bindings <- MCBindings
    MetricRows <- MCMetricRows
    MaxArtifacts = 2
    MaxKept = 3
INVARIANTS
    ManifestsAreSound
    SamplesAreAsOf
    FoldsAreSeparated
    FittingIsSound
PROPERTIES
    BuildsComplete
CONSTRAINTS FittingBounds DatasetBounds
CHECK_DEADLOCK FALSE
