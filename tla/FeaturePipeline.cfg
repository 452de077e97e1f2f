SPECIFICATION PipelineSpec
CONSTANTS
    Matches = {"m1", "m2", "m3"}
    None = None
    Schemas <- MCSchemas
    Adapters <- MCAdapters
    BundleInputs <- MCBundleInputs
    AssemblyRequests <- MCAssemblyRequests
    Offers <- MCOffers
    Targets <- MCTargets
    Teams = {"home", "away"}
    Minimum <- MCMinimum
    MaxMatches = 1
    Mappings = {"map"}
    Quotes <- MCQuotes
    Boundaries <- MCBoundaries
    SealedBundles <- MCSealedBundles
    Statistics <- MCStatistics
    ContextSets <- MCContextSets
    TacticalSets <- MCTacticalSets
    AssessmentSets <- MCAssessmentSets
    MaxRevision = 2
INVARIANTS
    HandoffsCountTheFeatures
    
    ProfilesRestOnPrecutoffMoves
    EligibleIsSound
PROPERTY EnginesAreLogs
CONSTRAINT PipelineBounds
CHECK_DEADLOCK FALSE
