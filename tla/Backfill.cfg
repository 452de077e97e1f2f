SPECIFICATION BackfillSpec
CONSTANTS
    Stagers = {w1, w2}
    Names <- MCNames
    SafeNames <- MCSafeNames
    Packages <- MCPackages
    RawFiles <- MCRawFiles
    Handoffs <- MCHandoffs
    Unknown = Unknown
    ProjectRoot <- MCRoot
    MaxStagings = 2
    Inventory <- MCInventory
    Grids <- MCGrids
    Profiles <- MCProfiles
    Tolerance = 1
    MinBar = 2
    Sources <- MCSources
    Screens = 3
    Expected <- MCExpected
    ExpectedUnavailable = 0
    None = None
    Garbled = Garbled
    Engines <- MCEngines
    Passes = {p1, p2}
    Texts <- MCTexts
    Workers = 2
    Limits = {0, 1}
    OcrOutputs = {o1}
    ReviewPackages = {k1}
    Imports = {i1}
    Answers <- MCAnswers
    MaxAnswers = 2
    Bindings <- MCBindings
    Replies <- MCReplies
    Kinds = {"no provider", "runner", "adapter"}
    MaxBatches = 2
    ByteSize = 4
    Channels = 1
    Images <- MCImages
    Transforms <- MCTransforms
    Radius = 1
    Bias = 1
INVARIANTS
    ReportedIsWhole
    CellsAreAccounted
    NoCellIsHidden
    ImagesAreRead
CHECK_DEADLOCK FALSE
