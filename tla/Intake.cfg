\* The intake stores, the time gate and the packets over them.
SPECIFICATION MCSpec
CONSTANTS
    None = None
    Invalid = Invalid
    Default = Default
    MatchObservations <- MCMatchObservations
    BusinessKeys = {"001", "002"}
    Pairings = {"home-away", "away-home", "third-fourth"}
    Zones = {"Asia/Shanghai", "Europe/London"}
    Sources = {"official", "importer"}
    Times <- MCTimes
    FactObservations <- MCFactObservations
    FactTypes = {"odds"}
    IdempotencyKeys = {"a", "b", "c", "d", "e", "f", "g"}
    TimeRequests <- AllRequests
    Packets <- MCPackets
    Observed <- MCMatchObservations
    Reported <- MCFactObservations
    Requested <- GateRequested
INVARIANTS
    OneMatchPerFixture
    AliasesAgree
    PrematchIsKnownAtCutoff
    AcceptedIsPrematch
PROPERTIES
    ImplementsFactLog
CONSTRAINT OneDecision
