\* A row that ingest retains before it raises.
SPECIFICATION MCSpec
CONSTANTS
    None = None
    Invalid = Invalid
    Default = Default
    MatchObservations <- MCMatchObservations
    BusinessKeys = {"001", "002"}
    Pairings = {"home-away", "away-home", "third-fourth"}
    Zones = {"Asia/Shanghai", "Europe/London"}
    Sources = {"official", "importer"}
    Times <- MCTimes
    FactObservations <- MCFactObservations
    FactTypes = {"odds"}
    IdempotencyKeys = {"a", "b", "c", "d", "e", "f", "g"}
    TimeRequests <- AllRequests
    Packets <- MCPackets
    Observed <- MCMatchObservations
    Reported <- MCFactObservations
    Requested <- GateRequested
INVARIANT ObservationsAreAudited
CONSTRAINT OneDecision
