SPECIFICATION HolonicSpec
CONSTANTS
    h1 = h1
    h2 = h2
    ta = ta
    tb = tb
    tc = tc
    apart = apart
    needs = needs
    HolonId <- MCPair
    Ruled = h1
    Triple <- MCTriple
    Shape <- MCShape
    Reads <- MCReads
    Violated <- MCViolated
    Closure <- MCClosure
    MaxVersion = 2
    MaxEvents = 2
    MaxDelta = 1
    TicksMayFail = TRUE
    Joins = TRUE
    Schemas <- MCSchemas
    Quads <- MCQuads
    Alike <- MCAlike
    Filters <- MCFilters
    MaxDepth = 6
    MaxPathDepth = 4
    MaxExprDepth = 4
    MaxTriples = 30
    MaxChanges <- MCMaxChanges
    MaxPending <- MCMaxPending
    MaxRounds = 4
    Workers = {w1, w2}
    Graphs = {"g"}
    Requests <- MCRequests
    Configs <- MCConfigs
    MaxRequests = 3
    MaxSecond = 1
INVARIANTS
    OneEventPerVersion
    LogTellsScene
    BoundaryHolds
    BridgeInStep
    RunInStep
    OneState
    CreatedOnce
    DerivedCurrentAtRest
PROPERTIES
    ReportsAgree
    BoundedVerdict
    RevalidateCovers
    InferenceExact
CHECK_DEADLOCK FALSE
