SPECIFICATION DataPathSpec
CONSTANTS
    q1 = q1
    q2 = q2
    q3 = q3
    g = g
    m1 = m1
    m2 = m2
    Quad <- MCQuad
    Stores <- MCStores
    GraphOf <- MCGraphOf
    TripleOrders <- MCTripleOrders
    QuadOrders <- MCQuadOrders
    Merger <- MCMerger
    IngestLimit = 2
    FileRows = 1
    MaxInserts = 4
    MaxFailures = 1
    short = short
    long1 = long1
    long2 = long2
    nested = nested
    h = h
    Leaf <- MCLeaf
    Triple <- MCTriple
    Parts <- MCParts
    Long <- MCLong
    Hash <- MCHash
    MaxId = 3
    WritesMayFail = TRUE
    RepeatsOutside = FALSE
    CollisionsInFlight = FALSE
    Remote <- MCRemote
    MaxPushed = 2
    NothingIri <- MCNothing
    RowBudget = 6
    MayCancel = TRUE
    Cases <- MCCases
    Keys <- MCKeys
    Descending <- MCDescending
    Values = {1, 2}
    Budget = 2
    DiskLimits = {0, 3}
    Slices <- MCSlices
    MaxRows = 4
INVARIANTS
    SuccessMeansLoaded
    IdsKeepMeaning
    RoundTrip
    AnswerExact
    RewritesPreserve
    OperatorsExact
    ScratchGone
PROPERTIES
    CallsReturn
CHECK_DEADLOCK FALSE
