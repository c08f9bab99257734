SPECIFICATION EmbeddedSpec
CONSTANTS
    q1 = q1
    q2 = q2
    q3 = q3
    g1 = g1
    p1 = p1
    p2 = p2
    default = default
    Quad <- MCQuad
    Graph <- MCGraph
    Predicate <- MCPredicate
    GraphOf <- MCGraphOf
    PredOf <- MCPredOf
    DefaultGraph = default
    MaxGeneration = 5
    MaxUndo = 5
    w1 = w1
    w2 = w2
    a = a
    b = b
    none = none
    Worker <- MCWorker
    Quads <- MCQuad
    Geometry <- MCGeometry
    NoGeometry = none
    ObjectOf <- MCObjectOf
    Deletes = TRUE
    Mixed = TRUE
    Fails = TRUE
    Purges = TRUE
    Triples = {"a"}
    Names <- MCNames
    Batch = 2
    Queue = 1
    MaxDocument = 5
    Rows = 2
    MemoryLimit = 1
    Ceiling = 2
    Loaded = 0
    MaxOther = 1
INVARIANTS
    StoreConsistent
    QueryComplete
    LoadExact
    StoppedSaysWhy
    SuccessComplete
PROPERTIES
    ImplementsStorage
    IndexCatchesUp
    LoadReturns
    TimedQueryEnds
CHECK_DEADLOCK FALSE
