SPECIFICATION StoreIndexSpec
CONSTANTS
    q1 = q1
    q2 = q2
    q3 = q3
    g1 = g1
    p1 = p1
    p2 = p2
    default = default
    Quad <- MCQuad
    Graph <- MCGraph
    Predicate <- MCPredicate
    GraphOf <- MCGraphOf
    PredOf <- MCPredOf
    DefaultGraph = default
    MaxGeneration = 5
    MaxUndo = 6
    w1 = w1
    w2 = w2
    a = a
    b = b
    none = none
    Worker <- MCWorker
    Quads <- MCQuad
    Geometry <- MCGeometry
    NoGeometry = none
    ObjectOf <- MCObjectOf
    Deletes = TRUE
    Mixed = TRUE
    Fails = TRUE
    Purges = TRUE
INVARIANT
    QueryFindsAll
