SPECIFICATION ServedSpec
CONSTANTS
    q1 = q1
    q2 = q2
    q3 = q3
    g1 = g1
    p1 = p1
    p2 = p2
    default = default
    none = none
    Quad <- MCQuad
    Graph <- MCGraph
    Predicate <- MCPredicate
    GraphOf <- MCGraphOf
    PredOf <- MCPredOf
    DefaultGraph = default
    NoGraph = none
    Word = 5
    MaxScopeOps = 26
    MaxGeneration = 3
    ErrorsSwallowed = FALSE
    d = d
    secret = secret
    noted = noted
    fixed = fixed
    g = g
    unnamed = unnamed
    owner = owner
    guest = guest
    auditor = auditor
    Statement <- MCStatement
    NamedGraph <- MCNamedGraph
    HomeOf <- MCHomeOf
    HomeDefault = unnamed
    Session <- MCSession
    Readable <- MCReadable
    Writable <- MCWritable
    Strict <- MCStrict
    MaxOps = 2
    MaxQuads = 2
INVARIANTS
    IndexesAgree
    ScanExact
    StoredCountsExact
    CountersExact
    SnapshotTruthful
    AllOrNothing
    SuccessMeansDone
    WithinPolicy
PROPERTIES
    GenerationMoves
    ImplementsStorage
