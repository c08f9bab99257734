SPECIFICATION UpdateSpec
CONSTANTS
    d = d
    secret = secret
    noted = noted
    fixed = fixed
    g = g
    unnamed = unnamed
    owner = owner
    guest = guest
    auditor = auditor
    Statement <- MCStatement
    NamedGraph <- MCNamedGraph
    HomeOf <- MCHomeOf
    HomeDefault = unnamed
    Session <- MCSession
    Readable <- MCReadable
    Writable <- MCWritable
    Strict <- MCStrict
    MaxOps = 2
    MaxQuads = 2
INVARIANT RefusalsReported
