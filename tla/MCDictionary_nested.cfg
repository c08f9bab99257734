SPECIFICATION DictionarySpec
CONSTANTS
    short = short
    long1 = long1
    long2 = long2
    nested = nested
    h = h
    Leaf <- MCLeaf
    Triple <- MCTriple
    Parts <- MCParts
    Long <- MCLong
    Hash <- MCHash
    MaxId = 4
    WritesMayFail = TRUE
    RepeatsOutside = TRUE
    CollisionsInFlight = FALSE
INVARIANTS
    RoundTrip
