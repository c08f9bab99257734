SPECIFICATION HolonSpec
CONSTANTS
    h1 = h1
    h2 = h2
    ta = ta
    tb = tb
    tc = tc
    apart = apart
    needs = needs
    HolonId <- MCPair
    Ruled = h1
    Triple <- MCTriple
    Shape <- MCShape
    Reads <- MCReads
    Violated <- MCViolated
    Closure <- MCClosure
    MaxVersion = 2
    MaxEvents = 3
    MaxDelta = 1
    TicksMayFail = TRUE
    Joins = TRUE
INVARIANT
    VersionsContinue
