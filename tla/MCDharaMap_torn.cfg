SPECIFICATION Spec
CONSTANTS
    NumBlocks = 8
    Ppb = 8
    Ppc = 4
    Depth = 2
    GcRatio = 3
    MaxRetries = 3
    Sectors <- Three
    d1 = d1
    d2 = d2
    Data = {d1, d2}
    Blank = Blank
    sys = sys
    ftl = ftl
    Workers = {ftl}
    Syncer = ftl
    Exclusive = TRUE
    Ops = {"read", "write", "trim", "sync", "clear"}
    NoRequest = NoRequest
    NoReply = NoReply
    Pasts <- Aged
    MaxOps = 3
    MaxCrashes = 1
PROPERTY RefusedOnlyWhenFull
CHECK_DEADLOCK FALSE
