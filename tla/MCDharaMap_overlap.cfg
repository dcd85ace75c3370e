SPECIFICATION Spec
CONSTANTS
    NumBlocks = 8
    Ppb = 8
    Ppc = 4
    Depth = 2
    GcRatio = 3
    MaxRetries = 3
    Sectors <- Three
    d1 = d1
    d2 = d2
    Data = {d1, d2}
    Blank = Blank
    Workers = {ftl, sys}
    sys = sys
    ftl = ftl
    Syncer = sys
    Exclusive = FALSE
    Ops = {"write", "sync"}
    NoRequest = NoRequest
    NoReply = NoReply
    Pasts <- Aged
    MaxOps = 5
    MaxCrashes = 0
PROPERTY SyncIsDurable
CHECK_DEADLOCK FALSE
