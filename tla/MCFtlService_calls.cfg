SPECIFICATION FairSpec
CONSTANTS
    s1 = s1
    s2 = s2
    d1 = d1
    Sectors = {s1, s2}
    Data = {d1}
    Blank = Blank
    Served = {s1}
    QueueLength = 2
    NoRequest = NoRequest
    NoReply = NoReply
INVARIANTS TypeOK MapExclusive RequestsAccounted
PROPERTIES ImplementsSectorStore EveryCallReturns
