SPECIFICATION Spec
CONSTANTS
    c1 = c1
    c2 = c2
    p1 = p1
    p2 = p2
    b1 = b1
    d1 = d1
    Empty = Empty
    Torn = Torn
    NoRequest = NoRequest
    NoReply = NoReply
    NoNotice = NoNotice
    NoOpa = NoOpa
    Clients <- MCClients
    Asked <- Everything
    Pages <- MCPages
    Blocks <- MCBlocks
    BlockOf <- MCBlockOf
    Data <- MCData
    QueueLen = 2
    MaxRetry = 5
    MaxLost = 0
    FailOps = {"WRITE", "WRITE_META", "ERASE"}
PROPERTY FailuresAreReported
