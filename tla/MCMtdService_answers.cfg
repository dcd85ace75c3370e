SPECIFICATION Spec
CONSTANTS
    c1 = c1
    c2 = c2
    p1 = p1
    p2 = p2
    b1 = b1
    d1 = d1
    Empty = Empty
    Torn = Torn
    NoRequest = NoRequest
    NoReply = NoReply
    NoNotice = NoNotice
    NoOpa = NoOpa
    Clients <- MCClients
    Asked <- Everything
    Pages <- MCPages
    Blocks <- MCBlocks
    BlockOf <- MCBlockOf
    Data <- MCData
    QueueLen = 1
    MaxRetry = 5
    MaxLost = 1
    FailOps = {}
PROPERTY ImplementsFlashStore
