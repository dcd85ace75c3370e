SPECIFICATION Spec
CONSTANTS
    t1 = t1
    t2 = t2
    timer = timer
    usb = usb
    NoFrame = NoFrame
    Tasks <- MCTasks
    Senders <- MCSenders
    NumPoints = 2
    MaxNesting = 2
    QueueLen = 1
INVARIANTS
    NestingIsStacked
