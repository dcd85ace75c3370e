SPECIFICATION Spec
CONSTANTS
    t1 = t1
    t2 = t2
    timer = timer
    usb = usb
    NoFrame = NoFrame
    Tasks <- MCTasks
    Senders <- MCSenders
    NumPoints = 3
    MaxNesting = 2
    QueueLen = 1
INVARIANTS
    TypeOK
    ContextsNested
    FramesInPlace
    MaskFollowsNesting
    CriticalSectionUninterrupted
PROPERTIES
    ImplementsGuestTasks
