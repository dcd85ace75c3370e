SPECIFICATION FairSpec
CONSTANTS
    DisplayQueueLength = 1
    IrqQueueLength = 1
    BootDraws = 2
    PanicDraws = 2
    MenuDraws = 1
INVARIANTS TypeOK GuestStaysDown TimerNotStranded
PROPERTIES ProgrammedAsSent PanicScreenDrawn
CHECK_DEADLOCK FALSE
