SPECIFICATION FairSpec
CONSTANTS
    Null = Null
    r1 = r1 r2 = r2 r3 = r3 z1 = z1 z2 = z2 s1 = s1 s2 = s2 bad = bad
    RomA = RomA Ram = Ram RamB = RamB SysRom = SysRom
    fr1 = fr1 fr2 = fr2 fa1 = fa1 fa2 = fa2 fa3 = fa3 sector = sector
    NumSlots = 2
    SegOrder <- FourSegments
    NumPaged = 3
    RomPages = {r1}
    ZramPages = {z2}
    SwapPages = {s1, s2}
    BadPages = {}
    CodePages = {r1}
    FlushPages = {s1}
    SegOf <- MCSegOf
    SectorOf <- MCSectorOf
    RomOrder <- RomFrames2
    RamOrder <- RamFrames2
    Vals = {v0, v1}
    Zero = v0
    Undef = Undef
    ZramBlocks = 1
    MaxBlocks = 1
    FailOps = {"READ", "WRITE"}
INVARIANTS
    TypeOK
    DirtyIffWritable
    CleanIsSaved
    FaultIsCurrent
    SlotsDistinct
PROPERTIES
    ImplementsGuestMemory
    AccessCompletes
