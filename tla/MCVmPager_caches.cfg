SPECIFICATION Spec
CONSTANTS
    Null = Null
    r1 = r1 r2 = r2 r3 = r3 z1 = z1 z2 = z2 s1 = s1 s2 = s2 bad = bad
    RomA = RomA Ram = Ram RamB = RamB SysRom = SysRom
    fr1 = fr1 fr2 = fr2 fa1 = fa1 fa2 = fa2 fa3 = fa3 sector = sector
    NumSlots = 4
    SegOrder <- FourSegments
    NumPaged = 3
    RomPages = {r1, r2, r3}
    ZramPages = {z1, z2}
    SwapPages = {s1, s2}
    BadPages = {bad}
    CodePages = {r1}
    FlushPages = {}
    SegOf <- OneRamSegment
    SectorOf <- MCSectorOf
    RomOrder <- RomFrames2
    RamOrder <- RamFrames3
    Vals = {v0}
    Zero = v0
    Undef = Undef
    ZramBlocks = 1
    MaxBlocks = 1
    FailOps = {}
INVARIANTS
    CacheCoherent
    ListsInOrder
    StaleTailIsWritable
SYMMETRY Alike
