SPECIFICATION Spec
CONSTANTS
    Bases <- MCBases
    Rests <- MCRests
    NoDot = NoDot
    Head8 <- MCHead8
    Head3 <- MCHead3
    NumFats = 2
    FatSize = 8
    EntriesPerFatSector = 3
    LastCluster = 6
    SectorsPerCluster = 2
    SlotsPerSector = 2
    RootCluster = 2
    FatImage <- MCFat
    DirImage <- MCDir
    Typed <- MCTyped
    Faults = {"refuse", "drop"}
INVARIANTS
    TypeOK
    LinkedAllocated
    NoCrossLink
    DirsInitialised
    NoEntryPastEnd
    MirrorLag
    InFlight
PROPERTIES
    OkMeansWritten
    AllocatedKept
    CallReturns
