SPECIFICATION VfsSpec
CONSTANTS
    Bases <- MCBases
    Rests <- MCRests
    NoDot = NoDot
    Head8 <- MCHead8
    Head3 <- MCHead3
    NumFats = 1
    FatSize = 11
    EntriesPerFatSector = 11
    LastCluster = 10
    SectorsPerCluster = 2
    SlotsPerSector = 3
    RootCluster = 2
    FatImage <- SmallFat
    DirImage <- HostVolume
    Typed <- MCTyped
    Faults = {}
    System <- MCSystem
    Personal <- MCSystem
    Tmp <- MCSystem
    CdPaths <- MCCdPaths
    FilePaths <- MCFilePaths
    CatNames <- MCCatNames
    HostSize <- MCHostSize
    Disks = {"fat32"}
    MaxDepth = 4
    MaxBoots = 1
INVARIANT
    NoReservedCluster
