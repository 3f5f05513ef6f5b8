\* Five volumes, one read that goes wrong.
SPECIFICATION FairSpec
CONSTANTS
    Images <- Volumes
    Garbage <- Junk
    WordsBehind <- Words
    EntriesPerSector = 2
    SectorsPerCluster = 2
    RootSector = 3
    RootSectors = 2
    MaxFaults = 1
    MaxSectors = 12
    MaxDepth = 6
INVARIANTS WriteSuccess ListsTheTree OnlyDirectories
PROPERTIES WalkEnds
