CONSTANTS
    MaxMessage = 16383
    Characters = {45, 48, 49, 50, 56, 57, 65}
    IntBits = 8
    MaxNumLength = 4
    Items <- MCItems
    HashOf <- MCHashOf
    InitialBuckets = 1
    ResizeRatio = 1
    IncreaseSizeBy = 2
    NumBits = 5
    BitsInWord = 3
    SectorsPerTrack = 4
    NumTracks = 3
    RotationTime = 3
    SeekTime = 2
    MaxTicks = 60
    FileNames = {"a", "b", "c"}
    NumSectors = 11
    SectorSize = 2
    NumDirEntries = 3
    Split = 1
    FileSizes = {1, 3}
    Bytes <- MCBytes
    MaxStops = 1
    MaxOperations = 6
SPECIFICATION Spec
CHECK_DEADLOCK FALSE
INVARIANTS
    Reassembled
    ContainersExact
    LatencyRight
    ArithmeticExact
    NumeralsExact
    FilesIntact
