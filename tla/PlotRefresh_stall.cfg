CONSTANTS
    d1 = d1
    d2 = d2
    n1 = n1
    n2 = n2
    Absent = Absent
    NotLoaded = NotLoaded
    NoEntry = NoEntry
    Dirs <- MCDirs
    Names <- MCNames
    NoKeyNames <- MCNoKeyNames
    BatchSize <- MCBatchSize
    MaxClock <- MCMaxClockLive
    WriteKinds <- MCWriteKindsLive
SPECIFICATION Spec
PROPERTY RefreshCompletes
