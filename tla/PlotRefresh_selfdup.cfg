CONSTANTS
    d1 = d1
    d2 = d2
    n1 = n1
    n2 = n2
    Absent = Absent
    NotLoaded = NotLoaded
    NoEntry = NoEntry
    Dirs <- MCDirs
    Names <- MCNames
    NoKeyNames <- MCNoKeyNames
    BatchSize <- MCBatchSize
    MaxClock <- MCMaxClock
    WriteKinds <- MCWriteKinds
SPECIFICATION Spec
SYMMETRY DirSymmetry
INVARIANT NoSelfDuplicate
