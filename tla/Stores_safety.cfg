CONSTANTS
    d1 = d1
    d2 = d2
    n1 = n1
    n2 = n2
    Absent = Absent
    NotLoaded = NotLoaded
    NoEntry = NoEntry
    c1 = c1
    c2 = c2
    ch1 = ch1
    o1 = o1
    o2 = o2
    t1 = t1
    t2 = t2
    NoRec = NoRec
    NoTx = NoTx
    gLo = gLo
    gHi = gHi
SPECIFICATION Spec
SYMMETRY DirSymmetry
CHECK_DEADLOCK FALSE
INVARIANT TypeOK
INVARIANT LTypeOK
INVARIANT OneLoadedCopyPerName
INVARIANT LoadedIsRecorded
INVARIANT CoinsMatchChain
INVARIANT TxStatusMatchesChain
INVARIANT RewardsRecognisedExactly
