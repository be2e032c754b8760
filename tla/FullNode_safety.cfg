CONSTANTS
    p1 = p1
    p2 = p2
    tx1 = tx1
    k1 = k1
    k2 = k2
    ub1 = ub1
    NoPeer = NoPeer
    h1 = h1
    h2 = h2
    h3 = h3
    h4 = h4
    h5 = h5
    n1 = n1
    n2 = n2
    n3 = n3
    w1 = w1
    w2 = w2
    t1 = t1
    t2 = t2
    t3 = t3
SPECIFICATION Spec
INVARIANT TxTypeOK
INVARIANT NoOrphanMarker
INVARIANT OneClearPerMark
INVARIANT VdfTypeOK
INVARIANT PermitConservation
INVARIANT NoIdlePermitWhileWaiting
INVARIANT OneHandlerPerName
INVARIANT CacheBounded
PROPERTY TaskTerminates
PROPERTY MarkExpires
PROPERTY WaitersMakeProgress
PROPERTY WaitersReleased
