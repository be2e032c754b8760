CONSTANTS
    x1 = x1
    x2 = x2
    pl1 = pl1
    pl2 = pl2
    pay1 = pay1
    pay2 = pay2
    NoPayout = NoPayout
SPECIFICATION Spec
INVARIANT SubSlotTypeOK
INVARIANT PoolTypeOK
PROPERTY ReplayNeverRejected
PROPERTY CatchUp
PROPERTY PayoutEventuallyMatches
