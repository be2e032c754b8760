CONSTANTS
    hv1 = hv1
    hv2 = hv2
    d1 = d1
    d2 = d2
    NoData = NoData
    Invalid = Invalid
    NoEntry = NoEntry
    Harvesters <- MCHarvesters
    Data <- MCData
    Interval <- MCInterval
    ExpiryFactor <- MCExpiryFactor
SPECIFICATION Spec
INVARIANT TypeOK
PROPERTY ResponsiveHarvesterCached
