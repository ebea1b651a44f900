SPECIFICATION FairSpec
CONSTANTS
    o1 = o1
    o2 = o2
    o3 = o3
    o4 = o4
    Nobody = Nobody
    OrderIds <- FourOrders
    Terms <- SomeTerms
    MaxBatch = 2
    Grain = 3
    VolumeWindow = 2
CHECK_DEADLOCK FALSE
INVARIANT TypeOK
INVARIANT AlwaysCrosses
INVARIANT PriorityKept
INVARIANT NoFillTwice
INVARIANT AmountsConserved
INVARIANT VolumeAccounts
PROPERTY RequestsServed
