SPECIFICATION Spec
CONSTANTS
    o1 = o1
    o2 = o2
    o3 = o3
    o4 = o4
    Nobody = Nobody
    OrderIds <- ThreeOrders
    Terms <- RisingTerms
    MaxBatch = 100
    Grain = 1
    VolumeWindow = 24
CHECK_DEADLOCK FALSE
INVARIANT FillsWithinAmounts
