SPECIFICATION PipelineSpec
CONSTANTS
    o1 = o1
    o2 = o2
    o3 = o3
    Nobody = Nobody
    OrderIds <- ThreeOrders
    Terms <- CrossingTerms
    MaxBatch = 1
    Grain = 1
    VolumeWindow = 24
    Keys = 1
    MaxRetries = 2
SYMMETRY Symmetric
CHECK_DEADLOCK FALSE
INVARIANT FillsDelivered
INVARIANT FillsSettledOnce
PROPERTY ChainFollowsSettlement
