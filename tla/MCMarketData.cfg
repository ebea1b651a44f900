SPECIFICATION MarketSpec
CONSTANTS
    o1 = o1
    o2 = o2
    o3 = o3
    o4 = o4
    Nobody = Nobody
    OrderIds <- FourOrders
    Terms <- SpreadTerms
    MaxBatch = 2
    Grain = 1
    VolumeWindow = 2
    MockTotal = 45000
    GridStep = 3
    Margin = 6
INVARIANT BookReplySound
INVARIANT DepthReplySound
INVARIANT ChartShowsAll
INVARIANT ChartSourcesAgree
INVARIANT VolumeReplyAddsUp
PROPERTY MadeUpOnlyAtFirst
SYMMETRY Symmetric
