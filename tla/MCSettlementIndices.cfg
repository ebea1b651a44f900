SPECIFICATION Spec
CONSTANTS
    ordered = ordered
    misordered = misordered
    uniform = uniform
    matched = matched
    Roots <- AllRoots
    Leaves <- Contents
    OrderLeaves <- RootsOfOrders
    Orders <- AllOrders
    MaxBlock = 2
    MaxIndex = 1
    SigLengths <- Lengths
INVARIANT DisputedBatchesMisordered
