SPECIFICATION Spec
CONSTANTS
    b1 = b1
    b2 = b2
    b3 = b3
    r1 = r1
    r2 = r2
    Batches <- TwoBatches
    Retriers <- TwoRetriers
    MaxRetries = 1
    Replaces = FALSE
    Drops = FALSE
    Clears = FALSE
    Crashes = FALSE
CHECK_DEADLOCK FALSE
INVARIANT NoBatchLost
SYMMETRY Symmetric
