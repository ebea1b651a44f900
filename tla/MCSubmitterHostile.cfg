SPECIFICATION FairSpec
CONSTANTS
    b1 = b1
    b2 = b2
    b3 = b3
    r1 = r1
    r2 = r2
    Batches <- TwoBatches
    Retriers <- OneRetrier
    MaxRetries = 1
    Replaces = TRUE
    Drops = TRUE
    Clears = TRUE
    Crashes = TRUE
CHECK_DEADLOCK FALSE
INVARIANT SettledOnce
PROPERTY CallsReturn
