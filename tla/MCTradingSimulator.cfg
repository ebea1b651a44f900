SPECIFICATION FairSpec
CONSTANTS
    s1 = s1
    s2 = s2
    Slots <- TwoSlots
    MaxOrders = 5
    MaxStarts = 3
CHECK_DEADLOCK FALSE
INVARIANT IntervalKept
INVARIANT ButtonTellsRunning
PROPERTY QuietAfterStop
PROPERTY RunningPosts
