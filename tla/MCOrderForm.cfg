SPECIFICATION FairSpec
CONSTANTS
    Prices <- FewPrices
    Quantities <- FewQuantities
    MaxPresses = 3
INVARIANT SuccessMeansTaken
INVARIANT MessageTellsLast
INVARIANT OncePerPress
PROPERTY FormAnswers
