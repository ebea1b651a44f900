SPECIFICATION FairSpec
CONSTANTS
    Slots <- TwoSlots
    MaxVersion = 2
    MaxFailures = 2
INVARIANT QuietPanelTrue
PROPERTY NoWayBack
PROPERTY SettlesOnMarket
PROPERTY OutageTold
