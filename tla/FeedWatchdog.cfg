SPECIFICATION FairSpec
CONSTANTS
    Symbols <- OneSymbol
    TF <- TwoFrames
    BarLen <- BarTicks
    Signal = "1h"
    AlertGrace = 0
    HaltGrace = 1
    GuardBars = 3
    Cap = 5
    MaxRestarts = 1
PROPERTIES NoEntryOnDeadFeed DeadFeedIsReported RecoversWhileManaging
