SPECIFICATION FairSpec
CONSTANTS
    Symbols <- OneSymbol
    MaxTrades = 2
    MaxCrashes = 1
    OrderFaults = TRUE
PROPERTIES NothingGoesUnnoticed NakedIsHandled
