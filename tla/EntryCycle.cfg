SPECIFICATION DaySpec
CONSTANTS
    Symbols <- SymbolSet
    Sizes <- AnySize
    Marks <- AnyMark
    MaxOpen = 2
    ExposurePct = 100
    MinNotional = 1
    LossPct = 25
    Risk = 1
    MaxSameSide = 1
    MaxPerCluster = 1
    NetPct = 0
    ClusterMaps <- Maps
    NoCluster = NoCluster
    NoTrade = NoTrade
    MaxBalance = 4
    MaxGain = 0
    Coins = {s1, s2}
    Profits <- MCProfits
    Fee = 1
    Initial = 20
    Targets = {10, 20}
    Giveback = TRUE
    ArmPct = 5
    Keep = 2
    Of = 3
    Transfers <- MCTransfers
    NoPosition = NoPosition
    Unset = Unset
    MaxDay = 2
    MaxCycles = 3
    MaxSyncs = 1
SYMMETRY Interchangeable
INVARIANTS DayLossBounded FlatWhileLocked BankedWhatItSaw
PROPERTIES ClusterCap ExposureCap
CHECK_DEADLOCK FALSE
