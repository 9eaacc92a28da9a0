SPECIFICATION Spec
CONSTANTS
    Machines = {"replay"}
    None = None
    NoData = NoData
    Blank = Blank
    NoTicket = None
    NoSample = NoData
    Rulebooks <- MCConfigs
    Venues <- MCMarkets
    Ideas <- MCSignals
    Portions = {40, 100}
    Purses = {100000}
    TicketBound = 3
    RenewalBound = 2
    NoFigure = None
    RowShapes <- MCShades
    Hopefuls <- MCCandidates
    LabelViews <- MCLabelViews
    CoinResults <- MCCoinResults
    KnownSetups <- MCKnownSetups
    SoftFrom = 2
    RiskFrom = 3
    ProfileFrom = 2
    LabelFrom = 2
    TightStop = 30
    WideStop = 400
    RoundTrip = 20
    FirstTarget = 150
    RowsAtMost = 3
    RowsLabelled = 2
    ClosesPerCoin = 2
    CloseShapes <- MCCloses
    SlotLimit = 1
    FirstBalance = 200
    DayLossPct = 3
    GradesFrom = 1
    ReportsAtMost = 3
    NoValue = None
    PriceUnit = 192
    Periods <- MCPeriods
    Shapes <- MCShapes
    Histories <- MCHistories
    HtfViews <- MCHtfViews
    Settings <- MCSettings
    Asset = "BTC"
    SignalBars = 8
    RowLegs = {"fast", "slow"}
    BarsOf <- MCBarsOf
    BelowFloor = {"slow"}
    CostR = 2
    RewardR = 15
    ExpiryR = {0}
    RowBars = 2
    SoftStage = 1
    RiskStage = 2
    RowEpochs = {1, 2}
    RowTouches <- MCTouches
    LastClock = 3
    RowBound = 2
    NoGate = None
    OnExchange <- MCListed
    ForcedIn <- MCForced
    KeptOut = {"c"}
    UniverseSize = 2
    PerScan = 2
    ScanFinds <- MCScanFinds
    ScanMarkets <- MCBooks
    ReferenceSize = 60
    SlipCap = 5
    TradeHours = {0, 2}
    RestTime = 2
    RiskRefusals = {"no_free_margin"}
    SlotBound = 2
    OtherCaps = {"cluster"}
    PlanCaps = {1}
    GateStyles <- MCStyles
    BarTime = 3
    LastMinute = 2
    DealsAtMost = 2
    TableAtMost = 2
    NoRead = None
    Sample <- MCSample
    Shows <- AllReadings
    KnownLegs = {"ichimoku"}
    PriorOf <- MCPriors
    CellsOf <- MCCells
    CellsFrom = 150
    TiltStrength = 35
    DimsOn = {"trend", "vol", "breadth", "corr", "liq"}
    ConfirmBars = 2
    LowestConf = 35
    PersistTarget = 3
    CorrPenalty = 50
    TradesAtMost = 2
    Signalled = {"a", "d"}
    SidesOf = {"LONG"}
    Shares = {100}
    ReadEvery = 1
    FirstBar = 1
    Absent = None
    NoRecord = None
    Universe <- MCUniverse
    Listings <- MCListings
    EnvGates <- MCEnvGates
    Day = 2
    Offset = 1
    Quiet <- MCQuiet
    Week = 2
    ReportFrom = 1
    DigestEvery = 2
    Levels = {1, 2}
    LossCap = 2
    Target = 2
    Headroom = 25
    Worlds <- MCWorlds
    RowMarks <- MCRows
    DayPnls <- MCPnls
    MaxHour = 3
    Found <- MCFound
    Example <- ExampleFile
    Requests <- MCRequests
    FastBlock <- MCFastBlock
    SessionBlock <- MCSessionBlock
    AllowedKeys <- MCAllowedKeys
    Profile <- Balanced
    MaxRuns = 2
    MaxSecond = 2
    Files <- MCFiles
    EpochLabels = {1, 2}
    StartMoney = 100
    DealPnls <- MCOutcomes
    MaxTime = 4
    MaxDeals = 2
    MaxShadows = 4
    FirstListed = 2
    BarHoles <- MCMissing
    Limit = 6
    Loaders <- MCLoaders
    PerCall = 3
    Pair <- MCPair
    Warmup = 2
    Oos = 2
    Stride = 2
    FrameRatio = 2
    MinHtf = 1
    OpenAtOnce = 1
    Pause = 1
    TradePnls <- MCGains
    Funding = 1
    Stake = 10
    Bar2 = 1
    LastBar = 9
    Kinds <- MCKinds
    Ttl = 2
    TimeStop = 0
    Horizon = 4
INVARIANT OutOfSample
CHECK_DEADLOCK FALSE
