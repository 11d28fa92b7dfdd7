SPECIFICATION StrategySpec
CONSTANTS
    main = main
    other = other
    call = call
    later = later
    put = put
    NoMark = NoMark
    NoBar = NoBar
    NoQuote = NoQuote
    None = None
    Instruments = {main}
    Universe = {main}
    Symbol = main
    FirstSymbol = main
    Multiplier <- FutureMultiplier
    InitialCash = 800
    MinPrice = 0
    MaxPrice = 256
    Prices = {}
    Quantities = {}
    Fees = {}
    MaxQty = 2
    MaxFeesPaid = 0
    InstrumentType = "future"
    FillTiming = "next_bar_open"
    AssignmentModel = "cash"
    Strike <- Strikes
    Expiry <- Expiries
    Right <- ByName
    TickSize = 32
    DefaultTick = 32
    SpreadPart = 16
    PerContract <- OneAContract
    PerOrder <- NoFees
    FeePart <- NoFees
    Lookback = 4
    BarShapes <- FutureBars
    QuotePairs = {}
    Gaps = FALSE
    OrderShapes <- FutureOrders
    MaxBars = 6
    MaxOrders = 2
    MaPeriod = 1
    TrailingStopTicks = 4
    Qty = 1
    Direction = "BUY"
    RiskPart = 3
    MaxContracts = 2
    Month <- Clock
    SharesPerContract = 2
    DteTarget = 1
    DteSlack = 1
    Contract = None
    StrikeRule = "atm"
    Band <- Bands
    DayOf <- OneDay
    TimeOfDay <- Clock
    SessionStart = 1
    SessionEnd = 6
    OrBars = 2
    MinRangeTicks = 1
    MaxRangeTicks = 10
    AnySteps = 2
    StrategyNames = {"any", "trend_entry_trailing_stop", "trend_follow_risk_sized", "orb_5m"}
INVARIANTS NoRepeatInSight StopsGuardPositions
PROPERTIES NeverAddsToPosition ExitClosesPosition ExitAfterEntryBar WaterMarkOnlyTightens
