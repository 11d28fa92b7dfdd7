SPECIFICATION StrategySpec
CONSTANTS
    main = main
    other = other
    call = call
    later = later
    put = put
    NoMark = NoMark
    NoBar = NoBar
    NoQuote = NoQuote
    None = None
    Instruments = {main, other}
    Universe = {main, other}
    Symbol = main
    FirstSymbol = other
    Multiplier <- UnitMultiplier
    InitialCash = 340
    MinPrice = 0
    MaxPrice = 256
    Prices = {}
    Quantities = {}
    Fees = {}
    MaxQty = 2
    MaxFeesPaid = 0
    InstrumentType = "equity"
    FillTiming = "next_bar_open"
    AssignmentModel = "cash"
    Strike <- Strikes
    Expiry <- Expiries
    Right <- ByName
    TickSize = 32
    DefaultTick = 32
    SpreadPart = 16
    PerContract <- OneAContract
    PerOrder <- NoFees
    FeePart <- NoFees
    Lookback = 3
    BarShapes <- RisingBars
    QuotePairs = {}
    Gaps = TRUE
    OrderShapes <- EquityOrders
    MaxBars = 4
    MaxOrders = 2
    MaPeriod = 2
    TrailingStopTicks = 2
    Qty = 1
    Direction = "BUY"
    RiskPart = 3
    MaxContracts = 2
    Month <- Clock
    SharesPerContract = 2
    DteTarget = 1
    DteSlack = 1
    Contract = None
    StrikeRule = "atm"
    Band <- Bands
    DayOf <- OneDay
    TimeOfDay <- Clock
    SessionStart = 0
    SessionEnd = 5
    OrBars = 1
    MinRangeTicks = 1
    MaxRangeTicks = 10
    AnySteps = 2
    StrategyNames = {"tactical_asset_allocation", "trend_entry_trailing_stop", "buy_and_hold_underlying"}
INVARIANTS LongOnly IdsTellOrdersApart
