SPECIFICATION StrategySpec
CONSTANTS
    main = main
    other = other
    call = call
    later = later
    put = put
    NoMark = NoMark
    NoBar = NoBar
    NoQuote = NoQuote
    None = None
    Instruments = {main, call, later, put}
    Universe = {main}
    Symbol = main
    FirstSymbol = main
    Multiplier <- OptionMultiplier
    InitialCash = 800
    MinPrice = 0
    MaxPrice = 256
    Prices = {}
    Quantities = {}
    Fees = {}
    MaxQty = 2
    MaxFeesPaid = 0
    InstrumentType = "option"
    FillTiming = "same_bar_close"
    AssignmentModel = "physical"
    Strike <- Strikes
    Expiry <- Expiries
    Right <- ByName
    TickSize = 32
    DefaultTick = 32
    SpreadPart = 16
    PerContract <- OneAContract
    PerOrder <- NoFees
    FeePart <- A16th
    Lookback = 2
    BarShapes <- OptionBars
    QuotePairs <- OptionQuotes
    Gaps = TRUE
    OrderShapes <- OptionOrders
    MaxBars = 4
    MaxOrders = 2
    MaPeriod = 2
    TrailingStopTicks = 2
    Qty = 1
    Direction = "BUY"
    RiskPart = 3
    MaxContracts = 2
    Month <- Clock
    SharesPerContract = 2
    DteTarget = 1
    DteSlack = 1
    Contract = call
    StrikeRule = "atm"
    Band <- Bands
    DayOf <- OneDay
    TimeOfDay <- Clock
    SessionStart = 0
    SessionEnd = 5
    OrBars = 1
    MinRangeTicks = 1
    MaxRangeTicks = 10
    AnySteps = 2
    StrategyNames = {"any", "covered_call", "buy_and_hold"}
INVARIANTS CallsCovered ExpiredAreSettled FillsHaveEvents
PROPERTIES AssignmentNeverShortsShares
