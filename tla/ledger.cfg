SPECIFICATION ReportSpec
CONSTANTS
    share = share
    call = call
    Instruments = {share, call}
    Multiplier <- MCMultiplier
    InitialCash = 100
    MinPrice = 0
    MaxPrice = 12
    Prices = {4, 12}
    MarkPrices = {4, 12}
    Quantities = {1, 2}
    Fees = {2}
    MaxQty = 2
    MaxFeesPaid = 6
    MaxEvents = 4
    NoMark = NoMark
    None = None
INVARIANTS AttributionReconciles EquityReconciles RoundTripsAgree ReportAddsUp DrawdownsAgree
PROPERTIES RealizedOnlyOnClose
