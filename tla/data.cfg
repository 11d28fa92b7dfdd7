SPECIFICATION DataSpec
CONSTANTS
    call = call
    put = put
    odd = odd
    share = share
    None = None
    Sessions <- Calendar
    Hour = 2
    Day = 10
    RunConfigs <- Configs
    BarFiles <- Files
    QuoteFiles <- Quoted
    Contracts = {call, put, odd, share}
    Indexed = {call, put}
    Share = share
    Expiry <- Expiries
    Strike <- Strikes
    Spot <- Spots
    Band <- Bands
INVARIANTS AnsweredAsOf NoLookahead StepsAreBarEnds
