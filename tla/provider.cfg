SPECIFICATION Spec
CONSTANTS
    Symbols <- TwoSymbols
    Lifetime = 2
    SavedLifetime = 2
    Margin = 1
    Patience = 1
    MaxClock = 4
    MaxCandles = 2
    MaxStarts = 2
    None = None
INVARIANTS FirstRequestAuthorised CandlesOnceInOrder
PROPERTIES KeepsAsking EndTogether
CHECK_DEADLOCK FALSE
