SPECIFICATION ObserverSpec
CONSTANTS
    NumStrategies = 1
    Keys = {"long", "short"}
    MaxPerStrategy = 2
    Lifetimes = {1}
    Times = {0}
    MaxNew = 1
    MaxRounds = 2
    WindowSize = 3
    MaxEvents = 3
    MaxClock = 1
    MaxOpens = 1
    None = None
INVARIANTS QuoteCurrent BarsComplete ActiveShown
