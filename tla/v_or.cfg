SPECIFICATION StrategiesSpec
CONSTANTS
    NumStrategies = 2
    Keys <- Keyed
    MaxPerStrategy = 2
    Lifetimes = {1}
    Times = {1, 2, 3, 5, 6}
    AnyTimes = {1, 2}
    MaxNew = 2
    MaxRounds = 3
    ConfigFiles <- OneStrategy
    None = None
    DefaultSymbol = "ES"
    Symbols = {"ES", "NQ"}
    Specs = {"ES", "NQ"}
    WindowSize = 4
    Shapes <- BarShapes
    DummyLifetime = 1
    ServiceAnswers <- AnswersOfService
    DayOf <- Days
    TimeOfDay <- TimesOfDay
    SessionStart = 0
    SessionEnd = 3
    SessionEndOn <- Closes
    Tick = 1
    MinRangeTicks = 3
    MaxRangeTicks = 4
    BarRounds = 4
INVARIANT RangeIsTodays
