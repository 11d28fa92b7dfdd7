SPECIFICATION BroadcastSpec
CONSTANTS
    a = a
    b = b
    Tasks <- MCTasks
    Conns = {a, b}
    MaxBatch <- QuoteOrBar
    MaxIssued <- TwoOfEach
INVARIANTS InOrder EveryoneTried OpenStaysRegistered
PROPERTIES GoneAreForgotten
