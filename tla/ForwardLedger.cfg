CONSTANTS
    Collector = c1
    Operator = o1
    Processes = {c1, o1}
    Commands <- EveryCommand
    SymbolCount = 2
    Contents = {"up", "down"}
    Official <- Archives
    Lines <- SubmittedLines
    Ranges <- DaysAskedFor
    DayLength = 2
    LastDay = 2
    BlindStart = 2
    Window = 2
    DecisionPeriod = 2
    Signals <- Turns
    MaxFailures = 1
    None = None
SPECIFICATION FairSpec
INVARIANTS LedgerVerifies AlarmMeansOverlap
PROPERTIES ImplementsObservationLog CatchesUp
CHECK_DEADLOCK FALSE
