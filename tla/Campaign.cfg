CONSTANTS
    Symbols = {s1, s2}
    Minute = 3
    DayUnits = 9
    ResearchEnd = 4
    SelectionEnd = 6
    RobustnessEnd = 8
    ScreenStart = 2
    ScreenEnd = 4
    Dates <- MCDates
    Warmup = 9
    Holding = 6
    Latency = 2
    Candidates <- MCCandidates
    Markets <- MCMarkets
    Default <- MCDefault
    Lists <- MCLists
    MaxIntents = 2
    Books <- MCBooks
    Trials = 3
    MinTrades = 4
    MinSymbolTrades = 2
    MinSideTrades = 2
    MinEarners = 2
    MinDays = 2
    MaxDrawdown = 3
SPECIFICATION CampaignSpec
INVARIANTS EmbargoCoversOutcomes NoLookIsWasted SelectionIsBest
CHECK_DEADLOCK FALSE
