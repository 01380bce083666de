CONSTANTS
  Quarter = 4
  Phases <- MCPhases
  Window = 1
  Day = 4
  Symbols <- MCSymbols
  Months = 2
  MonthDays = 2
  Collectors = {c1, c2}
  Recoverers = {r1}
  Feeds <- MCFeeds
SPECIFICATION CollectionSpec
INVARIANTS LedgerIsReplay WindowsAreCausal GapsAreReproduced
SYMMETRY Interchangeable
CHECK_DEADLOCK FALSE
