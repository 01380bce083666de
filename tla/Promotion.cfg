\* Two folds, five final and three inner registries, one replacement.
SPECIFICATION Spec
CONSTANTS
  Plans <- MCPlans
  Contents <- MCContents
  Paths = {p1, p2}
  FinalFile = final
  Month = 2
  Day = 2
  FinalInventory <- MCFinal
  NestedInventory <- MCNested
  Floor = 1
  Freezings = {6, 8, 14}
  MaxTampers = 1
INVARIANTS
  JudgedDaysAreFresh
  ChoicesFollowTheRule
  OneCandidate
CHECK_DEADLOCK FALSE
