SPECIFICATION Spec
CONSTANTS
  a = a
  b = b
  c = c
  Runs = {a, b, c}
  Watermark = 3
  Closed <- MCClosed
  Days = 1
  Trades = 2
  MaxEdits = 1
SYMMETRY Symmetry
INVARIANTS
  OneLookPerAttempt
  ForwardJudgesTheCounted
  EvidenceBelongsTogether
  BackupIsTheLedger
  ResultIsWhole
PROPERTIES
  PublishedIsFinal
CHECK_DEADLOCK FALSE
