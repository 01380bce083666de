CONSTANTS
  Supervisors = {s1, s2}
  Processes = {p1, p2, p3}
  Tracks = {"v4", "v5"}
  Batches = 1
  Group = 1
  MaxRuns = 3
SPECIFICATION Spec
INVARIANTS SecondWriterEscaped StrangerEscaped Remembered CompletedHasPublished
SYMMETRY Interchangeable
CHECK_DEADLOCK FALSE
