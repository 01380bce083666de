CONSTANTS
    Recorders = {r1, r2}
    Nobody = Nobody
    SegmentMaxEvents = 2
    CheckpointEvents = 2
    StaleAfter = 2
    MaxLag = 1
    MaxQuiet = 2
    MaxEvents = 1
    MaxSegments = 2
    MaxConns = 1
    MaxCrashes = 1
SPECIFICATION Spec
PROPERTIES RunningHoldsLease AtMostOneOpenSegment LeaseEndsByHolderOrAge
CHECK_DEADLOCK FALSE
