CONSTANTS
    Recorders = {r1}
    Nobody = Nobody
    SegmentMaxEvents = 3
    CheckpointEvents = 2
    StaleAfter = 1
    MaxLag = 1
    MaxQuiet = 2
    MaxEvents = 4
    MaxSegments = 3
    MaxConns = 2
    MaxCrashes = 1
SPECIFICATION FairSpec
INVARIANTS VerifyAcceptsQuiescentTape GapsAreBarriered
PROPERTIES SealedEvidenceIsFinal LeaseNeverLost StopCompletes
CHECK_DEADLOCK FALSE
