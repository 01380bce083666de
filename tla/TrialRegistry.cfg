CONSTANTS
    Processes = {p1, p2}
    Nobody = Nobody
    NoOutcome = NoOutcome
    MaxRecords = 4
    MaxCrashes = 2
    MaxRollbacks = 2
SPECIFICATION Spec
SYMMETRY Interchangeable
PROPERTIES ImplementsTrialLog TornLineNeverExtended
CHECK_DEADLOCK FALSE
