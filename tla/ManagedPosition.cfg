SPECIFICATION Spec
CONSTANTS
    None = None
    Prices <- FewPrices
    Plans <- TwoWayPlans
    Quantity = 2
    MaxBars = 3
INVARIANTS
    StopFollowsCloses
    OfferWithinExcursions
PROPERTIES
    ImplementsExitRequest
CHECK_DEADLOCK FALSE
