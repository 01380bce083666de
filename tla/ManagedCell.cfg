CONSTANTS
    Setups <- FewSetups
    Candles = 6
    MaxVolume = 2
    MaxRequest = 2
    Settlements = {2, 3}
    BarrierReasons = {"STOP_LOSS", "TAKE_PROFIT"}
    OpenStops = FALSE
    None = None
SPECIFICATION Spec
INVARIANTS ReplayIsAccepted NeverHeldTooLong FailsOnlyWithoutLiquidity
PROPERTIES PositionKeepsPromise
CHECK_DEADLOCK FALSE
