SPECIFICATION FairSpec
CONSTANTS
    a = a
    b = b
    ana = ana
    blas = blas
    Events <- MCCustomerEvents
    EventIds = {a, b}
    Customers = {ana, blas}
    Horizon = 1
    WindowSize = 2
    WindowPeriod = 2
    AllowedLateness = 1
    DedupLateness = 1
    CountThreshold = 2
    AmountThreshold = 3
    EarlyFirings = TRUE
    MaxWatermark = 4
    MaxDeliveries = 4
INVARIANTS
    PunctualIsCounted
    LiftingAgrees
PROPERTIES
    ImplementsLedger
    StateReleased
    BreachIsAlerted
CHECK_DEADLOCK FALSE
