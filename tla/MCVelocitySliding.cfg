SPECIFICATION Spec
CONSTANTS
    a = a
    b = b
    ana = ana
    blas = blas
    Events <- MCSlidingEvents
    EventIds = {a, b}
    Customers = {ana}
    Horizon = 1
    WindowSize = 2
    WindowPeriod = 1
    AllowedLateness = 1
    DedupLateness = 1
    CountThreshold = 2
    AmountThreshold = 3
    EarlyFirings = TRUE
    MaxWatermark = 4
    MaxDeliveries = 3
INVARIANTS
    TypeOK
    NoDoubleCount
    TotalIsExact
    SeenIsAccounted
    PunctualIsCounted
    AlertIsCurrent
    RevisionsSupersede
CHECK_DEADLOCK FALSE
