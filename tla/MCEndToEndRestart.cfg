SPECIFICATION EndSpec
CONSTANTS
    a = a
    b = b
    ana = ana
    Absent = Absent
    Events <- MCEvents
    EventIds = {a, b}
    Customers = {ana}
    Horizon = 1
    WindowSize = 2
    WindowPeriod = 2
    CountThreshold = 1
    AmountThreshold = 9
    MaxTopic = 3
    MaxRuns = 2
    MaxRewrites = 1
    Groups = {g}
    Resets = {"earliest", "latest"}
INVARIANTS
    StoreIsNotBehind
CHECK_DEADLOCK FALSE
