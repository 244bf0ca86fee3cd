SPECIFICATION FairSpec
CONSTANTS
    Scenario <- MCShortScenario
    TicksPerSecond = 2
    Spacing = 1
    Bases = {0, 1}
    Cycles = 2
    MaxRuns = 2
INVARIANTS
    TypeOK
    FlushedCyclesDelivered
    CyclesInOrder
    IdNamesOneEvent
PROPERTIES
    Terminates
CHECK_DEADLOCK FALSE
