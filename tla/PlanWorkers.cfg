SPECIFICATION PlanSpec
CONSTANTS
    MaxReadings = 3
    MaxWindow = 2
INVARIANTS
    NoOrphan
    NothingLeft
PROPERTIES
    ImplementsTrafficWorker
    WebImplementsTrafficWorker
    WorkersEnd
    TeardownEnds
CHECK_DEADLOCK FALSE
