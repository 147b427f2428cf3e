CONSTANTS
    Nodes = {n1}
    Browsers = {b1, b2}
    MaxReports = 3
    SinkCap = 2
    UpdateCap = 1
SPECIFICATION Spec
CHECK_DEADLOCK FALSE
INVARIANTS
    TypeOK
    SinkOrder
    ShownIsStored
PROPERTIES
    QueuedIsTried
    ReportsHandled
    ShutdownEnds
