CONSTANTS
    Nodes = {n1}
    Browsers = {b1}
    MaxReports = 3
    SinkCap = 1
    UpdateCap = 1
SPECIFICATION Spec
CHECK_DEADLOCK FALSE
PROPERTIES
    OverflowDropsOldest
