CONSTANTS
    Streams = {s1}
    NoStream = NoStream
    Shutdowns = TRUE
SPECIFICATION Spec
CHECK_DEADLOCK FALSE
PROPERTIES
    RunReturns
