CONSTANTS
    Streams = {s1, s2}
    NoStream = NoStream
    Shutdowns = FALSE
SPECIFICATION Spec
CHECK_DEADLOCK FALSE
INVARIANTS
    ServedIsTracked
