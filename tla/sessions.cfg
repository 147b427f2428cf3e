CONSTANTS
    Streams = {s1, s2}
    NoStream = NoStream
    Shutdowns = TRUE
SPECIFICATION Spec
CHECK_DEADLOCK FALSE
INVARIANTS
    TypeOK
    ServedIsTrackedInTurn
    SessionShownOnline
PROPERTIES
    AttemptsSettle
    HandlersReturn
