CONSTANTS
    Containers = {c1}
    NoRow = NoRow
    MaxActs = 3
    MaxUp = 1
    SameSecond = 2
    EventsEnabled = TRUE
    PollEnabled = TRUE
SPECIFICATION Spec
CHECK_DEADLOCK FALSE
PROPERTY
    DriftCorrected
