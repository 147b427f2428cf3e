CONSTANTS
    Containers = {c1, c2}
    Nodes = {n1}
    GPUs = {0, 1}
    Ports = {}
    Requests = {r1, r2}
    NoContainer = NoContainer
    NoRow = NoRow
    NoNode = NoNode
    Faults = {"send", "contention"}
    OneAtATime = FALSE
    Operations = {"start", "stop", "delete"}
    ExplicitPorts = {}
    Indices = {{}, {0}, {0, 1}}
    Counts = {1}
    Reports = {"running", "terminal"}
SPECIFICATION Spec
SYMMETRY Symmetry
CHECK_DEADLOCK FALSE
PROPERTIES
    FailedSendReleasesAll
    GpuReservationsAreALedger
INVARIANTS
    GpuInv
    ReservationsOwned
    ReservedAllOrNothing
