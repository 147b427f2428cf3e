CONSTANTS
    Containers = {c1, c2, c3}
    Nodes = {n1}
    GPUs = {0}
    Ports = {30000}
    Requests = {r1, r2, r3}
    NoContainer = NoContainer
    NoRow = NoRow
    NoNode = NoNode
    Faults = {"send", "contention"}
    OneAtATime = TRUE
    Operations = {"start", "stop", "delete"}
    ExplicitPorts = {}
    Indices = {{}, {0}}
    Counts = {1}
    Reports = {}
SPECIFICATION Spec
SYMMETRY Symmetry
CHECK_DEADLOCK FALSE
INVARIANTS
    PortInv
    PortsExclusive
    NoMisrouting
    ListenersHaveRoutes
PROPERTIES
    RouteClosedByOwner
