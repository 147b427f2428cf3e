CONSTANTS
    Containers = {c1}
    Nodes = {n1}
    GPUs = {0, 1}
    Ports = {30000}
    Requests = {r1, r2}
    NoContainer = NoContainer
    NoRow = NoRow
    NoNode = NoNode
    Faults = {"client_gone", "stream", "restart"}
    OneAtATime = FALSE
    Operations = {"start", "delete"}
    ExplicitPorts = {30000}
    Indices = {{0, 1}}
    Counts = {}
    Reports = {"exited", "failed"}
SPECIFICATION Spec
SYMMETRY Symmetry
CHECK_DEADLOCK FALSE
INVARIANTS
    TypeOK
    ReservedAllOrNothing
    CleanInv
    SocketsAccounted
