CONSTANTS
    Containers = {c1, c2, c3}
    Nodes = {n1}
    GPUs = {}
    Ports = {30000, 30001}
    Requests = {r1, r2}
    NoContainer = NoContainer
    NoRow = NoRow
    NoNode = NoNode
    Faults = {}
    OneAtATime = FALSE
    Operations = {"start", "stop", "delete"}
    ExplicitPorts = {}
    Indices = {{}}
    Counts = {}
    Reports = {}
SPECIFICATION Spec
SYMMETRY Symmetry
CHECK_DEADLOCK FALSE
INVARIANTS
    NoDuplicatePort
