------------------------------- MODULE Domain -------------------------------
(* The values the modules of the master share.                             *)
EXTENDS Integers, FiniteSets

CONSTANTS
    Containers,    \* every container id newContainerID may return
    Nodes,         \* registered nodes
    GPUs,          \* GPU indices of a node (every node reports the same number)
    Ports,         \* the auto-allocation range, 30000..32767 in the code
    Requests,      \* the handler goroutines that exist at the same time
    NoContainer,   \* no container: no row in gpu_alloc or port_alloc, no route
    NoRow,         \* no row in containers
    NoNode         \* the node of a request that is not running

NoPort == 0        \* external_port = 0: the container publishes nothing

ASSUME DomainAssumption ==
    /\ GPUs \subseteq Nat
    /\ Ports \subseteq Nat \ {NoPort}
    /\ NoContainer \notin Containers
    /\ NoNode \notin Nodes
=============================================================================
