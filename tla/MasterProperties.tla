-------------------------- MODULE MasterProperties --------------------------
(* What the master must guarantee, over the states and steps of Master.    *)
EXTENDS Master

(***************************************************************************)
(* A reservation belongs to a container the master still knows, on that    *)
(* container's own node: no order of deletes, failed creates, concurrent   *)
(* starts and late agent messages strands a device with a container nobody *)
(* can free any more.  (store.go:138-146, api.go:396-402)                  *)
(***************************************************************************)
ReservationsOwned ==
    \A n \in Nodes, g \in GPUs :
        gpuAlloc[n][g] # NoContainer =>
            /\ ContainerExists(gpuAlloc[n][g])
            /\ rows[gpuAlloc[n][g]].node = n

(***************************************************************************)
(* Once a container has been handed to an agent, the master holds for it   *)
(* either nothing or exactly the devices Docker was given (its saved       *)
(* indices): never a part of them, never others, whatever starts, stops,   *)
(* disconnects and agent messages cross.  (api.go:444-451, 636-678)        *)
(***************************************************************************)
ReservedAllOrNothing ==
    \A c \in dispatched :
        ContainerExists(c) => Held(rows[c].node, c) \in {{}, rows[c].saved}

(***************************************************************************)
(* A create whose command could not be sent leaves nothing behind, unless  *)
(* its client has gone: no row, no device and no port still belongs to its *)
(* container, even if other requests worked on it during the cleanup.      *)
(* (api.go:453-473)                                                        *)
(***************************************************************************)
LeavesNothing(c) ==
    /\ ~ContainerExists(c)
    /\ \A n \in Nodes : Held(n, c) = {}
    /\ \A p \in Ports : portAlloc[p] # c

Cleaning(r) == req[r].op = "create" /\ req[r].step \in {"cleanGPUs", "cleanRow", "cleanPort"}

FailedSendReleasesAll ==
    [][\A r \in Requests, c \in Containers :
         Cleaning(r) /\ req[r].c = c /\ ~req[r].gone /\ req'[r] = Idle /\ ~Restart
            => LeavesNothing(c)']_vars

(***************************************************************************)
(* api.go:420: "On any failure below this line, the deferred cleanup       *)
(* releases everything we acquired."  A create that ends without having    *)
(* handed its container to an agent leaves nothing behind.                 *)
(***************************************************************************)
FailedCreateReleasesAll ==
    [][\A r \in Requests, c \in Containers :
         req[r].op = "create" /\ req[r].c = c /\ ~req[r].gone /\ req'[r] = Idle
         /\ c \notin dispatched' /\ ~Restart
            => LeavesNothing(c)']_vars

(***************************************************************************)
(* The reservations of the master behave like the ledger of GpuLedger.     *)
(***************************************************************************)
Ledger == INSTANCE GpuLedger WITH owner <- gpuAlloc

GpuReservationsAreALedger == Ledger!LedgerSpec

(***************************************************************************)
(* No port is given to two containers: every container that has a row and  *)
(* a port holds that port in port_alloc, until the request that deletes it *)
(* has freed it.  (port_test.go:62 "no duplicate port will be assigned     *)
(* across the cluster")                                                    *)
(***************************************************************************)
PortGivenBack(c) ==
    \E r \in Requests : req[r].op = "delete" /\ req[r].c = c
                        /\ req[r].step \in {"release", "remove"}

PortsExclusive ==
    \A c \in Containers :
        ContainerExists(c) /\ rows[c].port # NoPort /\ ~PortGivenBack(c)
            => portAlloc[rows[c].port] = c

(***************************************************************************)
(* No two containers the master knows share a public port.                 *)
(***************************************************************************)
NoDuplicatePort ==
    \A c, d \in Containers :
        ContainerExists(c) /\ ContainerExists(d) /\ c # d /\ rows[c].port # NoPort
            => rows[c].port # rows[d].port \/ PortGivenBack(c) \/ PortGivenBack(d)

(***************************************************************************)
(* Traffic for a container an agent runs is never forwarded to another     *)
(* container: the route of its port leads to it or is missing.  Routes of  *)
(* failed creates and of containers deleted before may linger on a port    *)
(* only until its next owner is handed over.  (proxy.go:128-158)           *)
(***************************************************************************)
NoMisrouting ==
    \A c \in dispatched :
        ContainerExists(c) /\ rows[c].port # NoPort /\ ~PortGivenBack(c)
            => routes[rows[c].port] \in {c, NoContainer}

(***************************************************************************)
(* A route that leads to a container the master knows is taken away only   *)
(* by a stop or a delete of that container: no request tears down the      *)
(* listener of a port that has moved on to another container.  A route     *)
(* left by a failed create leads to no container, and whoever holds its    *)
(* port next may close it.  (api.go:626-629, 743-747)                      *)
(***************************************************************************)
RouteClosedByOwner ==
    [][\A p \in Ports :
         routes[p] # NoContainer /\ ContainerExists(routes[p]) /\ routes'[p] = NoContainer =>
            \E r \in Requests : req[r].op \in {"stop", "delete"} /\ req[r].c = routes[p]]_vars

(***************************************************************************)
(* A listener is never left open on a port without a route: clients would  *)
(* be accepted only to be dropped (proxy.go:131-137).                      *)
(***************************************************************************)
ListenersHaveRoutes ==
    \A p \in listeners : routes[p] # NoContainer

-----------------------------------------------------------------------------
(***************************************************************************)
(* The invariants above about GPUs are not inductive: whether a device may *)
(* be taken depends on what the request that takes it knows.  GpuInv adds  *)
(* what every request in progress relies on.                               *)
(***************************************************************************)
\* Rows, requests and dispatches are of issued ids.
IdsIssued ==
    /\ \A c \in Containers : ContainerExists(c) => c \in issued
    /\ \A r \in Requests : req[r].op # "none" =>
           req[r].c \in issued /\ req[r].node \in Nodes
    /\ dispatched \subseteq issued

\* A start or stop rolls back to a state it read from a row.
PriorsKnown ==
    \A r \in Requests : req[r].op \in {"start", "stop"} => req[r].prior \in States

\* A handler reaches the proxy only for a container that has a port.
ProxyUsersHavePorts ==
    \A r \in Requests : req[r].step \in {"route", "bind", "unroute"} => req[r].port # NoPort

\* A create is alone with its id until it has inserted the row, is the only
\* create of that id ever, and hands it over only in its last step.
CreatesAlone ==
    \A r \in Requests : req[r].op = "create" =>
        /\ req[r].c \notin dispatched
        /\ \A q \in Requests \ {r} : req[q].op = "create" => req[q].c # req[r].c
        /\ req[r].step \in {"port", "insert"} =>
              /\ ~ContainerExists(req[r].c)
              /\ \A q \in Requests \ {r} : req[q].op # "none" => req[q].c # req[r].c

\* What a create knows of its row: the node it chose, no saved devices before
\* it persists them, and nothing held but what it has just reserved.
CreatesConsistent ==
    \A r \in Requests : req[r].op = "create" /\ ContainerExists(req[r].c) =>
        LET row  == rows[req[r].c]
            held == Held(row.node, req[r].c)
        IN  /\ row.node = req[r].node
            /\ req[r].step \in {"gpus", "persist"} => row.saved = {}
            /\ req[r].step = "persist" => held \in {{}, req[r].gpus}
            /\ req[r].step # "persist" /\ row.saved = {} => held = {}

\* The devices a start re-reserves are still the saved ones.
StartsConsistent ==
    \A r \in Requests : req[r].op = "start" =>
        /\ req[r].step = "gpus" => req[r].gpus # {}
        /\ ContainerExists(req[r].c) =>
              /\ rows[req[r].c].node = req[r].node
              /\ req[r].gpus # {} => rows[req[r].c].saved = req[r].gpus

\* Saved devices are held all or not at all, before the hand-over too.
SavedHeldTogether ==
    \A c \in Containers : ContainerExists(c) /\ rows[c].saved # {} =>
        Held(rows[c].node, c) \in {{}, rows[c].saved}

GpuInv ==
    /\ TypeOK
    /\ IdsIssued
    /\ PriorsKnown
    /\ ProxyUsersHavePorts
    /\ CreatesAlone
    /\ CreatesConsistent
    /\ StartsConsistent
    /\ ReservationsOwned
    /\ SavedHeldTogether
    /\ ReservedAllOrNothing

-----------------------------------------------------------------------------
(***************************************************************************)
(* What a failed create gives back is everything because a container gets  *)
(* one port at most, from its own create, and gets no row back once it is  *)
(* deleted.                                                                *)
(***************************************************************************)
CleanInv ==
    /\ \A p \in Ports : portAlloc[p] # NoContainer => portAlloc[p] \in issued
    /\ \A r \in Requests : req[r].op = "create" =>
          /\ \A p \in Ports : portAlloc[p] = req[r].c => p = req[r].port
          /\ req[r].step = "port" => req[r].port = NoPort
          /\ req[r].step = "cleanPort" /\ ~req[r].gone => ~ContainerExists(req[r].c)

(***************************************************************************)
(* The promises about ports hold for clients that work on a container from *)
(* one request at a time, leave the choice of ports to the master and wait *)
(* for its answers, while the process lives.                               *)
(***************************************************************************)
WellBehaved ==
    /\ OneAtATime
    /\ ExplicitPorts = {}
    /\ {"client_gone", "restart"} \cap Faults = {}

\* No client is gone, and no two requests work on one container.
RequestsApart ==
    \A r \in Requests :
        /\ ~req[r].gone
        /\ \A q \in Requests \ {r} :
               req[r].op # "none" /\ req[q].op # "none" => req[q].c # req[r].c

\* Between its insertion and its removal the row of a request is there, with the
\* port the request knows; outside, the request has the port from port_alloc.
Rowless(r) == req[r].op = "create" /\ req[r].step \in {"port", "insert", "cleanPort"}

RequestsKnowRows ==
    \A r \in Requests : req[r].op # "none" =>
        /\ req[r].step # "unport"
        /\ req[r].step \in {"binding", "freePort", "cleanPort"} => req[r].port # NoPort
        /\ IF Rowless(r)
           THEN /\ ~ContainerExists(req[r].c)
                /\ req[r].port # NoPort => portAlloc[req[r].port] = req[r].c
           ELSE /\ ContainerExists(req[r].c)
                /\ rows[req[r].c].port = req[r].port

\* A route leads to a container that has been created; while that is known, it is
\* the route of its port, and it goes before the port is given back.
Closed(r) == req[r].op = "delete" /\ req[r].step \in {"freePort", "release", "remove"}
Unrouted(r) == Closed(r) \/ (req[r].op = "create" /\ req[r].step \in {"port", "insert"})

RoutesKnown ==
    \A p \in Ports : routes[p] # NoContainer =>
        /\ routes[p] \in issued
        /\ ContainerExists(routes[p]) => rows[routes[p]].port = p
        /\ \A r \in Requests : Unrouted(r) => req[r].c # routes[p]

\* From its registration to the end of BindPort, and to the hand-over of a create,
\* the route stays the request's own.
Routing(r) == req[r].step \in {"bind", "binding"} \/ (req[r].op = "create" /\ req[r].step = "send")

RoutesOwn ==
    \A r \in Requests :
        /\ Routing(r) => req[r].op # "none"
        /\ Routing(r) /\ req[r].port # NoPort => routes[req[r].port] = req[r].c
        /\ req[r].step = "binding" => binding[r].port = req[r].port

PortInv ==
    /\ RequestsApart
    /\ RequestsKnowRows
    /\ RoutesKnown
    /\ RoutesOwn
    /\ PortsExclusive
    /\ NoMisrouting
    /\ ListenersHaveRoutes
=============================================================================
