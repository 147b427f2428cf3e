------------------------------- MODULE Store -------------------------------
(***************************************************************************)
(* The tables of the master's SQLite store (internal/master/store) and the *)
(* statements the rest of the master issues against them.  Each operator   *)
(* is one store method: it runs under Store.mu, in one statement or one    *)
(* transaction, so it is one atomic step here.                             *)
(*                                                                         *)
(* Only the columns some branch of the master depends on are kept: name,   *)
(* image, env, volume and status texts are left out.  docker_id is left    *)
(* out too: the master stores and forwards it but never tests it.          *)
(***************************************************************************)
EXTENDS Domain

\* What the master writes itself (starting, stopping, running, exited, error) and
\* what agents report of Docker (running, exited, paused).
States == {"starting", "running", "stopping", "exited", "paused", "error"}

Row == [node  : Nodes,
        state : States,
        saved : SUBSET GPUs,           \* gpu_indices_json
        port  : Ports \cup {NoPort}]   \* external_port

ASSUME StoreAssumption == NoRow \notin Row

VARIABLES
    rows,        \* table containers:  id -> row
    gpuAlloc,    \* table gpu_alloc:   (node_id, gpu_index) -> container_id
    portAlloc    \* table port_alloc:  port -> container_id

storeVars == <<rows, gpuAlloc, portAlloc>>

StoreTypeOK ==
    /\ rows \in [Containers -> Row \cup {NoRow}]
    /\ gpuAlloc \in [Nodes -> [GPUs -> Containers \cup {NoContainer}]]
    /\ portAlloc \in [Ports -> Containers \cup {NoContainer}]

StoreInit ==
    /\ rows = [c \in Containers |-> NoRow]
    /\ gpuAlloc = [n \in Nodes |-> [g \in GPUs |-> NoContainer]]
    /\ portAlloc = [p \in Ports |-> NoContainer]

(***************************************************************************)
(* Reads.                                                                  *)
(***************************************************************************)
ContainerExists(c) == rows[c] # NoRow

FreeOn(n) == {g \in GPUs : gpuAlloc[n][g] = NoContainer}

\* The devices c holds on node n.
Held(n, c) == {g \in GPUs : gpuAlloc[n][g] = c}

FreePorts == {p \in Ports : portAlloc[p] = NoContainer}

(***************************************************************************)
(* Table gpu_alloc with every row of container c deleted, and with the     *)
(* devices G of node n given to c.                                         *)
(***************************************************************************)
GPUsReleased(c) ==
    [n \in Nodes |-> [g \in GPUs |->
        IF gpuAlloc[n][g] = c THEN NoContainer ELSE gpuAlloc[n][g]]]

GPUsTaken(n, c, G) ==
    [gpuAlloc EXCEPT ![n] = [g \in GPUs |-> IF g \in G THEN c ELSE @[g]]]

(***************************************************************************)
(* Table containers.                                                       *)
(***************************************************************************)
InsertContainer(c, row) ==
    /\ ~ContainerExists(c)
    /\ rows' = [rows EXCEPT ![c] = row]
    /\ UNCHANGED <<gpuAlloc, portAlloc>>

\* UPDATE ... WHERE id=?: a missing row is no error and nothing changes.
UpdateContainerState(c, state) ==
    /\ rows' = IF ContainerExists(c) THEN [rows EXCEPT ![c].state = state] ELSE rows
    /\ UNCHANGED <<gpuAlloc, portAlloc>>

UpdateContainerGPUIndices(c, G) ==
    /\ rows' = IF ContainerExists(c) THEN [rows EXCEPT ![c].saved = G] ELSE rows
    /\ UNCHANGED <<gpuAlloc, portAlloc>>

\* Mutant of DeleteContainer: gpu_alloc does not cascade.
Mutant_DeleteContainer(c) ==
    /\ rows' = [rows EXCEPT ![c] = NoRow]
    /\ UNCHANGED <<gpuAlloc, portAlloc>>

\* gpu_alloc references containers ON DELETE CASCADE; port_alloc does not.
DeleteContainer(c) ==
    /\ rows' = [rows EXCEPT ![c] = NoRow]
    /\ gpuAlloc' = GPUsReleased(c)
    /\ UNCHANGED portAlloc

(***************************************************************************)
(* Table gpu_alloc.  AllocGPUs gives the count lowest free devices,        *)
(* AllocSpecificGPUs exactly the devices asked for; both give all or none  *)
(* and need the container's row (FOREIGN KEY).                             *)
(***************************************************************************)
LowestFree(n, count) ==
    {G \in SUBSET FreeOn(n) :
        /\ Cardinality(G) = count
        /\ \A g \in G, h \in FreeOn(n) \ G : g < h}

\* Mutants of AllocSpecificGPUs: INSERT OR REPLACE instead of INSERT; no
\* transaction, so that the devices still free are taken before the error.
Mutant_ReplacesOwner(n, c, G) ==
    /\ ContainerExists(c)
    /\ gpuAlloc' = GPUsTaken(n, c, G)
    /\ UNCHANGED <<rows, portAlloc>>

Mutant_TakesSome(n, c, G) ==
    /\ ContainerExists(c)
    /\ gpuAlloc' = GPUsTaken(n, c, G \cap FreeOn(n))
    /\ UNCHANGED <<rows, portAlloc>>

AllocSpecificGPUs(n, c, G) ==
    /\ ContainerExists(c)
    /\ G \subseteq FreeOn(n)
    /\ gpuAlloc' = GPUsTaken(n, c, G)
    /\ UNCHANGED <<rows, portAlloc>>

\* Mutant of FreeGPUs: one statement per device, and the context may end in between.
Mutant_FreeGPUs(c) ==
    /\ \E freed \in SUBSET GPUs :
          gpuAlloc' = [n \in Nodes |-> [g \in GPUs |->
              IF gpuAlloc[n][g] = c /\ g \in freed THEN NoContainer ELSE gpuAlloc[n][g]]]
    /\ UNCHANGED <<rows, portAlloc>>

FreeGPUs(c) ==
    /\ gpuAlloc' = GPUsReleased(c)
    /\ UNCHANGED <<rows, portAlloc>>

(***************************************************************************)
(* Table port_alloc.  AllocPort takes the smallest free port of the range; *)
(* FreePort deletes by port number, whoever the row belongs to.            *)
(***************************************************************************)
AllocPort(p, c) ==
    /\ p \in FreePorts
    /\ \A q \in FreePorts : p <= q
    /\ portAlloc' = [portAlloc EXCEPT ![p] = c]
    /\ UNCHANGED <<rows, gpuAlloc>>

FreePort(p) ==
    /\ portAlloc' = [q \in Ports |-> IF q = p THEN NoContainer ELSE portAlloc[q]]
    /\ UNCHANGED <<rows, gpuAlloc>>
=============================================================================
