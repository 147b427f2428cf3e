------------------------------- MODULE Master -------------------------------
(***************************************************************************)
(* The master: the HTTP handlers that create, start, stop and delete       *)
(* containers (internal/master/api), the messages and disconnects of the   *)
(* agents (internal/master/agentmgr) and restarts of the process, over the *)
(* tables of Store and the routes and listeners of Proxy.                  *)
(*                                                                         *)
(* A request is a goroutine that runs one handler.  Its steps are the      *)
(* store statements, proxy critical sections and stream sends of the       *)
(* handler, in the order of the source; anything may happen between two.   *)
(* What an agent reports is arbitrary: any message about any container it  *)
(* was ever told to create.                                                *)
(***************************************************************************)
EXTENDS Store, Proxy

CONSTANTS
    Faults,          \* the failures this instance has, a subset of FaultKinds
    OneAtATime,      \* clients never address a container a request is working on
    Operations,      \* what clients ask of existing containers
    ExplicitPorts,   \* values clients give to external_port
    Indices,         \* values clients give to gpu_indices, {} for none
    Counts,          \* values clients give to gpu_count
    Reports          \* what agents report, a subset of ReportKinds

(***************************************************************************)
(* client_gone: the client closes its connection, the request's context is *)
(*   cancelled and every later store call of the handler fails.            *)
(* contention: SQLite refuses a transaction (store.UpdateNodeState writes  *)
(*   outside Store.mu, so a read-then-insert transaction can be refused).  *)
(* send: Session.Send fails.                                               *)
(* stream: an agent's stream, and with it the context its messages are     *)
(*   handled under, is cancelled while a message is being handled.         *)
(* restart: the master process dies and is started again.                  *)
(***************************************************************************)
FaultKinds == {"client_gone", "contention", "send", "stream", "restart"}

(***************************************************************************)
(* running, paused, exited, error: messages that set this state and free   *)
(*   nothing: successful acks, stop acks, start and pause events, polls.   *)
(* failed: a create or start ack with an error.                            *)
(* terminal: an event whose action is die, stop, kill or destroy.          *)
(***************************************************************************)
ReportKinds == {"running", "paused", "exited", "error", "failed", "terminal"}

ASSUME MasterAssumption ==
    /\ Faults \subseteq FaultKinds
    /\ OneAtATime \in BOOLEAN
    /\ Operations \subseteq {"start", "stop", "delete"}
    /\ ExplicitPorts \subseteq Ports
    /\ Indices \subseteq SUBSET GPUs
    /\ Counts \subseteq Nat
    /\ Reports \subseteq ReportKinds

VARIABLES
    req,          \* request -> the handler it runs and where it stands
    issued,       \* container ids newContainerID has returned
    dispatched,   \* containers whose create command was handed to an agent
    online,       \* Manager.sessions: the nodes with a session
    handling,     \* node -> the second statement its message handler still owes
    reverting     \* node -> progress of revertTransientOnDisconnect

masterVars == <<req, issued, dispatched, online, handling, reverting>>
vars == <<storeVars, proxyVars, masterVars>>

-----------------------------------------------------------------------------
(***************************************************************************)
(* Requests.  node, port, prior (the state) and, to start, gpus (the saved *)
(* indices) are what the handler keeps of the row GetContainer returned,   *)
(* possibly stale by the time it is used; to create, they are what it      *)
(* writes into the new row.  gone: the client has closed its connection.   *)
(***************************************************************************)
CreateSteps == {"port", "insert", "unport", "gpus", "persist", "route", "bind",
                "binding", "send", "cleanGPUs", "cleanRow", "cleanPort"}
StartSteps  == {"gpus", "mark", "send", "rollback", "release", "route", "bind",
                "binding"}
StopSteps   == {"mark", "send", "rollback", "unroute", "release"}
DeleteSteps == {"send", "unroute", "freePort", "release", "remove"}
Steps == {"none"} \cup CreateSteps \cup StartSteps \cup StopSteps \cup DeleteSteps

Idle == [op |-> "none", step |-> "none", c |-> NoContainer, node |-> NoNode,
         port |-> NoPort, prior |-> "none", gpus |-> {}, count |-> 0, gone |-> FALSE]

Request ==
    [op    : {"none", "create", "start", "stop", "delete"},
     step  : Steps,
     c     : Containers \cup {NoContainer},
     node  : Nodes \cup {NoNode},
     port  : Ports \cup {NoPort},
     prior : States \cup {"none"},
     gpus  : SUBSET GPUs,
     count : Counts \cup {0},
     gone  : BOOLEAN]

At(r, op, step) == req[r].op = op /\ req[r].step = step

Goto(r, step) == req' = [req EXCEPT ![r].step = step]

Finish(r) == req' = [req EXCEPT ![r] = Idle]

\* The store refuses every statement of a request whose client has gone, and
\* under contention it may refuse a transaction.
Served(r) == ~req[r].gone
MayBeRefused(r) == req[r].gone \/ "contention" \in Faults

SendMayFail(n) == n \notin online \/ "send" \in Faults

Untouched(c) == OneAtATime => \A r \in Requests : req[r].c # c

\* Frames: what a step of a handler leaves alone.
KeepsAgents == UNCHANGED <<issued, dispatched, online, handling, reverting>>
StoreStep == UNCHANGED proxyVars /\ KeepsAgents
ProxyStep == UNCHANGED storeVars /\ KeepsAgents
LocalStep == UNCHANGED <<storeVars, proxyVars>> /\ KeepsAgents

\* A statement whose error the handler of r ignores.
Attempt(r, Statement) == IF Served(r) THEN Statement ELSE UNCHANGED storeVars

-----------------------------------------------------------------------------
(***************************************************************************)
(* POST /containers.  The client asks for devices by index (G, with a      *)
(* pinned node) or by number (k); the handler or the scheduler has checked *)
(* that k devices of n are free, with a read that the reservation below    *)
(* does not repeat.  publish: the request maps ports, so the container     *)
(* gets a port of the master, the client's own choice or an allocated one. *)
(***************************************************************************)
CreateRequest(c, n, publish, ext, G, k) ==
    [op |-> "create", step |-> IF publish /\ ext = NoPort THEN "port" ELSE "insert",
     c |-> c, node |-> n, port |-> ext, prior |-> "none", gpus |-> G, count |-> k,
     gone |-> FALSE]

CreateBegin(r) ==
    /\ req[r] = Idle
    /\ \E c \in Containers \ issued, n \in online, publish \in BOOLEAN :
       \E G \in Indices, k \in Counts \cup {0}, ext \in ExplicitPorts \cup {NoPort} :
        /\ G # {} => k = 0
        /\ k <= Cardinality(FreeOn(n))
        /\ publish => Ports # {}
        /\ ~publish => ext = NoPort
        /\ issued' = issued \cup {c}
        /\ req' = [req EXCEPT ![r] = CreateRequest(c, n, publish, ext, G, k)]
    /\ UNCHANGED <<storeVars, proxyVars, dispatched, online, handling, reverting>>

CreateAllocPort(r) ==
    /\ At(r, "create", "port")
    /\ Served(r)
    /\ \E p \in Ports :
        /\ AllocPort(p, req[r].c)
        /\ req' = [req EXCEPT ![r].step = "insert", ![r].port = p]
    /\ StoreStep

CreateAllocPortFails(r) ==
    /\ At(r, "create", "port")
    /\ FreePorts = {} \/ MayBeRefused(r)
    /\ Finish(r)
    /\ LocalStep

\* Where the handler goes once the GPUs are settled.
CreatePublish(r) == IF req[r].port # NoPort THEN "route" ELSE "send"

\* Mutant of CreateInsert: the devices are saved before they are reserved.
Mutant_CreateInsert(r) ==
    /\ At(r, "create", "insert")
    /\ Served(r)
    /\ InsertContainer(req[r].c, [node |-> req[r].node, state |-> "starting",
                                  saved |-> req[r].gpus, port |-> req[r].port])
    /\ Goto(r, IF req[r].gpus # {} \/ req[r].count > 0 THEN "gpus" ELSE CreatePublish(r))
    /\ StoreStep

CreateInsert(r) ==
    /\ At(r, "create", "insert")
    /\ Served(r)
    /\ InsertContainer(req[r].c, [node |-> req[r].node, state |-> "starting",
                                  saved |-> {}, port |-> req[r].port])
    /\ Goto(r, IF req[r].gpus # {} \/ req[r].count > 0 THEN "gpus" ELSE CreatePublish(r))
    /\ StoreStep

CreateInsertFails(r) ==
    /\ At(r, "create", "insert")
    /\ ~Served(r)
    /\ IF req[r].port # NoPort THEN Goto(r, "unport") ELSE Finish(r)
    /\ LocalStep

CreateFreePort(r) ==
    /\ At(r, "create", "unport")
    /\ Attempt(r, FreePort(req[r].port))
    /\ Finish(r)
    /\ StoreStep

\* AllocSpecificGPUs for requested indices, AllocGPUs for a number.
CreateAllocGPUs(r) ==
    /\ At(r, "create", "gpus")
    /\ Served(r)
    /\ \E G \in IF req[r].gpus # {} THEN {req[r].gpus}
                ELSE LowestFree(req[r].node, req[r].count) :
        /\ AllocSpecificGPUs(req[r].node, req[r].c, G)
        /\ req' = [req EXCEPT ![r].step = "persist", ![r].gpus = G, ![r].count = 0]
    /\ StoreStep

\* The handler returns here, and in CreatePersistFails, before its deferred
\* cleanup is registered: the row, the port and the GPUs stay.
CreateAllocGPUsFails(r) ==
    /\ At(r, "create", "gpus")
    /\ \/ MayBeRefused(r)
       \/ ~ContainerExists(req[r].c)
       \/ ~(req[r].gpus \subseteq FreeOn(req[r].node))
       \/ req[r].count > Cardinality(FreeOn(req[r].node))
    /\ Finish(r)
    /\ LocalStep

CreatePersist(r) ==
    /\ At(r, "create", "persist")
    /\ Served(r)
    /\ UpdateContainerGPUIndices(req[r].c, req[r].gpus)
    /\ Goto(r, CreatePublish(r))
    /\ StoreStep

CreatePersistFails(r) ==
    /\ At(r, "create", "persist")
    /\ ~Served(r)
    /\ Finish(r)
    /\ LocalStep

\* RegisterRoute, of create and of start.
RouteRegister(r) ==
    /\ At(r, "create", "route") \/ At(r, "start", "route")
    /\ RegisterRoute(req[r].port, req[r].c)
    /\ Goto(r, "bind")
    /\ ProxyStep

\* BindPort's error is only logged: create goes on to send, start is done.
AfterBind(r) == IF req[r].op = "create" THEN Goto(r, "send") ELSE Finish(r)

BindPortCheck(r) ==
    /\ At(r, "create", "bind") \/ At(r, "start", "bind")
    /\ BindCheck(r, req[r].port)
    /\ IF req[r].port \in listeners THEN AfterBind(r) ELSE Goto(r, "binding")
    /\ ProxyStep

BindPortListen(r) ==
    /\ req[r].step = "binding"
    /\ BindListen(r)
    /\ UNCHANGED req
    /\ ProxyStep

BindPortListenFails(r) ==
    /\ req[r].step = "binding"
    /\ BindListenFails(r)
    /\ AfterBind(r)
    /\ ProxyStep

BindPortRecord(r) ==
    /\ req[r].step = "binding"
    /\ BindRecord(r)
    /\ AfterBind(r)
    /\ ProxyStep

CreateSend(r) ==
    /\ At(r, "create", "send")
    /\ dispatched' = dispatched \cup {req[r].c}
    /\ Finish(r)
    /\ UNCHANGED <<storeVars, proxyVars, issued, online, handling, reverting>>

\* Mutant of CreateSendFails: of a container with a port only the port is cleaned up.
Mutant_CreateSendFails(r) ==
    /\ At(r, "create", "send")
    /\ SendMayFail(req[r].node)
    /\ Goto(r, IF req[r].port # NoPort THEN "cleanPort" ELSE "cleanGPUs")
    /\ LocalStep

CreateSendFails(r) ==
    /\ At(r, "create", "send")
    /\ SendMayFail(req[r].node)
    /\ Goto(r, IF req[r].gpus # {} THEN "cleanGPUs" ELSE "cleanRow")
    /\ LocalStep

\* The deferred cleanup.
CleanGPUs(r) ==
    /\ At(r, "create", "cleanGPUs")
    /\ Attempt(r, FreeGPUs(req[r].c))
    /\ Goto(r, "cleanRow")
    /\ StoreStep

\* Mutant of CleanRow: the row is kept and shown as failed.
Mutant_CleanRow(r) ==
    /\ At(r, "create", "cleanRow")
    /\ Attempt(r, UpdateContainerState(req[r].c, "error"))
    /\ IF req[r].port # NoPort THEN Goto(r, "cleanPort") ELSE Finish(r)
    /\ StoreStep

CleanRow(r) ==
    /\ At(r, "create", "cleanRow")
    /\ Attempt(r, DeleteContainer(req[r].c))
    /\ IF req[r].port # NoPort THEN Goto(r, "cleanPort") ELSE Finish(r)
    /\ StoreStep

CleanPort(r) ==
    /\ At(r, "create", "cleanPort")
    /\ Attempt(r, FreePort(req[r].port))
    /\ Finish(r)
    /\ StoreStep

CreateStep(r) ==
    \/ CreateBegin(r)
    \/ CreateAllocPort(r) \/ CreateAllocPortFails(r)
    \/ CreateInsert(r) \/ CreateInsertFails(r) \/ CreateFreePort(r)
    \/ CreateAllocGPUs(r) \/ CreateAllocGPUsFails(r)
    \/ CreatePersist(r) \/ CreatePersistFails(r)
    \/ CreateSend(r) \/ CreateSendFails(r)
    \/ CleanGPUs(r) \/ CleanRow(r) \/ CleanPort(r)

PublishStep(r) ==
    \/ RouteRegister(r) \/ BindPortCheck(r) \/ BindPortListen(r)
    \/ BindPortListenFails(r) \/ BindPortRecord(r)

-----------------------------------------------------------------------------
(***************************************************************************)
(* The handlers that work on an existing container read its row once, with *)
(* GetContainer, and use that copy to the end.                             *)
(***************************************************************************)
Begin(r, op, c, step, prior, G) ==
    /\ op \in Operations
    /\ req' = [req EXCEPT ![r] =
         [op |-> op, step |-> step, c |-> c, node |-> rows[c].node, port |-> rows[c].port,
          prior |-> prior, gpus |-> G, count |-> 0, gone |-> FALSE]]

(***************************************************************************)
(* POST /containers/:id/start                                              *)
(***************************************************************************)
\* Mutant of StartBegin: no state is kept to go back to.
Mutant_StartBegin(r) ==
    /\ req[r] = Idle
    /\ \E c \in Containers :
        /\ ContainerExists(c)
        /\ Untouched(c)
        /\ rows[c].node \in online
        /\ Begin(r, "start", c, IF rows[c].saved # {} THEN "gpus" ELSE "mark",
                 "none", rows[c].saved)
    /\ LocalStep

StartBegin(r) ==
    /\ req[r] = Idle
    /\ \E c \in Containers :
        /\ ContainerExists(c)
        /\ Untouched(c)
        /\ rows[c].node \in online
        /\ Begin(r, "start", c, IF rows[c].saved # {} THEN "gpus" ELSE "mark",
                 rows[c].state, rows[c].saved)
    /\ LocalStep

StartAllocGPUs(r) ==
    /\ At(r, "start", "gpus")
    /\ Served(r)
    /\ AllocSpecificGPUs(req[r].node, req[r].c, req[r].gpus)
    /\ Goto(r, "mark")
    /\ StoreStep

StartAllocGPUsFails(r) ==
    /\ At(r, "start", "gpus")
    /\ \/ MayBeRefused(r)
       \/ ~ContainerExists(req[r].c)
       \/ ~(req[r].gpus \subseteq FreeOn(req[r].node))
    /\ Finish(r)
    /\ LocalStep

StartMark(r) ==
    /\ At(r, "start", "mark")
    /\ Attempt(r, UpdateContainerState(req[r].c, "starting"))
    /\ Goto(r, "send")
    /\ StoreStep

StartSend(r) ==
    /\ At(r, "start", "send")
    /\ IF req[r].port # NoPort THEN Goto(r, "route") ELSE Finish(r)
    /\ LocalStep

StartSendFails(r) ==
    /\ At(r, "start", "send")
    /\ SendMayFail(req[r].node)
    /\ Goto(r, "rollback")
    /\ LocalStep

\* The state goes back to the one the handler read, whatever happened since.
StartRollback(r) ==
    /\ At(r, "start", "rollback")
    /\ Attempt(r, UpdateContainerState(req[r].c, req[r].prior))
    /\ IF req[r].gpus # {} THEN Goto(r, "release") ELSE Finish(r)
    /\ StoreStep

StartRelease(r) ==
    /\ At(r, "start", "release")
    /\ Attempt(r, FreeGPUs(req[r].c))
    /\ Finish(r)
    /\ StoreStep

StartStep(r) ==
    \/ StartBegin(r)
    \/ StartAllocGPUs(r) \/ StartAllocGPUsFails(r)
    \/ StartMark(r)
    \/ StartSend(r) \/ StartSendFails(r)
    \/ StartRollback(r) \/ StartRelease(r)

(***************************************************************************)
(* POST /containers/:id/stop                                               *)
(***************************************************************************)
StopBegin(r) ==
    /\ req[r] = Idle
    /\ \E c \in Containers :
        /\ ContainerExists(c)
        /\ Untouched(c)
        /\ Begin(r, "stop", c, "mark", rows[c].state, {})
    /\ LocalStep

StopMark(r) ==
    /\ At(r, "stop", "mark")
    /\ Attempt(r, UpdateContainerState(req[r].c, "stopping"))
    /\ Goto(r, "send")
    /\ StoreStep

\* sendStopCommand looks the session up when it sends.
StopSend(r) ==
    /\ At(r, "stop", "send")
    /\ req[r].node \in online
    /\ Goto(r, IF req[r].port # NoPort THEN "unroute" ELSE "release")
    /\ LocalStep

StopSendFails(r) ==
    /\ At(r, "stop", "send")
    /\ SendMayFail(req[r].node)
    /\ Goto(r, "rollback")
    /\ LocalStep

StopRollback(r) ==
    /\ At(r, "stop", "rollback")
    /\ Attempt(r, UpdateContainerState(req[r].c, req[r].prior))
    /\ Finish(r)
    /\ StoreStep

StopUnroute(r) ==
    /\ At(r, "stop", "unroute")
    /\ UnregisterRoute(req[r].port)
    /\ Goto(r, "release")
    /\ ProxyStep

\* Mutant of StopRelease: a stopped container gives its port back too.
Mutant_StopRelease(r) ==
    /\ At(r, "stop", "release")
    /\ gpuAlloc' = GPUsReleased(req[r].c)
    /\ portAlloc' = [p \in Ports |-> IF p = req[r].port THEN NoContainer ELSE portAlloc[p]]
    /\ UNCHANGED rows
    /\ Finish(r)
    /\ StoreStep

StopRelease(r) ==
    /\ At(r, "stop", "release")
    /\ Attempt(r, FreeGPUs(req[r].c))
    /\ Finish(r)
    /\ StoreStep

StopStep(r) ==
    \/ StopBegin(r) \/ StopMark(r)
    \/ StopSend(r) \/ StopSendFails(r) \/ StopRollback(r)
    \/ StopUnroute(r) \/ StopRelease(r)

(***************************************************************************)
(* DELETE /containers/:id                                                  *)
(***************************************************************************)
DeleteBegin(r) ==
    /\ req[r] = Idle
    /\ \E c \in Containers :
        /\ ContainerExists(c)
        /\ Untouched(c)
        /\ Begin(r, "delete", c, "send", "none", {})
    /\ LocalStep

DeleteSend(r) ==
    /\ At(r, "delete", "send")
    /\ req[r].node \in online
    /\ Goto(r, IF req[r].port # NoPort THEN "unroute" ELSE "release")
    /\ LocalStep

DeleteSendFails(r) ==
    /\ At(r, "delete", "send")
    /\ SendMayFail(req[r].node)
    /\ Finish(r)
    /\ LocalStep

DeleteUnroute(r) ==
    /\ At(r, "delete", "unroute")
    /\ UnregisterRoute(req[r].port)
    /\ Goto(r, "freePort")
    /\ ProxyStep

DeleteFreePort(r) ==
    /\ At(r, "delete", "freePort")
    /\ Attempt(r, FreePort(req[r].port))
    /\ Goto(r, "release")
    /\ StoreStep

DeleteRelease(r) ==
    /\ At(r, "delete", "release")
    /\ Attempt(r, FreeGPUs(req[r].c))
    /\ Goto(r, "remove")
    /\ StoreStep

\* Mutant of DeleteRemove: the route goes last, after the port was given back.
Mutant_DeleteRemove(r) ==
    /\ At(r, "delete", "remove")
    /\ Attempt(r, DeleteContainer(req[r].c))
    /\ IF req[r].port # NoPort THEN UnregisterRoute(req[r].port) ELSE UNCHANGED proxyVars
    /\ Finish(r)
    /\ KeepsAgents

DeleteRemove(r) ==
    /\ At(r, "delete", "remove")
    /\ Attempt(r, DeleteContainer(req[r].c))
    /\ Finish(r)
    /\ StoreStep

DeleteStep(r) ==
    \/ DeleteBegin(r)
    \/ DeleteSend(r) \/ DeleteSendFails(r)
    \/ DeleteUnroute(r) \/ DeleteFreePort(r)
    \/ DeleteRelease(r) \/ DeleteRemove(r)

\* The client of a request closes its connection: c.Request.Context() is
\* cancelled, the handler runs on.
ClientGone(r) ==
    /\ "client_gone" \in Faults
    /\ req[r] # Idle
    /\ ~req[r].gone
    /\ req' = [req EXCEPT ![r].gone = TRUE]
    /\ LocalStep

-----------------------------------------------------------------------------
(***************************************************************************)
(* Agents.  A node's messages are handled one at a time by the goroutine   *)
(* of its stream.  A handler issues at most two statements; handling[n] is *)
(* the one still owed.  A message about a container that has no row        *)
(* changes nothing, so only messages about existing rows are steps.        *)
(***************************************************************************)
NoMessage == [c |-> NoContainer, owes |-> "none"]

Handling == {NoMessage} \cup [c : Containers, owes : {"error", "free"}]

KeepsRequests == UNCHANGED <<req, issued, dispatched>>
MessageFrame == UNCHANGED <<proxyVars, online, reverting>> /\ KeepsRequests

Receives(n, c) ==
    /\ n \in online
    /\ handling[n] = NoMessage
    /\ c \in dispatched
    /\ ContainerExists(c)
    /\ rows[c].node = n

Owe(n, c, what) == handling' = [handling EXCEPT ![n] = [c |-> c, owes |-> what]]

\* A failed create frees the GPUs first and marks the row after.
HandleContainerCreated(n, c) ==
    /\ Receives(n, c)
    /\ \/ "running" \in Reports /\ UpdateContainerState(c, "running") /\ UNCHANGED handling
       \/ "failed" \in Reports /\ FreeGPUs(c) /\ Owe(n, c, "error")
    /\ MessageFrame

HandleContainerStarted(n, c) ==
    /\ Receives(n, c)
    /\ \/ "running" \in Reports /\ UpdateContainerState(c, "running") /\ UNCHANGED handling
       \/ "failed" \in Reports /\ FreeGPUs(c) /\ Owe(n, c, "error")
    /\ MessageFrame

HandleContainerStopped(n, c) ==
    /\ Receives(n, c)
    /\ \E state \in Reports \cap {"exited", "error"} : UpdateContainerState(c, state)
    /\ UNCHANGED handling
    /\ MessageFrame

\* A lifecycle event or a poll result; the terminal actions (die, stop, kill,
\* destroy) all carry state "exited" and free the GPUs after the update.
HandleContainerStateChanged(n, c) ==
    /\ Receives(n, c)
    /\ \/ \E state \in Reports \cap {"running", "paused", "exited"} :
            UpdateContainerState(c, state) /\ UNCHANGED handling
       \/ "terminal" \in Reports /\ UpdateContainerState(c, "exited") /\ Owe(n, c, "free")
    /\ MessageFrame

HandleSecond(n) ==
    /\ \/ handling[n].owes = "error" /\ UpdateContainerState(handling[n].c, "error")
       \/ handling[n].owes = "free" /\ FreeGPUs(handling[n].c)
    /\ handling' = [handling EXCEPT ![n] = NoMessage]
    /\ MessageFrame

\* The stream's context is cancelled between the two statements.
HandleSecondFails(n) ==
    /\ "stream" \in Faults
    /\ handling[n] # NoMessage
    /\ handling' = [handling EXCEPT ![n] = NoMessage]
    /\ UNCHANGED storeVars
    /\ MessageFrame

Connect(n) ==
    /\ n \notin online
    /\ online' = online \cup {n}
    /\ UNCHANGED <<storeVars, proxyVars, handling, reverting>>
    /\ KeepsRequests

(***************************************************************************)
(* handleDisconnect takes the session out of the map; then, with the new   *)
(* session of the node possibly already there, revertTransientOnDisconnect *)
(* lists the containers and settles those the list shows starting or       *)
(* stopping, one by one.  Bound: one such sweep per node at a time.        *)
(***************************************************************************)
NoRevert == [step |-> "none", todo |-> {}, c |-> NoContainer]

Reverting ==
    {NoRevert}
    \cup [step : {"list", "mark"}, todo : SUBSET Containers, c : {NoContainer}]
    \cup [step : {"free"}, todo : SUBSET Containers, c : Containers]

Transient(n) == {c \in Containers :
    ContainerExists(c) /\ rows[c].node = n /\ rows[c].state \in {"starting", "stopping"}}

RevertTo(n, step, todo, c) ==
    reverting' = [reverting EXCEPT ![n] =
        IF step = "mark" /\ todo = {} THEN NoRevert
        ELSE [step |-> step, todo |-> todo, c |-> c]]

RevertFrame == UNCHANGED <<proxyVars, online, handling>> /\ KeepsRequests

Disconnect(n) ==
    /\ "stream" \in Faults
    /\ n \in online
    /\ handling[n] = NoMessage
    /\ reverting[n] = NoRevert
    /\ online' = online \ {n}
    /\ RevertTo(n, "list", {}, NoContainer)
    /\ UNCHANGED <<storeVars, proxyVars, handling>>
    /\ KeepsRequests

RevertList(n) ==
    /\ reverting[n].step = "list"
    /\ RevertTo(n, "mark", Transient(n), NoContainer)
    /\ UNCHANGED storeVars
    /\ RevertFrame

RevertMark(n) ==
    /\ reverting[n].step = "mark"
    /\ \E c \in reverting[n].todo :
        /\ UpdateContainerState(c, "error")
        /\ RevertTo(n, "free", reverting[n].todo \ {c}, c)
    /\ RevertFrame

RevertFree(n) ==
    /\ reverting[n].step = "free"
    /\ FreeGPUs(reverting[n].c)
    /\ RevertTo(n, "mark", reverting[n].todo, NoContainer)
    /\ RevertFrame

\* The list fails, or the three seconds the sweep has are over and every further
\* statement fails; nobody is told.
RevertFails(n) ==
    /\ reverting[n] # NoRevert
    /\ reverting' = [reverting EXCEPT ![n] = NoRevert]
    /\ UNCHANGED storeVars
    /\ RevertFrame

AgentStep(n) ==
    \/ \E c \in Containers :
        \/ HandleContainerCreated(n, c) \/ HandleContainerStarted(n, c)
        \/ HandleContainerStopped(n, c) \/ HandleContainerStateChanged(n, c)
    \/ HandleSecond(n) \/ HandleSecondFails(n)
    \/ Connect(n) \/ Disconnect(n)
    \/ RevertList(n) \/ RevertMark(n) \/ RevertFree(n)
    \/ RevertFails(n)

-----------------------------------------------------------------------------
(***************************************************************************)
(* The process dies and is started again: every goroutine, session, route  *)
(* and listener is lost, the tables stay, and rebindExistingProxyRoutes    *)
(* publishes every row that has a port (of two rows with the same port,    *)
(* either may come last).                                                  *)
(***************************************************************************)
PublishedOn(p) == {c \in Containers : ContainerExists(c) /\ rows[c].port = p}

Restart ==
    /\ "restart" \in Faults
    /\ \E W \in [Ports -> Containers \cup {NoContainer}] :
        /\ \A p \in Ports : IF PublishedOn(p) = {} THEN W[p] = NoContainer
                            ELSE W[p] \in PublishedOn(p)
        /\ \E B \in SUBSET Published(W) : Rebind(W, B)
    /\ req' = [r \in Requests |-> Idle]
    /\ online' = {}
    /\ handling' = [n \in Nodes |-> NoMessage]
    /\ reverting' = [n \in Nodes |-> NoRevert]
    /\ UNCHANGED <<storeVars, issued, dispatched>>

-----------------------------------------------------------------------------
TypeOK ==
    /\ StoreTypeOK
    /\ ProxyTypeOK
    /\ req \in [Requests -> Request]
    /\ issued \subseteq Containers
    /\ dispatched \subseteq Containers
    /\ online \subseteq Nodes
    /\ handling \in [Nodes -> Handling]
    /\ reverting \in [Nodes -> Reverting]

Init ==
    /\ StoreInit
    /\ ProxyInit
    /\ req = [r \in Requests |-> Idle]
    /\ issued = {}
    /\ dispatched = {}
    /\ online = {}
    /\ handling = [n \in Nodes |-> NoMessage]
    /\ reverting = [n \in Nodes |-> NoRevert]

RequestStep(r) ==
    \/ CreateStep(r) \/ PublishStep(r) \/ StartStep(r) \/ StopStep(r) \/ DeleteStep(r)
    \/ ClientGone(r)

Next ==
    \/ \E r \in Requests : RequestStep(r)
    \/ \E n \in Nodes : AgentStep(n)
    \/ Restart

Spec == Init /\ [][Next]_vars
=============================================================================
