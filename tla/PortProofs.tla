----------------------------- MODULE PortProofs -----------------------------
(***************************************************************************)
(* Proofs about the master's ports, for clients that are WellBehaved: no   *)
(* port has two containers, traffic is not misrouted, listeners have       *)
(* routes, and routes are closed by their owners, for any number of        *)
(* containers, ports, requests and devices, with failing sends, refused    *)
(* transactions, broken streams and any messages of agents.                *)
(***************************************************************************)
EXTENDS CleanupProofs

(***************************************************************************)
(* Calm steps: tables, routes and requests stay what PortInv says of them. *)
(* A request stays (or moves on without passing one of the points at which *)
(* a row, a port or a route comes or goes), ends, or arrives.              *)
(***************************************************************************)
KeepsPorts ==
    /\ \A c \in Containers :
          /\ ContainerExists(c)' <=> ContainerExists(c)
          /\ ContainerExists(c) => rows'[c].port = rows[c].port
    /\ UNCHANGED portAlloc

GivingBack(q) == req[q].op = "delete" /\ req[q].step \in {"release", "remove"}

Stays(q) ==
    /\ req'[q].op = req[q].op
    /\ req'[q].c = req[q].c
    /\ req'[q].port = req[q].port
    /\ ~req'[q].gone
    /\ req[q].op # "none" =>
          /\ req'[q].step # "unport"
          /\ req'[q].step \in {"binding", "freePort", "cleanPort"} => req[q].port # NoPort
    /\ req'[q].step = "binding" => binding'[q].port = req[q].port
    /\ Rowless(q)' <=> Rowless(q)
    /\ GivingBack(q) => GivingBack(q)'
    /\ Unrouted(q)' => Unrouted(q) \/ (req[q].op = "delete" /\ req[q].port = NoPort)
    /\ Routing(q)' => Routing(q) \/ (req[q].op = "create" /\ req[q].port = NoPort)

Ends(q) == req'[q] = Idle /\ ~GivingBack(q)

Arrives(q) ==
    /\ req[q] = Idle
    /\ req'[q].op \in {"start", "stop", "delete"}
    /\ req'[q].step \in {"gpus", "mark", "send"}
    /\ req'[q].c \in Containers
    /\ ContainerExists(req'[q].c)
    /\ req'[q].port = rows[req'[q].c].port
    /\ ~req'[q].gone
    /\ \A k \in Requests \ {q} : req[k].c # req'[q].c /\ req'[k] = req[k]

Calm ==
    /\ KeepsPorts
    /\ UNCHANGED <<routes, issued>>
    /\ \A p \in listeners' : p \in listeners \/ routes[p] # NoContainer
    /\ \A c \in dispatched' : c \in dispatched
           \/ (rows[c].port # NoPort => routes[rows[c].port] \in {c, NoContainer})
    /\ \A q \in Requests : Stays(q) \/ Ends(q) \/ Arrives(q)

\* What a request works on, in terms of its record.
LEMMA Known ==
    ASSUME GpuInv
    PROVE  /\ TypeOK
           /\ \A q \in Requests : req[q].op # "none" =>
                 req[q].c \in Containers /\ req[q].port \in Ports \cup {NoPort}
           /\ \A c \in Containers : ContainerExists(c) => rows[c].port \in Ports \cup {NoPort}
           /\ \A p \in Ports : routes[p] # NoContainer => routes[p] \in Containers
           /\ Idle.op = "none" /\ Idle.step = "none" /\ Idle.c = NoContainer
           /\ Idle.port = NoPort /\ ~Idle.gone
           /\ NoContainer \notin Containers /\ NoPort \notin Ports
<1>1. \A q \in Requests : req[q].op # "none" =>
         req[q].c \in Containers /\ req[q].port \in Ports \cup {NoPort}
  BY Running DEF GpuInv
<1>2. \A c \in Containers : ContainerExists(c) => rows[c].port \in Ports \cup {NoPort}
  BY DEF GpuInv, TypeOK, StoreTypeOK, ContainerExists, Row
<1> QED
  BY <1>1, <1>2, DomainAssumption DEF GpuInv, TypeOK, ProxyTypeOK, Idle

LEMMA CalmInv ==
    ASSUME GpuInv, TypeOK', PortInv, Calm
    PROVE  PortInv'
<1> USE Known
<1>1. RequestsApart'
  <2> SUFFICES ASSUME NEW r \in Requests
               PROVE  /\ ~req'[r].gone
                      /\ \A q \in Requests \ {r} :
                             req'[r].op # "none" /\ req'[q].op # "none" => req'[q].c # req'[r].c
    BY DEF RequestsApart
  <2>1. ~req'[r].gone
    BY DEF Calm, Stays, Ends, Arrives
  <2>2. ASSUME req'[r].op # "none", NEW q \in Requests \ {r}, req'[q].op # "none"
        PROVE  req'[q].c # req'[r].c
    <3>1. Stays(r) \/ Arrives(r)
      BY <2>2 DEF Calm, Ends
    <3>2. req'[r].c \in Containers
      BY <2>2, <3>1 DEF Stays, Arrives
    <3>3. CASE Arrives(r)
      BY <3>3 DEF Arrives
    <3>4. CASE Stays(r) /\ Stays(q)
      BY <2>2, <3>4 DEF Stays, PortInv, RequestsApart
    <3>5. CASE Ends(q)
      BY <3>2, <3>5 DEF Ends
    <3>6. CASE Stays(r) /\ Arrives(q)
      BY <3>6 DEF Stays, Arrives
    <3> QED
      BY <3>1, <3>3, <3>4, <3>5, <3>6 DEF Calm
  <2> QED
    BY <2>1, <2>2
<1>2. RequestsKnowRows'
  <2> SUFFICES ASSUME NEW r \in Requests, req'[r].op # "none"
               PROVE  /\ req'[r].step # "unport"
                      /\ req'[r].step \in {"binding", "freePort", "cleanPort"} => req'[r].port # NoPort
                      /\ Rowless(r)' => /\ ~ContainerExists(req[r].c)'
                                        /\ req'[r].port # NoPort => portAlloc'[req'[r].port] = req'[r].c
                      /\ ~Rowless(r)' => /\ ContainerExists(req[r].c)'
                                         /\ rows'[req'[r].c].port = req'[r].port
    BY DEF RequestsKnowRows
  <2>1. CASE Stays(r)
    BY <2>1 DEF Calm, KeepsPorts, Stays, PortInv, RequestsKnowRows, ContainerExists
  <2>2. CASE Arrives(r)
    <3>1. ~Rowless(r)'
      BY <2>2 DEF Arrives, Rowless
    <3> QED
      BY <2>2, <3>1 DEF Calm, KeepsPorts, Arrives, ContainerExists
  <2> QED
    BY <2>1, <2>2 DEF Calm, Ends
<1>3. RoutesKnown'
  <2> SUFFICES ASSUME NEW p \in Ports, routes'[p] # NoContainer
               PROVE  /\ routes'[p] \in issued'
                      /\ ContainerExists(routes[p])' => rows'[routes'[p]].port = p
                      /\ \A r \in Requests : Unrouted(r)' => req'[r].c # routes'[p]
    BY DEF RoutesKnown
  <2>1. routes'[p] = routes[p] /\ routes[p] \in Containers
    BY DEF Calm
  <2>2. routes'[p] \in issued'
    BY <2>1 DEF Calm, PortInv, RoutesKnown
  <2>3. ContainerExists(routes[p])' => rows'[routes'[p]].port = p
    BY <2>1 DEF Calm, KeepsPorts, PortInv, RoutesKnown, ContainerExists
  <2>4. ASSUME NEW r \in Requests, Unrouted(r)'
        PROVE  req'[r].c # routes'[p]
    <3>1. Stays(r)
      BY <2>4 DEF Calm, Ends, Arrives, Unrouted, Closed
    <3>2. CASE Unrouted(r)
      BY <2>1, <3>1, <3>2 DEF Stays, PortInv, RoutesKnown
    <3>3. CASE req[r].op = "delete" /\ req[r].port = NoPort
      <4>1. ContainerExists(req[r].c) /\ rows[req[r].c].port = NoPort
        BY <3>3 DEF PortInv, RequestsKnowRows, Rowless
      <4> QED
        BY <2>1, <3>1, <4>1 DEF Stays, PortInv, RoutesKnown
    <3> QED
      BY <2>4, <3>1, <3>2, <3>3 DEF Stays
  <2> QED
    BY <2>2, <2>3, <2>4
<1>4. RoutesOwn'
  <2> SUFFICES ASSUME NEW r \in Requests
               PROVE  /\ Routing(r)' => req'[r].op # "none"
                      /\ Routing(r)' /\ req'[r].port # NoPort => routes'[req'[r].port] = req'[r].c
                      /\ req'[r].step = "binding" => binding'[r].port = req'[r].port
    BY DEF RoutesOwn
  <2>1. CASE Stays(r)
    BY <2>1 DEF Calm, Stays, PortInv, RoutesOwn
  <2>2. CASE Ends(r) \/ Arrives(r)
    BY <2>2 DEF Ends, Arrives, Routing
  <2> QED
    BY <2>1, <2>2 DEF Calm
<1>5. \A c \in Containers : PortGivenBack(c) => PortGivenBack(c)'
  <2> SUFFICES ASSUME NEW c \in Containers, NEW q \in Requests, GivingBack(q), req[q].c = c
               PROVE  GivingBack(q)' /\ req'[q].c = c
    BY DEF PortGivenBack, GivingBack
  <2> QED
    BY DEF Calm, Stays, Ends, Arrives, GivingBack
<1>6. PortsExclusive'
  BY <1>5 DEF PortsExclusive, Calm, KeepsPorts, PortInv
<1>7. NoMisrouting'
  <2> SUFFICES ASSUME NEW c \in dispatched', ContainerExists(c)', rows'[c].port # NoPort,
                      ~PortGivenBack(c)'
               PROVE  routes'[rows'[c].port] \in {c, NoContainer}
    BY DEF NoMisrouting
  <2>1. c \in Containers
    BY DEF TypeOK
  <2>2. /\ ContainerExists(c) /\ rows'[c].port = rows[c].port /\ ~PortGivenBack(c)
        /\ routes' = routes
    BY <1>5, <2>1 DEF Calm, KeepsPorts
  <2> QED
    BY <2>2 DEF NoMisrouting, Calm, PortInv
<1>8. ListenersHaveRoutes'
  BY DEF ListenersHaveRoutes, Calm, PortInv
<1> QED
  BY <1>1, <1>2, <1>3, <1>4, <1>6, <1>7, <1>8 DEF PortInv

-----------------------------------------------------------------------------
(***************************************************************************)
(* Which steps are calm.                                                   *)
(***************************************************************************)
LEMMA CalmCalls ==
    ASSUME TypeOK,
           \/ UNCHANGED storeVars
           \/ \E c \in Containers :
                \/ \E s \in States : UpdateContainerState(c, s)
                \/ \E G \in SUBSET GPUs : UpdateContainerGPUIndices(c, G)
                \/ FreeGPUs(c)
           \/ \E n \in Nodes, c \in Containers, G \in SUBSET GPUs : AllocSpecificGPUs(n, c, G)
    PROVE  KeepsPorts
<1> USE DEF KeepsPorts, ContainerExists
<1>1. CASE UNCHANGED storeVars
  BY <1>1 DEF storeVars
<1>2. ASSUME NEW c \in Containers,
             \/ \E s \in States : UpdateContainerState(c, s)
             \/ \E G \in SUBSET GPUs : UpdateContainerGPUIndices(c, G)
      PROVE  KeepsPorts
  <2>1. UNCHANGED portAlloc
    BY <1>2 DEF UpdateContainerState, UpdateContainerGPUIndices
  <2>2. CASE rows[c] = NoRow
    BY <1>2, <2>1, <2>2 DEF UpdateContainerState, UpdateContainerGPUIndices
  <2>3. CASE rows[c] # NoRow
    <3>1. rows[c] \in Row
      BY <2>3 DEF TypeOK, StoreTypeOK
    <3>2. ASSUME NEW row, rows' = [rows EXCEPT ![c] = row], row \in Row, row.port = rows[c].port
          PROVE  KeepsPorts
      BY <2>1, <2>3, <3>2, StoreAssumption DEF TypeOK, StoreTypeOK
    <3>3. ASSUME NEW s \in States
          PROVE  /\ [rows[c] EXCEPT !.state = s] \in Row
                 /\ [rows[c] EXCEPT !.state = s].port = rows[c].port
      BY <3>1 DEF Row
    <3>4. ASSUME NEW G \in SUBSET GPUs
          PROVE  /\ [rows[c] EXCEPT !.saved = G] \in Row
                 /\ [rows[c] EXCEPT !.saved = G].port = rows[c].port
      BY <3>1 DEF Row
    <3>5. ASSUME NEW s \in States, UpdateContainerState(c, s)
          PROVE  rows' = [rows EXCEPT ![c] = [rows[c] EXCEPT !.state = s]]
      BY <2>3, <3>5 DEF UpdateContainerState
    <3>6. ASSUME NEW G \in SUBSET GPUs, UpdateContainerGPUIndices(c, G)
          PROVE  rows' = [rows EXCEPT ![c] = [rows[c] EXCEPT !.saved = G]]
      BY <2>3, <3>6 DEF UpdateContainerGPUIndices
    <3> QED
      BY <1>2, <3>2, <3>3, <3>4, <3>5, <3>6
  <2> QED
    BY <2>2, <2>3
<1>3. ASSUME NEW c \in Containers, FreeGPUs(c)
      PROVE  KeepsPorts
  BY <1>3 DEF FreeGPUs
<1>4. ASSUME NEW n \in Nodes, NEW c \in Containers, NEW G \in SUBSET GPUs,
             AllocSpecificGPUs(n, c, G)
      PROVE  KeepsPorts
  BY <1>4 DEF AllocSpecificGPUs
<1> QED
  BY <1>1, <1>2, <1>3, <1>4

\* A request that waits, moves on within its stage, ends, or begins.
LEMMA Waits ==
    ASSUME PortInv, NEW q \in Requests, req'[q] = req[q], binding'[q] = binding[q]
    PROVE  Stays(q)
BY DEF PortInv, RequestsApart, RequestsKnowRows, RoutesOwn, Stays, Rowless, GivingBack,
   Unrouted, Closed, Routing

LEMMA CalmGoto ==
    ASSUME GpuInv, PortInv, NEW r \in Requests, NEW s \in Steps, Goto(r, s),
           \A q \in Requests \ {r} : binding'[q] = binding[q],
           s # "unport",
           s \in {"binding", "freePort", "cleanPort"} => req[r].port # NoPort,
           s = "binding" => binding'[r].port = req[r].port,
           req[r].op = "create" =>
               /\ s \in {"port", "insert", "cleanPort"} <=> req[r].step \in {"port", "insert", "cleanPort"}
               /\ s \in {"port", "insert"} => req[r].step \in {"port", "insert"},
           req[r].op = "delete" =>
               /\ req[r].step \in {"release", "remove"} => s \in {"release", "remove"}
               /\ s \in {"freePort", "release", "remove"} =>
                     \/ req[r].step \in {"freePort", "release", "remove"}
                     \/ req[r].port = NoPort,
           s \in {"bind", "binding"} \/ (req[r].op = "create" /\ s = "send") =>
               \/ req[r].step \in {"bind", "binding"}
               \/ req[r].op = "create" /\ req[r].step = "send"
               \/ req[r].op = "create" /\ req[r].port = NoPort
    PROVE  \A q \in Requests : Stays(q)
<1>1. /\ \A q \in Requests \ {r} : req'[q] = req[q]
      /\ req'[r].op = req[r].op /\ req'[r].step = s /\ req'[r].c = req[r].c
      /\ req'[r].port = req[r].port /\ req'[r].gone = req[r].gone
  BY GotoFields DEF GpuInv
<1>2. Stays(r)
  BY <1>1 DEF Stays, PortInv, RequestsApart, Rowless, GivingBack, Unrouted, Closed, Routing
<1> QED
  BY <1>1, <1>2, Waits

LEMMA CalmFinish ==
    ASSUME GpuInv, PortInv, NEW r \in Requests, Finish(r), ~GivingBack(r),
           \A q \in Requests \ {r} : binding'[q] = binding[q]
    PROVE  \A q \in Requests : Stays(q) \/ Ends(q)
<1>1. /\ \A q \in Requests \ {r} : req'[q] = req[q]
      /\ req'[r] = Idle
  BY FinishFields DEF GpuInv
<1> QED
  BY <1>1, Waits DEF Ends

LEMMA CalmBegin ==
    ASSUME WellBehaved, GpuInv, PortInv, NEW r \in Requests, req[r] = Idle,
           NEW c \in Containers, ContainerExists(c), Untouched(c),
           NEW op \in {"start", "stop", "delete"}, NEW s \in {"gpus", "mark", "send"},
           NEW prior, NEW G, Begin(r, op, c, s, prior, G), UNCHANGED binding
    PROVE  \A q \in Requests : Stays(q) \/ Arrives(q)
<1>1. /\ \A q \in Requests \ {r} : req'[q] = req[q]
      /\ req'[r].op = op /\ req'[r].step = s /\ req'[r].c = c
      /\ req'[r].port = rows[c].port /\ ~req'[r].gone
  BY DEF Begin, GpuInv, TypeOK
<1>2. \A q \in Requests : req[q].c # c
  BY DEF Untouched, WellBehaved
<1> QED
  BY <1>1, <1>2, Waits DEF Arrives

\* The steps at which a row, a port or a route comes or goes.
Turning(r) ==
    \/ CreateBegin(r) \/ CreateAllocPort(r) \/ CreateInsert(r) \/ CleanRow(r) \/ CleanPort(r)
    \/ RouteRegister(r) \/ StopUnroute(r)
    \/ DeleteUnroute(r) \/ DeleteFreePort(r) \/ DeleteRemove(r)

LEMMA CalmCreate ==
    ASSUME WellBehaved, GpuInv, PortInv, NEW r \in Requests, CreateStep(r), ~Turning(r)
    PROVE  Calm
<1>0. TypeOK /\ IdsIssued /\ Served(r)
  BY DEF GpuInv, PortInv, RequestsApart, Served
<1> USE DEF StoreStep, LocalStep, KeepsAgents, proxyVars
<1>1. CASE CreateAllocPortFails(r) \/ CreateAllocGPUsFails(r)
  BY <1>0, <1>1, CalmCalls, CalmFinish
     DEF CreateAllocPortFails, CreateAllocGPUsFails, At, GivingBack, Calm
<1>2. ~CreateInsertFails(r) /\ ~CreatePersistFails(r)
  BY <1>0 DEF CreateInsertFails, CreatePersistFails
<1>3. ~CreateFreePort(r)
  BY DEF CreateFreePort, At, PortInv, RequestsKnowRows
<1>4. CASE CreateAllocGPUs(r)
  <2>1. PICK G \in SUBSET GPUs :
          /\ AllocSpecificGPUs(req[r].node, req[r].c, G)
          /\ req' = [req EXCEPT ![r].step = "persist", ![r].gpus = G, ![r].count = 0]
    BY <1>0, <1>4, Reserves
  <2>2. req[r] \in Request /\ req \in [Requests -> Request]
    BY <1>0 DEF TypeOK
  <2>3. /\ \A q \in Requests \ {r} : req'[q] = req[q]
        /\ req'[r] = [req[r] EXCEPT !.step = "persist", !.gpus = G, !.count = 0]
    BY <2>1, <2>2
  <2>4. /\ req'[r].op = req[r].op /\ req'[r].step = "persist" /\ req'[r].c = req[r].c
        /\ req'[r].port = req[r].port /\ req'[r].gone = req[r].gone
    BY <2>2, <2>3 DEF Request
  <2>5. Stays(r)
    BY <1>4, <2>4 DEF CreateAllocGPUs, At, Stays, PortInv, RequestsApart, Rowless,
       GivingBack, Unrouted, Closed, Routing
  <2>6. KeepsPorts
    BY <1>0, <1>4, <2>1, Running, CalmCalls DEF CreateAllocGPUs, At
  <2> QED
    BY <1>4, <2>3, <2>5, <2>6, Waits DEF CreateAllocGPUs, Calm
<1>5. CASE CreatePersist(r)
  <2>1. KeepsPorts
    BY <1>0, <1>5, Running, CalmCalls DEF CreatePersist, At
  <2> QED
    BY <1>5, <2>1, CalmGoto, StepNames DEF CreatePersist, CreatePublish, At, Calm
<1>6. CASE CreateSend(r)
  <2>1. /\ req[r].op = "create" /\ req[r].step = "send" /\ ~Rowless(r)
        /\ rows[req[r].c].port = req[r].port
        /\ req[r].port # NoPort => routes[req[r].port] = req[r].c
    BY <1>6 DEF CreateSend, At, PortInv, RequestsKnowRows, Rowless, RoutesOwn, Routing
  <2> QED
    BY <1>0, <1>6, <2>1, CalmCalls, CalmFinish DEF CreateSend, GivingBack, Calm
<1>7. CASE CreateSendFails(r)
  BY <1>0, <1>7, CalmCalls, CalmGoto, StepNames DEF CreateSendFails, At, Calm
<1>8. CASE CleanGPUs(r)
  <2>1. KeepsPorts
    BY <1>0, <1>8, Running, CalmCalls DEF CleanGPUs, At, Attempt
  <2> QED
    BY <1>8, <2>1, CalmGoto, StepNames DEF CleanGPUs, At, Calm
<1> QED
  BY <1>1, <1>2, <1>3, <1>4, <1>5, <1>6, <1>7, <1>8 DEF CreateStep, Turning

LEMMA CalmPublish ==
    ASSUME WellBehaved, GpuInv, PortInv, NEW r \in Requests, PublishStep(r), ~Turning(r)
    PROVE  Calm
<1>0. TypeOK /\ binding \in [Requests -> Binding]
  BY DEF GpuInv, TypeOK, ProxyTypeOK
<1>1. UNCHANGED <<routes, storeVars, issued, dispatched>>
  BY DEF PublishStep, Turning, BindPortCheck, BindPortListen, BindPortListenFails,
     BindPortRecord, BindCheck, BindListen, BindListenFails, BindRecord, ProxyStep, KeepsAgents
<1>2. KeepsPorts
  BY <1>0, <1>1, CalmCalls
<1>3. \A q \in Requests \ {r} : binding'[q] = binding[q]
  BY <1>0 DEF PublishStep, Turning, BindPortCheck, BindPortListen, BindPortListenFails,
     BindPortRecord, BindCheck, BindListen, BindListenFails, BindRecord
<1>4. ASSUME AfterBind(r), req[r].step \in {"bind", "binding"}
      PROVE  \A q \in Requests : Stays(q) \/ Ends(q)
  <2>1. CASE req[r].op = "create"
    BY <1>3, <1>4, <2>1, CalmGoto, StepNames DEF AfterBind
  <2>2. CASE req[r].op # "create"
    BY <1>3, <1>4, <2>2, CalmFinish DEF AfterBind, GivingBack
  <2> QED
    BY <2>1, <2>2
<1>5. CASE BindPortCheck(r)
  <2>1. req[r].port # NoPort /\ req[r].op \in {"create", "start"} /\ req[r].step = "bind"
    BY <1>5 DEF BindPortCheck, At, GpuInv, ProxyUsersHavePorts
  <2>2. CASE req[r].port \in listeners
    BY <1>1, <1>2, <1>4, <1>5, <2>1, <2>2 DEF BindPortCheck, BindCheck, Calm
  <2>3. CASE req[r].port \notin listeners
    <3>1. binding'[r].port = req[r].port /\ Goto(r, "binding") /\ UNCHANGED listeners
      BY <1>0, <1>5, <2>3 DEF BindPortCheck, BindCheck
    <3> QED
      BY <1>1, <1>2, <1>3, <2>1, <3>1, CalmGoto, StepNames DEF Calm
  <2> QED
    BY <2>2, <2>3
<1>6. CASE BindPortListen(r)
  <2>1. UNCHANGED <<req, listeners>> /\ binding'[r].port = binding[r].port
    BY <1>0, <1>6 DEF BindPortListen, BindListen, Binding, NotBinding
  <2>2. \A q \in Requests \ {r} : Stays(q)
    BY <1>3, <2>1, Waits
  <2>3. Stays(r)
    BY <2>1 DEF PortInv, RequestsApart, RequestsKnowRows, RoutesOwn, Stays, Rowless,
       GivingBack, Unrouted, Closed, Routing
  <2> QED
    BY <1>1, <1>2, <2>1, <2>2, <2>3 DEF Calm
<1>7. CASE BindPortListenFails(r)
  BY <1>1, <1>2, <1>4, <1>7 DEF BindPortListenFails, BindListenFails, Calm
<1>8. CASE BindPortRecord(r)
  <2>1. req[r].step = "binding" /\ listeners' = listeners \cup {binding[r].port}
    BY <1>8 DEF BindPortRecord, BindRecord
  <2>2. req[r].op # "none"
    BY <2>1 DEF PortInv, RoutesOwn, Routing
  <2>3. routes[binding[r].port] # NoContainer
    BY <2>1, <2>2, Known DEF PortInv, RoutesOwn, Routing, RequestsKnowRows
  <2> QED
    BY <1>1, <1>2, <1>4, <1>8, <2>1, <2>3 DEF BindPortRecord, Calm
<1> QED
  BY <1>5, <1>6, <1>7, <1>8 DEF PublishStep, Turning

LEMMA CalmStart ==
    ASSUME WellBehaved, GpuInv, PortInv, NEW r \in Requests, StartStep(r)
    PROVE  Calm
<1>0. /\ TypeOK /\ IdsIssued /\ PriorsKnown
      /\ UNCHANGED <<proxyVars, issued, dispatched>>
  BY DEF GpuInv, StartStep, StartBegin, StartAllocGPUs, StartAllocGPUsFails, StartMark,
     StartSend, StartSendFails, StartRollback, StartRelease, StoreStep, LocalStep, KeepsAgents
<1>1. UNCHANGED <<routes, listeners, binding>>
  BY <1>0 DEF proxyVars
<1>2. KeepsPorts
  <2>1. CASE \/ StartBegin(r) \/ StartAllocGPUsFails(r) \/ StartSend(r) \/ StartSendFails(r)
    BY <1>0, <2>1, CalmCalls
       DEF StartBegin, StartAllocGPUsFails, StartSend, StartSendFails, LocalStep
  <2>2. CASE StartAllocGPUs(r)
    BY <1>0, <2>2, Running, CalmCalls DEF StartAllocGPUs, At
  <2>3. CASE StartMark(r) \/ StartRollback(r) \/ StartRelease(r)
    BY <1>0, <2>3, Running, CalmCalls
       DEF StartMark, StartRollback, StartRelease, At, Attempt, States, PriorsKnown
  <2> QED
    BY <2>1, <2>2, <2>3 DEF StartStep
<1>3. \A q \in Requests : Stays(q) \/ Ends(q) \/ Arrives(q)
  <2>1. CASE StartBegin(r)
    BY <1>1, <2>1, CalmBegin DEF StartBegin
  <2>2. CASE StartAllocGPUs(r) \/ StartMark(r) \/ StartSendFails(r)
    BY <1>1, <2>2, CalmGoto, StepNames DEF StartAllocGPUs, StartMark, StartSendFails, At
  <2>3. CASE StartAllocGPUsFails(r) \/ StartRelease(r)
    BY <1>1, <2>3, CalmFinish DEF StartAllocGPUsFails, StartRelease, At, GivingBack
  <2>4. CASE StartSend(r) \/ StartRollback(r)
    BY <1>1, <2>4, CalmGoto, CalmFinish, StepNames
       DEF StartSend, StartRollback, At, GivingBack
  <2> QED
    BY <2>1, <2>2, <2>3, <2>4 DEF StartStep
<1> QED
  BY <1>0, <1>1, <1>2, <1>3 DEF Calm

LEMMA CalmStop ==
    ASSUME WellBehaved, GpuInv, PortInv, NEW r \in Requests, StopStep(r), ~Turning(r)
    PROVE  Calm
<1>0. /\ TypeOK /\ IdsIssued /\ PriorsKnown
      /\ UNCHANGED <<proxyVars, issued, dispatched>>
  BY DEF GpuInv, Turning, StopStep, StopBegin, StopMark, StopSend, StopSendFails,
     StopRollback, StopRelease, StoreStep, LocalStep, KeepsAgents
<1>1. UNCHANGED <<routes, listeners, binding>>
  BY <1>0 DEF proxyVars
<1>2. KeepsPorts
  <2>1. CASE StopBegin(r) \/ StopSend(r) \/ StopSendFails(r)
    BY <1>0, <2>1, CalmCalls DEF StopBegin, StopSend, StopSendFails, LocalStep
  <2>2. CASE StopMark(r) \/ StopRollback(r) \/ StopRelease(r)
    BY <1>0, <2>2, Running, CalmCalls
       DEF StopMark, StopRollback, StopRelease, At, Attempt, States, PriorsKnown
  <2> QED
    BY <2>1, <2>2 DEF StopStep, Turning
<1>3. \A q \in Requests : Stays(q) \/ Ends(q) \/ Arrives(q)
  <2>1. CASE StopBegin(r)
    BY <1>1, <2>1, CalmBegin DEF StopBegin
  <2>2. CASE StopMark(r) \/ StopSend(r) \/ StopSendFails(r)
    BY <1>1, <2>2, CalmGoto, StepNames DEF StopMark, StopSend, StopSendFails, At
  <2>3. CASE StopRollback(r) \/ StopRelease(r)
    BY <1>1, <2>3, CalmFinish DEF StopRollback, StopRelease, At, GivingBack
  <2> QED
    BY <2>1, <2>2, <2>3 DEF StopStep, Turning
<1> QED
  BY <1>0, <1>1, <1>2, <1>3 DEF Calm

LEMMA CalmDelete ==
    ASSUME WellBehaved, GpuInv, PortInv, NEW r \in Requests, DeleteStep(r), ~Turning(r)
    PROVE  Calm
<1>0. /\ TypeOK /\ IdsIssued
      /\ UNCHANGED <<proxyVars, issued, dispatched>>
  BY DEF GpuInv, Turning, DeleteStep, DeleteBegin, DeleteSend, DeleteSendFails,
     DeleteRelease, StoreStep, LocalStep, KeepsAgents
<1>1. UNCHANGED <<routes, listeners, binding>>
  BY <1>0 DEF proxyVars
<1>2. KeepsPorts
  <2>1. CASE DeleteBegin(r) \/ DeleteSend(r) \/ DeleteSendFails(r)
    BY <1>0, <2>1, CalmCalls DEF DeleteBegin, DeleteSend, DeleteSendFails, LocalStep
  <2>2. CASE DeleteRelease(r)
    BY <1>0, <2>2, Running, CalmCalls DEF DeleteRelease, At, Attempt
  <2> QED
    BY <2>1, <2>2 DEF DeleteStep, Turning
<1>3. \A q \in Requests : Stays(q) \/ Ends(q) \/ Arrives(q)
  <2>1. CASE DeleteBegin(r)
    BY <1>1, <2>1, CalmBegin DEF DeleteBegin
  <2>2. CASE DeleteSend(r) \/ DeleteRelease(r)
    BY <1>1, <2>2, CalmGoto, StepNames DEF DeleteSend, DeleteRelease, At
  <2>3. CASE DeleteSendFails(r)
    BY <1>1, <2>3, CalmFinish DEF DeleteSendFails, At, GivingBack
  <2> QED
    BY <2>1, <2>2, <2>3 DEF DeleteStep, Turning
<1> QED
  BY <1>0, <1>1, <1>2, <1>3 DEF Calm

LEMMA CalmAgents ==
    ASSUME GpuInv, PortInv, NEW n \in Nodes, AgentStep(n)
    PROVE  Calm
<1>0. /\ TypeOK
      /\ handling[n].owes # "none" => handling[n].c \in Containers
      /\ reverting[n].todo \subseteq Containers
      /\ reverting[n].step = "free" => reverting[n].c \in Containers
  BY DEF GpuInv, TypeOK, Handling, NoMessage, Reverting, NoRevert
<1>1. UNCHANGED <<req, issued, dispatched, proxyVars>>
  BY DEF AgentStep, HandleContainerCreated, HandleContainerStarted, HandleContainerStopped,
     HandleContainerStateChanged, HandleSecond, HandleSecondFails, Connect, Disconnect,
     RevertList, RevertMark, RevertFree, RevertFails, MessageFrame, RevertFrame, KeepsRequests
<1>2. KeepsPorts
  <2>1. ASSUME NEW c \in Containers,
               \/ HandleContainerCreated(n, c) \/ HandleContainerStarted(n, c)
               \/ HandleContainerStopped(n, c) \/ HandleContainerStateChanged(n, c)
        PROVE  KeepsPorts
    BY <1>0, <2>1, CalmCalls DEF HandleContainerCreated, HandleContainerStarted,
       HandleContainerStopped, HandleContainerStateChanged, States
  <2>2. CASE HandleSecond(n) \/ HandleSecondFails(n) \/ Connect(n) \/ Disconnect(n)
    BY <1>0, <2>2, CalmCalls DEF HandleSecond, HandleSecondFails, Connect, Disconnect, States
  <2>3. CASE \/ RevertList(n) \/ RevertMark(n) \/ RevertFree(n) \/ RevertFails(n)
    BY <1>0, <2>3, CalmCalls DEF RevertList, RevertMark, RevertFree, RevertFails, States
  <2> QED
    BY <2>1, <2>2, <2>3 DEF AgentStep
<1>3. \A q \in Requests : Stays(q)
  BY <1>1, Waits DEF proxyVars
<1> QED
  BY <1>1, <1>2, <1>3 DEF Calm, proxyVars

\* With well-behaved clients and no restart, a step is calm or a turning one.
LEMMA CalmSteps ==
    ASSUME WellBehaved, GpuInv, PortInv, [Next]_vars
    PROVE  Calm \/ \E r \in Requests : Turning(r)
<1>1. ~Restart /\ \A r \in Requests : ~ClientGone(r)
  BY DEF WellBehaved, Restart, ClientGone
<1>2. CASE UNCHANGED vars
  <2>1. UNCHANGED <<req, issued, dispatched, routes, listeners, binding, storeVars>>
    BY <1>2 DEF vars, masterVars, proxyVars
  <2> QED
    BY <2>1, CalmCalls, Waits DEF Calm, GpuInv
<1>3. ASSUME NEW r \in Requests, RequestStep(r), ~Turning(r)
      PROVE  Calm
  BY <1>1, <1>3, CalmCreate, CalmPublish, CalmStart, CalmStop, CalmDelete DEF RequestStep
<1> QED
  BY <1>1, <1>2, <1>3, CalmAgents DEF Next

-----------------------------------------------------------------------------
(***************************************************************************)
(* The turning steps, one by one.  r is the request that takes the step.   *)
(***************************************************************************)
LEMMA OthersApart ==
    ASSUME GpuInv, PortInv, NEW r \in Requests,
           \A q \in Requests \ {r} : req'[q] = req[q],
           \/ req'[r] = Idle
           \/ req'[r].op = req[r].op /\ req'[r].c = req[r].c /\ req'[r].gone = req[r].gone
    PROVE  RequestsApart'
BY IdleFields, Known DEF PortInv, RequestsApart

\* A new create: nothing the master knows is about its container.
LEMMA CreateBeginPorts ==
    ASSUME WellBehaved, GpuInv, PortInv, NEW r \in Requests, CreateBegin(r)
    PROVE  PortInv'
<1>1. PICK c \in Containers \ issued :
        /\ issued' = issued \cup {c}
        /\ req[r].op = "none" /\ \A q \in Requests \ {r} : req'[q] = req[q]
        /\ req'[r].op = "create" /\ req'[r].step \in {"port", "insert"} /\ req'[r].c = c
        /\ req'[r].port = NoPort /\ ~req'[r].gone
  BY IdleFields DEF CreateBegin, CreateRequest, WellBehaved, GpuInv, TypeOK
<1>2. UNCHANGED <<rows, portAlloc, dispatched, routes, listeners, binding>>
  BY <1>1 DEF CreateBegin, storeVars, proxyVars
<1>3. /\ ~ContainerExists(c)
      /\ \A q \in Requests : req[q].op # "none" => req[q].c # c
      /\ \A p \in Ports : routes[p] # c
  BY <1>1, Known, DomainAssumption DEF GpuInv, IdsIssued, PortInv, RoutesKnown
<1>4. RequestsApart'
  BY <1>1, <1>3 DEF PortInv, RequestsApart
<1>5. RequestsKnowRows'
  BY <1>1, <1>2, <1>3 DEF PortInv, RequestsKnowRows, Rowless, ContainerExists
<1>6. RoutesKnown'
  BY <1>1, <1>2, <1>3 DEF PortInv, RoutesKnown, Unrouted, Closed, ContainerExists
<1>7. RoutesOwn'
  BY <1>1, <1>2 DEF PortInv, RoutesOwn, Routing
<1>8. \A x \in Containers : PortGivenBack(x) => PortGivenBack(x)'
  BY <1>1 DEF PortGivenBack
<1>9. PortsExclusive' /\ NoMisrouting' /\ ListenersHaveRoutes'
  BY <1>2, <1>8, Known DEF PortInv, PortsExclusive, NoMisrouting, ListenersHaveRoutes,
     ContainerExists, TypeOK
<1> QED
  BY <1>4, <1>5, <1>6, <1>7, <1>9 DEF PortInv

\* The port was free, so no container had it.
LEMMA CreateAllocPortPorts ==
    ASSUME WellBehaved, GpuInv, CleanInv, PortInv, NEW r \in Requests, CreateAllocPort(r)
    PROVE  PortInv'
<1>1. PICK p \in Ports : /\ AllocPort(p, req[r].c)
                        /\ req' = [req EXCEPT ![r].step = "insert", ![r].port = p]
  BY DEF CreateAllocPort
<1>2. /\ req[r].op = "create" /\ req[r].step = "port" /\ req[r].c \in Containers
      /\ req[r] \in Request /\ req \in [Requests -> Request]
  BY Known DEF CreateAllocPort, At, TypeOK
<1>3. \A q \in Requests \ {r} : req'[q] = req[q]
  BY <1>1, <1>2
<1>4. /\ req'[r].op = "create" /\ req'[r].step = "insert" /\ req'[r].c = req[r].c
      /\ req'[r].port = p /\ req'[r].gone = req[r].gone
  <2>1. req'[r] = [req[r] EXCEPT !.step = "insert", !.port = p]
    BY <1>1, <1>2
  <2> QED
    BY <1>2, <2>1 DEF Request
<1>5. /\ UNCHANGED <<rows, issued, dispatched, routes, listeners, binding>>
      /\ portAlloc[p] = NoContainer
      /\ \A q \in Ports : portAlloc'[q] = IF q = p THEN req[r].c ELSE portAlloc[q]
  BY <1>1, Known DEF CreateAllocPort, AllocPort, FreePorts, StoreStep, KeepsAgents, proxyVars,
     TypeOK, StoreTypeOK
<1>6. RequestsApart'
  BY <1>2, <1>3, <1>4, OthersApart
<1>7. RequestsKnowRows'
  <2>1. ASSUME NEW q \in Requests \ {r}, Rowless(q), req[q].port # NoPort
        PROVE  portAlloc'[req[q].port] = req[q].c
    BY <1>5, <2>1, Known DEF PortInv, RequestsKnowRows, Rowless
  <2>2. Rowless(r)' /\ ~ContainerExists(req[r].c)' /\ portAlloc'[p] = req[r].c
    BY <1>2, <1>4, <1>5 DEF PortInv, RequestsKnowRows, Rowless, ContainerExists
  <2> SUFFICES ASSUME NEW q \in Requests, req'[q].op # "none"
               PROVE  /\ req'[q].step # "unport"
                      /\ req'[q].step \in {"binding", "freePort", "cleanPort"} => req'[q].port # NoPort
                      /\ Rowless(q)' => /\ ~ContainerExists(req[q].c)'
                                        /\ req'[q].port # NoPort => portAlloc'[req'[q].port] = req'[q].c
                      /\ ~Rowless(q)' => /\ ContainerExists(req[q].c)'
                                         /\ rows'[req'[q].c].port = req'[q].port
    BY DEF RequestsKnowRows
  <2>3. CASE q = r
    BY <1>4, <2>2, <2>3 DEF ContainerExists
  <2>4. CASE q # r
    BY <1>3, <1>5, <2>1, <2>4 DEF PortInv, RequestsKnowRows, Rowless, ContainerExists
  <2> QED
    BY <2>3, <2>4
<1>8. RoutesKnown'
  <2>1. \A q \in Requests : Unrouted(q)' => Unrouted(q) /\ req'[q].c = req[q].c
    <3>1. Unrouted(r)
      BY <1>2 DEF Unrouted
    <3>2. \A q \in Requests \ {r} : Unrouted(q)' <=> Unrouted(q)
      BY <1>3 DEF Unrouted, Closed
    <3> QED
      BY <1>3, <1>4, <3>1, <3>2
  <2> QED
    <3>1. RoutesKnown
      BY DEF PortInv
    <3> QED
      BY <1>5, <2>1, <3>1 DEF RoutesKnown, ContainerExists
<1>9. RoutesOwn'
  <2>1. ~Routing(r)' /\ req'[r].step # "binding"
    BY <1>4 DEF Routing
  <2> QED
    BY <1>3, <1>5, <2>1 DEF PortInv, RoutesOwn, Routing
<1>10. \A x \in Containers : PortGivenBack(x) => PortGivenBack(x)'
  BY <1>2, <1>3 DEF PortGivenBack
<1>11. PortsExclusive'
  BY <1>5, <1>10, Known DEF PortInv, PortsExclusive, ContainerExists
<1>12. NoMisrouting' /\ ListenersHaveRoutes'
  BY <1>5, <1>10, Known DEF PortInv, NoMisrouting, ListenersHaveRoutes, ContainerExists, TypeOK
<1> QED
  BY <1>6, <1>7, <1>8, <1>9, <1>11, <1>12 DEF PortInv

\* The new row has the port its create holds; no route leads to it yet.
LEMMA CreateInsertPorts ==
    ASSUME WellBehaved, GpuInv, PortInv, NEW r \in Requests, CreateInsert(r)
    PROVE  PortInv'
<1>1. PICK c \in Containers, s \in {"gpus", "route", "send"} :
        /\ c = req[r].c /\ req[r].op = "create" /\ req[r].step = "insert"
        /\ s = "send" => req[r].port = NoPort
        /\ Goto(r, s)
        /\ ~ContainerExists(c)
        /\ rows'[c].port = req[r].port /\ ContainerExists(c)'
        /\ \A x \in Containers \ {c} : rows'[x] = rows[x]
  <2>1. /\ req[r].op = "create" /\ req[r].step = "insert" /\ req[r].c \in Containers
        /\ req[r].node \in Nodes /\ req[r].port \in Ports \cup {NoPort}
        /\ rows \in [Containers -> Row \cup {NoRow}]
    BY Known DEF CreateInsert, At, GpuInv, IdsIssued, TypeOK, StoreTypeOK
  <2>2. PICK row : /\ row = [node |-> req[r].node, state |-> "starting", saved |-> {},
                             port |-> req[r].port]
                   /\ rows' = [rows EXCEPT ![req[r].c] = row]
                   /\ ~ContainerExists(req[r].c)
    BY DEF CreateInsert, InsertContainer
  <2>3. row \in Row /\ row.port = req[r].port
    BY <2>1, <2>2 DEF Row, States
  <2>4. /\ rows'[req[r].c] = row
        /\ \A x \in Containers \ {req[r].c} : rows'[x] = rows[x]
    BY <2>1, <2>2
  <2>5. PICK s \in {"gpus", "route", "send"} : Goto(r, s) /\ (s = "send" => req[r].port = NoPort)
    BY DEF CreateInsert, CreatePublish
  <2> QED
    BY <2>1, <2>2, <2>3, <2>4, <2>5, StoreAssumption DEF ContainerExists
<1>2. UNCHANGED <<portAlloc, issued, dispatched, routes, listeners, binding>>
  BY DEF CreateInsert, InsertContainer, StoreStep, KeepsAgents, proxyVars
<1>3. /\ \A q \in Requests \ {r} : req'[q] = req[q]
      /\ req'[r].op = "create" /\ req'[r].step = s /\ req'[r].c = c
      /\ req'[r].port = req[r].port /\ req'[r].gone = req[r].gone
  BY <1>1, Known, GotoFields, StepNames
<1>4. /\ c \notin dispatched
      /\ \A q \in Requests \ {r} : req[q].op # "none" => req[q].c # c
      /\ \A p \in Ports : routes[p] # c
      /\ req[r].port # NoPort => portAlloc[req[r].port] = c
  BY <1>1, Known DEF GpuInv, CreatesAlone, PortInv, RequestsApart, RequestsKnowRows, Rowless,
     RoutesKnown, Unrouted
<1>5. RequestsApart'
  BY <1>1, <1>3, OthersApart
<1>6. RequestsKnowRows'
  BY <1>1, <1>2, <1>3, <1>4, Known DEF PortInv, RequestsKnowRows, Rowless, ContainerExists
<1>7. RoutesKnown'
  BY <1>1, <1>2, <1>3, <1>4, Known
     DEF PortInv, RoutesKnown, Unrouted, Closed, ContainerExists
<1>8. RoutesOwn'
  BY <1>1, <1>2, <1>3 DEF PortInv, RoutesOwn, Routing
<1>9. \A x \in Containers : PortGivenBack(x) => PortGivenBack(x)'
  BY <1>1, <1>3 DEF PortGivenBack
<1>10. PortsExclusive'
  BY <1>1, <1>2, <1>4, <1>9 DEF PortInv, PortsExclusive, ContainerExists
<1>11. NoMisrouting' /\ ListenersHaveRoutes'
  BY <1>1, <1>2, <1>4, <1>9, Known
     DEF PortInv, NoMisrouting, ListenersHaveRoutes, ContainerExists, TypeOK
<1> QED
  BY <1>5, <1>6, <1>7, <1>8, <1>10, <1>11 DEF PortInv

\* A request that runs holds its port, until it has given it back, ...
LEMMA PortHeld ==
    ASSUME GpuInv, PortInv, NEW r \in Requests, req[r].op # "none", req[r].port # NoPort,
           ~GivingBack(r)
    PROVE  portAlloc[req[r].port] = req[r].c
<1>1. CASE Rowless(r)
  BY <1>1 DEF PortInv, RequestsKnowRows
<1>2. CASE ~Rowless(r)
  <2>1. /\ req[r].c \in Containers /\ ContainerExists(req[r].c)
        /\ rows[req[r].c].port = req[r].port
    BY <1>2, Known DEF PortInv, RequestsKnowRows
  <2>2. ~PortGivenBack(req[r].c)
    BY DEF PortGivenBack, GivingBack, PortInv, RequestsApart
  <2> QED
    BY <2>1, <2>2 DEF PortInv, PortsExclusive
<1> QED
  BY <1>1, <1>2

\* ... and no other does.
LEMMA PortUnshared ==
    ASSUME GpuInv, PortInv, NEW r \in Requests, NEW q \in Requests \ {r},
           req[r].op # "none", req[q].op # "none", req[r].port # NoPort,
           ~GivingBack(r), ~GivingBack(q)
    PROVE  req[q].port # req[r].port
BY PortHeld DEF PortInv, RequestsApart

\* The cleanup removes the row; the port stays with the request.
LEMMA CleanRowPorts ==
    ASSUME WellBehaved, GpuInv, PortInv, NEW r \in Requests, CleanRow(r)
    PROVE  PortInv'
<1>1. PICK c \in Containers :
        /\ c = req[r].c /\ req[r].op = "create" /\ req[r].step = "cleanRow" /\ ~req[r].gone
  BY Known DEF CleanRow, At, PortInv, RequestsApart
<1>2. /\ ~ContainerExists(c)'
      /\ \A x \in Containers \ {c} : rows'[x] = rows[x]
      /\ UNCHANGED <<portAlloc, issued, dispatched, routes, listeners, binding>>
  BY <1>1, Known DEF CleanRow, Attempt, Served, DeleteContainer, StoreStep, KeepsAgents,
     proxyVars, TypeOK, StoreTypeOK, ContainerExists
<1>3. \A q \in Requests \ {r} : req'[q] = req[q]
  BY <1>1, Known, GotoFields, FinishFields, StepNames DEF CleanRow
<1>4. \/ req'[r] = Idle
      \/ /\ req'[r].op = "create" /\ req'[r].step = "cleanPort" /\ req'[r].c = c
         /\ req'[r].port = req[r].port /\ req'[r].gone = req[r].gone /\ req[r].port # NoPort
  BY <1>1, Known, GotoFields, FinishFields, StepNames DEF CleanRow
<1>5. \A q \in Requests \ {r} : req[q].op # "none" => req[q].c # c
  BY <1>1 DEF PortInv, RequestsApart
<1>6. RequestsApart'
  BY <1>1, <1>3, <1>4, OthersApart
<1>7. RequestsKnowRows'
  <2>1. req[r].port # NoPort => portAlloc[req[r].port] = c
    BY <1>1, PortHeld DEF GivingBack
  <2> QED
    BY <1>2, <1>3, <1>4, <1>5, <2>1, Known DEF PortInv, RequestsKnowRows, Rowless, ContainerExists
<1>8. RoutesKnown'
  BY <1>2, <1>3, <1>4, Known DEF PortInv, RoutesKnown, Unrouted, Closed, ContainerExists
<1>9. RoutesOwn'
  BY <1>2, <1>3, <1>4, Known DEF PortInv, RoutesOwn, Routing
<1>10. \A x \in Containers : PortGivenBack(x) => PortGivenBack(x)'
  BY <1>1, <1>3 DEF PortGivenBack
<1>11. PortsExclusive'
  BY <1>2, <1>10 DEF PortInv, PortsExclusive, ContainerExists
<1>12. NoMisrouting' /\ ListenersHaveRoutes'
  BY <1>2, <1>10, Known DEF PortInv, NoMisrouting, ListenersHaveRoutes, ContainerExists, TypeOK
<1> QED
  BY <1>6, <1>7, <1>8, <1>9, <1>11, <1>12 DEF PortInv

\* The port given back was the request's, and its row is gone.
LEMMA CleanPortPorts ==
    ASSUME WellBehaved, GpuInv, PortInv, NEW r \in Requests, CleanPort(r)
    PROVE  PortInv'
<1>1. PICK p \in Ports, c \in Containers :
        /\ c = req[r].c /\ p = req[r].port /\ req[r].op = "create" /\ req[r].step = "cleanPort"
        /\ ~req[r].gone /\ ~ContainerExists(c) /\ portAlloc[p] = c
  <2>1. req[r].op = "create" /\ req[r].step = "cleanPort" /\ ~req[r].gone
    BY DEF CleanPort, At, PortInv, RequestsApart
  <2>2. req[r].port # NoPort /\ ~ContainerExists(req[r].c) /\ portAlloc[req[r].port] = req[r].c
    BY <2>1 DEF PortInv, RequestsKnowRows, Rowless
  <2> QED
    BY <2>1, <2>2, Known
<1>2. /\ \A q \in Ports : portAlloc'[q] = IF q = p THEN NoContainer ELSE portAlloc[q]
      /\ UNCHANGED <<rows, issued, dispatched, routes, listeners, binding>>
  BY <1>1 DEF CleanPort, Attempt, Served, FreePort, StoreStep, KeepsAgents, proxyVars
<1>3. /\ \A q \in Requests \ {r} : req'[q] = req[q]
      /\ req'[r] = Idle
  BY Known, FinishFields DEF CleanPort
<1>4. RequestsApart'
  BY <1>3, OthersApart
<1>5. RequestsKnowRows'
  <2>1. ASSUME NEW q \in Requests \ {r}, req[q].op # "none", Rowless(q), req[q].port # NoPort
        PROVE  portAlloc'[req[q].port] = req[q].c
    BY <1>1, <1>2, <2>1, Known, PortUnshared, PortHeld DEF GivingBack, Rowless
  <2> QED
    BY <1>2, <1>3, <2>1, Known DEF PortInv, RequestsKnowRows, Rowless, ContainerExists
<1>6. RoutesKnown'
  BY <1>2, <1>3, Known DEF PortInv, RoutesKnown, Unrouted, Closed, ContainerExists
<1>7. RoutesOwn'
  BY <1>2, <1>3, Known DEF PortInv, RoutesOwn, Routing
<1>8. \A x \in Containers : PortGivenBack(x) => PortGivenBack(x)'
  BY <1>1, <1>3 DEF PortGivenBack
<1>9. PortsExclusive'
  BY <1>1, <1>2, <1>8, Known DEF PortInv, PortsExclusive, ContainerExists
<1>10. NoMisrouting' /\ ListenersHaveRoutes'
  BY <1>2, <1>8, Known DEF PortInv, NoMisrouting, ListenersHaveRoutes, ContainerExists, TypeOK
<1> QED
  BY <1>4, <1>5, <1>6, <1>7, <1>9, <1>10 DEF PortInv

\* A delete gives its own port back: nobody else relies on it.
LEMMA DeleteFreePortPorts ==
    ASSUME WellBehaved, GpuInv, PortInv, NEW r \in Requests, DeleteFreePort(r)
    PROVE  PortInv'
<1>1. PICK p \in Ports, c \in Containers :
        /\ c = req[r].c /\ p = req[r].port /\ req[r].op = "delete" /\ req[r].step = "freePort"
        /\ ~req[r].gone /\ portAlloc[p] = c
  <2>1. req[r].op = "delete" /\ req[r].step = "freePort" /\ ~req[r].gone /\ ~GivingBack(r)
    BY DEF DeleteFreePort, At, PortInv, RequestsApart, GivingBack
  <2>2. req[r].port # NoPort
    BY <2>1 DEF PortInv, RequestsKnowRows
  <2> QED
    BY <2>1, <2>2, Known, PortHeld
<1>2. /\ \A q \in Ports : portAlloc'[q] = IF q = p THEN NoContainer ELSE portAlloc[q]
      /\ UNCHANGED <<rows, issued, dispatched, routes, listeners, binding>>
  BY <1>1 DEF DeleteFreePort, Attempt, Served, FreePort, StoreStep, KeepsAgents, proxyVars
<1>3. /\ \A q \in Requests \ {r} : req'[q] = req[q]
      /\ req'[r].op = "delete" /\ req'[r].step = "release" /\ req'[r].c = c
      /\ req'[r].port = p /\ req'[r].gone = req[r].gone
  BY <1>1, Known, GotoFields, StepNames DEF DeleteFreePort
<1>4. RequestsApart'
  BY <1>1, <1>3, OthersApart
<1>5. RequestsKnowRows'
  <2>1. ASSUME NEW q \in Requests \ {r}, req[q].op # "none", Rowless(q), req[q].port # NoPort
        PROVE  portAlloc'[req[q].port] = req[q].c
    BY <1>1, <1>2, <2>1, Known, PortUnshared, PortHeld DEF GivingBack, Rowless
  <2>2. ContainerExists(c) /\ rows[c].port = p
    BY <1>1 DEF PortInv, RequestsKnowRows, Rowless
  <2> QED
    BY <1>2, <1>3, <2>1, <2>2 DEF PortInv, RequestsKnowRows, Rowless, ContainerExists
<1>6. RoutesKnown'
  <2>1. \A q \in Requests : Unrouted(q)' => Unrouted(q) /\ req'[q].c = req[q].c
    BY <1>1, <1>3 DEF Unrouted, Closed
  <2> QED
    BY <1>2, <2>1 DEF PortInv, RoutesKnown, ContainerExists
<1>7. RoutesOwn'
  BY <1>2, <1>3 DEF PortInv, RoutesOwn, Routing
<1>8. /\ \A x \in Containers : PortGivenBack(x) => PortGivenBack(x)'
      /\ PortGivenBack(c)'
  BY <1>1, <1>3 DEF PortGivenBack
<1>9. PortsExclusive'
  BY <1>1, <1>2, <1>8, Known DEF PortInv, PortsExclusive, ContainerExists
<1>10. NoMisrouting' /\ ListenersHaveRoutes'
  BY <1>2, <1>8, Known DEF PortInv, NoMisrouting, ListenersHaveRoutes, ContainerExists, TypeOK
<1> QED
  BY <1>4, <1>5, <1>6, <1>7, <1>9, <1>10 DEF PortInv

\* The row goes last.
LEMMA DeleteRemovePorts ==
    ASSUME WellBehaved, GpuInv, PortInv, NEW r \in Requests, DeleteRemove(r)
    PROVE  PortInv'
<1>1. PICK c \in Containers :
        /\ c = req[r].c /\ req[r].op = "delete" /\ req[r].step = "remove" /\ ~req[r].gone
  BY Known DEF DeleteRemove, At, PortInv, RequestsApart
<1>2. /\ ~ContainerExists(c)'
      /\ \A x \in Containers \ {c} : rows'[x] = rows[x]
      /\ UNCHANGED <<portAlloc, issued, dispatched, routes, listeners, binding>>
  BY <1>1, Known DEF DeleteRemove, Attempt, Served, DeleteContainer, StoreStep, KeepsAgents,
     proxyVars, TypeOK, StoreTypeOK, ContainerExists
<1>3. /\ \A q \in Requests \ {r} : req'[q] = req[q]
      /\ req'[r] = Idle
  BY Known, FinishFields DEF DeleteRemove
<1>4. \A q \in Requests \ {r} : req[q].op # "none" => req[q].c # c
  BY <1>1 DEF PortInv, RequestsApart
<1>5. RequestsApart'
  BY <1>3, OthersApart
<1>6. RequestsKnowRows'
  BY <1>2, <1>3, <1>4, Known DEF PortInv, RequestsKnowRows, Rowless, ContainerExists
<1>7. RoutesKnown'
  BY <1>2, <1>3, Known DEF PortInv, RoutesKnown, Unrouted, Closed, ContainerExists
<1>8. RoutesOwn'
  BY <1>2, <1>3, Known DEF PortInv, RoutesOwn, Routing
<1>9. \A x \in Containers \ {c} : PortGivenBack(x) => PortGivenBack(x)'
  BY <1>1, <1>3 DEF PortGivenBack
<1>10. PortsExclusive'
  BY <1>2, <1>9 DEF PortInv, PortsExclusive, ContainerExists
<1>11. NoMisrouting' /\ ListenersHaveRoutes'
  BY <1>2, <1>9, Known DEF PortInv, NoMisrouting, ListenersHaveRoutes, ContainerExists, TypeOK
<1> QED
  BY <1>5, <1>6, <1>7, <1>8, <1>10, <1>11 DEF PortInv

\* The port is held by the container the route now leads to.
LEMMA RouteRegisterPorts ==
    ASSUME WellBehaved, GpuInv, PortInv, NEW r \in Requests, RouteRegister(r)
    PROVE  PortInv'
<1>1. PICK p \in Ports, c \in Containers :
        /\ c = req[r].c /\ p = req[r].port /\ req[r].step = "route"
        /\ req[r].op \in {"create", "start"}
        /\ ContainerExists(c) /\ rows[c].port = p /\ portAlloc[p] = c
  <2>1. req[r].step = "route" /\ req[r].op \in {"create", "start"} /\ req[r].port # NoPort
    BY DEF RouteRegister, At, GpuInv, ProxyUsersHavePorts
  <2>2. ContainerExists(req[r].c) /\ rows[req[r].c].port = req[r].port
    BY <2>1 DEF PortInv, RequestsKnowRows, Rowless
  <2>3. portAlloc[req[r].port] = req[r].c
    BY <2>1, PortHeld DEF GivingBack
  <2> QED
    BY <2>1, <2>2, <2>3, Known
<1>2. /\ \A q \in Ports : routes'[q] = IF q = p THEN c ELSE routes[q]
      /\ UNCHANGED <<rows, portAlloc, issued, dispatched, listeners, binding>>
  BY <1>1, Known DEF RouteRegister, RegisterRoute, ProxyStep, KeepsAgents, storeVars, TypeOK,
     ProxyTypeOK
<1>3. /\ \A q \in Requests \ {r} : req'[q] = req[q]
      /\ req'[r].op = req[r].op /\ req'[r].step = "bind" /\ req'[r].c = c
      /\ req'[r].port = p /\ req'[r].gone = req[r].gone
  BY <1>1, Known, GotoFields, StepNames DEF RouteRegister
<1>4. /\ c \in issued
      /\ \A q \in Requests \ {r} : req[q].op # "none" => req[q].c # c
  BY <1>1 DEF GpuInv, IdsIssued, PortInv, RequestsApart
<1>5. RequestsApart'
  BY <1>1, <1>3, OthersApart
<1>6. RequestsKnowRows'
  BY <1>1, <1>2, <1>3 DEF PortInv, RequestsKnowRows, Rowless, ContainerExists
<1>7. RoutesKnown'
  <2>1. \A q \in Requests : Unrouted(q)' => Unrouted(q) /\ q # r /\ req'[q].c = req[q].c
    BY <1>1, <1>3 DEF Unrouted, Closed
  <2>2. \A q \in Requests \ {r} : Unrouted(q) => req[q].c # c
    BY <1>4 DEF Unrouted, Closed
  <2> QED
    BY <1>1, <1>2, <1>4, <2>1, <2>2 DEF PortInv, RoutesKnown, ContainerExists
<1>8. RoutesOwn'
  <2>1. \A q \in Requests \ {r} : Routing(q) => req[q].port # p
    BY <1>1, Known, PortUnshared DEF PortInv, RoutesOwn, Routing, GivingBack
  <2> QED
    BY <1>1, <1>2, <1>3, <2>1, Known DEF PortInv, RoutesOwn, Routing
<1>9. \A x \in Containers : PortGivenBack(x) => PortGivenBack(x)'
  BY <1>1, <1>3 DEF PortGivenBack
<1>10. PortsExclusive'
  BY <1>2, <1>9 DEF PortInv, PortsExclusive, ContainerExists
<1>11. NoMisrouting'
  <2> SUFFICES ASSUME NEW d \in dispatched, ContainerExists(d), rows[d].port # NoPort,
                      ~PortGivenBack(d)
               PROVE  routes'[rows[d].port] \in {d, NoContainer}
    BY <1>2, <1>9, Known DEF NoMisrouting, ContainerExists, TypeOK
  <2>1. /\ d \in Containers /\ rows[d].port \in Ports
        /\ portAlloc[rows[d].port] = d
        /\ routes[rows[d].port] \in {d, NoContainer}
    BY Known DEF PortInv, PortsExclusive, NoMisrouting, TypeOK
  <2> QED
    BY <1>1, <1>2, <2>1
<1>12. ListenersHaveRoutes'
  BY <1>1, <1>2, Known DEF PortInv, ListenersHaveRoutes, TypeOK, ProxyTypeOK
<1> QED
  BY <1>5, <1>6, <1>7, <1>8, <1>10, <1>11, <1>12 DEF PortInv

\* Of a stop or a delete: the route and the listener of its own port go together.
LEMMA UnroutePorts ==
    ASSUME WellBehaved, GpuInv, PortInv, NEW r \in Requests, StopUnroute(r) \/ DeleteUnroute(r)
    PROVE  /\ PortInv'
           /\ \A q \in Ports : routes[q] # NoContainer /\ ContainerExists(routes[q])
                                /\ routes'[q] = NoContainer => req[r].c = routes[q]
<1>1. PICK p \in Ports, c \in Containers, s \in {"freePort", "release"} :
        /\ c = req[r].c /\ p = req[r].port /\ req[r].step = "unroute"
        /\ req[r].op \in {"stop", "delete"}
        /\ s = "freePort" <=> req[r].op = "delete"
        /\ Goto(r, s)
        /\ ContainerExists(c) /\ rows[c].port = p /\ portAlloc[p] = c
  <2>1. /\ req[r].step = "unroute" /\ req[r].op \in {"stop", "delete"}
        /\ req[r].port # NoPort /\ ~Rowless(r) /\ ~GivingBack(r)
    BY DEF StopUnroute, DeleteUnroute, At, GpuInv, ProxyUsersHavePorts, Rowless, GivingBack
  <2>2. ContainerExists(req[r].c) /\ rows[req[r].c].port = req[r].port
    BY <2>1 DEF PortInv, RequestsKnowRows
  <2>3. portAlloc[req[r].port] = req[r].c
    BY <2>1, PortHeld
  <2>4. PICK s \in {"freePort", "release"} :
          Goto(r, s) /\ (s = "freePort" <=> req[r].op = "delete")
    BY DEF StopUnroute, DeleteUnroute, At
  <2> QED
    BY <2>1, <2>2, <2>3, <2>4, Known
<1>2. /\ \A q \in Ports : routes'[q] = IF q = p THEN NoContainer ELSE routes[q]
      /\ listeners' = listeners \ {p}
      /\ UNCHANGED <<rows, portAlloc, issued, dispatched, binding>>
  BY <1>1, Known DEF StopUnroute, DeleteUnroute, UnregisterRoute, ProxyStep, KeepsAgents,
     storeVars, TypeOK, ProxyTypeOK
<1>3. /\ \A q \in Requests \ {r} : req'[q] = req[q]
      /\ req'[r].op = req[r].op /\ req'[r].step = s /\ req'[r].c = c
      /\ req'[r].port = p /\ req'[r].gone = req[r].gone
  BY <1>1, Known, GotoFields, StepNames
<1>4. RequestsApart'
  BY <1>1, <1>3, OthersApart
<1>5. RequestsKnowRows'
  BY <1>1, <1>2, <1>3, DomainAssumption DEF PortInv, RequestsKnowRows, Rowless, ContainerExists
<1>6. RoutesKnown'
  <2>1. \A q \in Requests \ {r} : Unrouted(q)' <=> Unrouted(q)
    BY <1>3 DEF Unrouted, Closed
  <2>2. \A q \in Ports \ {p} : routes[q] # c
    BY <1>1, Known DEF PortInv, RoutesKnown
  <2> QED
    BY <1>2, <1>3, <2>1, <2>2 DEF PortInv, RoutesKnown, ContainerExists
<1>7. RoutesOwn'
  <2>1. \A q \in Requests \ {r} : Routing(q) => req[q].port # p
    BY <1>1, Known, PortUnshared DEF PortInv, RoutesOwn, Routing, GivingBack
  <2>2. ~Routing(r)' /\ req'[r].step # "binding"
    BY <1>1, <1>3 DEF Routing
  <2> QED
    BY <1>2, <1>3, <2>1, <2>2, Known DEF PortInv, RoutesOwn, Routing
<1>8. \A x \in Containers : PortGivenBack(x) => PortGivenBack(x)'
  BY <1>1, <1>3 DEF PortGivenBack
<1>9. PortsExclusive'
  BY <1>2, <1>8 DEF PortInv, PortsExclusive, ContainerExists
<1>10. NoMisrouting'
  BY <1>2, <1>8, Known DEF PortInv, NoMisrouting, ContainerExists, TypeOK
<1>11. ListenersHaveRoutes'
  BY <1>2, Known DEF PortInv, ListenersHaveRoutes, TypeOK, ProxyTypeOK
<1>12. ASSUME NEW q \in Ports, routes[q] # NoContainer, ContainerExists(routes[q]),
              routes'[q] = NoContainer
       PROVE  req[r].c = routes[q]
  <2>1. q = p
    BY <1>2, <1>12
  <2>2. /\ routes[p] \in Containers /\ rows[routes[p]].port = p /\ p # NoPort
    BY <1>12, <2>1, Known DEF PortInv, RoutesKnown
  <2>3. ASSUME PortGivenBack(routes[p])
        PROVE  FALSE
    <3>1. PICK k \in Requests : Unrouted(k) /\ req[k].c = routes[p]
      BY <2>3 DEF PortGivenBack, Unrouted, Closed
    <3> QED
      BY <1>12, <2>1, <3>1 DEF PortInv, RoutesKnown
  <2> QED
    BY <1>1, <1>12, <2>1, <2>2, <2>3 DEF PortInv, PortsExclusive
<1> QED
  BY <1>4, <1>5, <1>6, <1>7, <1>9, <1>10, <1>11, <1>12 DEF PortInv

-----------------------------------------------------------------------------
(***************************************************************************)
(* The theorems.                                                           *)
(***************************************************************************)
LEMMA PortInvStart == Init => PortInv
BY IdleFields, Known, DomainAssumption DEF Init, StoreInit, ProxyInit, PortInv, RequestsApart,
   RequestsKnowRows, RoutesKnown, RoutesOwn, Routing, PortsExclusive, NoMisrouting,
   ListenersHaveRoutes, ContainerExists, Idle

LEMMA TurningPorts ==
    ASSUME WellBehaved, GpuInv, CleanInv, PortInv, NEW r \in Requests, Turning(r)
    PROVE  PortInv'
BY CreateBeginPorts, CreateAllocPortPorts, CreateInsertPorts, CleanRowPorts, CleanPortPorts,
   RouteRegisterPorts, UnroutePorts, DeleteFreePortPorts, DeleteRemovePorts DEF Turning

LEMMA PortInvStep ==
    WellBehaved /\ GpuInv /\ GpuInv' /\ CleanInv /\ PortInv /\ [Next]_vars => PortInv'
<1>1. GpuInv' => TypeOK'
  BY DEF GpuInv
<1> QED
  BY <1>1, CalmSteps, CalmInv, TurningPorts

(***************************************************************************)
(* With well-behaved clients, whatever sends fail, transactions are        *)
(* refused, streams break and agents report: rows, ports, routes,          *)
(* listeners and requests stay what PortInv says of them.                  *)
(***************************************************************************)
THEOREM PortInvariant == WellBehaved => (Spec => []PortInv)
<1> SUFFICES ASSUME WellBehaved PROVE Spec => []PortInv
  OBVIOUS
<1>1. GpuInv /\ GpuInv' /\ CleanInv /\ PortInv /\ [Next]_vars => PortInv'
  BY PortInvStep
<1> QED
  BY <1>1, PortInvStart, GpuInvariant, CleanInvariant, PTL DEF Spec

\* PortsExclusive: no port is given to two containers.  (port_test.go:62)
THEOREM PortsStayExclusive == WellBehaved => (Spec => []PortsExclusive)
<1> SUFFICES ASSUME WellBehaved PROVE Spec => []PortsExclusive
  OBVIOUS
<1>1. PortInv => PortsExclusive
  BY DEF PortInv
<1> QED
  BY <1>1, PortInvariant, PTL

\* NoDuplicatePort: no two containers the master knows share a public port.
THEOREM NoPortIsShared == WellBehaved => (Spec => []NoDuplicatePort)
<1> SUFFICES ASSUME WellBehaved PROVE Spec => []NoDuplicatePort
  OBVIOUS
<1>1. PortInv => NoDuplicatePort
  BY DEF PortInv, PortsExclusive, NoDuplicatePort
<1> QED
  BY <1>1, PortInvariant, PTL

\* NoMisrouting: traffic for a container an agent runs reaches no other container.
THEOREM TrafficIsNotMisrouted == WellBehaved => (Spec => []NoMisrouting)
<1> SUFFICES ASSUME WellBehaved PROVE Spec => []NoMisrouting
  OBVIOUS
<1>1. PortInv => NoMisrouting
  BY DEF PortInv
<1> QED
  BY <1>1, PortInvariant, PTL

\* ListenersHaveRoutes: no listener stays open on a port without a route.
THEOREM ListenersKeepRoutes == WellBehaved => (Spec => []ListenersHaveRoutes)
<1> SUFFICES ASSUME WellBehaved PROVE Spec => []ListenersHaveRoutes
  OBVIOUS
<1>1. PortInv => ListenersHaveRoutes
  BY DEF PortInv
<1> QED
  BY <1>1, PortInvariant, PTL

(***************************************************************************)
(* Only a stop or a delete of a known container closes its route; every    *)
(* other step keeps the routes there are.  (api.go:626-629, 743-747)       *)
(***************************************************************************)
LEMMA RoutesKept ==
    ASSUME WellBehaved, GpuInv, PortInv, [Next]_vars,
           NEW p \in Ports, routes[p] # NoContainer, ContainerExists(routes[p]),
           routes'[p] = NoContainer
    PROVE  \E r \in Requests : req[r].op \in {"stop", "delete"} /\ req[r].c = routes[p]
<1>1. ~Calm
  BY DEF Calm
<1>2. ASSUME NEW r \in Requests, Turning(r), ~StopUnroute(r), ~DeleteUnroute(r)
      PROVE  FALSE
  <2>1. ~RouteRegister(r)
    <3> SUFFICES ASSUME RouteRegister(r) PROVE FALSE
      OBVIOUS
    <3>1. req[r].op # "none" /\ routes' = [routes EXCEPT ![req[r].port] = req[r].c]
      BY DEF RouteRegister, At, RegisterRoute
    <3> QED
      BY <3>1, Known DEF TypeOK, ProxyTypeOK
  <2> QED
    BY <1>2, <2>1 DEF Turning, CreateBegin, CreateAllocPort, CreateInsert, CleanRow, CleanPort,
       DeleteFreePort, DeleteRemove, StoreStep, proxyVars
<1>3. PICK r \in Requests : StopUnroute(r) \/ DeleteUnroute(r)
  BY <1>1, <1>2, CalmSteps
<1> QED
  BY <1>3, UnroutePorts DEF StopUnroute, DeleteUnroute, At

THEOREM RoutesClosedByOwners == WellBehaved => (Spec => RouteClosedByOwner)
<1> SUFFICES ASSUME WellBehaved PROVE Spec => RouteClosedByOwner
  OBVIOUS
<1>1. GpuInv /\ PortInv /\ [Next]_vars =>
        [\A p \in Ports :
           routes[p] # NoContainer /\ ContainerExists(routes[p]) /\ routes'[p] = NoContainer =>
              \E r \in Requests : req[r].op \in {"stop", "delete"} /\ req[r].c = routes[p]]_vars
  BY RoutesKept
<1> QED
  BY <1>1, GpuInvariant, PortInvariant, PTL DEF Spec, RouteClosedByOwner

(***************************************************************************)
(* The proxy inside the master behaves as Proxy specifies it, whatever the *)
(* handlers, the clients and the faults do.                                *)
(***************************************************************************)
THEOREM MasterImplementsProxy == Spec => ProxySpec
<1>1. Init => ProxyInit
  BY DEF Init
<1>2. GpuInv /\ [Next]_vars => [ProxyNext]_proxyVars
  BY ProxySteps DEF GpuInv
<1> QED
  BY <1>1, <1>2, GpuInvariant, PTL DEF Spec, ProxySpec
=============================================================================
