--------------------------- MODULE CleanupProofs ---------------------------
(***************************************************************************)
(* A create whose command could not be sent gives back everything it took: *)
(* proof of FailedSendReleasesAll, for any containers, ports, requests and *)
(* clients and with every fault.                                           *)
(***************************************************************************)
EXTENDS MasterProofs

(***************************************************************************)
(* The fields of a request that moves on, and of one that ends.            *)
(***************************************************************************)
LEMMA GotoFields ==
    ASSUME TypeOK, NEW r \in Requests, NEW s \in Steps, Goto(r, s)
    PROVE  /\ \A q \in Requests \ {r} : req'[q] = req[q]
           /\ req'[r].op = req[r].op /\ req'[r].step = s /\ req'[r].c = req[r].c
           /\ req'[r].port = req[r].port /\ req'[r].gone = req[r].gone
<1>1. ReqTypeOK /\ req[r] \in Request
  BY DEF TypeOK, ReqTypeOK
<1>2. /\ \A q \in Requests \ {r} : req'[q] = req[q]
      /\ req'[r] = [req[r] EXCEPT !.step = s]
  BY <1>1, GotoFacts
<1> QED
  BY <1>1, <1>2 DEF Request

LEMMA FinishFields ==
    ASSUME TypeOK, NEW r \in Requests, Finish(r)
    PROVE  /\ \A q \in Requests \ {r} : req'[q] = req[q]
           /\ req'[r] = Idle /\ req'[r].op = "none" /\ req'[r].step = "none"
           /\ req'[r].c = NoContainer /\ req'[r].port = NoPort /\ ~req'[r].gone
<1>1. ReqTypeOK
  BY DEF TypeOK, ReqTypeOK
<1>2. (\A q \in Requests \ {r} : req'[q] = req[q]) /\ req'[r] = Idle
  BY <1>1, FinishFacts
<1>3. /\ Idle.op = "none" /\ Idle.step = "none" /\ Idle.c = NoContainer
      /\ Idle.port = NoPort /\ ~Idle.gone
  BY DEF Idle
<1> QED
  BY <1>2, <1>3

\* A request's step leaves the other requests alone.
LEMMA OthersWait ==
    ASSUME TypeOK, NEW r \in Requests, RequestStep(r)
    PROVE  \A q \in Requests \ {r} : req'[q] = req[q]
<1>1. req \in [Requests -> Request]
  BY DEF TypeOK
<1> USE DEF Goto, Finish
<1>2. CASE CreateStep(r)
  BY <1>1, <1>2 DEF CreateStep, CreateBegin, CreateAllocPort, CreateAllocPortFails,
     CreateInsert, CreateInsertFails, CreateFreePort, CreateAllocGPUs,
     CreateAllocGPUsFails, CreatePersist, CreatePersistFails, CreateSend,
     CreateSendFails, CleanGPUs, CleanRow, CleanPort
<1>3. CASE PublishStep(r)
  BY <1>1, <1>3 DEF PublishStep, RouteRegister, BindPortCheck, BindPortListen,
     BindPortListenFails, BindPortRecord, AfterBind
<1>4. CASE StartStep(r)
  BY <1>1, <1>4 DEF StartStep, StartBegin, StartAllocGPUs, StartAllocGPUsFails, StartMark,
     StartSend, StartSendFails, StartRollback, StartRelease, Begin
<1>5. CASE StopStep(r)
  BY <1>1, <1>5 DEF StopStep, StopBegin, StopMark, StopSend, StopSendFails, StopRollback,
     StopUnroute, StopRelease, Begin
<1>6. CASE DeleteStep(r)
  BY <1>1, <1>6 DEF DeleteStep, DeleteBegin, DeleteSend, DeleteSendFails, DeleteUnroute,
     DeleteFreePort, DeleteRelease, DeleteRemove, Begin
<1>7. CASE ClientGone(r)
  BY <1>1, <1>7 DEF ClientGone
<1> QED
  BY <1>2, <1>3, <1>4, <1>5, <1>6, <1>7 DEF RequestStep

-----------------------------------------------------------------------------
(***************************************************************************)
(* The cleanup of a failed create.  Most steps give ports back at most,    *)
(* insert no row and leave the creates as they are, but for their steps.   *)
(***************************************************************************)
TidyRequest(q) ==
    \/ req'[q].op # "create"
    \/ /\ req'[q].op = req[q].op
       /\ req'[q].c = req[q].c
       /\ req'[q].port = req[q].port
       /\ req[q].gone => req'[q].gone
       /\ req'[q].step \in {"port", "cleanPort"} => req'[q].step = req[q].step

TidyTables ==
    /\ \A p \in Ports : portAlloc'[p] \in {portAlloc[p], NoContainer}
    /\ \A c \in Containers : ContainerExists(c)' => ContainerExists(c)

Tidy == TidyTables /\ (\A q \in Requests : TidyRequest(q)) /\ UNCHANGED issued

LEMMA TidyCalls ==
    ASSUME TypeOK, [Next]_vars,
           \/ UNCHANGED storeVars
           \/ \E c \in Containers :
                \/ \E s \in States : UpdateContainerState(c, s)
                \/ \E G \in SUBSET GPUs : UpdateContainerGPUIndices(c, G)
                \/ DeleteContainer(c)
                \/ FreeGPUs(c)
           \/ \E n \in Nodes, c \in Containers, G \in SUBSET GPUs : AllocSpecificGPUs(n, c, G)
           \/ \E p \in Ports \cup {NoPort} : FreePort(p)
    PROVE  TidyTables
<1> USE DEF TidyTables, ContainerExists
<1>1. CASE UNCHANGED storeVars
  BY <1>1 DEF storeVars
<1>2. ASSUME NEW c \in Containers,
             \/ \E s \in States : UpdateContainerState(c, s)
             \/ \E G \in SUBSET GPUs : UpdateContainerGPUIndices(c, G)
             \/ DeleteContainer(c)
             \/ FreeGPUs(c)
      PROVE  TidyTables
  BY <1>2 DEF UpdateContainerState, UpdateContainerGPUIndices, DeleteContainer, FreeGPUs,
     TypeOK, StoreTypeOK
<1>3. ASSUME NEW n \in Nodes, NEW c \in Containers, NEW G \in SUBSET GPUs,
             AllocSpecificGPUs(n, c, G)
      PROVE  TidyTables
  BY <1>3 DEF AllocSpecificGPUs
<1>4. ASSUME NEW p \in Ports \cup {NoPort}, FreePort(p)
      PROVE  TidyTables
  BY <1>4 DEF FreePort
<1> QED
  BY <1>1, <1>2, <1>3, <1>4

\* A request that moves on, ends or begins leaves the creates tidy.
LEMMA TidyRequests ==
    ASSUME TypeOK, NEW r \in Requests,
           \/ UNCHANGED req
           \/ Finish(r)
           \/ \E s \in Steps \ {"port", "cleanPort"} : Goto(r, s)
           \/ \E c, s, prior, G : \E op \in {"start", "stop", "delete"} :
                 Begin(r, op, c, s, prior, G)
    PROVE  \A q \in Requests : TidyRequest(q)
<1> USE DEF TidyRequest
<1>1. CASE UNCHANGED req
  BY <1>1
<1>2. CASE Finish(r)
  BY <1>2, FinishFields
<1>3. ASSUME NEW s \in Steps \ {"port", "cleanPort"}, Goto(r, s)
      PROVE  \A q \in Requests : TidyRequest(q)
  BY <1>3, GotoFields
<1>4. ASSUME NEW c, NEW s, NEW prior, NEW G, NEW op \in {"start", "stop", "delete"},
             Begin(r, op, c, s, prior, G)
      PROVE  \A q \in Requests : TidyRequest(q)
  BY <1>4 DEF Begin, TypeOK
<1> QED
  BY <1>1, <1>2, <1>3, <1>4

LEMMA TidySteps ==
    ASSUME GpuInv, [Next]_vars,
           \A r \in Requests :
               ~CreateBegin(r) /\ ~CreateAllocPort(r) /\ ~CreateInsert(r) /\ ~CleanRow(r)
    PROVE  Tidy
<1>0. TypeOK /\ IdsIssued /\ PriorsKnown
  BY DEF GpuInv
<1> USE DEF StoreStep, ProxyStep, LocalStep, KeepsAgents, MessageFrame, RevertFrame,
            KeepsRequests
<1>1. CASE UNCHANGED vars
  BY <1>0, <1>1, TidyCalls DEF vars, masterVars, Tidy, TidyRequest
<1>2. ASSUME NEW r \in Requests, CreateStep(r)
      PROVE  Tidy
  <2>1. CASE \/ CreateAllocPortFails(r) \/ CreateInsertFails(r) \/ CreateAllocGPUsFails(r)
             \/ CreatePersistFails(r) \/ CreateSend(r) \/ CreateSendFails(r)
    BY <1>0, <2>1, TidyCalls, TidyRequests, StepNames DEF CreateAllocPortFails,
       CreateInsertFails, CreateAllocGPUsFails, CreatePersistFails, CreateSend,
       CreateSendFails, Tidy
  <2>2. CASE CreateFreePort(r) \/ CleanPort(r)
    BY <1>0, <2>2, Running, TidyCalls, TidyRequests
       DEF CreateFreePort, CleanPort, At, Attempt, Tidy
  <2>3. CASE CreateAllocGPUs(r)
    <3>1. PICK G \in SUBSET GPUs :
            /\ AllocSpecificGPUs(req[r].node, req[r].c, G)
            /\ req' = [req EXCEPT ![r].step = "persist", ![r].gpus = G, ![r].count = 0]
      BY <1>0, <2>3, Reserves
    <3>2. req[r] \in Request /\ req \in [Requests -> Request]
      BY <1>0 DEF TypeOK
    <3>3. req'[r] = [req[r] EXCEPT !.step = "persist", !.gpus = G, !.count = 0]
      BY <3>1, <3>2
    <3>4. TidyRequest(r)
      BY <3>2, <3>3 DEF TidyRequest, Request
    <3>5. \A q \in Requests \ {r} : TidyRequest(q)
      BY <3>1, <3>2 DEF TidyRequest
    <3>6. TidyTables
      BY <1>0, <2>3, <3>1, Running, TidyCalls DEF CreateAllocGPUs, At
    <3> QED
      BY <2>3, <3>4, <3>5, <3>6 DEF CreateAllocGPUs, Tidy
  <2>4. CASE CreatePersist(r)
    BY <1>0, <2>4, Running, TidyCalls, TidyRequests, StepNames
       DEF CreatePersist, CreatePublish, At, Tidy
  <2>5. CASE CleanGPUs(r)
    BY <1>0, <2>5, Running, TidyCalls, TidyRequests, StepNames
       DEF CleanGPUs, At, Attempt, Tidy
  <2> QED
    BY <1>2, <2>1, <2>2, <2>3, <2>4, <2>5 DEF CreateStep
<1>3. ASSUME NEW r \in Requests, PublishStep(r)
      PROVE  Tidy
  BY <1>0, <1>3, TidyCalls, TidyRequests, StepNames DEF PublishStep, RouteRegister,
     BindPortCheck, BindPortListen, BindPortListenFails, BindPortRecord, AfterBind, Tidy
<1>4. ASSUME NEW r \in Requests, StartStep(r)
      PROVE  Tidy
  <2>1. CASE StartBegin(r)
    BY <1>0, <2>1, TidyCalls, TidyRequests DEF StartBegin, Tidy
  <2>2. CASE StartAllocGPUsFails(r) \/ StartSend(r) \/ StartSendFails(r)
    BY <1>0, <2>2, TidyCalls, TidyRequests, StepNames
       DEF StartAllocGPUsFails, StartSend, StartSendFails, Tidy
  <2>3. CASE StartAllocGPUs(r)
    BY <1>0, <2>3, Running, TidyCalls, TidyRequests, StepNames DEF StartAllocGPUs, At, Tidy
  <2>4. CASE StartMark(r)
    BY <1>0, <2>4, Running, TidyCalls, TidyRequests, StepNames
       DEF StartMark, At, Attempt, States, Tidy
  <2>5. CASE StartRollback(r) \/ StartRelease(r)
    BY <1>0, <2>5, Running, TidyCalls, TidyRequests, StepNames
       DEF StartRollback, StartRelease, At, Attempt, PriorsKnown, Tidy
  <2> QED
    BY <1>4, <2>1, <2>2, <2>3, <2>4, <2>5 DEF StartStep
<1>5. ASSUME NEW r \in Requests, StopStep(r)
      PROVE  Tidy
  <2>1. CASE StopBegin(r)
    BY <1>0, <2>1, TidyCalls, TidyRequests DEF StopBegin, Tidy
  <2>2. CASE StopSend(r) \/ StopSendFails(r) \/ StopUnroute(r)
    BY <1>0, <2>2, TidyCalls, TidyRequests, StepNames
       DEF StopSend, StopSendFails, StopUnroute, Tidy
  <2>3. CASE StopMark(r) \/ StopRollback(r) \/ StopRelease(r)
    BY <1>0, <2>3, Running, TidyCalls, TidyRequests, StepNames
       DEF StopMark, StopRollback, StopRelease, At, Attempt, States, PriorsKnown, Tidy
  <2> QED
    BY <1>5, <2>1, <2>2, <2>3 DEF StopStep
<1>6. ASSUME NEW r \in Requests, DeleteStep(r)
      PROVE  Tidy
  <2>1. CASE DeleteBegin(r)
    BY <1>0, <2>1, TidyCalls, TidyRequests DEF DeleteBegin, Tidy
  <2>2. CASE DeleteSend(r) \/ DeleteSendFails(r) \/ DeleteUnroute(r)
    BY <1>0, <2>2, TidyCalls, TidyRequests, StepNames
       DEF DeleteSend, DeleteSendFails, DeleteUnroute, Tidy
  <2>3. CASE DeleteFreePort(r) \/ DeleteRelease(r) \/ DeleteRemove(r)
    BY <1>0, <2>3, Running, TidyCalls, TidyRequests, StepNames
       DEF DeleteFreePort, DeleteRelease, DeleteRemove, At, Attempt, Tidy
  <2> QED
    BY <1>6, <2>1, <2>2, <2>3 DEF DeleteStep
<1>7. ASSUME NEW r \in Requests, ClientGone(r)
      PROVE  Tidy
  <2>1. req[r] \in Request /\ req \in [Requests -> Request]
    BY <1>0 DEF TypeOK
  <2>2. req'[r] = [req[r] EXCEPT !.gone = TRUE] /\ \A q \in Requests \ {r} : req'[q] = req[q]
    BY <1>7, <2>1 DEF ClientGone
  <2>3. \A q \in Requests : TidyRequest(q)
    BY <2>1, <2>2 DEF TidyRequest, Request
  <2> QED
    BY <1>0, <1>7, <2>3, TidyCalls DEF ClientGone, Tidy
<1>8. ASSUME NEW n \in Nodes, AgentStep(n)
      PROVE  Tidy
  <2>0. /\ handling[n].owes # "none" => handling[n].c \in Containers
        /\ reverting[n].todo \subseteq Containers
        /\ reverting[n].step = "free" => reverting[n].c \in Containers
    BY <1>0 DEF TypeOK, Handling, NoMessage, Reverting, NoRevert
  <2>1. (\A q \in Requests : TidyRequest(q)) /\ UNCHANGED issued
    BY <1>8 DEF AgentStep, HandleContainerCreated, HandleContainerStarted,
       HandleContainerStopped, HandleContainerStateChanged, HandleSecond, HandleSecondFails,
       Connect, Disconnect, RevertList, RevertMark, RevertFree, RevertFails, TidyRequest
  <2>2. ASSUME NEW c \in Containers,
               \/ HandleContainerCreated(n, c) \/ HandleContainerStarted(n, c)
               \/ HandleContainerStopped(n, c) \/ HandleContainerStateChanged(n, c)
        PROVE  TidyTables
    BY <1>0, <2>2, TidyCalls DEF HandleContainerCreated, HandleContainerStarted,
       HandleContainerStopped, HandleContainerStateChanged, States
  <2>3. CASE HandleSecond(n) \/ HandleSecondFails(n) \/ Connect(n) \/ Disconnect(n)
    BY <1>0, <2>0, <2>1, <2>3, TidyCalls DEF HandleSecond, HandleSecondFails, Connect,
       Disconnect, States, Tidy
  <2>4. CASE \/ RevertList(n) \/ RevertMark(n) \/ RevertFree(n) \/ RevertFails(n)
    BY <1>0, <2>0, <2>1, <2>4, TidyCalls DEF RevertList, RevertMark, RevertFree, RevertFails, States, Tidy
  <2> QED
    BY <1>8, <2>1, <2>2, <2>3, <2>4 DEF AgentStep, Tidy
<1>9. CASE Restart
  <2>1. \A q \in Requests : TidyRequest(q)
    BY <1>9, IdleFields DEF Restart, TidyRequest
  <2> QED
    BY <1>0, <1>9, <2>1, TidyCalls DEF Restart, Tidy
<1> QED
  BY <1>1, <1>2, <1>3, <1>4, <1>5, <1>6, <1>7, <1>8, <1>9 DEF Next, RequestStep

(***************************************************************************)
(* CleanInv is kept by tidy steps, and by the four others.                 *)
(***************************************************************************)
LEMMA CleanInvTidy ==
    ASSUME GpuInv, CleanInv, Tidy
    PROVE  CleanInv'
<1>1. \A r \in Requests : req[r].op = "create" => req[r].c \in Containers
  BY Running DEF GpuInv
<1>2. /\ \A p \in Ports : portAlloc'[p] \in {portAlloc[p], NoContainer}
      /\ \A c \in Containers : ContainerExists(c)' => ContainerExists(c)
  BY DEF Tidy, TidyTables
<1>3. \A p \in Ports : portAlloc'[p] # NoContainer => portAlloc'[p] \in issued'
  BY <1>2 DEF CleanInv, Tidy
<1>4. ASSUME NEW r \in Requests, req'[r].op = "create"
      PROVE  /\ \A p \in Ports : portAlloc'[p] = req'[r].c => p = req'[r].port
             /\ req'[r].step = "port" => req'[r].port = NoPort
             /\ req'[r].step = "cleanPort" /\ ~req'[r].gone => ~ContainerExists(req[r].c)'
  <2>1. /\ req[r].op = "create" /\ req[r].c \in Containers /\ req'[r].c = req[r].c
        /\ req'[r].port = req[r].port /\ (req[r].gone => req'[r].gone)
        /\ req'[r].step \in {"port", "cleanPort"} => req'[r].step = req[r].step
    BY <1>1, <1>4 DEF Tidy, TidyRequest
  <2>2. \A p \in Ports : portAlloc'[p] = req'[r].c => p = req'[r].port
    BY <1>2, <2>1, DomainAssumption DEF CleanInv
  <2>3. req'[r].step = "port" => req'[r].port = NoPort
    BY <2>1 DEF CleanInv
  <2>4. req'[r].step = "cleanPort" /\ ~req'[r].gone => ~ContainerExists(req[r].c)'
    BY <1>2, <2>1 DEF CleanInv, ContainerExists
  <2> QED
    BY <2>2, <2>3, <2>4
<1> QED
  BY <1>3, <1>4 DEF CleanInv

LEMMA CleanInvStep ==
    ASSUME GpuInv, CleanInv, [Next]_vars
    PROVE  CleanInv'
<1>0. /\ TypeOK /\ IdsIssued /\ CreatesAlone
      /\ req \in [Requests -> Request]
      /\ rows \in [Containers -> Row \cup {NoRow}]
      /\ portAlloc \in [Ports -> Containers \cup {NoContainer}]
  BY DEF GpuInv, TypeOK, StoreTypeOK
<1>1. ASSUME NEW r \in Requests, CreateBegin(r)
      PROVE  CleanInv'
  <2>1. PICK c \in Containers \ issued, x \in {"port", "insert"}, p \in Ports \cup {NoPort} :
          /\ issued' = issued \cup {c}
          /\ req'[r].op = "create" /\ req'[r].c = c /\ req'[r].step = x /\ req'[r].port = p
          /\ x = "port" => p = NoPort
          /\ \A q \in Requests \ {r} : req'[q] = req[q]
    <3>1. PICK c \in Containers \ issued, n \in online, publish \in BOOLEAN, G \in SUBSET GPUs,
               k \in Counts \cup {0}, ext \in ExplicitPorts \cup {NoPort} :
            /\ issued' = issued \cup {c}
            /\ req' = [req EXCEPT ![r] = CreateRequest(c, n, publish, ext, G, k)]
      BY <1>1, MasterAssumption DEF CreateBegin
    <3>2. ext \in Ports \cup {NoPort}
      BY MasterAssumption
    <3> QED
      BY <1>0, <3>1, <3>2 DEF CreateRequest
  <2>2. UNCHANGED <<rows, portAlloc>>
    BY <1>1 DEF CreateBegin, storeVars
  <2>3. \A q \in Ports : portAlloc[q] # c
    BY <1>0, <2>1, DomainAssumption DEF CleanInv
  <2> QED
    BY <2>1, <2>2, <2>3 DEF CleanInv, ContainerExists
<1>2. ASSUME NEW r \in Requests, CreateAllocPort(r)
      PROVE  CleanInv'
  <2>1. PICK p \in Ports : /\ AllocPort(p, req[r].c)
                          /\ req' = [req EXCEPT ![r].step = "insert", ![r].port = p]
    BY <1>2 DEF CreateAllocPort
  <2>2. /\ \A q \in Requests \ {r} : req'[q] = req[q]
        /\ req'[r] = [req[r] EXCEPT !.step = "insert", !.port = p]
    BY <1>0, <2>1
  <2>3. req'[r].op = req[r].op /\ req'[r].c = req[r].c /\ req'[r].step = "insert" /\ req'[r].port = p
    BY <1>0, <2>2 DEF Request
  <2>4. /\ portAlloc' = [portAlloc EXCEPT ![p] = req[r].c]
        /\ UNCHANGED <<rows, issued>>
    BY <1>2, <2>1 DEF CreateAllocPort, AllocPort, StoreStep, KeepsAgents
  <2>5. req[r].c \in issued /\ req[r].op = "create"
    BY <1>0, <1>2 DEF CreateAllocPort, At, IdsIssued
  <2>6. \A q \in Ports : portAlloc[q] # req[r].c
    <3>1. req[r].port = NoPort
      BY <1>2, <2>5 DEF CreateAllocPort, At, CleanInv
    <3> QED
      BY <2>5, <3>1, DomainAssumption DEF CleanInv
  <2> QED
    <3>1. \A q \in Ports : portAlloc'[q] = IF q = p THEN req[r].c ELSE portAlloc[q]
      BY <1>0, <2>4
    <3>2. \A k \in Requests \ {r} : req[k].op = "create" => req[k].c # req[r].c
      BY <1>0, <2>5 DEF CreatesAlone
    <3>3. \A q \in Ports : portAlloc'[q] # NoContainer => portAlloc'[q] \in issued
      BY <2>5, <3>1 DEF CleanInv
    <3>4. ASSUME NEW k \in Requests, req'[k].op = "create", NEW q \in Ports,
                 portAlloc'[q] = req'[k].c
          PROVE  q = req'[k].port
      <4>1. CASE k = r
        BY <2>3, <2>6, <3>1, <3>4, <4>1
      <4>2. CASE k # r
        BY <2>2, <3>1, <3>2, <3>4, <4>2 DEF CleanInv
      <4> QED
        BY <4>1, <4>2
    <3>5. ASSUME NEW k \in Requests, req'[k].op = "create"
          PROVE  /\ req'[k].step = "port" => req'[k].port = NoPort
                 /\ req'[k].step = "cleanPort" /\ ~req'[k].gone => ~ContainerExists(req[k].c)'
      BY <2>2, <2>3, <2>4, <3>5 DEF CleanInv, ContainerExists
    <3> QED
      BY <2>4, <3>3, <3>4, <3>5 DEF CleanInv
<1>3. ASSUME NEW r \in Requests, CreateInsert(r)
      PROVE  CleanInv'
  <2>1. PICK s \in {"gpus", "route", "send"} :
          /\ Goto(r, s)
          /\ UNCHANGED <<portAlloc, issued>>
          /\ \A c \in Containers : c # req[r].c => rows'[c] = rows[c]
    BY <1>0, <1>3 DEF CreateInsert, CreatePublish, InsertContainer, StoreStep, KeepsAgents
  <2>2. /\ \A q \in Requests \ {r} : req'[q] = req[q]
        /\ req'[r].op = req[r].op /\ req'[r].step = s /\ req'[r].c = req[r].c
        /\ req'[r].port = req[r].port
    BY <1>0, <2>1, GotoFields, StepNames
  <2>3. /\ req[r].op = "create"
        /\ \A q \in Requests : req[q].op = "create" => req[q].c \in Containers
    BY <1>0, <1>3, Running DEF CreateInsert, At
  <2> QED
    BY <1>0, <2>1, <2>2, <2>3 DEF CleanInv, CreatesAlone, ContainerExists
<1>4. ASSUME NEW r \in Requests, CleanRow(r)
      PROVE  CleanInv'
  <2>1. /\ UNCHANGED <<portAlloc, issued>>
        /\ ~req[r].gone => rows' = [rows EXCEPT ![req[r].c] = NoRow]
        /\ \A c \in Containers : c # req[r].c => rows'[c] = rows[c]
    BY <1>0, <1>4 DEF CleanRow, Attempt, Served, DeleteContainer, StoreStep, KeepsAgents, storeVars
  <2>2. /\ \A q \in Requests \ {r} : req'[q] = req[q]
        /\ \/ req'[r].op = "none"
           \/ /\ req'[r].op = req[r].op /\ req'[r].step = "cleanPort" /\ req'[r].c = req[r].c
              /\ req'[r].port = req[r].port /\ req'[r].gone = req[r].gone
    BY <1>0, <1>4, GotoFields, FinishFields, StepNames DEF CleanRow
  <2>3. /\ req[r].op = "create"
        /\ \A q \in Requests : req[q].op = "create" => req[q].c \in Containers
    BY <1>0, <1>4, Running DEF CleanRow, At
  <2> QED
    BY <1>0, <2>1, <2>2, <2>3 DEF CleanInv, CreatesAlone, ContainerExists
<1> QED
  BY <1>1, <1>2, <1>3, <1>4, TidySteps, CleanInvTidy

LEMMA CleanInvStart == Init => CleanInv
BY IdleFields DEF Init, StoreInit, CleanInv

\* CleanInv: in every reachable state, for any clients and faults, a create holds no
\* port but its own, and its row stays away once its cleanup has removed it.
THEOREM CleanInvariant == Spec => []CleanInv
BY CleanInvStart, CleanInvStep, GpuInvariant, PTL DEF Spec

(***************************************************************************)
(* The two steps that end a cleanup leave nothing of the container.        *)
(***************************************************************************)
LEMMA CleanupEnds ==
    ASSUME GpuInv, CleanInv, GpuInv', NEW r \in Requests, NEW c, req[r].c = c,
           CleanRow(r) \/ CleanPort(r), ~req[r].gone, req'[r] = Idle
    PROVE  LeavesNothing(c)'
<1>1. /\ c \in Containers /\ req[r].op = "create"
      /\ rows \in [Containers -> Row \cup {NoRow}] /\ TypeOK
  BY Running DEF GpuInv, TypeOK, StoreTypeOK, CleanRow, CleanPort, At
<1>2. ~ContainerExists(c)'
  <2>1. CASE CleanRow(r)
    BY <1>1, <2>1 DEF CleanRow, Attempt, Served, DeleteContainer, ContainerExists
  <2>2. CASE CleanPort(r)
    BY <1>1, <2>2 DEF CleanPort, At, Attempt, Served, FreePort, ContainerExists, CleanInv
  <2> QED
    BY <2>1, <2>2
<1>3. \A n \in Nodes, g \in GPUs : gpuAlloc'[n][g] # c
  BY <1>1, <1>2, DomainAssumption DEF GpuInv, ReservationsOwned, ContainerExists
<1>4. \A p \in Ports : portAlloc'[p] # c
  <2>1. CASE CleanRow(r)
    <3>1. req[r].port = NoPort
      BY <1>1, <2>1, GotoFields, StepNames, IdleFields DEF CleanRow
    <3>2. portAlloc' = portAlloc
      BY <2>1 DEF CleanRow, Attempt, DeleteContainer, storeVars
    <3> QED
      BY <1>1, <3>1, <3>2, DomainAssumption DEF CleanInv
  <2>2. CASE CleanPort(r)
    BY <1>1, <2>2, DomainAssumption DEF CleanPort, Attempt, Served, FreePort, CleanInv
  <2> QED
    BY <2>1, <2>2
<1> QED
  BY <1>2, <1>3, <1>4 DEF LeavesNothing, Held, ContainerExists

(***************************************************************************)
(* A create whose command could not be sent gives everything back, for any *)
(* containers, ports and clients and every fault, unless its client has    *)
(* gone.  (api.go:453-473)                                                 *)
(***************************************************************************)
LEMMA CleaningSteps ==
    ASSUME GpuInv, CleanInv, GpuInv', [Next]_vars, ~Restart,
           NEW r \in Requests, NEW c \in Containers,
           Cleaning(r), req[r].c = c, ~req[r].gone, req'[r] = Idle
    PROVE  LeavesNothing(c)'
<1>0. TypeOK /\ req[r].op = "create" /\ req \in [Requests -> Request]
  BY DEF GpuInv, TypeOK, Cleaning
<1>1. CASE UNCHANGED vars
  BY <1>0, <1>1, IdleFields DEF vars, masterVars
<1>2. ASSUME NEW n \in Nodes, AgentStep(n)
      PROVE  FALSE
  BY <1>0, <1>2, IdleFields DEF AgentStep, HandleContainerCreated, HandleContainerStarted,
     HandleContainerStopped, HandleContainerStateChanged, HandleSecond, HandleSecondFails,
     Connect, Disconnect, RevertList, RevertMark, RevertFree, RevertFails, MessageFrame, RevertFrame,
     KeepsRequests
<1>3. ASSUME NEW q \in Requests \ {r}, RequestStep(q)
      PROVE  req'[r] = req[r]
  BY <1>0, <1>3, OthersWait
<1>4. ASSUME RequestStep(r)
      PROVE  CleanRow(r) \/ CleanPort(r)
  <2>1. req[r].step \in {"cleanGPUs", "cleanRow", "cleanPort"} /\ req[r].op # "none"
    BY <1>0 DEF Cleaning
  <2>2. ~CleanGPUs(r)
    BY <1>0, IdleFields, GotoFields, StepNames DEF CleanGPUs
  <2>3. CASE CreateStep(r)
    BY <2>1, <2>2, <2>3, IdleFields DEF CreateStep, CreateBegin, CreateAllocPort,
       CreateAllocPortFails, CreateInsert, CreateInsertFails, CreateFreePort,
       CreateAllocGPUs, CreateAllocGPUsFails, CreatePersist, CreatePersistFails,
       CreateSend, CreateSendFails, At
  <2>4. ~PublishStep(r)
    BY <2>1 DEF PublishStep, RouteRegister, BindPortCheck, BindPortListen,
       BindPortListenFails, BindPortRecord, At
  <2>5. ~StartStep(r) /\ ~StopStep(r) /\ ~DeleteStep(r)
    BY <1>0, IdleFields DEF StartStep, StartBegin, StartAllocGPUs, StartAllocGPUsFails,
       StartMark, StartSend, StartSendFails, StartRollback, StartRelease, StopStep,
       StopBegin, StopMark, StopSend, StopSendFails, StopRollback, StopUnroute,
       StopRelease, DeleteStep, DeleteBegin, DeleteSend, DeleteSendFails, DeleteUnroute,
       DeleteFreePort, DeleteRelease, DeleteRemove, At
  <2>6. ~ClientGone(r)
    <3> SUFFICES ASSUME ClientGone(r) PROVE FALSE
      OBVIOUS
    <3>1. req[r] \in Request /\ req'[r] = [req[r] EXCEPT !.gone = TRUE]
      BY <1>0 DEF ClientGone, TypeOK
    <3> QED
      BY <1>0, <3>1, IdleFields DEF Request
  <2> QED
    BY <1>4, <2>3, <2>4, <2>5, <2>6 DEF RequestStep
<1> QED
  BY <1>0, <1>1, <1>2, <1>3, <1>4, IdleFields, CleanupEnds DEF Next

THEOREM FailedSendsRelease == Spec => FailedSendReleasesAll
<1>1. GpuInv /\ CleanInv /\ GpuInv' /\ [Next]_vars
        => [\A r \in Requests, c \in Containers :
              Cleaning(r) /\ req[r].c = c /\ ~req[r].gone /\ req'[r] = Idle /\ ~Restart
                => LeavesNothing(c)']_vars
  BY CleaningSteps
<1> QED
  BY <1>1, GpuInvariant, CleanInvariant, PTL DEF Spec, FailedSendReleasesAll
=============================================================================
