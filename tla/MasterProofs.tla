---------------------------- MODULE MasterProofs ----------------------------
(***************************************************************************)
(* Proofs about Master: its type invariant, the inductive invariant GpuInv *)
(* of the GPU reservations, and the refinement of the ledger, for any sets *)
(* of containers, nodes, devices, ports and requests and any faults.       *)
(***************************************************************************)
EXTENDS MasterProperties, ProxyProofs

(***************************************************************************)
(* A call of the store: any statement, with arguments of the right kind.   *)
(***************************************************************************)
StoreCall ==
    \/ \E c \in Containers, row \in Row : InsertContainer(c, row)
    \/ \E c \in Containers, s \in States : UpdateContainerState(c, s)
    \/ \E c \in Containers, G \in SUBSET GPUs : UpdateContainerGPUIndices(c, G)
    \/ \E c \in Containers : DeleteContainer(c)
    \/ \E n \in Nodes, c \in Containers, G \in SUBSET GPUs : AllocSpecificGPUs(n, c, G)
    \/ \E c \in Containers : FreeGPUs(c)
    \/ \E p \in Ports, c \in Containers : AllocPort(p, c)
    \/ \E p \in Ports \cup {NoPort} : FreePort(p)

\* Every statement the master issues keeps the tables well typed.
LEMMA StoreCallTypes == StoreTypeOK /\ [StoreCall]_storeVars => StoreTypeOK'
<1> SUFFICES ASSUME StoreTypeOK, [StoreCall]_storeVars PROVE StoreTypeOK'
  OBVIOUS
<1> USE DEF StoreTypeOK
<1>1. CASE UNCHANGED storeVars
  BY <1>1 DEF storeVars
<1>2. ASSUME NEW c \in Containers, NEW row \in Row, InsertContainer(c, row)
      PROVE  StoreTypeOK'
  BY <1>2 DEF InsertContainer
<1>3. ASSUME NEW c \in Containers, NEW s \in States, UpdateContainerState(c, s)
      PROVE  StoreTypeOK'
  BY <1>3 DEF UpdateContainerState, ContainerExists, Row
<1>4. ASSUME NEW c \in Containers, NEW G \in SUBSET GPUs, UpdateContainerGPUIndices(c, G)
      PROVE  StoreTypeOK'
  BY <1>4 DEF UpdateContainerGPUIndices, ContainerExists, Row
<1>5. ASSUME NEW c \in Containers, DeleteContainer(c)
      PROVE  StoreTypeOK'
  BY <1>5 DEF DeleteContainer, GPUsReleased
<1>6. ASSUME NEW n \in Nodes, NEW c \in Containers, NEW G \in SUBSET GPUs,
             AllocSpecificGPUs(n, c, G)
      PROVE  StoreTypeOK'
  BY <1>6 DEF AllocSpecificGPUs, GPUsTaken
<1>7. ASSUME NEW c \in Containers, FreeGPUs(c)
      PROVE  StoreTypeOK'
  BY <1>7 DEF FreeGPUs, GPUsReleased
<1>8. ASSUME NEW p \in Ports, NEW c \in Containers, AllocPort(p, c)
      PROVE  StoreTypeOK'
  BY <1>8 DEF AllocPort
<1>9. ASSUME NEW p \in Ports \cup {NoPort}, FreePort(p)
      PROVE  StoreTypeOK'
  BY <1>9 DEF FreePort
<1> QED
  BY <1>1, <1>2, <1>3, <1>4, <1>5, <1>6, <1>7, <1>8, <1>9 DEF StoreCall

(***************************************************************************)
(* The ways a step changes the requests.                                   *)
(***************************************************************************)
ReqTypeOK == req \in [Requests -> Request]

\* A request that is not running is well typed.
LEMMA IdleType == Idle \in Request
BY DEF Idle, Request, Steps

\* Moving on changes only the step of the request that moves.
LEMMA GotoFacts ==
    ASSUME ReqTypeOK, NEW r \in Requests, NEW s \in Steps, Goto(r, s)
    PROVE  /\ ReqTypeOK'
           /\ \A q \in Requests \ {r} : req'[q] = req[q]
           /\ req'[r] = [req[r] EXCEPT !.step = s]
<1>1. req[r] \in Request
  BY DEF ReqTypeOK
<1>2. [req[r] EXCEPT !.step = s] \in Request
  BY <1>1 DEF Request
<1>3. req' = [req EXCEPT ![r] = [req[r] EXCEPT !.step = s]]
  BY DEF Goto
<1> QED
  BY <1>2, <1>3 DEF ReqTypeOK

\* A handler that returns leaves its request idle and the others alone.
LEMMA FinishFacts ==
    ASSUME ReqTypeOK, NEW r \in Requests, Finish(r)
    PROVE  /\ ReqTypeOK'
           /\ \A q \in Requests \ {r} : req'[q] = req[q]
           /\ req'[r] = Idle
BY IdleType DEF Finish, ReqTypeOK

\* The steps handlers move to are steps.
LEMMA StepNames ==
    {"port", "insert", "unport", "gpus", "persist", "route", "bind", "binding", "send",
     "cleanGPUs", "cleanRow", "cleanPort", "mark", "rollback", "release", "unroute",
     "freePort", "remove", "none"} \subseteq Steps
BY DEF Steps, CreateSteps, StartSteps, StopSteps, DeleteSteps

(***************************************************************************)
(* A request that runs knows its container and its node.                   *)
(***************************************************************************)
LEMMA Running ==
    ASSUME TypeOK, IdsIssued, NEW r \in Requests, req[r].op # "none"
    PROVE  /\ req[r].c \in Containers
           /\ req[r].node \in Nodes
           /\ req[r].port \in Ports \cup {NoPort}
           /\ req[r].gpus \in SUBSET GPUs
           /\ req[r].prior \in States \cup {"none"}
<1>1. req[r] \in Request
  BY DEF TypeOK
<1> QED
  BY <1>1 DEF TypeOK, IdsIssued, Request

\* A create reserves devices of its node, all it was asked for at once.
LEMMA Reserves ==
    ASSUME TypeOK, IdsIssued, NEW r \in Requests, CreateAllocGPUs(r)
    PROVE  \E G \in SUBSET GPUs :
              /\ AllocSpecificGPUs(req[r].node, req[r].c, G)
              /\ req' = [req EXCEPT ![r].step = "persist", ![r].gpus = G, ![r].count = 0]
<1>1. req[r].gpus \in SUBSET GPUs
  BY Running DEF CreateAllocGPUs, At
<1>2. \A n, k : LowestFree(n, k) \subseteq SUBSET GPUs
  BY DEF LowestFree, FreeOn
<1>3. PICK G \in IF req[r].gpus # {} THEN {req[r].gpus}
                 ELSE LowestFree(req[r].node, req[r].count) :
        /\ AllocSpecificGPUs(req[r].node, req[r].c, G)
        /\ req' = [req EXCEPT ![r].step = "persist", ![r].gpus = G, ![r].count = 0]
  BY DEF CreateAllocGPUs
<1>4. G \in SUBSET GPUs
  BY <1>1, <1>2
<1> QED
  BY <1>3, <1>4

(***************************************************************************)
(* Most steps are quiet: they insert no row, save and reserve no device,   *)
(* and move a request on, without changing what it works on, or end it.    *)
(* The others are Telling: a request begins, or a create or a start puts   *)
(* into the tables, or hands to an agent, what the invariant is about.     *)
(***************************************************************************)
QuietCall ==
    \/ \E c \in Containers, s \in States : UpdateContainerState(c, s)
    \/ \E c \in Containers : DeleteContainer(c)
    \/ \E c \in Containers : FreeGPUs(c)
    \/ \E p \in Ports, c \in Containers : AllocPort(p, c)
    \/ \E p \in Ports \cup {NoPort} : FreePort(p)

QuietRequest(q) ==
    \/ req'[q] = Idle
    \/ /\ req'[q].op = req[q].op
       /\ req'[q].c = req[q].c
       /\ req'[q].node = req[q].node
       /\ req'[q].prior = req[q].prior
       /\ req'[q].gpus = req[q].gpus
       /\ req'[q].step \in {"route", "bind", "unroute"} => req'[q].port # NoPort
       /\ req[q].op = "create" =>
            \/ req'[q].step = req[q].step
            \/ req[q].step = "port" /\ req'[q].step = "insert"
            \/ /\ req[q].step # "persist"
               /\ req'[q].step \notin {"port", "insert", "gpus", "persist"}
       /\ req[q].op = "start" => req'[q].step \in {req[q].step} \cup (Steps \ {"gpus"})

Quiet ==
    /\ [QuietCall]_storeVars
    /\ \A q \in Requests : QuietRequest(q)
    /\ UNCHANGED <<issued, dispatched>>

Telling(r) ==
    \/ CreateBegin(r) \/ CreateInsert(r) \/ CreateAllocGPUs(r) \/ CreatePersist(r)
    \/ CreateSend(r)
    \/ StartBegin(r) \/ StartAllocGPUs(r)
    \/ StopBegin(r)
    \/ DeleteBegin(r)

\* The three ways a quiet step treats the requests: it leaves them alone, ...
LEMMA StayQuiet ==
    ASSUME ProxyUsersHavePorts, UNCHANGED req
    PROVE  \A q \in Requests : QuietRequest(q)
BY DEF ProxyUsersHavePorts, QuietRequest

\* ... ends one, ...
LEMMA FinishQuiet ==
    ASSUME TypeOK, ProxyUsersHavePorts, NEW r \in Requests, Finish(r)
    PROVE  \A q \in Requests : QuietRequest(q)
<1>1. ReqTypeOK
  BY DEF TypeOK, ReqTypeOK
<1> QED
  BY <1>1, FinishFacts DEF ProxyUsersHavePorts, QuietRequest

\* ... or moves one on to a step that relies on nothing new.
LEMMA GotoQuiet ==
    ASSUME TypeOK, ProxyUsersHavePorts, NEW r \in Requests, NEW s \in Steps, Goto(r, s),
           s \in {"route", "bind", "unroute"} => req[r].port # NoPort,
           req[r].op = "create" => /\ req[r].step # "persist"
                                   /\ s \notin {"port", "insert", "gpus", "persist"},
           req[r].op = "start" => s # "gpus"
    PROVE  \A q \in Requests : QuietRequest(q)
<1>1. ReqTypeOK
  BY DEF TypeOK, ReqTypeOK
<1>2. /\ \A q \in Requests \ {r} : req'[q] = req[q]
      /\ req'[r] = [req[r] EXCEPT !.step = s]
  BY <1>1, GotoFacts
<1>3. req[r] \in Request
  BY <1>1 DEF ReqTypeOK
<1>4. /\ req'[r].op = req[r].op /\ req'[r].c = req[r].c /\ req'[r].node = req[r].node
      /\ req'[r].prior = req[r].prior /\ req'[r].gpus = req[r].gpus
      /\ req'[r].port = req[r].port /\ req'[r].step = s
  BY <1>2, <1>3 DEF Request
<1>5. QuietRequest(r)
  BY <1>4 DEF QuietRequest
<1>6. \A q \in Requests \ {r} : QuietRequest(q)
  BY <1>2 DEF QuietRequest, ProxyUsersHavePorts
<1> QED
  BY <1>5, <1>6

\* Every step of the master is quiet or one of the nine telling ones.
LEMMA QuietSteps ==
    TypeOK /\ IdsIssued /\ PriorsKnown /\ ProxyUsersHavePorts /\ [Next]_vars
        => Quiet \/ \E r \in Requests : Telling(r)
<1> SUFFICES ASSUME TypeOK, IdsIssued, PriorsKnown, ProxyUsersHavePorts, [Next]_vars
             PROVE  Quiet \/ \E r \in Requests : Telling(r)
  OBVIOUS
<1> USE DEF StoreStep, ProxyStep, LocalStep, KeepsAgents, MessageFrame, RevertFrame,
            KeepsRequests
<1>1. CASE UNCHANGED vars
  BY <1>1, StayQuiet DEF vars, masterVars, Quiet
<1>2. ASSUME NEW r \in Requests, CreateStep(r), ~Telling(r)
      PROVE  Quiet
  <2>1. CASE \/ CreateAllocPortFails(r) \/ CreateAllocGPUsFails(r) \/ CreatePersistFails(r)
    BY <2>1, FinishQuiet DEF CreateAllocPortFails, CreateAllocGPUsFails,
       CreatePersistFails, Quiet
  <2>2. CASE CreateInsertFails(r)
    BY <2>2, FinishQuiet, GotoQuiet, StepNames DEF CreateInsertFails, At, Quiet
  <2>3. CASE CreateAllocPort(r)
    <3>1. PICK p \in Ports : /\ AllocPort(p, req[r].c)
                             /\ req' = [req EXCEPT ![r].step = "insert", ![r].port = p]
      BY <2>3 DEF CreateAllocPort
    <3>2. QuietCall
      BY <2>3, <3>1, Running DEF CreateAllocPort, At, QuietCall
    <3>3. req[r] \in Request /\ req \in [Requests -> Request]
      BY DEF TypeOK
    <3>4. req'[r] = [req[r] EXCEPT !.step = "insert", !.port = p]
      BY <3>1, <3>3
    <3>5. QuietRequest(r)
      BY <2>3, <3>3, <3>4 DEF QuietRequest, CreateAllocPort, At, Request
    <3>6. \A q \in Requests \ {r} : QuietRequest(q)
      BY <3>1, <3>3 DEF QuietRequest, ProxyUsersHavePorts
    <3> QED
      BY <2>3, <3>2, <3>5, <3>6 DEF CreateAllocPort, Quiet
  <2>4. CASE CreateFreePort(r) \/ CleanPort(r)
    BY <2>4, Running, FinishQuiet DEF CreateFreePort, CleanPort, At, Attempt, QuietCall, Quiet
  <2>5. CASE CreateSendFails(r)
    BY <2>5, GotoQuiet, StepNames DEF CreateSendFails, At, Quiet
  <2>6. CASE CleanGPUs(r)
    BY <2>6, Running, GotoQuiet, StepNames DEF CleanGPUs, At, Attempt, QuietCall, Quiet
  <2>7. CASE CleanRow(r)
    BY <2>7, Running, GotoQuiet, FinishQuiet, StepNames
       DEF CleanRow, At, Attempt, QuietCall, Quiet
  <2> QED
    BY <1>2, <2>1, <2>2, <2>3, <2>4, <2>5, <2>6, <2>7 DEF CreateStep, Telling
<1>3. ASSUME NEW r \in Requests, PublishStep(r)
      PROVE  Quiet
  <2>1. ASSUME AfterBind(r), req[r].step \in {"bind", "binding"}
        PROVE  \A q \in Requests : QuietRequest(q)
    BY <2>1, GotoQuiet, FinishQuiet, StepNames DEF AfterBind
  <2>2. CASE RouteRegister(r)
    BY <2>2, GotoQuiet, StepNames DEF RouteRegister, At, Quiet, ProxyUsersHavePorts
  <2>3. CASE BindPortCheck(r)
    BY <2>1, <2>3, GotoQuiet, StepNames DEF BindPortCheck, At, Quiet
  <2>4. CASE BindPortListen(r)
    BY <2>4, StayQuiet DEF BindPortListen, Quiet
  <2>5. CASE BindPortListenFails(r) \/ BindPortRecord(r)
    BY <2>1, <2>5 DEF BindPortListenFails, BindPortRecord, Quiet
  <2> QED
    BY <1>3, <2>2, <2>3, <2>4, <2>5 DEF PublishStep
<1>4. ASSUME NEW r \in Requests, StartStep(r), ~Telling(r)
      PROVE  Quiet
  <2>1. CASE StartAllocGPUsFails(r)
    BY <2>1, FinishQuiet DEF StartAllocGPUsFails, Quiet
  <2>2. CASE StartMark(r)
    BY <2>2, Running, GotoQuiet, StepNames DEF StartMark, At, Attempt, QuietCall, Quiet, States
  <2>3. CASE StartSend(r) \/ StartSendFails(r)
    BY <2>3, FinishQuiet, GotoQuiet, StepNames DEF StartSend, StartSendFails, At, Quiet
  <2>4. CASE StartRollback(r)
    BY <2>4, Running, FinishQuiet, GotoQuiet, StepNames
       DEF StartRollback, At, Attempt, QuietCall, Quiet, PriorsKnown
  <2>5. CASE StartRelease(r)
    BY <2>5, Running, FinishQuiet DEF StartRelease, At, Attempt, QuietCall, Quiet
  <2> QED
    BY <1>4, <2>1, <2>2, <2>3, <2>4, <2>5 DEF StartStep, Telling
<1>5. ASSUME NEW r \in Requests, StopStep(r), ~Telling(r)
      PROVE  Quiet
  <2>1. CASE StopMark(r)
    BY <2>1, Running, GotoQuiet, StepNames DEF StopMark, At, Attempt, QuietCall, Quiet, States
  <2>2. CASE StopSend(r) \/ StopSendFails(r) \/ StopUnroute(r)
    BY <2>2, GotoQuiet, StepNames DEF StopSend, StopSendFails, StopUnroute, At, Quiet
  <2>3. CASE StopRollback(r)
    BY <2>3, Running, FinishQuiet DEF StopRollback, At, Attempt, QuietCall, Quiet, PriorsKnown
  <2>4. CASE StopRelease(r)
    BY <2>4, Running, FinishQuiet DEF StopRelease, At, Attempt, QuietCall, Quiet
  <2> QED
    BY <1>5, <2>1, <2>2, <2>3, <2>4 DEF StopStep, Telling
<1>6. ASSUME NEW r \in Requests, DeleteStep(r), ~Telling(r)
      PROVE  Quiet
  <2>1. CASE DeleteSend(r) \/ DeleteSendFails(r) \/ DeleteUnroute(r)
    BY <2>1, FinishQuiet, GotoQuiet, StepNames
       DEF DeleteSend, DeleteSendFails, DeleteUnroute, At, Quiet
  <2>2. CASE DeleteFreePort(r) \/ DeleteRelease(r)
    BY <2>2, Running, GotoQuiet, StepNames
       DEF DeleteFreePort, DeleteRelease, At, Attempt, QuietCall, Quiet
  <2>3. CASE DeleteRemove(r)
    BY <2>3, Running, FinishQuiet DEF DeleteRemove, At, Attempt, QuietCall, Quiet
  <2> QED
    BY <1>6, <2>1, <2>2, <2>3 DEF DeleteStep, Telling
<1>7. ASSUME NEW n \in Nodes, AgentStep(n)
      PROVE  Quiet
  <2>1. ASSUME NEW c \in Containers,
               \/ HandleContainerCreated(n, c) \/ HandleContainerStarted(n, c)
               \/ HandleContainerStopped(n, c) \/ HandleContainerStateChanged(n, c)
        PROVE  Quiet
    BY <2>1, StayQuiet DEF HandleContainerCreated, HandleContainerStarted,
       HandleContainerStopped, HandleContainerStateChanged, QuietCall, States, Quiet
  <2>2. CASE HandleSecond(n)
    <3>1. handling[n].owes # "none" => handling[n].c \in Containers
      BY DEF TypeOK, Handling, NoMessage
    <3> QED
      BY <2>2, <3>1, StayQuiet DEF HandleSecond, QuietCall, States, Quiet
  <2>3. CASE \/ HandleSecondFails(n) \/ Connect(n) \/ Disconnect(n)
             \/ RevertList(n) \/ RevertFails(n)
    BY <2>3, StayQuiet DEF HandleSecondFails, Connect, Disconnect, RevertList, RevertFails, Quiet
  <2>4. CASE RevertMark(n)
    <3>1. reverting[n].todo \subseteq Containers
      BY DEF TypeOK, Reverting, NoRevert
    <3> QED
      BY <2>4, <3>1, StayQuiet DEF RevertMark, QuietCall, States, Quiet
  <2>5. CASE RevertFree(n)
    <3>1. reverting[n].step = "free" => reverting[n].c \in Containers
      BY DEF TypeOK, Reverting, NoRevert
    <3> QED
      BY <2>5, <3>1, StayQuiet DEF RevertFree, QuietCall, Quiet
  <2> QED
    BY <1>7, <2>1, <2>2, <2>3, <2>4, <2>5 DEF AgentStep
<1>8. ASSUME NEW r \in Requests, ClientGone(r)
      PROVE  Quiet
  <2>1. req[r] \in Request /\ req \in [Requests -> Request]
    BY DEF TypeOK
  <2>2. req'[r] = [req[r] EXCEPT !.gone = TRUE]
    BY <1>8, <2>1 DEF ClientGone
  <2>3. QuietRequest(r)
    BY <2>1, <2>2 DEF QuietRequest, Request, ProxyUsersHavePorts
  <2>4. \A q \in Requests \ {r} : QuietRequest(q)
    BY <1>8, <2>1 DEF ClientGone, QuietRequest, ProxyUsersHavePorts
  <2> QED
    BY <1>8, <2>3, <2>4 DEF ClientGone, Quiet
<1>9. CASE Restart
  BY <1>9 DEF Restart, Quiet, QuietRequest
<1> QED
  BY <1>1, <1>2, <1>3, <1>4, <1>5, <1>6, <1>7, <1>8, <1>9 DEF Next, RequestStep

(***************************************************************************)
(* Every step keeps the requests and the rest of the state well typed.     *)
(***************************************************************************)
LEMMA RequestTypes == TypeOK /\ [Next]_vars => ReqTypeOK'
<1> SUFFICES ASSUME TypeOK, [Next]_vars PROVE ReqTypeOK'
  OBVIOUS
<1>0. ReqTypeOK
  BY DEF TypeOK, ReqTypeOK
<1> USE DEF MessageFrame, RevertFrame, KeepsRequests
<1>1. CASE UNCHANGED vars
  BY <1>0, <1>1 DEF vars, masterVars, ReqTypeOK
<1>2. ASSUME NEW r \in Requests, CreateStep(r)
      PROVE  ReqTypeOK'
  <2>1. CASE CreateBegin(r)
    <3>1. PICK x \in Request : req' = [req EXCEPT ![r] = x]
      <4>1. PICK c \in Containers \ issued, n \in online, publish \in BOOLEAN,
                 G \in SUBSET GPUs, k \in Counts \cup {0}, ext \in ExplicitPorts \cup {NoPort} :
              req' = [req EXCEPT ![r] = CreateRequest(c, n, publish, ext, G, k)]
        BY <2>1, MasterAssumption DEF CreateBegin
      <4>2. n \in Nodes /\ ext \in Ports \cup {NoPort}
        BY MasterAssumption DEF TypeOK
      <4>3. CreateRequest(c, n, publish, ext, G, k) \in Request
        BY <4>2, StepNames DEF CreateRequest, Request
      <4> QED
        BY <4>1, <4>3
    <3> QED
      BY <1>0, <3>1 DEF ReqTypeOK
  <2>2. CASE CreateAllocPort(r)
    <3>1. PICK p \in Ports : req' = [req EXCEPT ![r].step = "insert", ![r].port = p]
      BY <2>2 DEF CreateAllocPort
    <3>2. [req[r] EXCEPT !.step = "insert", !.port = p] \in Request
      BY <1>0, StepNames DEF ReqTypeOK, Request
    <3> QED
      BY <1>0, <3>1, <3>2 DEF ReqTypeOK
  <2>3. CASE CreateAllocGPUs(r)
    <3>1. PICK G \in SUBSET GPUs :
            req' = [req EXCEPT ![r].step = "persist", ![r].gpus = G, ![r].count = 0]
      <4>1. req[r].gpus \in SUBSET GPUs
        BY <1>0 DEF ReqTypeOK, Request
      <4> QED
        BY <2>3, <4>1 DEF CreateAllocGPUs, LowestFree, FreeOn
    <3>2. [req[r] EXCEPT !.step = "persist", !.gpus = G, !.count = 0] \in Request
      BY <1>0, StepNames DEF ReqTypeOK, Request
    <3> QED
      BY <1>0, <3>1, <3>2 DEF ReqTypeOK
  <2>4. CASE CreateInsert(r) \/ CreatePersist(r)
    BY <1>0, <2>4, GotoFacts, StepNames DEF CreateInsert, CreatePersist, CreatePublish
  <2>5. CASE CreateInsertFails(r) \/ CreateSendFails(r) \/ CleanGPUs(r) \/ CleanRow(r)
    BY <1>0, <2>5, GotoFacts, FinishFacts, StepNames
       DEF CreateInsertFails, CreateSendFails, CleanGPUs, CleanRow
  <2>6. CASE \/ CreateAllocPortFails(r) \/ CreateFreePort(r) \/ CreateAllocGPUsFails(r)
             \/ CreatePersistFails(r) \/ CreateSend(r) \/ CleanPort(r)
    BY <1>0, <2>6, FinishFacts DEF CreateAllocPortFails, CreateFreePort,
       CreateAllocGPUsFails, CreatePersistFails, CreateSend, CleanPort
  <2> QED
    BY <1>2, <2>1, <2>2, <2>3, <2>4, <2>5, <2>6 DEF CreateStep
<1>3. ASSUME NEW r \in Requests, PublishStep(r)
      PROVE  ReqTypeOK'
  <2>1. AfterBind(r) => ReqTypeOK'
    BY <1>0, GotoFacts, FinishFacts, StepNames DEF AfterBind
  <2>2. Goto(r, "bind") \/ Goto(r, "binding") => ReqTypeOK'
    BY <1>0, GotoFacts, StepNames
  <2> QED
    BY <1>0, <1>3, <2>1, <2>2 DEF PublishStep, RouteRegister, BindPortCheck,
       BindPortListen, BindPortListenFails, BindPortRecord, ReqTypeOK
<1>4. ASSUME NEW r \in Requests, NEW c \in Containers, ContainerExists(c),
             NEW op \in {"start", "stop", "delete"}, NEW step \in Steps,
             NEW prior \in States \cup {"none"}, NEW G \in SUBSET GPUs,
             Begin(r, op, c, step, prior, G)
      PROVE  ReqTypeOK'
  <2>1. rows[c] \in Row
    BY <1>4 DEF TypeOK, StoreTypeOK, ContainerExists
  <2>2. [op |-> op, step |-> step, c |-> c, node |-> rows[c].node, port |-> rows[c].port,
         prior |-> prior, gpus |-> G, count |-> 0, gone |-> FALSE] \in Request
    BY <2>1 DEF Row, Request
  <2> QED
    BY <1>0, <1>4, <2>2 DEF Begin, ReqTypeOK
<1>5. \A c \in Containers : ContainerExists(c) =>
         rows[c].state \in States \cup {"none"} /\ rows[c].saved \in SUBSET GPUs
  BY DEF TypeOK, StoreTypeOK, ContainerExists, Row
<1>6. ASSUME NEW r \in Requests, StartStep(r)
      PROVE  ReqTypeOK'
  <2>1. CASE StartBegin(r)
    BY <1>4, <1>5, <2>1, StepNames DEF StartBegin
  <2>2. CASE StartAllocGPUs(r) \/ StartMark(r) \/ StartSendFails(r)
    BY <1>0, <2>2, GotoFacts, StepNames DEF StartAllocGPUs, StartMark, StartSendFails
  <2>3. CASE StartAllocGPUsFails(r) \/ StartSend(r) \/ StartRollback(r) \/ StartRelease(r)
    BY <1>0, <2>3, GotoFacts, FinishFacts, StepNames
       DEF StartAllocGPUsFails, StartSend, StartRollback, StartRelease
  <2> QED
    BY <1>6, <2>1, <2>2, <2>3 DEF StartStep
<1>7. ASSUME NEW r \in Requests, StopStep(r)
      PROVE  ReqTypeOK'
  <2>1. CASE StopBegin(r)
    BY <1>4, <1>5, <2>1, StepNames DEF StopBegin
  <2>2. CASE StopMark(r) \/ StopSend(r) \/ StopSendFails(r) \/ StopUnroute(r)
    BY <1>0, <2>2, GotoFacts, StepNames DEF StopMark, StopSend, StopSendFails, StopUnroute
  <2>3. CASE StopRollback(r) \/ StopRelease(r)
    BY <1>0, <2>3, FinishFacts DEF StopRollback, StopRelease
  <2> QED
    BY <1>7, <2>1, <2>2, <2>3 DEF StopStep
<1>8. ASSUME NEW r \in Requests, DeleteStep(r)
      PROVE  ReqTypeOK'
  <2>1. CASE DeleteBegin(r)
    BY <1>4, <2>1, StepNames DEF DeleteBegin
  <2>2. CASE DeleteSend(r) \/ DeleteUnroute(r) \/ DeleteFreePort(r) \/ DeleteRelease(r)
    BY <1>0, <2>2, GotoFacts, StepNames
       DEF DeleteSend, DeleteUnroute, DeleteFreePort, DeleteRelease
  <2>3. CASE DeleteSendFails(r) \/ DeleteRemove(r)
    BY <1>0, <2>3, FinishFacts DEF DeleteSendFails, DeleteRemove
  <2> QED
    BY <1>8, <2>1, <2>2, <2>3 DEF DeleteStep
<1>9. ASSUME NEW r \in Requests, ClientGone(r)
      PROVE  ReqTypeOK'
  <2>1. [req[r] EXCEPT !.gone = TRUE] \in Request
    BY <1>0 DEF ReqTypeOK, Request
  <2> QED
    BY <1>0, <1>9, <2>1 DEF ClientGone, ReqTypeOK
<1>10. ASSUME NEW n \in Nodes, AgentStep(n)
       PROVE  ReqTypeOK'
  BY <1>0, <1>10 DEF AgentStep, HandleContainerCreated, HandleContainerStarted,
     HandleContainerStopped, HandleContainerStateChanged, HandleSecond,
     HandleSecondFails, Connect, Disconnect, RevertList, RevertMark, RevertFree, RevertFails, ReqTypeOK
<1>11. CASE Restart
  BY <1>11, IdleType DEF Restart, ReqTypeOK
<1> QED
  BY <1>1, <1>2, <1>3, <1>6, <1>7, <1>8, <1>9, <1>10, <1>11 DEF Next, RequestStep

(***************************************************************************)
(* The types of the other variables, and of the whole state.               *)
(***************************************************************************)
LEMMA StoreSteps ==
    TypeOK /\ IdsIssued /\ PriorsKnown /\ ProxyUsersHavePorts /\ [Next]_vars
        => [StoreCall]_storeVars
<1> SUFFICES ASSUME TypeOK, IdsIssued, PriorsKnown, ProxyUsersHavePorts, [Next]_vars
             PROVE  [StoreCall]_storeVars
  OBVIOUS
<1>1. CASE Quiet
  BY <1>1 DEF Quiet, QuietCall, StoreCall
<1>2. ASSUME NEW r \in Requests, Telling(r) PROVE [StoreCall]_storeVars
  <2> USE DEF StoreStep, LocalStep
  <2>1. CASE \/ CreateBegin(r) \/ CreateSend(r) \/ StartBegin(r) \/ StopBegin(r)
             \/ DeleteBegin(r)
    BY <2>1 DEF CreateBegin, CreateSend, StartBegin, StopBegin, DeleteBegin
  <2>2. CASE CreateInsert(r)
    BY <2>2, Running DEF CreateInsert, At, StoreCall, Row, States
  <2>3. CASE CreateAllocGPUs(r)
    BY <2>3, Running DEF CreateAllocGPUs, At, StoreCall, LowestFree, FreeOn
  <2>4. CASE CreatePersist(r)
    BY <2>4, Running DEF CreatePersist, At, StoreCall
  <2>5. CASE StartAllocGPUs(r)
    BY <2>5, Running DEF StartAllocGPUs, At, StoreCall
  <2> QED
    BY <1>2, <2>1, <2>2, <2>3, <2>4, <2>5 DEF Telling
<1> QED
  BY <1>1, <1>2, QuietSteps

\* Every step is a step of the proxy or leaves it alone.
LEMMA ProxySteps ==
    TypeOK /\ IdsIssued /\ ProxyUsersHavePorts /\ [Next]_vars => [ProxyNext]_proxyVars
<1> SUFFICES ASSUME TypeOK, IdsIssued, ProxyUsersHavePorts, [Next]_vars
             PROVE  [ProxyNext]_proxyVars
  OBVIOUS
<1> USE DEF StoreStep, LocalStep, MessageFrame, RevertFrame
<1>1. CASE UNCHANGED vars
  BY <1>1 DEF vars
<1>2. ASSUME NEW r \in Requests, CreateStep(r)
      PROVE  UNCHANGED proxyVars
  BY <1>2 DEF CreateStep, CreateBegin, CreateAllocPort, CreateAllocPortFails, CreateInsert,
     CreateInsertFails, CreateFreePort, CreateAllocGPUs, CreateAllocGPUsFails,
     CreatePersist, CreatePersistFails, CreateSend, CreateSendFails, CleanGPUs, CleanRow,
     CleanPort
<1>3. ASSUME NEW r \in Requests, req[r].step \in {"route", "bind", "unroute"},
             req[r].op # "none"
      PROVE  req[r].port \in Ports /\ req[r].c \in Containers
  BY <1>3, Running DEF ProxyUsersHavePorts
<1>4. ASSUME NEW r \in Requests, PublishStep(r)
      PROVE  [ProxyNext]_proxyVars
  <2>1. CASE RouteRegister(r)
    BY <1>3, <2>1 DEF RouteRegister, At, ProxyNext
  <2>2. CASE BindPortCheck(r)
    BY <1>3, <2>2 DEF BindPortCheck, At, ProxyNext
  <2>3. CASE BindPortListen(r) \/ BindPortListenFails(r) \/ BindPortRecord(r)
    BY <2>3 DEF BindPortListen, BindPortListenFails, BindPortRecord, ProxyNext
  <2> QED
    BY <1>4, <2>1, <2>2, <2>3 DEF PublishStep
<1>5. ASSUME NEW r \in Requests, StartStep(r)
      PROVE  UNCHANGED proxyVars
  BY <1>5 DEF StartStep, StartBegin, StartAllocGPUs, StartAllocGPUsFails, StartMark,
     StartSend, StartSendFails, StartRollback, StartRelease
<1>6. ASSUME NEW r \in Requests, StopStep(r)
      PROVE  [ProxyNext]_proxyVars
  <2>1. CASE StopUnroute(r)
    BY <1>3, <2>1 DEF StopUnroute, At, ProxyNext
  <2> QED
    BY <1>6, <2>1 DEF StopStep, StopBegin, StopMark, StopSend, StopSendFails,
       StopRollback, StopRelease
<1>7. ASSUME NEW r \in Requests, DeleteStep(r)
      PROVE  [ProxyNext]_proxyVars
  <2>1. CASE DeleteUnroute(r)
    BY <1>3, <2>1 DEF DeleteUnroute, At, ProxyNext
  <2> QED
    BY <1>7, <2>1 DEF DeleteStep, DeleteBegin, DeleteSend, DeleteSendFails,
       DeleteFreePort, DeleteRelease, DeleteRemove
<1>8. ASSUME NEW r \in Requests, ClientGone(r)
      PROVE  UNCHANGED proxyVars
  BY <1>8 DEF ClientGone
<1>9. ASSUME NEW n \in Nodes, AgentStep(n)
      PROVE  UNCHANGED proxyVars
  BY <1>9 DEF AgentStep, HandleContainerCreated, HandleContainerStarted,
     HandleContainerStopped, HandleContainerStateChanged, HandleSecond,
     HandleSecondFails, Connect, Disconnect, RevertList, RevertMark, RevertFree, RevertFails
<1>10. CASE Restart
  BY <1>10 DEF Restart, ProxyNext
<1> QED
  BY <1>1, <1>2, <1>4, <1>5, <1>6, <1>7, <1>8, <1>9, <1>10 DEF Next, RequestStep

AgentTypeOK ==
    /\ issued \subseteq Containers
    /\ dispatched \subseteq Containers
    /\ online \subseteq Nodes
    /\ handling \in [Nodes -> Handling]
    /\ reverting \in [Nodes -> Reverting]

\* Every step keeps the sessions, the messages and the sweeps well typed.
LEMMA AgentTypes == TypeOK /\ IdsIssued /\ [Next]_vars => AgentTypeOK'
<1> SUFFICES ASSUME TypeOK, IdsIssued, [Next]_vars PROVE AgentTypeOK'
  OBVIOUS
<1>0. AgentTypeOK
  BY DEF TypeOK, AgentTypeOK
<1> USE DEF StoreStep, ProxyStep, LocalStep, KeepsAgents, MessageFrame, RevertFrame,
            KeepsRequests
<1>1. CASE UNCHANGED vars
  BY <1>0, <1>1 DEF vars, masterVars, AgentTypeOK
<1>2. ASSUME NEW r \in Requests, CreateStep(r)
      PROVE  AgentTypeOK'
  <2>1. CASE CreateBegin(r)
    BY <1>0, <2>1 DEF CreateBegin, AgentTypeOK
  <2>2. CASE CreateSend(r)
    BY <1>0, <2>2, Running DEF CreateSend, At, AgentTypeOK
  <2> QED
    BY <1>0, <1>2, <2>1, <2>2 DEF AgentTypeOK, CreateStep, CreateAllocPort,
       CreateAllocPortFails, CreateInsert, CreateInsertFails, CreateFreePort,
       CreateAllocGPUs, CreateAllocGPUsFails, CreatePersist, CreatePersistFails,
       CreateSendFails, CleanGPUs, CleanRow, CleanPort
<1>3. ASSUME NEW r \in Requests, PublishStep(r) \/ StartStep(r)
      PROVE  AgentTypeOK'
  BY <1>0, <1>3 DEF AgentTypeOK, PublishStep, RouteRegister, BindPortCheck, BindPortListen,
     BindPortListenFails, BindPortRecord, StartStep, StartBegin, StartAllocGPUs,
     StartAllocGPUsFails, StartMark, StartSend, StartSendFails, StartRollback, StartRelease
<1>4. ASSUME NEW r \in Requests, StopStep(r) \/ DeleteStep(r) \/ ClientGone(r)
      PROVE  AgentTypeOK'
  BY <1>0, <1>4 DEF AgentTypeOK, StopStep, StopBegin, StopMark, StopSend, StopSendFails,
     StopRollback, StopUnroute, StopRelease, DeleteStep, DeleteBegin, DeleteSend,
     DeleteSendFails, DeleteUnroute, DeleteFreePort, DeleteRelease, DeleteRemove, ClientGone
<1>5. NoMessage \in Handling /\ NoRevert \in Reverting
  BY DEF Handling, Reverting
<1>6. ASSUME NEW n \in Nodes, NEW c \in Containers,
             \/ HandleContainerCreated(n, c) \/ HandleContainerStarted(n, c)
             \/ HandleContainerStopped(n, c) \/ HandleContainerStateChanged(n, c)
      PROVE  AgentTypeOK'
  <2>1. \A what \in {"error", "free"} : [c |-> c, owes |-> what] \in Handling
    BY DEF Handling
  <2>2. ASSUME NEW what \in {"error", "free"}, Owe(n, c, what)
        PROVE  handling' \in [Nodes -> Handling]
    BY <1>0, <2>1, <2>2 DEF Owe, AgentTypeOK
  <2> QED
    BY <1>0, <1>6, <2>2 DEF HandleContainerCreated, HandleContainerStarted,
       HandleContainerStopped, HandleContainerStateChanged, AgentTypeOK
<1>7. ASSUME NEW n \in Nodes,
             HandleSecond(n) \/ HandleSecondFails(n) \/ Connect(n) \/ RevertFails(n)
      PROVE  AgentTypeOK'
  BY <1>0, <1>5, <1>7 DEF HandleSecond, HandleSecondFails, Connect, RevertFails, AgentTypeOK
<1>8. ASSUME NEW n \in Nodes, NEW step \in {"list", "mark"}, NEW todo \in SUBSET Containers,
             RevertTo(n, step, todo, NoContainer)
      PROVE  reverting' \in [Nodes -> Reverting]
  <2>1. [step |-> step, todo |-> todo, c |-> NoContainer] \in Reverting
    BY DEF Reverting
  <2> QED
    BY <1>0, <1>5, <1>8, <2>1 DEF RevertTo, AgentTypeOK
<1>9. ASSUME NEW n \in Nodes, Disconnect(n) \/ RevertList(n) \/ RevertFree(n)
      PROVE  AgentTypeOK'
  <2>1. reverting[n].todo \subseteq Containers /\ Transient(n) \subseteq Containers
    BY <1>0 DEF AgentTypeOK, Reverting, NoRevert, Transient
  <2> QED
    BY <1>0, <1>8, <1>9, <2>1 DEF Disconnect, RevertList, RevertFree, AgentTypeOK
<1>10. ASSUME NEW n \in Nodes, RevertMark(n)
       PROVE  AgentTypeOK'
  <2>1. reverting[n].todo \subseteq Containers
    BY <1>0 DEF AgentTypeOK, Reverting, NoRevert
  <2>2. PICK c \in Containers : RevertTo(n, "free", reverting[n].todo \ {c}, c)
    BY <1>10, <2>1 DEF RevertMark
  <2>3. [step |-> "free", todo |-> reverting[n].todo \ {c}, c |-> c] \in Reverting
    BY <2>1 DEF Reverting
  <2> QED
    BY <1>0, <1>10, <2>2, <2>3 DEF RevertMark, RevertTo, AgentTypeOK
<1>11. CASE Restart
  BY <1>0, <1>5, <1>11 DEF Restart, AgentTypeOK
<1> QED
  BY <1>1, <1>2, <1>3, <1>4, <1>6, <1>7, <1>9, <1>10, <1>11 DEF Next, RequestStep, AgentStep

\* Every step keeps the whole state well typed.
LEMMA Types ==
    TypeOK /\ IdsIssued /\ PriorsKnown /\ ProxyUsersHavePorts /\ [Next]_vars => TypeOK'
<1> SUFFICES ASSUME TypeOK, IdsIssued, PriorsKnown, ProxyUsersHavePorts, [Next]_vars
             PROVE  TypeOK'
  OBVIOUS
<1>1. StoreTypeOK'
  BY StoreSteps, StoreCallTypes DEF TypeOK
<1>2. ProxyTypeOK'
  BY ProxySteps, ProxyTypes DEF TypeOK
<1>3. ReqTypeOK' /\ AgentTypeOK'
  BY RequestTypes, AgentTypes
<1> QED
  BY <1>1, <1>2, <1>3 DEF TypeOK, ReqTypeOK, AgentTypeOK

(***************************************************************************)
(* What a quiet store call does to rows and reservations.                  *)
(***************************************************************************)
RowsKept ==
    \A c \in Containers : ContainerExists(c)' =>
        /\ ContainerExists(c)
        /\ rows'[c].node = rows[c].node
        /\ rows'[c].saved = rows[c].saved

GPUsKeptOrFreed ==
    \A n \in Nodes, c \in Containers : Held(n, c)' \in {{}, Held(n, c)}

\* Giving back all a container holds takes nothing from another.
LEMMA ReleasedHeld ==
    ASSUME StoreTypeOK, NEW c \in Containers, gpuAlloc' = GPUsReleased(c)
    PROVE  \A n \in Nodes, d \in Containers :
              Held(n, d)' = IF d = c THEN {} ELSE Held(n, d)
BY DomainAssumption DEF StoreTypeOK, GPUsReleased, Held

\* A quiet statement keeps the rows it leaves, adds no reservation and
\* strands none (DeleteContainer cascades).
LEMMA QuietCallFacts ==
    ASSUME StoreTypeOK, ReservationsOwned, [QuietCall]_storeVars
    PROVE  RowsKept /\ GPUsKeptOrFreed /\ ReservationsOwned'
<1>1. CASE UNCHANGED storeVars
  BY <1>1 DEF storeVars, RowsKept, GPUsKeptOrFreed, ReservationsOwned, Held, ContainerExists
<1>2. ASSUME NEW c \in Containers, NEW s \in States, UpdateContainerState(c, s)
      PROVE  RowsKept /\ GPUsKeptOrFreed /\ ReservationsOwned'
  <2>1. \A d \in Containers : /\ ContainerExists(d)' <=> ContainerExists(d)
                              /\ ContainerExists(d) => /\ rows'[d].node = rows[d].node
                                                       /\ rows'[d].saved = rows[d].saved
    <3>1. ASSUME ContainerExists(c)
          PROVE  /\ rows' = [rows EXCEPT ![c] = [rows[c] EXCEPT !.state = s]]
                 /\ rows[c] \in Row
                 /\ [rows[c] EXCEPT !.state = s] \in Row
      BY <1>2, <3>1 DEF UpdateContainerState, StoreTypeOK, ContainerExists, Row
    <3> QED
      BY <1>2, <3>1, StoreAssumption
         DEF UpdateContainerState, StoreTypeOK, ContainerExists, Row
  <2>2. gpuAlloc' = gpuAlloc
    BY <1>2 DEF UpdateContainerState
  <2> QED
    BY <2>1, <2>2 DEF RowsKept, GPUsKeptOrFreed, ReservationsOwned, Held, StoreTypeOK
<1>3. ASSUME NEW c \in Containers, DeleteContainer(c)
      PROVE  RowsKept /\ GPUsKeptOrFreed /\ ReservationsOwned'
  <2>1. /\ ~ContainerExists(c)'
        /\ \A d \in Containers \ {c} : rows'[d] = rows[d]
    BY <1>3 DEF DeleteContainer, StoreTypeOK, ContainerExists
  <2>2. GPUsKeptOrFreed
    BY <1>3, ReleasedHeld DEF DeleteContainer, GPUsKeptOrFreed
  <2> QED
    BY <1>3, <2>1, <2>2 DEF DeleteContainer, GPUsReleased, RowsKept, ReservationsOwned,
       ContainerExists, StoreTypeOK
<1>4. ASSUME NEW c \in Containers, FreeGPUs(c)
      PROVE  RowsKept /\ GPUsKeptOrFreed /\ ReservationsOwned'
  <2>1. GPUsKeptOrFreed
    BY <1>4, ReleasedHeld DEF FreeGPUs, GPUsKeptOrFreed
  <2> QED
    BY <1>4, <2>1 DEF FreeGPUs, GPUsReleased, RowsKept, ReservationsOwned, ContainerExists
<1>5. ASSUME UNCHANGED <<rows, gpuAlloc>>
      PROVE  RowsKept /\ GPUsKeptOrFreed /\ ReservationsOwned'
  BY <1>5 DEF RowsKept, GPUsKeptOrFreed, ReservationsOwned, Held, ContainerExists
<1> QED
  BY <1>1, <1>2, <1>3, <1>4, <1>5 DEF QuietCall, AllocPort, FreePort

(***************************************************************************)
(* The invariant apart from the types, and its preservation by a quiet     *)
(* step: rows and requests keep what it relates, reservations stay or go.  *)
(***************************************************************************)
Facts ==
    /\ IdsIssued
    /\ PriorsKnown
    /\ ProxyUsersHavePorts
    /\ CreatesAlone
    /\ CreatesConsistent
    /\ StartsConsistent
    /\ ReservationsOwned
    /\ SavedHeldTogether
    /\ ReservedAllOrNothing

\* An idle request runs no handler.
LEMMA IdleFields == Idle.op = "none" /\ Idle.step = "none"
BY DEF Idle

\* A quiet step keeps the facts: it only forgets rows and gives devices back.
LEMMA QuietInv == GpuInv /\ Quiet /\ TypeOK' => Facts'
<1> SUFFICES ASSUME GpuInv, Quiet, TypeOK' PROVE Facts'
  OBVIOUS
<1>1. RowsKept /\ GPUsKeptOrFreed /\ ReservationsOwned'
  BY QuietCallFacts DEF GpuInv, TypeOK, Quiet
<1>2. ASSUME NEW q \in Requests, req'[q].op # "none"
      PROVE  /\ QuietRequest(q)
             /\ req'[q].op = req[q].op /\ req'[q].c = req[q].c
             /\ req'[q].node = req[q].node /\ req'[q].prior = req[q].prior
             /\ req'[q].gpus = req[q].gpus
  BY <1>2, IdleFields DEF Quiet, QuietRequest
<1>3. \A q \in Requests : req'[q].op # "none" => req[q].c \in Containers /\ req[q].node \in Nodes
  BY <1>2, Running DEF GpuInv
\* The devices of a row that stays, on its own node.
<1>31. ASSUME NEW c \in Containers, ContainerExists(c)'
       PROVE  Held(rows[c].node, c)' \in {{}, Held(rows[c].node, c)}
  <2>1. PICK n \in Nodes : rows[c].node = n /\ rows'[c].node = n
    BY <1>1, <1>31 DEF RowsKept, GpuInv, TypeOK, StoreTypeOK, Row, ContainerExists
  <2> QED
    BY <1>1, <2>1 DEF GPUsKeptOrFreed, Held
<1>4. IdsIssued'
  BY <1>1, <1>2 DEF GpuInv, IdsIssued, RowsKept, Quiet
<1>5. PriorsKnown'
  BY <1>2 DEF GpuInv, PriorsKnown
<1>6. ProxyUsersHavePorts'
  BY IdleFields DEF Quiet, QuietRequest, ProxyUsersHavePorts
<1>7. CreatesAlone'
  <2> SUFFICES ASSUME NEW r \in Requests, req'[r].op = "create"
               PROVE  /\ req'[r].c \notin dispatched'
                      /\ \A q \in Requests \ {r} :
                            req'[q].op = "create" => req'[q].c # req'[r].c
                      /\ req'[r].step \in {"port", "insert"} =>
                            /\ rows'[req'[r].c] = NoRow
                            /\ \A q \in Requests \ {r} :
                                  req'[q].op # "none" => req'[q].c # req'[r].c
    BY DEF CreatesAlone, ContainerExists
  <2>1. req[r].op = "create" /\ req'[r].c = req[r].c /\ req[r].c \in Containers
    BY <1>2, <1>3
  <2>2. req'[r].step \in {"port", "insert"} => req[r].step \in {"port", "insert"}
    BY <1>2, <2>1, IdleFields DEF QuietRequest
  <2>3. req'[r].step \in {"port", "insert"} => rows'[req'[r].c] = NoRow
    BY <1>1, <2>1, <2>2 DEF GpuInv, CreatesAlone, RowsKept, ContainerExists
  <2> QED
    BY <1>2, <2>1, <2>2, <2>3 DEF GpuInv, CreatesAlone, Quiet
<1>8. CreatesConsistent'
  <2> SUFFICES ASSUME NEW r \in Requests, req'[r].op = "create",
                      NEW c \in Containers, c = req'[r].c, ContainerExists(c)'
               PROVE  /\ rows'[c].node = req'[r].node
                      /\ req'[r].step \in {"gpus", "persist"} => rows'[c].saved = {}
                      /\ req'[r].step = "persist"
                           => Held(rows[c].node, c)' \in {{}, req'[r].gpus}
                      /\ req'[r].step # "persist" /\ rows'[c].saved = {}
                           => Held(rows[c].node, c)' = {}
    BY <1>2, <1>3 DEF CreatesConsistent, ContainerExists, Held
  <2>1. /\ req[r].op = "create" /\ c = req[r].c
        /\ req'[r].node = req[r].node /\ req'[r].gpus = req[r].gpus
        /\ ContainerExists(c)
        /\ rows'[c].node = rows[c].node /\ rows'[c].saved = rows[c].saved
    BY <1>1, <1>2 DEF RowsKept
  <2>2. /\ req'[r].step \in {"gpus", "persist"} => req[r].step = req'[r].step
        /\ req'[r].step # "persist" => req[r].step # "persist"
    BY <1>2, <2>1, IdleFields DEF QuietRequest
  <2> QED
    BY <1>31, <2>1, <2>2 DEF GpuInv, CreatesConsistent
<1>9. StartsConsistent'
  <2> SUFFICES ASSUME NEW r \in Requests, req'[r].op = "start"
               PROVE  /\ req'[r].step = "gpus" => req'[r].gpus # {}
                      /\ rows'[req'[r].c] # NoRow =>
                           /\ rows'[req'[r].c].node = req'[r].node
                           /\ req'[r].gpus # {} => rows'[req'[r].c].saved = req'[r].gpus
    BY DEF StartsConsistent, ContainerExists
  <2>1. /\ req[r].op = "start" /\ req[r].c \in Containers /\ req'[r].c = req[r].c
        /\ req'[r].node = req[r].node /\ req'[r].gpus = req[r].gpus
    BY <1>2, <1>3
  <2>2. req'[r].step = "gpus" => req[r].step = "gpus"
    BY <1>2, <2>1, IdleFields DEF QuietRequest
  <2> QED
    BY <1>1, <2>1, <2>2 DEF GpuInv, StartsConsistent, RowsKept, ContainerExists
<1>10. SavedHeldTogether'
  <2> SUFFICES ASSUME NEW c \in Containers, ContainerExists(c)', rows'[c].saved # {}
               PROVE  Held(rows[c].node, c)' \in {{}, rows'[c].saved}
    BY DEF SavedHeldTogether, ContainerExists, Held
  <2> QED
    BY <1>1, <1>31 DEF GpuInv, SavedHeldTogether, RowsKept
<1>11. ReservedAllOrNothing'
  <2> SUFFICES ASSUME NEW c \in dispatched, ContainerExists(c)'
               PROVE  Held(rows[c].node, c)' \in {{}, rows'[c].saved}
    BY DEF Quiet, ReservedAllOrNothing, ContainerExists, Held
  <2>1. c \in Containers
    BY DEF GpuInv, TypeOK
  <2> QED
    BY <1>1, <1>31, <2>1 DEF GpuInv, ReservedAllOrNothing, RowsKept
<1> QED
  BY <1>1, <1>4, <1>5, <1>6, <1>7, <1>8, <1>9, <1>10, <1>11 DEF Facts

(***************************************************************************)
(* The telling steps, one lemma each.  The requests other than r stay as   *)
(* they are, so only r and its container have to be looked at.             *)
(***************************************************************************)
LEMMA CreateBeginInv == ASSUME GpuInv, NEW r \in Requests, CreateBegin(r) PROVE Facts'
<1>1. PICK c \in Containers \ issued, n \in online, publish \in BOOLEAN, G \in SUBSET GPUs,
           k \in Counts \cup {0}, ext \in ExplicitPorts \cup {NoPort} :
        /\ issued' = issued \cup {c}
        /\ req' = [req EXCEPT ![r] = CreateRequest(c, n, publish, ext, G, k)]
  BY MasterAssumption DEF CreateBegin
<1>2. /\ UNCHANGED <<rows, gpuAlloc, dispatched>>
      /\ \A q \in Requests \ {r} : req'[q] = req[q]
      /\ req'[r] = CreateRequest(c, n, publish, ext, G, k)
  BY <1>1 DEF CreateBegin, storeVars, GpuInv, TypeOK
<1>3. /\ req'[r].op = "create" /\ req'[r].step \in {"port", "insert"}
      /\ req'[r].c = c /\ req'[r].node = n
  BY <1>2 DEF CreateRequest
<1>4. n \in Nodes /\ ~ContainerExists(c) /\ c \notin dispatched
  BY DEF GpuInv, TypeOK, IdsIssued
<1>5. \A q \in Requests : req[q].op # "none" => req[q].c # c
  BY DEF GpuInv, IdsIssued
<1>6. IdsIssued' /\ PriorsKnown' /\ ProxyUsersHavePorts'
  BY <1>1, <1>2, <1>3, <1>4 DEF GpuInv, IdsIssued, PriorsKnown, ProxyUsersHavePorts,
     ContainerExists
<1>7. CreatesAlone'
  BY <1>2, <1>3, <1>4, <1>5 DEF GpuInv, CreatesAlone, ContainerExists
<1>8. CreatesConsistent' /\ StartsConsistent'
  BY <1>2, <1>3, <1>4 DEF GpuInv, CreatesConsistent, StartsConsistent, ContainerExists, Held
<1>9. ReservationsOwned' /\ SavedHeldTogether' /\ ReservedAllOrNothing'
  BY <1>2 DEF GpuInv, ReservationsOwned, SavedHeldTogether, ReservedAllOrNothing,
     ContainerExists, Held
<1> QED
  BY <1>6, <1>7, <1>8, <1>9 DEF Facts

\* A start, stop or delete begins with what the row says.
LEMMA BeginInv ==
    ASSUME GpuInv, NEW r \in Requests, NEW c \in Containers, ContainerExists(c),
           NEW op \in {"start", "stop", "delete"}, NEW step, NEW prior, NEW G,
           Begin(r, op, c, step, prior, G), LocalStep,
           step \notin {"route", "bind", "unroute"},
           op # "delete" => prior = rows[c].state,
           op = "start" => G = rows[c].saved /\ (step = "gpus" => G # {})
    PROVE  Facts'
<1>1. /\ UNCHANGED <<rows, gpuAlloc, issued, dispatched>>
      /\ \A q \in Requests \ {r} : req'[q] = req[q]
      /\ req'[r].op = op /\ req'[r].step = step /\ req'[r].c = c
      /\ req'[r].node = rows[c].node /\ req'[r].prior = prior /\ req'[r].gpus = G
  BY DEF Begin, LocalStep, KeepsAgents, storeVars, GpuInv, TypeOK
<1>2. rows[c] \in Row /\ c \in issued
  BY DEF GpuInv, TypeOK, StoreTypeOK, ContainerExists, IdsIssued
<1>3. IdsIssued'
  BY <1>1, <1>2 DEF GpuInv, IdsIssued, ContainerExists, Row
<1>4. PriorsKnown' /\ ProxyUsersHavePorts'
  BY <1>1, <1>2 DEF GpuInv, PriorsKnown, ProxyUsersHavePorts, Row
<1>5. CreatesAlone'
  BY <1>1 DEF GpuInv, CreatesAlone, ContainerExists
<1>6. CreatesConsistent' /\ StartsConsistent'
  BY <1>1 DEF GpuInv, CreatesConsistent, StartsConsistent, ContainerExists, Held
<1>7. ReservationsOwned' /\ SavedHeldTogether' /\ ReservedAllOrNothing'
  BY <1>1 DEF GpuInv, ReservationsOwned, SavedHeldTogether, ReservedAllOrNothing,
     ContainerExists, Held
<1> QED
  BY <1>3, <1>4, <1>5, <1>6, <1>7 DEF Facts

\* A create inserts the row under an id nobody else works on.
LEMMA CreateInsertInv == ASSUME GpuInv, NEW r \in Requests, CreateInsert(r) PROVE Facts'
<1>1. PICK c \in Containers, n \in Nodes, next \in {"gpus", "route", "send"} :
        /\ req[r].op = "create" /\ req[r].step = "insert" /\ req[r].c = c /\ req[r].node = n
        /\ ~ContainerExists(c)
        /\ rows' = [rows EXCEPT ![c] = [node |-> n, state |-> "starting", saved |-> {},
                                        port |-> req[r].port]]
        /\ Goto(r, next)
        /\ next = "route" => req[r].port # NoPort
        /\ UNCHANGED <<gpuAlloc, issued, dispatched>>
  BY Running DEF CreateInsert, At, InsertContainer, CreatePublish, StoreStep, KeepsAgents,
     GpuInv
<1>2. /\ \A q \in Requests \ {r} : req'[q] = req[q]
      /\ req'[r] = [req[r] EXCEPT !.step = next]
  BY <1>1, GotoFacts, StepNames DEF GpuInv, TypeOK, ReqTypeOK
<1>3. /\ req'[r].op = "create" /\ req'[r].step = next /\ req'[r].c = c /\ req'[r].node = n
      /\ req'[r].prior = req[r].prior /\ req'[r].port = req[r].port
  BY <1>1, <1>2 DEF GpuInv, TypeOK, Request
<1>4. /\ rows'[c].node = n /\ rows'[c].saved = {}
      /\ \A d \in Containers \ {c} : rows'[d] = rows[d]
      /\ gpuAlloc' = gpuAlloc /\ issued' = issued /\ dispatched' = dispatched
  BY <1>1 DEF GpuInv, TypeOK, StoreTypeOK
<1>5. \A q \in Requests \ {r} : req[q].op # "none" => req[q].c # c /\ req[q].c \in Containers
  BY <1>1, Running DEF GpuInv, CreatesAlone
<1>6. c \in issued /\ c \notin dispatched
  BY <1>1 DEF GpuInv, IdsIssued, CreatesAlone
<1>7. \A m \in Nodes, g \in GPUs : gpuAlloc[m][g] # c
  BY <1>1, DomainAssumption DEF GpuInv, ReservationsOwned
<1>8. IdsIssued'
  <2>1. IdsIssued /\ req[r].op = "create"
    BY <1>1 DEF GpuInv
  <2>2. \A q \in Requests \ {r} : req'[q] = req[q]
    BY <1>2
  <2> QED
    BY <1>3, <1>4, <1>6, <2>1, <2>2 DEF IdsIssued, ContainerExists
<1>81. PriorsKnown' /\ ProxyUsersHavePorts'
  BY <1>1, <1>2, <1>3 DEF GpuInv, PriorsKnown, ProxyUsersHavePorts
<1>9. CreatesAlone'
  <2>1. ASSUME NEW q \in Requests \ {r}, req[q].op = "create",
               req[q].step \in {"port", "insert"}
        PROVE  rows'[req[q].c] = NoRow
    BY <1>4, <1>5, <2>1 DEF GpuInv, CreatesAlone, ContainerExists
  <2>2. req'[r].step \notin {"port", "insert"} /\ req[r].op = "create" /\ req[r].c = c
    BY <1>1, <1>3 DEF ContainerExists
  <2>3. \A q \in Requests : req'[q].op = req[q].op /\ req'[q].c = req[q].c
    BY <1>2, <1>3, <2>2
  <2>4. ASSUME NEW q \in Requests, req[q].op = "create"
        PROVE  /\ req[q].c \notin dispatched'
               /\ \A p \in Requests \ {q} : req[p].op = "create" => req[p].c # req[q].c
    BY <1>4, <2>4 DEF GpuInv, CreatesAlone
  <2>5. ASSUME NEW q \in Requests \ {r}, req[q].op = "create",
               req[q].step \in {"port", "insert"}
        PROVE  \A p \in Requests \ {q} : req[p].op # "none" => req[p].c # req[q].c
    BY <2>5 DEF GpuInv, CreatesAlone
  <2> SUFFICES ASSUME NEW q \in Requests, req'[q].op = "create"
               PROVE  /\ req'[q].c \notin dispatched'
                      /\ \A p \in Requests \ {q} : req'[p].op = "create" => req'[p].c # req'[q].c
                      /\ req'[q].step \in {"port", "insert"} =>
                           /\ rows'[req'[q].c] = NoRow
                           /\ \A p \in Requests \ {q} :
                                req'[p].op # "none" => req'[p].c # req'[q].c
    BY DEF CreatesAlone, ContainerExists
  <2>6. CASE q = r
    BY <1>3, <2>2, <2>3, <2>4, <2>6
  <2>7. CASE q # r
    BY <1>2, <2>1, <2>3, <2>4, <2>5, <2>7
  <2> QED
    BY <2>6, <2>7
<1>10. CreatesConsistent'
  <2>1. ASSUME NEW q \in Requests \ {r}, req[q].op = "create"
        PROVE  req[q].c \in Containers \ {c} /\ rows'[req[q].c] = rows[req[q].c]
    BY <1>4, <1>5, <2>1
  <2>2. Held(n, c)' = {}
    BY <1>4, <1>7 DEF Held
  <2> SUFFICES ASSUME NEW q \in Requests, req'[q].op = "create", ContainerExists(req[q].c)'
               PROVE  (/\ rows[req[q].c].node = req[q].node
                       /\ req[q].step \in {"gpus", "persist"} => rows[req[q].c].saved = {}
                       /\ req[q].step = "persist"
                            => Held(rows[req[q].c].node, req[q].c) \in {{}, req[q].gpus}
                       /\ req[q].step # "persist" /\ rows[req[q].c].saved = {}
                            => Held(rows[req[q].c].node, req[q].c) = {})'
    BY DEF CreatesConsistent
  <2>3. CASE q = r
    BY <1>1, <1>3, <1>4, <2>2, <2>3 DEF Held
  <2>4. CASE q # r
    BY <1>2, <1>4, <2>1, <2>4 DEF GpuInv, CreatesConsistent, ContainerExists, Held
  <2> QED
    BY <2>3, <2>4
<1>11. StartsConsistent'
  <2>1. ASSUME NEW q \in Requests, req'[q].op = "start"
        PROVE  req'[q] = req[q] /\ req[q].op = "start" /\ rows'[req[q].c] = rows[req[q].c]
    <3>1. q # r /\ req'[q] = req[q]
      BY <1>2, <1>3, <2>1
    <3> QED
      BY <1>4, <1>5, <2>1, <3>1
  <2> QED
    BY <2>1 DEF GpuInv, StartsConsistent, ContainerExists
<1>12. ReservationsOwned'
  BY <1>1, <1>4, <1>7 DEF GpuInv, TypeOK, StoreTypeOK, ReservationsOwned, ContainerExists
<1>13. SavedHeldTogether' /\ ReservedAllOrNothing'
  BY <1>1, <1>4, <1>6 DEF GpuInv, TypeOK, SavedHeldTogether, ReservedAllOrNothing,
     ContainerExists, Held
<1> QED
  BY <1>8, <1>81, <1>9, <1>10, <1>11, <1>12, <1>13 DEF Facts

\* What a step keeps when request r only moves to another step.
LEMMA MovesOn ==
    ASSUME GpuInv, NEW r \in Requests, NEW s \in Steps \ {"port", "insert"},
           \A q \in Requests \ {r} : req'[q] = req[q],
           req'[r].op = req[r].op, req'[r].c = req[r].c, req'[r].node = req[r].node,
           req'[r].prior = req[r].prior, req'[r].port = req[r].port, req'[r].step = s,
           s \in {"route", "bind", "unroute"} => req[r].port # NoPort,
           \A c \in Containers : ContainerExists(c)' <=> ContainerExists(c),
           UNCHANGED <<issued, dispatched>>
    PROVE  IdsIssued' /\ PriorsKnown' /\ ProxyUsersHavePorts' /\ CreatesAlone'
<1>1. \A q \in Requests : req'[q].op = req[q].op /\ req'[q].c = req[q].c
  OBVIOUS
<1>2. \A q \in Requests : req[q].op # "none" => req[q].c \in Containers
  BY Running DEF GpuInv
<1>3. IdsIssued'
  BY <1>1 DEF GpuInv, IdsIssued
<1>4. PriorsKnown' /\ ProxyUsersHavePorts'
  BY DEF GpuInv, PriorsKnown, ProxyUsersHavePorts
<1>5. CreatesAlone'
  <2> SUFFICES ASSUME NEW q \in Requests, req'[q].op = "create"
               PROVE  /\ req'[q].c \notin dispatched'
                      /\ \A p \in Requests \ {q} : req'[p].op = "create" => req'[p].c # req'[q].c
                      /\ req'[q].step \in {"port", "insert"} =>
                           /\ rows'[req'[q].c] = NoRow
                           /\ \A p \in Requests \ {q} :
                                req'[p].op # "none" => req'[p].c # req'[q].c
    BY DEF CreatesAlone, ContainerExists
  <2>1. /\ req[q].c \notin dispatched
        /\ \A p \in Requests \ {q} : req[p].op = "create" => req[p].c # req[q].c
        /\ req[q].step \in {"port", "insert"} =>
             /\ ~ContainerExists(req[q].c)
             /\ \A p \in Requests \ {q} : req[p].op # "none" => req[p].c # req[q].c
    BY <1>1 DEF GpuInv, CreatesAlone
  <2>2. req'[q].step \in {"port", "insert"} => req[q].step \in {"port", "insert"}
    OBVIOUS
  <2> QED
    BY <1>1, <1>2, <2>1, <2>2 DEF ContainerExists
<1> QED
  BY <1>3, <1>4, <1>5

\* What a reservation of all of G for a container that held nothing changes.
LEMMA AllocFacts ==
    ASSUME GpuInv, NEW n \in Nodes, NEW c \in Containers, NEW G \in SUBSET GPUs,
           rows[c].node = n, Held(n, c) = {}, AllocSpecificGPUs(n, c, G)
    PROVE  /\ rows' = rows
           /\ Held(n, c)' = G
           /\ \A m \in Nodes, d \in Containers \ {c} : Held(m, d)' = Held(m, d)
           /\ ReservationsOwned'
<1>1. /\ rows' = rows /\ ContainerExists(c) /\ G \subseteq FreeOn(n)
      /\ gpuAlloc' = GPUsTaken(n, c, G)
  BY DEF AllocSpecificGPUs, storeVars
<1>2. \A m \in Nodes, g \in GPUs :
        gpuAlloc'[m][g] = IF m = n /\ g \in G THEN c ELSE gpuAlloc[m][g]
  BY <1>1 DEF GPUsTaken, GpuInv, TypeOK, StoreTypeOK
<1>3. \A g \in G : gpuAlloc[n][g] = NoContainer
  BY <1>1 DEF FreeOn
<1>4. Held(n, c)' = G
  BY <1>2 DEF Held
<1>5. ASSUME NEW m \in Nodes, NEW d \in Containers \ {c} PROVE Held(m, d)' = Held(m, d)
  <2>1. \A g \in GPUs : gpuAlloc'[m][g] = d <=> gpuAlloc[m][g] = d
    BY <1>2, <1>3, <1>5, DomainAssumption
  <2> QED
    BY <2>1 DEF Held
<1>6. ReservationsOwned'
  BY <1>1, <1>2 DEF GpuInv, ReservationsOwned, ContainerExists
<1> QED
  BY <1>1, <1>4, <1>5, <1>6

\* A create reserves for a container that holds nothing and has saved nothing.
LEMMA CreateAllocGPUsInv ==
    ASSUME GpuInv, NEW r \in Requests, CreateAllocGPUs(r)
    PROVE  Facts'
<1>1. PICK c \in Containers, n \in Nodes, G \in SUBSET GPUs :
        /\ req[r].op = "create" /\ req[r].step = "gpus" /\ req[r].c = c /\ req[r].node = n
        /\ AllocSpecificGPUs(n, c, G)
        /\ req' = [req EXCEPT ![r].step = "persist", ![r].gpus = G, ![r].count = 0]
        /\ UNCHANGED <<issued, dispatched>>
  BY Reserves, Running DEF CreateAllocGPUs, At, StoreStep, KeepsAgents, GpuInv
<1>2. /\ \A q \in Requests \ {r} : req'[q] = req[q]
      /\ req'[r] = [req[r] EXCEPT !.step = "persist", !.gpus = G, !.count = 0]
  BY <1>1 DEF GpuInv, TypeOK
<1>3. /\ req'[r].op = req[r].op /\ req'[r].c = req[r].c /\ req'[r].node = req[r].node
      /\ req'[r].prior = req[r].prior /\ req'[r].port = req[r].port
      /\ req'[r].step = "persist" /\ req'[r].gpus = G
  BY <1>2 DEF GpuInv, TypeOK, Request
<1>4. /\ ContainerExists(c) /\ rows[c].node = n /\ rows[c].saved = {} /\ Held(n, c) = {}
      /\ c \notin dispatched
  BY <1>1 DEF GpuInv, CreatesConsistent, CreatesAlone, AllocSpecificGPUs
<1>5. /\ rows' = rows /\ Held(n, c)' = G /\ ReservationsOwned'
      /\ \A m \in Nodes, d \in Containers \ {c} : Held(m, d)' = Held(m, d)
  BY <1>1, <1>4, AllocFacts
<1>6. IdsIssued' /\ PriorsKnown' /\ ProxyUsersHavePorts' /\ CreatesAlone'
  BY <1>1, <1>2, <1>3, <1>5, MovesOn, StepNames DEF ContainerExists
<1>7. \A d \in Containers : ContainerExists(d) => rows[d].node \in Nodes
  BY DEF GpuInv, TypeOK, StoreTypeOK, ContainerExists, Row
<1>8. CreatesConsistent'
  <2> SUFFICES ASSUME NEW q \in Requests, req'[q].op = "create", ContainerExists(req[q].c)'
               PROVE  (/\ rows[req[q].c].node = req[q].node
                       /\ req[q].step \in {"gpus", "persist"} => rows[req[q].c].saved = {}
                       /\ req[q].step = "persist"
                            => Held(rows[req[q].c].node, req[q].c) \in {{}, req[q].gpus}
                       /\ req[q].step # "persist" /\ rows[req[q].c].saved = {}
                            => Held(rows[req[q].c].node, req[q].c) = {})'
    BY DEF CreatesConsistent
  <2>1. CASE q = r
    <3>1. req'[q].c = c /\ req'[q].node = n /\ rows'[c] = rows[c]
      BY <1>1, <1>3, <1>5, <2>1
    <3>2. Held(rows[req[q].c].node, req[q].c)' = G
      BY <1>4, <1>5, <3>1 DEF Held
    <3> QED
      BY <1>3, <1>4, <2>1, <3>1, <3>2
  <2>2. CASE q # r
    <3>1. req[q].c \in Containers \ {c} /\ req'[q] = req[q] /\ ContainerExists(req[q].c)
      <4>1. req'[q] = req[q] /\ req[q].op = "create"
        BY <1>2, <2>2
      <4>2. req[q].c \in Containers /\ req[q].c # c
        BY <1>1, <2>2, <4>1, Running DEF GpuInv, CreatesAlone
      <4> QED
        BY <1>5, <4>1, <4>2 DEF ContainerExists
    <3>2. PICK m \in Nodes, d \in Containers \ {c} : rows[req[q].c].node = m /\ req[q].c = d
      BY <1>7, <3>1
    <3>3. Held(m, d)' = Held(m, d)
      BY <1>5
    <3> QED
      BY <1>5, <3>1, <3>2, <3>3 DEF GpuInv, CreatesConsistent, Held
  <2> QED
    BY <2>1, <2>2
<1>9. StartsConsistent'
  <2>1. \A q \in Requests : req'[q].op = "start" => req'[q] = req[q]
    BY <1>1, <1>2, <1>3
  <2> QED
    BY <1>5, <2>1 DEF GpuInv, StartsConsistent, ContainerExists
<1>10. SavedHeldTogether' /\ ReservedAllOrNothing'
  BY <1>1, <1>4, <1>5, <1>7 DEF GpuInv, TypeOK, SavedHeldTogether, ReservedAllOrNothing,
     ContainerExists, Held
<1> QED
  BY <1>5, <1>6, <1>8, <1>9, <1>10 DEF Facts

\* A start reserves the saved devices, and only if none of them is held: since
\* they are held all or not at all, its container holds nothing.
LEMMA StartAllocGPUsInv ==
    ASSUME GpuInv, NEW r \in Requests, StartAllocGPUs(r)
    PROVE  /\ Facts'
           /\ Held(req[r].node, req[r].c) = {}
<1>1. PICK c \in Containers, n \in Nodes, G \in SUBSET GPUs :
        /\ req[r].op = "start" /\ req[r].step = "gpus" /\ req[r].gpus = G
        /\ req[r].c = c /\ req[r].node = n
        /\ AllocSpecificGPUs(n, c, G)
        /\ Goto(r, "mark")
        /\ UNCHANGED <<issued, dispatched>>
  BY Running DEF StartAllocGPUs, At, StoreStep, KeepsAgents, GpuInv
<1>2. /\ \A q \in Requests \ {r} : req'[q] = req[q]
      /\ req'[r] = [req[r] EXCEPT !.step = "mark"]
  BY <1>1, GotoFacts, StepNames DEF GpuInv, TypeOK, ReqTypeOK
<1>3. /\ req'[r].op = req[r].op /\ req'[r].c = req[r].c /\ req'[r].node = req[r].node
      /\ req'[r].prior = req[r].prior /\ req'[r].port = req[r].port
      /\ req'[r].step = "mark" /\ req'[r].gpus = req[r].gpus
  BY <1>2 DEF GpuInv, TypeOK, Request
<1>4. /\ ContainerExists(c) /\ rows[c].node = n /\ rows[c].saved = G /\ G # {}
  BY <1>1 DEF GpuInv, StartsConsistent, AllocSpecificGPUs
<1>5. Held(n, c) = {}
  <2>1. Held(n, c) \in {{}, G}
    BY <1>4 DEF GpuInv, SavedHeldTogether
  <2>2. G \cap Held(n, c) = {}
    BY <1>1, DomainAssumption DEF AllocSpecificGPUs, FreeOn, Held
  <2> QED
    BY <1>4, <2>1, <2>2
<1>6. /\ rows' = rows /\ Held(n, c)' = G /\ ReservationsOwned'
      /\ \A m \in Nodes, d \in Containers \ {c} : Held(m, d)' = Held(m, d)
  BY <1>1, <1>4, <1>5, AllocFacts
<1>7. IdsIssued' /\ PriorsKnown' /\ ProxyUsersHavePorts' /\ CreatesAlone'
  BY <1>1, <1>2, <1>3, <1>6, MovesOn, StepNames DEF ContainerExists
<1>8. \A d \in Containers : ContainerExists(d) => rows[d].node \in Nodes
  BY DEF GpuInv, TypeOK, StoreTypeOK, ContainerExists, Row
<1>9. CreatesConsistent'
  <2> SUFFICES ASSUME NEW q \in Requests, req'[q].op = "create", ContainerExists(req[q].c)'
               PROVE  (/\ rows[req[q].c].node = req[q].node
                       /\ req[q].step \in {"gpus", "persist"} => rows[req[q].c].saved = {}
                       /\ req[q].step = "persist"
                            => Held(rows[req[q].c].node, req[q].c) \in {{}, req[q].gpus}
                       /\ req[q].step # "persist" /\ rows[req[q].c].saved = {}
                            => Held(rows[req[q].c].node, req[q].c) = {})'
    BY DEF CreatesConsistent
  <2>1. req'[q] = req[q] /\ req[q].op = "create" /\ req[q].c \in Containers
    BY <1>1, <1>2, <1>3, Running DEF GpuInv
  <2>2. ContainerExists(req[q].c)
    BY <1>6, <2>1 DEF ContainerExists
  <2>3. CASE req[q].c = c
    BY <1>4, <1>6, <2>1, <2>2, <2>3 DEF GpuInv, CreatesConsistent
  <2>4. CASE req[q].c # c
    <3>1. PICK m \in Nodes, d \in Containers \ {c} : rows[req[q].c].node = m /\ req[q].c = d
      BY <1>8, <2>1, <2>2, <2>4
    <3>2. Held(m, d)' = Held(m, d)
      BY <1>6
    <3> QED
      BY <1>6, <2>1, <2>2, <3>1, <3>2 DEF GpuInv, CreatesConsistent, Held
  <2> QED
    BY <2>3, <2>4
<1>10. StartsConsistent'
  <2>1. ASSUME NEW q \in Requests
        PROVE  /\ req'[q].op = req[q].op /\ req'[q].c = req[q].c
               /\ req'[q].node = req[q].node /\ req'[q].gpus = req[q].gpus
               /\ req'[q].step = "gpus" => req[q].step = "gpus"
    BY <1>2, <1>3
  <2> QED
    BY <1>6, <2>1 DEF GpuInv, StartsConsistent, ContainerExists
<1>11. SavedHeldTogether' /\ ReservedAllOrNothing'
  <2>1. ASSUME NEW d \in Containers, ContainerExists(d)
        PROVE  Held(rows[d].node, d)' = IF d = c THEN rows[d].saved ELSE Held(rows[d].node, d)
    BY <1>4, <1>6, <1>8, <2>1 DEF Held
  <2> QED
    BY <1>1, <1>6, <2>1 DEF GpuInv, TypeOK, SavedHeldTogether, ReservedAllOrNothing,
       ContainerExists, Held
<1> QED
  BY <1>1, <1>5, <1>6, <1>7, <1>9, <1>10, <1>11 DEF Facts

\* A create saves the devices it has reserved, or lost since, as a whole.
LEMMA CreatePersistInv ==
    ASSUME GpuInv, NEW r \in Requests, CreatePersist(r)
    PROVE  Facts'
<1>1. PICK c \in Containers, G \in SUBSET GPUs, s \in {"route", "send"} :
        /\ req[r].op = "create" /\ req[r].step = "persist" /\ req[r].gpus = G /\ req[r].c = c
        /\ UpdateContainerGPUIndices(c, G)
        /\ Goto(r, s)
        /\ s = "route" => req[r].port # NoPort
        /\ UNCHANGED <<issued, dispatched>>
  BY Running DEF CreatePersist, CreatePublish, At, StoreStep, KeepsAgents, GpuInv
<1>2. /\ \A q \in Requests \ {r} : req'[q] = req[q]
      /\ req'[r] = [req[r] EXCEPT !.step = s]
  BY <1>1, GotoFacts, StepNames DEF GpuInv, TypeOK, ReqTypeOK
<1>3. /\ req'[r].op = req[r].op /\ req'[r].c = req[r].c /\ req'[r].node = req[r].node
      /\ req'[r].prior = req[r].prior /\ req'[r].port = req[r].port
      /\ req'[r].step = s /\ req'[r].gpus = req[r].gpus
  BY <1>2 DEF GpuInv, TypeOK, Request
<1>4. /\ \A d \in Containers : ContainerExists(d) =>
           /\ rows'[d].node = rows[d].node
           /\ rows'[d].saved = IF d = c THEN G ELSE rows[d].saved
      /\ \A d \in Containers : ContainerExists(d)' <=> ContainerExists(d)
      /\ gpuAlloc' = gpuAlloc
  <2>1. ASSUME ContainerExists(c)
        PROVE  /\ rows' = [rows EXCEPT ![c] = [rows[c] EXCEPT !.saved = G]]
               /\ rows[c] \in Row
               /\ [rows[c] EXCEPT !.saved = G] \in Row
    <3>1. rows[c] \in Row /\ rows' = [rows EXCEPT ![c].saved = G]
      BY <1>1, <2>1 DEF UpdateContainerGPUIndices, GpuInv, TypeOK, StoreTypeOK, ContainerExists
    <3>2. [rows[c] EXCEPT !.saved = G] \in Row
      BY <3>1 DEF Row
    <3> QED
      BY <3>1, <3>2
  <2>2. ~ContainerExists(c) => rows' = rows
    BY <1>1 DEF UpdateContainerGPUIndices
  <2>3. gpuAlloc' = gpuAlloc
    BY <1>1 DEF UpdateContainerGPUIndices
  <2>4. CASE ContainerExists(c)
    <3>1. /\ rows'[c].node = rows[c].node /\ rows'[c].saved = G /\ rows'[c] # NoRow
          /\ \A d \in Containers \ {c} : rows'[d] = rows[d]
      BY <2>1, <2>4, StoreAssumption DEF GpuInv, TypeOK, StoreTypeOK, Row
    <3> QED
      BY <2>3, <2>4, <3>1 DEF ContainerExists
  <2>5. CASE ~ContainerExists(c)
    BY <2>2, <2>3, <2>5 DEF ContainerExists
  <2> QED
    BY <2>4, <2>5
<1>5. /\ ContainerExists(c) => rows[c].saved = {} /\ Held(rows[c].node, c) \in {{}, G}
      /\ c \notin dispatched
  BY <1>1 DEF GpuInv, CreatesConsistent, CreatesAlone
<1>6. \A d \in Containers : ContainerExists(d) => Held(rows[d].node, d)' = Held(rows[d].node, d)
  BY <1>4 DEF Held
<1>7. IdsIssued' /\ PriorsKnown' /\ ProxyUsersHavePorts' /\ CreatesAlone'
  BY <1>1, <1>2, <1>3, <1>4, MovesOn, StepNames
<1>8. ReservationsOwned'
  <2>1. \A n \in Nodes, g \in GPUs : gpuAlloc[n][g] # NoContainer => gpuAlloc[n][g] \in Containers
    BY DEF GpuInv, TypeOK, StoreTypeOK
  <2> QED
    BY <1>4, <2>1 DEF GpuInv, ReservationsOwned, ContainerExists
<1>9. CreatesConsistent'
  <2> SUFFICES ASSUME NEW q \in Requests, req'[q].op = "create", ContainerExists(req[q].c)'
               PROVE  (/\ rows[req[q].c].node = req[q].node
                       /\ req[q].step \in {"gpus", "persist"} => rows[req[q].c].saved = {}
                       /\ req[q].step = "persist"
                            => Held(rows[req[q].c].node, req[q].c) \in {{}, req[q].gpus}
                       /\ req[q].step # "persist" /\ rows[req[q].c].saved = {}
                            => Held(rows[req[q].c].node, req[q].c) = {})'
    BY DEF CreatesConsistent
  <2>1. /\ req[q].op = "create" /\ req[q].c \in Containers /\ req'[q].c = req[q].c
        /\ req'[q].node = req[q].node /\ req'[q].gpus = req[q].gpus
    BY <1>1, <1>2, <1>3, Running DEF GpuInv
  <2>2. ContainerExists(req[q].c)
    BY <1>4, <2>1 DEF ContainerExists
  <2>3. Held(rows[req[q].c].node, req[q].c)' = Held(rows[req[q].c].node, req[q].c)
    BY <1>4, <2>1, <2>2 DEF Held
  <2>4. CASE q = r
    BY <1>1, <1>3, <1>4, <1>5, <2>1, <2>2, <2>3, <2>4 DEF GpuInv, CreatesConsistent
  <2>5. CASE q # r
    <3>1. req[q].c # c /\ req'[q] = req[q]
      BY <1>1, <1>2, <2>1, <2>5 DEF GpuInv, CreatesAlone
    <3> QED
      BY <1>4, <2>1, <2>2, <2>3, <3>1 DEF GpuInv, CreatesConsistent
  <2> QED
    BY <2>4, <2>5
<1>10. StartsConsistent'
  <2>1. ASSUME NEW q \in Requests, req'[q].op = "start"
        PROVE  req'[q] = req[q] /\ req[q].c \in Containers
    BY <1>1, <1>2, <1>3, <2>1, Running DEF GpuInv
  <2> QED
    BY <1>4, <1>5, <2>1 DEF GpuInv, StartsConsistent, ContainerExists
<1>11. SavedHeldTogether' /\ ReservedAllOrNothing'
  <2>1. ASSUME NEW d \in Containers, ContainerExists(d)', rows'[d].saved # {} \/ d \in dispatched
        PROVE  Held(rows[d].node, d)' \in {{}, rows'[d].saved}
    <3>1. ContainerExists(d)
      BY <1>4, <2>1
    <3> QED
      BY <1>4, <1>5, <1>6, <2>1, <3>1 DEF GpuInv, SavedHeldTogether, ReservedAllOrNothing
  <2> QED
    BY <1>1, <2>1 DEF GpuInv, TypeOK, SavedHeldTogether, ReservedAllOrNothing,
       ContainerExists, Held
<1> QED
  BY <1>7, <1>8, <1>9, <1>10, <1>11 DEF Facts

\* A create hands over a container whose saved devices are held together.
LEMMA CreateSendInv ==
    ASSUME GpuInv, NEW r \in Requests, CreateSend(r)
    PROVE  Facts'
<1>1. PICK c \in Containers :
        /\ req[r].op = "create" /\ req[r].step = "send" /\ req[r].c = c
        /\ dispatched' = dispatched \cup {c}
        /\ UNCHANGED <<rows, gpuAlloc, issued>>
        /\ Finish(r)
  BY Running DEF CreateSend, At, storeVars, GpuInv
<1>2. /\ \A q \in Requests \ {r} : req'[q] = req[q]
      /\ req'[r].op = "none" /\ req'[r].step = "none"
  BY <1>1, FinishFacts, IdleFields DEF GpuInv, TypeOK, ReqTypeOK
<1>3. c \in issued /\ \A q \in Requests \ {r} : req[q].op = "create" => req[q].c # c
  BY <1>1 DEF GpuInv, IdsIssued, CreatesAlone
<1>4. ContainerExists(c) => Held(rows[c].node, c) \in {{}, rows[c].saved}
  BY <1>1 DEF GpuInv, CreatesConsistent, SavedHeldTogether
<1>5. IdsIssued' /\ PriorsKnown' /\ ProxyUsersHavePorts'
  BY <1>1, <1>2, <1>3 DEF GpuInv, IdsIssued, PriorsKnown, ProxyUsersHavePorts, ContainerExists
<1>6. CreatesAlone'
  BY <1>1, <1>2, <1>3 DEF GpuInv, CreatesAlone, ContainerExists
<1>7. CreatesConsistent' /\ StartsConsistent'
  BY <1>1, <1>2 DEF GpuInv, CreatesConsistent, StartsConsistent, ContainerExists, Held
<1>8. ReservationsOwned' /\ SavedHeldTogether'
  BY <1>1 DEF GpuInv, ReservationsOwned, SavedHeldTogether, ContainerExists, Held
<1>9. ReservedAllOrNothing'
  BY <1>1, <1>4 DEF GpuInv, ReservedAllOrNothing, ContainerExists, Held
<1> QED
  BY <1>5, <1>6, <1>7, <1>8, <1>9 DEF Facts

(***************************************************************************)
(* GpuInv holds in every reachable state.                                  *)
(***************************************************************************)
LEMMA TellingInv == ASSUME GpuInv, NEW r \in Requests, Telling(r) PROVE Facts'
<1>1. CASE StartBegin(r)
  <2>1. PICK c \in Containers :
          /\ ContainerExists(c)
          /\ Begin(r, "start", c, IF rows[c].saved # {} THEN "gpus" ELSE "mark",
                   rows[c].state, rows[c].saved)
    BY <1>1 DEF StartBegin
  <2> QED
    BY <1>1, <2>1, BeginInv DEF StartBegin
<1>2. CASE StopBegin(r)
  BY <1>2, BeginInv DEF StopBegin
<1>3. CASE DeleteBegin(r)
  BY <1>3, BeginInv DEF DeleteBegin
<1> QED
  BY <1>1, <1>2, <1>3, CreateBeginInv, CreateInsertInv, CreateAllocGPUsInv,
     CreatePersistInv, CreateSendInv, StartAllocGPUsInv DEF Telling

\* GpuInv holds initially.
LEMMA GpuInvStart == Init => GpuInv
<1> SUFFICES ASSUME Init PROVE GpuInv
  OBVIOUS
<1>1. TypeOK
  <2>1. StoreTypeOK
    BY DEF Init, StoreInit, StoreTypeOK
  <2>2. ProxyTypeOK
    BY ProxyStart DEF Init
  <2> QED
    BY <2>1, <2>2, IdleType DEF Init, TypeOK, Handling, Reverting
<1>2. /\ \A r \in Requests : req[r].op = "none" /\ req[r].step = "none"
      /\ \A c \in Containers : ~ContainerExists(c)
      /\ \A n \in Nodes, g \in GPUs : gpuAlloc[n][g] = NoContainer
      /\ dispatched = {}
  BY IdleFields DEF Init, StoreInit, ContainerExists
<1> QED
  BY <1>1, <1>2 DEF GpuInv, IdsIssued, PriorsKnown, ProxyUsersHavePorts, CreatesAlone,
     CreatesConsistent, StartsConsistent, ReservationsOwned, SavedHeldTogether,
     ReservedAllOrNothing

\* Every step keeps GpuInv.
LEMMA GpuInvStep == GpuInv /\ [Next]_vars => GpuInv'
<1> SUFFICES ASSUME GpuInv, [Next]_vars PROVE GpuInv'
  OBVIOUS
<1>1. TypeOK'
  BY Types DEF GpuInv
<1>2. Quiet \/ \E r \in Requests : Telling(r)
  BY QuietSteps DEF GpuInv
<1>3. Facts'
  BY <1>1, <1>2, QuietInv, TellingInv
<1> QED
  BY <1>1, <1>3 DEF GpuInv, Facts

\* The inductive invariant of the reservations holds in every reachable state,
\* for any number of containers, nodes, devices, ports and requests, with every
\* fault. (api.go:260-751, manager.go:204-262, 323-515)
THEOREM GpuInvariant == Spec => []GpuInv
BY GpuInvStart, GpuInvStep, PTL DEF Spec

(***************************************************************************)
(* Every variable of the master keeps its type.                            *)
(***************************************************************************)
THEOREM TypeCorrect == Spec => []TypeOK
<1>1. GpuInv => TypeOK
  BY DEF GpuInv
<1> QED
  BY <1>1, GpuInvariant, PTL

(***************************************************************************)
(* No device is ever reserved for a container the master does not know, or *)
(* on another node than the container's: deletes, failed creates, starts   *)
(* that cross them and late agent messages strand nothing.                 *)
(* (store.go:138-146, api.go:616-716)                                      *)
(***************************************************************************)
THEOREM NoStrandedReservation == Spec => []ReservationsOwned
<1>1. GpuInv => ReservationsOwned
  BY DEF GpuInv
<1> QED
  BY <1>1, GpuInvariant, PTL

(***************************************************************************)
(* A container an agent has been told to create holds exactly the devices  *)
(* it was created with, or none. (api.go:424-451, 653-678)                 *)
(***************************************************************************)
THEOREM WholeReservations == Spec => []ReservedAllOrNothing
<1>1. GpuInv => ReservedAllOrNothing
  BY DEF GpuInv
<1> QED
  BY <1>1, GpuInvariant, PTL

(***************************************************************************)
(* Inside the master, where it shares its goroutines with the handlers and *)
(* the process restarts, the proxy accounts for its sockets as on its own. *)
(* (proxy.go:84-111, 207-217)                                              *)
(***************************************************************************)
THEOREM MasterSocketsAccounted == Spec => []SocketsAccounted
<1>1. Init => SocketsAccounted
  BY ProxyStart DEF Init
<1>2. GpuInv /\ SocketsAccounted /\ [Next]_vars => SocketsAccounted'
  BY ProxySteps, SocketSteps DEF GpuInv, TypeOK
<1> QED
  BY <1>1, <1>2, GpuInvariant, PTL DEF Spec

(***************************************************************************)
(* The reservations implement the ledger: a create or a start acquires for *)
(* a container that holds nothing, every other store call releases all one *)
(* container holds or touches no device.                                   *)
(***************************************************************************)
LEMMA AcquireStep ==
    ASSUME GpuInv, NEW n \in Nodes, NEW c \in Containers, NEW G \in SUBSET GPUs,
           AllocSpecificGPUs(n, c, G), rows[c].node = n, Held(n, c) = {}
    PROVE  Ledger!Acquire(c, n, G)
<1>1. \A m \in Nodes, g \in GPUs : gpuAlloc[m][g] # c
  <2> SUFFICES ASSUME NEW m \in Nodes, NEW g \in GPUs, gpuAlloc[m][g] = c PROVE FALSE
    OBVIOUS
  <2>1. m = n
    BY DomainAssumption DEF GpuInv, ReservationsOwned
  <2> QED
    BY <2>1 DEF Held
<1>2. \A g \in G : gpuAlloc[n][g] = NoContainer
  BY DEF AllocSpecificGPUs, FreeOn
<1> QED
  BY <1>1, <1>2 DEF AllocSpecificGPUs, GPUsTaken, Ledger!Acquire, Ledger!HoldsNothing

\* Every step of the master is a step of the ledger or touches no device.
LEMMA LedgerStep == GpuInv /\ [Next]_vars => [Ledger!LedgerNext]_gpuAlloc
<1> SUFFICES ASSUME GpuInv, [Next]_vars PROVE [Ledger!LedgerNext]_gpuAlloc
  OBVIOUS
<1>1. CASE Quiet
  <2>1. (\E c \in Containers : gpuAlloc' = GPUsReleased(c)) \/ gpuAlloc' = gpuAlloc
    BY <1>1 DEF Quiet, QuietCall, UpdateContainerState, DeleteContainer, FreeGPUs,
       AllocPort, FreePort, storeVars
  <2> QED
    BY <2>1 DEF GPUsReleased, Ledger!LedgerNext, Ledger!Release
<1>2. ASSUME NEW r \in Requests, CreateAllocGPUs(r)
      PROVE  Ledger!LedgerNext
  <2>1. PICK c \in Containers, n \in Nodes, G \in SUBSET GPUs :
          /\ req[r].op = "create" /\ req[r].step = "gpus" /\ req[r].c = c /\ req[r].node = n
          /\ AllocSpecificGPUs(n, c, G)
    BY <1>2, Running DEF CreateAllocGPUs, At, LowestFree, FreeOn, GpuInv
  <2>2. rows[c].node = n /\ Held(n, c) = {}
    BY <2>1 DEF GpuInv, CreatesConsistent, AllocSpecificGPUs
  <2> QED
    BY <2>1, <2>2, AcquireStep DEF Ledger!LedgerNext
<1>3. ASSUME NEW r \in Requests, StartAllocGPUs(r)
      PROVE  Ledger!LedgerNext
  <2>1. /\ req[r].op = "start" /\ AllocSpecificGPUs(req[r].node, req[r].c, req[r].gpus)
        /\ req[r].c \in Containers /\ req[r].node \in Nodes /\ req[r].gpus \in SUBSET GPUs
    BY <1>3, Running DEF StartAllocGPUs, At, GpuInv
  <2>2. rows[req[r].c].node = req[r].node
    BY <2>1 DEF GpuInv, StartsConsistent, AllocSpecificGPUs
  <2>3. Held(req[r].node, req[r].c) = {}
    BY <1>3, StartAllocGPUsInv
  <2> QED
    BY <2>1, <2>2, <2>3, AcquireStep DEF Ledger!LedgerNext
<1>4. ASSUME NEW r \in Requests,
             \/ CreateBegin(r) \/ CreateInsert(r) \/ CreatePersist(r) \/ CreateSend(r)
             \/ StartBegin(r) \/ StopBegin(r) \/ DeleteBegin(r)
      PROVE  UNCHANGED gpuAlloc
  BY <1>4 DEF CreateBegin, CreateInsert, CreatePersist, CreateSend, StartBegin, StopBegin,
     DeleteBegin, InsertContainer, UpdateContainerGPUIndices, LocalStep, storeVars
<1> QED
  BY <1>1, <1>2, <1>3, <1>4, QuietSteps DEF Telling, GpuInv

(***************************************************************************)
(* README.md's promise of exclusive GPUs, as far as the master's tables go *)
(* (README.md:365-385): a device is acquired with all the others of its    *)
(* container or not at all, only while free, and changes hands only        *)
(* through being given back.                                               *)
(***************************************************************************)
THEOREM ImplementsLedger == Spec => GpuReservationsAreALedger
<1>1. Init => Ledger!LedgerInit
  BY DEF Init, StoreInit, Ledger!LedgerInit
<1>2. GpuInv /\ [Next]_vars => [Ledger!LedgerNext]_gpuAlloc
  BY LedgerStep
<1> QED
  BY <1>1, <1>2, GpuInvariant, PTL DEF Spec, GpuReservationsAreALedger, Ledger!LedgerSpec

=============================================================================
