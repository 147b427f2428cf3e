--------------------------- MODULE SessionsProofs ---------------------------
(***************************************************************************)
(* Proofs about Sessions: types, and that an agent whose attempts to       *)
(* connect do not overlap is tracked and shown as it is, for any number of *)
(* attempts, breaks at every step and early commands.                      *)
(***************************************************************************)
EXTENDS Sessions, TLAPS

-----------------------------------------------------------------------------
(***************************************************************************)
(* Type correctness.                                                       *)
(***************************************************************************)
LEMMA HandlerTypes ==
    ASSUME TypeOK, NEW s \in Streams, HandlerStep(s)
    PROVE  TypeOK'
<1> USE DEF TypeOK, HandlerSteps, Registering, HandlerGoes
<1>1. CASE Resolve(s)
  BY <1>1 DEF Resolve
<1>2. CASE \/ InsertNode(s) \/ RefreshNode(s) \/ MarkOnline(s)
           \/ MarkOffline(s) \/ MarkOfflineFails(s)
  BY <1>2 DEF InsertNode, RefreshNode, MarkOnline, MarkOffline, MarkOfflineFails
<1>3. CASE InsertNodeFails(s) \/ RegistrationFails(s) \/ SessionMissing(s)
  BY <1>3 DEF InsertNodeFails, RegistrationFails, SessionMissing, Return
<1>4. CASE PublishSession(s) \/ HandleDisconnect(s)
  BY <1>4 DEF PublishSession, HandleDisconnect
<1>5. CASE Reply(s) \/ Lookup(s)
  BY <1>5 DEF Reply, Lookup, Sends
<1> QED
  BY <1>1, <1>2, <1>3, <1>4, <1>5 DEF HandlerStep

LEMMA Types ==
    ASSUME TypeOK, [Next]_vars
    PROVE  TypeOK'
<1> USE DEF TypeOK
<1>1. ASSUME NEW s \in Streams, Dial(s)
      PROVE  TypeOK'
  <2>1. [at |-> "waiting", stream |-> s] \in [at : {"waiting", "serving"}, stream : Streams]
    OBVIOUS
  <2>2. handler' \in [Streams -> HandlerSteps]
    BY <1>1 DEF Dial, HandlerSteps, Registering
  <2> QED
    BY <1>1, <2>1, <2>2 DEF Dial
<1>2. ASSUME NEW s \in Streams, AgentStep(s)
      PROVE  TypeOK'
  <2>1. CASE AgentRegistered(s)
    <3>1. agent' = [at |-> "serving", stream |-> s]
      BY <2>1 DEF AgentRegistered
    <3> QED
      BY <2>1, <3>1 DEF AgentRegistered
  <2>2. CASE AgentLeaves(s)
    BY <2>2 DEF AgentLeaves
  <2> QED
    BY <1>2, <2>1, <2>2 DEF AgentStep
<1>3. ASSUME NEW s \in Streams, LinkBreaks(s) \/ EarlyCommand(s)
      PROVE  TypeOK'
  BY <1>3 DEF LinkBreaks, EarlyCommand, Sends
<1>4. CASE Shutdown \/ GracefulStopReturns
  BY <1>4 DEF Shutdown, GracefulStopReturns
<1>5. CASE UNCHANGED vars
  BY <1>5 DEF vars
<1> QED
  BY <1>1, <1>2, <1>3, <1>4, <1>5, HandlerTypes DEF Next

LEMMA InitTypes == Init => TypeOK
BY DEF Init, TypeOK, HandlerSteps, Registering

\* Sessions.TypeOK: transports, handlers, the map, the node's state and the agent
\* keep their types.
THEOREM SessionsTypeCorrect == Spec => []TypeOK
BY InitTypes, Types, PTL DEF Spec

-----------------------------------------------------------------------------
(***************************************************************************)
(* Attempts in turn.  While they do not overlap at most one handler is at  *)
(* work, so what it has written last is still there: the row is online     *)
(* from its UpsertNode, and the session its own from its publication, up   *)
(* to its disconnect.  A session that a failed registration has left in    *)
(* the map keeps its row online until a later disconnect deletes it.       *)
(***************************************************************************)
Alone == \A s, t \in Streams : ~Ended(s) /\ ~Ended(t) => s = t

InTurn ==
    ~overlapped =>
        /\ Alone
        /\ session # NoStream => nodeState = "online"
        /\ \A s \in Streams :
              /\ handler[s] \in {"publish", "online", "reply", "lookup", "serving"}
                     => nodeState = "online"
              /\ handler[s] \in {"online", "reply", "lookup", "serving"} => session = s
              /\ handler[s] = "offline" => session = NoStream

\* A step of the only handler at work.
LEMMA HandlerInTurn ==
    ASSUME TypeOK, InTurn, NEW s \in Streams, HandlerStep(s)
    PROVE  InTurn'
<1>1. SUFFICES ASSUME ~overlapped
               PROVE  InTurn'
  BY DEF InTurn, HandlerStep, Resolve, InsertNode, InsertNodeFails, RefreshNode,
         RegistrationFails, PublishSession, MarkOnline, Reply, Lookup, SessionMissing,
         HandleDisconnect, MarkOffline, MarkOfflineFails, Return
<1>2. /\ handler \in [Streams -> HandlerSteps]
      /\ handler[s] \notin {"none", "done"}
      /\ \A t \in Streams : t # s => handler[t] \in {"none", "done"}
      /\ NoStream \notin Streams
  <2>1. ~Ended(s)
    BY DEF Ended, HandlerStep, Resolve, InsertNode, InsertNodeFails, RefreshNode,
           RegistrationFails, PublishSession, MarkOnline, Reply, Lookup, SessionMissing,
           HandleDisconnect, MarkOffline, MarkOfflineFails, Registering
  <2> QED
    BY <1>1, <2>1, SessionsAssumption DEF InTurn, Alone, Ended, TypeOK
<1>3. PICK step \in HandlerSteps : HandlerGoes(s, step)
  BY DEF HandlerStep, Resolve, InsertNode, InsertNodeFails, RefreshNode,
         RegistrationFails, PublishSession, MarkOnline, Reply, Lookup, SessionMissing,
         HandleDisconnect, MarkOffline, MarkOfflineFails, Return, HandlerSteps, Registering
<1>4. handler'[s] = step /\ \A t \in Streams : t # s => handler'[t] \in {"none", "done"}
  BY <1>2, <1>3 DEF HandlerGoes
<1>5. Alone'
  BY <1>4 DEF Alone, Ended
<1>6. /\ session # NoStream => nodeState = "online"
      /\ handler[s] \in {"publish", "online", "reply", "lookup", "serving"} => nodeState = "online"
      /\ handler[s] \in {"online", "reply", "lookup", "serving"} => session = s
      /\ handler[s] = "offline" => session = NoStream
  BY <1>1 DEF InTurn
<1>7. SUFFICES /\ session' # NoStream => nodeState' = "online"
               /\ step \in {"publish", "online", "reply", "lookup", "serving"}
                      => nodeState' = "online"
               /\ step \in {"online", "reply", "lookup", "serving"} => session' = s
               /\ step = "offline" => session' = NoStream
  BY <1>4, <1>5 DEF InTurn
<1>8. CASE Resolve(s)
  BY <1>2, <1>4, <1>6, <1>8 DEF Resolve, HandlerGoes
<1>9. CASE InsertNode(s) \/ RefreshNode(s)
  BY <1>2, <1>4, <1>6, <1>9 DEF InsertNode, RefreshNode, HandlerGoes
<1>10. CASE InsertNodeFails(s) \/ RegistrationFails(s) \/ SessionMissing(s)
  <2>1. step = "done" /\ UNCHANGED <<session, nodeState>>
    BY <1>2, <1>4, <1>10 DEF InsertNodeFails, RegistrationFails, SessionMissing, Return, HandlerGoes
  <2> QED
    BY <1>6, <2>1
<1>11. CASE PublishSession(s)
  BY <1>2, <1>4, <1>6, <1>11 DEF PublishSession, HandlerGoes
<1>12. CASE MarkOnline(s)
  BY <1>2, <1>4, <1>6, <1>12 DEF MarkOnline, HandlerGoes
<1>13. CASE Reply(s) \/ Lookup(s)
  BY <1>2, <1>4, <1>6, <1>13 DEF Reply, Lookup, HandlerGoes
<1>14. CASE HandleDisconnect(s)
  BY <1>2, <1>4, <1>14 DEF HandleDisconnect, HandlerGoes
<1>15. CASE MarkOffline(s) \/ MarkOfflineFails(s)
  BY <1>2, <1>4, <1>6, <1>15 DEF MarkOffline, MarkOfflineFails, HandlerGoes
<1> QED
  BY <1>8, <1>9, <1>10, <1>11, <1>12, <1>13, <1>14, <1>15 DEF HandlerStep

LEMMA InTurnStep ==
    ASSUME TypeOK, InTurn, [Next]_vars
    PROVE  InTurn'
<1>1. ASSUME NEW s \in Streams, Dial(s)
      PROVE  InTurn'
  <2>1. SUFFICES ASSUME ~overlapped'
                 PROVE  InTurn'
    BY DEF InTurn
  <2>2. ~overlapped /\ \A t \in Streams : handler[t] \in {"none", "done"}
    BY <1>1, <2>1 DEF Dial, Ended
  <2>3. session # NoStream => nodeState = "online"
    BY <2>2 DEF InTurn
  <2>4. \A t \in Streams : handler'[t] = IF t = s THEN "resolve" ELSE handler[t]
    BY <1>1 DEF Dial, TypeOK
  <2>5. UNCHANGED <<session, nodeState>>
    BY <1>1 DEF Dial
  <2> QED
    BY <2>2, <2>3, <2>4, <2>5 DEF InTurn, Alone, Ended
<1>2. CASE UNCHANGED <<handler, session, nodeState, overlapped>>
  BY <1>2 DEF InTurn, Alone, Ended
<1>3. ASSUME NEW s \in Streams, AgentStep(s) \/ LinkBreaks(s) \/ EarlyCommand(s)
      PROVE  InTurn'
  BY <1>2, <1>3 DEF AgentStep, AgentRegistered, AgentLeaves, LinkBreaks, EarlyCommand
<1>4. CASE Shutdown \/ GracefulStopReturns \/ UNCHANGED vars
  BY <1>2, <1>4 DEF Shutdown, GracefulStopReturns, vars
<1> QED
  BY <1>1, <1>3, <1>4, HandlerInTurn DEF Next

LEMMA InitInTurn == Init => InTurn
BY DEF Init, InTurn, Alone, Ended

LEMMA AlwaysInTurn == Spec => []InTurn
BY InitInTurn, InTurnStep, SessionsTypeCorrect, PTL DEF Spec

\* Sessions.ServedIsTrackedInTurn: an agent that never redials before the master is
\* done with its earlier stream is served on the session the API finds.
THEOREM SessionsServedIsTracked == Spec => []ServedIsTrackedInTurn
<1>1. InTurn => ServedIsTrackedInTurn
  BY DEF InTurn, ServedIsTrackedInTurn, ServedIsTracked
<1> QED
  BY <1>1, AlwaysInTurn, PTL

\* Sessions.SessionShownOnline: from whatever state an earlier run has left, a node
\* the API can send to is shown online as long as its attempts do not overlap.
THEOREM SessionsSessionShownOnline == Spec => []SessionShownOnline
<1>1. InTurn => SessionShownOnline
  BY DEF InTurn, SessionShownOnline
<1> QED
  BY <1>1, AlwaysInTurn, PTL
=============================================================================
