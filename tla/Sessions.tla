------------------------------ MODULE Sessions ------------------------------
(***************************************************************************)
(* How the master keeps track of one node's agent (internal/master/        *)
(* agentmgr): each attempt of the agent to connect is a gRPC stream with a *)
(* goroutine of its own in the master, and all of them share the node's    *)
(* entry in Manager.sessions and the node's state in the store.  Nodes do  *)
(* not share either, so one node is enough.  The process's shutdown waits  *)
(* for these goroutines.                                                   *)
(***************************************************************************)
EXTENDS Naturals

CONSTANTS
    Streams,       \* the attempts to connect, each used at most once
    NoStream,      \* no session in the map, no stream of the agent
    Shutdowns      \* the master may be asked to shut down

ASSUME SessionsAssumption ==
    /\ NoStream \notin Streams
    /\ Shutdowns \in BOOLEAN

VARIABLES
    conn,         \* stream -> its transport
    first,        \* stream -> the first message the master has sent on it
    handler,      \* stream -> where GrpcServer.Connect stands
    session,      \* Manager.sessions[node]: the stream whose session is in the map
    nodeState,    \* nodes.state; "none" when the node has no row
    agent,        \* Agent.serve: the stream it uses and whether it has registered
    process,      \* the master's Run
    overlapped    \* history: the agent has redialled before the master was done
                  \* with an earlier stream

vars == <<conn, first, handler, session, nodeState, agent, process, overlapped>>

\* The handler's steps: resolveNodeID (resolve, insert or refresh), the rest of
\* OnAgentConnect (publish, online, reply), HandleMessages (lookup, serving) and
\* handleDisconnect (offline).
Registering == {"resolve", "insert", "refresh", "publish", "online", "reply"}
HandlerSteps == {"none", "lookup", "serving", "offline", "done"} \cup Registering

Away == [at |-> "away", stream |-> NoStream]

TypeOK ==
    /\ conn \in [Streams -> {"unused", "open", "broken"}]
    /\ first \in [Streams -> {"none", "resp", "command"}]
    /\ handler \in [Streams -> HandlerSteps]
    /\ session \in Streams \cup {NoStream}
    /\ nodeState \in {"none", "online", "offline"}
    /\ agent \in {Away} \cup [at : {"waiting", "serving"}, stream : Streams]
    /\ process \in {"running", "stopping", "returned"}
    /\ overlapped \in BOOLEAN

\* Run opens the database of an earlier run, if there is one, and resets no state
\* in it: after a crash the node can still be "online".
Init ==
    /\ conn = [s \in Streams |-> "unused"]
    /\ first = [s \in Streams |-> "none"]
    /\ handler = [s \in Streams |-> "none"]
    /\ session = NoStream
    /\ nodeState \in {"none", "online", "offline"}
    /\ agent = Away
    /\ process = "running"
    /\ overlapped = FALSE

-----------------------------------------------------------------------------
(***************************************************************************)
(* The agent (internal/agent, Run and serve): it dials, sends its Register *)
(* and takes the first message as the answer; anything else makes it drop  *)
(* the connection, back off for a second or more and dial again, whether   *)
(* or not the master has noticed that the earlier stream is broken.        *)
(***************************************************************************)
Ended(s) == handler[s] \in {"none", "done"}

Dial(s) ==
    /\ process = "running"
    /\ agent = Away
    /\ conn[s] = "unused"
    /\ conn' = [conn EXCEPT ![s] = "open"]
    /\ handler' = [handler EXCEPT ![s] = "resolve"]
    /\ agent' = [at |-> "waiting", stream |-> s]
    /\ overlapped' = (overlapped \/ \E t \in Streams : ~Ended(t))
    /\ UNCHANGED <<first, session, nodeState, process>>

AgentRegistered(s) ==
    /\ agent = [at |-> "waiting", stream |-> s]
    /\ first[s] = "resp"
    /\ agent' = [agent EXCEPT !.at = "serving"]
    /\ UNCHANGED <<conn, first, handler, session, nodeState, process, overlapped>>

\* serve returns: its first message is not a RegisterResponse, or Recv fails.
AgentLeaves(s) ==
    /\ agent.stream = s
    /\ \/ conn[s] = "broken"
       \/ agent.at = "waiting" /\ first[s] = "command"
    /\ conn' = [conn EXCEPT ![s] = "broken"]
    /\ agent' = Away
    /\ UNCHANGED <<first, handler, session, nodeState, process, overlapped>>

\* The network drops the connection.
LinkBreaks(s) ==
    /\ conn[s] = "open"
    /\ conn' = [conn EXCEPT ![s] = "broken"]
    /\ UNCHANGED <<first, handler, session, nodeState, agent, process, overlapped>>

-----------------------------------------------------------------------------
(***************************************************************************)
(* The master's handler of stream s.  Up to the receive loop any call of   *)
(* the store may fail, for a reason of its own or because the transport    *)
(* has broken and the stream's context is cancelled, and on a broken       *)
(* transport the Send too; the handler then returns, leaving the map as it *)
(* is, and gRPC ends the stream.                                           *)
(***************************************************************************)
HandlerGoes(s, step) == handler' = [handler EXCEPT ![s] = step]

Return(s) ==
    /\ HandlerGoes(s, "done")
    /\ conn' = [conn EXCEPT ![s] = "broken"]
    /\ UNCHANGED <<first, session, nodeState, agent, process, overlapped>>

RegistrationFails(s) ==
    /\ handler[s] \in Registering \ {"publish"}
    /\ handler[s] = "reply" => conn[s] = "broken"
    /\ Return(s)

\* GetNodeByMachineID.
Resolve(s) ==
    /\ handler[s] = "resolve"
    /\ HandlerGoes(s, IF nodeState = "none" THEN "insert" ELSE "refresh")
    /\ UNCHANGED <<conn, first, session, nodeState, agent, process, overlapped>>

\* UpsertNode under a new id: machine_id is UNIQUE, so a second first
\* registration is refused.
InsertNode(s) ==
    /\ handler[s] = "insert"
    /\ nodeState = "none"
    /\ nodeState' = "online"
    /\ HandlerGoes(s, "publish")
    /\ UNCHANGED <<conn, first, session, agent, process, overlapped>>

InsertNodeFails(s) ==
    /\ handler[s] = "insert"
    /\ nodeState # "none"
    /\ Return(s)

\* Mutant of RefreshNode: the row keeps the state it has.
Mutant_RefreshNode(s) ==
    /\ handler[s] = "refresh"
    /\ HandlerGoes(s, "publish")
    /\ UNCHANGED <<conn, first, session, nodeState, agent, process, overlapped>>

\* UpsertNode of the row found.
RefreshNode(s) ==
    /\ handler[s] = "refresh"
    /\ nodeState' = "online"
    /\ HandlerGoes(s, "publish")
    /\ UNCHANGED <<conn, first, session, agent, process, overlapped>>

\* Mutant of PublishSession: a session already in the map is kept.
Mutant_PublishSession(s) ==
    /\ handler[s] = "publish"
    /\ session' = IF session = NoStream THEN s ELSE session
    /\ HandlerGoes(s, "online")
    /\ UNCHANGED <<conn, first, nodeState, agent, process, overlapped>>

\* The critical section of OnAgentConnect.  It closes the session it
\* supersedes, which nothing waits for.
PublishSession(s) ==
    /\ handler[s] = "publish"
    /\ session' = s
    /\ HandlerGoes(s, "online")
    /\ UNCHANGED <<conn, first, nodeState, agent, process, overlapped>>

MarkOnline(s) ==
    /\ handler[s] = "online"
    /\ nodeState' = "online"
    /\ HandlerGoes(s, "reply")
    /\ UNCHANGED <<conn, first, session, agent, process, overlapped>>

Sends(s, what) ==
    first' = IF first[s] = "none" THEN [first EXCEPT ![s] = what] ELSE first

\* Mutant of Reply: the agent is served without an answer.
Mutant_Reply(s) ==
    /\ handler[s] = "reply"
    /\ HandlerGoes(s, "lookup")
    /\ UNCHANGED <<conn, first, session, nodeState, agent, process, overlapped>>

\* RegisterResp.
Reply(s) ==
    /\ handler[s] = "reply"
    /\ Sends(s, "resp")
    /\ HandlerGoes(s, "lookup")
    /\ UNCHANGED <<conn, session, nodeState, agent, process, overlapped>>

\* HandleMessages looks the node's session up, whoever's it is by now.
Lookup(s) ==
    /\ handler[s] = "lookup"
    /\ session # NoStream
    /\ HandlerGoes(s, "serving")
    /\ UNCHANGED <<conn, first, session, nodeState, agent, process, overlapped>>

\* Mutant of SessionMissing: the handler waits for a session to appear.
Mutant_SessionMissing(s) ==
    /\ handler[s] = "lookup"
    /\ session = NoStream
    /\ UNCHANGED vars

SessionMissing(s) ==
    /\ handler[s] = "lookup"
    /\ session = NoStream
    /\ Return(s)

\* Recv fails: handleDisconnect deletes the node's session from the map ...
HandleDisconnect(s) ==
    /\ handler[s] = "serving"
    /\ conn[s] = "broken"
    /\ session' = NoStream
    /\ HandlerGoes(s, "offline")
    /\ UNCHANGED <<conn, first, nodeState, agent, process, overlapped>>

\* Mutant of MarkOffline: the state is one nobody reads.
Mutant_UnknownState(s) ==
    /\ handler[s] = "offline"
    /\ nodeState' = "disconnected"
    /\ HandlerGoes(s, "done")
    /\ UNCHANGED <<conn, first, session, agent, process, overlapped>>

\* ... and then writes the node's state.
MarkOffline(s) ==
    /\ handler[s] = "offline"
    /\ nodeState' = "offline"
    /\ HandlerGoes(s, "done")
    /\ UNCHANGED <<conn, first, session, agent, process, overlapped>>

\* Its error is ignored, and the write has three seconds: the row may keep the
\* state it had.
MarkOfflineFails(s) ==
    /\ handler[s] = "offline"
    /\ HandlerGoes(s, "done")
    /\ UNCHANGED <<conn, first, session, nodeState, agent, process, overlapped>>

HandlerStep(s) ==
    \/ Resolve(s) \/ InsertNode(s) \/ InsertNodeFails(s) \/ RefreshNode(s)
    \/ RegistrationFails(s)
    \/ PublishSession(s) \/ MarkOnline(s) \/ Reply(s)
    \/ Lookup(s) \/ SessionMissing(s)
    \/ HandleDisconnect(s) \/ MarkOffline(s) \/ MarkOfflineFails(s)

\* A request of the API that found the session of s in the map sends its
\* command; it can be the first message of the stream.
EarlyCommand(s) ==
    /\ handler[s] \in {"online", "reply"}
    /\ first[s] = "none"
    /\ Sends(s, "command")
    /\ UNCHANGED <<conn, handler, session, nodeState, agent, process, overlapped>>

-----------------------------------------------------------------------------
(***************************************************************************)
(* Run is cancelled or signalled: GracefulStop takes no new stream and     *)
(* waits until every handler has returned.                                 *)
(***************************************************************************)
Shutdown ==
    /\ Shutdowns
    /\ process = "running"
    /\ process' = "stopping"
    /\ UNCHANGED <<conn, first, handler, session, nodeState, agent, overlapped>>

GracefulStopReturns ==
    /\ process = "stopping"
    /\ \A s \in Streams : Ended(s)
    /\ process' = "returned"
    /\ UNCHANGED <<conn, first, handler, session, nodeState, agent, overlapped>>

AgentStep(s) == AgentRegistered(s) \/ AgentLeaves(s)

Next ==
    \/ \E s \in Streams :
        \/ Dial(s) \/ AgentStep(s) \/ LinkBreaks(s)
        \/ HandlerStep(s) \/ EarlyCommand(s)
    \/ Shutdown \/ GracefulStopReturns

\* Goroutines are scheduled, messages of an open stream are delivered, and both
\* ends notice a broken one in the end.  Nothing forces the agent to redial,
\* the network to fail or anyone to shut the master down.
Fairness ==
    /\ \A s \in Streams : WF_vars(HandlerStep(s)) /\ WF_vars(AgentStep(s))
    /\ WF_vars(GracefulStopReturns)

Spec == Init /\ [][Next]_vars /\ Fairness

-----------------------------------------------------------------------------
(***************************************************************************)
(* manager.go:22: "Manager tracks all connected agents and routes outbound *)
(* messages to them."  An agent that has registered, and whose stream the  *)
(* master is reading, is the one whose session is in the map.              *)
(***************************************************************************)
ServedIsTracked ==
    \A s \in Streams :
        agent = [at |-> "serving", stream |-> s] /\ conn[s] = "open" /\ handler[s] = "serving"
            => session = s

(***************************************************************************)
(* The same for an agent that never redials before the master is done with *)
(* its earlier stream: no early command, half-finished registration or     *)
(* break loses its session.                                                *)
(***************************************************************************)
ServedIsTrackedInTurn == ~overlapped => ServedIsTracked

(***************************************************************************)
(* As long as attempts do not overlap, a node the API has a session to     *)
(* send to is never shown offline, at no step of a registration or a       *)
(* disconnect, after no failed registration that has left its session in   *)
(* the map, and whatever state an earlier run has left in the row: the row *)
(* says online before the session is published and until after it is       *)
(* deleted.  The other direction does not hold, the row stays online when  *)
(* the master dies or the write of "offline" fails.                        *)
(* (manager.go:119-137, 219-231)                                           *)
(***************************************************************************)
SessionShownOnline == ~overlapped /\ session # NoStream => nodeState = "online"

(***************************************************************************)
(* Every attempt to connect comes to an end: the agent is served, on a     *)
(* tracked session of a node shown online unless attempts have overlapped, *)
(* or it is away again, ready to retry; no order of early commands, breaks *)
(* and concurrent registrations leaves it waiting.                         *)
(* (agent.go:150-207, manager.go:107-153)                                  *)
(***************************************************************************)
Served(s) ==
    /\ agent = [at |-> "serving", stream |-> s]
    /\ overlapped \/ (session = s /\ nodeState = "online")

AttemptsSettle ==
    \A s \in Streams : agent.stream = s ~> (agent.stream # s \/ Served(s))

(***************************************************************************)
(* The master never keeps the goroutine of a broken stream, wherever its   *)
(* registration stood and whatever other streams did to the node's         *)
(* session meanwhile.  (manager.go:204-231)                                *)
(***************************************************************************)
HandlersReturn == \A s \in Streams : conn[s] = "broken" ~> Ended(s)

(***************************************************************************)
(* master.go:26: "Run starts the master and blocks until ctx is cancelled  *)
(* or a fatal error occurs."  Once it is cancelled, Run returns.           *)
(***************************************************************************)
RunReturns == process = "stopping" ~> process = "returned"
=============================================================================
