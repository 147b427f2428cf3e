------------------------------- MODULE Cluster -------------------------------
(***************************************************************************)
(* One host and the master: Docker, the agent, and what the master keeps   *)
(* about the containers it has placed there.  The master's handlers are    *)
(* single steps here; what their statements do when they interleave is the *)
(* subject of Master, and two streams of one node at a time that of        *)
(* Sessions.  A reservation is a flag of the container: who gets which     *)
(* device when containers compete is Master's subject too.                 *)
(***************************************************************************)
EXTENDS Agent

CONSTANT NoRow       \* a container without a row

VARIABLES
    rows,            \* containers: state, and whether docker_id is known
    held,            \* gpu_alloc: the container has its devices
    session,         \* the node's session is in Manager.sessions
    undo,            \* the rollback a start or a stop owes whose send has failed
    crashed,         \* history: the master has crashed
    astray           \* history: containers whose row a failed request has written,
                     \* or a sweep that failed has left as it was

masterVars == <<rows, held, session, undo, crashed, astray>>
vars == <<dockerVars, agentVars, masterVars>>

RowStates == {"starting", "stopping", "running", "exited", "error"}
Rows == [state : RowStates, id : BOOLEAN]

\* A rollback writes the state the handler has read; a start's frees the devices.
NoUndo == [to |-> "none", frees |-> FALSE]
Undos == {NoUndo} \cup [to : RowStates, frees : BOOLEAN]

TypeOK ==
    /\ DockerTypeOK
    /\ AgentTypeOK
    /\ rows \in [Containers -> Rows \cup {NoRow}]
    /\ held \in [Containers -> BOOLEAN]
    /\ session \in BOOLEAN
    /\ undo \in [Containers -> Undos]
    /\ crashed \in BOOLEAN
    /\ astray \subseteq Containers

Init ==
    /\ DockerInit
    /\ AgentInit
    /\ rows = [c \in Containers |-> NoRow]
    /\ held = [c \in Containers |-> FALSE]
    /\ session = FALSE
    /\ undo = [c \in Containers |-> NoUndo]
    /\ crashed = FALSE
    /\ astray = {}

HasRow(c) == rows[c] # NoRow
Transient(c) == HasRow(c) /\ rows[c].state \in {"starting", "stopping"}

-----------------------------------------------------------------------------
(***************************************************************************)
(* The API's handlers.  A command is written to the stream of the session; *)
(* when the stream is breaking it may be lost without an error.            *)
(***************************************************************************)
SetRow(c, state) == rows' = [rows EXCEPT ![c].state = state]
Holds(c, yes) == held' = [held EXCEPT ![c] = yes]

Commands(op, c, id) ==
    /\ Happens
    /\ session
    /\ jobs' = Append(jobs, [op |-> op, c |-> c, id |-> id, ok |-> FALSE,
                             at |-> IF link = "up" THEN "sent" ELSE "lost"])
    /\ UNCHANGED <<link, agent, up, events, poll, session, undo, crashed, astray, docker, log>>

\* newContainerID: an id is drawn once.
Fresh(c) == ~HasRow(c) /\ c \notin astray /\ \A j \in DOMAIN jobs : jobs[j].c # c

\* createContainer
RequestCreate(c) ==
    /\ Fresh(c)
    /\ Commands("create", c, FALSE)
    /\ rows' = [rows EXCEPT ![c] = [state |-> "starting", id |-> FALSE]]
    /\ Holds(c, TRUE)

\* startContainer: AllocSpecificGPUs refuses a device that is held, also by the
\* container itself.
RequestStart(c) ==
    /\ HasRow(c)
    /\ ~held[c]
    /\ Commands("start", c, rows[c].id)
    /\ SetRow(c, "starting")
    /\ Holds(c, TRUE)

RequestStop(c) ==
    /\ HasRow(c)
    /\ Commands("stop", c, rows[c].id)
    /\ SetRow(c, "stopping")
    /\ Holds(c, FALSE)

RequestDelete(c) ==
    /\ HasRow(c)
    /\ Commands("remove", c, rows[c].id)
    /\ rows' = [rows EXCEPT ![c] = NoRow]
    /\ Holds(c, FALSE)

Requests == \E c \in Containers :
    RequestCreate(c) \/ RequestStart(c) \/ RequestStop(c) \/ RequestDelete(c)

(***************************************************************************)
(* The same handlers when they fail after their first write and no command *)
(* reaches the stream.  The session a handler sends on is the one it has   *)
(* looked up, so a send can fail whatever has become of the connection     *)
(* since.  A delete that cannot send has written nothing.  Bound: one      *)
(* rollback per container at a time.                                       *)
(***************************************************************************)
Fails(c) ==
    /\ Happens
    /\ astray' = astray \cup {c}
    /\ UNCHANGED <<agentVars, session, crashed, docker, log>>

\* createContainer returns before its cleanup is registered, the devices not
\* reserved or reserved and not saved; or the cleanup fails, its client gone.
CreateFails(c) ==
    /\ session
    /\ Fresh(c)
    /\ rows' = [rows EXCEPT ![c] = [state |-> "starting", id |-> FALSE]]
    /\ \E yes \in BOOLEAN : Holds(c, yes)
    /\ UNCHANGED undo
    /\ Fails(c)

Owes(c, frees) == undo' = [undo EXCEPT ![c] = [to |-> rows[c].state, frees |-> frees]]

StartFails(c) ==
    /\ HasRow(c) /\ undo[c] = NoUndo
    /\ ~held[c]
    /\ Owes(c, TRUE)
    /\ SetRow(c, "starting")
    /\ Holds(c, TRUE)
    /\ Fails(c)

StopFails(c) ==
    /\ HasRow(c) /\ undo[c] = NoUndo
    /\ Owes(c, FALSE)
    /\ SetRow(c, "stopping")
    /\ UNCHANGED held
    /\ Fails(c)

\* The rollback of startContainer and stopContainer, whatever has happened to the
\* row since; it writes nothing when the client has gone.
RollsBack(c) ==
    /\ undo[c] # NoUndo
    /\ undo' = [undo EXCEPT ![c] = NoUndo]
    /\ \/ /\ IF HasRow(c) THEN SetRow(c, undo[c].to) ELSE UNCHANGED rows
          /\ Holds(c, held[c] /\ ~undo[c].frees)
       \/ UNCHANGED <<rows, held>>
    /\ UNCHANGED <<agentVars, session, crashed, astray>>
    /\ UNCHANGED dockerVars

Failures == \E c \in Containers :
    CreateFails(c) \/ StartFails(c) \/ StopFails(c) \/ RollsBack(c)

-----------------------------------------------------------------------------
(***************************************************************************)
(* The session: messages of the agent and the end of the stream.           *)
(***************************************************************************)
\* Mutant of FreesDevices: the event every exit logs is left out.
Mutant_FreesDevices(m) ==
    \/ m.kind \in {"kill", "destroy"}
    \/ m.kind \in {"created", "started"} /\ m.state = "error"

\* handleContainerCreated and handleContainerStarted free on an error,
\* handleContainerStateChanged on the actions of isTerminalGPUAction.
FreesDevices(m) ==
    \/ m.kind \in {"die", "kill", "destroy"}
    \/ m.kind \in {"created", "started"} /\ m.state = "error"

\* Mutant of UpdateContainerState: an empty docker id is written too.
Mutant_UpdateContainerState(row, state, id) == [state |-> state, id |-> id]

\* UpdateContainerState: an empty docker id leaves the stored one.
UpdateContainerState(row, state, id) == [state |-> state, id |-> row.id \/ id]

\* handleIncoming; a message about a container without a row changes nothing.
HandleMessage ==
    /\ session
    /\ up # <<>>
    /\ LET m == Head(up) IN
           IF HasRow(m.c)
           THEN /\ rows' = [rows EXCEPT ![m.c] = UpdateContainerState(@, m.state, m.id)]
                /\ Holds(m.c, held[m.c] /\ ~FreesDevices(m))
           ELSE UNCHANGED <<rows, held>>
    /\ up' = Tail(up)
    /\ UNCHANGED <<link, agent, jobs, events, poll, session, undo, crashed, astray>>
    /\ UNCHANGED dockerVars

\* Mutant of Swept: only containers on their way up are swept.
Mutant_Swept(c) == HasRow(c) /\ rows[c].state = "starting"

\* revertTransientOnDisconnect
Swept(c) == Transient(c)

\* handleDisconnect: Recv fails, what it has not read is lost, and the containers
\* in a transient state are swept.  The list or any statement of the sweep may
\* fail, which nobody hears of.
MasterLeaves ==
    /\ session /\ link = "broken"
    /\ session' = FALSE
    /\ up' = <<>>
    /\ LET swept == {c \in Containers : Swept(c)} IN
       \E marked \in SUBSET swept, freed \in SUBSET swept :
          /\ rows' = [c \in Containers |->
                         IF c \in marked THEN [rows[c] EXCEPT !.state = "error"] ELSE rows[c]]
          /\ held' = [c \in Containers |-> held[c] /\ c \notin freed]
          /\ astray' = astray \cup (swept \ marked)
    /\ UNCHANGED <<link, agent, jobs, events, poll, undo, crashed>>
    /\ UNCHANGED dockerVars

\* The process ends without a sweep, and its restart makes none; what its handlers
\* owe is lost.
MasterCrash ==
    /\ Happens
    /\ session
    /\ session' = FALSE
    /\ crashed' = TRUE
    /\ link' = "broken"
    /\ LoopsEnd
    /\ up' = <<>>
    /\ undo' = [c \in Containers |-> NoUndo]
    /\ UNCHANGED <<docker, log, agent, jobs, rows, held, astray>>

\* The agent dials and the master publishes its session, after both ends are done
\* with the earlier connection.
Connect ==
    /\ ~session
    /\ AgentConnects
    /\ session' = TRUE
    /\ UNCHANGED <<rows, held, undo, crashed, astray>>
    /\ UNCHANGED dockerVars

-----------------------------------------------------------------------------
Job(j) == (Receive(j) \/ JobStep(j)) /\ UNCHANGED masterVars

Loops == (Subscribe \/ StreamCloses \/ Deliver \/ PollTick \/ PollSend) /\ UNCHANGED masterVars

Leaves == AgentLeaves /\ UNCHANGED <<dockerVars, masterVars>>

Breaks == (LinkBreaks \/ AgentCrashes) /\ UNCHANGED <<docker, log, masterVars>>

Host == \E c \in Containers :
    (ContainerExits(c) \/ HostActs(c)) /\ UNCHANGED <<agentVars, masterVars>>

Next ==
    \/ Requests \/ Failures
    \/ HandleMessage \/ MasterLeaves \/ MasterCrash \/ Connect
    \/ \E j \in DOMAIN jobs : Job(j)
    \/ Loops
    \/ Leaves \/ Breaks
    \/ Host

(***************************************************************************)
(* A goroutine that can run does: the handlers at both ends of the stream, *)
(* a command's goroutine, whose calls to Docker time out after five        *)
(* minutes, and the loops.  A broken link is noticed at both ends (gRPC's  *)
(* keepalive), and a grace period ends with a SIGKILL.  Nothing makes a    *)
(* user act, a link break or the agent find the master again, and no       *)
(* property needs a rollback to be made.                                   *)
(***************************************************************************)
Fairness ==
    /\ WF_vars(HandleMessage) /\ WF_vars(MasterLeaves) /\ WF_vars(Leaves)
    /\ \A j \in 1..MaxActs : WF_vars(j \in DOMAIN jobs /\ Job(j))
    /\ WF_vars((Subscribe \/ Deliver) /\ UNCHANGED masterVars)
    /\ WF_vars((PollTick \/ PollSend) /\ UNCHANGED masterVars)
    /\ \A c \in Containers : WF_vars(ContainerExits(c) /\ UNCHANGED <<agentVars, masterVars>>)

Spec == Init /\ [][Next]_vars /\ Fairness

-----------------------------------------------------------------------------
(***************************************************************************)
(* Properties                                                              *)
(***************************************************************************)

\* A docker id the master has learned from any message is not forgotten while the
\* row exists (store.go:288, COALESCE(NULLIF(?,''), docker_id)): the error
\* answer of a create carries none, and a delete without one removes nothing.
DockerIdKept ==
    [][\A c \in Containers :
          HasRow(c) /\ rows[c].id /\ rows'[c] # NoRow => rows'[c].id]_vars

\* Once the events loop of a connection has delivered an event, it delivers every
\* later one: closing and reopening the stream skips none, though it may repeat
\* those of the last second (agent.go:297-301).
EventsWithoutGaps ==
    [][link' = "up" /\ link = "up" /\ events.last > 0 => events'.last <= events.last + 1]_vars

\* A container all of whose commands were written to a stream does not stay
\* starting or stopping (manager.go:234-238), whatever becomes of the command, its
\* goroutine, the answer or the connection, unless a sweep of it fails or the
\* master crashes: its restart makes no sweep.  A request that fails half-way has
\* no such promise: nothing settles the state it leaves or writes back.
TransientSettles ==
    \A c \in Containers : Transient(c) ~> (~Transient(c) \/ crashed \/ c \in astray)

\* A container that a connection's poll loop has not seen yet comes to be shown by
\* the master as Docker lists it (agent.go:467-472), whatever messages were lost
\* before, unless it changes first or the connection ends.
PollHeals ==
    \A c \in Containers : \A state \in {"running", "exited"} :
        (poll.on /\ poll.cache[c] = "none" /\ Listed(c) = state /\ HasRow(c))
            ~> (link = "broken" \/ Listed(c) # state \/ ~HasRow(c) \/ rows[c].state = state)

Terminal(e) == e.action \in {"die", "kill", "destroy"}

\* The event has yet to reach a loop that has delivered one before.
WillHear(c) ==
    /\ events.at # "off" /\ events.last > 0
    /\ \E i \in DOMAIN log : i > events.last /\ log[i].c = c /\ Terminal(log[i])

\* A container's end that the events loop hears of gives its devices back
\* (manager.go:470-473), through the closing of the stream and everything the
\* master or a user does meanwhile.
EndsFreeDevices ==
    \A c \in Containers : (held[c] /\ WillHear(c)) ~> (~held[c] \/ link = "broken")

\* A delete has reached the agent, with a docker id, and not failed.
Deleting(j) ==
    /\ j \in DOMAIN jobs /\ jobs[j].op = "remove" /\ jobs[j].id
    /\ jobs[j].at \notin {"sent", "lost"}
    /\ jobs[j].at \in {"answer", "done"} => jobs[j].ok

\* A delete whose command carries a docker id and reaches the agent takes the
\* container off the host (api.go:613), however it has changed meanwhile, unless
\* Docker refuses or the agent's process ends.
DeletedIsGone ==
    \A j \in 1..MaxActs : Deleting(j) ~> (~Deleting(j) \/ ~OnHost(jobs[j].c))

\* A delete that is answered without an error has taken the container off the host
\* and nothing brings it back (client.go:193-207: an error of the stop is ignored
\* only to go on to the removal).
AnsweredDeleteIsFinal ==
    \A j \in DOMAIN jobs :
        jobs[j].op = "remove" /\ jobs[j].at \in {"answer", "done"} /\ jobs[j].ok
            => docker[jobs[j].c] = "removed"

\* agent.go:422-425: the poll loop "catches every out-of-band container state
\* change" and is a "drift-correction safety net": while the connection lasts,
\* the master does not show a running container as anything else for good.
DriftCorrected ==
    \A c \in Containers :
        (docker[c] = "running" /\ poll.on /\ HasRow(c) /\ rows[c].state # "running")
            ~> (\/ link = "broken" \/ docker[c] # "running" \/ ~HasRow(c)
                \/ rows[c].state = "running")
=============================================================================
