-------------------------------- MODULE Agent --------------------------------
(***************************************************************************)
(* The agent of one host (internal/agent/agent.go and the operations of    *)
(* internal/agent/docker/client.go it calls): a goroutine for each command *)
(* of the master, the events loop and the poll loop, which share the       *)
(* stream to the master.  The goroutines of commands run under the         *)
(* process's context and outlive a reconnect; the loops are those of one   *)
(* connection.  A loop whose Send fails returns, and the connection whose  *)
(* Send failed ends too, so the loops end here with the link; that Run     *)
(* waits a second or more before it redials keeps them from the next one.  *)
(***************************************************************************)
EXTENDS Docker, FiniteSets

CONSTANTS
    MaxUp,           \* bound: messages the stream takes before Send blocks
    SameSecond,      \* bound: events whose time is the same second
    EventsEnabled,   \* docker_events in the agent's YAML
    PollEnabled      \* container_poll_interval is not 0s

ASSUME AgentAssumption ==
    /\ MaxUp \in Nat \ {0} /\ SameSecond \in Nat \ {0}
    /\ EventsEnabled \in BOOLEAN /\ PollEnabled \in BOOLEAN

VARIABLES
    link,      \* the transport of the current connection
    agent,     \* whether Agent.serve reads the stream
    up,        \* messages sent to the master, oldest first
    jobs,      \* the commands of the master, each with its goroutine
    events,    \* dockerEventsLoop: its stream, the next event on it, lastSeen
    poll       \* containerPollLoop: lastState, and what this tick has yet to send

agentVars == <<link, agent, up, jobs, events, poll>>

\* A job's id says whether its command carries the container's docker id.
Steps == {"sent", "lost", "working", "created", "stopping", "removing", "answer", "done"}
Jobs == [op : {"create", "start", "stop", "remove"}, c : Containers, id : BOOLEAN,
         at : Steps, ok : BOOLEAN]

\* The id of a message says whether it carries the docker id; kind is the
\* message's type or, in a ContainerStateChanged, its Action.
Messages == [kind : {"created", "started", "stopped", "poll", "start", "kill", "die", "destroy"},
             c : Containers, state : {"running", "exited", "error"}, id : BOOLEAN]

EventsOff == [at |-> "off", next |-> 0, last |-> 0]
PollOff == [on |-> FALSE, cache |-> [c \in Containers |-> "none"], pending |-> {}]

AgentTypeOK ==
    /\ link \in {"up", "broken"}
    /\ agent \in {"serving", "away"}
    /\ up \in Seq(Messages)
    /\ jobs \in Seq(Jobs)
    /\ events \in [at : {"off", "closed", "open"}, next : Nat, last : Nat]
    /\ poll \in [on : BOOLEAN, cache : [Containers -> {"none", "running", "exited"}],
                 pending : SUBSET Messages]

AgentInit ==
    /\ link = "broken"
    /\ agent = "away"
    /\ up = <<>>
    /\ jobs = <<>>
    /\ events = EventsOff
    /\ poll = PollOff

\* Agent.send: a message sent on a stream that is breaking, or while there is no
\* connection, is lost, whether or not Send says so; gRPC's flow control makes it
\* wait while the master is behind.
Sends(m) ==
    \/ link = "up" /\ Len(up) < MaxUp /\ up' = Append(up, m)
    \/ link = "broken" /\ UNCHANGED up

-----------------------------------------------------------------------------
(***************************************************************************)
(* The connection, as far as the jobs and loops see it; the handshake is   *)
(* the subject of Sessions.                                                *)
(***************************************************************************)
LoopsEnd == events' = EventsOff /\ poll' = PollOff

\* serve up to its receive loop: it starts the loops with nothing remembered.
AgentConnects ==
    /\ agent = "away"
    /\ link' = "up"
    /\ agent' = "serving"
    /\ events' = IF EventsEnabled THEN [EventsOff EXCEPT !.at = "closed"] ELSE EventsOff
    /\ poll' = [PollOff EXCEPT !.on = PollEnabled]
    /\ UNCHANGED <<up, jobs>>

LinkBreaks ==
    /\ Happens
    /\ link = "up"
    /\ link' = "broken"
    /\ LoopsEnd
    /\ UNCHANGED <<agent, up, jobs>>

\* serve returns; the commands it has not read are lost with the stream.
AgentLeaves ==
    /\ agent = "serving" /\ link = "broken"
    /\ agent' = "away"
    /\ jobs' = [j \in DOMAIN jobs |->
                   IF jobs[j].at = "sent" THEN [jobs[j] EXCEPT !.at = "lost"] ELSE jobs[j]]
    /\ UNCHANGED <<link, up, events, poll>>

\* The process ends: the goroutines of its commands stop wherever they are.
AgentCrashes ==
    /\ Happens
    /\ agent = "serving"
    /\ agent' = "away"
    /\ link' = "broken"
    /\ LoopsEnd
    /\ jobs' = [j \in DOMAIN jobs |->
                   IF jobs[j].at = "done" THEN jobs[j] ELSE [jobs[j] EXCEPT !.at = "lost"]]
    /\ UNCHANGED up

-----------------------------------------------------------------------------
(***************************************************************************)
(* The goroutine of one command: handleCreate, handleStart and handleStop  *)
(* with the calls of client.go.  A call is one step of the daemon; between *)
(* two of them the container can be changed by anyone.                     *)
(***************************************************************************)
JobGoes(j, step) == jobs' = [jobs EXCEPT ![j].at = step]
JobAnswers(j, ok) == jobs' = [jobs EXCEPT ![j].at = "answer", ![j].ok = ok]

JobOnly == UNCHANGED <<link, agent, up, events, poll, acts>>
NoDockerCall == UNCHANGED <<docker, log>>

\* handleMasterMessage: one goroutine per command, in no order among them.
Receive(j) ==
    /\ agent = "serving"
    /\ jobs[j].at = "sent"
    /\ JobGoes(j, "working")
    /\ NoDockerCall
    /\ JobOnly

\* Client.Create: the image may be missing or the create be refused; then the
\* start may be, and the container it leaves behind is not reported.
CreateStep(j) ==
    LET c == jobs[j].c IN
    /\ jobs[j].op = "create"
    /\ \/ jobs[j].at = "working" /\ JobAnswers(j, FALSE) /\ NoDockerCall
       \/ jobs[j].at = "working" /\ DockerCreate(c) /\ JobGoes(j, "created")
       \/ jobs[j].at = "created" /\ JobAnswers(j, FALSE) /\ NoDockerCall
       \/ jobs[j].at = "created" /\ DockerStart(c) /\ JobAnswers(j, TRUE)
       \/ /\ jobs[j].at = "created" /\ docker[c] \in {"running", "stopping"}
          /\ JobAnswers(j, TRUE) /\ NoDockerCall
    /\ JobOnly

\* Client.Start: Docker answers 304, no error, to a container that runs.
StartStep(j) ==
    LET c == jobs[j].c IN
    /\ jobs[j].op = "start" /\ jobs[j].at = "working"
    /\ \/ jobs[j].id /\ DockerStart(c) /\ JobAnswers(j, TRUE)
       \/ /\ jobs[j].id /\ docker[c] \in {"running", "stopping"}
          /\ JobAnswers(j, TRUE) /\ NoDockerCall
       \/ JobAnswers(j, FALSE) /\ NoDockerCall
    /\ JobOnly

\* Mutant of AfterStop: only a container this call has stopped is removed.
Mutant_AfterStop(j) ==
    IF jobs[j].op = "remove" /\ jobs[j].at = "stopping"
    THEN JobGoes(j, "removing")
    ELSE JobAnswers(j, TRUE)

\* What Client.Stop does after its stop call has returned without an error it
\* does not ignore.
AfterStop(j) == IF jobs[j].op = "remove" THEN JobGoes(j, "removing") ELSE JobAnswers(j, TRUE)

\* Client.Stop up to the removal: without an id the path names no container and
\* the daemon's refusal is not one of the two errors that are ignored; a
\* container that is not running is.
StopStep(j) ==
    LET c == jobs[j].c IN
    /\ jobs[j].op \in {"stop", "remove"}
    /\ \/ jobs[j].at = "working" /\ JobAnswers(j, FALSE) /\ NoDockerCall
       \/ jobs[j].at = "working" /\ jobs[j].id /\ DockerStop(c) /\ JobGoes(j, "stopping")
       \/ /\ jobs[j].at = "working" /\ jobs[j].id /\ docker[c] = "stopping"
          /\ JobGoes(j, "stopping") /\ NoDockerCall
       \/ /\ jobs[j].at = "working" /\ jobs[j].id /\ docker[c] \notin {"running", "stopping"}
          /\ AfterStop(j) /\ NoDockerCall
       \/ /\ jobs[j].at = "stopping" /\ docker[c] # "stopping"
          /\ AfterStop(j) /\ NoDockerCall
    /\ JobOnly

\* The removal: the daemon may have no such container any more.
RemoveStep(j) ==
    LET c == jobs[j].c IN
    /\ jobs[j].at = "removing"
    /\ \/ DockerRemove(c) /\ JobAnswers(j, TRUE)
       \/ ~OnHost(c) /\ JobAnswers(j, FALSE) /\ NoDockerCall
    /\ JobOnly

\* The acknowledgement: create reports the new container's docker id and none on
\* an error, start and stop repeat the command's.
Answer(j) ==
    LET job == jobs[j]
        kind == CASE job.op = "create" -> "created"
                  [] job.op = "start" -> "started"
                  [] OTHER -> "stopped"
        state == IF ~job.ok THEN "error" ELSE IF kind = "stopped" THEN "exited" ELSE "running"
        id == IF job.op = "create" THEN job.ok ELSE job.id
    IN
    /\ job.at = "answer"
    /\ Sends([kind |-> kind, c |-> job.c, state |-> state, id |-> id])
    /\ JobGoes(j, "done")
    /\ NoDockerCall
    /\ UNCHANGED <<link, agent, events, poll, acts>>

JobStep(j) == CreateStep(j) \/ StartStep(j) \/ StopStep(j) \/ RemoveStep(j) \/ Answer(j)

-----------------------------------------------------------------------------
(***************************************************************************)
(* dockerEventsLoop.  events.next is the place in the daemon's log the     *)
(* stream has reached; events.last stands for lastSeen, 0 for none: it is  *)
(* a local variable of the loop, so a new connection starts without one.   *)
(***************************************************************************)
EventsOnly == UNCHANGED <<docker, log, link, agent, jobs, poll>>

\* Mutant of FirstOnStream: lastSeen is not passed on.
Mutant_FirstOnStream(last) == {Len(log) + 1}

\* Client.Events: without a lastSeen only what is logged from now on, otherwise
\* everything from the beginning of that second.
FirstOnStream(last) ==
    IF last = 0
    THEN {Len(log) + 1}
    ELSE {i \in 1..last : i + SameSecond > last}

\* A new stream; a subscription that is refused is tried again.
Subscribe ==
    /\ events.at = "closed"
    /\ \E i \in FirstOnStream(events.last) :
           events' = [events EXCEPT !.at = "open", !.next = i]
    /\ UNCHANGED <<up, acts>>
    /\ EventsOnly

\* Docker ends the stream, as it does when it restarts and when the http
\* client's five minutes are over.
StreamCloses ==
    /\ events.at = "open"
    /\ Happens
    /\ events' = [events EXCEPT !.at = "closed", !.next = 0]
    /\ UNCHANGED up
    /\ EventsOnly

\* Mutant of EventState: the status is taken for the state.
Mutant_EventState(action) ==
    CASE action = "start" -> "running" [] action = "kill" -> "killed" [] OTHER -> "exited"

\* mapDockerActionToState
EventState(action) == IF action = "start" THEN "running" ELSE "exited"

\* One event is sent, and lastSeen moves to it.
Deliver ==
    /\ events.at = "open"
    /\ events.next \in DOMAIN log
    /\ LET e == log[events.next] IN
           Sends([kind |-> e.action, c |-> e.c, state |-> EventState(e.action), id |-> TRUE])
    /\ events' = [events EXCEPT !.next = events.next + 1, !.last = events.next]
    /\ UNCHANGED acts
    /\ EventsOnly

-----------------------------------------------------------------------------
(***************************************************************************)
(* containerPollLoop.  A tick takes Docker's list, and remembers and sends *)
(* what differs from the tick before; by the time it sends, the containers *)
(* may have gone on.                                                       *)
(***************************************************************************)
PollOnly == UNCHANGED <<link, agent, jobs, events>> /\ UNCHANGED dockerVars

\* ListAgent: Docker's State of a container with the agent's label, if it is there.
ListAgent(c) ==
    CASE ~OnHost(c) -> "none"
      [] docker[c] = "stopping" -> "running"
      [] OTHER -> docker[c]

\* mapDockerListState: one that was created and never started is not told from one
\* that has exited.
Listed(c) == IF ListAgent(c) = "created" THEN "exited" ELSE ListAgent(c)

\* Mutant of PollReports: the first sight of a container is not news.
Mutant_PollReports(c, before, now) ==
    IF now = before \/ before = "none" \/ (now = "none" /\ before = "exited") THEN {}
    ELSE IF now = "none"
    THEN {[kind |-> "destroy", c |-> c, state |-> "exited", id |-> TRUE]}
    ELSE {[kind |-> "poll", c |-> c, state |-> now, id |-> TRUE]}

\* The message that reports a container found as now and last found as before;
\* one that has vanished is a destroy, unless it had exited.
PollReports(c, before, now) ==
    IF now = before \/ (now = "none" /\ before = "exited") THEN {}
    ELSE IF now = "none"
    THEN {[kind |-> "destroy", c |-> c, state |-> "exited", id |-> TRUE]}
    ELSE {[kind |-> "poll", c |-> c, state |-> now, id |-> TRUE]}

PollTick ==
    /\ poll.on
    /\ poll.pending = {}
    /\ \E c \in Containers : Listed(c) # poll.cache[c]
    /\ poll' = [poll EXCEPT !.cache = [c \in Containers |-> Listed(c)],
                            !.pending = UNION {PollReports(c, poll.cache[c], Listed(c)) : c \in Containers}]
    /\ UNCHANGED up
    /\ PollOnly

PollSend ==
    \E m \in poll.pending :
        /\ Sends(m)
        /\ poll' = [poll EXCEPT !.pending = @ \ {m}]
        /\ PollOnly
=============================================================================
