------------------------------- MODULE Docker -------------------------------
(***************************************************************************)
(* The Docker daemon of one host, as internal/agent/docker/client.go uses  *)
(* it: the lifecycle of the containers that carry the agent's labels, and  *)
(* the log behind GET /events.  The daemon is not part of the repository;  *)
(* its operations are those Create, Start and Stop call, and those a user  *)
(* of the host performs behind the agent's back.  Of the log only actions  *)
(* that mapDockerActionToState knows are kept.  What the daemon logs next  *)
(* to a "die" and the agent and the master treat as one is left out: the   *)
(* "stop" after it, the "kill" before it in a forced removal.  So is       *)
(* pausing.                                                                *)
(***************************************************************************)
EXTENDS Naturals, Sequences

CONSTANTS
    Containers,        \* the containers the master may place on this host
    MaxActs            \* bound: requests to the master, acts of users of the host,
                       \* streams and links that break, and crashes, all together

ASSUME DockerAssumption == MaxActs \in Nat

VARIABLES
    docker,            \* container -> where it is in its life on this host
    log,               \* the daemon's events, oldest first
    acts               \* how many of MaxActs have happened

dockerVars == <<docker, log, acts>>

DockerStates == {"none", "created", "running", "stopping", "exited", "removed"}
Events == [c : Containers, action : {"start", "kill", "die", "destroy"}]

DockerTypeOK ==
    /\ docker \in [Containers -> DockerStates]
    /\ log \in Seq(Events)
    /\ acts \in Nat

DockerInit ==
    /\ docker = [c \in Containers |-> "none"]
    /\ log = <<>>
    /\ acts = 0

\* One of the bounded acts happens.
Happens ==
    /\ acts < MaxActs
    /\ acts' = acts + 1

OnHost(c) == docker[c] \notin {"none", "removed"}

-----------------------------------------------------------------------------
(***************************************************************************)
(* The operations.  "stopping" is the grace period of a stop: the signal   *)
(* is sent and logged, the process has not exited, and the container is    *)
(* listed as running.                                                      *)
(***************************************************************************)
Becomes(c, state) == docker' = [docker EXCEPT ![c] = state]
Logs(c, action) == log' = Append(log, [c |-> c, action |-> action])

\* POST /containers/create
DockerCreate(c) ==
    /\ docker[c] = "none"
    /\ Becomes(c, "created")
    /\ UNCHANGED log

\* POST /containers/<id>/start on a container that is not running
DockerStart(c) ==
    /\ docker[c] \in {"created", "exited"}
    /\ Becomes(c, "running")
    /\ Logs(c, "start")

\* POST /containers/<id>/stop on a running container: the signal
DockerStop(c) ==
    /\ docker[c] = "running"
    /\ Becomes(c, "stopping")
    /\ Logs(c, "kill")

\* The process exits.
DockerExit(c) ==
    /\ docker[c] \in {"running", "stopping"}
    /\ Becomes(c, "exited")
    /\ Logs(c, "die")

\* DELETE /containers/<id>?force=1
DockerRemove(c) ==
    /\ OnHost(c)
    /\ Becomes(c, "removed")
    /\ \/ docker[c] \in {"created", "exited"} /\ Logs(c, "destroy")
       \/ /\ docker[c] \in {"running", "stopping"}
          /\ log' = log \o <<[c |-> c, action |-> "die"], [c |-> c, action |-> "destroy"]>>

\* A signal that does not end the process (docker kill -s HUP): Docker logs a
\* kill all the same.
DockerSignal(c) ==
    /\ docker[c] = "running"
    /\ Logs(c, "kill")
    /\ UNCHANGED docker

-----------------------------------------------------------------------------
\* The end of a grace period, whoever asked for the stop.
ContainerExits(c) ==
    /\ docker[c] = "stopping"
    /\ DockerExit(c)
    /\ UNCHANGED acts

\* Out of band: the process ends by itself, or a user starts, stops, signals or
\* removes the container with the docker command.
HostActs(c) ==
    /\ Happens
    /\ \/ docker[c] = "running" /\ DockerExit(c)
       \/ DockerStart(c)
       \/ DockerStop(c)
       \/ DockerSignal(c)
       \/ docker[c] \in {"created", "exited"} /\ DockerRemove(c)
=============================================================================
