# PumpkinPie: a TLA+ verification project

PumpkinPie runs containers on a handful of hosts. One **master** keeps a SQLite
database, serves an HTTP API and a web UI, and publishes containers through TCP
ports of its own; one **agent** per host dials the master over a gRPC stream,
drives Docker and reports back. This directory holds TLA+ models of the parts of
the system whose correctness depends on the order of things: the reservations of
GPUs and ports, the proxy's routes and listeners, the sessions of the agents, the
life of a container between master, agent and Docker, and the way of a metric
report to the browsers and to the metrics database. TLC
checks them on small instances, and TLAPS proves the central ones for every
instance.

Paths below are relative to `src/internal/` unless they start with `src/`.

## 1. Inventory

| Component | State it keeps | Operations | What makes it hard |
|---|---|---|---|
| Store, `master/store/store.go` | tables `nodes`, `containers`, `gpu_alloc` (key node, index; cascades with the container), `port_alloc` | one statement or one transaction per method, under `Store.mu` (all writers but `UpdateNodeState`) | callers combine several methods without a transaction; contexts of dead clients make any of them fail |
| Proxy, `master/proxy/proxy.go` | `routes`, `listeners`, and the sockets of the operating system | `RegisterRoute`, `UnregisterRoute`, `BindPort`, `LoadExistingRoute`, forwarding | `BindPort` checks, listens and records in three steps; it is keyed by port number, not by owner |
| API, `master/api/api.go` | none of its own; each request is a goroutine with copies of rows | create, start, stop, delete container; reads; WebSocket | long sequences of side effects, cleanups and rollbacks that interleave with other requests and with agents |
| Agent manager, `master/agentmgr/manager.go` | `sessions` by node, `nodes.state`, update and metrics channels | registration, message handlers, disconnect and its sweep over transient containers | several streams of one node at a time; one handler per stream, each with its own broken or live context; statements whose errors are ignored |
| Master process, `cmd/master/master.go` | everything above | start, rebind of persisted routes, shutdown | crash at any point; `GracefulStop` |
| Scheduler, `master/scheduler/scheduler.go` | none | `Select`, `FreeGPUs` | its answer may be stale when the reservation is made |
| Agent, `agent/agent.go` | its stream, the poll cache, `reverseIDs`, the events position | reconnect loop, command handlers (a goroutine each), events loop, poll loop | commands that outlive the connection; three sources of messages about one container in any order; replay, lost acknowledgements |
| Docker client, `agent/docker/client.go` | none | `Create`, `Start`, `Stop`, `Events`, `ListAgent` | each is several calls of a daemon that others use too |
| Metrics fanout, `agentmgr/manager.go`, WebSocket in `api.go`, sinks in `master/metrics/` | the channels `updates` and `sinkCh`, one worker | `handleMetrics`, `publish`, `enqueueMetric`, `sinkLoop`, `Shutdown`, `websocket` | bounded channels, consumers that are slow or gone, shutdown in the middle |
| Collector, identity, config | files | see `PROJECT.json` | mostly I/O |

How they interact: a handler of the API calls the store, the proxy and
`Session.Send` in sequence; the goroutine of a stream calls the store when the
agent reports; `forward` looks up the route of a port, then the session of the
route's node. Nothing but the store survives a restart of the master.

The properties that make the system correct:

* a GPU is reserved for one container at a time, on its own node, and the devices
  of a container are reserved together or not at all (`src/README.md:367-385`);
* what fails is undone, and no reservation is left with a container nobody can
  free it through;
* a port leads to one container, and only that container's requests close it;
* an agent that is connected can be reached, and a node that can be reached is shown
  online;
* attempts to connect settle, handlers of broken streams end, the process stops;
* a container does not stay in a transient state; what the agent learns of Docker
  reaches the master, and the end of a container gives its devices back;
* reports reach the sink in order and once; no consumer holds up the handler of an
  agent.

`PROJECT.json` lists each component with its status and every hazard at its line.

## 2. Modules

| Module | Models | State and actions |
|---|---|---|
| `Domain` | the values the master's modules share | constants only |
| `Store` | the three allocation tables | `rows`, `gpuAlloc`, `portAlloc`; one operator per store method, atomic because each runs under `Store.mu` |
| `Proxy` | the reverse proxy | `routes`, `listeners`, `sockets`, `binding`; `BindPort` is `BindCheck`, `BindListen` or `BindListenFails`, `BindRecord` |
| `GpuLedger` | abstract specification: what the master promises about GPUs | `owner`; `Acquire`, `Release` |
| `Master` | EXTENDS `Store` and `Proxy`: the API handlers, agents' messages, the disconnect sweep, restarts | `req` (one record per handler goroutine: which handler, which step, the copies of the row it works with), `issued`, `dispatched`, `online`, `handling`, `reverting` |
| `MasterProperties` | the properties of `Master`, the refinement of `GpuLedger` (INSTANCE), the inductive invariants `GpuInv`, `CleanInv` and `PortInv` | |
| `MCMaster` | symmetry for TLC | |
| `Sessions` | the streams of one node, the manager's session map, registration, disconnect, shutdown | `conn`, `first`, `handler`, `session`, `nodeState`, `agent`, `process`, and a history variable `overlapped` |
| `MCSessions` | instance for TLC | |
| `Docker` | the daemon of one host, external: what `client.go` calls and what users of the host do | `docker` (container → created, running, ...), `log` (the events); one action per API call, process exit and act of a user |
| `Agent` | EXTENDS `Docker`: the agent's goroutines and the transport under its stream | `jobs` (one record per command: which, with or without docker id, how far), `events` (`dockerEventsLoop`: stream, position, `lastSeen`), `poll` (`containerPollLoop`: `lastState`, what the tick has yet to send), `up` (messages sent and not yet read), `link`, `agent` |
| `Cluster` | EXTENDS `Agent`: the master's rows and reservations of the host's containers, its session; the properties of the composition | `rows`, `held`, `session`, `undo` (the rollback a failed start or stop owes), and history variables `crashed` and `astray` |
| `Fanout` | metric reports in the master: table, browsers, sink, shutdown | `handler`, `snapshot`, `sinkCh`, `worker`, `updates`, `browser`, `process`, and history variables |
| `ProxyProofs`, `MasterProofs`, `CleanupProofs`, `PortProofs` (each EXTENDS the one before, from `MasterProofs` on), `SessionsProofs`, `ClusterProofs`, `FanoutProofs` | theorems | |

A step of a handler in `Master` is one store statement, one critical section of
the proxy or one send; everything may happen between two. Early returns, cleanup
and rollback paths are steps of their own, and so is each way a call can fail.
`Attempt` marks the statements whose errors the code ignores.

What is abstracted, and why that is sound for the properties:

* Columns no branch depends on (names, image, status texts, `docker_id`) are left
  out. A container has an external port exactly when it maps ports; a request
  with `external_port` but no port mappings is not modelled.
* The scheduler is any choice of a node with a session and enough free devices,
  which includes each choice `Select` or a pinned node can give. Explicit
  `gpu_indices` are any set of the node's devices, free or not, as in the code.
* Agents may report anything, at any time, about containers they were told to
  create: a superset of what `agent/agent.go` sends, replays and late events
  included. Messages about containers without a row change nothing and are not
  steps.
* The faults are named (`FaultKinds`): a client that goes away, a refused
  transaction, a failed send, a stream broken between the two statements of a
  message handler, a crash of the master. A statement of a request whose error is
  ignored fails only when its client has gone; the sweep of a disconnect can stop
  at any of its statements (`RevertFails`).
* What clients may ask for is a constant: `Operations` (which requests besides
  create), `Indices` (values of `gpu_indices`), `Counts` (of `gpu_count`),
  `ExplicitPorts` (of `external_port`). `MasterAssumption` only types them, so the
  proofs hold for all choices; a run restricts them to what its question needs.
* One receive loop and one disconnect sweep per node at a time in `Master`;
  overlapping streams of one node are the subject of `Sessions`. Of the sweep,
  the order over the containers is arbitrary.
* `net.Listen` may fail at any time. The goroutine that closes each listener when
  the master's context ends (`master/proxy/proxy.go:103`) is left out: it acts when
  the process is about to end, and a restart loses all sockets anyway.
* `Sessions` starts on the database of an earlier run or on a new one: `Run` opens
  what is there and resets nothing, so the node's row may be missing, offline or
  online. Every statement of a registration may fail, and so may the write of
  "offline" at its end, whose error nobody reads (`agentmgr/manager.go:231`).
* In `Sessions` a dial and its `Register` are one step. In the code `a.stream` is set
  before `Register` is sent (`agent/agent.go:168-173`), so an answer of a command of
  the earlier connection could come first; the master refuses such a stream, which
  for the agent is one more failed attempt.
* In `Sessions`, an attempt to connect is one stream, used once; heartbeats and
  container messages of the receive loop are left to `Master`.

`Cluster` looks at the same master from the other side. There the handlers of the
API and of messages are one step each, since `Master` has taken them apart, and so
is the end of a stream with its sweep; what is taken apart is the agent. Each call
of `Create`, `Start` or `Stop` to the daemon is a step of the command's goroutine,
and the container may be changed by a user, another command or its own exit between
any two. Further:

* Requests that fail after their first write are actions of their own:
  `CreateFails` (the returns of `api.go:442` and `448`, before the cleanup is
  registered, and a cleanup that fails), `StartFails` and `StopFails`, whose rollback
  `RollsBack` is a later step. It writes the state the handler has read, whatever has
  happened since, a disconnect's sweep included, or nothing when the client has gone.
  Bound: one rollback per container at a time. `undo` holds it.
* The sweep of a disconnect may fail at its list or at any statement, so
  `MasterLeaves` marks and frees any part of the containers it should. `astray`
  collects the containers whose row a failed request has written or a failed sweep
  has passed over.
* Beyond that the store accepts the statements of requests and of message handlers,
  and the clients of requests that succeed stay: what is lost otherwise is the
  subject of `Master`.
* `Agent.Sends` is atomic. `agent.go:254-260` releases `streamMu` before `s.Send`, so
  two goroutines can be in `Send` of one stream at the same time, which gRPC does not
  allow; the model takes them one after the other.
* A reservation is a flag: the containers of `Cluster` all ask for devices and do
  not compete for them.
* Docker's log keeps the actions `mapDockerActionToState` knows. A `stop` after the
  `die` and the `kill` of a forced removal are folded into the `die`, which master
  and agent treat alike. Pausing is left out.
* A message or command that is on a breaking stream is lost or delivered; the order
  on one stream is kept. `up` holds at most `MaxUp` messages, after which `Send`
  waits, as gRPC's flow control makes it.
* The loops of a connection end before the next one starts: their context is
  cancelled when `serve` returns, and `Run` waits a second or more. The goroutines of
  commands, which run under the context of the process, go on and answer on whatever
  stream is current.
* Subscribing to the events may be refused any number of times, but not for ever:
  that matters only to `EndsFreeDevices`, which assumes that the daemon accepts the
  filter `client.go:302` sends (a string where the API's own clients send a list).
* Both loops are switched on in the runs; with either off nothing is assumed.
* `SameSecond` is how many events can carry the same time stamp, which decides how
  much a new stream repeats.

In `Fanout` a report is its node and a number, and a `Write` is a call that takes
time and may fail. A node has one stream at a time there, whereas `Sessions` shows that
streams of a node can overlap; two handlers of one node could interleave their
reports, so `SinkOrder` and `ShownIsStored` are about reports of one stream.

## 3. Runs

| Run | Instance | Question |
|---|---|---|
| `master_requests` | 2 containers, 2 requests, GPUs {0,1}, no ports; failing sends, refused transactions, acknowledgements and terminal events | Do two handlers of any kind, with events in between, keep reservations owned, whole and a ledger? Does a failed send undo its create? |
| `master_faults` | 1 container, 2 requests (create with both devices, start, delete), GPUs {0,1}, 1 port that clients may also ask for by number; cancelled clients, broken streams with sweeps that may fail, restarts; exits and failures reported | The same all-or-nothing reservation under every fault at every step. Is every socket accounted for when handlers race in `BindPort`? Does a create hold no port but its own, and stay removed what its cleanup removed (`CleanInv`)? |
| `master_ports` | 3 containers, 3 requests, 1 port, 1 GPU; failed sends, refused transactions; no two requests on one container at a time | Are ports exclusive, routes never misleading and closed only by their owners, listeners never without a route, failed and half-done creates in between? Is `PortInv`, the invariant of the proofs, one? |
| `sessions` | 2 streams, any row of an earlier run, shutdown | Do attempts settle and handlers return; when attempts do not overlap, is a served agent on the tracked session, and a node with a session shown online? |
| `cluster` | 1 container, 3 requests (complete or failed), faults or acts of users in all; 1 message on the stream, 2 events in a second | Does a container settle, whatever is lost? Does the poll loop make up for lost messages, do ends give devices back, do deletes remove, is the docker id kept, does the events loop skip nothing? |
| `fanout` | 1 node, 3 reports, 2 browsers; room for 2 reports and 1 update | Are reports written in order and once, and is what is queued handed over; are browsers never ahead of the table; does nothing hold up the handler or the shutdown? |
| `overflow` (violation) | 1 node, 3 reports; room for 1 report | `src/README.md:485`: the oldest report is dropped on overflow |
| `drift` (violation) | as `cluster` | comment `agent.go:422`: the poll loop corrects drift |
| `failed_create` (violation) | 2 containers, 2 requests | comment `api.go:420`: every failure releases everything |
| `double_delete` (violation) | 3 containers, 2 requests, 2 ports | `port_test.go:62`: no duplicate port |
| `sessions_late` (violation) | 2 streams | comment `manager.go:22`: connected agents are tracked |
| `shutdown` (violation) | 1 stream | comment `master.go:26`: `Run` returns once cancelled |

Why the bounds are enough to be interesting: two requests are the least that
race, and all hazards listed are between two handlers, or a handler and a
message; three are needed where a port passes from one container to the next
while earlier requests still have its number: of two deletes that have given it
back, neither done, and the create that gets it next (`master_ports`). One port is
enough there, since what goes wrong with a port goes wrong between its successive
owners; how a second port bears on it is covered by the proofs, and two ports were
checked as well (2.5 million states, kept out for its running time). Two GPUs
distinguish all from some. Two containers contend; a
third gets the freed port. Two streams overlap; with three (checked by hand, not
kept for its running time) nothing new appears. Container ids are never reused,
so each instance is finite: it ends when all ids are issued and deleted, which is
why the runs of `Master` switch the deadlock check off. `Sessions` stops when its
streams are used up.

In `Cluster` every bounded thing that can happen to a container draws on one budget,
`MaxActs`: a request, an act of a user on the host, a break, a crash. Three of them
reach what the properties are about: create, lose the link or the agent, delete;
create, exit, break of the events stream (replay); create, user's removal, delete.
Everything else, such as the steps of goroutines and loops, is unbounded. Containers
share nothing in this module but the stream, so one is enough; a stream with room
for one message makes `Send` wait, and the order in which the three sources get
their messages on it is arbitrary. A fourth act multiplies the states by about
twenty-five and takes the liveness properties beyond the time of a run; the invariants
were also checked with four.
In `Fanout`, capacities of 2 and 1 against 3 reports overflow both channels; with
one node the handler is still concurrent with the worker, the browsers and the
shutdown, and the proofs cover any number of nodes.

Reading the results:

* `master_ports` assumes clients do not work on a container from two requests at
  a time (`OneAtATime`). Without it, double deletes free another's port
  (`double_delete`) and a stop that crosses a start leaves a listener without a
  route or a route without a listener. The properties there say what does hold
  for well-behaved clients, including that routes left by failed creates never
  mislead traffic of a running container.
* Such a route can outlive its port's next owner. A create that loses the race for
  the GPUs ends before it registers a route of its own; when its row is deleted, the
  dead route of the failed create on the same port goes with it. `RouteClosedByOwner`
  is therefore about routes that lead to a container the master knows. It said more
  before; with no device in the run the case could not happen, and the attempt to
  prove it showed that it can. The run has a device now.
* `ReservedAllOrNothing` needs no such assumption, and neither does the ledger.
  They speak about the master's tables. That a device is *used* by one container
  only does not follow, although `src/README.md:374` is headed "No accidental
  sharing": the master releases devices of containers that may still run (a stop
  whose command fails on the host, a sweep after a disconnect, a late event after a
  restart), and the next create is given them.
* `cluster`: `PollHeals` is about a container the poll loop of a connection has not
  seen yet, and that is as far as its promise goes. `TransientSettles` is about
  containers all of whose commands were written to a stream. It excludes a crash of
  the master, whose restart leaves rows in state `starting` or `stopping` as they
  are, and what is in `astray`: a row written by a failed request (`failed_create` is
  one), or written back after the sweep by its rollback, or passed over by a sweep
  that failed. No code settles those, unless a later message does by chance. `DeletedIsGone` is about deletes whose command carries a docker id.
  One sent before the create has been acknowledged carries none (`api.go:752`),
  Docker refuses it, and the container goes on running on the host with no row on
  the master: against `api.go:613`, "stops + removes the Docker container".
* `drift`: the cache of the poll loop remembers what the loop has sent, not what the
  master has been told. The counterexample has the create's error answer, or an
  event, handled after the poll's report: the master shows a running container as
  failed or exited, and no later tick says otherwise.
* `overflow`: what is dropped on overflow is the report at hand; `src/README.md:485`
  says "drops oldest metrics on overflow". `QueuedIsTried` says what follows: a report
  that is in the queue gets to the sink before a shutdown, however many are dropped.
* `fanout`: each update reaches one browser, where
  `manager.go:28` speaks of a broadcast channel; the dashboard's polling hides it.
  A report the table could not store is queued all the same, although the comment at
  `manager.go:95` takes the snapshot for granted.
* Also met while modelling: the comment at `agent.go:358` says that an event whose
  `Send` failed is replayed on the next connection, but `lastSeen` is a local variable
  of the loop and ends with it. `PollHeals` shows what makes up for the loss.
* `failed_create`: a create that loses the race for GPUs after its check leaves a
  row in state `starting`, with no device and possibly a port.
* `sessions_late`: the agent redials after a second; the master may notice the
  earlier break later, and then removes the new session. Until the agent
  reconnects, the API answers "node offline" for it.
* `sessions`: `SessionShownOnline` has one direction only. A node without a session
  can be shown online, after a crash of the master or when the write of "offline"
  fails, until its next disconnect; and with overlapping attempts a node with a
  session can be shown offline (`sessions_late`).
* `shutdown`: `GracefulStop` waits for streams that neither side ends.

### Fairness

Safety runs use `Spec == Init /\ [][Next]_vars`. `Sessions` adds weak fairness on
the steps of each stream's handler and of the agent's wait on it (goroutines are
scheduled; gRPC delivers messages on an open connection and, through keepalive and
TCP, fails `Recv` on a broken one at both ends), and on the return of
`GracefulStop` once no handler is left. Nothing is assumed about the network, about
the agent dialling again or about anyone asking for a shutdown. `RunReturns` fails
under this fairness, not for the lack of it: its counterexample is an agent that is
served for ever on an open connection.

`Cluster` has weak fairness on the handler of the stream's messages and on both ends
of a broken stream (keepalive), on each command's goroutine (its calls to Docker have
a timeout of five minutes), on the loops, and on the end of a grace period (Docker
sends SIGKILL after ten seconds). The ticks of the poll loop are fair because a
`time.Ticker` is, subscribing because the loop retries for ever. No property
needs a rollback to be made, so none is assumed. Nothing makes a link
break, a user act, a process exit or the agent find the master again. `DriftCorrected`
fails under all of it. `Fanout` has weak fairness on a handler in the middle of a
report and on the worker, whose `Write` has a deadline of five seconds
(`manager.go:87`), and on the steps of the shutdown; none on browsers and agents.

## 4. Proofs

`ProxyProofs` (for any number of callers and ports):

* `ProxyAccounts`: `ProxySpec => []SocketsAccounted`. The property is inductive
  together with the types: between check and record, the open socket is what keeps
  a second caller's `net.Listen` from succeeding.

`MasterProofs` (for any containers, nodes, devices, ports, requests, and any
choice of faults, under `DomainAssumption`, `StoreAssumption` and
`MasterAssumption`, which only type the constants):

* `GpuInvariant`: `Spec => []GpuInv`, and from it `TypeCorrect`,
  `NoStrandedReservation`, `WholeReservations`;
* `MasterSocketsAccounted`: every step of `Master` is a step of `Proxy` or leaves
  it alone, so the proxy's proof carries over;
* `ImplementsLedger`: `Spec => Ledger!LedgerSpec`, with `owner <- gpuAlloc`.

The argument. `ReservedAllOrNothing` is not inductive: whether a start may take
devices depends on what its copy of the row says. `GpuInv` adds what a handler in
progress relies on: an id belongs to one create, which hands it over in its last
step (`CreatesAlone`); a row without saved devices holds none, apart from those a
create has just reserved and is about to save (`CreatesConsistent`); the indices a
start carries are still the row's (`StartsConsistent`), because nothing changes
them after the hand-over; devices saved are held all or not at all
(`SavedHeldTogether`), so a successful insertion of all of them means that none
was held. The steps of `Master` fall into two kinds: *quiet* ones, which forget
rows, give back all a container holds, or touch no device, and nine *telling* ones
(the beginnings of handlers, insertion, the two reservations, persisting, handing
over), each with a lemma. Types and `GpuInv` support each other: a rollback writes
a state only because `PriorsKnown` says its copy is one.

`CleanupProofs` (for any constants, any clients and every fault):

* `CleanInvariant`: `Spec => []CleanInv`;
* `FailedSendsRelease`: `Spec => FailedSendReleasesAll`.

The statements of the cleanup are each right by themselves; that nothing is left
after the last needs that nothing comes back in between. `CleanInv` says why: ids
are fresh, so a create holds at most one port, the one it carries, and nobody but
itself inserts its row (`CreatesAlone`); what agents and other requests do to a
container without a row changes nothing. Devices follow from `ReservationsOwned`,
which `GpuInv` has already. Four steps insert or remove something `CleanInv` speaks
of; all others are *tidy* (ports given back at most, no row inserted), in
`TidySteps`.

`PortProofs` (for any containers, nodes, devices, ports and requests, failing sends,
refused transactions, broken streams and arbitrary messages of agents), under
`WellBehaved`:

* `PortInvariant`: `WellBehaved => (Spec => []PortInv)`, and from it
  `PortsStayExclusive`, `NoPortIsShared`, `TrafficIsNotMisrouted`,
  `ListenersKeepRoutes` and `RoutesClosedByOwners`;
* `MasterImplementsProxy`: `Spec => ProxySpec`, without `WellBehaved`.

`WellBehaved` is what the code needs of its clients, and each part of it is needed:
TLC violates one of the properties, on an instance with two ports and no device,
as soon as a part is dropped. No two requests work on one container at a
time: a stop that crosses a start leaves a listener without a route, and
`double_delete` gives a port away twice. Clients do not choose `external_port`: the
handler then inserts the row with no entry in `port_alloc`. Clients wait for the
answer: the statements of a cancelled request fail, so a delete that has freed the
port may keep the row. The process lives: it can die between the same two
statements.

The argument. A row, a port in `port_alloc`, a route and a listener come and go in
separate steps, so the properties alone say too little: what holds them together is
where the request at work on the container stands. `RequestsKnowRows` says that
between insertion and removal the row is there with the port the request carries,
and that before and after `port_alloc` has the port for its container; so a
request that runs holds its port until it has given it back (`PortHeld`), and no two
running requests carry the same one (`PortUnshared`). `RoutesKnown` says that a
route to a container with a row is on that row's port, and that none leads to a
container whose port is about to be given back or whose row is yet to be inserted:
this is what lets routes of failed creates linger without harm. `RoutesOwn` keeps
the route from its registration to the end of `BindPort` and to the hand-over,
which is why the listener recorded after the gap in `BindPort` finds its route. Ten
*turning* steps, at which a row, a port or a route comes or goes, have a lemma each
(`UnroutePorts` takes the two unroutings together); every other step is *calm*
(`CalmSteps`), and calm steps keep `PortInv` (`CalmInv`). TLC checked `PortInv` in
`master_ports` before it was proved.

`ClusterProofs` (for any containers, bounds and either loop on or off, under
`DockerAssumption` and `AgentAssumption`, which type the constants):

* `ClusterTypeCorrect`: `Spec => []TypeOK`. `JobActs` says once what a command's
  goroutine can do (its own job moves, at most one call of the daemon, at most one
  message), and the other theorems use it too;
* `ClusterDockerIdKept`: an action property, from the types: of the steps that write
  rows, those that keep a row that is there (messages, the sweep, starts, stops and
  their rollbacks) keep its id;
* `ClusterEventsWithoutGaps`: the bound on a step needs an invariant about states,
  `StreamPosition`: an open stream that has delivered is never past the event after
  the last one. Replay moves it back, delivery one forward;
* `ClusterAnsweredDeleteIsFinal`: inductive with the types; the job answers without
  an error in the step that removes the container (`RemoveStep`), and `RemovedStays`
  says that no operation of the daemon brings a container back.

`FanoutProofs` (for any nodes, browsers, capacities and number of reports):
`FanoutTypeCorrect`, `FanoutSinkOrder`, `FanoutShownIsStored`. The inductive invariant adds `Fresh`: a report in its
handler is younger than all of its node that are queued or were handed over, and
one about to be published is the one in the table. Without it nothing keeps
`Enqueue` from appending an old report, or `Publish` from offering one that is not
stored.

`SessionsProofs` (for any number of attempts and early commands, under
`SessionsAssumption`): `SessionsTypeCorrect`, and from the inductive invariant
`InTurn` both `SessionsServedIsTracked` and `SessionsSessionShownOnline`. `InTurn` says what
attempts that do not overlap buy: at most one handler is at work (`Alone`); what it
wrote last still holds, the row online from `UpsertNode` on, the session its own from
its publication to its disconnect; and a session a failed registration has left in the
map keeps its row online. The two properties alone are not inductive: the row and the map are written
in separate steps, and only the handler's position says which of them is due. TLC
checked `InTurn` with three streams before it was proved.

Not proved, only model-checked: liveness. Under fairness it is outside what TLAPS
can do and stays with TLC: `AttemptsSettle` and `HandlersReturn` of
`Sessions`, `TransientSettles`, `PollHeals`, `EndsFreeDevices` and `DeletedIsGone` of
`Cluster`, `QueuedIsTried`, `ReportsHandled` and `ShutdownEnds` of `Fanout`.

## 5. What is left

Built in this order: `Store`, `Proxy`, `Master`, `GpuLedger`, `Sessions`; `Docker`,
`Agent`, `Cluster`; `Fanout`; the proofs. What a next step would be:

* what of `PortInv` survives a restart between requests, and cancelled clients, with
  the leftovers they cause made explicit;
* `Cluster` with two containers that compete for devices, for which its master side
  would have to become `Master`'s tables.

Not modelled, and why:

* the scheduler's scores and filters, names and port mappings
  (`master/api/util.go`): pure functions without state. `Master` allows every choice
  the scheduler can make;
* the machine id (`agent/identity`): written once; what a crash of the host leaves of
  it is up to the file system;
* the collector, the columns of the metrics database, configuration, command line,
  installers, the web UI: I/O and formatting, with no behaviour over time that the
  checked properties could depend on;
* the goroutines that close the proxy's listeners at shutdown, concurrent `Send` calls
  of one agent, and two streams of one node in `Fanout` (section 2);
* the lengths of back-offs and the quiet mode of a failing events subscription: rates,
  not states.
