------------------------------- MODULE Fanout -------------------------------
(***************************************************************************)
(* What becomes of a metric report in the master (internal/master/agentmgr *)
(* manager.go): the handler of the node's stream writes it into the nodes  *)
(* table, offers it to the browsers on Manager.updates, and queues it on   *)
(* Manager.sinkCh for the worker that writes to the metrics sink.  Neither *)
(* channel may hold the handler up.  A report stands for itself by the     *)
(* node's name and a number; a node has one stream at a time (Sessions).   *)
(***************************************************************************)
EXTENDS Naturals, Sequences

CONSTANTS
    Nodes,
    Browsers,      \* WebSockets of the dashboard
    MaxReports,    \* bound: reports of a node
    SinkCap,       \* capacity of sinkCh (1024)
    UpdateCap      \* capacity of updates (256)

ASSUME FanoutAssumption ==
    /\ MaxReports \in Nat
    /\ SinkCap \in Nat \ {0} /\ UpdateCap \in Nat \ {0}

VARIABLES
    received,      \* node -> the number of its latest report
    handler,       \* node -> where its stream's handler stands
    snapshot,      \* node -> the report in the nodes table, 0 for none
    sinkCh,        \* Manager.sinkCh
    worker,        \* sinkLoop, and the report it is writing
    tried,         \* history: node -> the last report handed to Sink.Write
    updates,       \* Manager.updates
    browser,       \* WebSocket -> where its handler stands, and its update
    shown,         \* WebSocket -> node -> the last report it has been sent
    process        \* the master's Run

vars == <<received, handler, snapshot, sinkCh, worker, tried, updates, browser, shown, process>>

Reports == [node : Nodes, number : Nat]

TypeOK ==
    /\ received \in [Nodes -> Nat]
    /\ handler \in [Nodes -> {"ended", "waiting", "store", "publish", "enqueue"}]
    /\ snapshot \in [Nodes -> Nat]
    /\ sinkCh \in Seq(Reports) /\ Len(sinkCh) <= SinkCap
    /\ worker \in [at : {"taking", "returned"}] \cup [at : {"writing"}, report : Reports]
    /\ tried \in [Nodes -> Nat]
    /\ updates \in Seq(Reports) /\ Len(updates) <= UpdateCap
    /\ browser \in [Browsers -> [at : {"closed", "reading"}]
                                    \cup [at : {"writing"}, update : Reports]]
    /\ shown \in [Browsers -> [Nodes -> Nat]]
    /\ process \in {"running", "stopping", "closing", "returned"}

Init ==
    /\ received = [n \in Nodes |-> 0]
    /\ handler = [n \in Nodes |-> "ended"]
    /\ snapshot = [n \in Nodes |-> 0]
    /\ sinkCh = <<>>
    /\ worker = [at |-> "taking"]
    /\ tried = [n \in Nodes |-> 0]
    /\ updates = <<>>
    /\ browser = [b \in Browsers |-> [at |-> "closed"]]
    /\ shown = [b \in Browsers |-> [n \in Nodes |-> 0]]
    /\ process = "running"

Report(n) == [node |-> n, number |-> received[n]]

-----------------------------------------------------------------------------
(***************************************************************************)
(* The handler of node n's stream.                                         *)
(***************************************************************************)
HandlerGoes(n, step) == handler' = [handler EXCEPT ![n] = step]

SinkSide == <<sinkCh, worker, tried>>
BrowserSide == <<updates, browser, shown>>

\* Mutant of Offered: the handler waits for room.
Mutant_Offered(u) ==
    /\ Len(updates) < UpdateCap
    /\ updates' = Append(updates, u)

\* publish: an update for which there is no room is dropped.
Offered(u) == updates' = IF Len(updates) < UpdateCap THEN Append(updates, u) ELSE updates

\* An agent connects; it is announced like every other change of state, as an
\* update without a snapshot (number 0).
StreamOpens(n) ==
    /\ process = "running"
    /\ handler[n] = "ended"
    /\ HandlerGoes(n, "waiting")
    /\ Offered([node |-> n, number |-> 0])
    /\ UNCHANGED <<received, snapshot, SinkSide, browser, shown, process>>

StreamEnds(n) ==
    /\ handler[n] = "waiting"
    /\ HandlerGoes(n, "ended")
    /\ Offered([node |-> n, number |-> 0])
    /\ UNCHANGED <<received, snapshot, SinkSide, browser, shown, process>>

\* A heartbeat or a container message: what it stores is not shown here, and the
\* browsers are told that something has changed.
OtherMessage(n) ==
    /\ handler[n] = "waiting"
    /\ Offered([node |-> n, number |-> 0])
    /\ UNCHANGED <<received, handler, snapshot, SinkSide, browser, shown, process>>

ReportArrives(n) ==
    /\ handler[n] = "waiting"
    /\ received[n] < MaxReports
    /\ received' = [received EXCEPT ![n] = @ + 1]
    /\ HandlerGoes(n, "store")
    /\ UNCHANGED <<snapshot, SinkSide, BrowserSide, process>>

\* Mutant of StoreFails: the report is published all the same.
Mutant_StoreFails(n) ==
    /\ handler[n] = "store"
    /\ HandlerGoes(n, "publish")
    /\ UNCHANGED <<received, snapshot, SinkSide, BrowserSide, process>>

\* UpdateNodeMetrics returns an error: the report is not published, but queued.
StoreFails(n) ==
    /\ handler[n] = "store"
    /\ HandlerGoes(n, "enqueue")
    /\ UNCHANGED <<received, snapshot, SinkSide, BrowserSide, process>>

Store(n) ==
    /\ handler[n] = "store"
    /\ snapshot' = [snapshot EXCEPT ![n] = received[n]]
    /\ HandlerGoes(n, "publish")
    /\ UNCHANGED <<received, SinkSide, BrowserSide, process>>

Publish(n) ==
    /\ handler[n] = "publish"
    /\ Offered(Report(n))
    /\ HandlerGoes(n, "enqueue")
    /\ UNCHANGED <<received, snapshot, SinkSide, browser, shown, process>>

\* Mutant of Queued: one report too many.
Mutant_QueuedFull(r) == sinkCh' = IF Len(sinkCh) <= SinkCap THEN Append(sinkCh, r) ELSE sinkCh

\* enqueueMetric: a report for which there is no room is dropped.
Queued(r) == sinkCh' = IF Len(sinkCh) < SinkCap THEN Append(sinkCh, r) ELSE sinkCh

Enqueue(n) ==
    /\ handler[n] = "enqueue"
    /\ Queued(Report(n))
    /\ HandlerGoes(n, "waiting")
    /\ UNCHANGED <<received, snapshot, worker, tried, BrowserSide, process>>

HandleReport(n) == StoreFails(n) \/ Store(n) \/ Publish(n) \/ Enqueue(n)

-----------------------------------------------------------------------------
(***************************************************************************)
(* sinkLoop.  When both a report and the end of sinkCtx are there, either  *)
(* is taken; a Write under the ended context fails.                        *)
(***************************************************************************)
Closing == process \in {"closing", "returned"}

Take ==
    /\ worker.at = "taking"
    /\ sinkCh # <<>>
    /\ worker' = [at |-> "writing", report |-> Head(sinkCh)]
    /\ tried' = [tried EXCEPT ![Head(sinkCh).node] = Head(sinkCh).number]
    /\ sinkCh' = Tail(sinkCh)
    /\ UNCHANGED <<received, handler, snapshot, BrowserSide, process>>

\* Mutant of Written: a report the sink refuses is queued again.
Mutant_Written ==
    /\ worker' = [at |-> "taking"]
    /\ \/ sinkCh' = Append(sinkCh, worker.report) /\ Len(sinkCh) < SinkCap
       \/ UNCHANGED sinkCh

\* Mutant of Written: the worker may return on an error.
Mutant_WrittenReturns ==
    /\ worker' \in [at : {"taking", "returned"}]
    /\ UNCHANGED sinkCh

\* Sink.Write returns, at the latest after five seconds; an error is logged and
\* the report is not tried again.
Written ==
    /\ worker' = [at |-> "taking"]
    /\ UNCHANGED sinkCh

WriteReturns ==
    /\ worker.at = "writing"
    /\ Written
    /\ UNCHANGED <<received, handler, snapshot, tried, BrowserSide, process>>

\* Mutant of WorkerEnds: the context is looked at between two reports only.
Mutant_WorkerEnds == Closing /\ sinkCh # <<>>

WorkerEnds == Closing

WorkerReturns ==
    /\ worker.at = "taking"
    /\ WorkerEnds
    /\ worker' = [at |-> "returned"]
    /\ UNCHANGED <<received, handler, snapshot, sinkCh, tried, BrowserSide, process>>

-----------------------------------------------------------------------------
(***************************************************************************)
(* The WebSockets (api.go): every handler ranges over the one channel, so  *)
(* an update goes to one browser.  Nothing tells a handler that waits on   *)
(* the channel that its browser is gone: it learns it from the update it   *)
(* fails to write.                                                         *)
(***************************************************************************)
BrowserGoes(b, next) == browser' = [browser EXCEPT ![b] = next]

BrowserOpens(b) ==
    /\ process = "running"
    /\ browser[b].at = "closed"
    /\ BrowserGoes(b, [at |-> "reading"])
    /\ shown' = [shown EXCEPT ![b] = [n \in Nodes |-> 0]]
    /\ UNCHANGED <<received, handler, snapshot, SinkSide, updates, process>>

BrowserTakes(b) ==
    /\ browser[b].at = "reading"
    /\ updates # <<>>
    /\ BrowserGoes(b, [at |-> "writing", update |-> Head(updates)])
    /\ updates' = Tail(updates)
    /\ UNCHANGED <<received, handler, snapshot, SinkSide, shown, process>>

BrowserShows(b) ==
    /\ browser[b].at = "writing"
    /\ LET u == browser[b].update IN
           shown' = IF u.number = 0 THEN shown ELSE [shown EXCEPT ![b][u.node] = u.number]
    /\ BrowserGoes(b, [at |-> "reading"])
    /\ UNCHANGED <<received, handler, snapshot, SinkSide, updates, process>>

\* WriteJSON fails, and the handler returns.
BrowserGone(b) ==
    /\ browser[b].at = "writing"
    /\ BrowserGoes(b, [at |-> "closed"])
    /\ UNCHANGED <<received, handler, snapshot, SinkSide, updates, shown, process>>

Watch(b) == BrowserOpens(b) \/ BrowserTakes(b) \/ BrowserShows(b) \/ BrowserGone(b)

-----------------------------------------------------------------------------
(***************************************************************************)
(* The end of the master's Run: a signal, GracefulStop, which waits for    *)
(* the streams, and the deferred Manager.Shutdown, which ends sinkCtx,     *)
(* waits for the worker and closes the sink.                               *)
(***************************************************************************)
Stop ==
    /\ process = "running"
    /\ process' = "stopping"
    /\ UNCHANGED <<received, handler, snapshot, SinkSide, BrowserSide>>

GracefulStopReturns ==
    /\ process = "stopping"
    /\ \A n \in Nodes : handler[n] = "ended"
    /\ process' = "closing"
    /\ UNCHANGED <<received, handler, snapshot, SinkSide, BrowserSide>>

SinkCloses ==
    /\ process = "closing"
    /\ worker.at = "returned"
    /\ process' = "returned"
    /\ UNCHANGED <<received, handler, snapshot, SinkSide, BrowserSide>>

Next ==
    \/ \E n \in Nodes :
          \/ StreamOpens(n) \/ StreamEnds(n)
          \/ OtherMessage(n) \/ ReportArrives(n) \/ HandleReport(n)
    \/ Take \/ WriteReturns \/ WorkerReturns
    \/ \E b \in Browsers : Watch(b)
    \/ Stop \/ GracefulStopReturns \/ SinkCloses

(***************************************************************************)
(* A handler in the middle of a report goes on, and so does the worker,    *)
(* whose Write has a deadline.  Browsers owe nothing, and agents neither   *)
(* send reports nor end their streams by necessity.                        *)
(***************************************************************************)
Fairness ==
    /\ \A n \in Nodes : WF_vars(HandleReport(n))
    /\ WF_vars(Take) /\ WF_vars(WriteReturns) /\ WF_vars(WorkerReturns)
    /\ WF_vars(GracefulStopReturns) /\ WF_vars(SinkCloses)

Spec == Init /\ [][Next]_vars /\ Fairness

-----------------------------------------------------------------------------
(***************************************************************************)
(* Properties                                                              *)
(***************************************************************************)

\* The sink is handed the reports of a node in the order they came, each at most
\* once (manager.go:81-93, 99-105), through overflows, failed writes and streams
\* that end: everything queued is later than everything handed over.
SinkOrder ==
    /\ \A i \in DOMAIN sinkCh :
          sinkCh[i].number > tried[sinkCh[i].node] /\ sinkCh[i].number <= received[sinkCh[i].node]
    /\ \A i, j \in DOMAIN sinkCh :
          i < j /\ sinkCh[i].node = sinkCh[j].node => sinkCh[i].number < sinkCh[j].number

\* Nothing is shown to a browser, or on its way to one, that the nodes table has
\* not held (manager.go:367-369): a page that is reloaded never goes back.
ShownIsStored ==
    /\ \A i \in DOMAIN updates : updates[i].number <= snapshot[updates[i].node]
    /\ \A b \in Browsers :
          /\ browser[b].at = "writing" =>
                 browser[b].update.number <= snapshot[browser[b].update.node]
          /\ \A n \in Nodes : shown[b][n] <= snapshot[n]

\* A report in the queue is handed to the sink, or a later one of its node is,
\* unless the master shuts down first: neither an overflow nor a report the sink
\* refuses stops the worker (manager.go:79-93, 95-105).
QueuedIsTried ==
    \A n \in Nodes, k \in 1..MaxReports :
        (\E i \in DOMAIN sinkCh : sinkCh[i] = [node |-> n, number |-> k])
            ~> (tried[n] >= k \/ Closing)

(***************************************************************************)
(* src/README.md:485: "The internal sink channel drops oldest metrics on   *)
(* overflow".  The report just handled is then always in the channel.      *)
(***************************************************************************)
OverflowDropsOldest ==
    [][\A n \in Nodes :
          handler[n] = "enqueue" /\ handler'[n] = "waiting"
              => sinkCh' # <<>> /\ sinkCh'[Len(sinkCh')] = Report(n)]_vars

\* The handler of a stream gets to its next message whatever the browsers do
\* (manager.go:29-33, 280-286).
ReportsHandled ==
    \A n \in Nodes : (handler[n] \in {"store", "publish", "enqueue"}) ~> (handler[n] = "waiting")

\* Once the streams are done the master returns: the worker is never left waiting
\* for a report that does not come (manager.go:69-93).
ShutdownEnds == (process = "closing") ~> (process = "returned")
=============================================================================
