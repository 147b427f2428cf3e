---------------------------- MODULE FanoutProofs ----------------------------
(***************************************************************************)
(* Proofs about Fanout: its type invariant, the order in which the sink is *)
(* handed the reports, and that browsers only see what is stored, for any  *)
(* nodes and browsers and any capacities of the two channels.              *)
(***************************************************************************)
EXTENDS Fanout, TLAPS

(***************************************************************************)
(* What the two channels do to their contents.                             *)
(***************************************************************************)
LEMMA AppendFacts ==
    ASSUME NEW S, NEW q \in Seq(S), NEW x \in S
    PROVE  /\ Append(q, x) \in Seq(S)
           /\ Len(Append(q, x)) = Len(q) + 1
           /\ DOMAIN Append(q, x) = DOMAIN q \cup {Len(q) + 1}
           /\ \A i \in DOMAIN q : i < Len(q) + 1 /\ Append(q, x)[i] = q[i]
           /\ Append(q, x)[Len(q) + 1] = x
OBVIOUS

LEMMA TailFacts ==
    ASSUME NEW S, NEW q \in Seq(S), q # <<>>
    PROVE  /\ Tail(q) \in Seq(S)
           /\ Len(Tail(q)) = Len(q) - 1
           /\ Head(q) = q[1] /\ 1 \in DOMAIN q /\ q[1] \in S
           /\ \A i \in DOMAIN Tail(q) : i \in Nat /\ i + 1 \in DOMAIN q /\ 1 < i + 1 /\ Tail(q)[i] = q[i + 1]
OBVIOUS

LEMMA ItemFacts ==
    ASSUME NEW q \in Seq(Reports)
    PROVE  \A i \in DOMAIN q : q[i] \in Reports /\ q[i].node \in Nodes /\ q[i].number \in Nat
<1>1. \A i \in DOMAIN q : q[i] \in Reports
  OBVIOUS
<1> QED
  BY <1>1 DEF Reports

LEMMA OfferedTypes ==
    ASSUME TypeOK, NEW u \in Reports, Offered(u)
    PROVE  updates' \in Seq(Reports) /\ Len(updates') <= UpdateCap
BY AppendFacts, FanoutAssumption DEF TypeOK, Offered

LEMMA ReportIn == ASSUME TypeOK, NEW n \in Nodes PROVE Report(n) \in Reports
BY DEF TypeOK, Report, Reports

-----------------------------------------------------------------------------
LEMMA HandlerTypes ==
    ASSUME TypeOK, NEW n \in Nodes,
           StreamOpens(n) \/ StreamEnds(n) \/ OtherMessage(n) \/ ReportArrives(n) \/ HandleReport(n)
    PROVE  TypeOK'
<1> USE DEF TypeOK, SinkSide, BrowserSide, HandlerGoes
<1>0. [node |-> n, number |-> 0] \in Reports
  BY DEF Reports
<1>1. CASE StreamOpens(n)
  BY <1>1, <1>0, OfferedTypes DEF StreamOpens
<1>2. CASE StreamEnds(n)
  BY <1>2, <1>0, OfferedTypes DEF StreamEnds
<1>3. CASE ReportArrives(n)
  BY <1>3 DEF ReportArrives
<1>4. CASE StoreFails(n)
  BY <1>4 DEF StoreFails
<1>5. CASE Store(n)
  BY <1>5 DEF Store
<1>6. CASE Publish(n)
  BY <1>6, ReportIn, OfferedTypes DEF Publish
<1>7. CASE Enqueue(n)
  <2>1. sinkCh' \in Seq(Reports) /\ Len(sinkCh') <= SinkCap
    BY <1>7, ReportIn, AppendFacts, FanoutAssumption DEF Enqueue, Queued
  <2> QED
    BY <1>7, <2>1 DEF Enqueue
<1>8. CASE OtherMessage(n)
  BY <1>8, <1>0, OfferedTypes DEF OtherMessage
<1> QED
  BY <1>1, <1>2, <1>3, <1>4, <1>5, <1>6, <1>7, <1>8 DEF HandleReport

LEMMA WorkerTypes == ASSUME TypeOK, Take \/ WriteReturns \/ WorkerReturns PROVE TypeOK'
<1> USE DEF TypeOK, BrowserSide
<1>1. CASE Take
  <2>1. Head(sinkCh) \in Reports /\ Tail(sinkCh) \in Seq(Reports) /\ Len(Tail(sinkCh)) <= SinkCap
    BY <1>1, TailFacts, FanoutAssumption DEF Take
  <2>2. Head(sinkCh).number \in Nat
    BY <2>1 DEF Reports
  <2> QED
    BY <1>1, <2>1, <2>2 DEF Take
<1>2. CASE WriteReturns
  BY <1>2 DEF WriteReturns, Written
<1>3. CASE WorkerReturns
  BY <1>3 DEF WorkerReturns
<1> QED
  BY <1>1, <1>2, <1>3

LEMMA BrowserTypes == ASSUME TypeOK, NEW b \in Browsers, Watch(b) PROVE TypeOK'
<1> USE DEF TypeOK, SinkSide, BrowserGoes
<1>1. CASE BrowserOpens(b)
  BY <1>1 DEF BrowserOpens
<1>2. CASE BrowserTakes(b)
  <2>1. Head(updates) \in Reports /\ Tail(updates) \in Seq(Reports) /\ Len(Tail(updates)) <= UpdateCap
    BY <1>2, TailFacts, FanoutAssumption DEF BrowserTakes
  <2> QED
    BY <1>2, <2>1 DEF BrowserTakes
<1>3. CASE BrowserShows(b)
  <2>1. browser[b].update \in Reports
    BY <1>3 DEF BrowserShows
  <2>2. browser[b].update.node \in Nodes /\ browser[b].update.number \in Nat
    BY <2>1 DEF Reports
  <2> QED
    BY <1>3, <2>2 DEF BrowserShows
<1>4. CASE BrowserGone(b)
  BY <1>4 DEF BrowserGone
<1> QED
  BY <1>1, <1>2, <1>3, <1>4 DEF Watch

LEMMA ProcessTypes == ASSUME TypeOK, Stop \/ GracefulStopReturns \/ SinkCloses PROVE TypeOK'
BY DEF TypeOK, Stop, GracefulStopReturns, SinkCloses, SinkSide, BrowserSide

LEMMA Types == TypeOK /\ [Next]_vars => TypeOK'
<1> SUFFICES ASSUME TypeOK, [Next]_vars PROVE TypeOK'
  OBVIOUS
<1>1. CASE UNCHANGED vars
  BY <1>1 DEF TypeOK, vars
<1> QED
  BY <1>1, HandlerTypes, WorkerTypes, BrowserTypes, ProcessTypes DEF Next

LEMMA InitTypes == Init => TypeOK
BY FanoutAssumption DEF Init, TypeOK

\* Every variable keeps its type and neither channel outgrows its capacity.
THEOREM FanoutTypeCorrect == Spec => []TypeOK
BY InitTypes, Types, PTL DEF Spec

-----------------------------------------------------------------------------
(***************************************************************************)
(* The order of the reports.  A report that is being handled is younger    *)
(* than all that are queued and have been handed over, and the one that is *)
(* about to be published is the one in the table.                          *)
(***************************************************************************)
Handling(n) == handler[n] \in {"store", "publish", "enqueue"}

Fresh ==
    \A n \in Nodes :
        /\ tried[n] <= received[n] /\ snapshot[n] <= received[n]
        /\ handler[n] = "publish" => snapshot[n] = received[n]
        /\ Handling(n) =>
              /\ tried[n] < received[n]
              /\ \A i \in DOMAIN sinkCh : sinkCh[i].node = n => sinkCh[i].number < received[n]

IInv == TypeOK /\ SinkOrder /\ ShownIsStored /\ Fresh

LEMMA OfferedShown ==
    ASSUME TypeOK, ShownIsStored, NEW u \in Reports, Offered(u),
           \A n \in Nodes : snapshot'[n] = snapshot[n],
           u.number <= snapshot[u.node], UNCHANGED <<browser, shown>>
    PROVE  ShownIsStored'
<1>1. \A i \in DOMAIN updates : updates[i] \in Reports
  BY DEF TypeOK
<1>2. \A i \in DOMAIN updates' : updates'[i] = u \/ (i \in DOMAIN updates /\ updates'[i] = updates[i])
  BY AppendFacts DEF TypeOK, Offered
<1>3. \A b \in Browsers : browser[b].at = "writing" => browser[b].update \in Reports
  BY DEF TypeOK
<1> QED
  BY <1>1, <1>2, <1>3 DEF ShownIsStored, Reports

LEMMA HandlerOrder ==
    ASSUME IInv, NEW n \in Nodes,
           StreamOpens(n) \/ StreamEnds(n) \/ OtherMessage(n) \/ ReportArrives(n) \/ HandleReport(n)
    PROVE  SinkOrder' /\ Fresh'
<1> USE DEF SinkSide, BrowserSide, HandlerGoes
<1>0. \A i \in DOMAIN sinkCh : sinkCh[i].node \in Nodes /\ sinkCh[i].number \in Nat
  BY ItemFacts DEF IInv, TypeOK
<1>1. CASE StreamOpens(n) \/ StreamEnds(n) \/ OtherMessage(n) \/ StoreFails(n) \/ Store(n) \/ Publish(n)
  <2>1. UNCHANGED <<sinkCh, tried, received>>
    BY <1>1 DEF StreamOpens, StreamEnds, OtherMessage, StoreFails, Store, Publish
  <2>2. SinkOrder'
    BY <2>1 DEF IInv, SinkOrder
  <2>3. \A m \in Nodes : Handling(m)' => Handling(m)
    BY <1>1 DEF IInv, TypeOK, Handling, StreamOpens, StreamEnds, OtherMessage, StoreFails, Store, Publish
  <2>4. \A m \in Nodes : /\ snapshot'[m] <= received[m]
                         /\ handler'[m] = "publish" => snapshot'[m] = received[m]
    <3>1. CASE Store(n)
      BY <3>1 DEF IInv, TypeOK, Fresh, Store
    <3>2. CASE StreamOpens(n) \/ StreamEnds(n) \/ OtherMessage(n) \/ StoreFails(n) \/ Publish(n)
      BY <3>2 DEF IInv, TypeOK, Fresh, StreamOpens, StreamEnds, OtherMessage, StoreFails, Publish
    <3> QED
      BY <1>1, <3>1, <3>2
  <2> QED
    BY <2>1, <2>2, <2>3, <2>4 DEF IInv, Fresh
<1>2. CASE ReportArrives(n)
  <2>1. UNCHANGED <<sinkCh, tried, snapshot>>
    BY <1>2 DEF ReportArrives
  <2>2. \A m \in Nodes : received[m] <= received'[m] /\ received'[m] \in Nat
    BY <1>2 DEF ReportArrives, IInv, TypeOK
  <2>3. received'[n] = received[n] + 1 /\ handler'[n] = "store"
    BY <1>2 DEF ReportArrives, IInv, TypeOK
  <2>4. \A m \in Nodes : m # n => received'[m] = received[m] /\ handler'[m] = handler[m]
    BY <1>2 DEF ReportArrives, IInv, TypeOK
  <2>5. SinkOrder'
    BY <1>0, <2>1, <2>2 DEF IInv, TypeOK, SinkOrder
  <2>6. \A i \in DOMAIN sinkCh : sinkCh[i].node = n => sinkCh[i].number < received'[n]
    BY <1>0, <2>3 DEF IInv, TypeOK, SinkOrder
  <2>7. ASSUME NEW m \in Nodes
        PROVE  /\ tried[m] <= received'[m] /\ snapshot[m] <= received'[m]
               /\ handler'[m] = "publish" => snapshot[m] = received'[m]
               /\ Handling(m)' =>
                     /\ tried[m] < received'[m]
                     /\ \A i \in DOMAIN sinkCh : sinkCh[i].node = m => sinkCh[i].number < received'[m]
    <3>0. tried[m] \in Nat /\ snapshot[m] \in Nat /\ received[m] \in Nat
      BY DEF IInv, TypeOK
    <3>1. CASE m = n
      BY <2>3, <2>6, <3>0, <3>1 DEF IInv, Fresh
    <3>2. CASE m # n
      BY <2>4, <3>2 DEF IInv, Fresh, Handling
    <3> QED
      BY <3>1, <3>2
  <2> QED
    BY <2>1, <2>5, <2>7 DEF Fresh
<1>3. CASE Enqueue(n)
  <2>1. UNCHANGED <<tried, received, snapshot>>
    BY <1>3 DEF Enqueue
  <2>2. /\ tried[n] < received[n] /\ Report(n).node = n /\ Report(n).number = received[n]
        /\ \A i \in DOMAIN sinkCh : sinkCh[i].node = n => sinkCh[i].number < received[n]
    BY <1>3 DEF Enqueue, IInv, Fresh, Handling, Report
  <2>3. \A i \in DOMAIN sinkCh' :
            \/ sinkCh'[i] = Report(n) /\ \A j \in DOMAIN sinkCh' : j <= i
            \/ i \in DOMAIN sinkCh /\ sinkCh'[i] = sinkCh[i]
    BY <1>3, AppendFacts, ReportIn DEF IInv, TypeOK, Enqueue, Queued
  <2>4. DOMAIN sinkCh' \subseteq Nat /\ \A i \in DOMAIN sinkCh : i \in Nat
    BY <1>3, HandlerTypes DEF IInv, TypeOK, HandleReport
  <2>5. SinkOrder'
    <3>1. \A i \in DOMAIN sinkCh' : /\ sinkCh'[i].number > tried[sinkCh'[i].node]
                                    /\ sinkCh'[i].number <= received[sinkCh'[i].node]
      <4>1. received[n] \in Nat /\ received[n] <= received[n]
        BY DEF IInv, TypeOK
      <4> QED
        BY <2>2, <2>3, <4>1 DEF IInv, SinkOrder
    <3>2. ASSUME NEW i \in DOMAIN sinkCh', NEW j \in DOMAIN sinkCh',
                 i < j, sinkCh'[i].node = sinkCh'[j].node
          PROVE  sinkCh'[i].number < sinkCh'[j].number
      <4>1. i \in DOMAIN sinkCh /\ sinkCh'[i] = sinkCh[i]
        BY <2>3, <2>4, <3>2
      <4> QED
        BY <2>2, <2>3, <3>2, <4>1 DEF IInv, SinkOrder
    <3> QED
      BY <2>1, <3>1, <3>2 DEF SinkOrder
  <2>6. ~Handling(n)' /\ handler'[n] # "publish"
    BY <1>3 DEF Enqueue, IInv, TypeOK, Handling
  <2>7. ASSUME NEW m \in Nodes, m # n, Handling(m)'
        PROVE  /\ tried[m] < received[m]
               /\ \A i \in DOMAIN sinkCh' : sinkCh'[i].node = m => sinkCh'[i].number < received[m]
    <3>1. Handling(m)
      BY <1>3, <2>7 DEF Enqueue, IInv, TypeOK, Handling
    <3> QED
      BY <2>2, <2>3, <2>7, <3>1 DEF IInv, Fresh
  <2>8. \A m \in Nodes : m # n => handler'[m] = handler[m]
    BY <1>3 DEF Enqueue, IInv, TypeOK
  <2> QED
    BY <2>1, <2>5, <2>6, <2>7, <2>8 DEF IInv, Fresh
<1> QED
  BY <1>1, <1>2, <1>3 DEF HandleReport

LEMMA HandlerShown ==
    ASSUME IInv, NEW n \in Nodes,
           StreamOpens(n) \/ StreamEnds(n) \/ OtherMessage(n) \/ ReportArrives(n) \/ HandleReport(n)
    PROVE  ShownIsStored'
<1> USE DEF SinkSide, BrowserSide
<1>1. CASE StreamOpens(n) \/ StreamEnds(n) \/ OtherMessage(n)
  <2> DEFINE u == [node |-> n, number |-> 0]
  <2>1. u \in Reports /\ Offered(u) /\ u.number <= snapshot[u.node]
    BY <1>1 DEF IInv, TypeOK, Reports, StreamOpens, StreamEnds, OtherMessage
  <2> QED
    BY <1>1, <2>1, OfferedShown DEF IInv, StreamOpens, StreamEnds, OtherMessage
<1>2. CASE Publish(n)
  <2>1. Report(n) \in Reports /\ Offered(Report(n)) /\ Report(n).number <= snapshot[Report(n).node]
    BY <1>2, ReportIn DEF IInv, TypeOK, Fresh, Publish, Report
  <2> QED
    BY <1>2, <2>1, OfferedShown DEF IInv, Publish
<1>3. CASE ReportArrives(n) \/ StoreFails(n) \/ Enqueue(n)
  BY <1>3 DEF IInv, ShownIsStored, ReportArrives, StoreFails, Enqueue
<1>4. CASE Store(n)
  <2>1. \A m \in Nodes : snapshot[m] <= snapshot'[m] /\ snapshot[m] \in Nat /\ snapshot'[m] \in Nat
    BY <1>4 DEF IInv, TypeOK, Fresh, Store
  <2>2. \A i \in DOMAIN updates : updates[i].node \in Nodes /\ updates[i].number \in Nat
    BY ItemFacts DEF IInv, TypeOK
  <2>3. \A b \in Browsers : browser[b].at = "writing" =>
            browser[b].update.node \in Nodes /\ browser[b].update.number \in Nat
    BY DEF IInv, TypeOK, Reports
  <2>4. \A b \in Browsers, m \in Nodes : shown[b][m] \in Nat
    BY DEF IInv, TypeOK
  <2>5. UNCHANGED <<updates, browser, shown>>
    BY <1>4 DEF Store
  <2> QED
    BY <2>1, <2>2, <2>3, <2>4, <2>5 DEF IInv, ShownIsStored
<1> QED
  BY <1>1, <1>2, <1>3, <1>4 DEF HandleReport

LEMMA WorkerOrder ==
    ASSUME IInv, Take \/ WriteReturns \/ WorkerReturns
    PROVE  SinkOrder' /\ Fresh'
<1> USE DEF BrowserSide
<1>1. CASE Take
  <2> DEFINE h == Head(sinkCh)
  <2>1. /\ h = sinkCh[1] /\ 1 \in DOMAIN sinkCh /\ h.node \in Nodes /\ h.number \in Nat
        /\ \A i \in DOMAIN sinkCh' : i \in Nat /\ i + 1 \in DOMAIN sinkCh /\ 1 < i + 1
                                      /\ sinkCh'[i] = sinkCh[i + 1]
    BY <1>1, TailFacts, ItemFacts DEF IInv, TypeOK, Take
  <2>2. \A m \in Nodes : tried'[m] = IF m = h.node THEN h.number ELSE tried[m]
    BY <1>1, <2>1 DEF IInv, TypeOK, Take
  <2>3. UNCHANGED <<received, handler, snapshot>>
    BY <1>1 DEF Take
  <2>4. \A i \in DOMAIN sinkCh : sinkCh[i].node \in Nodes /\ sinkCh[i].number \in Nat
    BY ItemFacts DEF IInv, TypeOK
  <2>5. \A i \in DOMAIN sinkCh' : /\ sinkCh'[i].number > tried'[sinkCh'[i].node]
                                  /\ sinkCh'[i].number <= received[sinkCh'[i].node]
    BY <2>1, <2>2, <2>4 DEF IInv, SinkOrder
  <2>6. ASSUME NEW i \in DOMAIN sinkCh', NEW j \in DOMAIN sinkCh',
               i < j, sinkCh'[i].node = sinkCh'[j].node
        PROVE  sinkCh'[i].number < sinkCh'[j].number
    <3>1. i + 1 \in DOMAIN sinkCh /\ j + 1 \in DOMAIN sinkCh /\ i + 1 < j + 1
      BY <2>1, <2>6
    <3> QED
      BY <2>1, <2>6, <3>1 DEF IInv, SinkOrder
  <2>7. SinkOrder'
    BY <2>3, <2>5, <2>6 DEF SinkOrder
  <2>8. h.number <= received[h.node] /\ (Handling(h.node) => h.number < received[h.node])
    BY <2>1 DEF IInv, SinkOrder, Fresh
  <2> QED
    BY <2>1, <2>2, <2>3, <2>7, <2>8 DEF IInv, Fresh, Handling
<1>2. CASE WriteReturns \/ WorkerReturns
  BY <1>2 DEF IInv, SinkOrder, Fresh, Handling, WriteReturns, Written, WorkerReturns
<1> QED
  BY <1>1, <1>2

LEMMA BrowserShown == ASSUME IInv, NEW b \in Browsers, Watch(b) PROVE ShownIsStored'
<1> USE DEF SinkSide, BrowserGoes
<1>0. UNCHANGED snapshot
  BY DEF Watch, BrowserOpens, BrowserTakes, BrowserShows, BrowserGone
<1>1. CASE BrowserOpens(b)
  BY <1>0, <1>1 DEF IInv, TypeOK, ShownIsStored, BrowserOpens
<1>2. CASE BrowserTakes(b)
  <2>1. /\ Head(updates) = updates[1] /\ 1 \in DOMAIN updates
        /\ \A i \in DOMAIN updates' : i + 1 \in DOMAIN updates /\ updates'[i] = updates[i + 1]
    BY <1>2, TailFacts DEF IInv, TypeOK, BrowserTakes
  <2>2. /\ browser'[b] = [at |-> "writing", update |-> updates[1]]
        /\ \A c \in Browsers : c # b => browser'[c] = browser[c]
        /\ UNCHANGED shown
    BY <1>2, <2>1 DEF IInv, TypeOK, BrowserTakes
  <2> QED
    BY <1>0, <2>1, <2>2 DEF IInv, ShownIsStored
<1>3. CASE BrowserShows(b)
  <2> DEFINE u == browser[b].update
  <2>1. u \in Reports /\ u.number <= snapshot[u.node]
    BY <1>3 DEF IInv, TypeOK, ShownIsStored, BrowserShows
  <2>2. \A c \in Browsers, m \in Nodes :
            shown'[c][m] = shown[c][m] \/ (m = u.node /\ shown'[c][m] = u.number)
    BY <1>3, <2>1 DEF IInv, TypeOK, BrowserShows, Reports
  <2>3. /\ \A c \in Browsers : browser'[c].at = "writing" => browser'[c] = browser[c]
        /\ UNCHANGED updates
    BY <1>3 DEF IInv, TypeOK, BrowserShows
  <2> QED
    BY <1>0, <2>1, <2>2, <2>3 DEF IInv, ShownIsStored
<1>4. CASE BrowserGone(b)
  <2>1. /\ \A c \in Browsers : browser'[c].at = "writing" => browser'[c] = browser[c]
        /\ UNCHANGED <<updates, shown>>
    BY <1>4 DEF IInv, TypeOK, BrowserGone
  <2> QED
    BY <1>0, <2>1 DEF IInv, ShownIsStored
<1> QED
  BY <1>1, <1>2, <1>3, <1>4 DEF Watch

LEMMA Inductive == IInv /\ [Next]_vars => IInv'
<1> SUFFICES ASSUME IInv, [Next]_vars PROVE IInv'
  OBVIOUS
<1>1. TypeOK'
  BY Types DEF IInv
<1>2. CASE UNCHANGED vars
  BY <1>1, <1>2 DEF IInv, SinkOrder, ShownIsStored, Fresh, Handling, vars
<1>3. ASSUME NEW n \in Nodes,
             StreamOpens(n) \/ StreamEnds(n) \/ OtherMessage(n) \/ ReportArrives(n) \/ HandleReport(n)
      PROVE  IInv'
  BY <1>1, <1>3, HandlerOrder, HandlerShown DEF IInv
<1>4. CASE Take \/ WriteReturns \/ WorkerReturns
  <2>1. ShownIsStored'
    BY <1>4 DEF IInv, ShownIsStored, Take, WriteReturns, WorkerReturns, BrowserSide
  <2> QED
    BY <1>1, <1>4, <2>1, WorkerOrder DEF IInv
<1>5. ASSUME NEW b \in Browsers, Watch(b) PROVE IInv'
  <2>1. SinkOrder' /\ Fresh'
    BY <1>5 DEF IInv, SinkOrder, Fresh, Handling, SinkSide, Watch, BrowserOpens, BrowserTakes,
                BrowserShows, BrowserGone
  <2> QED
    BY <1>1, <1>5, <2>1, BrowserShown DEF IInv
<1>6. CASE Stop \/ GracefulStopReturns \/ SinkCloses
  <2>1. UNCHANGED <<received, handler, snapshot, SinkSide, BrowserSide>>
    BY <1>6 DEF Stop, GracefulStopReturns, SinkCloses
  <2> QED
    BY <1>1, <2>1 DEF IInv, SinkOrder, ShownIsStored, Fresh, Handling, SinkSide, BrowserSide
<1> QED
  BY <1>2, <1>3, <1>4, <1>5, <1>6 DEF Next

LEMMA InitIInv == Init => IInv
BY InitTypes DEF Init, IInv, SinkOrder, ShownIsStored, Fresh, Handling

\* The sink is handed a node's reports in order and none of them twice, whatever
\* overflows, fails or disconnects (manager.go:81-105).
THEOREM FanoutSinkOrder == Spec => []SinkOrder
<1>1. IInv => SinkOrder
  BY DEF IInv
<1> QED
  BY <1>1, InitIInv, Inductive, PTL DEF Spec

\* No browser sees a report the nodes table has not held (manager.go:367-369).
THEOREM FanoutShownIsStored == Spec => []ShownIsStored
<1>1. IInv => ShownIsStored
  BY DEF IInv
<1> QED
  BY <1>1, InitIInv, Inductive, PTL DEF Spec

=============================================================================
