---------------------------- MODULE ClusterProofs ----------------------------
(***************************************************************************)
(* Proofs about Cluster: its type invariant, that the master does not      *)
(* forget a docker id, that the events loop skips nothing it could have    *)
(* delivered, and that a delete answered without an error has removed its  *)
(* container, for any containers and any number of requests, crashes,      *)
(* broken links and acts of users on the host.                             *)
(***************************************************************************)
EXTENDS Cluster, TLAPS

LEMMA EmptyTyped ==
    ASSUME NEW S
    PROVE  <<>> \in Seq(S)
OBVIOUS

LEMMA AppendTyped ==
    ASSUME NEW S, NEW q \in Seq(S), NEW x \in S
    PROVE  Append(q, x) \in Seq(S)
OBVIOUS

LEMMA TailTyped ==
    ASSUME NEW S, NEW q \in Seq(S), q # <<>>
    PROVE  Tail(q) \in Seq(S) /\ Head(q) \in S
OBVIOUS

LEMMA ElementTyped ==
    ASSUME NEW S, NEW q \in Seq(S), NEW i \in DOMAIN q
    PROVE  q[i] \in S /\ i \in Nat
OBVIOUS

LEMMA ReplaceTyped ==
    ASSUME NEW S, NEW q \in Seq(S), NEW i \in DOMAIN q, NEW x \in S
    PROVE  [q EXCEPT ![i] = x] \in Seq(S)
OBVIOUS

LEMMA MapTyped ==
    ASSUME NEW S, NEW q \in Seq(S), NEW r, DOMAIN r = DOMAIN q, r = [i \in DOMAIN q |-> r[i]],
           \A i \in DOMAIN q : r[i] \in S
    PROVE  r \in Seq(S)
OBVIOUS

-----------------------------------------------------------------------------
(***************************************************************************)
(* The daemon.                                                             *)
(***************************************************************************)
LEMMA LogsTyped ==
    ASSUME DockerTypeOK, NEW c \in Containers,
           NEW a \in {"start", "kill", "die", "destroy"}, Logs(c, a)
    PROVE  log' \in Seq(Events)
<1>1. [c |-> c, action |-> a] \in Events
  BY DEF Events
<1> QED
  BY <1>1, AppendTyped DEF DockerTypeOK, Logs

LEMMA DaemonTypes ==
    ASSUME DockerTypeOK, NEW c \in Containers,
           \/ DockerCreate(c) \/ DockerStart(c) \/ DockerStop(c)
           \/ DockerExit(c) \/ DockerRemove(c) \/ DockerSignal(c)
    PROVE  docker' \in [Containers -> DockerStates] /\ log' \in Seq(Events)
<1>1. CASE DockerCreate(c)
  BY <1>1 DEF DockerTypeOK, DockerCreate, Becomes, DockerStates
<1>2. CASE DockerStart(c)
  BY <1>2, LogsTyped DEF DockerTypeOK, DockerStart, Becomes, DockerStates
<1>3. CASE DockerStop(c)
  BY <1>3, LogsTyped DEF DockerTypeOK, DockerStop, Becomes, DockerStates
<1>4. CASE DockerExit(c)
  BY <1>4, LogsTyped DEF DockerTypeOK, DockerExit, Becomes, DockerStates
<1>5. CASE DockerRemove(c)
  <2>1. docker' \in [Containers -> DockerStates]
    BY <1>5 DEF DockerTypeOK, DockerRemove, Becomes, DockerStates
  <2>2. CASE Logs(c, "destroy")
    BY <2>1, <2>2, LogsTyped
  <2>3. CASE log' = log \o <<[c |-> c, action |-> "die"], [c |-> c, action |-> "destroy"]>>
    <3>1. [c |-> c, action |-> "die"] \in Events /\ [c |-> c, action |-> "destroy"] \in Events
      BY DEF Events
    <3>2. <<[c |-> c, action |-> "die"], [c |-> c, action |-> "destroy"]>> \in Seq(Events)
      BY <3>1
    <3>3. log' \in Seq(Events)
      BY <2>3, <3>2 DEF DockerTypeOK
    <3> QED
      BY <2>1, <3>3
  <2> QED
    BY <1>5, <2>2, <2>3 DEF DockerRemove
<1>6. CASE DockerSignal(c)
  BY <1>6, LogsTyped DEF DockerTypeOK, DockerSignal
<1> QED
  BY <1>1, <1>2, <1>3, <1>4, <1>5, <1>6

\* No operation brings a removed container back.
LEMMA RemovedStays ==
    ASSUME DockerTypeOK, NEW c \in Containers, NEW d \in Containers, docker[d] = "removed",
           \/ DockerCreate(c) \/ DockerStart(c) \/ DockerStop(c)
           \/ DockerExit(c) \/ DockerRemove(c) \/ DockerSignal(c)
    PROVE  docker'[d] = "removed"
BY DEF DockerTypeOK, DockerCreate, DockerStart, DockerStop, DockerExit, DockerRemove,
       DockerSignal, Becomes, OnHost

-----------------------------------------------------------------------------
(***************************************************************************)
(* The agent: messages and jobs.                                           *)
(***************************************************************************)
LEMMA SendsTyped ==
    ASSUME AgentTypeOK, NEW m \in Messages, Sends(m)
    PROVE  up' \in Seq(Messages)
<1>1. CASE up' = Append(up, m)
  BY <1>1, AppendTyped DEF AgentTypeOK
<1>2. CASE UNCHANGED up
  BY <1>2 DEF AgentTypeOK
<1> QED
  BY <1>1, <1>2 DEF Sends

LEMMA JobTyped ==
    ASSUME AgentTypeOK, NEW i \in DOMAIN jobs
    PROVE  jobs[i] \in Jobs /\ jobs[i].c \in Containers
<1>1. jobs[i] \in Jobs
  BY ElementTyped DEF AgentTypeOK
<1> QED
  BY <1>1 DEF Jobs

\* A step of a job changes this job, and of it only its place and its outcome.
LEMMA JobMoves ==
    ASSUME AgentTypeOK, NEW j \in DOMAIN jobs, NEW step \in Steps, NEW ok \in BOOLEAN,
           \/ JobGoes(j, step) \/ JobAnswers(j, ok)
    PROVE  /\ jobs' \in Seq(Jobs)
           /\ DOMAIN jobs' = DOMAIN jobs
           /\ \A i \in DOMAIN jobs : i # j => jobs'[i] = jobs[i]
           /\ jobs'[j].op = jobs[j].op /\ jobs'[j].c = jobs[j].c /\ jobs'[j].id = jobs[j].id
           /\ JobGoes(j, step) => jobs'[j].at = step /\ jobs'[j].ok = jobs[j].ok
           /\ JobAnswers(j, ok) => jobs'[j].at = "answer" /\ jobs'[j].ok = ok
<1>1. jobs \in Seq(Jobs) /\ jobs[j] \in Jobs
  BY ElementTyped DEF AgentTypeOK
<1>2. CASE JobGoes(j, step)
  <2> DEFINE x == [jobs[j] EXCEPT !.at = step]
  <2>1. jobs' = [jobs EXCEPT ![j] = x]
    BY <1>2 DEF JobGoes
  <2>2. x \in Jobs
    BY <1>1 DEF Jobs
  <2>3. jobs' \in Seq(Jobs)
    BY <1>1, <2>1, <2>2, ReplaceTyped
  <2>4. jobs'[j] = x
    BY <1>1, <2>1
  <2>5. DOMAIN jobs' = DOMAIN jobs /\ \A i \in DOMAIN jobs : i # j => jobs'[i] = jobs[i]
    BY <1>1, <2>1
  <2>6. x.op = jobs[j].op /\ x.c = jobs[j].c /\ x.id = jobs[j].id /\ x.at = step /\ x.ok = jobs[j].ok
    BY <1>1 DEF Jobs
  <2>7. ASSUME JobAnswers(j, ok)
        PROVE  jobs'[j].at = "answer" /\ jobs'[j].ok = ok
    <3>1. jobs' = [jobs EXCEPT ![j] = [jobs[j] EXCEPT !.at = "answer", !.ok = ok]]
      BY <1>1, <2>7 DEF JobAnswers, Jobs
    <3> QED
      BY <1>1, <3>1 DEF Jobs
  <2> QED
    BY <2>3, <2>4, <2>5, <2>6, <2>7
<1>3. CASE JobAnswers(j, ok)
  <2> DEFINE x == [jobs[j] EXCEPT !.at = "answer", !.ok = ok]
  <2>1. jobs' = [jobs EXCEPT ![j] = x]
    BY <1>1, <1>3 DEF JobAnswers, Jobs
  <2>2. x \in Jobs
    BY <1>1 DEF Jobs, Steps
  <2>3. jobs' \in Seq(Jobs)
    BY <1>1, <2>1, <2>2, ReplaceTyped
  <2>4. jobs'[j] = x
    BY <1>1, <2>1
  <2>5. DOMAIN jobs' = DOMAIN jobs /\ \A i \in DOMAIN jobs : i # j => jobs'[i] = jobs[i]
    BY <1>1, <2>1
  <2>6. x.op = jobs[j].op /\ x.c = jobs[j].c /\ x.id = jobs[j].id /\ x.at = "answer" /\ x.ok = ok
    BY <1>1 DEF Jobs
  <2>7. JobGoes(j, step) => jobs'[j].at = step /\ jobs'[j].ok = jobs[j].ok
    BY <1>1 DEF JobGoes, Jobs
  <2> QED
    BY <2>3, <2>4, <2>5, <2>6, <2>7
<1> QED
  BY <1>2, <1>3

\* What a command's goroutine does: its job moves, with or without a call of the
\* daemon or a message.
LEMMA JobActs ==
    ASSUME DockerTypeOK, AgentTypeOK, NEW j \in DOMAIN jobs, Receive(j) \/ JobStep(j)
    PROVE  /\ \E step \in Steps, ok \in BOOLEAN : JobGoes(j, step) \/ JobAnswers(j, ok)
           /\ \/ NoDockerCall
              \/ \E c \in Containers : \/ DockerCreate(c) \/ DockerStart(c)
                                       \/ DockerStop(c) \/ DockerRemove(c)
           /\ UNCHANGED up \/ Answer(j)
           /\ UNCHANGED <<link, agent, events, poll, acts>>
<1>1. jobs[j].c \in Containers
  BY JobTyped
<1>2. CASE Receive(j)
  BY <1>2 DEF Receive, JobOnly, Steps
<1>3. CASE CreateStep(j)
  BY <1>1, <1>3 DEF CreateStep, JobOnly, Steps
<1>4. CASE StartStep(j)
  BY <1>1, <1>4 DEF StartStep, JobOnly, Steps
<1>5. CASE StopStep(j)
  BY <1>1, <1>5 DEF StopStep, AfterStop, JobOnly, Steps
<1>6. CASE RemoveStep(j)
  BY <1>1, <1>6 DEF RemoveStep, JobOnly, Steps
<1>7. CASE Answer(j)
  BY <1>7 DEF Answer, Steps
<1> QED
  BY <1>2, <1>3, <1>4, <1>5, <1>6, <1>7 DEF JobStep

LEMMA AnswerTyped ==
    ASSUME AgentTypeOK, NEW j \in DOMAIN jobs, Answer(j)
    PROVE  up' \in Seq(Messages)
<1>1. jobs[j] \in Jobs
  BY ElementTyped DEF AgentTypeOK
<1> DEFINE kind == CASE jobs[j].op = "create" -> "created"
                     [] jobs[j].op = "start" -> "started"
                     [] OTHER -> "stopped"
<1> DEFINE state == IF ~jobs[j].ok THEN "error" ELSE IF kind = "stopped" THEN "exited" ELSE "running"
<1> DEFINE id == IF jobs[j].op = "create" THEN jobs[j].ok ELSE jobs[j].id
<1>2. [kind |-> kind, c |-> jobs[j].c, state |-> state, id |-> id] \in Messages
  BY <1>1 DEF Jobs, Messages
<1>3. Sends([kind |-> kind, c |-> jobs[j].c, state |-> state, id |-> id])
  BY DEF Answer
<1> QED
  BY <1>2, <1>3, SendsTyped

-----------------------------------------------------------------------------
(***************************************************************************)
(* Type correctness.                                                       *)
(***************************************************************************)
LEMMA CommandsTyped ==
    ASSUME DockerTypeOK, AgentTypeOK, NEW op \in {"create", "start", "stop", "remove"},
           NEW c \in Containers, NEW id \in BOOLEAN, Commands(op, c, id)
    PROVE  /\ DockerTypeOK' /\ AgentTypeOK'
           /\ UNCHANGED <<undo, crashed, astray>>
           /\ session' = session
<1> DEFINE job == [op |-> op, c |-> c, id |-> id, ok |-> FALSE,
                   at |-> IF link = "up" THEN "sent" ELSE "lost"]
<1>1. job \in Jobs
  BY DEF Jobs, Steps
<1>2. jobs' = Append(jobs, job)
  BY DEF Commands
<1>3. jobs' \in Seq(Jobs)
  BY <1>1, <1>2, AppendTyped DEF AgentTypeOK
<1> QED
  BY <1>3 DEF Commands, Happens, DockerTypeOK, AgentTypeOK

LEMMA RequestTypes ==
    ASSUME TypeOK, Requests
    PROVE  TypeOK'
<1> USE DEF TypeOK
<1>1. PICK c \in Containers : \/ RequestCreate(c) \/ RequestStart(c)
                              \/ RequestStop(c) \/ RequestDelete(c)
  BY DEF Requests
<1>2. HasRow(c) => rows[c] \in Rows
  BY DEF HasRow
<1>3. HasRow(c) => rows[c].id \in BOOLEAN
  BY <1>2 DEF Rows
<1>4. ASSUME HasRow(c), NEW state \in RowStates, SetRow(c, state)
      PROVE  rows' \in [Containers -> Rows \cup {NoRow}]
  <2>1. [rows[c] EXCEPT !.state = state] \in Rows
    BY <1>2, <1>4 DEF Rows
  <2> QED
    BY <1>4, <2>1 DEF SetRow
<1>5. ASSUME NEW yes \in BOOLEAN, Holds(c, yes)
      PROVE  held' \in [Containers -> BOOLEAN]
  BY <1>5 DEF Holds
<1>6. CASE RequestCreate(c)
  <2>1. [state |-> "starting", id |-> FALSE] \in Rows
    BY DEF Rows, RowStates
  <2>2. rows' \in [Containers -> Rows \cup {NoRow}]
    BY <1>6, <2>1 DEF RequestCreate
  <2>3. Commands("create", c, FALSE) /\ Holds(c, TRUE)
    BY <1>6 DEF RequestCreate
  <2> QED
    BY <1>5, <2>2, <2>3, CommandsTyped
<1>7. CASE RequestStart(c)
  <2>1. HasRow(c) /\ Commands("start", c, rows[c].id) /\ SetRow(c, "starting") /\ Holds(c, TRUE)
    BY <1>7 DEF RequestStart
  <2> QED
    BY <1>3, <1>4, <1>5, <2>1, CommandsTyped DEF RowStates
<1>8. CASE RequestStop(c)
  <2>1. HasRow(c) /\ Commands("stop", c, rows[c].id) /\ SetRow(c, "stopping") /\ Holds(c, FALSE)
    BY <1>8 DEF RequestStop
  <2> QED
    BY <1>3, <1>4, <1>5, <2>1, CommandsTyped DEF RowStates
<1>9. CASE RequestDelete(c)
  <2>1. HasRow(c) /\ Commands("remove", c, rows[c].id) /\ Holds(c, FALSE)
    BY <1>9 DEF RequestDelete
  <2>2. rows' \in [Containers -> Rows \cup {NoRow}]
    BY <1>9 DEF RequestDelete
  <2> QED
    BY <1>3, <1>5, <2>1, <2>2, CommandsTyped
<1> QED
  BY <1>1, <1>6, <1>7, <1>8, <1>9

LEMMA FailureTypes ==
    ASSUME TypeOK, Failures
    PROVE  TypeOK'
<1> USE DEF TypeOK
<1>1. PICK c \in Containers : \/ CreateFails(c) \/ StartFails(c)
                              \/ StopFails(c) \/ RollsBack(c)
  BY DEF Failures
<1>2. HasRow(c) => rows[c] \in Rows /\ rows[c].state \in RowStates
  BY DEF HasRow, Rows
<1>3. ASSUME HasRow(c), NEW state \in RowStates, SetRow(c, state)
      PROVE  rows' \in [Containers -> Rows \cup {NoRow}]
  <2>1. [rows[c] EXCEPT !.state = state] \in Rows
    BY <1>2, <1>3 DEF Rows
  <2> QED
    BY <1>3, <2>1 DEF SetRow
<1>4. ASSUME NEW yes \in BOOLEAN, Holds(c, yes)
      PROVE  held' \in [Containers -> BOOLEAN]
  BY <1>4 DEF Holds
<1>5. ASSUME Fails(c)
      PROVE  /\ AgentTypeOK' /\ DockerTypeOK' /\ astray' \subseteq Containers
             /\ session' \in BOOLEAN /\ crashed' \in BOOLEAN
  BY <1>5 DEF Fails, Happens, AgentTypeOK, DockerTypeOK, agentVars
<1>6. ASSUME HasRow(c), NEW frees \in BOOLEAN, Owes(c, frees)
      PROVE  undo' \in [Containers -> Undos]
  <2>1. [to |-> rows[c].state, frees |-> frees] \in Undos
    BY <1>2, <1>6 DEF Undos
  <2> QED
    BY <1>6, <2>1 DEF Owes
<1>7. CASE CreateFails(c)
  <2>1. [state |-> "starting", id |-> FALSE] \in Rows
    BY DEF Rows, RowStates
  <2>2. rows' \in [Containers -> Rows \cup {NoRow}] /\ UNCHANGED undo /\ Fails(c)
    BY <1>7, <2>1 DEF CreateFails
  <2>3. held' \in [Containers -> BOOLEAN]
    BY <1>4, <1>7 DEF CreateFails
  <2> QED
    BY <1>5, <2>2, <2>3
<1>8. CASE StartFails(c)
  <2>1. HasRow(c) /\ Owes(c, TRUE) /\ SetRow(c, "starting") /\ Holds(c, TRUE) /\ Fails(c)
    BY <1>8 DEF StartFails
  <2> QED
    BY <1>3, <1>4, <1>5, <1>6, <2>1 DEF RowStates
<1>9. CASE StopFails(c)
  <2>1. HasRow(c) /\ Owes(c, FALSE) /\ SetRow(c, "stopping") /\ UNCHANGED held /\ Fails(c)
    BY <1>9 DEF StopFails
  <2> QED
    BY <1>3, <1>5, <1>6, <2>1 DEF RowStates
<1>10. CASE RollsBack(c)
  <2>1. /\ undo[c] # NoUndo /\ undo' = [undo EXCEPT ![c] = NoUndo]
        /\ UNCHANGED <<agentVars, session, crashed, astray>> /\ UNCHANGED dockerVars
    BY <1>10 DEF RollsBack
  <2>2. undo[c].to \in RowStates
    BY <2>1 DEF Undos
  <2>3. undo' \in [Containers -> Undos]
    BY <2>1 DEF Undos
  <2>4. AgentTypeOK' /\ DockerTypeOK'
    BY <2>1 DEF AgentTypeOK, DockerTypeOK, agentVars, dockerVars
  <2>5. rows' \in [Containers -> Rows \cup {NoRow}]
    BY <1>3, <1>10, <2>2 DEF RollsBack
  <2>6. (held[c] /\ ~undo[c].frees) \in BOOLEAN
    OBVIOUS
  <2>7. held' \in [Containers -> BOOLEAN]
    BY <1>4, <1>10, <2>6 DEF RollsBack
  <2> QED
    BY <2>1, <2>3, <2>4, <2>5, <2>7
<1> QED
  BY <1>1, <1>7, <1>8, <1>9, <1>10

LEMMA SessionTypes ==
    ASSUME TypeOK, HandleMessage \/ MasterLeaves \/ MasterCrash \/ Connect
    PROVE  TypeOK'
<1> USE DEF TypeOK
<1>0. EventsOff \in [at : {"off", "closed", "open"}, next : Nat, last : Nat]
      /\ [EventsOff EXCEPT !.at = "closed"] \in [at : {"off", "closed", "open"}, next : Nat, last : Nat]
  BY DEF EventsOff
<1>1. CASE HandleMessage
  <2>1. up \in Seq(Messages) /\ up # <<>>
    BY <1>1 DEF HandleMessage, AgentTypeOK
  <2>2. Head(up) \in Messages /\ Tail(up) \in Seq(Messages)
    BY <2>1, TailTyped
  <2>3. /\ AgentTypeOK' /\ DockerTypeOK' /\ session' \in BOOLEAN /\ crashed' \in BOOLEAN
        /\ UNCHANGED <<undo, astray>>
    BY <1>1, <2>2 DEF HandleMessage, AgentTypeOK, DockerTypeOK, dockerVars
  <2> DEFINE m == Head(up)
  <2>4. m.c \in Containers /\ m.state \in RowStates /\ m.id \in BOOLEAN
    BY <2>2 DEF Messages, RowStates
  <2>5. CASE HasRow(m.c)
    <3>1. rows[m.c] \in Rows
      BY <2>4, <2>5 DEF HasRow
    <3>2. UpdateContainerState(rows[m.c], m.state, m.id) \in Rows
      BY <2>4, <3>1 DEF UpdateContainerState, Rows
    <3>3. rows' = [rows EXCEPT ![m.c] = UpdateContainerState(rows[m.c], m.state, m.id)]
          /\ held' = [held EXCEPT ![m.c] = held[m.c] /\ ~FreesDevices(m)]
      BY <1>1, <2>4, <2>5 DEF HandleMessage, Holds
    <3>4. rows' \in [Containers -> Rows \cup {NoRow}]
      BY <2>4, <3>2, <3>3
    <3>5. (held[m.c] /\ ~FreesDevices(m)) \in BOOLEAN
      OBVIOUS
    <3>6. held' \in [Containers -> BOOLEAN]
      BY <2>4, <3>3, <3>5
    <3> QED
      BY <2>3, <3>4, <3>6
  <2>6. CASE ~HasRow(m.c)
    BY <1>1, <2>3, <2>6 DEF HandleMessage
  <2> QED
    BY <2>5, <2>6
<1>2. CASE MasterLeaves
  <2> DEFINE swept == {c \in Containers : Swept(c)}
  <2>1. \A c \in swept : [rows[c] EXCEPT !.state = "error"] \in Rows
    BY DEF Swept, Transient, HasRow, Rows, RowStates
  <2>2. PICK marked \in SUBSET swept, freed \in SUBSET swept :
           /\ rows' = [c \in Containers |->
                         IF c \in marked THEN [rows[c] EXCEPT !.state = "error"] ELSE rows[c]]
           /\ held' = [c \in Containers |-> held[c] /\ c \notin freed]
           /\ astray' = astray \cup (swept \ marked)
    BY <1>2 DEF MasterLeaves
  <2>3. rows' \in [Containers -> Rows \cup {NoRow}]
    BY <2>1, <2>2
  <2>4. held' \in [Containers -> BOOLEAN]
    BY <2>2
  <2>5. astray' \subseteq Containers
    BY <2>2
  <2>6. up' \in Seq(Messages)
    BY <1>2, EmptyTyped DEF MasterLeaves
  <2> QED
    BY <1>2, <2>3, <2>4, <2>5, <2>6 DEF MasterLeaves, AgentTypeOK, DockerTypeOK, dockerVars
<1>3. CASE MasterCrash
  <2>1. up' \in Seq(Messages)
    BY <1>3, EmptyTyped DEF MasterCrash
  <2>2. PollOff \in [on : BOOLEAN, cache : [Containers -> {"none", "running", "exited"}],
                     pending : SUBSET Messages]
    BY DEF PollOff
  <2> QED
    <3>1. events' = EventsOff /\ poll' = PollOff /\ link' = "broken"
          /\ UNCHANGED <<docker, log, agent, jobs, rows, held>>
          /\ session' = FALSE /\ crashed' = TRUE /\ UNCHANGED astray
          /\ undo' \in [Containers -> Undos]
      BY <1>3 DEF MasterCrash, LoopsEnd, Undos
    <3>2. acts' \in Nat
      BY <1>3 DEF MasterCrash, Happens, DockerTypeOK
    <3>3. DockerTypeOK'
      BY <3>1, <3>2 DEF DockerTypeOK
    <3>4. AgentTypeOK'
      BY <1>0, <2>1, <2>2, <3>1 DEF AgentTypeOK
    <3> QED
      BY <3>1, <3>3, <3>4
<1>4. CASE Connect
  <2>1. PollOff \in [on : BOOLEAN, cache : [Containers -> {"none", "running", "exited"}],
                     pending : SUBSET Messages]
    BY DEF PollOff
  <2>2. PollEnabled \in BOOLEAN
    BY AgentAssumption
  <2>3. [PollOff EXCEPT !.on = PollEnabled]
          \in [on : BOOLEAN, cache : [Containers -> {"none", "running", "exited"}],
               pending : SUBSET Messages]
    BY <2>1, <2>2
  <2> QED
    BY <1>0, <1>4, <2>3 DEF Connect, AgentConnects, AgentTypeOK, DockerTypeOK, dockerVars
<1> QED
  BY <1>1, <1>2, <1>3, <1>4

LEMMA JobTypes ==
    ASSUME TypeOK, NEW j \in DOMAIN jobs, Job(j)
    PROVE  TypeOK'
<1> USE DEF TypeOK
<1>1. Receive(j) \/ JobStep(j)
  BY DEF Job
<1>2. jobs' \in Seq(Jobs)
  BY <1>1, JobActs, JobMoves
<1>3. docker' \in [Containers -> DockerStates] /\ log' \in Seq(Events)
  <2>1. CASE NoDockerCall
    BY <2>1 DEF NoDockerCall, DockerTypeOK
  <2> QED
    BY <1>1, <2>1, JobActs, DaemonTypes
<1>4. up' \in Seq(Messages)
  <2>1. CASE UNCHANGED up
    BY <2>1 DEF AgentTypeOK
  <2> QED
    BY <1>1, <2>1, JobActs, AnswerTyped
<1>5. UNCHANGED <<link, agent, events, poll, acts>>
  BY <1>1, JobActs
<1> QED
  BY <1>2, <1>3, <1>4, <1>5 DEF Job, AgentTypeOK, DockerTypeOK, masterVars

LEMMA LoopTypes ==
    ASSUME TypeOK, Loops
    PROVE  TypeOK'
<1> USE DEF TypeOK
<1>0. UNCHANGED masterVars
  BY DEF Loops
<1>1. CASE Subscribe
  <2>1. PICK i \in FirstOnStream(events.last) :
            events' = [events EXCEPT !.at = "open", !.next = i]
    BY <1>1 DEF Subscribe
  <2>2. Len(log) \in Nat
    BY DEF DockerTypeOK
  <2>3. i \in Nat
    BY <2>1, <2>2 DEF FirstOnStream, AgentTypeOK
  <2>4. events' \in [at : {"off", "closed", "open"}, next : Nat, last : Nat]
    BY <2>1, <2>3 DEF AgentTypeOK
  <2> QED
    BY <1>0, <1>1, <2>4 DEF Subscribe, EventsOnly, AgentTypeOK, DockerTypeOK, masterVars
<1>2. CASE StreamCloses
  <2>1. events' = [events EXCEPT !.at = "closed", !.next = 0]
    BY <1>2 DEF StreamCloses
  <2>2. events' \in [at : {"off", "closed", "open"}, next : Nat, last : Nat]
    BY <2>1 DEF AgentTypeOK
  <2>3. acts' \in Nat
    BY <1>2 DEF StreamCloses, Happens, DockerTypeOK
  <2> QED
    BY <1>0, <1>2, <2>2, <2>3 DEF StreamCloses, EventsOnly, AgentTypeOK, DockerTypeOK, masterVars
<1>3. CASE Deliver
  <2> DEFINE e == log[events.next]
  <2> DEFINE m == [kind |-> e.action, c |-> e.c, state |-> EventState(e.action), id |-> TRUE]
  <2>1. e \in Events
    BY <1>3, ElementTyped DEF Deliver, DockerTypeOK
  <2>2. m \in Messages
    BY <2>1 DEF Events, Messages, EventState
  <2>3. Sends(m)
    BY <1>3 DEF Deliver
  <2>4. up' \in Seq(Messages)
    BY <2>2, <2>3, SendsTyped
  <2>5. events' = [events EXCEPT !.next = events.next + 1, !.last = events.next]
    BY <1>3 DEF Deliver
  <2>6. events' \in [at : {"off", "closed", "open"}, next : Nat, last : Nat]
    <3>1. events.next + 1 \in Nat /\ events.next \in Nat
      BY DEF AgentTypeOK
    <3> QED
      BY <2>5, <3>1 DEF AgentTypeOK
  <2> QED
    BY <1>0, <1>3, <2>4, <2>6 DEF Deliver, EventsOnly, AgentTypeOK, DockerTypeOK, masterVars
<1>4. CASE PollTick
  <2>1. \A c \in Containers : Listed(c) \in {"none", "running", "exited"}
    BY DEF Listed, ListAgent, OnHost, DockerTypeOK, DockerStates
  <2>2. \A c \in Containers : PollReports(c, poll.cache[c], Listed(c)) \subseteq Messages
    <3> TAKE c \in Containers
    <3> DEFINE now == Listed(c)
    <3>1. CASE now = "none"
      <4>1. [kind |-> "destroy", c |-> c, state |-> "exited", id |-> TRUE] \in Messages
        BY DEF Messages
      <4> QED
        BY <3>1, <4>1 DEF PollReports
    <3>2. CASE now \in {"running", "exited"}
      <4>1. [kind |-> "poll", c |-> c, state |-> now, id |-> TRUE] \in Messages
        BY <3>2 DEF Messages
      <4> QED
        BY <3>2, <4>1 DEF PollReports
    <3> QED
      BY <2>1, <3>1, <3>2
  <2> DEFINE now == [c \in Containers |-> Listed(c)]
  <2> DEFINE news == UNION {PollReports(c, poll.cache[c], Listed(c)) : c \in Containers}
  <2>3. now \in [Containers -> {"none", "running", "exited"}] /\ news \in SUBSET Messages
    BY <2>1, <2>2
  <2>4. poll' = [poll EXCEPT !.cache = now, !.pending = news]
    BY <1>4 DEF PollTick
  <2>5. poll' \in [on : BOOLEAN, cache : [Containers -> {"none", "running", "exited"}],
                  pending : SUBSET Messages]
    BY <2>3, <2>4 DEF AgentTypeOK
  <2> QED
    BY <1>0, <1>4, <2>5 DEF PollTick, PollOnly, AgentTypeOK, DockerTypeOK, masterVars, dockerVars
<1>5. CASE PollSend
  <2>1. PICK m \in poll.pending :
            Sends(m) /\ poll' = [poll EXCEPT !.pending = @ \ {m}] /\ PollOnly
    BY <1>5 DEF PollSend
  <2>2. m \in Messages
    BY DEF AgentTypeOK
  <2>3. up' \in Seq(Messages)
    BY <2>1, <2>2, SendsTyped
  <2> QED
    BY <1>0, <2>1, <2>3 DEF PollOnly, AgentTypeOK, DockerTypeOK, masterVars, dockerVars
<1> QED
  BY <1>1, <1>2, <1>3, <1>4, <1>5 DEF Loops

LEMMA EndTypes ==
    ASSUME TypeOK, Leaves \/ Breaks
    PROVE  TypeOK'
<1> USE DEF TypeOK
<1>1. CASE Leaves
  <2> DEFINE r == [j \in DOMAIN jobs |->
                      IF jobs[j].at = "sent" THEN [jobs[j] EXCEPT !.at = "lost"] ELSE jobs[j]]
  <2>1. \A j \in DOMAIN jobs : jobs[j] \in Jobs
    BY ElementTyped DEF AgentTypeOK
  <2>2. \A j \in DOMAIN jobs : r[j] \in Jobs
    BY <2>1 DEF Jobs, Steps
  <2>3. r \in Seq(Jobs)
    BY <2>2, MapTyped DEF AgentTypeOK
  <2>4. jobs' \in Seq(Jobs)
    BY <1>1, <2>3 DEF Leaves, AgentLeaves
  <2> QED
    BY <1>1, <2>4 DEF Leaves, AgentLeaves, AgentTypeOK, DockerTypeOK, dockerVars, masterVars
<1>2. CASE LinkBreaks /\ UNCHANGED <<docker, log, masterVars>>
  BY <1>2 DEF LinkBreaks, Happens, LoopsEnd, EventsOff, PollOff, AgentTypeOK, DockerTypeOK, masterVars
<1>3. CASE AgentCrashes /\ UNCHANGED <<docker, log, masterVars>>
  <2> DEFINE r == [j \in DOMAIN jobs |->
                      IF jobs[j].at = "done" THEN jobs[j] ELSE [jobs[j] EXCEPT !.at = "lost"]]
  <2>1. \A j \in DOMAIN jobs : jobs[j] \in Jobs
    BY ElementTyped DEF AgentTypeOK
  <2>2. \A j \in DOMAIN jobs : r[j] \in Jobs
    BY <2>1 DEF Jobs, Steps
  <2>3. r \in Seq(Jobs)
    BY <2>2, MapTyped DEF AgentTypeOK
  <2>4. jobs' \in Seq(Jobs)
    BY <1>3, <2>3 DEF AgentCrashes
  <2> QED
    BY <1>3, <2>4 DEF AgentCrashes, Happens, LoopsEnd, EventsOff, PollOff, AgentTypeOK,
                      DockerTypeOK, masterVars
<1> QED
  BY <1>1, <1>2, <1>3 DEF Breaks

LEMMA HostTypes ==
    ASSUME TypeOK, Host
    PROVE  TypeOK'
<1> USE DEF TypeOK
<1>1. PICK c \in Containers :
          (ContainerExits(c) \/ HostActs(c)) /\ UNCHANGED <<agentVars, masterVars>>
  BY DEF Host
<1>2. docker' \in [Containers -> DockerStates] /\ log' \in Seq(Events)
  BY <1>1, DaemonTypes DEF ContainerExits, HostActs
<1>3. acts' \in Nat
  BY <1>1 DEF ContainerExits, HostActs, Happens, DockerTypeOK
<1> QED
  BY <1>1, <1>2, <1>3 DEF AgentTypeOK, DockerTypeOK, agentVars, masterVars

LEMMA Types ==
    ASSUME TypeOK, [Next]_vars
    PROVE  TypeOK'
<1>1. CASE UNCHANGED vars
  BY <1>1 DEF vars, dockerVars, agentVars, masterVars, TypeOK, DockerTypeOK, AgentTypeOK
<1> QED
  BY <1>1, RequestTypes, FailureTypes, SessionTypes, JobTypes, LoopTypes, EndTypes, HostTypes DEF Next

LEMMA InitTypes == Init => TypeOK
<1> SUFFICES ASSUME Init
             PROVE  TypeOK
  OBVIOUS
<1>1. DockerTypeOK
  BY EmptyTyped DEF Init, DockerInit, DockerTypeOK, DockerStates
<1>2. poll \in [on : BOOLEAN, cache : [Containers -> {"none", "running", "exited"}],
                pending : SUBSET Messages]
  BY DEF Init, AgentInit, PollOff
<1>3. up \in Seq(Messages) /\ jobs \in Seq(Jobs)
  BY EmptyTyped DEF Init, AgentInit
<1>4. AgentTypeOK
  BY <1>2, <1>3 DEF Init, AgentInit, AgentTypeOK, EventsOff
<1> QED
  BY <1>1, <1>4 DEF Init, TypeOK, Undos

\* Cluster.TypeOK: the daemon, the agent and the master's rows keep their types.
THEOREM ClusterTypeCorrect == Spec => []TypeOK
BY InitTypes, Types, PTL DEF Spec

-----------------------------------------------------------------------------
(***************************************************************************)
(* The master does not forget a docker id.                                 *)
(***************************************************************************)
IdKept(c) == HasRow(c) /\ rows[c].id /\ rows'[c] # NoRow => rows'[c].id

LEMMA IdKeptStep ==
    ASSUME TypeOK, [Next]_vars, NEW c \in Containers
    PROVE  IdKept(c)
<1>0. HasRow(c) => rows[c] \in Rows
  BY DEF HasRow, TypeOK
<1>1. CASE UNCHANGED rows
  BY <1>1 DEF IdKept
<1>2. CASE Requests
  <2>1. PICK d \in Containers : \/ RequestCreate(d) \/ RequestStart(d)
                                \/ RequestStop(d) \/ RequestDelete(d)
    BY <1>2 DEF Requests
  <2>2. CASE RequestCreate(d) \/ RequestDelete(d)
    BY <2>2 DEF RequestCreate, RequestDelete, Fresh, IdKept, HasRow, TypeOK
  <2>3. ASSUME NEW state, SetRow(d, state)
        PROVE  IdKept(c)
    BY <1>0, <2>3 DEF SetRow, IdKept, HasRow, TypeOK, Rows
  <2> QED
    BY <2>1, <2>2, <2>3 DEF RequestStart, RequestStop
<1>3. CASE HandleMessage
  <2> DEFINE m == Head(up)
  <2>1. CASE HasRow(m.c)
    <3>1. rows' = [rows EXCEPT ![m.c] = UpdateContainerState(rows[m.c], m.state, m.id)]
      BY <1>3, <2>1 DEF HandleMessage, TypeOK
    <3> QED
      BY <3>1 DEF IdKept, HasRow, UpdateContainerState, TypeOK
  <2>2. CASE ~HasRow(m.c)
    BY <1>1, <1>3, <2>2 DEF HandleMessage
  <2> QED
    BY <2>1, <2>2
<1>4. CASE MasterLeaves
  <2>1. rows'[c] = [rows[c] EXCEPT !.state = "error"] \/ rows'[c] = rows[c]
    BY <1>4 DEF MasterLeaves
  <2> QED
    BY <1>0, <2>1 DEF IdKept, Rows
<1>5. CASE MasterCrash \/ Connect \/ Loops \/ Leaves \/ Breaks \/ Host \/ UNCHANGED vars
  BY <1>1, <1>5 DEF MasterCrash, Connect, Loops, Leaves, Breaks, Host, vars, masterVars
<1>6. CASE \E j \in DOMAIN jobs : Job(j)
  BY <1>1, <1>6 DEF Job, masterVars
<1>7. CASE Failures
  <2>1. PICK d \in Containers : \/ CreateFails(d) \/ StartFails(d)
                                \/ StopFails(d) \/ RollsBack(d)
    BY <1>7 DEF Failures
  <2>2. CASE CreateFails(d)
    BY <2>2 DEF CreateFails, Fresh, IdKept, HasRow, TypeOK
  <2>3. ASSUME NEW state, SetRow(d, state)
        PROVE  IdKept(c)
    BY <1>0, <2>3 DEF SetRow, IdKept, HasRow, TypeOK, Rows
  <2> QED
    BY <1>1, <2>1, <2>2, <2>3 DEF StartFails, StopFails, RollsBack
<1> QED
  BY <1>2, <1>3, <1>4, <1>5, <1>6, <1>7 DEF Next

\* Cluster.DockerIdKept: what the master has learned of a container's docker id, the
\* key to stop or remove it, survives the messages that carry none.
THEOREM ClusterDockerIdKept == Spec => DockerIdKept
<1>1. TypeOK /\ [Next]_vars => \A c \in Containers : IdKept(c)
  BY IdKeptStep
<1>2. TypeOK /\ [Next]_vars
        => [\A c \in Containers : HasRow(c) /\ rows[c].id /\ rows'[c] # NoRow => rows'[c].id]_vars
  BY <1>1 DEF IdKept
<1> QED
  BY <1>2, ClusterTypeCorrect, PTL DEF Spec, DockerIdKept

-----------------------------------------------------------------------------
(***************************************************************************)
(* The events loop skips nothing.  What makes the bound on a step inductive *)
(* is that an open stream is never more than one event past the last one   *)
(* delivered.                                                              *)
(***************************************************************************)
StreamPosition ==
    events.at = "open" /\ events.last > 0 => events.next <= events.last + 1

LEMMA EventsChange ==
    ASSUME [Next]_vars
    PROVE  \/ UNCHANGED events
           \/ events' = EventsOff \/ events' = [EventsOff EXCEPT !.at = "closed"]
           \/ Subscribe \/ StreamCloses \/ Deliver
<1>1. CASE Requests
  BY <1>1 DEF Requests, RequestCreate, RequestStart, RequestStop, RequestDelete, Commands
<1>2. CASE HandleMessage \/ MasterLeaves
  BY <1>2 DEF HandleMessage, MasterLeaves
<1>3. CASE MasterCrash
  BY <1>3 DEF MasterCrash, LoopsEnd
<1>4. CASE Connect
  BY <1>4 DEF Connect, AgentConnects
<1>5. CASE \E j \in DOMAIN jobs : Job(j)
  BY <1>5 DEF Job, Receive, JobStep, CreateStep, StartStep, StopStep, RemoveStep, Answer, JobOnly
<1>6. CASE Loops
  BY <1>6 DEF Loops, PollTick, PollSend, PollOnly
<1>7. CASE Leaves \/ Breaks
  BY <1>7 DEF Leaves, AgentLeaves, Breaks, LinkBreaks, AgentCrashes, LoopsEnd
<1>8. CASE Host \/ UNCHANGED vars
  BY <1>8 DEF Host, agentVars, vars
<1>9. CASE Failures
  BY <1>9 DEF Failures, CreateFails, StartFails, StopFails, RollsBack, Fails, agentVars
<1> QED
  BY <1>1, <1>2, <1>3, <1>4, <1>5, <1>6, <1>7, <1>8, <1>9 DEF Next

LEMMA EventsStep ==
    ASSUME TypeOK, StreamPosition, [Next]_vars
    PROVE  StreamPosition' /\ (events.last > 0 => events'.last <= events.last + 1)
<1>0. events \in [at : {"off", "closed", "open"}, next : Nat, last : Nat]
  BY DEF TypeOK, AgentTypeOK
<1>1. CASE UNCHANGED events
  BY <1>0, <1>1 DEF StreamPosition
<1>2. CASE events' = EventsOff \/ events' = [EventsOff EXCEPT !.at = "closed"]
  <2>1. events'.last = 0
    BY <1>2 DEF EventsOff
  <2> QED
    BY <1>0, <2>1 DEF StreamPosition
<1>3. CASE Subscribe
  <2>1. PICK i \in FirstOnStream(events.last) :
            events' = [events EXCEPT !.at = "open", !.next = i]
    BY <1>3 DEF Subscribe
  <2>2. events.last > 0 => i \in 1..events.last
    BY <1>0, <2>1 DEF FirstOnStream
  <2> QED
    BY <1>0, <2>1, <2>2 DEF StreamPosition
<1>4. CASE StreamCloses
  BY <1>0, <1>4 DEF StreamCloses, StreamPosition
<1>5. CASE Deliver
  <2>1. events' = [events EXCEPT !.next = events.next + 1, !.last = events.next]
        /\ events.at = "open"
    BY <1>5 DEF Deliver
  <2>2. events'.next = events'.last + 1 /\ events'.last = events.next
    BY <1>0, <2>1
  <2> QED
    BY <1>0, <2>1, <2>2 DEF StreamPosition
<1> QED
  BY <1>1, <1>2, <1>3, <1>4, <1>5, EventsChange

\* Cluster.EventsWithoutGaps: however often the daemon closes the stream, a
\* connection's events loop goes at most one event further with each message.
THEOREM ClusterEventsWithoutGaps == Spec => EventsWithoutGaps
<1>1. Init => StreamPosition
  BY DEF Init, AgentInit, EventsOff, StreamPosition
<1>2. TypeOK /\ StreamPosition /\ [Next]_vars => StreamPosition'
  BY EventsStep
<1>3. TypeOK /\ StreamPosition /\ [Next]_vars
        => [link' = "up" /\ link = "up" /\ events.last > 0 => events'.last <= events.last + 1]_vars
  BY EventsStep
<1> QED
  BY <1>1, <1>2, <1>3, ClusterTypeCorrect, PTL DEF Spec, EventsWithoutGaps

-----------------------------------------------------------------------------
(***************************************************************************)
(* A delete's answer tells the truth.  The property is inductive: the job  *)
(* answers without an error in the step that removes the container.        *)
(***************************************************************************)
Truthful(job) ==
    job.op = "remove" /\ job.at \in {"answer", "done"} /\ job.ok => docker[job.c] = "removed"

LEMMA DeleteJobStep ==
    ASSUME TypeOK, AnsweredDeleteIsFinal, NEW j \in DOMAIN jobs, Job(j)
    PROVE  AnsweredDeleteIsFinal'
<1>0. DockerTypeOK /\ AgentTypeOK /\ (Receive(j) \/ JobStep(j))
  BY DEF TypeOK, Job
<1>1. /\ DOMAIN jobs' = DOMAIN jobs
      /\ \A i \in DOMAIN jobs : i # j => jobs'[i] = jobs[i]
      /\ jobs'[j].op = jobs[j].op /\ jobs'[j].c = jobs[j].c
  BY <1>0, JobActs, JobMoves
<1>2. \A i \in DOMAIN jobs : jobs[i] \in Jobs /\ jobs[i].c \in Containers
  BY <1>0, JobTyped
<1>3. \A d \in Containers : docker[d] = "removed" => docker'[d] = "removed"
  <2>1. CASE NoDockerCall
    BY <2>1 DEF NoDockerCall
  <2> QED
    BY <1>0, <2>1, JobActs, RemovedStays
<1>4. \A i \in DOMAIN jobs : i # j => Truthful(jobs[i])'
  BY <1>1, <1>2, <1>3 DEF AnsweredDeleteIsFinal, Truthful
<1>5. Truthful(jobs[j])'
  <2>1. SUFFICES ASSUME jobs[j].op = "remove"
                 PROVE  Truthful(jobs[j])'
    BY <1>1 DEF Truthful
  <2>2. ASSUME NEW step \in Steps, JobGoes(j, step), step # "answer", step # "done"
        PROVE  Truthful(jobs[j])'
    BY <1>0, <2>2, JobMoves DEF Truthful
  <2>3. ASSUME JobAnswers(j, FALSE)
        PROVE  Truthful(jobs[j])'
    BY <1>0, <2>3, JobMoves DEF Truthful, Steps
  <2>4. CASE Receive(j)
    BY <2>2, <2>4 DEF Receive, Steps
  <2>5. CASE CreateStep(j) \/ StartStep(j)
    BY <2>1, <2>5 DEF CreateStep, StartStep
  <2>6. CASE StopStep(j)
    BY <2>1, <2>2, <2>3, <2>6 DEF StopStep, AfterStop, Steps
  <2>7. CASE RemoveStep(j)
    <3>1. CASE DockerRemove(jobs[j].c)
      <4>1. docker'[jobs[j].c] = "removed"
        BY <1>0, <1>2, <3>1 DEF DockerRemove, Becomes, DockerTypeOK
      <4> QED
        BY <1>1, <4>1 DEF Truthful
    <3> QED
      BY <2>3, <2>7, <3>1 DEF RemoveStep
  <2>8. CASE Answer(j)
    <3>1. jobs[j].at = "answer" /\ JobGoes(j, "done")
      BY <2>8 DEF Answer
    <3>2. jobs'[j].ok = jobs[j].ok
      BY <1>0, <3>1, JobMoves DEF Steps
    <3> QED
      BY <1>1, <1>2, <1>3, <3>1, <3>2 DEF Truthful, AnsweredDeleteIsFinal
  <2> QED
    BY <1>0, <2>4, <2>5, <2>6, <2>7, <2>8 DEF JobStep
<1> QED
  BY <1>1, <1>4, <1>5 DEF AnsweredDeleteIsFinal, Truthful

LEMMA DeleteStep ==
    ASSUME TypeOK, AnsweredDeleteIsFinal, [Next]_vars
    PROVE  AnsweredDeleteIsFinal'
<1>0. \A i \in DOMAIN jobs : jobs[i] \in Jobs /\ jobs[i].c \in Containers
  BY JobTyped DEF TypeOK
<1>1. CASE UNCHANGED <<jobs, docker>>
  BY <1>1 DEF AnsweredDeleteIsFinal
<1>2. CASE Requests
  <2>1. ASSUME NEW op, NEW c, NEW id, Commands(op, c, id)
        PROVE  AnsweredDeleteIsFinal'
    <3> DEFINE job == [op |-> op, c |-> c, id |-> id, ok |-> FALSE,
                       at |-> IF link = "up" THEN "sent" ELSE "lost"]
    <3>1. jobs' = Append(jobs, job) /\ UNCHANGED docker
      BY <2>1 DEF Commands
    <3>2. \A i \in DOMAIN jobs' : (i \in DOMAIN jobs /\ jobs'[i] = jobs[i]) \/ jobs'[i] = job
      BY <3>1 DEF TypeOK, AgentTypeOK
    <3> QED
      BY <3>1, <3>2 DEF AnsweredDeleteIsFinal
  <2> QED
    BY <1>2, <2>1 DEF Requests, RequestCreate, RequestStart, RequestStop, RequestDelete
<1>3. CASE HandleMessage \/ MasterLeaves \/ MasterCrash \/ Connect
  BY <1>1, <1>3 DEF HandleMessage, MasterLeaves, MasterCrash, Connect, AgentConnects, dockerVars
<1>4. CASE \E j \in DOMAIN jobs : Job(j)
  BY <1>4, DeleteJobStep
<1>5. CASE Loops
  BY <1>1, <1>5 DEF Loops, Subscribe, StreamCloses, Deliver, PollTick, PollSend, EventsOnly,
                    PollOnly, dockerVars
<1>6. CASE Leaves
  <2>1. /\ UNCHANGED docker
        /\ jobs' = [j \in DOMAIN jobs |->
                       IF jobs[j].at = "sent" THEN [jobs[j] EXCEPT !.at = "lost"] ELSE jobs[j]]
    BY <1>6 DEF Leaves, AgentLeaves, dockerVars
  <2> QED
    BY <1>0, <2>1 DEF AnsweredDeleteIsFinal, Jobs
<1>7. CASE Breaks
  <2>1. CASE LinkBreaks
    BY <1>1, <1>7, <2>1 DEF Breaks, LinkBreaks
  <2>2. CASE AgentCrashes
    <3>1. /\ UNCHANGED docker
          /\ jobs' = [j \in DOMAIN jobs |->
                         IF jobs[j].at = "done" THEN jobs[j] ELSE [jobs[j] EXCEPT !.at = "lost"]]
      BY <1>7, <2>2 DEF Breaks, AgentCrashes
    <3> QED
      BY <1>0, <3>1 DEF AnsweredDeleteIsFinal, Jobs
  <2> QED
    BY <1>7, <2>1, <2>2 DEF Breaks
<1>8. CASE Host
  <2>1. UNCHANGED jobs
    BY <1>8 DEF Host, agentVars
  <2>2. \A d \in Containers : docker[d] = "removed" => docker'[d] = "removed"
    BY <1>8, RemovedStays DEF Host, ContainerExits, HostActs, TypeOK
  <2> QED
    BY <1>0, <2>1, <2>2 DEF AnsweredDeleteIsFinal
<1>9. CASE Failures
  BY <1>1, <1>9 DEF Failures, CreateFails, StartFails, StopFails, RollsBack, Fails, agentVars,
                    dockerVars
<1>10. CASE UNCHANGED vars
  BY <1>1, <1>10 DEF vars, dockerVars, agentVars
<1> QED
  BY <1>2, <1>3, <1>4, <1>5, <1>6, <1>7, <1>8, <1>9, <1>10 DEF Next

\* Cluster.AnsweredDeleteIsFinal: once the agent has answered a delete without an
\* error the container is off the host, and no later step of anyone undoes it.
THEOREM ClusterAnsweredDeleteIsFinal == Spec => []AnsweredDeleteIsFinal
<1>1. Init => AnsweredDeleteIsFinal
  BY DEF Init, AgentInit, AnsweredDeleteIsFinal
<1>2. TypeOK /\ AnsweredDeleteIsFinal /\ [Next]_vars => AnsweredDeleteIsFinal'
  BY DeleteStep
<1> QED
  BY <1>1, <1>2, ClusterTypeCorrect, PTL DEF Spec
=============================================================================
