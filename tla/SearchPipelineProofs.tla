------------------------ MODULE SearchPipelineProofs ------------------------
(***************************************************************************)
(* Theorems about SearchPipeline, for every set of jobs, workers and       *)
(* connections and every value of the bounds: types, leases and attempts,  *)
(* what rows and announcements stand for, the order in which a connection  *)
(* hears its job, its verdict, and the agreement of queue and row.         *)
(***************************************************************************)
EXTENDS SearchPipeline, SequenceTheorems, FiniteSetTheorems, TLAPS

LEMMA StageTypes ==
  ASSUME NEW k \in 1 .. 3
  PROVE  /\ StageStatus[k] \in Kinds \ Terminal
         /\ StageProgress[k] \in {10, 40, 70}
<1>1. k = 1 \/ k = 2 \/ k = 3
  OBVIOUS
<1>. QED  BY <1>1 DEF StageStatus, StageProgress, Kinds, Terminal

LEMMA AfterFailureType ==
  ASSUME NEW t \in Task
  PROVE  /\ AfterFailure(t) \in Task
         /\ AfterFailure(t).state \in {"retry", "archived"}
         /\ AfterFailure(t).state = "retry" => AfterFailure(t).retried = t.retried + 1
         /\ AfterFailure(t).state = "archived" => AfterFailure(t).retried = t.retried
BY BoundsAssumption DEF Task, AfterFailure

LEMMA IdleType == Idle \in Exec
BY DEF Idle, NewRun, Exec, Modes, Points

LEMMA RowTypes ==
  ASSUME NEW r \in Row, NEW k \in 1 .. 3, NEW n \in Nat
  PROVE  /\ InStage(r, k) \in Row
         /\ Completed(r, n) \in Row
         /\ Failed(r, n) \in Row
         /\ [r EXCEPT !.params = TRUE] \in Row
         /\ PendingRow \in Row
<1>1. InStage(r, k) \in Row
  BY StageTypes DEF InStage, Row, Kinds
<1>2. Completed(r, n) \in Row /\ Failed(r, n) \in Row
  BY DEF Completed, Failed, Row, Kinds, Terminal
<1>3. [r EXCEPT !.params = TRUE] \in Row
  BY DEF Row
<1>4. PendingRow \in Row
  BY DEF PendingRow, NoRow, Row
<1>. QED  BY <1>1, <1>2, <1>3, <1>4

LEMMA OpenedType ==
  ASSUME TypeOK, NEW j \in Jobs
  PROVE  Opened(j) \in Stream
<1>1. <<>> \in Seq(Event)
  OBVIOUS
<1>2. CASE row[j].status \in Terminal
  <2>1. row[j] \in Row
    BY DEF TypeOK
  <2>2. [run |-> IF row[j].status = "completed" THEN row[j].result ELSE row[j].error,
         kind |-> row[j].status] \in Event
    BY <1>2, <2>1 DEF Event, Row, Kinds, Terminal
  <2>3. Snapshot(row[j]) \in Seq(Event)
    BY <2>2 DEF Snapshot
  <2>. QED  BY <1>1, <1>2, <2>3 DEF Opened, NoStream, Stream
<1>3. CASE row[j].status \notin Terminal
  BY <1>1, <1>3 DEF Opened, NoStream, Stream
<1>. QED  BY <1>2, <1>3

LEMMA RelayedType ==
  ASSUME NEW st \in Stream, st.inbox # <<>>
  PROVE  /\ Head(st.inbox) \in Event
         /\ Relayed(st) \in Stream
<1>1. st.inbox \in Seq(Event) /\ st.frames \in Seq(Event)
  BY DEF Stream
<1>2. Head(st.inbox) \in Event /\ Tail(st.inbox) \in Seq(Event)
  BY <1>1
<1>3. Append(st.frames, Head(st.inbox)) \in Seq(Event)
  BY <1>1, <1>2
<1>. QED  BY <1>2, <1>3 DEF Relayed, Stream

LEMMA PublishType ==
  ASSUME TypeOK, NEW w \in Workers, NEW kind \in Kinds, Publish(w, kind)
  PROVE  /\ stream' \in [Streams -> Stream]
         /\ faults' \in 0 .. MaxFaults
<1>. DEFINE e == [run |-> exec[w].run, kind |-> kind]
<1>1. e \in Event
  BY DEF TypeOK, Exec, Event
<1>2. ASSUME NEW reached, Deliver(reached, e)
      PROVE  stream' \in [Streams -> Stream]
  <2>1. \A s \in Streams : [stream[s] EXCEPT !.inbox = Append(@, e)] \in Stream
    <3>1. TAKE s \in Streams
    <3>2. stream[s] \in Stream /\ Append(stream[s].inbox, e) \in Seq(Event)
      BY <1>1 DEF TypeOK, Stream
    <3>. QED  BY <3>2 DEF Stream
  <2>. HIDE DEF e
  <2>. QED  BY <1>2, <2>1 DEF Deliver, TypeOK
<1>3. stream' \in [Streams -> Stream]
  BY <1>2 DEF Publish
<1>4. faults' \in 0 .. MaxFaults
  <2>1. Fault \/ NoFault
    BY DEF Publish
  <2>. QED  BY <2>1, BoundsAssumption DEF Fault, NoFault, TypeOK
<1>. QED  BY <1>3, <1>4

LEMMA TypeStep == TypeOK /\ [Next]_vars => TypeOK'
<1>. SUFFICES ASSUME TypeOK, [Next]_vars PROVE TypeOK'
  OBVIOUS
<1>. USE BoundsAssumption
<1>1. ASSUME NEW j \in Jobs,
             CreateRow(j) \/ Enqueue(j) \/ EnqueueFails(j) \/ ApiCrash(j)
      PROVE  TypeOK'
  <2>1. PendingRow \in Row
    BY DEF PendingRow, NoRow, Row
  <2>2. [task[j] EXCEPT !.state = "pending"] \in Task
    BY DEF TypeOK, Task
  <2>3. request' \in [Jobs -> Requests]
    BY <1>1 DEF CreateRow, Enqueue, EnqueueFails, ApiCrash, TypeOK, Requests
  <2>4. row' \in [Jobs -> Row] /\ task' \in [Jobs -> Task]
    BY <1>1, <2>1, <2>2 DEF CreateRow, Enqueue, EnqueueFails, ApiCrash, TypeOK
  <2>5. faults' \in 0 .. MaxFaults
    BY <1>1 DEF CreateRow, Enqueue, EnqueueFails, ApiCrash, Fault, TypeOK
  <2>6. UNCHANGED <<exec, stream, runs, handed>>
    BY <1>1 DEF CreateRow, Enqueue, EnqueueFails, ApiCrash
  <2>. QED  BY <2>3, <2>4, <2>5, <2>6 DEF TypeOK
<1>2. ASSUME NEW j \in Jobs, ForwardRetry(j) \/ Recover(j)
      PROVE  TypeOK'
  <2>0. task[j] \in Task
    BY DEF TypeOK
  <2>1. [task[j] EXCEPT !.state = "pending"] \in Task /\ AfterFailure(task[j]) \in Task
    <3>1. [task[j] EXCEPT !.state = "pending"] \in Task
      BY <2>0 DEF Task
    <3>. QED  BY <2>0, <3>1, AfterFailureType
  <2>2. task' \in [Jobs -> Task]
    BY <1>2, <2>1 DEF ForwardRetry, Recover, TypeOK
  <2>. QED  BY <1>2, <2>2 DEF ForwardRetry, Recover, TypeOK
<1>3. ASSUME NEW w \in Workers, NEW j \in Jobs, Dequeue(w, j) \/ ChatRun(w, j)
      PROVE  TypeOK'
  <2>0. runs[j] + 1 \in Nat /\ task[j] \in Task
    BY DEF TypeOK
  <2>1. \A m \in Modes : NewRun(m, j, runs[j] + 1) \in Exec
    BY <2>0 DEF NewRun, Exec, Points
  <2>2. exec' \in [Workers -> Exec] /\ runs' \in [Jobs -> Nat]
    BY <1>3, <2>1 DEF Dequeue, ChatRun, Begin, TypeOK, Modes
  <2>3. PendingRow \in Row /\ [task[j] EXCEPT !.state = "active"] \in Task
    <3>1. PendingRow \in Row
      BY DEF PendingRow, NoRow, Row
    <3>2. [task[j] EXCEPT !.state = "active"] \in Task
      BY <2>0 DEF Task
    <3>. QED  BY <3>1, <3>2
  <2>4. row' \in [Jobs -> Row] /\ task' \in [Jobs -> Task] /\ request' \in [Jobs -> Requests]
    BY <1>3, <2>3 DEF Dequeue, ChatRun, TypeOK, Requests
  <2>. QED  BY <1>3, <2>2, <2>4 DEF Dequeue, ChatRun, TypeOK
<1>4. ASSUME NEW w \in Workers, PipelineStep(w)
      PROVE  TypeOK'
  <2>. DEFINE j == exec[w].job
  <2>a. exec[w] \in Exec /\ exec[w].run \in Nat /\ exec[w].stage \in 1 .. 3
    BY DEF TypeOK, Exec
  <2>b. \A point \in Points : Goto(w, point) => exec' \in [Workers -> Exec]
    <3>1. \A point \in Points : [exec[w] EXCEPT !.at = point] \in Exec
      BY <2>a DEF Exec
    <3>. QED  BY <3>1 DEF Goto, TypeOK
  <2>c. \A k \in 1 .. 3 : GotoStage(w, k) => exec' \in [Workers -> Exec]
    <3>1. \A k \in 1 .. 3 : [exec[w] EXCEPT !.stage = k, !.at = "write_status"] \in Exec
      BY <2>a DEF Exec, Points
    <3>. QED  BY <3>1 DEF GotoStage, TypeOK
  <2>d. ASSUME NEW v, j \in Jobs => v \in Row, row' = [row EXCEPT ![j] = v]
        PROVE  row' \in [Jobs -> Row]
    BY <2>d DEF TypeOK
  <2>e. j \in Jobs => /\ InStage(row[j], exec[w].stage) \in Row
                     /\ Completed(row[j], exec[w].run) \in Row
                     /\ Failed(row[j], exec[w].run) \in Row
                     /\ [row[j] EXCEPT !.params = TRUE] \in Row
    <3>1. j \in Jobs => row[j] \in Row
      BY DEF TypeOK
    <3>. QED  BY <3>1, <2>a, RowTypes
  <2>f. UNCHANGED row => row' \in [Jobs -> Row]
    BY DEF TypeOK
  <2>1. CASE WriteStatus(w)
    <3>1. row' \in [Jobs -> Row]
      BY <2>1, <2>d, <2>e, <2>f DEF WriteStatus
    <3>. QED  BY <2>1, <2>b, <3>1 DEF WriteStatus, OnlyPipeline, Fault, NoFault, TypeOK, Points
  <2>2. CASE EmitStatus(w)
    <3>1. StageStatus[exec[w].stage] \in Kinds
      BY <2>a, StageTypes
    <3>. QED  BY <2>2, <2>b, <3>1, PublishType DEF EmitStatus, OnlyPipeline, TypeOK, Points
  <2>3. CASE Call(w) \/ CallFails(w)
    BY <2>3, <2>b, <2>c DEF Call, ExtractParams, FetchJobs, FilterJobs, CallFails, OnlyPipeline, TypeOK, Points
  <2>4. CASE SaveParams(w)
    <3>1. row' \in [Jobs -> Row]
      BY <2>4, <2>d, <2>e, <2>f DEF SaveParams
    <3>. QED  BY <2>4, <2>c, <3>1 DEF SaveParams, OnlyPipeline, Fault, NoFault, TypeOK
  <2>5. CASE StoreResult(w) \/ StoreFails(w)
    <3>1. row' \in [Jobs -> Row]
      BY <2>5, <2>d, <2>e, <2>f DEF StoreResult, StoreFails
    <3>. QED  BY <2>5, <2>b, <3>1 DEF StoreResult, StoreFails, OnlyPipeline, Fault, TypeOK, Points
  <2>6. CASE EmitCompleted(w)
    <3>1. "completed" \in Kinds
      BY DEF Kinds, Terminal
    <3>. QED  BY <2>6, <2>b, <3>1, PublishType DEF EmitCompleted, OnlyPipeline, TypeOK, Points
  <2>7. CASE WriteFailed(w)
    <3>1. row' \in [Jobs -> Row]
      BY <2>7, <2>d, <2>e, <2>f DEF WriteFailed
    <3>. QED  BY <2>7, <2>b, <3>1 DEF WriteFailed, OnlyPipeline, Fault, NoFault, TypeOK, Points
  <2>8. CASE EmitFailed(w)
    <3>1. "failed" \in Kinds
      BY DEF Kinds, Terminal
    <3>. QED  BY <2>8, <2>b, <3>1, PublishType DEF EmitFailed, OnlyPipeline, TypeOK, Points
  <2>9. CASE Return(w)
    <3>1. task' \in [Jobs -> Task]
      <4>1. j \in Jobs => /\ AfterFailure(task[j]) \in Task
                          /\ [task[j] EXCEPT !.state = "completed"] \in Task
        <5>1. j \in Jobs => task[j] \in Task
          BY DEF TypeOK
        <5>2. j \in Jobs => [task[j] EXCEPT !.state = "completed"] \in Task
          BY <5>1 DEF Task
        <5>. QED  BY <5>1, <5>2, AfterFailureType
      <4>2. \/ task' = task \/ task' = [task EXCEPT ![j].state = "completed"]
            \/ task' = [task EXCEPT ![j] = AfterFailure(@)]
        BY <2>9 DEF Return
      <4>. QED  BY <4>1, <4>2 DEF TypeOK
    <3>. QED  BY <2>9, <3>1, IdleType DEF Return, TypeOK
  <2>. QED  BY <1>4, <2>1, <2>2, <2>3, <2>4, <2>5, <2>6, <2>7, <2>8, <2>9 DEF PipelineStep
<1>5. ASSUME NEW w \in Workers, Deadline(w) \/ Crash(w) \/ Handover(w) \/ ProcessExit(w)
      PROVE  TypeOK'
  <2>1. exec' \in [Workers -> Exec]
    BY <1>5, IdleType DEF Deadline, Crash, Handover, ProcessExit, TypeOK, Exec, Modes
  <2>2. task' \in [Jobs -> Task]
    <3>. DEFINE j == exec[w].job
    <3>1. j \in Jobs => /\ AfterFailure(task[j]) \in Task
                        /\ [task[j] EXCEPT !.state = "pending"] \in Task
      <4>1. j \in Jobs => task[j] \in Task
        BY DEF TypeOK
      <4>2. j \in Jobs => [task[j] EXCEPT !.state = "pending"] \in Task
        BY <4>1 DEF Task
      <4>. QED  BY <4>1, <4>2, AfterFailureType
    <3>2. \/ task' = task \/ task' = [task EXCEPT ![j].state = "pending"]
          \/ task' = [task EXCEPT ![j] = AfterFailure(@)]
      BY <1>5 DEF Deadline, Crash, Handover, ProcessExit
    <3>. QED  BY <3>1, <3>2 DEF TypeOK
  <2>3. faults' \in 0 .. MaxFaults /\ handed' \in [Jobs -> 0 .. MaxHandovers]
    BY <1>5 DEF Deadline, Crash, Handover, ProcessExit, Fault, TypeOK
  <2>. QED  BY <1>5, <2>1, <2>2, <2>3 DEF Deadline, Crash, Handover, ProcessExit, TypeOK
<1>6. ASSUME NEW s \in Streams, NEW j \in Jobs, Open(s, j)
      PROVE  TypeOK'
  BY <1>6, OpenedType DEF Open, TypeOK
<1>7. ASSUME NEW s \in Streams, Subscribe(s) \/ Relay(s) \/ CloseStream(s) \/ Reconnect(s)
      PROVE  TypeOK'
  <2>1. CASE Relay(s)
    <3>1. stream[s] \in Stream
      BY DEF TypeOK
    <3>. QED  BY <2>1, <3>1, RelayedType DEF Relay, TypeOK
  <2>2. CASE Subscribe(s) \/ CloseStream(s)
    <3>1. \A at \in {"open", "closed"} : [stream[s] EXCEPT !.at = at] \in Stream
      BY DEF TypeOK, Stream
    <3>. QED  BY <2>2, <3>1 DEF Subscribe, CloseStream, TypeOK
  <2>3. CASE Reconnect(s)
    BY <2>3 DEF Reconnect, NoStream, Stream, TypeOK
  <2>. QED  BY <1>7, <2>1, <2>2, <2>3
<1>8. CASE UNCHANGED vars
  BY <1>8 DEF vars, TypeOK
<1>. QED  BY <1>1, <1>2, <1>3, <1>4, <1>5, <1>6, <1>7, <1>8 DEF Next

\* Every variable keeps its type in every reachable state.
THEOREM TypeCorrect == Spec => []TypeOK
<1>1. Init => TypeOK
  BY IdleType, BoundsAssumption DEF Init, TypeOK, Requests, Row, NoRow, Task, Stream, NoStream, Event
<1>. QED  BY <1>1, TypeStep, PTL DEF Spec

---------------------------------------------------------------------------
(***************************************************************************)
(* Who runs what.  The inductive invariant relates the goroutines to the   *)
(* queue's view of the task, and counts the runs.                          *)
(***************************************************************************)
RunIdentity ==
  \A w \in Workers :
    LET j == exec[w].job IN
    /\ exec[w].mode = "idle" => j = NoJob
    /\ exec[w].mode # "idle" => /\ j \in Jobs
                                /\ exec[w].run \in 1 .. runs[j]
                                /\ handed[j] = 0 => exec[w].run = runs[j]

\* A lease is held for an active task only; a goroutine without one is either
\* left over from a handover or belongs to a chat turn, whose job has no task.
RunStanding ==
  \A w \in Workers :
    LET j == exec[w].job IN
    /\ exec[w].mode = "task" => task[j].state = "active"
    /\ exec[w].mode = "detached" => handed[j] > 0
    /\ exec[w].mode = "chat" => request[j] = "chat"

OneHolder ==
  \A v, w \in Workers :
    exec[v].job = exec[w].job /\ exec[v].mode = exec[w].mode /\ exec[v].mode \in {"task", "chat"} => v = w

RunCount ==
  \A j \in Jobs :
    /\ request[j] \in {"none", "created", "lost", "chat"} => task[j].state = "none"
    /\ request[j] \in {"none", "created"} => runs[j] = 0
    /\ task[j].state = "none" => runs[j] <= 1 /\ handed[j] = 0 /\ task[j].retried = 0
    /\ task[j].state \in {"pending", "retry"} => runs[j] = task[j].retried + handed[j]
    /\ task[j].state \in {"active", "completed", "archived"} => runs[j] = task[j].retried + handed[j] + 1

LeaseInv == RunIdentity /\ RunStanding /\ OneHolder /\ RunCount

\* Inside runCore nothing but the goroutine's position changes: which run of
\* which job it is, and everything the queue knows, stay as they are.
SameRuns ==
  /\ UNCHANGED <<request, task, runs, handed>>
  /\ \A v \in Workers : /\ exec'[v].mode = exec[v].mode
                         /\ exec'[v].job = exec[v].job
                         /\ exec'[v].run = exec[v].run

LEMMA PipelineFrame ==
  ASSUME TypeOK, NEW w \in Workers, PipelineStep(w), ~ Return(w)
  PROVE  SameRuns
<1>1. \A point : Goto(w, point) => \A v \in Workers :
         exec'[v].mode = exec[v].mode /\ exec'[v].job = exec[v].job /\ exec'[v].run = exec[v].run
  BY DEF Goto, TypeOK, Exec
<1>2. \A k : GotoStage(w, k) => \A v \in Workers :
         exec'[v].mode = exec[v].mode /\ exec'[v].job = exec[v].job /\ exec'[v].run = exec[v].run
  BY DEF GotoStage, TypeOK, Exec
<1>3. (\E point : Goto(w, point)) \/ (\E k : GotoStage(w, k))
  BY DEF PipelineStep, WriteStatus, EmitStatus, Call, ExtractParams, FetchJobs, FilterJobs, CallFails, SaveParams, StoreResult,
         StoreFails, EmitCompleted, WriteFailed, EmitFailed
<1>4. OnlyPipeline
  BY DEF PipelineStep, WriteStatus, EmitStatus, Call, ExtractParams, FetchJobs, FilterJobs, CallFails, SaveParams, StoreResult,
         StoreFails, EmitCompleted, WriteFailed, EmitFailed
<1>. QED  BY <1>1, <1>2, <1>3, <1>4 DEF SameRuns, OnlyPipeline

LEMMA SameRunsKeepLease ==
  ASSUME TypeOK, LeaseInv, SameRuns
  PROVE  LeaseInv'
BY DEF LeaseInv, RunIdentity, RunStanding, OneHolder, RunCount, SameRuns

\* A goroutine ends; the queue may learn of it, and fail or finish the task.
LEMMA EndKeepsLease ==
  ASSUME TypeOK, LeaseInv, NEW w \in Workers, exec[w].mode # "idle",
         exec' = [exec EXCEPT ![w] = Idle],
         UNCHANGED <<request, runs, handed>>,
         LET j == exec[w].job IN
           \/ task' = task
           \/ /\ exec[w].mode = "task"
              /\ \/ task' = [task EXCEPT ![j].state = "completed"]
                 \/ task' = [task EXCEPT ![j] = AfterFailure(@)]
  PROVE  LeaseInv'
<1>. DEFINE j == exec[w].job
<1>1. /\ j \in Jobs
      /\ exec[w].mode = "task" => task[j].state = "active"
  BY DEF LeaseInv, RunIdentity, RunStanding
<1>2. task[j] \in Task
  BY <1>1 DEF TypeOK
<1>3. exec'[w].mode = "idle" /\ exec'[w].job = NoJob
  BY DEF Idle, NewRun, TypeOK
<1>4. \A v \in Workers : v # w => exec'[v] = exec[v]
  BY DEF TypeOK
<1>5. \A i \in Jobs : i # j => task'[i] = task[i]
  BY DEF TypeOK
<1>6. exec[w].mode # "task" => task' = task
  OBVIOUS
<1>7. \/ task'[j] = task[j]
      \/ task'[j].state \in {"completed", "archived"} /\ task'[j].retried = task[j].retried
      \/ task'[j].state = "retry" /\ task'[j].retried = task[j].retried + 1
  <2>1. \/ task'[j] = task[j] \/ task'[j] = [task[j] EXCEPT !.state = "completed"]
        \/ task'[j] = AfterFailure(task[j])
    BY <1>1 DEF TypeOK
  <2>2. LET t == [task[j] EXCEPT !.state = "completed"]
        IN  t.state = "completed" /\ t.retried = task[j].retried
    BY <1>2 DEF Task
  <2>. QED  BY <1>2, <2>1, <2>2, AfterFailureType
<1>8. RunIdentity'
  BY <1>3, <1>4 DEF LeaseInv, RunIdentity
<1>9. RunStanding'
  <2>1. \A v \in Workers : v # w /\ exec[v].mode = "task" => exec[v].job # j \/ exec[w].mode # "task"
    BY DEF LeaseInv, OneHolder
  <2>. QED  BY <1>3, <1>4, <1>5, <1>6, <2>1 DEF LeaseInv, RunStanding, RunIdentity
<1>10. OneHolder'
  BY <1>3, <1>4 DEF LeaseInv, OneHolder
<1>11. RunCount'
  BY <1>1, <1>2, <1>5, <1>6, <1>7 DEF LeaseInv, RunCount, TypeOK, Task
<1>. QED  BY <1>8, <1>9, <1>10, <1>11 DEF LeaseInv

LEMMA LeaseStep == TypeOK /\ LeaseInv /\ [Next]_vars => LeaseInv'
<1>. SUFFICES ASSUME TypeOK, LeaseInv, [Next]_vars PROVE LeaseInv'
  OBVIOUS
<1>. USE BoundsAssumption, NoJobAssumption
<1>1. ASSUME NEW j \in Jobs,
             CreateRow(j) \/ Enqueue(j) \/ EnqueueFails(j) \/ ApiCrash(j)
      PROVE  LeaseInv'
  <2>1. request[j] \in {"none", "created"} /\ task[j].state = "none" /\ runs[j] = 0 /\ handed[j] = 0
    BY <1>1 DEF LeaseInv, RunCount, CreateRow, Enqueue, EnqueueFails, ApiCrash
  <2>2. \A w \in Workers : exec[w].job # j
    BY <2>1 DEF LeaseInv, RunIdentity
  <2>3. UNCHANGED <<exec, runs, handed>>
    BY <1>1 DEF CreateRow, Enqueue, EnqueueFails, ApiCrash
  <2>4. \A i \in Jobs : i # j => request'[i] = request[i] /\ task'[i] = task[i]
    BY <1>1 DEF CreateRow, Enqueue, EnqueueFails, ApiCrash, TypeOK
  <2>5. request'[j] \in {"created", "accepted", "error", "lost"}
    BY <1>1 DEF CreateRow, Enqueue, EnqueueFails, ApiCrash, TypeOK
  <2>6. \/ task'[j] = task[j]
        \/ request'[j] \in {"accepted", "error"} /\ task'[j] = [task[j] EXCEPT !.state = "pending"]
    BY <1>1 DEF CreateRow, Enqueue, EnqueueFails, ApiCrash, TypeOK
  <2>7. task[j] \in Task /\ task[j].retried + handed[j] \in Nat
    BY DEF TypeOK, Task
  <2>8. task[j].retried = 0
    BY <2>1 DEF LeaseInv, RunCount
  <2>9. RunCount'
    BY <2>1, <2>3, <2>4, <2>5, <2>6, <2>7, <2>8 DEF LeaseInv, RunCount, Task
  <2>. QED  BY <2>1, <2>2, <2>3, <2>4, <2>9
            DEF LeaseInv, RunIdentity, RunStanding, OneHolder
<1>2. ASSUME NEW j \in Jobs, ForwardRetry(j) \/ Recover(j)
      PROVE  LeaseInv'
  <2>1. \A w \in Workers : ~ (exec[w].mode = "task" /\ exec[w].job = j)
    BY <1>2 DEF LeaseInv, RunStanding, ForwardRetry, Recover, HasLease
  <2>2. UNCHANGED <<request, exec, runs, handed>> /\ \A i \in Jobs : i # j => task'[i] = task[i]
    BY <1>2 DEF ForwardRetry, Recover, TypeOK
  <2>3. task[j] \in Task
    BY DEF TypeOK
  <2>4. \/ /\ task[j].state = "retry" /\ task'[j].state = "pending"
           /\ task'[j].retried = task[j].retried
        \/ /\ task[j].state = "active"
           /\ \/ task'[j].state = "archived" /\ task'[j].retried = task[j].retried
              \/ task'[j].state = "retry" /\ task'[j].retried = task[j].retried + 1
    BY <1>2, <2>3, AfterFailureType DEF ForwardRetry, Recover, TypeOK, Task
  <2>5. RunCount'
    BY <2>2, <2>3, <2>4 DEF LeaseInv, RunCount, TypeOK, Task
  <2>. QED  BY <2>1, <2>2, <2>5 DEF LeaseInv, RunIdentity, RunStanding, OneHolder
<1>3. ASSUME NEW w \in Workers, NEW j \in Jobs, Dequeue(w, j) \/ ChatRun(w, j)
      PROVE  LeaseInv'
  <2>1. PICK m \in {"task", "chat"} : Begin(w, j, m) /\ (m = "task" <=> Dequeue(w, j))
    BY <1>3 DEF Dequeue, ChatRun
  <2>2. /\ exec[w].mode = "idle" /\ exec'[w] = NewRun(m, j, runs[j] + 1)
        /\ \A v \in Workers : v # w => exec'[v] = exec[v]
        /\ runs'[j] = runs[j] + 1 /\ \A i \in Jobs : i # j => runs'[i] = runs[i]
    BY <2>1 DEF Begin, TypeOK
  <2>3. exec'[w].mode = m /\ exec'[w].job = j /\ exec'[w].run = runs[j] + 1
    BY <2>2 DEF NewRun
  <2>4. \/ m = "task" /\ task[j].state = "pending" /\ task'[j].state = "active"
           /\ task'[j].retried = task[j].retried /\ UNCHANGED request
        \/ m = "chat" /\ request[j] = "none" /\ request'[j] = "chat" /\ UNCHANGED task
    BY <1>3, <2>1 DEF Dequeue, ChatRun, TypeOK, Task
  <2>5. /\ UNCHANGED handed
        /\ \A i \in Jobs : i # j => task'[i] = task[i] /\ request'[i] = request[i]
    BY <1>3 DEF Dequeue, ChatRun, TypeOK
  <2>6. \A v \in Workers : exec[v].job = j => exec[v].mode = "detached" /\ handed[j] > 0
    BY <2>4 DEF LeaseInv, RunIdentity, RunStanding, RunCount, TypeOK, Exec, Modes
  <2>7. RunCount'
    BY <2>2, <2>4, <2>5 DEF LeaseInv, RunCount, TypeOK, Task
  <2>8. RunIdentity'
    BY <2>2, <2>3, <2>5, <2>6 DEF LeaseInv, RunIdentity, TypeOK
  <2>9. RunStanding'
    BY <2>2, <2>3, <2>4, <2>5, <2>6 DEF LeaseInv, RunIdentity, RunStanding
  <2>10. OneHolder'
    BY <2>2, <2>3, <2>6 DEF LeaseInv, OneHolder
  <2>. QED  BY <2>7, <2>8, <2>9, <2>10 DEF LeaseInv
<1>4. ASSUME NEW w \in Workers, PipelineStep(w)
      PROVE  LeaseInv'
  <2>1. CASE Return(w)
    BY <2>1, EndKeepsLease DEF Return
  <2>. QED  BY <1>4, <2>1, PipelineFrame, SameRunsKeepLease
<1>5. ASSUME NEW w \in Workers, Deadline(w) \/ Crash(w) \/ ProcessExit(w)
      PROVE  LeaseInv'
  BY <1>5, EndKeepsLease DEF Deadline, Crash, ProcessExit
<1>6. ASSUME NEW w \in Workers, Handover(w)
      PROVE  LeaseInv'
  <2>. DEFINE j == exec[w].job
  <2>1. /\ exec[w].mode = "task" /\ j \in Jobs /\ task[j].state = "active"
    BY <1>6 DEF Handover, LeaseInv, RunIdentity, RunStanding
  <2>2. /\ exec'[w].mode = "detached" /\ exec'[w].job = j /\ exec'[w].run = exec[w].run
        /\ \A v \in Workers : v # w => exec'[v] = exec[v]
    BY <1>6 DEF Handover, TypeOK, Exec
  <2>3. /\ task'[j].state = "pending" /\ task'[j].retried = task[j].retried
        /\ handed'[j] = handed[j] + 1
        /\ \A i \in Jobs : i # j => task'[i] = task[i] /\ handed'[i] = handed[i]
        /\ UNCHANGED <<request, runs>>
    BY <1>6, <2>1 DEF Handover, TypeOK, Task
  <2>4. RunCount'
    <3>1. runs[j] = task[j].retried + handed[j] + 1 /\ request[j] \notin {"none", "created", "lost", "chat"}
      BY <2>1 DEF LeaseInv, RunCount
    <3>2. task[j].retried \in Nat /\ handed[j] \in Nat
      BY <2>1, BoundsAssumption DEF TypeOK, Task
    <3>. QED  BY <2>3, <3>1, <3>2 DEF LeaseInv, RunCount
  <2>5. RunIdentity'
    BY <2>1, <2>2, <2>3 DEF LeaseInv, RunIdentity, TypeOK
  <2>6. RunStanding'
    <3>1. \A v \in Workers : v # w /\ exec[v].mode = "task" => exec[v].job # j
      BY <2>1 DEF LeaseInv, OneHolder
    <3>. QED  BY <2>1, <2>2, <2>3, <3>1 DEF LeaseInv, RunIdentity, RunStanding, TypeOK
  <2>7. OneHolder'
    BY <2>2 DEF LeaseInv, OneHolder
  <2>. QED  BY <2>4, <2>5, <2>6, <2>7 DEF LeaseInv
<1>7. ASSUME NEW s \in Streams,
             (\E j \in Jobs : Open(s, j)) \/ Subscribe(s) \/ Relay(s) \/ CloseStream(s) \/ Reconnect(s)
      PROVE  LeaseInv'
  <2>1. SameRuns
    BY <1>7 DEF Open, Subscribe, Relay, CloseStream, Reconnect, SameRuns
  <2>. QED  BY <2>1, SameRunsKeepLease
<1>8. CASE UNCHANGED vars
  BY <1>8, SameRunsKeepLease DEF vars, SameRuns
<1>. QED  BY <1>1, <1>2, <1>3, <1>4, <1>5, <1>6, <1>7, <1>8 DEF Next

\* The lease discipline holds in every reachable state.
THEOREM LeaseCorrect == Spec => [](TypeOK /\ LeaseInv)
<1>1. Init => LeaseInv
  BY DEF Init, LeaseInv, RunIdentity, RunStanding, OneHolder, RunCount, Idle, NewRun
<1>2. TypeOK /\ LeaseInv /\ [Next]_vars => LeaseInv'
  BY LeaseStep
<1>. QED  BY <1>1, <1>2, TypeCorrect, PTL DEF Spec

\* A job's pipeline is started at most MaxRetry + 1 times, plus once for every
\* shutdown handover: the number of paid external calls is bounded.
THEOREM AttemptsBounded == Spec => []AttemptBound
<1>1. TypeOK /\ LeaseInv => AttemptBound
  <2>. SUFFICES ASSUME TypeOK, LeaseInv, NEW j \in Jobs
                PROVE  runs[j] <= MaxRetry + 1 + handed[j]
    BY DEF AttemptBound
  <2>1. /\ task[j].state \in {"none", "pending", "active", "retry", "completed", "archived"}
        /\ task[j].retried \in 0 .. MaxRetry /\ runs[j] \in Nat /\ handed[j] \in Nat
    BY BoundsAssumption DEF TypeOK, Task
  <2>. QED  BY <2>1, BoundsAssumption DEF LeaseInv, RunCount
<1>. QED  BY <1>1, LeaseCorrect, PTL

\* The goroutines a handover left behind are counted by it: no other step makes
\* one, and a new one starts with a lease.
Detached(j) == {w \in Workers : exec[w].mode = "detached" /\ exec[w].job = j}
DetachedCounted ==
  \A j \in Jobs : IsFiniteSet(Detached(j)) /\ Cardinality(Detached(j)) <= handed[j]

\* A step that is not a handover detaches nobody.
NoneDetaches ==
  /\ UNCHANGED handed
  /\ \A w \in Workers : exec'[w].mode = "detached" =>
       exec[w].mode = "detached" /\ exec[w].job = exec'[w].job

LEMMA HandoverOrNoneDetaches ==
  ASSUME TypeOK, LeaseInv, [Next]_vars
  PROVE  (\E w \in Workers : Handover(w)) \/ NoneDetaches
<1>0. Idle.mode = "idle"
  BY DEF Idle, NewRun
<1>1. ASSUME NEW j \in Jobs, CreateRow(j) \/ Enqueue(j) \/ EnqueueFails(j) \/ ApiCrash(j) \/ ForwardRetry(j) \/ Recover(j)
      PROVE  NoneDetaches
  BY <1>1 DEF CreateRow, Enqueue, EnqueueFails, ApiCrash, ForwardRetry, Recover, NoneDetaches
<1>2. ASSUME NEW w \in Workers, NEW j \in Jobs, Dequeue(w, j) \/ ChatRun(w, j)
      PROVE  NoneDetaches
  <2>1. UNCHANGED handed /\ \E m \in {"task", "chat"} : Begin(w, j, m)
    BY <1>2 DEF Dequeue, ChatRun
  <2>2. exec'[w].mode # "detached" /\ \A v \in Workers : v # w => exec'[v] = exec[v]
    BY <2>1 DEF Begin, NewRun, TypeOK
  <2>. QED  BY <2>1, <2>2 DEF NoneDetaches
<1>3. ASSUME NEW w \in Workers, exec' = [exec EXCEPT ![w] = Idle], UNCHANGED handed
      PROVE  NoneDetaches
  BY <1>0, <1>3 DEF NoneDetaches, TypeOK
<1>4. ASSUME NEW w \in Workers, PipelineStep(w)
      PROVE  NoneDetaches
  <2>1. CASE Return(w)
    BY <1>3, <2>1 DEF Return
  <2>2. CASE ~ Return(w)
    BY <1>4, <2>2, PipelineFrame DEF SameRuns, NoneDetaches
  <2>. QED  BY <2>1, <2>2
<1>5. ASSUME NEW w \in Workers, Deadline(w) \/ Crash(w) \/ ProcessExit(w)
      PROVE  NoneDetaches
  BY <1>3, <1>5 DEF Deadline, Crash, ProcessExit
<1>6. ASSUME NEW s \in Streams,
             (\E j \in Jobs : Open(s, j)) \/ Subscribe(s) \/ Relay(s) \/ CloseStream(s) \/ Reconnect(s)
      PROVE  NoneDetaches
  BY <1>6 DEF Open, Subscribe, Relay, CloseStream, Reconnect, NoneDetaches
<1>7. CASE UNCHANGED vars
  BY <1>7 DEF vars, NoneDetaches
<1>. QED  BY <1>1, <1>2, <1>4, <1>5, <1>6, <1>7 DEF Next

LEMMA OneMore ==
  ASSUME NEW S, IsFiniteSet(S), NEW x
  PROVE  IsFiniteSet(S \cup {x}) /\ Cardinality(S \cup {x}) <= Cardinality(S) + 1
<1>1. Cardinality(S) \in Nat
  BY FS_CardinalityType
<1>2. /\ IsFiniteSet(S \cup {x})
      /\ Cardinality(S \cup {x}) = IF x \in S THEN Cardinality(S) ELSE Cardinality(S) + 1
  BY FS_AddElement
<1>. QED  BY <1>1, <1>2

LEMMA DetachedStep == TypeOK /\ LeaseInv /\ DetachedCounted /\ [Next]_vars => DetachedCounted'
<1>. SUFFICES ASSUME TypeOK, LeaseInv, DetachedCounted, [Next]_vars, NEW j \in Jobs
              PROVE  IsFiniteSet(Detached(j)') /\ Cardinality(Detached(j)') <= handed'[j]
  BY DEF DetachedCounted
<1>1. /\ IsFiniteSet(Detached(j)) /\ Cardinality(Detached(j)) <= handed[j]
      /\ Cardinality(Detached(j)) \in Nat /\ handed[j] \in Nat
  BY FS_CardinalityType, BoundsAssumption DEF DetachedCounted, TypeOK
<1>2. ASSUME NEW w \in Workers, Handover(w)
      PROVE  IsFiniteSet(Detached(j)') /\ Cardinality(Detached(j)') <= handed'[j]
  <2>1. /\ exec'[w].mode = "detached" /\ exec'[w].job = exec[w].job
        /\ \A v \in Workers : v # w => exec'[v] = exec[v]
    BY <1>2 DEF Handover, TypeOK, Exec
  <2>2. CASE exec[w].job = j
    <3>1. Detached(j)' = Detached(j) \cup {w}
      BY <2>1, <2>2 DEF Detached
    <3>2. handed'[j] = handed[j] + 1
      BY <1>2, <2>2 DEF Handover, TypeOK
    <3>3. /\ IsFiniteSet(Detached(j) \cup {w})
          /\ Cardinality(Detached(j) \cup {w}) <= Cardinality(Detached(j)) + 1
      BY <1>1, OneMore
    <3>. QED  BY <1>1, <3>1, <3>2, <3>3, FS_CardinalityType
  <2>3. CASE exec[w].job # j
    <3>1. Detached(j)' = Detached(j)
      BY <2>1, <2>3 DEF Detached
    <3>2. handed'[j] = handed[j]
      BY <1>2, <2>3 DEF Handover, TypeOK
    <3>. QED  BY <1>1, <3>1, <3>2
  <2>. QED  BY <2>2, <2>3
<1>3. CASE NoneDetaches
  <2>1. Detached(j)' \subseteq Detached(j) /\ handed'[j] = handed[j]
    BY <1>3 DEF NoneDetaches, Detached
  <2>2. IsFiniteSet(Detached(j)') /\ Cardinality(Detached(j)') <= Cardinality(Detached(j))
    BY <1>1, <2>1, FS_Subset
  <2>. QED  BY <1>1, <2>1, <2>2, FS_CardinalityType
<1>. QED  BY <1>2, <1>3, HandoverOrNoneDetaches

\* At most one goroutine works on a job that no handover left behind.
LEMMA OneAttached ==
  ASSUME TypeOK, LeaseInv, NEW j \in Jobs, NEW v \in Busy(j) \ Detached(j), NEW w \in Busy(j) \ Detached(j)
  PROVE  v = w
<1>1. ASSUME NEW x \in Busy(j) \ Detached(j)
      PROVE  /\ x \in Workers /\ exec[x].job = j
             /\ \/ exec[x].mode = "task" /\ task[j].state = "active"
                \/ exec[x].mode = "chat" /\ task[j].state = "none"
  <2>1. x \in Workers /\ exec[x].job = j /\ exec[x].mode \in Modes
    BY DEF Busy, TypeOK, Exec
  <2>2. exec[x].mode \notin {"idle", "detached"}
    BY <2>1, NoJobAssumption DEF LeaseInv, RunIdentity, Detached
  <2>. QED  BY <2>1, <2>2 DEF Modes, LeaseInv, RunStanding, RunCount
<1>2. exec[v].job = exec[w].job /\ exec[v].mode = exec[w].mode /\ exec[v].mode \in {"task", "chat"}
  BY <1>1
<1>. QED  BY <1>1, <1>2 DEF LeaseInv, OneHolder

\* However crashes, deadlines, retries and handovers follow each other, at most
\* one goroutine works on a job besides those a handover of its own left behind.
THEOREM OverlapBounded == Spec => []OverlapBound
<1>1. Init => DetachedCounted
  <2>. SUFFICES ASSUME Init, NEW j \in Jobs
                PROVE  IsFiniteSet(Detached(j)) /\ Cardinality(Detached(j)) <= handed[j]
    BY DEF DetachedCounted
  <2>1. Detached(j) = {} /\ handed[j] = 0
    BY DEF Init, Detached, Idle, NewRun
  <2>. QED  BY <2>1, FS_EmptySet
<1>2. TypeOK /\ LeaseInv /\ DetachedCounted /\ [Next]_vars => DetachedCounted'
  BY DetachedStep
<1>3. TypeOK /\ LeaseInv /\ DetachedCounted => OverlapBound
  <2>. SUFFICES ASSUME TypeOK, LeaseInv, DetachedCounted, NEW j \in Jobs
                PROVE  Cardinality(Busy(j)) <= 1 + handed[j]
    BY DEF OverlapBound
  <2>1. /\ IsFiniteSet(Detached(j)) /\ Cardinality(Detached(j)) <= handed[j]
        /\ Cardinality(Detached(j)) \in Nat /\ handed[j] \in Nat
    BY FS_CardinalityType, BoundsAssumption DEF DetachedCounted, TypeOK
  <2>2. \E v : Busy(j) \subseteq Detached(j) \cup {v}
    BY OneAttached
  <2>3. PICK v : Busy(j) \subseteq Detached(j) \cup {v}
    BY <2>2
  <2>4. /\ IsFiniteSet(Detached(j) \cup {v})
        /\ Cardinality(Detached(j) \cup {v}) <= Cardinality(Detached(j)) + 1
    BY <2>1, OneMore
  <2>5. IsFiniteSet(Busy(j)) /\ Cardinality(Busy(j)) <= Cardinality(Detached(j) \cup {v})
    BY <2>3, <2>4, FS_Subset
  <2>6. Cardinality(Busy(j)) \in Nat /\ Cardinality(Detached(j) \cup {v}) \in Nat
    BY <2>4, <2>5, FS_CardinalityType
  <2>. QED  BY <2>1, <2>4, <2>5, <2>6
<1>. QED  BY <1>1, <1>2, <1>3, LeaseCorrect, PTL DEF Spec

---------------------------------------------------------------------------
(***************************************************************************)
(* What is stored and what is announced.                                   *)
(***************************************************************************)
\* What a "completed" event of run n may rely on: a result is there, and it is
\* that run's or a later one's unless a handover let two runs overlap.
Stored(j, n) == row[j].result # 0 /\ (handed[j] = 0 => row[j].result >= n)

RowOutcome ==
  \A j \in Jobs :
    /\ row[j].result <= runs[j] /\ row[j].error <= runs[j]
    /\ row[j].status = "completed" => row[j].progress = 100 /\ row[j].result # 0
    /\ row[j].status = "failed" => row[j].error # 0
    /\ request[j] = "none" => row[j] = NoRow

\* A goroutine past its SetCompleted has a stored result behind it.
Announcer ==
  \A w \in Workers :
    exec[w].mode # "idle" /\ exec[w].at \in {"emit_completed", "return_ok"}
      => Stored(exec[w].job, exec[w].run)

\* The runs whose "completed" the row bears out, and a sequence of events that
\* says "completed" of such runs only.
StoredRuns(r, h) == {n \in Nat : r.result # 0 /\ (h = 0 => r.result >= n)}
Backed(S, q) == \A i \in 1 .. Len(q) : q[i].kind = "completed" => q[i].run \in S

\* Everything delivered to a connection, shown or still buffered, is backed.
Heard ==
  \A s \in Streams :
    /\ Backed(StoredRuns(row[stream[s].job], handed[stream[s].job]), stream[s].frames)
    /\ Backed(StoredRuns(row[stream[s].job], handed[stream[s].job]), stream[s].inbox)
    /\ stream[s].at = "idle" => stream[s] = NoStream
    /\ stream[s].at # "idle" => stream[s].job \in Jobs
    /\ stream[s].at # "closed" => LastKind(stream[s].frames) \notin Terminal

StoreInv == RowOutcome /\ Announcer /\ Heard

\* Counters and requests only move forward.
LEMMA Growth ==
  ASSUME TypeOK, [Next]_vars, NEW j \in Jobs
  PROVE  /\ runs'[j] >= runs[j]
         /\ handed'[j] >= handed[j]
         /\ request[j] # "none" => request'[j] # "none"
<1>0. runs[j] \in Nat /\ handed[j] \in Nat
  BY BoundsAssumption DEF TypeOK
<1>1. ASSUME NEW i \in Jobs, CreateRow(i) \/ Enqueue(i) \/ EnqueueFails(i) \/ ApiCrash(i)
      PROVE  UNCHANGED <<runs, handed>> /\ (request[j] # "none" => request'[j] # "none")
  BY <1>1 DEF CreateRow, Enqueue, EnqueueFails, ApiCrash, TypeOK
<1>2. ASSUME NEW w \in Workers, NEW i \in Jobs, Dequeue(w, i)
      PROVE  UNCHANGED <<request, handed>> /\ runs'[j] >= runs[j]
  BY <1>0, <1>2 DEF Dequeue, Begin, TypeOK
<1>3. ASSUME NEW w \in Workers, NEW i \in Jobs, ChatRun(w, i)
      PROVE  /\ handed' = handed /\ runs'[j] >= runs[j]
             /\ request[j] # "none" => request'[j] # "none"
  BY <1>0, <1>3 DEF ChatRun, Begin, TypeOK
<1>4. ASSUME NEW w \in Workers, PipelineStep(w)
      PROVE  UNCHANGED <<request, runs, handed>>
  BY <1>4 DEF PipelineStep, WriteStatus, EmitStatus, Call, ExtractParams, FetchJobs, FilterJobs, CallFails, SaveParams, StoreResult,
              StoreFails, EmitCompleted, WriteFailed, EmitFailed, Return, OnlyPipeline
<1>5. ASSUME NEW w \in Workers, Handover(w)
      PROVE  UNCHANGED <<request, runs>> /\ handed'[j] >= handed[j]
  BY <1>0, <1>5 DEF Handover, TypeOK
<1>6. ASSUME \/ \E i \in Jobs : ForwardRetry(i) \/ Recover(i)
             \/ \E w \in Workers : Deadline(w) \/ Crash(w) \/ ProcessExit(w)
             \/ \E s \in Streams : (\E i \in Jobs : Open(s, i)) \/ Subscribe(s) \/ Relay(s) \/ CloseStream(s) \/ Reconnect(s)
             \/ UNCHANGED vars
      PROVE  UNCHANGED <<request, runs, handed>>
  BY <1>6 DEF ForwardRetry, Recover, Deadline, Crash, ProcessExit, Open, Subscribe, Relay, CloseStream, Reconnect, vars
<1>. QED  BY <1>0, <1>1, <1>2, <1>3, <1>4, <1>5, <1>6 DEF Next

\* The ways a row changes in one step.
LEMMA RowChange ==
  ASSUME TypeOK, [Next]_vars, NEW j \in Jobs
  PROVE  \/ row'[j] = row[j]
         \/ request[j] = "none" /\ request'[j] # "none" /\ row'[j] = PendingRow
         \/ \E w \in Workers :
              /\ exec[w].mode # "idle" /\ exec[w].job = j
              /\ \/ row'[j] = InStage(row[j], exec[w].stage)
                 \/ row'[j] = [row[j] EXCEPT !.params = TRUE]
                 \/ row'[j] = Failed(row[j], exec[w].run)
                 \/ row'[j] = Completed(row[j], exec[w].run)
<1>0. \A i, v : row' = [row EXCEPT ![i] = v] => row'[j] = IF i = j THEN v ELSE row[j]
  BY DEF TypeOK
<1>1. ASSUME NEW i \in Jobs, CreateRow(i)
      PROVE  \/ row'[j] = row[j]
             \/ request[j] = "none" /\ request'[j] # "none" /\ row'[j] = PendingRow
  <2>1. /\ request[i] = "none" /\ request' = [request EXCEPT ![i] = "created"]
        /\ row' = [row EXCEPT ![i] = PendingRow]
    BY <1>1 DEF CreateRow
  <2>2. request'[i] # "none"
    BY <2>1 DEF TypeOK
  <2>3. row'[j] = IF i = j THEN PendingRow ELSE row[j]
    BY <1>0, <2>1
  <2>. QED  BY <2>1, <2>2, <2>3
<1>2. ASSUME NEW w \in Workers, NEW i \in Jobs, ChatRun(w, i)
      PROVE  \/ row'[j] = row[j]
             \/ request[j] = "none" /\ request'[j] # "none" /\ row'[j] = PendingRow
  <2>1. /\ request[i] = "none" /\ request' = [request EXCEPT ![i] = "chat"]
        /\ row' = [row EXCEPT ![i] = PendingRow]
    BY <1>2 DEF ChatRun
  <2>2. request'[i] # "none"
    BY <2>1 DEF TypeOK
  <2>3. row'[j] = IF i = j THEN PendingRow ELSE row[j]
    BY <1>0, <2>1
  <2>. QED  BY <2>1, <2>2, <2>3
<1>3. ASSUME NEW w \in Workers, PipelineStep(w)
      PROVE  \/ row' = row
             \/ /\ exec[w].mode # "idle"
                /\ \/ row' = [row EXCEPT ![exec[w].job] = InStage(@, exec[w].stage)]
                   \/ row' = [row EXCEPT ![exec[w].job] = [@ EXCEPT !.params = TRUE]]
                   \/ row' = [row EXCEPT ![exec[w].job] = Failed(@, exec[w].run)]
                   \/ row' = [row EXCEPT ![exec[w].job] = Completed(@, exec[w].run)]
  BY <1>3 DEF PipelineStep, WriteStatus, EmitStatus, Call, ExtractParams, FetchJobs, FilterJobs, CallFails, SaveParams, StoreResult,
              StoreFails, EmitCompleted, WriteFailed, EmitFailed, Return, Running
<1>4. ASSUME NEW w \in Workers, PipelineStep(w)
      PROVE  \/ row'[j] = row[j]
             \/ /\ exec[w].mode # "idle" /\ exec[w].job = j
                /\ \/ row'[j] = InStage(row[j], exec[w].stage)
                   \/ row'[j] = [row[j] EXCEPT !.params = TRUE]
                   \/ row'[j] = Failed(row[j], exec[w].run)
                   \/ row'[j] = Completed(row[j], exec[w].run)
  <2>1. CASE row' = row
    BY <2>1
  <2>2. CASE row' # row
    <3>1. PICK v : /\ row' = [row EXCEPT ![exec[w].job] = v]
                   /\ \/ v = InStage(row[exec[w].job], exec[w].stage)
                      \/ v = [row[exec[w].job] EXCEPT !.params = TRUE]
                      \/ v = Failed(row[exec[w].job], exec[w].run)
                      \/ v = Completed(row[exec[w].job], exec[w].run)
      BY <1>3, <1>4, <2>2
    <3>2. exec[w].mode # "idle"
      BY <1>3, <1>4, <2>2
    <3>. QED  BY <1>0, <3>1, <3>2
  <2>. QED  BY <2>1, <2>2
<1>5. ASSUME \/ \E i \in Jobs : Enqueue(i) \/ EnqueueFails(i) \/ ApiCrash(i) \/ ForwardRetry(i) \/ Recover(i)
             \/ \E w \in Workers, i \in Jobs : Dequeue(w, i)
             \/ \E w \in Workers : Deadline(w) \/ Crash(w) \/ ProcessExit(w) \/ Handover(w)
             \/ \E s \in Streams : (\E i \in Jobs : Open(s, i)) \/ Subscribe(s) \/ Relay(s) \/ CloseStream(s) \/ Reconnect(s)
             \/ UNCHANGED vars
      PROVE  row' = row
  BY <1>5 DEF Enqueue, EnqueueFails, ApiCrash, ForwardRetry, Recover, Dequeue, Deadline, Crash,
              ProcessExit, Handover, Open, Subscribe, Relay, CloseStream, Reconnect, vars
<1>. QED  BY <1>1, <1>2, <1>4, <1>5 DEF Next

\* Once stored, always stored: the step that the whole argument rests on.
LEMMA StoredStable ==
  ASSUME TypeOK, LeaseInv, RowOutcome, [Next]_vars, NEW j \in Jobs, NEW n \in Nat, Stored(j, n)
  PROVE  Stored(j, n)' /\ (handed[j] = 0 => row'[j].result >= row[j].result)
<1>1. row[j] \in Row /\ runs[j] \in Nat /\ handed[j] \in Nat
  BY DEF TypeOK
<1>2. handed'[j] >= handed[j] /\ handed'[j] \in Nat
  <2>1. TypeOK'
    BY TypeStep
  <2>. QED  BY <2>1, Growth, BoundsAssumption DEF TypeOK
<1>3. CASE row'[j] = row[j]
  BY <1>1, <1>2, <1>3 DEF Stored, Row
<1>4. CASE request[j] = "none"
  BY <1>4 DEF RowOutcome, Stored, NoRow
<1>5. ASSUME NEW w \in Workers, exec[w].mode # "idle", exec[w].job = j,
             \/ row'[j] = InStage(row[j], exec[w].stage)
             \/ row'[j] = [row[j] EXCEPT !.params = TRUE]
             \/ row'[j] = Failed(row[j], exec[w].run)
      PROVE  row'[j].result = row[j].result
  BY <1>1, <1>5 DEF InStage, Failed, Row
<1>6. ASSUME NEW w \in Workers, exec[w].mode # "idle", exec[w].job = j,
             row'[j] = Completed(row[j], exec[w].run)
      PROVE  /\ row'[j].result # 0
             /\ handed[j] = 0 => row'[j].result >= row[j].result
  <2>1. row'[j].result = exec[w].run
    BY <1>1, <1>6 DEF Completed, Row
  <2>2. exec[w].run \in 1 .. runs[j] /\ (handed[j] = 0 => exec[w].run = runs[j])
    BY <1>6 DEF LeaseInv, RunIdentity
  <2>. QED  BY <1>1, <2>1, <2>2 DEF RowOutcome, Row
<1>7. row'[j] \in Row
  BY TypeStep DEF TypeOK
<1>. QED  BY <1>1, <1>2, <1>3, <1>4, <1>5, <1>6, <1>7, RowChange DEF Stored, Row

LEMMA RowOutcomeStep == TypeOK /\ LeaseInv /\ RowOutcome /\ [Next]_vars => RowOutcome'
<1>. SUFFICES ASSUME TypeOK, LeaseInv, RowOutcome, [Next]_vars, NEW j \in Jobs
              PROVE  /\ row'[j].result <= runs'[j] /\ row'[j].error <= runs'[j]
                     /\ row'[j].status = "completed" => row'[j].progress = 100 /\ row'[j].result # 0
                     /\ row'[j].status = "failed" => row'[j].error # 0
                     /\ request'[j] = "none" => row'[j] = NoRow
  BY DEF RowOutcome
<1>1. /\ row[j] \in Row /\ runs[j] \in Nat /\ runs'[j] \in Nat /\ runs'[j] >= runs[j]
      /\ request[j] # "none" => request'[j] # "none"
  <2>1. TypeOK'
    BY TypeStep
  <2>. QED  BY <2>1, Growth DEF TypeOK
<1>2. CASE row'[j] = row[j]
  BY <1>1, <1>2 DEF RowOutcome, Row
<1>3. CASE request[j] = "none" /\ request'[j] # "none" /\ row'[j] = PendingRow
  BY <1>1, <1>3 DEF PendingRow, NoRow
<1>4. ASSUME NEW w \in Workers, exec[w].mode # "idle", exec[w].job = j,
             \/ row'[j] = InStage(row[j], exec[w].stage)
             \/ row'[j] = [row[j] EXCEPT !.params = TRUE]
             \/ row'[j] = Failed(row[j], exec[w].run)
             \/ row'[j] = Completed(row[j], exec[w].run)
      PROVE  /\ row'[j].result <= runs'[j] /\ row'[j].error <= runs'[j]
             /\ row'[j].status = "completed" => row'[j].progress = 100 /\ row'[j].result # 0
             /\ row'[j].status = "failed" => row'[j].error # 0
  <2>1. exec[w].run \in 1 .. runs[j] /\ exec[w].stage \in 1 .. 3
    BY <1>4 DEF LeaseInv, RunIdentity, TypeOK, Exec
  <2>2. StageStatus[exec[w].stage] \notin Terminal
    BY <2>1, StageTypes
  <2>3. row[j].result <= runs'[j] /\ row[j].error <= runs'[j] /\ exec[w].run <= runs'[j] /\ exec[w].run # 0
    BY <1>1, <2>1 DEF RowOutcome, Row
  <2>4. CASE row'[j] = InStage(row[j], exec[w].stage)
    BY <1>1, <2>2, <2>3, <2>4 DEF Row, InStage, Terminal
  <2>5. CASE row'[j] = [row[j] EXCEPT !.params = TRUE]
    BY <1>1, <2>3, <2>5 DEF RowOutcome, Row
  <2>6. CASE row'[j] = Failed(row[j], exec[w].run)
    BY <1>1, <2>3, <2>6 DEF Row, Failed
  <2>7. CASE row'[j] = Completed(row[j], exec[w].run)
    BY <1>1, <2>3, <2>7 DEF Row, Completed
  <2>. QED  BY <1>4, <2>4, <2>5, <2>6, <2>7
<1>5. ASSUME NEW w \in Workers, exec[w].mode # "idle", exec[w].job = j
      PROVE  request'[j] # "none"
  BY <1>1, <1>5 DEF LeaseInv, RunIdentity, RunCount
<1>. QED  BY <1>2, <1>3, <1>4, <1>5, RowChange

\* A goroutine gets past SetCompleted only by executing it.
Announcing(w) == exec[w].mode # "idle" /\ exec[w].at \in {"emit_completed", "return_ok"}

LEMMA AnnouncingChange ==
  ASSUME TypeOK, [Next]_vars, NEW w \in Workers, Announcing(w)'
  PROVE  /\ exec[w].mode # "idle"
         /\ exec'[w].job = exec[w].job /\ exec'[w].run = exec[w].run
         /\ Announcing(w) \/ StoreResult(w)
<1>1. CASE exec'[w] = exec[w]
  BY <1>1 DEF Announcing
<1>2. exec'[w] # Idle /\ \A m, i, n : exec'[w] # NewRun(m, i, n)
  BY DEF Announcing, Idle, NewRun
<1>3. \A v, e : exec' = [exec EXCEPT ![v] = e] => exec'[w] = IF v = w THEN e ELSE exec[w]
  BY DEF TypeOK
<1>4. ASSUME NEW v \in Workers, PipelineStep(v), exec'[w] # exec[w]
      PROVE  /\ exec[w].mode # "idle"
             /\ exec'[w].job = exec[w].job /\ exec'[w].run = exec[w].run
             /\ Announcing(w) \/ StoreResult(w)
  <2>1. CASE Return(v)
    BY <1>2, <1>3, <1>4, <2>1 DEF Return
  <2>2. CASE ~ Return(v)
    <3>1. /\ exec'[w].mode = exec[w].mode /\ exec'[w].job = exec[w].job /\ exec'[w].run = exec[w].run
      BY <1>4, <2>2, PipelineFrame DEF SameRuns
    <3>2. v = w
      BY <1>4, <2>2 DEF PipelineStep, WriteStatus, EmitStatus, Call, ExtractParams, FetchJobs, FilterJobs, CallFails, SaveParams, StoreResult,
         StoreFails, EmitCompleted, WriteFailed, EmitFailed, Goto, GotoStage, TypeOK
    <3>3. \A point : Goto(w, point) => exec'[w].at = point
      BY DEF Goto, TypeOK, Exec
    <3>4. \A k : GotoStage(w, k) => exec'[w].at = "write_status"
      BY DEF GotoStage, TypeOK, Exec
    <3>5. StoreResult(w) \/ EmitCompleted(w)
      BY <1>4, <2>2, <3>2, <3>3, <3>4 DEF Announcing, PipelineStep, WriteStatus, EmitStatus, Call, ExtractParams, FetchJobs, FilterJobs, CallFails,
         SaveParams, StoreFails, WriteFailed, EmitFailed
    <3>6. EmitCompleted(w) => Announcing(w)
      BY DEF EmitCompleted, Running, Announcing
    <3>. QED  BY <3>1, <3>5, <3>6 DEF Announcing
  <2>. QED  BY <2>1, <2>2
<1>5. ASSUME NEW v \in Workers, Handover(v)
      PROVE  /\ exec[w].mode # "idle"
             /\ exec'[w].job = exec[w].job /\ exec'[w].run = exec[w].run
             /\ Announcing(w)
  BY <1>5 DEF Handover, Announcing, TypeOK, Exec
<1>6. ASSUME NEW v \in Workers,
             Deadline(v) \/ Crash(v) \/ ProcessExit(v) \/ \E i \in Jobs : Dequeue(v, i) \/ ChatRun(v, i)
      PROVE  exec'[w] = exec[w]
  BY <1>2, <1>3, <1>6 DEF Deadline, Crash, ProcessExit, Dequeue, ChatRun, Begin
<1>7. ASSUME \/ \E i \in Jobs : \/ CreateRow(i) \/ Enqueue(i) \/ EnqueueFails(i) \/ ApiCrash(i)
                                \/ ForwardRetry(i) \/ Recover(i)
             \/ \E s \in Streams : (\E i \in Jobs : Open(s, i)) \/ Subscribe(s) \/ Relay(s) \/ CloseStream(s) \/ Reconnect(s)
             \/ UNCHANGED vars
      PROVE  exec' = exec
  BY <1>7 DEF CreateRow, Enqueue, EnqueueFails, ApiCrash, ForwardRetry, Recover, Open, Subscribe,
              Relay, CloseStream, Reconnect, vars
<1>. QED  BY <1>1, <1>4, <1>5, <1>6, <1>7 DEF Next

LEMMA AnnouncerStep ==
  TypeOK /\ LeaseInv /\ RowOutcome /\ Announcer /\ [Next]_vars => Announcer'
<1>. SUFFICES ASSUME TypeOK, LeaseInv, RowOutcome, Announcer, [Next]_vars,
                     NEW w \in Workers, Announcing(w)'
              PROVE  Stored(exec[w].job, exec[w].run)'
  BY AnnouncingChange DEF Announcer, Announcing
<1>. DEFINE j == exec[w].job  n == exec[w].run
<1>1. exec'[w].job = j /\ exec'[w].run = n /\ exec[w].mode # "idle"
  BY AnnouncingChange
<1>2. j \in Jobs /\ n \in 1 .. runs[j] /\ n \in Nat /\ runs[j] \in Nat
  BY <1>1 DEF LeaseInv, RunIdentity, TypeOK, Exec
<1>3. CASE Announcing(w)
  BY <1>1, <1>2, <1>3, StoredStable DEF Announcer, Announcing, Stored
<1>4. CASE StoreResult(w)
  <2>1. row[j] \in Row
    BY <1>2 DEF TypeOK
  <2>2. row'[j] = Completed(row[j], n)
    BY <1>2, <1>4 DEF StoreResult, TypeOK
  <2>3. row'[j].result = n
    BY <2>1, <2>2 DEF Completed, Row
  <2>. QED  BY <1>1, <1>2, <2>3 DEF Stored
<1>. QED  BY <1>3, <1>4, AnnouncingChange

---------------------------------------------------------------------------
(***************************************************************************)
(* The connections.                                                        *)
(***************************************************************************)
\* What w's next event would be, and what delivering e does to a connection.
EventOf(w, kind) == [run |-> exec[w].run, kind |-> kind]
Hears(st, e) == [st EXCEPT !.inbox = Append(@, e)]

\* The three kinds of event runCore emits, each with the step it is.  A chat
\* run's go elsewhere.
Emission(w, kind) ==
  /\ exec[w].mode \notin {"idle", "chat"}
  /\ \/ exec[w].at = "emit_status" /\ kind = StageStatus[exec[w].stage] /\ Goto(w, "call")
     \/ exec[w].at = "emit_completed" /\ kind = "completed" /\ Goto(w, "return_ok")
     \/ exec[w].at = "emit_failed" /\ kind = "failed" /\ Goto(w, "return_err")

\* A connection hears of its own job only.
HearsFrom(s, w) ==
  \E kind \in Kinds :
    /\ Emission(w, kind) /\ stream[s].at = "open" /\ stream[s].job = exec[w].job
    /\ stream'[s] = Hears(stream[s], EventOf(w, kind))

\* "completed" is only said by a goroutine that has executed SetCompleted.
LEMMA EmissionKind ==
  ASSUME TypeOK, NEW w \in Workers, NEW kind, Emission(w, kind)
  PROVE  /\ kind \in Kinds /\ exec[w].mode # "idle"
         /\ kind = "completed" => exec[w].at = "emit_completed"
<1>1. StageStatus[exec[w].stage] \in Kinds \ Terminal
  BY StageTypes DEF TypeOK, Exec
<1>. QED  BY <1>1 DEF Emission, Kinds, Terminal

LEMMA PublishReaches ==
  ASSUME TypeOK, NEW w \in Workers, NEW kind, exec[w].mode # "idle", Publish(w, kind),
         exec[w].mode # "chat" => Emission(w, kind), NEW s \in Streams
  PROVE  stream'[s] = stream[s] \/ HearsFrom(s, w)
<1>1. CASE exec[w].mode = "chat"
  BY <1>1 DEF Publish, Deliver
<1>2. ASSUME NEW reached \in SUBSET Subscribed(exec[w].job), Deliver(reached, EventOf(w, kind)),
             exec[w].mode # "chat"
      PROVE  stream'[s] = stream[s] \/ HearsFrom(s, w)
  <2>1. stream'[s] = IF s \in reached THEN Hears(stream[s], EventOf(w, kind)) ELSE stream[s]
    BY <1>2 DEF Deliver, Hears
  <2>2. s \in reached => stream[s].at = "open" /\ stream[s].job = exec[w].job
    BY <1>2 DEF Subscribed
  <2>. QED  BY <1>2, <2>1, <2>2, EmissionKind DEF HearsFrom
<1>3. exec[w].mode # "chat" =>
        \E reached \in SUBSET Subscribed(exec[w].job) : Deliver(reached, EventOf(w, kind))
  BY DEF Publish, EventOf
<1>. QED  BY <1>1, <1>2, <1>3

LEMMA PipelineHears ==
  ASSUME TypeOK, NEW w \in Workers, PipelineStep(w), NEW s \in Streams
  PROVE  stream'[s] = stream[s] \/ HearsFrom(s, w)
<1>1. CASE EmitStatus(w)
  BY <1>1, PublishReaches DEF EmitStatus, Running, Emission
<1>2. CASE EmitCompleted(w)
  BY <1>2, PublishReaches DEF EmitCompleted, Running, Emission
<1>3. CASE EmitFailed(w)
  BY <1>3, PublishReaches DEF EmitFailed, Running, Emission
<1>4. CASE ~ (EmitStatus(w) \/ EmitCompleted(w) \/ EmitFailed(w))
  BY <1>4 DEF PipelineStep, WriteStatus, Call, ExtractParams, FetchJobs, FilterJobs, CallFails, SaveParams, StoreResult, StoreFails,
                    WriteFailed, Return
<1>. QED  BY <1>1, <1>2, <1>3, <1>4

\* The ways a connection changes in one step.
LEMMA StreamChange ==
  ASSUME TypeOK, [Next]_vars, NEW s \in Streams
  PROVE  \/ stream'[s] = stream[s]
         \/ \E w \in Workers : HearsFrom(s, w)
         \/ \E j \in Jobs : stream[s].at = "idle" /\ row' = row /\ stream'[s] = Opened(j)
         \/ stream[s].at = "subscribing" /\ stream'[s] = [stream[s] EXCEPT !.at = "open"]
         \/ /\ stream[s].at \in {"subscribing", "open"} /\ row' = row
            /\ stream'[s] = [stream[s] EXCEPT !.at = "closed"]
         \/ /\ stream[s].at = "open" /\ stream[s].inbox # <<>> /\ row' = row
            /\ stream'[s] = Relayed(stream[s])
         \/ stream'[s] = NoStream
<1>0. \A t, v : stream' = [stream EXCEPT ![t] = v] => stream'[s] = IF t = s THEN v ELSE stream[s]
  BY DEF TypeOK
<1>1. ASSUME NEW w \in Workers, PipelineStep(w)
      PROVE  stream'[s] = stream[s] \/ HearsFrom(s, w)
  BY <1>1, PipelineHears
<1>2. ASSUME NEW t \in Streams, NEW j \in Jobs, Open(t, j)
      PROVE  \/ stream'[s] = stream[s]
             \/ stream[s].at = "idle" /\ row' = row /\ stream'[s] = Opened(j)
  BY <1>0, <1>2 DEF Open
<1>3. ASSUME NEW t \in Streams, Subscribe(t)
      PROVE  \/ stream'[s] = stream[s]
             \/ stream[s].at = "subscribing" /\ stream'[s] = [stream[s] EXCEPT !.at = "open"]
  <2>. DEFINE v == [stream[t] EXCEPT !.at = "open"]
  <2>1. stream[t].at = "subscribing" /\ stream' = [stream EXCEPT ![t] = v]
    BY <1>3 DEF Subscribe
  <2>2. stream'[s] = IF t = s THEN v ELSE stream[s]
    BY <1>0, <2>1
  <2>. QED  BY <2>1, <2>2
<1>4. ASSUME NEW t \in Streams, CloseStream(t)
      PROVE  \/ stream'[s] = stream[s]
             \/ /\ stream[s].at \in {"subscribing", "open"} /\ row' = row
                /\ stream'[s] = [stream[s] EXCEPT !.at = "closed"]
  <2>. DEFINE v == [stream[t] EXCEPT !.at = "closed"]
  <2>1. stream[t].at \in {"subscribing", "open"} /\ row' = row /\ stream' = [stream EXCEPT ![t] = v]
    BY <1>4 DEF CloseStream
  <2>2. stream'[s] = IF t = s THEN v ELSE stream[s]
    BY <1>0, <2>1
  <2>. QED  BY <2>1, <2>2
<1>5. ASSUME NEW t \in Streams, Relay(t)
      PROVE  \/ stream'[s] = stream[s]
             \/ /\ stream[s].at = "open" /\ stream[s].inbox # <<>> /\ row' = row
                /\ stream'[s] = Relayed(stream[s])
  BY <1>0, <1>5 DEF Relay
<1>6. ASSUME NEW t \in Streams, Reconnect(t)
      PROVE  stream'[s] = stream[s] \/ stream'[s] = NoStream
  BY <1>0, <1>6 DEF Reconnect
<1>7. ASSUME \/ \E j \in Jobs : \/ CreateRow(j) \/ Enqueue(j) \/ EnqueueFails(j) \/ ApiCrash(j)
                                \/ ForwardRetry(j) \/ Recover(j)
             \/ \E w \in Workers, j \in Jobs : Dequeue(w, j) \/ ChatRun(w, j)
             \/ \E w \in Workers : Deadline(w) \/ Crash(w) \/ Handover(w) \/ ProcessExit(w)
             \/ UNCHANGED vars
      PROVE  stream' = stream
  BY <1>7 DEF CreateRow, Enqueue, EnqueueFails, ApiCrash, ForwardRetry, Recover, Dequeue, ChatRun,
              Deadline, Crash, Handover, ProcessExit, vars
<1>. QED  BY <1>1, <1>2, <1>3, <1>4, <1>5, <1>6, <1>7 DEF Next

\* What was backed stays backed, whatever happens to the row.
LEMMA StoredRunsGrow ==
  ASSUME TypeOK, LeaseInv, RowOutcome, [Next]_vars, NEW j \in Jobs
  PROVE  StoredRuns(row[j], handed[j]) \subseteq StoredRuns(row'[j], handed'[j])
BY StoredStable DEF StoredRuns, Stored

LEMMA BackedMore ==
  ASSUME NEW S, NEW T, S \subseteq T, NEW q, Backed(S, q)
  PROVE  Backed(T, q)
BY DEF Backed

LEMMA BackedAppend ==
  ASSUME NEW S, NEW q \in Seq(Event), NEW e \in Event, Backed(S, q),
         e.kind = "completed" => e.run \in S
  PROVE  Backed(S, Append(q, e))
<1>. SUFFICES ASSUME NEW i \in 1 .. Len(Append(q, e)), Append(q, e)[i].kind = "completed"
              PROVE  Append(q, e)[i].run \in S
  BY DEF Backed
<1>1. CASE i \in 1 .. Len(q)
  <2>1. Append(q, e)[i] = q[i]
    BY <1>1
  <2>. QED  BY <1>1, <2>1 DEF Backed
<1>2. CASE i = Len(q) + 1
  <2>1. Append(q, e)[i] = e
    BY <1>2
  <2>. QED  BY <2>1
<1>3. i \in 1 .. Len(q) \/ i = Len(q) + 1
  <2>1. Len(Append(q, e)) = Len(q) + 1 /\ Len(q) \in Nat
    OBVIOUS
  <2>. QED  BY <2>1
<1>. QED  BY <1>1, <1>2, <1>3

LEMMA BackedTail ==
  ASSUME NEW S, NEW q \in Seq(Event), q # <<>>, Backed(S, q)
  PROVE  /\ Backed(S, Tail(q))
         /\ Head(q).kind = "completed" => Head(q).run \in S
<1>1. Head(q) = q[1] /\ 1 \in 1 .. Len(q)
  OBVIOUS
<1>2. \A i \in 1 .. Len(Tail(q)) : i + 1 \in 1 .. Len(q) /\ Tail(q)[i] = q[i + 1]
  OBVIOUS
<1>. QED  BY <1>1, <1>2 DEF Backed

LEMMA ConcatIndex ==
  ASSUME NEW S, NEW f \in Seq(S), NEW b \in Seq(S), NEW i \in 1 .. Len(f \o b)
  PROVE  \/ i \in 1 .. Len(f) /\ (f \o b)[i] = f[i]
         \/ i - Len(f) \in 1 .. Len(b) /\ (f \o b)[i] = b[i - Len(f)]
<1>1. Len(f \o b) = Len(f) + Len(b) /\ Len(f) \in Nat /\ Len(b) \in Nat
  OBVIOUS
<1>2. CASE i <= Len(f)
  <2>1. (f \o b)[i] = f[i]
    BY <1>2
  <2>. QED  BY <1>1, <1>2, <2>1
<1>3. CASE i > Len(f)
  <2>1. (f \o b)[i] = b[i - Len(f)]
    BY <1>3
  <2>. QED  BY <1>1, <1>3, <2>1
<1>. QED  BY <1>1, <1>2, <1>3

LEMMA LastKindAppend ==
  ASSUME NEW q \in Seq(Event), NEW e \in Event
  PROVE  LastKind(Append(q, e)) = IF e.kind \in Terminal THEN e.kind ELSE "progress"
<1>1. Append(q, e) # <<>> /\ Append(q, e)[Len(Append(q, e))] = e
  OBVIOUS
<1>. QED  BY <1>1 DEF LastKind

\* The frame a client gets that opens a stream for a decided job.
LEMMA SnapshotBacked ==
  ASSUME TypeOK, RowOutcome, NEW j \in Jobs, row[j].status \in Terminal
  PROVE  /\ Backed(StoredRuns(row[j], handed[j]), Snapshot(row[j]))
         /\ LastKind(Snapshot(row[j])) = row[j].status
<1>. DEFINE e == [run |-> IF row[j].status = "completed" THEN row[j].result ELSE row[j].error,
                  kind |-> row[j].status]
<1>1. row[j] \in Row
  BY DEF TypeOK
<1>2. Snapshot(row[j]) = <<e>>
  BY DEF Snapshot
<1>3. e.kind = "completed" => e.run \in StoredRuns(row[j], handed[j])
  BY <1>1 DEF RowOutcome, StoredRuns, Row
<1>4. e.kind = row[j].status
  OBVIOUS
<1>. HIDE DEF e
<1>5. Backed(StoredRuns(row[j], handed[j]), <<e>>)
  BY <1>3 DEF Backed
<1>6. LastKind(<<e>>) = row[j].status
  BY <1>4 DEF LastKind
<1>. QED  BY <1>2, <1>5, <1>6

LEMMA HeardStep ==
  TypeOK /\ LeaseInv /\ RowOutcome /\ Announcer /\ Heard /\ [Next]_vars => Heard'
<1>. DEFINE Runs(j) == StoredRuns(row[j], handed[j])
            RunsAfter(j) == StoredRuns(row'[j], handed'[j])
            Good(st) == /\ Backed(RunsAfter(st.job), st.frames) /\ Backed(RunsAfter(st.job), st.inbox)
                        /\ st.at = "idle" => st = NoStream
                        /\ st.at # "idle" => st.job \in Jobs
                        /\ st.at # "closed" => LastKind(st.frames) \notin Terminal
<1>. SUFFICES ASSUME TypeOK, LeaseInv, RowOutcome, Announcer, Heard, [Next]_vars, NEW s \in Streams
              PROVE  Good(stream'[s])
  BY DEF Heard
<1>0. PICK st : st = stream[s]
  OBVIOUS
<1>1. /\ st \in Stream /\ st.frames \in Seq(Event) /\ st.inbox \in Seq(Event)
      /\ Backed(Runs(st.job), st.frames) /\ Backed(Runs(st.job), st.inbox)
      /\ st.at = "idle" => st = NoStream
      /\ st.at # "idle" => st.job \in Jobs
      /\ st.at # "closed" => LastKind(st.frames) \notin Terminal
  BY <1>0 DEF TypeOK, Stream, Heard
<1>2. \A j \in Jobs : Runs(j) \subseteq RunsAfter(j)
  BY StoredRunsGrow
<1>3. Good(st)
  <2>1. CASE st.at = "idle"
    BY <1>1, <2>1 DEF Backed, NoStream
  <2>2. CASE st.at # "idle"
    BY <1>1, <1>2, <2>2, BackedMore
  <2>. QED  BY <2>1, <2>2
<1>4. ASSUME NEW w \in Workers, HearsFrom(s, w)
      PROVE  Good(stream'[s])
  <2>1. PICK kind \in Kinds :
          /\ exec[w].mode # "idle" /\ st.at = "open" /\ st.job = exec[w].job
          /\ stream'[s] = Hears(st, EventOf(w, kind))
          /\ kind = "completed" => exec[w].at = "emit_completed"
    BY <1>0, <1>4, EmissionKind DEF HearsFrom
  <2>2. PICK e : e = EventOf(w, kind)
    OBVIOUS
  <2>3. e \in Event /\ e.kind = kind /\ e.run = exec[w].run
    BY <2>2 DEF EventOf, Event, TypeOK, Exec
  <2>4. e.kind = "completed" => e.run \in Runs(st.job)
    BY <2>1, <2>3 DEF Announcer, Stored, StoredRuns, Event
  <2>5. Backed(Runs(st.job), Append(st.inbox, e))
    BY <1>1, <2>3, <2>4, BackedAppend
  <2>6. Hears(st, e).at = "open" /\ Hears(st, e).job = st.job /\ Hears(st, e).frames = st.frames
        /\ Hears(st, e).inbox = Append(st.inbox, e)
    BY <1>1, <2>1 DEF Hears, Stream
  <2>7. Backed(RunsAfter(st.job), Append(st.inbox, e))
    BY <1>1, <1>2, <2>1, <2>5, BackedMore
  <2>. QED  BY <1>1, <1>3, <2>1, <2>2, <2>6, <2>7
<1>5. ASSUME NEW j \in Jobs, row' = row, stream'[s] = Opened(j)
      PROVE  Good(stream'[s])
  <2>1. CASE row[j].status \in Terminal
    <3>1. Backed(Runs(j), Snapshot(row[j]))
      BY <2>1, SnapshotBacked
    <3>2. Backed(RunsAfter(j), Snapshot(row[j]))
      BY <1>2, <3>1, BackedMore
    <3>. QED  BY <1>5, <2>1, <3>2 DEF Opened, NoStream, Backed
  <2>2. CASE row[j].status \notin Terminal
    BY <1>5, <2>2 DEF Opened, NoStream, Backed, LastKind, Terminal
  <2>. QED  BY <2>1, <2>2
<1>6. ASSUME stream'[s] = [st EXCEPT !.at = "open"], st.at = "subscribing"
      PROVE  Good(stream'[s])
  BY <1>1, <1>3, <1>6 DEF Stream
<1>7. ASSUME stream'[s] = [st EXCEPT !.at = "closed"], st.at \in {"subscribing", "open"}
      PROVE  Good(stream'[s])
  BY <1>1, <1>3, <1>7 DEF Stream
<1>8. ASSUME st.at = "open", st.inbox # <<>>, stream'[s] = Relayed(st)
      PROVE  Good(stream'[s])
  <2>1. PICK e : e = Head(st.inbox)
    OBVIOUS
  <2>2. e \in Event
    BY <1>1, <1>8, <2>1, RelayedType
  <2>3. /\ Relayed(st).job = st.job /\ Relayed(st).inbox = Tail(st.inbox)
        /\ Relayed(st).frames = Append(st.frames, e)
        /\ Relayed(st).at = IF e.kind \in Terminal THEN "closed" ELSE "open"
    BY <1>1, <2>1 DEF Relayed, EndsStream, Stream
  <2>4. /\ Backed(Runs(st.job), Tail(st.inbox))
        /\ e.kind = "completed" => e.run \in Runs(st.job)
    BY <1>1, <1>8, <2>1, BackedTail
  <2>5. Backed(Runs(st.job), Append(st.frames, e))
    BY <1>1, <2>2, <2>4, BackedAppend
  <2>6. Backed(RunsAfter(st.job), Append(st.frames, e)) /\ Backed(RunsAfter(st.job), Tail(st.inbox))
    BY <1>1, <1>2, <1>8, <2>4, <2>5, BackedMore
  <2>7. Relayed(st).at # "closed" => LastKind(Append(st.frames, e)) \notin Terminal
    BY <1>1, <2>2, <2>3, LastKindAppend DEF Terminal
  <2>. QED  BY <1>1, <1>8, <2>3, <2>6, <2>7
<1>9. ASSUME stream'[s] = NoStream
      PROVE  Good(stream'[s])
  BY <1>9 DEF NoStream, Backed, LastKind, Terminal
<1>. QED  BY <1>0, <1>3, <1>4, <1>5, <1>6, <1>7, <1>8, <1>9, StreamChange

\* The inductive invariant of this part holds in every reachable state.
THEOREM StoreCorrect == Spec => [](TypeOK /\ LeaseInv /\ StoreInv)
<1>1. Init => StoreInv
  BY DEF Init, StoreInv, RowOutcome, NoRow, Announcer, Idle, NewRun, Heard, Backed, NoStream, LastKind, Terminal
<1>2. TypeOK /\ LeaseInv /\ StoreInv /\ [Next]_vars => StoreInv'
  BY RowOutcomeStep, AnnouncerStep, HeardStep DEF StoreInv
<1>. QED  BY <1>1, <1>2, LeaseCorrect, PTL DEF Spec

\* A completed row has its result and a failed row its error, of a run that
\* took place, in every interleaving of runs, retries and failed writes.
THEOREM RowsBackTheirStatus == Spec => []RowBacksStatus
<1>1. TypeOK /\ StoreInv => RowBacksStatus
  <2>. SUFFICES ASSUME TypeOK, RowOutcome, NEW j \in Jobs
                PROVE  /\ row[j].status = "completed" => row[j].progress = 100 /\ row[j].result \in 1 .. runs[j]
                       /\ row[j].status = "failed" => row[j].error \in 1 .. runs[j]
    BY DEF RowBacksStatus, StoreInv
  <2>1. row[j] \in Row /\ runs[j] \in Nat
    BY DEF TypeOK
  <2>2. row[j].result \in Nat /\ row[j].error \in Nat
    BY <2>1 DEF Row
  <2>. QED  BY <2>1, <2>2 DEF RowOutcome
<1>. QED  BY <1>1, StoreCorrect, PTL

\* A stored result is never lost, and without a shutdown handover never
\* replaced by an older run's.
THEOREM ResultsKept == Spec => ResultKept
<1>1. TypeOK /\ LeaseInv /\ StoreInv /\ [Next]_vars =>
        [\A j \in Jobs : row[j].result # 0 =>
           /\ row'[j].result # 0
           /\ handed[j] = 0 => row'[j].result >= row[j].result]_vars
  <2>. SUFFICES ASSUME TypeOK, LeaseInv, RowOutcome, [Next]_vars, NEW j \in Jobs, row[j].result # 0
                PROVE  /\ row'[j].result # 0
                       /\ handed[j] = 0 => row'[j].result >= row[j].result
    BY DEF StoreInv
  <2>1. row[j].result \in Nat
    BY DEF TypeOK, Row
  <2>2. Stored(j, 0)
    BY <2>1 DEF Stored
  <2>3. Stored(j, 0)' /\ (handed[j] = 0 => row'[j].result >= row[j].result)
    BY <2>2, StoredStable
  <2>. QED  BY <2>3 DEF Stored
<1>. QED  BY <1>1, StoreCorrect, PTL DEF Spec, ResultKept

\* Whoever is told "completed" can read a result back, from then on.
THEOREM AnnouncementsStored == Spec => []AnnouncedIsStored
<1>1. TypeOK /\ StoreInv => AnnouncedIsStored
  <2>. SUFFICES ASSUME TypeOK, Heard, NEW s \in Streams,
                       NEW i \in 1 .. Len(stream[s].frames \o stream[s].inbox),
                       (stream[s].frames \o stream[s].inbox)[i].kind = "completed"
                PROVE  Stored(stream[s].job, (stream[s].frames \o stream[s].inbox)[i].run)
    BY DEF AnnouncedIsStored, StoreInv, Stored
  <2>. DEFINE F == stream[s].frames  B == stream[s].inbox
  <2>1. F \in Seq(Event) /\ B \in Seq(Event)
    BY DEF TypeOK, Stream
  <2>2. Backed(StoredRuns(row[stream[s].job], handed[stream[s].job]), F)
        /\ Backed(StoredRuns(row[stream[s].job], handed[stream[s].job]), B)
    BY DEF Heard
  <2>3. \/ i \in 1 .. Len(F) /\ (F \o B)[i] = F[i]
        \/ i - Len(F) \in 1 .. Len(B) /\ (F \o B)[i] = B[i - Len(F)]
    BY <2>1, ConcatIndex
  <2>. QED  BY <2>2, <2>3 DEF Backed, StoredRuns, Stored
<1>. QED  BY <1>1, StoreCorrect, PTL

---------------------------------------------------------------------------
(***************************************************************************)
(* The order of what a connection hears.                                   *)
(***************************************************************************)
\* All that was delivered to a connection, shown or still buffered.
Delivered(st) == st.frames \o st.inbox

\* The rank of the last event a goroutine has emitted, or may have: nothing
\* from the end of the stage on but a verdict is left to it.
Emitted(x) ==
  IF x.at \in {"write_status", "emit_status"} THEN x.stage - 1
  ELSE IF x.at \in {"call", "save_params"} THEN x.stage
  ELSE IF x.at \in {"return_ok", "return_err"} THEN 4 ELSE 3

Positions == \A w \in Workers : exec[w].at = "save_params" => exec[w].stage = 1

\* A run is executed by one goroutine.
RunsDistinct ==
  \A v, w \in Workers :
    exec[v].mode # "idle" /\ exec[v].job = exec[w].job /\ exec[v].run = exec[w].run => v = w

\* Within a run the ranks rise, and the runs themselves do not go back.
RanksRise(q) == \A i, k \in 1 .. Len(q) : i < k /\ q[i].run = q[k].run => Rank(q[i].kind) < Rank(q[k].kind)
RunsRise(q) == \A i, k \in 1 .. Len(q) : i < k => q[i].run <= q[k].run
RunsUpTo(q, n) == \A i \in 1 .. Len(q) : q[i].run <= n
RanksUpTo(q, n, r) == \A i \in 1 .. Len(q) : q[i].run = n => Rank(q[i].kind) <= r

\* Frames that are shown while more may follow hold no verdict.
OpenEnded(st) ==
  \A i \in 1 .. Len(st.frames) :
    st.frames[i].kind \in Terminal => i = Len(st.frames) /\ st.at = "closed"

InOrder ==
  \A s \in Streams :
    LET st == stream[s]  q == Delivered(st)  j == st.job IN
    /\ st.at \in {"idle", "subscribing"} => q = <<>>
    /\ j \in Jobs => RunsUpTo(q, runs[j])
    /\ RanksRise(q)
    /\ handed[j] = 0 => RunsRise(q)
    /\ OpenEnded(st)
    /\ st.at = "open" => \A w \in Workers : exec[w].mode # "idle" /\ exec[w].job = j =>
         RanksUpTo(q, exec[w].run, Emitted(exec[w]))

OrderInv == Positions /\ RunsDistinct /\ InOrder

LEMMA EventRank ==
  ASSUME NEW e \in Event
  PROVE  /\ Rank(e.kind) \in 1 .. 4
         /\ e.kind \in Terminal <=> Rank(e.kind) = 4
BY DEF Event, Kinds, Terminal, Rank

LEMMA StageRank ==
  ASSUME NEW k \in 1 .. 3
  PROVE  Rank(StageStatus[k]) = k
<1>1. k = 1 \/ k = 2 \/ k = 3
  OBVIOUS
<1>. QED  BY <1>1 DEF StageStatus, Rank

\* A message moves from the buffer to the frames without changing their whole.
LEMMA ConcatAppend ==
  ASSUME NEW S, NEW f \in Seq(S), NEW b \in Seq(S), NEW e \in S
  PROVE  f \o Append(b, e) = Append(f \o b, e)
<1>0. <<e>> \in Seq(S)
  OBVIOUS
<1>1. PICK one \in Seq(S) : one = <<e>>
  BY <1>0
<1>2. f \o b \in Seq(S)
  BY ConcatProperties
<1>3. Append(b, e) = b \o one
  BY <1>1, AppendIsConcat
<1>4. Append(f \o b, e) = (f \o b) \o one
  BY <1>1, <1>2, AppendIsConcat
<1>5. (f \o b) \o one = f \o (b \o one)
  BY <1>1, ConcatAssociative
<1>. QED  BY <1>3, <1>4, <1>5

LEMMA ConcatMove ==
  ASSUME NEW S, NEW f \in Seq(S), NEW b \in Seq(S), b # <<>>
  PROVE  Append(f, Head(b)) \o Tail(b) = f \o b
<1>1. /\ Head(b) \in S /\ Head(b) = b[1] /\ Tail(b) \in Seq(S) /\ Len(Tail(b)) = Len(b) - 1
      /\ \A i \in 1 .. Len(Tail(b)) : Tail(b)[i] = b[i + 1]
  BY HeadTailProperties
<1>2. PICK t \in Seq(S) : t = Tail(b)
  BY <1>1
<1>a. Append(f, Head(b)) \in Seq(S)
  BY <1>1, AppendProperties
<1>3. PICK g \in Seq(S) : g = Append(f, Head(b))
  BY <1>a
<1>4. /\ Len(g) = Len(f) + 1 /\ g[Len(f) + 1] = b[1] /\ \A i \in 1 .. Len(f) : g[i] = f[i]
      /\ Len(f) \in Nat /\ Len(b) \in Nat
  BY <1>1, <1>3, AppendProperties, LenProperties
<1>5. /\ g \o t \in Seq(S) /\ Len(g \o t) = Len(g) + Len(t)
      /\ \A i \in 1 .. Len(g) + Len(t) : (g \o t)[i] = IF i <= Len(g) THEN g[i] ELSE t[i - Len(g)]
  BY ConcatProperties
<1>6. /\ f \o b \in Seq(S) /\ Len(f \o b) = Len(f) + Len(b)
      /\ \A i \in 1 .. Len(f) + Len(b) : (f \o b)[i] = IF i <= Len(f) THEN f[i] ELSE b[i - Len(f)]
  BY ConcatProperties
<1>7. ASSUME NEW i \in 1 .. Len(f) + Len(b) PROVE (g \o t)[i] = (f \o b)[i]
  <2>1. i \in 1 .. Len(g) + Len(t)
    BY <1>1, <1>2, <1>4
  <2>2. CASE i <= Len(f)
    BY <1>4, <1>5, <1>6, <2>1, <2>2
  <2>3. CASE i = Len(f) + 1
    BY <1>4, <1>5, <1>6, <2>1, <2>3
  <2>4. CASE i > Len(f) + 1
    <3>1. i - Len(g) \in 1 .. Len(t) /\ (i - Len(g)) + 1 = i - Len(f)
      BY <1>1, <1>2, <1>4, <2>4
    <3>2. t[i - Len(g)] = b[i - Len(f)]
      BY <1>1, <1>2, <3>1
    <3>. QED  BY <1>4, <1>5, <1>6, <2>1, <2>4, <3>2
  <2>5. i <= Len(f) \/ i = Len(f) + 1 \/ i > Len(f) + 1
    BY <1>4
  <2>. QED  BY <2>2, <2>3, <2>4, <2>5
<1>8. Len(g \o t) = Len(f \o b)
  BY <1>1, <1>2, <1>4, <1>5, <1>6
<1>9. g \o t = f \o b
  BY <1>5, <1>6, <1>7, <1>8, SeqEqual
<1>. QED  BY <1>2, <1>3, <1>9

LEMMA DeliveredHears ==
  ASSUME NEW st \in Stream, NEW e \in Event
  PROVE  /\ Hears(st, e) \in Stream
         /\ Delivered(Hears(st, e)) = Append(Delivered(st), e)
         /\ Hears(st, e).frames = st.frames /\ Hears(st, e).job = st.job /\ Hears(st, e).at = st.at
<1>1. st.frames \in Seq(Event) /\ st.inbox \in Seq(Event) /\ Append(st.inbox, e) \in Seq(Event)
  BY DEF Stream
<1>2. st.frames \o Append(st.inbox, e) = Append(st.frames \o st.inbox, e)
  <2>1. \A f, b \in Seq(Event) : f \o Append(b, e) = Append(f \o b, e)
    BY ConcatAppend
  <2>. QED  BY <1>1, <2>1
<1>3. /\ Hears(st, e).inbox = Append(st.inbox, e)
      /\ Hears(st, e).frames = st.frames /\ Hears(st, e).job = st.job /\ Hears(st, e).at = st.at
  BY DEF Hears, Stream
<1>4. Hears(st, e) \in Stream
  BY <1>1 DEF Hears, Stream
<1>. QED  BY <1>2, <1>3, <1>4 DEF Delivered

LEMMA DeliveredRelayed ==
  ASSUME NEW st \in Stream, st.inbox # <<>>
  PROVE  /\ Delivered(Relayed(st)) = Delivered(st)
         /\ Relayed(st).job = st.job /\ Relayed(st).frames = Append(st.frames, Head(st.inbox))
         /\ Relayed(st).at = IF Head(st.inbox).kind \in Terminal THEN "closed" ELSE "open"
<1>1. st.frames \in Seq(Event) /\ st.inbox \in Seq(Event)
  BY DEF Stream
<1>2. Append(st.frames, Head(st.inbox)) \o Tail(st.inbox) = st.frames \o st.inbox
  BY <1>1, ConcatMove
<1>3. /\ Relayed(st).inbox = Tail(st.inbox) /\ Relayed(st).frames = Append(st.frames, Head(st.inbox))
      /\ Relayed(st).job = st.job
      /\ Relayed(st).at = IF Head(st.inbox).kind \in Terminal THEN "closed" ELSE "open"
  BY DEF Relayed, Stream, EndsStream
<1>. QED  BY <1>2, <1>3 DEF Delivered

\* One more event keeps a sequence in order if nothing in it outranks it.
LEMMA OrderAppend ==
  ASSUME NEW q \in Seq(Event), NEW e \in Event, RanksRise(q), RanksUpTo(q, e.run, Rank(e.kind) - 1)
  PROVE  /\ Append(q, e) \in Seq(Event)
         /\ RanksRise(Append(q, e))
         /\ RanksUpTo(Append(q, e), e.run, Rank(e.kind))
         /\ \A n, r \in Nat : n # e.run /\ RanksUpTo(q, n, r) => RanksUpTo(Append(q, e), n, r)
         /\ \A n \in Nat : e.run <= n /\ RunsUpTo(q, n) => RunsUpTo(Append(q, e), n)
         /\ RunsRise(q) /\ RunsUpTo(q, e.run) => RunsRise(Append(q, e))
<1>. DEFINE a == Append(q, e)
<1>1. /\ a \in Seq(Event) /\ Len(q) \in Nat /\ Len(a) = Len(q) + 1 /\ a[Len(a)] = e
      /\ \A i \in 1 .. Len(q) : a[i] = q[i]
  OBVIOUS
<1>2. \A i \in 1 .. Len(q) : q[i] \in Event
  BY ElementOfSeq
<1>3. e.run \in Nat /\ Rank(e.kind) \in Nat /\ \A i \in 1 .. Len(q) : Rank(q[i].kind) \in Nat /\ q[i].run \in Nat
  <2>1. \A d \in Event : d.run \in Nat /\ Rank(d.kind) \in Nat
    <3>1. \A d \in Event : d.run \in Nat
      BY DEF Event
    <3>. QED  BY <3>1, EventRank
  <2>. QED  BY <1>2, <2>1
<1>. HIDE DEF a
<1>4. RanksRise(a)
  <2>. SUFFICES ASSUME NEW i \in 1 .. Len(a), NEW k \in 1 .. Len(a), i < k, a[i].run = a[k].run
                PROVE  Rank(a[i].kind) < Rank(a[k].kind)
    BY DEF RanksRise
  <2>1. i \in 1 .. Len(q) /\ a[i] = q[i]
    BY <1>1
  <2>2. CASE k \in 1 .. Len(q)
    BY <1>1, <2>1, <2>2 DEF RanksRise
  <2>3. CASE k = Len(a)
    BY <1>1, <1>3, <2>1, <2>3 DEF RanksUpTo
  <2>. QED  BY <1>1, <2>2, <2>3
<1>5. RanksUpTo(a, e.run, Rank(e.kind))
  <2>. SUFFICES ASSUME NEW i \in 1 .. Len(a), a[i].run = e.run
                PROVE  Rank(a[i].kind) <= Rank(e.kind)
    BY DEF RanksUpTo
  <2>1. CASE i \in 1 .. Len(q)
    BY <1>1, <1>3, <2>1 DEF RanksUpTo
  <2>2. CASE i = Len(a)
    BY <1>1, <1>3, <2>2
  <2>. QED  BY <1>1, <2>1, <2>2
<1>6. \A i \in 1 .. Len(a) : (i \in 1 .. Len(q) /\ a[i] = q[i]) \/ a[i] = e
  BY <1>1
<1>7. \A n, r \in Nat : n # e.run /\ RanksUpTo(q, n, r) => RanksUpTo(a, n, r)
  BY <1>6 DEF RanksUpTo
<1>8. \A n \in Nat : e.run <= n /\ RunsUpTo(q, n) => RunsUpTo(a, n)
  BY <1>6 DEF RunsUpTo
<1>9. ASSUME RunsRise(q), RunsUpTo(q, e.run) PROVE RunsRise(a)
  <2>. SUFFICES ASSUME NEW i \in 1 .. Len(a), NEW k \in 1 .. Len(a), i < k PROVE a[i].run <= a[k].run
    BY DEF RunsRise
  <2>1. i \in 1 .. Len(q) /\ a[i] = q[i]
    BY <1>1
  <2>2. CASE k \in 1 .. Len(q)
    BY <1>1, <1>9, <2>1, <2>2 DEF RunsRise
  <2>3. CASE k = Len(a)
    BY <1>1, <1>9, <2>1, <2>3 DEF RunsUpTo
  <2>. QED  BY <1>1, <2>2, <2>3
<1>. QED  BY <1>1, <1>4, <1>5, <1>7, <1>8, <1>9 DEF a

\* The ways a goroutine changes in one step: on through runCore, to its end, or
\* to the start of a new run.
Returned == {"return_ok", "return_err"}
Advances(x, y) ==
  /\ x.mode # "idle" /\ y.mode # "idle" /\ y.job = x.job /\ y.run = x.run
  /\ Emitted(x) <= Emitted(y)
  /\ y.at = "save_params" => y.stage = 1
Ends(w) ==
  /\ exec[w].mode # "idle" /\ exec'[w] = Idle
  /\ exec[w].at \in Returned \/ exec[w].mode = "detached" \/ Fault
Begins(w) ==
  \E j \in Jobs, m \in {"task", "chat"} :
    /\ exec[w].mode = "idle" /\ exec'[w] = NewRun(m, j, runs[j] + 1)
    /\ runs' = [runs EXCEPT ![j] = @ + 1]
    /\ \A v \in Workers \ {w} : exec'[v] = exec[v]

LEMMA PipelineAdvances ==
  ASSUME TypeOK, Positions, NEW w \in Workers, PipelineStep(w)
  PROVE  Advances(exec[w], exec'[w]) \/ Ends(w)
<1>0. exec[w] \in Exec /\ exec[w].stage \in 1 .. 3
  BY DEF TypeOK, Exec
<1>1. ASSUME NEW pt, Goto(w, pt)
      PROVE  /\ exec'[w].mode = exec[w].mode /\ exec'[w].job = exec[w].job /\ exec'[w].run = exec[w].run
             /\ exec'[w].stage = exec[w].stage /\ exec'[w].at = pt
  BY <1>1 DEF Goto, TypeOK, Exec
<1>2. ASSUME NEW k, GotoStage(w, k)
      PROVE  /\ exec'[w].mode = exec[w].mode /\ exec'[w].job = exec[w].job /\ exec'[w].run = exec[w].run
             /\ exec'[w].stage = k /\ exec'[w].at = "write_status"
  BY <1>2 DEF GotoStage, TypeOK, Exec
<1>3. CASE WriteStatus(w) \/ EmitStatus(w) \/ CallFails(w)
  BY <1>0, <1>1, <1>3 DEF WriteStatus, EmitStatus, CallFails, Running, Advances, Emitted
<1>4. CASE Call(w)
  <2>1. CASE ExtractParams(w) \/ FilterJobs(w)
    BY <1>0, <1>1, <1>4, <2>1 DEF Call, ExtractParams, FilterJobs, Running, Advances, Emitted
  <2>2. CASE FetchJobs(w)
    BY <1>0, <1>2, <1>4, <2>2 DEF Call, FetchJobs, Running, Advances, Emitted
  <2>. QED  BY <1>4, <2>1, <2>2 DEF Call
<1>5. CASE SaveParams(w)
  BY <1>0, <1>2, <1>5 DEF SaveParams, Running, Advances, Emitted, Positions
<1>6. CASE StoreResult(w) \/ StoreFails(w) \/ EmitCompleted(w) \/ WriteFailed(w) \/ EmitFailed(w)
  BY <1>0, <1>1, <1>6 DEF StoreResult, StoreFails, EmitCompleted, WriteFailed, EmitFailed, Running, Advances, Emitted
<1>7. CASE Return(w)
  BY <1>7 DEF Return, Ends, Returned, TypeOK
<1>. QED  BY <1>3, <1>4, <1>5, <1>6, <1>7 DEF PipelineStep

LEMMA ExecChange ==
  ASSUME TypeOK, Positions, [Next]_vars, NEW w \in Workers
  PROVE  \/ exec'[w] = exec[w]
         \/ Advances(exec[w], exec'[w])
         \/ Ends(w)
         \/ Begins(w)
<1>0. \A v, e : exec' = [exec EXCEPT ![v] = e] => exec'[w] = IF v = w THEN e ELSE exec[w]
  BY DEF TypeOK
<1>1. ASSUME NEW v \in Workers, PipelineStep(v), v # w PROVE exec'[w] = exec[w]
  BY <1>1 DEF PipelineStep, WriteStatus, EmitStatus, Call, ExtractParams, FetchJobs, FilterJobs, CallFails,
     SaveParams, StoreResult, StoreFails, EmitCompleted, WriteFailed, EmitFailed, Return, Goto, GotoStage, TypeOK
<1>2. ASSUME NEW v \in Workers, Deadline(v) \/ Crash(v) \/ ProcessExit(v)
      PROVE  exec'[w] = exec[w] \/ Ends(w)
  BY <1>0, <1>2 DEF Deadline, Crash, ProcessExit, Ends
<1>3. ASSUME NEW v \in Workers, Handover(v)
      PROVE  exec'[w] = exec[w] \/ Advances(exec[w], exec'[w])
  <2>1. v # w => exec'[w] = exec[w]
    BY <1>3 DEF Handover, TypeOK
  <2>2. v = w => Advances(exec[w], exec'[w])
    <3>1. exec[w] \in Exec /\ (exec[w].at = "save_params" => exec[w].stage = 1)
      BY DEF TypeOK, Positions
    <3>2. PICK y : y = [exec[w] EXCEPT !.mode = "detached"]
      OBVIOUS
    <3>3. /\ y.mode = "detached" /\ y.job = exec[w].job /\ y.run = exec[w].run
          /\ y.stage = exec[w].stage /\ y.at = exec[w].at
      BY <3>1, <3>2 DEF Exec
    <3>4. Emitted(y) = Emitted(exec[w]) /\ Emitted(y) \in Int
      BY <3>1, <3>3 DEF Emitted, Exec
    <3>5. v = w => exec'[w] = y
      BY <1>3, <3>2 DEF Handover, TypeOK
    <3>. QED  BY <1>3, <3>1, <3>3, <3>4, <3>5 DEF Advances, Handover
  <2>. QED  BY <2>1, <2>2
<1>4. ASSUME NEW v \in Workers, NEW j \in Jobs, Dequeue(v, j) \/ ChatRun(v, j)
      PROVE  exec'[w] = exec[w] \/ Begins(w)
  BY <1>0, <1>4 DEF Dequeue, ChatRun, Begin, Begins, TypeOK
<1>5. ASSUME \/ \E i \in Jobs : \/ CreateRow(i) \/ Enqueue(i) \/ EnqueueFails(i) \/ ApiCrash(i)
                                \/ ForwardRetry(i) \/ Recover(i)
             \/ \E s \in Streams : (\E i \in Jobs : Open(s, i)) \/ Subscribe(s) \/ Relay(s) \/ CloseStream(s) \/ Reconnect(s)
             \/ UNCHANGED vars
      PROVE  exec' = exec
  BY <1>5 DEF CreateRow, Enqueue, EnqueueFails, ApiCrash, ForwardRetry, Recover, Open, Subscribe,
              Relay, CloseStream, Reconnect, vars
<1>. QED  BY <1>1, <1>2, <1>3, <1>4, <1>5, PipelineAdvances DEF Next

LEMMA IdleFields == Idle.mode = "idle" /\ Idle.job = NoJob /\ Idle.at = "write_status"
BY DEF Idle, NewRun

LEMMA BeginFields ==
  ASSUME TypeOK, NEW w \in Workers, Begins(w)
  PROVE  /\ exec[w].mode = "idle" /\ exec'[w].mode \in {"task", "chat"} /\ exec'[w].job \in Jobs
         /\ exec'[w].run = runs[exec'[w].job] + 1 /\ exec'[w].stage = 1 /\ exec'[w].at = "write_status"
         /\ \A j \in Jobs : runs'[j] = IF j = exec'[w].job THEN runs[j] + 1 ELSE runs[j]
         /\ \A v \in Workers \ {w} : exec'[v] = exec[v]
<1>1. PICK j \in Jobs, m \in {"task", "chat"} :
        /\ exec[w].mode = "idle" /\ exec'[w] = NewRun(m, j, runs[j] + 1)
        /\ runs' = [runs EXCEPT ![j] = @ + 1]
        /\ \A v \in Workers \ {w} : exec'[v] = exec[v]
  BY DEF Begins
<1>2. /\ exec'[w].mode = m /\ exec'[w].job = j /\ exec'[w].run = runs[j] + 1
      /\ exec'[w].stage = 1 /\ exec'[w].at = "write_status"
  BY <1>1 DEF NewRun
<1>. QED  BY <1>1, <1>2 DEF TypeOK

LEMMA PositionsStep ==
  ASSUME TypeOK, Positions, [Next]_vars
  PROVE  Positions'
<1>. SUFFICES ASSUME NEW w \in Workers, exec'[w].at = "save_params" PROVE exec'[w].stage = 1
  BY DEF Positions
<1>1. ~ Ends(w) /\ ~ Begins(w)
  BY IdleFields, BeginFields DEF Ends
<1>. QED  BY <1>1, ExecChange DEF Positions, Advances

LEMMA RunsDistinctStep ==
  ASSUME TypeOK, LeaseInv, Positions, RunsDistinct, [Next]_vars
  PROVE  RunsDistinct'
<1>. SUFFICES ASSUME NEW v \in Workers, NEW w \in Workers, exec'[v].mode # "idle",
                     exec'[v].job = exec'[w].job, exec'[v].run = exec'[w].run
              PROVE  v = w
  BY DEF RunsDistinct
<1>1. exec'[v].job \in Jobs /\ exec'[w].mode # "idle"
  BY LeaseStep, NoJobAssumption DEF LeaseInv, RunIdentity
<1>2. ASSUME NEW x \in Workers, exec'[x].mode # "idle"
      PROVE  \/ exec[x].mode # "idle" /\ exec'[x].job = exec[x].job /\ exec'[x].run = exec[x].run
             \/ Begins(x) /\ exec'[x].run = runs[exec'[x].job] + 1
  <2>1. ~ Ends(x)
    BY <1>2, IdleFields DEF Ends
  <2>2. Begins(x) => exec'[x].run = runs[exec'[x].job] + 1
    BY BeginFields
  <2>3. CASE exec'[x] = exec[x]
    BY <1>2, <2>3
  <2>. QED  BY <2>1, <2>2, <2>3, ExecChange DEF Advances
<1>3. ASSUME NEW x \in Workers, exec[x].mode # "idle"
      PROVE  exec[x].job \in Jobs /\ exec[x].run \in Nat /\ exec[x].run <= runs[exec[x].job]
  BY <1>3 DEF LeaseInv, RunIdentity, TypeOK, Exec
<1>4. CASE Begins(v) /\ Begins(w)
  BY <1>1, <1>4, BeginFields
<1>5. \A j \in Jobs : runs[j] \in Nat
  BY DEF TypeOK
<1>. QED  BY <1>1, <1>2, <1>3, <1>4, <1>5 DEF RunsDistinct

\* What holds of an empty history, and what a history keeps when time goes on.
LEMMA EmptyOrder ==
  /\ RanksRise(<<>>) /\ RunsRise(<<>>)
  /\ \A n : RunsUpTo(<<>>, n)
  /\ \A n, r : RanksUpTo(<<>>, n, r)
BY DEF RanksRise, RunsRise, RunsUpTo, RanksUpTo

LEMMA OrderMore ==
  ASSUME NEW q \in Seq(Event), NEW n \in Nat, NEW m \in Nat, n <= m
  PROVE  /\ RunsUpTo(q, n) => RunsUpTo(q, m)
         /\ \A k : RanksUpTo(q, k, n) => RanksUpTo(q, k, m)
         /\ \A r : RunsUpTo(q, n) => RanksUpTo(q, n + 1, r)
<1>1. \A i \in 1 .. Len(q) : q[i].run \in Nat /\ Rank(q[i].kind) \in Nat
  <2>1. \A i \in 1 .. Len(q) : q[i] \in Event
    BY ElementOfSeq
  <2>2. \A e \in Event : e.run \in Nat /\ Rank(e.kind) \in Nat
    <3>1. \A e \in Event : e.run \in Nat
      BY DEF Event
    <3>. QED  BY <3>1, EventRank
  <2>. QED  BY <2>1, <2>2
<1>2. RunsUpTo(q, n) => RunsUpTo(q, m)
  BY <1>1 DEF RunsUpTo
<1>3. \A k : RanksUpTo(q, k, n) => RanksUpTo(q, k, m)
  BY <1>1 DEF RanksUpTo
<1>4. \A r : RunsUpTo(q, n) => RanksUpTo(q, n + 1, r)
  BY <1>1 DEF RanksUpTo, RunsUpTo
<1>. QED  BY <1>2, <1>3, <1>4

LEMMA EmittedType ==
  ASSUME NEW x \in Exec
  PROVE  Emitted(x) \in Nat
BY DEF Exec, Emitted

\* An event outranks everything its run emitted before, and is the last.
LEMMA EmissionRank ==
  ASSUME TypeOK, NEW w \in Workers, NEW kind, Emission(w, kind)
  PROVE  /\ Emitted(exec[w]) = Rank(kind) - 1
         /\ Emitted(exec'[w]) = Rank(kind)
         /\ \A v \in Workers \ {w} : exec'[v] = exec[v]
         /\ exec'[w].run = exec[w].run
<1>1. exec[w] \in Exec /\ exec[w].stage \in 1 .. 3
  BY DEF TypeOK, Exec
<1>2. ASSUME NEW pt, Goto(w, pt)
      PROVE  /\ exec'[w].run = exec[w].run /\ exec'[w].stage = exec[w].stage /\ exec'[w].at = pt
             /\ \A v \in Workers \ {w} : exec'[v] = exec[v]
  BY <1>1, <1>2 DEF Goto, TypeOK, Exec
<1>3. Rank(StageStatus[exec[w].stage]) = exec[w].stage /\ Rank("completed") = 4 /\ Rank("failed") = 4
  BY <1>1, StageRank DEF Rank
<1>4. CASE exec[w].at = "emit_status" /\ kind = StageStatus[exec[w].stage] /\ Goto(w, "call")
  BY <1>1, <1>2, <1>3, <1>4 DEF Emitted
<1>5. CASE \/ exec[w].at = "emit_completed" /\ kind = "completed" /\ Goto(w, "return_ok")
           \/ exec[w].at = "emit_failed" /\ kind = "failed" /\ Goto(w, "return_err")
  BY <1>2, <1>3, <1>5 DEF Emitted
<1>. QED  BY <1>4, <1>5 DEF Emission

LEMMA InOrderStep ==
  ASSUME TypeOK, LeaseInv, RowOutcome, Heard, OrderInv, [Next]_vars
  PROVE  InOrder'
<1>. DEFINE Good(st) ==
              /\ st.at \in {"idle", "subscribing"} => Delivered(st) = <<>>
              /\ st.job \in Jobs => RunsUpTo(Delivered(st), runs'[st.job])
              /\ RanksRise(Delivered(st))
              /\ handed'[st.job] = 0 => RunsRise(Delivered(st))
              /\ OpenEnded(st)
              /\ st.at = "open" => \A w \in Workers : exec'[w].mode # "idle" /\ exec'[w].job = st.job =>
                   RanksUpTo(Delivered(st), exec'[w].run, Emitted(exec'[w]))
<1>. SUFFICES ASSUME NEW s \in Streams PROVE Good(stream'[s])
  BY DEF InOrder
<1>0. PICK st : st = stream[s]
  OBVIOUS
<1>. DEFINE q == Delivered(st)
<1>1. /\ st \in Stream /\ st.frames \in Seq(Event) /\ st.inbox \in Seq(Event) /\ q \in Seq(Event)
      /\ st.at # "idle" => st.job \in Jobs
      /\ st.at \in {"idle", "subscribing"} => q = <<>>
      /\ st.job \in Jobs => RunsUpTo(q, runs[st.job])
      /\ RanksRise(q)
      /\ handed[st.job] = 0 => RunsRise(q)
      /\ OpenEnded(st)
      /\ st.at = "open" => \A w \in Workers : exec[w].mode # "idle" /\ exec[w].job = st.job =>
           RanksUpTo(q, exec[w].run, Emitted(exec[w]))
  <2>1. st \in Stream /\ st.frames \in Seq(Event) /\ st.inbox \in Seq(Event)
    BY <1>0 DEF TypeOK, Stream
  <2>2. q \in Seq(Event)
    BY <2>1, ConcatProperties DEF Delivered
  <2>. QED  BY <1>0, <2>1, <2>2 DEF OrderInv, InOrder, Heard
<1>2. \A j \in Jobs : /\ runs[j] \in Nat /\ runs'[j] \in Nat /\ runs[j] <= runs'[j]
                      /\ handed'[j] = 0 => handed[j] = 0
  <2>1. TypeOK'
    BY TypeStep
  <2>. QED  BY <2>1, Growth, BoundsAssumption DEF TypeOK
<1>. HIDE DEF q
<1>3. ASSUME NEW w \in Workers, st.at = "open", exec'[w].mode # "idle", exec'[w].job = st.job
      PROVE  RanksUpTo(q, exec'[w].run, Emitted(exec'[w]))
  <2>0. exec[w] \in Exec /\ exec'[w] \in Exec
    BY TypeStep DEF TypeOK
  <2>1. CASE exec'[w] = exec[w]
    BY <1>1, <1>3, <2>1
  <2>2. CASE Advances(exec[w], exec'[w])
    <3>1. Emitted(exec[w]) \in Nat /\ Emitted(exec'[w]) \in Nat
      BY <2>0, EmittedType
    <3>. QED  BY <1>1, <1>3, <2>2, <3>1, OrderMore DEF Advances
  <2>3. CASE Begins(w)
    BY <1>1, <1>2, <1>3, <2>3, BeginFields, OrderMore
  <2>4. ~ Ends(w)
    BY <1>3, IdleFields DEF Ends
  <2>. QED  BY <2>1, <2>2, <2>3, <2>4, ExecChange DEF OrderInv
<1>4. ASSUME NEW r, Delivered(r) = q, r.job = st.job, OpenEnded(r),
             r.at = "open" => st.at = "open" \/ q = <<>>,
             r.at \in {"idle", "subscribing"} => q = <<>>
      PROVE  Good(r)
  <2>1. r.job \in Jobs => RunsUpTo(q, runs'[r.job])
    BY <1>1, <1>2, <1>4, OrderMore
  <2>2. handed'[r.job] = 0 => RunsRise(q)
    BY <1>1, <1>2, <1>4, EmptyOrder
  <2>3. r.at = "open" => \A w \in Workers : exec'[w].mode # "idle" /\ exec'[w].job = r.job =>
          RanksUpTo(q, exec'[w].run, Emitted(exec'[w]))
    BY <1>3, <1>4, EmptyOrder
  <2>. QED  BY <1>1, <1>4, <2>1, <2>2, <2>3
<1>5. ASSUME NEW w \in Workers, HearsFrom(s, w)
      PROVE  Good(stream'[s])
  <2>1. PICK kind \in Kinds :
          /\ Emission(w, kind) /\ st.at = "open" /\ st.job = exec[w].job
          /\ stream'[s] = Hears(st, EventOf(w, kind))
    BY <1>0, <1>5 DEF HearsFrom
  <2>2. PICK e : e = EventOf(w, kind)
    OBVIOUS
  <2>3. e \in Event /\ e.kind = kind /\ e.run = exec[w].run /\ e.run \in Nat
    BY <2>2 DEF EventOf, Event, TypeOK, Exec
  <2>4. PICK r : r = Hears(st, e)
    OBVIOUS
  <2>5. Delivered(r) = Append(q, e) /\ r.frames = st.frames /\ r.job = st.job /\ r.at = "open"
    BY <1>1, <2>1, <2>3, <2>4, DeliveredHears DEF q
  <2>6. /\ exec[w].mode # "idle" /\ st.job \in Jobs /\ e.run <= runs[st.job]
        /\ handed[st.job] = 0 => e.run = runs[st.job]
    BY <2>1, <2>3 DEF Emission, LeaseInv, RunIdentity
  <2>7. RanksUpTo(q, e.run, Rank(e.kind) - 1)
    BY <1>1, <2>1, <2>3, <2>6, EmissionRank
  <2>8. /\ RanksRise(Append(q, e))
        /\ RanksUpTo(Append(q, e), e.run, Rank(e.kind))
        /\ \A n, k \in Nat : n # e.run /\ RanksUpTo(q, n, k) => RanksUpTo(Append(q, e), n, k)
        /\ \A n \in Nat : e.run <= n /\ RunsUpTo(q, n) => RunsUpTo(Append(q, e), n)
        /\ RunsRise(q) /\ RunsUpTo(q, e.run) => RunsRise(Append(q, e))
    BY <1>1, <2>3, <2>7, OrderAppend
  <2>9. RunsUpTo(Append(q, e), runs'[st.job])
    <3>1. RunsUpTo(q, runs'[st.job]) /\ e.run <= runs'[st.job]
      BY <1>1, <1>2, <2>3, <2>6, OrderMore
    <3>. QED  BY <1>2, <2>6, <2>8, <3>1
  <2>10. handed'[st.job] = 0 => RunsRise(Append(q, e))
    BY <1>1, <1>2, <2>6, <2>8
  <2>11. ASSUME NEW v \in Workers, exec'[v].mode # "idle", exec'[v].job = st.job
         PROVE  RanksUpTo(Append(q, e), exec'[v].run, Emitted(exec'[v]))
    <3>1. CASE v = w
      BY <2>1, <2>3, <2>8, <3>1, EmissionRank
    <3>2. CASE v # w
      <4>1. exec'[v] = exec[v]
        BY <2>1, <3>2, EmissionRank
      <4>2. exec[v].run # e.run
        BY <2>1, <2>3, <2>6, <2>11, <3>2, <4>1 DEF OrderInv, RunsDistinct
      <4>3. exec[v].run \in Nat /\ Emitted(exec[v]) \in Nat
        <5>1. exec[v] \in Exec
          BY DEF TypeOK
        <5>. QED  BY <5>1, EmittedType DEF Exec
      <4>. QED  BY <1>1, <2>1, <2>8, <2>11, <4>1, <4>2, <4>3
    <3>. QED  BY <3>1, <3>2
  <2>12. OpenEnded(r)
    BY <1>1, <2>1, <2>5 DEF OpenEnded
  <2>. QED  BY <2>1, <2>2, <2>4, <2>5, <2>8, <2>9, <2>10, <2>11, <2>12
<1>6. ASSUME NEW j \in Jobs, stream'[s] = Opened(j)
      PROVE  Good(stream'[s])
  <2>1. CASE row[j].status \in Terminal
    <3>. DEFINE n == IF row[j].status = "completed" THEN row[j].result ELSE row[j].error
    <3>1. row[j] \in Row /\ n <= runs[j] /\ n \in Nat
      BY DEF TypeOK, Row, RowOutcome
    <3>2. PICK e : e = [run |-> n, kind |-> row[j].status]
      OBVIOUS
    <3>3. Snapshot(row[j]) = <<e>> /\ e.run = n
      BY <3>2 DEF Snapshot
    <3>4. PICK r : r = Opened(j)
      OBVIOUS
    <3>5. r.frames = <<e>> /\ r.inbox = <<>> /\ r.job = j /\ r.at = "closed"
      BY <2>1, <3>3, <3>4 DEF Opened, NoStream
    <3>6. Delivered(r) = <<e>>
      BY <3>5 DEF Delivered
    <3>7. e.run <= runs'[j]
      BY <1>2, <3>1, <3>3
    <3>. HIDE DEF n
    <3>8. RunsUpTo(<<e>>, runs'[j]) /\ RanksRise(<<e>>) /\ RunsRise(<<e>>)
      BY <3>7 DEF RunsUpTo, RanksRise, RunsRise
    <3>9. OpenEnded(r)
      BY <3>5 DEF OpenEnded
    <3>. QED  BY <1>6, <3>4, <3>5, <3>6, <3>8, <3>9
  <2>2. CASE row[j].status \notin Terminal
    <3>1. /\ Opened(j).frames = <<>> /\ Opened(j).inbox = <<>> /\ Opened(j).at = "subscribing"
      BY <2>2 DEF Opened, NoStream
    <3>2. Delivered(Opened(j)) = <<>> /\ OpenEnded(Opened(j))
      BY <3>1 DEF Delivered, OpenEnded
    <3>. QED  BY <1>6, <3>1, <3>2, EmptyOrder
  <2>. QED  BY <2>1, <2>2
<1>7. ASSUME stream'[s] = [st EXCEPT !.at = "open"], st.at = "subscribing"
      PROVE  Good(stream'[s])
  <2>1. PICK r : r = [st EXCEPT !.at = "open"]
    OBVIOUS
  <2>2. r.at = "open" /\ r.job = st.job /\ r.frames = st.frames /\ r.inbox = st.inbox
    BY <1>1, <2>1 DEF Stream
  <2>3. Delivered(r) = q /\ OpenEnded(r)
    BY <1>1, <1>7, <2>2 DEF Delivered, OpenEnded, q
  <2>. QED  BY <1>1, <1>4, <1>7, <2>1, <2>2, <2>3
<1>8. ASSUME stream'[s] = [st EXCEPT !.at = "closed"], st.at \in {"subscribing", "open"}
      PROVE  Good(stream'[s])
  <2>1. PICK r : r = [st EXCEPT !.at = "closed"]
    OBVIOUS
  <2>2. r.at = "closed" /\ r.job = st.job /\ r.frames = st.frames /\ r.inbox = st.inbox
    BY <1>1, <2>1 DEF Stream
  <2>3. Delivered(r) = q /\ OpenEnded(r)
    BY <1>1, <1>8, <2>2 DEF Delivered, OpenEnded, q
  <2>. QED  BY <1>1, <1>4, <1>8, <2>1, <2>2, <2>3
<1>9. ASSUME st.at = "open", st.inbox # <<>>, stream'[s] = Relayed(st)
      PROVE  Good(stream'[s])
  <2>1. PICK r : r = Relayed(st)
    OBVIOUS
  <2>2. PICK e : e = Head(st.inbox)
    OBVIOUS
  <2>3. /\ Delivered(r) = q /\ r.job = st.job /\ r.frames = Append(st.frames, e)
        /\ r.at = IF e.kind \in Terminal THEN "closed" ELSE "open"
    BY <1>1, <1>9, <2>1, <2>2, DeliveredRelayed DEF q
  <2>4. OpenEnded(r)
    <3>1. /\ Len(r.frames) = Len(st.frames) + 1 /\ Len(st.frames) \in Nat
          /\ \A i \in 1 .. Len(r.frames) : \/ i \in 1 .. Len(st.frames) /\ r.frames[i] = st.frames[i]
                                           \/ i = Len(r.frames) /\ r.frames[i] = e
      BY <1>1, <2>3
    <3>2. \A i \in 1 .. Len(st.frames) : st.frames[i].kind \notin Terminal
      BY <1>1, <1>9 DEF OpenEnded
    <3>. QED  BY <2>3, <3>1, <3>2 DEF OpenEnded
  <2>. QED  BY <1>4, <1>9, <2>1, <2>3, <2>4
<1>10. ASSUME stream'[s] = NoStream
       PROVE  Good(stream'[s])
  <2>1. Delivered(NoStream) = <<>> /\ OpenEnded(NoStream) /\ NoStream.at = "idle" /\ NoStream.job = NoJob
    BY DEF NoStream, Delivered, OpenEnded
  <2>. QED  BY <1>10, <2>1, EmptyOrder, NoJobAssumption
<1>11. CASE stream'[s] = st
  BY <1>1, <1>4, <1>11 DEF q
<1>. QED  BY <1>0, <1>5, <1>6, <1>7, <1>8, <1>9, <1>10, <1>11, StreamChange

\* What every connection hears is in order, in every reachable state.
THEOREM OrderCorrect == Spec => []OrderInv
<1>1. Init => OrderInv
  <2>. SUFFICES ASSUME Init PROVE OrderInv
    OBVIOUS
  <2>1. Positions /\ RunsDistinct
    BY IdleFields DEF Init, Positions, RunsDistinct
  <2>2. Delivered(NoStream) = <<>> /\ OpenEnded(NoStream) /\ NoStream.at = "idle" /\ NoStream.job = NoJob
    BY DEF NoStream, Delivered, OpenEnded
  <2>3. \A s \in Streams : stream[s] = NoStream
    BY DEF Init
  <2>4. InOrder
    BY <2>2, <2>3, EmptyOrder, NoJobAssumption DEF InOrder
  <2>. QED  BY <2>1, <2>4 DEF OrderInv
<1>2. TypeOK /\ LeaseInv /\ StoreInv /\ OrderInv /\ [Next]_vars => OrderInv'
  BY PositionsStep, RunsDistinctStep, InOrderStep DEF OrderInv, StoreInv
<1>. QED  BY <1>1, <1>2, StoreCorrect, PTL DEF Spec

\* A connection's frames are in the order their runs emitted them, a verdict
\* comes last, and without a shutdown handover the runs do not interleave.
THEOREM StreamsWellFormed == Spec => []StreamWellFormed
<1>1. TypeOK /\ OrderInv => StreamWellFormed
  <2>. SUFFICES ASSUME TypeOK, InOrder, NEW s \in Streams,
                       NEW i \in 1 .. Len(stream[s].frames), NEW k \in 1 .. Len(stream[s].frames), i < k
                PROVE  LET f == stream[s].frames IN
                       /\ f[i].kind \notin Terminal
                       /\ f[i].run = f[k].run => Rank(f[i].kind) < Rank(f[k].kind)
                       /\ handed[stream[s].job] = 0 => f[i].run <= f[k].run
    BY DEF StreamWellFormed, OrderInv
  <2>0. stream[s].frames \in Seq(Event) /\ stream[s].inbox \in Seq(Event)
    BY DEF TypeOK, Stream
  <2>1. PICK f \in Seq(Event) : f = stream[s].frames
    BY <2>0
  <2>2. PICK b \in Seq(Event) : b = stream[s].inbox
    BY <2>0
  <2>3. Len(f) \in Nat /\ Len(b) \in Nat
    OBVIOUS
  <2>4. /\ Len(f \o b) = Len(f) + Len(b)
        /\ \A m \in 1 .. Len(f) + Len(b) : (f \o b)[m] = IF m <= Len(f) THEN f[m] ELSE b[m - Len(f)]
    BY ConcatProperties
  <2>5. /\ i \in 1 .. Len(f \o b) /\ k \in 1 .. Len(f \o b)
        /\ (f \o b)[i] = f[i] /\ (f \o b)[k] = f[k]
    BY <2>1, <2>3, <2>4
  <2>6. /\ RanksRise(f \o b) /\ (handed[stream[s].job] = 0 => RunsRise(f \o b))
        /\ OpenEnded(stream[s])
    BY <2>1, <2>2 DEF InOrder, Delivered
  <2>7. f[i].kind \notin Terminal
    BY <2>1, <2>3, <2>6 DEF OpenEnded
  <2>. QED  BY <2>1, <2>5, <2>6, <2>7 DEF RanksRise, RunsRise
<1>. QED  BY <1>1, TypeCorrect, OrderCorrect, PTL

---------------------------------------------------------------------------
(***************************************************************************)
(* No connection is left with a stage that nobody works on.                *)
(***************************************************************************)
\* Some goroutine, of those in ex, still has run n of job j to finish.
Pursued(ex, j, n) ==
  \E w \in Workers : /\ ex[w].mode # "idle" /\ ex[w].job = j /\ ex[w].run = n
                     /\ ex[w].at \notin Returned

\* A connection is silent while its job has no task; what it heard last, as
\* long as nothing is lost or handed over, is a verdict or is being pursued.
Attended ==
  \A s \in Streams :
    LET q == Delivered(stream[s])  j == stream[s].job IN
    stream[s].at = "open" =>
      /\ task[j].state = "none" => q = <<>>
      /\ q # <<>> /\ faults = 0 /\ handed[j] = 0 =>
           q[Len(q)].kind \in Terminal \/ Pursued(exec, j, q[Len(q)].run)

LEMMA TaskStays ==
  ASSUME TypeOK, [Next]_vars, NEW j \in Jobs, task'[j].state = "none"
  PROVE  task[j].state = "none"
<1>0. \A i, t : task' = [task EXCEPT ![i] = t] => task'[j] = IF i = j THEN t ELSE task[j]
  BY DEF TypeOK
<1>1. task[j] \in Task /\ \A i \in Jobs : task[i] \in Task
  BY DEF TypeOK
<1>2. \A t \in Task : /\ \A st \in {"pending", "active", "completed"} : [t EXCEPT !.state = st].state # "none"
                      /\ AfterFailure(t).state # "none"
  <2>1. \A t \in Task : AfterFailure(t).state # "none"
    BY AfterFailureType
  <2>. QED  BY <2>1 DEF Task
<1>3. CASE task' = task
  BY <1>3
<1>4. CASE \E i, st : /\ st \in {"pending", "active", "completed"}
                      /\ task' = [task EXCEPT ![i] = [@ EXCEPT !.state = st]]
  BY <1>0, <1>1, <1>2, <1>4
<1>5. CASE \E i : task' = [task EXCEPT ![i] = AfterFailure(@)]
  BY <1>0, <1>1, <1>2, <1>5
<1>6. ASSUME NEW i \in Jobs, CreateRow(i) \/ Enqueue(i) \/ EnqueueFails(i) \/ ApiCrash(i) \/ ForwardRetry(i) \/ Recover(i)
      PROVE  \/ task' = task
             \/ task' = [task EXCEPT ![i] = [@ EXCEPT !.state = "pending"]]
             \/ task' = [task EXCEPT ![i] = AfterFailure(@)]
  BY <1>6 DEF CreateRow, Enqueue, EnqueueFails, ApiCrash, ForwardRetry, Recover
<1>7. ASSUME NEW w \in Workers, NEW i \in Jobs, Dequeue(w, i) \/ ChatRun(w, i)
      PROVE  task' = task \/ task' = [task EXCEPT ![i] = [@ EXCEPT !.state = "active"]]
  BY <1>7 DEF Dequeue, ChatRun
<1>8. ASSUME NEW w \in Workers, PipelineStep(w) \/ Deadline(w) \/ Crash(w) \/ Handover(w) \/ ProcessExit(w)
      PROVE  \/ task' = task
             \/ task' = [task EXCEPT ![exec[w].job] = [@ EXCEPT !.state = "pending"]]
             \/ task' = [task EXCEPT ![exec[w].job] = [@ EXCEPT !.state = "completed"]]
             \/ task' = [task EXCEPT ![exec[w].job] = AfterFailure(@)]
  BY <1>8 DEF PipelineStep, WriteStatus, EmitStatus, Call, CallFails, SaveParams, StoreResult, StoreFails, EmitCompleted,
              WriteFailed, EmitFailed, Return, OnlyPipeline, Deadline, Crash, Handover, ProcessExit
<1>9. ASSUME \/ \E s \in Streams : (\E i \in Jobs : Open(s, i)) \/ Subscribe(s) \/ Relay(s) \/ CloseStream(s) \/ Reconnect(s)
             \/ UNCHANGED vars
      PROVE  task' = task
  BY <1>9 DEF Open, Subscribe, Relay, CloseStream, Reconnect, vars
<1>. QED  BY <1>3, <1>4, <1>5, <1>6, <1>7, <1>8, <1>9 DEF Next

LEMMA FaultsGrow ==
  ASSUME TypeOK, [Next]_vars, faults' = 0
  PROVE  faults = 0 /\ ~ Fault
<1>0. faults \in Nat
  BY BoundsAssumption DEF TypeOK
<1>1. ~ Fault
  BY <1>0 DEF Fault
<1>2. UNCHANGED faults
  BY <1>1 DEF Next, CreateRow, Enqueue, EnqueueFails, ApiCrash, ForwardRetry, Recover, Dequeue, ChatRun, PipelineStep,
     WriteStatus, EmitStatus, Call, CallFails, SaveParams, StoreResult, StoreFails, EmitCompleted, WriteFailed, EmitFailed,
     Return, Publish, Deadline, Crash, Handover, ProcessExit, Open, Subscribe, Relay, CloseStream, Reconnect, NoFault, vars
<1>. QED  BY <1>1, <1>2

\* A run reaches its return only by announcing its verdict, and while nothing
\* is lost everybody who is subscribed hears it.
LEMMA VerdictReaches ==
  ASSUME TypeOK, [Next]_vars, ~ Fault,
         NEW w \in Workers, exec[w].mode \notin {"idle", "chat"}, exec[w].at \notin Returned,
         exec'[w].at \in Returned, NEW s \in Subscribed(exec[w].job)
  PROVE  \E kind \in Terminal : stream'[s] = Hears(stream[s], EventOf(w, kind))
<1>0. s \in Streams
  BY DEF Subscribed
<1>2. exec'[w] # Idle /\ \A m, i, n : exec'[w] # NewRun(m, i, n)
  BY DEF Returned, Idle, NewRun
<1>3. \A v, e : exec' = [exec EXCEPT ![v] = e] => exec'[w] = IF v = w THEN e ELSE exec[w]
  BY DEF TypeOK
<1>4. ASSUME NEW v \in Workers, PipelineStep(v)
      PROVE  EmitCompleted(w) \/ EmitFailed(w)
  <2>1. ~ Return(v)
    BY <1>2, <1>3 DEF Return
  <2>2. v = w
    BY <1>4, <2>1 DEF PipelineStep, WriteStatus, EmitStatus, Call, ExtractParams, FetchJobs, FilterJobs, CallFails, SaveParams,
       StoreResult, StoreFails, EmitCompleted, WriteFailed, EmitFailed, Goto, GotoStage, TypeOK
  <2>3. \A point : Goto(w, point) => exec'[w].at = point
    BY DEF Goto, TypeOK, Exec
  <2>4. \A k : GotoStage(w, k) => exec'[w].at = "write_status"
    BY DEF GotoStage, TypeOK, Exec
  <2>. QED  BY <1>4, <2>1, <2>2, <2>3, <2>4 DEF Returned, PipelineStep, WriteStatus, EmitStatus, Call, ExtractParams,
            FetchJobs, FilterJobs, CallFails, SaveParams, StoreResult, StoreFails, WriteFailed
<1>5. ASSUME NEW v \in Workers, Handover(v)
      PROVE  FALSE
  BY <1>5 DEF Handover, TypeOK, Exec
<1>6. ASSUME NEW v \in Workers,
             Deadline(v) \/ Crash(v) \/ ProcessExit(v) \/ \E i \in Jobs : Dequeue(v, i) \/ ChatRun(v, i)
      PROVE  FALSE
  BY <1>2, <1>3, <1>6 DEF Deadline, Crash, ProcessExit, Dequeue, ChatRun, Begin
<1>7. ASSUME \/ \E i \in Jobs : \/ CreateRow(i) \/ Enqueue(i) \/ EnqueueFails(i) \/ ApiCrash(i)
                                \/ ForwardRetry(i) \/ Recover(i)
             \/ \E t \in Streams : (\E i \in Jobs : Open(t, i)) \/ Subscribe(t) \/ Relay(t) \/ CloseStream(t) \/ Reconnect(t)
             \/ UNCHANGED vars
      PROVE  FALSE
  BY <1>7 DEF CreateRow, Enqueue, EnqueueFails, ApiCrash, ForwardRetry, Recover, Open, Subscribe,
              Relay, CloseStream, Reconnect, vars
<1>8. EmitCompleted(w) \/ EmitFailed(w)
  BY <1>4, <1>5, <1>6, <1>7 DEF Next
<1>9. PICK kind \in Terminal : Publish(w, kind)
  BY <1>8 DEF EmitCompleted, EmitFailed, Terminal
<1>10. Deliver(Subscribed(exec[w].job), EventOf(w, kind))
  BY <1>9 DEF Publish, EventOf
<1>. QED  BY <1>0, <1>10 DEF Deliver, Hears

LEMMA LastAppend ==
  ASSUME NEW q \in Seq(Event), NEW e \in Event
  PROVE  /\ Append(q, e) # <<>> /\ Append(q, e) # q
         /\ Append(q, e)[Len(Append(q, e))] = e
<1>1. Len(Append(q, e)) = Len(q) + 1 /\ Len(q) \in Nat /\ Append(q, e)[Len(q) + 1] = e
  OBVIOUS
<1>. QED  BY <1>1

LEMMA AttendedStep ==
  ASSUME TypeOK, LeaseInv, StoreInv, OrderInv, Attended, [Next]_vars
  PROVE  Attended'
<1>. SUFFICES ASSUME NEW s \in Streams, stream'[s].at = "open"
              PROVE  LET q == Delivered(stream'[s])  j == stream'[s].job IN
                     /\ task'[j].state = "none" => q = <<>>
                     /\ q # <<>> /\ faults' = 0 /\ handed'[j] = 0 =>
                          q[Len(q)].kind \in Terminal \/ Pursued(exec', j, q[Len(q)].run)
  BY DEF Attended
<1>0. PICK st : st = stream[s]
  OBVIOUS
<1>. DEFINE q == Delivered(st)  j == st.job
<1>1. /\ st \in Stream /\ st.frames \in Seq(Event) /\ st.inbox \in Seq(Event) /\ q \in Seq(Event)
      /\ st.at # "idle" => j \in Jobs
      /\ st.at \in {"idle", "subscribing"} => q = <<>>
      /\ st.at = "open" /\ task[j].state = "none" => q = <<>>
      /\ st.at = "open" /\ q # <<>> /\ faults = 0 /\ handed[j] = 0 =>
           q[Len(q)].kind \in Terminal \/ Pursued(exec, j, q[Len(q)].run)
  <2>1. st \in Stream /\ st.frames \in Seq(Event) /\ st.inbox \in Seq(Event)
    BY <1>0 DEF TypeOK, Stream
  <2>2. q \in Seq(Event)
    BY <2>1, ConcatProperties DEF Delivered
  <2>. QED  BY <1>0, <2>1, <2>2 DEF OrderInv, InOrder, StoreInv, Heard, Attended
<1>2. st.at # "idle" => (handed'[j] = 0 => handed[j] = 0) /\ (task'[j].state = "none" => task[j].state = "none")
  <2>1. TypeOK'
    BY TypeStep
  <2>. QED  BY <1>1, <2>1, Growth, TaskStays, BoundsAssumption DEF TypeOK
<1>. HIDE DEF q
\* A goroutine that publishes on the job's channel works on its task.
<1>3. ASSUME NEW w \in Workers, exec[w].mode # "idle", exec[w].job = j, task[j].state # "none"
      PROVE  exec[w].mode # "chat"
  BY <1>3 DEF LeaseInv, RunIdentity, RunStanding, RunCount
<1>4. ASSUME NEW w \in Workers, HearsFrom(s, w)
      PROVE  LET q2 == Delivered(stream'[s])  j2 == stream'[s].job IN
             /\ task'[j2].state = "none" => q2 = <<>>
             /\ q2 # <<>> /\ faults' = 0 /\ handed'[j2] = 0 =>
                  q2[Len(q2)].kind \in Terminal \/ Pursued(exec', j2, q2[Len(q2)].run)
  <2>1. PICK kind \in Kinds :
          /\ Emission(w, kind) /\ st.at = "open" /\ j = exec[w].job
          /\ stream'[s] = Hears(st, EventOf(w, kind))
    BY <1>0, <1>4 DEF HearsFrom
  <2>2. PICK e : e = EventOf(w, kind)
    OBVIOUS
  <2>3. e \in Event /\ e.kind = kind /\ e.run = exec[w].run
    BY <2>2 DEF EventOf, Event, TypeOK, Exec
  <2>4. PICK r : r = Hears(st, e)
    OBVIOUS
  <2>5. Delivered(r) = Append(q, e) /\ r.job = j /\ stream'[s] = r
    BY <1>1, <2>1, <2>2, <2>3, <2>4, DeliveredHears DEF q
  <2>6. task[j].state # "none"
    <3>1. exec[w].mode \in {"task", "detached"} /\ j \in Jobs
      BY <1>1, <2>1 DEF Emission, TypeOK, Exec, Modes
    <3>2. handed[j] \in Nat
      BY <3>1, BoundsAssumption DEF TypeOK
    <3>. QED  BY <2>1, <3>1, <3>2 DEF LeaseInv, RunStanding, RunCount
  <2>7. kind \notin Terminal => Pursued(exec', j, e.run)
    <3>1. CASE kind \notin Terminal
      <4>1. Goto(w, "call")
        BY <2>1, <3>1 DEF Emission, Terminal
      <4>2. /\ exec'[w].mode = exec[w].mode /\ exec'[w].job = exec[w].job /\ exec'[w].run = exec[w].run
            /\ exec'[w].at = "call"
        BY <4>1 DEF Goto, TypeOK, Exec
      <4>. QED  BY <2>1, <2>3, <4>2 DEF Pursued, Emission, Returned
    <3>. QED  BY <3>1
  <2>8. Append(q, e) # <<>> /\ Append(q, e)[Len(Append(q, e))] = e
    BY <1>1, <2>3, LastAppend
  <2>. QED  BY <1>2, <2>1, <2>3, <2>5, <2>6, <2>7, <2>8
<1>5. ASSUME st.at = "open", Delivered(stream'[s]) = q, stream'[s].job = j
      PROVE  /\ task'[j].state = "none" => q = <<>>
             /\ q # <<>> /\ faults' = 0 /\ handed'[j] = 0 =>
                  q[Len(q)].kind \in Terminal \/ Pursued(exec', j, q[Len(q)].run)
  <2>1. task'[j].state = "none" => q = <<>>
    BY <1>1, <1>2, <1>5
  <2>2. ASSUME q # <<>>, faults' = 0, handed'[j] = 0, q[Len(q)].kind \notin Terminal
        PROVE  Pursued(exec', j, q[Len(q)].run)
    <3>1. faults = 0 /\ ~ Fault /\ handed[j] = 0 /\ task[j].state # "none" /\ j \in Jobs
      BY <1>1, <1>2, <1>5, <2>2, FaultsGrow
    <3>2. PICK w \in Workers : /\ exec[w].mode # "idle" /\ exec[w].job = j /\ exec[w].run = q[Len(q)].run
                               /\ exec[w].at \notin Returned
      BY <1>1, <1>5, <2>2, <3>1 DEF Pursued
    <3>3. exec[w].mode # "chat" /\ exec[w].mode # "detached"
      BY <1>3, <3>1, <3>2 DEF LeaseInv, RunStanding
    <3>4. CASE exec'[w] = exec[w]
      BY <3>2, <3>4 DEF Pursued
    <3>5. CASE Advances(exec[w], exec'[w])
      <4>1. exec'[w].at \notin Returned
        <5>. SUFFICES ASSUME exec'[w].at \in Returned PROVE FALSE
          OBVIOUS
        <5>1. s \in Subscribed(exec[w].job)
          BY <1>0, <1>5, <3>2 DEF Subscribed
        <5>2. PICK kind \in Terminal : stream'[s] = Hears(st, EventOf(w, kind))
          BY <1>0, <3>1, <3>2, <3>3, <5>1, VerdictReaches
        <5>3. PICK e : e = EventOf(w, kind)
          OBVIOUS
        <5>4. e \in Event
          BY <5>3 DEF EventOf, Event, Kinds, TypeOK, Exec
        <5>5. Delivered(stream'[s]) = Append(q, e)
          BY <1>1, <5>2, <5>3, <5>4, DeliveredHears DEF q
        <5>. QED  BY <1>1, <1>5, <5>4, <5>5, LastAppend
      <4>. QED  BY <3>2, <3>5, <4>1 DEF Pursued, Advances
    <3>6. ~ Ends(w)
      BY <3>1, <3>2, <3>3 DEF Ends
    <3>7. ~ Begins(w)
      BY <3>2 DEF Begins
    <3>. QED  BY <3>4, <3>5, <3>6, <3>7, ExecChange DEF OrderInv
  <2>. QED  BY <2>1, <2>2
<1>6. ASSUME stream'[s] = [st EXCEPT !.at = "open"], st.at = "subscribing"
      PROVE  Delivered(stream'[s]) = <<>>
  <2>1. PICK r : r = [st EXCEPT !.at = "open"]
    OBVIOUS
  <2>2. r.frames = st.frames /\ r.inbox = st.inbox
    BY <1>1, <2>1 DEF Stream
  <2>. QED  BY <1>1, <1>6, <2>1, <2>2 DEF Delivered, q
<1>7. ASSUME st.at = "open", st.inbox # <<>>, stream'[s] = Relayed(st)
      PROVE  Delivered(stream'[s]) = q /\ stream'[s].job = j
  <2>1. Delivered(Relayed(st)) = q /\ Relayed(st).job = j
    BY <1>1, <1>7, DeliveredRelayed DEF q
  <2>. QED  BY <1>7, <2>1
<1>8. \A i : Opened(i).at # "open"
  BY DEF Opened, NoStream
<1>9. NoStream.at # "open" /\ [st EXCEPT !.at = "closed"].at # "open"
  BY <1>1 DEF NoStream, Stream
<1>10. CASE stream'[s] = st
  BY <1>5, <1>10 DEF q
<1>. QED  BY <1>0, <1>4, <1>5, <1>6, <1>7, <1>8, <1>9, <1>10, StreamChange

\* Nobody is left watching a stage that will not end: without faults and
\* handovers a connection's last event is a verdict, or its run still goes on.
THEOREM ProgressNeverHangs == Spec => []NoHangingProgress
<1>1. Init => Attended
  BY DEF Init, Attended, NoStream
<1>2. TypeOK /\ LeaseInv /\ StoreInv /\ OrderInv /\ Attended /\ [Next]_vars => Attended'
  BY AttendedStep
<1>3. Attended => NoHangingProgress
  BY DEF Attended, NoHangingProgress, Delivered, LastHeard, Pursued
<1>. QED  BY <1>1, <1>2, <1>3, StoreCorrect, OrderCorrect, PTL DEF Spec

---------------------------------------------------------------------------
(***************************************************************************)
(* When the queue is through with a job, the row agrees with the queue.    *)
(***************************************************************************)
\* A goroutine that is about to return has left the row in the state that the
\* queue will conclude from its answer; before that, and while nothing is lost,
\* no result is stored.
AboutToReturn(j) ==
  \A w \in Workers : exec[w].job = j =>
    /\ exec[w].at \in {"emit_completed", "return_ok"} => row[j].status = "completed"
    /\ faults = 0 /\ exec[w].at \in {"emit_failed", "return_err"} => row[j].status = "failed"
    /\ faults = 0 /\ exec[w].at \notin {"emit_completed", "return_ok"} => row[j].result = 0

Concluded(j) ==
  /\ task[j].state = "completed" => row[j].status = "completed"
  /\ faults = 0 =>
       /\ task[j].state = "archived" => row[j].status = "failed"
       /\ task[j].state \in {"pending", "retry", "archived"} => row[j].result = 0
       /\ request[j] \in {"none", "created"} => row[j].result = 0
       /\ task[j].state = "active" => HasLease(j)

Concluding == \A j \in Jobs : handed[j] = 0 => AboutToReturn(j) /\ Concluded(j)

\* The only goroutine of a job that was never handed over.
LEMMA Alone ==
  ASSUME TypeOK, LeaseInv, NEW j \in Jobs, handed[j] = 0, NEW v \in Workers, exec[v].job = j
  PROVE  /\ \/ exec[v].mode = "task" /\ task[j].state = "active"
            \/ exec[v].mode = "chat" /\ task[j].state = "none"
         /\ request[j] \notin {"none", "created"}
         /\ \A w \in Workers : exec[w].job = j => w = v
<1>1. ASSUME NEW x \in Workers, exec[x].job = j
      PROVE  /\ \/ exec[x].mode = "task" /\ task[j].state = "active"
                \/ exec[x].mode = "chat" /\ task[j].state = "none"
             /\ exec[x].run \in 1 .. runs[j]
  <2>1. exec[x].mode \in Modes
    BY DEF TypeOK, Exec
  <2>2. exec[x].mode \notin {"idle", "detached"}
    BY <1>1, NoJobAssumption DEF LeaseInv, RunIdentity, RunStanding
  <2>. QED  BY <1>1, <2>1, <2>2 DEF Modes, LeaseInv, RunIdentity, RunStanding, RunCount
<1>2. request[j] \notin {"none", "created"}
  BY <1>1 DEF LeaseInv, RunCount
<1>3. ASSUME NEW w \in Workers, exec[w].job = j PROVE w = v
  BY <1>1, <1>3 DEF LeaseInv, OneHolder
<1>. QED  BY <1>1, <1>2, <1>3

\* A step that does not concern j.
Untouched(j) ==
  /\ row'[j] = row[j] /\ task'[j] = task[j] /\ request'[j] = request[j]
  /\ \A w \in Workers : exec'[w] = exec[w] \/ (exec[w].job # j /\ exec'[w].job # j)

LEMMA UntouchedKeeps ==
  ASSUME TypeOK, [Next]_vars, NEW j \in Jobs, Untouched(j), AboutToReturn(j), Concluded(j)
  PROVE  AboutToReturn(j)' /\ Concluded(j)'
<1>1. faults' = 0 => faults = 0
  BY FaultsGrow
<1>2. AboutToReturn(j)'
  BY <1>1 DEF Untouched, AboutToReturn
<1>3. HasLease(j) => HasLease(j)'
  BY DEF Untouched, HasLease
<1>. QED  BY <1>1, <1>2, <1>3 DEF Untouched, Concluded

\* A goroutine's own step inside runCore.
LEMMA ConcludingInside ==
  ASSUME TypeOK, LeaseInv, [Next]_vars, NEW v \in Workers, PipelineStep(v), ~ Return(v),
         NEW j \in Jobs, handed[j] = 0, exec[v].job = j, AboutToReturn(j), Concluded(j)
  PROVE  AboutToReturn(j)' /\ Concluded(j)'
<1>1. /\ row[j] \in Row /\ exec[v].stage \in 1 .. 3
      /\ exec[v].run \in Nat
  BY DEF TypeOK, Exec
<1>2. /\ task[j].state \in {"active", "none"} /\ request[j] \notin {"none", "created"}
      /\ \A w \in Workers : exec[w].job = j => w = v
  BY Alone
<1>3. SameRuns
  BY PipelineFrame
<1>4. faults' = 0 => faults = 0 /\ ~ Fault
  BY FaultsGrow
<1>5. /\ row'[j] \in Row
      /\ \A k : row' = [row EXCEPT ![j] = k] => row'[j] = k
  BY TypeStep DEF TypeOK
<1>6. Concluded(j)'
  <2>1. HasLease(j) => HasLease(j)'
    BY <1>3 DEF SameRuns, HasLease
  <2>. QED  BY <1>2, <1>3, <1>4, <2>1 DEF SameRuns, Concluded
<1>7. \A point : Goto(v, point) => exec'[v].at = point
  BY DEF Goto, TypeOK, Exec
<1>8. \A k : GotoStage(v, k) => exec'[v].at = "write_status"
  BY DEF GotoStage, TypeOK, Exec
<1>9. /\ InStage(row[j], exec[v].stage).result = row[j].result
      /\ [row[j] EXCEPT !.params = TRUE].result = row[j].result
      /\ Failed(row[j], exec[v].run).result = row[j].result
      /\ Failed(row[j], exec[v].run).status = "failed"
      /\ Completed(row[j], exec[v].run).status = "completed"
  BY <1>1 DEF InStage, Failed, Completed, Row
<1>10. /\ exec'[v].at \in {"emit_completed", "return_ok"} => row'[j].status = "completed"
       /\ faults' = 0 /\ exec'[v].at \in {"emit_failed", "return_err"} => row'[j].status = "failed"
       /\ faults' = 0 /\ exec'[v].at \notin {"emit_completed", "return_ok"} => row'[j].result = 0
  <2>0. /\ exec[v].at \in {"emit_completed", "return_ok"} => row[j].status = "completed"
        /\ faults = 0 /\ exec[v].at \in {"emit_failed", "return_err"} => row[j].status = "failed"
        /\ faults = 0 /\ exec[v].at \notin {"emit_completed", "return_ok"} => row[j].result = 0
    BY DEF AboutToReturn
  <2>1. CASE WriteStatus(v)
    BY <1>4, <1>5, <1>7, <1>9, <2>0, <2>1 DEF WriteStatus, Running
  <2>2. CASE EmitStatus(v) \/ CallFails(v)
    BY <1>4, <1>7, <2>0, <2>2 DEF EmitStatus, CallFails, Running
  <2>3. CASE Call(v)
    BY <1>4, <1>7, <1>8, <2>0, <2>3 DEF Call, ExtractParams, FetchJobs, FilterJobs, Running
  <2>4. CASE SaveParams(v)
    <3>1. row'[j].result = row[j].result
      BY <1>5, <1>9, <2>4 DEF SaveParams
    <3>. QED  BY <1>4, <1>8, <2>0, <2>4, <3>1 DEF SaveParams, Running
  <2>5. CASE StoreResult(v)
    BY <1>5, <1>7, <1>9, <2>5 DEF StoreResult
  <2>6. CASE StoreFails(v)
    BY <1>4, <1>7, <2>6 DEF StoreFails
  <2>7. CASE EmitCompleted(v)
    BY <1>4, <1>7, <2>0, <2>7 DEF EmitCompleted, Running
  <2>8. CASE WriteFailed(v)
    BY <1>4, <1>5, <1>7, <1>9, <2>0, <2>8 DEF WriteFailed, Running
  <2>9. CASE EmitFailed(v)
    BY <1>4, <1>7, <2>0, <2>9 DEF EmitFailed, Running
  <2>. QED  BY <2>1, <2>2, <2>3, <2>4, <2>5, <2>6, <2>7, <2>8, <2>9 DEF PipelineStep
<1>11. AboutToReturn(j)'
  BY <1>2, <1>3, <1>10 DEF SameRuns, AboutToReturn
<1>. QED  BY <1>6, <1>11

\* A goroutine's end, seen from the job it worked on.
LEMMA ConcludingEnd ==
  ASSUME TypeOK, LeaseInv, [Next]_vars, NEW v \in Workers,
         NEW j \in Jobs, handed[j] = 0, exec[v].job = j, AboutToReturn(j), Concluded(j),
         exec' = [exec EXCEPT ![v] = Idle], UNCHANGED <<request, row>>,
         \/ task' = task /\ (Fault \/ exec[v].mode # "task")
         \/ /\ exec[v].mode = "task" /\ exec[v].at = "return_ok"
            /\ task' = [task EXCEPT ![j].state = "completed"]
         \/ /\ (exec[v].mode = "task" /\ exec[v].at = "return_err") \/ Fault
            /\ task' = [task EXCEPT ![j] = AfterFailure(@)]
  PROVE  AboutToReturn(j)' /\ Concluded(j)'
<1>1. /\ \/ exec[v].mode = "task" /\ task[j].state = "active"
         \/ exec[v].mode = "chat" /\ task[j].state = "none"
      /\ request[j] \notin {"none", "created"}
      /\ \A w \in Workers : exec[w].job = j => w = v
  BY Alone
<1>2. faults' = 0 => faults = 0 /\ ~ Fault
  BY FaultsGrow
<1>3. \A w \in Workers : exec'[w].job # j
  BY <1>1, IdleFields, NoJobAssumption DEF TypeOK
<1>4. AboutToReturn(j)'
  BY <1>3 DEF AboutToReturn
<1>5. task[j] \in Task
  BY DEF TypeOK
<1>6. CASE task' = task /\ (Fault \/ exec[v].mode # "task")
  BY <1>1, <1>2, <1>4, <1>6 DEF Concluded
<1>7. CASE exec[v].at = "return_ok" /\ task' = [task EXCEPT ![j].state = "completed"]
  <2>1. task'[j].state = "completed"
    BY <1>5, <1>7 DEF TypeOK, Task
  <2>2. row[j].status = "completed"
    BY <1>7 DEF AboutToReturn
  <2>. QED  BY <1>1, <1>4, <2>1, <2>2 DEF Concluded
<1>8. CASE (exec[v].at = "return_err" \/ Fault) /\ task' = [task EXCEPT ![j] = AfterFailure(@)]
  <2>1. task'[j].state \in {"retry", "archived"}
    BY <1>5, <1>8, AfterFailureType DEF TypeOK
  <2>2. faults' = 0 => row[j].status = "failed" /\ row[j].result = 0
    BY <1>2, <1>8 DEF AboutToReturn
  <2>. QED  BY <1>1, <1>2, <1>4, <2>1, <2>2 DEF Concluded
<1>. QED  BY <1>6, <1>7, <1>8

LEMMA ConcludingStep ==
  ASSUME TypeOK, LeaseInv, RowOutcome, Concluding, [Next]_vars
  PROVE  Concluding'
<1>. SUFFICES ASSUME NEW j \in Jobs, handed'[j] = 0
              PROVE  AboutToReturn(j)' /\ Concluded(j)'
  BY DEF Concluding
<1>0. handed[j] = 0 /\ (faults' = 0 => faults = 0 /\ ~ Fault)
  <2>1. TypeOK'
    BY TypeStep
  <2>. QED  BY <2>1, Growth, FaultsGrow, BoundsAssumption DEF TypeOK
<1>1. AboutToReturn(j) /\ Concluded(j)
  BY <1>0 DEF Concluding
<1>2. \A w \in Workers : exec[w].job = j =>
         /\ \/ exec[w].mode = "task" /\ task[j].state = "active"
            \/ exec[w].mode = "chat" /\ task[j].state = "none"
         /\ request[j] \notin {"none", "created"}
  BY <1>0, Alone
<1>3. ASSUME NEW i \in Jobs, CreateRow(i) \/ Enqueue(i) \/ EnqueueFails(i) \/ ApiCrash(i)
      PROVE  AboutToReturn(j)' /\ Concluded(j)'
  <2>1. CASE i # j
    <3>1. Untouched(j)
      BY <1>3, <2>1 DEF CreateRow, Enqueue, EnqueueFails, ApiCrash, Untouched, TypeOK
    <3>. QED  BY <1>1, <3>1, UntouchedKeeps
  <2>2. CASE i = j
    <3>1. task[j].state = "none" /\ task[j] \in Task /\ request[j] \in {"none", "created"} /\ UNCHANGED exec
      BY <1>3, <2>2 DEF CreateRow, Enqueue, EnqueueFails, ApiCrash, LeaseInv, RunCount, TypeOK
    <3>2. AboutToReturn(j)'
      BY <1>2, <3>1 DEF AboutToReturn
    <3>3. task'[j] = task[j] \/ task'[j].state = "pending"
      BY <1>3, <2>2, <3>1 DEF CreateRow, Enqueue, EnqueueFails, ApiCrash, TypeOK, Task
    <3>4. row'[j] = row[j] \/ row'[j] = PendingRow
      BY <1>3, <2>2 DEF CreateRow, Enqueue, EnqueueFails, ApiCrash, TypeOK
    <3>5. PendingRow.result = 0
      BY DEF PendingRow, NoRow
    <3>. QED  BY <1>0, <1>1, <3>1, <3>2, <3>3, <3>4, <3>5 DEF Concluded
  <2>. QED  BY <2>1, <2>2
<1>4. ASSUME NEW i \in Jobs, ForwardRetry(i) \/ Recover(i)
      PROVE  AboutToReturn(j)' /\ Concluded(j)'
  <2>1. CASE i # j
    <3>1. Untouched(j)
      BY <1>4, <2>1 DEF ForwardRetry, Recover, Untouched, TypeOK
    <3>. QED  BY <1>1, <3>1, UntouchedKeeps
  <2>2. CASE i = j
    <3>1. UNCHANGED <<exec, row, request, faults>> /\ task[j] \in Task
      BY <1>4 DEF ForwardRetry, Recover, TypeOK
    <3>2. AboutToReturn(j)'
      BY <1>1, <3>1 DEF AboutToReturn
    <3>3. \/ task[j].state = "retry" /\ task'[j].state = "pending"
          \/ ~ HasLease(j) /\ task[j].state = "active" /\ task'[j].state \in {"retry", "archived"}
      BY <1>4, <2>2, <3>1, AfterFailureType DEF ForwardRetry, Recover, TypeOK, Task
    <3>. QED  BY <1>1, <3>1, <3>2, <3>3 DEF Concluded
  <2>. QED  BY <2>1, <2>2
<1>5. ASSUME NEW w \in Workers, NEW i \in Jobs, Dequeue(w, i) \/ ChatRun(w, i)
      PROVE  AboutToReturn(j)' /\ Concluded(j)'
  <2>0. PICK m \in {"task", "chat"} : Begin(w, i, m) /\ (m = "task" <=> Dequeue(w, i))
    BY <1>5 DEF Dequeue, ChatRun
  <2>1. /\ exec[w].mode = "idle" /\ exec[w].job = NoJob /\ exec'[w].job = i
        /\ exec'[w].mode = m /\ exec'[w].at = "write_status"
        /\ \A v \in Workers : v # w => exec'[v] = exec[v]
    BY <2>0 DEF Begin, NewRun, LeaseInv, RunIdentity, TypeOK
  <2>2. CASE i # j
    <3>1. Untouched(j)
      BY <1>5, <2>1, <2>2, NoJobAssumption DEF Dequeue, ChatRun, Untouched, TypeOK
    <3>. QED  BY <1>1, <3>1, UntouchedKeeps
  <2>3. CASE i = j
    <3>1. \/ /\ m = "task" /\ task[j].state = "pending" /\ task'[j].state = "active"
             /\ request'[j] = request[j] /\ row'[j] = row[j]
          \/ /\ m = "chat" /\ task[j].state = "none" /\ task'[j].state = "none" /\ request'[j] = "chat"
             /\ row'[j] = PendingRow
      BY <1>5, <2>0, <2>3 DEF Dequeue, ChatRun, LeaseInv, RunCount, TypeOK, Task
    <3>2. PendingRow.result = 0 /\ PendingRow.status = "pending"
      BY DEF PendingRow, NoRow
    <3>3. \A v \in Workers : exec[v].job # j
      BY <1>2, <1>5, <2>3, <3>1 DEF ChatRun, Dequeue
    <3>4. faults' = faults
      BY <1>5 DEF Dequeue, ChatRun
    <3>5. faults = 0 => row'[j].result = 0
      BY <1>1, <3>1, <3>2 DEF Concluded
    <3>6. AboutToReturn(j)'
      BY <2>1, <2>3, <3>3, <3>4, <3>5 DEF AboutToReturn
    <3>7. task'[j].state = "active" => HasLease(j)'
      BY <2>1, <2>3, <3>1 DEF HasLease
    <3>. QED  BY <1>1, <3>1, <3>4, <3>5, <3>6, <3>7 DEF Concluded
  <2>. QED  BY <2>2, <2>3
<1>6. ASSUME NEW v \in Workers, PipelineStep(v)
      PROVE  AboutToReturn(j)' /\ Concluded(j)'
  <2>1. CASE exec[v].job # j
    <3>1. \A k : row' = [row EXCEPT ![exec[v].job] = k] => row'[j] = row[j]
      BY <2>1 DEF TypeOK
    <3>2. row'[j] = row[j]
      BY <1>6, <3>1 DEF PipelineStep, WriteStatus, EmitStatus, Call, CallFails, SaveParams, StoreResult, StoreFails,
         EmitCompleted, WriteFailed, EmitFailed, Return
    <3>3. task'[j] = task[j] /\ request'[j] = request[j]
      BY <1>6, <2>1 DEF PipelineStep, WriteStatus, EmitStatus, Call, CallFails, SaveParams, StoreResult, StoreFails,
         EmitCompleted, WriteFailed, EmitFailed, Return, OnlyPipeline, TypeOK
    <3>4. \A w \in Workers : w # v => exec'[w] = exec[w]
      BY <1>6 DEF PipelineStep, WriteStatus, EmitStatus, Call, ExtractParams, FetchJobs, FilterJobs, CallFails,
         SaveParams, StoreResult, StoreFails, EmitCompleted, WriteFailed, EmitFailed, Return, Goto, GotoStage, TypeOK
    <3>5. exec'[v].job # j
      <4>1. CASE Return(v)
        BY <4>1, IdleFields, NoJobAssumption DEF Return, TypeOK
      <4>. QED  BY <1>6, <2>1, <4>1, PipelineFrame DEF SameRuns
    <3>6. Untouched(j)
      BY <2>1, <3>2, <3>3, <3>4, <3>5 DEF Untouched
    <3>. QED  BY <1>1, <3>6, UntouchedKeeps
  <2>2. CASE exec[v].job = j /\ Return(v)
    BY <1>0, <1>1, <2>2, ConcludingEnd DEF Return
  <2>3. CASE exec[v].job = j /\ ~ Return(v)
    BY <1>0, <1>1, <1>6, <2>3, ConcludingInside
  <2>. QED  BY <2>1, <2>2, <2>3
<1>7. ASSUME NEW v \in Workers, Deadline(v) \/ Crash(v) \/ Handover(v) \/ ProcessExit(v)
      PROVE  AboutToReturn(j)' /\ Concluded(j)'
  <2>1. CASE exec[v].job # j
    <3>1. row'[j] = row[j] /\ task'[j] = task[j] /\ request'[j] = request[j]
      BY <1>7, <2>1 DEF Deadline, Crash, Handover, ProcessExit, TypeOK
    <3>2. /\ \A w \in Workers : w # v => exec'[w] = exec[w]
          /\ exec'[v].job \in {exec[v].job, NoJob}
      BY <1>7, IdleFields DEF Deadline, Crash, Handover, ProcessExit, TypeOK, Exec
    <3>3. Untouched(j)
      BY <2>1, <3>1, <3>2, NoJobAssumption DEF Untouched
    <3>. QED  BY <1>1, <3>3, UntouchedKeeps
  <2>2. CASE exec[v].job = j
    <3>1. ~ Handover(v)
      BY <1>0, <2>2, BoundsAssumption DEF Handover, TypeOK
    <3>2. ~ ProcessExit(v)
      BY <1>2, <2>2 DEF ProcessExit
    <3>. QED  BY <1>0, <1>1, <1>7, <2>2, <3>1, <3>2, ConcludingEnd DEF Deadline, Crash
  <2>. QED  BY <2>1, <2>2
<1>8. ASSUME \/ \E s \in Streams : (\E i \in Jobs : Open(s, i)) \/ Subscribe(s) \/ Relay(s) \/ CloseStream(s) \/ Reconnect(s)
             \/ UNCHANGED vars
      PROVE  AboutToReturn(j)' /\ Concluded(j)'
  <2>1. Untouched(j)
    BY <1>8 DEF Open, Subscribe, Relay, CloseStream, Reconnect, vars, Untouched
  <2>. QED  BY <1>1, <2>1, UntouchedKeeps
<1>. QED  BY <1>3, <1>4, <1>5, <1>6, <1>7, <1>8 DEF Next

\* An acknowledged task left a completed row; a task archived after its last
\* retry left, faults and handovers aside, a failed row without a result.
THEOREM QueueAndRowAgreed == Spec => []QueueAndRowAgree
<1>1. Init => Concluding
  BY IdleFields, NoJobAssumption DEF Init, Concluding, AboutToReturn, Concluded, NoRow
<1>2. TypeOK /\ LeaseInv /\ StoreInv /\ Concluding /\ [Next]_vars => Concluding'
  BY ConcludingStep DEF StoreInv
<1>3. Concluding => QueueAndRowAgree
  BY DEF Concluding, Concluded, QueueAndRowAgree
<1>. QED  BY <1>1, <1>2, <1>3, StoreCorrect, PTL DEF Spec
=============================================================================
