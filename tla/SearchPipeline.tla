--------------------------- MODULE SearchPipeline ---------------------------
(***************************************************************************)
(* The asynchronous job search: POST /search/initiate, the asynq task and  *)
(* its retries, the worker's pipeline, the row in search_jobs, the Redis   *)
(* channel and the SSE connections that relay it.  The chat tool's         *)
(* synchronous run of the same pipeline is included: it creates its own    *)
(* row, has no task and no retry, and publishes nothing to Redis.          *)
(*                                                                         *)
(* One action is one remote call (a statement, a PUBLISH, a model or SERP  *)
(* request, a queue operation), so that every other actor may move between *)
(* two of them.  A run is one execution of runCore; runs of a job are      *)
(* numbered, and a stored result or error carries the number of its run.   *)
(***************************************************************************)
EXTENDS Integers, Sequences, FiniteSets

CONSTANTS Jobs, Workers, Streams, NoJob,
          MaxRetry,     \* asynq.MaxRetry of the task (2 in the code)
          MaxFaults,    \* bound: crashes, lost contexts and failed writes
          MaxHandovers  \* bound, per job: shutdowns that give a task back

ASSUME NoJobAssumption == NoJob \notin Jobs
ASSUME BoundsAssumption == MaxRetry \in Nat /\ MaxFaults \in Nat /\ MaxHandovers \in Nat

VARIABLES request,  \* [Jobs -> ...]: what became of the request for the job
          row,      \* [Jobs -> Row]: the job's row in search_jobs
          task,     \* [Jobs -> Task]: the asynq task whose id is the job's
          exec,     \* [Workers -> Exec]: the goroutines executing runCore
          stream,   \* [Streams -> Stream]: the SSE connections
          runs,     \* [Jobs -> Nat]: runs started (numbers the runs)
          handed,   \* [Jobs -> Nat]: times a shutdown gave the task back
          faults    \* faults so far

rowVars == <<request, row>>
vars == <<request, row, task, exec, stream, runs, handed, faults>>

---------------------------------------------------------------------------
\* The pipeline's three stages, in the order of runCore.
StageStatus == <<"extracting", "fetching_jobs", "ai_filtering">>
StageProgress == <<10, 40, 70>>

Terminal == {"completed", "failed"}
Kinds == {"extracting", "fetching_jobs", "ai_filtering"} \cup Terminal

Row == [status : {"none", "pending"} \cup Kinds, progress : {0, 10, 40, 70, 100},
        params : BOOLEAN, result : Nat, error : Nat]
NoRow == [status |-> "none", progress |-> 0, params |-> FALSE, result |-> 0, error |-> 0]

Task == [state : {"none", "pending", "active", "retry", "completed", "archived"},
         retried : 0 .. MaxRetry]
Settled == {"completed", "archived"}

\* "task": the goroutine holds the task's lease.  "detached": a shutdown gave
\* the task back while the goroutine still runs.  "chat": RunForChat.
Modes == {"idle", "task", "detached", "chat"}
Points == {"write_status", "emit_status", "call", "save_params", "store",
           "emit_completed", "write_failed", "emit_failed", "return_ok", "return_err"}
Exec == [mode : Modes, job : Jobs \cup {NoJob}, run : Nat, stage : 1 .. 3, at : Points]
NewRun(m, j, n) == [mode |-> m, job |-> j, run |-> n, stage |-> 1, at |-> "write_status"]
Idle == NewRun("idle", NoJob, 0)

Event == [run : Nat, kind : Kinds]
Stream == [job : Jobs \cup {NoJob}, at : {"idle", "subscribing", "open", "closed"},
           inbox : Seq(Event), frames : Seq(Event)]
NoStream == [job |-> NoJob, at |-> "idle", inbox |-> <<>>, frames |-> <<>>]

Requests == {"none", "created", "accepted", "error", "lost", "chat"}

TypeOK ==
  /\ request \in [Jobs -> Requests]
  /\ row \in [Jobs -> Row]
  /\ task \in [Jobs -> Task]
  /\ exec \in [Workers -> Exec]
  /\ stream \in [Streams -> Stream]
  /\ runs \in [Jobs -> Nat]
  /\ handed \in [Jobs -> 0 .. MaxHandovers]
  /\ faults \in 0 .. MaxFaults

Init ==
  /\ request = [j \in Jobs |-> "none"]
  /\ row = [j \in Jobs |-> NoRow]
  /\ task = [j \in Jobs |-> [state |-> "none", retried |-> 0]]
  /\ exec = [w \in Workers |-> Idle]
  /\ stream = [s \in Streams |-> NoStream]
  /\ runs = [j \in Jobs |-> 0]
  /\ handed = [j \in Jobs |-> 0]
  /\ faults = 0

Fault == faults < MaxFaults /\ faults' = faults + 1
NoFault == UNCHANGED faults

---------------------------------------------------------------------------
(***************************************************************************)
(* The API process: Initiate inserts the row, then enqueues the task.  A   *)
(* failed INSERT leaves nothing behind and is not a step.                  *)
(***************************************************************************)
PendingRow == [NoRow EXCEPT !.status = "pending"]

CreateRow(j) ==
  /\ request[j] = "none"
  /\ request' = [request EXCEPT ![j] = "created"]
  /\ row' = [row EXCEPT ![j] = PendingRow]
  /\ UNCHANGED <<task, exec, stream, runs, handed, faults>>

Enqueue(j) ==
  /\ request[j] = "created"
  /\ request' = [request EXCEPT ![j] = "accepted"]
  /\ task' = [task EXCEPT ![j].state = "pending"]
  /\ UNCHANGED <<row, exec, stream, runs, handed, faults>>

\* EnqueueContext returns an error: the task was not enqueued, or it was and
\* the reply was lost.  The client gets an error and the row stays as it is.
EnqueueFails(j) ==
  /\ request[j] = "created"
  /\ Fault
  /\ request' = [request EXCEPT ![j] = "error"]
  /\ \/ UNCHANGED task
     \/ task' = [task EXCEPT ![j].state = "pending"]
  /\ UNCHANGED <<row, exec, stream, runs, handed>>

\* The API process dies between the INSERT and the enqueue.
ApiCrash(j) ==
  /\ request[j] = "created"
  /\ Fault
  /\ request' = [request EXCEPT ![j] = "lost"]
  /\ UNCHANGED <<row, task, exec, stream, runs, handed>>

---------------------------------------------------------------------------
(***************************************************************************)
(* The asynq server (external): at-least-once execution under a lease.     *)
(***************************************************************************)
Begin(w, j, m) ==
  /\ exec[w].mode = "idle"
  /\ runs' = [runs EXCEPT ![j] = @ + 1]
  /\ exec' = [exec EXCEPT ![w] = NewRun(m, j, runs[j] + 1)]

\* What the queue does with a task whose execution failed: schedule a retry,
\* or archive it when MaxRetry retries are used up.
MutRetryOffByOne(t) ==
  IF t.retried <= MaxRetry
    THEN [state |-> "retry", retried |-> t.retried + 1]
    ELSE [t EXCEPT !.state = "archived"]
AfterFailure(t) ==
  IF t.retried < MaxRetry
    THEN [state |-> "retry", retried |-> t.retried + 1]
    ELSE [t EXCEPT !.state = "archived"]

Dequeue(w, j) ==
  /\ task[j].state = "pending"
  /\ task' = [task EXCEPT ![j].state = "active"]
  /\ Begin(w, j, "task")
  /\ UNCHANGED <<request, row, stream, handed, faults>>

\* The delayed-task forwarder moves a retry whose backoff is over.
ForwardRetry(j) ==
  /\ task[j].state = "retry"
  /\ task' = [task EXCEPT ![j].state = "pending"]
  /\ UNCHANGED <<request, row, exec, stream, runs, handed, faults>>

\* The recoverer finds an active task whose lease has run out.
HasLease(j) == \E w \in Workers : exec[w].mode = "task" /\ exec[w].job = j

MutNeverRecover(j) == FALSE /\ UNCHANGED vars
Recover(j) ==
  /\ task[j].state = "active"
  /\ ~ HasLease(j)
  /\ task' = [task EXCEPT ![j] = AfterFailure(@)]
  /\ UNCHANGED <<request, row, exec, stream, runs, handed, faults>>

---------------------------------------------------------------------------
(***************************************************************************)
(* runCore.  Goto moves a goroutine inside the pipeline; the write actions *)
(* have the two outcomes the code tells apart or ignores.                  *)
(***************************************************************************)
Running(w, point) == exec[w].mode # "idle" /\ exec[w].at = point
Goto(w, point) == exec' = [exec EXCEPT ![w].at = point]
GotoStage(w, k) == exec' = [exec EXCEPT ![w].stage = k, ![w].at = "write_status"]
OnlyPipeline == UNCHANGED <<request, task, runs, handed>>

\* SetStatus; its error is dropped, so a failed UPDATE goes unnoticed.
InStage(r, k) == [r EXCEPT !.status = StageStatus[k], !.progress = StageProgress[k]]

WriteStatus(w) ==
  /\ Running(w, "write_status")
  /\ \/ row' = [row EXCEPT ![exec[w].job] = InStage(@, exec[w].stage)] /\ NoFault
     \/ UNCHANGED row /\ Fault
  /\ Goto(w, "emit_status")
  /\ OnlyPipeline /\ UNCHANGED stream

\* PUBLISH reaches the connections subscribed at this moment; those whose Redis
\* connection is being re-established miss it, and all do when the call itself
\* fails.  A chat run emits to its own chat stream, which is no concern of this
\* module.
Subscribed(j) == {s \in Streams : stream[s].at = "open" /\ stream[s].job = j}

Deliver(reached, e) ==
  stream' = [s \in Streams |-> IF s \in reached
                                 THEN [stream[s] EXCEPT !.inbox = Append(@, e)]
                                 ELSE stream[s]]

Publish(w, kind) ==
  LET audience == IF exec[w].mode = "chat" THEN {} ELSE Subscribed(exec[w].job)
      e == [run |-> exec[w].run, kind |-> kind]
  IN \/ Deliver(audience, e) /\ NoFault
     \/ \E missed \in SUBSET audience : missed # {} /\ Deliver(audience \ missed, e) /\ Fault

EmitStatus(w) ==
  /\ Running(w, "emit_status")
  /\ Publish(w, StageStatus[exec[w].stage])
  /\ Goto(w, "call")
  /\ OnlyPipeline /\ UNCHANGED row

\* The remote call each stage is made for, answered or failed.
ExtractParams(w) == exec[w].stage = 1 /\ Goto(w, "save_params")
FetchJobs(w) == exec[w].stage = 2 /\ GotoStage(w, 3)
FilterJobs(w) == exec[w].stage = 3 /\ Goto(w, "store")

Call(w) ==
  /\ Running(w, "call")
  /\ ExtractParams(w) \/ FetchJobs(w) \/ FilterJobs(w)
  /\ OnlyPipeline /\ UNCHANGED <<row, stream, faults>>

MutFailSilently(w) ==
  /\ Running(w, "call")
  /\ Goto(w, "emit_failed")
  /\ OnlyPipeline /\ UNCHANGED <<row, stream, faults>>
CallFails(w) ==
  /\ Running(w, "call")
  /\ Goto(w, "write_failed")
  /\ OnlyPipeline /\ UNCHANGED <<row, stream, faults>>

SaveParams(w) ==
  /\ Running(w, "save_params")
  /\ \/ row' = [row EXCEPT ![exec[w].job].params = TRUE] /\ NoFault
     \/ UNCHANGED row /\ Fault
  /\ GotoStage(w, 2)
  /\ OnlyPipeline /\ UNCHANGED stream

\* SetCompleted: status, progress and result in one UPDATE; error untouched.
MutStatusOnly(r, n) == [r EXCEPT !.status = "completed", !.progress = 100]
Completed(r, n) == [r EXCEPT !.status = "completed", !.progress = 100, !.result = n]

MutAnnounceUnstored(w) ==
  /\ Running(w, "store")
  /\ Goto(w, "emit_completed")
  /\ OnlyPipeline /\ UNCHANGED <<row, stream, faults>>
StoreResult(w) ==
  LET j == exec[w].job IN
  /\ Running(w, "store")
  /\ row' = [row EXCEPT ![j] = Completed(@, exec[w].run)]
  /\ Goto(w, "emit_completed")
  /\ OnlyPipeline /\ UNCHANGED <<stream, faults>>

\* SetCompleted returns an error: not committed, or committed and the reply lost.
StoreFails(w) ==
  LET j == exec[w].job IN
  /\ Running(w, "store")
  /\ Fault
  /\ \/ UNCHANGED row
     \/ row' = [row EXCEPT ![j] = Completed(@, exec[w].run)]
  /\ Goto(w, "write_failed")
  /\ OnlyPipeline /\ UNCHANGED stream

EmitCompleted(w) ==
  /\ Running(w, "emit_completed")
  /\ Publish(w, "completed")
  /\ Goto(w, "return_ok")
  /\ OnlyPipeline /\ UNCHANGED row

\* fail(): SetFailed, whose error is dropped, then the failed event.
MutFailedDropsResult(r, n) == [r EXCEPT !.status = "failed", !.error = n, !.result = 0]
Failed(r, n) == [r EXCEPT !.status = "failed", !.error = n]

WriteFailed(w) ==
  LET j == exec[w].job IN
  /\ Running(w, "write_failed")
  /\ \/ row' = [row EXCEPT ![j] = Failed(@, exec[w].run)] /\ NoFault
     \/ UNCHANGED row /\ Fault
  /\ Goto(w, "emit_failed")
  /\ OnlyPipeline /\ UNCHANGED stream

MutNoFailedEvent(w) ==
  /\ Running(w, "emit_failed")
  /\ Goto(w, "return_err")
  /\ OnlyPipeline /\ UNCHANGED <<row, stream, faults>>
EmitFailed(w) ==
  /\ Running(w, "emit_failed")
  /\ Publish(w, "failed")
  /\ Goto(w, "return_err")
  /\ OnlyPipeline /\ UNCHANGED row

\* The handler returns: asynq acknowledges or fails the task when the
\* goroutine still holds the lease; otherwise nobody looks at the outcome.
MutAckErrors(w) ==
  /\ exec[w].mode = "task" /\ exec[w].at \in {"return_ok", "return_err"}
  /\ task' = [task EXCEPT ![exec[w].job].state = "completed"]
  /\ exec' = [exec EXCEPT ![w] = Idle]
  /\ UNCHANGED <<request, row, stream, runs, handed, faults>>
MutRetriesItself(w) ==
  LET j == exec[w].job IN
  /\ exec[w].mode = "task"
  /\ \/ /\ exec[w].at = "return_ok"
        /\ task' = [task EXCEPT ![j].state = "completed"]
        /\ exec' = [exec EXCEPT ![w] = Idle]
        /\ UNCHANGED runs
     \/ /\ exec[w].at = "return_err"
        /\ runs' = [runs EXCEPT ![j] = @ + 1]
        /\ exec' = [exec EXCEPT ![w] = NewRun("task", j, runs[j] + 1)]
        /\ UNCHANGED task
  /\ UNCHANGED <<request, row, stream, handed, faults>>
Return(w) ==
  /\ exec[w].mode # "idle" /\ exec[w].at \in {"return_ok", "return_err"}
  /\ \/ /\ exec[w].mode # "task"
        /\ UNCHANGED task
     \/ /\ exec[w].mode = "task" /\ exec[w].at = "return_ok"
        /\ task' = [task EXCEPT ![exec[w].job].state = "completed"]
     \/ /\ exec[w].mode = "task" /\ exec[w].at = "return_err"
        /\ task' = [task EXCEPT ![exec[w].job] = AfterFailure(@)]
  /\ exec' = [exec EXCEPT ![w] = Idle]
  /\ UNCHANGED <<request, row, stream, runs, handed, faults>>

---------------------------------------------------------------------------
(***************************************************************************)
(* Everything that ends a run from outside.  A run whose context is done   *)
(* executes nothing more that can be seen: each repository call, PUBLISH,  *)
(* and fail() itself, uses that context and returns its error.  So the     *)
(* goroutine is simply gone, and the row keeps the status it had.          *)
(***************************************************************************)
\* The task's deadline (asynq's default timeout), which is also what ends a call
\* of the model client that hangs: the queue fails the task.
Deadline(w) ==
  /\ exec[w].mode = "task"
  /\ Fault
  /\ task' = [task EXCEPT ![exec[w].job] = AfterFailure(@)]
  /\ exec' = [exec EXCEPT ![w] = Idle]
  /\ UNCHANGED <<request, row, stream, runs, handed>>

\* The worker process dies, or its lease runs out and its context with it; the
\* client of a chat run disconnects, or the chat turn's five minutes are over.
Crash(w) ==
  /\ exec[w].mode \in {"task", "chat"}
  /\ Fault
  /\ exec' = [exec EXCEPT ![w] = Idle]
  /\ UNCHANGED <<request, row, task, stream, runs, handed>>

\* A worker that is shutting down gives the task back without counting a
\* retry; until the process exits the goroutine runs on, context intact.
Handover(w) ==
  LET j == exec[w].job IN
  /\ exec[w].mode = "task"
  /\ handed[j] < MaxHandovers
  /\ handed' = [handed EXCEPT ![j] = @ + 1]
  /\ task' = [task EXCEPT ![j].state = "pending"]
  /\ exec' = [exec EXCEPT ![w].mode = "detached"]
  /\ UNCHANGED <<request, row, stream, runs, faults>>

ProcessExit(w) ==
  /\ exec[w].mode = "detached"
  /\ exec' = [exec EXCEPT ![w] = Idle]
  /\ UNCHANGED <<request, row, task, stream, runs, handed, faults>>

\* RunForChat: create the row and run the pipeline in this goroutine.
ChatRun(w, j) ==
  /\ request[j] = "none"
  /\ request' = [request EXCEPT ![j] = "chat"]
  /\ row' = [row EXCEPT ![j] = PendingRow]
  /\ Begin(w, j, "chat")
  /\ UNCHANGED <<task, stream, handed, faults>>

---------------------------------------------------------------------------
(***************************************************************************)
(* GET /search/stream/:id.  The row is read first; only then, inside the   *)
(* body writer, is the channel subscribed.                                 *)
(***************************************************************************)
\* Repository.Get; no row is a 404 and no step.
Found(j) == row[j].status # "none"

Snapshot(r) == <<[run |-> IF r.status = "completed" THEN r.result ELSE r.error, kind |-> r.status]>>

MutOpenedCompleted(j) ==
  IF row[j].status = "completed"
    THEN [NoStream EXCEPT !.job = j, !.at = "closed", !.frames = Snapshot(row[j])]
    ELSE [NoStream EXCEPT !.job = j, !.at = "subscribing"]
Opened(j) == IF row[j].status \in Terminal
               THEN [NoStream EXCEPT !.job = j, !.at = "closed", !.frames = Snapshot(row[j])]
               ELSE [NoStream EXCEPT !.job = j, !.at = "subscribing"]

Open(s, j) ==
  /\ stream[s].at = "idle"
  /\ Found(j)
  /\ stream' = [stream EXCEPT ![s] = Opened(j)]
  /\ UNCHANGED <<request, row, task, exec, runs, handed, faults>>

Subscribe(s) ==
  /\ stream[s].at = "subscribing"
  /\ stream' = [stream EXCEPT ![s].at = "open"]
  /\ UNCHANGED <<request, row, task, exec, runs, handed, faults>>

\* One frame per message; the connection ends after a terminal one.
MutEndsOnCompleted(e) == e.kind = "completed"
EndsStream(e) == e.kind \in Terminal

Relayed(st) ==
  LET e == Head(st.inbox) IN
  [st EXCEPT !.inbox = Tail(@), !.frames = Append(@, e),
             !.at = IF EndsStream(e) THEN "closed" ELSE "open"]

Relay(s) ==
  /\ stream[s].at = "open" /\ stream[s].inbox # <<>>
  /\ stream' = [stream EXCEPT ![s] = Relayed(@)]
  /\ UNCHANGED <<request, row, task, exec, runs, handed, faults>>

\* What the client knows: the last frame written to it.
LastKind(f) == IF f = <<>> THEN "nothing"
               ELSE IF f[Len(f)].kind \in Terminal THEN f[Len(f)].kind ELSE "progress"

\* Five minutes are over, or writing to the client failed.
CloseStream(s) ==
  /\ stream[s].at \in {"subscribing", "open"}
  /\ stream' = [stream EXCEPT ![s].at = "closed"]
  /\ UNCHANGED <<request, row, task, exec, runs, handed, faults>>

\* A client whose connection ended without a verdict comes back, and nobody
\* remembers it: the next connection starts from nothing.
Reconnect(s) ==
  /\ stream[s].at = "closed"
  /\ LastKind(stream[s].frames) \notin Terminal
  /\ stream' = [stream EXCEPT ![s] = NoStream]
  /\ UNCHANGED <<request, row, task, exec, runs, handed, faults>>

---------------------------------------------------------------------------
PipelineStep(w) ==
  \/ WriteStatus(w) \/ EmitStatus(w) \/ Call(w) \/ CallFails(w)
  \/ SaveParams(w) \/ StoreResult(w) \/ StoreFails(w) \/ EmitCompleted(w)
  \/ WriteFailed(w) \/ EmitFailed(w) \/ Return(w)

Next ==
  \/ \E j \in Jobs : \/ CreateRow(j) \/ Enqueue(j) \/ EnqueueFails(j) \/ ApiCrash(j)
                     \/ ForwardRetry(j) \/ Recover(j)
  \/ \E w \in Workers, j \in Jobs : Dequeue(w, j) \/ ChatRun(w, j)
  \/ \E w \in Workers : PipelineStep(w) \/ Deadline(w) \/ Crash(w) \/ Handover(w) \/ ProcessExit(w)
  \/ \E s \in Streams, j \in Jobs : Open(s, j)
  \/ \E s \in Streams : Subscribe(s) \/ Relay(s) \/ CloseStream(s) \/ Reconnect(s)

Spec == Init /\ [][Next]_vars

\* Fairness: a live goroutine keeps executing.  PostgreSQL and SERP calls answer
\* or fail by themselves; the model client has no timeout of its own, and a call
\* of it that hangs lasts until the context ends (asynq's default deadline of
\* the task, the five minutes of a chat turn), which is Deadline or Crash and
\* counts as a fault.  asynq's queue is FIFO, its forwarder and recoverer run on
\* timers, a shutting-down process exits, and the SSE context has a deadline.
\* Only the last conjunct is about clients: one that follows a job asks again
\* until it has a verdict.  TasksSettle does not need it.
\* Crashes, faults, shutdowns and new requests are never required to happen.
Fairness ==
  /\ \A j \in Jobs : /\ SF_vars(\E w \in Workers : Dequeue(w, j))
                     /\ WF_vars(ForwardRetry(j)) /\ WF_vars(Recover(j))
  /\ \A w \in Workers : WF_vars(PipelineStep(w)) /\ WF_vars(ProcessExit(w))
  /\ \A s \in Streams : WF_vars(CloseStream(s))
  /\ \A s \in Streams : WF_vars(Reconnect(s)) /\ WF_vars(\E j \in Jobs : Open(s, j))

FairSpec == Spec /\ Fairness

---------------------------------------------------------------------------
(***************************************************************************)
(* Safety.                                                                 *)
(***************************************************************************)
\* A row's status is backed by the columns a reader looks at next: completed
\* rows carry progress 100 and the result of one of the job's runs, failed
\* rows the error of one.  (SetCompleted, SetFailed, repository.go:105-126.)
RowBacksStatus ==
  \A j \in Jobs :
    /\ row[j].status = "completed" => row[j].progress = 100 /\ row[j].result \in 1 .. runs[j]
    /\ row[j].status = "failed" => row[j].error \in 1 .. runs[j]

\* A result once stored survives retries, crashes and late failures, and only
\* a process that gave its task back at shutdown can replace a newer result
\* by an older one.  (runCore reruns over a row that already has a result.)
ResultKept ==
  [][\A j \in Jobs : row[j].result # 0 =>
       /\ row'[j].result # 0
       /\ handed[j] = 0 => row'[j].result >= row[j].result]_vars

\* Whoever is told "completed", live or from the row, can read a result back:
\* the event is published after the commit.  (runCore:147-150, stream:117-125.)
AnnouncedIsStored ==
  \A s \in Streams :
    LET heard == stream[s].frames \o stream[s].inbox
        j == stream[s].job
    IN \A i \in 1 .. Len(heard) : heard[i].kind = "completed" =>
         /\ row[j].result # 0
         /\ handed[j] = 0 => row[j].result >= heard[i].run

\* A connection's frames: a terminal one only at the end, and of each run a
\* subsequence of what that run emitted, in its order; without a shutdown
\* handover the runs themselves do not interleave.  (stream:141-171.)
Rank(kind) == CASE kind = "extracting" -> 1 [] kind = "fetching_jobs" -> 2
                [] kind = "ai_filtering" -> 3 [] OTHER -> 4
StreamWellFormed ==
  \A s \in Streams :
    LET f == stream[s].frames IN
    \A i, k \in 1 .. Len(f) : i < k =>
      /\ f[i].kind \notin Terminal
      /\ f[i].run = f[k].run => Rank(f[i].kind) < Rank(f[k].kind)
      /\ handed[stream[s].job] = 0 => f[i].run <= f[k].run

\* No client is left watching a bar at 70% that will never move: as long as
\* nothing was lost, a connection whose last event came from some run either
\* has that run's verdict or the run is still going.  (A connection that
\* subscribed too late to hear anything of the run is not covered.)
LastHeard(s) == LET heard == stream[s].frames \o stream[s].inbox IN heard[Len(heard)]
NoHangingProgress ==
  \A s \in Streams :
    stream[s].at = "open" /\ stream[s].frames \o stream[s].inbox # <<>>
      /\ faults = 0 /\ handed[stream[s].job] = 0
    => \/ LastHeard(s).kind \in Terminal
       \/ \E w \in Workers : exec[w].job = stream[s].job /\ exec[w].run = LastHeard(s).run

\* The retry budget: a job's pipeline, with its paid model and SERP calls, is
\* started at most MaxRetry + 1 times plus once per shutdown handover, however
\* failures, deadlines, crashes and handovers follow each other.
\* (Initiate:68, MaxRetry(2).)
AttemptBound == \A j \in Jobs : runs[j] <= MaxRetry + 1 + handed[j]

\* "The asynq task ID is set to the job ID so it is idempotent per job"
\* (service.go:54-55): at most one goroutine works on a job on the queue's or
\* the chat's behalf, and each further one is left over from a handover of its
\* own.  An attempt that asynq gave up on, at its deadline or with its lease,
\* is not among them, because runCore does nothing outside its context.
\* (No run checks it; SearchPipelineProofs proves it.)
Busy(j) == {w \in Workers : exec[w].job = j}
OverlapBound == \A j \in Jobs : Cardinality(Busy(j)) <= 1 + handed[j]

\* When the queue is through with a job, the row agrees with the queue: an
\* acknowledged task left a completed row (even if calls failed on the way,
\* SetCompleted was acknowledged last), and a task archived after its last
\* retry left, faults aside, a failed row without a result.
QueueAndRowAgree ==
  \A j \in Jobs : handed[j] = 0 =>
    /\ task[j].state = "completed" => row[j].status = "completed"
    /\ task[j].state = "archived" /\ faults = 0 => row[j].status = "failed" /\ row[j].result = 0

\* The pipeline implements the promise made to SSE clients.
Promise == INSTANCE SearchPromise WITH
             stored <- {j \in Jobs : row[j].result # 0},
             about <- [s \in Streams |-> stream[s].job],
             told <- [s \in Streams |-> LastKind(stream[s].frames)]
KeepsPromise == Promise!Spec

\* The claim of the SSE handler's comment, "Terminal states: emit a single
\* frame and close" (handlers/search.go:117): completed and failed are final.
TerminalIsFinal ==
  [][\A j \in Jobs : row[j].status \in Terminal => row'[j].status = row[j].status]_row

---------------------------------------------------------------------------
(***************************************************************************)
(* Liveness, under FairSpec.                                               *)
(***************************************************************************)
\* A task the queue has accepted is acknowledged or archived in the end: no
\* crash, lost lease or handover leaves it behind.
TasksSettle == \A j \in Jobs : task[j].state # "none" ~> task[j].state \in Settled

\* A client that follows a job whose row stays final is told a verdict, whatever
\* failed on the way: a verdict lost by PUBLISH, or published before the
\* subscription, is found in the row by the next connection.
FollowersAreTold ==
  \A s \in Streams, j \in Jobs :
    <>[](row[j].status \in Terminal) =>
      (stream[s].job = j ~> LastKind(stream[s].frames) \in Terminal)

\* While no write fails and no process dies, an accepted job's row reaches a
\* final status and keeps it, however its model and SERP calls turn out; and a
\* client that follows the job hears a verdict, although the channel forgets
\* what was published between the reading of the row and the subscription,
\* and although a connection may end before anything is heard.
AnsweredWithoutFaults ==
  [](faults = 0 /\ \A j \in Jobs : handed[j] = 0) =>
    /\ \A j \in Jobs : request[j] = "accepted" ~> [](row[j].status \in Terminal)
    /\ \A s \in Streams, j \in Jobs : request[j] = "accepted" /\ stream[s].job = j
         ~> LastKind(stream[s].frames) \in Terminal
=============================================================================
