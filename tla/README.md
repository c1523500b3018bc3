# thoth-be: specification and verification

Thoth-be is the back end of a job-search assistant: a Go program that runs as
an API process (`--mode=serve`), as a worker (`--mode=worker`) and as a
migrator (`--mode=migrate`), next to a small Python service that extracts text from PDFs. It
keeps its data in PostgreSQL, its files in an S3 store, its task queue (asynq)
and its event channels in Redis, and it calls a language model (DeepSeek) and a
SERP API.

This directory holds TLA+ modules that model its core, TLC configurations that
check them on small instances, and proofs for every value of the constants.
`PROJECT.json` maps each definition to the lines it models and lists the runs,
the mutants, the hazards, the findings and the theorems.

## 1. Inventory

| Component | Source | State | Operations | Talks to |
|---|---|---|---|---|
| Search service and repository | `domain/search` | `search_jobs` rows | Initiate, RunPipeline, RunForChat, Get, List | queue, Redis channel, model, SERP API |
| Search handler (SSE) | `http/handlers/search.go` | one subscription per connection | initiate, stream, results, history | search service, Redis |
| Task queue | `infra/queue`, asynq, `worker/tasks` | tasks: pending, active, retry, archived | enqueue, run, retry, recover, hand over | Redis, both task handlers |
| CV service and repository | `domain/cv` | `cvs` rows, PDFs in S3 | Upload, Process, Reanalyze, SetDefault, Delete, ensureReady | queue, S3, parser, model |
| PDF parser | `pdf-parser/main.py`, `infra/pdfparser` | none | parse | - |
| Chat service and repository | `domain/chat` | conversations, messages | SendMessage, create, list, delete | model, tools |
| Chat tools | `domain/chat/tools*.go` | none | search_jobs, the CV tools, the job tools | search, CV, job services |
| Chat handler (SSE) | `http/handlers/chat.go` | one context per turn | sendMessage and the conversation endpoints | chat service |
| Model client | `infra/ai` | tool-call assembly of a stream | ExtractParams, FilterJobs, ParseCV, StreamChat, ... | DeepSeek |
| Job tracker | `domain/job`, `http/handlers/job.go` | `saved_jobs` rows, `applied_at` | save, list, update status, delete, analyze a URL, prepare an interview | URL fetcher, model |
| URL fetcher | `infra/fetch` | requests of one fetch | Get, with redirects | the web |
| User snapshots | `infra/event`, `domain/user` | `user_snapshots` row of each user | upsert on an event | Redis channel `events.users` |
| Rate limiter, auth, routing | `infra/ratelimit`, `infra/middleware`, `http/routes.go` | Redis counters with an expiry | gates in front of each route | Redis |
| Migrations | `infra/db/migrate.go`, `migrations/` | `schema_migrations` | migrate | PostgreSQL |
| Upload check, configuration, connections | `infra/upload`, `config`, `infra/redis`, `infra/db` | none | - | - |

### How they interact, and what makes each one correct

**Search.** `POST /search/initiate` inserts a row and enqueues a task whose id
is the row's. A worker executes `runCore`: for each of three stages it writes a
status, publishes it on the job's Redis channel and makes an external call; then
it stores the result and publishes `completed`. Any error writes and publishes
`failed` and is returned to asynq, which runs the task again (`MaxRetry(2)`).
`GET /search/stream/:id` reads the row and, unless it is final, subscribes and
relays events until a final one. The chat tool runs the same pipeline in the
API process without task, retry or channel. Nothing spans row, queue and
channel in one transaction. *Hard:* every order of row write, publication,
subscription and acknowledgement; crashes, lost leases and shutdown handovers
that run the pipeline again, or twice at once; writes that commit and report an
error; a context that ends in the middle, so that the error path fails as well.
*Correct when:* a final status is backed by its columns; a client told
`completed` can read the result; a connection ends in one verdict and hears
each run in order; queue and row agree in the end; the retry budget is kept.

**CVs.** An upload checks a quota, puts the PDF in S3, inserts the row and
enqueues a task; the worker, `POST /cvs/:id/analyze` and every feature that
needs a parsed CV (`ensureReady`) may all `Process` the same CV at the same
time; deletion removes the row, then the object. *Hard:* stale quota counts,
two stores without a transaction, competing runs that overwrite each other's
status, deletion under a run. *Correct when:* the stores agree, the model is
only ever handed a parsed CV, a deleted CV stays deleted, `parsing` means that
somebody is parsing, and every upload is analysed or marked failed.

**Default CV.** `SetDefault` sets one row's flag and clears the others' in one
READ COMMITTED transaction. *Hard:* what each statement sees, row locks,
deadlocks, deletions. *Correct when:* there is one default at most.

**Chat.** `SendMessage` stores the user's message, replays the history, and then
calls the model up to five times, executing the tools it asks for, storing what
it says and streaming frames. *Hard:* two turns of one conversation, deletion
of the conversation, a failed write, a disconnect or the five-minute deadline
between any two steps. *Correct when:* each request to the model is one its API
accepts and contains the question, the frames follow a grammar a client can
parse, the turn ends, and a reload shows what was streamed.

**Job tracker.** The HTTP handlers and the chat tools save, move and delete the
rows of their user, each with one SQL statement; the first move to `applied`
stamps `applied_at`. A job page is fetched from its URL, with at most five
requests, and analysed by the model. *Hard:* moves to `applied` and back, rows of
other users, a page that redirects for ever. *Correct when:* the stamp is that
of the first move, every change is the owner's, and the fetch is bounded.

**Limits.** A request passes a limiter per address, the check for a user, a
limiter per user, and on chat and search a tighter one that counts the expensive
calls only. A limiter is a Redis counter that expires a window after its first
request; an error of Redis lets the request through. *Hard:* bursts at a
window's end, requests that are refused and still count, an INCR whose reply is lost.
*Correct when:* the window bounds what is admitted in any span of its length,
and a refused caller gets in again.

**Rollout.** `migrate` applies SQL files in order, each in a transaction with
its record, and nothing stops two of them from running at once, or `serve` from running
before it. Each API process upserts the user events it hears over Redis pub/sub,
without comparing versions. *Hard:* two migrators at one file, deaths between
two files, a lost commit reply; lost events, events still queued in a process while another
one has written newer ones, upserts before the table exists. *Correct when:* each file
takes effect once and in order; a row only goes backwards where two processes
race, and ends at the latest version once an event has reached and been stored by
everybody.

## 2. Modules

| Module | Models | Uses |
|---|---|---|
| `SearchPromise` | what the search promises to a client that follows a job | - |
| `SearchPipeline` | row, queue, workers, Redis channel, SSE connections, chat's synchronous run | instantiates `SearchPromise` as `Promise` |
| `SearchPipelineProofs` | theorems on `SearchPipeline` | `SearchPipeline`, `FiniteSetTheorems`, `SequenceTheorems`, `TLAPS` |
| `SearchRefinementProofs` | `SearchPipeline` implements `SearchPromise` | `SearchPipelineProofs` |
| `CVLifecycle` | upload, queue, Process and its three callers, delete, object store | - |
| `CVLifecycleProofs` | theorems on `CVLifecycle` | `CVLifecycle`, `FiniteSetTheorems`, `TLAPS` |
| `DefaultCV` | `SetDefault` under READ COMMITTED | - |
| `DefaultCVProofs` | theorems on `DefaultCV` | `DefaultCV`, `TLAPS` |
| `ToolCalls` | StreamChat's assembly of tool calls from stream fragments, and the streams that can carry them | - |
| `ChatTurn` | SendMessage and its SSE handler | `ToolCalls` |
| `ChatTurnProofs` | theorems on `ChatTurn` and `ToolCalls` | `ChatTurn`, `SequenceTheorems`, `FiniteSetTheorems`, `WellFoundedInduction`, `TLAPS` |
| `Migrate` | db.Migrate run by any number of processes | - |
| `MigrateProofs` | theorems on `Migrate` | `Migrate`, `TLAPS` |
| `UserSnapshots` | the user events and the processes that upsert them | - |
| `Deployment` | a rollout: migrators beside API processes, over the table they share | `Migrate`, `UserSnapshots` |
| `DeploymentProofs` | theorems on `Deployment` | `Deployment`, `MigrateProofs` |
| `RateLimit` | limiters, their windows, and the gates of each route | - |
| `JobTracker` | the tracker's table and its operations, the redirect budget | - |
| `JobsApi` | requests through the gates to the tracker, the fetcher and the model | `RateLimit`, `JobTracker` |
| `JobsApiProofs` | theorems on `JobsApi` | `JobsApi`, `WellFoundedInduction`, `TLAPS` |
| `MC*` | instances for TLC (symmetry sets, constant values) | the module they are named after |

### SearchPipeline

One action is one remote call, so that everybody else can move between any two
calls of a goroutine. `row` is the table, `task` the asynq task, `exec` the
goroutines that execute `runCore` (`mode` says on whose behalf: `task` holds the
lease, `detached` lost it to a shutdown and still runs, `chat` is
`RunForChat`), `stream` the SSE connections with the events Redis has delivered
to them (`inbox`) and the frames written (`frames`). Runs of a job are numbered,
and a stored result or error carries its run's number: this is what lets a
property tell an old result from a new one. What a query, a parameter set or a
result says is left out.

`exec[w].at` walks through `runCore`: `WriteStatus`, `EmitStatus`, `Call` for
each stage, `SaveParams` after the first, `StoreResult`, `EmitCompleted`,
`Return`; any failing call goes to `WriteFailed`, `EmitFailed`, `Return`.
A statement may fail, or commit and report an error; a PUBLISH that is lost may
miss any of the subscribers. `Deadline` ends the task's context,
after which every later call of that attempt fails: statements, publications and
the error path included. The queue's actions (`Dequeue`, `ForwardRetry`,
`Recover`, `Handover`) are external: at-least-once execution under a lease, as
`infra/queue/asynq.go` configures it.

### CVLifecycle

`row` and `objects` are the two stores. `proc[p]` is a goroutine of any kind;
`op` says what it does and `at` which remote call is next. `Process` is
`load`, `mark`, `fetch`, `extract`, `parse`, `store`, with `fail` for its error
path, and the same steps serve the worker, `Reanalyze` and `ensureReady`. The
parser answers or fails; the text it found, none for a PDF it cannot open, is data
that no code looks at. The quota is read in `StartUpload` and the row inserted two
steps later. One user is modelled: every query is scoped to a user and nothing
relates the CVs of two.

### DefaultCV

`Snapshot` takes what the second UPDATE of `SetDefault` sees: the set of calls
committed by then (`seen`) and the defaults among the rows (`found`).
`ClearOne` is that UPDATE's visit to one of them: it waits for the row's lock,
and then works on the newest version, or on nothing when the row was deleted, as
PostgreSQL does at READ COMMITTED. `BreakDeadlock` is PostgreSQL's detector, and
it aborts one call of a cycle. `DeleteCV` respects row locks.

### ChatTurn

`turn[t].at` is the next step of `SendMessage`; `context` is the message list
sent to the model, `frames` what the client was sent, `live` says that the
context is not done and `connected` that the writer has seen no error so far.
The model answers freely: text or none, then any sequence of calls it means
(`Intents`: registered or not, with arguments that parse or not, or without a
name), in any interleaving of their fragments, or a failure; `Assemble` is what
StreamChat makes of the fragments. Arguments that do not parse have effects of
their own: `emit` drops the `tool_call` frame, as json.Marshal refuses it, and
the INSERT of the tool's row fails. The text deltas of one answer are one frame,
and so are the progress frames of one tool call. A message is known by its turn, role, iteration and call
number. The `@`-references of a message change the system prompt only
and are left out, and so is the conversation's title.

### ToolCalls

Pure operators. The receiver's side translates StreamChat's loop: `Received` is
what one fragment adds to its state, `order` (the indices in order of first
appearance, kept by `Ordered`) and `parts` (the map). `Heard` is that state after each
prefix of the stream, and `Assemble` the slice returned, of which `Named` drops
the parts that never got a name. The sender's side (`Streams`) is the reference: every
interleaving of the calls' fragments (`Interleaved`), heads in the order of the calls
(`Schedules`), or without an index if there is one call only (`Unnumbered`).
`CallsAsMeant` compares the two inside a turn. `Heard` and the selection helper
`Only` are recursive functions over the length, which the proofs can unfold.

### Migrate, UserSnapshots and Deployment

`run[m]` is a migrator between two statements, `ledger` the table
`schema_migrations`, and `applied` a ghost that counts how often a file's effects
were committed. A second migrator that executes the same file waits for the
first one's locks and then fails, or runs through if the file's statements are all IF NOT EXISTS
(001 and 003 are, 002 renames a column and is not) and fails on the ledger's
primary key. `Commit` may lose its reply after it took effect, and on an empty database
the creation of the ledger itself may fail beside another migrator's (`StartMigrate`).

`heard[p]` is what the subscription of process `p` has received and not handled;
`snapshot` is the version in the row, `profile` the version at the source, and
`writer`, a ghost, the process that wrote last. `lost` records that the latest change did
not reach a running process or was not stored; the next change starts afresh. Redis delivers in order to the connections of the moment. One
user is modelled: users share nothing but the channel. `Deployment` runs both; an
upsert needs the table, and hence file 003 in the ledger.

### RateLimit, JobTracker and JobsApi

Time is a `Tick`; `left[k]` is the expiry of a key in ticks, and `recent[k]`, a
ghost, counts what was admitted in each of the last `Window` ticks. A key is a
scope and an id; `IdAt` is the id or `NoId`, which skips the limiter (a private
address, a call that is not the expensive one). Past the limit the counter stops
at Limit + 1: what it is there makes no difference.

`history[j]`, a ghost, lists the status changes of a row and by whom, and
`applied_at` is kept as the position of the change that set it. A
handler replies when its operation ends, the tool loop of a chat turn goes on to
the next (`OperationEnds`). A tracker
operation is one SQL statement and a limiter is one Lua script, so each is one
step, and nothing of a request is read before and used after a step. One request
slot in `jobs_api` is thus enough to bring the operations of all callers into any order;
the theorems are for any number.

## 3. Runs

All runs are exhaustive on their instance. `CHECK_DEADLOCK FALSE` is set in each
of them: all jobs decided, all requests served or all turns over is where these
systems rightly stop.

| Run | Instance | Question and answer |
|---|---|---|
| `search_pipeline` | 1 job, 2 workers, 1 connection that reconnects, 1 retry, 2 faults, fair | Do row, queue and event stream ever contradict each other? No; the whole implements `SearchPromise`; every task settles, without faults the client hears a verdict, and with them it does as long as the row stays final and it asks again; and however retries, deadlines and crashes follow each other, the job is started at most twice. |
| `search_handover` | 1 job, 2 workers, 1 connection, 1 fault, 1 handover | Can two runs of one job tell a client something untrue? No: `completed` is backed by a result, and each run is heard in order. |
| `search_terminal` | 1 job, 1 worker, 2 retries | Is `failed` final? **No** (finding 1). |
| `cv_safety` | 3 CVs, 2 goroutines, quota 1, 1 retry, 2 requests, 1 fault | Do row and object agree, is the model only handed parsed CVs, does a deleted CV stay deleted? Yes; the quota is overshot by at most one CV per further goroutine. |
| `cv_liveness` | 1 CV, 3 goroutines, 1 retry, 1 request that may hang anywhere, 1 fault, handovers, fair | Is every queued CV analysed, failed or deleted? Yes, unless faults use up the retries; without faults every upload is. |
| `default_locks` | 2 CVs, 4 calls | Which calls can leave two defaults? Only two that overlapped; and every call ends. |
| `default_unique` | 3 CVs, 2 calls | Is there at most one default? **No** (finding 2). |
| `chat_turn` | 1 turn, 2 iterations, 2 calls each of four sorts, 2 faults, fair | Are the calls run those the model meant and each answered in the context, in order, do the frames keep their grammar through every failure, and does the turn end? Yes. |
| `chat_errors` | 1 turn, no faults | Is the handler's error frame the first of its turn? **No** (finding 3). |
| `chat_pair` | 2 turns, 2 iterations, 1 call each, a deletion, no faults | Does each turn ask its own question, and does a reload show what was streamed? Yes. |
| `deployment` | 2 migrators, 3 files, 1 fault, 2 API processes, 2 changes, 2 queued messages, fair | Is each file applied once and in order? Yes. Can an old event undo a newer one? Only another process's, and once the latest change was heard and stored by all the row is right, whatever became of those before it. |
| `jobs_api` | 3 callers, limits 1 and 2, window 2, 1 row with 3 changes, fair ticks | What is a limit worth? 2 * Limit - 1 in any span of a window, and nobody is throttled for ever. Is the stamp that of the first move to `applied`, also after a move away and back, and can a user change another's row? Yes, and no. |

### Bounds, and why they are enough

*One job, one conversation, one user.* Jobs share nothing but the workers: a
row, a task, a channel and a stream belong to one job each. The proofs are for
any number of jobs. *Two workers or goroutines* are what it takes for two runs
of one job, or two processings of one CV, to overlap; three CVs in
`cv_safety` let two uploads overshoot a quota of one and a third be refused. Three
goroutines in `cv_liveness` are a request that hangs, a run that a handover left
behind and the worker. *Retries:* two (the code's own
value) in `search_terminal`; one elsewhere already gives "an attempt
fails and another follows", and none in `search_handover`, where the
second run comes from the handover. *Faults:* a property about
a fault needs one; two let the error path of a first fault meet another. *Chat:* two
iterations are a tool round and the answer after it, or the exhausted budget;
two calls in one answer are what separates "one tool message per call, in
order" from "a tool message" (`chat_turn`); in `chat_pair` one call is enough, as what
it asks is what a second turn does to the first. That the context stays well formed whatever
rows of other turns a turn replays is proved (`ContextWellFormedCorrect`) and not run. *SetDefault:* two calls that overlap leave two defaults, and it is only over
two defaults that two more calls can wait for each other's rows: a deadlock
takes four calls and two CVs. Every bound named here is a constant of the model, and
the theorems of section 4 are for any value of it; three calls per answer is
the one limit they keep, as the ids of the calls are listed in `ToolCalls.Ids`.
*Rollout:* two migrators meet at a file, and three files let one fail between two others and one be
rerunnable before one that is not; two processes and two changes are what it
takes for an older version to overwrite a newer one, and for a change to repair what became
of the one before. *Limits:* one and two are
the limits at which 2 * Limit - 1 and 2 * Limit differ from the limit and from
each other; a window of two ticks has an inside and an end. *Tracker:* three changes are applied, away, and applied
again. *Redirects:* two requests instead of five. The liveness runs have no symmetry;
`cv_safety`, `chat_pair` and `search_handover` permute CVs, goroutines, turns and
workers, of which no definition singles out any.

### Fairness

`SearchPipeline` and `CVLifecycle` state fairness separately (`FairSpec`):

- in `SearchPipeline`, weak fairness of the goroutines' steps: a live process keeps
  executing. The model client has no time-out of its own (`ai/deepseek.go:44`); what ends
  a call that hangs is the context, which for a task has asynq's default deadline and in a
  chat turn five minutes. So a hanging call is `Deadline` or `Crash`, a fault, and the
  run goes on with the error;
- in `CVLifecycle`, weak fairness of the worker's steps only (`OnWorker`) and of
  `EnqueueProcess`, whose Redis client has time-outs. Requests are not fair: `POST /cvs/:id/analyze`
  calls S3 and the model under a context without a deadline (`handlers/cv.go:134`), and may
  stop for ever at any of its calls;
- weak fairness of `ForwardRetry` and `Recover`: asynq's forwarder and
  recoverer run on timers in every live server;
- strong fairness of `Dequeue`: the queue is first in first out, so a pending
  task is taken although workers are busy on and off;
- weak fairness of `ProcessExit`: a process that gave its task back exits;
- weak fairness of `CloseStream`: the stream context has a deadline;
- weak fairness of `Reconnect` and of `Open`: a client that follows a job asks
  again until it has a verdict. This is the one assumption about clients; it is
  what the server relies on, as Redis forgets what is published between the
  reading of the row and the subscription. Only `AnsweredWithoutFaults` and
  `FollowersAreTold` need it.

`DefaultCV` assumes that live transactions execute and that deadlocks are
detected (`deadlock_timeout`), `ChatTurn` that the handler moves on (the context of its
remote calls has a deadline of five minutes; the write of a frame has none, as `routes.go:72`
sets no WriteTimeout, so that a client reads on or breaks its connection is assumed), `Deployment` that a process that runs handles
the next message it has received, and `JobsApi` that time passes. Nowhere is a crash, an error, a request, a
deletion or a shutdown required to happen.

## 4. What is proved

With TLAPS, for any sets of jobs, workers, streams, CVs, calls, turns, migrators,
processes, callers and users, and any bounds. Every safety property a passing
run checks, invariant or action property, is stated by a theorem.

**SearchPipelineProofs.** `TypeCorrect` is inductive as it stands. Who runs what
needs a strengthening: `AttemptBound` alone is not inductive, because nothing in
it stops the queue from dequeuing a task whose holder it forgot. `LeaseInv`
(`LeaseCorrect`) adds that a goroutine in mode `task` works on an active task, that
there is at most one of them per job, that without a handover it executes the
job's latest run, that a detached goroutine is the trace of a handover, and it
accounts for `runs[j]` by `retried`, `handed` and the task's state. `AttemptsBounded` follows, and with
`DetachedCounted` (a job has at most as many detached goroutines as handovers, since
no other step makes one: `HandoverOrNoneDetaches`) and `OneAttached` (the others are one at most)
`OverlapBounded`, by counting: how many work on one job at once. What is stored
needs another: `StoreInv` (`StoreCorrect`) says that a goroutine about to
announce `completed` has stored its result, that a delivered or relayed event
is backed by the row, and that results carry numbers of runs that were started;
`RowsBackTheirStatus`, `ResultsKept` and `AnnouncementsStored` follow from it
with `LeaseInv` (without a handover an older run cannot write after a newer one,
because runs do not overlap). What a connection hears needs the order of
everything on its way to it: `OrderInv` (`OrderCorrect`) is about
the frames and the inbox together, `Delivered`. Each run's events in it are ranked,
none above what the run has emitted by now, and no run is in it that has not
started; as runs of one job have different numbers,
and a connection that closed hears nothing more, `StreamsWellFormed` follows.
`ProgressNeverHangs` needs `Attended`: a connection to a job without a task has heard
nothing, and a last event that is no verdict is of a run that a goroutine still
pursues, that is, has not returned from. `QueueAndRowAgreed` needs what a goroutine about to return stands for,
and what a row holds between two attempts (`Concluding`): without a fault and a
handover, a run that failed has left no result for the next one to find.

**SearchRefinementProofs.** `PromiseKept`: `Spec => Promise!Spec` under the
refinement mapping of `SearchPipeline` (stored: rows with a result; about and
told: the job and the last frame of each connection). One step per action: only
`StoreResult`, `Open`, `Relay` and `Reconnect` map to abstract steps, all others stutter.
That `Relay` may tell `completed` is where `StoreInv` is needed.

**CVLifecycleProofs.** Types are not inductive alone: a goroutine's next step
writes the row of `proc[p].cv`, so that has to be a CV. `StandInv`
(`StandCorrect`) adds that a goroutine that is not idle acts on a generated id
(`Engaged`), that a CV whose row is not inserted yet is known to its upload only
(`Creating`), and that everybody else, and the queue, deal with CVs that have or
had a row (`Born`). On top of it every step either overwrites a row that is
there, or inserts one (`RowStep`), which gives `ParseKeptCorrect`. `ParsedInv` says
what success stands for: a `ready` row is parsed, and a goroutine to which
`Process` returned no error finds its row parsed or deleted; `ServedCorrect` and
`AcknowledgedCorrect` are two of its conjuncts. `QuotaCorrect` needs `QuotaInv`,
which counts the uploads under way together with the rows: an upload was let in below
the quota, and there is one goroutine to each. `StoresAgreeCorrect` and
`ParsingIsRunningCorrect` are about executions without faults and share
`CleanInv` (`CleanCorrect`): an object belongs to a row or to an upload or deletion under way
(`ObjectsOwned`), a goroutine that takes an object back has no row (`Undoing`), no run
lost its task (`NoneDetached`), and a `parsing` row has a goroutine that will
still write to it (`SomebodyParses`): every run rewrites the status when it leaves
Process, whoever set it.

**DefaultCVProofs.** `TypeCorrect` (of `DefaultTypeOK`) needs `TargetHeld`: a running call holds the
lock on its target, so nobody can delete it before the flag is set. `OnlyOverlapSplitsCorrect` needs
`SplitInv`: what a call has cleared (`ClearDone`), that what it saw is committed
(`SeenCommitted`), and that a default its snapshot missed belongs to a call it
did not see (`MissedIsUnseen`).

**ChatTurnProofs.** `TypeCorrect` (of `TurnTypeOK`) needs `Positioned`: which call of the answer a
turn serves at each step, and that the calls it holds are the ones meant.
The latter is `AssembledAsMeant`, the theorem about the receiver: for every
sequence of calls and every stream that can carry it, `Assemble` returns
`Meant`. It goes by induction over the stream with `SoFar`, which says of each prefix that the indices
seen are those of the calls begun, in their order, and that each part is what that
call's fragments have brought so far (`Arrived`). The frames (`FramesInOrderCorrect`)
need `Orderly`: next to the grammar of what was sent, what the last frame may be at each
step, as long as the writer still works. The context (`ContextWellFormedCorrect`)
is not well formed in the middle of a tool round: `Coherent` says that it then ends in
the answer that asked for the tools and the results of the first n of them
(`Owed`), n being given by the step, and is whole without that tail. `QuestionAskedCorrect` needs
`Wondering`: unless the conversation was deleted, a turn about to read the history has its
question in the table, and from then on in its context. `ReloadShowsStreamCorrect` needs
`Mirrors`: without faults the rows kept of a turn are what its frames show, but for
the text or the result that is streamed and not stored yet; it cites `Orderly` for
the turns that fail, whose frames end in an error.

**MigrateProofs.** `MigrationsOnce` is not inductive: nothing in it keeps two
migrators from committing one file. `OneWriter` adds that a file not recorded yet
is being applied by one migrator at most, and that who reaches the commit
found the ledger without the file and still holds the locks that keep it so;
`InOrder` adds that a migrator's position in the list is backed by the ledger, which is what makes
`done` mean all files.

**DeploymentProofs.** The migrators' steps are those of `Migrate` with the rest
unchanged, so `RolloutMigratesOnce` cites the lemmas of `MigrateProofs`.
`BackwardsCorrect` rests on `HeardRising` (what one process has received and not
handled rises) and `WriterAhead` (what the row's last writer still has to handle is
newer than the row): a process that writes an older version is therefore
another one than the last writer.

**JobsApiProofs.** `TypeCorrect` needs `RequestsInv`: a request past the second
gate, which is Auth on every route, has a user, so no row can get an owner that is
none; and the counters need that the expiry is zero exactly when the count is.
`StampIsFirstCorrect` needs `TrackerInv`: the stamp is the least position of a
move to `applied` in the history, and a row not in the table has no history.
`WindowBoundCorrect` needs `Windowed`, which says where in the span a key's admissions
lie: those of the current window were counted, and without the request that opened it
they stay below the limit; what is older is the rest of one earlier window at most,
whose opening request is no longer in the span. The sums
over the ages are a recursive function, about which `UpToStep` and the lemmas after it
are shown by induction.

**Induction.** The library states induction for a predicate, which is an
operator parameter and cannot be instantiated here. Its minimality theorem `WFMin` and
`NatLessThanWellFounded` have sets in that place, so the proofs use those:
every set of numbers that has an element has a smallest one (`SmallestNumber`),
hence a set with 0 and closed under successor has them all (`EveryNumber` in
ChatTurnProofs, `InductionOnSet` in JobsApiProofs). That covers the recursive functions
of `ToolCalls` and `RateLimit`.

**Assumptions.** `NoJobAssumption`, `NoCVAssumption` and `NoTxnAssumption` (the
"none" value is not a member), `BoundsAssumption` and `CVBoundsAssumption` (the
bounds are natural numbers), and `FiniteAssumption` (the CVs and the goroutines
of `CVLifecycle` can be counted, and there is a goroutine), which only the quota uses;
`FilesAssumption`, `SnapshotFileAssumption` and `SnapshotBoundsAssumption` of a
rollout, and `LimitAssumption` (limits and window are positive),
`KeysAssumption`, `CallsAssumption` (a caller's route, user and keys are known ones)
and `TrackerBoundsAssumption` of the API, and `ChatBoundsAssumption` (at least one
iteration, at most as many calls in an answer as there are ids, and intents that are
calls). The proofs also inherit the models'
view of asynq, PostgreSQL and Redis.

**Only model-checked.** The liveness properties, as fairness and ENABLED are out of
the prover's reach: `TasksSettle`, `AnsweredWithoutFaults` and `FollowersAreTold` of the pipeline,
`UploadsAreAnalysed`, `CallsEnd`, `TurnsEnd`, `SnapshotCatchesUp` and
`ThrottleEnds`. They are checked on the instances of section 3 only.

## 5. Findings

1. *`failed` is not final* (`search_terminal`). The SSE handler calls completed
   and failed terminal and closes the stream, but each failed attempt writes
   and publishes `failed` and asynq then runs the task again. A client may be told
   `failed` about a job that completes a minute later.
2. *Two default CVs* (`default_unique`). Two overlapping `SetDefault` calls of
   one user do not see each other's flag and both commit.
3. *Two error frames* (`chat_errors`). The handler's error frame is meant for errors before
   any frame (`http/handlers/chat.go:177-178`), but follows every stream failure and an
   exhausted tool budget too, which SendMessage has already told. `FramesInOrder`
   describes what a client really has to parse, `handler_error` after `error` included.

Smaller divergences met while modelling, which the models contain and no run singles out:

- *A request that hangs.* No time-out bounds the model call of `POST /cvs/:id/analyze`
  (`ai/deepseek.go:44`, `handlers/cv.go:134`): it may keep the CV at `parsing` until
  another run corrects the row (`CVLifecycle.Fairness`).
- *An unreadable PDF.* The upload check says that the parser "will also reject anything
  that slips through, and that path marks the CV failed" (`infra/upload/validate.go:59-61`);
  without the fallback the parser answers 200 with an empty text (`pdf-parser/main.py:56-75`), which
  Process parses and stores like any other (`cv/service.go:121-131`): the CV becomes `ready`. Whether a text
  is empty is left out of `CVLifecycle`.
- *A result without its call.* Arguments that do not parse lose the `tool_call`
  frame and the tool's row, but not the `tool_result` frame (`orphan_result`).
- *Saved as applied.* A job that is saved with the status `applied` has no
  `applied_at`, nor is the status of a saved job checked (`JobTracker.NewRow`).
- *Costly calls without the tighter limiter.* `routes.go:115` speaks of the costly
  endpoints; analyzing a URL, preparing an interview and the CV features call
  the model under the user limiter only (`RateLimit.Gates`).
- *Backwards across processes.* During a rollout an old user event may overwrite
  a newer row until the next event (`UserSnapshots.Upsert`); `updated_at` is stored and not compared.
- *No default for a moment.* The default CV is read and then fetched by its id
  (`cv/service.go:264`); if it is deleted in between, the chat tool tells a user
  with other CVs that there is none (`chat/tools_cv.go:175`).

## 6. Not modelled, and known limits

- HTML stripping, PDF text extraction, prompts, JSON decoding: data, no control.
- The parsing of headers and bodies, CORS, the health route, configuration and
  connection set-up; the address check of the URL fetcher, which is a pure
  function of an address; the upload check of bytes and names.
- Reads that change nothing: lists, results, histories, download URLs, the
  user snapshot's Get.
- `defaultReady` across `CVLifecycle` and `DefaultCV`: the code answers not found
  in the window described above, so there is no promise to check.
- Redis errors let requests through a limiter, so `WindowBound` counts what the
  limiter admitted and not what it failed to count.
- PostgreSQL, Redis, S3, asynq and DeepSeek are external and modelled by what the
  code can observe of them. Redis does not lose the queue's data here.
- `NoHangingProgress` is about connections that heard something of a run. One
  that subscribes after the last event but read the row before the final status waits for
  its five minutes; the code promises nothing better.
- `StoresAgree` and `ParsingIsRunning` are about fault-free executions: after a
  crash the code leaves an orphan object or a row in `parsing`, and nothing
  sweeps them. `AnsweredWithoutFaults` likewise. `UploadsAreAnalysed` exempts a CV whose
  retries were used up by faults, and an upload whose enqueue was lost, which nobody
  but a later request will analyse.
- What the code itself gives up has no property, and a note with its hazard in
  `PROJECT.json`: a pending row without a task, an orphan object after a refused delete, an answer
  whose INSERT failed, a question to the model after its conversation was deleted.

## 7. Plan

*Done.* The modules and runs above, and a theorem for each of their safety properties.

*Next.* Abstract specifications for the other components as `SearchPromise` is for the pipeline, with
their refinements proved: what an upload promises (a CV is absent, there, or
ready, and ready data stays), what the ledger of the migrations promises (a
counter of files that rises by one), and what a conversation promises to its two
readers. The action properties that the liveness arguments rest on (a task's
retries only rise, a turn's position only advances) as theorems beside the liveness runs.
