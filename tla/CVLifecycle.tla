---------------------------- MODULE CVLifecycle ----------------------------
(***************************************************************************)
(* One user's CVs: upload (quota, object, row, task), the extraction       *)
(* pipeline Process with its three callers (the worker, POST analyze, and  *)
(* ensureReady under every feature that needs a parsed CV), and deletion.  *)
(* A CV lives in two stores with no transaction across them: the cvs row   *)
(* and the PDF in the object store.                                        *)
(*                                                                         *)
(* One action is one remote call.  Every query is scoped to the user, and  *)
(* nothing relates the CVs of two users, so one user is modelled.          *)
(***************************************************************************)
EXTENDS Integers, FiniteSets

CONSTANTS CVs,          \* ids, each generated by at most one upload
          Procs,        \* goroutines: API requests, chat turns, workers
          NoCV,
          MaxUploads,   \* Config.MaxUploadsPerUser
          MaxRetry,     \* asynq.MaxRetry of the task (2 in the code)
          MaxRequests,  \* bound: analyze, consult and delete requests
          MaxFaults     \* bound: crashes, handovers, failed writes, lost replies

ASSUME NoCVAssumption == NoCV \notin CVs
ASSUME CVBoundsAssumption ==
  MaxUploads \in Nat /\ MaxRetry \in Nat /\ MaxRequests \in Nat /\ MaxFaults \in Nat
ASSUME FiniteAssumption == IsFiniteSet(CVs) /\ IsFiniteSet(Procs) /\ Procs # {}

VARIABLES row,      \* [CVs -> Row]: the cvs table
          objects,  \* the CVs whose PDF is in the object store
          task,     \* [CVs -> Task]: the task "cv-"+id
          proc,     \* [Procs -> Proc]: what each goroutine is doing
          used,     \* ids generated so far
          asked,    \* requests so far
          faults    \* faults so far

vars == <<row, objects, task, proc, used, asked, faults>>

---------------------------------------------------------------------------
\* "gone" is a deleted row, "none" one never inserted; parsed, whether it has
\* parsed_text and parsed_data, which one UPDATE writes.
Row == [status : {"none", "uploaded", "parsing", "ready", "failed", "gone"},
        parsed : BOOLEAN]
NoRow == [status |-> "none", parsed |-> FALSE]

Task == [state : {"none", "pending", "active", "retry", "completed", "archived"},
         retried : 0 .. MaxRetry]

Ops == {"idle", "upload", "task", "detached", "analyze", "consult", "delete"}
Working == {"mark", "fetch", "extract", "parse", "store", "fail"}
Points == {"none", "put", "create", "cleanup", "enqueue", "unlink",
           "load", "ok", "err", "reread", "serve"} \cup Working
Proc == [op : Ops, cv : CVs \cup {NoCV}, at : Points, data : BOOLEAN]
NewProc(o, c, p) == [op |-> o, cv |-> c, at |-> p, data |-> FALSE]
Idle == NewProc("idle", NoCV, "none")

TypeOK ==
  /\ row \in [CVs -> Row]
  /\ objects \subseteq CVs
  /\ task \in [CVs -> Task]
  /\ proc \in [Procs -> Proc]
  /\ used \subseteq CVs
  /\ asked \in 0 .. MaxRequests
  /\ faults \in 0 .. MaxFaults

Init ==
  /\ row = [c \in CVs |-> NoRow]
  /\ objects = {}
  /\ task = [c \in CVs |-> [state |-> "none", retried |-> 0]]
  /\ proc = [p \in Procs |-> Idle]
  /\ used = {}
  /\ asked = 0
  /\ faults = 0

Fault == faults < MaxFaults /\ faults' = faults + 1
NoFault == UNCHANGED faults

Present(c) == row[c].status \notin {"none", "gone"}
At(p, point) == proc[p].at = point
Goto(p, point) == proc' = [proc EXCEPT ![p].at = point]
Start(p, o, c, point) == proc[p].op = "idle" /\ proc' = [proc EXCEPT ![p] = NewProc(o, c, point)]
Done(p) == proc' = [proc EXCEPT ![p] = Idle]
Asking == asked < MaxRequests /\ asked' = asked + 1

\* UPDATE ... WHERE id = $1: a row that is not there is not written.
MutUpsert(c, r) == row' = [row EXCEPT ![c] = r]
Update(c, r) == row' = IF Present(c) THEN [row EXCEPT ![c] = r] ELSE row

---------------------------------------------------------------------------
(***************************************************************************)
(* Upload.                                                                 *)
(***************************************************************************)
\* CountByUser, compared with the quota; the id is generated right after.  At
\* the limit the answer is ErrQuotaExceeded and nothing changes.
MutUnderQuota == Cardinality({c \in CVs : Present(c)}) <= MaxUploads
UnderQuota == Cardinality({c \in CVs : Present(c)}) < MaxUploads

StartUpload(p, c) ==
  /\ c \notin used
  /\ UnderQuota
  /\ used' = used \cup {c}
  /\ Start(p, "upload", c, "put")
  /\ UNCHANGED <<row, objects, task, asked, faults>>

\* store.Put; on an error, stored or not, the upload is over.
PutObject(p) ==
  LET c == proc[p].cv IN
  /\ At(p, "put")
  /\ \/ objects' = objects \cup {c} /\ Goto(p, "create") /\ NoFault
     \/ objects' \in {objects, objects \cup {c}} /\ Done(p) /\ Fault
  /\ UNCHANGED <<row, task, used, asked>>

\* repo.Create: inserted; rejected; or inserted and the reply lost.
Inserted(c) == [row EXCEPT ![c] = [NoRow EXCEPT !.status = "uploaded"]]

CreateRow(p) ==
  /\ At(p, "create")
  /\ \/ row' = Inserted(proc[p].cv) /\ Goto(p, "enqueue") /\ NoFault
     \/ row' = row /\ Goto(p, "cleanup") /\ NoFault
     \/ row' = Inserted(proc[p].cv) /\ Goto(p, "cleanup") /\ Fault
  /\ UNCHANGED <<objects, task, used, asked>>

\* S3.Delete: a key that is not there is no error.
DeleteObject(c) ==
  \/ objects' = objects \ {c} /\ NoFault
  \/ UNCHANGED objects /\ Fault

\* Delete the object again; an error is ignored.
MutNoCleanup(p) ==
  /\ At(p, "cleanup")
  /\ Done(p)
  /\ UNCHANGED <<row, objects, task, used, asked, faults>>
Cleanup(p) ==
  /\ At(p, "cleanup")
  /\ DeleteObject(proc[p].cv)
  /\ Done(p)
  /\ UNCHANGED <<row, task, used, asked>>

\* enqueueProcess: best effort.
EnqueueProcess(p) ==
  /\ At(p, "enqueue")
  /\ \/ task' = [task EXCEPT ![proc[p].cv].state = "pending"] /\ NoFault
     \/ UNCHANGED task /\ Fault
  /\ Done(p)
  /\ UNCHANGED <<row, objects, used, asked>>

---------------------------------------------------------------------------
(***************************************************************************)
(* The asynq server (external), as in SearchPipeline.                      *)
(***************************************************************************)
MutRetryOffByOne(t) ==
  IF t.retried <= MaxRetry
    THEN [state |-> "retry", retried |-> t.retried + 1]
    ELSE [t EXCEPT !.state = "archived"]
AfterFailure(t) ==
  IF t.retried < MaxRetry
    THEN [state |-> "retry", retried |-> t.retried + 1]
    ELSE [t EXCEPT !.state = "archived"]

Dequeue(p, c) ==
  /\ task[c].state = "pending"
  /\ task' = [task EXCEPT ![c].state = "active"]
  /\ Start(p, "task", c, "load")
  /\ UNCHANGED <<row, objects, used, asked, faults>>

ForwardRetry(c) ==
  /\ task[c].state = "retry"
  /\ task' = [task EXCEPT ![c].state = "pending"]
  /\ UNCHANGED <<row, objects, proc, used, asked, faults>>

Recover(c) ==
  /\ task[c].state = "active"
  /\ ~ \E p \in Procs : proc[p].op = "task" /\ proc[p].cv = c
  /\ task' = [task EXCEPT ![c] = AfterFailure(@)]
  /\ UNCHANGED <<row, objects, proc, used, asked, faults>>

---------------------------------------------------------------------------
(***************************************************************************)
(* The requests that look a CV up first; one that is not there is a 404    *)
(* and no step.                                                            *)
(***************************************************************************)
\* Reanalyze.
Analyze(p, c) ==
  /\ Present(c) /\ Asking
  /\ Start(p, "analyze", c, "load")
  /\ UNCHANGED <<row, objects, task, used, faults>>

\* match, coverLetter, suggestEdits and their chat tools; the default CV of the
\* user is one more choice of c.
AsksFor(p, c) == Present(c) /\ Asking /\ proc[p].op = "idle"

\* ensureReady: hand out the CV as read, or process it first.
Handed(c) == [NewProc("consult", c, "serve") EXCEPT !.data = row[c].parsed]

MutConsult(p, c) ==
  /\ AsksFor(p, c)
  /\ \/ row[c].status # "uploaded" /\ proc' = [proc EXCEPT ![p] = Handed(c)]
     \/ row[c].status = "uploaded" /\ Start(p, "consult", c, "load")
  /\ UNCHANGED <<row, objects, task, used, faults>>
Consult(p, c) ==
  /\ AsksFor(p, c)
  /\ \/ row[c].status = "ready" /\ proc' = [proc EXCEPT ![p] = Handed(c)]
     \/ row[c].status # "ready" /\ Start(p, "consult", c, "load")
  /\ UNCHANGED <<row, objects, task, used, faults>>

\* Delete: the row first, then the object; an error there is returned, and a
\* second attempt is a 404.
Delete(p, c) ==
  /\ Present(c) /\ Asking
  /\ row' = [row EXCEPT ![c] = [NoRow EXCEPT !.status = "gone"]]
  /\ Start(p, "delete", c, "unlink")
  /\ UNCHANGED <<objects, task, used, faults>>

Unlink(p) ==
  /\ At(p, "unlink")
  /\ DeleteObject(proc[p].cv)
  /\ Done(p)
  /\ UNCHANGED <<row, task, used, asked>>

---------------------------------------------------------------------------
(***************************************************************************)
(* Process.                                                                *)
(***************************************************************************)
Frame == UNCHANGED <<task, used, asked>>

\* GetByID.
Load(p) ==
  /\ At(p, "load")
  /\ \/ Present(proc[p].cv) /\ Goto(p, "mark") /\ NoFault
     \/ ~ Present(proc[p].cv) /\ Goto(p, "err") /\ NoFault
     \/ Goto(p, "err") /\ Fault
  /\ Frame /\ UNCHANGED <<row, objects>>

\* SetStatus(parsing) and, in fail, SetStatus(failed): errors are ignored.
SetStatus(c, s) == Update(c, [row[c] EXCEPT !.status = s])

Mark(p) ==
  /\ At(p, "mark")
  /\ \/ SetStatus(proc[p].cv, "parsing") /\ NoFault
     \/ UNCHANGED row /\ Fault
  /\ Goto(p, "fetch")
  /\ Frame /\ UNCHANGED objects

\* S3.Get: a key that is not there is an error.
Gettable(c) == c \in objects

\* store.Get and reading the body, the PDF parser, the model: each may fail.
Fetch(p) ==
  /\ At(p, "fetch")
  /\ \/ Gettable(proc[p].cv) /\ Goto(p, "extract")
     \/ Goto(p, "fail")
  /\ Frame /\ UNCHANGED <<row, objects, faults>>

\* The parser service answers 200 with whatever text it found, which may be none;
\* no text is a text like any other to Process.
Extract(p) ==
  /\ At(p, "extract")
  /\ Goto(p, "parse") \/ Goto(p, "fail")
  /\ Frame /\ UNCHANGED <<row, objects, faults>>

MutParseReturns(p) ==
  /\ At(p, "parse")
  /\ Goto(p, "store") \/ Goto(p, "err")
  /\ Frame /\ UNCHANGED <<row, objects, faults>>
ParseCV(p) ==
  /\ At(p, "parse")
  /\ Goto(p, "store") \/ Goto(p, "fail")
  /\ Frame /\ UNCHANGED <<row, objects, faults>>

\* SetProcessed: text, parsed data and status in one UPDATE.
Processed == [status |-> "ready", parsed |-> TRUE]

MutStoreIgnored(p) ==
  /\ At(p, "store")
  /\ \/ Update(proc[p].cv, Processed) /\ NoFault
     \/ UNCHANGED row /\ Fault
  /\ Goto(p, "ok")
  /\ Frame /\ UNCHANGED objects
StoreProcessed(p) ==
  LET stored == Update(proc[p].cv, Processed) IN
  /\ At(p, "store")
  /\ \/ stored /\ Goto(p, "ok") /\ NoFault
     \/ UNCHANGED row /\ Goto(p, "fail") /\ Fault
     \/ stored /\ Goto(p, "fail") /\ Fault
  /\ Frame /\ UNCHANGED objects

MarkFailed(p) ==
  /\ At(p, "fail")
  /\ \/ SetStatus(proc[p].cv, "failed") /\ NoFault
     \/ UNCHANGED row /\ Fault
  /\ Goto(p, "err")
  /\ Frame /\ UNCHANGED objects

\* Process returns to its caller.
FinishTask(p) ==
  /\ proc[p].op = "task"
  /\ \/ At(p, "ok") /\ task' = [task EXCEPT ![proc[p].cv].state = "completed"]
     \/ At(p, "err") /\ task' = [task EXCEPT ![proc[p].cv] = AfterFailure(@)]
  /\ Done(p)
  /\ UNCHANGED <<row, objects, used, asked, faults>>

FinishRequest(p) ==
  /\ proc[p].op \in {"analyze", "detached", "consult"}
  /\ \/ At(p, "ok") /\ proc[p].op = "consult" /\ Goto(p, "reread")
     \/ At(p, "ok") /\ proc[p].op # "consult" /\ Done(p)
     \/ At(p, "err") /\ Done(p)
  /\ Frame /\ UNCHANGED <<row, objects, faults>>

\* ensureReady's second Get: what it finds is handed out, its status unread.
Reread(p) ==
  /\ At(p, "reread")
  /\ \/ Present(proc[p].cv) /\ proc' = [proc EXCEPT ![p] = Handed(proc[p].cv)]
     \/ ~ Present(proc[p].cv) /\ Done(p)
  /\ Frame /\ UNCHANGED <<row, objects, faults>>

\* The model has answered (match, cover letter, edits) and the request is over.
Serve(p) ==
  /\ At(p, "serve")
  /\ Done(p)
  /\ Frame /\ UNCHANGED <<row, objects, faults>>

---------------------------------------------------------------------------
\* The process dies, or the worker's lease or context ends.
Crash(p) ==
  /\ proc[p].op # "idle" /\ Fault
  /\ Done(p)
  /\ Frame /\ UNCHANGED <<row, objects>>

\* A shutting-down worker gives the task back and runs on until it exits.
Handover(p) ==
  /\ proc[p].op = "task" /\ Fault
  /\ task' = [task EXCEPT ![proc[p].cv].state = "pending"]
  /\ proc' = [proc EXCEPT ![p].op = "detached"]
  /\ UNCHANGED <<row, objects, used, asked>>

ProcessExit(p) ==
  /\ proc[p].op = "detached"
  /\ Done(p)
  /\ Frame /\ UNCHANGED <<row, objects, faults>>

ProcStep(p) ==
  \/ PutObject(p) \/ CreateRow(p) \/ Cleanup(p) \/ EnqueueProcess(p) \/ Unlink(p)
  \/ Load(p) \/ Mark(p) \/ Fetch(p) \/ Extract(p) \/ ParseCV(p) \/ StoreProcessed(p)
  \/ MarkFailed(p) \/ FinishTask(p) \/ FinishRequest(p) \/ Reread(p) \/ Serve(p)

Next ==
  \/ \E p \in Procs : ProcStep(p) \/ Crash(p) \/ Handover(p) \/ ProcessExit(p)
  \/ \E p \in Procs, c \in CVs : \/ StartUpload(p, c) \/ Dequeue(p, c)
                                 \/ Analyze(p, c) \/ Consult(p, c) \/ Delete(p, c)
  \/ \E c \in CVs : ForwardRetry(c) \/ Recover(c)

Spec == Init /\ [][Next]_vars

\* A worker's run and an enqueue go on, a worker that shuts down exits, and the
\* queue serves what is pending.  A call of the worker that hangs lasts until the
\* task's deadline, which is Crash and counts as a fault; the Redis client has
\* time-outs.  Nothing else is fair: requests call S3 and the model under a
\* context without a deadline (handlers/cv.go:134), through a client without one
\* (deepseek.go:44), so each of them may stop for ever at any of its calls.
OnWorker(p) == proc[p].op = "task" /\ ProcStep(p)

Fairness ==
  /\ \A p \in Procs : /\ WF_vars(OnWorker(p)) /\ WF_vars(ProcessExit(p))
                      /\ WF_vars(EnqueueProcess(p))
  /\ \A c \in CVs : /\ SF_vars(\E p \in Procs : Dequeue(p, c))
                    /\ WF_vars(ForwardRetry(c)) /\ WF_vars(Recover(c))
FairSpec == Spec /\ Fairness

---------------------------------------------------------------------------
(***************************************************************************)
(* Safety.                                                                 *)
(***************************************************************************)
\* The quota is checked before the row exists, in no transaction: concurrent
\* uploads overshoot it, by no more than one CV per concurrent goroutine
\* beyond the first.  (Upload, service.go:57-76.)
QuotaOvershoot ==
  Cardinality({c \in CVs : Present(c)}) <= MaxUploads + Cardinality(Procs) - 1

\* The two stores agree about every CV that no upload or deletion is busy
\* with, as long as no call went wrong in an unclean way.
StoresAgree ==
  faults = 0 => \A c \in CVs :
    (\A p \in Procs : proc[p].cv = c => proc[p].op \notin {"upload", "delete"})
      => (c \in objects <=> Present(c))

\* "parsing" is a promise that somebody is parsing: while nothing crashed,
\* no interleaving of worker, analyze and chat leaves it behind.
ParsingIsRunning ==
  faults = 0 => \A c \in CVs : row[c].status = "parsing" =>
    \E p \in Procs : proc[p].cv = c /\ proc[p].at \in Working

\* What ensureReady hands to the model is a parsed CV, although it does not
\* look at the status again and others may have changed it meanwhile.
ServedIsParsed == \A p \in Procs : At(p, "serve") => proc[p].data

\* An acknowledged task has left parsed data, unless the CV was deleted.
AcknowledgedIsParsed ==
  \A c \in CVs : task[c].state = "completed" => row[c].parsed \/ ~ Present(c)

\* Parsed data survives every later run, and a deleted CV never comes back,
\* not even by the last write of a run that was under way.
ParseKept ==
  [][\A c \in CVs : /\ row[c].parsed => row'[c].parsed \/ row'[c].status = "gone"
                    /\ row[c].status = "gone" => row'[c].status = "gone"]_vars

---------------------------------------------------------------------------
(***************************************************************************)
(* Liveness, under FairSpec.                                               *)
(***************************************************************************)
\* However many analyze, match and delete requests for it hang on the way, a CV
\* whose task waits in the queue is analysed, through crashes and handovers too
\* until the retries are used up; and without faults every upload gets there.
\* (A request that hangs after the worker is through may leave "parsing" behind.)
Outcome == {"ready", "failed", "gone"}
RetriesUsedUp(c) == task[c].state = "archived" /\ faults > 0
UploadsAreAnalysed ==
  \A c \in CVs :
    /\ task[c].state = "pending" ~> (row[c].status \in Outcome \/ RetriesUsedUp(c))
    /\ [](faults = 0) => (row[c].status = "uploaded" ~> row[c].status \in Outcome)
=============================================================================
