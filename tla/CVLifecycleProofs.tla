------------------------- MODULE CVLifecycleProofs -------------------------
(***************************************************************************)
(* CVLifecycle for any number of CVs, goroutines, requests and faults: its *)
(* types; what was parsed stays parsed and what was deleted stays deleted; *)
(* the model is only handed parsed CVs; and while nothing failed uncleanly, *)
(* rows and objects agree and a CV that says parsing is being parsed.      *)
(***************************************************************************)
EXTENDS CVLifecycle, FiniteSetTheorems, TLAPS

LEMMA NewProcType ==
  ASSUME NEW o \in Ops, NEW c \in CVs, NEW pt \in Points, NEW d \in BOOLEAN
  PROVE  /\ NewProc(o, c, pt) \in Proc
         /\ [NewProc(o, c, pt) EXCEPT !.data = d] \in Proc
BY DEF NewProc, Proc

LEMMA ProcTypes ==
  ASSUME NEW r \in Proc, NEW pt \in Points
  PROVE  /\ [r EXCEPT !.at = pt] \in Proc
         /\ [r EXCEPT !.op = "detached"] \in Proc
BY DEF Proc, Ops

LEMMA IdleType == Idle \in Proc
BY DEF Idle, NewProc, Proc, Ops, Points

LEMMA RowTypes ==
  ASSUME NEW r \in Row, NEW s \in {"uploaded", "parsing", "failed", "gone"}
  PROVE  /\ [r EXCEPT !.status = s] \in Row
         /\ [NoRow EXCEPT !.status = s] \in Row
         /\ Processed \in Row
BY DEF Row, NoRow, Processed

LEMMA TaskTypes ==
  ASSUME NEW t \in Task
  PROVE  /\ AfterFailure(t) \in Task
         /\ AfterFailure(t).state \in {"retry", "archived"}
         /\ \A s \in {"pending", "active", "completed"} : [t EXCEPT !.state = s] \in Task
BY CVBoundsAssumption DEF Task, AfterFailure

LEMMA UpdateType ==
  ASSUME TypeOK, NEW c \in CVs, NEW r \in Row, Update(c, r)
  PROVE  row' \in [CVs -> Row]
BY DEF TypeOK, Update

LEMMA GotoType ==
  ASSUME TypeOK, NEW p \in Procs, NEW pt \in Points, Goto(p, pt)
  PROVE  proc' \in [Procs -> Proc]
<1>1. proc[p] \in Proc
  BY DEF TypeOK
<1>2. [proc[p] EXCEPT !.at = pt] \in Proc
  BY <1>1, ProcTypes
<1>. QED  BY <1>2 DEF Goto, TypeOK

LEMMA DoneType ==
  ASSUME TypeOK, NEW p \in Procs, Done(p)
  PROVE  proc' \in [Procs -> Proc]
BY IdleType DEF Done, TypeOK

LEMMA StartType ==
  ASSUME TypeOK, NEW p \in Procs, NEW o \in Ops, NEW c \in CVs, NEW pt \in Points,
         Start(p, o, c, pt)
  PROVE  proc' \in [Procs -> Proc]
<1>1. NewProc(o, c, pt) \in Proc
  BY NewProcType
<1>. QED  BY <1>1 DEF Start, TypeOK

LEMMA FaultType == ASSUME TypeOK, Fault \/ NoFault PROVE faults' \in 0 .. MaxFaults
BY CVBoundsAssumption DEF TypeOK, Fault, NoFault

LEMMA AskingType == ASSUME TypeOK, Asking PROVE asked' \in 0 .. MaxRequests
BY CVBoundsAssumption DEF TypeOK, Asking

\* A goroutine's own state names a CV whenever it is at a point of Process or
\* of an upload: it is not idle there.
LEMMA PointTypes ==
  ASSUME NEW pt \in {"put", "create", "cleanup", "enqueue", "unlink", "load", "mark", "fetch",
                     "extract", "parse", "store", "fail", "ok", "err", "reread", "serve"}
  PROVE  pt \in Points /\ pt # "none"
BY DEF Points, Working

---------------------------------------------------------------------------
\* A goroutine that does something does it to a CV, and an upload is only
\* ever at the points of Upload.
UploadPoints == {"put", "create", "cleanup", "enqueue"}
Engaged ==
  \A p \in Procs :
    /\ proc[p].op = "idle" => proc[p] = Idle
    /\ proc[p].op # "idle" => proc[p].cv \in used
    /\ proc[p].op = "upload" => proc[p].at \in UploadPoints
    /\ proc[p].op # "upload" => proc[p].at \notin UploadPoints

\* Until its row is inserted only the upload itself knows a CV.
Creating ==
  \A p \in Procs : proc[p].at \in {"put", "create"} =>
    /\ row[proc[p].cv].status = "none"
    /\ \A q \in Procs : proc[q].cv = proc[p].cv => q = p

\* Everybody else, and the queue, deal with CVs that have or had a row.
Born ==
  /\ \A c \in CVs : c \notin used => row[c].status = "none"
  /\ \A c \in CVs : row[c].status = "none" => ~ row[c].parsed /\ task[c].state = "none"
  /\ \A p \in Procs : proc[p].op \notin {"idle", "upload"} \/ proc[p].at = "enqueue" =>
       row[proc[p].cv].status # "none"

StandInv == TypeOK /\ Engaged /\ Creating /\ Born

\* What a run that succeeded, and a row that says so, stand for.
ReadyParsed == \A c \in CVs : row[c].status = "ready" => row[c].parsed
OkParsed ==
  \A p \in Procs : proc[p].at \in {"ok", "reread"} =>
    row[proc[p].cv].parsed \/ ~ Present(proc[p].cv)

ParsedInv == ReadyParsed /\ OkParsed /\ ServedIsParsed /\ AcknowledgedIsParsed

---------------------------------------------------------------------------
(***************************************************************************)
(* Types.                                                                  *)
(***************************************************************************)
LEMMA EngagedCV ==
  ASSUME TypeOK, Engaged, NEW p \in Procs, proc[p].at # "none" \/ proc[p].op # "idle"
  PROVE  proc[p].op # "idle" /\ proc[p].cv \in CVs
BY DEF TypeOK, Engaged, Idle, NewProc

\* The steps a goroutine takes on its own.
OwnStep(p) == ProcStep(p) \/ Crash(p) \/ Handover(p) \/ ProcessExit(p)

\* The steps that take an idle goroutine.
StartStep(p, c) ==
  StartUpload(p, c) \/ Dequeue(p, c) \/ Analyze(p, c) \/ Consult(p, c) \/ Delete(p, c)

LEMMA UploadType ==
  ASSUME TypeOK, Engaged, NEW p \in Procs,
         PutObject(p) \/ CreateRow(p) \/ Cleanup(p) \/ EnqueueProcess(p) \/ Unlink(p)
  PROVE  TypeOK'
<1>0. proc[p].cv \in CVs
  BY EngagedCV DEF PutObject, CreateRow, Cleanup, EnqueueProcess, Unlink, At
<1>1. proc' \in [Procs -> Proc]
  BY GotoType, DoneType, PointTypes DEF PutObject, CreateRow, Cleanup, EnqueueProcess, Unlink
<1>2. faults' \in 0 .. MaxFaults
  BY FaultType DEF PutObject, CreateRow, Cleanup, EnqueueProcess, Unlink, DeleteObject
<1>3. objects' \subseteq CVs
  BY <1>0 DEF TypeOK, PutObject, CreateRow, Cleanup, EnqueueProcess, Unlink, DeleteObject
<1>4. row' \in [CVs -> Row]
  <2>1. [NoRow EXCEPT !.status = "uploaded"] \in Row
    BY DEF NoRow, Row
  <2>. QED  BY <1>0, <2>1 DEF TypeOK, PutObject, CreateRow, Inserted, Cleanup, EnqueueProcess, Unlink
<1>5. task' \in [CVs -> Task]
  <2>1. [task[proc[p].cv] EXCEPT !.state = "pending"] \in Task
    BY <1>0, TaskTypes DEF TypeOK
  <2>. QED  BY <1>0, <2>1 DEF TypeOK, PutObject, CreateRow, Cleanup, EnqueueProcess, Unlink
<1>. QED  BY <1>1, <1>2, <1>3, <1>4, <1>5 DEF TypeOK, PutObject, CreateRow, Cleanup, EnqueueProcess, Unlink

LEMMA ProcessType ==
  ASSUME TypeOK, Engaged, NEW p \in Procs,
         Load(p) \/ Mark(p) \/ Fetch(p) \/ Extract(p) \/ ParseCV(p) \/ StoreProcessed(p) \/ MarkFailed(p)
  PROVE  TypeOK'
<1>0. proc[p].cv \in CVs /\ proc[p] \in Proc /\ row[proc[p].cv] \in Row
  BY EngagedCV DEF TypeOK, Load, Mark, Fetch, Extract, ParseCV, StoreProcessed, MarkFailed, At
<1>1. proc' \in [Procs -> Proc]
  BY GotoType, PointTypes DEF Load, Mark, Fetch, Extract, ParseCV, StoreProcessed, MarkFailed
<1>2. faults' \in 0 .. MaxFaults
  <2>1. UNCHANGED faults \/ Fault \/ NoFault
    BY DEF Load, Mark, Fetch, Extract, ParseCV, StoreProcessed, MarkFailed
  <2>. QED  BY <2>1, FaultType DEF NoFault
<1>3. row' \in [CVs -> Row]
  <2>1. /\ Processed \in Row
        /\ [row[proc[p].cv] EXCEPT !.status = "parsing"] \in Row
        /\ [row[proc[p].cv] EXCEPT !.status = "failed"] \in Row
    BY <1>0, RowTypes
  <2>2. CASE Mark(p) \/ MarkFailed(p)
    BY <1>0, <2>1, <2>2, UpdateType DEF Mark, MarkFailed, SetStatus, TypeOK
  <2>3. CASE StoreProcessed(p)
    BY <1>0, <2>1, <2>3, UpdateType DEF StoreProcessed, TypeOK
  <2>. QED  BY <2>2, <2>3 DEF Load, Fetch, Extract, ParseCV, TypeOK
<1>. QED  BY <1>1, <1>2, <1>3
            DEF TypeOK, Load, Mark, Fetch, Extract, ParseCV, StoreProcessed, MarkFailed, Frame

LEMMA ReturnType ==
  ASSUME TypeOK, Engaged, NEW p \in Procs,
         FinishTask(p) \/ FinishRequest(p) \/ Reread(p) \/ Serve(p)
           \/ Crash(p) \/ Handover(p) \/ ProcessExit(p)
  PROVE  TypeOK'
<1>0. proc[p].cv \in CVs /\ proc[p] \in Proc
  BY EngagedCV DEF TypeOK, FinishTask, FinishRequest, Reread, Serve, Crash, Handover, ProcessExit, At
<1>1. proc' \in [Procs -> Proc]
  <2>1. CASE Reread(p)
    <3>1. Handed(proc[p].cv) \in Proc
      BY <1>0, NewProcType, PointTypes DEF Handed, Ops, TypeOK, Row
    <3>. QED  BY <2>1, <3>1, DoneType DEF Reread, TypeOK
  <2>2. CASE Handover(p)
    <3>1. [proc[p] EXCEPT !.op = "detached"] \in Proc
      BY <1>0, ProcTypes, PointTypes
    <3>. QED  BY <2>2, <3>1 DEF Handover, TypeOK
  <2>3. CASE FinishTask(p) \/ FinishRequest(p) \/ Serve(p) \/ Crash(p) \/ ProcessExit(p)
    BY <2>3, GotoType, DoneType, PointTypes DEF FinishTask, FinishRequest, Serve, Crash, ProcessExit
  <2>. QED  BY <2>1, <2>2, <2>3
<1>2. faults' \in 0 .. MaxFaults
  <2>1. UNCHANGED faults \/ Fault
    BY DEF FinishTask, FinishRequest, Reread, Serve, Crash, Handover, ProcessExit
  <2>. QED  BY <2>1, FaultType DEF NoFault
<1>3. task' \in [CVs -> Task]
  <2>1. /\ AfterFailure(task[proc[p].cv]) \in Task
        /\ [task[proc[p].cv] EXCEPT !.state = "completed"] \in Task
        /\ [task[proc[p].cv] EXCEPT !.state = "pending"] \in Task
    BY <1>0, TaskTypes DEF TypeOK
  <2>. QED  BY <1>0, <2>1 DEF TypeOK, FinishTask, FinishRequest, Reread, Serve, Crash, Handover, ProcessExit, Frame
<1>. QED  BY <1>1, <1>2, <1>3
            DEF TypeOK, FinishTask, FinishRequest, Reread, Serve, Crash, Handover, ProcessExit, Frame

LEMMA StartStepType ==
  ASSUME TypeOK, NEW p \in Procs, NEW c \in CVs, StartStep(p, c)
  PROVE  TypeOK'
<1>0. {"upload", "task", "analyze", "consult", "delete"} \subseteq Ops
  BY DEF Ops
<1>1. proc' \in [Procs -> Proc]
  <2>1. CASE Consult(p, c)
    <3>1. Handed(c) \in Proc
      BY <1>0, NewProcType, PointTypes DEF Handed, TypeOK, Row
    <3>. QED  BY <1>0, <2>1, <3>1, StartType, PointTypes DEF Consult, TypeOK
  <2>2. CASE ~ Consult(p, c)
    BY <1>0, <2>2, StartType, PointTypes DEF StartStep, StartUpload, Dequeue, Analyze, Delete
  <2>. QED  BY <2>1, <2>2
<1>2. row' \in [CVs -> Row]
  <2>1. [NoRow EXCEPT !.status = "gone"] \in Row
    BY DEF NoRow, Row
  <2>. QED  BY <2>1 DEF TypeOK, StartStep, StartUpload, Dequeue, Analyze, Consult, Delete
<1>3. task' \in [CVs -> Task]
  <2>1. [task[c] EXCEPT !.state = "active"] \in Task
    BY TaskTypes DEF TypeOK
  <2>. QED  BY <2>1 DEF TypeOK, StartStep, StartUpload, Dequeue, Analyze, Consult, Delete
<1>4. asked' \in 0 .. MaxRequests
  <2>1. UNCHANGED asked \/ Asking
    BY DEF StartStep, StartUpload, Dequeue, Analyze, Consult, AsksFor, Delete
  <2>. QED  BY <2>1, AskingType DEF TypeOK
<1>. QED  BY <1>1, <1>2, <1>3, <1>4
            DEF TypeOK, StartStep, StartUpload, Dequeue, Analyze, Consult, Delete

LEMMA TypeStep ==
  ASSUME TypeOK, Engaged, [Next]_vars
  PROVE  TypeOK'
<1>1. ASSUME NEW p \in Procs, OwnStep(p) PROVE TypeOK'
  BY <1>1, UploadType, ProcessType, ReturnType DEF OwnStep, ProcStep
<1>2. ASSUME NEW p \in Procs, NEW c \in CVs, StartStep(p, c) PROVE TypeOK'
  BY <1>2, StartStepType
<1>3. ASSUME NEW c \in CVs, ForwardRetry(c) \/ Recover(c) PROVE TypeOK'
  <2>1. /\ AfterFailure(task[c]) \in Task
        /\ [task[c] EXCEPT !.state = "pending"] \in Task
    BY TaskTypes DEF TypeOK
  <2>. QED  BY <1>3, <2>1 DEF TypeOK, ForwardRetry, Recover
<1>4. CASE UNCHANGED vars
  BY <1>4 DEF vars, TypeOK
<1>. QED  BY <1>1, <1>2, <1>3, <1>4 DEF Next, OwnStep, StartStep

---------------------------------------------------------------------------
(***************************************************************************)
(* The shape of a step: which goroutine, which row.                        *)
(***************************************************************************)
Others(p) == \A q \in Procs \ {p} : proc'[q] = proc[q]

\* A goroutine ends, or goes on with its CV.
GoesOn(p) ==
  /\ proc[p].op # "idle" /\ proc[p].cv \in CVs
  /\ \/ proc'[p] = Idle
     \/ /\ proc'[p].op # "idle" /\ proc'[p].cv = proc[p].cv
        /\ proc'[p].op = "upload" <=> proc[p].op = "upload"
        /\ proc'[p].op = "upload" => \/ proc[p].at = "put" /\ proc'[p].at = "create"
                                     \/ proc[p].at = "create" /\ proc'[p].at \in {"cleanup", "enqueue"}
        /\ proc'[p].op # "upload" => proc'[p].at \notin UploadPoints

LEMMA OwnShape ==
  ASSUME TypeOK, Engaged, NEW p \in Procs, OwnStep(p)
  PROVE  Others(p) /\ GoesOn(p) /\ used' = used
<1>1. proc \in [Procs -> Proc] /\ proc[p] \in Proc
  BY DEF TypeOK
<1>2. proc[p].op # "idle" /\ proc[p].cv \in CVs
  BY EngagedCV DEF OwnStep, ProcStep, PutObject, CreateRow, Cleanup, EnqueueProcess, Unlink,
     Load, Mark, Fetch, Extract, ParseCV, StoreProcessed, MarkFailed, FinishTask, FinishRequest,
     Reread, Serve, Crash, Handover, ProcessExit, At
<1>3. ASSUME NEW pt, Goto(p, pt)
      PROVE  /\ Others(p) /\ proc'[p].op = proc[p].op /\ proc'[p].cv = proc[p].cv
             /\ proc'[p].at = pt
  BY <1>1, <1>3 DEF Goto, Others, Proc
<1>4. ASSUME Done(p) PROVE Others(p) /\ proc'[p] = Idle
  BY <1>1, <1>4 DEF Done, Others
<1>5. CASE PutObject(p) \/ CreateRow(p)
  BY <1>2, <1>3, <1>4, <1>5 DEF PutObject, CreateRow, GoesOn, At, Engaged, UploadPoints
<1>6. CASE Cleanup(p) \/ EnqueueProcess(p) \/ Unlink(p) \/ Serve(p) \/ Crash(p) \/ ProcessExit(p)
           \/ FinishTask(p)
  BY <1>2, <1>4, <1>6 DEF Cleanup, EnqueueProcess, Unlink, Serve, Crash, ProcessExit, FinishTask,
     GoesOn, Frame
<1>7. CASE Load(p) \/ Mark(p) \/ Fetch(p) \/ Extract(p) \/ ParseCV(p) \/ StoreProcessed(p) \/ MarkFailed(p)
  BY <1>2, <1>3, <1>7 DEF Load, Mark, Fetch, Extract, ParseCV, StoreProcessed, MarkFailed,
     GoesOn, Frame, At, Engaged, UploadPoints
<1>8. CASE FinishRequest(p)
  BY <1>2, <1>3, <1>4, <1>8 DEF FinishRequest, GoesOn, Frame, At, Engaged, UploadPoints
<1>9. CASE Reread(p)
  <2>1. ASSUME proc' = [proc EXCEPT ![p] = Handed(proc[p].cv)]
        PROVE  /\ Others(p) /\ proc'[p].op = "consult" /\ proc'[p].cv = proc[p].cv
               /\ proc'[p].at = "serve"
    BY <1>1, <2>1 DEF Others, Handed, NewProc
  <2>. QED  BY <1>2, <1>4, <1>9, <2>1 DEF Reread, GoesOn, Frame, At, Engaged, UploadPoints
<1>10. CASE Handover(p)
  <2>1. /\ Others(p) /\ proc'[p].op = "detached" /\ proc'[p].cv = proc[p].cv
        /\ proc'[p].at = proc[p].at
    BY <1>1, <1>10 DEF Handover, Others, Proc
  <2>. QED  BY <1>2, <1>10, <2>1 DEF Handover, GoesOn, Engaged, UploadPoints
<1>. QED  BY <1>5, <1>6, <1>7, <1>8, <1>9, <1>10 DEF OwnStep, ProcStep

\* An idle goroutine takes up a CV: a fresh one, or one it has found.
LEMMA StartShape ==
  ASSUME TypeOK, Engaged, NEW p \in Procs, NEW c \in CVs, StartStep(p, c)
  PROVE  /\ proc[p] = Idle /\ Others(p) /\ proc'[p].cv = c
         /\ \/ /\ c \notin used /\ used' = used \cup {c}
               /\ proc'[p].op = "upload" /\ proc'[p].at = "put"
            \/ /\ Present(c) \/ task[c].state = "pending"
               /\ used' = used
               /\ proc'[p].op \notin {"idle", "upload"}
               /\ proc'[p].at \in {"load", "serve", "unlink"}
<1>1. proc \in [Procs -> Proc]
  BY DEF TypeOK
<1>2. ASSUME NEW o, NEW pt, Start(p, o, c, pt)
      PROVE  /\ proc[p] = Idle /\ Others(p) /\ proc'[p].cv = c
             /\ proc'[p].op = o /\ proc'[p].at = pt
  BY <1>1, <1>2 DEF Start, NewProc, Others, Engaged
<1>3. CASE StartUpload(p, c)
  BY <1>2, <1>3 DEF StartUpload
<1>4. CASE Dequeue(p, c)
  BY <1>2, <1>4 DEF Dequeue, UploadPoints
<1>5. CASE Analyze(p, c)
  BY <1>2, <1>5 DEF Analyze, UploadPoints
<1>6. CASE Consult(p, c)
  <2>1. ASSUME proc[p].op = "idle", proc' = [proc EXCEPT ![p] = Handed(c)]
        PROVE  /\ proc[p] = Idle /\ Others(p) /\ proc'[p].cv = c
               /\ proc'[p].op = "consult" /\ proc'[p].at = "serve"
    BY <1>1, <2>1 DEF Handed, NewProc, Others, Engaged
  <2>. QED  BY <1>2, <1>6, <2>1 DEF Consult, AsksFor, UploadPoints
<1>7. CASE Delete(p, c)
  BY <1>2, <1>7 DEF Delete, UploadPoints
<1>. QED  BY <1>3, <1>4, <1>5, <1>6, <1>7 DEF StartStep

\* A row that is there is overwritten without losing what was parsed, or deleted.
Written(c) ==
  \/ row'[c] = row[c]
  \/ /\ Present(c) /\ row'[c].status # "none"
     /\ row[c].parsed => row'[c].parsed \/ row'[c].status = "gone"
     /\ row'[c].status = "ready" => row'[c].parsed

\* A row that was not there is inserted.
Insertion(p, c) ==
  proc[p].at = "create" /\ proc[p].cv = c /\ row'[c].status = "uploaded"

LEMMA OwnRow ==
  ASSUME TypeOK, Engaged, NEW p \in Procs, OwnStep(p), NEW c \in CVs
  PROVE  \/ Written(c)
         \/ Insertion(p, c) /\ proc'[p].at # "create"
<1>0. proc[p].cv \in CVs /\ row \in [CVs -> Row] /\ proc \in [Procs -> Proc]
  BY OwnShape DEF GoesOn, TypeOK
<1>1. CASE CreateRow(p)
  <2>1. proc[p].at = "create" /\ proc'[p].at # "create"
    BY <1>0, <1>1 DEF CreateRow, Goto, At, Proc
  <2>2. CASE row' = Inserted(proc[p].cv)
    BY <1>0, <2>1, <2>2 DEF Inserted, NoRow, Written, Insertion
  <2>. QED  BY <1>1, <2>2 DEF CreateRow, Written
<1>2. ASSUME NEW s \in {"parsing", "failed"}, SetStatus(proc[p].cv, s) PROVE Written(c)
  BY <1>0, <1>2 DEF SetStatus, Update, Written, Row
<1>3. CASE Mark(p)
  BY <1>2, <1>3 DEF Mark, Written
<1>4. CASE MarkFailed(p)
  BY <1>2, <1>4 DEF MarkFailed, Written
<1>5. CASE StoreProcessed(p)
  BY <1>0, <1>5 DEF StoreProcessed, Update, Processed, Written
<1>6. CASE ~ (CreateRow(p) \/ Mark(p) \/ MarkFailed(p) \/ StoreProcessed(p))
  BY <1>6 DEF OwnStep, ProcStep, PutObject, Cleanup, EnqueueProcess, Unlink, Load, Fetch, Extract,
     ParseCV, FinishTask, FinishRequest, Reread, Serve, Crash, Handover, ProcessExit, Written
<1>. QED  BY <1>1, <1>3, <1>4, <1>5, <1>6

LEMMA StartRow ==
  ASSUME TypeOK, NEW p \in Procs, NEW d \in CVs, StartStep(p, d), NEW c \in CVs
  PROVE  Written(c)
BY DEF TypeOK, StartStep, StartUpload, Dequeue, Analyze, Consult, Delete, NoRow, Written, Present

\* The queue only ever deals with tasks that were enqueued, by an upload that
\* has inserted its row, and completes one only for a run that succeeded.
Queued(c) ==
  \/ task'[c] = task[c]
  \/ task[c].state # "none" /\ task'[c].state # "completed"
  \/ \E p \in Procs :
       /\ proc[p].cv = c
       /\ \/ proc[p].at = "enqueue" /\ task'[c].state = "pending"
          \/ proc[p].op = "task" /\ task'[c].state # "completed"
          \/ proc[p].op = "task" /\ proc[p].at = "ok" /\ row' = row

LEMMA QueueStep ==
  ASSUME TypeOK, [Next]_vars, NEW c \in CVs
  PROVE  Queued(c)
<1>0. task \in [CVs -> Task] /\ \A d \in CVs : AfterFailure(task[d]).state # "completed"
  BY TaskTypes DEF TypeOK
<1>1. ASSUME NEW p \in Procs, EnqueueProcess(p) PROVE Queued(c)
  BY <1>0, <1>1 DEF EnqueueProcess, Queued, At, Task
<1>2. ASSUME NEW p \in Procs, FinishTask(p) PROVE Queued(c)
  BY <1>0, <1>2 DEF FinishTask, Queued, At
<1>3. ASSUME NEW p \in Procs, Handover(p) PROVE Queued(c)
  BY <1>0, <1>3 DEF Handover, Queued, Task
<1>4. ASSUME NEW p \in Procs, NEW d \in CVs, Dequeue(p, d) PROVE Queued(c)
  BY <1>0, <1>4 DEF Dequeue, Queued, Task
<1>5. ASSUME NEW d \in CVs, ForwardRetry(d) \/ Recover(d) PROVE Queued(c)
  BY <1>0, <1>5 DEF ForwardRetry, Recover, Queued, Task
<1>6. CASE task' = task
  BY <1>6 DEF Queued
<1>. QED  BY <1>1, <1>2, <1>3, <1>4, <1>5, <1>6
            DEF Next, ProcStep, PutObject, CreateRow, Cleanup, Unlink, Load, Mark, Fetch, Extract,
                ParseCV, StoreProcessed, MarkFailed, FinishRequest, Reread, Serve, Crash,
                ProcessExit, StartUpload, Analyze, Consult, Delete, Frame, vars

---------------------------------------------------------------------------
(***************************************************************************)
(* Who knows which CV.                                                     *)
(***************************************************************************)
LEMMA StandInit == Init => StandInv
<1>1. Init => TypeOK
  BY IdleType, CVBoundsAssumption DEF Init, TypeOK, NoRow, Row, Task
<1>2. Init => Engaged /\ Creating /\ Born
  BY DEF Init, Engaged, Creating, Born, UploadPoints, Idle, NewProc, NoRow
<1>. QED  BY <1>1, <1>2 DEF StandInv

LEMMA IdleFields == Idle.op = "idle" /\ Idle.at = "none" /\ Idle.cv = NoCV
BY DEF Idle, NewProc

LEMMA EngagedStep ==
  ASSUME StandInv, [Next]_vars
  PROVE  Engaged'
<1>0. TypeOK /\ Engaged /\ Born
  BY DEF StandInv
<1>1. ASSUME NEW p \in Procs, OwnStep(p) PROVE Engaged'
  <2>1. Others(p) /\ GoesOn(p) /\ used' = used
    BY <1>0, <1>1, OwnShape
  <2>2. ASSUME NEW q \in Procs
        PROVE  /\ proc'[q].op = "idle" => proc'[q] = Idle
               /\ proc'[q].op # "idle" => proc'[q].cv \in used'
               /\ proc'[q].op = "upload" => proc'[q].at \in UploadPoints
               /\ proc'[q].op # "upload" => proc'[q].at \notin UploadPoints
    <3>1. CASE q # p
      BY <1>0, <2>1, <3>1 DEF Engaged, Others
    <3>2. CASE q = p
      BY <1>0, <2>1, <3>2, IdleFields DEF Engaged, GoesOn, UploadPoints
    <3>. QED  BY <3>1, <3>2
  <2>. QED  BY <2>2 DEF Engaged
<1>2. ASSUME NEW p \in Procs, NEW c \in CVs, StartStep(p, c) PROVE Engaged'
  <2>1. used \subseteq used'
    BY <1>0, <1>2, StartShape
  <2>2. c \in used'
    BY <1>0, <1>2, StartShape DEF Born, Present
  <2>. QED  BY <1>0, <1>2, <2>1, <2>2, StartShape DEF Engaged, Others, UploadPoints
<1>3. CASE UNCHANGED <<proc, used>>
  BY <1>0, <1>3 DEF Engaged
<1>. QED  BY <1>1, <1>2, <1>3 DEF Next, OwnStep, StartStep, ForwardRetry, Recover, vars

LEMMA CreatingStep ==
  ASSUME StandInv, [Next]_vars
  PROVE  Creating'
<1>0. TypeOK /\ Engaged /\ Creating /\ Born
  BY DEF StandInv
<1>a. \A q \in Procs : /\ proc[q].cv \in CVs => proc[q].cv \in used
                       /\ proc[q].at \in {"put", "create"} => proc[q].cv \in CVs
  BY <1>0, EngagedCV, IdleFields, NoCVAssumption DEF Engaged
<1>1. ASSUME NEW p \in Procs, OwnStep(p),
             NEW r \in Procs, proc'[r].at \in {"put", "create"}
      PROVE  /\ row'[proc'[r].cv].status = "none"
             /\ \A q \in Procs : proc'[q].cv = proc'[r].cv => q = r
  <2>0. Others(p) /\ GoesOn(p)
    BY <1>0, <1>1, OwnShape
  <2>1. /\ proc'[r].cv = proc[r].cv /\ proc[r].cv \in CVs /\ proc[r].at \in {"put", "create"}
        /\ r = p => proc[r].at = "put"
    <3>1. CASE r # p
      BY <1>a, <1>1, <2>0, <3>1 DEF Others
    <3>2. CASE r = p
      BY <1>1, <2>0, <3>2, IdleFields DEF GoesOn, UploadPoints
    <3>. QED  BY <3>1, <3>2
  <2>2. /\ row[proc[r].cv].status = "none"
        /\ \A q \in Procs : proc[q].cv = proc[r].cv => q = r
    BY <1>0, <2>1 DEF Creating
  <2>3. row'[proc[r].cv] = row[proc[r].cv]
    BY <1>0, <1>1, <2>1, <2>2, OwnRow DEF Written, Insertion, Present
  <2>4. \A q \in Procs : proc'[q].cv = proc[q].cv \/ proc'[q].cv = NoCV
    BY <2>0, IdleFields DEF GoesOn, Others
  <2>. QED  BY <2>1, <2>2, <2>3, <2>4, NoCVAssumption
<1>2. ASSUME NEW p \in Procs, NEW c \in CVs, StartStep(p, c),
             NEW r \in Procs, proc'[r].at \in {"put", "create"}
      PROVE  /\ row'[proc'[r].cv].status = "none"
             /\ \A q \in Procs : proc'[q].cv = proc'[r].cv => q = r
  <2>1. proc'[p].cv = c /\ Others(p)
    BY <1>0, <1>2, StartShape
  <2>2. CASE r = p
    <3>1. c \notin used
      BY <1>0, <1>2, <2>2, StartShape
    <3>2. row[c].status = "none" /\ row'[c] = row[c]
      BY <1>0, <1>2, <3>1, StartRow DEF Born, Written, Present
    <3>3. \A q \in Procs \ {p} : proc[q].cv # c
      BY <1>a, <3>1
    <3>. QED  BY <2>1, <2>2, <3>2, <3>3 DEF Others
  <2>3. CASE r # p
    <3>0. proc'[r] = proc[r] /\ proc[r].at \in {"put", "create"}
      BY <1>2, <2>1, <2>3 DEF Others
    <3>1. /\ proc[r].cv \in CVs /\ row[proc[r].cv].status = "none"
          /\ \A q \in Procs : proc[q].cv = proc[r].cv => q = r
      BY <1>0, <1>a, <3>0 DEF Creating
    <3>2. row'[proc[r].cv] = row[proc[r].cv]
      BY <1>0, <1>2, <3>1, StartRow DEF Written, Present
    <3>3. c # proc[r].cv
      <4>1. proc[r].cv \in used /\ task[proc[r].cv].state = "none" /\ ~ Present(proc[r].cv)
        BY <1>0, <1>a, <3>1 DEF Born, Present
      <4>2. c \notin used \/ Present(c) \/ task[c].state = "pending"
        BY <1>0, <1>2, StartShape
      <4>. QED  BY <4>1, <4>2
    <3>. QED  BY <2>1, <2>3, <3>0, <3>1, <3>2, <3>3 DEF Others
  <2>. QED  BY <2>2, <2>3
<1>3. CASE UNCHANGED <<proc, row>>
  BY <1>0, <1>3 DEF Creating
<1>. QED  BY <1>1, <1>2, <1>3 DEF Creating, Next, OwnStep, StartStep, ForwardRetry, Recover, vars

\* What a step may do to a row: overwrite it, or insert it for the upload that
\* is creating it.
LEMMA RowStep ==
  ASSUME StandInv, [Next]_vars, NEW c \in CVs
  PROVE  \/ Written(c)
         \/ row[c].status = "none" /\ row'[c].status = "uploaded" /\ c \in used
<1>0. TypeOK /\ Engaged /\ Creating /\ Born
  BY DEF StandInv
<1>1. ASSUME NEW p \in Procs, OwnStep(p), Insertion(p, c)
      PROVE  row[c].status = "none" /\ row'[c].status = "uploaded" /\ c \in used
  <2>1. proc[p].op # "idle"
    BY <1>0, <1>1, OwnShape DEF GoesOn
  <2>. QED  BY <1>0, <1>1, <2>1 DEF Insertion, Creating, Engaged
<1>2. ASSUME NEW p \in Procs, OwnStep(p), ~ Insertion(p, c) PROVE Written(c)
  BY <1>0, <1>2, OwnRow
<1>3. ASSUME NEW p \in Procs, NEW d \in CVs, StartStep(p, d) PROVE Written(c)
  BY <1>0, <1>3, StartRow
<1>4. CASE row' = row
  BY <1>4 DEF Written
<1>. QED  BY <1>1, <1>2, <1>3, <1>4 DEF Next, OwnStep, StartStep, ForwardRetry, Recover, vars

\* An upload comes to its enqueue with its row inserted.
LEMMA CreatedRow ==
  ASSUME TypeOK, Engaged, NEW p \in Procs, OwnStep(p),
         proc[p].at = "create", proc'[p].at = "enqueue"
  PROVE  row'[proc[p].cv].status = "uploaded"
<1>1. proc[p].op = "upload" /\ proc[p].cv \in CVs /\ proc \in [Procs -> Proc]
      /\ row \in [CVs -> Row]
  BY EngagedCV DEF Engaged, UploadPoints, TypeOK
<1>2. CASE CreateRow(p)
  BY <1>1, <1>2 DEF CreateRow, Inserted, NoRow, Goto, Proc
<1>3. CASE ~ CreateRow(p)
  <2>1. Crash(p)
    BY <1>1, <1>3 DEF OwnStep, ProcStep, PutObject, Cleanup, EnqueueProcess, Unlink, Load, Mark,
       Fetch, Extract, ParseCV, StoreProcessed, MarkFailed, FinishTask, FinishRequest, Reread,
       Serve, Handover, ProcessExit, At
  <2>. QED  BY <1>1, <2>1, IdleFields DEF Crash, Done
<1>. QED  BY <1>2, <1>3

LEMMA BornStep ==
  ASSUME StandInv, [Next]_vars
  PROVE  Born'
<1>0. TypeOK /\ Engaged /\ Creating /\ Born
  BY DEF StandInv
<1>1. ASSUME NEW c \in CVs, row'[c].status = "none"
      PROVE  row'[c] = row[c] /\ row[c].status = "none"
  BY <1>1, RowStep DEF Written
<1>2. used \subseteq used'
  <2>1. ASSUME NEW p \in Procs, OwnStep(p) PROVE used' = used
    BY <1>0, <2>1, OwnShape
  <2>2. ASSUME NEW p \in Procs, NEW c \in CVs, StartStep(p, c) PROVE used \subseteq used'
    BY <1>0, <2>2, StartShape
  <2>. QED  BY <2>1, <2>2 DEF Next, OwnStep, StartStep, ForwardRetry, Recover, vars
<1>3. ASSUME NEW c \in CVs, c \notin used' PROVE row'[c].status = "none"
  BY <1>0, <1>2, <1>3, RowStep DEF Born, Written, Present
<1>4. ASSUME NEW c \in CVs, row'[c].status = "none"
      PROVE  ~ row'[c].parsed /\ task'[c].state = "none"
  <2>1. row'[c] = row[c] /\ ~ row[c].parsed /\ task[c].state = "none"
    BY <1>0, <1>1, <1>4 DEF Born
  <2>2. \A p \in Procs : proc[p].cv = c => proc[p].op # "task" /\ proc[p].at # "enqueue"
    BY <1>0, <1>1, <1>4 DEF Born
  <2>3. Queued(c)
    BY <1>0, QueueStep
  <2>. QED  BY <2>1, <2>2, <2>3 DEF Queued
<1>5. ASSUME NEW r \in Procs, proc'[r].op \notin {"idle", "upload"} \/ proc'[r].at = "enqueue"
      PROVE  row'[proc'[r].cv].status # "none"
  <2>0. ASSUME NEW c \in CVs, row[c].status # "none" PROVE row'[c].status # "none"
    BY <1>1, <2>0
  <2>1. proc[r].op # "idle" => proc[r].cv \in CVs
    BY <1>0, EngagedCV
  <2>2. CASE proc'[r] = proc[r]
    <3>1. proc[r].op # "idle"
      BY <1>0, <1>5, <2>2, IdleFields DEF Engaged
    <3>. QED  BY <1>0, <1>5, <2>0, <2>1, <2>2, <3>1 DEF Born
  <2>3. ASSUME OwnStep(r) PROVE row'[proc'[r].cv].status # "none"
    <3>1. GoesOn(r)
      BY <1>0, <2>3, OwnShape
    <3>2. proc'[r].cv = proc[r].cv /\ proc[r].cv \in CVs /\ proc[r].op # "idle"
      BY <1>5, <3>1, IdleFields DEF GoesOn
    <3>3. CASE proc'[r].op = "upload"
      <4>1. proc[r].at = "create" /\ proc'[r].at = "enqueue"
        BY <1>5, <3>1, <3>3, IdleFields DEF GoesOn
      <4>. QED  BY <1>0, <2>3, <3>2, <4>1, CreatedRow
    <3>4. CASE proc'[r].op # "upload"
      <4>1. proc[r].op # "upload"
        BY <1>5, <3>1, <3>4, IdleFields DEF GoesOn, UploadPoints
      <4>. QED  BY <1>0, <2>0, <3>2, <4>1 DEF Born
    <3>. QED  BY <3>3, <3>4
  <2>4. ASSUME NEW c \in CVs, StartStep(r, c) PROVE row'[proc'[r].cv].status # "none"
    <3>1. proc'[r].cv = c /\ (Present(c) \/ task[c].state = "pending")
      BY <1>0, <1>5, <2>4, StartShape
    <3>. QED  BY <1>0, <2>0, <3>1 DEF Born, Present
  <2>5. ASSUME NEW p \in Procs, p # r, OwnStep(p) PROVE proc'[r] = proc[r]
    BY <1>0, <2>5, OwnShape DEF Others
  <2>6. ASSUME NEW p \in Procs, p # r, NEW c \in CVs, StartStep(p, c) PROVE proc'[r] = proc[r]
    BY <1>0, <2>6, StartShape DEF Others
  <2>. QED  BY <2>2, <2>3, <2>4, <2>5, <2>6 DEF Next, OwnStep, StartStep, ForwardRetry, Recover, vars
<1>. QED  BY <1>3, <1>4, <1>5 DEF Born

\* Who knows which CV: a new id is its upload's alone until the row is there,
\* and everybody else acts on CVs that have or had a row.
THEOREM StandCorrect == Spec => []StandInv
<1>1. Init => StandInv
  BY StandInit
<1>2. StandInv /\ [Next]_vars => StandInv'
  <2>. SUFFICES ASSUME StandInv, [Next]_vars PROVE StandInv'
    OBVIOUS
  <2>1. TypeOK'
    BY TypeStep DEF StandInv
  <2>. QED  BY <2>1, EngagedStep, CreatingStep, BornStep DEF StandInv
<1>. QED  BY <1>1, <1>2, PTL DEF Spec

\* Every variable of the CV service and its queue stays within its type.
THEOREM TypeCorrect == Spec => []TypeOK
<1>1. StandInv => TypeOK
  BY DEF StandInv
<1>. QED  BY <1>1, StandCorrect, PTL

\* No write of any run under way loses parsed data or brings a deleted CV back:
\* a row changes by one UPDATE or DELETE that finds it, or by the INSERT of the
\* upload nobody else knows of.
THEOREM ParseKeptCorrect == Spec => ParseKept
<1>1. StandInv /\ [Next]_vars =>
        \A c \in CVs : /\ row[c].parsed => row'[c].parsed \/ row'[c].status = "gone"
                       /\ row[c].status = "gone" => row'[c].status = "gone"
  <2>. SUFFICES ASSUME StandInv, [Next]_vars, NEW c \in CVs
                PROVE  /\ row[c].parsed => row'[c].parsed \/ row'[c].status = "gone"
                       /\ row[c].status = "gone" => row'[c].status = "gone"
    OBVIOUS
  <2>1. row[c].status = "none" => ~ row[c].parsed
    BY DEF StandInv, Born
  <2>. QED  BY <2>1, RowStep DEF Written, Present
<1>. QED  BY <1>1, StandCorrect, PTL DEF Spec, ParseKept

---------------------------------------------------------------------------
(***************************************************************************)
(* What success stands for.                                                *)
(***************************************************************************)
\* A row that is parsed, or deleted, is so after every step.
LEMMA ParsedStays ==
  ASSUME StandInv, [Next]_vars, NEW c \in CVs, row[c].status # "none",
         row[c].parsed \/ ~ Present(c)
  PROVE  row'[c].parsed \/ ~ Present(c)'
BY RowStep DEF Written, Present

\* Process succeeds only with its UPDATE done, or with no row left to update.
LEMMA OkStep ==
  ASSUME TypeOK, Engaged, NEW p \in Procs, OwnStep(p), proc'[p].at \in {"ok", "reread"}
  PROVE  \/ proc[p].at \in {"ok", "reread"}
         \/ row'[proc[p].cv].parsed \/ ~ Present(proc[p].cv)'
<1>0. proc \in [Procs -> Proc] /\ row \in [CVs -> Row] /\ proc[p].cv \in CVs
  BY OwnShape DEF TypeOK, GoesOn
<1>1. CASE StoreProcessed(p)
  BY <1>0, <1>1 DEF StoreProcessed, Update, Processed, Present, Goto, Proc
<1>2. CASE FinishRequest(p) \/ Handover(p)
  BY <1>0, <1>2, IdleFields DEF FinishRequest, Handover, Done, Goto, At, Proc
<1>3. CASE Reread(p)
  BY <1>0, <1>3 DEF Reread, At
<1>4. CASE ~ (StoreProcessed(p) \/ FinishRequest(p) \/ Handover(p) \/ Reread(p))
  BY <1>0, <1>4, IdleFields
     DEF OwnStep, ProcStep, PutObject, CreateRow, Cleanup, EnqueueProcess, Unlink, Load, Mark, Fetch,
         Extract, ParseCV, MarkFailed, FinishTask, Serve, Crash, ProcessExit, Done, Goto, Proc
<1>. QED  BY <1>1, <1>2, <1>3, <1>4

\* ensureReady hands out what the row holds.
LEMMA ServeStep ==
  ASSUME TypeOK, Engaged, NEW p \in Procs, OwnStep(p), proc'[p].at = "serve"
  PROVE  \/ proc[p].at = "serve" /\ proc'[p].data = proc[p].data
         \/ /\ proc[p].at = "reread" /\ Present(proc[p].cv)
            /\ proc'[p].data = row[proc[p].cv].parsed
<1>0. proc \in [Procs -> Proc] /\ proc[p].cv \in CVs
  BY OwnShape DEF TypeOK, GoesOn
<1>1. CASE Reread(p)
  BY <1>0, <1>1, IdleFields DEF Reread, At, Done, Handed, NewProc
<1>2. CASE Handover(p)
  BY <1>0, <1>2 DEF Handover, Proc
<1>3. CASE ~ (Reread(p) \/ Handover(p))
  BY <1>0, <1>3, IdleFields
     DEF OwnStep, ProcStep, PutObject, CreateRow, Cleanup, EnqueueProcess, Unlink, Load, Mark, Fetch,
         Extract, ParseCV, StoreProcessed, MarkFailed, FinishTask, FinishRequest, Serve, Crash, ProcessExit,
         Done, Goto, Proc
<1>. QED  BY <1>1, <1>2, <1>3

\* A request is started with a CV in hand only if the row said "ready".
LEMMA ServeStart ==
  ASSUME TypeOK, NEW p \in Procs, NEW c \in CVs, StartStep(p, c)
  PROVE  /\ proc'[p].at \notin {"ok", "reread"}
         /\ proc'[p].at = "serve" => row[c].status = "ready" /\ proc'[p].data = row[c].parsed
<1>0. proc \in [Procs -> Proc]
  BY DEF TypeOK
<1>. QED  BY <1>0 DEF StartStep, StartUpload, Dequeue, Analyze, Consult, AsksFor, Delete, Start,
                      Handed, NewProc

LEMMA ParsedInit == Init => ParsedInv
BY IdleFields DEF Init, ParsedInv, ReadyParsed, OkParsed, ServedIsParsed, AcknowledgedIsParsed, At, NoRow

LEMMA ParsedStep ==
  ASSUME StandInv, ParsedInv, [Next]_vars
  PROVE  ParsedInv'
<1>0. /\ TypeOK /\ Engaged /\ Creating /\ Born
      /\ ReadyParsed /\ OkParsed /\ ServedIsParsed /\ AcknowledgedIsParsed
  BY DEF StandInv, ParsedInv
<1>a. ASSUME NEW p \in Procs, proc[p].at \in {"ok", "reread", "serve"}
      PROVE  proc[p].cv \in CVs /\ row[proc[p].cv].status # "none"
  <2>1. proc[p].op # "idle" /\ proc[p].op # "upload" /\ proc[p].cv \in CVs
    BY <1>0, <1>a, EngagedCV DEF Engaged, UploadPoints
  <2>. QED  BY <1>0, <2>1 DEF Born
<1>1. ReadyParsed'
  <2>. SUFFICES ASSUME NEW c \in CVs, row'[c].status = "ready" PROVE row'[c].parsed
    BY DEF ReadyParsed
  <2>. QED  BY <1>0, RowStep DEF Written, ReadyParsed
<1>2. OkParsed'
  <2>. SUFFICES ASSUME NEW r \in Procs, proc'[r].at \in {"ok", "reread"}
                PROVE  row'[proc'[r].cv].parsed \/ row'[proc'[r].cv].status \in {"none", "gone"}
    BY DEF OkParsed, Present
  <2>1. CASE proc'[r] = proc[r]
    BY <1>0, <1>a, <2>1, ParsedStays DEF OkParsed, Present
  <2>2. ASSUME OwnStep(r) PROVE row'[proc'[r].cv].parsed \/ row'[proc'[r].cv].status \in {"none", "gone"}
    <3>1. proc'[r].cv = proc[r].cv
      BY <1>0, <2>2, OwnShape, IdleFields DEF GoesOn
    <3>2. CASE proc[r].at \in {"ok", "reread"}
      BY <1>0, <1>a, <3>1, <3>2, ParsedStays DEF OkParsed, Present
    <3>. QED  BY <1>0, <2>2, <3>1, <3>2, OkStep DEF Present
  <2>3. ASSUME NEW c \in CVs, StartStep(r, c) PROVE FALSE
    BY <1>0, <2>3, ServeStart
  <2>4. ASSUME NEW p \in Procs, p # r, OwnStep(p) PROVE proc'[r] = proc[r]
    BY <1>0, <2>4, OwnShape DEF Others
  <2>5. ASSUME NEW p \in Procs, p # r, NEW c \in CVs, StartStep(p, c) PROVE proc'[r] = proc[r]
    BY <1>0, <2>5, StartShape DEF Others
  <2>. QED  BY <2>1, <2>2, <2>3, <2>4, <2>5 DEF Next, OwnStep, StartStep, ForwardRetry, Recover, vars
<1>3. ServedIsParsed'
  <2>. SUFFICES ASSUME NEW r \in Procs, proc'[r].at = "serve" PROVE proc'[r].data
    BY DEF ServedIsParsed, At
  <2>1. CASE proc'[r] = proc[r]
    BY <1>0, <2>1 DEF ServedIsParsed, At
  <2>2. ASSUME OwnStep(r) PROVE proc'[r].data
    <3>1. CASE proc[r].at = "serve" /\ proc'[r].data = proc[r].data
      BY <1>0, <3>1 DEF ServedIsParsed, At
    <3>2. CASE /\ proc[r].at = "reread" /\ Present(proc[r].cv)
               /\ proc'[r].data = row[proc[r].cv].parsed
      BY <1>0, <3>2 DEF OkParsed
    <3>. QED  BY <1>0, <2>2, <3>1, <3>2, ServeStep
  <2>3. ASSUME NEW c \in CVs, StartStep(r, c) PROVE proc'[r].data
    BY <1>0, <2>3, ServeStart DEF ReadyParsed
  <2>4. ASSUME NEW p \in Procs, p # r, OwnStep(p) PROVE proc'[r] = proc[r]
    BY <1>0, <2>4, OwnShape DEF Others
  <2>5. ASSUME NEW p \in Procs, p # r, NEW c \in CVs, StartStep(p, c) PROVE proc'[r] = proc[r]
    BY <1>0, <2>5, StartShape DEF Others
  <2>. QED  BY <2>1, <2>2, <2>3, <2>4, <2>5 DEF Next, OwnStep, StartStep, ForwardRetry, Recover, vars
<1>4. AcknowledgedIsParsed'
  <2>. SUFFICES ASSUME NEW c \in CVs, task'[c].state = "completed"
                PROVE  row'[c].parsed \/ ~ Present(c)'
    BY DEF AcknowledgedIsParsed, Present
  <2>1. CASE task'[c] = task[c]
    <3>1. row[c].status # "none" /\ (row[c].parsed \/ ~ Present(c))
      BY <1>0, <2>1 DEF Born, AcknowledgedIsParsed
    <3>. QED  BY <3>1, ParsedStays
  <2>2. ASSUME NEW p \in Procs, proc[p].cv = c, proc[p].at = "ok"
        PROVE  row'[c].parsed \/ ~ Present(c)'
    BY <1>0, <1>a, <2>2, ParsedStays DEF OkParsed
  <2>. QED  BY <1>0, <2>1, <2>2, QueueStep DEF Queued
<1>. QED  BY <1>1, <1>2, <1>3, <1>4 DEF ParsedInv

\* What success stands for: a ready row, a nil error of Process and an
\* acknowledged task each mean parsed data, unless the CV was deleted.
THEOREM ParsedCorrect == Spec => []ParsedInv
<1>1. Init => ParsedInv
  BY ParsedInit
<1>2. StandInv /\ ParsedInv /\ [Next]_vars => ParsedInv'
  BY ParsedStep
<1>. QED  BY <1>1, <1>2, StandCorrect, PTL DEF Spec

\* ensureReady hands the model a parsed CV and nothing else, although its second
\* Get does not look at the status and worker, analyze and deletion interleave
\* with it: once Process has returned without an error the data stays.
THEOREM ServedCorrect == Spec => []ServedIsParsed
<1>1. ParsedInv => ServedIsParsed
  BY DEF ParsedInv
<1>. QED  BY <1>1, ParsedCorrect, PTL

\* A task the queue counts as done has left parsed data, or its CV is deleted;
\* the writes of every other run under way included.
THEOREM AcknowledgedCorrect == Spec => []AcknowledgedIsParsed
<1>1. ParsedInv => AcknowledgedIsParsed
  BY DEF ParsedInv
<1>. QED  BY <1>1, ParsedCorrect, PTL

---------------------------------------------------------------------------
(***************************************************************************)
(* The quota.                                                              *)
(***************************************************************************)
\* Uploads under way count: each was let in below the quota, and there is one
\* goroutine to each.
Standing == {c \in CVs : Present(c)}
Uploading == {p \in Procs : proc[p].at \in {"put", "create"}}
QuotaInv ==
  Cardinality(Standing) + Cardinality(Uploading) <= MaxUploads + Cardinality(Procs) - 1

LEMMA QuotaFinite ==
  /\ IsFiniteSet(Standing) /\ IsFiniteSet(Uploading)
  /\ Cardinality(Standing) \in Nat /\ Cardinality(Uploading) \in Nat
  /\ Cardinality(Procs) \in Nat /\ Cardinality(Uploading) <= Cardinality(Procs)
BY FiniteAssumption, FS_Subset, FS_CardinalityType DEF Standing, Uploading

LEMMA QuotaFinitePrime ==
  /\ IsFiniteSet(Standing') /\ IsFiniteSet(Uploading')
  /\ Cardinality(Standing') \in Nat /\ Cardinality(Uploading') \in Nat
  /\ Cardinality(Uploading') <= Cardinality(Procs)
BY FiniteAssumption, FS_Subset, FS_CardinalityType DEF Standing, Uploading

\* Nothing is inserted and no upload begins, or an upload inserts its row.
LEMMA QuotaOwn ==
  ASSUME TypeOK, Engaged, NEW p \in Procs, OwnStep(p)
  PROVE  /\ Uploading' \subseteq Uploading
         /\ \/ Standing' \subseteq Standing
            \/ /\ Standing' \subseteq Standing \cup {proc[p].cv}
               /\ p \in Uploading /\ p \notin Uploading'
<1>0. Others(p) /\ GoesOn(p)
  BY OwnShape
<1>1. proc'[p].at \in {"put", "create"} => proc[p].at = "put" /\ proc'[p].at = "create"
  BY <1>0, IdleFields DEF GoesOn, UploadPoints
<1>2. Uploading' \subseteq Uploading
  BY <1>0, <1>1 DEF Others, Uploading
<1>3. ASSUME NEW c \in CVs, c \in Standing', c \notin Standing
      PROVE  c = proc[p].cv /\ proc[p].at = "create"
  BY <1>3, OwnRow DEF Standing, Present, Written, Insertion
<1>. QED  BY <1>1, <1>2, <1>3 DEF Standing, Uploading

LEMMA QuotaStep ==
  ASSUME StandInv, QuotaInv, [Next]_vars
  PROVE  QuotaInv'
<1>0. TypeOK /\ Engaged
  BY DEF StandInv
<1>1. ASSUME Standing' \subseteq Standing, Uploading' \subseteq Uploading PROVE QuotaInv'
  <2>1. /\ Cardinality(Standing') <= Cardinality(Standing)
        /\ Cardinality(Uploading') <= Cardinality(Uploading)
    BY <1>1, QuotaFinite, FS_Subset
  <2>. QED  BY <2>1, QuotaFinite, QuotaFinitePrime, CVBoundsAssumption DEF QuotaInv
<1>2. ASSUME NEW p \in Procs, OwnStep(p) PROVE QuotaInv'
  <2>1. Uploading' \subseteq Uploading
    BY <1>0, <1>2, QuotaOwn
  <2>2. CASE ~ (Standing' \subseteq Standing)
    <3>1. /\ Standing' \subseteq Standing \cup {proc[p].cv}
          /\ p \in Uploading /\ Uploading' \subseteq Uploading \ {p}
      BY <1>0, <1>2, <2>1, <2>2, QuotaOwn
    <3>2. Cardinality(Standing') <= Cardinality(Standing) + 1
      <4>1. /\ IsFiniteSet(Standing \cup {proc[p].cv})
            /\ Cardinality(Standing \cup {proc[p].cv}) <= Cardinality(Standing) + 1
        BY QuotaFinite, FS_AddElement
      <4>2. /\ Cardinality(Standing \cup {proc[p].cv}) \in Nat
            /\ Cardinality(Standing') <= Cardinality(Standing \cup {proc[p].cv})
        BY <3>1, <4>1, FS_Subset, FS_CardinalityType
      <4>. QED  BY <4>1, <4>2, QuotaFinite, QuotaFinitePrime
    <3>3. Cardinality(Uploading') <= Cardinality(Uploading) - 1
      <4>1. /\ IsFiniteSet(Uploading \ {p})
            /\ Cardinality(Uploading \ {p}) = Cardinality(Uploading) - 1
        BY <3>1, QuotaFinite, FS_RemoveElement
      <4>. QED  BY <3>1, <4>1, FS_Subset
    <3>. QED  BY <3>2, <3>3, QuotaFinite, QuotaFinitePrime, CVBoundsAssumption DEF QuotaInv
  <2>. QED  BY <1>1, <2>1, <2>2
<1>3. ASSUME NEW p \in Procs, NEW c \in CVs, StartStep(p, c) PROVE QuotaInv'
  <2>1. Standing' \subseteq Standing
    BY <1>0, <1>3, StartRow DEF Standing, Written, Present
  <2>2. CASE StartUpload(p, c)
    <3>1. Standing' = Standing /\ Cardinality(Standing) < MaxUploads
      BY <2>2 DEF StartUpload, UnderQuota, Standing, Present
    <3>. QED  BY <3>1, QuotaFinite, QuotaFinitePrime, CVBoundsAssumption DEF QuotaInv
  <2>3. CASE ~ StartUpload(p, c)
    <3>1. Uploading' \subseteq Uploading
      <4>1. proc \in [Procs -> Proc]
        BY <1>0 DEF TypeOK
      <4>. QED  BY <1>3, <2>3, <4>1
                DEF StartStep, Dequeue, Analyze, Consult, Delete, Start, Handed, NewProc, Uploading
    <3>. QED  BY <1>1, <2>1, <3>1
  <2>. QED  BY <2>2, <2>3
<1>4. CASE UNCHANGED <<row, proc>>
  BY <1>1, <1>4 DEF Standing, Uploading, Present
<1>. QED  BY <1>2, <1>3, <1>4 DEF Next, OwnStep, StartStep, ForwardRetry, Recover, vars

\* However many uploads are checked against the quota before any of them has
\* its row, the CVs of a user exceed it by at most one per concurrent goroutine
\* beyond the first.
THEOREM QuotaCorrect == Spec => []QuotaOvershoot
<1>1. Init => QuotaInv
  <2>. SUFFICES ASSUME Init PROVE QuotaInv
    OBVIOUS
  <2>1. Standing = {} /\ Uploading = {}
    BY IdleFields DEF Init, Standing, Uploading, Present, NoRow
  <2>2. Cardinality(Standing) = 0 /\ Cardinality(Uploading) = 0
    BY <2>1, FS_EmptySet
  <2>3. Cardinality(Procs) \in Nat /\ Cardinality(Procs) # 0
    BY FiniteAssumption, FS_CardinalityType, FS_EmptySet
  <2>. QED  BY <2>2, <2>3, CVBoundsAssumption DEF QuotaInv
<1>2. StandInv /\ QuotaInv /\ [Next]_vars => QuotaInv'
  BY QuotaStep
<1>3. QuotaInv => QuotaOvershoot
  BY QuotaFinite, CVBoundsAssumption DEF QuotaInv, QuotaOvershoot, Standing
<1>. QED  BY <1>1, <1>2, <1>3, StandCorrect, PTL DEF Spec

---------------------------------------------------------------------------
(***************************************************************************)
(* The two stores, and the promise "parsing" makes, while nothing failed   *)
(* in an unclean way.                                                      *)
(***************************************************************************)
\* No worker that gave its task back is left over.
NoneDetached == \A p \in Procs : proc[p].op # "detached"

\* A row has its object, and so has the upload about to insert one; an object
\* without a row belongs to an upload or a deletion on its way to the next store.
ObjectsOwned ==
  /\ \A c \in CVs : Present(c) => c \in objects
  /\ \A c \in objects : \/ Present(c)
                        \/ \E p \in Procs : proc[p].cv = c /\ proc[p].at \in {"create", "cleanup", "unlink"}
  /\ \A p \in Procs : proc[p].at = "create" => proc[p].cv \in objects

\* Only objects without a row are ever deleted: that of an upload nobody else
\* knows of, or that of a row that was deleted before.
Undoing ==
  \A p \in Procs :
    /\ proc[p].at = "cleanup" => /\ row[proc[p].cv].status = "none"
                                 /\ \A q \in Procs : proc[q].cv = proc[p].cv => q = p
    /\ proc[p].at = "unlink" => proc[p].op = "delete" /\ row[proc[p].cv].status = "gone"

\* A row that says "parsing" has a goroutine at work on it.
SomebodyParses ==
  \A c \in CVs : row[c].status = "parsing" =>
    \E p \in Procs : proc[p].cv = c /\ proc[p].at \in Working

CleanInv == faults = 0 => NoneDetached /\ ObjectsOwned /\ Undoing /\ SomebodyParses

LEMMA FaultsCount ==
  ASSUME TypeOK, Fault
  PROVE  faults' # 0
BY CVBoundsAssumption DEF TypeOK, Fault

\* What a goroutine's own step does to the two stores when it is not a fault.
\* Its position tells which store it is about to write.
CleanStep(p) ==
  LET c == proc[p].cv IN
  /\ \A d \in CVs : Present(d) => Present(d)'
  /\ \/ objects' = objects /\ proc[p].at \notin {"put", "cleanup", "unlink"}
     \/ objects' = objects \cup {c} /\ proc[p].at = "put" /\ proc'[p].at = "create" /\ proc'[p].cv = c
     \/ objects' = objects \ {c} /\ proc[p].at \in {"cleanup", "unlink"}
  /\ proc[p].at = "create" => row'[c].status = "uploaded" \/ (proc'[p].at = "cleanup" /\ proc'[p].cv = c)
  /\ proc'[p].at = "cleanup" => proc[p].at = "create" /\ row' = row
  /\ proc'[p].at # "unlink"
  /\ proc'[p].op # "detached"

LEMMA OwnClean ==
  ASSUME TypeOK, Engaged, NEW p \in Procs, OwnStep(p), faults' = 0, proc[p].op # "detached"
  PROVE  CleanStep(p) /\ faults = 0
<1>0. /\ proc \in [Procs -> Proc] /\ row \in [CVs -> Row] /\ proc[p].cv \in CVs /\ proc[p] \in Proc
      /\ proc[p].at # "cleanup" \/ proc[p].op = "upload"
  BY OwnShape DEF TypeOK, GoesOn, Engaged, UploadPoints
<1>1. ~ Fault
  BY FaultsCount
<1>3. ASSUME NEW pt, Goto(p, pt)
      PROVE  proc'[p].at = pt /\ proc'[p].op = proc[p].op /\ proc'[p].cv = proc[p].cv
  BY <1>0, <1>3 DEF Goto, Proc
<1>4. ASSUME Done(p) PROVE proc'[p].at = "none" /\ proc'[p].op = "idle"
  BY <1>0, <1>4, IdleFields DEF Done
<1>5. ASSUME row' = row PROVE \A d \in CVs : Present(d) => Present(d)'
  BY <1>5 DEF Present
<1>6. ASSUME NEW r, r.status \notin {"none", "gone"}, Update(proc[p].cv, r)
      PROVE  \A d \in CVs : Present(d) => Present(d)'
  BY <1>0, <1>6 DEF Update, Present
<1>7. CASE PutObject(p) \/ Cleanup(p) \/ Unlink(p)
  BY <1>1, <1>3, <1>4, <1>5, <1>7 DEF PutObject, Cleanup, Unlink, DeleteObject, At, NoFault, CleanStep
<1>8. CASE CreateRow(p)
  <2>1. ASSUME row' = Inserted(proc[p].cv)
        PROVE  row'[proc[p].cv].status = "uploaded" /\ \A d \in CVs : Present(d) => Present(d)'
    <3>1. [NoRow EXCEPT !.status = "uploaded"].status = "uploaded"
      BY DEF NoRow
    <3>2. \A d \in CVs : row'[d] = IF d = proc[p].cv THEN [NoRow EXCEPT !.status = "uploaded"] ELSE row[d]
      BY <1>0, <2>1 DEF Inserted
    <3>. QED  BY <1>0, <3>1, <3>2 DEF Present
  <2>. QED  BY <1>1, <1>3, <1>5, <1>8, <2>1 DEF CreateRow, At, NoFault, CleanStep
<1>9. CASE EnqueueProcess(p) \/ FinishTask(p) \/ Serve(p)
  BY <1>1, <1>4, <1>5, <1>9 DEF EnqueueProcess, FinishTask, Serve, Frame, At, NoFault, CleanStep
<1>10. CASE Load(p) \/ Fetch(p) \/ Extract(p) \/ ParseCV(p) \/ FinishRequest(p)
  BY <1>1, <1>3, <1>4, <1>5, <1>10
     DEF Load, Fetch, Extract, ParseCV, FinishRequest, Frame, At, NoFault, CleanStep
<1>11. CASE Mark(p) \/ MarkFailed(p)
  <2>1. ASSUME NEW s \in {"parsing", "failed"}, SetStatus(proc[p].cv, s)
        PROVE  \A d \in CVs : Present(d) => Present(d)'
    <3>1. row[proc[p].cv] \in Row
      BY <1>0
    <3>2. [row[proc[p].cv] EXCEPT !.status = s].status = s
      BY <3>1 DEF Row
    <3>. QED  BY <1>6, <2>1, <3>2 DEF SetStatus
  <2>. QED  BY <1>1, <1>3, <1>11, <2>1 DEF Mark, MarkFailed, Frame, At, NoFault, CleanStep
<1>12. CASE StoreProcessed(p)
  <2>1. Processed.status = "ready"
    BY DEF Processed
  <2>. QED  BY <1>1, <1>3, <1>6, <1>12, <2>1 DEF StoreProcessed, Frame, At, NoFault, CleanStep
<1>13. CASE Reread(p)
  BY <1>0, <1>4, <1>5, <1>13 DEF Reread, Handed, NewProc, Frame, At, CleanStep
<1>14. ~ ProcessExit(p)
  BY DEF ProcessExit
<1>15. CASE Crash(p) \/ Handover(p)
  BY <1>1, <1>15 DEF Crash, Handover
<1>. QED  BY <1>7, <1>8, <1>9, <1>10, <1>11, <1>12, <1>13, <1>14, <1>15 DEF OwnStep, ProcStep

\* Starting on a CV disturbs the stores in one way: a deletion takes its row.
LEMMA StartClean ==
  ASSUME TypeOK, NEW p \in Procs, NEW c \in CVs, StartStep(p, c)
  PROVE  /\ objects' = objects /\ faults' = faults
         /\ \A d \in CVs : row'[d] = row[d] \/ (d = c /\ row'[d].status = "gone" /\ proc'[p].at = "unlink")
         /\ proc'[p].at \in {"put", "load", "serve", "unlink"}
         /\ proc'[p].at = "unlink" => proc'[p].op = "delete" /\ row'[c].status = "gone"
         /\ proc'[p].op # "detached"
<1>0. proc \in [Procs -> Proc] /\ row \in [CVs -> Row]
  BY DEF TypeOK
<1>1. ASSUME NEW o, NEW pt, Start(p, o, c, pt) PROVE proc'[p].op = o /\ proc'[p].at = pt
  BY <1>0, <1>1 DEF Start, NewProc
<1>2. CASE Delete(p, c)
  <2>1. [NoRow EXCEPT !.status = "gone"].status = "gone"
    BY DEF NoRow
  <2>. QED  BY <1>0, <1>1, <1>2, <2>1 DEF Delete
<1>3. CASE Consult(p, c)
  <2>1. proc' = [proc EXCEPT ![p] = Handed(c)] => proc'[p].op = "consult" /\ proc'[p].at = "serve"
    BY <1>0 DEF Handed, NewProc
  <2>. QED  BY <1>1, <1>3, <2>1 DEF Consult
<1>4. CASE StartUpload(p, c) \/ Dequeue(p, c) \/ Analyze(p, c)
  BY <1>1, <1>4 DEF StartUpload, Dequeue, Analyze
<1>. QED  BY <1>2, <1>3, <1>4 DEF StartStep

\* The queue's own steps touch none of it.
Quiet == UNCHANGED <<row, objects, proc, faults>>

LEMMA StepCases ==
  ASSUME [Next]_vars
  PROVE  \/ \E p \in Procs : OwnStep(p)
         \/ \E p \in Procs, c \in CVs : StartStep(p, c)
         \/ Quiet
BY DEF Next, OwnStep, StartStep, ForwardRetry, Recover, Quiet, vars

LEMMA ObjectsOwnedStep ==
  ASSUME StandInv, [Next]_vars, faults' = 0, NoneDetached, ObjectsOwned, Undoing
  PROVE  ObjectsOwned'
<1>0. TypeOK /\ Engaged /\ Creating /\ objects \subseteq CVs
  BY DEF StandInv, TypeOK
<1>a. ASSUME NEW q \in Procs, proc[q].at \in {"create", "cleanup", "unlink"}
      PROVE  /\ proc[q].cv \in CVs
             /\ proc[q].at \in {"create", "cleanup"} => \A p \in Procs : proc[p].cv = proc[q].cv => p = q
  BY <1>0, <1>a, EngagedCV DEF Creating, Undoing
<1>1. ASSUME NEW p \in Procs, OwnStep(p) PROVE ObjectsOwned'
  <2>. DEFINE c == proc[p].cv
  <2>1. CleanStep(p) /\ Others(p) /\ GoesOn(p) /\ c \in CVs
    BY <1>0, <1>1, OwnClean, OwnShape DEF NoneDetached, GoesOn
  <2>2. proc[p].at \in {"cleanup", "unlink"} => row[c].status \in {"none", "gone"} /\ row'[c] = row[c]
    <3>1. proc[p].at \in {"cleanup", "unlink"} => row[c].status \in {"none", "gone"}
      BY DEF Undoing
    <3>2. Written(c) \/ Insertion(p, c)
      BY <1>0, <1>1, <2>1, OwnRow
    <3>. QED  BY <3>1, <3>2 DEF Written, Insertion, Present
  <2>3. ASSUME NEW d \in CVs, row'[d].status \notin {"none", "gone"} PROVE d \in objects'
    <3>1. CASE Present(d)
      BY <2>1, <2>2, <2>3, <3>1 DEF ObjectsOwned, CleanStep, Present
    <3>2. CASE ~ Present(d)
      <4>1. proc[p].at = "create" /\ c = d
        BY <1>0, <1>1, <2>3, <3>2, OwnRow DEF Written, Insertion, Present
      <4>. QED  BY <2>1, <4>1 DEF CleanStep, ObjectsOwned
    <3>. QED  BY <3>1, <3>2
  <2>4. ASSUME NEW d \in objects'
        PROVE  \/ d \in CVs /\ row'[d].status \notin {"none", "gone"}
               \/ \E q \in Procs : proc'[q].cv = d /\ proc'[q].at \in {"create", "cleanup", "unlink"}
    <3>1. CASE d \notin objects
      BY <2>1, <2>4, <3>1 DEF CleanStep
    <3>2. CASE d \in objects /\ Present(d)
      BY <1>0, <2>1, <3>2 DEF CleanStep, Present
    <3>3. ASSUME d \in objects, ~ Present(d), NEW q \in Procs,
                 proc[q].cv = d, proc[q].at \in {"create", "cleanup", "unlink"}
          PROVE  \/ row'[d].status \notin {"none", "gone"}
                 \/ \E r \in Procs : proc'[r].cv = d /\ proc'[r].at \in {"create", "cleanup", "unlink"}
      <4>1. CASE q # p
        BY <2>1, <3>3, <4>1 DEF Others
      <4>2. CASE q = p /\ proc[q].at = "create"
        BY <2>1, <3>3, <4>2 DEF CleanStep
      <4>3. CASE q = p /\ proc[q].at # "create"
        BY <2>1, <2>4, <3>3, <4>3 DEF CleanStep
      <4>. QED  BY <4>1, <4>2, <4>3
    <3>. QED  BY <1>0, <3>1, <3>2, <3>3 DEF ObjectsOwned
  <2>5. ASSUME NEW q \in Procs, proc'[q].at = "create" PROVE proc'[q].cv \in objects'
    <3>1. CASE q = p
      BY <2>1, <2>5, <3>1, IdleFields DEF GoesOn, CleanStep, UploadPoints
    <3>2. CASE q # p
      <4>1. proc'[q] = proc[q] /\ proc[q].cv \in objects /\ proc[q].cv # c
        BY <1>a, <2>1, <2>5, <3>2 DEF Others, ObjectsOwned
      <4>. QED  BY <2>1, <4>1 DEF CleanStep
    <3>. QED  BY <3>1, <3>2
  <2>. QED  BY <1>0, <2>3, <2>4, <2>5 DEF ObjectsOwned, Present
<1>2. ASSUME NEW p \in Procs, NEW c \in CVs, StartStep(p, c) PROVE ObjectsOwned'
  <2>1. /\ proc[p] = Idle /\ Others(p) /\ objects' = objects /\ proc'[p].cv = c
        /\ \A d \in CVs : row'[d] = row[d] \/ (d = c /\ row'[d].status = "gone" /\ proc'[p].at = "unlink")
        /\ proc'[p].at # "create"
    BY <1>0, <1>2, StartShape, StartClean
  <2>2. ASSUME NEW d \in CVs, row'[d].status \notin {"none", "gone"} PROVE d \in objects'
    BY <2>1, <2>2 DEF ObjectsOwned, Present
  <2>3. ASSUME NEW d \in objects
        PROVE  \/ d \in CVs /\ row'[d].status \notin {"none", "gone"}
               \/ \E q \in Procs : proc'[q].cv = d /\ proc'[q].at \in {"create", "cleanup", "unlink"}
    <3>1. CASE Present(d) /\ row'[d] = row[d]
      BY <1>0, <3>1 DEF Present
    <3>2. CASE row'[d] # row[d]
      BY <1>0, <2>1, <3>2
    <3>3. ASSUME NEW q \in Procs, proc[q].cv = d, proc[q].at \in {"create", "cleanup", "unlink"}
          PROVE  proc'[q] = proc[q]
      BY <2>1, <3>3, IdleFields DEF Others
    <3>. QED  BY <3>1, <3>2, <3>3 DEF ObjectsOwned
  <2>4. ASSUME NEW q \in Procs, proc'[q].at = "create" PROVE proc'[q].cv \in objects
    BY <2>1, <2>4 DEF Others, ObjectsOwned
  <2>. QED  BY <2>1, <2>2, <2>3, <2>4 DEF ObjectsOwned, Present
<1>3. CASE Quiet
  BY <1>3 DEF Quiet, ObjectsOwned, Present
<1>. QED  BY <1>1, <1>2, <1>3, StepCases

LEMMA UndoingStep ==
  ASSUME StandInv, [Next]_vars, faults' = 0, NoneDetached, Undoing
  PROVE  Undoing'
<1>0. TypeOK /\ Engaged /\ Creating /\ Born
  BY DEF StandInv
<1>a. ASSUME NEW q \in Procs, proc[q].at \in {"create", "cleanup", "unlink"} PROVE proc[q].cv \in CVs
  BY <1>0, <1>a, EngagedCV
<1>b. ASSUME NEW c \in CVs, row[c].status = "gone" PROVE row'[c].status = "gone"
  BY <1>b, RowStep DEF Written, Present
<1>1. ASSUME NEW p \in Procs, OwnStep(p) PROVE Undoing'
  <2>1. CleanStep(p) /\ Others(p) /\ GoesOn(p) /\ proc[p].cv \in CVs
    BY <1>0, <1>1, OwnClean, OwnShape DEF NoneDetached, GoesOn
  <2>2. ASSUME NEW q \in Procs, proc'[q].at = "cleanup"
        PROVE  /\ row'[proc'[q].cv].status = "none"
               /\ \A r \in Procs : proc'[r].cv = proc'[q].cv => r = q
    <3>1. /\ proc'[q].cv = proc[q].cv /\ proc[q].cv \in CVs /\ row[proc[q].cv].status = "none"
          /\ \A r \in Procs : proc[r].cv = proc[q].cv => r = q
      <4>1. CASE q = p
        BY <2>1, <2>2, <1>0, <4>1, IdleFields DEF CleanStep, GoesOn, Creating
      <4>2. CASE q # p
        BY <1>a, <2>1, <2>2, <4>2 DEF Others, Undoing
      <4>. QED  BY <4>1, <4>2
    <3>2. row'[proc[q].cv].status = "none"
      <4>1. CASE q = p
        BY <2>1, <2>2, <3>1, <4>1 DEF CleanStep
      <4>2. CASE q # p
        BY <1>0, <1>1, <3>1, <4>2, OwnRow DEF Written, Insertion, Present
      <4>. QED  BY <4>1, <4>2
    <3>3. \A r \in Procs : proc'[r].cv = proc[r].cv \/ proc'[r].cv = NoCV
      BY <2>1, IdleFields DEF GoesOn, Others
    <3>. QED  BY <3>1, <3>2, <3>3, NoCVAssumption
  <2>3. ASSUME NEW q \in Procs, proc'[q].at = "unlink"
        PROVE  proc'[q].op = "delete" /\ row'[proc'[q].cv].status = "gone"
    BY <1>a, <1>b, <2>1, <2>3 DEF CleanStep, Others, Undoing
  <2>. QED  BY <2>2, <2>3 DEF Undoing
<1>2. ASSUME NEW p \in Procs, NEW c \in CVs, StartStep(p, c) PROVE Undoing'
  <2>1. /\ Others(p) /\ proc'[p].cv = c
        /\ proc'[p].at # "cleanup"
        /\ proc'[p].at = "unlink" => proc'[p].op = "delete" /\ row'[c].status = "gone"
        /\ c \notin used \/ row[c].status # "none"
    <3>1. Present(c) => row[c].status # "none"
      BY DEF Present
    <3>2. task[c].state = "pending" => row[c].status # "none"
      BY <1>0 DEF Born
    <3>. QED  BY <1>0, <1>2, <3>1, <3>2, StartShape, StartClean
  <2>2. ASSUME NEW q \in Procs, proc'[q].at = "cleanup"
        PROVE  /\ row'[proc'[q].cv].status = "none"
               /\ \A r \in Procs : proc'[r].cv = proc'[q].cv => r = q
    <3>1. /\ q # p /\ proc'[q] = proc[q] /\ proc[q].cv \in CVs /\ row[proc[q].cv].status = "none"
          /\ \A r \in Procs : proc[r].cv = proc[q].cv => r = q
      BY <1>a, <2>1, <2>2 DEF Others, Undoing
    <3>2. proc[q].cv \in used
      BY <1>0, <3>1, <2>2, EngagedCV DEF Engaged
    <3>3. row'[proc[q].cv].status = "none"
      BY <1>0, <1>2, <3>1, StartRow DEF Written, Present
    <3>. QED  BY <2>1, <3>1, <3>2, <3>3 DEF Others
  <2>3. ASSUME NEW q \in Procs, proc'[q].at = "unlink"
        PROVE  proc'[q].op = "delete" /\ row'[proc'[q].cv].status = "gone"
    BY <1>a, <1>b, <2>1, <2>3 DEF Others, Undoing
  <2>. QED  BY <2>2, <2>3 DEF Undoing
<1>3. CASE Quiet
  BY <1>3 DEF Quiet, Undoing
<1>. QED  BY <1>1, <1>2, <1>3, StepCases

LEMMA NoneDetachedStep ==
  ASSUME StandInv, [Next]_vars, faults' = 0, NoneDetached
  PROVE  NoneDetached'
<1>0. TypeOK /\ Engaged
  BY DEF StandInv
<1>1. ASSUME NEW p \in Procs, OwnStep(p) PROVE NoneDetached'
  BY <1>0, <1>1, OwnShape, OwnClean DEF NoneDetached, Others, CleanStep
<1>2. ASSUME NEW p \in Procs, NEW c \in CVs, StartStep(p, c) PROVE NoneDetached'
  BY <1>0, <1>2, StartShape, StartClean DEF NoneDetached, Others
<1>3. CASE Quiet
  BY <1>3 DEF Quiet, NoneDetached
<1>. QED  BY <1>1, <1>2, <1>3, StepCases

\* Without a fault a goroutine leaves the body of Process by writing how it
\* ended, and only the body writes "parsing".
ParseStep(p) ==
  LET c == proc[p].cv IN
  /\ \A d \in CVs : row'[d].status = "parsing" => \/ row[d].status = "parsing"
                                                  \/ d = c /\ proc[p].at = "mark"
  /\ proc[p].at \in Working => \/ proc'[p].at \in Working /\ proc'[p].cv = c
                               \/ row'[c].status # "parsing"

LEMMA OwnParse ==
  ASSUME TypeOK, Engaged, NEW p \in Procs, OwnStep(p), faults' = 0, proc[p].op # "detached"
  PROVE  ParseStep(p)
<1>0. proc \in [Procs -> Proc] /\ row \in [CVs -> Row] /\ proc[p].cv \in CVs /\ proc[p] \in Proc
  BY OwnShape DEF TypeOK, GoesOn
<1>1. ~ Fault
  BY FaultsCount
<1>2. ASSUME NEW pt, Goto(p, pt) PROVE proc'[p].at = pt /\ proc'[p].cv = proc[p].cv
  BY <1>0, <1>2 DEF Goto, Proc
<1>3. ASSUME NEW s \in {"parsing", "failed"}, SetStatus(proc[p].cv, s)
      PROVE  /\ \A d \in CVs : d # proc[p].cv => row'[d] = row[d]
             /\ row'[proc[p].cv].status \in {"none", "gone", s}
  <2>1. row[proc[p].cv] \in Row
    BY <1>0
  <2>2. [row[proc[p].cv] EXCEPT !.status = s].status = s
    BY <2>1 DEF Row
  <2>. QED  BY <1>0, <1>3, <2>2 DEF SetStatus, Update, Present
<1>4. CASE Mark(p)
  BY <1>0, <1>1, <1>2, <1>3, <1>4 DEF Mark, At, ParseStep, Working
<1>5. CASE MarkFailed(p)
  BY <1>0, <1>1, <1>2, <1>3, <1>5 DEF MarkFailed, At, ParseStep, Working
<1>6. CASE StoreProcessed(p)
  <2>1. /\ \A d \in CVs : d # proc[p].cv => row'[d] = row[d]
        /\ row'[proc[p].cv].status \in {"none", "gone", "ready"}
    BY <1>0, <1>1, <1>6 DEF StoreProcessed, Update, Processed, Present
  <2>. QED  BY <1>6, <2>1 DEF StoreProcessed, At, ParseStep, Working
<1>7. CASE Fetch(p) \/ Extract(p) \/ ParseCV(p)
  BY <1>2, <1>7 DEF Fetch, Extract, ParseCV, At, ParseStep, Working
<1>8. CASE CreateRow(p)
  <2>1. row' = Inserted(proc[p].cv) => /\ \A d \in CVs : d # proc[p].cv => row'[d] = row[d]
                                       /\ row'[proc[p].cv].status = "uploaded"
    BY <1>0 DEF Inserted, NoRow
  <2>. QED  BY <1>8, <2>1 DEF CreateRow, At, ParseStep, Working
<1>9. CASE PutObject(p) \/ Cleanup(p) \/ EnqueueProcess(p) \/ Unlink(p) \/ Load(p)
  BY <1>9 DEF PutObject, Cleanup, EnqueueProcess, Unlink, Load, At, ParseStep, Working
<1>10. CASE FinishTask(p) \/ FinishRequest(p) \/ Reread(p) \/ Serve(p)
  BY <1>10 DEF FinishTask, FinishRequest, Reread, Serve, At, ParseStep, Working
<1>11. ~ (ProcessExit(p) \/ Crash(p) \/ Handover(p))
  BY <1>1 DEF ProcessExit, Crash, Handover
<1>. QED  BY <1>4, <1>5, <1>6, <1>7, <1>8, <1>9, <1>10, <1>11 DEF OwnStep, ProcStep

LEMMA SomebodyParsesStep ==
  ASSUME StandInv, [Next]_vars, faults' = 0, NoneDetached, SomebodyParses
  PROVE  SomebodyParses'
<1>0. TypeOK /\ Engaged /\ Working \subseteq Points \ {"none"}
  BY DEF StandInv, Working, Points
<1>. SUFFICES ASSUME NEW c \in CVs, row'[c].status = "parsing"
              PROVE  \E q \in Procs : proc'[q].cv = c /\ proc'[q].at \in Working
  BY DEF SomebodyParses
<1>1. ASSUME NEW p \in Procs, OwnStep(p)
      PROVE  \E q \in Procs : proc'[q].cv = c /\ proc'[q].at \in Working
  <2>1. ParseStep(p) /\ Others(p)
    BY <1>0, <1>1, OwnParse, OwnShape DEF NoneDetached
  <2>2. PICK q \in Procs : proc[q].cv = c /\ proc[q].at \in Working
    BY <2>1 DEF ParseStep, SomebodyParses, Working
  <2>. QED  BY <2>1, <2>2 DEF ParseStep, Others
<1>2. ASSUME NEW p \in Procs, NEW d \in CVs, StartStep(p, d)
      PROVE  \E q \in Procs : proc'[q].cv = c /\ proc'[q].at \in Working
  <2>1. proc[p] = Idle /\ Others(p) /\ row[c].status = "parsing"
    BY <1>0, <1>2, StartShape, StartClean
  <2>2. PICK q \in Procs : proc[q].cv = c /\ proc[q].at \in Working
    BY <2>1 DEF SomebodyParses
  <2>. QED  BY <1>0, <2>1, <2>2, IdleFields DEF Others
<1>3. CASE Quiet
  BY <1>3 DEF Quiet, SomebodyParses
<1>. QED  BY <1>1, <1>2, <1>3, StepCases

LEMMA FaultsStep ==
  ASSUME StandInv, [Next]_vars, faults' = 0
  PROVE  faults = 0
<1>0. TypeOK /\ Engaged /\ faults \in Nat
  BY DEF StandInv, TypeOK
<1>1. ASSUME NEW p \in Procs, OwnStep(p) PROVE faults' = faults \/ Fault
  BY <1>1 DEF OwnStep, ProcStep, PutObject, CreateRow, Cleanup, DeleteObject, EnqueueProcess, Unlink,
     Load, Mark, Fetch, Extract, ParseCV, StoreProcessed, MarkFailed, FinishTask, FinishRequest,
     Reread, Serve, Crash, Handover, ProcessExit, NoFault
<1>2. ASSUME NEW p \in Procs, NEW c \in CVs, StartStep(p, c) PROVE faults' = faults
  BY <1>0, <1>2, StartClean
<1>. QED  BY <1>0, <1>1, <1>2, StepCases, FaultsCount DEF Quiet

\* While nothing failed in an unclean way the stores and the promises of the
\* rows are in order.
THEOREM CleanCorrect == Spec => []CleanInv
<1>1. Init => CleanInv
  BY IdleFields DEF Init, CleanInv, NoneDetached, ObjectsOwned, Undoing, SomebodyParses, Present, NoRow
<1>2. StandInv /\ CleanInv /\ [Next]_vars => CleanInv'
  <2>. SUFFICES ASSUME StandInv, CleanInv, [Next]_vars, faults' = 0
                PROVE  (NoneDetached /\ ObjectsOwned /\ Undoing /\ SomebodyParses)'
    BY DEF CleanInv
  <2>1. NoneDetached /\ ObjectsOwned /\ Undoing /\ SomebodyParses
    BY FaultsStep DEF CleanInv
  <2>. QED  BY <2>1, NoneDetachedStep, ObjectsOwnedStep, UndoingStep, SomebodyParsesStep
<1>. QED  BY <1>1, <1>2, StandCorrect, PTL DEF Spec

\* The row and the PDF of a CV are both there or both not there, whatever uploads,
\* deletions and runs of Process interleave, as long as none of them is busy
\* between the two stores and no call went wrong in an unclean way.
THEOREM StoresAgreeCorrect == Spec => []StoresAgree
<1>1. StandInv /\ CleanInv => StoresAgree
  <2>. SUFFICES ASSUME StandInv, CleanInv, faults = 0, NEW c \in CVs,
                       \A p \in Procs : proc[p].cv = c => proc[p].op \notin {"upload", "delete"}
                PROVE  c \in objects <=> Present(c)
    BY DEF StoresAgree
  <2>1. \A p \in Procs : proc[p].at \in {"create", "cleanup", "unlink"} => proc[p].op \in {"upload", "delete"}
    BY DEF StandInv, Engaged, UploadPoints, CleanInv, Undoing
  <2>. QED  BY <2>1 DEF CleanInv, ObjectsOwned
<1>. QED  BY <1>1, StandCorrect, CleanCorrect, PTL

\* A CV that says "parsing" is being parsed: whatever worker, analyze and chat
\* interleave on it, the last of them to leave Process has written how it ended.
THEOREM ParsingIsRunningCorrect == Spec => []ParsingIsRunning
<1>1. CleanInv => ParsingIsRunning
  BY DEF CleanInv, SomebodyParses, ParsingIsRunning
<1>. QED  BY <1>1, CleanCorrect, PTL
=============================================================================
