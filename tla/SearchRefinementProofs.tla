----------------------- MODULE SearchRefinementProofs -----------------------
(***************************************************************************)
(* SearchPipeline implements SearchPromise, for every set of jobs, workers *)
(* and connections: the initial states correspond, and every step of the   *)
(* pipeline stores one result, attaches one client, tells one client one   *)
(* thing, or changes nothing the promise speaks about.                     *)
(***************************************************************************)
EXTENDS SearchPipelineProofs

\* The refinement mapping, spelled out.
storedBar == {j \in Jobs : row[j].result # 0}
aboutBar == [s \in Streams |-> stream[s].job]
toldBar == [s \in Streams |-> LastKind(stream[s].frames)]

\* A step touches at most one row.
LEMMA OneRow ==
  ASSUME TypeOK, [Next]_vars
  PROVE  row' = row \/ \E i \in Jobs : \A j \in Jobs : j # i => row'[j] = row[j]
<1>0. \A i, v : row' = [row EXCEPT ![i] = v] => \A j \in Jobs : j # i => row'[j] = row[j]
  BY DEF TypeOK
<1>1. ASSUME NEW i \in Jobs, NEW w \in Workers, CreateRow(i) \/ ChatRun(w, i)
      PROVE  \A j \in Jobs : j # i => row'[j] = row[j]
  BY <1>0, <1>1 DEF CreateRow, ChatRun
<1>2. ASSUME NEW i \in Jobs, CreateRow(i)
      PROVE  \A j \in Jobs : j # i => row'[j] = row[j]
  BY <1>0, <1>2 DEF CreateRow
<1>3. ASSUME NEW w \in Workers, PipelineStep(w), row' # row
      PROVE  \A j \in Jobs : j # exec[w].job => row'[j] = row[j]
  <2>1. \E v : row' = [row EXCEPT ![exec[w].job] = v]
    BY <1>3 DEF PipelineStep, WriteStatus, EmitStatus, Call, ExtractParams, FetchJobs, FilterJobs, CallFails, SaveParams, StoreResult,
                StoreFails, EmitCompleted, WriteFailed, EmitFailed, Return
  <2>. QED  BY <1>0, <2>1
<1>4. ASSUME \/ \E i \in Jobs : Enqueue(i) \/ EnqueueFails(i) \/ ApiCrash(i) \/ ForwardRetry(i) \/ Recover(i)
             \/ \E w \in Workers, i \in Jobs : Dequeue(w, i)
             \/ \E w \in Workers : Deadline(w) \/ Crash(w) \/ ProcessExit(w) \/ Handover(w)
             \/ \E s \in Streams : (\E i \in Jobs : Open(s, i)) \/ Subscribe(s) \/ Relay(s) \/ CloseStream(s) \/ Reconnect(s)
             \/ UNCHANGED vars
      PROVE  row' = row
  BY <1>4 DEF Enqueue, EnqueueFails, ApiCrash, ForwardRetry, Recover, Dequeue, Deadline, Crash,
              ProcessExit, Handover, Open, Subscribe, Relay, CloseStream, Reconnect, vars
<1>5. ASSUME NEW w \in Workers, PipelineStep(w), row' # row
      PROVE  exec[w].job \in Jobs \/ \A j \in Jobs : row'[j] = row[j]
  BY <1>3, <1>5
<1>6. ASSUME \A j \in Jobs : row'[j] = row[j]
      PROVE  row' = row
  <2>1. row \in [Jobs -> Row] /\ row' \in [Jobs -> Row]
    BY TypeStep DEF TypeOK
  <2>. QED  BY <1>6, <2>1
<1>. QED  BY <1>1, <1>2, <1>3, <1>4, <1>5, <1>6 DEF Next

\* Stored results accumulate one job at a time.
LEMMA StoredBarStep ==
  ASSUME TypeOK, LeaseInv, StoreInv, [Next]_vars
  PROVE  storedBar' = storedBar \/ \E i \in Jobs : storedBar' = storedBar \cup {i}
<1>1. \A j \in Jobs : row[j].result # 0 => row'[j].result # 0
  <2>. SUFFICES ASSUME NEW j \in Jobs, row[j].result # 0
                PROVE  row'[j].result # 0
    OBVIOUS
  <2>1. row[j].result \in Nat
    BY DEF TypeOK, Row
  <2>2. Stored(j, 0)
    BY <2>1 DEF Stored
  <2>3. Stored(j, 0)'
    BY <2>2, StoredStable DEF StoreInv
  <2>. QED  BY <2>3 DEF Stored
<1>2. storedBar \subseteq storedBar'
  BY <1>1 DEF storedBar
<1>3. CASE row' = row
  BY <1>3 DEF storedBar
<1>4. ASSUME NEW i \in Jobs, \A j \in Jobs : j # i => row'[j] = row[j]
      PROVE  storedBar' \subseteq storedBar \cup {i}
  BY <1>4 DEF storedBar
<1>. QED  BY <1>2, <1>3, <1>4, OneRow

\* Steps that neither open a connection, nor relay a message, nor let a client
\* go show no client anything new.
LEMMA QuietStep ==
  ASSUME TypeOK, Heard, [Next]_vars,
         ~ \E s \in Streams : Relay(s) \/ Reconnect(s) \/ \E j \in Jobs : Open(s, j)
  PROVE  aboutBar' = aboutBar /\ toldBar' = toldBar
<1>. SUFFICES ASSUME NEW s \in Streams
              PROVE  stream'[s].job = stream[s].job /\ stream'[s].frames = stream[s].frames
  BY DEF aboutBar, toldBar
<1>0. stream[s] \in Stream
  BY DEF TypeOK
<1>1. ASSUME NEW w \in Workers, PipelineStep(w)
      PROVE  stream'[s].job = stream[s].job /\ stream'[s].frames = stream[s].frames
  BY <1>0, <1>1, PipelineHears DEF HearsFrom, Hears, Stream
<1>2. ASSUME NEW t \in Streams, Subscribe(t) \/ CloseStream(t)
      PROVE  stream'[s].job = stream[s].job /\ stream'[s].frames = stream[s].frames
  <2>1. PICK a : stream' = [stream EXCEPT ![t] = [stream[t] EXCEPT !.at = a]]
    BY <1>2 DEF Subscribe, CloseStream
  <2>2. stream'[s] = IF s = t THEN [stream[s] EXCEPT !.at = a] ELSE stream[s]
    BY <2>1 DEF TypeOK
  <2>. QED  BY <1>0, <2>2 DEF Stream
<1>3. ASSUME \/ \E j \in Jobs : \/ CreateRow(j) \/ Enqueue(j) \/ EnqueueFails(j) \/ ApiCrash(j)
                                \/ ForwardRetry(j) \/ Recover(j)
             \/ \E w \in Workers, j \in Jobs : Dequeue(w, j) \/ ChatRun(w, j)
             \/ \E w \in Workers : Deadline(w) \/ Crash(w) \/ Handover(w) \/ ProcessExit(w)
             \/ UNCHANGED vars
      PROVE  stream' = stream
  BY <1>3 DEF CreateRow, Enqueue, EnqueueFails, ApiCrash, ForwardRetry, Recover, Dequeue, ChatRun,
              Deadline, Crash, Handover, ProcessExit, vars
<1>. QED  BY <1>1, <1>2, <1>3 DEF Next

\* Opening a connection attaches a client or tells it a verdict at once.
LEMMA OpenStep ==
  ASSUME TypeOK, StoreInv, NEW s \in Streams, NEW j \in Jobs, Open(s, j)
  PROVE  Promise!Attach(s, j) \/ \E what \in {"completed", "failed"} : Promise!Tell(s, j, what)
<1>1. /\ stream[s] = NoStream /\ row' = row
      /\ stream' = [stream EXCEPT ![s] = Opened(j)]
  BY DEF Open, StoreInv, Heard
<1>2. storedBar' = storedBar
  BY <1>1 DEF storedBar
<1>3. \A t \in Streams : stream'[t] = IF t = s THEN Opened(j) ELSE stream[t]
  BY <1>1 DEF TypeOK
<1>4. aboutBar[s] = NoJob /\ toldBar[s] = "nothing"
  BY <1>1 DEF aboutBar, toldBar, NoStream, LastKind
<1>5. Opened(j).job = j
  BY DEF Opened, NoStream
<1>6. aboutBar' = [aboutBar EXCEPT ![s] = j]
  BY <1>3, <1>5 DEF aboutBar
<1>7. CASE row[j].status \in Terminal
  <2>0. Opened(j).frames = Snapshot(row[j])
    BY <1>7 DEF Opened, NoStream
  <2>1. LastKind(Opened(j).frames) = row[j].status
    BY <1>7, <2>0, SnapshotBacked DEF StoreInv
  <2>2. PICK verdict \in {"completed", "failed"} : verdict = row[j].status
    BY <1>7 DEF Terminal
  <2>3. toldBar' = [toldBar EXCEPT ![s] = verdict]
    BY <1>3, <2>1, <2>2 DEF toldBar
  <2>4. verdict = "completed" => j \in storedBar
    BY <2>2 DEF StoreInv, RowOutcome, storedBar
  <2>5. Promise!Tell(s, j, verdict)
    BY <1>2, <1>4, <1>6, <2>3, <2>4 DEF Promise!Tell, Promise!Verdicts, storedBar, aboutBar, toldBar
  <2>. QED  BY <2>5
<1>8. CASE row[j].status \notin Terminal
  <2>1. LastKind(Opened(j).frames) = "nothing"
    BY <1>8 DEF Opened, NoStream, LastKind
  <2>2. toldBar' = toldBar
    BY <1>3, <1>4, <2>1 DEF toldBar
  <2>. QED  BY <1>2, <1>4, <1>6, <2>2 DEF Promise!Attach, storedBar, aboutBar, toldBar
<1>. QED  BY <1>7, <1>8

\* Relaying a message tells one client one thing.
LEMMA RelayStep ==
  ASSUME TypeOK, StoreInv, NEW s \in Streams, Relay(s)
  PROVE  \E j \in Jobs, what \in {"progress", "completed", "failed"} : Promise!Tell(s, j, what)
<1>. DEFINE j == stream[s].job
<1>1. /\ stream[s].at = "open" /\ stream[s].inbox # <<>> /\ row' = row
      /\ stream' = [stream EXCEPT ![s] = Relayed(stream[s])]
  BY DEF Relay
<1>2. /\ stream[s] \in Stream /\ stream[s].frames \in Seq(Event) /\ stream[s].inbox \in Seq(Event)
  BY DEF TypeOK, Stream
<1>3. PICK e : e = Head(stream[s].inbox)
  OBVIOUS
<1>4. e \in Event /\ Relayed(stream[s]).frames = Append(stream[s].frames, e) /\ Relayed(stream[s]).job = j
  BY <1>1, <1>2, <1>3, RelayedType DEF Relayed, Stream
<1>5. PICK what : what = IF e.kind \in Terminal THEN e.kind ELSE "progress"
  OBVIOUS
<1>6. what \in {"progress", "completed", "failed"} /\ (what = "completed" => e.kind = "completed")
  BY <1>5 DEF Terminal
<1>7. \A t \in Streams : stream'[t] = IF t = s THEN Relayed(stream[s]) ELSE stream[t]
  BY <1>1 DEF TypeOK
<1>8. toldBar' = [toldBar EXCEPT ![s] = what]
  <2>1. LastKind(Relayed(stream[s]).frames) = what
    BY <1>2, <1>4, <1>5, LastKindAppend
  <2>. QED  BY <1>7, <2>1 DEF toldBar
<1>9. aboutBar' = [aboutBar EXCEPT ![s] = j] /\ aboutBar[s] = j
  BY <1>4, <1>7 DEF aboutBar
<1>10. j \in Jobs /\ toldBar[s] \notin Terminal
  BY <1>1 DEF StoreInv, Heard, toldBar
<1>11. what = "completed" => j \in storedBar
  <2>1. Backed(StoredRuns(row[j], handed[j]), stream[s].inbox)
    BY DEF StoreInv, Heard
  <2>2. e.kind = "completed" => e.run \in StoredRuns(row[j], handed[j])
    BY <1>1, <1>2, <1>3, <2>1, BackedTail
  <2>. QED  BY <1>6, <1>10, <2>2 DEF StoredRuns, storedBar
<1>12. storedBar' = storedBar
  BY <1>1 DEF storedBar
<1>13. Promise!Tell(s, j, what)
  BY <1>8, <1>9, <1>10, <1>11, <1>12
     DEF Promise!Tell, Promise!Verdicts, Terminal, storedBar, aboutBar, toldBar
<1>. QED  BY <1>6, <1>10, <1>13

\* A client that reconnects leaves, and is a new client.
LEMMA ReconnectStep ==
  ASSUME TypeOK, NEW s \in Streams, Reconnect(s)
  PROVE  Promise!Leave(s)
<1>1. \A t \in Streams : stream'[t] = IF t = s THEN NoStream ELSE stream[t]
  BY DEF Reconnect, TypeOK
<1>2. NoStream.job = NoJob /\ LastKind(NoStream.frames) = "nothing"
  BY DEF NoStream, LastKind
<1>3. aboutBar' = [aboutBar EXCEPT ![s] = NoJob]
  BY <1>1, <1>2 DEF aboutBar
<1>4. toldBar' = [toldBar EXCEPT ![s] = "nothing"]
  BY <1>1, <1>2 DEF toldBar
<1>5. storedBar' = storedBar /\ toldBar[s] \notin Terminal
  BY DEF Reconnect, storedBar, toldBar
<1>. QED  BY <1>3, <1>4, <1>5 DEF Promise!Leave, Promise!Verdicts, Terminal, storedBar, aboutBar, toldBar

LEMMA PromiseStep ==
  TypeOK /\ LeaseInv /\ StoreInv /\ [Next]_vars => [Promise!PromiseNext]_(Promise!pvars)
<1>. SUFFICES ASSUME TypeOK, LeaseInv, StoreInv, [Next]_vars
              PROVE  Promise!PromiseNext \/ UNCHANGED <<storedBar, aboutBar, toldBar>>
  BY DEF Promise!pvars, storedBar, aboutBar, toldBar
<1>1. ASSUME NEW s \in Streams, NEW j \in Jobs, Open(s, j)
      PROVE  Promise!PromiseNext
  BY <1>1, OpenStep DEF Promise!PromiseNext, Promise!Told, Promise!Verdicts
<1>2. ASSUME NEW s \in Streams, Relay(s)
      PROVE  Promise!PromiseNext
  BY <1>2, RelayStep DEF Promise!PromiseNext, Promise!Told, Promise!Verdicts
<1>3. ASSUME NEW s \in Streams, Reconnect(s)
      PROVE  Promise!PromiseNext
  BY <1>3, ReconnectStep DEF Promise!PromiseNext
<1>4. CASE ~ \E s \in Streams : Relay(s) \/ Reconnect(s) \/ \E j \in Jobs : Open(s, j)
  <2>1. aboutBar' = aboutBar /\ toldBar' = toldBar
    BY <1>4, QuietStep DEF StoreInv
  <2>2. ASSUME NEW i \in Jobs, storedBar' = storedBar \cup {i}
        PROVE  Promise!PromiseNext
    BY <2>1, <2>2 DEF Promise!PromiseNext, Promise!Store, storedBar, aboutBar, toldBar
  <2>. QED  BY <2>1, <2>2, StoredBarStep
<1>. QED  BY <1>1, <1>2, <1>3, <1>4

\* The pipeline, with all its retries, crashes, lost messages and shutdown
\* handovers, keeps the promise made to the clients that follow a job.
THEOREM PromiseKept == Spec => KeepsPromise
<1>1. Init => Promise!PromiseInit
  BY DEF Init, Promise!PromiseInit, NoRow, NoStream, LastKind
<1>. QED  BY <1>1, PromiseStep, StoreCorrect, PTL DEF Spec, KeepsPromise, Promise!Spec
=============================================================================
