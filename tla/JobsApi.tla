------------------------------- MODULE JobsApi -------------------------------
(***************************************************************************)
(* Requests to the API: each passes the limiters and the authentication of *)
(* its route, then works on the job tracker -- directly on the routes of   *)
(* handlers/job.go, or through the tools of a chat message.  Requests of   *)
(* other routes count in the limiters only; their handlers are the subject *)
(* of other modules.                                                       *)
(***************************************************************************)
EXTENDS RateLimit, JobTracker

CONSTANTS Requests,  \* bound: requests served at the same time
          Calls      \* bound: who calls from where, and on which route

Routes == {"jobs", "send", "conversations", "search", "history"}

\* A caller's keys: what the limiters on its way count it under.
KeysOf(call) ==
  {<<scope, IdAt(scope, call)>> : scope \in {Gates(call.route)[i] : i \in DOMAIN Gates(call.route)} \cap Scopes}
ASSUME CallsAssumption ==
  \A call \in Calls :
    /\ call.route \in Routes /\ call.user \in Users \cup {NoId}
    /\ \A k \in KeysOf(call) : k[2] # NoId => k \in Keys

VARIABLE request  \* [Requests -> where it is]

vars == <<limitVars, trackerVars, request>>

---------------------------------------------------------------------------
\* gate: how many gates it has passed; hops: HTTP requests its fetch has made.
NoCall == [ip |-> NoId, user |-> NoId, route |-> "none"]
Idle == [at |-> "idle", call |-> NoCall, gate |-> 0, hops |-> 0]

Request == [at : {"idle", "gates", "serve", "fetch", "model"}, call : Calls \cup {NoCall},
            gate : 0 .. 4, hops : 0 .. MaxRedirects]

TypeOK == LimitTypeOK /\ TrackerTypeOK /\ request \in [Requests -> Request]

Init == LimitInit /\ TrackerInit /\ request = [r \in Requests |-> Idle]

At(r, point) == request[r].at = point
Moves(r, point) == request' = [request EXCEPT ![r].at = point]
Replies(r) == request' = [request EXCEPT ![r] = Idle]

---------------------------------------------------------------------------
Arrive(r) ==
  /\ At(r, "idle")
  /\ \E call \in Calls :
       request' = [request EXCEPT ![r] = [Idle EXCEPT !.at = "gates", !.call = call]]
  /\ UNCHANGED <<limitVars, trackerVars>>

Passed(r) ==
  LET gates == Gates(request[r].call.route) IN
  request' = [request EXCEPT ![r].gate = @ + 1,
                ![r].at = IF request[r].gate + 1 = Len(gates) THEN "serve" ELSE @]

\* The next gate: the limiter of a scope, or Auth, which answers 401 without a
\* user.
Gate(r) ==
  LET q == request[r]
      gate == Gates(q.call.route)[q.gate + 1]
      id == IdAt(gate, q.call)
  IN
  /\ At(r, "gates")
  /\ \/ /\ gate = "auth"
        /\ IF id = NoId THEN Replies(r) ELSE Passed(r)
        /\ UNCHANGED limitVars
     \/ gate \in Scopes /\ id = NoId /\ Passed(r) /\ UNCHANGED limitVars
     \/ /\ gate \in Scopes /\ id # NoId
        /\ \/ Admit(<<gate, id>>) /\ Passed(r)
           \/ Refuse(<<gate, id>>) /\ Replies(r)
           \/ FailOpen(<<gate, id>>) /\ Passed(r)
  /\ UNCHANGED trackerVars

---------------------------------------------------------------------------
WorksOnJobs(r) == request[r].call.route \in {"jobs", "send"}

\* An operation has ended, with a result or an error: a handler replies with
\* it, the loop of a chat turn gives it to the model and goes on.
OperationEnds(r) ==
  IF request[r].call.route = "jobs"
    THEN Replies(r)
    ELSE request' = [request EXCEPT ![r].at = "serve", ![r].hops = 0]

\* An operation that changes the tracker.
ChangeTracker(r) ==
  /\ At(r, "serve") /\ WorksOnJobs(r)
  /\ Change(request[r].call.user)
  /\ OperationEnds(r)
  /\ UNCHANGED limitVars

\* A handler's read, refusal (422), job that is not there or not the user's
\* (404), or error; the last answer of a chat turn, or the error that ends it.
Reply(r) ==
  /\ At(r, "serve")
  /\ Replies(r)
  /\ UNCHANGED <<limitVars, trackerVars>>

\* InterviewPrep reads an owned job; the tool works from a text instead.
PrepareInterview(r) ==
  /\ At(r, "serve") /\ WorksOnJobs(r)
  /\ request[r].call.route = "jobs" => \E j \in JobIds : Owned(j, request[r].call.user)
  /\ Moves(r, "model")
  /\ UNCHANGED <<limitVars, trackerVars>>

\* AnalyzeURL: the first request of the fetch.
AnalyzeURL(r) ==
  /\ At(r, "serve") /\ WorksOnJobs(r)
  /\ request' = [request EXCEPT ![r].at = "fetch", ![r].hops = 1]
  /\ UNCHANGED <<limitVars, trackerVars>>

\* CheckRedirect: via holds the requests made so far.
Redirect(r) ==
  /\ At(r, "fetch")
  /\ IF MayFollow(request[r].hops)
       THEN request' = [request EXCEPT ![r].hops = @ + 1]
       ELSE OperationEnds(r)
  /\ UNCHANGED <<limitVars, trackerVars>>

\* A body that is fit to be analysed, or none: a refused address, a status
\* other than 2xx, too many bytes, too little text.
Fetched(r) ==
  /\ At(r, "fetch")
  /\ \/ request' = [request EXCEPT ![r].at = "model", ![r].hops = 0]
     \/ OperationEnds(r)
  /\ UNCHANGED <<limitVars, trackerVars>>

ModelAnswers(r) ==
  /\ At(r, "model")
  /\ OperationEnds(r)
  /\ UNCHANGED <<limitVars, trackerVars>>

---------------------------------------------------------------------------
TimePasses == Tick /\ UNCHANGED <<trackerVars, request>>

RequestStep(r) ==
  \/ Arrive(r) \/ Gate(r)
  \/ ChangeTracker(r) \/ PrepareInterview(r) \/ AnalyzeURL(r) \/ Reply(r)
  \/ Redirect(r) \/ Fetched(r) \/ ModelAnswers(r)

Next == TimePasses \/ \E r \in Requests : RequestStep(r)

\* Time passes, whatever the callers do.
Spec == Init /\ [][Next]_vars /\ WF_vars(TimePasses)
=============================================================================
