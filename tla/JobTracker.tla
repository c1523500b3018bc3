----------------------------- MODULE JobTracker -----------------------------
(***************************************************************************)
(* The tracker of saved jobs: job.Service and its repository, as used by   *)
(* the HTTP handlers and by the tools of a chat turn, and the fetching of  *)
(* a job posting by its URL.                                               *)
(*                                                                         *)
(* Each change of a row is one SQL statement.  The text of a job is left   *)
(* out; of its times, applied_at is kept as the number of the status       *)
(* change that set it, and the history of those changes beside it.         *)
(***************************************************************************)
EXTENDS Naturals, Sequences

CONSTANTS Users,
          JobIds,        \* bound: rows ever saved
          MaxUpdates,    \* bound: status changes of one row
          Words,         \* bound: the words requests use as a status
          MaxRedirects   \* requests of one fetch (5 in the code)

ASSUME TrackerBoundsAssumption == MaxUpdates \in Nat /\ MaxRedirects \in Nat \ {0}

VARIABLES jobs,     \* saved_jobs, a function from the ids in it
          used,     \* ids given out so far
          history   \* [JobIds -> the status changes of the row, and by whom]

trackerVars == <<jobs, used, history>>

---------------------------------------------------------------------------
Statuses == {"saved", "applied", "interview", "offer", "rejected"}
ValidStatus(word) == word \in Statuses

\* A status is stored as the client gave it when the job is saved.
Row == [owner : Users, status : Words \cup {"saved"}, applied : 0 .. MaxUpdates]

TrackerTypeOK ==
  /\ used \subseteq JobIds
  /\ DOMAIN jobs \subseteq used
  /\ \A j \in DOMAIN jobs : jobs[j] \in Row
  /\ history \in [JobIds -> Seq([user : Users, status : Statuses])]

NewRow(user, word) ==
  [owner |-> user, status |-> IF word = "" THEN "saved" ELSE word, applied |-> 0]

\* The table may hold rows already, of any user.
TrackerInit ==
  /\ \E old \in SUBSET JobIds : \E owners \in [old -> Users] :
       jobs = [j \in old |-> NewRow(owners[j], "")]
  /\ used = DOMAIN jobs
  /\ history = [j \in JobIds |-> <<>>]

\* WHERE id = $1 AND user_id = $2
Owned(j, user) == j \in DOMAIN jobs /\ jobs[j].owner = user

---------------------------------------------------------------------------
\* Save: the owner is the caller whatever the body says, an empty status is
\* "saved", and applied_at stays NULL.
Save(user, word) ==
  \E j \in JobIds \ used :
    /\ jobs' = [k \in DOMAIN jobs \cup {j} |-> IF k = j THEN NewRow(user, word) ELSE jobs[k]]
    /\ used' = used \cup {j}
    /\ UNCHANGED history

\* UpdateStatus: the first move to "applied" stamps applied_at.
MutRestamp(row, status, n) ==
  [row EXCEPT !.status = status, !.applied = IF status = "applied" THEN n ELSE @]
Updated(row, status, n) ==
  [row EXCEPT !.status = status,
              !.applied = IF status = "applied" /\ @ = 0 THEN n ELSE @]

UpdateStatus(j, user, status) ==
  /\ ValidStatus(status) /\ Owned(j, user) /\ Len(history[j]) < MaxUpdates
  /\ jobs' = [jobs EXCEPT ![j] = Updated(@, status, Len(history[j]) + 1)]
  /\ history' = [history EXCEPT ![j] = Append(@, [user |-> user, status |-> status])]
  /\ UNCHANGED used

Delete(j, user) ==
  /\ Owned(j, user)
  /\ jobs' = [k \in DOMAIN jobs \ {j} |-> jobs[k]]
  /\ history' = [history EXCEPT ![j] = <<>>]
  /\ UNCHANGED used

\* One operation that changes the tracker, for a user.
Change(user) ==
  \/ \E word \in Words \cup {""} : Save(user, word)
  \/ \E j \in used, word \in Words : UpdateStatus(j, user, word)
  \/ \E j \in used : Delete(j, user)

---------------------------------------------------------------------------
\* Fetching a URL, after some requests: the server answers, or redirects, or
\* the fetch fails (a refused address or scheme, an error, too large a body).
MutFollowOneMore(requests) == requests <= MaxRedirects
MayFollow(requests) == requests < MaxRedirects

---------------------------------------------------------------------------
\* applied_at tells when the user first moved the job to "applied": "stamps
\* applied_at if not already set" (repository.go:78-79), and nobody else's
\* request ever changes a row.  A job saved as "applied" has no stamp.
FirstApplied(h) ==
  LET moves == {i \in 1 .. Len(h) : h[i].status = "applied"} IN
  IF moves = {} THEN 0 ELSE CHOOSE i \in moves : \A k \in moves : i <= k
StampIsFirst ==
  \A j \in DOMAIN jobs :
    /\ jobs[j].applied = FirstApplied(history[j])
    /\ \A i \in 1 .. Len(history[j]) : history[j][i].user = jobs[j].owner
=============================================================================
