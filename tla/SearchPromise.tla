--------------------------- MODULE SearchPromise ---------------------------
(***************************************************************************)
(* What the search subsystem promises to a client that follows a job over  *)
(* SSE, with queue, worker, database and Redis abstracted away: a client   *)
(* follows one job, hears any number of progress frames and then at most   *)
(* one verdict, and the verdict "completed" is only ever spoken about a    *)
(* job whose result is stored, where GET /search/results can read it back  *)
(* from then on.                                                           *)
(***************************************************************************)
CONSTANTS Jobs,      \* ids of search_jobs rows
          Streams,   \* SSE connections
          NoJob      \* "this connection follows no job"; not a job (see SearchPipeline)

VARIABLES stored,    \* the jobs whose result is stored
          about,     \* [Streams -> Jobs \cup {NoJob}]: the job a client follows
          told       \* [Streams -> Told]: the last thing a client was told

pvars == <<stored, about, told>>

Verdicts == {"completed", "failed"}
Told == {"nothing", "progress"} \cup Verdicts

PromiseInit ==
  /\ stored = {}
  /\ about = [s \in Streams |-> NoJob]
  /\ told = [s \in Streams |-> "nothing"]

Store(j) ==
  /\ stored' = stored \cup {j}
  /\ UNCHANGED <<about, told>>

Attach(s, j) ==
  /\ about[s] = NoJob
  /\ about' = [about EXCEPT ![s] = j]
  /\ UNCHANGED <<stored, told>>

\* A client that has a verdict is told nothing more, and a client that asks
\* about a job already decided gets its verdict at once.
Tell(s, j, what) ==
  /\ about[s] \in {NoJob, j}
  /\ told[s] \notin Verdicts
  /\ what = "completed" => j \in stored
  /\ about' = [about EXCEPT ![s] = j]
  /\ told' = [told EXCEPT ![s] = what]
  /\ UNCHANGED stored

\* A client without a verdict goes away; what it heard is nobody's business.
Leave(s) ==
  /\ told[s] \notin Verdicts
  /\ about' = [about EXCEPT ![s] = NoJob]
  /\ told' = [told EXCEPT ![s] = "nothing"]
  /\ UNCHANGED stored

PromiseNext ==
  \/ \E j \in Jobs : Store(j)
  \/ \E s \in Streams, j \in Jobs :
       \/ Attach(s, j)
       \/ \E what \in Told \ {"nothing"} : Tell(s, j, what)
  \/ \E s \in Streams : Leave(s)

Spec == PromiseInit /\ [][PromiseNext]_pvars
=============================================================================
