----------------------------- MODULE JobManager -----------------------------
(***************************************************************************)
(* job::Manager: start() makes a Worker whose constructor starts a thread  *)
(* and assigns it to thread_; the thread runs the job, detaches itself and *)
(* erases its own Worker from workers_.  Requests of admins look jobs up.  *)
(*                                                                         *)
(* A job stands for its id, which is given out once.  mutex_ is held by    *)
(* start() over several steps, by all others for one.  The manager lives   *)
(* as long as the process: run_io_workers does not return.                 *)
(***************************************************************************)
EXTENDS Integers

CONSTANTS Jobs,    \* jobs that may be started: bounds the run
          Nobody   \* no job

ASSUME NobodyAssumption == Nobody \notin Jobs

VARIABLES
  up,       \* the process is alive
  mutex,    \* the job whose start() holds mutex_, or Nobody
  start,    \* the call of start() for each job
  entry,    \* what workers_ has under the id: nothing, a null pointer, a Worker
  worker,   \* the Worker object
  thread,   \* the thread of the job
  canceled, \* SimpleJob::canceled_
  missed    \* jobs that a request with the id start() returned did not find

vars == <<up, mutex, start, entry, worker, thread, canceled, missed>>

TypeOK ==
  /\ up \in BOOLEAN
  /\ mutex \in Jobs \union {Nobody}
  /\ start \in [Jobs -> {"idle", "in", "failed", "returned"}]
  /\ entry \in [Jobs -> {"none", "null", "worker"}]
  /\ worker \in [Jobs -> {"none", "made", "complete", "gone"}]
  /\ thread \in [Jobs -> {"none", "running", "returned", "detached", "ended"}]
  /\ canceled \subseteq Jobs /\ missed \subseteq Jobs

Init ==
  /\ up = TRUE
  /\ mutex = Nobody
  /\ start = [j \in Jobs |-> "idle"]
  /\ entry = [j \in Jobs |-> "none"]
  /\ worker = [j \in Jobs |-> "none"]
  /\ thread = [j \in Jobs |-> "none"]
  /\ canceled = {} /\ missed = {}

Free == up /\ mutex = Nobody

(***************************************************************************)
(* start(), on the thread of a request.                                    *)
(***************************************************************************)
\* workers_[id] = make_unique<Worker>(...): C++14 leaves open which side is
\* evaluated first, so the entry may be there, null, before the Worker.
Start(j) ==
  /\ Free /\ start[j] = "idle"
  /\ mutex' = j
  /\ start' = [start EXCEPT ![j] = "in"]
  /\ \E e \in {"none", "null"} : entry' = [entry EXCEPT ![j] = e]
  /\ UNCHANGED <<up, worker, thread, canceled, missed>>

\* The constructor starts the thread, which may run at once ...
ThreadStarts(j) ==
  /\ up /\ mutex = j /\ thread[j] = "none"
  /\ thread' = [thread EXCEPT ![j] = "running"]
  /\ worker' = [worker EXCEPT ![j] = "made"]
  /\ UNCHANGED <<up, mutex, start, entry, canceled, missed>>

\* ... or there is no thread to be had: the exception leaves start(), and an entry
\* that was made first stays.
ThreadFails(j) ==
  /\ up /\ mutex = j /\ thread[j] = "none"
  /\ mutex' = Nobody
  /\ start' = [start EXCEPT ![j] = "failed"]
  /\ UNCHANGED <<up, entry, worker, thread, canceled, missed>>

\* The thread is assigned to thread_, the Worker to its entry; start() returns.
StartReturns(j) ==
  /\ up /\ mutex = j /\ worker[j] = "made"
  /\ worker' = [worker EXCEPT ![j] = "complete"]
  /\ entry' = [entry EXCEPT ![j] = "worker"]
  /\ start' = [start EXCEPT ![j] = "returned"]
  /\ mutex' = Nobody
  /\ UNCHANGED <<up, thread, canceled, missed>>

(***************************************************************************)
(* The thread of a job.                                                    *)
(***************************************************************************)
\* Faulty variant: a job that threw ends its thread without a word.
RunThrows(j) ==
  /\ up /\ thread[j] = "running"
  /\ \E s \in {"returned", "ended"} : thread' = [thread EXCEPT ![j] = s]
  /\ UNCHANGED <<up, mutex, start, entry, worker, canceled, missed>>

\* run() returns, or throws an exception that is logged, a cancel among them.
RunEnds(j) ==
  /\ up /\ thread[j] = "running"
  /\ thread' = [thread EXCEPT ![j] = "returned"]
  /\ UNCHANGED <<up, mutex, start, entry, worker, canceled, missed>>

\* thread_.detach().  If the constructor has not assigned thread_ yet, it throws,
\* which nothing catches on this thread: the process ends.
Detach(j) ==
  /\ up /\ thread[j] = "returned"
  /\ IF worker[j] = "complete"
       THEN thread' = [thread EXCEPT ![j] = "detached"] /\ UNCHANGED up
       ELSE up' = FALSE /\ UNCHANGED thread
  /\ UNCHANGED <<mutex, start, entry, worker, canceled, missed>>

\* Faulty variant: the thread erases its Worker before it has run the job.
FinishesEarly(j) ==
  /\ Free /\ thread[j] \in {"running", "detached"}
  /\ entry' = [entry EXCEPT ![j] = "none"]
  /\ UNCHANGED <<up, mutex, start, worker, thread, canceled, missed>>

\* Faulty variant: the Worker is erased without the mutex.
FinishesUnlocked(j) ==
  /\ up /\ thread[j] = "returned"
  /\ entry' = [entry EXCEPT ![j] = "none"]
  /\ worker' = [worker EXCEPT ![j] = "gone"]
  /\ thread' = [thread EXCEPT ![j] = "ended"]
  /\ canceled' = canceled \union {j}
  /\ UNCHANGED <<up, mutex, start, missed>>

\* worker_finished: the Worker is erased; its destructor, on its own thread, has
\* nothing to join.
WorkerFinished(j) ==
  /\ Free /\ thread[j] = "detached"
  /\ entry' = [entry EXCEPT ![j] = "none"]
  /\ worker' = [worker EXCEPT ![j] = "gone"]
  /\ thread' = [thread EXCEPT ![j] = "ended"]
  /\ canceled' = canceled \union {j}
  /\ UNCHANGED <<up, mutex, start, missed>>

(***************************************************************************)
(* Requests.  They use the Worker of each entry they look at; a request    *)
(* that finds it and only reads leaves everything as it was.               *)
(***************************************************************************)
\* /job/cancel
CancelJob(j) ==
  /\ Free /\ entry[j] = "worker"
  /\ canceled' = canceled \union {j}
  /\ UNCHANGED <<up, mutex, start, entry, worker, thread, missed>>

\* /job/info or /job/cancel does not find an id that start() returned.
MissJob(j) ==
  /\ Free /\ start[j] = "returned" /\ entry[j] = "none"
  /\ missed' = missed \union {j}
  /\ UNCHANGED <<up, mutex, start, entry, worker, thread, canceled>>

\* Faulty variant: the list is read without the mutex.
ListUnlocked ==
  /\ up /\ \E j \in Jobs : entry[j] = "null"
  /\ up' = FALSE
  /\ UNCHANGED <<mutex, start, entry, worker, thread, canceled, missed>>

\* /job/list, or a request with the id of a start() that failed, uses the null
\* pointer of an entry without a Worker.
UseNull ==
  /\ Free /\ \E j \in Jobs : entry[j] = "null"
  /\ up' = FALSE
  /\ UNCHANGED <<mutex, start, entry, worker, thread, canceled, missed>>

-----------------------------------------------------------------------------
InStart(j) == ThreadStarts(j) \/ ThreadFails(j) \/ StartReturns(j)
OnThread(j) == Detach(j) \/ WorkerFinished(j)

Next ==
  \/ \E j \in Jobs : Start(j) \/ InStart(j) \/ RunEnds(j) \/ OnThread(j)
                    \/ CancelJob(j) \/ MissJob(j)
  \/ UseNull

Spec == Init /\ [][Next]_vars

\* Threads run and get the mutex in the end.  A job may take any time, but one that
\* is canceled ends or comes to its next update_status, which throws.
FairSpec ==
  /\ Spec
  /\ \A j \in Jobs : /\ WF_vars(InStart(j)) /\ WF_vars(OnThread(j))
                     /\ WF_vars(j \in canceled /\ RunEnds(j))

-----------------------------------------------------------------------------
(***************************************************************************)
(* Properties.                                                             *)
(***************************************************************************)
\* Who was given an id finds the job under it until the job has run to its end:
\* not found means over, never "not yet".
MissedIsOver == \A j \in missed : thread[j] = "ended"

\* A Worker is freed once nobody works with it: its constructor is done, and so is
\* the thread whose this and thread_ it is.
FreedIsUnused ==
  \A j \in Jobs : worker[j] = "gone" =>
    start[j] = "returned" /\ thread[j] = "ended" /\ entry[j] # "worker"

\* Requests and jobs do not bring the process down, in whatever order they come,
\* unless a job was over before its Worker was complete, or no thread was to be had.
DiesOfKnownCauses ==
  up \/ \E j \in Jobs : \/ start[j] = "failed" /\ entry[j] = "null"
                        \/ thread[j] = "returned" /\ worker[j] = "made"

\* The Worker of each job that has run, or was canceled, goes away in the end, and
\* with it what the job holds.
OverIsFreed ==
  \A j \in Jobs :
    thread[j] = "returned" \/ j \in canceled ~> worker[j] = "gone" \/ ~up

\* The inductive invariant: how the call of start(), the entry, the Worker and the
\* thread of one job belong together.
JobInv(j) ==
  /\ start[j] = "in" <=> mutex = j
  /\ start[j] = "idle" => entry[j] = "none"
  /\ start[j] = "failed" \/ start[j] = "idle" => worker[j] = "none"
  /\ start[j] # "returned" => entry[j] # "worker" /\ worker[j] \in {"none", "made"}
  /\ start[j] = "returned" => worker[j] \in {"complete", "gone"}
  /\ worker[j] = "none" <=> thread[j] = "none"
  /\ worker[j] = "made" => thread[j] \in {"running", "returned"}
  /\ worker[j] = "complete" => thread[j] # "ended" /\ entry[j] = "worker"
  /\ worker[j] = "gone" => thread[j] = "ended" /\ entry[j] = "none"
  /\ j \in canceled => worker[j] \in {"complete", "gone"}
  /\ j \in missed => worker[j] = "gone"
ManagerInv == TypeOK /\ DiesOfKnownCauses /\ \A j \in Jobs : JobInv(j)
=============================================================================
