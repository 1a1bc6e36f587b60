-------------------------- MODULE FixedThreadPool --------------------------
(***************************************************************************)
(* flinter/thread/fixed_thread_pool.cpp with the loop of                   *)
(* flinter/thread/thread.cpp.  Everything the pool does under its mutex,   *)
(* from taking it to releasing it or to waiting for _job_available, is one *)
(* step.  Jobs are appended from any thread; Initialize() and Shutdown()   *)
(* are called by one thread only, as the header demands.                   *)
(***************************************************************************)
EXTENDS Naturals, Sequences, FiniteSets

CONSTANTS
  Threads,   \* threads that can be created; a pool uses all of them
  Jobs,      \* jobs that can be appended
  NoJob      \* a thread that runs nothing

ASSUME FixedAssumption == NoJob \notin Jobs /\ IsFiniteSet(Threads)

VARIABLES
  threads, actives, initializing, pending,  \* _threads, _actives, _initializing, _pending_jobs
  state,     \* thread -> "none", "asking" (about to take the mutex in RequestJob()),
             \* "waiting" (for _job_available), "running", "exited"
  runs,      \* thread -> the job it runs
  cancelled, \* threads that Terminate() was called for
  joining,   \* the threads Shutdown() has still to join, {} outside of Shutdown()
  where      \* history: job -> "new", "queued", "running", "done", "purged", "killed"

vars == <<threads, actives, initializing, pending, state, runs, cancelled, joining, where>>

InState(s) == {t \in Threads : state[t] = s}
Rng(s) == {s[i] : i \in 1..Len(s)}

TypeOK ==
  /\ threads \subseteq Threads /\ actives \subseteq threads
  /\ initializing \in BOOLEAN
  /\ pending \in Seq(Jobs)
  /\ state \in [Threads -> {"none", "asking", "waiting", "running", "exited"}]
  /\ runs \in [Threads -> Jobs \cup {NoJob}]
  /\ cancelled \subseteq Threads /\ joining \subseteq Threads
  /\ where \in [Jobs -> {"new", "queued", "running", "done", "purged", "killed"}]

Init ==
  /\ threads = {} /\ actives = {} /\ initializing = FALSE /\ pending = <<>>
  /\ state = [t \in Threads |-> "none"]
  /\ runs = [t \in Threads |-> NoJob]
  /\ cancelled = {} /\ joining = {}
  /\ where = [j \in Jobs |-> "new"]

-----------------------------------------------------------------------------
Initialize ==
  /\ ~initializing /\ threads = {}
  /\ threads' = Threads
  /\ state' = [t \in Threads |-> "asking"]
  /\ UNCHANGED <<actives, initializing, pending, runs, cancelled, joining, where>>

\* Defect: the signal is forgotten.
WakeNone == state' = state

\* WakeOne(): one of the waiting threads, if there is one, will take the mutex.
WakeOne ==
  \/ \E t \in InState("waiting") : state' = [state EXCEPT ![t] = "asking"]
  \/ InState("waiting") = {} /\ UNCHANGED state

AppendJob(j) ==
  /\ where[j] = "new" /\ ~initializing
  /\ pending' = Append(pending, j)
  /\ where' = [where EXCEPT ![j] = "queued"]
  /\ WakeOne
  /\ UNCHANGED <<threads, actives, initializing, runs, cancelled, joining>>

(***************************************************************************)
(* RequestJob(), up to its return or to the wait.                          *)
(***************************************************************************)
RequestExit(t) ==
  /\ state[t] = "asking" /\ initializing
  /\ actives' = actives \ {t}
  /\ state' = [state EXCEPT ![t] = "exited"]
  /\ UNCHANGED <<threads, initializing, pending, runs, cancelled, joining, where>>

RequestWait(t) ==
  /\ state[t] = "asking" /\ ~initializing /\ pending = <<>>
  /\ actives' = actives \ {t}
  /\ state' = [state EXCEPT ![t] = "waiting"]
  /\ UNCHANGED <<threads, initializing, pending, runs, cancelled, joining, where>>

RequestRun(t) ==
  /\ state[t] = "asking" /\ ~initializing /\ pending # <<>>
  /\ actives' = actives \cup {t}
  /\ state' = [state EXCEPT ![t] = "running"]
  /\ runs' = [runs EXCEPT ![t] = Head(pending)]
  /\ where' = [where EXCEPT ![Head(pending)] = "running"]
  /\ pending' = Tail(pending)
  /\ UNCHANGED <<threads, initializing, cancelled, joining>>

\* pthread_cond_wait() may return without a signal.
SpuriousWakeup(t) ==
  /\ state[t] = "waiting"
  /\ state' = [state EXCEPT ![t] = "asking"]
  /\ UNCHANGED <<threads, actives, initializing, pending, runs, cancelled, joining, where>>

\* ThreadDaemon(): Run() returns, the thread asks for another job.
FinishJob(t) ==
  /\ state[t] = "running"
  /\ state' = [state EXCEPT ![t] = "asking"]
  /\ where' = [where EXCEPT ![runs[t]] = "done"]
  /\ runs' = [runs EXCEPT ![t] = NoJob]
  /\ UNCHANGED <<threads, actives, initializing, pending, cancelled, joining>>

\* pthread_cancel() takes effect, in the job or between two jobs.
Cancel(t) ==
  /\ t \in cancelled /\ state[t] \in {"running", "asking"}
  /\ state' = [state EXCEPT ![t] = "exited"]
  /\ where' = [j \in Jobs |-> IF j = runs[t] THEN "killed" ELSE where[j]]
  /\ runs' = [runs EXCEPT ![t] = NoJob]
  /\ UNCHANGED <<threads, actives, initializing, pending, cancelled, joining>>

(***************************************************************************)
(* Shutdown(): everything under the lock, then one Join() after another.   *)
(***************************************************************************)
WakeAll ==
  state' = [t \in Threads |-> IF state[t] = "waiting" THEN "asking" ELSE state[t]]

Purge ==
  /\ pending' = <<>>
  /\ where' = [j \in Jobs |-> IF where[j] = "queued" THEN "purged" ELSE where[j]]

Shutdown(wait_for_jobs_done) ==
  /\ ~initializing /\ threads # {}
  /\ Purge
  /\ cancelled' = IF wait_for_jobs_done THEN {} ELSE actives
  /\ actives' = {}
  /\ joining' = threads /\ threads' = {}
  /\ WakeAll
  /\ initializing' = TRUE
  /\ UNCHANGED runs

Join(t) ==
  /\ t \in joining /\ state[t] = "exited"
  /\ joining' = joining \ {t}
  /\ state' = [state EXCEPT ![t] = "none"]
  /\ cancelled' = cancelled \ {t}
  /\ UNCHANGED <<threads, actives, initializing, pending, runs, where>>

ShutdownReturn ==
  /\ initializing /\ joining = {}
  /\ initializing' = FALSE
  /\ UNCHANGED <<threads, actives, pending, state, runs, cancelled, joining, where>>

Next ==
  \/ Initialize \/ ShutdownReturn
  \/ \E wait_for_jobs_done \in BOOLEAN : Shutdown(wait_for_jobs_done)
  \/ \E j \in Jobs : AppendJob(j)
  \/ \E t \in Threads :
       \/ RequestExit(t) \/ RequestWait(t) \/ RequestRun(t) \/ SpuriousWakeup(t)
       \/ FinishJob(t) \/ Cancel(t) \/ Join(t)

Spec == Init /\ [][Next]_vars

(***************************************************************************)
(* Threads are scheduled and jobs end; Shutdown() goes on once its thread  *)
(* is called.  Nobody has to call Initialize(), AppendJob() or Shutdown(). *)
(***************************************************************************)
Fairness ==
  /\ WF_vars(ShutdownReturn)
  /\ \A t \in Threads :
       /\ WF_vars(RequestExit(t) \/ RequestWait(t) \/ RequestRun(t))
       /\ WF_vars(FinishJob(t)) /\ WF_vars(Join(t))

FairSpec == Spec /\ Fairness

-----------------------------------------------------------------------------
(***************************************************************************)
(* Properties.                                                             *)
(***************************************************************************)

\* No wakeup is lost: while threads wait, each pending job has a thread of its
\* own that is on its way to the list (WakeOne() in AppendJob() against the
\* test and the wait in RequestJob()).
WakeupsSuffice ==
  InState("waiting") # {} => Len(pending) <= Cardinality(InState("asking"))

\* A job is in one place: it is in the list once, or one thread runs it, or it
\* is over.
JobsInOnePlace ==
  /\ \A j \in Jobs : where[j] = "queued" <=> j \in Rng(pending)
  /\ \A i, k \in 1..Len(pending) : pending[i] = pending[k] => i = k
  /\ \A j \in Jobs : where[j] = "running" <=> \E t \in Threads : runs[t] = j
  /\ \A t, u \in Threads : runs[t] = runs[u] /\ runs[t] # NoJob => t = u

\* _actives, which Shutdown() cancels and KillAll() sends signals to, holds only
\* threads of the pool that are alive, and all that run a job.
ActivesAlive ==
  /\ \A t \in actives : state[t] \in {"running", "asking"}
  /\ ~initializing => InState("running") \subseteq actives

\* When Shutdown() has returned no thread of the pool is left, so that the pool
\* can be destroyed or initialized again.
ShutdownJoinsAll ==
  threads = {} /\ ~initializing => \A t \in Threads : state[t] = "none"

\* The four together.
FixedSound == WakeupsSuffice /\ JobsInOnePlace /\ ActivesAlive /\ ShutdownJoinsAll

\* Every job that is appended to a pool is run, purged or killed.
JobsEnd ==
  \A j \in Jobs : where[j] = "queued" /\ threads # {} ~> where[j] \in {"done", "purged", "killed"}

\* Shutdown() returns.
ShutdownReturns == initializing ~> ~initializing

=============================================================================
