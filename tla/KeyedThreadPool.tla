-------------------------- MODULE KeyedThreadPool --------------------------
(***************************************************************************)
(* flinter/thread/keyed_thread_pool.cpp with the loop of                   *)
(* flinter/thread/thread.cpp.  Every thread has a Context of its own: a    *)
(* list of jobs and a condition that only this thread waits for.  A job    *)
(* goes to the thread its key selects.  One step is what the pool does     *)
(* from taking the mutex to releasing it or to waiting.                    *)
(***************************************************************************)
EXTENDS Naturals, Sequences

CONSTANTS
  Size,      \* the argument of Initialize()
  Jobs,      \* jobs that can be appended
  Key,       \* job -> the key it is appended with
  NoJob      \* a thread that runs nothing

Contexts == 0..(Size - 1)

VARIABLES
  alive,     \* _threads is not empty
  actives, initializing,  \* _actives, _initializing
  pending,   \* thread -> its _pending_jobs
  state,     \* thread -> "none", "asking" (about to take the mutex in RequestJob()),
             \* "waiting" (for its _job_available), "running", "exited"
  runs,      \* thread -> the job it runs
  cancelled, \* threads that Terminate() was called for
  joining,   \* the threads Shutdown() has still to join, {} outside of Shutdown()
  where,     \* history: job -> "new", "queued", "running", "done", "purged", "killed"
  order      \* history: the jobs in the order of AppendJobWithKey()

keyedVars == <<alive, actives, initializing, pending, state, runs, cancelled, joining, where, order>>

Over == {"done", "purged", "killed"}

KeyedOK ==
  /\ alive \in BOOLEAN /\ initializing \in BOOLEAN
  /\ actives \subseteq Contexts /\ (~alive => actives = {})
  /\ pending \in [Contexts -> Seq(Jobs)]
  /\ state \in [Contexts -> {"none", "asking", "waiting", "running", "exited"}]
  /\ runs \in [Contexts -> Jobs \cup {NoJob}]
  /\ cancelled \subseteq Contexts /\ joining \subseteq Contexts
  /\ where \in [Jobs -> Over \cup {"new", "queued", "running"}]
  /\ order \in Seq(Jobs)

KeyedInit ==
  /\ alive = FALSE /\ actives = {} /\ initializing = FALSE
  /\ pending = [t \in Contexts |-> <<>>]
  /\ state = [t \in Contexts |-> "none"]
  /\ runs = [t \in Contexts |-> NoJob]
  /\ cancelled = {} /\ joining = {}
  /\ where = [j \in Jobs |-> "new"]
  /\ order = <<>>

-----------------------------------------------------------------------------
Initialize ==
  /\ ~initializing /\ ~alive
  /\ alive' = TRUE
  /\ state' = [t \in Contexts |-> "asking"]
  /\ UNCHANGED <<actives, initializing, pending, runs, cancelled, joining, where, order>>

\* The thread that a key selects.
Index(key) == key % Size

\* WakeOne(): only thread t waits for its condition.
WakeOne(t) ==
  state' = [state EXCEPT ![t] = IF @ = "waiting" THEN "asking" ELSE @]

\* Defect: the thread with the shortest list gets the job.
AppendBalanced(j) ==
  \E t \in Contexts :
    /\ \A u \in Contexts : Len(pending[t]) <= Len(pending[u])
    /\ where[j] = "new" /\ ~initializing /\ alive
    /\ pending' = [pending EXCEPT ![t] = Append(@, j)]
    /\ WakeOne(t)
    /\ where' = [where EXCEPT ![j] = "queued"]
    /\ order' = Append(order, j)
    /\ UNCHANGED <<alive, actives, initializing, runs, cancelled, joining>>

\* Appending to a pool without threads divides by zero: callers do not.
AppendJobWithKey(j) ==
  /\ where[j] = "new" /\ ~initializing /\ alive
  /\ pending' = [pending EXCEPT ![Index(Key[j])] = Append(@, j)]
  /\ WakeOne(Index(Key[j]))
  /\ where' = [where EXCEPT ![j] = "queued"]
  /\ order' = Append(order, j)
  /\ UNCHANGED <<alive, actives, initializing, runs, cancelled, joining>>

(***************************************************************************)
(* RequestJob(), up to its return or to the wait.                          *)
(***************************************************************************)
RequestExit(t) ==
  /\ state[t] = "asking" /\ initializing
  /\ actives' = actives \ {t}
  /\ state' = [state EXCEPT ![t] = "exited"]
  /\ UNCHANGED <<alive, initializing, pending, runs, cancelled, joining, where, order>>

RequestWait(t) ==
  /\ state[t] = "asking" /\ ~initializing /\ pending[t] = <<>>
  /\ actives' = actives \ {t}
  /\ state' = [state EXCEPT ![t] = "waiting"]
  /\ UNCHANGED <<alive, initializing, pending, runs, cancelled, joining, where, order>>

RequestRun(t) ==
  /\ state[t] = "asking" /\ ~initializing /\ pending[t] # <<>>
  /\ actives' = actives \cup {t}
  /\ state' = [state EXCEPT ![t] = "running"]
  /\ runs' = [runs EXCEPT ![t] = Head(pending[t])]
  /\ where' = [where EXCEPT ![Head(pending[t])] = "running"]
  /\ pending' = [pending EXCEPT ![t] = Tail(@)]
  /\ UNCHANGED <<alive, initializing, cancelled, joining, order>>

\* pthread_cond_wait() may return without a signal.
SpuriousWakeup(t) ==
  /\ state[t] = "waiting"
  /\ state' = [state EXCEPT ![t] = "asking"]
  /\ UNCHANGED <<alive, actives, initializing, pending, runs, cancelled, joining, where, order>>

\* ThreadDaemon(): Run() returns, the thread asks for another job.
FinishJob(t) ==
  /\ state[t] = "running"
  /\ state' = [state EXCEPT ![t] = "asking"]
  /\ where' = [where EXCEPT ![runs[t]] = "done"]
  /\ runs' = [runs EXCEPT ![t] = NoJob]
  /\ UNCHANGED <<alive, actives, initializing, pending, cancelled, joining, order>>

\* pthread_cancel() takes effect, in the job or between two jobs.
Cancel(t) ==
  /\ t \in cancelled /\ state[t] \in {"running", "asking"}
  /\ state' = [state EXCEPT ![t] = "exited"]
  /\ where' = [j \in Jobs |-> IF j = runs[t] THEN "killed" ELSE where[j]]
  /\ runs' = [runs EXCEPT ![t] = NoJob]
  /\ UNCHANGED <<alive, actives, initializing, pending, cancelled, joining, order>>

(***************************************************************************)
(* Shutdown(): everything under the lock, then one Join() after another.   *)
(***************************************************************************)
\* Each context's jobs are purged and its condition is signalled.
PurgeContexts ==
  /\ pending' = [t \in Contexts |-> <<>>]
  /\ where' = [j \in Jobs |-> IF where[j] = "queued" THEN "purged" ELSE where[j]]
  /\ state' = [t \in Contexts |-> IF state[t] = "waiting" THEN "asking" ELSE state[t]]

Shutdown(wait_for_jobs_done) ==
  /\ ~initializing /\ alive
  /\ PurgeContexts
  /\ cancelled' = IF wait_for_jobs_done THEN {} ELSE actives
  /\ actives' = {}
  /\ joining' = Contexts /\ alive' = FALSE
  /\ initializing' = TRUE
  /\ UNCHANGED <<runs, order>>

Join(t) ==
  /\ t \in joining /\ state[t] = "exited"
  /\ joining' = joining \ {t}
  /\ state' = [state EXCEPT ![t] = "none"]
  /\ cancelled' = cancelled \ {t}
  /\ UNCHANGED <<alive, actives, initializing, pending, runs, where, order>>

ShutdownReturn ==
  /\ initializing /\ joining = {}
  /\ initializing' = FALSE
  /\ UNCHANGED <<alive, actives, pending, state, runs, cancelled, joining, where, order>>

KeyedNext ==
  \/ Initialize \/ ShutdownReturn
  \/ \E wait_for_jobs_done \in BOOLEAN : Shutdown(wait_for_jobs_done)
  \/ \E j \in Jobs : AppendJobWithKey(j)
  \/ \E t \in Contexts :
       \/ RequestExit(t) \/ RequestWait(t) \/ RequestRun(t) \/ SpuriousWakeup(t)
       \/ FinishJob(t) \/ Cancel(t) \/ Join(t)

KeyedSpec == KeyedInit /\ [][KeyedNext]_keyedVars

(***************************************************************************)
(* Threads are scheduled and jobs end; Shutdown() goes on once its thread   *)
(* is called.  Nobody has to call Initialize(), AppendJobWithKey() or      *)
(* Shutdown().                                                             *)
(***************************************************************************)
KeyedFairness ==
  /\ WF_keyedVars(ShutdownReturn)
  /\ \A t \in Contexts :
       /\ WF_keyedVars(RequestExit(t) \/ RequestWait(t) \/ RequestRun(t))
       /\ WF_keyedVars(FinishJob(t)) /\ WF_keyedVars(Join(t))

KeyedFairSpec == KeyedSpec /\ KeyedFairness

-----------------------------------------------------------------------------
(***************************************************************************)
(* Properties.                                                             *)
(***************************************************************************)

\* Jobs with the same key run one after another in the order in which they were
\* appended: when one was started, all that came before it are over.
KeyedInOrder ==
  \A i, k \in 1..Len(order) :
    /\ i < k /\ Key[order[i]] = Key[order[k]]
    /\ where[order[k]] \in {"running", "done", "killed"}
    => where[order[i]] \in Over

\* No wakeup is lost: a thread that waits has nothing to do (the signal in
\* AppendJobWithKey() against the test and the wait in RequestJob()).
WaitsForNothing ==
  \A t \in Contexts : state[t] = "waiting" => pending[t] = <<>>

\* _actives, which Shutdown() cancels and KillAll() sends signals to, holds only
\* threads of the pool that are alive, and all that run a job.
ActivesAlive ==
  \A t \in Contexts :
    /\ t \in actives => state[t] \in {"running", "asking"}
    /\ state[t] = "running" => t \in actives \/ initializing

\* Jobs of one key run one after another in order, no wakeup is lost where each thread has
\* its own condition, and the threads listed as active are alive.
KeyedSound == KeyedInOrder /\ WaitsForNothing /\ ActivesAlive

\* Every job that is appended is run, purged or killed.
JobsEnd == \A j \in Jobs : where[j] = "queued" ~> where[j] \in Over

\* Shutdown() returns.
ShutdownReturns == initializing ~> ~initializing

=============================================================================
