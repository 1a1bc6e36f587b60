------------------------------ MODULE EasyJobs ------------------------------
(***************************************************************************)
(* The job threads of flinter/linkage/easy_server.cpp, and how Initialize()*)
(* and Shutdown() start and end them together with an I/O thread.  Each    *)
(* thread of the pool runs one worker, which the pool deletes when it      *)
(* returns; what the pool itself does is in module FixedThreadPool.  Each  *)
(* section under _gmutex is one step.  There is at least one job worker:   *)
(* without any, jobs are run where they are appended.                      *)
(***************************************************************************)
EXTENDS Integers, Sequences, FiniteSets

CONSTANTS
  Workers,   \* the job workers
  Callers,   \* threads that call Shutdown()
  MaxJobs,   \* bound: jobs appended altogether
  AnyWorker  \* instead of a worker: the job is not hashed

Null == 0
AllJobs == 1..MaxJobs

VARIABLES
  jobs, hashjobs,  \* _jobs, _hashjobs
  listed,      \* _workers, _io_workers and _io_context are set
  state,       \* worker -> "none", "queued" (for a thread of the pool), "asking" (about to
               \* take the mutex in GetJob()), "waiting" (for _incoming), "running", "deleted"
  runs,        \* worker -> the job it runs, or Null
  io,          \* the I/O worker: "none", "queued", "loop", "quitting" (it has left its loop),
               \* "deleted"
  quit,        \* NULL is in the commands of the I/O worker
  pool,        \* "empty", "up", "joining" (a Shutdown() of the pool is under way)
  shutdown,    \* caller -> "no", "pool" (about to shut the pool down), "joining", "freeing"
  to,          \* history: job -> the worker it is hashed to, or AnyWorker
  where,       \* history: job -> "new", "queued", "running", "done", "dumped"
  misused      \* history: an I/O worker was used after it was deleted

jobsVars == <<jobs, hashjobs, listed, state, runs, io, quit, pool, shutdown, to, where, misused>>

InState(s) == {w \in Workers : state[w] = s}
Threaded == {"asking", "waiting", "running"}
Ended == \A w \in Workers : state[w] \notin Threaded

JobsOK ==
  /\ jobs \in Seq(AllJobs) /\ hashjobs \in [Workers -> Seq(AllJobs \cup {Null})]
  /\ listed \in BOOLEAN /\ quit \in BOOLEAN /\ misused \in BOOLEAN
  /\ state \in [Workers -> Threaded \cup {"none", "queued", "deleted"}]
  /\ runs \in [Workers -> AllJobs \cup {Null}]
  /\ \A w \in Workers : (runs[w] # Null) <=> (state[w] = "running")
  /\ io \in {"none", "queued", "loop", "quitting", "deleted"}
  /\ pool \in {"empty", "up", "joining"}
  /\ shutdown \in [Callers -> {"no", "pool", "joining", "freeing"}]
  /\ to \in [AllJobs -> Workers \cup {AnyWorker}]
  /\ where \in [AllJobs -> {"new", "queued", "running", "done", "dumped"}]

JobsInit ==
  /\ jobs = <<>> /\ hashjobs = [w \in Workers |-> <<>>] /\ listed = FALSE
  /\ state = [w \in Workers |-> "none"] /\ runs = [w \in Workers |-> Null]
  /\ io = "none" /\ quit = FALSE /\ pool = "empty"
  /\ shutdown = [c \in Callers |-> "no"]
  /\ to = [j \in AllJobs |-> AnyWorker] /\ where = [j \in AllJobs |-> "new"] /\ misused = FALSE

-----------------------------------------------------------------------------
Initialize ==
  /\ pool = "empty" /\ ~listed /\ \A c \in Callers : shutdown[c] = "no"
  /\ pool' = "up" /\ listed' = TRUE
  /\ state' = [w \in Workers |-> "queued"] /\ io' = "queued" /\ quit' = FALSE
  /\ UNCHANGED <<jobs, hashjobs, runs, shutdown, to, where, misused>>

\* A thread of the pool takes a worker.
StartWorker(w) ==
  /\ state[w] = "queued"
  /\ state' = [state EXCEPT ![w] = "asking"]
  /\ UNCHANGED <<jobs, hashjobs, listed, runs, io, quit, pool, shutdown, to, where, misused>>

StartIo ==
  /\ io = "queued"
  /\ io' = "loop"
  /\ UNCHANGED <<jobs, hashjobs, listed, state, runs, quit, pool, shutdown, to, where, misused>>

-----------------------------------------------------------------------------
(***************************************************************************)
(* DoAppendJob().                                                          *)
(***************************************************************************)
WakeOne ==
  \/ \E w \in InState("waiting") : state' = [state EXCEPT ![w] = "asking"]
  \/ InState("waiting") = {} /\ UNCHANGED state

WakeAll ==
  state' = [w \in Workers |-> IF state[w] = "waiting" THEN "asking" ELSE state[w]]

\* Defect: a hashed job goes where any worker can take it.
DoAppendJobShared(j, w) ==
  /\ jobs' = Append(jobs, j) /\ WakeOne
  /\ UNCHANGED hashjobs

DoAppendJob(j, w) ==
  \/ /\ w = AnyWorker
     /\ jobs' = Append(jobs, j) /\ WakeOne
     /\ UNCHANGED hashjobs
  \/ /\ w # AnyWorker
     /\ hashjobs' = [hashjobs EXCEPT ![w] = Append(@, j)] /\ WakeAll
     /\ UNCHANGED jobs

\* Who may append: OnMessage() in the I/O thread, a job that calls
\* QueueOrExecuteJob(), and other threads while there is no Shutdown().
Appending ==
  \/ io = "loop" \/ InState("running") # {}
  \/ listed /\ \A c \in Callers : shutdown[c] = "no"

\* AllJobs are numbered as they are appended.
AppendJob(j, w) ==
  /\ where[j] = "new" /\ \A k \in AllJobs : k < j => where[k] # "new"
  /\ Appending
  /\ DoAppendJob(j, w)
  /\ to' = [to EXCEPT ![j] = w]
  /\ where' = [where EXCEPT ![j] = "queued"]
  /\ UNCHANGED <<listed, runs, io, quit, pool, shutdown, misused>>

-----------------------------------------------------------------------------
(***************************************************************************)
(* JobWorker::Run() and GetJob().                                          *)
(***************************************************************************)
GetJobWait(w) ==
  /\ state[w] = "asking" /\ jobs = <<>> /\ hashjobs[w] = <<>>
  /\ state' = [state EXCEPT ![w] = "waiting"]
  /\ UNCHANGED <<jobs, hashjobs, listed, runs, io, quit, pool, shutdown, to, where, misused>>

SpuriousWakeup(w) ==
  /\ state[w] = "waiting"
  /\ state' = [state EXCEPT ![w] = "asking"]
  /\ UNCHANGED <<jobs, hashjobs, listed, runs, io, quit, pool, shutdown, to, where, misused>>

RunJob(w, j) ==
  /\ state' = [state EXCEPT ![w] = "running"]
  /\ runs' = [runs EXCEPT ![w] = j]
  /\ where' = [where EXCEPT ![j] = "running"]

\* Defect: the job stays at the head of the queue.
GetHashedJobPeek(w) ==
  /\ state[w] = "asking" /\ hashjobs[w] # <<>> /\ Head(hashjobs[w]) # Null
  /\ RunJob(w, Head(hashjobs[w]))
  /\ UNCHANGED <<jobs, hashjobs, listed, io, quit, pool, shutdown, to, misused>>

\* The worker's own queue comes first.
GetHashedJob(w) ==
  /\ state[w] = "asking" /\ hashjobs[w] # <<>> /\ Head(hashjobs[w]) # Null
  /\ hashjobs' = [hashjobs EXCEPT ![w] = Tail(@)]
  /\ RunJob(w, Head(hashjobs[w]))
  /\ UNCHANGED <<jobs, listed, io, quit, pool, shutdown, to, misused>>

GetSharedJob(w) ==
  /\ state[w] = "asking" /\ hashjobs[w] = <<>> /\ jobs # <<>>
  /\ jobs' = Tail(jobs)
  /\ RunJob(w, Head(jobs))
  /\ UNCHANGED <<hashjobs, listed, io, quit, pool, shutdown, to, misused>>

\* The worker returns, and is deleted.
GetNull(w) ==
  /\ state[w] = "asking" /\ hashjobs[w] # <<>> /\ Head(hashjobs[w]) = Null
  /\ hashjobs' = [hashjobs EXCEPT ![w] = Tail(@)]
  /\ state' = [state EXCEPT ![w] = "deleted"]
  /\ UNCHANGED <<jobs, listed, runs, io, quit, pool, shutdown, to, where, misused>>

FinishJob(w) ==
  /\ state[w] = "running"
  /\ state' = [state EXCEPT ![w] = "asking"]
  /\ where' = [where EXCEPT ![runs[w]] = "done"]
  /\ runs' = [runs EXCEPT ![w] = Null]
  /\ UNCHANGED <<jobs, hashjobs, listed, io, quit, pool, shutdown, to, misused>>

\* The job sends to an outgoing channel: Send() takes the I/O worker from
\* _io_workers, whether the channel is connected or not.
JobSend(w) ==
  /\ state[w] = "running" /\ listed
  /\ misused' = (misused \/ io = "deleted")
  /\ UNCHANGED <<jobs, hashjobs, listed, state, runs, io, quit, pool, shutdown, to, where>>

-----------------------------------------------------------------------------
(***************************************************************************)
(* The I/O worker: OnCommand() finds NULL, Run() releases all linkages.    *)
(***************************************************************************)
IoQuit ==
  /\ io = "loop" /\ quit
  /\ io' = "quitting" /\ quit' = FALSE
  /\ UNCHANGED <<jobs, hashjobs, listed, state, runs, pool, shutdown, to, where, misused>>

IoReturn ==
  /\ io = "quitting"
  /\ io' = "deleted"
  /\ UNCHANGED <<jobs, hashjobs, listed, state, runs, quit, pool, shutdown, to, where, misused>>

-----------------------------------------------------------------------------
(***************************************************************************)
(* DoShutdown().                                                           *)
(***************************************************************************)
Dumped == [j \in AllJobs |-> IF where[j] = "queued" THEN "dumped" ELSE where[j]]

\* DoDumpJobs(), then a NULL for each worker.
TellWorkers ==
  /\ jobs' = <<>> /\ where' = Dumped
  /\ hashjobs' = [w \in Workers |-> IF listed THEN <<Null>> ELSE <<>>]
  /\ IF listed THEN WakeAll ELSE UNCHANGED state

ShutdownBegin(c) ==
  /\ shutdown[c] = "no"
  /\ TellWorkers
  /\ quit' = listed
  /\ misused' = (misused \/ (listed /\ io = "deleted"))
  /\ shutdown' = [shutdown EXCEPT ![c] = "pool"]
  /\ UNCHANGED <<listed, runs, io, pool, to>>

\* The pool drops, and deletes, the workers no thread has taken, and joins.
ShutdownPool(c) ==
  /\ shutdown[c] = "pool" /\ pool = "up"
  /\ pool' = "joining"
  /\ state' = [w \in Workers |-> IF state[w] = "queued" THEN "deleted" ELSE state[w]]
  /\ io' = IF io = "queued" THEN "deleted" ELSE io
  /\ shutdown' = [shutdown EXCEPT ![c] = "joining"]
  /\ UNCHANGED <<jobs, hashjobs, listed, runs, quit, to, where, misused>>

\* The pool has no threads, or another Shutdown() of it is not over: it returns.
ShutdownNoPool(c) ==
  /\ shutdown[c] = "pool" /\ pool # "up"
  /\ shutdown' = [shutdown EXCEPT ![c] = "freeing"]
  /\ UNCHANGED <<jobs, hashjobs, listed, state, runs, io, quit, pool, to, where, misused>>

\* Defect: Shutdown(false), which does not wait for jobs.
JoinedEarly == io \in {"none", "deleted"}

Joined == io \in {"none", "deleted"} /\ Ended

ShutdownJoined(c) ==
  /\ shutdown[c] = "joining" /\ Joined
  /\ pool' = "empty"
  /\ shutdown' = [shutdown EXCEPT ![c] = "freeing"]
  /\ UNCHANGED <<jobs, hashjobs, listed, state, runs, io, quit, to, where, misused>>

\* "Now back into single threaded mode": without the mutex.
ShutdownFree(c) ==
  /\ shutdown[c] = "freeing"
  /\ jobs' = <<>> /\ hashjobs' = [w \in Workers |-> <<>>] /\ where' = Dumped
  /\ listed' = FALSE
  /\ shutdown' = [shutdown EXCEPT ![c] = "no"]
  /\ UNCHANGED <<state, runs, io, quit, pool, to, misused>>

-----------------------------------------------------------------------------
WorkerStep(w) ==
  \/ StartWorker(w) \/ GetJobWait(w) \/ GetHashedJob(w) \/ GetSharedJob(w) \/ GetNull(w)
  \/ FinishJob(w)

IoStep == StartIo \/ IoQuit \/ IoReturn

ShutdownStep(c) ==
  ShutdownPool(c) \/ ShutdownNoPool(c) \/ ShutdownJoined(c) \/ ShutdownFree(c)

JobsNext ==
  \/ Initialize \/ IoStep
  \/ \E j \in AllJobs, w \in Workers \cup {AnyWorker} : AppendJob(j, w)
  \/ \E w \in Workers : WorkerStep(w) \/ SpuriousWakeup(w) \/ JobSend(w)
  \/ \E c \in Callers : ShutdownBegin(c) \/ ShutdownStep(c)

\* Threads are scheduled, take their mutexes in the end, and jobs return.
JobsFairness ==
  /\ WF_jobsVars(IoStep)
  /\ \A w \in Workers : WF_jobsVars(WorkerStep(w))
  /\ \A c \in Callers : WF_jobsVars(ShutdownStep(c))

JobsSpec == JobsInit /\ [][JobsNext]_jobsVars /\ JobsFairness

-----------------------------------------------------------------------------
(***************************************************************************)
(* Properties.                                                             *)
(***************************************************************************)

\* AllJobs hashed to the same worker "get processed sequentially", in the order in
\* which they came, also over a Shutdown() and the next Initialize().
HashedInOrder ==
  \A i, j \in AllJobs :
    i < j /\ to[i] = to[j] /\ to[j] # AnyWorker /\ where[j] \in {"running", "done"}
      => where[i] \in {"done", "dumped"}

\* The contexts, queues and lists that the threads use are there as long as one of
\* the threads is.
OutliveThreads ==
  io \in {"loop", "quitting"} \/ ~Ended => listed

\* Shutdown() leaves nothing behind: no thread, no job.
ShutdownComplete ==
  pool = "empty" /\ ~listed => Ended /\ (\A j \in AllJobs : where[j] # "running")
                                     /\ jobs = <<>> /\ \A w \in Workers : hashjobs[w] = <<>>

\* The threads of an EasyServer do not outlive what they use, and Shutdown() leaves neither
\* a thread nor a job.
EasySound == OutliveThreads /\ ShutdownComplete

\* An I/O worker is not used after the pool has deleted it.
IoWorkersAlive == ~misused

\* Each job that is appended is run, or dumped by a Shutdown().
JobsEnd ==
  \A j \in AllJobs : where[j] \in {"queued", "running"} ~> where[j] \in {"done", "dumped"}

\* Shutdown() returns: each worker, whatever it does and whatever is queued for it,
\* finds its NULL.
ShutdownReturns ==
  \A c \in Callers : shutdown[c] # "no" ~> shutdown[c] = "no"

=============================================================================
