----------------------------- MODULE EasyStartup -----------------------------
(***************************************************************************)
(* flinter/linkage/easy_server.cpp: who owns what a server is given before *)
(* and after Initialize(): the listeners of Listen(), the timers of        *)
(* RegisterTimer(), the I/O workers it makes.  Ownership moves from the    *)
(* server's lists to a worker, a command or the thread pool, and each      *)
(* object is to be freed once, whichever step of Initialize() fails.       *)
(***************************************************************************)
EXTENDS Integers, Sequences, FiniteSets

CONSTANTS
  Listeners, EasyTimers, IoWorkers,
  JobWorkers,    \* number of job workers Initialize() is asked for
  AttachFails,   \* a listener may fail to attach to a worker
  Careful        \* no RegisterTimer() from another thread while Shutdown() is under way

VARIABLES
  stage,    \* "idle", "running", "stopping" (in _pool->Shutdown()) or "aborted"
  held,     \* objects in _listeners and _timers
  made,     \* I/O workers in _io_workers
  owned,    \* worker -> the timers it has registered
  alive,    \* workers that have not been deleted
  timerJobs, \* worker -> timers of RegisterTimerJobs sent to it; after "null" none is run
  frees,    \* object -> times it was freed
  accepted, \* objects the server has taken
  stray     \* the server used a worker that was deleted

startVars == <<stage, held, made, owned, alive, timerJobs, frees, accepted, stray>>

Objects == Listeners \cup EasyTimers \cup IoWorkers

StartupOK ==
  /\ stage \in {"idle", "running", "stopping", "aborted"}
  /\ held \subseteq Listeners \cup EasyTimers /\ made \subseteq IoWorkers /\ alive \subseteq IoWorkers
  /\ owned \in [IoWorkers -> SUBSET EasyTimers] /\ frees \in [Objects -> 0..2]
  /\ accepted \subseteq Objects /\ stray \in BOOLEAN

StartupInit ==
  /\ stage = "idle" /\ held = {} /\ made = {} /\ owned = [w \in IoWorkers |-> {}] /\ alive = {}
  /\ timerJobs = [w \in IoWorkers |-> <<>>] /\ frees = [o \in Objects |-> 0] /\ accepted = {}
  /\ stray = FALSE

Free(gone) == frees' = [o \in Objects |-> frees[o] + (IF o \in gone THEN 1 ELSE 0)]

-----------------------------------------------------------------------------
\* Listen() and its short forms: the socket listens first, and the listener is deleted if that
\* fails or the server already runs (and an exception is thrown).
EasyListen(l) ==
  /\ l \notin accepted /\ accepted' = accepted \cup {l} /\ stage # "aborted"
  /\ \/ made = {} /\ held' = held \cup {l} /\ UNCHANGED frees
     \/ Free({l}) /\ UNCHANGED held
  /\ UNCHANGED <<stage, made, owned, alive, timerJobs, stray>>

\* RegisterTimer(): into the list; at once if the caller is the thread of the worker that
\* GetIoWorker() picks; or by a command.
EasyRegisterTimer(t) ==
  /\ t \notin accepted /\ accepted' = accepted \cup {t} /\ stage # "aborted"
  /\ Careful => stage # "stopping"
  /\ \/ made = {} /\ held' = held \cup {t} /\ UNCHANGED <<owned, timerJobs, stray>>
     \/ \E w \in made : w \in alive /\ owned' = [owned EXCEPT ![w] = @ \cup {t}] /\ stage = "running"
        /\ UNCHANGED <<held, timerJobs, stray>>
     \/ \E w \in made : timerJobs' = [timerJobs EXCEPT ![w] = Append(@, t)]
        /\ stray' = (stray \/ w \notin alive) /\ UNCHANGED <<held, owned>>
  /\ UNCHANGED <<stage, made, alive, frees>>

\* OnCommand(): RegisterTimerJob::Run() in the worker.
RunCommand(w) ==
  /\ w \in alive /\ timerJobs[w] # <<>> /\ Head(timerJobs[w]) # "null"
  /\ owned' = [owned EXCEPT ![w] = @ \cup {Head(timerJobs[w])}]
  /\ timerJobs' = [timerJobs EXCEPT ![w] = Tail(@)]
  /\ UNCHANGED <<stage, held, made, alive, frees, accepted, stray>>

-----------------------------------------------------------------------------
\* DoShutdown(), first half: a NULL for every job worker, which needs the queues of
\* Initialize()'s end, and a NULL command for every I/O worker.
Told(ws) == [w \in IoWorkers |-> IF w \in ws THEN Append(timerJobs[w], "null") ELSE timerJobs[w]]

\* Mutant: the list of workers is not cleared.
ListsKept(gone) == Free(gone) /\ held' = {} /\ made' = {}

\* Second half, when the pool has joined its threads: the lists are deleted and cleared.
Lists(gone) == Free(held \cup gone) /\ held' = {} /\ made' = {}

\* AttachListeners(): Attach() of every listener to a worker, before any worker is in the pool.
AttachListeners == IF AttachFails /\ held \cap Listeners # {} THEN BOOLEAN ELSE {TRUE}

\* The timers go to one of the workers; the pool takes the workers, runs and releases them.
Starts ==
  /\ accepted' = accepted \cup IoWorkers
  /\ \E w \in IoWorkers : owned' = [owned EXCEPT ![w] = @ \cup (held \cap EasyTimers)]
  /\ held' = held \ EasyTimers /\ made' = IoWorkers /\ alive' = IoWorkers /\ stage' = "running"
  /\ UNCHANGED frees

\* DoShutdown() before that: it asserts that there are queues if there are to be job workers,
\* and forgets the workers made so far.
GivesUp ==
  /\ IF JobWorkers > 0 THEN stage' = "aborted" /\ UNCHANGED <<held, made, frees, accepted>>
     ELSE UNCHANGED stage /\ Lists({}) /\ \E w \in IoWorkers : accepted' = accepted \cup {w}
  /\ UNCHANGED <<owned, alive>>

\* Initialize(), both forms.
Initialize ==
  /\ stage = "idle" /\ IoWorkers \cap accepted = {}
  /\ \E attached \in AttachListeners : IF attached THEN Starts ELSE GivesUp
  /\ UNCHANGED <<timerJobs, stray>>

\* Shutdown(); when the server never ran the lists are deleted all the same.
Shutdown ==
  /\ \/ stage = "running" /\ stage' = "stopping" /\ timerJobs' = Told(made) /\ UNCHANGED <<held, made, frees>>
     \/ stage = "idle" /\ held # {} /\ Lists({}) /\ UNCHANGED <<stage, timerJobs>>
  /\ UNCHANGED <<owned, alive, accepted, stray>>

\* LinkageWorker::Run() ends: timers are released, and the pool deletes the worker.
WorkerEnds(w) ==
  /\ stage = "stopping" /\ w \in alive /\ timerJobs[w] # <<>> /\ Head(timerJobs[w]) = "null"
  /\ alive' = alive \ {w} /\ Free(owned[w] \cup {w}) /\ owned' = [owned EXCEPT ![w] = {}]
  /\ UNCHANGED <<stage, held, made, timerJobs, accepted, stray>>

ShutdownEnds ==
  /\ stage = "stopping" /\ alive = {} /\ stage' = "idle" /\ Lists({})
  /\ timerJobs' = [w \in IoWorkers |-> <<>>] /\ UNCHANGED <<owned, alive, accepted, stray>>

StartupNext ==
  \/ \E l \in Listeners : EasyListen(l)
  \/ \E t \in EasyTimers : EasyRegisterTimer(t)
  \/ \E w \in IoWorkers : RunCommand(w) \/ WorkerEnds(w)
  \/ Initialize \/ Shutdown \/ ShutdownEnds

StartupSpec == StartupInit /\ [][StartupNext]_startVars

-----------------------------------------------------------------------------
\* No object is freed twice or used when it is gone, and when the server is idle with empty
\* lists, after any order of calls, whatever it has taken was freed.
FreedOnce ==
  /\ ~stray /\ stage # "aborted" /\ \A o \in Objects : frees[o] <= 1
  /\ stage = "idle" /\ held = {} => \A o \in accepted : frees[o] = 1

=============================================================================
