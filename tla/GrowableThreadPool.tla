------------------------- MODULE GrowableThreadPool -------------------------
(***************************************************************************)
(* flinter/thread/growable_thread_pool.cpp with the loop of                *)
(* flinter/thread/thread.cpp.  Threads are spawned in batches of Size when *)
(* jobs outnumber the threads that are free; a thread that comes back and  *)
(* finds too many of them idle makes others quit and waits until it has    *)
(* reaped them.  The pool has been initialized; AppendJob() is called from *)
(* any thread and Shutdown() from one only, as the header demands.         *)
(***************************************************************************)
EXTENDS Integers, Sequences, FiniteSets

CONSTANTS
  Size,       \* the argument of Initialize()
  Threads,    \* thread objects; reused once joined, which bounds the number alive
  Jobs,       \* jobs; one that is over can be appended again
  Shutdowns,  \* the arguments Shutdown() is called with
  None        \* a thread that runs no job, a mutex that is free

Modulus == 65536  \* of size_t, cut down to what TLC can calculate with

ASSUME GrowableAssumption ==
  /\ Size \in Nat \ {0} /\ None \notin Threads /\ None \notin Jobs
  /\ Shutdowns \subseteq BOOLEAN
  /\ IsFiniteSet(Threads) /\ Cardinality(Threads) < Modulus

VARIABLES
  threads, actives, exited, exits, initializing, pending,  \* the fields of the same names
  owner,     \* who holds _mutex from one step to the next
  pc,        \* thread -> where it is, see Places
  need,      \* thread -> exits - reaped, in MaybeShrink()
  runs,      \* thread -> the job it runs
  cancelled, \* threads that Terminate() was called for
  joining    \* the threads Shutdown() has still to join

vars == <<threads, actives, exited, exits, initializing, pending, owner, pc, need, runs,
          cancelled, joining>>

\* Waiting: for _job_available ("waiting") and for _thread_exited ("reapwait").
\* Having been woken there, about to take the mutex: "woken" and "reapwoken".
\* With the mutex: "try" in RequestJob(), "reap" in MaybeShrink().
Reaping == {"reap", "reapwait", "reapwoken"}
Places == {"none", "start", "try", "waiting", "woken", "running", "exited"} \cup Reaping

At(places) == {t \in Threads : pc[t] \in places}
Rng(s) == {s[i] : i \in 1..Len(s)}
SizeT(n) == n % Modulus

TypeOK ==
  /\ threads \subseteq Threads /\ actives \subseteq threads
  /\ exited \in Seq(Threads) /\ exits \in 0..Cardinality(Threads)
  /\ initializing \in BOOLEAN /\ pending \in Seq(Jobs)
  /\ owner \in Threads \cup {None}
  /\ pc \in [Threads -> Places]
  /\ need \in [Threads -> 0..Cardinality(Threads)]
  /\ runs \in [Threads -> Jobs \cup {None}]
  /\ cancelled \subseteq Threads /\ joining \subseteq Threads

Init ==
  /\ threads = {} /\ actives = {} /\ exited = <<>> /\ exits = 0
  /\ initializing = FALSE /\ pending = <<>> /\ owner = None
  /\ pc = [t \in Threads |-> "none"]
  /\ need = [t \in Threads |-> 0]
  /\ runs = [t \in Threads |-> None]
  /\ cancelled = {} /\ joining = {}

Holds(t) == owner = t \/ (owner = None /\ pc[t] \in {"woken", "reapwoken"})

-----------------------------------------------------------------------------
(***************************************************************************)
(* WakeOne() n times: n of the waiting threads, or all of them.            *)
(***************************************************************************)
Wakes(places, n) ==
  LET waiting == At(places)
  IN  IF n >= Cardinality(waiting) THEN {waiting}
      ELSE {s \in SUBSET waiting : Cardinality(s) = n}

Woken(s, place) == [t \in Threads |-> IF t \in s THEN place ELSE pc[t]]

\* Defect: threads that shall quit are taken for free ones.
SpawnedFewer == IF SizeT(Cardinality(threads) - Cardinality(actives)) < Len(pending')
                THEN {s \in SUBSET At({"none"}) : Cardinality(s) = Size}
                ELSE {{}}

Spawned == IF SizeT(Cardinality(threads) - Cardinality(actives) - exits) < Len(pending')
           THEN {s \in SUBSET At({"none"}) : Cardinality(s) = Size}
           ELSE {{}}

\* Taken only while there are thread objects left to spawn.
AppendJob(j) ==
  /\ owner = None /\ ~initializing
  /\ j \notin Rng(pending) /\ \A t \in Threads : runs[t] # j
  /\ pending' = Append(pending, j)
  /\ \E s \in Spawned, w \in Wakes({"waiting"}, 1) :
       /\ threads' = threads \cup s
       /\ pc' = [t \in Threads |-> IF t \in s THEN "start" ELSE Woken(w, "woken")[t]]
  /\ UNCHANGED <<actives, exited, exits, initializing, owner, need, runs, cancelled, joining>>

(***************************************************************************)
(* RequestJob(): MaybeShrink() first.                                      *)
(***************************************************************************)
Threshold == Size + (Size \div 2) + (Size % 2)

\* As MaybeShrink() counts when t, not active any longer, has come back.
Idles(t) ==
  SizeT(Cardinality(threads) - Cardinality(actives \ {t}) - Len(pending) - exits)

ShrinkBy(idles) == (idles \div Size) * Size - (IF idles % Size = 0 THEN Size ELSE 0)

RequestJob(t) ==
  /\ pc[t] = "start" /\ owner = None
  /\ initializing \/ Idles(t) < Threshold
  /\ actives' = actives \ {t} /\ owner' = t
  /\ pc' = [pc EXCEPT ![t] = "try"]
  /\ UNCHANGED <<threads, exited, exits, initializing, pending, need, runs, cancelled, joining>>

MaybeShrink(t) ==
  /\ pc[t] = "start" /\ owner = None
  /\ ~initializing /\ Idles(t) >= Threshold
  /\ actives' = actives \ {t} /\ owner' = t
  /\ exits' = SizeT(exits + ShrinkBy(Idles(t)))
  /\ need' = [need EXCEPT ![t] = ShrinkBy(Idles(t))]
  /\ \E w \in Wakes({"waiting"}, Size) : pc' = [Woken(w, "woken") EXCEPT ![t] = "reap"]
  /\ UNCHANGED <<threads, exited, initializing, pending, runs, cancelled, joining>>

Reap(t) ==
  /\ pc[t] \in {"reap", "reapwoken"} /\ Holds(t) /\ exited # <<>>
  /\ owner' = t /\ exited' = Tail(exited)
  /\ need' = [need EXCEPT ![t] = @ - 1]
  /\ pc' = [pc EXCEPT ![t] = IF need[t] = 1 THEN "try" ELSE "reap", ![Head(exited)] = "none"]
  /\ UNCHANGED <<threads, actives, exits, initializing, pending, runs, cancelled, joining>>

ReapWait(t) ==
  /\ pc[t] \in {"reap", "reapwoken"} /\ Holds(t) /\ exited = <<>>
  /\ owner' = None
  /\ pc' = [pc EXCEPT ![t] = "reapwait"]
  /\ UNCHANGED <<threads, actives, exited, exits, initializing, pending, need, runs, cancelled,
                 joining>>

(***************************************************************************)
(* RequestJob(): TryRequestJob() until it has something.                   *)
(***************************************************************************)
TryExit(t) ==
  /\ pc[t] \in {"try", "woken"} /\ Holds(t) /\ exits > 0
  /\ owner' = None /\ exits' = exits - 1
  /\ IF initializing
     THEN pc' = [pc EXCEPT ![t] = "exited"] /\ UNCHANGED <<exited, threads>>
     ELSE /\ exited' = Append(exited, t) /\ threads' = threads \ {t}
          /\ \E w \in Wakes({"reapwait"}, 1) :
               pc' = [Woken(w, "reapwoken") EXCEPT ![t] = "exited"]
  /\ UNCHANGED <<actives, initializing, pending, need, runs, cancelled, joining>>

TryRun(t) ==
  /\ pc[t] \in {"try", "woken"} /\ Holds(t) /\ exits = 0 /\ pending # <<>>
  /\ owner' = None /\ actives' = actives \cup {t}
  /\ runs' = [runs EXCEPT ![t] = Head(pending)] /\ pending' = Tail(pending)
  /\ pc' = [pc EXCEPT ![t] = "running"]
  /\ UNCHANGED <<threads, exited, exits, initializing, need, cancelled, joining>>

TryWait(t) ==
  /\ pc[t] \in {"try", "woken"} /\ Holds(t) /\ exits = 0 /\ pending = <<>>
  /\ owner' = None
  /\ pc' = [pc EXCEPT ![t] = "waiting"]
  /\ UNCHANGED <<threads, actives, exited, exits, initializing, pending, need, runs, cancelled,
                 joining>>

\* pthread_cond_wait() may return without a signal.
SpuriousWakeup(t) ==
  /\ pc[t] \in {"waiting", "reapwait"}
  /\ pc' = [pc EXCEPT ![t] = IF @ = "waiting" THEN "woken" ELSE "reapwoken"]
  /\ UNCHANGED <<threads, actives, exited, exits, initializing, pending, owner, need, runs,
                 cancelled, joining>>

\* ThreadDaemon(): Run() returns, the thread asks for another job.
FinishJob(t) ==
  /\ pc[t] = "running"
  /\ pc' = [pc EXCEPT ![t] = "start"]
  /\ runs' = [runs EXCEPT ![t] = None]
  /\ UNCHANGED <<threads, actives, exited, exits, initializing, pending, owner, need, cancelled,
                 joining>>

\* pthread_cancel() takes effect: in the job, between two jobs, in the wait.
Cancel(t) ==
  /\ t \in cancelled /\ pc[t] \in {"running", "start", "waiting", "woken"}
  /\ pc' = [pc EXCEPT ![t] = "exited"]
  /\ runs' = [runs EXCEPT ![t] = None]
  /\ UNCHANGED <<threads, actives, exited, exits, initializing, pending, owner, need, cancelled,
                 joining>>

(***************************************************************************)
(* Shutdown(): everything under the lock, then one Join() after another.   *)
(***************************************************************************)
Shutdown(wait_for_jobs_done) ==
  /\ owner = None /\ ~initializing /\ threads # {}
  /\ pending' = <<>>
  /\ exits' = Cardinality(threads) - (IF wait_for_jobs_done THEN 0 ELSE Cardinality(actives))
  /\ cancelled' = IF wait_for_jobs_done THEN {} ELSE actives
  /\ actives' = {} /\ joining' = threads /\ threads' = {}
  /\ pc' = Woken(At({"waiting"}), "woken")
  /\ initializing' = TRUE
  /\ UNCHANGED <<exited, owner, need, runs>>

Join(t) ==
  /\ t \in joining /\ pc[t] = "exited"
  /\ joining' = joining \ {t} /\ cancelled' = cancelled \ {t}
  /\ pc' = [pc EXCEPT ![t] = "none"]
  /\ UNCHANGED <<threads, actives, exited, exits, initializing, pending, owner, need, runs>>

ShutdownReturn ==
  /\ owner = None /\ initializing /\ joining = {}
  /\ initializing' = FALSE
  /\ UNCHANGED <<threads, actives, exited, exits, pending, owner, pc, need, runs, cancelled,
                 joining>>

ThreadStep(t) ==
  \/ RequestJob(t) \/ MaybeShrink(t) \/ Reap(t) \/ ReapWait(t)
  \/ TryExit(t) \/ TryRun(t) \/ TryWait(t)

Next ==
  \/ \E wait_for_jobs_done \in Shutdowns : Shutdown(wait_for_jobs_done)
  \/ ShutdownReturn
  \/ \E j \in Jobs : AppendJob(j)
  \/ \E t \in Threads :
       ThreadStep(t) \/ SpuriousWakeup(t) \/ FinishJob(t) \/ Cancel(t) \/ Join(t)

Spec == Init /\ [][Next]_vars

(***************************************************************************)
(* Threads are scheduled, get the mutex in the end, and jobs end; waiting  *)
(* is a cancellation point.  Nobody has to call AppendJob() or Shutdown(). *)
(***************************************************************************)
Fairness ==
  /\ WF_vars(ShutdownReturn)
  /\ \A t \in Threads :
       /\ SF_vars(ThreadStep(t)) /\ WF_vars(FinishJob(t)) /\ WF_vars(Join(t))
       /\ WF_vars(pc[t] \in {"waiting", "woken"} /\ Cancel(t))

FairSpec == Spec /\ Fairness

-----------------------------------------------------------------------------
(***************************************************************************)
(* Properties.                                                             *)
(***************************************************************************)

\* The differences that AppendJob() and MaybeShrink() calculate in size_t do not
\* wrap around: there is an idle thread for each job that is pending and for
\* each thread that shall quit.
CountersNeverWrap ==
  ~initializing => Cardinality(actives) + exits + Len(pending) <= Cardinality(threads)

\* What reapers in MaybeShrink() wait for is what is going to happen: threads that
\* shall quit or that have quit and are not yet joined.
Awaited == UNION {{t} \X (1..need[t]) : t \in Threads}
ReapersAreServed == ~initializing => Cardinality(Awaited) = exits + Len(exited)

\* No wakeup is lost: while threads wait, each pending job and each exit has a
\* thread that is on its way to TryRequestJob(), if only by MaybeShrink().
WakeupsSuffice ==
  At({"waiting"}) # {} =>
    exits + Len(pending) <= Cardinality(At({"start", "try", "woken"} \cup Reaping))

\* The pool shrinks: there are never as many idle threads as make MaybeShrink()
\* act, once the thread that came back has been through it.
IdlesBounded ==
  ~initializing =>
    Cardinality(threads) - Cardinality(actives) - Len(pending) - exits < Threshold

\* The counters of the pool say what its threads do: no difference wraps around, those
\* who wait for a thread to join get one, no wakeup is lost and the pool shrinks.
GrowableSound == CountersNeverWrap /\ ReapersAreServed /\ WakeupsSuffice /\ IdlesBounded

\* Every job that is appended is started or purged.
JobsStart == \A j \in Jobs : j \in Rng(pending) ~> j \notin Rng(pending)

\* MaybeShrink() returns.
ReapersFinish == \A t \in Threads : pc[t] \in Reaping ~> pc[t] \notin Reaping

\* Shutdown() returns, "wait for running jobs to be done, or to terminate them".
ShutdownReturns == initializing ~> ~initializing

=============================================================================
