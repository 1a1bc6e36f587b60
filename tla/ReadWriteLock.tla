--------------------------- MODULE ReadWriteLock ---------------------------
(***************************************************************************)
(* flinter/thread/read_write_lock.cpp where there are no POSIX threads: a  *)
(* lock made of a mutex, two counted queues and two semaphores, in which   *)
(* Unlock() hands the lock over to a writer, or to all the readers, that   *)
(* wait.  Under the mutex a method is one step; the wait for the semaphore *)
(* comes after it, and any waiter may take what was posted for another.    *)
(***************************************************************************)
EXTENDS Integers, FiniteSets

CONSTANT Lockers   \* threads

ASSUME LockersAssumption == IsFiniteSet(Lockers)

VARIABLES
  access,        \* _access: readers inside, or -1 for a writer
  readerQueue, writerQueue,
  readerWait, writerWait,   \* what the semaphores hold
  doing          \* thread -> "idle", "waits_to_read", "waits_to_write", "reads" or "writes"

rwVars == <<access, readerQueue, writerQueue, readerWait, writerWait, doing>>

RwOK ==
  /\ access \in -1..Cardinality(Lockers)
  /\ readerQueue \in 0..Cardinality(Lockers) /\ writerQueue \in 0..Cardinality(Lockers)
  /\ readerWait \in 0..Cardinality(Lockers) /\ writerWait \in 0..Cardinality(Lockers)
  /\ doing \in [Lockers -> {"idle", "waits_to_read", "waits_to_write", "reads", "writes"}]

RwInit ==
  /\ access = 0 /\ readerQueue = 0 /\ writerQueue = 0 /\ readerWait = 0 /\ writerWait = 0
  /\ doing = [t \in Lockers |-> "idle"]

Does(t, what) == doing' = [doing EXCEPT ![t] = what]

-----------------------------------------------------------------------------
\* A reader is to wait for a writer that is inside or that waits.
ReaderPending == access < 0 \/ writerQueue > 0

ReaderLock(t) ==
  /\ doing[t] = "idle"
  /\ IF ReaderPending
     THEN readerQueue' = readerQueue + 1 /\ Does(t, "waits_to_read") /\ UNCHANGED access
     ELSE access' = access + 1 /\ Does(t, "reads") /\ UNCHANGED readerQueue
  /\ UNCHANGED <<writerQueue, readerWait, writerWait>>

WriterLock(t) ==
  /\ doing[t] = "idle"
  /\ IF access # 0
     THEN writerQueue' = writerQueue + 1 /\ Does(t, "waits_to_write") /\ UNCHANGED access
     ELSE access' = access - 1 /\ Does(t, "writes") /\ UNCHANGED writerQueue
  /\ UNCHANGED <<readerQueue, readerWait, writerWait>>

\* TryReaderLock() and TryWriterLock(), when they do not fail.
TryReaderLock(t) ==
  /\ doing[t] = "idle" /\ ~ReaderPending /\ access' = access + 1 /\ Does(t, "reads")
  /\ UNCHANGED <<readerQueue, writerQueue, readerWait, writerWait>>

TryWriterLock(t) ==
  /\ doing[t] = "idle" /\ access = 0 /\ access' = access - 1 /\ Does(t, "writes")
  /\ UNCHANGED <<readerQueue, writerQueue, readerWait, writerWait>>

\* WaitForSingleObject() on a semaphore returns.
ReaderWoken(t) ==
  /\ doing[t] = "waits_to_read" /\ readerWait > 0 /\ readerWait' = readerWait - 1 /\ Does(t, "reads")
  /\ UNCHANGED <<access, readerQueue, writerQueue, writerWait>>

WriterWoken(t) ==
  /\ doing[t] = "waits_to_write" /\ writerWait > 0 /\ writerWait' = writerWait - 1 /\ Does(t, "writes")
  /\ UNCHANGED <<access, readerQueue, writerQueue, readerWait>>

\* Mutant: the lock is free until the woken writer runs.
HandOverLate(left) ==
  /\ access' = left
  /\ IF left = 0 /\ writerQueue > 0 THEN writerQueue' = writerQueue - 1 /\ writerWait' = writerWait + 1
     ELSE UNCHANGED <<writerQueue, writerWait>>
  /\ UNCHANGED <<readerQueue, readerWait>>

\* Unlock(): whoever leaves the lock free gives it to those who wait, in their name.
HandOver(left) ==
  IF left = 0 /\ writerQueue > 0
  THEN /\ access' = -1 /\ writerQueue' = writerQueue - 1 /\ writerWait' = writerWait + 1
       /\ UNCHANGED <<readerQueue, readerWait>>
  ELSE IF left = 0 /\ readerQueue > 0
  THEN /\ access' = readerQueue /\ readerQueue' = 0 /\ readerWait' = readerWait + readerQueue
       /\ UNCHANGED <<writerQueue, writerWait>>
  ELSE access' = left /\ UNCHANGED <<readerQueue, writerQueue, readerWait, writerWait>>

Unlock(t) ==
  /\ doing[t] \in {"reads", "writes"} /\ Does(t, "idle")
  /\ HandOver(IF access > 0 THEN access - 1 ELSE access + 1)

RwStep(t) ==
  \/ ReaderLock(t) \/ WriterLock(t) \/ TryReaderLock(t) \/ TryWriterLock(t)
  \/ ReaderWoken(t) \/ WriterWoken(t) \/ Unlock(t)

RwNext == \E t \in Lockers : RwStep(t)

RwSpec == RwInit /\ [][RwNext]_rwVars

-----------------------------------------------------------------------------
In(what) == Cardinality({t \in Lockers : doing[t] = what})

\* A writer is alone, counting those to whom the lock was handed over and who are not awake
\* yet; and nobody waits for a lock that is free, or whose post is missing: every thread that
\* waits is in a queue or has something posted for it.
LockSound ==
  /\ In("writes") <= 1 /\ (In("writes") = 1 => In("reads") = 0)
  /\ access = IF In("writes") + writerWait > 0 THEN -1 ELSE In("reads") + readerWait
  /\ In("waits_to_read") = readerQueue + readerWait
  /\ In("waits_to_write") = writerQueue + writerWait
  /\ access = 0 => In("waits_to_read") + In("waits_to_write") = 0

=============================================================================
