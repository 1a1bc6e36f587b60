---------------------------- MODULE SystemProofs ----------------------------
(***************************************************************************)
(* Proofs about what a program is made of besides its connections: for any *)
(* finite number of threads the lock is handed over without losing or      *)
(* duplicating it; for any configurations the babysitter counts restarts   *)
(* exactly; for any number of daemons and commands instances exclude each  *)
(* other as far as the pidfile allows; timed calls are on time and honest, *)
(* nothing outside of a tree is removed, a request gets one response, and  *)
(* the requests of FastCGI's threads stay apart.                           *)
(***************************************************************************)
EXTENDS ReadWriteLock, Babysitter, Daemon, SafeIo, Directories, Cgi, Dispatcher,
        SequenceTheorems, FiniteSetTheorems, TLAPS

(***************************************************************************)
(* ReadWriteLock.  The inductive invariant counts a lock that was posted   *)
(* to a waiter as one that is held: LockSound speaks of writers that are   *)
(* awake, and would allow two posts.                                       *)
(***************************************************************************)
Phases == {"idle", "waits_to_read", "waits_to_write", "reads", "writes"}

RwType ==
  /\ access \in Int /\ readerQueue \in Nat /\ writerQueue \in Nat
  /\ readerWait \in Nat /\ writerWait \in Nat
  /\ doing \in [Lockers -> Phases]

\* With r and w threads inside, wr and ww waiting, _access a, queues rq and wq and posts
\* rp and wp, the books balance.
Balanced(r, w, wr, ww, a, rq, wq, rp, wp) ==
  /\ w + wp <= 1 /\ (w + wp = 1 => r + rp = 0)
  /\ a = IF w + wp > 0 THEN -1 ELSE r + rp
  /\ wr = rq + rp /\ ww = wq + wp
  /\ a = 0 => wr + ww = 0

RwBalanced ==
  Balanced(In("reads"), In("writes"), In("waits_to_read"), In("waits_to_write"),
           access, readerQueue, writerQueue, readerWait, writerWait)

RwInv == RwType /\ RwBalanced

\* The books balance when a thread enters or queues up, or is woken.
LEMMA BalancedInside ==
  ASSUME NEW r \in Nat, NEW w \in Nat, NEW wr \in Nat, NEW ww \in Nat, NEW a \in Int,
         NEW rq \in Nat, NEW wq \in Nat, NEW rp \in Nat, NEW wp \in Nat,
         Balanced(r, w, wr, ww, a, rq, wq, rp, wp)
  PROVE  /\ a < 0 \/ wq > 0 => Balanced(r, w, wr + 1, ww, a, rq + 1, wq, rp, wp)
         /\ ~(a < 0 \/ wq > 0) => Balanced(r + 1, w, wr, ww, a + 1, rq, wq, rp, wp)
         /\ a # 0 => Balanced(r, w, wr, ww + 1, a, rq, wq + 1, rp, wp)
         /\ a = 0 => Balanced(r, w + 1, wr, ww, a - 1, rq, wq, rp, wp)
         /\ rp > 0 => Balanced(r + 1, w, wr - 1, ww, a, rq, wq, rp - 1, wp)
         /\ wp > 0 => Balanced(r, w + 1, wr, ww - 1, a, rq, wq, rp, wp - 1)
BY DEF Balanced

\* They balance when a reader leaves: the last one hands the lock over.
LEMMA BalancedReaderLeaves ==
  ASSUME NEW r \in Nat, NEW w \in Nat, NEW wr \in Nat, NEW ww \in Nat, NEW a \in Int,
         NEW rq \in Nat, NEW wq \in Nat, NEW rp \in Nat, NEW wp \in Nat,
         Balanced(r, w, wr, ww, a, rq, wq, rp, wp), r > 0
  PROVE  /\ a > 0
         /\ a # 1 => Balanced(r - 1, w, wr, ww, a - 1, rq, wq, rp, wp)
         /\ a = 1 /\ wq > 0 => Balanced(r - 1, w, wr, ww, -1, rq, wq - 1, rp, wp + 1)
         /\ a = 1 /\ wq = 0 /\ rq > 0 => Balanced(r - 1, w, wr, ww, rq, 0, wq, rp + rq, wp)
         /\ a = 1 /\ wq = 0 /\ rq = 0 => Balanced(r - 1, w, wr, ww, a - 1, rq, wq, rp, wp)
BY DEF Balanced

\* They balance when the writer leaves.
LEMMA BalancedWriterLeaves ==
  ASSUME NEW r \in Nat, NEW w \in Nat, NEW wr \in Nat, NEW ww \in Nat, NEW a \in Int,
         NEW rq \in Nat, NEW wq \in Nat, NEW rp \in Nat, NEW wp \in Nat,
         Balanced(r, w, wr, ww, a, rq, wq, rp, wp), w > 0
  PROVE  /\ a = -1
         /\ wq > 0 => Balanced(r, w - 1, wr, ww, -1, rq, wq - 1, rp, wp + 1)
         /\ wq = 0 /\ rq > 0 => Balanced(r, w - 1, wr, ww, rq, 0, wq, rp + rq, wp)
         /\ wq = 0 /\ rq = 0 => Balanced(r, w - 1, wr, ww, a + 1, rq, wq, rp, wp)
BY DEF Balanced

\* The threads in a phase can be counted.
LEMMA InNat == \A what : In(what) \in Nat
<1> TAKE what
<1>1. IsFiniteSet({t \in Lockers : doing[t] = what})
  BY LockersAssumption, FS_Subset
<1> QED BY <1>1, FS_CardinalityType DEF In

\* A thread that goes from one phase to another moves one from count to count.
LEMMA DoesCounts ==
  ASSUME doing \in [Lockers -> Phases], NEW t \in Lockers, NEW to \in Phases,
         to # doing[t], Does(t, to)
  PROVE  /\ doing' \in [Lockers -> Phases]
         /\ In(doing[t]) > 0
         /\ \A what \in Phases :
              In(what)' = IF what = to THEN In(what) + 1
                          ELSE IF what = doing[t] THEN In(what) - 1 ELSE In(what)
<1> DEFINE S(what) == {u \in Lockers : doing[u] = what}
           T(what) == {u \in Lockers : doing'[u] = what}
<1>1. \A what : IsFiniteSet(S(what)) /\ In(what) = Cardinality(S(what))
  BY LockersAssumption, FS_Subset DEF In
<1>2. doing' \in [Lockers -> Phases]
  BY DEF Does
<1>3. In(doing[t]) > 0
  <2>1. t \in S(doing[t])
    OBVIOUS
  <2>2. Cardinality(S(doing[t])) # 0
    BY <1>1, <2>1, FS_EmptySet
  <2> QED BY <1>1, <2>2, InNat
<1>4. ASSUME NEW what \in Phases
      PROVE  In(what)' = IF what = to THEN In(what) + 1
                         ELSE IF what = doing[t] THEN In(what) - 1 ELSE In(what)
  <2>1. In(what)' = Cardinality(T(what))
    BY DEF In
  <2>2. CASE what = to
    <3>1. T(what) = S(what) \cup {t} /\ t \notin S(what)
      BY <2>2 DEF Does
    <3> HIDE DEF S, T
    <3>2. Cardinality(S(what) \cup {t}) = Cardinality(S(what)) + 1
      BY <1>1, <3>1, FS_AddElement
    <3> QED BY <1>1, <2>1, <2>2, <3>1, <3>2
  <2>3. CASE what # to /\ what = doing[t]
    <3>1. T(what) = S(what) \ {t} /\ t \in S(what)
      BY <2>3 DEF Does
    <3> HIDE DEF S, T
    <3>2. Cardinality(S(what) \ {t}) = Cardinality(S(what)) - 1
      BY <1>1, <3>1, FS_RemoveElement
    <3> QED BY <1>1, <2>1, <2>3, <3>1, <3>2
  <2>4. CASE what # to /\ what # doing[t]
    <3>1. T(what) = S(what)
      BY <2>4 DEF Does
    <3> QED BY <1>1, <2>1, <2>4, <3>1
  <2> QED BY <2>2, <2>3, <2>4
<1> QED BY <1>2, <1>3, <1>4

\* Initially nobody is inside and nobody waits.
LEMMA RwInitially == RwInit => RwInv
<1> SUFFICES ASSUME RwInit PROVE RwInv
  OBVIOUS
<1>1. \A what \in Phases \ {"idle"} : {t \in Lockers : doing[t] = what} = {}
  BY DEF RwInit, Phases
<1>2. In("reads") = 0 /\ In("writes") = 0 /\ In("waits_to_read") = 0 /\ In("waits_to_write") = 0
  BY <1>1, FS_EmptySet DEF In, Phases
<1> QED BY <1>2 DEF RwInit, RwInv, RwType, RwBalanced, Balanced, Phases

\* Each step of a thread keeps the invariant.
LEMMA RwStepKeeps == ASSUME RwInv, NEW t \in Lockers, RwStep(t) PROVE RwInv'
<1> USE DEF RwInv
<1>1. /\ In("reads") \in Nat /\ In("writes") \in Nat
      /\ In("waits_to_read") \in Nat /\ In("waits_to_write") \in Nat
  BY InNat
<1>2. CASE ReaderLock(t) /\ ReaderPending
  <2>1. /\ doing' \in [Lockers -> Phases]
        /\ In("reads")' = In("reads") /\ In("writes")' = In("writes")
        /\ In("waits_to_read")' = In("waits_to_read") + 1 /\ In("waits_to_write")' = In("waits_to_write")
    BY <1>2, DoesCounts DEF ReaderLock, RwType, Phases
  <2>2. Balanced(In("reads"), In("writes"), In("waits_to_read") + 1, In("waits_to_write"),
                 access, readerQueue + 1, writerQueue, readerWait, writerWait)
    BY <1>1, <1>2, BalancedInside DEF ReaderLock, RwType, RwBalanced, ReaderPending
  <2> QED BY <1>2, <2>1, <2>2 DEF ReaderLock, RwType, RwBalanced
<1>3. CASE (ReaderLock(t) \/ TryReaderLock(t)) /\ ~ReaderPending
  <2>1. /\ doing' \in [Lockers -> Phases]
        /\ In("reads")' = In("reads") + 1 /\ In("writes")' = In("writes")
        /\ In("waits_to_read")' = In("waits_to_read") /\ In("waits_to_write")' = In("waits_to_write")
    BY <1>3, DoesCounts DEF ReaderLock, TryReaderLock, RwType, Phases
  <2>2. Balanced(In("reads") + 1, In("writes"), In("waits_to_read"), In("waits_to_write"),
                 access + 1, readerQueue, writerQueue, readerWait, writerWait)
    BY <1>1, <1>3, BalancedInside DEF ReaderLock, TryReaderLock, RwType, RwBalanced, ReaderPending
  <2> QED BY <1>3, <2>1, <2>2 DEF ReaderLock, TryReaderLock, RwType, RwBalanced
<1>4. CASE WriterLock(t) /\ access # 0
  <2>1. /\ doing' \in [Lockers -> Phases]
        /\ In("reads")' = In("reads") /\ In("writes")' = In("writes")
        /\ In("waits_to_read")' = In("waits_to_read") /\ In("waits_to_write")' = In("waits_to_write") + 1
    BY <1>4, DoesCounts DEF WriterLock, RwType, Phases
  <2>2. Balanced(In("reads"), In("writes"), In("waits_to_read"), In("waits_to_write") + 1,
                 access, readerQueue, writerQueue + 1, readerWait, writerWait)
    BY <1>1, <1>4, BalancedInside DEF WriterLock, RwType, RwBalanced
  <2> QED BY <1>4, <2>1, <2>2 DEF WriterLock, RwType, RwBalanced
<1>5. CASE (WriterLock(t) \/ TryWriterLock(t)) /\ access = 0
  <2>1. /\ doing' \in [Lockers -> Phases]
        /\ In("reads")' = In("reads") /\ In("writes")' = In("writes") + 1
        /\ In("waits_to_read")' = In("waits_to_read") /\ In("waits_to_write")' = In("waits_to_write")
    BY <1>5, DoesCounts DEF WriterLock, TryWriterLock, RwType, Phases
  <2>2. Balanced(In("reads"), In("writes") + 1, In("waits_to_read"), In("waits_to_write"),
                 access - 1, readerQueue, writerQueue, readerWait, writerWait)
    BY <1>1, <1>5, BalancedInside DEF WriterLock, TryWriterLock, RwType, RwBalanced
  <2> QED BY <1>5, <2>1, <2>2 DEF WriterLock, TryWriterLock, RwType, RwBalanced
<1>6. CASE ReaderWoken(t)
  <2>1. /\ doing' \in [Lockers -> Phases]
        /\ In("reads")' = In("reads") + 1 /\ In("writes")' = In("writes")
        /\ In("waits_to_read")' = In("waits_to_read") - 1 /\ In("waits_to_write")' = In("waits_to_write")
    BY <1>6, DoesCounts DEF ReaderWoken, RwType, Phases
  <2>2. Balanced(In("reads") + 1, In("writes"), In("waits_to_read") - 1, In("waits_to_write"),
                 access, readerQueue, writerQueue, readerWait - 1, writerWait)
    BY <1>1, <1>6, BalancedInside DEF ReaderWoken, RwType, RwBalanced
  <2> QED BY <1>6, <2>1, <2>2 DEF ReaderWoken, RwType, RwBalanced
<1>7. CASE WriterWoken(t)
  <2>1. /\ doing' \in [Lockers -> Phases]
        /\ In("reads")' = In("reads") /\ In("writes")' = In("writes") + 1
        /\ In("waits_to_read")' = In("waits_to_read") /\ In("waits_to_write")' = In("waits_to_write") - 1
    BY <1>7, DoesCounts DEF WriterWoken, RwType, Phases
  <2>2. Balanced(In("reads"), In("writes") + 1, In("waits_to_read"), In("waits_to_write") - 1,
                 access, readerQueue, writerQueue, readerWait, writerWait - 1)
    BY <1>1, <1>7, BalancedInside DEF WriterWoken, RwType, RwBalanced
  <2> QED BY <1>7, <2>1, <2>2 DEF WriterWoken, RwType, RwBalanced
<1>8. CASE Unlock(t) /\ doing[t] = "reads"
  <2>1. /\ doing' \in [Lockers -> Phases] /\ In("reads") > 0
        /\ In("reads")' = In("reads") - 1 /\ In("writes")' = In("writes")
        /\ In("waits_to_read")' = In("waits_to_read") /\ In("waits_to_write")' = In("waits_to_write")
    BY <1>8, DoesCounts DEF Unlock, RwType, Phases
  <2>2. access > 0 /\ HandOver(access - 1)
    BY <1>1, <1>8, <2>1, BalancedReaderLeaves DEF Unlock, RwType, RwBalanced
  <2>3. CASE access # 1 \/ (writerQueue = 0 /\ readerQueue = 0)
    <3>1. Balanced(In("reads") - 1, In("writes"), In("waits_to_read"), In("waits_to_write"),
                   access - 1, readerQueue, writerQueue, readerWait, writerWait)
      BY <1>1, <2>1, <2>3, BalancedReaderLeaves DEF RwType, RwBalanced
    <3> QED BY <2>1, <2>2, <2>3, <3>1 DEF HandOver, RwType, RwBalanced
  <2>4. CASE access = 1 /\ writerQueue > 0
    <3>1. Balanced(In("reads") - 1, In("writes"), In("waits_to_read"), In("waits_to_write"),
                   -1, readerQueue, writerQueue - 1, readerWait, writerWait + 1)
      BY <1>1, <2>1, <2>4, BalancedReaderLeaves DEF RwType, RwBalanced
    <3> QED BY <2>1, <2>2, <2>4, <3>1 DEF HandOver, RwType, RwBalanced
  <2>5. CASE access = 1 /\ writerQueue = 0 /\ readerQueue > 0
    <3>1. Balanced(In("reads") - 1, In("writes"), In("waits_to_read"), In("waits_to_write"),
                   readerQueue, 0, writerQueue, readerWait + readerQueue, writerWait)
      BY <1>1, <2>1, <2>5, BalancedReaderLeaves DEF RwType, RwBalanced
    <3> QED BY <2>1, <2>2, <2>5, <3>1 DEF HandOver, RwType, RwBalanced
  <2> QED BY <2>3, <2>4, <2>5 DEF RwType
<1>9. CASE Unlock(t) /\ doing[t] = "writes"
  <2>1. /\ doing' \in [Lockers -> Phases] /\ In("writes") > 0
        /\ In("reads")' = In("reads") /\ In("writes")' = In("writes") - 1
        /\ In("waits_to_read")' = In("waits_to_read") /\ In("waits_to_write")' = In("waits_to_write")
    BY <1>9, DoesCounts DEF Unlock, RwType, Phases
  <2>2. access = -1
    BY <1>1, <2>1 DEF RwType, RwBalanced, Balanced
  <2>3. HandOver(access + 1)
    BY <1>9, <2>2 DEF Unlock
  <2>4. CASE writerQueue > 0
    <3>1. Balanced(In("reads"), In("writes") - 1, In("waits_to_read"), In("waits_to_write"),
                   -1, readerQueue, writerQueue - 1, readerWait, writerWait + 1)
      BY <1>1, <2>1, <2>4, BalancedWriterLeaves DEF RwType, RwBalanced
    <3> QED BY <2>1, <2>2, <2>3, <2>4, <3>1 DEF HandOver, RwType, RwBalanced
  <2>5. CASE writerQueue = 0 /\ readerQueue > 0
    <3>1. Balanced(In("reads"), In("writes") - 1, In("waits_to_read"), In("waits_to_write"),
                   readerQueue, 0, writerQueue, readerWait + readerQueue, writerWait)
      BY <1>1, <2>1, <2>5, BalancedWriterLeaves DEF RwType, RwBalanced
    <3> QED BY <2>1, <2>2, <2>3, <2>5, <3>1 DEF HandOver, RwType, RwBalanced
  <2>6. CASE writerQueue = 0 /\ readerQueue = 0
    <3>1. Balanced(In("reads"), In("writes") - 1, In("waits_to_read"), In("waits_to_write"),
                   access + 1, readerQueue, writerQueue, readerWait, writerWait)
      BY <1>1, <2>1, <2>6, BalancedWriterLeaves DEF RwType, RwBalanced
    <3> QED BY <2>1, <2>2, <2>3, <2>6, <3>1 DEF HandOver, RwType, RwBalanced
  <2> QED BY <2>4, <2>5, <2>6 DEF RwType
<1> QED BY <1>2, <1>3, <1>4, <1>5, <1>6, <1>7, <1>8, <1>9
        DEF RwStep, TryReaderLock, TryWriterLock, Unlock

\* The invariant holds in every state.
THEOREM LockAlways == RwSpec => []RwInv
<1>1. RwInv /\ [RwNext]_rwVars => RwInv'
  <2>1. ASSUME RwInv, RwNext PROVE RwInv'
    BY <2>1, RwStepKeeps DEF RwNext
  <2>2. ASSUME RwInv, UNCHANGED rwVars PROVE RwInv'
    BY <2>2 DEF RwInv, RwType, RwBalanced, In, rwVars
  <2> QED BY <2>1, <2>2
<1> QED BY <1>1, RwInitially, PTL DEF RwSpec

\* read_write_lock.cpp hands the lock over: a writer is alone, the count of those inside is
\* exact, and whoever waits is in a queue or has something posted for it.
THEOREM LockIsSound == RwSpec => []LockSound
<1>1. RwInv => LockSound
  BY InNat DEF RwInv, RwType, RwBalanced, Balanced, LockSound
<1> QED BY <1>1, LockAlways, PTL

\* The counters stay within the number of threads: a semaphore is never posted more often
\* than there are threads that wait for it.
THEOREM LockType == RwSpec => []RwOK
<1>1. ASSUME NEW p \in Phases, NEW q \in Phases, p # q
      PROVE  In(p) + In(q) <= Cardinality(Lockers)
  <2> DEFINE P == {t \in Lockers : doing[t] = p}
             Q == {t \in Lockers : doing[t] = q}
  <2>1. P \cap Q = {} /\ P \cup Q \subseteq Lockers
    BY <1>1
  <2>2. In(p) = Cardinality(P) /\ In(q) = Cardinality(Q)
    BY DEF In
  <2> HIDE DEF P, Q
  <2>3. IsFiniteSet(P) /\ IsFiniteSet(Q) /\ Cardinality(P \cup Q) <= Cardinality(Lockers)
    BY <2>1, LockersAssumption, FS_Subset
  <2>4. Cardinality(P \cup Q) = Cardinality(P) + Cardinality(Q) - Cardinality(P \cap Q)
    BY <2>3, FS_Union
  <2>5. Cardinality(P \cap Q) = 0
    BY <2>1, FS_EmptySet
  <2> QED BY <2>2, <2>3, <2>4, <2>5, InNat, LockersAssumption, FS_CardinalityType
<1>2. Cardinality(Lockers) \in Nat
  BY LockersAssumption, FS_CardinalityType
<1>3. RwInv => RwOK
  <2> SUFFICES ASSUME RwInv PROVE RwOK
    OBVIOUS
  <2>1. /\ In("reads") \in Nat /\ In("writes") \in Nat
        /\ In("waits_to_read") \in Nat /\ In("waits_to_write") \in Nat
    BY InNat
  <2>2. /\ In("reads") + In("waits_to_read") <= Cardinality(Lockers)
        /\ In("writes") + In("waits_to_write") <= Cardinality(Lockers)
    BY <1>1 DEF Phases
  <2>3. /\ readerQueue \in Nat /\ writerQueue \in Nat /\ readerWait \in Nat /\ writerWait \in Nat
        /\ In("waits_to_read") = readerQueue + readerWait
        /\ In("waits_to_write") = writerQueue + writerWait
        /\ access = -1 \/ access = In("reads") + readerWait
    BY DEF RwInv, RwType, RwBalanced, Balanced
  <2>4. readerQueue \in 0..Cardinality(Lockers) /\ readerWait \in 0..Cardinality(Lockers)
    BY <1>2, <2>1, <2>2, <2>3
  <2>5. writerQueue \in 0..Cardinality(Lockers) /\ writerWait \in 0..Cardinality(Lockers)
    BY <1>2, <2>1, <2>2, <2>3
  <2>6. access \in -1..Cardinality(Lockers)
    BY <1>2, <2>1, <2>2, <2>3
  <2> QED BY <2>4, <2>5, <2>6 DEF RwInv, RwType, RwOK, Phases
<1> QED BY <1>3, LockAlways, PTL

-----------------------------------------------------------------------------
(***************************************************************************)
(* Babysitter.  RestartsCounted bounds the children that were forked; the  *)
(* inductive invariant says where the count of restarts stands against     *)
(* them: they are equal before a fork, and one apart after it.             *)
(***************************************************************************)
CountsAgree ==
  /\ times \in Nat /\ spawned \in Nat
  /\ conf.restart_times > 0 =>
       /\ times <= conf.restart_times
       /\ bpc = "fork" => spawned = times
       /\ bpc \in {"wait", "spawn", "sleep", "ended"} => spawned = times + 1
       /\ bpc = "gone" => spawned \in {times, times + 1}

SitterInv ==
  /\ conf \in Configurations
  /\ bpc \in {"fork", "wait", "spawn", "sleep", "ended", "gone"}
  /\ outcome = "limit" => bpc = "gone" /\ conf.restart_times > 0
  /\ CountsAgree /\ RestartsCounted

\* What a configuration says about restarts is a number.
LEMMA RestartsNat == conf \in Configurations => conf.restart_times \in Nat
BY BabysitterAssumption

\* What the child, the time and the senders of signals do leaves the counts alone.
LEMMA EnvironmentKeeps ==
  ASSUME SitterInv,
         \/ ChildDefault \/ ChildUnblock \/ ChildTakes \/ ChildExits \/ ChildStops \/ Feed
         \/ Starve \/ SendSignal
  PROVE  SitterInv'
<1>1. UNCHANGED <<conf, bpc, times, spawned, outcome>>
  BY DEF ChildDefault, ChildUnblock, ChildTakes, ChildExits, ChildStops, Feed, Starve, SendSignal,
         sitter, env
<1>2. child' = child \/ child # "none"
  BY DEF ChildDefault, ChildUnblock, ChildTakes, ChildExits, ChildStops, Feed, Starve, SendSignal,
         sitter, env, Lives
<1> QED BY <1>1, <1>2 DEF SitterInv, CountsAgree, RestartsCounted

\* pselect() returns: the child is reaped, and with it the wait ends, or it goes on.
LEMMA WaitKeeps == ASSUME SitterInv, WaitSignals \/ WaitReady PROVE SitterInv'
<1>1. bpc = "wait" /\ UNCHANGED <<conf, times, spawned, outcome>>
  BY DEF WaitSignals, WaitReady
<1>2. \/ bpc' \in {"ended", "spawn"} /\ child' = "none"
      \/ bpc' = bpc
  BY DEF WaitSignals, WaitReady, Turn, Reap
<1> QED BY <1>1, <1>2 DEF SitterInv, CountsAgree, RestartsCounted

\* fork() makes the child that was counted.
LEMMA ForkKeeps == ASSUME SitterInv, Fork \/ ForkFailed PROVE SitterInv'
<1>1. CASE Fork
  <2>1. conf.restart_times > 0 => spawned' = spawned + 1
    BY <1>1, RestartsNat DEF Fork, Cap, SitterInv, CountsAgree
  <2>2. spawned' \in Nat
    BY <1>1 DEF Fork, SitterInv, CountsAgree
  <2> QED BY <1>1, <2>1, <2>2, RestartsNat DEF Fork, SitterInv, CountsAgree, RestartsCounted
<1>2. CASE ForkFailed
  BY <1>2, RestartsNat DEF ForkFailed, Leave, SitterInv, CountsAgree, RestartsCounted, env
<1> QED BY <1>1, <1>2

\* The next child is counted, or is one too many.
LEMMA AgainKeeps ==
  ASSUME SitterInv, bpc \in {"spawn", "sleep"}, Again, UNCHANGED <<conf, spawned, child>>
  PROVE  SitterInv'
<1>1. CASE Leave("error") /\ UNCHANGED times
  BY <1>1, RestartsNat DEF Leave, SitterInv, CountsAgree, RestartsCounted
<1>2. CASE /\ conf.restart_times > 0 /\ times + 1 > conf.restart_times
           /\ Leave("limit") /\ UNCHANGED times
  BY <1>2, RestartsNat DEF Leave, SitterInv, CountsAgree, RestartsCounted
<1>3. CASE /\ ~(conf.restart_times > 0 /\ times + 1 > conf.restart_times)
           /\ bpc' = "fork" /\ UNCHANGED outcome
           /\ times' = IF conf.restart_times > 0 THEN times + 1 ELSE times
  BY <1>3, RestartsNat DEF SitterInv, CountsAgree, RestartsCounted
<1> QED BY <1>1, <1>2, <1>3 DEF Again

\* After the child is gone: spawn(), the delay and cleanup().
LEMMA SpawnKeeps ==
  ASSUME SitterInv, Spawn \/ SleepSignals \/ SleepEnd \/ Cleanup PROVE SitterInv'
<1>1. CASE Spawn /\ bpc' \in {"ended", "sleep"} /\ UNCHANGED <<times, outcome>>
  BY <1>1 DEF Spawn, SitterInv, CountsAgree, RestartsCounted, env
<1>2. CASE (Spawn \/ SleepEnd) /\ Again
  BY <1>2, AgainKeeps DEF Spawn, SleepEnd, env
<1>3. CASE SleepSignals
  BY <1>3 DEF SleepSignals, SitterInv, CountsAgree, RestartsCounted, env
<1>4. CASE Cleanup
  BY <1>4, RestartsNat DEF Cleanup, Leave, SitterInv, CountsAgree, RestartsCounted, env
<1> QED BY <1>1, <1>2, <1>3, <1>4 DEF Spawn, SleepEnd

\* The invariant holds in every state.
THEOREM SitterAlways == SitterSpec => []SitterInv
<1>1. SitterInit => SitterInv
  <2> SUFFICES ASSUME SitterInit PROVE SitterInv
    OBVIOUS
  <2>1. conf.restart_times \in Nat
    BY RestartsNat DEF SitterInit
  <2>2. CountsAgree /\ RestartsCounted
    BY <2>1 DEF SitterInit, CountsAgree, RestartsCounted
  <2> QED BY <2>2 DEF SitterInit, SitterInv
<1>2. SitterInv /\ [SitterNext]_sitterVars => SitterInv'
  <2>1. ASSUME SitterInv, SitterNext PROVE SitterInv'
    BY <2>1, EnvironmentKeeps, WaitKeeps, ForkKeeps, SpawnKeeps DEF SitterNext
  <2>2. ASSUME SitterInv, UNCHANGED sitterVars PROVE SitterInv'
    BY <2>2 DEF SitterInv, CountsAgree, RestartsCounted, sitterVars, sitter, env
  <2> QED BY <2>1, <2>2
<1> QED BY <1>1, <1>2, PTL DEF SitterSpec

\* babysitter.c forks as often as restart_times says, gives up neither earlier nor later, and
\* never has two children.
THEOREM RestartsAreCounted == SitterSpec => []RestartsCounted
<1>1. SitterInv => RestartsCounted
  BY DEF SitterInv
<1> QED BY <1>1, SitterAlways, PTL

-----------------------------------------------------------------------------
(***************************************************************************)
(* Daemon.  The inductive invariant says of every process between lockf()  *)
(* and close() that it holds the lock on the inode it opened; that before  *)
(* anything is removed there is one inode; and that a process about to     *)
(* remove the file still finds its own there, unless it was wiped.         *)
(***************************************************************************)
Locked == {"write", "run", "validate", "unlink", "close"}
Stages == Locked \cup {"none", "open", "lock", "dead", "gone"}

DaemonType ==
  /\ created \in 0..MaxInodes /\ path \in 0..created
  /\ holder \in [Inodes -> Daemons \cup {NoOne}]
  /\ dpc \in [Daemons -> Stages] /\ fd \in [Daemons -> 0..MaxInodes]
  /\ removed \in BOOLEAN /\ wiped \in BOOLEAN /\ misremoved \in BOOLEAN

LocksHeld ==
  \A d \in Daemons :
    /\ dpc[d] = "lock" \/ dpc[d] \in Locked => fd[d] \in 1..created
    /\ dpc[d] \in Locked => holder[fd[d]] = d

FirstFile == ~removed => created <= 1 /\ path = created

RemovesItsOwn ==
  /\ ~wiped => \A d \in Daemons : dpc[d] = "unlink" => path = fd[d]
  /\ misremoved => wiped

DaemonInv == DaemonType /\ LocksHeld /\ FirstFile /\ RemovesItsOwn

\* Two processes do not hold the same lock.
LEMMA LocksApart ==
  ASSUME DaemonInv, NEW c \in Daemons, NEW d \in Daemons,
         dpc[c] \in Locked, dpc[d] \in Locked, fd[c] = fd[d]
  PROVE  c = d
BY DEF DaemonInv, LocksHeld

\* Closing the file gives up the lock of d, and of nobody else.
LEMMA ShutKeeps ==
  ASSUME DaemonInv, NEW d \in Daemons, Shut(d), NEW to \in Stages \ (Locked \cup {"lock"}),
         Goto(d, to), created' = created
  PROVE  /\ holder' \in [Inodes -> Daemons \cup {NoOne}] /\ fd' \in [Daemons -> 0..MaxInodes]
         /\ dpc' \in [Daemons -> Stages]
         /\ LocksHeld'
         /\ \A c \in Daemons : dpc'[c] = "unlink" => c # d /\ dpc[c] = "unlink" /\ fd'[c] = fd[c]
<1>1. /\ holder' \in [Inodes -> Daemons \cup {NoOne}] /\ fd' \in [Daemons -> 0..MaxInodes]
      /\ dpc' \in [Daemons -> Stages]
  BY DaemonAssumption DEF DaemonInv, DaemonType, Shut, Goto
<1>2. dpc'[d] = to /\ \A c \in Daemons : c # d => dpc'[c] = dpc[c] /\ fd'[c] = fd[c]
  BY DEF DaemonInv, DaemonType, Shut, Goto
<1>3. \A i \in Inodes : holder[i] # d => holder'[i] = holder[i]
  BY DEF Shut
<1>4. 1..created \subseteq Inodes
  BY DaemonAssumption DEF DaemonInv, DaemonType, Inodes
<1>5. LocksHeld'
  <2>1. ASSUME NEW c \in Daemons, dpc'[c] \in Locked \cup {"lock"}
        PROVE  c # d /\ fd'[c] \in 1..created /\ (dpc'[c] \in Locked => holder'[fd'[c]] = c)
    <3>1. c # d
      BY <1>2, <2>1
    <3>2. fd[c] \in 1..created /\ (dpc[c] \in Locked => holder[fd[c]] = c)
      BY <1>2, <2>1, <3>1 DEF DaemonInv, LocksHeld
    <3> QED BY <1>2, <1>3, <1>4, <2>1, <3>1, <3>2
  <2> QED BY <2>1 DEF LocksHeld
<1> QED BY <1>1, <1>2, <1>5 DEF Locked

\* Going on without touching the file keeps the locks.
LEMMA GotoKeeps ==
  ASSUME DaemonInv, NEW d \in Daemons, NEW to \in Stages, Goto(d, to),
         to \in Locked \cup {"lock"} => dpc[d] \in Locked,
         to = "unlink" => path = fd[d],
         UNCHANGED <<path, created, holder, fd, removed, wiped, misremoved>>
  PROVE  DaemonInv'
<1>1. dpc' \in [Daemons -> Stages] /\ dpc'[d] = to
      /\ \A c \in Daemons : c # d => dpc'[c] = dpc[c]
  BY DEF DaemonInv, DaemonType, Goto
<1>2. DaemonType' /\ FirstFile'
  BY <1>1 DEF DaemonInv, DaemonType, FirstFile
<1>3. LocksHeld'
  BY <1>1 DEF DaemonInv, LocksHeld, Locked
<1>4. RemovesItsOwn'
  BY <1>1 DEF DaemonInv, RemovesItsOwn
<1> QED BY <1>2, <1>3, <1>4 DEF DaemonInv

\* Starting a process, and the steps that only go on.
LEMMA StartKeeps ==
  ASSUME DaemonInv, NEW d \in Daemons,
         \/ Start(d) \/ StartConsole(d) \/ DaemonizeFailed(d) \/ Poll(d) \/ Restart(d)
         \/ WriteFile(d) \/ Return(d) \/ Validate(d)
  PROVE  DaemonInv'
<1>1. CASE Goto(d, "open") /\ UNCHANGED <<file, fd, hist>>
  BY <1>1, GotoKeeps DEF Stages, Locked, file, hist
<1>2. CASE UNCHANGED <<file, dpc, fd, hist>>
  BY <1>2 DEF DaemonInv, DaemonType, LocksHeld, FirstFile, RemovesItsOwn, file, hist
<1>3. CASE DaemonizeFailed(d)
  BY <1>3, GotoKeeps DEF DaemonizeFailed, Stages, Locked, file, hist
<1>4. CASE WriteFile(d) \/ Return(d)
  BY <1>4, GotoKeeps DEF WriteFile, Return, Stages, Locked, file, hist
<1>5. CASE Validate(d)
  BY <1>5, GotoKeeps DEF Validate, Stages, Locked, file, hist
<1> QED BY <1>1, <1>2, <1>3, <1>4, <1>5 DEF Start, StartConsole, Restart, Begin, Poll, proc

\* open() finds the file or creates one that nobody else has.
LEMMA OpenKeeps == ASSUME DaemonInv, NEW d \in Daemons, OpenFile(d) PROVE DaemonInv'
<1>1. /\ created' \in 0..MaxInodes /\ created <= created' /\ created' \in Nat /\ created \in Nat
      /\ path' \in 1..created' /\ fd' = [fd EXCEPT ![d] = path']
  BY DaemonAssumption DEF DaemonInv, DaemonType, OpenFile
<1>2. /\ dpc' \in [Daemons -> Stages] /\ dpc'[d] = "lock" /\ holder' = holder
      /\ \A c \in Daemons : c # d => dpc'[c] = dpc[c]
      /\ UNCHANGED <<removed, wiped, misremoved>>
  BY DEF DaemonInv, DaemonType, OpenFile, Goto, Stages, hist
<1>3. fd' \in [Daemons -> 0..MaxInodes] /\ fd'[d] = path' /\ \A c \in Daemons : c # d => fd'[c] = fd[c]
  BY <1>1, DaemonAssumption DEF DaemonInv, DaemonType
<1>4. DaemonType'
  BY <1>1, <1>2, <1>3 DEF DaemonInv, DaemonType
<1>5. LocksHeld'
  BY <1>1, <1>2, <1>3 DEF DaemonInv, LocksHeld, Locked
<1>6. FirstFile'
  BY <1>2 DEF DaemonInv, DaemonType, FirstFile, OpenFile
<1>7. RemovesItsOwn'
  <2>1. ASSUME ~wiped, NEW c \in Daemons, dpc'[c] = "unlink" PROVE path' = fd'[c]
    <3>1. c # d /\ dpc[c] = "unlink" /\ path = fd[c]
      BY <1>2, <2>1 DEF DaemonInv, RemovesItsOwn
    <3>2. fd[c] \in 1..created
      BY <3>1 DEF DaemonInv, LocksHeld, Locked
    <3> QED BY <1>1, <1>3, <3>1, <3>2 DEF OpenFile
  <2> QED BY <1>2, <2>1 DEF DaemonInv, RemovesItsOwn
<1> QED BY <1>4, <1>5, <1>6, <1>7 DEF DaemonInv

\* A lock is taken only when nobody has it.
LEMMA LockFileKeeps == ASSUME DaemonInv, NEW d \in Daemons, LockFile(d) PROVE DaemonInv'
<1>1. UNCHANGED <<path, created, removed, wiped, misremoved>>
  BY DEF LockFile, hist
<1>2. CASE Goto(d, "gone") /\ Shut(d)
  <2>1. /\ holder' \in [Inodes -> Daemons \cup {NoOne}] /\ fd' \in [Daemons -> 0..MaxInodes]
        /\ dpc' \in [Daemons -> Stages] /\ LocksHeld'
        /\ \A c \in Daemons : dpc'[c] = "unlink" => c # d /\ dpc[c] = "unlink" /\ fd'[c] = fd[c]
    BY <1>1, <1>2, ShutKeeps DEF Stages, Locked
  <2> QED BY <1>1, <2>1 DEF DaemonInv, DaemonType, FirstFile, RemovesItsOwn
<1>3. CASE /\ holder[fd[d]] = NoOne /\ Goto(d, "write")
           /\ holder' = [holder EXCEPT ![fd[d]] = d] /\ UNCHANGED fd
  <2>1. fd[d] \in 1..created /\ 1..created \subseteq Inodes
    BY DaemonAssumption DEF DaemonInv, DaemonType, LocksHeld, LockFile, Inodes
  <2>2. /\ dpc' \in [Daemons -> Stages] /\ dpc'[d] = "write"
        /\ \A c \in Daemons : c # d => dpc'[c] = dpc[c]
    BY <1>3 DEF DaemonInv, DaemonType, Goto, Stages, Locked
  <2>3. /\ holder' \in [Inodes -> Daemons \cup {NoOne}] /\ holder'[fd[d]] = d
        /\ \A i \in Inodes : i # fd[d] => holder'[i] = holder[i]
    BY <1>3, <2>1 DEF DaemonInv, DaemonType
  <2>4. DaemonType' /\ FirstFile'
    BY <1>1, <1>3, <2>2, <2>3 DEF DaemonInv, DaemonType, FirstFile
  <2>5. LocksHeld'
    <3>1. ASSUME NEW c \in Daemons, c # d, dpc[c] \in Locked PROVE holder'[fd[c]] = c
      <4>1. fd[c] \in Inodes /\ holder[fd[c]] = c /\ fd[c] # fd[d]
        BY <1>3, <2>1, <3>1, DaemonAssumption DEF DaemonInv, LocksHeld
      <4> QED BY <2>3, <4>1
    <3> QED BY <1>1, <1>3, <2>1, <2>2, <2>3, <3>1 DEF DaemonInv, LocksHeld
  <2>6. RemovesItsOwn'
    BY <1>1, <1>3, <2>2 DEF DaemonInv, RemovesItsOwn
  <2> QED BY <2>4, <2>5, <2>6 DEF DaemonInv
<1> QED BY <1>2, <1>3 DEF LockFile

\* Whoever gives up, or is done, or is killed, closes the file.
LEMMA CloseKeeps ==
  ASSUME DaemonInv, NEW d \in Daemons,
         OpenFailed(d) \/ WriteFailed(d) \/ Close(d) \/ Die(d)
  PROVE  DaemonInv'
<1>1. /\ Shut(d) /\ created' = created /\ UNCHANGED misremoved
      /\ \E to \in Stages \ (Locked \cup {"lock"}) : Goto(d, to)
  BY DEF OpenFailed, WriteFailed, GiveUp, Close, Die, Stages, Locked, hist
<1>2. /\ holder' \in [Inodes -> Daemons \cup {NoOne}] /\ fd' \in [Daemons -> 0..MaxInodes]
      /\ dpc' \in [Daemons -> Stages] /\ LocksHeld'
      /\ \A c \in Daemons : dpc'[c] = "unlink" => c # d /\ dpc[c] = "unlink" /\ fd'[c] = fd[c]
  BY <1>1, ShutKeeps
<1>3. CASE UNCHANGED <<path, removed, wiped>>
  BY <1>1, <1>2, <1>3 DEF DaemonInv, DaemonType, FirstFile, RemovesItsOwn
<1>4. CASE /\ dpc[d] = "write" /\ path' = 0 /\ removed' = TRUE
           /\ wiped' = (wiped \/ path \notin {0, fd[d]})
  <2>1. DaemonType' /\ FirstFile'
    BY <1>1, <1>2, <1>4 DEF DaemonInv, DaemonType, FirstFile
  <2>2. ASSUME ~wiped', NEW c \in Daemons, dpc'[c] = "unlink" PROVE FALSE
    <3>1. c # d /\ dpc[c] = "unlink" /\ path = fd[c] /\ path \in {0, fd[d]}
      BY <1>2, <1>4, <2>2 DEF DaemonInv, RemovesItsOwn
    <3>2. fd[c] # 0
      BY <3>1 DEF DaemonInv, DaemonType, LocksHeld, Locked
    <3> QED BY <1>4, <3>1, <3>2, LocksApart DEF Locked
  <2>3. RemovesItsOwn'
    BY <1>1, <1>4, <2>2 DEF DaemonInv, RemovesItsOwn
  <2> QED BY <1>2, <2>1, <2>3 DEF DaemonInv
<1> QED BY <1>3, <1>4 DEF OpenFailed, WriteFailed, Close, Die, hist

\* pidfile_close() removes its own file: no other process is about to remove one.
LEMMA UnlinkKeeps == ASSUME DaemonInv, NEW d \in Daemons, Unlink(d) PROVE DaemonInv'
<1>1. /\ dpc' \in [Daemons -> Stages] /\ dpc[d] = "unlink" /\ dpc'[d] = "close"
      /\ \A c \in Daemons : c # d => dpc'[c] = dpc[c]
  BY DEF DaemonInv, DaemonType, Unlink, Goto, Stages, Locked
<1>2. DaemonType' /\ FirstFile'
  BY <1>1 DEF DaemonInv, DaemonType, FirstFile, Unlink
<1>3. LocksHeld'
  BY <1>1 DEF DaemonInv, LocksHeld, Locked, Unlink
<1>4. misremoved' => wiped'
  BY <1>1 DEF DaemonInv, RemovesItsOwn, Unlink
<1>5. ASSUME ~wiped, NEW c \in Daemons, dpc'[c] = "unlink" PROVE FALSE
  <2>1. c # d /\ dpc[c] = "unlink" /\ fd[c] = fd[d]
    BY <1>1, <1>5 DEF DaemonInv, RemovesItsOwn
  <2> QED BY <1>1, <2>1, LocksApart DEF Locked
<1>6. RemovesItsOwn'
  BY <1>4, <1>5 DEF RemovesItsOwn, Unlink
<1> QED BY <1>2, <1>3, <1>6 DEF DaemonInv

\* Commands only look, but for the one that removes what it takes for left behind.
LEMMA ControlKeeps ==
  ASSUME DaemonInv, NEW c \in Controls,
         ControlOpen(c) \/ ControlCheck(c) \/ ControlWipe(c) \/ ControlKill(c) \/ ControlWait(c)
  PROVE  DaemonInv'
<1>1. CASE UNCHANGED <<file, proc, hist>>
  BY <1>1 DEF DaemonInv, DaemonType, LocksHeld, FirstFile, RemovesItsOwn, file, proc, hist
<1>2. CASE ControlWipe(c)
  BY <1>2 DEF ControlWipe, DaemonInv, DaemonType, LocksHeld, FirstFile, RemovesItsOwn, proc
<1> QED BY <1>1, <1>2 DEF ControlOpen, ControlCheck, ControlKill, ControlWait

\* The invariant holds in every state.
THEOREM DaemonAlways == DaemonSpec => []DaemonInv
<1>1. DaemonInit => DaemonInv
  <2> SUFFICES ASSUME DaemonInit PROVE DaemonInv
    OBVIOUS
  <2>1. DaemonType
    <3>1. created \in 0..MaxInodes /\ path \in 0..created
      BY DaemonAssumption DEF DaemonInit
    <3>2. dpc \in [Daemons -> Stages] /\ fd \in [Daemons -> 0..MaxInodes]
      BY DaemonAssumption DEF DaemonInit, Stages
    <3> QED BY <3>1, <3>2 DEF DaemonInit, DaemonType
  <2>2. LocksHeld /\ FirstFile /\ RemovesItsOwn
    BY DEF DaemonInit, LocksHeld, FirstFile, RemovesItsOwn, Locked
  <2> QED BY <2>1, <2>2 DEF DaemonInv
<1>2. DaemonInv /\ [DaemonNext]_daemonVars => DaemonInv'
  <2>1. ASSUME DaemonInv, DaemonNext PROVE DaemonInv'
    BY <2>1, StartKeeps, OpenKeeps, LockFileKeeps, CloseKeeps, UnlinkKeeps, ControlKeeps
       DEF DaemonNext
  <2>2. ASSUME DaemonInv, UNCHANGED daemonVars PROVE DaemonInv'
    BY <2>2 DEF DaemonInv, DaemonType, LocksHeld, FirstFile, RemovesItsOwn, daemonVars, file, proc,
       hist
  <2> QED BY <2>1, <2>2
<1> QED BY <1>1, <1>2, PTL DEF DaemonSpec

\* A set whose members are all the same has one member at most.
LEMMA AtMostOne == ASSUME NEW S, \A x, y \in S : x = y PROVE Cardinality(S) <= 1
<1>1. CASE S = {}
  BY <1>1, FS_EmptySet
<1>2. CASE S # {}
  <2>1. PICK x : x \in S
    BY <1>2
  <2>2. S = {x}
    BY <2>1
  <2> QED BY <2>2, FS_Singleton
<1> QED BY <1>1, <1>2

\* The locks of pidfile.c let two instances run only after a file was removed, never with the
\* same file, and pidfile_close() removes a file of another one only if one was wiped.
THEOREM InstancesAreExclusive == DaemonSpec => []InstancesExclude
<1>1. DaemonInv => InstancesExclude
  <2> SUFFICES ASSUME DaemonInv PROVE InstancesExclude
    OBVIOUS
  <2>1. \A d \in Running : d \in Daemons /\ dpc[d] \in Locked
    BY DEF Running, Locked
  <2>2. \A d \in Running : fd[d] \in 1..created /\ holder[fd[d]] = d
    BY <2>1 DEF DaemonInv, LocksHeld
  <2>3. ASSUME ~removed PROVE Cardinality(Running) <= 1
    <3>1. \A d \in Running : fd[d] = 1
      BY <2>2, <2>3 DEF DaemonInv, DaemonType, FirstFile
    <3> QED BY <2>1, <3>1, LocksApart, AtMostOne
  <2>4. Cardinality({d \in Running : fd[d] = path}) <= 1
    BY <2>1, LocksApart, AtMostOne
  <2> QED BY <2>2, <2>3, <2>4 DEF InstancesExclude, DaemonInv, RemovesItsOwn
<1> QED BY <1>1, DaemonAlways, PTL

-----------------------------------------------------------------------------
(***************************************************************************)
(* Dispatcher.  A request is accepted once: while it waits nobody has      *)
(* written into its answer and no worker has it, and afterwards the only   *)
(* worker that may still have it is the one that may have written.         *)
(***************************************************************************)
DispatcherTyped ==
  /\ phase \in [Workers -> {"new", "check", "window", "blocked", "request", "finish", "done"}]
  /\ mine \in [Workers -> Requests \cup {NoRequest}] /\ tls \in [Workers -> Requests \cup {NoRequest}]
  /\ writes \in [Requests -> SUBSET Workers]

AcceptedOnce ==
  \A w \in Workers : mine[w] # NoRequest =>
    mine[w] \notin backlog /\ \A v \in Workers : mine[v] = mine[w] => v = w

WriterKept ==
  \A r \in Requests :
    /\ r \in backlog => writes[r] = {}
    /\ \A w \in writes[r] : \A v \in Workers : mine[v] = r \/ v \in writes[r] => v = w

OwnEnvironment ==
  \A w \in Workers : phase[w] = "request" => tls[w] = mine[w] /\ mine[w] \in Requests

DispatcherInv == DispatcherTyped /\ AcceptedOnce /\ WriterKept /\ OwnEnvironment

\* Steps that change no request: those of the signals, and those before accept(2) returns.
LEMMA DispatcherStill ==
  ASSUME DispatcherInv, mine' = mine, tls' = tls, backlog' = backlog, writes' = writes,
         \/ phase' = phase
         \/ \E w \in Workers, p \in {"check", "window", "blocked", "done"} : phase' = [phase EXCEPT ![w] = p]
  PROVE  DispatcherInv'
<1>1. DispatcherTyped' /\ \A w \in Workers : phase'[w] = "request" => phase[w] = "request"
  BY DEF DispatcherInv, DispatcherTyped
<1>2. AcceptedOnce' /\ WriterKept'
  BY DEF DispatcherInv, AcceptedOnce, WriterKept
<1>3. OwnEnvironment'
  BY <1>1 DEF DispatcherInv, OwnEnvironment
<1> QED BY <1>1, <1>2, <1>3 DEF DispatcherInv

LEMMA KillKeepsRequests ==
  ASSUME DispatcherInv, NEW w \in Workers, Kill(w)
  PROVE  DispatcherInv'
<1>1. mine' = mine /\ tls' = tls /\ backlog' = backlog /\ writes' = writes
  BY DEF Kill
<1>2. phase' = phase \/ phase' = [phase EXCEPT ![w] = IF phase[w] = "blocked" THEN "done" ELSE phase[w]]
  BY DEF Kill, Goes
<1>3. phase \in [Workers -> {"new", "check", "window", "blocked", "request", "finish", "done"}]
  BY DEF DispatcherInv, DispatcherTyped
<1>4. phase' = phase \/ phase' = [phase EXCEPT ![w] = "done"]
  BY <1>2, <1>3
<1> QED BY <1>1, <1>4, DispatcherStill

LEMMA AcceptKeepsRequests ==
  ASSUME DispatcherInv, NoRequest \notin Requests, NEW w \in Workers, NEW r \in Requests, AcceptReturn(w, r)
  PROVE  DispatcherInv'
<1>1. /\ r \in backlog /\ backlog' = backlog \ {r} /\ mine' = [mine EXCEPT ![w] = r]
      /\ tls' = [v \in Workers |-> IF v \in {w} THEN r ELSE tls[v]]
      /\ phase' = [phase EXCEPT ![w] = "request"] /\ writes' = writes
  BY DEF AcceptReturn, Goes, Slots
<1>2. DispatcherTyped /\ AcceptedOnce /\ WriterKept /\ OwnEnvironment
  BY DEF DispatcherInv
<1>3. DispatcherTyped'
  BY <1>1, <1>2 DEF DispatcherTyped
<1>4. mine'[w] = r /\ tls'[w] = r
      /\ \A v \in Workers : v # w => mine'[v] = mine[v] /\ tls'[v] = tls[v] /\ phase'[v] = phase[v]
  BY <1>1, <1>2 DEF DispatcherTyped
<1>5. \A v \in Workers : mine[v] # r
  BY <1>1, <1>2 DEF AcceptedOnce
<1>6. AcceptedOnce'
  BY <1>1, <1>2, <1>4, <1>5 DEF AcceptedOnce
<1>7. writes[r] = {}
  BY <1>1, <1>2 DEF WriterKept
<1>8. WriterKept'
  <2> SUFFICES ASSUME NEW q \in Requests
               PROVE  /\ q \in backlog' => writes'[q] = {}
                      /\ \A x \in writes'[q] : \A v \in Workers : mine'[v] = q \/ v \in writes'[q] => v = x
    BY DEF WriterKept
  <2>1. q \in backlog' => writes'[q] = {}
    BY <1>1, <1>2 DEF WriterKept
  <2>2. ASSUME NEW x \in writes'[q], NEW v \in Workers, mine'[v] = q \/ v \in writes'[q] PROVE v = x
    <3>1. q # r /\ x \in writes[q]
      BY <1>1, <1>7, <2>2
    <3>2. mine[v] = q \/ v \in writes[q]
      BY <1>1, <1>4, <2>2, <3>1
    <3> QED BY <1>2, <3>1, <3>2 DEF WriterKept
  <2> QED BY <2>1, <2>2
<1>9. OwnEnvironment'
  BY <1>2, <1>4 DEF OwnEnvironment
<1> QED BY <1>3, <1>6, <1>8, <1>9 DEF DispatcherInv

LEMMA DispatchKeepsRequests ==
  ASSUME DispatcherInv, NoRequest \notin Requests, NEW w \in Workers, NEW ok \in BOOLEAN,
         DispatchRequest(w, ok)
  PROVE  DispatcherInv'
<1>1. /\ phase[w] = "request" /\ mine' = mine /\ tls' = tls /\ backlog' = backlog
      /\ writes' = writes \/ writes' = [writes EXCEPT ![tls[w]] = @ \cup {w}]
      /\ \E p \in {"finish", "done"} : phase' = [phase EXCEPT ![w] = p]
  BY DEF DispatchRequest, Goes
<1>2. DispatcherTyped /\ AcceptedOnce /\ WriterKept /\ OwnEnvironment
  BY DEF DispatcherInv
<1>3. tls[w] = mine[w] /\ mine[w] \in Requests
  BY <1>1, <1>2 DEF OwnEnvironment
<1>4. DispatcherTyped'
  BY <1>1, <1>2, <1>3 DEF DispatcherTyped
<1>5. AcceptedOnce'
  BY <1>1, <1>2 DEF AcceptedOnce
<1>6. OwnEnvironment'
  BY <1>1, <1>2 DEF OwnEnvironment, DispatcherTyped
<1>7. WriterKept'
  <2>1. CASE writes' = writes
    BY <1>1, <1>2, <2>1 DEF WriterKept
  <2>2. CASE writes' = [writes EXCEPT ![mine[w]] = @ \cup {w}]
    <3>1. /\ writes'[mine[w]] = writes[mine[w]] \cup {w}
          /\ \A q \in Requests : q # mine[w] => writes'[q] = writes[q]
      BY <1>2, <1>3, <2>2 DEF DispatcherTyped
    <3> SUFFICES ASSUME NEW q \in Requests
                 PROVE  /\ q \in backlog' => writes'[q] = {}
                        /\ \A x \in writes'[q] : \A v \in Workers : mine'[v] = q \/ v \in writes'[q] => v = x
      BY DEF WriterKept
    <3>2. CASE q # mine[w]
      BY <1>1, <1>2, <3>1, <3>2 DEF WriterKept
    <3>3. CASE q = mine[w]
      <4>1. q \notin backlog'
        BY <1>1, <1>2, <1>3, <3>3 DEF AcceptedOnce
      <4>2. ASSUME NEW v \in Workers, mine[v] = q \/ v \in writes'[q] PROVE v = w
        <5>1. CASE mine[v] = q
          BY <1>2, <1>3, <3>3, <5>1 DEF AcceptedOnce
        <5>2. CASE v \in writes[q]
          BY <1>2, <1>3, <3>3, <5>2 DEF WriterKept
        <5> QED BY <3>1, <3>3, <4>2, <5>1, <5>2
      <4>3. writes'[q] \subseteq Workers
        BY <1>4 DEF DispatcherTyped
      <4> QED BY <1>1, <4>1, <4>2, <4>3
    <3> QED BY <3>2, <3>3
  <2> QED BY <1>1, <1>3, <2>1, <2>2
<1> QED BY <1>4, <1>5, <1>6, <1>7 DEF DispatcherInv

LEMMA FinishKeepsRequests ==
  ASSUME DispatcherInv, NoRequest \notin Requests, NEW w \in Workers, FinishRequest(w)
  PROVE  DispatcherInv'
<1>1. /\ mine' = [mine EXCEPT ![w] = NoRequest] /\ phase' = [phase EXCEPT ![w] = "check"]
      /\ tls' = tls /\ backlog' = backlog /\ writes' = writes
  BY DEF FinishRequest, Goes
<1>2. DispatcherTyped /\ AcceptedOnce /\ WriterKept /\ OwnEnvironment
  BY DEF DispatcherInv
<1>3. DispatcherTyped'
  BY <1>1, <1>2 DEF DispatcherTyped
<1>4. mine'[w] = NoRequest /\ phase'[w] = "check"
      /\ \A v \in Workers : v # w => mine'[v] = mine[v] /\ phase'[v] = phase[v]
  BY <1>1, <1>2 DEF DispatcherTyped
<1>5. AcceptedOnce'
  BY <1>1, <1>2, <1>4 DEF AcceptedOnce
<1>6. WriterKept'
  <2>1. \A q \in Requests, v \in Workers : mine'[v] = q => mine[v] = q
    BY <1>4
  <2> QED BY <1>1, <1>2, <2>1 DEF WriterKept
<1>7. OwnEnvironment'
  BY <1>1, <1>2, <1>4 DEF OwnEnvironment
<1> QED BY <1>3, <1>5, <1>6, <1>7 DEF DispatcherInv

LEMMA DispatcherStep ==
  ASSUME DispatcherInv, NoRequest \notin Requests, DispatcherNext
  PROVE  DispatcherInv'
<1>1. CASE ShutdownCall \/ Joined
  BY <1>1, DispatcherStill DEF ShutdownCall, Joined
<1>2. ASSUME NEW w \in Workers, RunBegin(w) \/ Check(w) \/ AcceptCall(w) PROVE DispatcherInv'
  <2>1. mine' = mine /\ tls' = tls /\ backlog' = backlog /\ writes' = writes
    BY <1>2 DEF RunBegin, Check, AcceptCall
  <2>2. \E p \in {"check", "window", "blocked", "done"} : phase' = [phase EXCEPT ![w] = p]
    BY <1>2 DEF RunBegin, Check, AcceptCall, Goes
  <2> QED BY <2>1, <2>2, DispatcherStill
<1>3. ASSUME NEW w \in Workers, WorkerStep(w) PROVE DispatcherInv'
  BY <1>2, <1>3, AcceptKeepsRequests, DispatchKeepsRequests, FinishKeepsRequests DEF WorkerStep
<1> QED BY <1>1, <1>3, KillKeepsRequests DEF DispatcherNext

\* A handler writes into the answer of the request its own thread has accepted, and no
\* request is written by two threads, for any number of workers and requests.
THEOREM RequestsStayApart ==
  ASSUME NoRequest \notin Requests
  PROVE  DispatcherSpec => []RequestsApart
<1>1. DispatcherInit => DispatcherInv
  BY DEF DispatcherInit, Installed, DispatcherInv, DispatcherTyped, AcceptedOnce, WriterKept, OwnEnvironment
<1>2. DispatcherInv /\ [DispatcherNext]_dispatcherVars => DispatcherInv'
  <2>1. CASE UNCHANGED dispatcherVars /\ DispatcherInv
    BY <2>1, DispatcherStill DEF dispatcherVars
  <2> QED BY <2>1, DispatcherStep
<1>3. DispatcherInv => RequestsApart
  <2> SUFFICES ASSUME DispatcherInv, NEW r \in Requests PROVE Cardinality(writes[r]) <= 1
    BY DEF DispatcherInv, OwnEnvironment, RequestsApart
  <2>1. writes[r] \subseteq Workers /\ \A w \in writes[r] : \A v \in writes[r] : v = w
    BY DEF DispatcherInv, DispatcherTyped, WriterKept
  <2>2. CASE writes[r] = {}
    BY <2>2, FS_EmptySet
  <2>3. ASSUME NEW w \in writes[r] PROVE Cardinality(writes[r]) <= 1
    <3>1. writes[r] = {w}
      BY <2>1, <2>3
    <3>2. Cardinality({w}) = 1
      BY FS_Singleton
    <3> QED BY <3>1, <3>2
  <2> QED BY <2>2, <2>3
<1> QED BY <1>1, <1>2, <1>3, PTL DEF DispatcherSpec

-----------------------------------------------------------------------------
(***************************************************************************)
(* Directories.  OutsideKept is not inductive: what makes it true is that  *)
(* every directory rmdirs() has open is one of the tree, and that what it  *)
(* has listed are entries of the tree, whatever they have become since.    *)
(***************************************************************************)
Frames ==
  [dir : Nodes, batch : SUBSET (Entries \X {Absent, "file", "dir", "link", "unknown"}),
   listed : SUBSET Entries, entry : Entries \cup {Absent}]

DirectoriesInv ==
  /\ at \in [Nodes -> {Absent, "file", "dir", "link"}] /\ kept = Outside
  /\ disabled \in BOOLEAN /\ inside \in BOOLEAN /\ made \in 0..Len(Path) /\ swaps \in 0..MaxSwaps
  /\ done \in {"idle", "running", "ok", "failed"}
  /\ stack \in Seq(Frames)

\* What is needed of the tree: a link leads out of it.
TreeAssumed == Linked \notin Nodes /\ Path \in Seq(Nodes) /\ MaxSwaps \in Nat

LEMMA LastOf ==
  ASSUME NEW S, NEW s \in Seq(S), s # << >>
  PROVE  /\ Len(s) \in Nat \ {0} /\ s[Len(s)] \in S
         /\ SubSeq(s, 1, Len(s) - 1) \in Seq(S)
         /\ Len(s) # 1 => SubSeq(s, 1, Len(s) - 1) # << >>
<1>1. Len(s) \in Nat \ {0} /\ s[Len(s)] \in S
  OBVIOUS
<1>2. PICK n \in Nat : n = Len(s) - 1
  BY <1>1
<1>3. \A i \in 1..n : s[i] \in S
  BY <1>1, <1>2
<1>4. SubSeq(s, 1, n) \in Seq(S) /\ Len(SubSeq(s, 1, n)) = IF 1 <= n THEN n - 1 + 1 ELSE 0
  BY <1>3, SubSeqProperties
<1>5. n # 0 => SubSeq(s, 1, n) # << >>
  <2>1. Len(<< >>) = 0
    OBVIOUS
  <2>2. n # 0 => Len(SubSeq(s, 1, n)) # 0
    BY <1>4
  <2> QED BY <2>1, <2>2
<1>6. SubSeq(s, 1, Len(s) - 1) \in Seq(S) /\ (n # 0 => SubSeq(s, 1, Len(s) - 1) # << >>)
  BY <1>2, <1>4, <1>5
<1>7. Len(s) # 1 => n # 0
  BY <1>1, <1>2
<1> QED BY <1>1, <1>6, <1>7

LEMMA NewFrame ==
  ASSUME NEW n \in Nodes
  PROVE  Frame(Opens(n)) \in Frames /\ <<Frame(Opens(n))>> \in Seq(Frames)
<1>1. Frame(n) \in Frames /\ Opens(n) = n
  BY DEF Frame, Frames, Opens
<1>2. <<Frame(n)>> \in Seq(Frames)
  BY <1>1
<1> QED BY <1>1, <1>2

\* A failure leaves directories of the tree on the stack, or none.
LEMMA FailsAtKeeps ==
  ASSUME DirectoriesInv, NEW frames \in Seq(Frames), frames # << >>, FailsAt(frames)
  PROVE  stack' \in Seq(Frames) /\ done' \in {"idle", "running", "ok", "failed"}
<1>1. CASE disabled
  BY <1>1 DEF FailsAt
<1>2. CASE ~disabled
  <2>1. /\ stack' = [frames EXCEPT ![Len(frames)].entry = Absent, ![Len(frames)].batch = {}]
        /\ done' = done
    BY <1>2 DEF FailsAt
  <2>2. PICK k \in 1..Len(frames) : k = Len(frames)
    OBVIOUS
  <2>3. frames[k] \in Frames
    OBVIOUS
  <2>4. [[frames[k] EXCEPT !.entry = Absent] EXCEPT !.batch = {}] \in Frames
    BY <2>3 DEF Frames
  <2>5. stack' = [frames EXCEPT ![k] = [[frames[k] EXCEPT !.entry = Absent] EXCEPT !.batch = {}]]
    BY <2>1, <2>2
  <2>6. stack' \in Seq(Frames)
    BY <2>4, <2>5
  <2> QED BY <2>1, <2>6 DEF DirectoriesInv
<1> QED BY <1>1, <1>2

\* What stays as it is in a step of rmdirs().
LEMMA RmdirsKeeps ==
  ASSUME DirectoriesInv, disabled' \in BOOLEAN, inside' \in BOOLEAN, made' = made, swaps' = swaps,
         at' \in [Nodes -> {Absent, "file", "dir", "link"}], kept' = kept,
         stack' \in Seq(Frames), done' \in {"idle", "running", "ok", "failed"}
  PROVE  DirectoriesInv'
BY DEF DirectoriesInv

LEMMA SwapKeepsOutside ==
  ASSUME DirectoriesInv, TreeAssumed, NEW n \in Nodes, NEW what \in {"file", "link"}, Swap(n, what)
  PROVE  DirectoriesInv'
<1>1. /\ swaps < MaxSwaps /\ swaps' = swaps + 1
      /\ at' = [m \in Nodes |-> IF m = n THEN what ELSE IF m \in Below(n) THEN Absent ELSE at[m]]
      /\ kept' = kept /\ disabled' = disabled /\ stack' = stack /\ inside' = inside /\ made' = made /\ done' = done
  BY DEF Swap
<1>2. at' \in [Nodes -> {Absent, "file", "dir", "link"}]
  BY <1>1 DEF DirectoriesInv
<1>3. swaps' \in 0..MaxSwaps
  BY <1>1 DEF DirectoriesInv, TreeAssumed
<1> QED BY <1>1, <1>2, <1>3 DEF DirectoriesInv

LEMMA MkdirsKeepsOutside ==
  ASSUME DirectoriesInv, TreeAssumed, Mkdirs
  PROVE  DirectoriesInv'
<1>1. /\ made < Len(Path)
      /\ kept' = kept /\ disabled' = disabled /\ stack' = stack /\ inside' = inside /\ swaps' = swaps /\ done' = done
      /\ made' = Len(Path) \/ made' = made + 1
      /\ \/ at' = at
         \/ at' = [at EXCEPT ![Path[made + 1]] = IF @ = Absent THEN "dir" ELSE @]
  BY DEF Mkdirs
<1>2. Len(Path) \in Nat
  BY DEF TreeAssumed
<1>3. made' \in 0..Len(Path)
  BY <1>1, <1>2 DEF DirectoriesInv
<1>4. at' \in [Nodes -> {Absent, "file", "dir", "link"}]
  BY <1>1 DEF DirectoriesInv
<1> QED BY <1>1, <1>3, <1>4 DEF DirectoriesInv

LEMMA CallKeepsOutside ==
  ASSUME DirectoriesInv, NEW leave \in BOOLEAN, Call(leave)
  PROVE  DirectoriesInv'
<1>1. /\ inside' = leave /\ kept' = kept /\ disabled' = disabled /\ made' = made /\ swaps' = swaps
      /\ done' \in {"ok", "running"} /\ (stack' = stack \/ stack' = <<Frame(Opens(Top))>>)
      /\ (at' = at \/ at' = [at EXCEPT ![Top] = Absent])
  BY DEF Call
<1>2. Top \in Nodes
  BY DEF Nodes
<1>3. stack' \in Seq(Frames)
  <2>1. stack \in Seq(Frames) /\ <<Frame(Opens(Top))>> \in Seq(Frames)
    BY <1>2, NewFrame DEF DirectoriesInv
  <2> QED BY <1>1, <2>1
<1>4. at' \in [Nodes -> {Absent, "file", "dir", "link"}]
  BY <1>1 DEF DirectoriesInv
<1>5. disabled' \in BOOLEAN /\ inside' \in BOOLEAN
  BY <1>1 DEF DirectoriesInv
<1> QED BY <1>1, <1>3, <1>4, <1>5, RmdirsKeeps

LEMMA ListKeepsOutside ==
  ASSUME DirectoriesInv, TreeAssumed, List
  PROVE  DirectoriesInv'
<1>1. /\ stack # << >> /\ at' = at /\ kept' = kept /\ done' = done
      /\ disabled' = disabled /\ inside' = inside /\ made' = made /\ swaps' = swaps
  BY DEF List, Rest
<1>2. PICK found \in SUBSET (Names(Innermost.dir) \ Innermost.listed), known \in BOOLEAN :
        stack' = Append(Outer, [Innermost EXCEPT !.listed = @ \cup found,
                    !.batch = {<<e, IF ~known \/ disabled THEN "unknown"
                                    ELSE IF Innermost.dir = Linked THEN "file" ELSE at[e]>> : e \in found}])
  BY DEF List, Sets
<1>3. stack \in Seq(Frames) /\ at \in [Nodes -> {Absent, "file", "dir", "link"}]
  BY DEF DirectoriesInv
<1>4. Innermost \in Frames /\ Outer \in Seq(Frames)
  BY <1>1, <1>3, LastOf DEF Innermost, Outer
<1>5. Innermost.dir \in Nodes /\ Innermost.dir # Linked
  BY <1>4 DEF Frames, TreeAssumed
<1>6. found \subseteq Entries
  BY <1>2, <1>5 DEF Names, Children
<1>7. \A e \in found : at[e] \in {Absent, "file", "dir", "link"}
  BY <1>3, <1>6 DEF Nodes
<1> DEFINE types == {<<e, IF ~known \/ disabled THEN "unknown"
                          ELSE IF Innermost.dir = Linked THEN "file" ELSE at[e]>> : e \in found}
<1>8. types \subseteq Entries \X {Absent, "file", "dir", "link", "unknown"}
  BY <1>6, <1>7
<1>9. stack' = Append(Outer, [Innermost EXCEPT !.listed = @ \cup found, !.batch = types])
  BY <1>2
<1> HIDE DEF types
<1>10. [Innermost EXCEPT !.listed = @ \cup found, !.batch = types] \in Frames
  BY <1>4, <1>6, <1>8 DEF Frames
<1>11. stack' \in Seq(Frames)
  BY <1>4, <1>9, <1>10
<1> QED BY <1>1, <1>11, RmdirsKeeps DEF DirectoriesInv

LEMMA ListFailsKeepsOutside ==
  ASSUME DirectoriesInv, ListFails
  PROVE  DirectoriesInv'
<1>1. /\ stack # << >> /\ at' = at /\ kept' = kept
      /\ disabled' = disabled /\ inside' = inside /\ made' = made /\ swaps' = swaps
      /\ IF Len(stack) = 1 THEN stack' = <<>> /\ done' = "failed" ELSE FailsAt(Outer)
  BY DEF ListFails, Rest
<1>2. stack \in Seq(Frames)
  BY DEF DirectoriesInv
<1>3. Outer \in Seq(Frames) /\ (Len(stack) # 1 => Outer # << >>)
  BY <1>1, <1>2, LastOf DEF Outer
<1>4. stack' \in Seq(Frames) /\ done' \in {"idle", "running", "ok", "failed"}
  <2>1. CASE Len(stack) = 1
    BY <1>1, <2>1
  <2>2. CASE Len(stack) # 1
    BY <1>1, <1>3, <2>2, FailsAtKeeps
  <2> QED BY <2>1, <2>2
<1> QED BY <1>1, <1>4, RmdirsKeeps DEF DirectoriesInv

LEMMA NoGetdentsKeepsOutside ==
  ASSUME DirectoriesInv, NoGetdents
  PROVE  DirectoriesInv'
<1>1. /\ at' = at /\ kept' = kept /\ disabled' = TRUE /\ inside' = inside /\ made' = made /\ swaps' = swaps
      /\ \/ stack' = <<Frame(Opens(Top))>> /\ done' = done
         \/ stack' = <<>> /\ done' = "failed"
  BY DEF NoGetdents
<1>2. Top \in Nodes
  BY DEF Nodes
<1>3. stack' \in Seq(Frames)
  <2>1. << >> \in Seq(Frames) /\ <<Frame(Opens(Top))>> \in Seq(Frames)
    BY <1>2, NewFrame
  <2> QED BY <1>1, <2>1
<1> QED BY <1>1, <1>3, RmdirsKeeps DEF DirectoriesInv

LEMMA EntryKeepsOutside ==
  ASSUME DirectoriesInv, TreeAssumed, Entry
  PROVE  DirectoriesInv'
<1>1. /\ stack # << >> /\ disabled' = disabled /\ inside' = inside /\ made' = made /\ swaps' = swaps
  BY DEF Entry, Rest
<1>2. stack \in Seq(Frames) /\ at \in [Nodes -> {Absent, "file", "dir", "link"}]
  BY DEF DirectoriesInv
<1>3. Innermost \in Frames /\ Outer \in Seq(Frames)
  BY <1>1, <1>2, LastOf DEF Innermost, Outer
<1>4. Innermost.dir # Linked
  BY <1>3 DEF Frames, TreeAssumed
<1>5. PICK b \in Innermost.batch :
        LET e == b[1] frame == [Innermost EXCEPT !.batch = @ \ {b}] IN
        /\ UNCHANGED kept
        /\ IF IsDir(e, b[2])
           THEN /\ UNCHANGED at
                /\ IF Openable(e) \/ Opens(e) = Linked
                   THEN stack' = Outer \o <<[frame EXCEPT !.entry = e], Frame(Opens(e))>> /\ UNCHANGED done
                   ELSE Fails
           ELSE \/ /\ at[e] \in {"file", "link"} /\ at' = [at EXCEPT ![e] = Absent]
                   /\ Sets(frame) /\ UNCHANGED done
                \/ Fails /\ UNCHANGED at
  BY <1>4 DEF Entry
<1>6. b[1] \in Entries /\ b[1] \in Nodes
  BY <1>3 DEF Frames, Nodes
<1> DEFINE frame == [Innermost EXCEPT !.batch = @ \ {b}]
<1>7. frame \in Frames /\ [frame EXCEPT !.entry = b[1]] \in Frames
  BY <1>3, <1>6 DEF Frames
<1>8. /\ kept' = kept
      /\ \/ at' = at /\ stack' = Outer \o <<[frame EXCEPT !.entry = b[1]], Frame(Opens(b[1]))>> /\ done' = done
         \/ at' = [at EXCEPT ![b[1]] = Absent] /\ stack' = Append(Outer, frame) /\ done' = done
         \/ at' = at /\ FailsAt(stack)
  BY <1>5 DEF Fails, Sets
<1> HIDE DEF frame
<1>9. Outer \o <<[frame EXCEPT !.entry = b[1]], Frame(Opens(b[1]))>> \in Seq(Frames)
  <2>1. Frame(Opens(b[1])) \in Frames
    BY <1>6, NewFrame
  <2>2. <<[frame EXCEPT !.entry = b[1]], Frame(Opens(b[1]))>> \in Seq(Frames)
    BY <1>7, <2>1
  <2> QED BY <1>3, <2>2
<1>10. Append(Outer, frame) \in Seq(Frames)
  BY <1>3, <1>7
<1>11. done \in {"idle", "running", "ok", "failed"}
  BY DEF DirectoriesInv
<1>12. stack' \in Seq(Frames) /\ done' \in {"idle", "running", "ok", "failed"}
  BY <1>1, <1>2, <1>8, <1>9, <1>10, <1>11, FailsAtKeeps
<1>13. at' \in [Nodes -> {Absent, "file", "dir", "link"}]
  BY <1>2, <1>8
<1> QED BY <1>1, <1>8, <1>12, <1>13, RmdirsKeeps DEF DirectoriesInv

LEMMA LeaveKeepsOutside ==
  ASSUME DirectoriesInv, LeaveDirectory
  PROVE  DirectoriesInv'
<1>1. /\ stack # << >> /\ kept' = kept
      /\ disabled' = disabled /\ inside' = inside /\ made' = made /\ swaps' = swaps
  BY DEF LeaveDirectory, Rest
<1>2. stack \in Seq(Frames) /\ at \in [Nodes -> {Absent, "file", "dir", "link"}]
  BY DEF DirectoriesInv
<1>3. Outer \in Seq(Frames) /\ (Len(stack) # 1 => Outer # << >>)
  BY <1>1, <1>2, LastOf DEF Outer
<1>4. CASE Len(stack) = 1
  <2>1. stack' = <<>> /\ done' \in {"ok", "failed"} /\ (at' = at \/ at' = [at EXCEPT ![Top] = Absent])
    BY <1>4 DEF LeaveDirectory
  <2>2. at' \in [Nodes -> {Absent, "file", "dir", "link"}] /\ stack' \in Seq(Frames)
    BY <1>2, <2>1
  <2> QED BY <1>1, <2>1, <2>2, RmdirsKeeps DEF DirectoriesInv
<1>5. CASE Len(stack) # 1
  <2>1. PICK e : e = Outer[Len(Outer)].entry
    OBVIOUS
  <2>2. \/ /\ at' = [at EXCEPT ![e] = Absent] /\ done' = done
           /\ stack' = [Outer EXCEPT ![Len(Outer)].entry = Absent]
        \/ FailsAt(Outer) /\ at' = at
    BY <1>5, <2>1 DEF LeaveDirectory
  <2>3. at' \in [Nodes -> {Absent, "file", "dir", "link"}]
    BY <1>2, <2>2
  <2>4. PICK k \in 1..Len(Outer) : k = Len(Outer)
    BY <1>3, <1>5
  <2>5. Outer[k] \in Frames
    BY <1>3
  <2>6. [Outer[k] EXCEPT !.entry = Absent] \in Frames
    BY <2>5 DEF Frames
  <2>7. [Outer EXCEPT ![k] = [Outer[k] EXCEPT !.entry = Absent]] \in Seq(Frames)
    BY <1>3, <2>6
  <2>8. stack' \in Seq(Frames) /\ done' \in {"idle", "running", "ok", "failed"}
    <3>1. CASE stack' = [Outer EXCEPT ![k].entry = Absent] /\ done' = done
      BY <2>7, <3>1 DEF DirectoriesInv
    <3>2. CASE FailsAt(Outer)
      BY <1>3, <1>5, <3>2, FailsAtKeeps
    <3> QED BY <2>2, <2>4, <3>1, <3>2
  <2> QED BY <1>1, <2>3, <2>8, RmdirsKeeps DEF DirectoriesInv
<1> QED BY <1>4, <1>5

\* Nothing outside of the tree is removed, for any tree, any path that is made meanwhile, any
\* size of the buffer and any number of entries that somebody replaces by links out of it.
THEOREM OutsideIsKept ==
  ASSUME Linked \notin Nodes, Path \in Seq(Nodes), MaxSwaps \in Nat
  PROVE  DirectoriesSpec => [](DirectoriesOK /\ OutsideKept)
<1>1. TreeAssumed
  BY DEF TreeAssumed
<1>2. DirectoriesInit => DirectoriesInv
  <2> SUFFICES ASSUME DirectoriesInit PROVE DirectoriesInv
    OBVIOUS
  <2>1. at \in [Nodes -> {"file", "dir"}] /\ stack = << >> /\ Len(Path) \in Nat
    BY DEF DirectoriesInit
  <2>2. at \in [Nodes -> {Absent, "file", "dir", "link"}] /\ stack \in Seq(Frames)
    BY <2>1
  <2>3. made \in 0..Len(Path) /\ swaps \in 0..MaxSwaps
    BY <2>1 DEF DirectoriesInit
  <2> QED BY <2>2, <2>3 DEF DirectoriesInit, DirectoriesInv
<1>3. DirectoriesInv /\ [DirectoriesNext]_dirVars => DirectoriesInv'
  <2>1. CASE UNCHANGED dirVars /\ DirectoriesInv
    BY <2>1 DEF dirVars, DirectoriesInv
  <2> QED BY <1>1, <2>1, SwapKeepsOutside, MkdirsKeepsOutside, CallKeepsOutside, ListKeepsOutside,
             ListFailsKeepsOutside, NoGetdentsKeepsOutside, EntryKeepsOutside, LeaveKeepsOutside
          DEF DirectoriesNext
<1>4. DirectoriesInv => DirectoriesOK /\ OutsideKept
  <2> SUFFICES ASSUME DirectoriesInv PROVE DirectoriesOK /\ OutsideKept
    OBVIOUS
  <2>1. ASSUME NEW i \in DOMAIN stack PROVE stack[i].dir \in Nodes \cup {Linked}
    <3>1. stack \in Seq(Frames)
      BY DEF DirectoriesInv
    <3>2. stack[i] \in Frames
      BY <3>1
    <3> QED BY <3>2 DEF Frames
  <2> QED BY <2>1 DEF DirectoriesInv, DirectoriesOK, OutsideKept
<1> QED BY <1>2, <1>3, <1>4, PTL DEF DirectoriesSpec

-----------------------------------------------------------------------------
(***************************************************************************)
(* Cgi.  OneResponse says what the web server has got at the end; the      *)
(* inductive invariant follows it there: every piece of body is held or on *)
(* the wire, the head is on the wire exactly if headerSent says so, and no *)
(* length is told before the request is handled.                           *)
(***************************************************************************)
Headers == [length : Nat \cup {None}, chunked : BOOLEAN, cookies : Nat]
Wires == [heads : Nat, told : Headers, status : {"ok", "set", "error"}, body : Nat, early : Nat]

CgiTyped ==
  /\ CgiOK /\ headers \in Headers /\ wire \in Wires
  /\ given \in [body : 0..MaxBody, cookies : Nat]

\* Until the request is answered: the head, the body and the cookies.
Underway ==
  step # "answered" =>
    /\ wire.heads = IF headerSent THEN 1 ELSE 0
    /\ ~headerSent => wire.body = 0
    /\ held + wire.body = given.body
    /\ ~handled => wire.told.length = None
    /\ headerSent => wire.told.cookies = headers.cookies

Lengths == wire.early = 0 /\ (wire.told.length # None => wire.told.length = wire.body)

Answered ==
  step = "answered" =>
    /\ wire.heads = 1
    /\ clean => wire.body = given.body /\ wire.told.cookies = given.cookies

HandledLate ==
  /\ IF handled THEN headerSent /\ step \in {"http", "answered"} ELSE headers.length = None
  /\ headers.cookies = given.cookies
  /\ step \in {"http", "other"} => ~clean

CgiInv == CgiTyped /\ Underway /\ Lengths /\ Answered /\ HandledLate

LEMMA CgiHas ==
  ASSUME CgiInv
  PROVE  /\ step \in {"new", "filters", "run", "finish", "http", "other", "answered", "failed", "crashed"}
         /\ filters \in 0..MaxFilters /\ ready \in BOOLEAN /\ handled \in BOOLEAN /\ headerSent \in BOOLEAN
         /\ buffered \in BOOLEAN /\ held \in 0..MaxBody /\ clean \in BOOLEAN
         /\ statusCode \in {"ok", "set", "error"}
         /\ headers \in Headers /\ wire \in Wires /\ given \in [body : 0..MaxBody, cookies : Nat]
         /\ Underway /\ Lengths /\ Answered /\ HandledLate
BY DEF CgiInv, CgiTyped, CgiOK

LEMMA WireHas ==
  ASSUME NEW w \in Wires
  PROVE  w.heads \in Nat /\ w.body \in Nat /\ w.early \in Nat /\ w.told \in Headers
BY DEF Wires

WithHead(w, a, h, st) == [w EXCEPT !.heads = a, !.told = h, !.status = st]
WithBody(w, b, e) == [w EXCEPT !.body = b, !.early = e]

LEMMA WireHead ==
  ASSUME NEW w \in Wires, NEW a \in Nat, NEW h \in Headers, NEW st \in {"ok", "set", "error"}
  PROVE  /\ WithHead(w, a, h, st) \in Wires /\ WithHead(w, a, h, st).heads = a
         /\ WithHead(w, a, h, st).told = h /\ WithHead(w, a, h, st).body = w.body
         /\ WithHead(w, a, h, st).early = w.early
BY DEF Wires, WithHead

LEMMA WireBody ==
  ASSUME NEW w \in Wires, NEW b \in Nat, NEW e \in Nat
  PROVE  /\ WithBody(w, b, e) \in Wires /\ WithBody(w, b, e).heads = w.heads
         /\ WithBody(w, b, e).told = w.told /\ WithBody(w, b, e).body = b /\ WithBody(w, b, e).early = e
BY DEF Wires, WithBody

\* The web server gets the head h, unless it has got one, and n pieces of body.
HasGot(sent, w, h, n, v) ==
  /\ v \in Wires /\ v.body = w.body + n
  /\ v.told = IF sent THEN w.told ELSE h
  /\ v.heads = IF sent THEN w.heads ELSE w.heads + 1
  /\ v.heads > 0 /\ w.early = 0 => v.early = 0

LEMMA Output ==
  ASSUME NEW w \in Wires, NEW h \in Headers, NEW n \in Nat, headerSent \in BOOLEAN,
         statusCode \in {"ok", "set", "error"}
  PROVE  HasGot(headerSent, w, h, n, RealOutput(OutputHeaders(w, h), n))
<1>1. PICK u : u = OutputHeaders(w, h)
  OBVIOUS
<1>2. /\ u \in Wires /\ u.body = w.body /\ u.early = w.early
      /\ u.told = IF headerSent THEN w.told ELSE h
      /\ u.heads = IF headerSent THEN w.heads ELSE w.heads + 1
  <2>1. w.heads \in Nat
    BY WireHas
  <2>2. CASE headerSent
    BY <1>1, <2>2 DEF OutputHeaders
  <2>3. CASE ~headerSent
    <3>1. PICK a \in Nat : a = w.heads + 1
      BY <2>1
    <3>2. u = WithHead(w, a, h, statusCode)
      BY <1>1, <2>3, <3>1 DEF OutputHeaders, Wires, WithHead
    <3>3. u \in Wires /\ u.heads = a /\ u.told = h /\ u.body = w.body /\ u.early = w.early
      <4>1. PICK st \in {"ok", "set", "error"} : st = statusCode
        OBVIOUS
      <4>2. u = WithHead(w, a, h, st)
        BY <3>2, <4>1
      <4> QED BY <4>2, WireHead
    <3> QED BY <2>3, <3>1, <3>3
  <2> QED BY <2>2, <2>3
<1>3. u.body \in Nat /\ u.early \in Nat /\ u.heads \in Nat
  BY <1>2, WireHas
<1>4. PICK b \in Nat, e \in Nat : b = u.body + n /\ e = IF u.heads = 0 THEN u.early + n ELSE u.early
  BY <1>3
<1>5. PICK v : v = RealOutput(OutputHeaders(w, h), n)
  OBVIOUS
<1>6. v = WithBody(u, b, e)
  BY <1>1, <1>2, <1>4, <1>5 DEF RealOutput, Wires, WithBody
<1>7. v \in Wires /\ v.heads = u.heads /\ v.told = u.told /\ v.body = b /\ v.early = e
  <2>1. u \in Wires
    BY <1>2
  <2>2. /\ WithBody(u, b, e) \in Wires /\ WithBody(u, b, e).heads = u.heads
        /\ WithBody(u, b, e).told = u.told /\ WithBody(u, b, e).body = b /\ WithBody(u, b, e).early = e
    BY <2>1, WireBody
  <2> QED BY <1>6, <2>2, SMTT(30)
<1>8. HasGot(headerSent, w, h, n, v)
  BY <1>2, <1>3, <1>4, <1>7 DEF HasGot
<1> QED BY <1>5, <1>8

\* FlushBody(): the head and all that is held go out.
LEMMA FlushBodyDoes ==
  ASSUME CgiInv, NEW all \in BOOLEAN, FlushBody(all), step # "answered", ~handled, MaxBody \in Nat
  PROVE  /\ wire' \in Wires /\ headers' \in Headers /\ held' = 0 /\ headerSent' = TRUE
         /\ wire'.heads = 1 /\ wire'.body = given.body
         /\ wire'.told.cookies = headers'.cookies /\ headers'.cookies = headers.cookies
         /\ wire'.early = 0 /\ (wire'.told.length # None => wire'.told.length = wire'.body)
         /\ ~all => wire'.told.length = None /\ headers'.length = None
<1>1. /\ wire' = RealOutput(OutputHeaders(wire, Announced(all)), held)
      /\ headers' = Announced(all) /\ held' = 0 /\ headerSent' = TRUE
  BY DEF FlushBody
<1>2. /\ headerSent \in BOOLEAN /\ statusCode \in {"ok", "set", "error"} /\ held \in Nat
      /\ headers \in Headers /\ wire \in Wires /\ given.body \in Nat
  BY CgiHas
<1>3. headers.length = None
  BY CgiHas DEF HandledLate
<1>4. /\ Announced(all) \in Headers /\ Announced(all).cookies = headers.cookies
      /\ headerSent => Announced(all) = headers
      /\ Announced(all).length # None => all /\ ~headerSent /\ Announced(all).length = held
  BY <1>2, <1>3 DEF Announced, Headers
<1>5. PICK h \in Headers : h = Announced(all)
  BY <1>4
<1>6. wire' = RealOutput(OutputHeaders(wire, h), held)
  BY <1>1, <1>5
<1>7. /\ wire' \in Wires /\ wire'.body = wire.body + held
      /\ wire'.told = IF headerSent THEN wire.told ELSE h
      /\ wire'.heads = IF headerSent THEN wire.heads ELSE wire.heads + 1
      /\ wire'.heads > 0 /\ wire.early = 0 => wire'.early = 0
  <2>1. HasGot(headerSent, wire, h, held, RealOutput(OutputHeaders(wire, h), held))
    BY <1>2, Output, Zenon
  <2> QED BY <1>6, <2>1 DEF HasGot
<1>8. /\ wire.heads = IF headerSent THEN 1 ELSE 0
      /\ ~headerSent => wire.body = 0
      /\ held + wire.body = given.body /\ wire.told.length = None
      /\ headerSent => wire.told.cookies = headers.cookies
  BY CgiHas DEF Underway
<1>9. wire.early = 0
  BY CgiHas DEF Lengths
<1>10. wire.body \in Nat
  BY <1>2 DEF Wires
<1>11. wire'.heads = 1 /\ wire'.early = 0 /\ wire'.body = given.body
  BY <1>2, <1>7, <1>8, <1>9, <1>10
<1>12. wire'.told.cookies = h.cookies
  BY <1>4, <1>5, <1>7, <1>8
<1>13. wire'.told.length # None => all /\ wire'.told.length = wire'.body
  <2>1. CASE headerSent
    BY <1>7, <1>8, <2>1
  <2>2. CASE ~headerSent
    BY <1>2, <1>4, <1>5, <1>7, <1>8, <2>2
  <2> QED BY <2>1, <2>2
<1> QED BY <1>1, <1>3, <1>4, <1>5, <1>7, <1>11, <1>12, <1>13

\* Steps that neither output nor end the request.
LEMMA NothingOutput ==
  ASSUME CgiInv, step # "answered", wire' = wire, headerSent' = headerSent, handled' = handled, held' = held,
         given'.body = given.body, given' \in [body : 0..MaxBody, cookies : Nat],
         headers' \in Headers, headers'.length = headers.length, headers'.cookies = given'.cookies,
         headerSent => headers' = headers,
         step' \in {"new", "filters", "run", "finish", "http", "other", "failed", "crashed"},
         clean' \in BOOLEAN, step' \in {"http", "other"} => ~clean', ~handled,
         filters' \in 0..MaxFilters, ready' \in BOOLEAN, buffered' \in BOOLEAN,
         statusCode' \in {"ok", "set", "error"}
  PROVE  CgiInv'
<1>1. CgiTyped'
  BY CgiHas DEF CgiTyped, CgiOK
<1>2. Underway'
  BY CgiHas DEF Underway
<1>3. Lengths' /\ Answered'
  BY CgiHas DEF Lengths, Answered
<1>4. HandledLate'
  BY CgiHas DEF HandledLate
<1> QED BY <1>1, <1>2, <1>3, <1>4 DEF CgiInv

\* The same, when the handler's headers and output stay too.
LEMMA ResponseStays ==
  ASSUME CgiInv, step # "answered", ~handled, UNCHANGED <<wire, response>>,
         step' \in {"new", "filters", "run", "finish", "http", "other", "failed", "crashed"},
         clean' \in BOOLEAN, step' \in {"http", "other"} => ~clean',
         filters' \in 0..MaxFilters, ready' \in BOOLEAN
  PROVE  CgiInv'
<1>1. /\ wire' = wire /\ handled' = handled /\ headerSent' = headerSent /\ buffered' = buffered
      /\ headers' = headers /\ held' = held /\ given' = given /\ statusCode' = statusCode
  BY DEF response
<1>2. headers.cookies = given.cookies
  BY CgiHas DEF HandledLate
<1>3. /\ given \in [body : 0..MaxBody, cookies : Nat] /\ headers \in Headers /\ buffered \in BOOLEAN
      /\ statusCode \in {"ok", "set", "error"}
  BY CgiHas
<1> QED BY <1>1, <1>2, <1>3, NothingOutput

LEMMA ConstructKeeps ==
  ASSUME CgiInv, Construct \/ Filter \/ Abandon, MaxFilters \in Nat
  PROVE  CgiInv'
<1>1. step # "answered" /\ ~handled /\ UNCHANGED <<wire, response>>
  BY CgiHas DEF Construct, Filter, Abandon, HandledLate
<1>2. /\ filters \in 0..MaxFilters /\ ready \in BOOLEAN /\ clean \in BOOLEAN
      /\ step \in {"http", "other"} => ~clean
  BY CgiHas DEF HandledLate
<1>3. CASE Construct
  <2>1. filters' = filters /\ ready' = ready /\ ((step' = "filters" /\ clean' = clean) \/ (step' = "http" /\ clean' = FALSE))
    BY <1>3 DEF Construct, Throws
  <2> QED BY <1>1, <1>2, <2>1, ResponseStays
<1>4. CASE Filter
  <2>1. filters' \in 0..MaxFilters
    BY <1>2, <1>4 DEF Filter
  <2>2. ready' \in BOOLEAN
    BY <1>2, <1>4 DEF Filter
  <2>3. \/ step' \in {"run", "finish", "filters"} /\ clean' = clean
        \/ step' = "http" /\ clean' = FALSE
    BY <1>4 DEF Filter, Throws
  <2> QED BY <1>1, <1>2, <2>1, <2>2, <2>3, ResponseStays
<1>5. CASE Abandon
  <2>1. step' = "failed" /\ clean' = clean /\ filters' = filters /\ ready' = ready
    BY <1>5 DEF Abandon
  <2> QED BY <1>1, <1>2, <2>1, ResponseStays
<1> QED BY <1>3, <1>4, <1>5

\* What the handler calls: a header or a cookie is set in time or the call throws.
LEMMA SetterKeeps ==
  ASSUME CgiInv, SetCookie \/ SetStatusCode \/ RunEnds \/ \E key \in {"length", "other"} : SetHeader(key)
  PROVE  CgiInv'
<1>1. step = "run" /\ filters' = filters /\ ready' = ready /\ handled' = handled
  BY DEF SetCookie, SetStatusCode, RunEnds, SetHeader, InRun
<1>2. headerSent' = headerSent /\ buffered' = buffered /\ held' = held /\ wire' = wire
  BY DEF SetCookie, SetStatusCode, RunEnds, SetHeader
<1>3. /\ ~handled /\ headers.length = None /\ headers.cookies = given.cookies
  BY <1>1, CgiHas DEF HandledLate
<1>4. /\ filters \in 0..MaxFilters /\ ready \in BOOLEAN /\ buffered \in BOOLEAN /\ clean \in BOOLEAN
      /\ statusCode \in {"ok", "set", "error"}
      /\ headers \in Headers /\ given \in [body : 0..MaxBody, cookies : Nat]
  BY CgiHas
<1>5. \/ step' = "other" /\ clean' = FALSE
      \/ step' = "http" /\ clean' = FALSE
      \/ step' \in {"run", "finish"} /\ clean' = clean
  BY <1>1 DEF SetCookie, SetStatusCode, RunEnds, SetHeader, SetHeaderInternal, Throws
<1>6. statusCode' \in {"ok", "set", "error"}
  BY <1>4 DEF SetCookie, SetStatusCode, RunEnds, SetHeader
<1>7. CASE SetCookie /\ ~headerSent
  <2>1. headers' = [headers EXCEPT !.cookies = @ + 1] /\ given' = [given EXCEPT !.cookies = @ + 1]
    BY <1>7 DEF SetCookie, SetHeaderInternal
  <2>2. /\ given'.body = given.body /\ given' \in [body : 0..MaxBody, cookies : Nat]
        /\ headers' \in Headers /\ headers'.length = headers.length /\ headers'.cookies = given'.cookies
    BY <1>3, <1>4, <2>1 DEF Headers
  <2> QED BY <1>1, <1>2, <1>3, <1>4, <1>5, <1>6, <1>7, <2>2, NothingOutput
<1>8. CASE headers' = headers /\ given' = given
  BY <1>1, <1>2, <1>3, <1>4, <1>5, <1>6, <1>8, NothingOutput
<1>9. SetCookie /\ headerSent => headers' = headers /\ given' = given
  BY DEF SetCookie, SetHeaderInternal
<1>10. (\E key \in {"length", "other"} : SetHeader(key)) => headers' = headers /\ given' = given
  BY DEF SetHeader, SetHeaderInternal, IsForbidden
<1>11. SetStatusCode \/ RunEnds => headers' = headers /\ given' = given
  BY DEF SetStatusCode, RunEnds
<1> QED BY <1>7, <1>8, <1>9, <1>10, <1>11

\* The handler outputs: while it runs nothing is said of the length.
LEMMA RunOutputs ==
  ASSUME CgiInv, step = "run", step' = "run", clean' = clean, handled' = handled, statusCode' = statusCode,
         filters' = filters, ready' = ready, buffered' \in BOOLEAN, wire' \in Wires, headers' \in Headers,
         given' \in [body : 0..MaxBody, cookies : Nat], given'.cookies = given.cookies,
         headers'.cookies = headers.cookies, headers'.length = None,
         held' \in 0..MaxBody, headerSent' \in BOOLEAN,
         wire'.heads = (IF headerSent' THEN 1 ELSE 0), ~headerSent' => wire'.body = 0,
         held' + wire'.body = given'.body, wire'.told.length = None, wire'.early = 0,
         headerSent' => wire'.told.cookies = headers'.cookies
  PROVE  CgiInv'
<1>1. CgiTyped'
  BY CgiHas DEF CgiTyped, CgiOK
<1>2. Underway' /\ Lengths' /\ Answered'
  BY DEF Underway, Lengths, Answered
<1>3. HandledLate'
  BY CgiHas DEF HandledLate
<1> QED BY <1>1, <1>2, <1>3 DEF CgiInv

LEMMA OutputBodyKeeps ==
  ASSUME CgiInv, OutputBody, MaxBody \in Nat
  PROVE  CgiInv'
<1>1. /\ step = "run" /\ filters' = filters /\ ready' = ready /\ handled' = handled
      /\ given.body < MaxBody /\ given' = [given EXCEPT !.body = @ + 1]
      /\ step' = step /\ clean' = clean /\ buffered' = buffered /\ headers' = headers /\ statusCode' = statusCode
      /\ IF buffered THEN held' = held + 1 /\ wire' = wire /\ headerSent' = headerSent
         ELSE wire' = RealOutput(OutputHeaders(wire, headers), 1) /\ headerSent' = TRUE /\ held' = held
  BY DEF OutputBody, InRun
<1>2. /\ ~handled /\ headers.length = None /\ headers.cookies = given.cookies
  BY <1>1, CgiHas DEF HandledLate
<1>3. /\ headerSent \in BOOLEAN /\ buffered \in BOOLEAN /\ statusCode \in {"ok", "set", "error"}
      /\ headers \in Headers /\ wire \in Wires /\ given \in [body : 0..MaxBody, cookies : Nat] /\ held \in 0..MaxBody
  BY CgiHas
<1>4. /\ wire.heads = IF headerSent THEN 1 ELSE 0
      /\ ~headerSent => wire.body = 0
      /\ held + wire.body = given.body /\ wire.told.length = None
      /\ headerSent => wire.told.cookies = headers.cookies
      /\ wire.early = 0
  BY <1>1, <1>2, CgiHas DEF Underway, Lengths
<1>5. /\ given' \in [body : 0..MaxBody, cookies : Nat] /\ given'.cookies = given.cookies
      /\ given'.body = given.body + 1
  BY <1>1, <1>3
<1>6. wire.body \in Nat /\ held \in Nat /\ given.body \in Nat
  BY <1>3 DEF Wires
<1>7. CASE buffered
  <2>1. held' = held + 1 /\ wire' = wire /\ headerSent' = headerSent
    BY <1>1, <1>7
  <2>2. held' \in 0..MaxBody /\ held' + wire'.body = given'.body
    BY <1>1, <1>4, <1>5, <1>6, <2>1
  <2> QED BY <1>1, <1>2, <1>3, <1>4, <1>5, <2>1, <2>2, RunOutputs
<1>8. CASE ~buffered
  <2>1. wire' = RealOutput(OutputHeaders(wire, headers), 1) /\ headerSent' = TRUE /\ held' = held
    BY <1>1, <1>8
  <2>2. /\ wire' \in Wires /\ wire'.body = wire.body + 1
        /\ wire'.told = IF headerSent THEN wire.told ELSE headers
        /\ wire'.heads = IF headerSent THEN wire.heads ELSE wire.heads + 1
        /\ wire'.heads > 0 /\ wire.early = 0 => wire'.early = 0
    <3>1. HasGot(headerSent, wire, headers, 1, RealOutput(OutputHeaders(wire, headers), 1))
      BY <1>3, Output
    <3> QED BY <2>1, <3>1 DEF HasGot
  <2>3. wire'.heads = 1 /\ wire'.early = 0
    BY <1>4, <2>2
  <2>4. wire'.told.length = None /\ wire'.told.cookies = headers.cookies
    BY <1>2, <1>4, <2>2
  <2>5. held' + wire'.body = given'.body
    BY <1>4, <1>5, <1>6, <2>1, <2>2
  <2> QED BY <1>1, <1>2, <1>3, <1>5, <2>1, <2>2, <2>3, <2>4, <2>5, RunOutputs
<1> QED BY <1>7, <1>8

LEMMA SetBodyBufferedKeeps ==
  ASSUME CgiInv, NEW on \in BOOLEAN, SetBodyBuffered(on), MaxBody \in Nat
  PROVE  CgiInv'
<1>1. /\ step = "run" /\ filters' = filters /\ ready' = ready /\ handled' = handled /\ buffered' = on
      /\ step' = step /\ clean' = clean /\ given' = given /\ statusCode' = statusCode
      /\ IF on THEN wire' = wire /\ headers' = headers /\ held' = held /\ headerSent' = headerSent
         ELSE FlushBody(handled)
  BY DEF SetBodyBuffered, InRun
<1>2. /\ ~handled /\ headers.length = None /\ headers.cookies = given.cookies /\ handled = FALSE
  BY <1>1, CgiHas DEF HandledLate
<1>3. /\ headers \in Headers /\ wire \in Wires /\ given \in [body : 0..MaxBody, cookies : Nat]
      /\ held \in 0..MaxBody /\ headerSent \in BOOLEAN
  BY CgiHas
<1>4. CASE on
  <2>1. wire' = wire /\ headers' = headers /\ held' = held /\ headerSent' = headerSent
    BY <1>1, <1>4
  <2>2. /\ wire.heads = IF headerSent THEN 1 ELSE 0
        /\ ~headerSent => wire.body = 0
        /\ held + wire.body = given.body /\ wire.told.length = None
        /\ headerSent => wire.told.cookies = headers.cookies
        /\ wire.early = 0
    BY <1>1, <1>2, CgiHas DEF Underway, Lengths
  <2> QED BY <1>1, <1>2, <1>3, <2>1, <2>2, RunOutputs
<1>5. CASE ~on
  <2>1. FlushBody(FALSE)
    BY <1>1, <1>2, <1>5
  <2>2. /\ wire' \in Wires /\ headers' \in Headers /\ held' = 0 /\ headerSent' = TRUE
        /\ wire'.heads = 1 /\ wire'.body = given.body
        /\ wire'.told.cookies = headers'.cookies /\ headers'.cookies = headers.cookies
        /\ wire'.early = 0
        /\ wire'.told.length = None /\ headers'.length = None
    BY <1>1, <1>2, <2>1, FlushBodyDoes
  <2>3. held' + wire'.body = given'.body /\ held' \in 0..MaxBody
    BY <1>1, <1>3, <2>2
  <2> QED BY <1>1, <1>3, <2>2, <2>3, RunOutputs
<1> QED BY <1>4, <1>5

LEMMA FinishResponseKeeps ==
  ASSUME CgiInv, FinishResponse, MaxBody \in Nat
  PROVE  CgiInv'
<1>1. /\ step = "finish" /\ handled' = TRUE /\ FlushBody(TRUE)
      /\ (step' = "answered" /\ clean' = clean) \/ (step' = "http" /\ clean' = FALSE)
      /\ filters' = filters /\ ready' = ready /\ buffered' = buffered /\ given' = given /\ statusCode' = statusCode
  BY DEF FinishResponse, Throws
<1>2. ~handled /\ headers.cookies = given.cookies
  BY <1>1, CgiHas DEF HandledLate
<1>3. /\ wire' \in Wires /\ headers' \in Headers /\ held' = 0 /\ headerSent' = TRUE
      /\ wire'.heads = 1 /\ wire'.body = given.body
      /\ wire'.told.cookies = headers'.cookies /\ headers'.cookies = headers.cookies
      /\ wire'.early = 0 /\ (wire'.told.length # None => wire'.told.length = wire'.body)
  BY <1>1, <1>2, FlushBodyDoes
<1>4. CgiTyped'
  <2>1. held' \in 0..MaxBody
    BY <1>3
  <2>2. step' \in {"answered", "http"} /\ clean' \in BOOLEAN
    BY <1>1, CgiHas
  <2>3. CgiOK'
    BY <1>1, <1>3, <2>1, <2>2, CgiHas DEF CgiOK
  <2> QED BY <1>1, <1>3, <2>3, CgiHas DEF CgiTyped
<1>5. held' + wire'.body = given'.body
  <2>1. given.body \in Nat
    BY CgiHas
  <2> QED BY <1>1, <1>3, <2>1
<1>6. Underway' /\ Lengths'
  BY <1>1, <1>3, <1>5 DEF Underway, Lengths
<1>7. Answered' /\ HandledLate'
  BY <1>1, <1>2, <1>3 DEF Answered, HandledLate
<1> QED BY <1>4, <1>6, <1>7 DEF CgiInv

\* ProcessException(): the default handler sends the only head, or finds one sent already.
LEMMA ProcessExceptionKeeps ==
  ASSUME CgiInv, ProcessException
  PROVE  CgiInv'
<1>1. /\ step = "http" /\ filters' = filters /\ ready' = ready /\ clean' = clean
      /\ handled' = handled /\ headerSent' = headerSent /\ buffered' = buffered /\ headers' = headers
      /\ held' = held /\ given' = given /\ statusCode' = statusCode
      /\ \/ step' = "answered" /\ wire' = IF Untouched THEN DefaultAnswer(wire) ELSE wire
         \/ step' = "crashed" /\ Untouched /\ wire' = wire
  BY DEF ProcessException, response
<1>2. ~clean
  BY <1>1, CgiHas DEF HandledLate
<1>3. CASE step' = "crashed"
  <2>1. ~headerSent
    BY <1>1, <1>3 DEF Untouched
  <2>2. ~handled
    BY <2>1, CgiHas DEF HandledLate
  <2>3. UNCHANGED <<wire, response>>
    BY <1>1, <1>3 DEF response
  <2> QED BY <1>1, <1>3, <2>2, <2>3, CgiHas, ResponseStays
<1>4. CASE step' = "answered" /\ headerSent
  <2>1. wire' = wire
    BY <1>1, <1>4 DEF Untouched
  <2>2. wire.heads = 1
    BY <1>1, <1>4, CgiHas DEF Underway
  <2>3. CgiTyped'
    BY <1>1, <1>4, <2>1, CgiHas DEF CgiTyped, CgiOK
  <2>4. Underway' /\ Lengths' /\ Answered'
    BY <1>1, <1>2, <1>4, <2>1, <2>2, CgiHas DEF Underway, Lengths, Answered
  <2>5. HandledLate'
    BY <1>1, <1>4, CgiHas DEF HandledLate
  <2> QED BY <2>3, <2>4, <2>5 DEF CgiInv
<1>5. CASE step' = "answered" /\ ~headerSent
  <2>1. wire' = DefaultAnswer(wire)
    BY <1>1, <1>5 DEF Untouched
  <2>2. wire \in Wires /\ wire.heads = 0 /\ wire.body = 0 /\ wire.early = 0
    BY <1>1, <1>5, CgiHas DEF Underway, Lengths
  <2>3. PICK w : w = [wire EXCEPT !.heads = @ + 1]
    OBVIOUS
  <2>4. w \in Wires /\ w.heads = 1 /\ w.body = 0 /\ w.early = 0
    BY <2>2, <2>3 DEF Wires
  <2>5. PICK v : v = RealOutput(w, 1)
    OBVIOUS
  <2>6. v \in Wires /\ v.heads = 1 /\ v.body = 1 /\ v.early = 0
    <3>1. v = WithBody(w, 1, 0)
      BY <2>4, <2>5 DEF RealOutput, Wires, WithBody
    <3>2. v \in Wires /\ v.heads = w.heads /\ v.body = 1 /\ v.early = 0
      BY <2>4, <3>1, WireBody
    <3> QED BY <2>4, <3>2
  <2>7. PICK h : h = [Fresh EXCEPT !.length = 1]
    OBVIOUS
  <2>8. h \in Headers /\ h.length = 1
    BY <2>7 DEF Fresh, Headers
  <2>9. wire' = [v EXCEPT !.told = h, !.status = "error"]
    BY <2>1, <2>3, <2>5, <2>7 DEF DefaultAnswer
  <2>10. wire' \in Wires /\ wire'.heads = 1 /\ wire'.body = 1 /\ wire'.early = 0 /\ wire'.told.length = 1
    BY <2>6, <2>8, <2>9 DEF Wires
  <2>11. CgiTyped'
    BY <1>1, <1>5, <2>10, CgiHas DEF CgiTyped, CgiOK
  <2>12. Underway' /\ Lengths' /\ Answered'
    BY <1>1, <1>2, <1>5, <2>10 DEF Underway, Lengths, Answered
  <2>13. HandledLate'
    BY <1>1, <1>2, <1>5, CgiHas DEF HandledLate
  <2> QED BY <2>11, <2>12, <2>13 DEF CgiInv
<1> QED BY <1>1, <1>3, <1>4, <1>5

\* The web server gets one head at most, before any body, and what it is told of the length
\* and the cookies is true, for any number of pieces of body and of filters.
THEOREM OneResponseOnly ==
  ASSUME MaxBody \in Nat, MaxFilters \in Nat
  PROVE  CgiSpec => [](CgiOK /\ OneResponse)
<1>1. CgiInit => CgiInv
  <2> SUFFICES ASSUME CgiInit PROVE CgiInv
    OBVIOUS
  <2>1. headers = Fresh /\ Fresh \in Headers /\ Fresh.length = None /\ Fresh.cookies = 0
    BY DEF CgiInit, Fresh, Headers
  <2>2. given = [body |-> 0, cookies |-> 0] /\ given \in [body : 0..MaxBody, cookies : Nat]
    BY DEF CgiInit
  <2>3. /\ wire \in Wires /\ wire.heads = 0 /\ wire.body = 0 /\ wire.early = 0 /\ wire.told = Fresh
    BY <2>1 DEF CgiInit, Wires
  <2>4. CgiOK
    <3>1. held \in 0..MaxBody /\ filters \in 0..MaxFilters
      BY DEF CgiInit
    <3> QED BY <3>1 DEF CgiInit, CgiOK
  <2>5. Underway /\ Lengths /\ Answered /\ HandledLate
    BY <2>1, <2>2, <2>3 DEF CgiInit, Underway, Lengths, Answered, HandledLate
  <2> QED BY <2>1, <2>2, <2>3, <2>4, <2>5 DEF CgiInv, CgiTyped
<1>2. CgiInv /\ [CgiNext]_cgiVars => CgiInv'
  <2>1. CASE UNCHANGED cgiVars /\ CgiInv
    <3>1. /\ step' = step /\ filters' = filters /\ ready' = ready /\ handled' = handled /\ headerSent' = headerSent
          /\ buffered' = buffered /\ headers' = headers /\ held' = held /\ given' = given
          /\ statusCode' = statusCode /\ wire' = wire /\ clean' = clean
      BY <2>1 DEF cgiVars
    <3>2. CgiTyped'
      BY <2>1, <3>1 DEF CgiInv, CgiTyped, CgiOK
    <3>3. Underway' /\ Lengths' /\ Answered' /\ HandledLate'
      BY <2>1, <3>1 DEF CgiInv, Underway, Lengths, Answered, HandledLate
    <3> QED BY <3>2, <3>3 DEF CgiInv
  <2> QED BY <2>1, ConstructKeeps, SetterKeeps, OutputBodyKeeps, SetBodyBufferedKeeps, FinishResponseKeeps,
             ProcessExceptionKeeps DEF CgiNext
<1>3. CgiInv => CgiOK /\ OneResponse
  <2> SUFFICES ASSUME CgiInv PROVE CgiOK /\ OneResponse
    OBVIOUS
  <2>1. wire.heads <= 1 /\ wire.early = 0
    BY CgiHas DEF Underway, Answered, Lengths
  <2>2. step = "answered" =>
          /\ wire.heads = 1
          /\ wire.told.length # None => wire.told.length = wire.body
          /\ clean => wire.body = given.body /\ wire.told.cookies = given.cookies
    BY CgiHas DEF Answered, Lengths
  <2> QED BY <2>1, <2>2 DEF CgiInv, CgiTyped, OneResponse
<1> QED BY <1>1, <1>2, <1>3, PTL DEF CgiSpec

-----------------------------------------------------------------------------
(***************************************************************************)
(* SafeIo, when no call on a blocking descriptor is made while another     *)
(* thread's is under way.  Punctual is not inductive: a call is in time    *)
(* because poll() is never given more than what is left, and because the   *)
(* descriptor does not block while a timed call is under way, whose flag   *)
(* the others have found set if there are any.  What the kernel has moved  *)
(* is what the loop has counted.                                           *)
(***************************************************************************)
AllOps == {"read", "read_all", "write", "write_all", "accept", "connect"}

\* What holds of the locals of a call, and of what a call has returned.
CallRecords ==
  [op : {"none"} \cup AllOps, phase : {"idle", "direct", "poll", "ready"}, flag : BOOLEAN,
   budget : -1..Milliseconds, wait : 0..Milliseconds,
   remain : 0..Count, result : 0..Count, moved : 0..Count]
GoodLocals(r) ==
  /\ r.moved = r.result /\ r.result + r.remain <= Count
  /\ r.op \notin {"read_all", "write_all"} => r.moved = 0
  /\ r.phase \in {"poll", "ready"} => r.budget >= 0
  /\ r.phase = "poll" => r.wait <= r.budget
GoodCalls == {r \in CallRecords : GoodLocals(r)}
GoodReturns ==
  {v \in [value : -1..Count, moved : 0..Count] : IF v.moved > 0 THEN v.value = v.moved ELSE v.value <= 0}

IoTyped ==
  /\ kind \in {"in", "out", "listen", "connect"} /\ nonblock \in BOOLEAN /\ credit \in 0..MaxCredit
  /\ hup \in BOOLEAN /\ sockets \in [Callers -> 0..1]
  /\ call \in [Callers -> GoodCalls] /\ ret \in [Callers -> GoodReturns]

OpsKept == \A c \in Callers : call[c].phase # "idle" => call[c].op \in Ops[kind]

NeverBlocks ==
  /\ \A c \in Callers : Timed(c) => nonblock
  /\ \A c, d \in Callers : c # d /\ Timed(c) /\ Timed(d) => call[c].flag

IoInv == IoTyped /\ OpsKept /\ NeverBlocks

IoAssumed == Alone /\ Milliseconds \in Nat /\ Count \in Nat /\ MaxCredit \in Nat

LEMMA OpsOf ==
  ASSUME NEW k \in {"in", "out", "listen", "connect"}, NEW o \in Ops[k]
  PROVE  /\ o \in AllOps
         /\ k \in {"listen", "connect"} => o \notin {"read_all", "write_all"}
<1>1. CASE k = "in"
  BY <1>1 DEF Ops, AllOps
<1>2. CASE k = "out"
  BY <1>2 DEF Ops, AllOps
<1>3. CASE k = "listen"
  BY <1>3 DEF Ops, AllOps
<1>4. CASE k = "connect"
  BY <1>4 DEF Ops, AllOps
<1> QED BY <1>1, <1>2, <1>3, <1>4

LEMMA OpsDomain == DOMAIN Ops = {"in", "out", "listen", "connect"}
BY DEF Ops

LEMMA GoodCallHas ==
  ASSUME NEW r \in GoodCalls, IoAssumed
  PROVE  /\ r.op \in {"none"} \cup AllOps /\ r.phase \in {"idle", "direct", "poll", "ready"} /\ r.flag \in BOOLEAN
         /\ r.budget \in Int /\ r.budget <= Milliseconds /\ -1 <= r.budget
         /\ r.wait \in Nat /\ r.wait <= Milliseconds
         /\ r.remain \in Nat /\ r.result \in Nat /\ r.moved = r.result
         /\ r.result + r.remain <= Count
         /\ r.op \notin {"read_all", "write_all"} => r.moved = 0
         /\ r.phase \in {"poll", "ready"} => r.budget >= 0
         /\ r.phase = "poll" => r.wait <= r.budget
BY DEF GoodCalls, CallRecords, GoodLocals, IoAssumed

\* The locals at the start of a timed call, when poll() returns, and after a millisecond.
TimedCall(o, f, n) ==
  [op |-> o, phase |-> "poll", flag |-> f, budget |-> Milliseconds, wait |-> Milliseconds,
   remain |-> n, result |-> 0, moved |-> 0]
Polled(r) == [r EXCEPT !.phase = "ready"]
Ticked(r) == [r EXCEPT !.budget = @ - 1, !.wait = IF @ > 0 THEN @ - 1 ELSE 0]

LEMMA TimedStarts ==
  ASSUME IoAssumed, NEW o \in AllOps, NEW f \in BOOLEAN, NEW n \in 1..Count
  PROVE  /\ TimedCall(o, f, n) \in GoodCalls
         /\ TimedCall(o, f, n).op = o /\ TimedCall(o, f, n).phase = "poll" /\ TimedCall(o, f, n).flag = f
<1>1. TimedCall(o, f, n) \in CallRecords
  BY DEF TimedCall, CallRecords, IoAssumed
<1>2. GoodLocals(TimedCall(o, f, n))
  BY DEF TimedCall, GoodLocals, IoAssumed
<1> QED BY <1>1, <1>2 DEF TimedCall, GoodCalls

LEMMA IdleGood ==
  ASSUME IoAssumed
  PROVE  Idle \in GoodCalls /\ Idle.phase = "idle"
BY DEF Idle, GoodCalls, CallRecords, GoodLocals, IoAssumed

LEMMA DirectStarts ==
  ASSUME IoAssumed, NEW o \in AllOps, NEW n \in 1..Count
  PROVE  DirectCall(o, n) \in GoodCalls /\ DirectCall(o, n).op = o /\ DirectCall(o, n).phase = "direct"
<1>1. DirectCall(o, n) =
        [op |-> o, phase |-> "direct", flag |-> FALSE, budget |-> 0, wait |-> 0,
         remain |-> n, result |-> 0, moved |-> 0]
  BY DEF DirectCall
<1>2. DirectCall(o, n) \in CallRecords
  BY <1>1 DEF CallRecords, IoAssumed
<1>3. GoodLocals(DirectCall(o, n))
  BY <1>1 DEF GoodLocals, IoAssumed
<1> QED BY <1>1, <1>2, <1>3 DEF GoodCalls

LEMMA GoodTurns ==
  ASSUME IoAssumed, NEW r \in GoodCalls, r.phase \in {"poll", "ready"}, NEW k \in 0..r.remain,
         k = 0 \/ r.op \in {"read_all", "write_all"}, NEW w, w = IF r.budget < 0 THEN 0 ELSE r.budget
  PROVE  /\ Turned(r, w, k) \in GoodCalls /\ Turned(r, w, k).phase = "poll"
         /\ Turned(r, w, k).op = r.op /\ Turned(r, w, k).flag = r.flag
<1>1. /\ w \in 0..Milliseconds /\ w <= r.budget /\ k \in Nat
      /\ r.moved + k \in 0..Count /\ r.result + k \in 0..Count /\ r.remain - k \in 0..Count
      /\ (r.result + k) + (r.remain - k) <= Count /\ r.moved = r.result
  BY GoodCallHas DEF IoAssumed
<1>2. r.op \notin {"read_all", "write_all"} => r.moved + k = 0
  BY GoodCallHas
<1>3. PICK m \in 0..Count, n \in 0..Count : m = r.result + k /\ n = r.remain - k /\ m + n <= Count
  BY <1>1
<1>4. Turned(r, w, k) = [r EXCEPT !.phase = "poll", !.wait = w, !.moved = m, !.result = m, !.remain = n]
  BY <1>1, <1>3 DEF Turned, GoodCalls, CallRecords
<1>5. r.budget >= 0 /\ (r.op \notin {"read_all", "write_all"} => m = 0)
  BY <1>1, <1>2, <1>3, GoodCallHas
<1>6. r \in CallRecords
  BY DEF GoodCalls
<1>7. /\ Turned(r, w, k).phase = "poll" /\ Turned(r, w, k).wait = w /\ Turned(r, w, k).moved = m
      /\ Turned(r, w, k).result = m /\ Turned(r, w, k).remain = n /\ Turned(r, w, k).budget = r.budget
      /\ Turned(r, w, k).op = r.op /\ Turned(r, w, k).flag = r.flag
  BY <1>4, <1>6, ZenonT(40) DEF CallRecords
<1>8. Turned(r, w, k) \in CallRecords
  BY <1>1, <1>3, <1>4, <1>6 DEF CallRecords
<1>9. GoodLocals(Turned(r, w, k))
  BY <1>1, <1>3, <1>5, <1>7 DEF GoodLocals
<1> QED BY <1>7, <1>8, <1>9 DEF GoodCalls

LEMMA GoodPolled ==
  ASSUME IoAssumed, NEW r \in GoodCalls, r.phase = "poll"
  PROVE  /\ Polled(r) \in GoodCalls /\ Polled(r).phase = "ready"
         /\ Polled(r).op = r.op /\ Polled(r).flag = r.flag
BY DEF GoodCalls, CallRecords, GoodLocals, Polled

LEMMA GoodTicked ==
  ASSUME IoAssumed, NEW r \in GoodCalls, r.phase = "poll", r.wait > 0
  PROVE  /\ Ticked(r) \in GoodCalls /\ Ticked(r).phase = "poll"
         /\ Ticked(r).op = r.op /\ Ticked(r).flag = r.flag
<1>1. PICK b \in 0..Milliseconds, w \in 0..Milliseconds : b = r.budget - 1 /\ w = r.wait - 1 /\ w <= b
  BY GoodCallHas DEF IoAssumed
<1>2. Ticked(r) = [r EXCEPT !.budget = b, !.wait = w]
  BY <1>1 DEF Ticked, GoodCalls, CallRecords
<1>3. r \in CallRecords /\ GoodLocals(r)
  BY DEF GoodCalls
<1>4. /\ Ticked(r).phase = "poll" /\ Ticked(r).budget = b /\ Ticked(r).wait = w
      /\ Ticked(r).op = r.op /\ Ticked(r).flag = r.flag /\ Ticked(r).moved = r.moved
      /\ Ticked(r).result = r.result /\ Ticked(r).remain = r.remain
  BY <1>2, <1>3 DEF CallRecords
<1>5. b \in -1..Milliseconds /\ b >= 0
  BY <1>1
<1>6. Ticked(r) \in CallRecords
  BY <1>1, <1>2, <1>3, <1>5 DEF CallRecords
<1>7. GoodLocals(Ticked(r))
  BY <1>1, <1>3, <1>4, <1>5 DEF GoodLocals
<1> QED BY <1>4, <1>6, <1>7 DEF GoodCalls

\* What a call may return.
LEMMA GoodReturn ==
  ASSUME IoAssumed, NEW v \in -1..Count, NEW m \in 0..Count, v = m \/ (m = 0 /\ v = -1)
  PROVE  [value |-> v, moved |-> m] \in GoodReturns
BY DEF GoodReturns, IoAssumed

LEMMA IoHas ==
  ASSUME IoInv
  PROVE  /\ kind \in {"in", "out", "listen", "connect"} /\ nonblock \in BOOLEAN /\ credit \in 0..MaxCredit
         /\ hup \in BOOLEAN /\ sockets \in [Callers -> 0..1]
         /\ call \in [Callers -> GoodCalls] /\ ret \in [Callers -> GoodReturns]
         /\ OpsKept /\ NeverBlocks
BY DEF IoInv, IoTyped

\* One call goes on, begins or ends.
LEMMA OneCall ==
  ASSUME IoInv, NEW c \in Callers, NEW r \in GoodCalls, call' = [call EXCEPT ![c] = r],
         r.phase # "idle" => r.op \in Ops[kind],
         kind' = kind, hup' = hup, sockets' = sockets, credit' \in 0..MaxCredit, nonblock' \in BOOLEAN,
         ret' \in [Callers -> GoodReturns], NeverBlocks'
  PROVE  IoInv'
<1>1. call' \in [Callers -> GoodCalls] /\ call'[c] = r /\ \A d \in Callers : d # c => call'[d] = call[d]
  BY IoHas
<1>2. IoTyped'
  BY <1>1, IoHas DEF IoTyped
<1>3. OpsKept'
  BY <1>1, IoHas DEF OpsKept
<1> QED BY <1>2, <1>3 DEF IoInv

LEMMA CallGoesOn ==
  ASSUME IoInv, NEW c \in Callers, Timed(c), NEW r \in GoodCalls, call' = [call EXCEPT ![c] = r],
         r.phase \in {"poll", "ready"}, r.op = call[c].op, r.flag = call[c].flag,
         kind' = kind, hup' = hup, sockets' = sockets, credit' \in 0..MaxCredit, nonblock' = nonblock,
         ret' = ret
  PROVE  IoInv'
<1>1. call'[c] = r /\ \A d \in Callers : d # c => call'[d] = call[d]
  BY IoHas
<1>2. \A d \in Callers : (Timed(d)' <=> Timed(d)) /\ call'[d].flag = call[d].flag
  BY <1>1 DEF Timed
<1>3. NeverBlocks'
  BY <1>2, IoHas DEF NeverBlocks
<1>4. r.op \in Ops[kind]
  BY IoHas DEF OpsKept, Timed
<1> QED BY <1>3, <1>4, IoHas, OneCall

LEMMA CallEnds ==
  ASSUME IoInv, IoAssumed, NEW c \in Callers, NEW v \in -1..Count, NEW m \in 0..Count,
         v = m \/ (m = 0 /\ v = -1), Returns(c, v, m),
         kind' = kind, hup' = hup, sockets' = sockets, credit' \in 0..MaxCredit,
         \/ nonblock' = nonblock \/ nonblock' = TRUE
         \/ Timed(c) /\ nonblock' = (nonblock /\ call[c].flag)
  PROVE  IoInv'
<1>1. call' = [call EXCEPT ![c] = Idle] /\ ret' = [ret EXCEPT ![c] = [value |-> v, moved |-> m]]
  BY DEF Returns
<1>2. Idle \in GoodCalls /\ Idle.phase = "idle" /\ [value |-> v, moved |-> m] \in GoodReturns
  BY IdleGood, GoodReturn
<1>3. ret' \in [Callers -> GoodReturns]
  <2>1. PICK x \in GoodReturns : x = [value |-> v, moved |-> m]
    BY <1>2
  <2> QED BY <1>1, <2>1, IoHas
<1>4. \A d \in Callers : d # c => call'[d] = call[d]
  BY <1>1, IoHas
<1>5. call'[c].phase = "idle"
  BY <1>1, <1>2, IoHas
<1>6. \A d \in Callers : Timed(d)' => d # c /\ Timed(d) /\ call'[d].flag = call[d].flag
  BY <1>4, <1>5 DEF Timed
<1>7. \A d \in Callers : d # c /\ Timed(d) => nonblock'
  BY IoHas DEF NeverBlocks
<1>8. NeverBlocks'
  BY <1>6, <1>7, IoHas DEF NeverBlocks
<1>9. nonblock' \in BOOLEAN
  BY IoHas
<1> QED BY <1>1, <1>2, <1>3, <1>8, <1>9, OneCall

\* The kernel moves bytes, so that there are fewer.
LEMMA CreditLeft ==
  ASSUME IoInv, IoAssumed, NEW k \in Nat, k <= credit, credit' = credit - k
  PROVE  credit' \in 0..MaxCredit
BY IoHas DEF IoAssumed

LEMMA TickKeeps ==
  ASSUME IoInv, IoAssumed, Tick
  PROVE  IoInv'
<1>1. /\ \A c \in Callers : InCall(c) => Blocks(c) \/ (call[c].phase = "poll" /\ call[c].wait > 0)
      /\ call' = [c \in Callers |-> IF ~Timed(c) \/ call[c].budget < 0 THEN call[c]
                    ELSE [call[c] EXCEPT !.budget = @ - 1, !.wait = IF @ > 0 THEN @ - 1 ELSE 0]]
      /\ kind' = kind /\ nonblock' = nonblock /\ credit' = credit /\ hup' = hup /\ ret' = ret /\ sockets' = sockets
  BY DEF Tick
<1>2. \A c \in Callers : call'[c] = IF ~Timed(c) \/ call[c].budget < 0 THEN call[c] ELSE Ticked(call[c])
  BY <1>1 DEF Ticked
<1>3. ASSUME NEW c \in Callers
      PROVE  /\ call'[c] \in GoodCalls /\ call'[c].op = call[c].op /\ call'[c].flag = call[c].flag
             /\ call'[c].phase = call[c].phase
  <2>1. CASE ~Timed(c) \/ call[c].budget < 0
    BY <1>2, <2>1, IoHas
  <2>2. CASE Timed(c) /\ ~(call[c].budget < 0)
    <3>1. nonblock
      BY <2>2, IoHas DEF NeverBlocks
    <3>2. call[c].phase = "poll" /\ call[c].wait > 0
      BY <1>1, <2>2, <3>1 DEF Timed, InCall, Blocks
    <3>3. call[c] \in GoodCalls
      BY IoHas
    <3> QED BY <1>2, <2>2, <3>2, <3>3, GoodTicked
  <2> QED BY <2>1, <2>2
<1>4. call' \in [Callers -> GoodCalls]
  BY <1>1, <1>3
<1>5. IoTyped'
  BY <1>1, <1>4, IoHas DEF IoTyped
<1>6. OpsKept'
  BY <1>1, <1>3, IoHas DEF OpsKept
<1>7. \A c \in Callers : Timed(c)' = Timed(c)
  BY <1>3 DEF Timed
<1>8. NeverBlocks'
  <2>1. /\ \A c \in Callers : Timed(c) => nonblock
        /\ \A c, d \in Callers : c # d /\ Timed(c) /\ Timed(d) => call[c].flag
    BY IoHas DEF NeverBlocks
  <2>2. \A c \in Callers : Timed(c)' => nonblock'
    BY <1>1, <1>7, <2>1
  <2>3. \A c, d \in Callers : c # d /\ Timed(c)' /\ Timed(d)' => call'[c].flag
    BY <1>3, <1>7, <2>1
  <2> QED BY <2>2, <2>3 DEF NeverBlocks
<1> QED BY <1>5, <1>6, <1>8 DEF IoInv

LEMMA CallTimedKeeps ==
  ASSUME IoInv, IoAssumed, NEW c \in Callers, NEW o \in Ops[kind], NEW n \in 1..Count, CallTimed(c, o, n)
  PROVE  IoInv'
<1>1. /\ ~InCall(c) /\ \A d \in Callers : InCall(d) => nonblock /\ (Timed(d) => call[d].flag)
      /\ kind' = kind /\ credit' = credit /\ hup' = hup /\ sockets' = sockets
  BY DEF CallTimed, IoAssumed
<1>2. o \in AllOps /\ nonblock \in BOOLEAN
  BY IoHas, OpsOf
<1>3. CASE call' = [call EXCEPT ![c] = TimedCall(o, nonblock, n)] /\ nonblock' = TRUE /\ Starts(c)
  <2>1. PICK r \in GoodCalls : r = TimedCall(o, nonblock, n) /\ r.op = o /\ r.phase = "poll" /\ r.flag = nonblock
    BY <1>2, TimedStarts
  <2>2. ret' \in [Callers -> GoodReturns]
    <3>1. Nothing \in GoodReturns
      BY DEF Nothing, GoodReturns, IoAssumed
    <3> QED BY <1>3, <3>1, IoHas DEF Starts
  <2>3. call' = [call EXCEPT ![c] = r]
    BY <1>3, <2>1
  <2>4. call'[c] = r /\ \A d \in Callers : d # c => call'[d] = call[d]
    BY <2>3, IoHas
  <2>5. \A d \in Callers : d # c /\ Timed(d)' => Timed(d) /\ call'[d].flag = call[d].flag
    BY <2>4 DEF Timed
  <2>6. \A d \in Callers : Timed(d) => nonblock /\ call[d].flag
    BY <1>1, IoHas DEF NeverBlocks, Timed, InCall
  <2>7. NeverBlocks'
    BY <1>3, <2>1, <2>4, <2>5, <2>6 DEF NeverBlocks
  <2> QED BY <1>1, <1>3, <2>1, <2>2, <2>3, <2>7, IoHas, OneCall
<1>4. CASE Returns(c, -1, 0) /\ nonblock' = TRUE
  <2>1. -1 \in -1..Count /\ 0 \in 0..Count
    BY DEF IoAssumed
  <2> QED BY <1>1, <1>4, <2>1, IoHas, CallEnds
<1>5. CASE Returns(c, 0, 0) /\ nonblock' = nonblock
  <2>1. 0 \in -1..Count /\ 0 \in 0..Count
    BY DEF IoAssumed
  <2> QED BY <1>1, <1>5, <2>1, IoHas, CallEnds
<1> QED BY <1>3, <1>4, <1>5 DEF CallTimed, TimedCall

LEMMA CallUntimedKeeps ==
  ASSUME IoInv, IoAssumed, NEW c \in Callers, NEW o \in Ops[kind], NEW n \in 1..Count, CallUntimed(c, o, n)
  PROVE  IoInv'
<1>1. /\ ~InCall(c) /\ call' = [call EXCEPT ![c] = DirectCall(o, n)] /\ Starts(c)
      /\ kind' = kind /\ nonblock' = nonblock /\ credit' = credit /\ hup' = hup /\ sockets' = sockets
  BY DEF CallUntimed
<1>2. o \in AllOps
  BY IoHas, OpsOf
<1>3. PICK r \in GoodCalls : r = DirectCall(o, n) /\ r.op = o /\ r.phase = "direct"
  BY <1>2, DirectStarts
<1>4. ret' \in [Callers -> GoodReturns]
  <2>1. Nothing \in GoodReturns
    BY DEF Nothing, GoodReturns, IoAssumed
  <2> QED BY <1>1, <2>1, IoHas DEF Starts
<1>5. call' = [call EXCEPT ![c] = r]
  BY <1>1, <1>3
<1>6. call'[c] = r /\ \A d \in Callers : d # c => call'[d] = call[d]
  BY <1>5, IoHas
<1>7. \A d \in Callers : Timed(d)' => Timed(d) /\ call'[d].flag = call[d].flag
  BY <1>3, <1>6 DEF Timed
<1>8. NeverBlocks'
  BY <1>1, <1>7, IoHas DEF NeverBlocks
<1> QED BY <1>1, <1>3, <1>4, <1>5, <1>8, IoHas, OneCall

LEMMA DirectKeeps ==
  ASSUME IoInv, IoAssumed, NEW c \in Callers, Direct(c)
  PROVE  IoInv'
<1>1. /\ kind' = kind /\ nonblock' = nonblock /\ hup' = hup /\ sockets' = sockets
      /\ \/ Returns(c, 0, 0) /\ credit' = credit
         \/ \E k \in 1..call[c].remain : k <= credit /\ Returns(c, k, k) /\ credit' = credit - k
         \/ Returns(c, -1, 0) /\ credit' = credit
  BY DEF Direct
<1>2. call[c].remain \in Nat /\ call[c].remain <= Count /\ call[c] \in GoodCalls
  <2>1. call[c] \in GoodCalls
    BY IoHas
  <2> QED BY <2>1, GoodCallHas DEF IoAssumed
<1>3. CASE Returns(c, 0, 0) /\ credit' = credit
  <2>1. 0 \in -1..Count /\ 0 \in 0..Count
    BY DEF IoAssumed
  <2> QED BY <1>1, <1>3, <2>1, IoHas, CallEnds
<1>4. CASE Returns(c, -1, 0) /\ credit' = credit
  <2>1. -1 \in -1..Count /\ 0 \in 0..Count
    BY DEF IoAssumed
  <2> QED BY <1>1, <1>4, <2>1, IoHas, CallEnds
<1>5. ASSUME NEW k \in 1..call[c].remain, k <= credit, Returns(c, k, k), credit' = credit - k PROVE IoInv'
  <2>1. k \in Nat /\ k \in -1..Count /\ k \in 0..Count
    BY <1>2 DEF IoAssumed
  <2>2. credit' \in 0..MaxCredit
    BY <1>5, <2>1, CreditLeft
  <2> QED BY <1>1, <1>5, <2>1, <2>2, CallEnds
<1> QED BY <1>1, <1>3, <1>4, <1>5

\* Another turn of the loop, with k bytes more.
LEMMA NextTurnKeeps ==
  ASSUME IoInv, IoAssumed, NEW c \in Callers, Timed(c), NEW k \in 0..call[c].remain, NextTurn(c, k),
         k = 0 \/ call[c].op \in {"read_all", "write_all"},
         kind' = kind, hup' = hup, sockets' = sockets, credit' \in 0..MaxCredit
  PROVE  IoInv'
<1>1. /\ call' = [call EXCEPT ![c] = Turned(call[c], Calculate(c), k)]
      /\ nonblock' = nonblock /\ ret' = ret
  BY DEF NextTurn
<1>2. call[c] \in GoodCalls /\ call[c].phase \in {"poll", "ready"}
  BY IoHas DEF Timed
<1>3. PICK w : w = Calculate(c)
  OBVIOUS
<1>4. w = IF call[c].budget < 0 THEN 0 ELSE call[c].budget
  BY <1>3 DEF Calculate
<1>5. /\ Turned(call[c], w, k) \in GoodCalls /\ Turned(call[c], w, k).phase = "poll"
      /\ Turned(call[c], w, k).op = call[c].op /\ Turned(call[c], w, k).flag = call[c].flag
  BY <1>2, <1>4, GoodTurns
<1>6. PICK r \in GoodCalls : r = Turned(call[c], w, k) /\ r.phase = "poll" /\ r.op = call[c].op /\ r.flag = call[c].flag
  BY <1>5
<1>7. call' = [call EXCEPT ![c] = r]
  BY <1>1, <1>3, <1>6
<1> QED BY <1>1, <1>6, <1>7, CallGoesOn

\* What the loop has counted is what was moved, or nothing was.
LEMMA SoFarGood ==
  ASSUME IoInv, IoAssumed, NEW c \in Callers
  PROVE  /\ SoFar(c) \in -1..Count /\ call[c].moved \in 0..Count /\ call[c].result = call[c].moved
         /\ SoFar(c) = call[c].moved \/ (call[c].moved = 0 /\ SoFar(c) = -1)
<1>1. call[c] \in GoodCalls
  BY IoHas
<1>2. /\ call[c].result \in Nat /\ call[c].remain \in Nat /\ call[c].moved = call[c].result
      /\ call[c].result + call[c].remain <= Count
  BY <1>1, GoodCallHas
<1> QED BY <1>2 DEF SoFar, IoAssumed

LEMMA PollTurnKeeps ==
  ASSUME IoInv, IoAssumed, NEW c \in Callers, PollTurn(c)
  PROVE  IoInv'
<1>1. /\ call[c].phase = "poll" /\ kind' = kind /\ credit' = credit /\ hup' = hup /\ sockets' = sockets
      /\ \/ call' = [call EXCEPT ![c].phase = "ready"] /\ nonblock' = nonblock /\ ret' = ret
         \/ NextTurn(c, 0)
         \/ Leaves(c, SoFar(c)) /\ nonblock' = nonblock
  BY DEF PollTurn
<1>2. Timed(c) /\ call[c] \in GoodCalls /\ credit' \in 0..MaxCredit
  BY <1>1, IoHas DEF Timed
<1>3. CASE call' = [call EXCEPT ![c].phase = "ready"] /\ nonblock' = nonblock /\ ret' = ret
  <2>1. PICK r \in GoodCalls : r = Polled(call[c]) /\ r.phase = "ready" /\ r.op = call[c].op /\ r.flag = call[c].flag
    BY <1>1, <1>2, GoodPolled
  <2>2. call' = [call EXCEPT ![c] = r]
    BY <1>3, <2>1 DEF Polled
  <2> QED BY <1>1, <1>2, <1>3, <2>1, <2>2, CallGoesOn
<1>4. CASE NextTurn(c, 0)
  <2>1. 0 \in 0..call[c].remain
    BY <1>2, GoodCallHas
  <2> QED BY <1>1, <1>2, <1>4, <2>1, NextTurnKeeps
<1>5. CASE Leaves(c, SoFar(c)) /\ nonblock' = nonblock
  <2>1. /\ SoFar(c) \in -1..Count /\ call[c].moved \in 0..Count
        /\ SoFar(c) = call[c].moved \/ (call[c].moved = 0 /\ SoFar(c) = -1)
    BY SoFarGood
  <2>2. Returns(c, SoFar(c), call[c].moved)
    BY <1>5 DEF Leaves
  <2> QED BY <1>1, <1>2, <1>5, <2>1, <2>2, CallEnds
<1> QED BY <1>1, <1>3, <1>4, <1>5

LEMMA MovesKeeps ==
  ASSUME IoInv, IoAssumed, NEW c \in Callers, Timed(c), NEW k \in 1..call[c].remain, Moves(c, k),
         kind' = kind, hup' = hup, sockets' = sockets
  PROVE  IoInv'
<1>1. /\ k <= credit /\ credit' = credit - k
      /\ IF k = call[c].remain \/ call[c].op \notin {"read_all", "write_all"}
         THEN FinishLoop(c, call[c].result + k, call[c].moved + k) ELSE NextTurn(c, k)
  BY DEF Moves
<1>2. call[c] \in GoodCalls
  BY IoHas
<1>3. /\ call[c].result \in Nat /\ call[c].remain \in Nat /\ call[c].moved = call[c].result
      /\ call[c].result + call[c].remain <= Count
  BY <1>2, GoodCallHas
<1>4. k \in Nat /\ k \in 0..call[c].remain
  BY <1>3
<1>5. credit' \in 0..MaxCredit
  BY <1>1, <1>4, CreditLeft
<1>6. CASE NextTurn(c, k) /\ call[c].op \in {"read_all", "write_all"}
  BY <1>4, <1>5, <1>6, NextTurnKeeps
<1>7. CASE FinishLoop(c, call[c].result + k, call[c].moved + k)
  <2>1. PICK m \in 0..Count : m = call[c].moved + k /\ m = call[c].result + k
    BY <1>3, <1>4 DEF IoAssumed
  <2>2. Returns(c, m, m) /\ nonblock' = (nonblock /\ call[c].flag)
    BY <1>7, <2>1 DEF FinishLoop
  <2>3. m \in -1..Count
    BY DEF IoAssumed
  <2> QED BY <1>5, <2>2, <2>3, CallEnds
<1> QED BY <1>1, <1>6, <1>7

LEMMA TransferKeeps ==
  ASSUME IoInv, IoAssumed, NEW c \in Callers, Transfer(c)
  PROVE  IoInv'
<1>1. /\ call[c].phase = "ready" /\ kind' = kind /\ hup' = hup /\ sockets' = sockets
  BY DEF Transfer
<1>2. Timed(c) /\ call[c] \in GoodCalls /\ credit \in 0..MaxCredit
  BY <1>1, IoHas DEF Timed
<1>3. /\ SoFar(c) \in -1..Count /\ call[c].moved \in 0..Count /\ call[c].result = call[c].moved
      /\ SoFar(c) = call[c].moved \/ (call[c].moved = 0 /\ SoFar(c) = -1)
  BY SoFarGood
<1>4. /\ -1 \in -1..Count /\ 0 \in -1..Count /\ 0 \in 0..Count /\ call[c].moved \in -1..Count
  BY <1>3 DEF IoAssumed
<1>5. kind \in {"listen", "connect"} => call[c].moved = 0
  <2>1. kind \in {"in", "out", "listen", "connect"} /\ call[c].op \in Ops[kind]
    BY <1>1, IoHas DEF OpsKept
  <2>2. kind \in {"listen", "connect"} => call[c].op \notin {"read_all", "write_all"}
    BY <2>1, OpsOf
  <2> QED BY <1>2, <2>2, GoodCallHas
<1>6. CASE kind = "connect" /\ Connected(c) /\ UNCHANGED credit
  <2>1. CASE FinishLoop(c, 0, 0)
    BY <1>1, <1>2, <1>4, <1>6, <2>1, CallEnds DEF FinishLoop
  <2>2. CASE Leaves(c, -1) /\ UNCHANGED nonblock
    <3>1. Returns(c, -1, 0)
      BY <1>5, <1>6, <2>2 DEF Leaves
    <3> QED BY <1>1, <1>2, <1>4, <1>6, <2>2, <3>1, CallEnds
  <2> QED BY <1>6, <2>1, <2>2 DEF Connected
<1>7. ASSUME NEW k \in 1..call[c].remain, Moves(c, k) PROVE IoInv'
  BY <1>1, <1>2, <1>7, MovesKeeps
<1>8. CASE MovesNone(c)
  <2>1. credit' \in 0..MaxCredit
    BY <1>2, <1>8 DEF MovesNone
  <2>2. CASE FinishLoop(c, call[c].result, call[c].moved)
    <3>1. Returns(c, call[c].moved, call[c].moved) /\ nonblock' = (nonblock /\ call[c].flag)
      BY <1>3, <2>2 DEF FinishLoop
    <3> QED BY <1>1, <1>2, <1>3, <1>4, <2>1, <3>1, CallEnds
  <2>3. CASE FinishLoop(c, SoFar(c), call[c].moved)
    <3>1. Returns(c, SoFar(c), call[c].moved) /\ nonblock' = (nonblock /\ call[c].flag)
      BY <2>3 DEF FinishLoop
    <3> QED BY <1>1, <1>2, <1>3, <1>4, <2>1, <3>1, CallEnds
  <2>4. CASE kind = "listen" /\ Leaves(c, -1) /\ UNCHANGED nonblock
    <3>1. Returns(c, -1, 0)
      BY <1>5, <2>4 DEF Leaves
    <3> QED BY <1>1, <1>4, <2>1, <2>4, <3>1, CallEnds
  <2>5. CASE NextTurn(c, 0)
    <3>1. 0 \in 0..call[c].remain
      BY <1>2, GoodCallHas
    <3> QED BY <1>1, <1>2, <2>1, <2>5, <3>1, NextTurnKeeps
  <2> QED BY <1>8, <2>2, <2>3, <2>4, <2>5 DEF MovesNone
<1> QED BY <1>6, <1>7, <1>8 DEF Transfer

\* Steps that concern no call.
LEMMA CallsStay ==
  ASSUME IoInv, call' = call, ret' = ret, kind' = kind, nonblock' = nonblock, hup' \in BOOLEAN,
         credit' \in 0..MaxCredit, sockets' \in [Callers -> 0..1]
  PROVE  IoInv'
<1>1. IoTyped'
  BY IoHas DEF IoTyped
<1>2. OpsKept' /\ NeverBlocks'
  BY IoHas DEF OpsKept, NeverBlocks, Timed
<1> QED BY <1>1, <1>2 DEF IoInv

LEMMA IoStep ==
  ASSUME IoInv, IoAssumed, IoNext
  PROVE  IoInv'
<1>1. CASE KernelFeeds \/ HangUp
  <2>1. call' = call /\ ret' = ret /\ kind' = kind /\ nonblock' = nonblock /\ sockets' = sockets
    BY <1>1 DEF KernelFeeds, HangUp
  <2>2. credit \in 0..MaxCredit /\ hup \in BOOLEAN
    BY IoHas
  <2>3. hup' \in BOOLEAN
    BY <1>1, <2>2 DEF KernelFeeds, HangUp
  <2>4. credit' = credit \/ (credit < MaxCredit /\ credit' = credit + 1)
    BY <1>1 DEF KernelFeeds, HangUp
  <2>5. credit' \in 0..MaxCredit
    BY <2>2, <2>4 DEF IoAssumed
  <2> QED BY <2>1, <2>3, <2>5, IoHas, CallsStay
<1>2. ASSUME NEW c \in Callers, ResolveAndConnect(c) \/ SafeClose(c) PROVE IoInv'
  <2>1. call' = call /\ ret' = ret /\ kind' = kind /\ nonblock' = nonblock /\ hup' = hup /\ credit' = credit
    BY <1>2 DEF ResolveAndConnect, SafeClose
  <2>2. sockets' \in [Callers -> 0..1]
    <3>1. PICK n \in 0..1 : sockets' = [sockets EXCEPT ![c] = n]
      BY <1>2 DEF ResolveAndConnect, SafeClose
    <3> QED BY <3>1, IoHas
  <2> QED BY <2>1, <2>2, IoHas, CallsStay
<1>3. ASSUME NEW c \in Callers, NEW o \in Ops[kind], NEW n \in 1..Count, CallTimed(c, o, n) \/ CallUntimed(c, o, n)
      PROVE  IoInv'
  BY <1>3, CallTimedKeeps, CallUntimedKeeps
<1> QED BY <1>1, <1>2, <1>3, TickKeeps, DirectKeeps, PollTurnKeeps, TransferKeeps DEF IoNext

\* A timed call is never late, and what a call returns is what the kernel has moved for it,
\* for any number of threads, any timeout and any amount, if no thread calls on a blocking
\* descriptor while a call of another is under way.
THEOREM TimedCallsAreHonest ==
  ASSUME Alone, Milliseconds \in Nat, Count \in Nat, MaxCredit \in Nat
  PROVE  IoSpec => []TimedCallsHonest
<1>1. IoAssumed
  BY DEF IoAssumed
<1>2. IoInit => IoInv
  <2> SUFFICES ASSUME IoInit PROVE IoInv
    OBVIOUS
  <2>1. Idle \in GoodCalls /\ Idle.phase = "idle"
    BY <1>1, IdleGood
  <2>2. Nothing \in GoodReturns
    BY DEF Nothing, GoodReturns
  <2>3. call = [c \in Callers |-> Idle] /\ ret = [c \in Callers |-> Nothing] /\ sockets = [c \in Callers |-> 0]
    BY DEF IoInit
  <2>4. call \in [Callers -> GoodCalls] /\ ret \in [Callers -> GoodReturns] /\ sockets \in [Callers -> 0..1]
    BY <2>1, <2>2, <2>3
  <2>5. IoTyped
    <3>1. credit \in 0..MaxCredit /\ nonblock \in BOOLEAN /\ hup \in BOOLEAN
      <4>1. 0 \in 0..MaxCredit
        BY <1>1 DEF IoAssumed
      <4>2. credit = 0 /\ hup = FALSE /\ nonblock \in BOOLEAN
        BY DEF IoInit
      <4> QED BY <4>1, <4>2
    <3>2. kind \in {"in", "out", "listen", "connect"}
      BY OpsDomain DEF IoInit
    <3> QED BY <2>4, <3>1, <3>2 DEF IoTyped
  <2>6. \A c \in Callers : call[c].phase = "idle"
    BY <2>1, <2>3
  <2>7. OpsKept /\ NeverBlocks
    BY <2>6 DEF OpsKept, NeverBlocks, Timed
  <2> QED BY <2>5, <2>7 DEF IoInv
<1>3. IoInv /\ [IoNext]_ioVars => IoInv'
  <2>1. CASE UNCHANGED ioVars /\ IoInv
    BY <2>1, IoHas, CallsStay DEF ioVars
  <2> QED BY <1>1, <2>1, IoStep
<1>4. IoInv => TimedCallsHonest
  <2> SUFFICES ASSUME IoInv, NEW c \in Callers
               PROVE  /\ Timed(c) => call[c].budget >= 0
                      /\ IF ret[c].moved > 0 THEN ret[c].value = ret[c].moved ELSE ret[c].value <= 0
    BY DEF TimedCallsHonest, Punctual, NothingSwallowed
  <2>1. call[c] \in GoodCalls /\ ret[c] \in GoodReturns
    BY IoHas
  <2>2. Timed(c) => call[c].budget >= 0
    BY <1>1, <2>1, GoodCallHas DEF Timed
  <2>3. IF ret[c].moved > 0 THEN ret[c].value = ret[c].moved ELSE ret[c].value <= 0
    BY <2>1 DEF GoodReturns
  <2> QED BY <2>2, <2>3
<1> QED BY <1>2, <1>3, <1>4, PTL DEF IoSpec

=============================================================================
