-------------------------- MODULE ThreadPoolProofs --------------------------
(***************************************************************************)
(* Proofs about FixedThreadPool, for any jobs and any finite set of        *)
(* threads: no wakeup is lost, a job is in one place, what Shutdown()      *)
(* cancels is alive, and Shutdown() leaves no thread.                      *)
(***************************************************************************)
EXTENDS FixedThreadPool, FiniteSetTheorems, TLAPS

(***************************************************************************)
(* The inductive invariant.  Before Shutdown() nobody is cancelled or has  *)
(* exited, and during Shutdown() nobody waits and no job is pending; a     *)
(* thread exists exactly while it is in _threads or still to be joined;    *)
(* and a thread runs a job exactly when it has one.                        *)
(***************************************************************************)
Stages ==
  /\ initializing => threads = {} /\ actives = {} /\ pending = <<>> /\ \A t \in Threads : state[t] # "waiting"
  /\ ~initializing => joining = {} /\ \A t \in Threads : state[t] # "exited"
  /\ cancelled \subseteq joining
  /\ \A t \in Threads : state[t] = "none" <=> t \notin threads \cup joining

RunsAgree == \A t \in Threads : state[t] = "running" <=> runs[t] # NoJob

FixedInv == TypeOK /\ Stages /\ RunsAgree /\ JobsInOnePlace /\ ActivesAlive /\ WakeupsSuffice

LEMMA FixedStarts == Init => FixedInv
<1> SUFFICES ASSUME Init PROVE FixedInv
  OBVIOUS
<1>1. TypeOK
  <2>0. initializing \in BOOLEAN
    BY Zenon DEF Init
  <2>1. pending \in Seq(Jobs)
    BY DEF Init
  <2>2. state \in [Threads -> {"none", "asking", "waiting", "running", "exited"}]
    BY DEF Init
  <2>3. runs \in [Threads -> Jobs \cup {NoJob}]
    BY DEF Init
  <2>4. where \in [Jobs -> {"new", "queued", "running", "done", "purged", "killed"}]
    BY DEF Init
  <2> QED BY <2>0, <2>1, <2>2, <2>3, <2>4 DEF Init, TypeOK
<1>2. Stages /\ RunsAgree
  BY DEF Init, Stages, RunsAgree
<1>3. ActivesAlive
  BY DEF Init, ActivesAlive, InState
<1>4. JobsInOnePlace
  BY FixedAssumption DEF Init, JobsInOnePlace, Rng
<1>5. InState("waiting") = {}
  BY DEF Init, InState
<1> QED BY <1>1, <1>2, <1>3, <1>4, <1>5 DEF FixedInv, WakeupsSuffice

-----------------------------------------------------------------------------
\* Threads in a place are finitely many; one that comes adds one, one that goes takes one.
LEMMA CountIn ==
  ASSUME NEW S \in SUBSET Threads, NEW t \in Threads
  PROVE  /\ Cardinality(S) \in Nat
         /\ t \notin S => Cardinality(S \cup {t}) = Cardinality(S) + 1
         /\ t \in S => Cardinality(S \ {t}) = Cardinality(S) - 1 /\ Cardinality(S) > 0
<1>1. IsFiniteSet(S)
  BY FixedAssumption, FS_Subset
<1>2. Cardinality(S) \in Nat
  BY <1>1, FS_CardinalityType
<1>3. t \notin S => Cardinality(S \cup {t}) = Cardinality(S) + 1
  BY <1>1, FS_AddElement
<1>4. t \in S => Cardinality(S \ {t}) = Cardinality(S) - 1
  BY <1>1, FS_RemoveElement
<1>5. t \in S => Cardinality(S) # 0
  BY <1>1, FS_EmptySet
<1> QED BY <1>2, <1>3, <1>4, <1>5

\* A thread t that goes from one place to another changes only the two.
Places == {"none", "asking", "waiting", "running", "exited"}

LEMMA Moves ==
  ASSUME TypeOK, NEW t \in Threads, NEW to \in Places, state' = [state EXCEPT ![t] = to]
  PROVE  /\ \A s \in Places : s # to => InState(s)' = InState(s) \ {t}
         /\ InState(to)' = InState(to) \cup {t}
<1>1. \A u \in Threads : state'[u] = IF u = t THEN to ELSE state[u]
  BY DEF TypeOK
<1>2. ASSUME NEW s \in Places, s # to PROVE InState(s)' = InState(s) \ {t}
  BY <1>1, <1>2 DEF InState
<1>3. InState(to)' = InState(to) \cup {t}
  BY <1>1 DEF InState
<1> QED BY <1>2, <1>3

\* No wakeup is lost by a thread that starts asking, or by one that waits for no job.
LEMMA AsksKeeps ==
  ASSUME TypeOK, WakeupsSuffice, NEW t \in Threads, state[t] # "asking",
         state' = [state EXCEPT ![t] = "asking"], pending' = pending
  PROVE  WakeupsSuffice'
<1>1. InState("waiting")' = InState("waiting") \ {t} /\ InState("asking")' = InState("asking") \cup {t}
  BY Moves DEF Places
<1>2. InState("asking") \in SUBSET Threads /\ t \notin InState("asking")
  BY DEF InState
<1>3. Cardinality(InState("asking")') = Cardinality(InState("asking")) + 1 /\ Cardinality(InState("asking")) \in Nat
  BY <1>1, <1>2, CountIn
<1>4. Len(pending) \in Nat
  BY DEF TypeOK
<1>5. InState("waiting")' # {} => InState("waiting") # {}
  BY <1>1
<1> QED BY <1>1, <1>3, <1>4, <1>5 DEF WakeupsSuffice

LEMMA NoJobsNoWakeups ==
  ASSUME pending' = <<>>
  PROVE  WakeupsSuffice'
<1>1. InState("asking")' \in SUBSET Threads
  BY DEF InState
<1>2. Cardinality(InState("asking")') \in Nat
  <2>1. IsFiniteSet(InState("asking")')
    BY <1>1, FixedAssumption, FS_Subset
  <2> QED BY <2>1, FS_CardinalityType
<1>3. Len(pending') = 0
  OBVIOUS
<1> QED BY <1>2, <1>3 DEF WakeupsSuffice

-----------------------------------------------------------------------------
\* AppendJob(): a job more, and a thread more that asks if any waits.
LEMMA AppendJobKeeps ==
  ASSUME FixedInv, NEW j \in Jobs, AppendJob(j)
  PROVE  FixedInv'
<1>1. /\ TypeOK /\ Stages /\ RunsAgree /\ JobsInOnePlace /\ ActivesAlive /\ WakeupsSuffice
      /\ where[j] = "new" /\ ~initializing /\ pending' = Append(pending, j)
      /\ where' = [where EXCEPT ![j] = "queued"] /\ WakeOne
      /\ UNCHANGED <<threads, actives, initializing, runs, cancelled, joining>>
  BY DEF FixedInv, AppendJob
<1>2. /\ pending \in Seq(Jobs) /\ Len(pending) \in Nat /\ pending' \in Seq(Jobs)
      /\ Len(pending') = Len(pending) + 1 /\ pending'[Len(pending) + 1] = j
      /\ \A i \in 1..Len(pending) : pending'[i] = pending[i]
  BY <1>1 DEF TypeOK
<1>3. \/ \E t \in InState("waiting") : state' = [state EXCEPT ![t] = "asking"]
      \/ InState("waiting") = {} /\ state' = state
  BY <1>1 DEF WakeOne
<1>4. /\ state' \in [Threads -> Places]
      /\ \A t \in Threads : state'[t] = state[t] \/ (state[t] = "waiting" /\ state'[t] = "asking")
  BY <1>1, <1>3 DEF TypeOK, InState, Places
<1>5. TypeOK'
  BY <1>1, <1>2, <1>4 DEF TypeOK, Places
<1>6. RunsAgree'
  BY <1>1, <1>4 DEF RunsAgree
<1>11. Stages'
  BY <1>1, <1>4 DEF Stages
<1>7. ActivesAlive'
  <2>1. actives \subseteq Threads
    BY <1>1 DEF TypeOK
  <2>2. \A t \in actives' : state'[t] \in {"running", "asking"}
    BY <1>1, <1>4, <2>1 DEF ActivesAlive
  <2>3. InState("running")' = InState("running")
    BY <1>4 DEF InState
  <2> QED BY <1>1, <2>2, <2>3 DEF ActivesAlive
<1>8. j \notin Rng(pending) /\ Rng(pending') = Rng(pending) \cup {j}
  <2>1. j \notin Rng(pending)
    BY <1>1 DEF JobsInOnePlace
  <2> QED BY <1>2, <2>1 DEF Rng
<1>9. JobsInOnePlace'
  <2>1. \A k \in Jobs : where'[k] = IF k = j THEN "queued" ELSE where[k]
    BY <1>1 DEF TypeOK
  <2>2. \A k \in Jobs : where'[k] = "queued" <=> k \in Rng(pending')
    BY <1>1, <1>8, <2>1 DEF JobsInOnePlace
  <2>3. \A i, k \in 1..Len(pending') : pending'[i] = pending'[k] => i = k
    <3>1. \A i \in 1..Len(pending) : pending[i] # j
      BY <1>8 DEF Rng
    <3>2. \A i, k \in 1..Len(pending) : pending[i] = pending[k] => i = k
      BY <1>1 DEF JobsInOnePlace
    <3> QED BY <1>2, <3>1, <3>2
  <2>4. \A k \in Jobs : where'[k] = "running" <=> \E t \in Threads : runs'[t] = k
    BY <1>1, <2>1 DEF JobsInOnePlace
  <2>5. \A t, u \in Threads : runs'[t] = runs'[u] /\ runs'[t] # NoJob => t = u
    BY <1>1 DEF JobsInOnePlace
  <2> QED BY <2>2, <2>3, <2>4, <2>5 DEF JobsInOnePlace
<1>10. WakeupsSuffice'
  <2>1. CASE InState("waiting") = {} /\ state' = state
    BY <2>1 DEF WakeupsSuffice, InState
  <2>2. ASSUME NEW t \in InState("waiting"), state' = [state EXCEPT ![t] = "asking"]
        PROVE  WakeupsSuffice'
    <3>1. t \in Threads /\ InState("asking")' = InState("asking") \cup {t}
      BY <1>1, <2>2, Moves DEF InState, Places
    <3>2. InState("asking") \in SUBSET Threads /\ t \notin InState("asking")
      BY DEF InState
    <3>3. Cardinality(InState("asking")') = Cardinality(InState("asking")) + 1 /\ Cardinality(InState("asking")) \in Nat
      BY <3>1, <3>2, CountIn
    <3>4. Len(pending) <= Cardinality(InState("asking"))
      BY <1>1, <2>2 DEF WakeupsSuffice
    <3> QED BY <1>2, <3>3, <3>4 DEF WakeupsSuffice
  <2> QED BY <1>3, <2>1, <2>2
<1> QED BY <1>5, <1>6, <1>7, <1>9, <1>10, <1>11 DEF FixedInv

\* RequestJob() takes a job from the list, which the thread that asked for it leaves asking.
LEMMA RequestRunKeeps ==
  ASSUME FixedInv, NEW t \in Threads, RequestRun(t)
  PROVE  FixedInv'
<1> DEFINE j == Head(pending)
<1>1. /\ TypeOK /\ Stages /\ RunsAgree /\ JobsInOnePlace /\ ActivesAlive /\ WakeupsSuffice
      /\ state[t] = "asking" /\ ~initializing /\ pending # <<>> /\ actives' = actives \cup {t}
      /\ state' = [state EXCEPT ![t] = "running"] /\ runs' = [runs EXCEPT ![t] = j]
      /\ where' = [where EXCEPT ![j] = "running"] /\ pending' = Tail(pending)
      /\ UNCHANGED <<threads, initializing, cancelled, joining>>
  BY DEF FixedInv, RequestRun
<1>2. /\ pending \in Seq(Jobs) /\ Len(pending) \in Nat /\ Len(pending) > 0 /\ j = pending[1] /\ j \in Jobs
      /\ pending' \in Seq(Jobs) /\ Len(pending') = Len(pending) - 1
      /\ \A i \in 1..Len(pending') : pending'[i] = pending[i + 1]
  BY <1>1 DEF TypeOK
<1> HIDE DEF j
<1>3. /\ state' \in [Threads -> Places] /\ state'[t] = "running"
      /\ \A u \in Threads : u # t => state'[u] = state[u]
  BY <1>1 DEF TypeOK, Places
<1>4. t \in threads
  BY <1>1 DEF Stages
<1>5. TypeOK'
  <2>1. runs' \in [Threads -> Jobs \cup {NoJob}]
    BY <1>1, <1>2 DEF TypeOK
  <2>2. where' \in [Jobs -> {"new", "queued", "running", "done", "purged", "killed"}]
    BY <1>1, <1>2 DEF TypeOK
  <2> QED BY <1>1, <1>2, <1>3, <1>4, <2>1, <2>2 DEF TypeOK, Places
<1>6. Stages'
  BY <1>1, <1>3 DEF Stages
<1>7. /\ runs[t] = NoJob /\ runs'[t] = j /\ j # NoJob /\ \A u \in Threads : u # t => runs'[u] = runs[u]
  BY <1>1, <1>2, FixedAssumption DEF RunsAgree, TypeOK
<1>8. RunsAgree'
  BY <1>1, <1>3, <1>7 DEF RunsAgree
<1>9. ActivesAlive'
  BY <1>1, <1>3 DEF ActivesAlive, InState
<1>10. JobsInOnePlace'
  <2>1. \A k \in Jobs : where'[k] = IF k = j THEN "running" ELSE where[k]
    BY <1>1, <1>2 DEF TypeOK
  <2>2. \A i, k \in 1..Len(pending) : pending[i] = pending[k] => i = k
    BY <1>1 DEF JobsInOnePlace
  <2>3. \A k \in Rng(pending') : k \in Rng(pending) /\ k # j
    BY <1>2, <2>2 DEF Rng
  <2>4. \A k \in Rng(pending) : k = j \/ k \in Rng(pending')
    <3> SUFFICES ASSUME NEW i \in 1..Len(pending) PROVE pending[i] = j \/ pending[i] \in Rng(pending')
      BY DEF Rng
    <3>1. CASE i = 1
      BY <1>2, <3>1
    <3>2. CASE i # 1
      <4>1. i - 1 \in 1..Len(pending') /\ (i - 1) + 1 = i
        BY <1>2, <3>2
      <4>2. pending'[i - 1] = pending[i]
        BY <1>2, <4>1
      <4> QED BY <4>1, <4>2 DEF Rng
    <3> QED BY <3>1, <3>2
  <2>5. \A k \in Jobs : where'[k] = "queued" <=> k \in Rng(pending')
    BY <1>1, <2>1, <2>3, <2>4 DEF JobsInOnePlace
  <2>6. \A i, k \in 1..Len(pending') : pending'[i] = pending'[k] => i = k
    BY <1>2, <2>2
  <2>7. j \in Rng(pending) /\ \A u \in Threads : runs[u] # j
    BY <1>1, <1>2 DEF JobsInOnePlace, Rng
  <2>8. \A k \in Jobs : where'[k] = "running" <=> \E u \in Threads : runs'[u] = k
    <3> TAKE k \in Jobs
    <3>1. CASE k = j
      BY <1>7, <2>1, <3>1
    <3>2. CASE k # j
      <4>1. where[k] = "running" <=> \E u \in Threads : runs[u] = k
        BY <1>1 DEF JobsInOnePlace
      <4>2. k # NoJob
        BY FixedAssumption
      <4> QED BY <1>7, <2>1, <3>2, <4>1, <4>2
    <3> QED BY <3>1, <3>2
  <2>9. \A s, u \in Threads : runs'[s] = runs'[u] /\ runs'[s] # NoJob => s = u
    BY <1>1, <1>7, <2>7 DEF JobsInOnePlace
  <2> QED BY <2>5, <2>6, <2>8, <2>9 DEF JobsInOnePlace
<1>11. WakeupsSuffice'
  <2>1. InState("waiting")' = InState("waiting") \ {t} /\ InState("asking")' = InState("asking") \ {t}
    BY <1>1, Moves DEF Places
  <2>2. InState("asking") \in SUBSET Threads /\ t \in InState("asking")
    BY <1>1 DEF InState
  <2>3. Cardinality(InState("asking")') = Cardinality(InState("asking")) - 1 /\ Cardinality(InState("asking")) \in Nat
    BY <2>1, <2>2, CountIn
  <2>4. InState("waiting")' # {} => Len(pending) <= Cardinality(InState("asking"))
    BY <1>1, <2>1 DEF WakeupsSuffice
  <2> QED BY <1>2, <2>3, <2>4 DEF WakeupsSuffice
<1> QED BY <1>5, <1>6, <1>8, <1>9, <1>10, <1>11 DEF FixedInv

\* A thread that goes to where it runs nothing, and has run nothing: nothing happens to jobs.
LEMMA IdleMoveKeeps ==
  ASSUME TypeOK, RunsAgree, JobsInOnePlace, NEW t \in Threads, NEW to \in Places,
         state[t] # "running", to # "running", state' = [state EXCEPT ![t] = to],
         UNCHANGED <<pending, runs, where>>
  PROVE  RunsAgree' /\ JobsInOnePlace' /\ InState("running")' = InState("running")
<1>1. \A u \in Threads : state'[u] = IF u = t THEN to ELSE state[u]
  BY DEF TypeOK, Places
<1>2. RunsAgree'
  BY <1>1 DEF RunsAgree
<1>3. JobsInOnePlace'
  BY DEF JobsInOnePlace
<1>4. InState("running")' = InState("running")
  BY <1>1 DEF InState
<1> QED BY <1>2, <1>3, <1>4

\* RequestJob() that returns to end the thread, or waits; and a wakeup without a signal.
LEMMA RequestKeeps ==
  ASSUME FixedInv, NEW t \in Threads, RequestExit(t) \/ RequestWait(t) \/ SpuriousWakeup(t)
  PROVE  FixedInv'
<1>1. TypeOK /\ Stages /\ RunsAgree /\ JobsInOnePlace /\ ActivesAlive /\ WakeupsSuffice
  BY DEF FixedInv
<1>2. CASE RequestExit(t)
  <2>1. /\ state[t] = "asking" /\ initializing /\ actives' = actives \ {t}
        /\ state' = [state EXCEPT ![t] = "exited"]
        /\ UNCHANGED <<threads, initializing, pending, runs, cancelled, joining, where>>
    BY <1>2 DEF RequestExit
  <2>2. RunsAgree' /\ JobsInOnePlace' /\ InState("running")' = InState("running")
    BY <1>1, <2>1, IdleMoveKeeps DEF Places
  <2>3. /\ state' \in [Threads -> Places] /\ state'[t] = "exited"
        /\ \A u \in Threads : u # t => state'[u] = state[u]
    BY <1>1, <2>1 DEF TypeOK, Places
  <2>4. TypeOK'
    BY <1>1, <2>1, <2>3 DEF TypeOK, Places
  <2>5. Stages'
    BY <1>1, <2>1, <2>3 DEF Stages
  <2>6. ActivesAlive'
    BY <1>1, <2>1 DEF ActivesAlive, Stages
  <2>7. WakeupsSuffice'
    BY <1>1, <2>1, NoJobsNoWakeups DEF Stages
  <2> QED BY <2>2, <2>4, <2>5, <2>6, <2>7 DEF FixedInv
<1>3. CASE RequestWait(t)
  <2>1. /\ state[t] = "asking" /\ ~initializing /\ pending = <<>> /\ actives' = actives \ {t}
        /\ state' = [state EXCEPT ![t] = "waiting"]
        /\ UNCHANGED <<threads, initializing, pending, runs, cancelled, joining, where>>
    BY <1>3 DEF RequestWait
  <2>2. RunsAgree' /\ JobsInOnePlace' /\ InState("running")' = InState("running")
    BY <1>1, <2>1, IdleMoveKeeps DEF Places
  <2>3. /\ state' \in [Threads -> Places] /\ state'[t] = "waiting"
        /\ \A u \in Threads : u # t => state'[u] = state[u]
    BY <1>1, <2>1 DEF TypeOK, Places
  <2>4. TypeOK'
    BY <1>1, <2>1, <2>3 DEF TypeOK, Places
  <2>5. Stages'
    BY <1>1, <2>1, <2>3 DEF Stages
  <2>6. ActivesAlive'
    <3>1. \A u \in actives' : u \in actives /\ u # t /\ u \in Threads
      BY <1>1, <2>1 DEF TypeOK
    <3>2. \A u \in actives' : state'[u] \in {"running", "asking"}
      BY <1>1, <2>3, <3>1 DEF ActivesAlive
    <3>3. InState("running") \subseteq actives /\ t \notin InState("running")
      BY <1>1, <2>1 DEF ActivesAlive, InState
    <3> QED BY <2>1, <2>2, <3>2, <3>3 DEF ActivesAlive
  <2>7. WakeupsSuffice'
    BY <2>1, NoJobsNoWakeups
  <2> QED BY <2>2, <2>4, <2>5, <2>6, <2>7 DEF FixedInv
<1>4. CASE SpuriousWakeup(t)
  <2>1. /\ state[t] = "waiting" /\ state' = [state EXCEPT ![t] = "asking"]
        /\ UNCHANGED <<threads, actives, initializing, pending, runs, cancelled, joining, where>>
    BY <1>4 DEF SpuriousWakeup
  <2>2. RunsAgree' /\ JobsInOnePlace' /\ InState("running")' = InState("running")
    BY <1>1, <2>1, IdleMoveKeeps DEF Places
  <2>3. /\ state' \in [Threads -> Places] /\ state'[t] = "asking"
        /\ \A u \in Threads : u # t => state'[u] = state[u]
    BY <1>1, <2>1 DEF TypeOK, Places
  <2>4. TypeOK'
    BY <1>1, <2>1, <2>3 DEF TypeOK, Places
  <2>5. Stages'
    BY <1>1, <2>1, <2>3 DEF Stages
  <2>6. ActivesAlive'
    <3>1. \A u \in actives : u \in Threads
      BY <1>1 DEF TypeOK
    <3>2. \A u \in actives' : state'[u] \in {"running", "asking"}
      BY <1>1, <2>1, <2>3, <3>1 DEF ActivesAlive
    <3> QED BY <1>1, <2>1, <2>2, <3>2 DEF ActivesAlive
  <2>7. WakeupsSuffice'
    BY <1>1, <2>1, AsksKeeps
  <2> QED BY <2>2, <2>4, <2>5, <2>6, <2>7 DEF FixedInv
<1> QED BY <1>2, <1>3, <1>4

\* The job of t is over, whatever becomes of t: one thread less runs one job less.
LEMMA JobEnds ==
  ASSUME TypeOK, RunsAgree, JobsInOnePlace, NEW t \in Threads, NEW to \in Places, to # "running",
         NEW end \in {"done", "killed"}, state' = [state EXCEPT ![t] = to],
         runs' = [runs EXCEPT ![t] = NoJob], pending' = pending,
         where' \in [Jobs -> {"new", "queued", "running", "done", "purged", "killed"}],
         \A k \in Jobs : where'[k] = IF k = runs[t] THEN end ELSE where[k]
  PROVE  RunsAgree' /\ JobsInOnePlace' /\ runs' \in [Threads -> Jobs \cup {NoJob}]
<1>1. /\ runs'[t] = NoJob /\ \A u \in Threads : u # t => runs'[u] = runs[u]
      /\ runs' \in [Threads -> Jobs \cup {NoJob}]
  BY DEF TypeOK
<1>2. state'[t] = to /\ \A u \in Threads : u # t => state'[u] = state[u]
  BY DEF TypeOK
<1>3. RunsAgree'
  BY <1>1, <1>2 DEF RunsAgree
<1>4. JobsInOnePlace'
  <2>1. \A k \in Jobs : where[k] = "running" <=> \E u \in Threads : runs[u] = k
    BY DEF JobsInOnePlace
  <2>2. \A u \in Threads : runs[u] = runs[t] /\ runs[u] # NoJob => u = t
    BY DEF JobsInOnePlace
  <2>3. \A k \in Jobs : where'[k] = "queued" <=> k \in Rng(pending)
    BY <2>1 DEF JobsInOnePlace
  <2>4. \A k \in Jobs : where'[k] = "running" <=> \E u \in Threads : runs'[u] = k
    <3> TAKE k \in Jobs
    <3>1. k # NoJob
      BY FixedAssumption
    <3>2. CASE k = runs[t]
      BY <1>1, <2>2, <3>1, <3>2
    <3>3. CASE k # runs[t]
      BY <1>1, <2>1, <3>1, <3>3
    <3> QED BY <3>2, <3>3
  <2>5. \A s, u \in Threads : runs'[s] = runs'[u] /\ runs'[s] # NoJob => s = u
    BY <1>1 DEF JobsInOnePlace
  <2>6. \A i, k \in 1..Len(pending) : pending[i] = pending[k] => i = k
    BY DEF JobsInOnePlace
  <2> QED BY <2>3, <2>4, <2>5, <2>6 DEF JobsInOnePlace
<1> QED BY <1>1, <1>3, <1>4

LEMMA FinishJobKeeps ==
  ASSUME FixedInv, NEW t \in Threads, FinishJob(t)
  PROVE  FixedInv'
<1>1. TypeOK /\ Stages /\ RunsAgree /\ JobsInOnePlace /\ ActivesAlive /\ WakeupsSuffice
  BY DEF FixedInv
<1>2. /\ state[t] = "running" /\ state' = [state EXCEPT ![t] = "asking"]
      /\ where' = [where EXCEPT ![runs[t]] = "done"] /\ runs' = [runs EXCEPT ![t] = NoJob]
      /\ UNCHANGED <<threads, actives, initializing, pending, cancelled, joining>>
  BY DEF FinishJob
<1>3. runs[t] \in Jobs
  BY <1>1, <1>2 DEF RunsAgree, TypeOK
<1>4. /\ where' \in [Jobs -> {"new", "queued", "running", "done", "purged", "killed"}]
      /\ \A k \in Jobs : where'[k] = IF k = runs[t] THEN "done" ELSE where[k]
  BY <1>1, <1>2, <1>3 DEF TypeOK
<1>5. RunsAgree' /\ JobsInOnePlace' /\ runs' \in [Threads -> Jobs \cup {NoJob}]
  BY <1>1, <1>2, <1>4, JobEnds DEF Places
<1>6. /\ state' \in [Threads -> Places] /\ state'[t] = "asking"
      /\ \A u \in Threads : u # t => state'[u] = state[u]
  BY <1>1, <1>2 DEF TypeOK, Places
<1>7. TypeOK'
  BY <1>1, <1>2, <1>4, <1>5, <1>6 DEF TypeOK, Places
<1>8. Stages'
  BY <1>1, <1>2, <1>6 DEF Stages
<1>9. ActivesAlive'
  <2>1. \A u \in actives : u \in Threads
    BY <1>1 DEF TypeOK
  <2>2. \A u \in actives' : state'[u] \in {"running", "asking"}
    BY <1>1, <1>2, <1>6, <2>1 DEF ActivesAlive
  <2>3. InState("running")' \subseteq InState("running")
    BY <1>6 DEF InState
  <2> QED BY <1>1, <1>2, <2>2, <2>3 DEF ActivesAlive
<1>10. WakeupsSuffice'
  BY <1>1, <1>2, AsksKeeps
<1> QED BY <1>5, <1>7, <1>8, <1>9, <1>10 DEF FixedInv

\* pthread_cancel() takes effect only during Shutdown(), when no job is pending.
LEMMA CancelKeeps ==
  ASSUME FixedInv, NEW t \in Threads, Cancel(t)
  PROVE  FixedInv'
<1>1. TypeOK /\ Stages /\ RunsAgree /\ JobsInOnePlace /\ ActivesAlive /\ WakeupsSuffice
  BY DEF FixedInv
<1>2. /\ t \in cancelled /\ state[t] \in {"running", "asking"} /\ state' = [state EXCEPT ![t] = "exited"]
      /\ where' = [j \in Jobs |-> IF j = runs[t] THEN "killed" ELSE where[j]]
      /\ runs' = [runs EXCEPT ![t] = NoJob]
      /\ UNCHANGED <<threads, actives, initializing, pending, cancelled, joining>>
  BY DEF Cancel
<1>3. initializing /\ actives = {} /\ pending = <<>>
  BY <1>1, <1>2 DEF Stages
<1>4. /\ where' \in [Jobs -> {"new", "queued", "running", "done", "purged", "killed"}]
      /\ \A k \in Jobs : where'[k] = IF k = runs[t] THEN "killed" ELSE where[k]
  BY <1>1, <1>2 DEF TypeOK
<1>5. RunsAgree' /\ JobsInOnePlace' /\ runs' \in [Threads -> Jobs \cup {NoJob}]
  BY <1>1, <1>2, <1>4, JobEnds DEF Places
<1>6. /\ state' \in [Threads -> Places] /\ state'[t] = "exited"
      /\ \A u \in Threads : u # t => state'[u] = state[u]
  BY <1>1, <1>2 DEF TypeOK, Places
<1>7. TypeOK'
  BY <1>1, <1>2, <1>4, <1>5, <1>6 DEF TypeOK, Places
<1>8. Stages'
  BY <1>1, <1>2, <1>3, <1>6 DEF Stages
<1>9. ActivesAlive' /\ WakeupsSuffice'
  BY <1>2, <1>3, NoJobsNoWakeups DEF ActivesAlive
<1> QED BY <1>5, <1>7, <1>8, <1>9 DEF FixedInv

\* Shutdown() purges, cancels those that are active and wakes those that wait.
LEMMA ShutdownKeeps ==
  ASSUME FixedInv, NEW wait_for_jobs_done \in BOOLEAN, Shutdown(wait_for_jobs_done)
  PROVE  FixedInv'
<1>1. TypeOK /\ Stages /\ RunsAgree /\ JobsInOnePlace /\ ActivesAlive /\ WakeupsSuffice
  BY DEF FixedInv
<1>2. /\ ~initializing /\ initializing' = TRUE /\ pending' = <<>>
      /\ where' = [j \in Jobs |-> IF where[j] = "queued" THEN "purged" ELSE where[j]]
      /\ cancelled' \subseteq actives /\ actives' = {} /\ joining' = threads /\ threads' = {} /\ runs' = runs
      /\ state' = [t \in Threads |-> IF state[t] = "waiting" THEN "asking" ELSE state[t]]
  BY DEF Shutdown, Purge, WakeAll
<1>3. /\ state' \in [Threads -> Places]
      /\ \A t \in Threads : state'[t] = IF state[t] = "waiting" THEN "asking" ELSE state[t]
  BY <1>1, <1>2 DEF TypeOK, Places
<1>4. /\ where' \in [Jobs -> {"new", "queued", "running", "done", "purged", "killed"}]
      /\ \A k \in Jobs : where'[k] = IF where[k] = "queued" THEN "purged" ELSE where[k]
  BY <1>1, <1>2 DEF TypeOK
<1>5. TypeOK'
  <2>1. pending' \in Seq(Jobs)
    BY <1>2
  <2> QED BY <1>1, <1>2, <1>3, <1>4, <2>1 DEF TypeOK, Places
<1>6. Stages'
  BY <1>1, <1>2, <1>3 DEF Stages, TypeOK
<1>7. RunsAgree'
  BY <1>1, <1>2, <1>3 DEF RunsAgree
<1>8. JobsInOnePlace'
  <2>1. Len(pending') = 0
    BY <1>2
  <2>2. \A k \in Jobs : where'[k] = "queued" <=> k \in Rng(pending')
    BY <1>4, <2>1 DEF Rng
  <2>3. \A k \in Jobs : where'[k] = "running" <=> \E t \in Threads : runs'[t] = k
    BY <1>1, <1>2, <1>4 DEF JobsInOnePlace
  <2>4. \A i, k \in 1..Len(pending') : pending'[i] = pending'[k] => i = k
    BY <2>1
  <2> QED BY <1>1, <1>2, <2>2, <2>3, <2>4 DEF JobsInOnePlace
<1>9. ActivesAlive' /\ WakeupsSuffice'
  BY <1>2, NoJobsNoWakeups DEF ActivesAlive
<1> QED BY <1>5, <1>6, <1>7, <1>8, <1>9 DEF FixedInv

\* Join() takes a thread that has exited; with the last one Shutdown() returns.
LEMMA JoinKeeps ==
  ASSUME FixedInv, ShutdownReturn \/ \E t \in Threads : Join(t)
  PROVE  FixedInv'
<1>1. TypeOK /\ Stages /\ RunsAgree /\ JobsInOnePlace /\ ActivesAlive /\ WakeupsSuffice
  BY DEF FixedInv
<1>2. CASE ShutdownReturn
  <2>1. /\ initializing /\ joining = {} /\ initializing' = FALSE
        /\ UNCHANGED <<threads, actives, pending, state, runs, cancelled, joining, where>>
    BY <1>2 DEF ShutdownReturn
  <2>2. \A t \in Threads : state[t] = "none"
    BY <1>1, <2>1 DEF Stages
  <2>3. TypeOK'
    BY <1>1, <2>1 DEF TypeOK
  <2>4. Stages'
    BY <1>1, <2>1, <2>2 DEF Stages
  <2>5. RunsAgree' /\ JobsInOnePlace'
    BY <1>1, <2>1 DEF RunsAgree, JobsInOnePlace
  <2>6. ActivesAlive'
    BY <1>1, <2>1, <2>2 DEF ActivesAlive, InState
  <2>7. WakeupsSuffice'
    BY <1>1, <2>1 DEF WakeupsSuffice, InState
  <2> QED BY <2>3, <2>4, <2>5, <2>6, <2>7 DEF FixedInv
<1>3. ASSUME NEW t \in Threads, Join(t) PROVE FixedInv'
  <2>1. /\ t \in joining /\ state[t] = "exited" /\ joining' = joining \ {t}
        /\ state' = [state EXCEPT ![t] = "none"] /\ cancelled' = cancelled \ {t}
        /\ UNCHANGED <<threads, actives, initializing, pending, runs, where>>
    BY <1>3 DEF Join
  <2>2. initializing /\ actives = {} /\ pending = <<>> /\ threads = {}
    BY <1>1, <2>1 DEF Stages
  <2>3. RunsAgree' /\ JobsInOnePlace'
    BY <1>1, <2>1, IdleMoveKeeps DEF Places
  <2>4. /\ state' \in [Threads -> Places] /\ state'[t] = "none"
        /\ \A u \in Threads : u # t => state'[u] = state[u]
    BY <1>1, <2>1 DEF TypeOK, Places
  <2>5. TypeOK'
    BY <1>1, <2>1, <2>4 DEF TypeOK, Places
  <2>6. Stages'
    BY <1>1, <2>1, <2>2, <2>4 DEF Stages
  <2>7. ActivesAlive' /\ WakeupsSuffice'
    BY <2>1, <2>2, NoJobsNoWakeups DEF ActivesAlive
  <2> QED BY <2>3, <2>5, <2>6, <2>7 DEF FixedInv
<1> QED BY <1>2, <1>3

LEMMA InitializeKeeps ==
  ASSUME FixedInv, Initialize
  PROVE  FixedInv'
<1>1. TypeOK /\ Stages /\ RunsAgree /\ JobsInOnePlace /\ ActivesAlive
  BY DEF FixedInv
<1>2. /\ ~initializing /\ threads = {} /\ threads' = Threads /\ state' = [t \in Threads |-> "asking"]
      /\ UNCHANGED <<actives, initializing, pending, runs, cancelled, joining, where>>
  BY DEF Initialize
<1>3. joining = {} /\ actives = {} /\ \A t \in Threads : state[t] = "none"
  BY <1>1, <1>2 DEF Stages, TypeOK
<1>4. state' \in [Threads -> Places] /\ \A t \in Threads : state'[t] = "asking"
  BY <1>2 DEF Places
<1>5. TypeOK'
  BY <1>1, <1>2, <1>3, <1>4 DEF TypeOK, Places
<1>6. Stages'
  BY <1>1, <1>2, <1>3, <1>4 DEF Stages
<1>7. RunsAgree' /\ JobsInOnePlace'
  BY <1>1, <1>2, <1>3, <1>4 DEF RunsAgree, JobsInOnePlace
<1>8. InState("running")' = {} /\ InState("waiting")' = {}
  BY <1>4 DEF InState
<1>9. ActivesAlive' /\ WakeupsSuffice'
  BY <1>2, <1>3, <1>8 DEF ActivesAlive, WakeupsSuffice
<1> QED BY <1>5, <1>6, <1>7, <1>9 DEF FixedInv

-----------------------------------------------------------------------------
LEMMA FixedStep == FixedInv /\ [Next]_vars => FixedInv'
<1> SUFFICES ASSUME FixedInv, [Next]_vars PROVE FixedInv'
  OBVIOUS
<1>1. CASE UNCHANGED vars
  BY <1>1 DEF vars, FixedInv, TypeOK, Stages, RunsAgree, JobsInOnePlace, ActivesAlive,
              WakeupsSuffice, InState
<1> QED BY <1>1, AppendJobKeeps, RequestRunKeeps, RequestKeeps, FinishJobKeeps, CancelKeeps,
           ShutdownKeeps, JoinKeeps, InitializeKeeps DEF Next

\* The invariant holds always, and its type invariant with it.
THEOREM FixedAlways == Spec => []FixedInv
  BY FixedStarts, FixedStep, PTL DEF Spec

\* A pool of any number of threads, for any jobs: AppendJob() loses no wakeup, a job is in
\* one place, _actives holds only threads that are alive, and Shutdown() leaves none.
THEOREM FixedIsSound == Spec => []FixedSound
<1>1. FixedInv => FixedSound
  <2> SUFFICES ASSUME FixedInv PROVE FixedSound
    OBVIOUS
  <2>1. ShutdownJoinsAll
    BY DEF FixedInv, Stages, ShutdownJoinsAll
  <2> QED BY <2>1 DEF FixedInv, FixedSound
<1> QED BY <1>1, FixedAlways, PTL

=============================================================================
