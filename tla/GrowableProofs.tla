--------------------------- MODULE GrowableProofs ---------------------------
(***************************************************************************)
(* Proofs about GrowableThreadPool: for any size of the batches, any       *)
(* threads, as many as a counter can count, and any jobs its counters say  *)
(* what its threads do.                                                    *)
(***************************************************************************)
EXTENDS GrowableThreadPool, FiniteSetTheorems, TLAPS

(***************************************************************************)
(* The inductive invariant.  GrowableSound says nothing of a pool that is  *)
(* shut down; to know that the counters are right again when Shutdown()    *)
(* returns, Leaving bounds them by the threads that have still to quit and *)
(* by the reapers.  Lists says which list each thread is in.               *)
(***************************************************************************)
PoolType ==
  /\ threads \subseteq Threads /\ actives \subseteq threads
  /\ exited \in Seq(Threads) /\ exits \in Nat
  /\ initializing \in BOOLEAN /\ pending \in Seq(Jobs)
  /\ pc \in [Threads -> Places] /\ need \in [Threads -> Nat]
  /\ joining \subseteq Threads /\ cancelled \subseteq joining

Lists ==
  /\ \A t \in Threads : pc[t] = "none" <=> t \notin threads \cup joining \cup Rng(exited)
  /\ \A t \in threads : pc[t] # "exited" /\ t \notin joining \cup Rng(exited)
  /\ \A t \in Rng(exited) : pc[t] = "exited" /\ t \notin joining
  /\ \A i, j \in 1..Len(exited) : exited[i] = exited[j] => i = j

Roles ==
  /\ \A t \in actives : pc[t] \in {"running", "start"}
  /\ \A t \in Threads : need[t] > 0 <=> pc[t] \in Reaping

Stages ==
  /\ initializing => threads = {} /\ pending = <<>>
  /\ ~initializing => joining = {}

Quitters == {t \in joining \ cancelled : pc[t] # "exited"}
Leaving ==
  initializing => /\ exits <= Cardinality(Quitters)
                  /\ Len(exited) <= Cardinality(Awaited)
                  /\ At({"waiting"}) # {} => exits = 0

GrowableInv ==
  /\ PoolType /\ Lists /\ Roles /\ Stages /\ Leaving /\ GrowableSound
  /\ IsFiniteSet(Awaited)

-----------------------------------------------------------------------------
(***************************************************************************)
(* Counting threads.                                                       *)
(***************************************************************************)
Busy == At({"start", "try", "woken"} \cup Reaping)
Waiting == At({"waiting"})

\* Sets of threads can be counted.
LEMMA Counted ==
  ASSUME NEW S \in SUBSET Threads
  PROVE  IsFiniteSet(S) /\ Cardinality(S) \in Nat /\ Cardinality(S) < Modulus
<1>1. IsFiniteSet(Threads) /\ Cardinality(Threads) \in Nat /\ Cardinality(Threads) < Modulus
  BY GrowableAssumption, FS_CardinalityType
<1>2. IsFiniteSet(S) /\ Cardinality(S) <= Cardinality(Threads) /\ Cardinality(S) \in Nat
  BY <1>1, FS_Subset, FS_CardinalityType
<1> QED BY <1>1, <1>2 DEF Modulus

LEMMA CountOne ==
  ASSUME NEW S \in SUBSET Threads, NEW t \in Threads
  PROVE  /\ t \notin S => Cardinality(S \cup {t}) = Cardinality(S) + 1
         /\ t \in S => Cardinality(S \ {t}) = Cardinality(S) - 1
         /\ t \notin S => Cardinality(S \ {t}) = Cardinality(S)
<1>1. IsFiniteSet(S)
  BY Counted
<1>2. t \notin S => S \ {t} = S
  OBVIOUS
<1> QED BY <1>1, <1>2, FS_AddElement, FS_RemoveElement

LEMMA CountBoth ==
  ASSUME NEW S \in SUBSET Threads, NEW R \in SUBSET Threads, S \cap R = {}
  PROVE  Cardinality(S \cup R) = Cardinality(S) + Cardinality(R)
<1>1. IsFiniteSet(S) /\ IsFiniteSet(R) /\ Cardinality(S) \in Nat /\ Cardinality(R) \in Nat
  BY Counted
<1>2. Cardinality(S \cup R) = Cardinality(S) + Cardinality(R) - Cardinality({})
  BY <1>1, FS_Union
<1>3. Cardinality({}) = 0
  BY FS_EmptySet
<1> QED BY <1>1, <1>2, <1>3

LEMMA CountLess ==
  ASSUME NEW S \in SUBSET Threads, NEW R \in SUBSET S
  PROVE  Cardinality(R) <= Cardinality(S)
BY Counted, FS_Subset

\* WakeOne() n times wakes n threads, or all that wait.
LEMMA WakesAre ==
  ASSUME NEW places, NEW n \in Nat, NEW w \in Wakes(places, n)
  PROVE  w \subseteq At(places) /\ (w = At(places) \/ Cardinality(w) = n)
BY DEF Wakes

\* A count of threads does not wrap around.
LEMMA SizeTSame == ASSUME NEW n \in Nat, n < Modulus PROVE SizeT(n) = n
BY DEF SizeT, Modulus

\* MaybeShrink() acts as soon as there are Threshold idle threads, and takes one batch.
LEMMA Division ==
  ASSUME NEW q \in Nat, NEW r \in Nat, r < Size
  PROVE  (q * Size + r) \div Size = q /\ (q * Size + r) % Size = r
BY GrowableAssumption, SMTT(30)

LEMMA ThresholdIs == Threshold \in Nat /\ Size < Threshold /\ ShrinkBy(Threshold) = Size
<1>1. PICK h \in Nat : Threshold = Size + h /\ 1 <= h /\ h <= Size
  <2>1. PICK h \in Int : h = (Size \div 2) + (Size % 2)
    BY GrowableAssumption
  <2>2. 1 <= h /\ h <= Size
    BY <2>1, GrowableAssumption
  <2> QED BY <2>1, <2>2, GrowableAssumption DEF Threshold
<1>2. CASE h < Size
  <2>1. Threshold = 1 * Size + h
    BY <1>1, GrowableAssumption
  <2>2. Threshold \div Size = 1 /\ Threshold % Size = h
    BY <1>2, <2>1, Division
  <2> QED BY <1>1, <2>2, GrowableAssumption DEF ShrinkBy
<1>3. CASE h = Size
  <2>1. Threshold = 2 * Size + 0
    BY <1>1, <1>3, GrowableAssumption
  <2>2. Threshold \div Size = 2 /\ Threshold % Size = 0
    BY <2>1, Division, GrowableAssumption
  <2> QED BY <1>1, <1>3, <2>2, GrowableAssumption DEF ShrinkBy
<1> QED BY <1>1, <1>2, <1>3, GrowableAssumption

-----------------------------------------------------------------------------
(***************************************************************************)
(* What the reapers wait for.                                              *)
(***************************************************************************)
LEMMA AwaitedOne ==
  ASSUME need \in [Threads -> Nat], IsFiniteSet(Awaited), NEW t \in Threads, need[t] > 0,
         need' = [need EXCEPT ![t] = @ - 1]
  PROVE  IsFiniteSet(Awaited') /\ Cardinality(Awaited') = Cardinality(Awaited) - 1
<1>1. need'[t] = need[t] - 1 /\ \A u \in Threads : u # t => need'[u] = need[u]
  OBVIOUS
<1>2. Awaited' = Awaited \ {<<t, need[t]>>}
  BY <1>1 DEF Awaited
<1>3. <<t, need[t]>> \in Awaited
  BY DEF Awaited
<1> QED BY <1>2, <1>3, FS_RemoveElement

LEMMA AwaitedMore ==
  ASSUME need \in [Threads -> Nat], IsFiniteSet(Awaited), NEW t \in Threads, need[t] = 0,
         NEW k \in Nat, need' = [need EXCEPT ![t] = k]
  PROVE  IsFiniteSet(Awaited') /\ Cardinality(Awaited') = Cardinality(Awaited) + k
<1>1. need'[t] = k /\ \A u \in Threads : u # t => need'[u] = need[u]
  OBVIOUS
<1> DEFINE new == {t} \X (1..k)
<1>2. Awaited' = Awaited \cup new
  BY <1>1 DEF Awaited
<1>3. Awaited \cap new = {}
  BY DEF Awaited
<1>4. IsFiniteSet(new) /\ Cardinality(new) = k
  <2>1. IsFiniteSet({t}) /\ Cardinality({t}) = 1
    BY FS_Singleton
  <2>2. IsFiniteSet(1..k) /\ Cardinality(1..k) = k
    BY FS_Interval
  <2>3. IsFiniteSet({t} \X (1..k)) /\ Cardinality({t} \X (1..k)) = Cardinality({t}) * Cardinality(1..k)
    BY <2>1, <2>2, FS_Product, Zenon
  <2>4. Cardinality({t}) * Cardinality(1..k) = k
    BY <2>1, <2>2
  <2> QED BY <2>3, <2>4
<1> HIDE DEF new
<1>5. Cardinality(Awaited) \in Nat
  BY FS_CardinalityType
<1>6. IsFiniteSet(Awaited \cup new)
      /\ Cardinality(Awaited \cup new) = Cardinality(Awaited) + Cardinality(new) - Cardinality({})
  BY <1>3, <1>4, FS_Union
<1> QED BY <1>2, <1>4, <1>5, <1>6, FS_EmptySet

LEMMA AwaitedNone ==
  ASSUME \A t \in Threads : need[t] = 0
  PROVE  Awaited = {}
BY DEF Awaited

-----------------------------------------------------------------------------
LEMMA Has ==
  ASSUME GrowableInv
  PROVE  /\ PoolType /\ Lists /\ Roles /\ Stages /\ Leaving /\ IsFiniteSet(Awaited)
         /\ CountersNeverWrap /\ ReapersAreServed /\ WakeupsSuffice /\ IdlesBounded
BY DEF GrowableInv, GrowableSound

\* The sets that are counted are sets of threads.
LEMMA Numbers ==
  ASSUME PoolType
  PROVE  /\ Cardinality(threads) \in Nat /\ Cardinality(threads) < Modulus
         /\ Cardinality(actives) \in Nat
         /\ Cardinality(Busy) \in Nat /\ Cardinality(Quitters) \in Nat
         /\ Len(pending) \in Nat /\ Len(exited) \in Nat /\ exits \in Nat
<1>1. threads \in SUBSET Threads /\ actives \in SUBSET Threads /\ Quitters \in SUBSET Threads
  BY DEF PoolType, Quitters
<1>2. Busy \in SUBSET Threads
  BY DEF Busy, At
<1> QED BY <1>1, <1>2, Counted DEF PoolType

\* Threads that go on, none of them waiting before a count was zero.
LEMMA MoveKeeps ==
  ASSUME GrowableInv, NEW t \in Threads, pc[t] \notin {"none", "exited"},
         NEW place \in {"start", "try", "waiting", "woken", "exited"} \cup Reaping,
         pc' = [pc EXCEPT ![t] = place],
         UNCHANGED <<threads, exited, exits, initializing, pending, need, cancelled, joining>>,
         actives' \subseteq actives, IdlesBounded',
         place = "exited" => t \in cancelled,
         t \in actives' => place = "start",
         need[t] > 0 <=> place \in Reaping,
         place = "waiting" => exits = 0 /\ pending = <<>>
  PROVE  GrowableInv'
<1>1. PoolType /\ Lists /\ Roles /\ Stages /\ Leaving /\ IsFiniteSet(Awaited)
      /\ CountersNeverWrap /\ ReapersAreServed /\ WakeupsSuffice
  BY Has
<1>2. pc' \in [Threads -> Places] /\ pc'[t] = place /\ \A u \in Threads : u # t => pc'[u] = pc[u]
  BY <1>1 DEF PoolType, Places, Reaping
<1>3. PoolType'
  BY <1>1, <1>2 DEF PoolType
<1>4. place # "none" /\ (place = "exited" => t \in joining /\ initializing)
  BY <1>1 DEF PoolType, Stages, Reaping
<1>5. Lists'
  BY <1>1, <1>2, <1>4 DEF Lists, Rng, PoolType, Stages
<1>6. Roles'
  BY <1>1, <1>2 DEF Roles, PoolType
<1>7. Stages'
  BY <1>1 DEF Stages
<1>8. Awaited' = Awaited
  BY DEF Awaited
<1>9. Quitters' = Quitters
  BY <1>1, <1>2, <1>4 DEF Quitters, PoolType
<1>10. place # "waiting" => Waiting' \subseteq Waiting
  BY <1>2 DEF Waiting, At
<1>11. Leaving'
  <2>1. Waiting' # {} /\ initializing => exits = 0
    BY <1>1, <1>10 DEF Leaving, Waiting
  <2> QED BY <1>1, <1>8, <1>9, <2>1 DEF Leaving, Waiting
<1>12. CountersNeverWrap'
  <2>1. Cardinality(actives') \in Nat /\ Cardinality(actives') <= Cardinality(actives)
    <3>1. actives \in SUBSET Threads /\ actives' \in SUBSET actives
      BY <1>1 DEF PoolType
    <3> QED BY <3>1, Counted, CountLess
  <2>2. Cardinality(threads) \in Nat /\ Cardinality(actives) \in Nat /\ Len(pending) \in Nat /\ exits \in Nat
    BY <1>1, Numbers
  <2> QED BY <1>1, <2>1, <2>2 DEF CountersNeverWrap
<1>13. WakeupsSuffice'
  <2> SUFFICES ASSUME Waiting' # {} PROVE exits + Len(pending) <= Cardinality(Busy')
    BY DEF WakeupsSuffice, Waiting, Busy
  <2>1. Cardinality(Busy) \in Nat /\ Cardinality(Busy') \in Nat /\ Len(pending) \in Nat /\ exits \in Nat
    <3>1. Busy' \in SUBSET Threads
      BY DEF Busy, At
    <3> QED BY <1>1, <3>1, Numbers, Counted
  <2>2. CASE place = "waiting"
    <3>1. exits = 0 /\ Len(pending) = 0
      BY <2>2
    <3> QED BY <2>1, <3>1
  <2>3. CASE place = "exited"
    <3>1. initializing /\ Waiting # {}
      BY <1>4, <1>10, <2>3
    <3>2. exits = 0 /\ Len(pending) = 0
      BY <1>1, <3>1 DEF Leaving, Waiting, Stages
    <3> QED BY <2>1, <3>2
  <2>4. CASE place \notin {"waiting", "exited"}
    <3>1. Busy \subseteq Busy' /\ Busy' \in SUBSET Threads
      BY <1>2, <2>4 DEF Busy, At
    <3>2. Cardinality(Busy) <= Cardinality(Busy')
      BY <3>1, CountLess
    <3>3. exits + Len(pending) <= Cardinality(Busy)
      BY <1>1, <1>10, <2>4 DEF WakeupsSuffice, Waiting, Busy
    <3> QED BY <2>1, <3>2, <3>3
  <2> QED BY <2>2, <2>3, <2>4
<1>14. ReapersAreServed'
  BY <1>1, <1>8 DEF ReapersAreServed
<1> QED BY <1>1, <1>3, <1>5, <1>6, <1>7, <1>8, <1>11, <1>12, <1>13, <1>14 DEF GrowableInv, GrowableSound

\* As long as the counts stay, so does IdlesBounded.
LEMMA BoundKept ==
  ASSUME IdlesBounded, UNCHANGED <<threads, actives, pending, exits, initializing>>
  PROVE  IdlesBounded'
BY DEF IdlesBounded

LEMMA RequestJobKeeps ==
  ASSUME GrowableInv, NEW t \in Threads, RequestJob(t)
  PROVE  GrowableInv'
<1>1. /\ pc[t] = "start" /\ (initializing \/ Idles(t) < Threshold) /\ actives' = actives \ {t}
      /\ pc' = [pc EXCEPT ![t] = "try"]
      /\ UNCHANGED <<threads, exited, exits, initializing, pending, need, cancelled, joining>>
  BY DEF RequestJob
<1>2. PoolType /\ CountersNeverWrap /\ Roles
  BY Has
<1>3. ~(need[t] > 0)
  BY <1>1, <1>2 DEF Roles, Reaping
<1>4. IdlesBounded'
  <2> SUFFICES ASSUME ~initializing
               PROVE  Cardinality(threads) - Cardinality(actives') - Len(pending) - exits < Threshold
    BY <1>1 DEF IdlesBounded
  <2>1. Cardinality(actives') \in Nat /\ Cardinality(actives') <= Cardinality(actives)
    <3>1. actives \in SUBSET Threads /\ actives' \in SUBSET actives
      BY <1>1, <1>2 DEF PoolType
    <3> QED BY <3>1, Counted, CountLess
  <2>2. /\ Cardinality(threads) \in Nat /\ Cardinality(threads) < Modulus /\ Cardinality(actives) \in Nat
        /\ Len(pending) \in Nat /\ exits \in Nat
    BY <1>2, Numbers
  <2>3. PICK n \in Nat : n = Cardinality(threads) - Cardinality(actives') - Len(pending) - exits
    BY <1>2, <2>1, <2>2 DEF CountersNeverWrap
  <2>4. n < Modulus
    BY <2>1, <2>2, <2>3 DEF Modulus
  <2>5. SizeT(n) = n
    BY <2>4, SizeTSame
  <2>6. Idles(t) = SizeT(n)
    BY <1>1, <2>3 DEF Idles
  <2> QED BY <1>1, <2>3, <2>5, <2>6
<1> QED BY <1>1, <1>3, <1>4, MoveKeeps DEF Reaping

LEMMA GoOnKeeps ==
  ASSUME GrowableInv, NEW t \in Threads,
         ReapWait(t) \/ TryWait(t) \/ SpuriousWakeup(t) \/ FinishJob(t) \/ Cancel(t)
  PROVE  GrowableInv'
<1>1. PoolType /\ Roles /\ Lists /\ IdlesBounded
  BY Has
<1>2. /\ UNCHANGED <<threads, exited, exits, initializing, pending, need, cancelled, joining, actives>>
      /\ IdlesBounded'
  BY <1>1, BoundKept DEF ReapWait, TryWait, SpuriousWakeup, FinishJob, Cancel
<1>3. t \in actives => pc[t] \in {"running", "start"}
  BY <1>1 DEF Roles
<1>4. need[t] > 0 <=> pc[t] \in Reaping
  BY <1>1 DEF Roles
<1>5. CASE ReapWait(t)
  BY <1>2, <1>3, <1>4, <1>5, MoveKeeps DEF ReapWait, Reaping
<1>6. CASE TryWait(t)
  BY <1>2, <1>3, <1>4, <1>6, MoveKeeps DEF TryWait, Reaping
<1>7. CASE SpuriousWakeup(t) /\ pc[t] = "waiting"
  BY <1>2, <1>3, <1>4, <1>7, MoveKeeps DEF SpuriousWakeup, Reaping
<1>8. CASE SpuriousWakeup(t) /\ pc[t] = "reapwait"
  BY <1>2, <1>3, <1>4, <1>8, MoveKeeps DEF SpuriousWakeup, Reaping
<1>9. CASE FinishJob(t)
  BY <1>2, <1>3, <1>4, <1>9, MoveKeeps DEF FinishJob, Reaping
<1>10. CASE Cancel(t)
  <2>1. t \notin actives
    BY <1>1, <1>10 DEF Cancel, PoolType, Lists
  <2> QED BY <1>2, <1>4, <1>10, <2>1, MoveKeeps DEF Cancel, Reaping
<1> QED BY <1>5, <1>6, <1>7, <1>8, <1>9, <1>10 DEF SpuriousWakeup

\* The counts after AppendJob() has spawned s threads, and after MaybeShrink() made Size quit.
LEMMA Growing ==
  ASSUME NEW th \in Nat, NEW ac \in Nat, NEW ex \in Nat, NEW pe \in Nat, NEW s \in Nat,
         ac + ex + pe <= th, th - ac - pe - ex < Threshold,
         \/ s = Size /\ th - ac - ex < pe + 1
         \/ s = 0 /\ th - ac - ex >= pe + 1
  PROVE  ac + ex + (pe + 1) <= th + s /\ (th + s) - ac - (pe + 1) - ex < Threshold
BY ThresholdIs, GrowableAssumption

LEMMA Shrinking ==
  ASSUME NEW th \in Nat, NEW ac \in Nat, NEW ex \in Nat, NEW pe \in Nat,
         th < Modulus, th - ac - pe - ex = Threshold
  PROVE  /\ ac + (ex + Size) + pe <= th /\ th - ac - pe - (ex + Size) < Threshold
         /\ ex + Size \in Nat /\ ex + Size < Modulus
BY ThresholdIs, GrowableAssumption DEF Modulus

\* A thread that quits, and one that takes a job, are as many idle ones as before.
LEMMA Quitting ==
  ASSUME NEW th \in Nat, NEW ac \in Nat, NEW ex \in Nat, NEW pe \in Nat,
         ac + ex + pe <= th, th - ac - pe - ex < Threshold
  PROVE  /\ ac + (ex - 1) + pe <= th - 1 /\ (th - 1) - ac - pe - (ex - 1) < Threshold
         /\ (ac + 1) + ex + (pe - 1) <= th /\ th - (ac + 1) - (pe - 1) - ex < Threshold
BY ThresholdIs

LEMMA AppendJobKeeps ==
  ASSUME GrowableInv, NEW j \in Jobs, AppendJob(j)
  PROVE  GrowableInv'
<1>1. /\ ~initializing /\ pending' = Append(pending, j)
      /\ UNCHANGED <<actives, exited, exits, initializing, need, cancelled, joining>>
  BY DEF AppendJob
<1>2. PICK s \in Spawned, w \in Wakes({"waiting"}, 1) :
        /\ threads' = threads \cup s
        /\ pc' = [t \in Threads |-> IF t \in s THEN "start" ELSE Woken(w, "woken")[t]]
  BY DEF AppendJob
<1>3. PoolType /\ Lists /\ Roles /\ Stages /\ IsFiniteSet(Awaited)
      /\ CountersNeverWrap /\ ReapersAreServed /\ WakeupsSuffice /\ IdlesBounded
  BY Has
<1>4. s \in SUBSET Threads /\ s \subseteq At({"none"})
  BY <1>2 DEF Spawned, At
<1>5. w \subseteq Waiting /\ w \in SUBSET Threads /\ (w = Waiting \/ Cardinality(w) = 1)
  BY <1>2, WakesAre DEF Waiting, At
<1>6. /\ \A t \in s : pc[t] = "none" /\ pc'[t] = "start"
      /\ \A t \in w : pc[t] = "waiting" /\ pc'[t] = "woken"
      /\ \A t \in Threads : t \notin s \cup w => pc'[t] = pc[t]
  BY <1>2, <1>4, <1>5 DEF Waiting, At, Woken
<1>7. pending' \in Seq(Jobs) /\ Len(pending') = Len(pending) + 1
  BY <1>1, <1>3 DEF PoolType
<1>8. pc' \in [Threads -> Places]
  BY <1>2, <1>3, <1>4, <1>5 DEF Woken, Places, PoolType
<1>9. PoolType'
  BY <1>1, <1>2, <1>3, <1>4, <1>7, <1>8 DEF PoolType
<1>10. Lists'
  <2>1. Rng(exited)' = Rng(exited)
    BY <1>1 DEF Rng
  <2>2. \A t \in s : t \notin threads \cup joining \cup Rng(exited)
    BY <1>3, <1>4, <1>6 DEF Lists
  <2>3. Lists /\ threads' = threads \cup s /\ UNCHANGED <<exited, joining>>
    BY <1>1, <1>2, <1>3
  <2>4. \A t \in Threads : pc'[t] = "none" <=> t \notin threads' \cup joining \cup Rng(exited)
    BY <1>4, <1>5, <1>6, <2>2, <2>3 DEF Lists
  <2>5. \A t \in threads' : pc'[t] # "exited" /\ t \notin joining \cup Rng(exited)
    BY <1>3, <1>6, <2>2, <2>3 DEF Lists, PoolType
  <2>6. \A t \in Rng(exited) : pc'[t] = "exited" /\ t \notin joining
    <3>1. Rng(exited) \subseteq Threads
      BY <1>3 DEF Rng, PoolType
    <3> QED BY <1>6, <2>2, <2>3, <3>1 DEF Lists
  <2> QED BY <2>1, <2>3, <2>4, <2>5, <2>6 DEF Lists
<1>11. Roles'
  <2>1. \A t \in s : t \notin actives
    BY <1>3, <1>6 DEF Roles
  <2> QED BY <1>1, <1>3, <1>4, <1>5, <1>6, <2>1 DEF Roles, Reaping, PoolType
<1>12. Stages' /\ Leaving'
  BY <1>1, <1>3 DEF Stages, Leaving
<1>13. Awaited' = Awaited
  BY <1>1 DEF Awaited
<1>14. ReapersAreServed'
  BY <1>1, <1>3, <1>13 DEF ReapersAreServed
<1>15. /\ Cardinality(threads) \in Nat /\ Cardinality(threads) < Modulus /\ Cardinality(actives) \in Nat
       /\ Len(pending) \in Nat /\ exits \in Nat /\ Cardinality(Busy) \in Nat
       /\ Cardinality(actives) + exits + Len(pending) <= Cardinality(threads)
       /\ Cardinality(threads) - Cardinality(actives) - Len(pending) - exits < Threshold
       /\ Threshold \in Nat /\ Size < Threshold /\ Size \in Nat /\ Size > 0
  BY <1>1, <1>3, Numbers, ThresholdIs, GrowableAssumption DEF CountersNeverWrap, IdlesBounded
<1>16. Cardinality(threads') = Cardinality(threads) + Cardinality(s) /\ Cardinality(s) \in Nat
  <2>1. threads \in SUBSET Threads /\ threads \cap s = {}
    BY <1>3, <1>4, <1>6 DEF Lists, PoolType
  <2> QED BY <1>2, <1>4, <2>1, CountBoth, Counted
<1>17. \/ Cardinality(s) = Size
          /\ Cardinality(threads) - Cardinality(actives) - exits < Len(pending) + 1
       \/ Cardinality(s) = 0
          /\ Cardinality(threads) - Cardinality(actives) - exits >= Len(pending) + 1
  <2>1. PICK n \in Nat : n = Cardinality(threads) - Cardinality(actives) - exits
    BY <1>15
  <2>2. n < Modulus
    BY <1>15, <2>1 DEF Modulus
  <2>3. SizeT(Cardinality(threads) - Cardinality(actives) - exits) = n
    BY <2>1, <2>2, SizeTSame
  <2>4. \/ n < Len(pending) + 1 /\ Cardinality(s) = Size
        \/ ~(n < Len(pending) + 1) /\ s = {}
    BY <1>2, <1>7, <2>3 DEF Spawned
  <2>5. s = {} => Cardinality(s) = 0
    BY FS_EmptySet
  <2>6. CASE n < Len(pending) + 1 /\ Cardinality(s) = Size
    BY <2>1, <2>6
  <2>7. CASE ~(n < Len(pending) + 1) /\ s = {}
    <3>1. Cardinality(s) = 0
      BY <2>5, <2>7
    <3>2. n >= Len(pending) + 1
      BY <1>15, <2>7
    <3> QED BY <2>1, <3>1, <3>2
  <2> QED BY <2>4, <2>6, <2>7
<1>18. /\ Cardinality(actives) + exits + (Len(pending) + 1) <= Cardinality(threads) + Cardinality(s)
       /\ (Cardinality(threads) + Cardinality(s)) - Cardinality(actives) - (Len(pending) + 1) - exits < Threshold
  BY <1>15, <1>16, <1>17, Growing, Zenon
<1>19. CountersNeverWrap' /\ IdlesBounded'
  <2>1. actives' = actives /\ exits' = exits /\ Len(pending') = Len(pending) + 1
        /\ Cardinality(threads') = Cardinality(threads) + Cardinality(s)
    BY <1>1, <1>7, <1>16
  <2>2. Cardinality(actives') + exits' + Len(pending') <= Cardinality(threads')
    BY <1>18, <2>1, Zenon
  <2>3. Cardinality(threads') - Cardinality(actives') - Len(pending') - exits' < Threshold
    BY <1>18, <2>1, Zenon
  <2> QED BY <2>2, <2>3 DEF CountersNeverWrap, IdlesBounded, Threshold
<1>20. WakeupsSuffice'
  <2> SUFFICES ASSUME Waiting' # {} PROVE exits + Len(pending') <= Cardinality(Busy')
    BY <1>1 DEF WakeupsSuffice, Waiting, Busy
  <2>1. Waiting' = Waiting \ w
    BY <1>4, <1>5, <1>6 DEF Waiting, At
  <2>2. Cardinality(w) = 1 /\ Waiting # {}
    BY <1>5, <2>1
  <2>3. Busy \in SUBSET Threads /\ Busy' \in SUBSET Threads /\ Busy \cap w = {} /\ Busy \cup w \subseteq Busy'
    BY <1>4, <1>5, <1>6 DEF Busy, At, Reaping
  <2>4. Cardinality(Busy \cup w) = Cardinality(Busy) + 1
    BY <1>5, <2>2, <2>3, CountBoth
  <2>5. Cardinality(Busy \cup w) <= Cardinality(Busy') /\ Cardinality(Busy') \in Nat
    BY <2>3, CountLess, Counted
  <2>6. exits + Len(pending) <= Cardinality(Busy)
    BY <1>3, <2>2 DEF WakeupsSuffice, Waiting, Busy
  <2> QED BY <1>7, <1>15, <2>4, <2>5, <2>6
<1> QED BY <1>3, <1>9, <1>10, <1>11, <1>12, <1>13, <1>14, <1>19, <1>20 DEF GrowableInv, GrowableSound

\* A thread that is in the pool, unless the pool is being shut down.
LEMMA InPool ==
  ASSUME GrowableInv, NEW t \in Threads, pc[t] \notin {"none", "exited"}
  PROVE  IF initializing THEN t \in joining /\ t \notin threads \cup Rng(exited)
                         ELSE t \in threads /\ t \notin joining \cup Rng(exited)
<1>1. PoolType /\ Lists /\ Stages
  BY Has
<1> QED BY <1>1 DEF Lists, Stages, PoolType

LEMMA MaybeShrinkKeeps ==
  ASSUME GrowableInv, NEW t \in Threads, MaybeShrink(t)
  PROVE  GrowableInv'
<1>1. /\ pc[t] = "start" /\ ~initializing /\ Idles(t) >= Threshold /\ actives' = actives \ {t}
      /\ exits' = SizeT(exits + ShrinkBy(Idles(t)))
      /\ need' = [need EXCEPT ![t] = ShrinkBy(Idles(t))]
      /\ UNCHANGED <<threads, exited, initializing, pending, cancelled, joining>>
  BY DEF MaybeShrink
<1>2. PICK w \in Wakes({"waiting"}, Size) : pc' = [Woken(w, "woken") EXCEPT ![t] = "reap"]
  BY DEF MaybeShrink
<1>3. PoolType /\ Lists /\ Roles /\ Stages /\ IsFiniteSet(Awaited)
      /\ CountersNeverWrap /\ ReapersAreServed /\ WakeupsSuffice /\ IdlesBounded
  BY Has
<1>4. /\ Cardinality(threads) \in Nat /\ Cardinality(threads) < Modulus /\ Cardinality(actives) \in Nat
      /\ Len(pending) \in Nat /\ exits \in Nat /\ Cardinality(Busy) \in Nat
      /\ Cardinality(actives) + exits + Len(pending) <= Cardinality(threads)
      /\ Cardinality(threads) - Cardinality(actives) - Len(pending) - exits < Threshold
      /\ Threshold \in Nat /\ Size < Threshold /\ Size \in Nat /\ Size > 0
  BY <1>1, <1>3, Numbers, ThresholdIs, GrowableAssumption DEF CountersNeverWrap, IdlesBounded
<1>5. /\ Cardinality(actives') <= Cardinality(actives) /\ Cardinality(actives) <= Cardinality(actives') + 1
      /\ Cardinality(actives') \in Nat
  <2>1. actives \in SUBSET Threads /\ actives' \in SUBSET Threads
    BY <1>1, <1>3 DEF PoolType
  <2>2. Cardinality(actives') \in {Cardinality(actives), Cardinality(actives) - 1}
    BY <1>1, <2>1, CountOne
  <2>3. Cardinality(actives') \in Nat
    BY <2>1, Counted
  <2> QED BY <1>4, <2>2, <2>3
<1>6. Idles(t) = Threshold /\ Cardinality(threads) - Cardinality(actives') - Len(pending) - exits = Threshold
  <2>1. PICK th \in Nat, ac \in Nat, ex \in Nat, pe \in Nat, left \in Nat :
          /\ th = Cardinality(threads) /\ ac = Cardinality(actives) /\ left = Cardinality(actives')
          /\ ex = exits /\ pe = Len(pending)
    BY <1>4, <1>5
  <2>2. PICK n \in Nat : /\ n = Cardinality(threads) - Cardinality(actives') - Len(pending) - exits
                         /\ n < Modulus /\ (n >= Threshold => n = Threshold)
    <3>1. left <= ac /\ ac <= left + 1 /\ th < Modulus /\ ac + ex + pe <= th /\ th - ac - pe - ex < Threshold
      BY <1>4, <1>5, <2>1, Zenon
    <3>2. \E n \in Nat : n = th - left - pe - ex /\ n < Modulus /\ (n >= Threshold => n = Threshold)
      <4>1. PICK n \in Nat : th = left + pe + ex + n
        BY <3>1
      <4>2. n = th - left - pe - ex /\ n < Modulus
        BY <3>1, <4>1 DEF Modulus
      <4>3. n >= Threshold => n = Threshold
        BY <3>1, <4>1, ThresholdIs
      <4> QED BY <4>2, <4>3
    <3> QED BY <2>1, <3>2, Zenon
  <2>3. Idles(t) = SizeT(n)
    BY <1>1, <2>2, Zenon DEF Idles
  <2>4. Idles(t) = n
    BY <2>2, <2>3, SizeTSame
  <2>5. Idles(t) >= Threshold
    BY <1>1
  <2> QED BY <2>2, <2>4, <2>5, Zenon
<1>7. ShrinkBy(Idles(t)) = Size
  BY <1>6, ThresholdIs
<1>8. exits' = exits + Size
  <2>1. exits + Size \in Nat /\ exits + Size < Modulus
    BY <1>4, <1>5, <1>6, Shrinking, Zenon
  <2> QED BY <1>1, <1>7, <2>1, SizeTSame
<1>9. need' = [need EXCEPT ![t] = Size] /\ need[t] = 0
  BY <1>1, <1>3, <1>7 DEF Roles, Reaping, PoolType
<1>10. IsFiniteSet(Awaited') /\ Cardinality(Awaited') = Cardinality(Awaited) + Size
  BY <1>3, <1>4, <1>9, AwaitedMore DEF PoolType
<1>11. w \subseteq Waiting /\ w \in SUBSET Threads /\ (w = Waiting \/ Cardinality(w) = Size)
  BY <1>2, <1>4, WakesAre DEF Waiting, At
<1>12. /\ t \notin w /\ pc'[t] = "reap"
       /\ \A u \in w : pc[u] = "waiting" /\ pc'[u] = "woken"
       /\ \A u \in Threads : u \notin w \cup {t} => pc'[u] = pc[u]
       /\ pc' \in [Threads -> Places]
  BY <1>1, <1>2, <1>3, <1>11 DEF Waiting, At, Woken, PoolType, Places, Reaping
<1>13. PoolType'
  <2>1. exits' \in Nat /\ need' \in [Threads -> Nat]
    BY <1>3, <1>4, <1>8, <1>9 DEF PoolType
  <2> QED BY <1>1, <1>3, <1>12, <2>1 DEF PoolType
<1>14. Lists'
  <2>1. Rng(exited)' = Rng(exited) /\ Rng(exited) \subseteq Threads
    BY <1>1, <1>3 DEF Rng, PoolType
  <2>2. \A u \in Threads : (pc'[u] = "none" <=> pc[u] = "none") /\ (pc'[u] = "exited" <=> pc[u] = "exited")
    BY <1>1, <1>11, <1>12
  <2>3. Lists /\ UNCHANGED <<threads, exited, joining>> /\ threads \subseteq Threads
    BY <1>1, <1>3 DEF PoolType
  <2> QED BY <2>1, <2>2, <2>3 DEF Lists
<1>15. Roles'
  <2>1. \A u \in actives' : pc'[u] \in {"running", "start"}
    BY <1>1, <1>3, <1>12 DEF Roles, PoolType
  <2>2. need'[t] > 0 /\ \A u \in Threads : u # t => need'[u] = need[u]
    BY <1>3, <1>4, <1>9 DEF PoolType
  <2>3. \A u \in Threads : need'[u] > 0 <=> pc'[u] \in Reaping
    BY <1>3, <1>12, <2>2 DEF Roles, Reaping
  <2> QED BY <2>1, <2>3 DEF Roles
<1>16. Stages' /\ Leaving'
  BY <1>1, <1>3 DEF Stages, Leaving
<1>17. ReapersAreServed'
  <2>1. Cardinality(Awaited) = exits + Len(exited) /\ Len(exited) \in Nat
    BY <1>1, <1>3 DEF ReapersAreServed, PoolType
  <2>2. (exits + Len(exited)) + Size = (exits + Size) + Len(exited)
    BY <1>4, <2>1
  <2>3. Cardinality(Awaited') = exits' + Len(exited')
    BY <1>1, <1>8, <1>10, <2>1, <2>2, Zenon
  <2> QED BY <2>3 DEF ReapersAreServed
<1>18. /\ Cardinality(actives') + (exits + Size) + Len(pending) <= Cardinality(threads)
       /\ Cardinality(threads) - Cardinality(actives') - Len(pending) - (exits + Size) < Threshold
  BY <1>4, <1>5, <1>6, Shrinking, Zenon
<1>19. CountersNeverWrap' /\ IdlesBounded'
  <2>1. UNCHANGED <<threads, pending, initializing>>
    BY <1>1
  <2> QED BY <1>8, <1>18, <2>1 DEF CountersNeverWrap, IdlesBounded, Threshold
<1>20. WakeupsSuffice'
  <2> SUFFICES ASSUME Waiting' # {} PROVE exits' + Len(pending) <= Cardinality(Busy')
    BY <1>1 DEF WakeupsSuffice, Waiting, Busy
  <2>1. Waiting' = Waiting \ w
    BY <1>1, <1>11, <1>12 DEF Waiting, At
  <2>2. Cardinality(w) = Size /\ Waiting # {}
    BY <1>11, <2>1
  <2>3. Busy \in SUBSET Threads /\ Busy' \in SUBSET Threads /\ Busy \cap w = {} /\ Busy \cup w \subseteq Busy'
    BY <1>11, <1>12 DEF Busy, At, Reaping
  <2>4. Cardinality(Busy \cup w) = Cardinality(Busy) + Size
    BY <1>11, <2>2, <2>3, CountBoth
  <2>5. Cardinality(Busy \cup w) <= Cardinality(Busy') /\ Cardinality(Busy') \in Nat
    BY <2>3, CountLess, Counted
  <2>6. exits + Len(pending) <= Cardinality(Busy)
    BY <1>3, <2>2 DEF WakeupsSuffice, Waiting, Busy
  <2> QED BY <1>4, <1>8, <2>4, <2>5, <2>6
<1> QED BY <1>10, <1>13, <1>14, <1>15, <1>16, <1>17, <1>19, <1>20 DEF GrowableInv, GrowableSound

LEMMA ReapKeeps ==
  ASSUME GrowableInv, NEW t \in Threads, Reap(t)
  PROVE  GrowableInv'
<1>1. /\ pc[t] \in {"reap", "reapwoken"} /\ exited # <<>> /\ exited' = Tail(exited)
      /\ need' = [need EXCEPT ![t] = @ - 1]
      /\ pc' = [pc EXCEPT ![t] = IF need[t] = 1 THEN "try" ELSE "reap", ![Head(exited)] = "none"]
      /\ UNCHANGED <<threads, actives, exits, initializing, pending, cancelled, joining>>
  BY DEF Reap
<1>2. PoolType /\ Lists /\ Roles /\ Stages /\ Leaving /\ IsFiniteSet(Awaited)
      /\ CountersNeverWrap /\ ReapersAreServed /\ WakeupsSuffice /\ IdlesBounded
  BY Has
<1>3. exited \in Seq(Threads) /\ Len(exited) \in Nat /\ Len(exited) > 0 /\ Head(exited) = exited[1]
  BY <1>1, <1>2 DEF PoolType
<1>4. /\ exited' \in Seq(Threads) /\ Len(exited') = Len(exited) - 1
      /\ \A i \in 1..Len(exited') : exited'[i] = exited[i + 1]
  BY <1>1, <1>3
<1>5. PICK h \in Threads : h = Head(exited)
  BY <1>3
<1>6. h \in Rng(exited) /\ pc[h] = "exited" /\ h # t
  BY <1>1, <1>2, <1>3, <1>5 DEF Rng, Lists
<1>7. Rng(exited') = Rng(exited) \ {h} /\ Rng(exited) \subseteq Threads
  <2>1. \A i, j \in 1..Len(exited) : exited[i] = exited[j] => i = j
    BY <1>2 DEF Lists
  <2>2. \A i \in 1..Len(exited') : i + 1 \in 1..Len(exited) /\ i + 1 # 1 /\ 1 \in 1..Len(exited)
    BY <1>3, <1>4
  <2>3. \A i \in 1..Len(exited') : exited'[i] \in Rng(exited) /\ exited'[i] # h
    BY <1>3, <1>4, <1>5, <2>1, <2>2 DEF Rng
  <2>4. \A i \in 1..Len(exited) : exited[i] # h => i - 1 \in 1..Len(exited') /\ exited'[i - 1] = exited[i]
    BY <1>3, <1>4, <1>5
  <2>5. Rng(exited') \subseteq Rng(exited) \ {h}
    BY <2>3 DEF Rng
  <2>6. Rng(exited) \ {h} \subseteq Rng(exited')
    BY <2>4 DEF Rng
  <2>7. Rng(exited) \subseteq Threads
    BY <1>3 DEF Rng
  <2> QED BY <2>5, <2>6, <2>7
<1>8. need \in [Threads -> Nat] /\ need[t] \in Nat /\ need[t] > 0
  BY <1>1, <1>2 DEF Roles, Reaping, PoolType
<1>9. IsFiniteSet(Awaited') /\ Cardinality(Awaited') = Cardinality(Awaited) - 1
  BY <1>1, <1>2, <1>8, AwaitedOne
<1>10. /\ need'[t] = need[t] - 1 /\ need' \in [Threads -> Nat]
       /\ \A u \in Threads : u # t => need'[u] = need[u]
  BY <1>1, <1>8
<1>11. /\ pc'[t] = (IF need[t] = 1 THEN "try" ELSE "reap") /\ pc'[h] = "none"
       /\ \A u \in Threads : u \notin {h, t} => pc'[u] = pc[u]
       /\ pc' \in [Threads -> Places]
  BY <1>1, <1>2, <1>5, <1>6 DEF PoolType, Places, Reaping
<1>12. PoolType'
  BY <1>1, <1>2, <1>4, <1>10, <1>11 DEF PoolType
<1>13. Lists'
  <2>1. Lists /\ UNCHANGED <<threads, joining>> /\ threads \subseteq Threads
    BY <1>1, <1>2 DEF PoolType
  <2>2. h \notin threads \cup joining
    BY <1>6, <2>1 DEF Lists
  <2>3. pc[t] \notin {"none", "exited"} /\ pc'[t] \notin {"none", "exited"}
    BY <1>1, <1>11
  <2>4. \A u \in Threads : pc'[u] = "none" <=> u \notin threads \cup joining \cup Rng(exited')
    BY <1>6, <1>7, <1>11, <2>1, <2>2, <2>3 DEF Lists
  <2>5. \A u \in threads : pc'[u] # "exited" /\ u \notin joining \cup Rng(exited')
    BY <1>7, <1>11, <2>1, <2>2, <2>3 DEF Lists
  <2>6. \A u \in Rng(exited') : pc'[u] = "exited" /\ u \notin joining
    BY <1>7, <1>11, <2>1, <2>3 DEF Lists
  <2>7. \A i, j \in 1..Len(exited') : exited'[i] = exited'[j] => i = j
    <3>1. \A i \in 1..Len(exited') : i \in Int /\ i + 1 \in 1..Len(exited)
      BY <1>3, <1>4
    <3>2. \A i, j \in 1..Len(exited') : exited'[i] = exited'[j] => i + 1 = j + 1
      BY <1>4, <2>1, <3>1 DEF Lists
    <3> QED BY <3>1, <3>2
  <2>8. Rng(exited)' = Rng(exited')
    BY DEF Rng
  <2> QED BY <2>1, <2>4, <2>5, <2>6, <2>7, <2>8 DEF Lists
<1>14. Roles'
  <2>1. \A u \in actives' : pc'[u] \in {"running", "start"}
    BY <1>1, <1>2, <1>6, <1>11 DEF Roles, PoolType
  <2>2. need'[t] > 0 <=> pc'[t] \in Reaping
    BY <1>8, <1>10, <1>11 DEF Reaping
  <2>3. ~(need[h] > 0) /\ pc'[h] \notin Reaping
    BY <1>2, <1>6, <1>11 DEF Roles, Reaping
  <2>4. \A u \in Threads : need'[u] > 0 <=> pc'[u] \in Reaping
    BY <1>2, <1>6, <1>10, <1>11, <2>2, <2>3 DEF Roles
  <2> QED BY <2>1, <2>4 DEF Roles
<1>15. Stages'
  BY <1>1, <1>2 DEF Stages
<1>16. Quitters' = Quitters
  <2>1. h \notin joining
    BY <1>2, <1>6 DEF Lists
  <2> QED BY <1>1, <1>2, <1>11, <2>1 DEF Quitters, PoolType
<1>17. Waiting' = Waiting /\ Busy' = Busy
  BY <1>1, <1>6, <1>11 DEF Waiting, Busy, At, Reaping
<1>18. Cardinality(Awaited) \in Nat
  BY <1>2, FS_CardinalityType
<1>19. Leaving'
  <2>1. initializing => Len(exited') <= Cardinality(Awaited')
    BY <1>2, <1>3, <1>4, <1>9, <1>18 DEF Leaving
  <2> QED BY <1>1, <1>2, <1>16, <1>17, <2>1 DEF Leaving, Waiting
<1>20. ReapersAreServed'
  <2>1. ~initializing => Cardinality(Awaited') = exits + Len(exited')
    BY <1>2, <1>3, <1>4, <1>9, <1>18 DEF ReapersAreServed, PoolType
  <2> QED BY <1>1, <2>1 DEF ReapersAreServed
<1>21. CountersNeverWrap' /\ IdlesBounded'
  BY <1>1, <1>2 DEF CountersNeverWrap, IdlesBounded
<1>22. WakeupsSuffice'
  BY <1>1, <1>2, <1>17 DEF WakeupsSuffice, Waiting, Busy
<1> QED BY <1>9, <1>12, <1>13, <1>14, <1>15, <1>19, <1>20, <1>21, <1>22 DEF GrowableInv, GrowableSound

\* A thread that quits or that takes a job is on its way no longer.
LEMMA BusyLess ==
  ASSUME NEW t \in Threads, t \in Busy, Busy' = Busy \ {t}
  PROVE  Cardinality(Busy') = Cardinality(Busy) - 1 /\ Cardinality(Busy) \in Nat
<1>1. Busy \in SUBSET Threads
  BY DEF Busy, At
<1> QED BY <1>1, CountOne, Counted

LEMMA TryExitKeeps ==
  ASSUME GrowableInv, NEW t \in Threads, TryExit(t), ~initializing
  PROVE  GrowableInv'
<1>1. /\ pc[t] \in {"try", "woken"} /\ exits > 0 /\ exits' = exits - 1
      /\ exited' = Append(exited, t) /\ threads' = threads \ {t}
      /\ UNCHANGED <<actives, initializing, pending, need, cancelled, joining>>
  BY DEF TryExit
<1>2. PICK w \in Wakes({"reapwait"}, 1) : pc' = [Woken(w, "reapwoken") EXCEPT ![t] = "exited"]
  BY DEF TryExit
<1>3. PoolType /\ Lists /\ Roles /\ Stages /\ Leaving /\ IsFiniteSet(Awaited)
      /\ CountersNeverWrap /\ ReapersAreServed /\ WakeupsSuffice /\ IdlesBounded
  BY Has
<1>4. t \in threads /\ t \notin joining \cup Rng(exited)
  BY <1>1, InPool
<1>5. t \notin actives /\ ~(need[t] > 0)
  BY <1>1, <1>3 DEF Roles, Reaping
<1>6. w \subseteq At({"reapwait"})
  BY <1>2, WakesAre
<1>7. /\ t \notin w /\ pc'[t] = "exited"
      /\ \A u \in w : pc[u] = "reapwait" /\ pc'[u] = "reapwoken"
      /\ \A u \in Threads : u \notin w \cup {t} => pc'[u] = pc[u]
      /\ w \subseteq Threads /\ pc' \in [Threads -> Places]
  BY <1>1, <1>2, <1>3, <1>6 DEF At, Woken, PoolType, Places, Reaping
<1>8. exited \in Seq(Threads) /\ exits \in Nat /\ Len(exited) \in Nat /\ Len(pending) \in Nat
  BY <1>3 DEF PoolType
<1>9. /\ exited' \in Seq(Threads) /\ Len(exited') = Len(exited) + 1
      /\ \A i \in 1..Len(exited) : exited'[i] = exited[i]
      /\ exited'[Len(exited) + 1] = t
  BY <1>1, <1>8
<1>10. PoolType'
  BY <1>1, <1>3, <1>5, <1>7, <1>8, <1>9 DEF PoolType
<1>11. Rng(exited') = Rng(exited) \cup {t} /\ Rng(exited) \subseteq Threads
  <2>1. \A i \in 1..Len(exited') : i \in 1..Len(exited) \/ i = Len(exited) + 1
    BY <1>8, <1>9
  <2>2. Len(exited) + 1 \in 1..Len(exited') /\ \A i \in 1..Len(exited) : i \in 1..Len(exited')
    BY <1>8, <1>9
  <2> QED BY <1>8, <1>9, <2>1, <2>2 DEF Rng
<1>12. Lists'
  <2>1. Lists /\ threads' = threads \ {t} /\ joining' = joining /\ threads \subseteq Threads
    BY <1>1, <1>3 DEF PoolType
  <2>2. \A u \in Threads : u # t => (pc'[u] = "none" <=> pc[u] = "none") /\ (pc'[u] = "exited" <=> pc[u] = "exited")
    BY <1>7
  <2>3. \A u \in Threads : pc'[u] = "none" <=> u \notin threads' \cup joining \cup Rng(exited')
    BY <1>7, <1>11, <2>1, <2>2 DEF Lists
  <2>4. \A u \in threads' : pc'[u] # "exited" /\ u \notin joining \cup Rng(exited')
    BY <1>11, <2>1, <2>2 DEF Lists
  <2>5. \A u \in Rng(exited') : pc'[u] = "exited" /\ u \notin joining
    BY <1>4, <1>7, <1>11, <2>1, <2>2 DEF Lists
  <2>6. \A i, j \in 1..Len(exited') : exited'[i] = exited'[j] => i = j
    <3>1. \A i \in 1..Len(exited') : i \in 1..Len(exited) \/ i = Len(exited) + 1
      BY <1>8, <1>9
    <3>2. \A i \in 1..Len(exited) : exited'[i] # t
      BY <1>4, <1>9 DEF Rng
    <3> QED BY <1>9, <2>1, <3>1, <3>2 DEF Lists
  <2>7. Rng(exited)' = Rng(exited')
    BY DEF Rng
  <2> QED BY <2>1, <2>3, <2>4, <2>5, <2>6, <2>7 DEF Lists
<1>13. Roles'
  <2>1. \A u \in actives : pc'[u] \in {"running", "start"}
    BY <1>3, <1>5, <1>7 DEF Roles, PoolType
  <2>2. \A u \in Threads : need[u] > 0 <=> pc'[u] \in Reaping
    BY <1>3, <1>5, <1>7 DEF Roles, Reaping
  <2> QED BY <1>1, <2>1, <2>2 DEF Roles
<1>14. Stages' /\ Leaving'
  BY <1>1, <1>3 DEF Stages, Leaving
<1>15. Awaited' = Awaited
  BY <1>1 DEF Awaited
<1>16. ReapersAreServed'
  <2>1. Cardinality(Awaited) = (exits - 1) + (Len(exited) + 1)
    BY <1>3, <1>8 DEF ReapersAreServed
  <2> QED BY <1>1, <1>9, <1>15, <2>1 DEF ReapersAreServed
<1>17. Cardinality(threads') = Cardinality(threads) - 1
       /\ Cardinality(threads) \in Nat /\ Cardinality(actives) \in Nat
  <2>1. threads \in SUBSET Threads
    BY <1>3 DEF PoolType
  <2> QED BY <1>1, <1>3, <1>4, <2>1, CountOne, Numbers
<1>18. /\ Cardinality(actives) + (exits - 1) + Len(pending) <= Cardinality(threads) - 1
       /\ (Cardinality(threads) - 1) - Cardinality(actives) - Len(pending) - (exits - 1) < Threshold
  <2>1. /\ Cardinality(actives) + exits + Len(pending) <= Cardinality(threads)
        /\ Cardinality(threads) - Cardinality(actives) - Len(pending) - exits < Threshold
    BY <1>3 DEF CountersNeverWrap, IdlesBounded
  <2> QED BY <1>8, <1>17, <2>1, Quitting, Zenon
<1>19. CountersNeverWrap' /\ IdlesBounded'
  <2>1. UNCHANGED <<actives, pending, initializing>>
    BY <1>1
  <2> QED BY <1>1, <1>17, <1>18, <2>1 DEF CountersNeverWrap, IdlesBounded, Threshold
<1>20. WakeupsSuffice'
  <2> SUFFICES ASSUME Waiting' # {} PROVE exits' + Len(pending) <= Cardinality(Busy')
    BY <1>1 DEF WakeupsSuffice, Waiting, Busy
  <2>1. Waiting' = Waiting
    BY <1>1, <1>7 DEF Waiting, At
  <2>2. t \in Busy /\ Busy' = Busy \ {t}
    BY <1>1, <1>7 DEF Busy, At, Reaping
  <2>3. exits + Len(pending) <= Cardinality(Busy)
    BY <1>3, <2>1 DEF WakeupsSuffice, Waiting, Busy
  <2>4. Cardinality(Busy') = Cardinality(Busy) - 1 /\ Cardinality(Busy) \in Nat
    BY <2>2, BusyLess
  <2> QED BY <1>1, <1>8, <2>3, <2>4
<1> QED BY <1>3, <1>10, <1>12, <1>13, <1>14, <1>15, <1>16, <1>19, <1>20 DEF GrowableInv, GrowableSound

LEMMA TryExitKeepsToo ==
  ASSUME GrowableInv, NEW t \in Threads, TryExit(t), initializing
  PROVE  GrowableInv'
<1>1. /\ pc[t] \in {"try", "woken"} /\ exits > 0 /\ exits' = exits - 1
      /\ pc' = [pc EXCEPT ![t] = "exited"]
      /\ UNCHANGED <<exited, threads, actives, initializing, pending, need, cancelled, joining>>
  BY DEF TryExit
<1>2. PoolType /\ Lists /\ Roles /\ Stages /\ Leaving /\ IsFiniteSet(Awaited)
  BY Has
<1>3. t \in joining /\ t \notin threads \cup Rng(exited)
  BY <1>1, InPool
<1>4. t \notin actives /\ ~(need[t] > 0)
  BY <1>1, <1>2 DEF Roles, Reaping
<1>5. pc' \in [Threads -> Places] /\ pc'[t] = "exited" /\ \A u \in Threads : u # t => pc'[u] = pc[u]
  BY <1>1, <1>2 DEF PoolType, Places
<1>6. exits \in Nat /\ exits' \in Nat
  BY <1>1, <1>2 DEF PoolType
<1>7. PoolType'
  BY <1>1, <1>2, <1>5, <1>6 DEF PoolType
<1>8. Lists'
  <2>1. Rng(exited)' = Rng(exited) /\ Rng(exited) \subseteq Threads
    BY <1>1, <1>2 DEF Rng, PoolType
  <2>2. Lists /\ UNCHANGED <<threads, exited, joining>> /\ threads \subseteq Threads /\ pc[t] # "none"
    BY <1>1, <1>2 DEF PoolType
  <2> QED BY <1>3, <1>5, <2>1, <2>2 DEF Lists
<1>9. Roles'
  BY <1>1, <1>2, <1>4, <1>5 DEF Roles, Reaping, PoolType
<1>10. Stages'
  BY <1>1, <1>2 DEF Stages
<1>11. Awaited' = Awaited
  BY <1>1 DEF Awaited
<1>12. Waiting' = {}
  <2>1. Waiting = {}
    BY <1>1, <1>2, <1>6 DEF Leaving, Waiting
  <2> QED BY <1>5, <2>1 DEF Waiting, At
<1>13. Leaving'
  <2>1. Quitters \in SUBSET Threads /\ Quitters' = Quitters \ {t}
    BY <1>1, <1>2, <1>5 DEF Quitters, PoolType
  <2>2. Cardinality(Quitters) \in Nat /\ exits <= Cardinality(Quitters)
    BY <1>2, Numbers DEF Leaving
  <2>3. Cardinality(Quitters') \in {Cardinality(Quitters), Cardinality(Quitters) - 1}
    BY <2>1, CountOne
  <2>4. exits' <= Cardinality(Quitters')
    BY <1>1, <1>6, <2>2, <2>3
  <2> QED BY <1>1, <1>2, <1>11, <1>12, <2>4 DEF Leaving, Waiting
<1>14. CountersNeverWrap' /\ ReapersAreServed' /\ IdlesBounded'
  BY <1>1 DEF CountersNeverWrap, ReapersAreServed, IdlesBounded
<1>15. WakeupsSuffice'
  BY <1>12 DEF WakeupsSuffice, Waiting
<1> QED BY <1>2, <1>7, <1>8, <1>9, <1>10, <1>11, <1>13, <1>14, <1>15 DEF GrowableInv, GrowableSound

LEMMA TryRunKeeps ==
  ASSUME GrowableInv, NEW t \in Threads, TryRun(t)
  PROVE  GrowableInv'
<1>1. /\ pc[t] \in {"try", "woken"} /\ exits = 0 /\ pending # <<>>
      /\ actives' = actives \cup {t} /\ pending' = Tail(pending)
      /\ pc' = [pc EXCEPT ![t] = "running"]
      /\ UNCHANGED <<threads, exited, exits, initializing, need, cancelled, joining>>
  BY DEF TryRun
<1>2. PoolType /\ Lists /\ Roles /\ Stages /\ IsFiniteSet(Awaited)
      /\ CountersNeverWrap /\ ReapersAreServed /\ WakeupsSuffice /\ IdlesBounded
  BY Has
<1>3. ~initializing
  BY <1>1, <1>2 DEF Stages
<1>4. t \in threads /\ t \notin joining \cup Rng(exited)
  BY <1>1, <1>3, InPool
<1>5. t \notin actives /\ ~(need[t] > 0)
  BY <1>1, <1>2 DEF Roles, Reaping
<1>6. pc' \in [Threads -> Places] /\ pc'[t] = "running" /\ \A u \in Threads : u # t => pc'[u] = pc[u]
  BY <1>1, <1>2 DEF PoolType, Places
<1>7. pending' \in Seq(Jobs) /\ Len(pending') = Len(pending) - 1 /\ Len(pending) \in Nat
  BY <1>1, <1>2 DEF PoolType
<1>8. PoolType'
  BY <1>1, <1>2, <1>4, <1>6, <1>7 DEF PoolType
<1>9. Lists'
  <2>1. Rng(exited)' = Rng(exited) /\ Rng(exited) \subseteq Threads
    BY <1>1, <1>2 DEF Rng, PoolType
  <2>2. /\ Lists /\ UNCHANGED <<threads, exited, joining>> /\ threads \subseteq Threads
        /\ pc[t] \notin {"none", "exited"}
    BY <1>1, <1>2 DEF PoolType
  <2> QED BY <1>4, <1>6, <2>1, <2>2 DEF Lists
<1>10. Roles'
  BY <1>1, <1>2, <1>5, <1>6 DEF Roles, Reaping, PoolType
<1>11. Stages' /\ Leaving'
  BY <1>1, <1>2, <1>3 DEF Stages, Leaving
<1>12. Awaited' = Awaited
  BY <1>1 DEF Awaited
<1>13. ReapersAreServed'
  BY <1>1, <1>2, <1>12 DEF ReapersAreServed
<1>14. Cardinality(actives') = Cardinality(actives) + 1
       /\ Cardinality(threads) \in Nat /\ Cardinality(actives) \in Nat /\ exits \in Nat
  <2>1. actives \in SUBSET Threads
    BY <1>2 DEF PoolType
  <2> QED BY <1>1, <1>2, <1>5, <2>1, CountOne, Numbers
<1>15. /\ (Cardinality(actives) + 1) + exits + (Len(pending) - 1) <= Cardinality(threads)
       /\ Cardinality(threads) - (Cardinality(actives) + 1) - (Len(pending) - 1) - exits < Threshold
  <2>1. /\ Cardinality(actives) + exits + Len(pending) <= Cardinality(threads)
        /\ Cardinality(threads) - Cardinality(actives) - Len(pending) - exits < Threshold
    BY <1>2, <1>3 DEF CountersNeverWrap, IdlesBounded
  <2> QED BY <1>7, <1>14, <2>1, Quitting, Zenon
<1>16. CountersNeverWrap' /\ IdlesBounded'
  <2>1. UNCHANGED <<threads, exits, initializing>>
    BY <1>1
  <2> QED BY <1>7, <1>14, <1>15, <2>1 DEF CountersNeverWrap, IdlesBounded, Threshold
<1>17. WakeupsSuffice'
  <2> SUFFICES ASSUME Waiting' # {} PROVE exits + Len(pending') <= Cardinality(Busy')
    BY <1>1 DEF WakeupsSuffice, Waiting, Busy
  <2>1. Waiting' = Waiting
    BY <1>1, <1>6 DEF Waiting, At
  <2>2. t \in Busy /\ Busy' = Busy \ {t}
    BY <1>1, <1>6 DEF Busy, At, Reaping
  <2>3. exits + Len(pending) <= Cardinality(Busy)
    BY <1>2, <2>1 DEF WakeupsSuffice, Waiting, Busy
  <2>4. Cardinality(Busy') = Cardinality(Busy) - 1 /\ Cardinality(Busy) \in Nat
    BY <2>2, BusyLess
  <2> QED BY <1>7, <1>14, <2>3, <2>4
<1> QED BY <1>2, <1>8, <1>9, <1>10, <1>11, <1>12, <1>13, <1>16, <1>17 DEF GrowableInv, GrowableSound

LEMMA ShutdownKeeps ==
  ASSUME GrowableInv, NEW wait_for_jobs_done \in BOOLEAN, Shutdown(wait_for_jobs_done)
  PROVE  GrowableInv'
<1>1. /\ ~initializing /\ pending' = <<>>
      /\ exits' = Cardinality(threads) - (IF wait_for_jobs_done THEN 0 ELSE Cardinality(actives))
      /\ cancelled' = (IF wait_for_jobs_done THEN {} ELSE actives)
      /\ actives' = {} /\ joining' = threads /\ threads' = {}
      /\ pc' = Woken(At({"waiting"}), "woken") /\ initializing' = TRUE
      /\ UNCHANGED <<exited, need>>
  BY DEF Shutdown
<1>2. PoolType /\ Lists /\ Roles /\ Stages /\ IsFiniteSet(Awaited) /\ ReapersAreServed
  BY Has
<1>3. /\ pc' \in [Threads -> Places]
      /\ \A t \in Waiting : pc[t] = "waiting" /\ pc'[t] = "woken"
      /\ \A t \in Threads : t \notin Waiting => pc[t] # "waiting" /\ pc'[t] = pc[t]
  BY <1>1, <1>2 DEF Waiting, At, Woken, Places, PoolType
<1>4. exits' = Cardinality(threads \ cancelled') /\ exits' \in Nat
  <2>1. threads \in SUBSET Threads /\ actives \in SUBSET threads
    BY <1>2 DEF PoolType
  <2>2. CASE wait_for_jobs_done
    <3>1. threads \ cancelled' = threads
      BY <1>1, <2>2
    <3>2. Cardinality(threads) \in Nat
      BY <2>1, Counted
    <3> QED BY <1>1, <2>2, <3>1, <3>2
  <2>3. CASE ~wait_for_jobs_done
    <3>1. threads \ cancelled' = threads \ actives
      BY <1>1, <2>3
    <3>2. /\ (threads \ actives) \cup actives = threads /\ (threads \ actives) \cap actives = {}
          /\ threads \ actives \in SUBSET Threads /\ actives \in SUBSET Threads
      BY <2>1
    <3>3. Cardinality((threads \ actives) \cup actives)
            = Cardinality(threads \ actives) + Cardinality(actives)
      BY <3>2, CountBoth
    <3>4. Cardinality(threads) = Cardinality(threads \ actives) + Cardinality(actives)
      BY <3>2, <3>3, Zenon
    <3>5. Cardinality(threads \ actives) \in Nat /\ Cardinality(actives) \in Nat
      BY <3>2, Counted
    <3> QED BY <1>1, <2>3, <3>1, <3>4, <3>5
  <2> QED BY <2>2, <2>3
<1>5. PoolType'
  <2>1. cancelled' \subseteq threads
    BY <1>1, <1>2 DEF PoolType
  <2> QED BY <1>1, <1>2, <1>3, <1>4, <2>1 DEF PoolType
<1>6. Lists'
  <2>1. Rng(exited)' = Rng(exited) /\ Rng(exited) \subseteq Threads /\ exited' = exited
    BY <1>1, <1>2 DEF Rng, PoolType
  <2>2. Lists /\ joining = {} /\ joining' = threads /\ threads' = {} /\ threads \subseteq Threads
    BY <1>1, <1>2 DEF Stages, PoolType
  <2>3. \A t \in Threads : (pc'[t] = "none" <=> pc[t] = "none") /\ (pc'[t] = "exited" <=> pc[t] = "exited")
    BY <1>3
  <2> QED BY <2>1, <2>2, <2>3 DEF Lists
<1>7. Roles'
  <2>1. \A t \in Threads : pc'[t] \in Reaping <=> pc[t] \in Reaping
    BY <1>3 DEF Reaping
  <2> QED BY <1>1, <1>2, <2>1 DEF Roles
<1>8. Stages'
  BY <1>1 DEF Stages
<1>9. Awaited' = Awaited
  BY <1>1 DEF Awaited
<1>10. Waiting' = {}
  BY <1>3 DEF Waiting, At
<1>11. Leaving'
  <2>1. \A t \in threads : t \in Threads /\ pc'[t] # "exited"
    BY <1>2, <1>3 DEF Lists, PoolType
  <2>2. Quitters' = threads \ cancelled'
    BY <1>1, <2>1 DEF Quitters
  <2>3. exits' <= Cardinality(Quitters')
    BY <1>4, <2>2
  <2>4. Len(exited) <= Cardinality(Awaited)
    <3>1. Cardinality(Awaited) = exits + Len(exited) /\ exits \in Nat /\ Len(exited) \in Nat
      BY <1>1, <1>2 DEF ReapersAreServed, PoolType
    <3> QED BY <3>1
  <2> QED BY <1>1, <1>9, <1>10, <2>3, <2>4 DEF Leaving, Waiting
<1>12. CountersNeverWrap' /\ ReapersAreServed' /\ IdlesBounded'
  BY <1>1 DEF CountersNeverWrap, ReapersAreServed, IdlesBounded
<1>13. WakeupsSuffice'
  BY <1>10 DEF WakeupsSuffice, Waiting
<1> QED BY <1>2, <1>5, <1>6, <1>7, <1>8, <1>9, <1>11, <1>12, <1>13 DEF GrowableInv, GrowableSound

LEMMA JoinKeeps ==
  ASSUME GrowableInv, NEW t \in Threads, Join(t)
  PROVE  GrowableInv'
<1>1. /\ t \in joining /\ pc[t] = "exited"
      /\ joining' = joining \ {t} /\ cancelled' = cancelled \ {t}
      /\ pc' = [pc EXCEPT ![t] = "none"]
      /\ UNCHANGED <<threads, actives, exited, exits, initializing, pending, need>>
  BY DEF Join
<1>2. PoolType /\ Lists /\ Roles /\ Stages /\ Leaving /\ IsFiniteSet(Awaited) /\ WakeupsSuffice
  BY Has
<1>3. initializing /\ threads = {}
  BY <1>1, <1>2 DEF Stages
<1>4. pc' \in [Threads -> Places] /\ pc'[t] = "none" /\ \A u \in Threads : u # t => pc'[u] = pc[u]
  BY <1>1, <1>2 DEF PoolType, Places
<1>5. PoolType'
  BY <1>1, <1>2, <1>4 DEF PoolType
<1>6. Lists'
  <2>1. Rng(exited)' = Rng(exited) /\ Rng(exited) \subseteq Threads
    BY <1>1, <1>2 DEF Rng, PoolType
  <2>2. Lists /\ UNCHANGED <<threads, exited>> /\ joining' = joining \ {t}
    BY <1>1, <1>2
  <2>3. t \notin Rng(exited)
    BY <1>1, <2>2 DEF Lists
  <2> QED BY <1>1, <1>3, <1>4, <2>1, <2>2, <2>3 DEF Lists
<1>7. Roles'
  BY <1>1, <1>2, <1>3, <1>4 DEF Roles, Reaping, PoolType
<1>8. Stages'
  BY <1>1, <1>2, <1>3 DEF Stages
<1>9. Awaited' = Awaited
  BY <1>1 DEF Awaited
<1>10. Quitters' = Quitters
  BY <1>1, <1>2, <1>4 DEF Quitters, PoolType
<1>11. Waiting' = Waiting /\ Busy' = Busy
  BY <1>1, <1>4 DEF Waiting, Busy, At, Reaping
<1>12. Leaving'
  BY <1>1, <1>2, <1>9, <1>10, <1>11 DEF Leaving, Waiting
<1>13. CountersNeverWrap' /\ ReapersAreServed' /\ IdlesBounded'
  BY <1>1, <1>3 DEF CountersNeverWrap, ReapersAreServed, IdlesBounded
<1>14. WakeupsSuffice'
  BY <1>1, <1>2, <1>11 DEF WakeupsSuffice, Waiting, Busy
<1> QED BY <1>2, <1>5, <1>6, <1>7, <1>8, <1>9, <1>12, <1>13, <1>14 DEF GrowableInv, GrowableSound

\* A pool that is shut down has no reapers, and nothing to reap.
LEMMA ShutdownReturnKeeps ==
  ASSUME GrowableInv, ShutdownReturn
  PROVE  GrowableInv'
<1>1. /\ initializing /\ joining = {} /\ initializing' = FALSE
      /\ UNCHANGED <<threads, actives, exited, exits, pending, pc, need, cancelled, joining>>
  BY DEF ShutdownReturn
<1>2. PoolType /\ Lists /\ Roles /\ Stages /\ Leaving /\ IsFiniteSet(Awaited) /\ WakeupsSuffice
  BY Has
<1>3. threads = {} /\ actives = {} /\ pending = <<>>
  BY <1>1, <1>2 DEF Stages, PoolType
<1>4. \A t \in Threads : need[t] = 0
  <2>1. \A t \in Threads : pc[t] \in {"none", "exited"}
    BY <1>1, InPool, <1>3
  <2> QED BY <1>2, <2>1 DEF Roles, Reaping, PoolType
<1>5. Awaited' = Awaited /\ Awaited = {}
  <2>1. Awaited' = Awaited
    BY <1>1 DEF Awaited
  <2> QED BY <1>4, <2>1, AwaitedNone, Zenon
<1>6. Quitters = {} /\ Cardinality({}) = 0
  BY <1>1, FS_EmptySet DEF Quitters
<1>7. exits = 0 /\ Len(exited) = 0 /\ Len(pending) = 0
  <2>1. exits \in Nat /\ Len(exited) \in Nat /\ Len(pending) = 0
    BY <1>2, <1>3 DEF PoolType
  <2>2. exits <= Cardinality({}) /\ Len(exited) <= Cardinality({})
    <3>1. exits <= Cardinality(Quitters) /\ Len(exited) <= Cardinality(Awaited)
      BY <1>1, <1>2 DEF Leaving
    <3> QED BY <1>5, <1>6, <3>1, Zenon
  <2> QED BY <1>6, <2>1, <2>2
<1>8. PoolType' /\ Lists' /\ Roles' /\ Stages' /\ Leaving'
  <2>1. PoolType'
    BY <1>1, <1>2 DEF PoolType
  <2>2. Lists'
    BY <1>1, <1>2 DEF Lists, Rng
  <2>3. Roles'
    BY <1>1, <1>2 DEF Roles
  <2>4. Stages' /\ Leaving'
    BY <1>1 DEF Stages, Leaving
  <2> QED BY <2>1, <2>2, <2>3, <2>4
<1>9. ReapersAreServed'
  <2>1. Cardinality(Awaited') = 0
    BY <1>5, <1>6, Zenon
  <2> QED BY <1>1, <1>7, <2>1 DEF ReapersAreServed
<1>10. CountersNeverWrap' /\ IdlesBounded'
  <2>1. Cardinality(threads') = 0 /\ Cardinality(actives') = 0 /\ Len(pending') = 0 /\ exits' = 0
    BY <1>1, <1>3, <1>6, <1>7
  <2>2. 0 + 0 + 0 <= 0 /\ 0 - 0 - 0 - 0 < Threshold
    BY ThresholdIs, GrowableAssumption
  <2> QED BY <2>1, <2>2 DEF CountersNeverWrap, IdlesBounded, Threshold
<1>11. WakeupsSuffice'
  <2>1. UNCHANGED <<exits, pending, pc>>
    BY <1>1
  <2> QED BY <1>2, <2>1 DEF WakeupsSuffice, At
<1> QED BY <1>2, <1>5, <1>8, <1>9, <1>10, <1>11 DEF GrowableInv, GrowableSound

-----------------------------------------------------------------------------
LEMMA GrowableInitially == Init => GrowableInv
<1> SUFFICES ASSUME Init PROVE GrowableInv
  OBVIOUS
<1>1. /\ threads = {} /\ actives = {} /\ exited = <<>> /\ exits = 0 /\ pending = <<>>
      /\ initializing = FALSE /\ cancelled = {} /\ joining = {}
      /\ pc = [t \in Threads |-> "none"] /\ need = [t \in Threads |-> 0]
  BY DEF Init
<1>2. PoolType
  <2>1. pc \in [Threads -> Places] /\ need \in [Threads -> Nat]
    BY <1>1 DEF Places
  <2>2. exited \in Seq(Threads) /\ pending \in Seq(Jobs)
    BY <1>1
  <2> QED BY <1>1, <2>1, <2>2 DEF PoolType
<1>3. Rng(exited) = {}
  BY <1>1 DEF Rng
<1>4. Lists /\ Roles /\ Stages /\ Leaving
  BY <1>1, <1>3 DEF Lists, Roles, Stages, Leaving, Reaping
<1>5. Awaited = {}
  <2>1. \A t \in Threads : need[t] = 0
    BY <1>1
  <2> QED BY <2>1, AwaitedNone, Zenon
<1>6. Cardinality({}) = 0 /\ IsFiniteSet({})
  BY FS_EmptySet
<1>7. Len(exited) = 0 /\ Len(pending) = 0
  BY <1>1
<1>8. ReapersAreServed /\ IsFiniteSet(Awaited)
  <2>1. Cardinality(Awaited) = 0 /\ IsFiniteSet(Awaited)
    BY <1>5, <1>6, Zenon
  <2> QED BY <1>1, <1>7, <2>1 DEF ReapersAreServed
<1>9. CountersNeverWrap /\ IdlesBounded
  <2>1. Cardinality(threads) = 0 /\ Cardinality(actives) = 0
    BY <1>1, <1>6
  <2>2. 0 + 0 + 0 <= 0 /\ 0 - 0 - 0 - 0 < Threshold
    BY ThresholdIs, GrowableAssumption
  <2> QED BY <1>1, <1>7, <2>1, <2>2 DEF CountersNeverWrap, IdlesBounded
<1>10. WakeupsSuffice
  BY <1>1 DEF WakeupsSuffice, At
<1> QED BY <1>2, <1>4, <1>8, <1>9, <1>10 DEF GrowableInv, GrowableSound

LEMMA GrowableStep == GrowableInv /\ [Next]_vars => GrowableInv'
<1> SUFFICES ASSUME GrowableInv, [Next]_vars PROVE GrowableInv'
  OBVIOUS
<1>1. ASSUME NEW wait_for_jobs_done \in Shutdowns, Shutdown(wait_for_jobs_done) PROVE GrowableInv'
  <2>1. wait_for_jobs_done \in BOOLEAN
    BY GrowableAssumption
  <2> QED BY <1>1, <2>1, ShutdownKeeps
<1>2. CASE ShutdownReturn
  BY <1>2, ShutdownReturnKeeps
<1>3. ASSUME NEW j \in Jobs, AppendJob(j) PROVE GrowableInv'
  BY <1>3, AppendJobKeeps
<1>4. ASSUME NEW t \in Threads, ThreadStep(t) PROVE GrowableInv'
  <2>1. CASE TryExit(t)
    BY <2>1, TryExitKeeps, TryExitKeepsToo
  <2> QED BY <1>4, <2>1, RequestJobKeeps, MaybeShrinkKeeps, ReapKeeps, TryRunKeeps, GoOnKeeps DEF ThreadStep
<1>5. ASSUME NEW t \in Threads, SpuriousWakeup(t) \/ FinishJob(t) \/ Cancel(t) \/ Join(t) PROVE GrowableInv'
  BY <1>5, GoOnKeeps, JoinKeeps
<1>6. CASE UNCHANGED vars
  <2>1. UNCHANGED <<threads, actives, exited, exits, initializing, pending, pc, need, cancelled, joining>>
    BY <1>6 DEF vars
  <2>2. PoolType /\ Lists /\ Roles /\ Stages /\ Leaving /\ IsFiniteSet(Awaited)
        /\ CountersNeverWrap /\ ReapersAreServed /\ WakeupsSuffice /\ IdlesBounded
    BY Has
  <2>3. PoolType'
    BY <2>1, <2>2 DEF PoolType
  <2>4. Lists'
    BY <2>1, <2>2 DEF Lists, Rng
  <2>5. Roles' /\ Stages'
    BY <2>1, <2>2 DEF Roles, Stages
  <2>6. Awaited' = Awaited /\ Quitters' = Quitters /\ Waiting' = Waiting /\ Busy' = Busy
    BY <2>1 DEF Awaited, Quitters, Waiting, Busy, At
  <2>7. Leaving'
    BY <2>1, <2>2, <2>6 DEF Leaving, Waiting
  <2>8. CountersNeverWrap' /\ IdlesBounded'
    BY <2>1, <2>2 DEF CountersNeverWrap, IdlesBounded
  <2>9. ReapersAreServed' /\ WakeupsSuffice'
    BY <2>1, <2>2, <2>6 DEF ReapersAreServed, WakeupsSuffice, Waiting, Busy
  <2> QED BY <2>2, <2>3, <2>4, <2>5, <2>6, <2>7, <2>8, <2>9 DEF GrowableInv, GrowableSound
<1> QED BY <1>1, <1>2, <1>3, <1>4, <1>5, <1>6 DEF Next

\* In every state of every pool: the lists of threads are told apart, the counters are
\* right, and while Shutdown() joins the threads they are not higher than what is left.
THEOREM GrowableAlways == Spec => []GrowableInv
BY GrowableInitially, GrowableStep, PTL DEF Spec

\* GrowableSound for every size of the batches, all threads and all jobs: AppendJob() and
\* MaybeShrink() never calculate with a difference below zero, MaybeShrink() never
\* waits for more threads than are going to quit, no job and no exit is left without
\* a thread on its way to take it, and no idle threads pile up.
THEOREM GrowableIsSound == Spec => []GrowableSound
<1>1. GrowableInv => GrowableSound
  BY DEF GrowableInv
<1> QED BY <1>1, GrowableAlways, PTL
=============================================================================
