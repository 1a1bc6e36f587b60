---------------------------- MODULE ObjectPool ----------------------------
(***************************************************************************)
(* flinter/object_pool.h: objects that threads grab, give back, exchange   *)
(* and throw away while another thread shrinks the pool.  The mutex is let *)
(* go around Create() and Destroy(), which belong to the subclass, so an   *)
(* object is for a while in a thread's hands and not in the list, and      *)
(* several threads create at once.                                         *)
(***************************************************************************)
EXTENDS Integers, FiniteSets

CONSTANTS
  Users,      \* threads
  Made,       \* objects Create() may return
  MaxIdle     \* max_idle_time()

Nothing == "nothing"

ASSUME PoolAssumption == Nothing \notin Made /\ MaxIdle \in Nat

VARIABLES
  pool,      \* objects in _pool -> [inUse, age]; age is the time since Release(), at most MaxIdle
  exists,    \* objects created and not destroyed
  hand,      \* user -> the object it was given
  busy,      \* user -> "no", "create" (the mutex is free), or "destroy" what is in dying
  dying      \* user -> objects it took out of the list to destroy

poolVars == <<pool, exists, hand, busy, dying>>

PoolOK ==
  /\ exists \subseteq Made /\ hand \in [Users -> Made \cup {Nothing}]
  /\ busy \in [Users -> {"no", "create", "destroy"}] /\ dying \in [Users -> SUBSET Made]
  /\ \A o \in DOMAIN pool : pool[o].inUse \in BOOLEAN /\ pool[o].age \in 0..MaxIdle + 1

PoolInit ==
  /\ pool = [o \in {} |-> 0] /\ exists = {} /\ hand = [u \in Users |-> Nothing]
  /\ busy = [u \in Users |-> "no"] /\ dying = [u \in Users |-> {}]

Without(gone) == [o \in DOMAIN pool \ gone |-> pool[o]]
With(o, inUse, age) ==
  [p \in DOMAIN pool \cup {o} |-> IF p = o THEN [inUse |-> inUse, age |-> age] ELSE pool[p]]
Free == {o \in DOMAIN pool : ~pool[o].inUse}

-----------------------------------------------------------------------------
\* Grab(): the first that is not in use, or a new one.
Grab(u) ==
  /\ busy[u] = "no" /\ hand[u] = Nothing
  /\ \/ \E o \in Free : pool' = With(o, TRUE, pool[o].age) /\ hand' = [hand EXCEPT ![u] = o] /\ UNCHANGED busy
     \/ Free = {} /\ busy' = [busy EXCEPT ![u] = "create"] /\ UNCHANGED <<pool, hand>>
  /\ UNCHANGED <<exists, dying>>

\* Create() returns, and the mutex is locked again; or it returns NULL.
Created(u) ==
  /\ busy[u] = "create" /\ busy' = [busy EXCEPT ![u] = "no"]
  /\ \/ \E o \in Made \ exists :
          exists' = exists \cup {o} /\ pool' = With(o, TRUE, MaxIdle + 1) /\ hand' = [hand EXCEPT ![u] = o]
     \/ UNCHANGED <<pool, exists, hand>>
  /\ UNCHANGED dying

PoolRelease(u) ==
  /\ busy[u] = "no" /\ hand[u] # Nothing /\ hand' = [hand EXCEPT ![u] = Nothing]
  /\ pool' = IF hand[u] \in DOMAIN pool THEN With(hand[u], FALSE, 0) ELSE pool
  /\ UNCHANGED <<exists, busy, dying>>

\* Remove(), with which Exchange() begins.
Remove(u) ==
  /\ busy[u] = "no" /\ hand[u] # Nothing /\ hand' = [hand EXCEPT ![u] = Nothing]
  /\ pool' = Without({hand[u]}) /\ dying' = [dying EXCEPT ![u] = {hand[u]}]
  /\ busy' = [busy EXCEPT ![u] = "destroy"] /\ UNCHANGED exists

\* Mutant: Shrink() does not look whether the object is in use.
ExpiredAny(o) == pool[o].age > MaxIdle

\* Shrink(): Clear(false) takes those out that were idle for too long.
Expired(o) == ~pool[o].inUse /\ pool[o].age > MaxIdle
Shrink(u) ==
  /\ busy[u] = "no" /\ \E o \in DOMAIN pool : Expired(o)
  /\ LET gone == {o \in DOMAIN pool : Expired(o)} IN
       pool' = Without(gone) /\ dying' = [dying EXCEPT ![u] = gone]
  /\ busy' = [busy EXCEPT ![u] = "destroy"] /\ UNCHANGED <<exists, hand>>

\* Destroy(), out of the mutex, one object after another.
Destroy(u) ==
  /\ busy[u] = "destroy"
  /\ \E o \in dying[u] :
       /\ exists' = exists \ {o} /\ dying' = [dying EXCEPT ![u] = @ \ {o}]
       /\ busy' = [busy EXCEPT ![u] = IF dying[u] = {o} THEN "no" ELSE @]
  /\ UNCHANGED <<pool, hand>>

\* The monotonic clock.
Ages ==
  /\ \E o \in Free : pool[o].age <= MaxIdle
  /\ pool' = [o \in DOMAIN pool |-> [pool[o] EXCEPT !.age = IF @ > MaxIdle THEN @ ELSE @ + 1]]
  /\ UNCHANGED <<exists, hand, busy, dying>>

PoolNext ==
  \/ Ages
  \/ \E u \in Users : Grab(u) \/ Created(u) \/ PoolRelease(u) \/ Remove(u) \/ Shrink(u) \/ Destroy(u)

PoolSpec == PoolInit /\ [][PoolNext]_poolVars

-----------------------------------------------------------------------------
\* An object is in one thread's hands, is marked so, and exists; what is in the list exists;
\* and no two threads destroy the same object, so that none is destroyed twice or used after.
PoolSound ==
  /\ \A u, v \in Users : u # v => (hand[u] = Nothing \/ hand[u] # hand[v]) /\ dying[u] \cap dying[v] = {}
  /\ \A u \in Users : hand[u] # Nothing => hand[u] \in exists \cap DOMAIN pool /\ pool[hand[u]].inUse
  /\ DOMAIN pool \subseteq exists /\ \A u \in Users : dying[u] \subseteq exists \ DOMAIN pool

=============================================================================
