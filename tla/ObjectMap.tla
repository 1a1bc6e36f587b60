------------------------------ MODULE ObjectMap ------------------------------
(***************************************************************************)
(* flinter/object_map.h: objects by key, counted by reference.  An object  *)
(* that is erased while it is in use moves to _drop, and the last          *)
(* Release() destroys it.  Every method runs under _mutex and is one step. *)
(* Holders stand for whoever keeps a reference, one each.                  *)
(***************************************************************************)
EXTENDS Naturals, FiniteSets

CONSTANTS
  Keys,      \* keys, numbers: _map is ordered
  Objects,   \* objects that Create() can return
  Holders,   \* who keeps references
  None       \* no object, no key, and the end of _map

ASSUME MapAssumption ==
  /\ Keys \subseteq Nat /\ IsFiniteSet(Holders)
  /\ None \notin Objects /\ None \notin Keys

VARIABLES
  map,       \* _map: key -> object, or None
  drop,      \* the objects in _drop
  count,     \* object -> its count of references, in _map or in _drop
  ptr,       \* _ptr: a key in _map, or None
  eraser,    \* EraseAll(): "no", "locking" (about to test _drop again), "waiting"
  made,      \* history: objects that were created
  destroyed, \* history: objects that were destroyed
  holds      \* history: holder -> the object it got and has not released, or None

vars == <<map, drop, count, ptr, eraser, made, destroyed, holds>>

Mapped == {k \in Keys : map[k] # None}
InMap == {map[k] : k \in Mapped}
HoldersOf(o) == {h \in Holders : holds[h] = o}

TypeOK ==
  /\ map \in [Keys -> Objects \cup {None}]
  /\ drop \subseteq Objects /\ made \subseteq Objects /\ destroyed \subseteq Objects
  /\ count \in [Objects -> Nat]
  /\ ptr \in Keys \cup {None}
  /\ eraser \in {"no", "locking", "waiting"}
  /\ holds \in [Holders -> Objects \cup {None}]

Init ==
  /\ map = [k \in Keys |-> None] /\ drop = {} /\ count = [o \in Objects |-> 0]
  /\ ptr = None /\ eraser = "no" /\ made = {} /\ destroyed = {}
  /\ holds = [h \in Holders |-> None]

-----------------------------------------------------------------------------
(***************************************************************************)
(* Taking a reference.                                                     *)
(***************************************************************************)
Hold(h, o) ==
  /\ count' = [count EXCEPT ![o] = @ + 1]
  /\ holds' = [holds EXCEPT ![h] = o]

\* Add() finds the key, as Get() does.
Get(h, k) ==
  /\ holds[h] = None /\ map[k] # None
  /\ Hold(h, map[k])
  /\ UNCHANGED <<map, drop, ptr, eraser, made, destroyed>>

\* Add() creates an object.  If Create() fails, nothing changes.
Add(h, k, o) ==
  /\ holds[h] = None /\ map[k] = None /\ o \notin made
  /\ made' = made \cup {o}
  /\ map' = [map EXCEPT ![k] = o] /\ ptr' = None
  /\ Hold(h, o)
  /\ UNCHANGED <<drop, eraser, destroyed>>

\* The key after k in _map, or the first one.
After(k) == {j \in Mapped : k # None /\ j > k}
NextKey(k) ==
  CHOOSE j \in Mapped :
    IF After(k) # {} THEN j \in After(k) /\ \A i \in After(k) : j <= i
    ELSE \A i \in Mapped : j <= i

GetNext(h) ==
  /\ holds[h] = None /\ Mapped # {}
  /\ ptr' = NextKey(ptr)
  /\ Hold(h, map[NextKey(ptr)])
  /\ UNCHANGED <<map, drop, eraser, made, destroyed>>

-----------------------------------------------------------------------------
(***************************************************************************)
(* Release().                                                              *)
(***************************************************************************)
\* Defect: nobody is woken.
WakeNone == UNCHANGED eraser

WakeAll == eraser' = IF eraser = "waiting" THEN "locking" ELSE eraser

\* Release() of an object that is still in _map.
ReleaseMapped(h) ==
  /\ holds[h] \in InMap
  /\ count' = [count EXCEPT ![holds[h]] = @ - 1]
  /\ holds' = [holds EXCEPT ![h] = None]
  /\ UNCHANGED <<map, drop, ptr, eraser, made, destroyed>>

\* Defect: a dropped object is destroyed though others hold it.
ReleaseDroppedAtOnce(h) ==
  /\ holds[h] \in drop
  /\ count' = [count EXCEPT ![holds[h]] = @ - 1]
  /\ holds' = [holds EXCEPT ![h] = None]
  /\ drop' = drop \ {holds[h]} /\ destroyed' = destroyed \cup {holds[h]} /\ WakeAll
  /\ UNCHANGED <<map, ptr, made>>

\* Release() of an object that is in _drop.
ReleaseDropped(h) ==
  /\ holds[h] \in drop
  /\ count' = [count EXCEPT ![holds[h]] = @ - 1]
  /\ holds' = [holds EXCEPT ![h] = None]
  /\ \/ /\ count[holds[h]] = 1
        /\ drop' = drop \ {holds[h]} /\ destroyed' = destroyed \cup {holds[h]}
        /\ WakeAll
     \/ /\ count[holds[h]] # 1
        /\ UNCHANGED <<drop, destroyed, eraser>>
  /\ UNCHANGED <<map, ptr, made>>

Release(h) == ReleaseMapped(h) \/ ReleaseDropped(h)

-----------------------------------------------------------------------------
(***************************************************************************)
(* Erasing.                                                                *)
(***************************************************************************)
\* The objects of the given keys: those in use go to _drop, the others end.
Drop(keys) ==
  LET gone == {map[k] : k \in keys}
  IN /\ destroyed' = destroyed \cup {o \in gone : count[o] = 0}
     /\ drop' = drop \cup {o \in gone : count[o] # 0}

Erase(k) ==
  /\ k \in Mapped
  /\ Drop({k})
  /\ map' = [map EXCEPT ![k] = None] /\ ptr' = None
  /\ UNCHANGED <<count, eraser, made, holds>>

\* SetAll(): a new object, in new, for each of the keys that is missing, unless
\* Create() fails, and the other keys go.
SetAll(keys, new) ==
  LET missing == {k \in keys : map[k] = None /\ new[k] # None}
      gone == Mapped \ keys
  IN /\ \A k \in missing : new[k] \notin made
     /\ \A j, k \in missing : j # k => new[j] # new[k]
     /\ made' = made \cup {new[k] : k \in missing}
     /\ map' = [k \in Keys |-> IF k \in missing THEN new[k]
                               ELSE IF k \in gone THEN None ELSE map[k]]
     /\ Drop(gone)
     /\ ptr' = IF missing = {} /\ gone = {} THEN ptr ELSE None
     /\ UNCHANGED <<count, eraser, holds>>

\* EraseAll(), up to the first test of _drop.
EraseAll(wait_until_empty) ==
  /\ eraser = "no"
  /\ Drop(Mapped)
  /\ map' = [k \in Keys |-> None] /\ ptr' = None
  /\ eraser' = IF wait_until_empty THEN "locking" ELSE "no"
  /\ UNCHANGED <<count, made, holds>>

EraserTest ==
  /\ eraser = "locking"
  /\ eraser' = IF drop = {} THEN "no" ELSE "waiting"
  /\ UNCHANGED <<map, drop, count, ptr, made, destroyed, holds>>

EraserSpurious ==
  /\ eraser = "waiting"
  /\ eraser' = "locking"
  /\ UNCHANGED <<map, drop, count, ptr, made, destroyed, holds>>

\* Clear(), which the destructors of subclasses call: nobody may use the map.
Clear ==
  /\ eraser = "no" /\ \A h \in Holders : holds[h] = None
  /\ destroyed' = destroyed \cup InMap \cup drop
  /\ map' = [k \in Keys |-> None] /\ drop' = {} /\ ptr' = None
  /\ UNCHANGED <<count, eraser, made, holds>>

-----------------------------------------------------------------------------
Next ==
  \/ \E h \in Holders : GetNext(h) \/ Release(h)
  \/ \E h \in Holders, k \in Keys : Get(h, k) \/ \E o \in Objects : Add(h, k, o)
  \/ \E k \in Keys : Erase(k)
  \/ \E keys \in SUBSET Keys, new \in [Keys -> Objects \cup {None}] : SetAll(keys, new)
  \/ \E wait_until_empty \in BOOLEAN : EraseAll(wait_until_empty)
  \/ EraserTest \/ EraserSpurious \/ Clear

Spec == Init /\ [][Next]_vars

\* Whoever holds an object releases it, and EraseAll() gets the mutex.  "Shouldn't
\* SetAll() nor Add() when calling this": the objects of an instance are finitely many.
Fairness == WF_vars(EraserTest) /\ \A h \in Holders : WF_vars(Release(h))

FairSpec == Spec /\ Fairness

-----------------------------------------------------------------------------
(***************************************************************************)
(* Properties.                                                             *)
(***************************************************************************)

\* An object that somebody got and has not released is not destroyed, whatever is
\* erased meanwhile.
HeldAlive == \A h \in Holders : holds[h] \notin destroyed

\* The counts are the numbers of references, over the move from _map to _drop too.
CountsExact ==
  \A o \in Objects : o \in InMap \cup drop => count[o] = Cardinality(HoldersOf(o))

\* Nothing leaks and nothing is destroyed twice: an object is in _map once, or in
\* _drop and in use, or destroyed.
NothingLeaks ==
  /\ made = InMap \cup drop \cup destroyed
  /\ InMap \cap drop = {} /\ destroyed \cap (InMap \cup drop) = {}
  /\ \A j, k \in Mapped : map[j] = map[k] => j = k
  /\ \A o \in drop : HoldersOf(o) # {}

\* The iterator of GetNext() is never one to an element that was erased.
PtrValid == ptr # None => ptr \in Mapped

\* The four together: what users of the map rely on.
MapSafe == HeldAlive /\ CountsExact /\ NothingLeaks /\ PtrValid

\* EraseAll(true) returns once all objects have been released.
EraseAllReturns == eraser # "no" ~> eraser = "no"

=============================================================================
