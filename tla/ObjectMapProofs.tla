--------------------------- MODULE ObjectMapProofs ---------------------------
(***************************************************************************)
(* Proofs about ObjectMap, for any keys, objects and finite set of         *)
(* holders: held objects are alive, references are counted exactly,        *)
(* nothing leaks, and the iterator stays valid; about ObjectPool, for any  *)
(* users and objects: nobody uses what another one has or destroys; about  *)
(* AsyncRouter, which holds its connections in an ObjectMap: a call ends   *)
(* once and its connection lives until then; and about KeyedThreadPool:    *)
(* jobs of one key keep their order and no thread sleeps beside a job.     *)
(***************************************************************************)
EXTENDS ObjectMap, ObjectPool, KeyedThreadPool, AsyncRouter,
        SequenceTheorems, FiniteSetTheorems, TLAPS

(***************************************************************************)
(* The inductive invariant.  What is held is in _map or in _drop, since    *)
(* counts that are exact keep it from being destroyed; an object that was  *)
(* not created is not counted, so that it can be entered with 0 or 1.      *)
(***************************************************************************)
HeldKnown == \A h \in Holders : holds[h] # None => holds[h] \in InMap \cup drop
FreshUncounted == \A o \in Objects : o \notin made => count[o] = 0

MapInv ==
  TypeOK /\ CountsExact /\ NothingLeaks /\ PtrValid /\ HeldKnown /\ FreshUncounted

-----------------------------------------------------------------------------
(***************************************************************************)
(* Counting references.                                                    *)
(***************************************************************************)

\* The holders of an object are finitely many, so that they can be counted.
LEMMA HoldersFinite == \A o : IsFiniteSet(HoldersOf(o)) /\ Cardinality(HoldersOf(o)) \in Nat
<1> TAKE o
<1>1. IsFiniteSet(HoldersOf(o))
  BY MapAssumption, FS_Subset DEF HoldersOf
<1> QED BY <1>1, FS_CardinalityType

\* Hold() adds one holder to its object, and none to any other.
LEMMA HoldCounts ==
  ASSUME TypeOK, NEW h \in Holders, NEW o \in Objects, holds[h] = None,
         holds' = [holds EXCEPT ![h] = o]
  PROVE  /\ Cardinality(HoldersOf(o)') = Cardinality(HoldersOf(o)) + 1
         /\ \A p \in Objects : p # o => HoldersOf(p)' = HoldersOf(p)
<1>1. HoldersOf(o)' = HoldersOf(o) \cup {h} /\ h \notin HoldersOf(o)
  BY MapAssumption DEF TypeOK, HoldersOf
<1>2. \A p \in Objects : p # o => HoldersOf(p)' = HoldersOf(p)
  BY MapAssumption DEF TypeOK, HoldersOf
<1>3. Cardinality(HoldersOf(o) \cup {h}) = Cardinality(HoldersOf(o)) + 1
  BY <1>1, HoldersFinite, FS_AddElement
<1> QED BY <1>1, <1>2, <1>3

\* Release() takes one holder from its object, and none from any other.
LEMMA ReleaseCounts ==
  ASSUME TypeOK, NEW h \in Holders, holds[h] \in Objects,
         holds' = [holds EXCEPT ![h] = None]
  PROVE  /\ Cardinality(HoldersOf(holds[h])) > 0
         /\ Cardinality({g \in Holders : holds'[g] = holds[h]})
              = Cardinality(HoldersOf(holds[h])) - 1
         /\ \A p \in Objects : p # holds[h] => HoldersOf(p)' = HoldersOf(p)
<1> DEFINE o == holds[h]
           After1 == {g \in Holders : holds'[g] = o}
<1>1. After1 = HoldersOf(o) \ {h} /\ h \in HoldersOf(o)
  BY MapAssumption DEF TypeOK, HoldersOf
<1>2. \A p \in Objects : p # o => HoldersOf(p)' = HoldersOf(p)
  BY MapAssumption DEF TypeOK, HoldersOf
<1>3. Cardinality(HoldersOf(o) \ {h}) = Cardinality(HoldersOf(o)) - 1
  BY <1>1, HoldersFinite, FS_RemoveElement
<1>4. Cardinality(HoldersOf(o)) > 0
  <2>1. Cardinality(HoldersOf(o)) # 0
    BY <1>1, HoldersFinite, FS_EmptySet
  <2> QED BY <2>1, HoldersFinite
<1> QED BY <1>1, <1>2, <1>3, <1>4

\* An object without holders has an empty set of them.
LEMMA NoHolders == \A o : Cardinality(HoldersOf(o)) = 0 <=> HoldersOf(o) = {}
BY HoldersFinite, FS_EmptySet

-----------------------------------------------------------------------------
(***************************************************************************)
(* Taking references.                                                      *)
(***************************************************************************)

\* Taking a reference to an object that is in _map keeps the invariant.
LEMMA HoldKeeps ==
  ASSUME MapInv, NEW h \in Holders, NEW k \in Mapped, holds[h] = None,
         Hold(h, map[k]), ptr' \in Mapped \cup {None},
         UNCHANGED <<map, drop, eraser, made, destroyed>>
  PROVE  MapInv'
<1> DEFINE o == map[k]
<1>1. o \in Objects /\ o \in InMap /\ ptr' \in Keys \cup {None}
  BY DEF MapInv, TypeOK, Mapped, InMap
<1>2. InMap' = InMap /\ Mapped' = Mapped
  BY DEF InMap, Mapped
<1>3. TypeOK'
  BY <1>1 DEF MapInv, TypeOK, Hold
<1>4. /\ Cardinality(HoldersOf(o)') = Cardinality(HoldersOf(o)) + 1
      /\ \A p \in Objects : p # o => HoldersOf(p)' = HoldersOf(p)
  BY <1>1, HoldCounts DEF MapInv, Hold
<1>5. count'[o] = count[o] + 1 /\ \A p \in Objects : p # o => count'[p] = count[p]
  BY <1>1 DEF MapInv, TypeOK, Hold
<1>6. CountsExact'
  BY <1>1, <1>2, <1>4, <1>5 DEF MapInv, CountsExact
<1>7. NothingLeaks'
  <2>1. o \notin drop
    BY <1>1 DEF MapInv, NothingLeaks
  <2>2. \A p \in drop : HoldersOf(p)' # {}
    BY <2>1, <1>4 DEF MapInv, NothingLeaks, TypeOK
  <2> QED BY <1>2, <2>2 DEF MapInv, NothingLeaks
<1>8. HeldKnown' /\ FreshUncounted' /\ PtrValid'
  BY <1>1, <1>2, <1>5 DEF MapInv, HeldKnown, FreshUncounted, PtrValid, NothingLeaks, Hold, TypeOK
<1> QED BY <1>3, <1>6, <1>7, <1>8 DEF MapInv

Less == {ss \in Nat \X Nat : ss[1] < ss[2]}

\* _ptr moves to a key that is in _map.
LEMMA NextKeyMapped ==
  ASSUME MapInv, Mapped # {}
  PROVE  NextKey(ptr) \in Mapped
<1>1. ASSUME NEW T, T \subseteq Mapped, T # {}
      PROVE  \E j \in T : \A i \in T : j <= i
  <2>1. T \subseteq Nat
    BY <1>1, MapAssumption DEF Mapped
  <2>2. IsWellFoundedOn(Less, Nat)
    BY NatLessThanWellFounded DEF OpToRel, Less
  <2>3. PICK j \in T : \A i \in T : ~ (<<i, j>> \in Less)
    BY <1>1, <2>1, <2>2, WFMin
  <2>4. \A i \in T : j <= i
    <3>1. \A i, k \in Nat : i < k => <<i, k>> \in Less
      BY SMT DEF Less
    <3>2. \A i \in T : ~ (i < j)
      BY <2>1, <2>3, <3>1
    <3> QED BY <2>1, <3>2
  <2> QED BY <2>4
<1>2. After(ptr) \subseteq Mapped
  BY DEF After
<1>3. CASE After(ptr) # {}
  <2>1. \E j \in Mapped : j \in After(ptr) /\ \A i \in After(ptr) : j <= i
    BY <1>1, <1>2, <1>3
  <2> QED BY <1>3, <2>1 DEF NextKey
<1>4. CASE After(ptr) = {}
  <2>1. \E j \in Mapped : \A i \in Mapped : j <= i
    BY <1>1
  <2> QED BY <1>4, <2>1 DEF NextKey
<1> QED BY <1>3, <1>4

\* Add() creates an object that nobody knew.
LEMMA AddKeeps ==
  ASSUME MapInv, NEW h \in Holders, NEW k \in Keys, NEW o \in Objects, Add(h, k, o)
  PROVE  MapInv'
<1>1. o \notin InMap \cup drop \cup destroyed /\ count[o] = 0
  BY DEF MapInv, NothingLeaks, FreshUncounted, Add
<1>2. HoldersOf(o) = {}
  BY <1>1, MapAssumption DEF MapInv, HeldKnown, HoldersOf
<1>3. Mapped' = Mapped \cup {k} /\ k \notin Mapped /\ map'[k] = o
      /\ \A j \in Mapped : map'[j] = map[j]
  BY MapAssumption DEF MapInv, TypeOK, Mapped, Add
<1>4. InMap' = InMap \cup {o}
  BY <1>3 DEF InMap
<1>5. TypeOK'
  BY DEF MapInv, TypeOK, Add, Hold
<1>6. /\ Cardinality(HoldersOf(o)') = Cardinality(HoldersOf(o)) + 1
      /\ \A p \in Objects : p # o => HoldersOf(p)' = HoldersOf(p)
  BY HoldCounts DEF MapInv, Add, Hold
<1>7. count'[o] = 1 /\ \A p \in Objects : p # o => count'[p] = count[p]
  BY <1>1 DEF MapInv, TypeOK, Add, Hold
<1>8. CountsExact'
  <2>1. Cardinality(HoldersOf(o)) = 0
    BY <1>2, NoHolders
  <2>2. drop' = drop
    BY DEF Add
  <2> QED BY <1>4, <1>6, <1>7, <2>1, <2>2 DEF MapInv, CountsExact
<1>9. NothingLeaks'
  <2>1. \A p \in drop : HoldersOf(p)' # {}
    BY <1>1, <1>6 DEF MapInv, NothingLeaks, TypeOK
  <2>2. \A i, j \in Mapped' : map'[i] = map'[j] => i = j
    BY <1>1, <1>3 DEF MapInv, NothingLeaks, InMap
  <2> QED BY <1>1, <1>4, <2>1, <2>2 DEF MapInv, NothingLeaks, Add
<1>10. HeldKnown' /\ FreshUncounted' /\ PtrValid'
  BY <1>4, <1>7 DEF MapInv, HeldKnown, FreshUncounted, PtrValid, Add, Hold, TypeOK
<1> QED BY <1>5, <1>8, <1>9, <1>10 DEF MapInv

-----------------------------------------------------------------------------
(***************************************************************************)
(* Giving references back.                                                 *)
(***************************************************************************)

\* Release() of an object in _map, which stays there.
LEMMA ReleaseMappedKeeps ==
  ASSUME MapInv, NEW h \in Holders, ReleaseMapped(h)
  PROVE  MapInv'
<1> DEFINE o == holds[h]
<1>1. o \in Objects /\ o \in InMap /\ o \notin drop
  BY DEF MapInv, TypeOK, NothingLeaks, InMap, Mapped, ReleaseMapped
<1>2. InMap' = InMap /\ Mapped' = Mapped
  BY DEF InMap, Mapped, ReleaseMapped
<1>3. /\ Cardinality(HoldersOf(o)) > 0
      /\ Cardinality({g \in Holders : holds'[g] = o}) = Cardinality(HoldersOf(o)) - 1
      /\ \A p \in Objects : p # o => HoldersOf(p)' = HoldersOf(p)
  BY <1>1, ReleaseCounts DEF MapInv, ReleaseMapped
<1>4. count[o] = Cardinality(HoldersOf(o)) /\ count[o] \in Nat
  BY <1>1 DEF MapInv, CountsExact, TypeOK
<1>5. count'[o] = count[o] - 1 /\ \A p \in Objects : p # o => count'[p] = count[p]
  BY <1>1 DEF MapInv, TypeOK, ReleaseMapped
<1>6. TypeOK'
  BY <1>1, <1>3, <1>4 DEF MapInv, TypeOK, ReleaseMapped
<1>7. CountsExact'
  <2>1. ASSUME NEW p \in Objects, p \in InMap \cup drop
        PROVE  count'[p] = Cardinality({g \in Holders : holds'[g] = p})
    <3>1. CASE p = o
      BY <1>3, <1>4, <1>5, <3>1
    <3>2. CASE p # o
      BY <1>3, <1>5, <2>1, <3>2 DEF MapInv, CountsExact, HoldersOf
    <3> QED BY <3>1, <3>2
  <2> QED BY <1>2, <2>1 DEF CountsExact, HoldersOf, ReleaseMapped
<1>8. NothingLeaks'
  <2>1. \A p \in drop : HoldersOf(p)' # {}
    BY <1>1, <1>3 DEF MapInv, NothingLeaks, TypeOK
  <2> QED BY <1>2, <2>1 DEF MapInv, NothingLeaks, ReleaseMapped
<1>9. HeldKnown' /\ FreshUncounted' /\ PtrValid'
  <2>1. o \in made
    BY <1>1 DEF MapInv, NothingLeaks
  <2> QED BY <1>2, <1>5, <2>1
       DEF MapInv, HeldKnown, FreshUncounted, PtrValid, ReleaseMapped, TypeOK
<1> QED BY <1>6, <1>7, <1>8, <1>9 DEF MapInv

\* Release() of an object in _drop, which ends with its last holder.
LEMMA ReleaseDroppedKeeps ==
  ASSUME MapInv, NEW h \in Holders, ReleaseDropped(h)
  PROVE  MapInv'
<1> DEFINE o == holds[h]
           left == {g \in Holders : holds'[g] = o}
<1>1. o \in Objects /\ o \in drop /\ o \notin InMap
  BY DEF MapInv, TypeOK, NothingLeaks, ReleaseDropped
<1>2. InMap' = InMap /\ Mapped' = Mapped /\ made' = made
  BY DEF InMap, Mapped, ReleaseDropped
<1>3. /\ Cardinality(HoldersOf(o)) > 0
      /\ Cardinality(left) = Cardinality(HoldersOf(o)) - 1
      /\ \A p \in Objects : p # o => HoldersOf(p)' = HoldersOf(p)
  BY <1>1, ReleaseCounts DEF MapInv, ReleaseDropped
<1>4. count[o] = Cardinality(HoldersOf(o)) /\ count[o] \in Nat
  BY <1>1 DEF MapInv, CountsExact, TypeOK
<1>5. count'[o] = count[o] - 1 /\ \A p \in Objects : p # o => count'[p] = count[p]
  BY <1>1 DEF MapInv, TypeOK, ReleaseDropped
<1>6. IsFiniteSet(left)
  BY MapAssumption, FS_Subset
<1>7. \/ count[o] = 1 /\ drop' = drop \ {o} /\ destroyed' = destroyed \cup {o} /\ left = {}
      \/ count[o] # 1 /\ drop' = drop /\ destroyed' = destroyed /\ left # {}
  <2>1. count[o] = 1 <=> left = {}
    <3>1. Cardinality(left) = 0 <=> left = {}
      BY <1>6, FS_EmptySet
    <3> QED BY <1>3, <1>4, <3>1
  <2> QED BY <2>1 DEF ReleaseDropped
<1>8. TypeOK'
  <2>1. eraser' \in {"no", "locking", "waiting"}
    BY DEF MapInv, TypeOK, ReleaseDropped, WakeAll
  <2> QED BY <1>1, <1>3, <1>4, <1>7, <2>1 DEF MapInv, TypeOK, ReleaseDropped
<1>9. CountsExact'
  <2>1. ASSUME NEW p \in Objects, p \in InMap \cup drop
        PROVE  count'[p] = Cardinality({g \in Holders : holds'[g] = p})
    <3>1. CASE p = o
      BY <1>3, <1>4, <1>5, <3>1
    <3>2. CASE p # o
      BY <1>3, <1>5, <2>1, <3>2 DEF MapInv, CountsExact, HoldersOf
    <3> QED BY <3>1, <3>2
  <2> QED BY <1>2, <1>7, <2>1 DEF CountsExact, HoldersOf
<1>10. NothingLeaks'
  <2>1. \A p \in drop' : HoldersOf(p)' # {}
    BY <1>1, <1>3, <1>7 DEF MapInv, NothingLeaks, TypeOK, HoldersOf
  <2> QED BY <1>1, <1>2, <1>7, <2>1 DEF MapInv, NothingLeaks, ReleaseDropped
<1>11. HeldKnown'
  <2>1. ASSUME NEW g \in Holders, holds'[g] # None
        PROVE  holds'[g] \in InMap \cup drop'
    <3>1. holds'[g] = holds[g] /\ g # h
      BY <2>1 DEF MapInv, TypeOK, ReleaseDropped
    <3>2. holds[g] = o => left # {}
      BY <3>1
    <3> QED BY <1>7, <2>1, <3>1, <3>2 DEF MapInv, HeldKnown
  <2> QED BY <1>2, <2>1 DEF HeldKnown
<1>12. FreshUncounted' /\ PtrValid'
  <2>1. o \in made
    BY <1>1 DEF MapInv, NothingLeaks
  <2> QED BY <1>2, <1>5, <2>1 DEF MapInv, FreshUncounted, PtrValid, ReleaseDropped, TypeOK
<1> QED BY <1>8, <1>9, <1>10, <1>11, <1>12 DEF MapInv

-----------------------------------------------------------------------------
(***************************************************************************)
(* Erasing, and entering new objects without references.                   *)
(***************************************************************************)

\* Keys in gone lose their objects, which end or go to _drop, and keys in missing
\* get new ones that nobody holds.
LEMMA ReplaceKeeps ==
  ASSUME MapInv,
         NEW gone \in SUBSET Mapped, NEW missing \in SUBSET (Keys \ Mapped), NEW new,
         \A k \in missing : new[k] \in Objects /\ new[k] \notin made,
         \A j, k \in missing : j # k => new[j] # new[k],
         Drop(gone), made' = made \cup {new[k] : k \in missing},
         map' = [k \in Keys |-> IF k \in missing THEN new[k]
                                ELSE IF k \in gone THEN None ELSE map[k]],
         ptr' = None \/ (missing = {} /\ gone = {} /\ ptr' = ptr),
         eraser' \in {"no", "locking", "waiting"},
         UNCHANGED <<count, holds>>
  PROVE  MapInv'
<1> DEFINE lost == {map[k] : k \in gone}
           fresh == {new[k] : k \in missing}
           ended == {o \in lost : count[o] = 0}
           used == {o \in lost : count[o] # 0}
<1>1. Mapped' = (Mapped \ gone) \cup missing
  <2>1. \A k \in missing : k \in Keys /\ map'[k] # None
    BY MapAssumption
  <2>2. \A k \in Keys : k \in gone /\ k \notin missing => map'[k] = None
    OBVIOUS
  <2>3. \A k \in Keys : k \notin gone /\ k \notin missing => map'[k] = map[k]
    OBVIOUS
  <2>4. Mapped' = {k \in Keys : map'[k] # None} /\ Mapped = {k \in Keys : map[k] # None}
    BY DEF Mapped
  <2>5. \A k \in gone : k \notin missing
    BY <2>4
  <2> HIDE DEF Mapped
  <2> QED BY <2>1, <2>2, <2>3, <2>4, <2>5
<1>2. InMap = lost \cup {map[k] : k \in Mapped \ gone}
      /\ lost \cap {map[k] : k \in Mapped \ gone} = {}
  BY DEF InMap, MapInv, NothingLeaks
<1>3. InMap' = {map[k] : k \in Mapped \ gone} \cup fresh
  <2>1. \A k \in Mapped \ gone : map'[k] = map[k]
    BY DEF Mapped
  <2>2. \A k \in missing : map'[k] = new[k]
    OBVIOUS
  <2> QED BY <1>1, <2>1, <2>2 DEF InMap
<1>4. drop' = drop \cup used /\ destroyed' = destroyed \cup ended /\ lost = ended \cup used
      /\ ended \cap used = {}
  BY DEF Drop
<1>5. fresh \subseteq Objects /\ fresh \cap made = {} /\ lost \subseteq Objects
      /\ lost \subseteq made
  BY <1>2 DEF MapInv, TypeOK, NothingLeaks, Mapped
<1>6. TypeOK'
  <2>1. ptr' \in Keys \cup {None}
    BY DEF MapInv, TypeOK
  <2>2. map' \in [Keys -> Objects \cup {None}]
    BY DEF MapInv, TypeOK
  <2> QED BY <1>4, <1>5, <2>1, <2>2 DEF MapInv, TypeOK
<1>7. \A o : HoldersOf(o)' = HoldersOf(o)
  BY DEF HoldersOf
<1>8. \A o \in fresh : count[o] = 0 /\ HoldersOf(o) = {}
  <2>1. \A o \in fresh : count[o] = 0 /\ o \notin InMap \cup drop
    BY <1>5 DEF MapInv, FreshUncounted, NothingLeaks
  <2> QED BY <1>5, <2>1, MapAssumption DEF MapInv, HeldKnown, HoldersOf
<1>9. \A o \in lost : count[o] = Cardinality(HoldersOf(o))
  BY <1>2, <1>5 DEF MapInv, CountsExact
<1>10. CountsExact'
  <2>1. \A o \in fresh : count[o] = Cardinality(HoldersOf(o))
    BY <1>8, NoHolders
  <2> QED BY <1>2, <1>3, <1>4, <1>7, <2>1 DEF MapInv, CountsExact
<1>11. NothingLeaks'
  <2>1. made' = InMap' \cup drop' \cup destroyed'
    BY <1>2, <1>3, <1>4 DEF MapInv, NothingLeaks
  <2>2. InMap' \cap drop' = {} /\ destroyed' \cap (InMap' \cup drop') = {}
    BY <1>2, <1>3, <1>4, <1>5 DEF MapInv, NothingLeaks
  <2>3. \A j, k \in Mapped' : map'[j] = map'[k] => j = k
    <3>1. ASSUME NEW j \in Mapped', NEW k \in Mapped', map'[j] = map'[k]
          PROVE  j = k
      <4>1. CASE j \in missing /\ k \in missing
        BY <3>1, <4>1
      <4>2. CASE j \notin missing /\ k \notin missing
        BY <1>1, <3>1, <4>2 DEF MapInv, NothingLeaks, Mapped
      <4>3. CASE j \in missing /\ k \notin missing
        <5>1. map'[j] \in fresh /\ map'[k] = map[k] /\ map[k] \in InMap
          BY <1>1, <4>3 DEF Mapped, InMap
        <5> QED BY <1>5, <3>1, <5>1 DEF MapInv, NothingLeaks
      <4>4. CASE j \notin missing /\ k \in missing
        <5>1. map'[k] \in fresh /\ map'[j] = map[j] /\ map[j] \in InMap
          BY <1>1, <4>4 DEF Mapped, InMap
        <5> QED BY <1>5, <3>1, <5>1 DEF MapInv, NothingLeaks
      <4> QED BY <4>1, <4>2, <4>3, <4>4
    <3> QED BY <3>1
  <2>4. \A o \in drop' : HoldersOf(o)' # {}
    <3>1. \A o \in used : HoldersOf(o) # {}
      BY <1>9, NoHolders
    <3> QED BY <1>4, <1>7, <3>1 DEF MapInv, NothingLeaks
  <2> QED BY <2>1, <2>2, <2>3, <2>4 DEF NothingLeaks
<1>12. HeldKnown'
  <2>1. ASSUME NEW h \in Holders, holds[h] # None
        PROVE  holds[h] \in InMap' \cup drop'
    <3>1. holds[h] \notin ended
      <4>1. h \in HoldersOf(holds[h])
        BY DEF HoldersOf
      <4> QED BY <1>9, <4>1, NoHolders
    <3> QED BY <1>2, <1>3, <1>4, <2>1, <3>1 DEF MapInv, HeldKnown
  <2> QED BY <2>1 DEF HeldKnown
<1>13. FreshUncounted' /\ PtrValid'
  BY <1>1 DEF MapInv, FreshUncounted, PtrValid
<1> QED BY <1>6, <1>10, <1>11, <1>12, <1>13 DEF MapInv

\* Clear() destroys what is there; nobody holds anything.
LEMMA ClearKeeps == ASSUME MapInv, Clear PROVE MapInv'
<1>1. InMap' = {} /\ Mapped' = {}
  BY MapAssumption DEF Clear, InMap, Mapped
<1>2. TypeOK'
  <2>1. InMap \subseteq Objects
    BY DEF MapInv, TypeOK, InMap, Mapped
  <2> QED BY <2>1 DEF MapInv, TypeOK, Clear
<1>3. CountsExact' /\ NothingLeaks' /\ PtrValid' /\ HeldKnown' /\ FreshUncounted'
  BY <1>1 DEF MapInv, CountsExact, NothingLeaks, PtrValid, HeldKnown, FreshUncounted, Clear
<1> QED BY <1>2, <1>3 DEF MapInv

\* Steps of EraseAll() that only look.
LEMMA EraserKeeps ==
  ASSUME MapInv, UNCHANGED <<map, drop, count, ptr, made, destroyed, holds>>,
         eraser' \in {"no", "locking", "waiting"}
  PROVE  MapInv'
<1>1. InMap' = InMap /\ Mapped' = Mapped /\ \A o : HoldersOf(o)' = HoldersOf(o)
  BY DEF InMap, Mapped, HoldersOf
<1> QED BY <1>1 DEF MapInv, TypeOK, CountsExact, NothingLeaks, PtrValid, HeldKnown, FreshUncounted

-----------------------------------------------------------------------------
\* The map starts empty.
LEMMA MapInit == Init => MapInv
<1> SUFFICES ASSUME Init PROVE MapInv
  OBVIOUS
<1>1. InMap = {} /\ Mapped = {} /\ TypeOK
  BY DEF Init, InMap, Mapped, TypeOK
<1> QED BY <1>1 DEF Init, MapInv, CountsExact, NothingLeaks, PtrValid, HeldKnown, FreshUncounted

\* Every method keeps the invariant.
LEMMA MapStep == MapInv /\ [Next]_vars => MapInv'
<1> SUFFICES ASSUME MapInv, [Next]_vars PROVE MapInv'
  OBVIOUS
<1>1. CASE UNCHANGED vars
  <2>1. eraser' \in {"no", "locking", "waiting"}
    BY <1>1 DEF vars, MapInv, TypeOK
  <2> QED BY <1>1, <2>1, EraserKeeps DEF vars
<1>2. ASSUME NEW h \in Holders, GetNext(h) PROVE MapInv'
  <2>1. NextKey(ptr) \in Mapped
    BY <1>2, NextKeyMapped DEF GetNext
  <2> QED BY <1>2, <2>1, HoldKeeps DEF GetNext
<1>3. ASSUME NEW h \in Holders, NEW k \in Keys, Get(h, k) PROVE MapInv'
  <2>1. k \in Mapped /\ ptr' \in Mapped \cup {None}
    BY <1>3 DEF Get, Mapped, MapInv, TypeOK, PtrValid
  <2> QED BY <1>3, <2>1, HoldKeeps DEF Get
<1>4. ASSUME NEW h \in Holders, Release(h) PROVE MapInv'
  BY <1>4, ReleaseMappedKeeps, ReleaseDroppedKeeps DEF Release
<1>5. ASSUME NEW k \in Keys, Erase(k) PROVE MapInv'
  <2>1. {k} \in SUBSET Mapped /\ {} \in SUBSET (Keys \ Mapped)
    BY <1>5 DEF Erase
  <2>2. made' = made \cup {map[j] : j \in {}}
    BY <1>5 DEF Erase
  <2>3. map' = [j \in Keys |-> IF j \in {} THEN map[j] ELSE IF j \in {k} THEN None ELSE map[j]]
    BY <1>5 DEF Erase, MapInv, TypeOK
  <2>4. eraser' \in {"no", "locking", "waiting"} /\ ptr' = None /\ Drop({k})
        /\ UNCHANGED <<count, holds>>
    BY <1>5 DEF Erase, MapInv, TypeOK
  <2> HIDE DEF MapInv
  <2> QED BY ZenonT(30), <2>1, <2>2, <2>3, <2>4, ReplaceKeeps
<1>6. ASSUME NEW keys \in SUBSET Keys, NEW new \in [Keys -> Objects \cup {None}],
             SetAll(keys, new)
      PROVE  MapInv'
  <2> DEFINE missing == {k \in keys : map[k] = None /\ new[k] # None}
             gone == Mapped \ keys
  <2>1. gone \in SUBSET Mapped /\ missing \in SUBSET (Keys \ Mapped)
    BY DEF Mapped
  <2>2. \A k \in missing : new[k] \in Objects /\ new[k] \notin made
    BY <1>6 DEF SetAll
  <2>3. /\ \A j, k \in missing : j # k => new[j] # new[k]
        /\ made' = made \cup {new[k] : k \in missing}
        /\ map' = [k \in Keys |-> IF k \in missing THEN new[k]
                                  ELSE IF k \in gone THEN None ELSE map[k]]
        /\ Drop(gone)
        /\ ptr' = None \/ (missing = {} /\ gone = {} /\ ptr' = ptr)
        /\ UNCHANGED <<count, eraser, holds>>
    BY <1>6 DEF SetAll
  <2>4. eraser' \in {"no", "locking", "waiting"}
    BY <2>3 DEF MapInv, TypeOK
  <2> HIDE DEF missing, gone
  <2> QED BY <2>1, <2>2, <2>3, <2>4, ReplaceKeeps
<1>7. ASSUME NEW w \in BOOLEAN, EraseAll(w) PROVE MapInv'
  <2>1. Mapped \in SUBSET Mapped /\ {} \in SUBSET (Keys \ Mapped)
    OBVIOUS
  <2>2. made' = made \cup {map[j] : j \in {}}
    BY <1>7 DEF EraseAll
  <2>3. map' = [j \in Keys |-> IF j \in {} THEN map[j] ELSE IF j \in Mapped THEN None ELSE map[j]]
    BY <1>7 DEF EraseAll, Mapped
  <2>4. eraser' \in {"no", "locking", "waiting"} /\ ptr' = None /\ Drop(Mapped)
        /\ UNCHANGED <<count, holds>>
    BY <1>7 DEF EraseAll
  <2> QED BY <2>1, <2>2, <2>3, <2>4, ReplaceKeeps
<1>8. CASE EraserTest \/ EraserSpurious
  <2>1. eraser' \in {"no", "locking", "waiting"}
    BY <1>8 DEF EraserTest, EraserSpurious
  <2> QED BY <1>8, <2>1, EraserKeeps DEF EraserTest, EraserSpurious
<1>9. CASE Clear
  BY <1>9, ClearKeeps
<1> QED BY <1>1, <1>2, <1>3, <1>4, <1>5, <1>6, <1>7, <1>8, <1>9, AddKeeps DEF Next

\* The invariant holds for ever.
THEOREM MapAlways == Spec => []MapInv
BY MapInit, MapStep, PTL DEF Spec

\* What somebody got from the map and has not released is not destroyed, whatever
\* Erase(), SetAll() and EraseAll() do meanwhile.
THEOREM MapHeldAlive == Spec => []HeldAlive
<1>1. MapInv => HeldAlive
  <2> SUFFICES ASSUME MapInv, NEW h \in Holders PROVE holds[h] \notin destroyed
    BY DEF HeldAlive
  <2>1. None \notin destroyed
    BY MapAssumption DEF MapInv, TypeOK
  <2> QED BY <2>1 DEF MapInv, HeldKnown, NothingLeaks
<1> QED BY <1>1, MapAlways, PTL

\* The counts of _map and _drop are the numbers of references that are held.
THEOREM MapCountsExact == Spec => []CountsExact
<1>1. MapInv => CountsExact
  BY DEF MapInv
<1> QED BY <1>1, MapAlways, PTL

\* Every object that was created is in one place, and what is in _drop is in use.
THEOREM MapNothingLeaks == Spec => []NothingLeaks
<1>1. MapInv => NothingLeaks
  BY DEF MapInv
<1> QED BY <1>1, MapAlways, PTL

\* The iterator of GetNext() points into _map or is its end.
THEOREM MapPtrValid == Spec => []PtrValid
<1>1. MapInv => PtrValid
  BY DEF MapInv
<1> QED BY <1>1, MapAlways, PTL

\* What users of the map rely on, together.
THEOREM MapIsSafe == Spec => []MapSafe
<1>1. HeldAlive /\ CountsExact /\ NothingLeaks /\ PtrValid => MapSafe
  BY DEF MapSafe
<1> QED BY <1>1, MapHeldAlive, MapCountsExact, MapNothingLeaks, MapPtrValid, PTL

-----------------------------------------------------------------------------
(***************************************************************************)
(* ObjectPool.  PoolSound is inductive once the entries of the list are    *)
(* typed and an object in use is known by the hand that holds it: Shrink() *)
(* takes none of those, and Destroy() finishes only what its thread took.  *)
(***************************************************************************)
PoolType ==
  /\ exists \subseteq Made /\ hand \in [Users -> Made \cup {Nothing}]
  /\ busy \in [Users -> {"no", "create", "destroy"}] /\ dying \in [Users -> SUBSET Made]
  /\ pool \in [DOMAIN pool -> [inUse : BOOLEAN, age : Nat]]

PoolInv == PoolType /\ PoolSound

\* What With() and Without() make of the list.
LEMMA WithIs ==
  ASSUME PoolType, NEW o, NEW b \in BOOLEAN, NEW a \in Nat, pool' = With(o, b, a)
  PROVE  /\ DOMAIN pool' = DOMAIN pool \cup {o} /\ pool'[o].inUse = b
         /\ \A p \in DOMAIN pool : p # o => pool'[p] = pool[p]
         /\ pool' \in [DOMAIN pool' -> [inUse : BOOLEAN, age : Nat]]
  BY DEF With, PoolType
LEMMA WithoutIs ==
  ASSUME PoolType, NEW gone, pool' = Without(gone)
  PROVE  /\ DOMAIN pool' = DOMAIN pool \ gone
         /\ \A p \in DOMAIN pool \ gone : pool'[p] = pool[p]
         /\ pool' \in [DOMAIN pool' -> [inUse : BOOLEAN, age : Nat]]
  BY DEF Without, PoolType

LEMMA PoolStarts == PoolInit => PoolInv
  BY PoolAssumption DEF PoolInit, PoolInv, PoolType, PoolSound

\* One action after another: what changes, and what PoolSound says of it.
LEMMA PoolUserStep ==
  ASSUME PoolInv, NEW u \in Users,
         Grab(u) \/ Created(u) \/ PoolRelease(u) \/ Remove(u) \/ Shrink(u) \/ Destroy(u)
  PROVE  PoolInv'
<1> USE PoolAssumption
<1>1. PoolType /\ PoolSound
  BY DEF PoolInv
<1>2. CASE Grab(u) /\ \E o \in Free : pool' = With(o, TRUE, pool[o].age) /\ hand' = [hand EXCEPT ![u] = o] /\ UNCHANGED busy
  <2>1. PICK o \in Free : pool' = With(o, TRUE, pool[o].age) /\ hand' = [hand EXCEPT ![u] = o] /\ UNCHANGED busy
    BY <1>2
  <2>2. o \in DOMAIN pool /\ ~pool[o].inUse /\ pool[o].age \in Nat /\ o \in exists /\ o \in Made
    BY <1>1 DEF Free, PoolType, PoolSound
  <2>3. /\ DOMAIN pool' = DOMAIN pool /\ pool'[o].inUse
        /\ \A p \in DOMAIN pool : p # o => pool'[p] = pool[p]
        /\ pool' \in [DOMAIN pool' -> [inUse : BOOLEAN, age : Nat]]
    <3>1. DOMAIN pool \cup {o} = DOMAIN pool
      BY <2>2
    <3> QED BY <1>1, <2>1, <2>2, <3>1, WithIs
  <2>4. UNCHANGED <<exists, dying, busy>>
    BY <1>2, <2>1 DEF Grab
  <2>5. \A v \in Users : hand[v] # o
    BY <1>1, <2>2 DEF PoolSound, PoolType
  <2>6. PoolType'
    BY <1>1, <2>1, <2>2, <2>3, <2>4 DEF PoolType
  <2>7. PoolSound'
    BY <1>1, <2>1, <2>2, <2>3, <2>4, <2>5 DEF PoolSound, PoolType
  <2> QED BY <2>6, <2>7 DEF PoolInv
<1>3. CASE Grab(u) /\ Free = {} /\ busy' = [busy EXCEPT ![u] = "create"] /\ UNCHANGED <<pool, hand>>
  BY <1>1, <1>3 DEF Grab, PoolInv, PoolType, PoolSound
<1>4. CASE Created(u)
  <2>1. CASE UNCHANGED <<pool, exists, hand>>
    BY <1>1, <1>4, <2>1 DEF Created, PoolInv, PoolType, PoolSound
  <2>2. ASSUME NEW o \in Made \ exists,
               exists' = exists \cup {o} /\ pool' = With(o, TRUE, MaxIdle + 1)
                 /\ hand' = [hand EXCEPT ![u] = o]
        PROVE  PoolInv'
    <3>0. MaxIdle + 1 \in Nat /\ TRUE \in BOOLEAN
      OBVIOUS
    <3>1. /\ DOMAIN pool' = DOMAIN pool \cup {o} /\ pool'[o].inUse
          /\ \A p \in DOMAIN pool : p # o => pool'[p] = pool[p]
          /\ pool' \in [DOMAIN pool' -> [inUse : BOOLEAN, age : Nat]]
      BY <1>1, <2>2, <3>0, WithIs
    <3>2. busy' \in [Users -> {"no", "create", "destroy"}] /\ UNCHANGED dying
      BY <1>1, <1>4 DEF Created, PoolType
    <3>3. o \notin DOMAIN pool /\ \A v \in Users : hand[v] # o /\ o \notin dying[v]
      BY <1>1, <2>2 DEF PoolSound, PoolType
    <3>4. PoolType'
      BY <1>1, <2>2, <3>1, <3>2 DEF PoolType
    <3>5. PoolSound'
      <4>1. hand'[u] = o /\ \A v \in Users : v # u => hand'[v] = hand[v]
        BY <1>1, <2>2 DEF PoolType
      <4>2. \A v, w \in Users : v # w => hand'[v] = Nothing \/ hand'[v] # hand'[w]
        BY <1>1, <3>3, <4>1 DEF PoolSound
      <4>3. \A v \in Users : hand'[v] # Nothing => hand'[v] \in exists' \cap DOMAIN pool' /\ pool'[hand'[v]].inUse
        <5> TAKE v \in Users
        <5>0. exists' = exists \cup {o} /\ DOMAIN pool' = DOMAIN pool \cup {o} /\ pool'[o].inUse
          BY <2>2, <3>1
        <5>1. CASE v = u
          BY <4>1, <5>0, <5>1, Zenon
        <5>2. CASE v # u
          <6>1. hand[v] # Nothing => hand[v] \in exists /\ hand[v] \in DOMAIN pool /\ pool[hand[v]].inUse
            BY <1>1 DEF PoolSound
          <6>2. hand'[v] = hand[v] /\ (hand[v] \in DOMAIN pool => pool'[hand[v]] = pool[hand[v]])
            BY <3>1, <3>3, <4>1, <5>2
          <6> QED BY <5>0, <6>1, <6>2, Zenon
        <5> QED BY <5>1, <5>2
      <4>4. DOMAIN pool' \subseteq exists' /\ \A v \in Users : dying'[v] \subseteq exists' \ DOMAIN pool'
        <5>1. DOMAIN pool \subseteq exists /\ \A v \in Users : dying[v] \subseteq exists \ DOMAIN pool
          BY <1>1 DEF PoolSound
        <5>2. DOMAIN pool' = DOMAIN pool \cup {o} /\ exists' = exists \cup {o} /\ dying' = dying
          BY <2>2, <3>1, <3>2
        <5> QED BY <3>3, <5>1, <5>2
      <4> QED BY <1>1, <3>2, <4>2, <4>3, <4>4 DEF PoolSound
    <3> QED BY <3>4, <3>5 DEF PoolInv
  <2> QED BY <1>4, <2>1, <2>2 DEF Created
<1>5. CASE PoolRelease(u)
  <2> DEFINE o == hand[u]
  <2>1. o \in DOMAIN pool /\ o \in exists /\ o \in Made
    BY <1>1, <1>5 DEF PoolRelease, PoolSound, PoolType
  <2>2. pool' = With(o, FALSE, 0) /\ hand' = [hand EXCEPT ![u] = Nothing] /\ UNCHANGED <<exists, busy, dying>>
    BY <1>5, <2>1 DEF PoolRelease
  <2>3. /\ DOMAIN pool' = DOMAIN pool /\ \A p \in DOMAIN pool : p # o => pool'[p] = pool[p]
        /\ pool' \in [DOMAIN pool' -> [inUse : BOOLEAN, age : Nat]]
    <3>1. DOMAIN pool \cup {o} = DOMAIN pool /\ FALSE \in BOOLEAN /\ 0 \in Nat
      BY <2>1
    <3> QED BY <1>1, <2>2, <3>1, WithIs
  <2>4. \A v \in Users : v # u => hand[v] # o
    BY <1>1, <1>5 DEF PoolRelease, PoolSound, PoolType
  <2>5. PoolType'
    BY <1>1, <2>2, <2>3 DEF PoolType
  <2>6. PoolSound'
    BY <1>1, <2>1, <2>2, <2>3, <2>4 DEF PoolSound, PoolType
  <2> QED BY <2>5, <2>6 DEF PoolInv
<1>6. ASSUME NEW gone \in SUBSET DOMAIN pool, pool' = Without(gone),
             dying' = [dying EXCEPT ![u] = gone], busy' = [busy EXCEPT ![u] = "destroy"],
             exists' = exists, \A v \in Users : hand'[v] = Nothing \/ (hand'[v] = hand[v] /\ hand[v] \notin gone),
             hand' \in [Users -> Made \cup {Nothing}]
      PROVE  PoolInv'
  <2>1. /\ DOMAIN pool' = DOMAIN pool \ gone
        /\ \A p \in DOMAIN pool \ gone : pool'[p] = pool[p]
        /\ pool' \in [DOMAIN pool' -> [inUse : BOOLEAN, age : Nat]]
    BY <1>1, <1>6, WithoutIs
  <2>2. gone \subseteq exists /\ gone \subseteq Made
    BY <1>1 DEF PoolSound, PoolType
  <2>3. PoolType'
    BY <1>1, <1>6, <2>1, <2>2 DEF PoolType
  <2>4. /\ dying'[u] = gone /\ \A v \in Users : v # u => dying'[v] = dying[v]
        /\ \A v \in Users : dying[v] \cap gone = {}
    BY <1>1, <1>6 DEF PoolSound, PoolType
  <2>5. PoolSound'
    BY <1>1, <1>6, <2>1, <2>2, <2>4 DEF PoolSound, PoolType
  <2> QED BY <2>3, <2>5 DEF PoolInv
<1>7. CASE Remove(u)
  <2>1. {hand[u]} \in SUBSET DOMAIN pool /\ \A v \in Users : v # u => hand[v] # hand[u]
    BY <1>1, <1>7 DEF Remove, PoolSound, PoolType
  <2>2. /\ hand' = [hand EXCEPT ![u] = Nothing] /\ pool' = Without({hand[u]})
        /\ dying' = [dying EXCEPT ![u] = {hand[u]}] /\ busy' = [busy EXCEPT ![u] = "destroy"]
        /\ exists' = exists
    BY <1>7 DEF Remove
  <2>3. /\ hand' \in [Users -> Made \cup {Nothing}]
        /\ \A v \in Users : hand'[v] = Nothing \/ (hand'[v] = hand[v] /\ hand[v] \notin {hand[u]})
    BY <1>1, <2>1, <2>2 DEF PoolType
  <2> QED BY <1>6, <2>1, <2>2, <2>3
<1>8. CASE Shrink(u)
  <2> DEFINE gone == {o \in DOMAIN pool : Expired(o)}
  <2>1. /\ pool' = Without(gone) /\ dying' = [dying EXCEPT ![u] = gone]
        /\ busy' = [busy EXCEPT ![u] = "destroy"] /\ exists' = exists /\ hand' = hand
    BY <1>8 DEF Shrink
  <2>2. gone \in SUBSET DOMAIN pool
    OBVIOUS
  <2>3. \A v \in Users : hand[v] = Nothing \/ hand[v] \notin gone
    BY <1>1 DEF PoolSound, Expired
  <2>4. /\ hand' \in [Users -> Made \cup {Nothing}]
        /\ \A v \in Users : hand'[v] = Nothing \/ (hand'[v] = hand[v] /\ hand[v] \notin gone)
    BY <1>1, <2>1, <2>3 DEF PoolType
  <2> HIDE DEF gone
  <2> QED BY <1>6, <2>1, <2>2, <2>4
<1>9. CASE Destroy(u)
  <2>1. PICK o \in dying[u] :
          /\ exists' = exists \ {o} /\ dying' = [dying EXCEPT ![u] = @ \ {o}]
          /\ busy' = [busy EXCEPT ![u] = IF dying[u] = {o} THEN "no" ELSE @]
    BY <1>9 DEF Destroy
  <2>2. UNCHANGED <<pool, hand>>
    BY <1>9 DEF Destroy
  <2>3. PoolType'
    BY <1>1, <2>1, <2>2 DEF PoolType
  <2>4. o \notin DOMAIN pool /\ \A v \in Users : v # u => o \notin dying[v]
    BY <1>1, <2>1 DEF PoolSound, PoolType
  <2>5. /\ dying'[u] = dying[u] \ {o} /\ \A v \in Users : v # u => dying'[v] = dying[v]
    BY <1>1, <2>1 DEF PoolType
  <2>6. PoolSound'
    BY <1>1, <2>1, <2>2, <2>4, <2>5 DEF PoolSound
  <2> QED BY <2>3, <2>6 DEF PoolInv
<1> QED BY <1>2, <1>3, <1>4, <1>5, <1>7, <1>8, <1>9 DEF Grab

LEMMA PoolStep == PoolInv /\ [PoolNext]_poolVars => PoolInv'
<1> SUFFICES ASSUME PoolInv, [PoolNext]_poolVars PROVE PoolInv'
  OBVIOUS
<1>1. CASE Ages
  <2>1. /\ DOMAIN pool' = DOMAIN pool /\ \A o \in DOMAIN pool : pool'[o].inUse = pool[o].inUse
        /\ pool' \in [DOMAIN pool' -> [inUse : BOOLEAN, age : Nat]]
        /\ UNCHANGED <<exists, hand, busy, dying>>
    <3>1. pool' = [o \in DOMAIN pool |-> [pool[o] EXCEPT !.age = IF @ > MaxIdle THEN @ ELSE @ + 1]]
      BY <1>1 DEF Ages
    <3>2. ASSUME NEW o \in DOMAIN pool
          PROVE  /\ pool'[o] \in [inUse : BOOLEAN, age : Nat]
                 /\ pool'[o].inUse = pool[o].inUse
      BY <3>1 DEF PoolInv, PoolType
    <3> QED BY <1>1, <3>1, <3>2 DEF Ages
  <2> QED BY <2>1 DEF PoolInv, PoolType, PoolSound
<1>2. CASE UNCHANGED poolVars
  BY <1>2 DEF poolVars, PoolInv, PoolType, PoolSound
<1> QED BY <1>1, <1>2, PoolUserStep DEF PoolNext

\* Grab(), Release(), Remove() and Shrink() of any number of threads: nobody is given what
\* another one has, nobody has what is destroyed, and nothing is destroyed twice.
THEOREM PoolIsSound == PoolSpec => []PoolSound
<1>1. PoolInv => PoolSound
  BY DEF PoolInv
<1> QED BY <1>1, PoolStarts, PoolStep, PTL DEF PoolSpec

-----------------------------------------------------------------------------
(***************************************************************************)
(* KeyedThreadPool.  KeyedInOrder needs the lists: a list holds the jobs   *)
(* of its thread that wait, each once, in the order in which they came, so *)
(* that whatever came before its head is over when its thread runs         *)
(* nothing.  Before Shutdown() nobody is cancelled, and a pool without     *)
(* threads has none that asks.                                             *)
(***************************************************************************)
KeyedAssumed == Size \in Nat \ {0} /\ Key \in [Jobs -> Nat] /\ NoJob \notin Jobs

Home(j) == Index(Key[j])
Started == {"running", "done", "killed"}

Staged ==
  /\ alive => ~initializing
  /\ initializing => actives = {}
  /\ ~initializing => joining = {}
  /\ cancelled \subseteq joining
  /\ ~alive => \A t \in Contexts \ joining : state[t] = "none"

JobRunning ==
  /\ \A t \in Contexts : state[t] = "running" <=> runs[t] # NoJob
  /\ \A t \in Contexts : runs[t] # NoJob => where[runs[t]] = "running" /\ Home(runs[t]) = t
  /\ \A j \in Jobs : where[j] = "running" => runs[Home(j)] = j

AppendedOnce ==
  /\ \A i, k \in 1..Len(order) : order[i] = order[k] => i = k
  /\ \A i \in 1..Len(order) : where[order[i]] # "new"

JobsListed ==
  /\ \A t \in Contexts : \A i \in 1..Len(pending[t]) :
       where[pending[t][i]] = "queued" /\ Home(pending[t][i]) = t
  /\ \A j \in Jobs : where[j] = "queued" => \E i \in 1..Len(pending[Home(j)]) : pending[Home(j)][i] = j
  /\ \A t \in Contexts : \A i, k \in 1..Len(pending[t]) : pending[t][i] = pending[t][k] => i = k

ListsInOrder ==
  \A t \in Contexts : \A i, k \in 1..Len(pending[t]) : \A a, b \in 1..Len(order) :
    i < k /\ order[a] = pending[t][i] /\ order[b] = pending[t][k] => a < b

HomesInOrder ==
  \A i, k \in 1..Len(order) :
    i < k /\ Home(order[i]) = Home(order[k]) /\ where[order[k]] \in Started => where[order[i]] \in Over

KeyedInv ==
  /\ KeyedOK /\ Staged /\ JobRunning /\ AppendedOnce /\ JobsListed /\ ListsInOrder /\ HomesInOrder
  /\ WaitsForNothing /\ ActivesAlive

LEMMA HomeIs == ASSUME KeyedAssumed, NEW j \in Jobs PROVE Home(j) \in Contexts
<1>1. Key[j] \in Nat
  BY DEF KeyedAssumed
<1>2. Key[j] % Size \in 0..(Size - 1)
  BY <1>1 DEF KeyedAssumed
<1> QED BY <1>2 DEF Home, Index, Contexts

LEMMA KeyedHas ==
  ASSUME KeyedInv
  PROVE  /\ alive \in BOOLEAN /\ initializing \in BOOLEAN /\ actives \subseteq Contexts /\ (~alive => actives = {})
         /\ pending \in [Contexts -> Seq(Jobs)]
         /\ state \in [Contexts -> {"none", "asking", "waiting", "running", "exited"}]
         /\ runs \in [Contexts -> Jobs \cup {NoJob}]
         /\ cancelled \subseteq Contexts /\ joining \subseteq Contexts
         /\ where \in [Jobs -> Over \cup {"new", "queued", "running"}] /\ order \in Seq(Jobs)
         /\ Staged /\ JobRunning /\ AppendedOnce /\ JobsListed /\ ListsInOrder /\ HomesInOrder
         /\ WaitsForNothing /\ ActivesAlive
BY DEF KeyedInv, KeyedOK

LEMMA OverAre == Over = {"done", "purged", "killed"}
BY DEF Over

\* The order and the lists have jobs in them.
LEMMA Elements ==
  ASSUME KeyedInv
  PROVE  /\ Len(order) \in Nat /\ \A i \in 1..Len(order) : order[i] \in Jobs
         /\ \A t \in Contexts : /\ pending[t] \in Seq(Jobs) /\ Len(pending[t]) \in Nat
                                /\ \A i \in 1..Len(pending[t]) : pending[t][i] \in Jobs
<1>1. order \in Seq(Jobs) /\ pending \in [Contexts -> Seq(Jobs)]
  BY KeyedHas
<1> QED BY <1>1

\* What the jobs' invariants say is kept when no job moves.
LEMMA JobsStay ==
  ASSUME KeyedInv, pending' = pending, where' = where, order' = order
  PROVE  AppendedOnce' /\ JobsListed' /\ ListsInOrder' /\ HomesInOrder'
<1>1. AppendedOnce' /\ HomesInOrder'
  BY KeyedHas DEF AppendedOnce, HomesInOrder, Home, Index
<1>2. JobsListed'
  BY KeyedHas DEF JobsListed, Home, Index
<1>3. ListsInOrder'
  BY KeyedHas DEF ListsInOrder
<1> QED BY <1>1, <1>2, <1>3

\* A job that was started and is over now: the lists and the order do not see it.
LEMMA JobEnds ==
  ASSUME KeyedInv, NEW j \in Jobs, where[j] = "running", NEW v \in {"done", "killed"},
         where' = [where EXCEPT ![j] = v], pending' = pending, order' = order
  PROVE  AppendedOnce' /\ JobsListed' /\ ListsInOrder' /\ HomesInOrder'
<1>1. \A i \in Jobs : where'[i] = IF i = j THEN v ELSE where[i]
  BY KeyedHas
<1>2. AppendedOnce'
  <2>1. \A i \in 1..Len(order) : order[i] \in Jobs /\ where[order[i]] # "new"
    BY KeyedHas, Elements DEF AppendedOnce
  <2>2. \A i \in 1..Len(order) : where'[order[i]] # "new"
    BY <1>1, <2>1
  <2> QED BY <2>2, KeyedHas DEF AppendedOnce
<1>3. JobsListed'
  <2>1. \A t \in Contexts : \A i \in 1..Len(pending[t]) :
          pending[t][i] \in Jobs /\ where[pending[t][i]] = "queued" /\ Home(pending[t][i]) = t
    BY KeyedHas, Elements DEF JobsListed
  <2>2. \A t \in Contexts : \A i \in 1..Len(pending[t]) : where'[pending[t][i]] = "queued"
    BY <1>1, <2>1
  <2>3. \A i \in Jobs : where'[i] = "queued" => where[i] = "queued"
    BY <1>1
  <2> QED BY <2>1, <2>2, <2>3, KeyedHas DEF JobsListed, Home, Index
<1>4. ListsInOrder'
  BY KeyedHas DEF ListsInOrder
<1>5. HomesInOrder'
  <2> SUFFICES ASSUME NEW i \in 1..Len(order), NEW k \in 1..Len(order), i < k, Home(order[i]) = Home(order[k]),
                      where'[order[k]] \in Started
               PROVE  where'[order[i]] \in Over
    BY DEF HomesInOrder, Home, Index
  <2>1. order[i] \in Jobs /\ order[k] \in Jobs
    BY Elements
  <2>2. where[order[k]] \in Started
    BY <1>1, <2>1 DEF Started
  <2>3. where[order[i]] \in Over
    BY <2>2, KeyedHas DEF HomesInOrder
  <2> QED BY <1>1, <2>1, <2>3, OverAre
<1> QED BY <1>2, <1>3, <1>4, <1>5

-----------------------------------------------------------------------------
LEMMA KeyedInitializeKeeps ==
  ASSUME KeyedInv, KeyedAssumed, Initialize
  PROVE  KeyedInv'
<1>1. /\ ~initializing /\ ~alive /\ alive' = TRUE /\ state' = [t \in Contexts |-> "asking"]
      /\ actives' = actives /\ initializing' = initializing /\ pending' = pending /\ runs' = runs
      /\ cancelled' = cancelled /\ joining' = joining /\ where' = where /\ order' = order
  BY DEF Initialize
<1>2. \A t \in Contexts : state'[t] = "asking"
  BY <1>1
<1>3. joining = {} /\ cancelled = {} /\ actives = {} /\ \A t \in Contexts : state[t] = "none"
  BY <1>1, KeyedHas DEF Staged
<1>4. KeyedOK'
  BY <1>1, KeyedHas DEF KeyedOK
<1>5. Staged'
  BY <1>1, <1>3 DEF Staged
<1>6. JobRunning'
  <2>1. \A t \in Contexts : runs[t] = NoJob
    BY <1>3, KeyedHas DEF JobRunning
  <2>2. \A j \in Jobs : where[j] # "running"
    BY <2>1, HomeIs, KeyedHas DEF JobRunning, KeyedAssumed
  <2> QED BY <1>1, <1>2, <2>1, <2>2 DEF JobRunning
<1>7. WaitsForNothing' /\ ActivesAlive'
  BY <1>1, <1>2, <1>3 DEF WaitsForNothing, ActivesAlive
<1> QED BY <1>1, <1>4, <1>5, <1>6, <1>7, JobsStay DEF KeyedInv

\* The lists when job j is appended to that of its thread h.
LEMMA Appended ==
  ASSUME NEW p \in [Contexts -> Seq(Jobs)], NEW h \in Contexts, NEW j \in Jobs, NEW q,
         q = [p EXCEPT ![h] = Append(@, j)]
  PROVE  /\ q \in [Contexts -> Seq(Jobs)] /\ Len(p[h]) \in Nat /\ Len(q[h]) = Len(p[h]) + 1
         /\ q[h][Len(p[h]) + 1] = j /\ \A i \in 1..Len(p[h]) : q[h][i] = p[h][i] /\ i \in 1..Len(q[h])
         /\ \A t \in Contexts : t # h => q[t] = p[t]
<1>1. p[h] \in Seq(Jobs)
  OBVIOUS
<1>2. Append(p[h], j) \in Seq(Jobs) /\ Len(Append(p[h], j)) = Len(p[h]) + 1 /\ Len(p[h]) \in Nat
  BY <1>1
<1>3. Append(p[h], j)[Len(p[h]) + 1] = j /\ \A i \in 1..Len(p[h]) : Append(p[h], j)[i] = p[h][i]
  BY <1>1
<1>4. q[h] = Append(p[h], j) /\ \A t \in Contexts : t # h => q[t] = p[t]
  OBVIOUS
<1>5. q \in [Contexts -> Seq(Jobs)]
  BY <1>2
<1>6. \A i \in 1..Len(p[h]) : i \in 1..(Len(p[h]) + 1)
  BY <1>2
<1> QED BY <1>2, <1>3, <1>4, <1>5, <1>6

\* The history when job j is appended.
LEMMA Ordered ==
  ASSUME NEW s \in Seq(Jobs), NEW j \in Jobs, NEW q, q = Append(s, j)
  PROVE  /\ q \in Seq(Jobs) /\ Len(s) \in Nat /\ Len(q) = Len(s) + 1 /\ q[Len(s) + 1] = j
         /\ \A i \in 1..Len(s) : q[i] = s[i]
         /\ \A i \in 1..Len(q) : i \in 1..Len(s) \/ i = Len(s) + 1
OBVIOUS

LEMMA AppendKeyedKeeps ==
  ASSUME KeyedInv, KeyedAssumed, NEW j \in Jobs, AppendJobWithKey(j)
  PROVE  KeyedInv'
<1>1. /\ where[j] = "new" /\ ~initializing /\ alive /\ pending' = [pending EXCEPT ![Home(j)] = Append(@, j)]
      /\ WakeOne(Home(j)) /\ where' = [where EXCEPT ![j] = "queued"] /\ order' = Append(order, j)
      /\ alive' = alive /\ actives' = actives /\ initializing' = initializing /\ runs' = runs
      /\ cancelled' = cancelled /\ joining' = joining
  BY DEF AppendJobWithKey, Home
<1>2. PICK h \in Contexts : h = Home(j)
  BY HomeIs
<1>3. \A i \in Jobs : where'[i] = IF i = j THEN "queued" ELSE where[i]
  BY <1>1, KeyedHas
<1>4. pending \in [Contexts -> Seq(Jobs)] /\ order \in Seq(Jobs) /\ pending' = [pending EXCEPT ![h] = Append(@, j)]
  BY <1>1, <1>2, KeyedHas
<1>5. /\ pending' \in [Contexts -> Seq(Jobs)] /\ Len(pending[h]) \in Nat /\ Len(pending'[h]) = Len(pending[h]) + 1
      /\ pending'[h][Len(pending[h]) + 1] = j
      /\ \A i \in 1..Len(pending[h]) : pending'[h][i] = pending[h][i] /\ i \in 1..Len(pending'[h])
      /\ \A t \in Contexts : t # h => pending'[t] = pending[t]
  BY <1>4, Appended
<1>6. /\ order' \in Seq(Jobs) /\ Len(order) \in Nat /\ Len(order') = Len(order) + 1 /\ order'[Len(order) + 1] = j
      /\ \A i \in 1..Len(order) : order'[i] = order[i]
      /\ \A i \in 1..Len(order') : i \in 1..Len(order) \/ i = Len(order) + 1
  BY <1>1, <1>4, Ordered
<1>7. /\ state' \in [Contexts -> {"none", "asking", "waiting", "running", "exited"}]
      /\ \A t \in Contexts : state'[t] = IF t = h /\ state[t] = "waiting" THEN "asking" ELSE state[t]
  BY <1>1, <1>2, KeyedHas DEF WakeOne
<1>8. KeyedOK'
  <2>1. where' \in [Jobs -> Over \cup {"new", "queued", "running"}]
    BY <1>1, KeyedHas
  <2> QED BY <1>1, <1>5, <1>6, <1>7, <2>1, KeyedHas DEF KeyedOK
<1>9. Staged'
  BY <1>1, KeyedHas DEF Staged
<1>10. JobRunning'
  <2>1. \A t \in Contexts : state'[t] = "running" <=> runs[t] # NoJob
    BY <1>7, KeyedHas DEF JobRunning
  <2>2. \A t \in Contexts : runs[t] # NoJob => runs[t] \in Jobs /\ where[runs[t]] = "running" /\ Home(runs[t]) = t
    BY KeyedHas DEF JobRunning
  <2>3. \A t \in Contexts : runs[t] # NoJob => where'[runs[t]] = "running"
    BY <1>1, <1>3, <2>2
  <2>4. \A i \in Jobs : where'[i] = "running" => runs[Home(i)] = i
    BY <1>3, KeyedHas DEF JobRunning
  <2> QED BY <1>1, <2>1, <2>2, <2>3, <2>4 DEF JobRunning, Home, Index
<1>11. \A i \in 1..Len(order) : order[i] \in Jobs /\ order[i] # j /\ where[order[i]] # "new"
  BY <1>1, Elements, KeyedHas DEF AppendedOnce
<1>12. AppendedOnce'
  <2>1. ASSUME NEW i \in 1..Len(order'), NEW k \in 1..Len(order'), order'[i] = order'[k] PROVE i = k
    <3>1. CASE i \in 1..Len(order) /\ k \in 1..Len(order)
      BY <1>6, <2>1, <3>1, KeyedHas DEF AppendedOnce
    <3>2. CASE i = Len(order) + 1 /\ k \in 1..Len(order)
      BY <1>6, <1>11, <2>1, <3>2
    <3>3. CASE i \in 1..Len(order) /\ k = Len(order) + 1
      BY <1>6, <1>11, <2>1, <3>3
    <3> QED BY <1>6, <3>1, <3>2, <3>3
  <2>2. ASSUME NEW i \in 1..Len(order') PROVE where'[order'[i]] # "new"
    <3>1. CASE i \in 1..Len(order)
      BY <1>3, <1>6, <1>11, <3>1
    <3>2. CASE i = Len(order) + 1
      BY <1>3, <1>6, <3>2
    <3> QED BY <1>6, <3>1, <3>2
  <2> QED BY <2>1, <2>2 DEF AppendedOnce
<1>13. \A t \in Contexts : \A i \in 1..Len(pending[t]) :
         pending[t][i] \in Jobs /\ pending[t][i] # j /\ where[pending[t][i]] = "queued" /\ Home(pending[t][i]) = t
  BY <1>1, Elements, KeyedHas DEF JobsListed
<1>14. \A i \in 1..Len(pending'[h]) : i \in 1..Len(pending[h]) \/ i = Len(pending[h]) + 1
  BY <1>5
<1>15. Len(pending[h]) + 1 \in 1..Len(pending'[h])
  BY <1>5
<1>16. JobsListed'
  <2>1. ASSUME NEW t \in Contexts, NEW i \in 1..Len(pending'[t])
        PROVE  where'[pending'[t][i]] = "queued" /\ Home(pending'[t][i]) = t
    <3>1. CASE t # h
      BY <1>3, <1>5, <1>13, <3>1
    <3>2. CASE t = h /\ i \in 1..Len(pending[h])
      BY <1>3, <1>5, <1>13, <3>2
    <3>3. CASE t = h /\ i = Len(pending[h]) + 1
      BY <1>2, <1>3, <1>5, <3>3
    <3> QED BY <1>14, <3>1, <3>2, <3>3
  <2>2. ASSUME NEW n \in Jobs, where'[n] = "queued"
        PROVE  \E i \in 1..Len(pending'[Home(n)]) : pending'[Home(n)][i] = n
    <3>1. CASE n = j
      BY <1>2, <1>5, <1>15, <3>1
    <3>2. CASE n # j
      <4>1. where[n] = "queued" /\ Home(n) \in Contexts
        BY <1>3, <2>2, <3>2, HomeIs
      <4>2. PICK i \in 1..Len(pending[Home(n)]) : pending[Home(n)][i] = n
        BY <4>1, KeyedHas DEF JobsListed
      <4>3. CASE Home(n) # h
        BY <1>5, <4>1, <4>2, <4>3
      <4>4. CASE Home(n) = h
        BY <1>5, <4>2, <4>4
      <4> QED BY <4>3, <4>4
    <3> QED BY <3>1, <3>2
  <2>3. ASSUME NEW t \in Contexts, NEW i \in 1..Len(pending'[t]), NEW k \in 1..Len(pending'[t]),
               pending'[t][i] = pending'[t][k]
        PROVE  i = k
    <3>1. CASE t # h
      BY <1>5, <2>3, <3>1, KeyedHas DEF JobsListed
    <3>2. CASE t = h /\ i \in 1..Len(pending[h]) /\ k \in 1..Len(pending[h])
      BY <1>5, <2>3, <3>2, KeyedHas DEF JobsListed
    <3>3. CASE t = h /\ i = Len(pending[h]) + 1 /\ k \in 1..Len(pending[h])
      BY <1>5, <1>13, <2>3, <3>3
    <3>4. CASE t = h /\ i \in 1..Len(pending[h]) /\ k = Len(pending[h]) + 1
      BY <1>5, <1>13, <2>3, <3>4
    <3> QED BY <1>14, <3>1, <3>2, <3>3, <3>4
  <2> QED BY <2>1, <2>2, <2>3 DEF JobsListed, Home, Index
<1>17. ListsInOrder'
  <2> SUFFICES ASSUME NEW t \in Contexts, NEW i \in 1..Len(pending'[t]), NEW k \in 1..Len(pending'[t]),
                      NEW a \in 1..Len(order'), NEW b \in 1..Len(order'),
                      i < k, order'[a] = pending'[t][i], order'[b] = pending'[t][k]
               PROVE  a < b
    BY DEF ListsInOrder
  <2>1. i \in 1..Len(pending[t]) /\ pending'[t][i] = pending[t][i]
    <3>1. CASE t # h
      BY <1>5, <3>1
    <3>2. CASE t = h
      <4>1. i \in 1..Len(pending[h])
        BY <1>5, <3>2
      <4> QED BY <1>5, <3>2, <4>1
    <3> QED BY <3>1, <3>2
  <2>2. a \in 1..Len(order) /\ order'[a] = order[a]
    BY <1>6, <1>13, <2>1
  <2>3. CASE b = Len(order) + 1
    BY <1>6, <2>2, <2>3
  <2>4. CASE b \in 1..Len(order)
    <3>1. order'[b] = order[b] /\ order[b] # j
      BY <1>6, <1>11, <2>4
    <3>2. k \in 1..Len(pending[t]) /\ pending'[t][k] = pending[t][k]
      BY <1>5, <1>14, <3>1
    <3>3. order[a] = pending[t][i] /\ order[b] = pending[t][k]
      BY <2>1, <2>2, <3>1, <3>2
    <3>4. ListsInOrder
      BY KeyedHas
    <3> QED BY <2>1, <2>2, <2>4, <3>2, <3>3, <3>4 DEF ListsInOrder
  <2> QED BY <1>6, <2>3, <2>4
<1>18. HomesInOrder'
  <2> SUFFICES ASSUME NEW i \in 1..Len(order'), NEW k \in 1..Len(order'), i < k,
                      Home(order'[i]) = Home(order'[k]), where'[order'[k]] \in Started
               PROVE  where'[order'[i]] \in Over
    BY DEF HomesInOrder, Home, Index
  <2>1. order'[k] # j
    BY <1>3 DEF Started
  <2>2. k \in 1..Len(order) /\ i \in 1..Len(order)
    BY <1>6, <2>1
  <2>3. order'[i] = order[i] /\ order'[k] = order[k] /\ where'[order[k]] = where[order[k]]
        /\ where'[order[i]] = where[order[i]]
    BY <1>3, <1>6, <1>11, <2>2
  <2> QED BY <2>2, <2>3, KeyedHas DEF HomesInOrder
<1>19. WaitsForNothing' /\ ActivesAlive'
  <2>1. WaitsForNothing'
    BY <1>5, <1>7, KeyedHas DEF WaitsForNothing
  <2>2. ActivesAlive'
    BY <1>1, <1>7, KeyedHas DEF ActivesAlive
  <2> QED BY <2>1, <2>2
<1> QED BY <1>8, <1>9, <1>10, <1>12, <1>16, <1>17, <1>18, <1>19 DEF KeyedInv

-----------------------------------------------------------------------------
\* A thread t that runs nothing, before and after, changes its state: only what is said of
\* states and of _actives is to be seen to.
LEMMA IdleStep ==
  ASSUME KeyedInv, KeyedAssumed, NEW t \in Contexts, NEW s \in {"none", "asking", "waiting", "exited"},
         state[t] # "running", state' = [state EXCEPT ![t] = s], actives' \subseteq actives,
         alive' = alive, initializing' = initializing, pending' = pending, runs' = runs,
         cancelled' \subseteq cancelled, where' = where, order' = order, joining' \subseteq joining, Staged',
         s = "waiting" => pending[t] = <<>>, s # "asking" => t \notin actives',
         \A u \in Contexts : u # t /\ u \in actives => u \in actives'
  PROVE  KeyedInv'
<1>1. /\ state' \in [Contexts -> {"none", "asking", "waiting", "running", "exited"}]
      /\ \A u \in Contexts : state'[u] = IF u = t THEN s ELSE state[u]
  BY KeyedHas
<1>2. KeyedOK'
  BY <1>1, KeyedHas DEF KeyedOK
<1>3. JobRunning'
  <2>1. \A u \in Contexts : state'[u] = "running" <=> runs[u] # NoJob
    BY <1>1, KeyedHas DEF JobRunning
  <2> QED BY <2>1, KeyedHas DEF JobRunning, Home, Index
<1>4. WaitsForNothing'
  BY <1>1, KeyedHas DEF WaitsForNothing
<1>5. ActivesAlive'
  BY <1>1, KeyedHas DEF ActivesAlive
<1> QED BY <1>2, <1>3, <1>4, <1>5, JobsStay DEF KeyedInv

LEMMA RequestExitKeeps ==
  ASSUME KeyedInv, KeyedAssumed, NEW t \in Contexts, RequestExit(t)
  PROVE  KeyedInv'
<1>1. /\ state[t] = "asking" /\ initializing /\ actives' = actives \ {t} /\ state' = [state EXCEPT ![t] = "exited"]
      /\ alive' = alive /\ initializing' = initializing /\ pending' = pending /\ runs' = runs
      /\ cancelled' = cancelled /\ joining' = joining /\ where' = where /\ order' = order
  BY DEF RequestExit
<1>2. ~alive /\ t \in joining
  BY <1>1, KeyedHas DEF Staged
<1>3. Staged'
  BY <1>1, <1>2, KeyedHas DEF Staged
<1> QED BY <1>1, <1>3, IdleStep

LEMMA RequestWaitKeeps ==
  ASSUME KeyedInv, KeyedAssumed, NEW t \in Contexts, RequestWait(t)
  PROVE  KeyedInv'
<1>1. /\ state[t] = "asking" /\ ~initializing /\ pending[t] = <<>> /\ actives' = actives \ {t}
      /\ state' = [state EXCEPT ![t] = "waiting"]
      /\ alive' = alive /\ initializing' = initializing /\ pending' = pending /\ runs' = runs
      /\ cancelled' = cancelled /\ joining' = joining /\ where' = where /\ order' = order
  BY DEF RequestWait
<1>2. alive
  BY <1>1, KeyedHas DEF Staged
<1>3. Staged'
  BY <1>1, <1>2, KeyedHas DEF Staged
<1> QED BY <1>1, <1>3, IdleStep

LEMMA SpuriousKeeps ==
  ASSUME KeyedInv, KeyedAssumed, NEW t \in Contexts, SpuriousWakeup(t)
  PROVE  KeyedInv'
<1>1. /\ state[t] = "waiting" /\ state' = [state EXCEPT ![t] = "asking"] /\ actives' = actives
      /\ alive' = alive /\ initializing' = initializing /\ pending' = pending /\ runs' = runs
      /\ cancelled' = cancelled /\ joining' = joining /\ where' = where /\ order' = order
  BY DEF SpuriousWakeup
<1>2. alive \/ t \in joining
  BY <1>1, KeyedHas DEF Staged
<1>3. Staged'
  BY <1>1, <1>2, KeyedHas DEF Staged
<1> QED BY <1>1, <1>3, IdleStep

LEMMA JoinKeeps ==
  ASSUME KeyedInv, KeyedAssumed, NEW t \in Contexts, Join(t)
  PROVE  KeyedInv'
<1>1. /\ t \in joining /\ state[t] = "exited" /\ joining' = joining \ {t} /\ state' = [state EXCEPT ![t] = "none"]
      /\ cancelled' = cancelled \ {t} /\ actives' = actives
      /\ alive' = alive /\ initializing' = initializing /\ pending' = pending /\ runs' = runs
      /\ where' = where /\ order' = order
  BY DEF Join
<1>2. initializing /\ actives = {}
  BY <1>1, KeyedHas DEF Staged
<1>3. Staged'
  <2>1. \A u \in Contexts : state'[u] = IF u = t THEN "none" ELSE state[u]
    BY <1>1, KeyedHas
  <2> QED BY <1>1, <1>2, <2>1, KeyedHas DEF Staged
<1> QED BY <1>1, <1>2, <1>3, IdleStep

-----------------------------------------------------------------------------
\* The list of thread h without its head.
LEMMA Taken ==
  ASSUME NEW p \in [Contexts -> Seq(Jobs)], NEW h \in Contexts, p[h] # <<>>, NEW q,
         q = [p EXCEPT ![h] = Tail(@)]
  PROVE  /\ Head(p[h]) = p[h][1] /\ Head(p[h]) \in Jobs /\ 1 \in 1..Len(p[h])
         /\ q \in [Contexts -> Seq(Jobs)] /\ Len(p[h]) \in Nat /\ Len(q[h]) = Len(p[h]) - 1
         /\ \A i \in 1..Len(q[h]) : q[h][i] = p[h][i + 1] /\ i + 1 \in 1..Len(p[h])
         /\ \A t \in Contexts : t # h => q[t] = p[t]
<1>1. p[h] \in Seq(Jobs)
  OBVIOUS
<1>2. Head(p[h]) = p[h][1] /\ Head(p[h]) \in Jobs /\ 1 \in 1..Len(p[h])
  BY <1>1
<1>3. Tail(p[h]) \in Seq(Jobs) /\ Len(Tail(p[h])) = Len(p[h]) - 1 /\ Len(p[h]) \in Nat
  BY <1>1
<1>4. \A i \in 1..Len(Tail(p[h])) : Tail(p[h])[i] = p[h][i + 1]
  BY <1>1
<1>5. q[h] = Tail(p[h]) /\ \A t \in Contexts : t # h => q[t] = p[t]
  OBVIOUS
<1>6. q \in [Contexts -> Seq(Jobs)]
  BY <1>3
<1>7. \A i \in 1..(Len(p[h]) - 1) : i + 1 \in 1..Len(p[h])
  BY <1>3
<1> QED BY <1>2, <1>3, <1>4, <1>5, <1>6, <1>7

LEMMA RequestRunKeeps ==
  ASSUME KeyedInv, KeyedAssumed, NEW h \in Contexts, RequestRun(h)
  PROVE  KeyedInv'
<1>1. /\ state[h] = "asking" /\ ~initializing /\ pending[h] # <<>> /\ actives' = actives \cup {h}
      /\ state' = [state EXCEPT ![h] = "running"] /\ runs' = [runs EXCEPT ![h] = Head(pending[h])]
      /\ where' = [where EXCEPT ![Head(pending[h])] = "running"] /\ pending' = [pending EXCEPT ![h] = Tail(@)]
      /\ alive' = alive /\ initializing' = initializing
      /\ cancelled' = cancelled /\ joining' = joining /\ order' = order
  BY DEF RequestRun
<1>2. pending \in [Contexts -> Seq(Jobs)]
  BY KeyedHas
<1>3. /\ Head(pending[h]) = pending[h][1] /\ Head(pending[h]) \in Jobs /\ 1 \in 1..Len(pending[h])
      /\ pending' \in [Contexts -> Seq(Jobs)] /\ Len(pending[h]) \in Nat /\ Len(pending'[h]) = Len(pending[h]) - 1
      /\ \A i \in 1..Len(pending'[h]) : pending'[h][i] = pending[h][i + 1] /\ i + 1 \in 1..Len(pending[h])
      /\ \A t \in Contexts : t # h => pending'[t] = pending[t]
  BY <1>1, <1>2, Taken
<1>4. PICK j \in Jobs : j = Head(pending[h]) /\ j = pending[h][1]
  BY <1>3
<1>5. where[j] = "queued" /\ Home(j) = h
  BY <1>3, <1>4, KeyedHas DEF JobsListed
<1>6. \A i \in Jobs : where'[i] = IF i = j THEN "running" ELSE where[i]
  BY <1>1, <1>4, KeyedHas
<1>7. /\ state' \in [Contexts -> {"none", "asking", "waiting", "running", "exited"}]
      /\ \A u \in Contexts : state'[u] = IF u = h THEN "running" ELSE state[u]
      /\ runs' \in [Contexts -> Jobs \cup {NoJob}] /\ \A u \in Contexts : runs'[u] = IF u = h THEN j ELSE runs[u]
  BY <1>1, <1>4, KeyedHas
<1>8. alive /\ runs[h] = NoJob /\ j # NoJob
  BY <1>1, KeyedHas DEF Staged, JobRunning, KeyedAssumed
<1>9. KeyedOK'
  <2>1. where' \in [Jobs -> Over \cup {"new", "queued", "running"}]
    BY <1>1, <1>4, KeyedHas
  <2>2. actives' \subseteq Contexts
    BY <1>1, KeyedHas
  <2> QED BY <1>1, <1>3, <1>7, <1>8, <2>1, <2>2, KeyedHas DEF KeyedOK
<1>10. Staged'
  BY <1>1, <1>8, KeyedHas DEF Staged
<1>11. JobRunning'
  <2>1. \A u \in Contexts : state'[u] = "running" <=> runs'[u] # NoJob
    BY <1>7, <1>8, KeyedHas DEF JobRunning
  <2>2. ASSUME NEW u \in Contexts, runs'[u] # NoJob PROVE where'[runs'[u]] = "running" /\ Home(runs'[u]) = u
    <3>1. CASE u = h
      BY <1>5, <1>6, <1>7, <3>1
    <3>2. CASE u # h
      <4>1. runs'[u] = runs[u] /\ runs[u] \in Jobs /\ where[runs[u]] = "running" /\ Home(runs[u]) = u
        BY <1>7, <2>2, <3>2, KeyedHas DEF JobRunning
      <4> QED BY <1>6, <4>1
    <3> QED BY <3>1, <3>2
  <2>3. ASSUME NEW n \in Jobs, where'[n] = "running" PROVE runs'[Home(n)] = n
    <3>1. CASE n = j
      BY <1>5, <1>7, <3>1
    <3>2. CASE n # j
      <4>1. where[n] = "running" /\ runs[Home(n)] = n /\ Home(n) \in Contexts
        BY <1>6, <2>3, <3>2, HomeIs, KeyedHas DEF JobRunning
      <4>2. Home(n) # h
        BY <1>8, <4>1 DEF KeyedAssumed
      <4> QED BY <1>7, <4>1, <4>2
    <3> QED BY <3>1, <3>2
  <2> QED BY <2>1, <2>2, <2>3 DEF JobRunning, Home, Index
<1>12. \A i \in 1..Len(order) : order[i] \in Jobs /\ where[order[i]] # "new"
  BY Elements, KeyedHas DEF AppendedOnce
<1>13. AppendedOnce'
  <2>1. \A i \in 1..Len(order) : where'[order[i]] # "new"
    BY <1>6, <1>12
  <2> QED BY <1>1, <2>1, KeyedHas DEF AppendedOnce
<1>14. \A t \in Contexts : \A i \in 1..Len(pending[t]) :
         pending[t][i] \in Jobs /\ where[pending[t][i]] = "queued" /\ Home(pending[t][i]) = t
  BY Elements, KeyedHas DEF JobsListed
<1>15. \A i \in 1..Len(pending[h]) : pending[h][i] = j => i = 1
  <2>1. \A i, k \in 1..Len(pending[h]) : pending[h][i] = pending[h][k] => i = k
    BY KeyedHas DEF JobsListed
  <2> QED BY <1>3, <1>4, <2>1
<1>16. JobsListed'
  <2>1. ASSUME NEW t \in Contexts, NEW i \in 1..Len(pending'[t])
        PROVE  where'[pending'[t][i]] = "queued" /\ Home(pending'[t][i]) = t
    <3>1. CASE t # h
      BY <1>3, <1>5, <1>6, <1>14, <3>1
    <3>2. CASE t = h
      <4>1. pending'[h][i] = pending[h][i + 1] /\ i + 1 \in 1..Len(pending[h]) /\ i + 1 # 1
        BY <1>3, <3>2
      <4>2. pending[h][i + 1] # j
        BY <1>15, <4>1
      <4> QED BY <1>6, <1>14, <3>2, <4>1, <4>2
    <3> QED BY <3>1, <3>2
  <2>2. ASSUME NEW n \in Jobs, where'[n] = "queued"
        PROVE  \E i \in 1..Len(pending'[Home(n)]) : pending'[Home(n)][i] = n
    <3>1. where[n] = "queued" /\ n # j /\ Home(n) \in Contexts
      BY <1>6, <2>2, HomeIs
    <3>2. PICK k \in 1..Len(pending[Home(n)]) : pending[Home(n)][k] = n
      BY <3>1, KeyedHas DEF JobsListed
    <3>3. CASE Home(n) # h
      BY <1>3, <3>1, <3>2, <3>3
    <3>4. CASE Home(n) = h
      <4>1. k # 1
        BY <1>4, <3>1, <3>2, <3>4
      <4>2. k - 1 \in 1..Len(pending'[h]) /\ (k - 1) + 1 = k
        BY <1>3, <3>2, <3>4, <4>1
      <4>3. pending'[h][k - 1] = pending[h][k]
        BY <1>3, <4>2
      <4> QED BY <3>2, <3>4, <4>2, <4>3
    <3> QED BY <3>3, <3>4
  <2>3. ASSUME NEW t \in Contexts, NEW i \in 1..Len(pending'[t]), NEW k \in 1..Len(pending'[t]),
               pending'[t][i] = pending'[t][k]
        PROVE  i = k
    <3>1. CASE t # h
      BY <1>3, <2>3, <3>1, KeyedHas DEF JobsListed
    <3>2. CASE t = h
      <4>1. /\ pending'[h][i] = pending[h][i + 1] /\ i + 1 \in 1..Len(pending[h])
            /\ pending'[h][k] = pending[h][k + 1] /\ k + 1 \in 1..Len(pending[h])
        BY <1>3, <3>2
      <4>2. i + 1 = k + 1
        BY <2>3, <3>2, <4>1, KeyedHas DEF JobsListed
      <4> QED BY <1>3, <3>2, <4>2
    <3> QED BY <3>1, <3>2
  <2> QED BY <2>1, <2>2, <2>3 DEF JobsListed, Home, Index
<1>17. ListsInOrder
  BY KeyedHas
<1>18. ListsInOrder'
  <2> SUFFICES ASSUME NEW t \in Contexts, NEW i \in 1..Len(pending'[t]), NEW k \in 1..Len(pending'[t]),
                      NEW a \in 1..Len(order'), NEW b \in 1..Len(order'),
                      i < k, order'[a] = pending'[t][i], order'[b] = pending'[t][k]
               PROVE  a < b
    BY DEF ListsInOrder
  <2>0. a \in 1..Len(order) /\ b \in 1..Len(order) /\ order[a] = pending'[t][i] /\ order[b] = pending'[t][k]
    BY <1>1
  <2>1. CASE t # h
    <3>1. pending'[t] = pending[t]
      BY <1>3, <2>1
    <3>2. /\ i \in 1..Len(pending[t]) /\ k \in 1..Len(pending[t])
          /\ order[a] = pending[t][i] /\ order[b] = pending[t][k]
      BY <2>0, <3>1
    <3> QED BY <1>17, <2>0, <3>2 DEF ListsInOrder
  <2>2. CASE t = h
    <3>1. /\ pending'[h][i] = pending[h][i + 1] /\ i + 1 \in 1..Len(pending[h])
          /\ pending'[h][k] = pending[h][k + 1] /\ k + 1 \in 1..Len(pending[h])
      BY <1>3, <2>2
    <3>2. i + 1 < k + 1
      BY <1>3, <2>2
    <3>3. order[a] = pending[h][i + 1] /\ order[b] = pending[h][k + 1]
      BY <2>0, <2>2, <3>1
    <3> QED BY <1>17, <2>0, <3>1, <3>2, <3>3 DEF ListsInOrder
  <2> QED BY <2>1, <2>2
<1>19. HomesInOrder'
  <2> SUFFICES ASSUME NEW i \in 1..Len(order), NEW k \in 1..Len(order), i < k,
                      Home(order[i]) = Home(order[k]), where'[order[k]] \in Started
               PROVE  where'[order[i]] \in Over
    BY <1>1 DEF HomesInOrder, Home, Index
  <2>1. order[i] \in Jobs /\ order[k] \in Jobs /\ order[i] # order[k] /\ where[order[i]] # "new"
    BY <1>12, Elements, KeyedHas DEF AppendedOnce
  <2>2. where[order[i]] \in Over
    <3>1. CASE order[k] # j
      BY <1>6, <2>1, <3>1, KeyedHas DEF HomesInOrder
    <3>2. CASE order[k] = j
      <4>1. Home(order[i]) = h
        BY <1>5, <3>2
      <4>2. where[order[i]] # "running"
        BY <1>8, <2>1, <4>1, KeyedHas DEF JobRunning, KeyedAssumed
      <4>3. where[order[i]] # "queued"
        <5> SUFFICES ASSUME where[order[i]] = "queued" PROVE FALSE
          OBVIOUS
        <5>1. PICK p \in 1..Len(pending[h]) : pending[h][p] = order[i]
          BY <2>1, <4>1, KeyedHas DEF JobsListed
        <5>2. p # 1
          BY <1>4, <2>1, <3>2, <5>1
        <5>3. 1 < p /\ order[k] = pending[h][1]
          BY <1>3, <1>4, <3>2, <5>1, <5>2
        <5>4. k < i
          BY <1>3, <1>17, <5>1, <5>3 DEF ListsInOrder
        <5> QED BY <5>4, Elements
      <4>4. where[order[i]] \in Over \cup {"new", "queued", "running"}
        BY <2>1, KeyedHas
      <4> QED BY <2>1, <4>2, <4>3, <4>4
    <3> QED BY <3>1, <3>2
  <2>3. order[i] # j
    BY <1>5, <2>2, OverAre
  <2> QED BY <1>6, <2>1, <2>2, <2>3
<1>20. WaitsForNothing' /\ ActivesAlive'
  <2>1. WaitsForNothing'
    <3>1. WaitsForNothing
      BY KeyedHas
    <3>2. \A u \in Contexts : state'[u] = "waiting" => u # h /\ state[u] = "waiting"
      BY <1>7
    <3> QED BY <1>3, <3>1, <3>2 DEF WaitsForNothing
  <2>2. ActivesAlive'
    <3>1. ActivesAlive
      BY KeyedHas
    <3>2. \A u \in Contexts : u # h => (u \in actives' <=> u \in actives) /\ state'[u] = state[u]
      BY <1>1, <1>7
    <3>3. h \in actives' /\ state'[h] = "running"
      BY <1>1, <1>7
    <3> QED BY <1>1, <3>1, <3>2, <3>3 DEF ActivesAlive
  <2> QED BY <2>1, <2>2
<1> QED BY <1>9, <1>10, <1>11, <1>13, <1>16, <1>18, <1>19, <1>20 DEF KeyedInv

\* ThreadDaemon() is done with a job, or pthread_cancel() takes effect in it.
LEMMA EndKeeps ==
  ASSUME KeyedInv, KeyedAssumed, NEW h \in Contexts, state[h] = "running",
         NEW s \in {"asking", "exited"}, NEW v \in {"done", "killed"},
         s = "exited" => h \in cancelled,
         state' = [state EXCEPT ![h] = s], where' = [where EXCEPT ![runs[h]] = v],
         runs' = [runs EXCEPT ![h] = NoJob],
         alive' = alive, actives' = actives, initializing' = initializing, pending' = pending,
         cancelled' = cancelled, joining' = joining, order' = order
  PROVE  KeyedInv'
<1>1. PICK j \in Jobs : j = runs[h] /\ where[j] = "running" /\ Home(j) = h
  BY KeyedHas DEF JobRunning
<1>2. \A i \in Jobs : where'[i] = IF i = j THEN v ELSE where[i]
  BY <1>1, KeyedHas
<1>3. /\ state' \in [Contexts -> {"none", "asking", "waiting", "running", "exited"}]
      /\ \A u \in Contexts : state'[u] = IF u = h THEN s ELSE state[u]
      /\ runs' \in [Contexts -> Jobs \cup {NoJob}] /\ \A u \in Contexts : runs'[u] = IF u = h THEN NoJob ELSE runs[u]
  BY KeyedHas
<1>4. where' = [where EXCEPT ![j] = v]
  BY <1>1
<1>5. KeyedOK'
  <2>1. where' \in [Jobs -> Over \cup {"new", "queued", "running"}]
    BY <1>4, KeyedHas, OverAre
  <2> QED BY <1>3, <2>1, KeyedHas DEF KeyedOK
<1>6. Staged'
  <2>1. alive \/ h \in joining
    BY KeyedHas DEF Staged
  <2> QED BY <1>3, <2>1, KeyedHas DEF Staged
<1>7. JobRunning'
  <2>1. \A u \in Contexts : state'[u] = "running" <=> runs'[u] # NoJob
    BY <1>3, KeyedHas DEF JobRunning
  <2>2. ASSUME NEW u \in Contexts, runs'[u] # NoJob PROVE where'[runs'[u]] = "running" /\ Home(runs'[u]) = u
    <3>1. u # h /\ runs'[u] = runs[u]
      BY <1>3, <2>2
    <3>2. runs[u] \in Jobs /\ where[runs[u]] = "running" /\ Home(runs[u]) = u
      BY <2>2, <3>1, KeyedHas DEF JobRunning
    <3>3. runs[u] # j
      BY <1>1, <3>1, <3>2
    <3> QED BY <1>2, <3>1, <3>2, <3>3
  <2>3. ASSUME NEW n \in Jobs, where'[n] = "running" PROVE runs'[Home(n)] = n
    <3>1. n # j /\ where[n] = "running"
      BY <1>2, <2>3
    <3>2. runs[Home(n)] = n /\ Home(n) \in Contexts
      BY <3>1, HomeIs, KeyedHas DEF JobRunning
    <3>3. Home(n) # h
      BY <1>1, <3>1, <3>2
    <3> QED BY <1>3, <3>2, <3>3
  <2> QED BY <2>1, <2>2, <2>3 DEF JobRunning, Home, Index
<1>8. WaitsForNothing'
  <2>1. WaitsForNothing /\ \A u \in Contexts : state'[u] = "waiting" => state[u] = "waiting"
    BY <1>3, KeyedHas
  <2> QED BY <2>1 DEF WaitsForNothing
<1>9. ActivesAlive'
  <2>1. ActivesAlive
    BY KeyedHas
  <2>2. s = "exited" => h \notin actives
    BY KeyedHas DEF Staged
  <2> QED BY <1>3, <2>1, <2>2 DEF ActivesAlive
<1>10. AppendedOnce' /\ JobsListed' /\ ListsInOrder' /\ HomesInOrder'
  BY <1>1, <1>4, JobEnds
<1> QED BY <1>5, <1>6, <1>7, <1>8, <1>9, <1>10 DEF KeyedInv

LEMMA FinishJobKeeps ==
  ASSUME KeyedInv, KeyedAssumed, NEW h \in Contexts, FinishJob(h)
  PROVE  KeyedInv'
<1>1. /\ state[h] = "running" /\ state' = [state EXCEPT ![h] = "asking"]
      /\ where' = [where EXCEPT ![runs[h]] = "done"] /\ runs' = [runs EXCEPT ![h] = NoJob]
      /\ alive' = alive /\ actives' = actives /\ initializing' = initializing /\ pending' = pending
      /\ cancelled' = cancelled /\ joining' = joining /\ order' = order
  BY DEF FinishJob
<1> QED BY <1>1, EndKeeps

LEMMA CancelKeeps ==
  ASSUME KeyedInv, KeyedAssumed, NEW h \in Contexts, Cancel(h)
  PROVE  KeyedInv'
<1>1. /\ h \in cancelled /\ state[h] \in {"running", "asking"} /\ state' = [state EXCEPT ![h] = "exited"]
      /\ where' = [j \in Jobs |-> IF j = runs[h] THEN "killed" ELSE where[j]]
      /\ runs' = [runs EXCEPT ![h] = NoJob]
      /\ alive' = alive /\ actives' = actives /\ initializing' = initializing /\ pending' = pending
      /\ cancelled' = cancelled /\ joining' = joining /\ order' = order
  BY DEF Cancel
<1>2. h \in joining /\ initializing /\ ~alive /\ actives = {}
  BY <1>1, KeyedHas DEF Staged
<1>3. CASE state[h] = "running"
  <2>1. where' = [where EXCEPT ![runs[h]] = "killed"]
    BY <1>1, KeyedHas
  <2> QED BY <1>1, <1>3, <2>1, EndKeeps
<1>4. CASE state[h] = "asking"
  <2>1. runs[h] = NoJob
    BY <1>4, KeyedHas DEF JobRunning
  <2>2. where' = where
    BY <1>1, <2>1, KeyedHas DEF KeyedAssumed
  <2>3. runs' = runs
    BY <1>1, <2>1, KeyedHas
  <2>4. Staged'
    BY <1>1, <1>2, KeyedHas DEF Staged
  <2> QED BY <1>1, <1>2, <1>4, <2>2, <2>3, <2>4, IdleStep
<1> QED BY <1>1, <1>3, <1>4

-----------------------------------------------------------------------------
LEMMA ShutdownKeeps ==
  ASSUME KeyedInv, KeyedAssumed, NEW w \in BOOLEAN, Shutdown(w)
  PROVE  KeyedInv'
<1>1. /\ ~initializing /\ alive /\ cancelled' \subseteq actives /\ actives' = {}
      /\ joining' = Contexts /\ alive' = FALSE /\ initializing' = TRUE /\ runs' = runs /\ order' = order
      /\ pending' = [t \in Contexts |-> <<>>]
      /\ where' = [j \in Jobs |-> IF where[j] = "queued" THEN "purged" ELSE where[j]]
      /\ state' = [t \in Contexts |-> IF state[t] = "waiting" THEN "asking" ELSE state[t]]
  BY DEF Shutdown, PurgeContexts
<1>2. \A j \in Jobs : where'[j] = IF where[j] = "queued" THEN "purged" ELSE where[j]
  BY <1>1
<1>3. /\ state' \in [Contexts -> {"none", "asking", "waiting", "running", "exited"}]
      /\ \A t \in Contexts : state'[t] = IF state[t] = "waiting" THEN "asking" ELSE state[t]
  BY <1>1, KeyedHas
<1>4. pending' \in [Contexts -> Seq(Jobs)] /\ \A t \in Contexts : pending'[t] = <<>> /\ Len(pending'[t]) = 0
  <2>1. <<>> \in Seq(Jobs) /\ Len(<<>>) = 0
    OBVIOUS
  <2> QED BY <1>1, <2>1
<1>5. KeyedOK'
  <2>1. where' \in [Jobs -> Over \cup {"new", "queued", "running"}]
    BY <1>1, KeyedHas, OverAre
  <2>2. cancelled' \subseteq Contexts
    BY <1>1, KeyedHas
  <2> QED BY <1>1, <1>3, <1>4, <2>1, <2>2, KeyedHas DEF KeyedOK
<1>6. Staged'
  BY <1>1, KeyedHas DEF Staged
<1>7. JobRunning'
  <2>1. \A t \in Contexts : state'[t] = "running" <=> runs[t] # NoJob
    BY <1>3, KeyedHas DEF JobRunning
  <2>2. \A t \in Contexts : runs[t] # NoJob => runs[t] \in Jobs /\ where[runs[t]] = "running" /\ Home(runs[t]) = t
    BY KeyedHas DEF JobRunning
  <2>3. \A t \in Contexts : runs[t] # NoJob => where'[runs[t]] = "running"
    BY <1>2, <2>2
  <2>4. \A j \in Jobs : where'[j] = "running" => runs[Home(j)] = j
    BY <1>2, KeyedHas DEF JobRunning
  <2> QED BY <1>1, <2>1, <2>2, <2>3, <2>4 DEF JobRunning, Home, Index
<1>8. AppendedOnce'
  <2>1. \A i \in 1..Len(order) : order[i] \in Jobs /\ where[order[i]] # "new"
    BY Elements, KeyedHas DEF AppendedOnce
  <2>2. \A i \in 1..Len(order) : where'[order[i]] # "new"
    BY <1>2, <2>1
  <2> QED BY <1>1, <2>2, KeyedHas DEF AppendedOnce
<1>9. JobsListed' /\ ListsInOrder'
  <2>1. \A j \in Jobs : where'[j] # "queued"
    BY <1>2
  <2> QED BY <1>4, <2>1 DEF JobsListed, ListsInOrder
<1>10. HomesInOrder'
  <2> SUFFICES ASSUME NEW i \in 1..Len(order), NEW k \in 1..Len(order), i < k,
                      Home(order[i]) = Home(order[k]), where'[order[k]] \in Started
               PROVE  where'[order[i]] \in Over
    BY <1>1 DEF HomesInOrder, Home, Index
  <2>1. order[i] \in Jobs /\ order[k] \in Jobs
    BY Elements
  <2>2. where[order[k]] \in Started
    BY <1>2, <2>1 DEF Started
  <2>3. where[order[i]] \in Over
    BY <2>2, KeyedHas DEF HomesInOrder
  <2> QED BY <1>2, <2>1, <2>3, OverAre
<1>11. WaitsForNothing' /\ ActivesAlive'
  BY <1>1, <1>4 DEF WaitsForNothing, ActivesAlive
<1> QED BY <1>5, <1>6, <1>7, <1>8, <1>9, <1>10, <1>11 DEF KeyedInv

LEMMA ShutdownReturnKeeps ==
  ASSUME KeyedInv, KeyedAssumed, ShutdownReturn
  PROVE  KeyedInv'
<1>1. /\ initializing /\ joining = {} /\ initializing' = FALSE /\ state' = state /\ actives' = actives
      /\ alive' = alive /\ pending' = pending /\ runs' = runs
      /\ cancelled' = cancelled /\ joining' = joining /\ where' = where /\ order' = order
  BY DEF ShutdownReturn
<1>2. ~alive /\ \A t \in Contexts : state[t] = "none"
  BY <1>1, KeyedHas DEF Staged
<1>3. KeyedOK'
  BY <1>1, KeyedHas DEF KeyedOK
<1>4. Staged'
  BY <1>1, <1>2, KeyedHas DEF Staged
<1>5. JobRunning'
  BY <1>1, KeyedHas DEF JobRunning, Home, Index
<1>6. WaitsForNothing' /\ ActivesAlive'
  BY <1>1, <1>2, KeyedHas DEF WaitsForNothing, ActivesAlive
<1> QED BY <1>1, <1>3, <1>4, <1>5, <1>6, JobsStay DEF KeyedInv

LEMMA KeyedStep ==
  ASSUME KeyedInv, KeyedAssumed, [KeyedNext]_keyedVars
  PROVE  KeyedInv'
<1>1. CASE UNCHANGED keyedVars
  <2>1. /\ alive' = alive /\ actives' = actives /\ initializing' = initializing /\ pending' = pending
        /\ state' = state /\ runs' = runs /\ cancelled' = cancelled /\ joining' = joining
        /\ where' = where /\ order' = order
    BY <1>1 DEF keyedVars
  <2>2. KeyedOK' /\ Staged'
    BY <2>1, KeyedHas DEF KeyedOK, Staged
  <2>3. JobRunning' /\ WaitsForNothing' /\ ActivesAlive'
    BY <2>1, KeyedHas DEF JobRunning, Home, Index, WaitsForNothing, ActivesAlive
  <2> QED BY <2>1, <2>2, <2>3, JobsStay DEF KeyedInv
<1>2. CASE KeyedNext
  BY <1>2, KeyedInitializeKeeps, ShutdownReturnKeeps, ShutdownKeeps, AppendKeyedKeeps, RequestExitKeeps,
     RequestWaitKeeps, RequestRunKeeps, SpuriousKeeps, FinishJobKeeps, CancelKeeps, JoinKeeps DEF KeyedNext
<1> QED BY <1>1, <1>2

\* Jobs of one key run one after another in the order in which they were appended, no wakeup
\* of AppendJobWithKey() or Shutdown() is lost, and _actives holds only threads that are
\* alive, for any number of threads, any jobs and any keys.
THEOREM KeyedPoolIsSound ==
  ASSUME Size \in Nat \ {0}, Key \in [Jobs -> Nat], NoJob \notin Jobs
  PROVE  KeyedSpec => [](KeyedOK /\ KeyedSound)
<1>1. KeyedAssumed
  BY DEF KeyedAssumed
<1>2. KeyedInit => KeyedInv
  <2> SUFFICES ASSUME KeyedInit PROVE KeyedInv
    OBVIOUS
  <2>1. /\ alive = FALSE /\ actives = {} /\ initializing = FALSE /\ pending = [t \in Contexts |-> <<>>]
        /\ state = [t \in Contexts |-> "none"] /\ runs = [t \in Contexts |-> NoJob]
        /\ cancelled = {} /\ joining = {} /\ where = [j \in Jobs |-> "new"] /\ order = <<>>
    BY DEF KeyedInit
  <2>2. <<>> \in Seq(Jobs) /\ Len(<<>>) = 0
    OBVIOUS
  <2>3. pending \in [Contexts -> Seq(Jobs)] /\ \A t \in Contexts : pending[t] = <<>> /\ Len(pending[t]) = 0
    BY <2>1, <2>2
  <2>4. /\ state \in [Contexts -> {"none", "asking", "waiting", "running", "exited"}]
        /\ runs \in [Contexts -> Jobs \cup {NoJob}]
        /\ where \in [Jobs -> Over \cup {"new", "queued", "running"}]
    BY <2>1
  <2>5. KeyedOK
    BY <2>1, <2>2, <2>3, <2>4 DEF KeyedOK
  <2>6. Staged /\ JobRunning
    BY <2>1 DEF Staged, JobRunning
  <2>7. AppendedOnce /\ HomesInOrder
    BY <2>1, <2>2 DEF AppendedOnce, HomesInOrder
  <2>8. JobsListed /\ ListsInOrder
    BY <2>1, <2>3 DEF JobsListed, ListsInOrder
  <2>9. WaitsForNothing /\ ActivesAlive
    BY <2>1 DEF WaitsForNothing, ActivesAlive
  <2> QED BY <2>5, <2>6, <2>7, <2>8, <2>9 DEF KeyedInv
<1>3. KeyedInv /\ [KeyedNext]_keyedVars => KeyedInv'
  BY <1>1, KeyedStep
<1>4. KeyedInv => KeyedOK /\ KeyedSound
  <2> SUFFICES ASSUME KeyedInv PROVE KeyedOK /\ KeyedSound
    OBVIOUS
  <2>1. KeyedInOrder
    BY KeyedHas DEF KeyedInOrder, HomesInOrder, Home, Started
  <2> QED BY <2>1, KeyedHas DEF KeyedInv, KeyedSound
<1> QED BY <1>2, <1>3, <1>4, PTL DEF KeyedSpec

-----------------------------------------------------------------------------
(***************************************************************************)
(* AsyncRouter.  The threads that call it and the calls in flight are the  *)
(* holders of its map: what they hold is alive because the map's counts    *)
(* are exact.  A call is in one place at a time: with the thread that      *)
(* starts it, in the TimeoutPool, or with the Put() that took it out.      *)
(***************************************************************************)
RouterAssumed == Holders = Threads \cup Seqs /\ Threads \cap Seqs = {}

Starting(t) == pc[t][1] \in {"got", "inserted"}

RouterTyped ==
  /\ tracks \subseteq Seqs /\ putting \subseteq Seqs /\ deleting \subseteq tracks
  /\ ends \in [Seqs -> Nat] /\ DOMAIN pc = Threads /\ pc = [t \in Threads |-> pc[t]]

Routed ==
  /\ tracks \cap putting = {}
  /\ \A s \in tracks \cup putting : holds[s] # None /\ ends[s] = 0
  /\ \A s \in Seqs : s \notin tracks \cup putting => holds[s] = None
  /\ \A s \in Seqs : ends[s] <= 1

Called ==
  /\ \A t \in Threads : Starting(t) => pc[t][2] \in Seqs
  /\ \A t \in Threads : pc[t][1] = "got" =>
       holds[t] # None /\ ends[pc[t][2]] = 0 /\ pc[t][2] \notin tracks \cup putting
  /\ \A t, u \in Threads : Starting(t) /\ Starting(u) /\ pc[t][2] = pc[u][2] => t = u

RouterInv == MapInv /\ RouterTyped /\ Routed /\ Called

LEMMA HoldsAre ==
  ASSUME MapInv, RouterAssumed
  PROVE  /\ holds \in [Holders -> Objects \cup {None}]
         /\ \A t \in Threads : t \in Holders /\ t \notin Seqs
         /\ \A s \in Seqs : s \in Holders /\ s \notin Threads
BY DEF MapInv, TypeOK, RouterAssumed

\* Nothing of the router changes but one thread's place, before which and after which it
\* starts no call, and what that thread holds.
LEMMA PlaceMoves ==
  ASSUME RouterInv, RouterAssumed, MapInv', NEW t \in Threads, NEW p, p[1] \notin {"got", "inserted"},
         pc' = [pc EXCEPT ![t] = p], \A h \in Holders : h # t => holds'[h] = holds[h],
         tracks' = tracks, deleting' = deleting, putting' = putting, ends' = ends
  PROVE  RouterInv'
<1>1. pc = [u \in Threads |-> pc[u]] /\ DOMAIN pc = Threads
  BY DEF RouterInv, RouterTyped
<1>2. DOMAIN pc' = Threads /\ pc' = [u \in Threads |-> pc'[u]]
  BY <1>1
<1>3. \A u \in Threads : pc'[u] = IF u = t THEN p ELSE pc[u]
  BY <1>1
<1>4. RouterTyped'
  BY <1>2 DEF RouterInv, RouterTyped
<1>5. \A s \in Seqs : holds'[s] = holds[s]
  BY HoldsAre DEF RouterInv
<1>6. Routed'
  BY <1>5 DEF RouterInv, Routed, RouterTyped
<1>7. \A u \in Threads : Starting(u)' => u # t /\ pc'[u] = pc[u] /\ Starting(u)
  BY <1>3 DEF Starting
<1>8. \A u \in Threads : u # t => holds'[u] = holds[u]
  BY HoldsAre DEF RouterInv
<1>9. \A u \in Threads : pc'[u][1] = "got" => Starting(u)'
  BY DEF Starting
<1>10. Called'
  BY <1>7, <1>8, <1>9 DEF RouterInv, Called
<1> QED BY <1>4, <1>6, <1>10 DEF RouterInv

\* Steps of the map that nobody holds anything else after.
LEMMA MapMoves ==
  ASSUME RouterInv, MapInv', holds' = holds, pc' = pc, tracks' = tracks, putting' = putting, ends' = ends,
         deleting' \subseteq tracks
  PROVE  RouterInv'
<1>1. RouterTyped'
  BY DEF RouterInv, RouterTyped
<1>2. Routed'
  BY DEF RouterInv, Routed
<1>3. Called'
  BY DEF RouterInv, Called, Starting
<1> QED BY <1>1, <1>2, <1>3 DEF RouterInv

LEMMA RouterGetKeeps ==
  ASSUME RouterInv, RouterAssumed, NEW t \in Threads, NEW s \in Seqs, RouterGet(t, s)
  PROVE  RouterInv'
<1>1. /\ pc[t] = <<"no">> /\ Fresh(s) /\ GetNext(t) /\ pc' = [pc EXCEPT ![t] = <<"got", s>>]
      /\ tracks' = tracks /\ deleting' = deleting /\ putting' = putting /\ ends' = ends
  BY DEF RouterGet
<1>2. t \in Holders /\ holds \in [Holders -> Objects \cup {None}]
  BY HoldsAre DEF RouterInv
<1>3. MapInv'
  BY <1>1, <1>2, MapStep DEF RouterInv, Next
<1>4. Mapped # {} /\ holds' = [holds EXCEPT ![t] = map[NextKey(ptr)]]
  BY <1>1 DEF GetNext, Hold
<1>5. map[NextKey(ptr)] # None
  BY <1>4, NextKeyMapped DEF RouterInv, Mapped
<1>6. \A h \in Holders : holds'[h] = IF h = t THEN map[NextKey(ptr)] ELSE holds[h]
  BY <1>2, <1>4
<1>7. pc = [u \in Threads |-> pc[u]] /\ DOMAIN pc = Threads
  BY DEF RouterInv, RouterTyped
<1>8. DOMAIN pc' = Threads /\ pc' = [u \in Threads |-> pc'[u]]
  BY <1>1, <1>7
<1>9. \A u \in Threads : pc'[u] = IF u = t THEN <<"got", s>> ELSE pc[u]
  BY <1>1, <1>7
<1>10. pc'[t][1] = "got" /\ pc'[t][2] = s
  BY <1>9
<1>11. RouterTyped'
  BY <1>1, <1>8 DEF RouterInv, RouterTyped
<1>12. \A r \in Seqs : holds'[r] = holds[r]
  BY <1>6, HoldsAre DEF RouterInv
<1>13. Routed'
  BY <1>1, <1>12 DEF RouterInv, Routed, RouterTyped
<1>14. ends[s] = 0 /\ holds[s] = None /\ \A u \in Threads : Starting(u) => pc[u][2] # s
  BY <1>1 DEF Fresh, Calling, Starting
<1>15. s \notin tracks \cup putting
  BY <1>14 DEF RouterInv, Routed
<1>16. \A u \in Threads : u # t => pc'[u] = pc[u] /\ holds'[u] = holds[u]
  BY <1>6, <1>9, HoldsAre DEF RouterInv
<1>17. \A u \in Threads : u # t /\ Starting(u)' => Starting(u)
  BY <1>16 DEF Starting
<1>18. Called'
  <2>1. \A u \in Threads : Starting(u)' => pc'[u][2] \in Seqs
    BY <1>10, <1>16, <1>17 DEF RouterInv, Called
  <2>2. ASSUME NEW u \in Threads, pc'[u][1] = "got"
        PROVE  holds'[u] # None /\ ends'[pc'[u][2]] = 0 /\ pc'[u][2] \notin tracks' \cup putting'
    <3>1. CASE u = t
      BY <1>1, <1>2, <1>5, <1>6, <1>10, <1>14, <1>15, <3>1
    <3>2. CASE u # t
      BY <1>1, <1>16, <2>2, <3>2 DEF RouterInv, Called
    <3> QED BY <3>1, <3>2
  <2>3. ASSUME NEW u \in Threads, NEW v \in Threads, Starting(u)', Starting(v)', pc'[u][2] = pc'[v][2] PROVE u = v
    <3>1. CASE u = t \/ v = t
      BY <1>10, <1>14, <1>16, <1>17, <2>3, <3>1
    <3>2. CASE u # t /\ v # t
      BY <1>16, <1>17, <2>3, <3>2 DEF RouterInv, Called
    <3> QED BY <3>1, <3>2
  <2> QED BY <2>1, <2>2, <2>3 DEF Called
<1> QED BY <1>3, <1>11, <1>13, <1>18 DEF RouterInv

\* A reference changes hands: as many hold the object as before.
LEMMA HandOver ==
  ASSUME MapInv, NEW t \in Holders, NEW s \in Holders, t # s, holds[t] # None, holds[s] = None,
         holds' = [holds EXCEPT ![t] = None, ![s] = holds[t]],
         UNCHANGED <<map, drop, count, ptr, eraser, made, destroyed>>
  PROVE  MapInv'
<1>1. holds \in [Holders -> Objects \cup {None}] /\ holds[t] \in Objects
  BY DEF MapInv, TypeOK
<1>2. \A h \in Holders : holds'[h] = IF h = t THEN None ELSE IF h = s THEN holds[t] ELSE holds[h]
  BY <1>1
<1>3. holds' \in [Holders -> Objects \cup {None}]
  BY <1>1
<1>4. Mapped' = Mapped /\ InMap' = InMap
  BY DEF Mapped, InMap
<1>5. TypeOK'
  BY <1>3 DEF MapInv, TypeOK
<1>6. \A o \in Objects : o # holds[t] => HoldersOf(o)' = HoldersOf(o)
  BY <1>1, <1>2, MapAssumption DEF HoldersOf
<1>7. ASSUME NEW o, o = holds[t]
      PROVE  /\ {h \in Holders : holds'[h] = o} = (HoldersOf(o) \ {t}) \cup {s}
             /\ t \in HoldersOf(o) /\ s \notin HoldersOf(o)
  BY <1>1, <1>2, <1>7, MapAssumption DEF HoldersOf
<1>8. ASSUME NEW o, o = holds[t]
      PROVE  Cardinality({h \in Holders : holds'[h] = o}) = Cardinality(HoldersOf(o))
  <2>1. IsFiniteSet(HoldersOf(o)) /\ Cardinality(HoldersOf(o)) \in Nat
    BY HoldersFinite
  <2>2. IsFiniteSet(HoldersOf(o) \ {t}) /\ Cardinality(HoldersOf(o) \ {t}) = Cardinality(HoldersOf(o)) - 1
    BY <1>7, <1>8, <2>1, FS_RemoveElement
  <2>3. Cardinality((HoldersOf(o) \ {t}) \cup {s}) = Cardinality(HoldersOf(o) \ {t}) + 1
    <3> DEFINE rest == HoldersOf(o) \ {t}
    <3>1. IsFiniteSet(rest) /\ s \notin rest
      BY <1>7, <1>8, <2>2
    <3> HIDE DEF rest
    <3>2. Cardinality(rest \cup {s}) = Cardinality(rest) + 1
      BY <3>1, FS_AddElement
    <3> QED BY <3>2 DEF rest
  <2>4. {h \in Holders : holds'[h] = o} = (HoldersOf(o) \ {t}) \cup {s}
    BY <1>7, <1>8
  <2>5. Cardinality((HoldersOf(o) \ {t}) \cup {s}) = (Cardinality(HoldersOf(o)) - 1) + 1
    BY <2>2, <2>3, Zenon
  <2>6. Cardinality((HoldersOf(o) \ {t}) \cup {s}) = Cardinality(HoldersOf(o))
    <3> DEFINE n == Cardinality(HoldersOf(o))
    <3>1. n \in Nat
      BY <2>1
    <3> HIDE DEF n
    <3>2. (n - 1) + 1 = n
      BY <3>1
    <3> QED BY <2>5, <3>2, Zenon DEF n
  <2> QED BY <2>4, <2>6, Zenon
<1>9. CountsExact'
  <2> SUFFICES ASSUME NEW o \in Objects, o \in InMap \cup drop
               PROVE  count[o] = Cardinality({h \in Holders : holds'[h] = o})
    BY <1>4 DEF CountsExact, HoldersOf
  <2>1. count[o] = Cardinality(HoldersOf(o))
    BY DEF MapInv, CountsExact
  <2>2. CASE o = holds[t]
    BY <1>8, <2>1, <2>2
  <2>3. CASE o # holds[t]
    BY <1>6, <2>1, <2>3 DEF HoldersOf
  <2> QED BY <2>2, <2>3
<1>10. NothingLeaks'
  <2>1. \A o \in drop : {h \in Holders : holds'[h] = o} # {}
    <3> SUFFICES ASSUME NEW o \in drop PROVE {h \in Holders : holds'[h] = o} # {}
      OBVIOUS
    <3>1. CASE o = holds[t]
      BY <1>7, <3>1
    <3>2. CASE o # holds[t]
      BY <1>6, <3>2 DEF MapInv, TypeOK, NothingLeaks, HoldersOf
    <3> QED BY <3>1, <3>2
  <2>2. \A o \in drop : HoldersOf(o)' # {}
    BY <2>1 DEF HoldersOf
  <2> QED BY <1>4, <2>2 DEF MapInv, NothingLeaks
<1>11. PtrValid' /\ FreshUncounted'
  BY <1>4 DEF MapInv, PtrValid, FreshUncounted
<1>12. HeldKnown'
  BY <1>2, <1>4 DEF MapInv, HeldKnown
<1> QED BY <1>5, <1>9, <1>10, <1>11, <1>12 DEF MapInv

LEMMA GetInsertKeeps ==
  ASSUME RouterInv, RouterAssumed, NEW t \in Threads, GetInsert(t)
  PROVE  RouterInv'
<1> DEFINE s == pc[t][2]
<1>1. /\ pc[t][1] = "got" /\ deleting = {} /\ tracks' = tracks \cup {s} /\ deleting' = deleting /\ putting' = putting
      /\ holds' = [holds EXCEPT ![t] = None, ![s] = holds[t]]
      /\ pc' = [pc EXCEPT ![t] = <<"inserted", s, holds[t]>>] /\ ends' = ends
      /\ UNCHANGED <<map, drop, count, ptr, eraser, made, destroyed>>
  BY DEF GetInsert, PoolFree
<1>2. Starting(t)
  BY <1>1 DEF Starting
<1>3. s \in Seqs /\ holds[t] # None /\ ends[s] = 0 /\ s \notin tracks \cup putting
  BY <1>1, <1>2 DEF RouterInv, Called
<1> HIDE DEF s
<1>4. holds[s] = None
  BY <1>3 DEF RouterInv, Routed
<1>5. t \in Holders /\ s \in Holders /\ t # s /\ holds \in [Holders -> Objects \cup {None}]
  BY <1>3, HoldsAre DEF RouterInv
<1>6. MapInv'
  BY <1>1, <1>3, <1>4, <1>5, HandOver DEF RouterInv
<1>7. \A h \in Holders : holds'[h] = IF h = t THEN None ELSE IF h = s THEN holds[t] ELSE holds[h]
  BY <1>1, <1>5
<1>8. pc = [u \in Threads |-> pc[u]] /\ DOMAIN pc = Threads
  BY DEF RouterInv, RouterTyped
<1>9. DOMAIN pc' = Threads /\ pc' = [u \in Threads |-> pc'[u]]
  BY <1>1, <1>8
<1>10. \A u \in Threads : pc'[u] = IF u = t THEN <<"inserted", s, holds[t]>> ELSE pc[u]
  BY <1>1, <1>8
<1>11. pc'[t][1] = "inserted" /\ pc'[t][2] = s
  BY <1>10
<1>12. RouterTyped'
  BY <1>1, <1>3, <1>9 DEF RouterInv, RouterTyped
<1>13. holds'[s] = holds[t] /\ \A r \in Seqs : r # s => holds'[r] = holds[r]
  BY <1>3, <1>5, <1>7, HoldsAre DEF RouterInv
<1>14. Routed'
  <2>1. tracks' \cap putting' = {}
    BY <1>1, <1>3 DEF RouterInv, Routed
  <2>2. \A r \in tracks' \cup putting' : holds'[r] # None /\ ends'[r] = 0
    BY <1>1, <1>3, <1>13 DEF RouterInv, Routed, RouterTyped
  <2>3. \A r \in Seqs : r \notin tracks' \cup putting' => holds'[r] = None
    BY <1>1, <1>13 DEF RouterInv, Routed
  <2>4. \A r \in Seqs : ends'[r] <= 1
    BY <1>1 DEF RouterInv, Routed
  <2> QED BY <2>1, <2>2, <2>3, <2>4 DEF Routed
<1>15. \A u \in Threads : u # t => pc'[u] = pc[u] /\ holds'[u] = holds[u]
  <2>1. \A u \in Threads : u \in Holders /\ u # s
    BY <1>3, HoldsAre DEF RouterInv
  <2> QED BY <1>7, <1>10, <2>1
<1>16. \A u \in Threads : Starting(u)' => Starting(u) /\ pc'[u][2] = pc[u][2]
  BY <1>2, <1>11, <1>15 DEF Starting, s
<1>17. \A u \in Threads : u # t /\ Starting(u) => pc[u][2] # s
  BY <1>2 DEF RouterInv, Called, s
<1>18. Called'
  <2>1. \A u \in Threads : Starting(u)' => pc'[u][2] \in Seqs
    BY <1>16 DEF RouterInv, Called
  <2>2. ASSUME NEW u \in Threads, pc'[u][1] = "got"
        PROVE  holds'[u] # None /\ ends'[pc'[u][2]] = 0 /\ pc'[u][2] \notin tracks' \cup putting'
    <3>1. u # t
      BY <1>11, <2>2
    <3>2. pc[u][1] = "got" /\ Starting(u) /\ pc'[u] = pc[u] /\ holds'[u] = holds[u]
      BY <1>15, <2>2, <3>1 DEF Starting
    <3>3. holds[u] # None /\ ends[pc[u][2]] = 0 /\ pc[u][2] \notin tracks \cup putting
      BY <3>2 DEF RouterInv, Called
    <3> QED BY <1>1, <1>17, <3>1, <3>2, <3>3
  <2>3. \A u, v \in Threads : Starting(u)' /\ Starting(v)' /\ pc'[u][2] = pc'[v][2] => u = v
    BY <1>16 DEF RouterInv, Called
  <2> QED BY <2>1, <2>2, <2>3 DEF Called
<1> QED BY <1>6, <1>12, <1>14, <1>18 DEF RouterInv

\* A thread leaves Get(), and a thread leaves Add() with what it took there given back.
LEMMA RouterLeaveKeeps ==
  ASSUME RouterInv, RouterAssumed, NEW t \in Threads, GetReturn(t) \/ AddRelease(t)
  PROVE  RouterInv'
<1>1. /\ pc' = [pc EXCEPT ![t] = <<"no">>]
      /\ tracks' = tracks /\ deleting' = deleting /\ putting' = putting /\ ends' = ends
  BY DEF GetReturn, AddRelease
<1>2. t \in Holders /\ holds \in [Holders -> Objects \cup {None}] /\ <<"no">>[1] \notin {"got", "inserted"}
  BY HoldsAre DEF RouterInv
<1>3. CASE GetReturn(t)
  <2>1. MapInv'
    BY <1>3, MapStep DEF RouterInv, GetReturn
  <2>2. holds' = holds
    BY <1>3 DEF GetReturn, vars
  <2> QED BY <1>1, <1>2, <2>1, <2>2, PlaceMoves
<1>4. CASE AddRelease(t)
  <2>1. Release(t)
    BY <1>4 DEF AddRelease
  <2>2. MapInv'
    BY <1>2, <2>1, MapStep DEF RouterInv, Next
  <2>3. holds' = [holds EXCEPT ![t] = None]
    BY <2>1 DEF Release, ReleaseMapped, ReleaseDropped
  <2>4. \A h \in Holders : h # t => holds'[h] = holds[h]
    BY <1>2, <2>3
  <2> QED BY <1>1, <1>2, <2>2, <2>4, PlaceMoves
<1> QED BY <1>3, <1>4

LEMMA RouterAddKeeps ==
  ASSUME RouterInv, RouterAssumed, NEW t \in Threads, NEW k \in Keys, RouterAdd(t, k)
  PROVE  RouterInv'
<1>1. /\ pc' = [pc EXCEPT ![t] = <<"adding">>]
      /\ tracks' = tracks /\ deleting' = deleting /\ putting' = putting /\ ends' = ends
      /\ Get(t, k) \/ \E o \in Objects : Add(t, k, o)
  BY DEF RouterAdd
<1>2. t \in Holders /\ holds \in [Holders -> Objects \cup {None}] /\ <<"adding">>[1] \notin {"got", "inserted"}
  BY HoldsAre DEF RouterInv
<1>3. MapInv'
  BY <1>1, <1>2, MapStep DEF RouterInv, Next
<1>4. PICK o : holds' = [holds EXCEPT ![t] = o]
  BY <1>1 DEF Get, Add, Hold
<1>5. \A h \in Holders : h # t => holds'[h] = holds[h]
  BY <1>2, <1>4
<1> QED BY <1>1, <1>2, <1>3, <1>5, PlaceMoves

\* Put() takes a call out of the pool.
LEMMA PutKeepsInv ==
  ASSUME RouterInv, NEW s \in Seqs, Put(s)
  PROVE  RouterInv'
<1>1. /\ s \in tracks /\ deleting = {} /\ tracks' = tracks \ {s} /\ putting' = putting \cup {s}
      /\ UNCHANGED vars /\ deleting' = deleting /\ pc' = pc /\ ends' = ends
  BY DEF Put, PoolFree
<1>2. MapInv' /\ holds' = holds
  BY <1>1, MapStep DEF RouterInv, vars
<1>3. RouterTyped'
  BY <1>1 DEF RouterInv, RouterTyped
<1>4. tracks' \cup putting' = tracks \cup putting
  BY <1>1
<1>5. tracks' \cap putting' = {}
  BY <1>1 DEF RouterInv, Routed
<1>6. Routed'
  BY <1>1, <1>2, <1>4, <1>5 DEF RouterInv, Routed
<1>7. Called'
  BY <1>1, <1>2, <1>4 DEF RouterInv, Called, Starting
<1> QED BY <1>2, <1>3, <1>6, <1>7 DEF RouterInv

\* The end of a call: it is given back, or deleted, and nobody knows it any more.
LEMMA CallEnds ==
  ASSUME RouterInv, RouterAssumed, NEW s \in Seqs, PutRelease(s) \/ DeleteTrack(s)
  PROVE  RouterInv'
<1>1. /\ s \in tracks \cup putting /\ Release(s) /\ ends' = [ends EXCEPT ![s] = @ + 1] /\ pc' = pc
  BY DEF PutRelease, DeleteTrack, OnTimeout, RouterInv, RouterTyped
<1>2. /\ tracks' \subseteq tracks /\ putting' \subseteq putting /\ deleting' \subseteq tracks'
      /\ tracks' \cup putting' = (tracks \cup putting) \ {s}
  BY DEF PutRelease, DeleteTrack, RouterInv, RouterTyped, Routed
<1>3. s \in Holders /\ holds \in [Holders -> Objects \cup {None}]
  BY HoldsAre DEF RouterInv
<1>4. MapInv'
  BY <1>1, <1>3, MapStep DEF RouterInv, Next
<1>5. holds' = [holds EXCEPT ![s] = None]
  BY <1>1 DEF Release, ReleaseMapped, ReleaseDropped
<1>6. \A h \in Holders : holds'[h] = IF h = s THEN None ELSE holds[h]
  BY <1>3, <1>5
<1>7. ends[s] = 0
  BY <1>1 DEF RouterInv, Routed
<1>8. ends' \in [Seqs -> Nat] /\ ends'[s] = 1 /\ \A r \in Seqs : r # s => ends'[r] = ends[r]
  BY <1>1, <1>7 DEF RouterInv, RouterTyped
<1>9. RouterTyped'
  BY <1>1, <1>2, <1>8 DEF RouterInv, RouterTyped
<1>10. \A r \in Seqs : holds'[r] = IF r = s THEN None ELSE holds[r]
  BY <1>6, HoldsAre DEF RouterInv
<1>11. Routed'
  <2>1. tracks' \cap putting' = {}
    BY <1>2 DEF RouterInv, Routed
  <2>2. \A r \in tracks' \cup putting' : holds'[r] # None /\ ends'[r] = 0
    BY <1>2, <1>8, <1>10 DEF RouterInv, Routed, RouterTyped
  <2>3. \A r \in Seqs : r \notin tracks' \cup putting' => holds'[r] = None
    BY <1>2, <1>10 DEF RouterInv, Routed
  <2>4. \A r \in Seqs : ends'[r] <= 1
    BY <1>8 DEF RouterInv, Routed
  <2> QED BY <2>1, <2>2, <2>3, <2>4 DEF Routed
<1>12. Called'
  <2>1. \A u \in Threads : Starting(u)' <=> Starting(u)
    BY <1>1 DEF Starting
  <2>2. \A u \in Threads : holds'[u] = holds[u]
    BY <1>6, HoldsAre DEF RouterInv
  <2>3. ASSUME NEW u \in Threads, pc[u][1] = "got"
        PROVE  holds'[u] # None /\ ends'[pc[u][2]] = 0 /\ pc[u][2] \notin tracks' \cup putting'
    <3>1. Starting(u)
      BY <2>3 DEF Starting
    <3>2. holds[u] # None /\ ends[pc[u][2]] = 0 /\ pc[u][2] \notin tracks \cup putting /\ pc[u][2] \in Seqs
      BY <2>3, <3>1 DEF RouterInv, Called
    <3>3. pc[u][2] # s
      BY <1>1, <3>2
    <3> QED BY <1>2, <1>8, <2>2, <3>2, <3>3
  <2> QED BY <1>1, <2>1, <2>3 DEF RouterInv, Called
<1> QED BY <1>4, <1>9, <1>11, <1>12 DEF RouterInv

\* Hosts come and go, calls time out, Shutdown() clears the pool and waits: nobody holds
\* anything else.
LEMMA RouterHostsKeep ==
  ASSUME RouterInv,
         \/ \E expired \in SUBSET tracks : Cleanup(expired)
         \/ \E k \in Keys : Del(k)
         \/ \E hosts \in SUBSET Keys, new \in [Keys -> Objects \cup {None}] : RouterSetAll(hosts, new)
         \/ RouterShutdown \/ RouterShutdownStep
  PROVE  RouterInv'
<1>0. deleting \subseteq tracks /\ MapInv
  BY DEF RouterInv, RouterTyped
<1>1. CASE (\E expired \in SUBSET tracks : Cleanup(expired)) \/ RouterShutdown
  <2>1. /\ UNCHANGED vars /\ tracks' = tracks /\ putting' = putting /\ pc' = pc /\ ends' = ends
        /\ deleting' \subseteq tracks
    BY <1>1 DEF Cleanup, RouterShutdown
  <2>2. MapInv' /\ holds' = holds
    BY <1>0, <2>1, MapStep DEF vars
  <2> QED BY <2>1, <2>2, MapMoves
<1>2. ASSUME NEW k \in Keys, Del(k) PROVE RouterInv'
  <2>1. Erase(k) /\ tracks' = tracks /\ putting' = putting /\ pc' = pc /\ ends' = ends /\ deleting' = deleting
    BY <1>2 DEF Del
  <2>2. MapInv'
    BY <1>0, <2>1, MapStep DEF Next
  <2>3. holds' = holds
    BY <2>1 DEF Erase
  <2> QED BY <1>0, <2>1, <2>2, <2>3, MapMoves
<1>3. ASSUME NEW hosts \in SUBSET Keys, NEW new \in [Keys -> Objects \cup {None}], RouterSetAll(hosts, new)
      PROVE  RouterInv'
  <2>1. /\ SetAll(hosts, new) /\ tracks' = tracks /\ putting' = putting /\ pc' = pc /\ ends' = ends
        /\ deleting' = deleting
    BY <1>3 DEF RouterSetAll
  <2>2. MapInv'
    BY <1>0, <2>1, MapStep DEF Next
  <2>3. holds' = holds
    BY <2>1 DEF SetAll
  <2> QED BY <1>0, <2>1, <2>2, <2>3, MapMoves
<1>4. CASE RouterShutdownStep
  <2>1. /\ EraseAll(TRUE) \/ EraserTest
        /\ tracks' = tracks /\ putting' = putting /\ pc' = pc /\ ends' = ends /\ deleting' = deleting
    BY <1>4 DEF RouterShutdownStep, ShutdownErase, ShutdownTest
  <2>2. MapInv'
    <3>1. Next
      BY <2>1 DEF Next
    <3> QED BY <1>0, <3>1, MapStep
  <2>3. holds' = holds
    BY <2>1 DEF EraseAll, EraserTest
  <2> QED BY <1>0, <2>1, <2>2, <2>3, MapMoves
<1> QED BY <1>1, <1>2, <1>3, <1>4

LEMMA RouterStep ==
  ASSUME RouterInv, RouterAssumed, [RouterNext]_routerVars
  PROVE  RouterInv'
<1>1. CASE UNCHANGED routerVars
  <2>1. /\ UNCHANGED vars /\ tracks' = tracks /\ putting' = putting /\ pc' = pc /\ ends' = ends
        /\ deleting' = deleting
    BY <1>1 DEF routerVars
  <2>2. MapInv' /\ holds' = holds /\ deleting \subseteq tracks
    BY <2>1, MapStep DEF vars, RouterInv, RouterTyped
  <2> QED BY <2>1, <2>2, MapMoves
<1>2. ASSUME NEW t \in Threads, ThreadStep(t) \/ (\E s \in Seqs : RouterGet(t, s)) \/ \E k \in Keys : RouterAdd(t, k)
      PROVE  RouterInv'
  BY <1>2, GetInsertKeeps, RouterLeaveKeeps, RouterGetKeeps, RouterAddKeeps DEF ThreadStep
<1>3. ASSUME NEW s \in Seqs, Put(s) \/ PutRelease(s) \/ DeleteTrack(s) PROVE RouterInv'
  BY <1>3, PutKeepsInv, CallEnds
<1> QED BY <1>1, <1>2, <1>3, RouterHostsKeep DEF RouterNext

\* However many threads call, answer, time calls out, add and delete hosts and shut down: the
\* connection of a call that is not over has not been destroyed, so that the call's end can
\* be counted at it, and a call's task is given back or deleted at most once, since Put() and
\* the timeout take it from the same place.
THEOREM RouterIsSound ==
  ASSUME Holders = Threads \cup Seqs, Threads \cap Seqs = {}
  PROVE  RouterSpec => []RouterSound
<1>1. RouterAssumed
  BY DEF RouterAssumed
<1>2. RouterInit => RouterInv
  <2> SUFFICES ASSUME RouterInit PROVE RouterInv
    OBVIOUS
  <2>1. MapInv /\ holds = [h \in Holders |-> None]
    BY MapInit DEF RouterInit, Init
  <2>2. \A s \in Seqs : holds[s] = None
    BY <1>1, <2>1 DEF RouterAssumed
  <2>3. RouterTyped /\ Routed
    BY <2>2 DEF RouterInit, NoCalls, RouterTyped, Routed
  <2>4. \A t \in Threads : pc[t][1] = "no"
    BY DEF RouterInit, NoCalls
  <2>5. Called
    BY <2>4 DEF Called, Starting
  <2> QED BY <2>1, <2>3, <2>5 DEF RouterInv
<1>3. RouterInv /\ [RouterNext]_routerVars => RouterInv'
  BY <1>1, RouterStep
<1>4. RouterInv => RouterSound
  <2> SUFFICES ASSUME RouterInv PROVE RouterSound
    OBVIOUS
  <2>1. ASSUME NEW s \in tracks \cup putting PROVE holds[s] \in Objects /\ holds[s] \notin destroyed
    <3>1. s \in Holders /\ holds[s] # None
      BY <1>1 DEF RouterInv, RouterTyped, Routed, RouterAssumed
    <3>2. holds[s] \in Objects /\ holds[s] \in InMap \cup drop
      BY <3>1 DEF RouterInv, MapInv, TypeOK, HeldKnown
    <3> QED BY <3>2 DEF RouterInv, MapInv, NothingLeaks
  <2> QED BY <2>1 DEF RouterInv, Routed, RouterSound, RoutedAlive, TaskEndsOnce
<1> QED BY <1>2, <1>3, <1>4, PTL DEF RouterSpec
=============================================================================
