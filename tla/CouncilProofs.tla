--------------------------- MODULE CouncilProofs ---------------------------
(***************************************************************************)
(* Proofs about the council, the naming, the client they call and the      *)
(* tracker.  For any members, sizes and numbers of children, whoever takes *)
(* itself for a councilman is one, and there are no more councilmen than   *)
(* seats; a name that is listed is remembered by its member; the C client  *)
(* never holds the address of a Pending that was deleted; and who tracks a *)
(* node knows its last state once everything on its way has arrived.       *)
(***************************************************************************)
EXTENDS Council, Naming, ZooKeeperClient, ZooKeeperTracker, SequenceTheorems, FiniteSetTheorems, TLAPS

(***************************************************************************)
(* The inductive invariant.  SeatsRightful does not say what a member      *)
(* knows while it attends, or while its session is expired: ChildrenKept   *)
(* and NumbersGrow are what make it certain that the child of a live       *)
(* session is still there, and that no child made later comes before it.   *)
(***************************************************************************)
NumbersGrow == \A n \in DOMAIN nodes : n < next

\* The child a member remembers is its own while its session lives, and there is none when
\* Council is shut down; a seat is held for that child; the size was told after the others.
MemberInv(m) ==
  /\ actual[m] # None /\ session[m] = "up" => actual[m] \in DOMAIN nodes /\ nodes[actual[m]] = m
  /\ ~up[m] => actual[m] = None /\ attending[m] = "no"
  /\ attending[m] = "list" => actual[m] # None
  /\ id[m] >= 0 => id[m] = actual[m]
  /\ id[m] >= 0 /\ session[m] = "up" /\ attending[m] = "no" /\ size[m] # None => Rank(m) <= size[m]

CouncilInv == CouncilOK /\ NumbersGrow /\ \A m \in Members : MemberInv(m)

-----------------------------------------------------------------------------
(***************************************************************************)
(* What a call of m does to the children: those of the others stay, and a  *)
(* child that is new has a number above all there are.                     *)
(***************************************************************************)
ServerMoves(m) ==
  /\ NodesOK' /\ NumbersGrow'
  /\ \A k \in Members : k # m => session'[k] = session[k]
  /\ \A n \in DOMAIN nodes : nodes[n] # m => n \in DOMAIN nodes' /\ nodes'[n] = nodes[n]
  /\ \A n \in DOMAIN nodes' : n \in DOMAIN nodes \/ n >= next

\* The children before one that stays can only become fewer.
LEMMA RankFalls ==
  ASSUME NodesOK, NodesOK', NumbersGrow, NEW m \in Members, NEW a \in DOMAIN nodes,
         actual[m] = a, actual'[m] = a,
         \A n \in DOMAIN nodes' : n \in DOMAIN nodes \/ n >= next
  PROVE  Rank(m) \in Nat /\ Rank(m)' \in Nat /\ Rank(m)' <= Rank(m)
<1> DEFINE old == {n \in DOMAIN nodes : n <= a}
           new == {n \in DOMAIN nodes' : n <= a}
<1>1. IsFiniteSet(1..MaxNumber)
  BY NodesAssumption, FS_Interval
<1>2. DOMAIN nodes \subseteq 1..MaxNumber /\ a \in Nat /\ next \in Nat /\ a < next
  BY NodesAssumption DEF NodesOK, NumbersGrow
<1>3. old \subseteq 1..MaxNumber
  BY <1>2
<1>4. IsFiniteSet(old) /\ Cardinality(old) \in Nat
  BY <1>1, <1>3, FS_Subset, FS_CardinalityType
<1>5. new \subseteq old
  <2> SUFFICES ASSUME NEW n \in new PROVE n \in old
    OBVIOUS
  <2>1. n \in DOMAIN nodes' /\ n <= a
    OBVIOUS
  <2>2. n \in DOMAIN nodes \/ n >= next
    BY <2>1
  <2>3. CASE n \in DOMAIN nodes
    BY <2>1, <2>3
  <2>4. CASE n >= next
    BY <1>2, <2>1, <2>4, NodesAssumption DEF NodesOK
  <2> QED BY <2>2, <2>3, <2>4
<1>6. Cardinality(new) \in Nat /\ Cardinality(new) <= Cardinality(old)
  BY <1>4, <1>5, FS_Subset, FS_CardinalityType
<1>7. Rank(m) = Cardinality(old) /\ Rank(m)' = Cardinality(new)
  BY DEF Rank, Candidates
<1> QED BY <1>4, <1>6, <1>7

LEMMA NothingMoves ==
  ASSUME CouncilInv, NEW m \in Members, NodesOK', UNCHANGED <<session, nodes, next>>
  PROVE  ServerMoves(m)
BY DEF CouncilInv, ServerMoves, NumbersGrow

LEMMA FailureCounted ==
  ASSUME NodesOK, NEW m \in Members, Fails(m)
  PROVE  troubles' \in 0..MaxTroubles
BY NodesAssumption DEF NodesOK, Fails, Trouble

LEMMA CallFails ==
  ASSUME CouncilInv, NEW m \in Members, Fails(m)
  PROVE  troubles' \in 0..MaxTroubles
BY FailureCounted DEF CouncilInv, CouncilOK

\* A new child of m, or none.
LEMMA CreateMoves ==
  ASSUME CouncilInv, NEW m \in Members, next <= MaxNumber,
         nodes' = [n \in DOMAIN nodes \cup {next} |-> IF n = next THEN m ELSE nodes[n]],
         next' = next + 1, troubles' \in 0..MaxTroubles, session' = session
  PROVE  ServerMoves(m) /\ next \in DOMAIN nodes' /\ nodes'[next] = m /\ next \in 1..MaxNumber
<1>1. NodesOK /\ NumbersGrow
  BY DEF CouncilInv, CouncilOK
<1>2. DOMAIN nodes \subseteq 1..MaxNumber /\ next \in 1..MaxNumber /\ next \notin DOMAIN nodes
  BY <1>1, NodesAssumption DEF NodesOK, NumbersGrow
<1>3. \A n \in DOMAIN nodes : nodes[n] \in Members
  BY <1>1 DEF NodesOK, Range
<1>4. DOMAIN nodes' = DOMAIN nodes \cup {next} /\ nodes'[next] = m
      /\ \A n \in DOMAIN nodes : nodes'[n] = nodes[n]
  BY <1>2
<1>5. Range(nodes') \subseteq Members
  BY <1>3, <1>4 DEF Range
<1>6. NodesOK'
  <2>1. next' \in 1..(MaxNumber + 1) /\ DOMAIN nodes' \subseteq 1..MaxNumber
    BY <1>2, <1>4, NodesAssumption
  <2> QED BY <1>1, <1>5, <2>1 DEF NodesOK
<1>7. NumbersGrow'
  BY <1>1, <1>2, <1>4 DEF NumbersGrow
<1>8. \A n \in DOMAIN nodes' : n \in DOMAIN nodes \/ n >= next
  BY <1>2, <1>4
<1> QED BY <1>2, <1>4, <1>6, <1>7, <1>8 DEF ServerMoves

\* The children in a set of those of m are removed, or none.
LEMMA RemoveMoves ==
  ASSUME CouncilInv, NEW m \in Members, NEW S \in SUBSET (DOMAIN nodes),
         nodes' = Restrict(nodes, S), \A n \in DOMAIN nodes : n \in S \/ nodes[n] = m,
         next' = next, troubles' \in 0..MaxTroubles, session' \in [Members -> {"up", "expired"}],
         \A k \in Members : k # m => session'[k] = session[k]
  PROVE  ServerMoves(m)
<1>1. NodesOK /\ NumbersGrow
  BY DEF CouncilInv, CouncilOK
<1>2. DOMAIN nodes' = S /\ \A n \in S : nodes'[n] = nodes[n]
  BY DEF Restrict
<1>3. Range(nodes') \subseteq Members
  BY <1>1, <1>2 DEF NodesOK, Range
<1>4. NodesOK' /\ NumbersGrow'
  BY <1>1, <1>2, <1>3 DEF NodesOK, NumbersGrow
<1> QED BY <1>2, <1>4 DEF ServerMoves

LEMMA EraseMoves ==
  ASSUME CouncilInv, NEW m \in Members, actual[m] # None, NEW ok \in BOOLEAN, Erase(m, actual[m], ok)
  PROVE  ServerMoves(m) /\ session' = session
<1>1. /\ session' = session /\ next' = next
      /\ UNCHANGED nodes \/ (session[m] = "up" /\ nodes' = Without(actual[m]))
      /\ UNCHANGED troubles \/ Fails(m)
  BY DEF Erase
<1>2. NodesOK /\ MemberInv(m)
  BY DEF CouncilInv, CouncilOK
<1>3. troubles' \in 0..MaxTroubles /\ session' \in [Members -> {"up", "expired"}]
  BY <1>1, <1>2, CallFails DEF NodesOK
<1>4. CASE UNCHANGED nodes
  <2>1. NodesOK'
    BY <1>1, <1>2, <1>3, <1>4 DEF NodesOK
  <2> QED BY <1>1, <1>4, <2>1, NothingMoves
<1>5. CASE session[m] = "up" /\ nodes' = Without(actual[m])
  <2>1. nodes[actual[m]] = m
    BY <1>2, <1>5 DEF MemberInv
  <2>2. PICK S \in SUBSET (DOMAIN nodes) : S = DOMAIN nodes \ {actual[m]}
    OBVIOUS
  <2>3. nodes' = Restrict(nodes, S) /\ \A n \in DOMAIN nodes : n \in S \/ nodes[n] = m
    BY <1>5, <2>1, <2>2 DEF Without
  <2>4. \A k \in Members : session'[k] = session[k]
    BY <1>1
  <2> QED BY <1>1, <1>3, <2>3, <2>4, RemoveMoves
<1> QED BY <1>1, <1>4, <1>5

-----------------------------------------------------------------------------
\* Member k is left as it is.
Untouched(k) ==
  /\ actual'[k] = actual[k] /\ id'[k] = id[k] /\ size'[k] = size[k]
  /\ up'[k] = up[k] /\ attending'[k] = attending[k]

\* A member keeps its child, its session and the numbers before its own.
LEMMA MemberKept ==
  ASSUME CouncilInv, NodesOK', NEW k \in Members, Untouched(k), session'[k] = session[k],
         \A n \in DOMAIN nodes : nodes[n] = k => n \in DOMAIN nodes' /\ nodes'[n] = k,
         \A n \in DOMAIN nodes' : n \in DOMAIN nodes \/ n >= next
  PROVE  MemberInv(k)'
<1>1. MemberInv(k) /\ NodesOK /\ NumbersGrow
  BY DEF CouncilInv, CouncilOK
<1>2. actual[k] # None /\ session[k] = "up" => actual[k] \in DOMAIN nodes' /\ nodes'[actual[k]] = k
  BY <1>1 DEF MemberInv
<1>3. ASSUME id[k] >= 0, session[k] = "up", attending[k] = "no", size[k] # None
      PROVE  Rank(k)' <= size[k]
  <2>1. id[k] = actual[k] /\ actual[k] # None
    BY <1>1, <1>3 DEF MemberInv, None
  <2>2. actual[k] \in DOMAIN nodes /\ Rank(k) <= size[k]
    BY <1>1, <1>3, <2>1 DEF MemberInv
  <2>3. Rank(k) \in Nat /\ Rank(k)' \in Nat /\ Rank(k)' <= Rank(k)
    BY <1>1, <2>2, RankFalls DEF Untouched
  <2>4. size[k] \in Nat
    BY <1>3, CouncilAssumption DEF CouncilInv, CouncilOK
  <2> QED BY <2>2, <2>3, <2>4
<1> QED BY <1>1, <1>2, <1>3 DEF MemberInv, Untouched

LEMMA OthersKept ==
  ASSUME CouncilInv, NEW m \in Members, ServerMoves(m), NEW k \in Members, k # m, Untouched(k)
  PROVE  MemberInv(k)'
<1>1. \A n \in DOMAIN nodes : nodes[n] = k => n \in DOMAIN nodes' /\ nodes'[n] = k
  BY DEF ServerMoves
<1>2. NodesOK' /\ session'[k] = session[k] /\ \A n \in DOMAIN nodes' : n \in DOMAIN nodes \/ n >= next
  BY DEF ServerMoves
<1> QED BY <1>1, <1>2, MemberKept

\* A member without a seat needs its child only.
LEMMA NoSeat ==
  ASSUME NEW m \in Members, ~(id'[m] >= 0),
         actual'[m] # None /\ session'[m] = "up" => actual'[m] \in DOMAIN nodes' /\ nodes'[actual'[m]] = m,
         ~up'[m] => actual'[m] = None /\ attending'[m] = "no",
         attending'[m] = "list" => actual'[m] # None
  PROVE  MemberInv(m)'
BY DEF MemberInv

\* What ResetState() leaves behind.
LEMMA ResetLeaves ==
  ASSUME CouncilInv, NEW m \in Members, NEW s \in Sizes \cup {None}, NEW recoverable \in BOOLEAN,
         ResetState(m, s, recoverable)
  PROVE  /\ id' \in [Members -> 1..MaxNumber \cup {None, Fired}]
         /\ size' \in [Members -> Sizes \cup {None}]
         /\ ~(id'[m] >= 0)
         /\ \A k \in Members : k # m => id'[k] = id[k] /\ size'[k] = size[k]
<1>1. PICK i \in {None, Fired} : id' = [id EXCEPT ![m] = i]
  BY DEF ResetState
<1>2. PICK z \in Sizes \cup {None} : size' = [size EXCEPT ![m] = z]
  BY DEF ResetState
<1>3. ~(i >= 0)
  BY DEF None, Fired
<1> QED BY <1>1, <1>2, <1>3 DEF CouncilInv, CouncilOK

\* And OnFired(), and OnQuit(): no child is remembered.
LEMMA FiredLeaves ==
  ASSUME CouncilInv, NEW m \in Members, NEW s \in Sizes \cup {None}, NEW recoverable \in BOOLEAN,
         OnFired(m, s, recoverable)
  PROVE  /\ ServerMoves(m) /\ session' = session
         /\ id' \in [Members -> 1..MaxNumber \cup {None, Fired}]
         /\ size' \in [Members -> Sizes \cup {None}]
         /\ actual' \in [Members -> 1..MaxNumber \cup {None}]
         /\ ~(id'[m] >= 0) /\ actual'[m] = None
         /\ \A k \in Members : k # m => id'[k] = id[k] /\ size'[k] = size[k] /\ actual'[k] = actual[k]
<1>1. actual' = [actual EXCEPT ![m] = None]
  BY DEF OnFired
<1>2. PICK rec \in BOOLEAN : ResetState(m, s, rec)
  BY DEF OnFired
<1>3. ServerMoves(m) /\ session' = session
  <2>1. CASE actual[m] = None
    <3>1. UNCHANGED zk
      BY <2>1 DEF OnFired
    <3>2. NodesOK' /\ UNCHANGED <<session, nodes, next>>
      BY <3>1 DEF zk, NodesOK, CouncilInv, CouncilOK
    <3> QED BY <3>2, NothingMoves
  <2>2. CASE actual[m] # None
    <3>1. PICK ok \in BOOLEAN : Erase(m, actual[m], ok)
      BY <2>2 DEF OnFired
    <3> QED BY <2>2, <3>1, EraseMoves
  <2> QED BY <2>1, <2>2
<1>4. /\ actual' \in [Members -> 1..MaxNumber \cup {None}] /\ actual'[m] = None
      /\ \A k \in Members : k # m => actual'[k] = actual[k]
  BY <1>1 DEF CouncilInv, CouncilOK
<1> QED BY <1>2, <1>3, <1>4, ResetLeaves

\* A step of m: the others are untouched, and m is all right itself.
Typed ==
  /\ up \in [Members -> BOOLEAN] /\ stale \in [Members -> BOOLEAN]
  /\ size \in [Members -> Sizes \cup {None}]
  /\ actual \in [Members -> 1..MaxNumber \cup {None}]
  /\ id \in [Members -> 1..MaxNumber \cup {None, Fired}]
  /\ tracked \in [Members -> SUBSET (1..MaxNumber)]
  /\ attending \in [Members -> {"no", "create", "list"}]

LEMMA InvHas ==
  ASSUME CouncilInv
  PROVE  Typed /\ NodesOK /\ NumbersGrow /\ election \in Sizes \cup {None} /\ \A m \in Members : MemberInv(m)
BY DEF CouncilInv, CouncilOK, Typed

LEMMA StepOf ==
  ASSUME CouncilInv, NEW m \in Members, ServerMoves(m), election' = election, Typed',
         \A k \in Members : k # m => Untouched(k), MemberInv(m)'
  PROVE  CouncilInv'
<1>1. \A k \in Members : MemberInv(k)'
  <2>1. ASSUME NEW k \in Members PROVE MemberInv(k)'
    BY OthersKept
  <2> QED BY <2>1
<1>2. NodesOK' /\ NumbersGrow' /\ (election \in Sizes \cup {None})'
  BY InvHas DEF ServerMoves
<1> QED BY <1>1, <1>2 DEF CouncilInv, CouncilOK, Typed

\* Steps that ask nothing of ZooKeeper.
LEMMA StillMoves ==
  ASSUME CouncilInv, NEW m \in Members, UNCHANGED zk
  PROVE  ServerMoves(m)
<1>1. NodesOK' /\ UNCHANGED <<session, nodes, next>>
  BY InvHas DEF zk, NodesOK
<1> QED BY <1>1, NothingMoves

LEMMA InitializeKeeps ==
  ASSUME CouncilInv, NEW m \in Members, Initialize(m)
  PROVE  CouncilInv'
<1>1. /\ ~up[m] /\ up' = [up EXCEPT ![m] = TRUE] /\ stale' = [stale EXCEPT ![m] = TRUE]
      /\ size' = [size EXCEPT ![m] = None] /\ actual' = [actual EXCEPT ![m] = None]
      /\ id' = [id EXCEPT ![m] = None] /\ tracked' = [tracked EXCEPT ![m] = {}]
      /\ UNCHANGED zk /\ election' = election /\ attending' = attending
  BY DEF Initialize
<1>2. Typed /\ MemberInv(m)
  BY InvHas
<1>3. Typed' /\ \A k \in Members : k # m => Untouched(k)
  BY <1>1, <1>2 DEF Typed, Untouched
<1>4. id'[m] = None /\ actual'[m] = None /\ attending'[m] = "no"
  BY <1>1, <1>2 DEF Typed, MemberInv
<1>5. MemberInv(m)'
  BY <1>4, NoSeat DEF None
<1> QED BY <1>1, <1>3, <1>5, StepOf, StillMoves

LEMMA ShutdownKeeps ==
  ASSUME CouncilInv, NEW m \in Members, Shutdown(m)
  PROVE  CouncilInv'
<1>1. /\ up[m] /\ attending[m] = "no" /\ up' = [up EXCEPT ![m] = FALSE] /\ stale' = [stale EXCEPT ![m] = FALSE]
      /\ tracked' = [tracked EXCEPT ![m] = {}] /\ OnFired(m, size[m], TRUE)
      /\ election' = election /\ attending' = attending
  BY DEF Shutdown
<1>2. Typed /\ size[m] \in Sizes \cup {None}
  BY InvHas DEF Typed
<1>3. /\ ServerMoves(m)
      /\ id' \in [Members -> 1..MaxNumber \cup {None, Fired}]
      /\ size' \in [Members -> Sizes \cup {None}]
      /\ actual' \in [Members -> 1..MaxNumber \cup {None}]
      /\ ~(id'[m] >= 0) /\ actual'[m] = None
      /\ \A k \in Members : k # m => id'[k] = id[k] /\ size'[k] = size[k] /\ actual'[k] = actual[k]
  BY <1>1, <1>2, FiredLeaves
<1>4. Typed' /\ \A k \in Members : k # m => Untouched(k)
  BY <1>1, <1>2, <1>3 DEF Typed, Untouched
<1>5. MemberInv(m)'
  BY <1>1, <1>3, NoSeat
<1> QED BY <1>1, <1>3, <1>4, <1>5, StepOf

LEMMA ErrorKeeps ==
  ASSUME CouncilInv, NEW m \in Members, OnError(m)
  PROVE  CouncilInv'
<1>1. /\ up[m] /\ attending[m] = "no" /\ OnFired(m, size[m], FALSE)
      /\ up' = up /\ stale' = stale /\ tracked' = tracked
      /\ election' = election /\ attending' = attending
  BY DEF OnError, Idle
<1>2. Typed /\ size[m] \in Sizes \cup {None}
  BY InvHas DEF Typed
<1>3. /\ ServerMoves(m)
      /\ id' \in [Members -> 1..MaxNumber \cup {None, Fired}]
      /\ size' \in [Members -> Sizes \cup {None}]
      /\ actual' \in [Members -> 1..MaxNumber \cup {None}]
      /\ ~(id'[m] >= 0) /\ actual'[m] = None
      /\ \A k \in Members : k # m => id'[k] = id[k] /\ size'[k] = size[k] /\ actual'[k] = actual[k]
  BY <1>1, <1>2, FiredLeaves
<1>4. Typed' /\ \A k \in Members : k # m => Untouched(k)
  BY <1>1, <1>2, <1>3 DEF Typed, Untouched
<1>5. MemberInv(m)'
  BY <1>1, <1>3, NoSeat
<1> QED BY <1>1, <1>3, <1>4, <1>5, StepOf

\* OnData() of the election node: m is out of office, or attends before it decides anew.
LEMMA DataElectionKeeps ==
  ASSUME CouncilInv, NEW m \in Members, OnDataElection(m)
  PROVE  CouncilInv'
<1>1. /\ up[m] /\ attending[m] = "no" /\ session[m] = "up" /\ stale' = [stale EXCEPT ![m] = FALSE]
      /\ election' = election /\ up' = up /\ tracked' = tracked
  BY DEF OnDataElection, Idle
<1>2. Typed /\ size[m] \in Sizes \cup {None} /\ None \in Sizes \cup {None} /\ MemberInv(m)
  BY InvHas DEF Typed
<1>3. CASE OnFired(m, size[m], TRUE) /\ UNCHANGED attending
  <2>1. /\ ServerMoves(m)
        /\ id' \in [Members -> 1..MaxNumber \cup {None, Fired}]
        /\ size' \in [Members -> Sizes \cup {None}]
        /\ actual' \in [Members -> 1..MaxNumber \cup {None}]
        /\ ~(id'[m] >= 0) /\ actual'[m] = None
        /\ \A k \in Members : k # m => id'[k] = id[k] /\ size'[k] = size[k] /\ actual'[k] = actual[k]
    BY <1>2, <1>3, FiredLeaves
  <2>2. Typed' /\ \A k \in Members : k # m => Untouched(k)
    BY <1>1, <1>2, <1>3, <2>1 DEF Typed, Untouched
  <2>3. MemberInv(m)'
    BY <1>1, <1>3, <2>1, NoSeat
  <2> QED BY <1>1, <2>1, <2>2, <2>3, StepOf
<1>4. CASE OnShrinked(m, None, TRUE) /\ UNCHANGED <<zk, attending>>
  <2>1. actual' = actual /\ ResetState(m, None, TRUE)
    BY <1>4 DEF OnShrinked
  <2>2. /\ id' \in [Members -> 1..MaxNumber \cup {None, Fired}]
        /\ size' \in [Members -> Sizes \cup {None}]
        /\ ~(id'[m] >= 0)
        /\ \A k \in Members : k # m => id'[k] = id[k] /\ size'[k] = size[k]
    BY <1>2, <2>1, ResetLeaves
  <2>3. Typed' /\ \A k \in Members : k # m => Untouched(k)
    BY <1>1, <1>2, <1>4, <2>1, <2>2 DEF Typed, Untouched
  <2>4. actual'[m] # None => actual'[m] \in DOMAIN nodes' /\ nodes'[actual'[m]] = m
    BY <1>1, <1>2, <1>4, <2>1 DEF MemberInv, zk
  <2>5. MemberInv(m)'
    BY <1>1, <1>4, <2>2, <2>4, NoSeat
  <2> QED BY <1>1, <1>4, <2>3, <2>5, StepOf, StillMoves
<1>5. CASE /\ election > 0 /\ size' = [size EXCEPT ![m] = election]
           /\ attending' = [attending EXCEPT ![m] = "create"] /\ UNCHANGED <<zk, actual, id>>
  <2>1. Typed' /\ (\A k \in Members : k # m => Untouched(k)) /\ attending'[m] = "create"
    BY <1>1, <1>2, <1>5, InvHas DEF Typed, Untouched
  <2>2. MemberInv(m)'
    BY <1>1, <1>2, <1>5, <2>1 DEF MemberInv, zk
  <2> QED BY <1>1, <1>5, <2>1, <2>2, StepOf, StillMoves
<1> QED BY <1>3, <1>4, <1>5 DEF OnDataElection

LEMMA DataTrackedKeeps ==
  ASSUME CouncilInv, NEW m \in Members, OnDataTracked(m)
  PROVE  CouncilInv'
<1>1. /\ up[m] /\ attending[m] = "no"
      /\ \E n \in tracked[m] \ DOMAIN nodes : tracked' = [tracked EXCEPT ![m] = @ \ {n}]
      /\ attending' = IF id[m] >= 0 THEN attending ELSE [attending EXCEPT ![m] = "create"]
      /\ UNCHANGED zk /\ election' = election /\ up' = up /\ stale' = stale /\ size' = size
      /\ actual' = actual /\ id' = id
  BY DEF OnDataTracked, Idle
<1>2. Typed /\ MemberInv(m) /\ NodesOK
  BY InvHas
<1>3. tracked' \in [Members -> SUBSET (1..MaxNumber)]
  BY <1>1, <1>2 DEF Typed
<1>4. /\ attending' \in [Members -> {"no", "create", "list"}] /\ \A k \in Members : k # m => attending'[k] = attending[k]
      /\ IF id[m] >= 0 THEN attending'[m] = "no" ELSE attending'[m] = "create"
  BY <1>1, <1>2 DEF Typed
<1>5. Typed' /\ \A k \in Members : k # m => Untouched(k)
  BY <1>1, <1>2, <1>3, <1>4 DEF Typed, Untouched
<1>6. Rank(m)' = Rank(m)
  BY <1>1 DEF Rank, Candidates, zk
<1>7. MemberInv(m)'
  BY <1>1, <1>2, <1>4, <1>6 DEF MemberInv, zk
<1> QED BY <1>1, <1>5, <1>7, StepOf, StillMoves

\* CreateNodeAsNeeded(): the child is there already, is made, or m is fired.
LEMMA CreateKeeps ==
  ASSUME CouncilInv, NEW m \in Members, CreateNodeAsNeeded(m)
  PROVE  CouncilInv'
<1>1. /\ attending[m] = "create" /\ election' = election /\ up' = up /\ stale' = stale /\ tracked' = tracked
  BY DEF CreateNodeAsNeeded
<1>2. Typed /\ MemberInv(m) /\ NodesOK
  BY InvHas
<1>3. up[m]
  BY <1>1, <1>2 DEF MemberInv
<1>4. CASE /\ actual[m] # None /\ attending' = [attending EXCEPT ![m] = "list"]
           /\ UNCHANGED <<zk, actual, id, size>>
  <2>1. Typed' /\ (\A k \in Members : k # m => Untouched(k)) /\ attending'[m] = "list"
    BY <1>1, <1>2, <1>4 DEF Typed, Untouched
  <2>2. MemberInv(m)'
    BY <1>1, <1>2, <1>3, <1>4, <2>1 DEF MemberInv, zk
  <2> QED BY <1>1, <1>4, <2>1, <2>2, StepOf, StillMoves
<1>5. CASE /\ actual[m] = None /\ Create(m) /\ actual' = [actual EXCEPT ![m] = next]
           /\ attending' = [attending EXCEPT ![m] = "list"] /\ UNCHANGED <<id, size>>
  <2>1. ServerMoves(m) /\ next \in DOMAIN nodes' /\ nodes'[next] = m /\ next \in 1..MaxNumber
    BY <1>2, <1>5, CreateMoves DEF Create, NodesOK
  <2>2. Typed' /\ (\A k \in Members : k # m => Untouched(k)) /\ attending'[m] = "list" /\ actual'[m] = next
    BY <1>1, <1>2, <1>5, <2>1 DEF Typed, Untouched
  <2>3. ~(id'[m] >= 0)
    BY <1>2, <1>5 DEF MemberInv, None
  <2>4. MemberInv(m)'
    BY <1>1, <1>3, <2>1, <2>2, <2>3, NoSeat DEF None
  <2> QED BY <1>1, <2>1, <2>2, <2>4, StepOf
<1>6. CASE /\ actual[m] = None /\ (UNCHANGED zk \/ CreateFails(m))
           /\ ResetState(m, None, FALSE) /\ UNCHANGED actual
           /\ attending' = [attending EXCEPT ![m] = "no"]
  <2>1. /\ id' \in [Members -> 1..MaxNumber \cup {None, Fired}]
        /\ size' \in [Members -> Sizes \cup {None}]
        /\ ~(id'[m] >= 0)
        /\ \A k \in Members : k # m => id'[k] = id[k] /\ size'[k] = size[k]
    BY <1>6, ResetLeaves
  <2>2. Typed' /\ (\A k \in Members : k # m => Untouched(k)) /\ attending'[m] = "no" /\ actual'[m] = None
    BY <1>1, <1>2, <1>6, <2>1 DEF Typed, Untouched
  <2>3. MemberInv(m)'
    BY <1>1, <2>1, <2>2, NoSeat
  <2>4. CASE UNCHANGED zk
    BY <1>1, <2>2, <2>3, <2>4, StepOf, StillMoves
  <2>5. CASE CreateFails(m)
    <3>1. troubles' \in 0..MaxTroubles /\ session' = session
      BY <2>5, CallFails DEF CreateFails
    <3>2. CASE UNCHANGED <<nodes, next>>
      <4>1. NodesOK' /\ UNCHANGED <<session, nodes, next>>
        BY <1>2, <3>1, <3>2 DEF NodesOK
      <4> QED BY <1>1, <2>2, <2>3, <4>1, NothingMoves, StepOf
    <3>3. CASE /\ next <= MaxNumber /\ next' = next + 1
               /\ nodes' = [n \in DOMAIN nodes \cup {next} |-> IF n = next THEN m ELSE nodes[n]]
      <4>1. ServerMoves(m)
        BY <3>1, <3>3, CreateMoves
      <4> QED BY <1>1, <2>2, <2>3, <4>1, StepOf
    <3> QED BY <2>5, <3>2, <3>3 DEF CreateFails
  <2> QED BY <1>6, <2>4, <2>5
<1> QED BY <1>4, <1>5, <1>6 DEF CreateNodeAsNeeded

\* The rest of Attend(): only a member among the first `size' candidates takes a seat.
LEMMA DecideKeeps ==
  ASSUME CouncilInv, NEW m \in Members, Attend(m), Decide(m)
  PROVE  CouncilInv'
<1>1. /\ attending[m] = "list" /\ attending' = [attending EXCEPT ![m] = "no"]
      /\ election' = election /\ up' = up /\ stale' = stale /\ session[m] = "up"
  BY DEF Attend, Decide
<1>2. Typed /\ MemberInv(m) /\ NodesOK /\ size[m] \in Sizes \cup {None}
  BY InvHas DEF Typed
<1>3. /\ up[m] /\ actual[m] # None /\ actual[m] \in DOMAIN nodes /\ nodes[actual[m]] = m
      /\ actual[m] \in 1..MaxNumber
  BY <1>1, <1>2 DEF MemberInv, Typed
<1>4. /\ attending' \in [Members -> {"no", "create", "list"}] /\ attending'[m] = "no"
      /\ \A k \in Members : k # m => attending'[k] = attending[k]
  BY <1>1, <1>2 DEF Typed
<1>5. CASE /\ Elected(m) /\ id' = [id EXCEPT ![m] = IF @ >= 0 THEN @ ELSE actual[m]]
           /\ UNCHANGED <<zk, size, actual, tracked>>
  <2>1. id'[m] = actual[m] /\ id' \in [Members -> 1..MaxNumber \cup {None, Fired}]
        /\ \A k \in Members : k # m => id'[k] = id[k]
    BY <1>2, <1>3, <1>5 DEF MemberInv, Typed
  <2>2. Typed' /\ \A k \in Members : k # m => Untouched(k)
    BY <1>1, <1>2, <1>4, <1>5, <2>1 DEF Typed, Untouched
  <2>3. Rank(m)' = Rank(m) /\ Rank(m) <= size[m]
    BY <1>5 DEF Rank, Candidates, Elected, zk
  <2>4. MemberInv(m)'
    BY <1>1, <1>3, <1>4, <1>5, <2>1, <2>3 DEF MemberInv, zk
  <2> QED BY <1>1, <1>5, <2>2, <2>4, StepOf, StillMoves
<1>6. ASSUME NEW recoverable \in BOOLEAN, OnShrinked(m, size[m], recoverable),
             UNCHANGED <<session, nodes, next>>, troubles' \in 0..MaxTroubles,
             tracked' \in [Members -> SUBSET (1..MaxNumber)]
      PROVE  CouncilInv'
  <2>1. ResetState(m, size[m], recoverable)
    BY <1>6 DEF OnShrinked
  <2>2. /\ id' \in [Members -> 1..MaxNumber \cup {None, Fired}]
        /\ size' \in [Members -> Sizes \cup {None}]
        /\ ~(id'[m] >= 0)
        /\ \A k \in Members : k # m => id'[k] = id[k] /\ size'[k] = size[k]
    BY <1>2, <2>1, ResetLeaves
  <2>3. /\ actual' \in [Members -> 1..MaxNumber \cup {None}] /\ (actual'[m] = actual[m] \/ actual'[m] = None)
        /\ \A k \in Members : k # m => actual'[k] = actual[k]
    BY <1>2, <1>6 DEF OnShrinked, Typed
  <2>4. Typed' /\ \A k \in Members : k # m => Untouched(k)
    BY <1>1, <1>2, <1>4, <1>6, <2>2, <2>3 DEF Typed, Untouched
  <2>5. MemberInv(m)'
    BY <1>1, <1>3, <1>4, <1>6, <2>2, <2>3, NoSeat
  <2>6. NodesOK'
    BY <1>2, <1>6 DEF NodesOK
  <2> QED BY <1>1, <1>6, <2>4, <2>5, <2>6, StepOf, NothingMoves
<1>7. Predecessors(m) \subseteq 1..MaxNumber
  BY <1>2 DEF Predecessors, Candidates, NodesOK
<1>8. CASE /\ tracked' = [tracked EXCEPT ![m] = @ \cup Predecessors(m)]
           /\ OnShrinked(m, size[m], TRUE) /\ UNCHANGED zk
  <2>1. tracked' \in [Members -> SUBSET (1..MaxNumber)]
    BY <1>2, <1>7, <1>8 DEF Typed
  <2>2. UNCHANGED <<session, nodes, next>> /\ troubles' \in 0..MaxTroubles
    BY <1>2, <1>8 DEF zk, NodesOK
  <2> QED BY <1>6, <1>8, <2>1, <2>2
<1>9. CASE /\ Fails(m) /\ UNCHANGED <<session, nodes, next>>
           /\ \E some \in SUBSET Predecessors(m) : tracked' = [tracked EXCEPT ![m] = @ \cup some]
           /\ OnShrinked(m, size[m], FALSE)
  <2>1. tracked' \in [Members -> SUBSET (1..MaxNumber)]
    BY <1>2, <1>7, <1>9 DEF Typed
  <2>2. troubles' \in 0..MaxTroubles
    BY <1>9, CallFails
  <2> QED BY <1>6, <1>9, <2>1, <2>2
<1> QED BY <1>3, <1>5, <1>8, <1>9 DEF Decide, Candidates

LEMMA NoCandidatesKeeps ==
  ASSUME CouncilInv, NEW m \in Members, Attend(m), NoCandidates(m)
  PROVE  CouncilInv'
<1>1. /\ attending[m] = "list" /\ attending' = [attending EXCEPT ![m] = "no"]
      /\ election' = election /\ up' = up /\ stale' = stale
      /\ UNCHANGED zk \/ (Fails(m) /\ UNCHANGED <<session, nodes, next>>)
      /\ size' = [size EXCEPT ![m] = None] /\ actual' = actual /\ id' = id /\ tracked' = tracked
  BY DEF Attend, NoCandidates
<1>2. Typed /\ MemberInv(m) /\ NodesOK
  BY InvHas
<1>3. Typed' /\ (\A k \in Members : k # m => Untouched(k)) /\ attending'[m] = "no" /\ size'[m] = None
  BY <1>1, <1>2 DEF Typed, Untouched
<1>4. NodesOK' /\ UNCHANGED <<session, nodes, next>>
  BY <1>1, <1>2, CallFails DEF NodesOK, zk
<1>5. up[m]
  BY <1>1, <1>2 DEF MemberInv
<1>6. MemberInv(m)'
  BY <1>1, <1>2, <1>3, <1>4, <1>5 DEF MemberInv
<1> QED BY <1>1, <1>3, <1>4, <1>6, StepOf, NothingMoves

-----------------------------------------------------------------------------
(***************************************************************************)
(* Sessions, and the election node.                                        *)
(***************************************************************************)
LEMMA ResumeMoves ==
  ASSUME CouncilInv, NEW m \in Members, Resume(m)
  PROVE  ServerMoves(m)
<1>1. /\ session' = [session EXCEPT ![m] = "up"] /\ UNCHANGED <<nodes, next, troubles>>
  BY DEF Resume
<1>2. NodesOK' /\ \A k \in Members : k # m => session'[k] = session[k]
  BY <1>1, InvHas DEF NodesOK
<1>3. NumbersGrow'
  BY <1>1, InvHas DEF NumbersGrow
<1> QED BY <1>1, <1>2, <1>3 DEF ServerMoves

LEMMA LostKeeps ==
  ASSUME CouncilInv, NEW m \in Members, OnLost(m)
  PROVE  CouncilInv'
<1>1. /\ up[m] /\ attending[m] = "no" /\ Resume(m)
      /\ id' = [id EXCEPT ![m] = None] /\ actual' = [actual EXCEPT ![m] = None]
      /\ size' = [size EXCEPT ![m] = None] /\ stale' = [stale EXCEPT ![m] = TRUE]
      /\ election' = election /\ up' = up /\ tracked' = tracked /\ attending' = attending
  BY DEF OnLost, Idle
<1>2. Typed
  BY InvHas
<1>3. Typed' /\ (\A k \in Members : k # m => Untouched(k)) /\ id'[m] = None /\ actual'[m] = None
  BY <1>1, <1>2 DEF Typed, Untouched
<1>4. MemberInv(m)'
  BY <1>1, <1>3, NoSeat DEF None
<1> QED BY <1>1, <1>3, <1>4, StepOf, ResumeMoves

LEMMA ReopenKeeps ==
  ASSUME CouncilInv, NEW m \in Members, Reopen(m)
  PROVE  CouncilInv'
<1>1. ~up[m] /\ Resume(m) /\ UNCHANGED <<election, up, stale, size, actual, id, tracked, attending>>
  BY DEF Reopen, council
<1>2. Typed /\ MemberInv(m)
  BY InvHas
<1>3. Typed' /\ \A k \in Members : k # m => Untouched(k)
  BY <1>1, <1>2 DEF Typed, Untouched
<1>4. actual'[m] = None /\ attending'[m] = "no" /\ ~(id'[m] >= 0)
  BY <1>1, <1>2 DEF MemberInv, None
<1>5. MemberInv(m)'
  BY <1>4, NoSeat
<1> QED BY <1>1, <1>3, <1>5, StepOf, ResumeMoves

LEMMA ExpireKeeps ==
  ASSUME CouncilInv, NEW m \in Members, CouncilExpire(m)
  PROVE  CouncilInv'
<1>1. /\ UNCHANGED <<election, up, stale, size, actual, id, tracked, attending>>
      /\ Trouble /\ session' = [session EXCEPT ![m] = "expired"] /\ next' = next
      /\ nodes' = Restrict(nodes, {n \in DOMAIN nodes : nodes[n] # m})
  BY DEF CouncilExpire, Expire, council
<1>2. Typed /\ MemberInv(m) /\ NodesOK
  BY InvHas
<1>3. Typed' /\ \A k \in Members : Untouched(k)
  BY <1>1, <1>2 DEF Typed, Untouched
<1>4. /\ session' \in [Members -> {"up", "expired"}] /\ session'[m] = "expired"
      /\ \A k \in Members : k # m => session'[k] = session[k]
  BY <1>1, <1>2 DEF NodesOK
<1>5. troubles' \in 0..MaxTroubles
  BY <1>1, <1>2, NodesAssumption DEF NodesOK, Trouble
<1>6. PICK S \in SUBSET (DOMAIN nodes) : S = {n \in DOMAIN nodes : nodes[n] # m}
  OBVIOUS
<1>7. nodes' = Restrict(nodes, S) /\ \A n \in DOMAIN nodes : n \in S \/ nodes[n] = m
  BY <1>1, <1>6
<1>8. ServerMoves(m)
  BY <1>1, <1>4, <1>5, <1>7, RemoveMoves
<1>9. MemberInv(m)'
  BY <1>1, <1>2, <1>4 DEF MemberInv
<1> QED BY <1>1, <1>3, <1>8, <1>9, StepOf

\* The sequence starts over only when there are no children.
LEMMA SetElectionKeeps ==
  ASSUME CouncilInv, NEW s \in Sizes \cup {None}, SetElection(s)
  PROVE  CouncilInv'
<1>1. /\ Trouble /\ (s = None => nodes = << >>) /\ election' = s /\ stale' = up
      /\ next' = (IF s = None THEN 1 ELSE next)
      /\ UNCHANGED <<session, nodes, up, size, actual, id, tracked, attending>>
  BY DEF SetElection, council
<1>2. Typed /\ NodesOK /\ NumbersGrow
  BY InvHas
<1>3. Typed' /\ \A k \in Members : Untouched(k)
  BY <1>1, <1>2 DEF Typed, Untouched
<1>4. troubles' \in 0..MaxTroubles /\ next' \in 1..(MaxNumber + 1)
  BY <1>1, <1>2, NodesAssumption DEF NodesOK, Trouble
<1>5. NodesOK'
  BY <1>1, <1>2, <1>4 DEF NodesOK
<1>6. NumbersGrow'
  BY <1>1, <1>2 DEF NumbersGrow
<1>7. \A k \in Members : MemberInv(k)'
  <2>1. ASSUME NEW k \in Members PROVE MemberInv(k)'
    BY <1>1, <1>3, <1>5, MemberKept
  <2> QED BY <2>1
<1> QED BY <1>1, <1>3, <1>5, <1>6, <1>7 DEF CouncilInv, CouncilOK, Typed

LEMMA CouncilStart == CouncilInit => CouncilInv
<1> SUFFICES ASSUME CouncilInit PROVE CouncilInv
  OBVIOUS
<1>1. NodesOK /\ NumbersGrow
  BY NodesAssumption DEF CouncilInit, NodesInit, NodesOK, NumbersGrow, Range
<1>2. Typed /\ election \in Sizes \cup {None}
  BY DEF CouncilInit, Typed
<1>3. \A m \in Members : MemberInv(m)
  BY DEF CouncilInit, MemberInv, None
<1> QED BY <1>1, <1>2, <1>3 DEF CouncilInv, CouncilOK, Typed

LEMMA CouncilStep == CouncilInv /\ [CouncilNext]_councilVars => CouncilInv'
<1> SUFFICES ASSUME CouncilInv, [CouncilNext]_councilVars PROVE CouncilInv'
  OBVIOUS
<1>1. CASE UNCHANGED councilVars
  <2>1. UNCHANGED <<session, nodes, next, troubles, election, up, stale, size, actual, id, tracked, attending>>
    BY <1>1 DEF councilVars, council, zk
  <2>2. Typed' /\ \A k \in Members : Untouched(k)
    BY <2>1, InvHas DEF Typed, Untouched
  <2>3. NodesOK' /\ NumbersGrow' /\ (election \in Sizes \cup {None})'
    BY <2>1, InvHas DEF NodesOK, NumbersGrow
  <2>4. ASSUME NEW k \in Members PROVE MemberInv(k)'
    BY <2>1, <2>2, <2>3, MemberKept
  <2> QED BY <2>2, <2>3, <2>4 DEF CouncilInv, CouncilOK, Typed
<1>2. CASE CouncilNext
  BY <1>2, InitializeKeeps, ShutdownKeeps, DataElectionKeeps, DataTrackedKeeps, CreateKeeps,
     DecideKeeps, NoCandidatesKeeps, LostKeeps, ReopenKeeps, ErrorKeeps, ExpireKeeps, SetElectionKeeps
  DEF CouncilNext, Attend
<1> QED BY <1>1, <1>2

\* For any members, sizes and bounds the invariant holds in every state of the council.
THEOREM CouncilAlways == CouncilSpec => []CouncilInv
BY CouncilStart, CouncilStep, PTL DEF CouncilSpec

\* A member that takes itself for a councilman, whose session lives and who knows the size, has
\* its child among the `size' first candidates, whatever sessions expire and calls fail.
THEOREM SeatsAreRightful == CouncilSpec => []SeatsRightful
<1>1. CouncilInv => SeatsRightful
  <2> SUFFICES ASSUME CouncilInv, NEW m \in Members, id[m] >= 0, session[m] = "up", attending[m] = "no"
               PROVE  /\ id[m] = actual[m] /\ actual[m] \in DOMAIN nodes
                      /\ size[m] = None \/ Rank(m) <= size[m]
    BY DEF SeatsRightful
  <2>1. MemberInv(m)
    BY InvHas
  <2>2. actual[m] # None
    BY <2>1 DEF MemberInv, None
  <2> QED BY <2>1, <2>2 DEF MemberInv
<1> QED BY <1>1, CouncilAlways, PTL

-----------------------------------------------------------------------------
\* The councilmen of live sessions who know that there are s seats.
Seated(s) ==
  {m \in Members : id[m] >= 0 /\ session[m] = "up" /\ attending[m] = "no" /\ size[m] = s}

\* No two of them have the same rank, and none is above s.
LEMMA RanksApart ==
  ASSUME CouncilInv, NEW s \in Sizes, NEW m \in Seated(s)
  PROVE  /\ Rank(m) \in 1..s
         /\ \A k \in Seated(s) : actual[k] < actual[m] => Rank(k) < Rank(m)
         /\ actual[m] \in 1..MaxNumber /\ nodes[actual[m]] = m
<1>1. ASSUME NEW k \in Seated(s)
      PROVE  /\ actual[k] \in 1..MaxNumber /\ actual[k] \in DOMAIN nodes /\ nodes[actual[k]] = k
             /\ Rank(k) <= s
  <2>1. k \in Members /\ id[k] >= 0 /\ session[k] = "up" /\ attending[k] = "no" /\ size[k] = s
    BY DEF Seated
  <2>2. MemberInv(k) /\ Typed /\ s # None
    BY <2>1, InvHas, CouncilAssumption DEF None
  <2>3. actual[k] # None
    BY <2>1, <2>2 DEF MemberInv, None
  <2> QED BY <2>1, <2>2, <2>3 DEF MemberInv, Typed
<1> DEFINE Upto(k) == {n \in DOMAIN nodes : n <= actual[k]}
<1>2. ASSUME NEW k \in Seated(s)
      PROVE  IsFiniteSet(Upto(k)) /\ Cardinality(Upto(k)) \in Nat /\ Rank(k) = Cardinality(Upto(k))
  <2>1. Upto(k) \subseteq 1..MaxNumber
    BY InvHas DEF NodesOK
  <2>2. IsFiniteSet(1..MaxNumber)
    BY NodesAssumption, FS_Interval
  <2>3. IsFiniteSet(Upto(k)) /\ Cardinality(Upto(k)) \in Nat
    BY <2>1, <2>2, FS_Subset, FS_CardinalityType
  <2> QED BY <2>3 DEF Rank, Candidates
<1>3. actual[m] \in Upto(m)
  BY <1>1
<1>4. Rank(m) \in 1..s
  <2>1. Upto(m) # {}
    BY <1>3
  <2>2. Cardinality(Upto(m)) # 0
    BY <1>2, <2>1, FS_EmptySet
  <2> HIDE DEF Upto
  <2> QED BY <1>1, <1>2, <2>2, CouncilAssumption
<1>5. ASSUME NEW k \in Seated(s), actual[k] < actual[m] PROVE Rank(k) < Rank(m)
  <2>1. DOMAIN nodes \subseteq 1..MaxNumber
    BY InvHas DEF NodesOK
  <2>2. Upto(k) \subseteq Upto(m) /\ actual[m] \notin Upto(k)
    BY <1>1, <1>5, <2>1, NodesAssumption
  <2>3. Cardinality(Upto(k)) <= Cardinality(Upto(m)) /\ Cardinality(Upto(k)) # Cardinality(Upto(m))
    BY <1>2, <1>3, <2>2, FS_Subset
  <2> HIDE DEF Upto
  <2> QED BY <1>2, <2>3
<1> QED BY <1>1, <1>4, <1>5

\* There are no more councilmen than seats: of those who know of s seats, at most s.
THEOREM SeatsAreLimited ==
  CouncilSpec => [](\A s \in Sizes : IsFiniteSet(Seated(s)) /\ Cardinality(Seated(s)) <= s)
<1>1. ASSUME CouncilInv, NEW s \in Sizes
      PROVE  IsFiniteSet(Seated(s)) /\ Cardinality(Seated(s)) <= s
  <2> DEFINE f == [m \in Seated(s) |-> Rank(m)]
  <2>1. f \in [Seated(s) -> 1..s]
    BY <1>1, RanksApart
  <2>2. ASSUME NEW k \in Seated(s), NEW m \in Seated(s), f[k] = f[m] PROVE k = m
    <3>1. /\ Rank(k) = Rank(m) /\ Rank(m) \in 1..s
          /\ actual[k] \in 1..MaxNumber /\ actual[m] \in 1..MaxNumber
          /\ nodes[actual[k]] = k /\ nodes[actual[m]] = m
      BY <1>1, <2>2, RanksApart
    <3>2. ~(actual[k] < actual[m]) /\ ~(actual[m] < actual[k])
      BY <1>1, <3>1, RanksApart, CouncilAssumption
    <3>3. actual[k] = actual[m]
      BY <3>1, <3>2, NodesAssumption
    <3> QED BY <3>1, <3>3
  <2>3. f \in Injection(Seated(s), 1..s)
    BY <2>1, <2>2 DEF Injection, IsInjective
  <2>4. s \in Nat /\ IsFiniteSet(1..s) /\ Cardinality(1..s) = s
    BY <1>1, CouncilAssumption, FS_Interval
  <2> HIDE DEF f
  <2> QED BY <2>3, <2>4, FS_Injection
<1>2. CouncilInv => \A s \in Sizes : IsFiniteSet(Seated(s)) /\ Cardinality(Seated(s)) <= s
  BY <1>1
<1> QED BY <1>2, CouncilAlways, PTL

-----------------------------------------------------------------------------
(***************************************************************************)
(* Naming.  NamesOwned needs to know only that None is the number of no    *)
(* child: a member that remembers none has none, unless a call failed.     *)
(***************************************************************************)
NamingInv ==
  /\ NodesOK /\ NamesOwned
  /\ mine \in [Members -> 1..MaxNumber \cup {None}]

\* A child is made by a member, and remembered or reported as a failure.
LEMMA NameMade ==
  ASSUME NamingInv, NEW m \in Members, next <= MaxNumber, session' = session,
         troubles' \in 0..MaxTroubles, next' = next + 1,
         nodes' = [n \in DOMAIN nodes \cup {next} |-> IF n = next THEN m ELSE nodes[n]],
         \/ mine[m] = None /\ mine' = [mine EXCEPT ![m] = next] /\ broken' = broken
         \/ mine' = mine /\ broken' = broken \cup {m}
  PROVE  NamingInv'
<1>1. NodesOK /\ NamesOwned /\ mine \in [Members -> 1..MaxNumber \cup {None}]
  BY DEF NamingInv
<1>2. DOMAIN nodes \subseteq 1..MaxNumber /\ next \in 1..MaxNumber
  BY <1>1, NodesAssumption DEF NodesOK
<1>3. \A n \in DOMAIN nodes : nodes[n] \in Members
  BY <1>1 DEF NodesOK, Range
<1>4. DOMAIN nodes' = DOMAIN nodes \cup {next} /\ nodes'[next] = m
      /\ \A n \in DOMAIN nodes : n # next => nodes'[n] = nodes[n]
  OBVIOUS
<1>5. NodesOK'
  <2>1. Range(nodes') \subseteq Members
    BY <1>3, <1>4 DEF Range
  <2>2. next' \in 1..(MaxNumber + 1) /\ DOMAIN nodes' \subseteq 1..MaxNumber
    BY <1>2, <1>4, NodesAssumption
  <2> QED BY <1>1, <2>1, <2>2 DEF NodesOK
<1>6. (mine \in [Members -> 1..MaxNumber \cup {None}])'
  BY <1>1, <1>2
<1>7. NamesOwned'
  <2> SUFFICES ASSUME NEW n \in DOMAIN nodes' PROVE nodes'[n] \in broken' \/ mine'[nodes'[n]] = n
    BY DEF NamesOwned
  <2>1. CASE n = next
    BY <1>1, <1>4, <2>1
  <2>2. CASE n # next
    <3>1. n \in DOMAIN nodes /\ nodes'[n] = nodes[n] /\ nodes[n] \in Members /\ n # None
      BY <1>2, <1>3, <1>4, <2>2 DEF None
    <3>2. nodes[n] \in broken \/ mine[nodes[n]] = n
      BY <1>1, <3>1 DEF NamesOwned
    <3> QED BY <1>1, <3>1, <3>2
  <2> QED BY <2>1, <2>2
<1> QED BY <1>5, <1>6, <1>7 DEF NamingInv

\* Children are removed, and a member forgets its child only if that one is removed.
LEMMA NamesRemoved ==
  ASSUME NamingInv, NEW m \in Members, NEW S \in SUBSET DOMAIN nodes,
         nodes' = Restrict(nodes, S), next' = next, troubles' \in 0..MaxTroubles,
         session' \in [Members -> {"up", "expired"}],
         broken' = broken \/ broken' = broken \cup {m},
         \/ mine' = mine
         \/ mine' = [mine EXCEPT ![m] = None] /\ (mine[m] \notin S \/ m \in broken')
  PROVE  NamingInv'
<1>1. NodesOK /\ NamesOwned /\ mine \in [Members -> 1..MaxNumber \cup {None}]
  BY DEF NamingInv
<1>2. DOMAIN nodes' = S /\ \A n \in S : nodes'[n] = nodes[n]
  BY DEF Restrict
<1>3. NodesOK'
  <2>1. Range(nodes') \subseteq Members
    BY <1>1, <1>2 DEF NodesOK, Range
  <2> QED BY <1>1, <1>2, <2>1 DEF NodesOK
<1>4. \A n \in DOMAIN nodes : nodes[n] \in Members
  BY <1>1 DEF NodesOK, Range
<1>5. NamesOwned'
  <2> SUFFICES ASSUME NEW n \in DOMAIN nodes' PROVE nodes'[n] \in broken' \/ mine'[nodes'[n]] = n
    BY DEF NamesOwned
  <2>1. n \in S /\ n \in DOMAIN nodes /\ nodes'[n] = nodes[n] /\ nodes[n] \in Members
    BY <1>2, <1>4
  <2>2. nodes[n] \in broken \/ mine[nodes[n]] = n
    BY <1>1, <2>1 DEF NamesOwned
  <2> QED BY <1>1, <2>1, <2>2
<1>6. (mine \in [Members -> 1..MaxNumber \cup {None}])'
  BY <1>1
<1> QED BY <1>3, <1>5, <1>6 DEF NamingInv

\* The children stay as they are.
LEMMA NamesStay ==
  ASSUME NamingInv, nodes' = nodes, next' = next, troubles' \in 0..MaxTroubles,
         session' \in [Members -> {"up", "expired"}], broken \subseteq broken',
         mine' = mine \/ \E m \in Members : mine' = [mine EXCEPT ![m] = None] /\ (mine[m] = None \/ m \in broken')
  PROVE  NamingInv'
<1>1. NodesOK /\ NamesOwned /\ mine \in [Members -> 1..MaxNumber \cup {None}]
  BY DEF NamingInv
<1>2. NodesOK'
  BY <1>1 DEF NodesOK
<1>3. \A n \in DOMAIN nodes : nodes[n] \in Members /\ n # None
  BY <1>1 DEF NodesOK, Range, None
<1>4. NamesOwned'
  BY <1>1, <1>3 DEF NamesOwned
<1>5. (mine \in [Members -> 1..MaxNumber \cup {None}])'
  BY <1>1
<1> QED BY <1>2, <1>4, <1>5 DEF NamingInv

\* ZooKeeper::Erase() of the child m remembers, which m forgets or not.
LEMMA NameErased ==
  ASSUME NamingInv, NEW m \in Members, mine[m] # None, NEW ok \in BOOLEAN, Erase(m, mine[m], ok),
         broken' = IF ok THEN broken ELSE broken \cup {m},
         mine' = mine \/ mine' = [mine EXCEPT ![m] = None]
  PROVE  NamingInv'
<1>1. NodesOK
  BY DEF NamingInv
<1>2. /\ session' = session /\ next' = next
      /\ UNCHANGED troubles \/ Fails(m)
      /\ (ok /\ nodes' = Without(mine[m])) \/ (~ok /\ (UNCHANGED nodes \/ nodes' = Without(mine[m])))
  BY DEF Erase
<1>3. troubles' \in 0..MaxTroubles /\ session' \in [Members -> {"up", "expired"}]
  BY <1>1, <1>2, FailureCounted DEF NodesOK
<1>4. CASE nodes' = Without(mine[m])
  <2>1. PICK S \in SUBSET DOMAIN nodes : S = DOMAIN nodes \ {mine[m]}
    OBVIOUS
  <2>2. nodes' = Restrict(nodes, S) /\ mine[m] \notin S
    BY <1>4, <2>1 DEF Without
  <2>3. broken' = broken \/ broken' = broken \cup {m}
    OBVIOUS
  <2> QED BY <1>2, <1>3, <2>2, <2>3, NamesRemoved
<1>5. CASE ~ok /\ UNCHANGED nodes
  <2>1. m \in broken' /\ broken \subseteq broken'
    BY <1>5
  <2> QED BY <1>2, <1>3, <1>5, <2>1, NamesStay
<1> QED BY <1>2, <1>4, <1>5

LEMMA NamingStep ==
  ASSUME NamingInv, NamingNext
  PROVE  NamingInv'
<1>1. PICK m \in Members :
        \/ Watch(m) \/ AttendName(m) \/ AttendFails(m) \/ WatchFails(m) \/ OnChildren(m) \/ OnExpired(m)
        \/ NamingError(m) \/ Withdraw(m) \/ NamingExpire(m) \/ NamingReopen(m)
  BY DEF NamingNext
<1>2. NodesOK /\ mine \in [Members -> 1..MaxNumber \cup {None}]
  BY DEF NamingInv
<1>3. troubles \in 0..MaxTroubles /\ session \in [Members -> {"up", "expired"}]
  BY <1>2 DEF NodesOK
<1>4. CASE Watch(m) \/ OnChildren(m)
  <2>1. UNCHANGED zk /\ mine' = mine /\ broken' = broken
    BY <1>4 DEF Watch, OnChildren
  <2> QED BY <1>3, <2>1, NamesStay DEF zk
<1>5. CASE AttendName(m)
  <2>1. CASE UNCHANGED <<zk, mine>>
    <3>1. broken' = broken /\ mine' = mine /\ UNCHANGED zk
      BY <1>5, <2>1 DEF AttendName
    <3> QED BY <1>3, <3>1, NamesStay DEF zk
  <2>2. CASE mine[m] = None /\ Create(m) /\ mine' = [mine EXCEPT ![m] = next]
    <3>1. broken' = broken
      BY <1>5 DEF AttendName
    <3> QED BY <1>3, <2>2, <3>1, NameMade DEF Create
  <2> QED BY <1>5, <2>1, <2>2 DEF AttendName
<1>6. CASE AttendFails(m)
  <2>1. CreateFails(m) /\ broken' = broken \cup {m} /\ mine' = mine
    BY <1>6 DEF AttendFails
  <2>2. session' = session /\ troubles' \in 0..MaxTroubles
    BY <1>2, <2>1, FailureCounted DEF CreateFails
  <2>3. CASE UNCHANGED <<nodes, next>>
    BY <1>3, <2>1, <2>2, <2>3, NamesStay
  <2>4. CASE /\ next <= MaxNumber /\ next' = next + 1
             /\ nodes' = [n \in DOMAIN nodes \cup {next} |-> IF n = next THEN m ELSE nodes[n]]
    BY <2>1, <2>2, <2>4, NameMade
  <2> QED BY <2>1, <2>3, <2>4 DEF CreateFails
<1>7. CASE WatchFails(m)
  <2>1. mine[m] = None /\ Create(m) /\ mine' = [mine EXCEPT ![m] = next] /\ broken' = broken
    BY <1>7 DEF WatchFails
  <2> QED BY <1>3, <2>1, NameMade DEF Create
<1>8. CASE OnExpired(m)
  <2>1. Resume(m) /\ broken \subseteq broken' /\ mine' = mine
    BY <1>8 DEF OnExpired
  <2>2. session' \in [Members -> {"up", "expired"}]
    BY <1>3, <2>1 DEF Resume
  <2> QED BY <1>3, <2>1, <2>2, NamesStay DEF Resume
<1>9. CASE NamingError(m)
  <2>1. RemoveNode(m)
    BY <1>9 DEF NamingError
  <2>2. CASE mine[m] = None
    <3>1. UNCHANGED zk /\ mine' = mine /\ broken' = broken
      BY <2>1, <2>2 DEF RemoveNode
    <3> QED BY <1>3, <3>1, NamesStay DEF zk
  <2>3. CASE mine[m] # None
    <3>1. PICK ok \in BOOLEAN :
            /\ Erase(m, mine[m], ok)
            /\ mine' = IF ok THEN [mine EXCEPT ![m] = None] ELSE mine
            /\ broken' = IF ok THEN broken ELSE broken \cup {m}
      BY <2>1, <2>3 DEF RemoveNode
    <3>2. mine' = mine \/ mine' = [mine EXCEPT ![m] = None]
      BY <3>1
    <3> QED BY <2>3, <3>1, <3>2, NameErased
  <2> QED BY <2>2, <2>3
<1>10. CASE Withdraw(m)
  <2>1. mine' = [mine EXCEPT ![m] = None]
    BY <1>10 DEF Withdraw
  <2>2. CASE mine[m] = None
    <3>1. UNCHANGED zk /\ broken' = broken
      BY <1>10, <2>2 DEF Withdraw
    <3> QED BY <1>3, <2>1, <2>2, <3>1, NamesStay DEF zk
  <2>3. CASE mine[m] # None
    <3>1. PICK ok \in BOOLEAN : Erase(m, mine[m], ok) /\ broken' = IF ok THEN broken ELSE broken \cup {m}
      BY <1>10, <2>3 DEF Withdraw
    <3> QED BY <2>1, <2>3, <3>1, NameErased
  <2> QED BY <2>2, <2>3
<1>11. CASE NamingExpire(m)
  <2>1. Expire(m) /\ mine' = mine /\ broken' = broken
    BY <1>11 DEF NamingExpire
  <2>2. session' \in [Members -> {"up", "expired"}] /\ troubles' \in 0..MaxTroubles /\ next' = next
    BY <1>3, <2>1, NodesAssumption DEF Expire, Trouble
  <2>3. PICK S \in SUBSET DOMAIN nodes : S = {n \in DOMAIN nodes : nodes[n] # m}
    OBVIOUS
  <2>4. nodes' = Restrict(nodes, S)
    BY <2>1, <2>3 DEF Expire
  <2> QED BY <2>1, <2>2, <2>4, NamesRemoved
<1>12. CASE NamingReopen(m)
  <2>1. Resume(m) /\ broken' = broken /\ mine' = mine
    BY <1>12 DEF NamingReopen
  <2>2. session' \in [Members -> {"up", "expired"}]
    BY <1>3, <2>1 DEF Resume
  <2> QED BY <1>3, <2>1, <2>2, NamesStay DEF Resume
<1> QED BY <1>1, <1>4, <1>5, <1>6, <1>7, <1>8, <1>9, <1>10, <1>11, <1>12

\* A child of the naming node is remembered by the member whose session keeps it, unless
\* a call of that member failed.
THEOREM NamesAreOwned == NamingSpec => [](NodesOK /\ NamesOwned)
<1>1. NamingInit => NamingInv
  <2> SUFFICES ASSUME NamingInit PROVE NamingInv
    OBVIOUS
  <2>1. /\ nodes = << >> /\ next = 1 /\ troubles = 0 /\ session = [m \in Members |-> "up"]
        /\ mine = [m \in Members |-> None]
    BY DEF NamingInit, NodesInit
  <2>2. DOMAIN nodes = {} /\ Range(nodes) = {}
    BY <2>1 DEF Range
  <2>3. NodesOK
    BY <2>1, <2>2, NodesAssumption DEF NodesOK
  <2> QED BY <2>1, <2>2, <2>3 DEF NamingInv, NamesOwned
<1>2. NamingInv /\ [NamingNext]_namingVars => NamingInv'
  <2>1. CASE UNCHANGED namingVars /\ NamingInv
    <3>1. UNCHANGED zk /\ mine' = mine /\ broken' = broken
      BY <2>1 DEF namingVars
    <3>2. troubles \in 0..MaxTroubles /\ session \in [Members -> {"up", "expired"}]
      BY <2>1 DEF NamingInv, NodesOK
    <3> QED BY <2>1, <3>1, <3>2, NamesStay DEF zk
  <2> QED BY <2>1, NamingStep
<1>3. NamingInv => NodesOK /\ NamesOwned
  BY DEF NamingInv
<1> QED BY <1>1, <1>2, <1>3, PTL DEF NamingSpec

-----------------------------------------------------------------------------
(***************************************************************************)
(* ZooKeeperClient, when no operation is started while _resuming.  The     *)
(* client lets go of every Pending before the ZooKeeper object deletes     *)
(* them all: watches are gone as soon as the handle is being closed, and   *)
(* nothing is asked of the client until the session is resumed.            *)
(***************************************************************************)
ClosingKept ==
  closing # "no" => connecting /\ handle = 0 /\ state = "none" /\ watching = {}

ClientInv ==
  /\ ClientOK /\ PendingsAlive /\ ClosingKept
  /\ flying \cap watching = {}
  /\ resuming => flying = {} /\ watching = {}

LEMMA ClientHas ==
  ASSUME ClientInv
  PROVE  /\ handle \in 0..MaxSessions /\ sessions \in 0..MaxSessions
         /\ state \in {"none", "connecting", "connected", "expired", "auth_failed"}
         /\ connecting \in BOOLEAN /\ resuming \in BOOLEAN
         /\ pending \subseteq Pendings
         /\ zkc \in [Pendings -> BOOLEAN] /\ zkw \in [Pendings -> {"none", "set", "detached"}]
         /\ closing \in {"no", "shutdown", "reconnect"} /\ waiter \in {"no", "waits", "true", "false"}
         /\ alive = pending /\ flying \subseteq pending /\ watching \subseteq pending
         /\ flying \cap watching = {} /\ ClosingKept
         /\ resuming => flying = {} /\ watching = {}
BY DEF ClientInv, ClientOK, PendingsAlive

\* And what has to be shown of the next state: the link, the flags of the Pendings, and the rest.
LinkKept ==
  /\ handle' \in 0..MaxSessions /\ sessions' \in 0..MaxSessions
  /\ state' \in {"none", "connecting", "connected", "expired", "auth_failed"}
  /\ connecting' \in BOOLEAN /\ closing' \in {"no", "shutdown", "reconnect"}
FlagsKept ==
  /\ zkc' \in [Pendings -> BOOLEAN] /\ zkw' \in [Pendings -> {"none", "set", "detached"}]
  /\ resuming' \in BOOLEAN /\ waiter' \in {"no", "waits", "true", "false"}

LEMMA ClientGoesOn ==
  ASSUME LinkKept, FlagsKept, ClosingKept', pending' \subseteq Pendings, alive' = pending',
         flying' \subseteq pending', watching' \subseteq pending', flying' \cap watching' = {},
         resuming' => flying' = {} /\ watching' = {}
  PROVE  ClientInv'
BY DEF ClientInv, ClientOK, PendingsAlive, LinkKept, FlagsKept

\* Nothing is asked while a handle is being closed or a session resumed.
LEMMA NothingAsked ==
  ASSUME ClientInv, Careful, MayCall
  PROVE  closing = "no" /\ ~resuming
BY ClientHas DEF ClosingKept, MayCall

LEMMA LinkStays ==
  ASSUME ClientInv, UNCHANGED link, watching' = {} \/ closing = "no"
  PROVE  LinkKept /\ ClosingKept'
<1>1. handle' = handle /\ sessions' = sessions /\ state' = state /\ connecting' = connecting /\ closing' = closing
  BY DEF link
<1> QED BY <1>1, ClientHas DEF LinkKept, ClosingKept

\* A Pending is allocated for an operation.
LEMMA InsertKeeps ==
  ASSUME ClientInv, Careful, NEW p \in Pendings, NEW c \in BOOLEAN, NEW w \in {"none", "set"},
         MayCall, p \in Fresh, Insert(p, c, w), UNCHANGED <<link, waiter>>,
         \/ watching' = watching \cup {p} /\ flying' = flying
         \/ flying' = flying \cup {p} /\ watching' = watching
  PROVE  ClientInv'
<1>1. closing = "no" /\ ~resuming
  BY NothingAsked
<1>2. LinkKept /\ ClosingKept'
  BY <1>1, LinkStays
<1>3. /\ alive' = alive \cup {p} /\ pending' = pending \cup {p} /\ resuming' = resuming
      /\ zkc' = [zkc EXCEPT ![p] = c] /\ zkw' = [zkw EXCEPT ![p] = w] /\ waiter' = waiter
  BY DEF Insert
<1>4. FlagsKept
  BY <1>3, ClientHas DEF FlagsKept
<1>5. p \notin flying /\ p \notin watching
  BY DEF Fresh
<1>6. pending' \subseteq Pendings /\ alive' = pending' /\ flying' \subseteq pending' /\ watching' \subseteq pending'
  BY <1>3, ClientHas
<1>7. flying' \cap watching' = {} /\ ~resuming'
  BY <1>1, <1>3, <1>5, ClientHas
<1> QED BY <1>2, <1>4, <1>6, <1>7, ClientGoesOn

\* A callback is called: the Pending leaves one of the two sets, and may be freed.
LEMMA CompletionKeeps ==
  ASSUME ClientInv, NEW p \in Pendings, NEW ok \in BOOLEAN, Completion(p, ok)
  PROVE  ClientInv'
<1>1. /\ p \in flying /\ (ok => state = "connected") /\ flying' = flying \ {p}
      /\ watching' = IF ok /\ zkw[p] # "none" THEN watching \cup {p} ELSE watching
      /\ UNCHANGED link /\ resuming' = resuming /\ zkw' = zkw /\ waiter' = waiter
  BY DEF Completion
<1>2. /\ zkc' \in [Pendings -> BOOLEAN]
      /\ ErasePending(p) \/ UNCHANGED <<pending, alive>>
      /\ ErasePending(p) => watching' = watching \/ UNCHANGED <<pending, alive>>
  <2>1. CASE zkc[p]
    <3>1. zkc' = [zkc EXCEPT ![p] = FALSE] /\ IF zkw[p] = "none" THEN ErasePending(p) ELSE UNCHANGED <<pending, alive>>
      BY <2>1 DEF Completion
    <3> QED BY <1>1, <3>1, ClientHas
  <2>2. CASE ~zkc[p]
    <3>1. /\ zkc' = zkc
          /\ \/ ~ok /\ zkw[p] # "detached" /\ ErasePending(p)
             \/ (ok \/ zkw[p] # "set") /\ UNCHANGED <<pending, alive>>
      BY <2>2 DEF Completion
    <3> QED BY <1>1, <3>1, ClientHas
  <2> QED BY <2>1, <2>2
<1>3. p \in pending /\ p \notin watching /\ ~resuming
  BY <1>1, ClientHas
<1>4. \/ pending' = pending /\ alive' = alive
      \/ pending' = pending \ {p} /\ alive' = alive \ {p} /\ watching' = watching
  BY <1>2, <1>3 DEF ErasePending
<1>5. watching' = {} \/ closing = "no"
  BY <1>1, ClientHas DEF ClosingKept
<1>6. LinkKept /\ ClosingKept'
  BY <1>1, <1>5, LinkStays
<1>7. FlagsKept
  BY <1>1, <1>2, ClientHas DEF FlagsKept
<1>8. pending' \subseteq Pendings /\ alive' = pending' /\ flying' \subseteq pending' /\ watching' \subseteq pending'
  BY <1>1, <1>3, <1>4, ClientHas
<1>9. flying' \cap watching' = {} /\ ~resuming'
  BY <1>1, <1>3, ClientHas
<1> QED BY <1>6, <1>7, <1>8, <1>9, ClientGoesOn

LEMMA WatchedKeeps ==
  ASSUME ClientInv, NEW p \in Pendings, Watched(p)
  PROVE  ClientInv'
<1>1. /\ p \in watching /\ state = "connected" /\ watching' = watching \ {p}
      /\ zkw' = [zkw EXCEPT ![p] = "none"] /\ ErasePending(p)
      /\ UNCHANGED link /\ resuming' = resuming /\ zkc' = zkc /\ flying' = flying /\ waiter' = waiter
  BY DEF Watched
<1>2. p \in pending /\ p \notin flying /\ ~resuming /\ closing = "no"
  BY <1>1, ClientHas DEF ClosingKept
<1>3. pending' = pending \ {p} /\ alive' = alive \ {p}
  BY <1>1, <1>2 DEF ErasePending
<1>4. LinkKept /\ ClosingKept'
  BY <1>1, <1>2, LinkStays
<1>5. FlagsKept
  BY <1>1, ClientHas DEF FlagsKept
<1>6. pending' \subseteq Pendings /\ alive' = pending' /\ flying' \subseteq pending' /\ watching' \subseteq pending'
  BY <1>1, <1>2, <1>3, ClientHas
<1>7. flying' \cap watching' = {} /\ ~resuming'
  BY <1>1, <1>2, ClientHas
<1> QED BY <1>4, <1>5, <1>6, <1>7, ClientGoesOn

\* Steps that leave the Pendings to the client as they are.
LEMMA BookStays ==
  ASSUME ClientInv, FlagsKept, LinkKept, pending' = pending, alive' = alive, flying' = flying,
         ClosingKept', watching' \subseteq watching, resuming' = resuming
  PROVE  ClientInv'
<1>1. pending' \subseteq Pendings /\ alive' = pending' /\ flying' \subseteq pending' /\ watching' \subseteq pending'
  BY ClientHas
<1>2. flying' \cap watching' = {} /\ (resuming' => flying' = {} /\ watching' = {})
  BY ClientHas
<1> QED BY <1>1, <1>2, ClientGoesOn

LEMMA CloseKeeps ==
  ASSUME ClientInv, MaxSessions \in Nat, NEW who \in {"shutdown", "reconnect"}, CloseBy(who)
  PROVE  ClientInv'
<1>1. /\ handle' = 0 /\ connecting' = TRUE /\ closing' = who /\ watching' = {} /\ state' = "none"
      /\ sessions' = sessions /\ flying' = flying /\ waiter' = waiter
      /\ resuming' = resuming /\ pending' = pending /\ zkc' = zkc /\ zkw' = zkw /\ alive' = alive
  BY DEF CloseBy, book
<1>2. LinkKept /\ ClosingKept'
  BY <1>1, ClientHas DEF LinkKept, ClosingKept
<1>3. FlagsKept
  BY <1>1, ClientHas DEF FlagsKept
<1> QED BY <1>1, <1>2, <1>3, BookStays

LEMMA ShutdownEndKeeps ==
  ASSUME ClientInv, ShutdownEnd
  PROVE  ClientInv'
<1>1. /\ closing = "shutdown" /\ flying' = {} /\ connecting' = FALSE /\ closing' = "no"
      /\ alive' = alive \ pending /\ pending' = {}
      /\ handle' = handle /\ sessions' = sessions /\ state' = state /\ resuming' = resuming
      /\ zkc' = zkc /\ zkw' = zkw /\ watching' = watching /\ waiter' = waiter
  BY DEF ShutdownEnd
<1>2. LinkKept /\ ClosingKept'
  BY <1>1, ClientHas DEF LinkKept, ClosingKept
<1>3. FlagsKept
  BY <1>1, ClientHas DEF FlagsKept
<1>4. watching' = {} /\ alive' = {}
  BY <1>1, ClientHas DEF ClosingKept
<1> QED BY <1>1, <1>2, <1>3, <1>4, ClientGoesOn

\* A session begins.
LEMMA HandleMade ==
  ASSUME ClientInv, NewHandle, MaxSessions \in Nat
  PROVE  handle' \in 0..MaxSessions /\ sessions' \in 0..MaxSessions /\ state' = "connecting"
BY ClientHas DEF NewHandle

LEMMA ReconnectEndKeeps ==
  ASSUME ClientInv, ReconnectEnd, MaxSessions \in Nat
  PROVE  ClientInv'
<1>1. /\ closing = "reconnect" /\ flying' = {} /\ connecting' = FALSE /\ closing' = "no" /\ resuming' = TRUE
      /\ NewHandle \/ (handle' = handle /\ sessions' = sessions /\ state' = state)
      /\ pending' = pending /\ zkc' = zkc /\ zkw' = zkw /\ alive' = alive /\ watching' = watching /\ waiter' = waiter
  BY DEF ReconnectEnd
<1>2. LinkKept /\ ClosingKept'
  BY <1>1, ClientHas, HandleMade DEF LinkKept, ClosingKept
<1>3. FlagsKept
  BY <1>1, ClientHas DEF FlagsKept
<1>4. watching' = {}
  BY <1>1, ClientHas DEF ClosingKept
<1>5. pending' \subseteq Pendings /\ alive' = pending'
  BY <1>1, ClientHas
<1> QED BY <1>1, <1>2, <1>3, <1>4, <1>5, ClientGoesOn

LEMMA InitializeClientKeeps ==
  ASSUME ClientInv, InitializeClient, MaxSessions \in Nat
  PROVE  ClientInv'
<1>1. /\ NewHandle /\ ~connecting
      /\ connecting' = connecting /\ closing' = closing /\ flying' = flying /\ watching' = watching /\ waiter' = waiter
      /\ resuming' = resuming /\ pending' = pending /\ zkc' = zkc /\ zkw' = zkw /\ alive' = alive
  BY DEF InitializeClient, book
<1>2. closing = "no"
  BY <1>1, ClientHas DEF ClosingKept
<1>3. LinkKept /\ ClosingKept'
  BY <1>1, <1>2, ClientHas, HandleMade DEF LinkKept, ClosingKept
<1>4. FlagsKept
  BY <1>1, ClientHas DEF FlagsKept
<1> QED BY <1>1, <1>3, <1>4, BookStays

\* ResumeSession(): the client holds nothing of the old session, so that all may go.
LEMMA OnConnectedKeeps ==
  ASSUME ClientInv, OnConnected
  PROVE  ClientInv'
<1>1. /\ handle # 0 /\ state' = "connected"
      /\ handle' = handle /\ sessions' = sessions /\ connecting' = connecting /\ closing' = closing
      /\ watching' = watching /\ waiter' = waiter
  BY DEF OnConnected
<1>2. LinkKept /\ ClosingKept'
  BY <1>1, ClientHas DEF LinkKept, ClosingKept
<1>3. CASE ~resuming
  <2>1. /\ flying' = flying /\ resuming' = resuming /\ pending' = pending /\ zkc' = zkc /\ zkw' = zkw
        /\ alive' = alive
    BY <1>3 DEF OnConnected, book
  <2>2. FlagsKept
    BY <1>1, <2>1, ClientHas DEF FlagsKept
  <2> QED BY <1>1, <1>2, <2>1, <2>2, BookStays
<1>4. CASE resuming
  <2>1. resuming' = FALSE
    BY <1>4 DEF OnConnected
  <2>2. PICK new \in SUBSET Fresh :
          /\ pending' = new /\ alive' = (alive \ pending) \cup new
          /\ flying' = flying \cup new
          /\ zkc' = [p \in Pendings |-> IF p \in new THEN TRUE ELSE zkc[p]]
          /\ \E w \in [new -> {"none", "set"}] :
               zkw' = [p \in Pendings |-> IF p \in new THEN w[p] ELSE zkw[p]]
    BY <1>4 DEF OnConnected
  <2>3. PICK w \in [new -> {"none", "set"}] :
          zkw' = [p \in Pendings |-> IF p \in new THEN w[p] ELSE zkw[p]]
    BY <2>2
  <2>4. FlagsKept
    BY <1>1, <2>1, <2>2, <2>3, ClientHas DEF FlagsKept
  <2>5. flying = {} /\ watching = {} /\ alive = pending /\ new \subseteq Pendings
    BY <1>4, ClientHas DEF Fresh
  <2>6. pending' = new /\ alive' = new /\ flying' = new /\ watching' = {}
    BY <1>1, <2>2, <2>5
  <2>7. ~resuming'
    BY <2>1
  <2> QED BY <1>2, <2>4, <2>5, <2>6, <2>7, ClientGoesOn
<1> QED BY <1>3, <1>4

LEMMA ClientStep ==
  ASSUME ClientInv, Careful, MaxSessions \in Nat, ClientNext
  PROVE  ClientInv'
<1>1. CASE InitializeClient
  BY <1>1, InitializeClientKeeps
<1>2. CASE ShutdownBegin \/ ReconnectBegin
  BY <1>2, CloseKeeps DEF ShutdownBegin, ReconnectBegin
<1>3. CASE ShutdownEnd
  BY <1>3, ShutdownEndKeeps
<1>4. CASE ReconnectEnd
  BY <1>4, ReconnectEndKeeps
<1>5. CASE OnConnected
  BY <1>5, OnConnectedKeeps
<1>6. CASE WaitBegin \/ WaitEnd
  <2>1. /\ UNCHANGED link /\ resuming' = resuming /\ pending' = pending /\ zkc' = zkc /\ zkw' = zkw /\ alive' = alive
        /\ flying' = flying /\ watching' = watching /\ waiter' \in {"no", "waits", "true", "false"}
    BY <1>6 DEF WaitBegin, WaitEnd, book
  <2>2. watching' = {} \/ closing = "no"
    BY <2>1, ClientHas DEF ClosingKept
  <2>3. LinkKept /\ ClosingKept'
    BY <2>1, <2>2, LinkStays
  <2>4. FlagsKept
    BY <2>1, ClientHas DEF FlagsKept
  <2> QED BY <2>1, <2>3, <2>4, BookStays
<1>7. ASSUME NEW s \in {"connecting", "expired", "auth_failed"}, Session(s) PROVE ClientInv'
  <2>1. /\ handle # 0 /\ state' = s
        /\ handle' = handle /\ sessions' = sessions /\ connecting' = connecting /\ closing' = closing
        /\ flying' = flying /\ watching' = watching /\ waiter' = waiter
        /\ resuming' = resuming /\ pending' = pending /\ zkc' = zkc /\ zkw' = zkw /\ alive' = alive
    BY <1>7 DEF Session, book
  <2>2. LinkKept /\ ClosingKept'
    BY <2>1, ClientHas DEF LinkKept, ClosingKept
  <2>3. FlagsKept
    BY <2>1, ClientHas DEF FlagsKept
  <2> QED BY <2>1, <2>2, <2>3, BookStays
<1>8. ASSUME NEW p \in Pendings, SyncWatch(p) PROVE ClientInv'
  <2>1. MayCall /\ p \in Fresh /\ Insert(p, FALSE, "set") /\ watching' = watching \cup {p}
        /\ UNCHANGED <<link, waiter>> /\ flying' = flying
    BY <1>8 DEF SyncWatch
  <2> QED BY <2>1, InsertKeeps
<1>9. ASSUME NEW p \in Pendings, NEW c \in BOOLEAN, NEW w \in {"none", "set"}, Async(p, c, w) PROVE ClientInv'
  <2>1. MayCall /\ p \in Fresh /\ Insert(p, c, w) /\ flying' = flying \cup {p}
        /\ UNCHANGED <<link, waiter>> /\ watching' = watching
    BY <1>9 DEF Async
  <2> QED BY <2>1, InsertKeeps
<1>10. ASSUME NEW p \in Pendings, DetachCallback(p) \/ DetachWatcher(p) PROVE ClientInv'
  <2>1. /\ UNCHANGED link /\ resuming' = resuming /\ pending' = pending /\ alive' = alive
        /\ flying' = flying /\ watching' = watching /\ waiter' = waiter
    BY <1>10 DEF DetachCallback, DetachWatcher
  <2>2. zkc' \in [Pendings -> BOOLEAN] /\ zkw' \in [Pendings -> {"none", "set", "detached"}]
    BY <1>10, ClientHas DEF DetachCallback, DetachWatcher
  <2>3. watching' = {} \/ closing = "no"
    BY <2>1, ClientHas DEF ClosingKept
  <2>4. LinkKept /\ ClosingKept'
    BY <2>1, <2>3, LinkStays
  <2>5. FlagsKept
    BY <2>1, <2>2, ClientHas DEF FlagsKept
  <2> QED BY <2>1, <2>4, <2>5, BookStays
<1> QED BY <1>1, <1>2, <1>3, <1>4, <1>5, <1>6, <1>7, <1>8, <1>9, <1>10, CompletionKeeps, WatchedKeeps DEF ClientNext

\* The C client never holds the address of a Pending that was deleted, and whatever is
\* allocated is in _pending, for any number of Pendings and of sessions, if no operation
\* is started while _resuming.
THEOREM PendingsStayAlive ==
  ASSUME Careful, MaxSessions \in Nat
  PROVE  ClientSpec => [](ClientOK /\ PendingsAlive)
<1>1. ClientInit => ClientInv
  <2> SUFFICES ASSUME ClientInit PROVE ClientInv
    OBVIOUS
  <2>1. zkc \in [Pendings -> BOOLEAN] /\ zkw \in [Pendings -> {"none", "set", "detached"}]
    BY DEF ClientInit
  <2>2. handle \in 0..MaxSessions /\ sessions \in 0..MaxSessions
    BY DEF ClientInit
  <2>3. ClientOK
    BY <2>1, <2>2 DEF ClientInit, ClientOK
  <2>4. PendingsAlive /\ ClosingKept /\ flying \cap watching = {} /\ ~resuming
    BY DEF ClientInit, PendingsAlive, ClosingKept
  <2> QED BY <2>3, <2>4 DEF ClientInv
<1>2. ClientInv /\ [ClientNext]_clientVars => ClientInv'
  <2>1. CASE UNCHANGED clientVars /\ ClientInv
    <3>1. /\ UNCHANGED link /\ resuming' = resuming /\ pending' = pending /\ zkc' = zkc /\ zkw' = zkw /\ alive' = alive
          /\ flying' = flying /\ watching' = watching /\ waiter' = waiter
      BY <2>1 DEF clientVars, book
    <3>2. watching' = {} \/ closing = "no"
      BY <2>1, <3>1, ClientHas DEF ClosingKept
    <3>3. LinkKept /\ ClosingKept'
      BY <2>1, <3>1, <3>2, LinkStays
    <3>4. FlagsKept
      BY <2>1, <3>1, ClientHas DEF FlagsKept
    <3> QED BY <2>1, <3>1, <3>3, <3>4, BookStays
  <2> QED BY <2>1, ClientStep
<1>3. ClientInv => ClientOK /\ PendingsAlive
  BY DEF ClientInv
<1> QED BY <1>1, <1>2, <1>3, PTL DEF ClientSpec

-----------------------------------------------------------------------------
(***************************************************************************)
(* The tracker.  Positions in the two queues take the place of counts of   *)
(* answers: an operation in flight is at exactly one place of them, and    *)
(* one that is not is at none.                                             *)
(***************************************************************************)
In(s, x) == \E i \in 1..Len(s) : s[i] = x
Has(ib, op) == \E i \in 1..Len(ib) : ib[i][1] = op

Flights(fl, rq, ib) ==
  /\ \A op \in Ops : op \in fl <=> In(rq, op) \/ Has(ib, op)
  /\ \A op \in Ops : ~(In(rq, op) /\ Has(ib, op))
  /\ \A i, j \in 1..Len(rq) : rq[i] = rq[j] => i = j
  /\ \A i, j \in 1..Len(ib) : ib[i][1] = ib[j][1] /\ ib[i][1] \in Ops => i = j

\* What is in a message.
LEMMA MessageHas ==
  ASSUME NEW m \in Messages
  PROVE  /\ m[1] \in Ops \/ m[1] = "event"
         /\ m[1] \in Ops => m[2] \in {"ok", "nonode", "error"} /\ m[3] \in Versions
         /\ m[1] = "event" => m[2] \in Events
BY DEF Messages, Ops

\* The head and the rest of a queue.
LEMMA QueueTail ==
  ASSUME NEW S, NEW s \in Seq(S), s # <<>>
  PROVE  /\ Len(s) \in Nat /\ Len(s) > 0 /\ Head(s) = s[1] /\ s[1] \in S
         /\ Tail(s) \in Seq(S) /\ Len(Tail(s)) = Len(s) - 1
         /\ \A i \in 1..Len(Tail(s)) : i + 1 \in 1..Len(s) /\ Tail(s)[i] = s[i + 1]
         /\ \A i \in 1..Len(s) : i # 1 => i - 1 \in 1..Len(Tail(s)) /\ Tail(s)[i - 1] = s[i]
<1>1. Len(s) \in Nat /\ Len(s) > 0 /\ Head(s) = s[1]
  BY EmptySeq, LenProperties
<1>2. Tail(s) \in Seq(S) /\ Len(Tail(s)) = Len(s) - 1 /\ \A i \in 1..Len(Tail(s)) : Tail(s)[i] = s[i + 1]
  BY HeadTailProperties
<1>3. s[1] \in S
  BY <1>1, ElementOfSeq
<1>4. \A i \in 1..Len(Tail(s)) : i + 1 \in 1..Len(s)
  BY <1>1, <1>2
<1>5. ASSUME NEW i \in 1..Len(s), i # 1 PROVE i - 1 \in 1..Len(Tail(s)) /\ Tail(s)[i - 1] = s[i]
  <2>1. i - 1 \in 1..Len(Tail(s)) /\ (i - 1) + 1 = i
    BY <1>1, <1>2, <1>5
  <2> QED BY <1>2, <2>1
<1> QED BY <1>1, <1>2, <1>3, <1>4, <1>5

\* One more at the end of a queue.
LEMMA QueueAppend ==
  ASSUME NEW S, NEW s \in Seq(S), NEW e \in S
  PROVE  /\ Len(s) \in Nat /\ Append(s, e) \in Seq(S) /\ Len(Append(s, e)) = Len(s) + 1
         /\ \A i \in 1..Len(s) : i \in 1..Len(Append(s, e)) /\ Append(s, e)[i] = s[i]
         /\ Len(s) + 1 \in 1..Len(Append(s, e)) /\ Append(s, e)[Len(s) + 1] = e
         /\ \A i \in 1..Len(Append(s, e)) : i \in 1..Len(s) \/ i = Len(s) + 1
<1>1. Len(s) \in Nat /\ Append(s, e) \in Seq(S) /\ Len(Append(s, e)) = Len(s) + 1
  BY LenProperties, AppendProperties
<1>2. Append(s, e)[Len(s) + 1] = e /\ \A i \in 1..Len(s) : Append(s, e)[i] = s[i]
  BY AppendProperties
<1> QED BY <1>1, <1>2

\* A query more, or none.
LEMMA AskedOne ==
  ASSUME NEW fl, NEW rq \in Seq(Ops), NEW ib \in Seq(Messages), NEW op \in Ops, NEW ops,
         Flights(fl, rq, ib), op \in ops => op \notin fl
  PROVE  /\ rq \o Asked(op, ops) \in Seq(Ops)
         /\ \A x \in Ops : In(rq \o Asked(op, ops), x) <=> In(rq, x) \/ (x = op /\ op \in ops)
         /\ Flights(fl \cup (ops \cap {op}), rq \o Asked(op, ops), ib)
<1>1. CASE op \notin ops
  <2>1. rq \o Asked(op, ops) = rq
    BY <1>1, ConcatEmptySeq DEF Asked
  <2>2. fl \cup (ops \cap {op}) = fl
    BY <1>1
  <2> QED BY <1>1, <2>1, <2>2
<1>2. CASE op \in ops
  <2> DEFINE r == Append(rq, op)
  <2>1. rq \o Asked(op, ops) = r /\ fl \cup (ops \cap {op}) = fl \cup {op}
    BY <1>2, AppendIsConcat DEF Asked
  <2>2. /\ Len(rq) \in Nat /\ r \in Seq(Ops) /\ Len(r) = Len(rq) + 1
        /\ \A i \in 1..Len(rq) : i \in 1..Len(r) /\ r[i] = rq[i]
        /\ Len(rq) + 1 \in 1..Len(r) /\ r[Len(rq) + 1] = op
        /\ \A i \in 1..Len(r) : i \in 1..Len(rq) \/ i = Len(rq) + 1
    BY QueueAppend
  <2> HIDE DEF r
  <2>3. \A x : In(r, x) <=> In(rq, x) \/ x = op
    BY <2>2, Zenon DEF In
  <2>4. ~In(rq, op) /\ ~Has(ib, op)
    BY <1>2 DEF Flights
  <2>5. \A i, j \in 1..Len(r) : r[i] = r[j] => i = j
    <3>1. \A i \in 1..Len(rq) : rq[i] # op
      BY <2>4 DEF In
    <3>2. \A i, j \in 1..Len(rq) : rq[i] = rq[j] => i = j
      BY DEF Flights
    <3> QED BY <2>2, <3>1, <3>2
  <2>6. Flights(fl \cup {op}, r, ib)
    BY <2>3, <2>4, <2>5, Zenon DEF Flights
  <2> QED BY <1>2, <2>1, <2>2, <2>3, <2>6
<1> QED BY <1>1, <1>2

\* A query is a query of the tracker.
LEMMA AskedTyped ==
  ASSUME NEW op \in Ops, NEW ops
  PROVE  Asked(op, ops) \in Seq(Ops)
<1>1. CASE op \in ops
  BY <1>1 DEF Asked
<1>2. CASE op \notin ops
  BY <1>2 DEF Asked
<1> QED BY <1>1, <1>2

\* The same, with what becomes of the queue and of the operations in flight as operators of
\* their own, since the provers do not find what they need in chains of \o and \cup.
Queue(rq, op, ops) == rq \o Asked(op, ops)
Flown(fl, op, ops) == fl \cup (ops \cap {op})

\* The queues as they should be, and the operations that wait in the first.
Ready(fl, rq, ib) == rq \in Seq(Ops) /\ ib \in Seq(Messages) /\ Flights(fl, rq, ib)
Waits(rq) == {x \in Ops : In(rq, x)}

LEMMA AskedNext ==
  ASSUME NEW fl, NEW rq, NEW ib, NEW op, NEW ops, op \in Ops,
         Ready(fl, rq, ib), op \in ops => op \notin fl
  PROVE  /\ Ready(Flown(fl, op, ops), Queue(rq, op, ops), ib)
         /\ Waits(Queue(rq, op, ops)) = Flown(Waits(rq), op, ops)
<1>1. rq \in Seq(Ops) /\ ib \in Seq(Messages) /\ Flights(fl, rq, ib)
  BY DEF Ready
<1>2. /\ rq \o Asked(op, ops) \in Seq(Ops)
      /\ \A x \in Ops : In(rq \o Asked(op, ops), x) <=> In(rq, x) \/ (x = op /\ op \in ops)
      /\ Flights(fl \cup (ops \cap {op}), rq \o Asked(op, ops), ib)
  BY <1>1, AskedOne, Zenon
<1>3. Ready(Flown(fl, op, ops), Queue(rq, op, ops), ib)
  BY <1>1, <1>2 DEF Ready, Flown, Queue
<1>4. \A x \in Ops : In(Queue(rq, op, ops), x) <=> In(rq, x) \/ (x = op /\ op \in ops)
  BY <1>2 DEF Queue
<1>5. Waits(Queue(rq, op, ops)) = Flown(Waits(rq), op, ops)
  BY <1>4 DEF Waits, Flown
<1> QED BY <1>3, <1>5

\* Three of them, each after the others.
Flown3(fl, x, y, z, ops) == Flown(Flown(Flown(fl, x, ops), y, ops), z, ops)
Queue3(rq, x, y, z, ops) == Queue(Queue(Queue(rq, x, ops), y, ops), z, ops)

LEMMA AskedThree ==
  ASSUME NEW fl, NEW rq, NEW ib, NEW ops, NEW x, NEW y, NEW z, x \in Ops, y \in Ops, z \in Ops,
         Ready(fl, rq, ib), x \in ops => x \notin fl, y \in ops => y \notin Flown(fl, x, ops),
         z \in ops => z \notin Flown(Flown(fl, x, ops), y, ops)
  PROVE  /\ Ready(Flown3(fl, x, y, z, ops), Queue3(rq, x, y, z, ops), ib)
         /\ Waits(Queue3(rq, x, y, z, ops)) = Flown3(Waits(rq), x, y, z, ops)
<1>1. /\ Ready(Flown(fl, x, ops), Queue(rq, x, ops), ib)
      /\ Waits(Queue(rq, x, ops)) = Flown(Waits(rq), x, ops)
  BY AskedNext, SMT
<1>2. /\ Ready(Flown(Flown(fl, x, ops), y, ops), Queue(Queue(rq, x, ops), y, ops), ib)
      /\ Waits(Queue(Queue(rq, x, ops), y, ops)) = Flown(Waits(Queue(rq, x, ops)), y, ops)
  BY <1>1, AskedNext, SMT
<1> QED
  BY <1>1, <1>2, AskedNext, SMT DEF Flown3, Queue3

\* Queries are asked one after another.
Cat(r, x) == r \o x

LEMMA CatAssociative ==
  ASSUME NEW r \in Seq(Ops), NEW x \in Seq(Ops), NEW y \in Seq(Ops)
  PROVE  Cat(r, x) \in Seq(Ops) /\ Cat(Cat(r, x), y) = Cat(r, Cat(x, y))
<1>1. Cat(r, x) \in Seq(Ops)
  BY ConcatProperties DEF Cat
<1>2. Cat(Cat(r, x), y) = Cat(r, Cat(x, y))
  BY ConcatAssociative DEF Cat
<1> QED BY <1>1, <1>2

LEMMA AskedInOrder ==
  ASSUME NEW rq \in Seq(Ops), NEW ops
  PROVE  /\ InOrder(ops) \in Seq(Ops)
         /\ rq \o InOrder(ops)
              = ((rq \o Asked("exists", ops)) \o Asked("get", ops)) \o Asked("getc", ops)
<1> DEFINE x == Asked("exists", ops)
           y == Asked("get", ops)
           z == Asked("getc", ops)
<1>1. x \in Seq(Ops) /\ y \in Seq(Ops) /\ z \in Seq(Ops)
  BY AskedTyped DEF Ops
<1>2. InOrder(ops) = Cat(Cat(x, y), z)
  BY DEF InOrder, Cat
<1>3. ((rq \o Asked("exists", ops)) \o Asked("get", ops)) \o Asked("getc", ops)
        = Cat(Cat(Cat(rq, x), y), z)
  BY DEF Cat
<1> HIDE DEF x, y, z
<1>4. Cat(x, y) \in Seq(Ops) /\ Cat(Cat(x, y), z) \in Seq(Ops)
  BY <1>1, CatAssociative
<1>5. Cat(Cat(rq, x), y) = Cat(rq, Cat(x, y))
  BY <1>1, CatAssociative
<1>6. Cat(Cat(rq, Cat(x, y)), z) = Cat(rq, Cat(Cat(x, y), z))
  BY <1>1, <1>4, CatAssociative
<1>7. rq \o InOrder(ops) = Cat(rq, Cat(Cat(x, y), z))
  BY <1>2 DEF Cat
<1> QED BY <1>2, <1>3, <1>4, <1>5, <1>6, <1>7

\* Queries that are not in flight are made.
LEMMA QueriesMade ==
  ASSUME NEW fl, NEW rq \in Seq(Ops), NEW ib \in Seq(Messages), NEW ops \in SUBSET Ops,
         Flights(fl, rq, ib), ops \cap fl = {}
  PROVE  /\ rq \o InOrder(ops) \in Seq(Ops)
         /\ \A x \in Ops : In(rq \o InOrder(ops), x) <=> In(rq, x) \/ x \in ops
         /\ Flights(fl \cup ops, rq \o InOrder(ops), ib)
<1> DEFINE c == Queue3(rq, "exists", "get", "getc", ops)
           h == Flown3(fl, "exists", "get", "getc", ops)
<1>1. "exists" \in Ops /\ "get" \in Ops /\ "getc" \in Ops
  BY DEF Ops
<1>2. /\ "exists" \in ops => "exists" \notin fl
      /\ "get" \in ops => "get" \notin Flown(fl, "exists", ops)
      /\ "getc" \in ops => "getc" \notin Flown(Flown(fl, "exists", ops), "get", ops)
  BY DEF Flown
<1>3. rq \o InOrder(ops) = c
  BY AskedInOrder, Zenon DEF Queue, Queue3
<1>4. h = fl \cup ops /\ Flown3(Waits(rq), "exists", "get", "getc", ops) = Waits(rq) \cup ops
  BY DEF Ops, Flown, Flown3
<1>5. Ready(fl, rq, ib)
  BY DEF Ready
<1>6. Ready(h, c, ib) /\ Waits(c) = Flown3(Waits(rq), "exists", "get", "getc", ops)
  BY <1>1, <1>2, <1>5, AskedThree
<1> HIDE DEF c, h
<1>7. \A x \in Ops : In(c, x) <=> In(rq, x) \/ x \in ops
  <2>1. Waits(c) = Waits(rq) \cup ops
    BY <1>4, <1>6
  <2> QED BY <2>1 DEF Waits
<1>8. c \in Seq(Ops) /\ Flights(h, c, ib)
  BY <1>6 DEF Ready
<1> QED BY <1>3, <1>4, <1>7, <1>8

\* An answer or an event is taken from the inbox.
LEMMA MessageTaken ==
  ASSUME NEW fl, NEW rq \in Seq(Ops), NEW ib \in Seq(Messages), ib # <<>>, Flights(fl, rq, ib)
  PROVE  Flights(fl \ {Head(ib)[1]}, rq, Tail(ib))
<1> DEFINE t == Tail(ib)
<1>1. /\ Len(ib) \in Nat /\ Len(ib) > 0 /\ Head(ib) = ib[1]
      /\ \A i \in 1..Len(t) : i + 1 \in 1..Len(ib) /\ t[i] = ib[i + 1]
      /\ \A i \in 1..Len(ib) : i # 1 => i - 1 \in 1..Len(t) /\ t[i - 1] = ib[i]
      /\ t \in Seq(Messages) /\ Len(t) \in Nat
  BY QueueTail, LenProperties
<1> HIDE DEF t
<1>2. /\ \A op \in Ops : op \in fl <=> In(rq, op) \/ Has(ib, op)
      /\ \A op \in Ops : ~(In(rq, op) /\ Has(ib, op))
      /\ \A i, j \in 1..Len(rq) : rq[i] = rq[j] => i = j
      /\ \A i, j \in 1..Len(ib) : ib[i][1] = ib[j][1] /\ ib[i][1] \in Ops => i = j
  BY DEF Flights
<1>3. ASSUME NEW op \in Ops PROVE Has(t, op) <=> Has(ib, op) /\ op # ib[1][1]
  <2>1. ASSUME NEW i \in 1..Len(t), t[i][1] = op PROVE Has(ib, op) /\ op # ib[1][1]
    <3>1. i + 1 \in 1..Len(ib) /\ t[i] = ib[i + 1]
      BY <1>1
    <3>2. i + 1 # 1 /\ 1 \in 1..Len(ib)
      BY <1>1
    <3>3. ib[i + 1][1] = op
      BY <2>1, <3>1
    <3> QED BY <1>2, <3>1, <3>2, <3>3 DEF Has
  <2>2. ASSUME NEW i \in 1..Len(ib), ib[i][1] = op, op # ib[1][1] PROVE Has(t, op)
    <3>1. i - 1 \in 1..Len(t) /\ t[i - 1] = ib[i]
      BY <1>1, <2>2
    <3> QED BY <2>2, <3>1 DEF Has
  <2> QED BY <2>1, <2>2 DEF Has
<1>4. \A i, j \in 1..Len(t) : t[i][1] = t[j][1] /\ t[i][1] \in Ops => i = j
  <2> SUFFICES ASSUME NEW i \in 1..Len(t), NEW j \in 1..Len(t), t[i][1] = t[j][1], t[i][1] \in Ops
               PROVE  i = j
    OBVIOUS
  <2>1. i + 1 \in 1..Len(ib) /\ j + 1 \in 1..Len(ib) /\ t[i] = ib[i + 1] /\ t[j] = ib[j + 1]
    BY <1>1
  <2>2. ib[i + 1][1] = ib[j + 1][1] /\ ib[i + 1][1] \in Ops
    BY <2>1
  <2>3. i + 1 = j + 1
    BY <1>2, <2>1, <2>2, Zenon
  <2> QED BY <1>1, <2>3
<1>5. 1 \in 1..Len(ib)
  BY <1>1
<1>6. ib[1][1] \in Ops => ~In(rq, ib[1][1])
  BY <1>2, <1>5 DEF Has
<1>7. \A op \in Ops : op \in fl \ {ib[1][1]} <=> In(rq, op) \/ Has(t, op)
  BY <1>2, <1>3, <1>6
<1>8. Flights(fl \ {ib[1][1]}, rq, t)
  BY <1>2, <1>3, <1>4, <1>7 DEF Flights
<1> QED BY <1>1, <1>8 DEF t

\* A request is answered, with whatever message.
LEMMA RequestServed ==
  ASSUME NEW fl, NEW rq \in Seq(Ops), NEW ib \in Seq(Messages), rq # <<>>, NEW m \in Messages,
         m[1] = Head(rq), Flights(fl, rq, ib)
  PROVE  Flights(fl, Tail(rq), Append(ib, m))
<1> DEFINE t == Tail(rq)
           n == Append(ib, m)
<1>1. /\ Len(rq) \in Nat /\ Len(rq) > 0 /\ Head(rq) = rq[1] /\ rq[1] \in Ops
      /\ \A i \in 1..Len(t) : i + 1 \in 1..Len(rq) /\ t[i] = rq[i + 1]
      /\ \A i \in 1..Len(rq) : i # 1 => i - 1 \in 1..Len(t) /\ t[i - 1] = rq[i]
      /\ t \in Seq(Ops)
  BY QueueTail
<1>2. /\ Len(ib) \in Nat /\ n \in Seq(Messages) /\ Len(n) = Len(ib) + 1
      /\ \A i \in 1..Len(ib) : i \in 1..Len(n) /\ n[i] = ib[i]
      /\ Len(ib) + 1 \in 1..Len(n) /\ n[Len(ib) + 1] = m
      /\ \A i \in 1..Len(n) : i \in 1..Len(ib) \/ i = Len(ib) + 1
  BY QueueAppend
<1> HIDE DEF t, n
<1>3. /\ \A op \in Ops : op \in fl <=> In(rq, op) \/ Has(ib, op)
      /\ \A op \in Ops : ~(In(rq, op) /\ Has(ib, op))
      /\ \A i, j \in 1..Len(rq) : rq[i] = rq[j] => i = j
      /\ \A i, j \in 1..Len(ib) : ib[i][1] = ib[j][1] /\ ib[i][1] \in Ops => i = j
  BY DEF Flights
<1>4. 1 \in 1..Len(rq)
  BY <1>1
<1>5. In(rq, rq[1]) /\ ~Has(ib, rq[1])
  BY <1>1, <1>3, <1>4 DEF In
<1>6. \A op : Has(n, op) <=> Has(ib, op) \/ op = rq[1]
  BY <1>1, <1>2, Zenon DEF Has
<1>7. ASSUME NEW op \in Ops PROVE In(t, op) <=> In(rq, op) /\ op # rq[1]
  <2>1. ASSUME NEW i \in 1..Len(t), t[i] = op PROVE In(rq, op) /\ op # rq[1]
    <3>1. i + 1 \in 1..Len(rq) /\ rq[i + 1] = op /\ i + 1 # 1
      BY <1>1, <2>1
    <3> QED BY <1>3, <1>4, <3>1 DEF In
  <2>2. ASSUME NEW i \in 1..Len(rq), rq[i] = op, op # rq[1] PROVE In(t, op)
    <3>1. i - 1 \in 1..Len(t) /\ t[i - 1] = rq[i]
      BY <1>1, <2>2
    <3> QED BY <2>2, <3>1 DEF In
  <2> QED BY <2>1, <2>2 DEF In
<1>8. \A i, j \in 1..Len(t) : t[i] = t[j] => i = j
  <2> SUFFICES ASSUME NEW i \in 1..Len(t), NEW j \in 1..Len(t), t[i] = t[j] PROVE i = j
    OBVIOUS
  <2>1. i + 1 \in 1..Len(rq) /\ j + 1 \in 1..Len(rq) /\ rq[i + 1] = rq[j + 1]
    BY <1>1
  <2>2. i + 1 = j + 1
    BY <1>3, <2>1, Zenon
  <2> QED BY <1>1, <2>2
<1>9. \A i, j \in 1..Len(n) : n[i][1] = n[j][1] /\ n[i][1] \in Ops => i = j
  <2>1. \A i \in 1..Len(ib) : ib[i][1] # m[1]
    BY <1>1, <1>5 DEF Has
  <2> QED BY <1>2, <1>3, <2>1
<1>10. \A op \in Ops : op \in fl <=> In(t, op) \/ Has(n, op)
  BY <1>3, <1>5, <1>6, <1>7
<1>11. \A op \in Ops : ~(In(t, op) /\ Has(n, op))
  BY <1>3, <1>6, <1>7
<1> QED BY <1>8, <1>9, <1>10, <1>11 DEF Flights, t, n

\* An event that is no answer.
LEMMA EventCame ==
  ASSUME NEW fl, NEW rq, NEW ib \in Seq(Messages), NEW m \in Messages, m[1] = "event",
         Flights(fl, rq, ib)
  PROVE  Flights(fl, rq, Append(ib, m))
<1> DEFINE n == Append(ib, m)
<1>1. /\ Len(ib) \in Nat /\ n \in Seq(Messages) /\ Len(n) = Len(ib) + 1
      /\ \A i \in 1..Len(ib) : i \in 1..Len(n) /\ n[i] = ib[i]
      /\ Len(ib) + 1 \in 1..Len(n) /\ n[Len(ib) + 1] = m
      /\ \A i \in 1..Len(n) : i \in 1..Len(ib) \/ i = Len(ib) + 1
  BY QueueAppend
<1> HIDE DEF n
<1>2. m[1] \notin Ops
  BY DEF Ops
<1>3. \A op \in Ops : Has(n, op) <=> Has(ib, op)
  BY <1>1, <1>2 DEF Has
<1>4. \A i, j \in 1..Len(ib) : ib[i][1] = ib[j][1] /\ ib[i][1] \in Ops => i = j
  BY DEF Flights
<1>5. \A i, j \in 1..Len(n) : n[i][1] = n[j][1] /\ n[i][1] \in Ops => i = j
  BY <1>1, <1>2, <1>4
<1> QED BY <1>3, <1>5, Zenon DEF Flights, n

\* One queue after another.
LEMMA QueuesJoined ==
  ASSUME NEW S, NEW s \in Seq(S), NEW e \in Seq(S)
  PROVE  /\ Len(s) \in Nat /\ Len(e) \in Nat /\ s \o e \in Seq(S)
         /\ \A i \in 1..Len(s) : i \in 1..Len(s \o e) /\ (s \o e)[i] = s[i]
         /\ \A i \in 1..Len(e) : Len(s) + i \in 1..Len(s \o e) /\ (s \o e)[Len(s) + i] = e[i]
         /\ \A i \in 1..Len(s \o e) : i \in 1..Len(s) \/ \E j \in 1..Len(e) : i = Len(s) + j
<1>1. Len(s) \in Nat /\ Len(e) \in Nat
  BY LenProperties
<1>2. /\ s \o e \in Seq(S) /\ Len(s \o e) = Len(s) + Len(e)
      /\ \A i \in 1..Len(s) + Len(e) :
           (s \o e)[i] = IF i <= Len(s) THEN s[i] ELSE e[i - Len(s)]
  BY ConcatProperties
<1>3. ASSUME NEW i \in 1..Len(s) PROVE i \in 1..Len(s \o e) /\ (s \o e)[i] = s[i]
  BY <1>1, <1>2
<1>4. ASSUME NEW i \in 1..Len(e)
      PROVE  Len(s) + i \in 1..Len(s \o e) /\ (s \o e)[Len(s) + i] = e[i]
  <2>1. Len(s) + i \in 1..Len(s) + Len(e) /\ ~(Len(s) + i <= Len(s)) /\ (Len(s) + i) - Len(s) = i
    BY <1>1
  <2> QED BY <1>2, <2>1
<1>5. ASSUME NEW i \in 1..Len(s \o e)
      PROVE  i \in 1..Len(s) \/ \E j \in 1..Len(e) : i = Len(s) + j
  <2>1. i \in 1..Len(s) \/ (i - Len(s) \in 1..Len(e) /\ i = Len(s) + (i - Len(s)))
    BY <1>1, <1>2
  <2> QED BY <2>1
<1> QED BY <1>1, <1>2, <1>3, <1>4, <1>5

Failures(rq) == [i \in DOMAIN rq |-> <<rq[i], "error", Null>>]

\* An answer for each request.
LEMMA FailuresTyped ==
  ASSUME NEW rq \in Seq(Ops), MaxChanges \in Nat
  PROVE  /\ Failures(rq) \in Seq(Messages) /\ Len(Failures(rq)) = Len(rq)
         /\ \A i \in 1..Len(rq) : Failures(rq)[i] = <<rq[i], "error", Null>>
<1>1. Len(rq) \in Nat /\ DOMAIN rq = 1..Len(rq) /\ \A i \in 1..Len(rq) : rq[i] \in Ops
  BY LenProperties, ElementOfSeq
<1>2. Null \in Versions
  BY DEF Versions, Null
<1>3. \A i \in 1..Len(rq) : <<rq[i], "error", Null>> \in Messages
  BY <1>1, <1>2 DEF Messages
<1>4. Failures(rq) \in [1..Len(rq) -> Messages]
  BY <1>1, <1>3 DEF Failures
<1>5. Failures(rq) \in Seq(Messages) /\ Len(Failures(rq)) = Len(rq)
  BY <1>1, <1>4, SeqDef, LenProperties
<1> QED BY <1>1, <1>5 DEF Failures

\* The requests fail.
LEMMA RequestsFailed ==
  ASSUME NEW fl, NEW rq \in Seq(Ops), NEW ib \in Seq(Messages), Flights(fl, rq, ib),
         MaxChanges \in Nat
  PROVE  Flights(fl, <<>>, ib \o Failures(rq))
<1> DEFINE e == Failures(rq)
           n == ib \o e
<1>1. e \in Seq(Messages) /\ Len(e) = Len(rq) /\ \A i \in 1..Len(rq) : e[i] = <<rq[i], "error", Null>>
  BY FailuresTyped
<1> HIDE DEF e
<1>2. /\ Len(ib) \in Nat /\ Len(rq) \in Nat
      /\ \A i \in 1..Len(ib) : i \in 1..Len(n) /\ n[i] = ib[i]
      /\ \A i \in 1..Len(rq) : Len(ib) + i \in 1..Len(n) /\ n[Len(ib) + i] = e[i]
      /\ \A i \in 1..Len(n) : i \in 1..Len(ib) \/ \E j \in 1..Len(rq) : i = Len(ib) + j
  <2>1. /\ Len(ib) \in Nat /\ Len(e) \in Nat
        /\ \A i \in 1..Len(ib) : i \in 1..Len(n) /\ n[i] = ib[i]
        /\ \A i \in 1..Len(e) : Len(ib) + i \in 1..Len(n) /\ n[Len(ib) + i] = e[i]
        /\ \A i \in 1..Len(n) : i \in 1..Len(ib) \/ \E j \in 1..Len(e) : i = Len(ib) + j
    BY <1>1, QueuesJoined
  <2> HIDE DEF n
  <2> QED BY <1>1, <2>1
<1> HIDE DEF n
<1>3. \A i \in 1..Len(rq) : n[Len(ib) + i][1] = rq[i]
  <2> SUFFICES ASSUME NEW i \in 1..Len(rq) PROVE n[Len(ib) + i][1] = rq[i]
    OBVIOUS
  <2>1. n[Len(ib) + i] = e[i] /\ e[i] = <<rq[i], "error", Null>>
    BY <1>1, <1>2, Zenon
  <2> QED BY <2>1
<1>4. /\ \A op \in Ops : op \in fl <=> In(rq, op) \/ Has(ib, op)
      /\ \A op \in Ops : ~(In(rq, op) /\ Has(ib, op))
      /\ \A i, j \in 1..Len(rq) : rq[i] = rq[j] => i = j
      /\ \A i, j \in 1..Len(ib) : ib[i][1] = ib[j][1] /\ ib[i][1] \in Ops => i = j
  BY DEF Flights
<1>5. ASSUME NEW op \in Ops PROVE Has(n, op) <=> In(rq, op) \/ Has(ib, op)
  <2>1. ASSUME NEW i \in 1..Len(n), n[i][1] = op PROVE In(rq, op) \/ Has(ib, op)
    <3>1. CASE i \in 1..Len(ib)
      BY <1>2, <2>1, <3>1 DEF Has
    <3>2. CASE \E j \in 1..Len(rq) : i = Len(ib) + j
      BY <1>3, <2>1, <3>2 DEF In
    <3> QED BY <1>2, <3>1, <3>2
  <2>2. ASSUME NEW i \in 1..Len(ib), ib[i][1] = op PROVE Has(n, op)
    BY <1>2, <2>2 DEF Has
  <2>3. ASSUME NEW i \in 1..Len(rq), rq[i] = op PROVE Has(n, op)
    BY <1>2, <1>3, <2>3 DEF Has
  <2> QED BY <2>1, <2>2, <2>3 DEF Has, In
<1>6. \A op : ~In(<<>>, op)
  BY DEF In
<1>7. ASSUME NEW i \in 1..Len(n), NEW j \in 1..Len(n), n[i][1] = n[j][1], n[i][1] \in Ops
      PROVE  i = j
  <2>1. CASE i \in 1..Len(ib) /\ j \in 1..Len(ib)
    BY <1>2, <1>4, <1>7, <2>1
  <2>2. ASSUME NEW x \in 1..Len(n), NEW y \in 1..Len(n), x \in 1..Len(ib), n[x][1] = n[y][1],
               n[x][1] \in Ops, NEW b \in 1..Len(rq), y = Len(ib) + b
        PROVE  FALSE
    <3>1. ib[x][1] = rq[b]
      BY <1>2, <1>3, <2>2
    <3>2. In(rq, rq[b]) /\ Has(ib, rq[b])
      BY <2>2, <3>1 DEF In, Has
    <3> QED BY <1>2, <1>4, <2>2, <3>1, <3>2
  <2>3. ASSUME NEW a \in 1..Len(rq), NEW b \in 1..Len(rq), i = Len(ib) + a, j = Len(ib) + b
        PROVE  i = j
    <3>1. rq[a] = rq[b]
      BY <1>3, <1>7, <2>3
    <3> QED BY <1>4, <2>3, <3>1
  <2>4. n[j][1] \in Ops /\ n[j][1] = n[i][1]
    BY <1>7
  <2> QED BY <1>2, <1>7, <2>1, <2>2, <2>3, <2>4
<1>8. \A i, j \in 1..Len(<<>>) : <<>>[i] = <<>>[j] => i = j
  OBVIOUS
<1>9. Flights(fl, <<>>, n)
  BY <1>4, <1>5, <1>6, <1>7, <1>8 DEF Flights
<1> QED BY <1>9 DEF n, e

\* A set without two different members.
LEMMA CountOne ==
  ASSUME NEW T, \A x, y \in T : x = y
  PROVE  Cardinality(T) = IF T = {} THEN 0 ELSE 1
<1>1. CASE T = {}
  BY <1>1, FS_EmptySet
<1>2. CASE T # {}
  <2>1. PICK x : x \in T
    BY <1>2
  <2>2. T = {x}
    BY <2>1
  <2> QED BY <1>2, <2>2, FS_Singleton
<1> QED BY <1>1, <1>2

\* One place for each query in flight, none for the others: what FlightsMatch counts.
LEMMA FlightsCount ==
  ASSUME NEW fl, NEW rq \in Seq(Ops), NEW ib \in Seq(Messages), Flights(fl, rq, ib), NEW op \in Ops
  PROVE  Cardinality({i \in DOMAIN rq : rq[i] = op}) + Cardinality({i \in DOMAIN ib : ib[i][1] = op})
           = IF op \in fl THEN 1 ELSE 0
<1> DEFINE R == {i \in DOMAIN rq : rq[i] = op}
           I == {i \in DOMAIN ib : ib[i][1] = op}
<1>1. DOMAIN rq = 1..Len(rq) /\ DOMAIN ib = 1..Len(ib)
  BY LenProperties
<1>2. (R # {} <=> In(rq, op)) /\ (I # {} <=> Has(ib, op))
  BY <1>1 DEF In, Has
<1>3. \A x, y \in R : x = y
  BY <1>1 DEF Flights
<1>4. \A x, y \in I : x = y
  BY <1>1 DEF Flights
<1>5. (op \in fl <=> R # {} \/ I # {}) /\ ~(R # {} /\ I # {})
  BY <1>2 DEF Flights
<1> HIDE DEF R, I
<1>6. Cardinality(R) = IF R = {} THEN 0 ELSE 1
  BY <1>3, CountOne, Zenon
<1>7. Cardinality(I) = IF I = {} THEN 0 ELSE 1
  BY <1>4, CountOne, Zenon
<1>8. Cardinality(R) + Cardinality(I) = IF op \in fl THEN 1 ELSE 0
  BY <1>5, <1>6, <1>7
<1> QED BY <1>8 DEF R, I

Calls == Callbacks \X (Kinds \cup {"error", "session"}) \X Versions

\* The types, and a connection that breaks is still within the bound.
TrackType == TypeOK /\ (connection = "connecting" => expiries < MaxExpiries)
FlightInv == TrackType /\ (attached => Flights(inFlight, requests, inbox))

LEMMA NullTyped == Null \in Versions /\ Null \in Int
BY TrackerAssumption DEF Versions, Null

\* Calls to whom they may concern.
LEMMA NotifyTyped ==
  ASSUME NEW ts \in SUBSET Tracker
  PROVE  /\ NotifyError(ts) \in SUBSET Calls /\ NotifyNull(ts) \in SUBSET Calls
         /\ \A kind \in Kinds, v \in Versions : Notify(ts, kind, v) \in SUBSET Calls
         /\ {<<c, "session", Null>> : c \in Users(ts)} \in SUBSET Calls
<1>1. \A us \in SUBSET ts : Users(us) \subseteq Callbacks
  BY DEF Users, Tracker
<1>2. \A kind \in Kinds, v \in Versions : Notify(ts, kind, v) \in SUBSET Calls
  <2> SUFFICES ASSUME NEW kind \in Kinds, NEW v \in Versions PROVE Notify(ts, kind, v) \in SUBSET Calls
    OBVIOUS
  <2>1. PICK U : U = Users({t \in ts : t[kind]})
    OBVIOUS
  <2>2. U \subseteq Callbacks
    BY <1>1, <2>1
  <2>3. Notify(ts, kind, v) = {<<c, kind, v>> : c \in U}
    BY <2>1, Zenon DEF Notify
  <2> QED BY <2>2, <2>3 DEF Calls
<1>3. NotifyNull(ts) \in SUBSET Calls
  BY <1>2, NullTyped DEF NotifyNull, Kinds
<1>4. Users(ts) \subseteq Callbacks
  BY <1>1
<1> QED BY <1>2, <1>3, <1>4, NullTyped DEF NotifyError, Calls

\* Queries are made that are not in flight.
LEMMA GetOpsNew ==
  ASSUME NEW needs, NEW erased \in BOOLEAN, NEW fl
  PROVE  GetOps(needs, erased, fl) \in SUBSET Ops /\ GetOps(needs, erased, fl) \cap fl = {}
<1>1. CASE needs = {}
  BY <1>1 DEF GetOps
<1>2. CASE needs # {} /\ erased
  BY <1>2 DEF GetOps, Ops
<1>3. CASE needs # {} /\ ~erased
  BY <1>3 DEF GetOps, Ops
<1> QED BY <1>1, <1>2, <1>3

LEMMA AskNothing ==
  ASSUME NEW rq \in Seq(Ops)
  PROVE  rq \o InOrder({}) = rq
<1>1. InOrder({}) = (<<>> \o <<>>) \o <<>>
  BY DEF InOrder, Asked
<1>2. <<>> \in Seq(Ops)
  OBVIOUS
<1>3. InOrder({}) = <<>>
  BY <1>1, <1>2, ConcatEmptySeq
<1> QED BY <1>3, ConcatEmptySeq

\* What Process() does to the queues and whom it calls.
LEMMA ProcessShape ==
  ASSUME TypeOK, NEW kinds \in SUBSET Kinds, NEW fl \in SUBSET Ops, Process(kinds, fl)
  PROVE  \E ops \in SUBSET Ops :
           /\ ops \cap fl = {} /\ requests' = requests \o InOrder(ops) /\ inFlight' = fl \cup ops
           /\ calling' \in SUBSET Calls
           /\ \/ calling' = NotifyError(tracks) /\ ops = {}
              \/ calling' = {} /\ ops = GetOps(Needs(tracks, kinds, FALSE), FALSE, fl)
<1> DEFINE needs == Needs(tracks, kinds, FALSE)
           ops == GetOps(needs, FALSE, fl)
<1>1. requests \in Seq(Ops) /\ tracks \in SUBSET Tracker
  BY DEF TypeOK
<1>2. CASE calling' = NotifyError(tracks) /\ inFlight' = fl /\ requests' = requests
  <2>1. requests' = requests \o InOrder({})
    BY <1>1, <1>2, AskNothing
  <2>2. calling' \in SUBSET Calls
    BY <1>1, <1>2, NotifyTyped
  <2>3. {} \in SUBSET Ops /\ {} \cap fl = {} /\ inFlight' = fl \cup {}
    BY <1>2
  <2> QED BY <1>2, <2>1, <2>2, <2>3
<1>3. CASE calling' = {} /\ Query(ops, fl)
  <2>1. ops \in SUBSET Ops /\ ops \cap fl = {}
    BY GetOpsNew
  <2>2. requests' = requests \o InOrder(ops) /\ inFlight' = fl \cup ops
    BY <1>3 DEF Query
  <2> HIDE DEF ops
  <2>3. calling' \in SUBSET Calls
    BY <1>3
  <2> QED BY <1>3, <2>1, <2>2, <2>3 DEF ops
<1> QED BY <1>2, <1>3 DEF Process

LEMMA ProcessErasedShape ==
  ASSUME TypeOK, NEW fl \in SUBSET Ops, ProcessErased(fl)
  PROVE  \E ops \in SUBSET Ops :
           /\ ops \cap fl = {} /\ requests' = requests \o InOrder(ops) /\ inFlight' = fl \cup ops
           /\ calling' \in SUBSET Calls
           /\ \/ calling' = NotifyError(tracks) /\ ops = {}
              \/ calling' = NotifyNull(tracks) /\ ops = GetOps(Needs(tracks, Kinds, TRUE), TRUE, fl)
<1> DEFINE needs == Needs(tracks, Kinds, TRUE)
           ops == GetOps(needs, TRUE, fl)
<1>1. requests \in Seq(Ops) /\ tracks \in SUBSET Tracker
  BY DEF TypeOK
<1>2. CASE calling' = NotifyError(tracks) /\ inFlight' = fl /\ requests' = requests
  <2>1. requests' = requests \o InOrder({})
    BY <1>1, <1>2, AskNothing
  <2>2. calling' \in SUBSET Calls
    BY <1>1, <1>2, NotifyTyped
  <2>3. {} \in SUBSET Ops /\ {} \cap fl = {} /\ inFlight' = fl \cup {}
    BY <1>2
  <2> QED BY <1>2, <2>1, <2>2, <2>3
<1>3. CASE calling' = NotifyNull(tracks) /\ Query(ops, fl)
  <2>1. ops \in SUBSET Ops /\ ops \cap fl = {}
    BY GetOpsNew
  <2>2. requests' = requests \o InOrder(ops) /\ inFlight' = fl \cup ops
    BY <1>3 DEF Query
  <2>3. calling' \in SUBSET Calls
    BY <1>1, <1>3, NotifyTyped
  <2> HIDE DEF ops
  <2> QED BY <1>3, <2>1, <2>2, <2>3 DEF ops
<1> QED BY <1>2, <1>3 DEF ProcessErased

(***************************************************************************)
(* A message is handled: it leaves the inbox, its flight ends, queries     *)
(* are made, callbacks are to be called.                                   *)
(***************************************************************************)
Answered(ops) ==
  /\ inbox # <<>> /\ calling = {} /\ inbox' = Tail(inbox)
  /\ ops \in SUBSET Ops /\ ops \cap (inFlight \ {Head(inbox)[1]}) = {}
  /\ requests' = requests \o InOrder(ops)
  /\ inFlight' = (inFlight \ {Head(inbox)[1]}) \cup ops
  /\ usage' = usage /\ attached' = attached /\ connection' = connection /\ watch' = watch
  /\ node' = node /\ changes' = changes /\ expiries' = expiries
  /\ seen' = seen /\ failed' = failed
  /\ tracks' \subseteq tracks /\ dead \subseteq dead' /\ dead' \subseteq Ops
  /\ broadcasted' \in BOOLEAN /\ calling' \in SUBSET Calls

Answering ==
  \/ OnExistsOk \/ OnExistsMissing \/ OnEvent \/ OnSession
  \/ \E op \in Ops : OnGetMissing(op) \/ OnGet(op) \/ OnQueryError(op)

\* Of the handlers each.
LEMMA ExistsOkAnswers ==
  ASSUME TypeOK, OnExistsOk
  PROVE  \E ops :
           /\ Answered(ops) /\ tracks' = tracks /\ Head(inbox)[1] = "exists" /\ Head(inbox)[2] = "ok"
           /\ \/ calling' = NotifyError(tracks) /\ ops = {}
              \/ calling' = {}
                 /\ ops = GetOps(Needs(tracks, Kinds, FALSE), FALSE, inFlight \ {Head(inbox)[1]})
<1>1. /\ calling = {} /\ inbox # <<>> /\ Head(inbox)[1] = "exists" /\ Head(inbox)[2] = "ok"
      /\ inbox' = Tail(inbox) /\ Process(Kinds, inFlight \ {"exists"})
  BY DEF OnExistsOk, Answer
<1>2. /\ usage' = usage /\ attached' = attached /\ tracks' = tracks /\ broadcasted' = broadcasted
      /\ connection' = connection /\ watch' = watch /\ dead' = dead /\ node' = node
      /\ changes' = changes /\ expiries' = expiries /\ seen' = seen /\ failed' = failed
  BY DEF OnExistsOk, server
<1>3. /\ inFlight \ {"exists"} \in SUBSET Ops /\ Kinds \in SUBSET Kinds
      /\ dead \subseteq Ops /\ broadcasted \in BOOLEAN
  BY DEF TypeOK
<1> DEFINE fl == inFlight \ {"exists"}
<1>4. PICK ops \in SUBSET Ops :
        /\ ops \cap fl = {} /\ requests' = requests \o InOrder(ops)
        /\ inFlight' = fl \cup ops /\ calling' \in SUBSET Calls
        /\ \/ calling' = NotifyError(tracks) /\ ops = {}
           \/ calling' = {} /\ ops = GetOps(Needs(tracks, Kinds, FALSE), FALSE, fl)
  <2>1. fl \in SUBSET Ops /\ Kinds \in SUBSET Kinds /\ Process(Kinds, fl)
    BY <1>1, <1>3
  <2> HIDE DEF fl
  <2> QED BY <2>1, ProcessShape
<1>5. Answered(ops)
  BY <1>1, <1>2, <1>3, <1>4 DEF Answered
<1> QED BY <1>1, <1>2, <1>4, <1>5

LEMMA ExistsMissingAnswers ==
  ASSUME TypeOK, OnExistsMissing
  PROVE  /\ Answered({}) /\ calling' = {}
         /\ Head(inbox)[1] = "exists" /\ Head(inbox)[2] = "nonode"
<1>1. /\ calling = {} /\ inbox # <<>> /\ Head(inbox)[1] = "exists" /\ Head(inbox)[2] = "nonode"
      /\ inbox' = Tail(inbox) /\ inFlight' = inFlight \ {"exists"} /\ tracks' \subseteq tracks
  BY DEF OnExistsMissing, Answer
<1>2. /\ usage' = usage /\ attached' = attached /\ broadcasted' = broadcasted /\ requests' = requests
      /\ connection' = connection /\ watch' = watch /\ dead' = dead /\ node' = node /\ calling' = calling
      /\ changes' = changes /\ expiries' = expiries /\ seen' = seen /\ failed' = failed
  BY DEF OnExistsMissing, server
<1>3. requests \in Seq(Ops) /\ dead \subseteq Ops /\ broadcasted \in BOOLEAN
  BY DEF TypeOK
<1>4. requests' = requests \o InOrder({})
  BY <1>2, <1>3, AskNothing
<1> QED BY <1>1, <1>2, <1>3, <1>4 DEF Answered

LEMMA GetMissingAnswers ==
  ASSUME TypeOK, NEW op \in Ops, OnGetMissing(op)
  PROVE  \E ops :
           /\ Answered(ops) /\ tracks' = tracks /\ Head(inbox)[1] = op /\ op # "exists"
           /\ \/ calling' = NotifyError(tracks) /\ ops = {}
              \/ calling' = NotifyNull(tracks)
                 /\ ops = GetOps(Needs(tracks, Kinds, TRUE), TRUE, inFlight \ {Head(inbox)[1]})
<1>1. /\ calling = {} /\ inbox # <<>> /\ Head(inbox)[1] = op
      /\ inbox' = Tail(inbox) /\ op # "exists" /\ ProcessErased(inFlight \ {op})
  BY DEF OnGetMissing, Answer
<1>2. /\ usage' = usage /\ attached' = attached /\ tracks' = tracks /\ broadcasted' = broadcasted
      /\ connection' = connection /\ watch' = watch /\ node' = node
      /\ changes' = changes /\ expiries' = expiries /\ seen' = seen /\ failed' = failed
  BY DEF OnGetMissing, server
<1>3. inFlight \ {op} \in SUBSET Ops /\ dead \subseteq Ops /\ broadcasted \in BOOLEAN
  BY DEF TypeOK
<1>4. PICK ops \in SUBSET Ops :
        /\ ops \cap (inFlight \ {op}) = {} /\ requests' = requests \o InOrder(ops)
        /\ inFlight' = (inFlight \ {op}) \cup ops /\ calling' \in SUBSET Calls
        /\ \/ calling' = NotifyError(tracks) /\ ops = {}
           \/ calling' = NotifyNull(tracks) /\ ops = GetOps(Needs(tracks, Kinds, TRUE), TRUE, inFlight \ {op})
  BY <1>1, <1>3, ProcessErasedShape
<1>5. dead \subseteq dead' /\ dead' \subseteq Ops
  BY <1>3 DEF OnGetMissing, Leftover
<1>6. Answered(ops)
  BY <1>1, <1>2, <1>3, <1>4, <1>5 DEF Answered
<1> QED BY <1>1, <1>2, <1>4, <1>6

LEMMA QueryErrorAnswers ==
  ASSUME TypeOK, NEW op \in Ops, OnQueryError(op)
  PROVE  Answered({}) /\ tracks' = tracks /\ calling' = NotifyError(tracks)
<1>1. /\ calling = {} /\ inbox # <<>> /\ Head(inbox)[1] = op
      /\ inbox' = Tail(inbox) /\ inFlight' = inFlight \ {op} /\ calling' = NotifyError(tracks)
  BY DEF OnQueryError, Answer
<1>2. /\ usage' = usage /\ attached' = attached /\ tracks' = tracks /\ broadcasted' = broadcasted
      /\ connection' = connection /\ watch' = watch /\ node' = node /\ requests' = requests
      /\ changes' = changes /\ expiries' = expiries /\ seen' = seen /\ failed' = failed
  BY DEF OnQueryError, server
<1>3. requests \in Seq(Ops) /\ dead \subseteq Ops /\ broadcasted \in BOOLEAN /\ tracks \in SUBSET Tracker
  BY DEF TypeOK
<1>4. requests' = requests \o InOrder({})
  BY <1>2, <1>3, AskNothing
<1>5. dead \subseteq dead' /\ dead' \subseteq Ops
  BY <1>3 DEF OnQueryError, Leftover
<1>6. calling' \in SUBSET Calls
  BY <1>1, <1>3, NotifyTyped
<1> QED BY <1>1, <1>2, <1>3, <1>4, <1>5, <1>6 DEF Answered

LEMMA GetAnswers ==
  ASSUME TypeOK, NEW op \in Ops, OnGet(op)
  PROVE  /\ Answered({}) /\ tracks' = tracks
         /\ Head(inbox)[1] = op /\ Head(inbox)[2] = "ok" /\ op # "exists"
         /\ calling' = Notify(tracks, IF op = "get" THEN "data" ELSE "children", Head(inbox)[3])
<1>1. /\ calling = {} /\ inbox # <<>> /\ Head(inbox)[1] = op /\ Head(inbox)[2] = "ok" /\ op # "exists"
      /\ inbox' = Tail(inbox) /\ inFlight' = inFlight \ {op}
      /\ calling' = Notify(tracks, IF op = "get" THEN "data" ELSE "children", Head(inbox)[3])
  BY DEF OnGet, Answer
<1>2. /\ usage' = usage /\ attached' = attached /\ tracks' = tracks /\ broadcasted' = broadcasted
      /\ connection' = connection /\ watch' = watch /\ node' = node /\ requests' = requests /\ dead' = dead
      /\ changes' = changes /\ expiries' = expiries /\ seen' = seen /\ failed' = failed
  BY DEF OnGet, server
<1>3. /\ requests \in Seq(Ops) /\ dead \subseteq Ops /\ broadcasted \in BOOLEAN /\ tracks \in SUBSET Tracker
      /\ inbox \in Seq(Messages)
  BY DEF TypeOK
<1>4. requests' = requests \o InOrder({})
  BY <1>2, <1>3, AskNothing
<1>5. Head(inbox) \in Messages
  BY <1>1, <1>3, QueueTail
<1>6. Head(inbox)[3] \in Versions
  BY <1>1, <1>5, MessageHas
<1>7. (IF op = "get" THEN "data" ELSE "children") \in Kinds
  BY DEF Kinds
<1>8. calling' \in SUBSET Calls
  BY <1>1, <1>3, <1>6, <1>7, NotifyTyped
<1> QED BY <1>1, <1>2, <1>3, <1>4, <1>8 DEF Answered

LEMMA SessionAnswers ==
  ASSUME TypeOK, OnSession
  PROVE  /\ Answered({}) /\ tracks' = tracks /\ Head(inbox)[1] = "event" /\ Head(inbox)[2] = "session"
         /\ \A x \in calling' : x[2] = "session"
<1>1. /\ calling = {} /\ inbox # <<>> /\ Head(inbox)[1] = "event" /\ Head(inbox)[2] = "session"
      /\ inbox' = Tail(inbox) /\ broadcasted' = TRUE
      /\ calling' = IF broadcasted THEN {} ELSE {<<c, "session", Null>> : c \in Users(tracks)}
  BY DEF OnSession, Event, Answer
<1>2. /\ usage' = usage /\ attached' = attached /\ tracks' = tracks /\ inFlight' = inFlight
      /\ connection' = connection /\ watch' = watch /\ node' = node /\ requests' = requests /\ dead' = dead
      /\ changes' = changes /\ expiries' = expiries /\ seen' = seen /\ failed' = failed
  BY DEF OnSession, server
<1>3. requests \in Seq(Ops) /\ dead \subseteq Ops /\ tracks \in SUBSET Tracker /\ inFlight \subseteq Ops
  BY DEF TypeOK
<1>4. requests' = requests \o InOrder({})
  BY <1>2, <1>3, AskNothing
<1>5. inFlight' = (inFlight \ {"event"}) \cup {}
  BY <1>2, <1>3 DEF Ops
<1>6. calling' \in SUBSET Calls
  BY <1>1, <1>3, NotifyTyped
<1>7. \A x \in calling' : x[2] = "session"
  BY <1>1
<1> QED BY <1>1, <1>2, <1>3, <1>4, <1>5, <1>6, <1>7 DEF Answered

\* The kinds that an event is about.
About(type) == IF type = "changed" THEN {"data"} ELSE IF type = "child" THEN {"children"} ELSE Kinds

LEMMA EventAnswers ==
  ASSUME TypeOK, OnEvent
  PROVE  \E ops :
           /\ Answered(ops) /\ tracks' = tracks /\ Head(inbox)[1] = "event"
           /\ \/ calling' = NotifyError(tracks) /\ ops = {}
              \/ /\ Head(inbox)[2] \in {"created", "changed", "child"} /\ calling' = {}
                 /\ ops = GetOps(Needs(tracks, About(Head(inbox)[2]), FALSE), FALSE,
                                 inFlight \ {Head(inbox)[1]})
              \/ /\ Head(inbox)[2] = "deleted" /\ calling' = NotifyNull(tracks)
                 /\ ops = GetOps(Needs(tracks, Kinds, TRUE), TRUE, inFlight \ {Head(inbox)[1]})
<1>1. /\ calling = {} /\ inbox # <<>> /\ Head(inbox)[1] = "event" /\ inbox' = Tail(inbox)
      /\ \/ /\ Head(inbox)[2] \in {"created", "changed", "child"}
            /\ Process(About(Head(inbox)[2]), inFlight)
         \/ Head(inbox)[2] = "deleted" /\ ProcessErased(inFlight)
  BY DEF OnEvent, Event, Answer, About
<1>2. /\ usage' = usage /\ attached' = attached /\ tracks' = tracks /\ broadcasted' = broadcasted
      /\ connection' = connection /\ watch' = watch /\ dead' = dead /\ node' = node
      /\ changes' = changes /\ expiries' = expiries /\ seen' = seen /\ failed' = failed
  BY DEF OnEvent, server
<1>3. /\ inFlight \in SUBSET Ops /\ dead \subseteq Ops /\ broadcasted \in BOOLEAN
      /\ About(Head(inbox)[2]) \in SUBSET Kinds
  BY DEF TypeOK, About, Kinds
<1>4. inFlight \ {Head(inbox)[1]} = inFlight
  BY <1>1, <1>3 DEF Ops
<1>5. CASE Head(inbox)[2] \in {"created", "changed", "child"} /\ Process(About(Head(inbox)[2]), inFlight)
  <2>1. PICK ops \in SUBSET Ops :
          /\ ops \cap inFlight = {} /\ requests' = requests \o InOrder(ops)
          /\ inFlight' = inFlight \cup ops /\ calling' \in SUBSET Calls
          /\ \/ calling' = NotifyError(tracks) /\ ops = {}
             \/ calling' = {} /\ ops = GetOps(Needs(tracks, About(Head(inbox)[2]), FALSE), FALSE, inFlight)
    <3> DEFINE kinds == About(Head(inbox)[2])
    <3>1. kinds \in SUBSET Kinds /\ Process(kinds, inFlight)
      BY <1>3, <1>5
    <3> HIDE DEF kinds
    <3>2. \E ops \in SUBSET Ops :
            /\ ops \cap inFlight = {} /\ requests' = requests \o InOrder(ops)
            /\ inFlight' = inFlight \cup ops /\ calling' \in SUBSET Calls
            /\ \/ calling' = NotifyError(tracks) /\ ops = {}
               \/ calling' = {} /\ ops = GetOps(Needs(tracks, kinds, FALSE), FALSE, inFlight)
      BY <1>3, <3>1, ProcessShape
    <3> QED BY <3>2 DEF kinds
  <2>2. Answered(ops)
    BY <1>1, <1>2, <1>3, <1>4, <2>1 DEF Answered
  <2> QED BY <1>1, <1>2, <1>4, <1>5, <2>1, <2>2
<1>6. CASE Head(inbox)[2] = "deleted" /\ ProcessErased(inFlight)
  <2>1. PICK ops \in SUBSET Ops :
          /\ ops \cap inFlight = {} /\ requests' = requests \o InOrder(ops)
          /\ inFlight' = inFlight \cup ops /\ calling' \in SUBSET Calls
          /\ \/ calling' = NotifyError(tracks) /\ ops = {}
             \/ calling' = NotifyNull(tracks) /\ ops = GetOps(Needs(tracks, Kinds, TRUE), TRUE, inFlight)
    BY <1>3, <1>6, ProcessErasedShape
  <2>2. Answered(ops)
    BY <1>1, <1>2, <1>3, <1>4, <2>1 DEF Answered
  <2> QED BY <1>1, <1>2, <1>4, <1>6, <2>1, <2>2
<1> QED BY <1>1, <1>5, <1>6

LEMMA Handled ==
  ASSUME TypeOK, Answering
  PROVE  \E ops : Answered(ops)
<1>1. CASE OnExistsOk
  BY <1>1, ExistsOkAnswers
<1>2. CASE OnExistsMissing
  BY <1>2, ExistsMissingAnswers
<1>3. CASE OnEvent
  BY <1>3, EventAnswers
<1>4. CASE OnSession
  BY <1>4, SessionAnswers
<1>5. ASSUME NEW op \in Ops, OnGetMissing(op) PROVE \E ops : Answered(ops)
  BY <1>5, GetMissingAnswers
<1>6. ASSUME NEW op \in Ops, OnGet(op) PROVE \E ops : Answered(ops)
  BY <1>6, GetAnswers
<1>7. ASSUME NEW op \in Ops, OnQueryError(op) PROVE \E ops : Answered(ops)
  BY <1>7, QueryErrorAnswers
<1> QED BY <1>1, <1>2, <1>3, <1>4, <1>5, <1>6, <1>7 DEF Answering

\* The flights, when a message is handled.
LEMMA AnsweredFlights ==
  ASSUME NEW ops, FlightInv, Answered(ops)
  PROVE  FlightInv'
<1>1. /\ inbox # <<>> /\ inbox' = Tail(inbox)
      /\ ops \in SUBSET Ops /\ ops \cap (inFlight \ {Head(inbox)[1]}) = {}
      /\ requests' = requests \o InOrder(ops)
      /\ inFlight' = (inFlight \ {Head(inbox)[1]}) \cup ops
      /\ usage' = usage /\ attached' = attached /\ connection' = connection /\ watch' = watch
      /\ node' = node /\ changes' = changes /\ expiries' = expiries
      /\ seen' = seen /\ failed' = failed
      /\ tracks' \subseteq tracks /\ dead' \subseteq Ops
      /\ broadcasted' \in BOOLEAN /\ calling' \in SUBSET Calls
  BY DEF Answered
<1>2. inbox \in Seq(Messages) /\ requests \in Seq(Ops) /\ inFlight \subseteq Ops
  BY DEF FlightInv, TrackType, TypeOK
<1>3. Tail(inbox) \in Seq(Messages)
  BY <1>1, <1>2, QueueTail
<1>4. InOrder(ops) \in Seq(Ops)
  BY <1>2, AskedInOrder
<1>5. requests' \in Seq(Ops)
  BY <1>1, <1>2, <1>4, ConcatProperties
<1>6. TrackType'
  BY <1>1, <1>2, <1>3, <1>5 DEF FlightInv, TrackType, TypeOK, Calls
<1>7. ASSUME attached PROVE Flights(inFlight', requests', inbox')
  <2>1. Flights(inFlight \ {Head(inbox)[1]}, requests, Tail(inbox))
    BY <1>1, <1>2, <1>7, MessageTaken DEF FlightInv
  <2>2. Flights((inFlight \ {Head(inbox)[1]}) \cup ops, requests \o InOrder(ops), Tail(inbox))
    BY <1>1, <1>2, <1>3, <2>1, QueriesMade
  <2> QED BY <1>1, <2>2
<1> QED BY <1>1, <1>6, <1>7 DEF FlightInv

\* A tracking is made, with a query if none is in flight.
LEMMA TrackFlights ==
  ASSUME FlightInv, NEW c \in Callbacks, NEW use \in usage, DoTrack(c, use[1], use[2], use[3])
  PROVE  FlightInv'
<1> DEFINE t == [cb |-> c, data |-> use[1], children |-> use[2], existing |-> use[3]]
           needs == Needs(tracks \cup {t}, Kinds, FALSE)
           ops == GetOps(needs, FALSE, inFlight)
<1>1. tracks' = tracks \cup {t} /\ requests' = requests \o InOrder(ops) /\ inFlight' = inFlight \cup ops
  BY DEF DoTrack, Query
<1>2. /\ usage' = usage /\ attached' = attached /\ broadcasted' = broadcasted /\ calling' = calling
      /\ connection' = connection /\ watch' = watch /\ dead' = dead /\ inbox' = inbox
      /\ node' = node /\ changes' = changes /\ expiries' = expiries /\ seen' = seen /\ failed' = failed
      /\ attached
  BY DEF DoTrack, server
<1>3. ops \in SUBSET Ops /\ ops \cap inFlight = {}
  BY GetOpsNew
<1> HIDE DEF ops
<1>4. /\ usage \in Usages /\ inbox \in Seq(Messages) /\ requests \in Seq(Ops) /\ inFlight \subseteq Ops
      /\ Flights(inFlight, requests, inbox)
  BY <1>2 DEF FlightInv, TrackType, TypeOK
<1>5. requests' \in Seq(Ops) /\ Flights(inFlight', requests', inbox')
  BY <1>1, <1>2, <1>3, <1>4, QueriesMade
<1>6. use \in BOOLEAN \X BOOLEAN \X BOOLEAN
  BY <1>4, TrackerAssumption
<1>7. t \in Tracker
  BY <1>6 DEF Tracker
<1>8. inFlight' \subseteq Ops /\ tracks' \subseteq Tracker
  BY <1>1, <1>3, <1>4, <1>7 DEF FlightInv, TrackType, TypeOK
<1> HIDE DEF t
<1>9. TrackType'
  BY <1>2, <1>5, <1>8 DEF FlightInv, TrackType, TypeOK
<1> QED BY <1>5, <1>9 DEF FlightInv

\* The server answers.
LEMMA ServeFlights ==
  ASSUME FlightInv, Serve
  PROVE  /\ FlightInv'
         /\ \E m \in Messages :
              /\ inbox' = Append(inbox, m) /\ m[1] = Head(requests)
              /\ m[2] = (IF node["data"] # Null THEN "ok" ELSE "nonode")
              /\ m[3] = (IF m[1] = "getc" THEN node["children"] ELSE node["data"])
<1> DEFINE op == Head(requests)
           there == node["data"] # Null
           m == <<op, IF there THEN "ok" ELSE "nonode",
                  IF op = "getc" THEN node["children"] ELSE node["data"]>>
<1>1. /\ requests # <<>> /\ inbox' = Append(inbox, m) /\ requests' = Tail(requests)
      /\ watch' = IF attached /\ (there \/ op = "exists") THEN watch \cup {op} ELSE watch
  BY DEF Serve
<1>2. /\ usage' = usage /\ attached' = attached /\ tracks' = tracks /\ inFlight' = inFlight
      /\ broadcasted' = broadcasted /\ calling' = calling /\ connection' = connection /\ dead' = dead
      /\ node' = node /\ changes' = changes /\ expiries' = expiries /\ seen' = seen /\ failed' = failed
  BY DEF Serve, tracker, server
<1>3. /\ inbox \in Seq(Messages) /\ requests \in Seq(Ops) /\ node \in [Kinds -> Versions]
      /\ "data" \in Kinds /\ "children" \in Kinds
  BY DEF FlightInv, TrackType, TypeOK, Kinds
<1>4. op \in Ops /\ Tail(requests) \in Seq(Ops)
  BY <1>1, <1>3, QueueTail
<1>5. m \in Messages
  BY <1>3, <1>4 DEF Messages
<1>6. /\ m[1] = Head(requests) /\ m[2] = (IF node["data"] # Null THEN "ok" ELSE "nonode")
      /\ m[3] = (IF m[1] = "getc" THEN node["children"] ELSE node["data"])
  OBVIOUS
<1> HIDE DEF m
<1>7. Append(inbox, m) \in Seq(Messages)
  BY <1>3, <1>5, QueueAppend
<1>8. TrackType'
  BY <1>1, <1>2, <1>4, <1>7 DEF FlightInv, TrackType, TypeOK
<1>9. ASSUME attached PROVE Flights(inFlight', requests', inbox')
  <2>1. Flights(inFlight, requests, inbox)
    BY <1>9 DEF FlightInv
  <2> QED BY <1>1, <1>2, <1>3, <1>5, <1>6, <2>1, RequestServed
<1> QED BY <1>1, <1>2, <1>5, <1>6, <1>8, <1>9 DEF FlightInv

\* At most one event is added to the inbox.
LEMMA EventFlights ==
  ASSUME FlightInv, attached, NEW type \in Events,
         inbox' = inbox \/ inbox' = Append(inbox, <<"event", type, Null>>),
         inFlight' = inFlight, requests' = requests
  PROVE  inbox' \in Seq(Messages) /\ Flights(inFlight', requests', inbox')
<1> DEFINE m == <<"event", type, Null>>
<1>1. inbox \in Seq(Messages) /\ Flights(inFlight, requests, inbox)
  BY DEF FlightInv, TrackType, TypeOK
<1>2. m \in Messages /\ m[1] = "event"
  BY DEF Messages
<1> HIDE DEF m
<1>3. CASE inbox' = inbox
  BY <1>1, <1>3
<1>4. CASE inbox' = Append(inbox, m)
  BY <1>1, <1>2, <1>4, EventCame, QueueAppend
<1> QED BY <1>3, <1>4 DEF m

\* What a change of the node does.
ChangedTo(type, ops) ==
  /\ Fire(type, ops)
  /\ changes < MaxChanges /\ changes' = changes + 1
  /\ node' \in [Kinds -> Versions]
  /\ usage' = usage /\ attached' = attached /\ tracks' = tracks /\ inFlight' = inFlight
  /\ broadcasted' = broadcasted /\ calling' = calling /\ connection' = connection /\ dead' = dead
  /\ requests' = requests /\ expiries' = expiries /\ seen' = seen /\ failed' = failed

LEMMA ChangeShape ==
  ASSUME TypeOK, Change
  PROVE  /\ attached /\ changes + 1 # Null
         /\ \/ /\ node["data"] = Null /\ ChangedTo("created", {"exists", "get"})
               /\ node'["data"] = changes + 1 /\ node'["children"] = changes + 1
            \/ /\ node["data"] # Null /\ ChangedTo("changed", {"exists", "get"})
               /\ node'["data"] = changes + 1 /\ node'["children"] = node["children"]
            \/ /\ node["data"] # Null /\ ChangedTo("child", {"getc"})
               /\ node'["children"] = changes + 1 /\ node'["data"] = node["data"]
            \/ /\ node["data"] # Null /\ ChangedTo("deleted", Ops)
               /\ node'["data"] = Null /\ node'["children"] = Null
<1>1. /\ attached /\ changes < MaxChanges /\ changes' = changes + 1
      /\ usage' = usage /\ attached' = attached /\ tracks' = tracks /\ inFlight' = inFlight
      /\ broadcasted' = broadcasted /\ calling' = calling /\ connection' = connection /\ dead' = dead
      /\ requests' = requests /\ expiries' = expiries /\ seen' = seen /\ failed' = failed
  BY DEF Change, tracker
<1>2. /\ changes \in Versions /\ MaxChanges \in Nat /\ node \in [Kinds -> Versions]
  BY TrackerAssumption DEF TypeOK
<1>3. changes + 1 \in Versions /\ changes + 1 # Null
  BY <1>1, <1>2 DEF Versions, Null
<1>4. "data" \in Kinds /\ "children" \in Kinds /\ "data" # "children"
  BY DEF Kinds
<1>5. CASE node["data"] = Null /\ node' = [k \in Kinds |-> changes'] /\ Fire("created", {"exists", "get"})
  BY <1>1, <1>3, <1>4, <1>5 DEF ChangedTo
<1>6. CASE node["data"] # Null /\ node' = [node EXCEPT !["data"] = changes'] /\ Fire("changed", {"exists", "get"})
  BY <1>1, <1>2, <1>3, <1>4, <1>6 DEF ChangedTo
<1>7. CASE node["data"] # Null /\ node' = [node EXCEPT !["children"] = changes'] /\ Fire("child", {"getc"})
  BY <1>1, <1>2, <1>3, <1>4, <1>7 DEF ChangedTo
<1>8. CASE node["data"] # Null /\ node' = [k \in Kinds |-> Null] /\ Fire("deleted", Ops)
  BY <1>1, <1>3, <1>4, <1>8, NullTyped DEF ChangedTo
<1> QED BY <1>1, <1>3, <1>5, <1>6, <1>7, <1>8 DEF Change

LEMMA ChangeFlights ==
  ASSUME FlightInv, Change
  PROVE  FlightInv'
<1>1. attached
  BY ChangeShape DEF FlightInv, TrackType
<1>2. PICK type \in Events : \E ops : ChangedTo(type, ops)
  BY ChangeShape DEF FlightInv, TrackType, Events
<1>3. /\ inbox' = inbox \/ inbox' = Append(inbox, <<"event", type, Null>>)
      /\ watch' \subseteq watch
  BY <1>2 DEF ChangedTo, Fire
<1>4. /\ changes < MaxChanges /\ changes' = changes + 1 /\ node' \in [Kinds -> Versions]
      /\ usage' = usage /\ attached' = attached /\ tracks' = tracks /\ inFlight' = inFlight
      /\ broadcasted' = broadcasted /\ calling' = calling /\ connection' = connection /\ dead' = dead
      /\ requests' = requests /\ expiries' = expiries /\ seen' = seen /\ failed' = failed
  BY <1>2 DEF ChangedTo
<1>5. inbox' \in Seq(Messages) /\ Flights(inFlight', requests', inbox')
  BY <1>1, <1>3, <1>4, EventFlights
<1>6. changes' \in Versions
  BY <1>4, TrackerAssumption DEF FlightInv, TrackType, TypeOK, Versions, Null
<1>7. TrackType'
  BY <1>3, <1>4, <1>5, <1>6 DEF FlightInv, TrackType, TypeOK
<1> QED BY <1>5, <1>7 DEF FlightInv

LEMMA DisconnectedFlights ==
  ASSUME FlightInv, Disconnected
  PROVE  FlightInv' /\ inbox' = inbox \o Failures(requests)
<1>1. /\ attached /\ expiries < MaxExpiries /\ connection' = "connecting" /\ requests' = <<>>
      /\ inbox' = inbox \o Failures(requests)
  BY DEF Disconnected, Failures
<1>2. /\ usage' = usage /\ attached' = attached /\ tracks' = tracks /\ inFlight' = inFlight
      /\ broadcasted' = broadcasted /\ calling' = calling /\ watch' = watch /\ dead' = dead
      /\ node' = node /\ changes' = changes /\ expiries' = expiries /\ seen' = seen /\ failed' = failed
  BY DEF Disconnected, tracker, server
<1>3. /\ inbox \in Seq(Messages) /\ requests \in Seq(Ops) /\ MaxChanges \in Nat
      /\ Flights(inFlight, requests, inbox)
  BY <1>1, TrackerAssumption DEF FlightInv, TrackType, TypeOK
<1>4. inbox' \in Seq(Messages)
  BY <1>1, <1>3, FailuresTyped, ConcatProperties
<1>5. Flights(inFlight', requests', inbox')
  BY <1>1, <1>2, <1>3, RequestsFailed
<1>6. requests' \in Seq(Ops)
  BY <1>1
<1>7. TrackType'
  BY <1>1, <1>2, <1>4, <1>6 DEF FlightInv, TrackType, TypeOK
<1> QED BY <1>1, <1>5, <1>7 DEF FlightInv

LEMMA ExpiredFlights ==
  ASSUME FlightInv, Expired
  PROVE  FlightInv'
<1>1. /\ connection = "connecting" /\ connection' = "expired" /\ expiries' = expiries + 1
      /\ inbox' = inbox \/ inbox' = Append(inbox, <<"event", "session", Null>>)
      /\ dead' = dead \cup watch /\ watch' = {}
  BY DEF Expired
<1>2. /\ usage' = usage /\ attached' = attached /\ tracks' = tracks /\ inFlight' = inFlight
      /\ broadcasted' = broadcasted /\ calling' = calling /\ requests' = requests
      /\ node' = node /\ changes' = changes /\ seen' = seen /\ failed' = failed
  BY DEF Expired, tracker
<1>3. inbox \in Seq(Messages) /\ expiries \in 0..MaxExpiries /\ expiries < MaxExpiries
  BY <1>1 DEF FlightInv, TrackType, TypeOK
<1>4. "session" \in Events
  BY DEF Events
<1>5. <<"event", "session", Null>> \in Messages
  BY <1>4 DEF Messages
<1>6. inbox' \in Seq(Messages)
  BY <1>1, <1>3, <1>5, QueueAppend
<1>7. ASSUME attached PROVE Flights(inFlight', requests', inbox')
  BY <1>1, <1>2, <1>4, <1>7, EventFlights
<1>8. expiries' \in 0..MaxExpiries
  BY <1>1, <1>3, TrackerAssumption
<1>9. TrackType'
  BY <1>1, <1>2, <1>6, <1>8 DEF FlightInv, TrackType, TypeOK
<1> QED BY <1>2, <1>7, <1>9 DEF FlightInv

LEMMA EventOfTyped ==
  ASSUME NEW op \in Ops
  PROVE  EventOf(op) \in Messages /\ EventOf(op)[1] = "event"
<1>1. CASE op = "exists"
  BY <1>1 DEF EventOf, Messages, Events
<1>2. CASE op = "get"
  BY <1>2 DEF EventOf, Messages, Events
<1>3. CASE op = "getc"
  BY <1>3 DEF EventOf, Messages, Events
<1> QED BY <1>1, <1>2, <1>3 DEF Ops

\* One event for each pending that is resumed.
LEMMA ResumeShape ==
  ASSUME TypeOK, ResumeSession
  PROVE  /\ inbox' \in Seq(Messages)
         /\ \A i \in 1..Len(inbox') : inbox'[i][1] = "event"
         /\ \A op \in watch \cup dead : \E i \in 1..Len(inbox') : inbox'[i] = EventOf(op)
<1> DEFINE R == Resumed
           n == Cardinality(R)
<1>1. R = watch \cup dead /\ R \subseteq Ops
  BY DEF Resumed, TypeOK
<1>2. IsFiniteSet(Ops)
  <2>1. IsFiniteSet({"exists"}) /\ IsFiniteSet({"get"}) /\ IsFiniteSet({"getc"})
    BY FS_Singleton
  <2>2. Ops = ({"exists"} \cup {"get"}) \cup {"getc"}
    BY DEF Ops
  <2> QED BY <2>1, <2>2, FS_Union
<1>3. IsFiniteSet(R) /\ n \in Nat
  BY <1>1, <1>2, FS_Subset, FS_CardinalityType
<1>4. PICK s \in [1..n -> R] : /\ \A i, j \in DOMAIN s : i # j => s[i] # s[j]
                               /\ inbox' = [i \in DOMAIN s |-> EventOf(s[i])]
  BY DEF ResumeSession
<1> HIDE DEF n
<1>5. IsFiniteSet(1..n) /\ Cardinality(1..n) = n
  BY <1>3, FS_Interval
<1>6. s \in Injection(1..n, R)
  BY <1>4 DEF Injection, IsInjective
<1>7. Cardinality(1..n) = Cardinality(R)
  BY <1>5 DEF n
<1>8. s \in Surjection(1..n, R)
  BY <1>3, <1>6, <1>7, FS_Injection
<1>9. \A op \in R : \E i \in 1..n : s[i] = op
  BY <1>8 DEF Surjection
<1>10. DOMAIN s = 1..n /\ \A i \in 1..n : s[i] \in R
  BY <1>4
<1> HIDE DEF R
<1>11. \A i \in 1..n : s[i] \in Ops
  BY <1>1, <1>10
<1>12. inbox' \in [1..n -> Messages]
  BY <1>4, <1>10, <1>11, EventOfTyped
<1>13. inbox' \in Seq(Messages) /\ Len(inbox') = n
  BY <1>3, <1>12, SeqDef, LenProperties
<1>14. \A i \in 1..n : inbox'[i] = EventOf(s[i])
  BY <1>4, <1>10
<1>15. \A i \in 1..n : inbox'[i][1] = "event"
  BY <1>11, <1>14, EventOfTyped
<1>16. \A op \in R : \E i \in 1..n : inbox'[i] = EventOf(op)
  BY <1>9, <1>14
<1> QED BY <1>1, <1>13, <1>15, <1>16

LEMMA ResumeFlights ==
  ASSUME FlightInv, ResumeSession
  PROVE  FlightInv'
<1>1. inbox = <<>> /\ connection' = "connected" /\ watch' = {} /\ dead' = {}
  BY DEF ResumeSession
<1>2. /\ usage' = usage /\ attached' = attached /\ tracks' = tracks /\ inFlight' = inFlight
      /\ broadcasted' = broadcasted /\ calling' = calling /\ requests' = requests /\ expiries' = expiries
      /\ node' = node /\ changes' = changes /\ seen' = seen /\ failed' = failed
  BY DEF ResumeSession, tracker, server
<1>3. inbox' \in Seq(Messages) /\ \A i \in 1..Len(inbox') : inbox'[i][1] = "event"
  BY ResumeShape DEF FlightInv, TrackType
<1>4. TrackType'
  BY <1>1, <1>2, <1>3 DEF FlightInv, TrackType, TypeOK
<1>5. ASSUME attached PROVE Flights(inFlight', requests', inbox')
  <2>1. Flights(inFlight, requests, <<>>)
    BY <1>1, <1>5 DEF FlightInv
  <2>2. "event" \notin Ops
    BY DEF Ops
  <2>3. \A op \in Ops : ~Has(<<>>, op) /\ ~Has(inbox', op)
    BY <1>3, <2>2 DEF Has
  <2>4. \A i, j \in 1..Len(inbox') : inbox'[i][1] = inbox'[j][1] /\ inbox'[i][1] \in Ops => i = j
    BY <1>3, <2>2
  <2>5. Flights(inFlight, requests, inbox')
    BY <2>1, <2>3, <2>4, Zenon DEF Flights
  <2> QED BY <1>2, <2>5
<1> QED BY <1>2, <1>4, <1>5 DEF FlightInv

\* A callback is called.
LEMMA CallTyped ==
  ASSUME TypeOK, Call
  PROVE  \E call \in calling :
           /\ call[1] \in Callbacks /\ call[2] \in Kinds \cup {"error", "session"} /\ call[3] \in Versions
           /\ calling' = calling \ {call}
           /\ seen' \in [Callbacks -> [Kinds -> Versions \cup {Never}]]
           /\ \A c \in Callbacks, k \in Kinds :
                seen'[c][k] = IF c = call[1] /\ k = call[2] THEN call[3] ELSE seen[c][k]
           /\ failed' = IF call[2] = "error" THEN failed \cup {call[1]} ELSE failed
<1>1. PICK call \in calling :
        /\ calling' = calling \ {call}
        /\ seen' = IF call[2] \in Kinds THEN [seen EXCEPT ![call[1]][call[2]] = call[3]] ELSE seen
        /\ failed' = IF call[2] = "error" THEN failed \cup {call[1]} ELSE failed
  BY DEF Call
<1>2. /\ call[1] \in Callbacks /\ call[2] \in Kinds \cup {"error", "session"} /\ call[3] \in Versions
      /\ seen \in [Callbacks -> [Kinds -> Versions \cup {Never}]]
  BY DEF TypeOK
<1>3. CASE call[2] \in Kinds
  <2>1. seen' = [seen EXCEPT ![call[1]] = [seen[call[1]] EXCEPT ![call[2]] = call[3]]]
    BY <1>1, <1>3
  <2>2. [seen[call[1]] EXCEPT ![call[2]] = call[3]] \in [Kinds -> Versions \cup {Never}]
    BY <1>2
  <2>3. seen' \in [Callbacks -> [Kinds -> Versions \cup {Never}]]
    BY <1>2, <2>1, <2>2
  <2>4. \A c \in Callbacks, k \in Kinds :
          seen'[c][k] = IF c = call[1] /\ k = call[2] THEN call[3] ELSE seen[c][k]
    BY <1>2, <1>3, <2>1
  <2> QED BY <1>1, <1>2, <2>3, <2>4
<1>4. CASE call[2] \notin Kinds
  <2>1. seen' = seen
    BY <1>1, <1>4
  <2>2. \A c \in Callbacks, k \in Kinds :
          seen'[c][k] = IF c = call[1] /\ k = call[2] THEN call[3] ELSE seen[c][k]
    BY <1>4, <2>1
  <2> QED BY <1>1, <1>2, <2>1, <2>2
<1> QED BY <1>3, <1>4

\* What a callback that is not tracked any more has seen does not count.
LEMMA ForgottenTyped ==
  ASSUME TypeOK, NEW c \in Callbacks
  PROVE  /\ Forgotten(c) \in [Callbacks -> [Kinds -> Versions \cup {Never}]]
         /\ \A d \in Callbacks : d # c => Forgotten(c)[d] = seen[d]
<1>1. seen \in [Callbacks -> [Kinds -> Versions \cup {Never}]]
  BY DEF TypeOK
<1>2. [k \in Kinds |-> Never] \in [Kinds -> Versions \cup {Never}]
  OBVIOUS
<1> QED BY <1>1, <1>2 DEF Forgotten

\* The steps that leave both queues alone.
LEMMA OtherFlights ==
  ASSUME FlightInv, \/ Call \/ Reconnect \/ Reconnected \/ ClearErrorState \/ TrackerShutdown
                    \/ \E c \in Callbacks : Cancel(c)
                    \/ \E c \in Callbacks, use \in usage : DoTrackFailed(c, use[1], use[2], use[3])
  PROVE  FlightInv'
<1>1. TypeOK
  BY DEF FlightInv, TrackType
<1>2. CASE Call
  <2>1. PICK call \in calling :
          /\ call[1] \in Callbacks /\ calling' = calling \ {call}
          /\ seen' \in [Callbacks -> [Kinds -> Versions \cup {Never}]]
          /\ failed' = IF call[2] = "error" THEN failed \cup {call[1]} ELSE failed
    BY <1>1, <1>2, CallTyped
  <2>2. /\ usage' = usage /\ attached' = attached /\ tracks' = tracks /\ inFlight' = inFlight
        /\ broadcasted' = broadcasted /\ connection' = connection /\ watch' = watch /\ dead' = dead
        /\ requests' = requests /\ inbox' = inbox
        /\ node' = node /\ changes' = changes /\ expiries' = expiries
    BY <1>2 DEF Call, tracker, client, server
  <2>3. calling' \subseteq calling /\ failed' \subseteq Callbacks
    BY <1>1, <2>1 DEF TypeOK
  <2> QED BY <2>1, <2>2, <2>3 DEF FlightInv, TrackType, TypeOK
<1>3. CASE Reconnect
  BY <1>3 DEF Reconnect, tracker, server, FlightInv, TrackType, TypeOK
<1>4. CASE Reconnected
  <2>1. /\ usage' = usage /\ attached' = attached /\ tracks' = tracks /\ inFlight' = inFlight
        /\ broadcasted' = broadcasted /\ calling' = calling /\ watch' = watch /\ dead' = dead
        /\ requests' = requests /\ inbox' = inbox /\ node' = node /\ changes' = changes
        /\ seen' = seen /\ failed' = failed
        /\ connection = "connecting" /\ connection' = "connected" /\ expiries' = expiries + 1
    BY <1>4 DEF Reconnected, tracker
  <2>2. expiries' \in 0..MaxExpiries
    BY <2>1, TrackerAssumption DEF FlightInv, TrackType, TypeOK
  <2> QED BY <2>1, <2>2 DEF FlightInv, TrackType, TypeOK
<1>5. CASE ClearErrorState
  BY <1>5 DEF ClearErrorState, client, server, FlightInv, TrackType, TypeOK
<1>6. CASE TrackerShutdown
  BY <1>6 DEF TrackerShutdown, server, FlightInv, TrackType, TypeOK
<1>7. ASSUME NEW c \in Callbacks, Cancel(c) PROVE FlightInv'
  <2>1. /\ usage' = usage /\ attached' = attached /\ inFlight' = inFlight /\ broadcasted' = broadcasted
        /\ calling' = calling /\ connection' = connection /\ watch' = watch /\ dead' = dead
        /\ requests' = requests /\ inbox' = inbox
        /\ node' = node /\ changes' = changes /\ expiries' = expiries
        /\ tracks' \subseteq tracks /\ failed' \subseteq failed /\ seen' = Forgotten(c)
    BY <1>7 DEF Cancel, client, server
  <2>2. seen' \in [Callbacks -> [Kinds -> Versions \cup {Never}]]
    BY <1>1, <2>1, ForgottenTyped
  <2> QED BY <2>1, <2>2 DEF FlightInv, TrackType, TypeOK
<1>8. ASSUME NEW c \in Callbacks, NEW use \in usage, DoTrackFailed(c, use[1], use[2], use[3])
      PROVE  FlightInv'
  <2>1. /\ usage' = usage /\ attached' = attached /\ inFlight' = inFlight /\ broadcasted' = broadcasted
        /\ calling' = calling /\ connection' = connection /\ watch' = watch /\ dead' = dead
        /\ requests' = requests /\ inbox' = inbox
        /\ node' = node /\ changes' = changes /\ expiries' = expiries
        /\ tracks' \subseteq tracks /\ failed' = (failed \ {c}) \cup Users(tracks') /\ seen' = Forgotten(c)
    BY <1>8 DEF DoTrackFailed, client, server
  <2>2. seen' \in [Callbacks -> [Kinds -> Versions \cup {Never}]]
    BY <1>1, <2>1, ForgottenTyped
  <2>3. failed' \subseteq Callbacks
    BY <1>1, <2>1 DEF TypeOK, Users, Tracker
  <2> QED BY <2>1, <2>2, <2>3 DEF FlightInv, TrackType, TypeOK
<1> QED BY <1>2, <1>3, <1>4, <1>5, <1>6, <1>7, <1>8

LEMMA FlightsKept ==
  ASSUME FlightInv, [Next]_vars
  PROVE  FlightInv'
<1>1. TypeOK
  BY DEF FlightInv, TrackType
<1>2. CASE Answering
  BY <1>1, <1>2, Handled, AnsweredFlights
<1>3. CASE Serve
  BY <1>3, ServeFlights
<1>4. CASE Change
  BY <1>4, ChangeFlights
<1>5. CASE Disconnected
  BY <1>5, DisconnectedFlights
<1>6. CASE Expired
  BY <1>6, ExpiredFlights
<1>7. CASE ResumeSession
  BY <1>7, ResumeFlights
<1>8. ASSUME NEW c \in Callbacks, NEW use \in usage, DoTrack(c, use[1], use[2], use[3]) PROVE FlightInv'
  BY <1>8, TrackFlights
<1>9. CASE \/ Call \/ Reconnect \/ Reconnected \/ ClearErrorState \/ TrackerShutdown
           \/ \E c \in Callbacks : Cancel(c)
           \/ \E c \in Callbacks, use \in usage : DoTrackFailed(c, use[1], use[2], use[3])
  BY <1>9, OtherFlights
<1>10. CASE UNCHANGED vars
  BY <1>10 DEF vars, tracker, client, server, FlightInv, TrackType, TypeOK
<1> QED BY <1>2, <1>3, <1>4, <1>5, <1>6, <1>7, <1>8, <1>9, <1>10 DEF Next, TrackerCompletion, Answering

LEMMA FlightsStart ==
  ASSUME Init
  PROVE  FlightInv
<1>1. MaxChanges \in Nat /\ MaxChanges >= 1 /\ MaxExpiries \in Nat
  BY TrackerAssumption
<1>2. requests = <<>> /\ inbox = <<>> /\ inFlight = {} /\ Len(requests) = 0 /\ Len(inbox) = 0
  BY DEF Init
<1>3. Flights(inFlight, requests, inbox)
  BY <1>2 DEF Flights, In, Has
<1>4. expiries \in 0..MaxExpiries /\ connection # "connecting"
  BY <1>1 DEF Init
<1>5. 1 \in Versions
  BY <1>1 DEF Versions, Null
<1>6. node \in [Kinds -> Versions] /\ changes \in Versions
  BY <1>5 DEF Init
<1>7. seen \in [Callbacks -> [Kinds -> Versions \cup {Never}]]
  BY DEF Init
<1>8. requests \in Seq(Ops) /\ inbox \in Seq(Messages)
  BY <1>2
<1>9. TypeOK
  BY <1>4, <1>6, <1>7, <1>8 DEF Init, TypeOK
<1> QED BY <1>3, <1>4, <1>9 DEF FlightInv, TrackType

\* A query is listed as in flight if and only if its one answer is still to come, whatever is
\* tracked: _exists, _data and _children of zookeeper_tracker.cpp match what the client owes.
THEOREM TrackerFlights == Spec => []FlightsMatch
<1>1. Init => FlightInv
  BY FlightsStart
<1>2. FlightInv /\ [Next]_vars => FlightInv'
  BY FlightsKept
<1>3. FlightInv => FlightsMatch
  <2> SUFFICES ASSUME FlightInv, attached, NEW op \in Ops
               PROVE  Cardinality({i \in DOMAIN requests : requests[i] = op})
                        + Cardinality({i \in DOMAIN inbox : inbox[i][1] = op})
                      = IF op \in inFlight THEN 1 ELSE 0
    BY DEF FlightsMatch
  <2>1. /\ requests \in Seq(Ops) /\ inbox \in Seq(Messages) /\ Flights(inFlight, requests, inbox)
    BY DEF FlightInv, TrackType, TypeOK
  <2> QED BY <2>1, FlightsCount
<1> QED BY <1>1, <1>2, <1>3, PTL DEF Spec

-----------------------------------------------------------------------------
(***************************************************************************)
(* Programs that track one kind of thing of a node, its data or its        *)
(* children: whoever tracks it is told of its last state.                  *)
(***************************************************************************)
OneKind ==
  \A use \in Usages : \E k \in Kinds : \A x \in use : (x[1] <=> k = "data") /\ (x[2] <=> k = "children")

QueryOf(k) == IF k = "data" THEN "get" ELSE "getc"
EventAbout(k) == IF k = "data" THEN "changed" ELSE "child"

\* The trackings are of the kind.
Only(ts, k) == \A t \in ts : (t.data <=> k = "data") /\ (t.children <=> k = "children")

\* Messages that make the tracker look at the node again, and those that end in an answer,
\* a query or an error.
Wakes(k, m) == m[1] = "event" /\ m[2] \in {"created", "deleted", EventAbout(k)}
Renews(k, m) == Wakes(k, m) \/ m[2] = "error" \/ (m[1] = "exists" /\ m[2] = "ok") \/ m[1] = QueryOf(k)
WokenAfter(ib, k, i) == \E j \in 1..Len(ib) : j > i /\ Wakes(k, ib[j])
Renewed(ib, k) == \E i \in 1..Len(ib) : Renews(k, ib[i])

\* What a callback knows once the calls on their way have been made.
Told(calls, c, k) == \E x \in calls : x[1] = c /\ x[2] = k
Knows(c, k, v) ==
  /\ \A x \in calling : x[1] = c /\ x[2] = k => x[3] = v
  /\ Told(calling, c, k) \/ seen[c][k] = v
Failing(c) == c \in failed \/ <<c, "error", Null>> \in calling

\* The watch that tells of the next change is set; it is lost, and the session is resumed.
Guarded(k) == (IF node[k] # Null THEN QueryOf(k) ELSE "exists") \in watch
Lost(op) == connection \in {"expired", "opening"} /\ op \in dead

Waiting(c, k) ==
  \/ In(requests, QueryOf(k))
  \/ In(requests, "exists") /\ Knows(c, k, Null)
  \/ Renewed(inbox, k)
  \/ Lost(QueryOf(k)) \/ Lost("exists")
  \/ Knows(c, k, node[k]) /\ Guarded(k)

\* An answer on its way is the last word, or something comes after it.
FreshGet(k, i) ==
  inbox[i][1] = QueryOf(k) /\ inbox[i][2] = "ok" =>
    \/ inbox[i][3] = node[k] /\ node[k] # Null /\ Guarded(k)
    \/ WokenAfter(inbox, k, i) \/ Lost(QueryOf(k))
FreshMissing(k, i) ==
  inbox[i][1] = "exists" /\ inbox[i][2] = "nonode" =>
    \/ node[k] = Null /\ Guarded(k)
    \/ WokenAfter(inbox, k, i) \/ Lost("exists")
AnswersFresh(k) == \A i \in 1..Len(inbox) : FreshGet(k, i) /\ FreshMissing(k, i)

KindInv(k) ==
  /\ Only(tracks, k)
  /\ \A x \in usage : (x[1] <=> k = "data") /\ (x[2] <=> k = "children")
  /\ node["data"] = Null <=> node["children"] = Null
  /\ ~attached => tracks = {}
  /\ attached => inFlight \subseteq {QueryOf(k), "exists"}
ToldInv(k) == \A t \in tracks : ~t.existing /\ ~Failing(t.cb) => Waiting(t.cb, k)
TrackInv(k) == FlightInv /\ KindInv(k) /\ (attached => AnswersFresh(k)) /\ ToldInv(k)

\* Of the kinds.
LEMMA KindFacts ==
  ASSUME NEW k \in Kinds
  PROVE  /\ QueryOf(k) \in Ops /\ QueryOf(k) # "exists" /\ "exists" \in Ops /\ "event" \notin Ops
         /\ k = "data" \/ k = "children"
         /\ QueryOf(k) # "event"
BY DEF Kinds, QueryOf, Ops

LEMMA OfTheKind ==
  ASSUME NEW k \in Kinds, NEW ts, Only(ts, k)
  PROVE  \A t \in ts, j \in Kinds : t[j] <=> j = k
<1> SUFFICES ASSUME NEW t \in ts, NEW j \in Kinds PROVE t[j] <=> j = k
  OBVIOUS
<1>1. (t["data"] <=> k = "data") /\ (t["children"] <=> k = "children")
  BY DEF Only
<1> QED BY <1>1 DEF Kinds

\* What is asked for trackings of one kind.
LEMMA NeedsOne ==
  ASSUME NEW k \in Kinds, NEW ts \in SUBSET Tracker, Only(ts, k), NEW kinds \in SUBSET Kinds
  PROVE  /\ Needs(ts, kinds, FALSE) = IF k \in kinds /\ ts # {} THEN {k} ELSE {}
         /\ Needs(ts, kinds, TRUE) = IF k \in kinds /\ (\E t \in ts : ~t.existing) THEN {k} ELSE {}
<1>1. \A t \in ts, j \in Kinds : t[j] <=> j = k
  BY OfTheKind
<1>2. \A erased \in BOOLEAN : Needs(ts, kinds, erased) = {j \in kinds : j = k /\ \E t \in ts : ~(erased /\ t.existing)}
  BY <1>1 DEF Needs
<1> QED BY <1>2

LEMMA AskedOfOne ==
  ASSUME NEW k \in Kinds, NEW needs, needs = {} \/ needs = {k}, NEW fl
  PROVE  /\ GetOps(needs, FALSE, fl) \subseteq {QueryOf(k), "exists"}
         /\ GetOps(needs, TRUE, fl) \subseteq {QueryOf(k), "exists"}
         /\ needs = {k} => QueryOf(k) \in fl \cup GetOps(needs, FALSE, fl)
         /\ needs = {k} => "exists" \in fl \cup GetOps(needs, TRUE, fl)
<1>1. CASE needs = {}
  BY <1>1 DEF GetOps
<1>2. CASE needs = {k} /\ k = "data"
  BY <1>2 DEF GetOps, QueryOf
<1>3. CASE needs = {k} /\ k = "children"
  BY <1>3 DEF GetOps, QueryOf
<1> QED BY <1>1, <1>2, <1>3 DEF Kinds

(***************************************************************************)
(* What comes of a message.                                                *)
(***************************************************************************)
Silent(k) ==
  tracks' \subseteq tracks /\ ~Renews(k, Head(inbox)) /\ \A x \in calling' : x[2] = "session"
Errors == tracks' = tracks /\ calling' = NotifyError(tracks)
Again(k) == tracks' = tracks /\ calling' = {} /\ (tracks # {} => QueryOf(k) \in inFlight')
Erased ==
  /\ tracks' = tracks /\ calling' = NotifyNull(tracks)
  /\ (\E t \in tracks : ~t.existing) => "exists" \in inFlight'
Got(k) ==
  /\ tracks' = tracks /\ Head(inbox)[1] = QueryOf(k) /\ Head(inbox)[2] = "ok"
  /\ calling' = Notify(tracks, k, Head(inbox)[3])
Outcome(k) == Silent(k) \/ Errors \/ Again(k) \/ Erased \/ Got(k)

\* The queries that Process() makes.
ProcessOps(ts, kinds, fl) == GetOps(Needs(ts, kinds, FALSE), FALSE, fl)

LEMMA ProcessAsks ==
  ASSUME NEW k \in Kinds, TypeOK, Only(tracks, k), NEW fl, NEW ops,
         NEW kinds, kinds = Kinds \/ kinds = {"data"} \/ kinds = {"children"},
         ops = ProcessOps(tracks, kinds, fl)
  PROVE  /\ ops \subseteq {QueryOf(k), "exists"}
         /\ k \in kinds /\ tracks # {} => QueryOf(k) \in fl \cup ops
<1> DEFINE n == Needs(tracks, kinds, FALSE)
<1>1. tracks \in SUBSET Tracker /\ kinds \in SUBSET Kinds
  BY DEF TypeOK, Kinds
<1>2. n = IF k \in kinds /\ tracks # {} THEN {k} ELSE {}
  BY <1>1, NeedsOne
<1>3. ops = GetOps(n, FALSE, fl)
  BY DEF ProcessOps
<1> HIDE DEF n
<1>4. /\ GetOps(n, FALSE, fl) \subseteq {QueryOf(k), "exists"}
      /\ n = {k} => QueryOf(k) \in fl \cup GetOps(n, FALSE, fl)
  BY <1>2, AskedOfOne
<1> QED BY <1>2, <1>3, <1>4

LEMMA ErasedAsks ==
  ASSUME NEW k \in Kinds, TypeOK, Only(tracks, k), NEW fl, NEW ops,
         ops = GetOps(Needs(tracks, Kinds, TRUE), TRUE, fl)
  PROVE  /\ ops \subseteq {QueryOf(k), "exists"}
         /\ (\E t \in tracks : ~t.existing) => "exists" \in fl \cup ops
<1> DEFINE e == Needs(tracks, Kinds, TRUE)
<1>1. tracks \in SUBSET Tracker
  BY DEF TypeOK
<1>2. e = IF k \in Kinds /\ (\E t \in tracks : ~t.existing) THEN {k} ELSE {}
  BY <1>1, NeedsOne
<1>3. ops = GetOps(e, TRUE, fl)
  OBVIOUS
<1> HIDE DEF e
<1>4. /\ GetOps(e, TRUE, fl) \subseteq {QueryOf(k), "exists"}
      /\ e = {k} => "exists" \in fl \cup GetOps(e, TRUE, fl)
  BY <1>2, AskedOfOne
<1> QED BY <1>2, <1>3, <1>4

\* An event that is not about the kind asks for nothing.
LEMMA AboutOther ==
  ASSUME NEW k \in Kinds, NEW type \in {"created", "changed", "child"}
  PROVE  /\ About(type) = Kinds \/ About(type) = {"data"} \/ About(type) = {"children"}
         /\ k \in About(type) \/ ~(type \in {"created", "deleted", EventAbout(k)})
BY DEF About, Kinds, EventAbout

\* An answer on its way is one of the kind's.
LEMMA AnswerOfKind ==
  ASSUME NEW k \in Kinds, FlightInv, KindInv(k), attached, inbox # <<>>, Head(inbox)[1] \in Ops
  PROVE  Head(inbox)[1] \in {QueryOf(k), "exists"}
<1>1. inbox \in Seq(Messages) /\ Flights(inFlight, requests, inbox)
  BY DEF FlightInv, TrackType, TypeOK
<1>2. Head(inbox) = inbox[1] /\ 1 \in 1..Len(inbox)
  BY <1>1, QueueTail
<1>3. Has(inbox, Head(inbox)[1])
  BY <1>2 DEF Has
<1>4. Head(inbox)[1] \in inFlight
  BY <1>1, <1>3 DEF Flights
<1> QED BY <1>4 DEF KindInv

LEMMA EventOutcome ==
  ASSUME NEW k \in Kinds, FlightInv, KindInv(k), OnEvent
  PROVE  \E ops : Answered(ops) /\ ops \subseteq {QueryOf(k), "exists"} /\ Outcome(k)
<1>1. TypeOK /\ Only(tracks, k)
  BY DEF FlightInv, TrackType, KindInv
<1> DEFINE h == Head(inbox)
           fl == inFlight \ {h[1]}
<1>2. PICK ops :
        /\ Answered(ops) /\ tracks' = tracks /\ h[1] = "event"
        /\ \/ calling' = NotifyError(tracks) /\ ops = {}
           \/ /\ h[2] \in {"created", "changed", "child"} /\ calling' = {}
              /\ ops = GetOps(Needs(tracks, About(h[2]), FALSE), FALSE, fl)
           \/ /\ h[2] = "deleted" /\ calling' = NotifyNull(tracks)
              /\ ops = GetOps(Needs(tracks, Kinds, TRUE), TRUE, fl)
  BY <1>1, EventAnswers
<1>3. inFlight' = fl \cup ops
  BY <1>2 DEF Answered
<1> HIDE DEF fl
<1>4. CASE calling' = NotifyError(tracks) /\ ops = {}
  BY <1>2, <1>4 DEF Outcome, Errors
<1>5. CASE /\ h[2] \in {"created", "changed", "child"} /\ calling' = {}
           /\ ops = GetOps(Needs(tracks, About(h[2]), FALSE), FALSE, fl)
  <2>1. /\ About(h[2]) = Kinds \/ About(h[2]) = {"data"} \/ About(h[2]) = {"children"}
        /\ k \in About(h[2]) \/ ~(h[2] \in {"created", "deleted", EventAbout(k)})
    BY <1>5, AboutOther
  <2>2. PICK kinds : kinds = About(h[2])
    OBVIOUS
  <2>3. /\ ops \subseteq {QueryOf(k), "exists"}
        /\ k \in kinds /\ tracks # {} => QueryOf(k) \in fl \cup ops
    <3>1. /\ kinds = Kinds \/ kinds = {"data"} \/ kinds = {"children"}
          /\ ops = ProcessOps(tracks, kinds, fl)
      BY <1>5, <2>1, <2>2 DEF ProcessOps
    <3> QED BY <1>1, <3>1, ProcessAsks
  <2>4. CASE k \in kinds
    BY <1>2, <1>3, <1>5, <2>3, <2>4 DEF Outcome, Again
  <2>5. CASE k \notin kinds
    <3>1. ~Renews(k, h)
      BY <1>2, <1>5, <2>1, <2>2, <2>5, KindFacts DEF Renews, Wakes
    <3> QED BY <1>2, <1>5, <2>3, <3>1 DEF Outcome, Silent
  <2> QED BY <2>4, <2>5
<1>6. CASE /\ h[2] = "deleted" /\ calling' = NotifyNull(tracks)
           /\ ops = GetOps(Needs(tracks, Kinds, TRUE), TRUE, fl)
  <2>1. /\ ops \subseteq {QueryOf(k), "exists"}
        /\ (\E t \in tracks : ~t.existing) => "exists" \in fl \cup ops
    BY <1>1, <1>6, ErasedAsks
  <2> QED BY <1>2, <1>3, <1>6, <2>1 DEF Outcome, Erased
<1> QED BY <1>2, <1>4, <1>5, <1>6

LEMMA ExistsOkOutcome ==
  ASSUME NEW k \in Kinds, FlightInv, KindInv(k), OnExistsOk
  PROVE  \E ops : Answered(ops) /\ ops \subseteq {QueryOf(k), "exists"} /\ Outcome(k)
<1>1. TypeOK /\ Only(tracks, k)
  BY DEF FlightInv, TrackType, KindInv
<1> DEFINE fl == inFlight \ {Head(inbox)[1]}
<1>2. PICK ops :
        /\ Answered(ops) /\ tracks' = tracks
        /\ \/ calling' = NotifyError(tracks) /\ ops = {}
           \/ calling' = {} /\ ops = GetOps(Needs(tracks, Kinds, FALSE), FALSE, fl)
  BY <1>1, ExistsOkAnswers
<1>3. inFlight' = fl \cup ops
  BY <1>2 DEF Answered
<1> HIDE DEF fl
<1>4. CASE calling' = NotifyError(tracks) /\ ops = {}
  BY <1>2, <1>4 DEF Outcome, Errors
<1>5. CASE calling' = {} /\ ops = GetOps(Needs(tracks, Kinds, FALSE), FALSE, fl)
  <2>1. /\ ops \subseteq {QueryOf(k), "exists"}
        /\ tracks # {} => QueryOf(k) \in fl \cup ops
    <3>1. ops = ProcessOps(tracks, Kinds, fl)
      BY <1>5 DEF ProcessOps
    <3> QED BY <1>1, <3>1, ProcessAsks
  <2> QED BY <1>2, <1>3, <1>5, <2>1 DEF Outcome, Again
<1> QED BY <1>2, <1>4, <1>5

LEMMA GetMissingOutcome ==
  ASSUME NEW k \in Kinds, FlightInv, KindInv(k), NEW op \in Ops, OnGetMissing(op)
  PROVE  \E ops : Answered(ops) /\ ops \subseteq {QueryOf(k), "exists"} /\ Outcome(k)
<1>1. TypeOK /\ Only(tracks, k)
  BY DEF FlightInv, TrackType, KindInv
<1> DEFINE fl == inFlight \ {Head(inbox)[1]}
<1>2. PICK ops :
        /\ Answered(ops) /\ tracks' = tracks
        /\ \/ calling' = NotifyError(tracks) /\ ops = {}
           \/ calling' = NotifyNull(tracks) /\ ops = GetOps(Needs(tracks, Kinds, TRUE), TRUE, fl)
  BY <1>1, GetMissingAnswers
<1>3. inFlight' = fl \cup ops
  BY <1>2 DEF Answered
<1> HIDE DEF fl
<1>4. CASE calling' = NotifyError(tracks) /\ ops = {}
  BY <1>2, <1>4 DEF Outcome, Errors
<1>5. CASE calling' = NotifyNull(tracks) /\ ops = GetOps(Needs(tracks, Kinds, TRUE), TRUE, fl)
  <2>1. /\ ops \subseteq {QueryOf(k), "exists"}
        /\ (\E t \in tracks : ~t.existing) => "exists" \in fl \cup ops
    BY <1>1, <1>5, ErasedAsks
  <2> QED BY <1>2, <1>3, <1>5, <2>1 DEF Outcome, Erased
<1> QED BY <1>2, <1>4, <1>5

LEMMA HandledOutcome ==
  ASSUME NEW k \in Kinds, FlightInv, KindInv(k), attached, Answering
  PROVE  \E ops : Answered(ops) /\ ops \subseteq {QueryOf(k), "exists"} /\ Outcome(k)
<1>1. TypeOK
  BY DEF FlightInv, TrackType
<1>2. CASE OnExistsOk
  BY <1>2, ExistsOkOutcome
<1>3. CASE OnExistsMissing
  <2>1. Answered({}) /\ calling' = {} /\ Head(inbox)[1] = "exists" /\ Head(inbox)[2] = "nonode"
    BY <1>1, <1>3, ExistsMissingAnswers
  <2>2. ~Renews(k, Head(inbox))
    BY <2>1, KindFacts DEF Renews, Wakes
  <2>3. tracks' \subseteq tracks
    BY <2>1 DEF Answered
  <2>4. Silent(k)
    BY <2>1, <2>2, <2>3 DEF Silent
  <2> QED BY <2>1, <2>4 DEF Outcome
<1>4. CASE OnEvent
  BY <1>4, EventOutcome
<1>5. CASE OnSession
  <2>1. /\ Answered({}) /\ tracks' = tracks /\ Head(inbox)[1] = "event" /\ Head(inbox)[2] = "session"
        /\ \A x \in calling' : x[2] = "session"
    BY <1>1, <1>5, SessionAnswers
  <2>2. ~Renews(k, Head(inbox))
    BY <2>1, KindFacts DEF Renews, Wakes, EventAbout
  <2>3. Silent(k)
    BY <2>1, <2>2 DEF Silent
  <2> QED BY <2>1, <2>3 DEF Outcome
<1>6. ASSUME NEW op \in Ops, OnGetMissing(op)
      PROVE  \E ops : Answered(ops) /\ ops \subseteq {QueryOf(k), "exists"} /\ Outcome(k)
  BY <1>6, GetMissingOutcome
<1>7. ASSUME NEW op \in Ops, OnGet(op)
      PROVE  \E ops : Answered(ops) /\ ops \subseteq {QueryOf(k), "exists"} /\ Outcome(k)
  <2>1. /\ Answered({}) /\ tracks' = tracks
        /\ Head(inbox)[1] = op /\ Head(inbox)[2] = "ok" /\ op # "exists"
        /\ calling' = Notify(tracks, IF op = "get" THEN "data" ELSE "children", Head(inbox)[3])
    BY <1>1, <1>7, GetAnswers
  <2>2. inbox # <<>>
    BY <2>1 DEF Answered
  <2>3. op = QueryOf(k)
    BY <2>1, <2>2, AnswerOfKind
  <2>4. (IF op = "get" THEN "data" ELSE "children") = k
    BY <2>3 DEF QueryOf, Kinds
  <2>5. Got(k)
    BY <2>1, <2>3, <2>4 DEF Got
  <2> QED BY <2>1, <2>5 DEF Outcome
<1>8. ASSUME NEW op \in Ops, OnQueryError(op)
      PROVE  \E ops : Answered(ops) /\ ops \subseteq {QueryOf(k), "exists"} /\ Outcome(k)
  <2>1. Answered({}) /\ tracks' = tracks /\ calling' = NotifyError(tracks)
    BY <1>1, <1>8, QueryErrorAnswers
  <2>2. Errors
    BY <2>1 DEF Errors
  <2> QED BY <2>1, <2>2 DEF Outcome
<1> QED BY <1>2, <1>3, <1>4, <1>5, <1>6, <1>7, <1>8 DEF Answering

(***************************************************************************)
(* Messages that make the tracker look again, in an inbox that changes.    *)
(***************************************************************************)
Longer(ib, nb) == \A i \in 1..Len(ib) : i \in 1..Len(nb) /\ nb[i] = ib[i]

LEMMA WakesRenews ==
  ASSUME NEW k, NEW ib, NEW i, WokenAfter(ib, k, i)
  PROVE  Renewed(ib, k)
BY DEF WokenAfter, Renewed, Renews

LEMMA LongerKeeps ==
  ASSUME NEW k, NEW ib, NEW nb, Longer(ib, nb)
  PROVE  /\ Renewed(ib, k) => Renewed(nb, k)
         /\ \A i : WokenAfter(ib, k, i) => WokenAfter(nb, k, i)
<1>1. \A i \in 1..Len(ib) : i \in 1..Len(nb) /\ nb[i] = ib[i]
  BY DEF Longer
<1>2. Renewed(ib, k) => Renewed(nb, k)
  BY <1>1 DEF Renewed
<1>3. \A i : WokenAfter(ib, k, i) => WokenAfter(nb, k, i)
  BY <1>1 DEF WokenAfter
<1> QED BY <1>2, <1>3

LEMMA TailKeeps ==
  ASSUME NEW k, NEW ib \in Seq(Messages), ib # <<>>
  PROVE  /\ ~Renews(k, Head(ib)) /\ Renewed(ib, k) => Renewed(Tail(ib), k)
         /\ WokenAfter(ib, k, 1) => Renewed(Tail(ib), k)
         /\ \A i \in 1..Len(Tail(ib)) : WokenAfter(ib, k, i + 1) => WokenAfter(Tail(ib), k, i)
<1> DEFINE t == Tail(ib)
<1>1. /\ Len(ib) \in Nat /\ Head(ib) = ib[1]
      /\ \A i \in 1..Len(ib) : i # 1 => i - 1 \in 1..Len(t) /\ t[i - 1] = ib[i]
  BY QueueTail
<1> HIDE DEF t
<1>2. ~Renews(k, Head(ib)) /\ Renewed(ib, k) => Renewed(t, k)
  <2> SUFFICES ASSUME ~Renews(k, ib[1]), NEW i \in 1..Len(ib), Renews(k, ib[i]) PROVE Renewed(t, k)
    BY <1>1 DEF Renewed
  <2>1. i - 1 \in 1..Len(t) /\ t[i - 1] = ib[i]
    BY <1>1
  <2> QED BY <2>1 DEF Renewed
<1>3. WokenAfter(ib, k, 1) => Renewed(t, k)
  <2> SUFFICES ASSUME NEW i \in 1..Len(ib), i > 1, Wakes(k, ib[i]) PROVE Renewed(t, k)
    BY DEF WokenAfter
  <2>1. i - 1 \in 1..Len(t) /\ t[i - 1] = ib[i]
    BY <1>1
  <2> QED BY <2>1 DEF Renewed, Renews
<1>4. \A i \in 1..Len(t) : WokenAfter(ib, k, i + 1) => WokenAfter(t, k, i)
  <2> SUFFICES ASSUME NEW i \in 1..Len(t), NEW j \in 1..Len(ib), j > i + 1, Wakes(k, ib[j])
               PROVE  WokenAfter(t, k, i)
    BY DEF WokenAfter
  <2>1. j # 1 /\ j - 1 > i
    BY <1>1
  <2>2. j - 1 \in 1..Len(t) /\ t[j - 1] = ib[j]
    BY <1>1, <2>1
  <2> QED BY <2>1, <2>2 DEF WokenAfter
<1> QED BY <1>2, <1>3, <1>4 DEF t

LEMMA AppendKeeps ==
  ASSUME NEW k, NEW ib \in Seq(Messages), NEW m \in Messages
  PROVE  /\ Longer(ib, Append(ib, m))
         /\ \A i \in 1..Len(Append(ib, m)) : i \in 1..Len(ib) \/ Append(ib, m)[i] = m
         /\ Renews(k, m) => Renewed(Append(ib, m), k)
         /\ Wakes(k, m) => \A i \in 1..Len(ib) : WokenAfter(Append(ib, m), k, i)
<1> DEFINE n == Append(ib, m)
<1>1. /\ Len(ib) \in Nat
      /\ \A i \in 1..Len(ib) : i \in 1..Len(n) /\ n[i] = ib[i]
      /\ Len(ib) + 1 \in 1..Len(n) /\ n[Len(ib) + 1] = m
      /\ \A i \in 1..Len(n) : i \in 1..Len(ib) \/ i = Len(ib) + 1
  BY QueueAppend
<1> HIDE DEF n
<1>2. Longer(ib, n)
  BY <1>1 DEF Longer
<1>3. \A i \in 1..Len(n) : i \in 1..Len(ib) \/ n[i] = m
  BY <1>1
<1>4. Renews(k, m) => Renewed(n, k)
  BY <1>1 DEF Renewed
<1>5. \A i \in 1..Len(ib) : Len(ib) + 1 > i
  BY <1>1
<1>6. Wakes(k, m) => \A i \in 1..Len(ib) : WokenAfter(n, k, i)
  BY <1>1, <1>5 DEF WokenAfter
<1> QED BY <1>2, <1>3, <1>4, <1>6 DEF n

LEMMA FailuresKeep ==
  ASSUME NEW k, NEW ib \in Seq(Messages), NEW rq \in Seq(Ops)
  PROVE  /\ Longer(ib, ib \o Failures(rq))
         /\ \A i \in 1..Len(ib \o Failures(rq)) : i \in 1..Len(ib) \/ (ib \o Failures(rq))[i][2] = "error"
         /\ \A op : In(rq, op) => Renewed(ib \o Failures(rq), k)
<1>1. MaxChanges \in Nat
  BY TrackerAssumption
<1> DEFINE e == Failures(rq)
           n == ib \o e
<1>2. e \in Seq(Messages) /\ Len(e) = Len(rq) /\ \A i \in 1..Len(rq) : e[i] = <<rq[i], "error", Null>>
  BY <1>1, FailuresTyped
<1> HIDE DEF e
<1>3. /\ \A i \in 1..Len(ib) : i \in 1..Len(n) /\ n[i] = ib[i]
      /\ \A i \in 1..Len(e) : Len(ib) + i \in 1..Len(n) /\ n[Len(ib) + i] = e[i]
      /\ \A i \in 1..Len(n) : i \in 1..Len(ib) \/ \E j \in 1..Len(e) : i = Len(ib) + j
  BY <1>2, QueuesJoined
<1> HIDE DEF n
<1>4. \A i \in 1..Len(e) : e[i][2] = "error"
  BY <1>2
<1>5. Longer(ib, n)
  BY <1>3 DEF Longer
<1>6. ASSUME NEW i \in 1..Len(n), i \notin 1..Len(ib) PROVE n[i][2] = "error"
  <2>1. PICK j \in 1..Len(e) : i = Len(ib) + j
    BY <1>3, <1>6
  <2>2. n[i] = e[j] /\ e[j][2] = "error"
    BY <1>3, <1>4, <2>1
  <2> QED BY <2>2
<1>7. ASSUME NEW op, In(rq, op) PROVE Renewed(n, k)
  <2>1. PICK i \in 1..Len(rq) : rq[i] = op
    BY <1>7 DEF In
  <2>2. n[Len(ib) + i][2] = "error" /\ Len(ib) + i \in 1..Len(n)
    BY <1>2, <1>3, <1>4
  <2> QED BY <2>2 DEF Renewed, Renews
<1> QED BY <1>5, <1>6, <1>7 DEF n, e

(***************************************************************************)
(* One kind is tracked, and only it is asked for.                          *)
(***************************************************************************)
LEMMA KindSame ==
  ASSUME NEW k \in Kinds, KindInv(k), usage' = usage, tracks' \subseteq tracks, node' = node,
         attached' = attached, inFlight' = inFlight
  PROVE  KindInv(k)'
BY DEF KindInv, Only

LEMMA TrackedKind ==
  ASSUME NEW k \in Kinds, FlightInv, KindInv(k), NEW c \in Callbacks, NEW use \in usage,
         DoTrack(c, use[1], use[2], use[3])
  PROVE  KindInv(k)' /\ QueryOf(k) \in inFlight'
<1> DEFINE t == [cb |-> c, data |-> use[1], children |-> use[2], existing |-> use[3]]
           ts == tracks \cup {t}
           ops == GetOps(Needs(ts, Kinds, FALSE), FALSE, inFlight)
<1>1. /\ tracks' = ts /\ inFlight' = inFlight \cup ops /\ attached
      /\ usage' = usage /\ attached' = attached /\ node' = node
  BY DEF DoTrack, Query, server
<1>2. use \in BOOLEAN \X BOOLEAN \X BOOLEAN
  BY TrackerAssumption DEF FlightInv, TrackType, TypeOK
<1>3. t \in Tracker /\ t.data = use[1] /\ t.children = use[2]
  BY <1>2 DEF Tracker
<1>4. (use[1] <=> k = "data") /\ (use[2] <=> k = "children")
  BY DEF KindInv
<1>5. ts \in SUBSET Tracker
  BY <1>3 DEF FlightInv, TrackType, TypeOK
<1>6. Only(ts, k)
  BY <1>3, <1>4 DEF KindInv, Only
<1>7. ts # {}
  OBVIOUS
<1> HIDE DEF ts
<1>8. Needs(ts, Kinds, FALSE) = {k}
  <2>1. \A u \in ts, j \in Kinds : u[j] <=> j = k
    BY <1>6, OfTheKind
  <2>2. PICK u \in ts : TRUE
    BY <1>7
  <2> QED BY <2>1, <2>2 DEF Needs
<1>9. ops \subseteq {QueryOf(k), "exists"} /\ QueryOf(k) \in inFlight \cup ops
  <2>1. ops = GetOps({k}, FALSE, inFlight)
    BY <1>8
  <2> HIDE DEF ops
  <2> QED BY <2>1, AskedOfOne
<1> HIDE DEF ops
<1>10. inFlight' \subseteq {QueryOf(k), "exists"}
  BY <1>1, <1>9 DEF KindInv
<1> QED BY <1>1, <1>6, <1>9, <1>10 DEF KindInv

LEMMA KindKept ==
  ASSUME NEW k \in Kinds, FlightInv, KindInv(k), [Next]_vars
  PROVE  KindInv(k)'
<1>1. TypeOK
  BY DEF FlightInv, TrackType
<1>2. CASE Answering
  <2>1. CASE attached
    <3>1. PICK ops : Answered(ops) /\ ops \subseteq {QueryOf(k), "exists"}
      BY <1>2, <2>1, HandledOutcome
    <3>2. /\ usage' = usage /\ tracks' \subseteq tracks /\ node' = node /\ attached' = attached
          /\ inFlight' = (inFlight \ {Head(inbox)[1]}) \cup ops
      BY <3>1 DEF Answered
    <3> QED BY <2>1, <3>1, <3>2 DEF KindInv, Only
  <2>2. CASE ~attached
    <3>1. PICK ops : Answered(ops)
      BY <1>1, <1>2, Handled
    <3>2. usage' = usage /\ tracks' \subseteq tracks /\ node' = node /\ attached' = attached
      BY <3>1 DEF Answered
    <3> QED BY <2>2, <3>2 DEF KindInv, Only
  <2> QED BY <2>1, <2>2
<1>3. CASE Serve
  <2>1. /\ usage' = usage /\ tracks' = tracks /\ node' = node /\ attached' = attached
        /\ inFlight' = inFlight
    BY <1>3 DEF Serve, tracker, server
  <2> QED BY <2>1, KindSame
<1>4. CASE Change
  <2>1. /\ usage' = usage /\ attached' = attached /\ tracks' = tracks /\ inFlight' = inFlight
    BY <1>4 DEF Change, tracker
  <2>2. node["data"] = Null <=> node["children"] = Null
    BY DEF KindInv
  <2>3. changes + 1 # Null
    BY <1>1, <1>4, ChangeShape
  <2>4. \/ node'["data"] = changes + 1 /\ node'["children"] = changes + 1
        \/ node["data"] # Null /\ node'["data"] = changes + 1 /\ node'["children"] = node["children"]
        \/ node["data"] # Null /\ node'["children"] = changes + 1 /\ node'["data"] = node["data"]
        \/ node'["data"] = Null /\ node'["children"] = Null
    BY <1>1, <1>4, ChangeShape
  <2>5. node'["data"] = Null <=> node'["children"] = Null
    BY <2>2, <2>3, <2>4
  <2> QED BY <2>1, <2>5 DEF KindInv, Only
<1>5. CASE Disconnected
  BY <1>5, KindSame DEF Disconnected, tracker, server
<1>6. CASE Expired
  BY <1>6, KindSame DEF Expired, tracker
<1>7. CASE ResumeSession
  BY <1>7, KindSame DEF ResumeSession, tracker, server
<1>8. ASSUME NEW c \in Callbacks, NEW use \in usage, DoTrack(c, use[1], use[2], use[3]) PROVE KindInv(k)'
  BY <1>8, TrackedKind
<1>9. CASE Call
  BY <1>9, KindSame DEF Call, tracker, server
<1>10. CASE Reconnect
  BY <1>10, KindSame DEF Reconnect, tracker, server
<1>11. CASE Reconnected
  BY <1>11, KindSame DEF Reconnected, tracker
<1>12. CASE ClearErrorState
  BY <1>12, KindSame DEF ClearErrorState, server
<1>13. CASE TrackerShutdown
  BY <1>13 DEF TrackerShutdown, server, KindInv, Only
<1>14. ASSUME NEW c \in Callbacks, Cancel(c) PROVE KindInv(k)'
  BY <1>14, KindSame DEF Cancel, server
<1>15. ASSUME NEW c \in Callbacks, NEW use \in usage, DoTrackFailed(c, use[1], use[2], use[3])
       PROVE  KindInv(k)'
  BY <1>15, KindSame DEF DoTrackFailed, server
<1>16. CASE UNCHANGED vars
  BY <1>16, KindSame DEF vars, tracker, server
<1> QED
  BY <1>2, <1>3, <1>4, <1>5, <1>6, <1>7, <1>8, <1>9, <1>10, <1>11, <1>12, <1>13, <1>14, <1>15, <1>16
  DEF Next, TrackerCompletion, Answering

(***************************************************************************)
(* Answers on their way are fresh.                                         *)
(***************************************************************************)
LEMMA AnsweredFresh ==
  ASSUME NEW k \in Kinds, FlightInv, AnswersFresh(k), NEW ops, Answered(ops)
  PROVE  AnswersFresh(k)'
<1>1. /\ inbox # <<>> /\ inbox' = Tail(inbox) /\ node' = node /\ watch' = watch
      /\ connection' = connection /\ dead \subseteq dead'
  BY DEF Answered
<1>2. inbox \in Seq(Messages)
  BY DEF FlightInv, TrackType, TypeOK
<1>3. \A i \in 1..Len(inbox') : i + 1 \in 1..Len(inbox) /\ inbox'[i] = inbox[i + 1]
  BY <1>1, <1>2, QueueTail
<1>4. \A i \in 1..Len(inbox') : WokenAfter(inbox, k, i + 1) => WokenAfter(inbox', k, i)
  BY <1>1, <1>2, TailKeeps
<1>5. (Guarded(k)' <=> Guarded(k)) /\ \A op : Lost(op) => Lost(op)'
  BY <1>1 DEF Guarded, Lost
<1> SUFFICES ASSUME NEW i \in 1..Len(inbox') PROVE FreshGet(k, i)' /\ FreshMissing(k, i)'
  BY DEF AnswersFresh
<1>6. FreshGet(k, i + 1) /\ FreshMissing(k, i + 1) /\ inbox'[i] = inbox[i + 1]
  BY <1>3 DEF AnswersFresh
<1>7. WokenAfter(inbox, k, i + 1) => WokenAfter(inbox', k, i)
  BY <1>4
<1>8. FreshGet(k, i)'
  BY <1>1, <1>5, <1>6, <1>7 DEF FreshGet
<1>9. FreshMissing(k, i)'
  BY <1>1, <1>5, <1>6, <1>7 DEF FreshMissing
<1> QED BY <1>8, <1>9

\* More messages come: what guarded the node still does, has woken the tracker or is lost.
StillGuarded(k) ==
  Guarded(k) =>
    \/ Guarded(k)' /\ node'[k] = node[k]
    \/ Renewed(inbox', k) /\ \A i \in 1..Len(inbox) : WokenAfter(inbox', k, i)
    \/ node[k] # Null /\ Lost(QueryOf(k))'
    \/ node[k] = Null /\ Lost("exists")'

LEMMA FreshLonger ==
  ASSUME NEW k \in Kinds, AnswersFresh(k), Longer(inbox, inbox'), StillGuarded(k),
         \A i \in 1..Len(inbox') : i \in 1..Len(inbox) \/ (FreshGet(k, i)' /\ FreshMissing(k, i)'),
         \A op \in Ops : Lost(op) => Lost(op)'
  PROVE  AnswersFresh(k)'
<1> SUFFICES ASSUME NEW i \in 1..Len(inbox') PROVE FreshGet(k, i)' /\ FreshMissing(k, i)'
  BY DEF AnswersFresh
<1> SUFFICES ASSUME i \in 1..Len(inbox) PROVE FreshGet(k, i)' /\ FreshMissing(k, i)'
  OBVIOUS
<1>1. FreshGet(k, i) /\ FreshMissing(k, i)
  BY DEF AnswersFresh
<1>2. inbox'[i] = inbox[i]
  BY DEF Longer
<1>3. WokenAfter(inbox, k, i) => WokenAfter(inbox', k, i)
  BY LongerKeeps
<1>4. (Lost(QueryOf(k)) => Lost(QueryOf(k))') /\ (Lost("exists") => Lost("exists")')
  BY KindFacts
<1>5. Guarded(k) =>
        \/ Guarded(k)' /\ node'[k] = node[k]
        \/ WokenAfter(inbox', k, i)
        \/ node[k] # Null /\ Lost(QueryOf(k))'
        \/ node[k] = Null /\ Lost("exists")'
  BY DEF StillGuarded
<1>6. FreshGet(k, i)'
  <2>1. CASE inbox[i][3] = node[k] /\ node[k] # Null /\ Guarded(k)
    <3>2. CASE Guarded(k)' /\ node'[k] = node[k]
      BY <1>2, <2>1, <3>2 DEF FreshGet
    <3>3. CASE WokenAfter(inbox', k, i)
      BY <3>3 DEF FreshGet
    <3>4. CASE Lost(QueryOf(k))'
      BY <3>4 DEF FreshGet
    <3> QED BY <1>5, <2>1, <3>2, <3>3, <3>4
  <2>2. CASE WokenAfter(inbox, k, i)
    BY <1>3, <2>2 DEF FreshGet
  <2>3. CASE Lost(QueryOf(k))
    BY <1>4, <2>3 DEF FreshGet
  <2>4. CASE ~(inbox[i][1] = QueryOf(k) /\ inbox[i][2] = "ok")
    BY <1>2, <2>4 DEF FreshGet
  <2> QED BY <1>1, <2>1, <2>2, <2>3, <2>4 DEF FreshGet
<1>7. FreshMissing(k, i)'
  <2>1. CASE node[k] = Null /\ Guarded(k)
    <3>2. CASE Guarded(k)' /\ node'[k] = node[k]
      BY <1>2, <2>1, <3>2 DEF FreshMissing
    <3>3. CASE WokenAfter(inbox', k, i)
      BY <3>3 DEF FreshMissing
    <3>4. CASE Lost("exists")'
      BY <3>4 DEF FreshMissing
    <3> QED BY <1>5, <2>1, <3>2, <3>3, <3>4
  <2>2. CASE WokenAfter(inbox, k, i)
    BY <1>3, <2>2 DEF FreshMissing
  <2>3. CASE Lost("exists")
    BY <1>4, <2>3 DEF FreshMissing
  <2>4. CASE ~(inbox[i][1] = "exists" /\ inbox[i][2] = "nonode")
    BY <1>2, <2>4 DEF FreshMissing
  <2> QED BY <1>1, <2>1, <2>2, <2>3, <2>4 DEF FreshMissing
<1> QED BY <1>6, <1>7

\* A message that is no answer of either sort.
LEMMA NoAnswerFresh ==
  ASSUME NEW k \in Kinds, NEW i, inbox'[i][1] = "event" \/ inbox'[i][2] = "error"
  PROVE  FreshGet(k, i)' /\ FreshMissing(k, i)'
<1>1. "event" # QueryOf(k) /\ "event" # "exists"
  BY KindFacts
<1>2. FreshGet(k, i)'
  BY <1>1 DEF FreshGet
<1>3. FreshMissing(k, i)'
  BY <1>1 DEF FreshMissing
<1> QED BY <1>2, <1>3

\* The steps that leave the inbox, the node, the watches and the session alone.
LEMMA FreshSame ==
  ASSUME NEW k \in Kinds, AnswersFresh(k), inbox' = inbox, node' = node, watch' = watch, dead' = dead,
         connection \in {"expired", "opening"} => connection' \in {"expired", "opening"}
  PROVE  AnswersFresh(k)'
<1>1. (Guarded(k)' <=> Guarded(k)) /\ \A op : Lost(op) => Lost(op)'
  BY DEF Guarded, Lost
<1> SUFFICES ASSUME NEW i \in 1..Len(inbox) PROVE FreshGet(k, i)' /\ FreshMissing(k, i)'
  BY DEF AnswersFresh
<1>2. FreshGet(k, i) /\ FreshMissing(k, i)
  BY DEF AnswersFresh
<1>3. FreshGet(k, i)'
  BY <1>1, <1>2 DEF FreshGet
<1>4. FreshMissing(k, i)'
  BY <1>1, <1>2 DEF FreshMissing
<1> QED BY <1>3, <1>4

(***************************************************************************)
(* What the steps that take nothing from the inbox keep.                   *)
(***************************************************************************)
Progress(k) ==
  /\ Longer(inbox, inbox') /\ StillGuarded(k)
  /\ \A i \in 1..Len(inbox') : i \in 1..Len(inbox) \/ (FreshGet(k, i)' /\ FreshMissing(k, i)')
  /\ \A op \in Ops : Lost(op) => Lost(op)'
  /\ In(requests, QueryOf(k)) => In(requests', QueryOf(k)) \/ Renewed(inbox', k)
  /\ In(requests, "exists") =>
       In(requests', "exists") \/ Renewed(inbox', k) \/ (node'[k] = Null /\ Guarded(k)')

LEMMA ProgressFresh ==
  ASSUME NEW k \in Kinds, AnswersFresh(k), Progress(k)
  PROVE  AnswersFresh(k)'
<1>1. /\ Longer(inbox, inbox') /\ StillGuarded(k)
      /\ \A i \in 1..Len(inbox') : i \in 1..Len(inbox) \/ (FreshGet(k, i)' /\ FreshMissing(k, i)')
      /\ \A op \in Ops : Lost(op) => Lost(op)'
  BY DEF Progress
<1> QED BY <1>1, FreshLonger

LEMMA ProgressWaits ==
  ASSUME NEW k \in Kinds, NEW c, Waiting(c, k), Progress(k),
         \A v : Knows(c, k, v) => Knows(c, k, v)'
  PROVE  Waiting(c, k)'
<1>1. /\ In(requests, QueryOf(k)) => In(requests', QueryOf(k)) \/ Renewed(inbox', k)
      /\ In(requests, "exists") =>
           In(requests', "exists") \/ Renewed(inbox', k) \/ (node'[k] = Null /\ Guarded(k)')
      /\ Longer(inbox, inbox') /\ StillGuarded(k)
      /\ \A op \in Ops : Lost(op) => Lost(op)'
  BY DEF Progress
<1>2. CASE In(requests, QueryOf(k))
  BY <1>1, <1>2 DEF Waiting
<1>3. CASE In(requests, "exists") /\ Knows(c, k, Null)
  <2>1. Knows(c, k, Null)'
    BY <1>3
  <2>2. node'[k] = Null => Knows(c, k, node[k])'
    BY <2>1 DEF Knows
  <2> QED BY <1>1, <1>3, <2>1, <2>2 DEF Waiting
<1>4. CASE Renewed(inbox, k)
  <2>1. Renewed(inbox', k)
    BY <1>1, <1>4, LongerKeeps
  <2> QED BY <2>1 DEF Waiting
<1>5. CASE Lost(QueryOf(k)) \/ Lost("exists")
  <2>1. Lost(QueryOf(k))' \/ Lost("exists")'
    BY <1>1, <1>5, KindFacts
  <2> QED BY <2>1 DEF Waiting
<1>6. CASE Knows(c, k, node[k]) /\ Guarded(k)
  <2>1. CASE Guarded(k)' /\ node'[k] = node[k]
    <3>1. PICK v : v = node[k]
      OBVIOUS
    <3>2. Knows(c, k, v)
      BY <1>6, <3>1
    <3>3. Knows(c, k, v)' /\ node'[k] = v
      BY <2>1, <3>1, <3>2
    <3>4. Knows(c, k, node[k])'
      BY <3>3 DEF Knows
    <3> QED BY <2>1, <3>4 DEF Waiting
  <2>2. CASE Renewed(inbox', k)
    BY <2>2 DEF Waiting
  <2>3. CASE Lost(QueryOf(k))' \/ Lost("exists")'
    BY <2>3 DEF Waiting
  <2> QED BY <1>1, <1>6, <2>1, <2>2, <2>3 DEF StillGuarded
<1> QED BY <1>2, <1>3, <1>4, <1>5, <1>6 DEF Waiting

LEMMA SameProgress ==
  ASSUME NEW k \in Kinds, inbox' = inbox, node' = node, watch' = watch, dead' = dead,
         requests' = requests,
         connection \in {"expired", "opening"} => connection' \in {"expired", "opening"}
  PROVE  Progress(k)
<1>1. (Guarded(k) => Guarded(k)') /\ \A op \in Ops : Lost(op) => Lost(op)'
  BY DEF Guarded, Lost
<1>2. Longer(inbox, inbox')
  BY DEF Longer
<1> QED BY <1>1, <1>2 DEF Progress, StillGuarded

LEMMA DisconnectedProgress ==
  ASSUME NEW k \in Kinds, FlightInv, Disconnected
  PROVE  Progress(k)
<1>1. /\ connection = "connected" /\ inbox' = inbox \o Failures(requests) /\ requests' = <<>>
      /\ node' = node /\ watch' = watch
  BY DEF Disconnected, Failures, server
<1>2. inbox \in Seq(Messages) /\ requests \in Seq(Ops)
  BY DEF FlightInv, TrackType, TypeOK
<1>3. /\ Longer(inbox, inbox')
      /\ \A i \in 1..Len(inbox') : i \in 1..Len(inbox) \/ inbox'[i][2] = "error"
      /\ \A op : In(requests, op) => Renewed(inbox', k)
  BY <1>1, <1>2, FailuresKeep
<1>4. \A i \in 1..Len(inbox') : i \in 1..Len(inbox) \/ (FreshGet(k, i)' /\ FreshMissing(k, i)')
  BY <1>3, NoAnswerFresh
<1>5. (Guarded(k) => Guarded(k)') /\ \A op \in Ops : ~Lost(op)
  BY <1>1 DEF Guarded, Lost
<1> QED BY <1>1, <1>3, <1>4, <1>5 DEF Progress, StillGuarded

LEMMA ExpiredProgress ==
  ASSUME NEW k \in Kinds, FlightInv, Expired
  PROVE  Progress(k)
<1> DEFINE m == <<"event", "session", Null>>
<1>1. /\ connection = "connecting" /\ connection' = "expired" /\ dead' = dead \cup watch
      /\ node' = node /\ requests' = requests
      /\ inbox' = inbox \/ inbox' = Append(inbox, m)
  BY DEF Expired
<1>2. inbox \in Seq(Messages)
  BY DEF FlightInv, TrackType, TypeOK
<1>3. m \in Messages /\ m[1] = "event"
  BY DEF Messages, Events
<1> HIDE DEF m
<1>4. /\ Longer(inbox, inbox')
      /\ \A i \in 1..Len(inbox') : i \in 1..Len(inbox) \/ inbox'[i] = m
  <2>1. CASE inbox' = inbox
    BY <2>1 DEF Longer
  <2>2. CASE inbox' = Append(inbox, m)
    BY <1>2, <1>3, <2>2, AppendKeeps
  <2> QED BY <1>1, <2>1, <2>2
<1>5. \A i \in 1..Len(inbox') : i \in 1..Len(inbox) \/ (FreshGet(k, i)' /\ FreshMissing(k, i)')
  BY <1>3, <1>4, NoAnswerFresh
<1>6. \A op \in Ops : ~Lost(op)
  BY <1>1 DEF Lost
<1>7. StillGuarded(k)
  <2> SUFFICES ASSUME Guarded(k)
               PROVE  \/ node[k] # Null /\ Lost(QueryOf(k))'
                      \/ node[k] = Null /\ Lost("exists")'
    BY DEF StillGuarded
  <2>1. (IF node[k] # Null THEN QueryOf(k) ELSE "exists") \in watch
    BY DEF Guarded
  <2> QED BY <1>1, <2>1 DEF Lost
<1> QED BY <1>1, <1>4, <1>5, <1>6, <1>7 DEF Progress

LEMMA ChangeProgress ==
  ASSUME NEW k \in Kinds, FlightInv, KindInv(k), Change
  PROVE  Progress(k)
<1> DEFINE g == IF node[k] # Null THEN QueryOf(k) ELSE "exists"
<1>1. TypeOK
  BY DEF FlightInv, TrackType
<1>2. node["data"] = Null <=> node[k] = Null
  <2>1. node["data"] = Null <=> node["children"] = Null
    BY DEF KindInv
  <2> QED BY <2>1, KindFacts
<1>3. PICK type \in Events, ops \in SUBSET Ops :
        /\ ChangedTo(type, ops)
        /\ g \in ops => type \in {"created", "deleted", EventAbout(k)}
        /\ g \notin ops => node'[k] = node[k]
  <2>1. CASE node["data"] = Null /\ ChangedTo("created", {"exists", "get"})
    <3>1. g = "exists"
      BY <1>2, <2>1
    <3> QED BY <2>1, <3>1 DEF Events, Ops
  <2>2. CASE /\ node["data"] # Null /\ ChangedTo("changed", {"exists", "get"})
             /\ node'["data"] = changes + 1 /\ node'["children"] = node["children"]
    <3>1. g = QueryOf(k)
      BY <1>2, <2>2
    <3>2. /\ QueryOf(k) \in {"exists", "get"} => EventAbout(k) = "changed"
          /\ QueryOf(k) \notin {"exists", "get"} => k = "children"
      BY DEF QueryOf, EventAbout, Kinds
    <3> QED BY <2>2, <3>1, <3>2 DEF Events, Ops
  <2>3. CASE /\ node["data"] # Null /\ ChangedTo("child", {"getc"})
             /\ node'["children"] = changes + 1 /\ node'["data"] = node["data"]
    <3>1. g = QueryOf(k)
      BY <1>2, <2>3
    <3>2. /\ QueryOf(k) \in {"getc"} => EventAbout(k) = "child"
          /\ QueryOf(k) \notin {"getc"} => k = "data"
      BY DEF QueryOf, EventAbout, Kinds
    <3> QED BY <2>3, <3>1, <3>2 DEF Events, Ops
  <2>4. CASE node["data"] # Null /\ ChangedTo("deleted", Ops)
    <3>1. g \in Ops
      BY KindFacts
    <3> QED BY <2>4, <3>1 DEF Events
  <2> QED BY <1>1, <2>1, <2>2, <2>3, <2>4, ChangeShape
<1> DEFINE m == <<"event", type, Null>>
<1>4. /\ inbox' = IF watch \cap ops # {} THEN Append(inbox, m) ELSE inbox
      /\ watch' = watch \ ops
  BY <1>3 DEF ChangedTo, Fire
<1>5. connection' = connection /\ dead' = dead /\ requests' = requests
  BY <1>3 DEF ChangedTo
<1>6. inbox \in Seq(Messages)
  BY <1>1 DEF TypeOK
<1>7. m \in Messages /\ m[1] = "event" /\ (g \in ops => Wakes(k, m))
  BY <1>3 DEF Messages, Wakes
<1> HIDE DEF m
<1>8. /\ Longer(inbox, inbox')
      /\ \A i \in 1..Len(inbox') : i \in 1..Len(inbox) \/ inbox'[i] = m
  <2>1. CASE inbox' = inbox
    BY <2>1 DEF Longer
  <2>2. CASE inbox' = Append(inbox, m)
    BY <1>6, <1>7, <2>2, AppendKeeps
  <2> QED BY <1>4, <2>1, <2>2
<1>9. \A i \in 1..Len(inbox') : i \in 1..Len(inbox) \/ (FreshGet(k, i)' /\ FreshMissing(k, i)')
  BY <1>7, <1>8, NoAnswerFresh
<1>10. \A op \in Ops : Lost(op) => Lost(op)'
  BY <1>5 DEF Lost
<1>11. StillGuarded(k)
  <2> SUFFICES ASSUME Guarded(k)
               PROVE  \/ Guarded(k)' /\ node'[k] = node[k]
                      \/ Renewed(inbox', k) /\ \A i \in 1..Len(inbox) : WokenAfter(inbox', k, i)
    BY DEF StillGuarded
  <2>1. g \in watch
    BY DEF Guarded
  <2>2. CASE g \in ops
    <3>1. inbox' = Append(inbox, m) /\ Wakes(k, m)
      BY <1>4, <1>7, <2>1, <2>2
    <3>2. Renews(k, m)
      BY <3>1 DEF Renews
    <3> QED BY <1>6, <1>7, <3>1, <3>2, AppendKeeps
  <2>3. CASE g \notin ops
    <3>1. node'[k] = node[k] /\ g \in watch'
      BY <1>3, <1>4, <2>1, <2>3
    <3> QED BY <3>1 DEF Guarded
  <2> QED BY <2>2, <2>3
<1> QED BY <1>5, <1>8, <1>9, <1>10, <1>11 DEF Progress

\* A request is the next one or stays.
LEMMA InTail ==
  ASSUME NEW rq \in Seq(Ops), rq # <<>>, NEW op, In(rq, op)
  PROVE  op = Head(rq) \/ In(Tail(rq), op)
<1>1. /\ Head(rq) = rq[1]
      /\ \A i \in 1..Len(rq) : i # 1 => i - 1 \in 1..Len(Tail(rq)) /\ Tail(rq)[i - 1] = rq[i]
  BY QueueTail
<1>2. PICK i \in 1..Len(rq) : rq[i] = op
  BY DEF In
<1>3. CASE i = 1
  BY <1>1, <1>2, <1>3
<1>4. CASE i # 1
  <2>1. i - 1 \in 1..Len(Tail(rq)) /\ Tail(rq)[i - 1] = op
    BY <1>1, <1>2, <1>4
  <2> QED BY <2>1 DEF In
<1> QED BY <1>3, <1>4

LEMMA ServeProgress ==
  ASSUME NEW k \in Kinds, FlightInv, KindInv(k), attached, Serve
  PROVE  Progress(k)
<1> DEFINE op == Head(requests)
           there == node["data"] # Null
<1>1. PICK m \in Messages :
        /\ inbox' = Append(inbox, m) /\ m[1] = op
        /\ m[2] = (IF there THEN "ok" ELSE "nonode")
        /\ m[3] = (IF m[1] = "getc" THEN node["children"] ELSE node["data"])
  BY ServeFlights
<1>2. /\ connection = "connected" /\ requests # <<>> /\ requests' = Tail(requests) /\ node' = node
      /\ watch' = IF attached /\ (there \/ op = "exists") THEN watch \cup {op} ELSE watch
  BY DEF Serve, server
<1>3. inbox \in Seq(Messages) /\ requests \in Seq(Ops)
  BY DEF FlightInv, TrackType, TypeOK
<1>4. there <=> node[k] # Null
  <2>1. node["data"] = Null <=> node["children"] = Null
    BY DEF KindInv
  <2> QED BY <2>1, KindFacts
<1>5. watch \subseteq watch' /\ (there \/ op = "exists" => op \in watch')
  BY <1>2
<1> HIDE DEF op, there
<1>6. /\ Longer(inbox, inbox')
      /\ \A i \in 1..Len(inbox') : i \in 1..Len(inbox) \/ inbox'[i] = m
      /\ Renews(k, m) => Renewed(inbox', k)
  <2>1. /\ Longer(inbox, Append(inbox, m))
        /\ \A i \in 1..Len(Append(inbox, m)) : i \in 1..Len(inbox) \/ Append(inbox, m)[i] = m
        /\ Renews(k, m) => Renewed(Append(inbox, m), k)
    BY <1>3, AppendKeeps, Zenon
  <2> QED BY <1>1, <2>1, Zenon
<1>7. Guarded(k) => Guarded(k)' /\ node'[k] = node[k]
  BY <1>2, <1>5 DEF Guarded
<1>8. \A x \in Ops : ~Lost(x)
  BY <1>2 DEF Lost
<1>9. op = "exists" /\ ~there => node'[k] = Null /\ Guarded(k)'
  BY <1>2, <1>4, <1>5 DEF Guarded
<1>10. ASSUME NEW i, inbox'[i] = m PROVE FreshGet(k, i)' /\ FreshMissing(k, i)'
  <2>1. FreshGet(k, i)'
    <3> SUFFICES ASSUME m[1] = QueryOf(k), m[2] = "ok"
                 PROVE  m[3] = node'[k] /\ node'[k] # Null /\ Guarded(k)'
      BY <1>10 DEF FreshGet
    <3>1. there
      BY <1>1
    <3>2. m[3] = node[k]
      BY <1>1 DEF QueryOf, Kinds
    <3>3. QueryOf(k) \in watch'
      BY <1>1, <1>5, <3>1
    <3>4. node'[k] = node[k] /\ node[k] # Null
      BY <1>2, <1>4, <3>1
    <3>5. Guarded(k)'
      BY <3>3, <3>4 DEF Guarded
    <3> QED BY <3>2, <3>4, <3>5
  <2>2. FreshMissing(k, i)'
    <3> SUFFICES ASSUME m[1] = "exists", m[2] = "nonode" PROVE node'[k] = Null /\ Guarded(k)'
      BY <1>10 DEF FreshMissing
    <3>1. op = "exists" /\ ~there
      BY <1>1
    <3> QED BY <1>9, <3>1
  <2> QED BY <2>1, <2>2
<1>11. In(requests, QueryOf(k)) => In(requests', QueryOf(k)) \/ Renewed(inbox', k)
  <2> SUFFICES ASSUME In(requests, QueryOf(k)), QueryOf(k) = op PROVE Renewed(inbox', k)
    BY <1>2, <1>3, InTail DEF op
  <2>1. Renews(k, m)
    BY <1>1 DEF Renews
  <2> QED BY <1>6, <2>1
<1>12. In(requests, "exists") =>
         In(requests', "exists") \/ Renewed(inbox', k) \/ (node'[k] = Null /\ Guarded(k)')
  <2> SUFFICES ASSUME In(requests, "exists"), "exists" = op
               PROVE  Renewed(inbox', k) \/ (node'[k] = Null /\ Guarded(k)')
    BY <1>2, <1>3, InTail DEF op
  <2>1. CASE there
    <3>1. Renews(k, m)
      BY <1>1, <2>1 DEF Renews
    <3> QED BY <1>6, <3>1
  <2>2. CASE ~there
    BY <1>9, <2>2
  <2> QED BY <2>1, <2>2
<1> QED BY <1>6, <1>7, <1>8, <1>10, <1>11, <1>12 DEF Progress, StillGuarded

(***************************************************************************)
(* Who tracks is told.                                                     *)
(***************************************************************************)
LEMMA ProgressTold ==
  ASSUME NEW k \in Kinds, ToldInv(k), Progress(k), tracks' \subseteq tracks,
         \A t \in tracks' : Failing(t.cb) => Failing(t.cb)',
         \A t \in tracks' : \A v : Knows(t.cb, k, v) => Knows(t.cb, k, v)'
  PROVE  ToldInv(k)'
<1> SUFFICES ASSUME NEW t \in tracks', ~t.existing, ~Failing(t.cb)' PROVE Waiting(t.cb, k)'
  BY DEF ToldInv
<1>1. Waiting(t.cb, k)
  BY DEF ToldInv
<1>2. PICK c : c = t.cb
  OBVIOUS
<1>3. \A v : Knows(c, k, v) => Knows(c, k, v)'
  BY <1>2
<1>4. Waiting(c, k)'
  BY <1>1, <1>2, <1>3, ProgressWaits
<1> QED BY <1>2, <1>4

\* Neither calls nor what callbacks have seen change.
LEMMA QuietTold ==
  ASSUME NEW k \in Kinds, ToldInv(k), Progress(k), tracks' \subseteq tracks,
         calling' = calling, seen' = seen, failed' = failed
  PROVE  ToldInv(k)'
<1>1. \A c : Failing(c) => Failing(c)'
  BY DEF Failing
<1>2. \A c : \A v : Knows(c, k, v) => Knows(c, k, v)'
  BY DEF Knows
<1> QED BY <1>1, <1>2, ProgressTold

\* A callback is called.
LEMMA CallTold ==
  ASSUME NEW k \in Kinds, FlightInv, ToldInv(k), Call
  PROVE  ToldInv(k)'
<1>1. TypeOK
  BY DEF FlightInv, TrackType
<1>2. PICK call \in calling :
        /\ calling' = calling \ {call}
        /\ \A c \in Callbacks, j \in Kinds :
             seen'[c][j] = IF c = call[1] /\ j = call[2] THEN call[3] ELSE seen[c][j]
        /\ failed' = IF call[2] = "error" THEN failed \cup {call[1]} ELSE failed
  BY <1>1, CallTyped
<1>3. /\ tracks' = tracks /\ inbox' = inbox /\ node' = node /\ watch' = watch /\ dead' = dead
      /\ requests' = requests /\ connection' = connection
  BY DEF Call, tracker, client, server
<1>4. Progress(k)
  BY <1>3, SameProgress
<1>5. \A c : Failing(c) => Failing(c)'
  BY <1>2 DEF Failing
<1>6. ASSUME NEW c \in Callbacks, NEW v, Knows(c, k, v) PROVE Knows(c, k, v)'
  <2>1. /\ \A x \in calling : x[1] = c /\ x[2] = k => x[3] = v
        /\ (\E x \in calling : x[1] = c /\ x[2] = k) \/ seen[c][k] = v
    BY <1>6 DEF Knows, Told
  <2>2. \A x \in calling' : x[1] = c /\ x[2] = k => x[3] = v
    BY <1>2, <2>1
  <2>3. seen'[c][k] = IF c = call[1] /\ k = call[2] THEN call[3] ELSE seen[c][k]
    BY <1>2
  <2>4. (\E x \in calling' : x[1] = c /\ x[2] = k) \/ seen'[c][k] = v
    <3>1. CASE c = call[1] /\ k = call[2]
      BY <2>1, <2>3, <3>1
    <3>2. CASE ~(c = call[1] /\ k = call[2])
      BY <1>2, <2>1, <2>3, <3>2
    <3> QED BY <3>1, <3>2
  <2> QED BY <2>2, <2>4 DEF Knows, Told
<1>7. \A t \in tracks : t.cb \in Callbacks
  BY <1>1 DEF TypeOK, Tracker
<1> QED BY <1>3, <1>4, <1>5, <1>6, <1>7, ProgressTold

\* A callback is cancelled: the others are where they were.
LEMMA CancelTold ==
  ASSUME NEW k \in Kinds, FlightInv, ToldInv(k), NEW c \in Callbacks, Cancel(c)
  PROVE  ToldInv(k)'
<1>1. TypeOK
  BY DEF FlightInv, TrackType
<1>2. /\ inbox' = inbox /\ node' = node /\ watch' = watch /\ dead' = dead
      /\ requests' = requests /\ connection' = connection /\ calling' = calling
      /\ tracks' = {t \in tracks : t.cb # c} /\ failed' = failed \ {c} /\ seen' = Forgotten(c)
  BY DEF Cancel, client, server
<1>3. Progress(k)
  BY <1>2, SameProgress
<1>4. \A t \in tracks' : t \in tracks /\ t.cb # c /\ t.cb \in Callbacks
  BY <1>1, <1>2 DEF TypeOK, Tracker
<1>5. \A t \in tracks' : Failing(t.cb) => Failing(t.cb)'
  BY <1>2, <1>4 DEF Failing
<1>6. \A d \in Callbacks : d # c => seen'[d] = seen[d]
  BY <1>1, <1>2, ForgottenTyped
<1>7. \A t \in tracks' : \A v : Knows(t.cb, k, v) => Knows(t.cb, k, v)'
  BY <1>2, <1>4, <1>6 DEF Knows
<1> QED BY <1>3, <1>4, <1>5, <1>7, ProgressTold

\* What is in flight waits or is on its way.
LEMMA FlightWaits ==
  ASSUME NEW k \in Kinds, FlightInv', attached', QueryOf(k) \in inFlight', NEW c
  PROVE  Waiting(c, k)'
<1>1. Flights(inFlight', requests', inbox')
  BY DEF FlightInv
<1>2. QueryOf(k) \in Ops
  BY KindFacts
<1>3. In(requests', QueryOf(k)) \/ Has(inbox', QueryOf(k))
  BY <1>1, <1>2 DEF Flights
<1>4. Has(inbox', QueryOf(k)) => Renewed(inbox', k)
  BY DEF Has, Renewed, Renews
<1> QED BY <1>3, <1>4 DEF Waiting

\* Nobody fails to be told of an error.
LEMMA FailedTold ==
  ASSUME NEW k, \A t \in tracks' : Failing(t.cb)'
  PROVE  ToldInv(k)'
BY DEF ToldInv

\* The session is resumed.
LEMMA ResumedWakes ==
  ASSUME NEW k \in Kinds
  PROVE  Renews(k, EventOf(QueryOf(k))) /\ Renews(k, EventOf("exists"))
<1>1. EventOf("exists") = <<"event", "created", Null>>
  BY DEF EventOf
<1>2. EventOf(QueryOf(k)) = <<"event", EventAbout(k), Null>>
  BY DEF EventOf, QueryOf, EventAbout, Kinds
<1> QED BY <1>1, <1>2 DEF Renews, Wakes

LEMMA ResumeTold ==
  ASSUME NEW k \in Kinds, FlightInv, ToldInv(k), ResumeSession
  PROVE  ToldInv(k)' /\ AnswersFresh(k)'
<1>1. TypeOK
  BY DEF FlightInv, TrackType
<1>2. /\ inbox = <<>> /\ tracks' = tracks /\ node' = node /\ requests' = requests
      /\ calling' = calling /\ seen' = seen /\ failed' = failed
  BY DEF ResumeSession, tracker, server
<1>3. /\ \A i \in 1..Len(inbox') : inbox'[i][1] = "event"
      /\ \A op \in watch \cup dead : \E i \in 1..Len(inbox') : inbox'[i] = EventOf(op)
  BY <1>1, ResumeShape
<1>4. AnswersFresh(k)'
  BY <1>3, NoAnswerFresh DEF AnswersFresh
<1>5. Renews(k, EventOf(QueryOf(k))) /\ Renews(k, EventOf("exists"))
  BY ResumedWakes
<1>6. QueryOf(k) \in watch \cup dead \/ "exists" \in watch \cup dead => Renewed(inbox', k)
  BY <1>3, <1>5 DEF Renewed
<1>7. ~Renewed(inbox, k)
  <2>1. Len(inbox) = 0
    BY <1>2
  <2> QED BY <2>1 DEF Renewed
<1>8. Guarded(k) => QueryOf(k) \in watch \/ "exists" \in watch
  BY DEF Guarded
<1>9. \A op : Lost(op) => op \in dead
  BY DEF Lost
<1> SUFFICES ASSUME NEW t \in tracks, ~t.existing, ~Failing(t.cb)' PROVE Waiting(t.cb, k)'
  BY <1>2, <1>4 DEF ToldInv
<1>10. ~Failing(t.cb)
  BY <1>2 DEF Failing
<1>11. Waiting(t.cb, k)
  BY <1>10 DEF ToldInv
<1>12. Knows(t.cb, k, Null) => Knows(t.cb, k, Null)'
  BY <1>2 DEF Knows
<1>13. CASE In(requests, QueryOf(k))
  BY <1>2, <1>13 DEF Waiting
<1>14. CASE In(requests, "exists") /\ Knows(t.cb, k, Null)
  BY <1>2, <1>12, <1>14 DEF Waiting
<1>15. CASE QueryOf(k) \in watch \cup dead \/ "exists" \in watch \cup dead
  BY <1>6, <1>15 DEF Waiting
<1> QED BY <1>7, <1>8, <1>9, <1>11, <1>13, <1>14, <1>15 DEF Waiting

\* What the notifications say.
LEMMA Notified ==
  ASSUME NEW k \in Kinds, NEW ts \in SUBSET Tracker, Only(ts, k), NEW t \in ts
  PROVE  /\ <<t.cb, "error", Null>> \in NotifyError(ts)
         /\ \A v : Told(Notify(ts, k, v), t.cb, k) /\ \A x \in Notify(ts, k, v) : x[3] = v
         /\ Told(NotifyNull(ts), t.cb, k) /\ \A x \in NotifyNull(ts) : x[3] = Null
<1>1. t[k]
  BY OfTheKind
<1>2. t.cb \in Users(ts) /\ t.cb \in Users({u \in ts : u[k]})
  BY <1>1 DEF Users
<1>3. <<t.cb, "error", Null>> \in NotifyError(ts)
  BY <1>2 DEF NotifyError
<1>4. ASSUME NEW v, NEW j, NEW x \in Notify(ts, j, v) PROVE x[3] = v
  <2>1. PICK U : Notify(ts, j, v) = {<<c, j, v>> : c \in U}
    BY DEF Notify
  <2>2. PICK c \in U : x = <<c, j, v>>
    BY <2>1
  <2> QED BY <2>2
<1>5. ASSUME NEW v PROVE <<t.cb, k, v>> \in Notify(ts, k, v)
  <2>1. PICK U : U = Users({u \in ts : u[k]})
    OBVIOUS
  <2>2. Notify(ts, k, v) = {<<c, k, v>> : c \in U}
    BY <2>1, Zenon DEF Notify
  <2> QED BY <1>2, <2>1, <2>2
<1>6. ASSUME NEW v PROVE Told(Notify(ts, k, v), t.cb, k)
  <2>1. PICK x : x = <<t.cb, k, v>>
    OBVIOUS
  <2>2. x \in Notify(ts, k, v)
    BY <1>5, <2>1
  <2>3. x[1] = t.cb /\ x[2] = k
    BY <2>1
  <2> QED BY <2>2, <2>3 DEF Told
<1>7. <<t.cb, k, Null>> \in NotifyNull(ts)
  <2>1. <<t.cb, k, Null>> \in Notify(ts, k, Null)
    BY <1>5
  <2> QED BY <2>1 DEF NotifyNull, Kinds
<1>8. Told(NotifyNull(ts), t.cb, k)
  BY <1>7 DEF Told
<1>9. \A x \in NotifyNull(ts) : x[3] = Null
  BY <1>4 DEF NotifyNull
<1> QED BY <1>3, <1>4, <1>6, <1>8, <1>9

\* Requests stay when more are made.
LEMMA MoreRequests ==
  ASSUME NEW rq \in Seq(Ops), NEW ops
  PROVE  \A op \in Ops : In(rq, op) => In(rq \o InOrder(ops), op)
<1>1. InOrder(ops) \in Seq(Ops)
  BY AskedInOrder
<1>2. \A i \in 1..Len(rq) : i \in 1..Len(rq \o InOrder(ops)) /\ (rq \o InOrder(ops))[i] = rq[i]
  BY <1>1, QueuesJoined
<1> QED BY <1>2 DEF In

\* A message is handled.
LEMMA AnsweredTold ==
  ASSUME NEW k \in Kinds, FlightInv, KindInv(k), attached, AnswersFresh(k), ToldInv(k), Answering
  PROVE  AnswersFresh(k)' /\ ToldInv(k)'
<1>1. PICK ops : Answered(ops) /\ Outcome(k)
  BY HandledOutcome
<1>2. AnswersFresh(k)' /\ FlightInv'
  BY <1>1, AnsweredFresh, AnsweredFlights
<1>3. /\ inbox # <<>> /\ calling = {} /\ inbox' = Tail(inbox) /\ requests' = requests \o InOrder(ops)
      /\ ops \in SUBSET Ops /\ ops \cap (inFlight \ {Head(inbox)[1]}) = {}
      /\ attached' = attached /\ connection' = connection /\ watch' = watch /\ node' = node
      /\ seen' = seen /\ failed' = failed /\ tracks' \subseteq tracks /\ dead \subseteq dead'
  BY <1>1 DEF Answered
<1>4. /\ inbox \in Seq(Messages) /\ requests \in Seq(Ops) /\ tracks \in SUBSET Tracker
      /\ Flights(inFlight, requests, inbox) /\ Only(tracks, k)
  BY DEF FlightInv, TrackType, TypeOK, KindInv
<1>5. (Guarded(k)' <=> Guarded(k)) /\ \A op : Lost(op) => Lost(op)'
  BY <1>3 DEF Guarded, Lost
<1> SUFFICES ASSUME NEW t \in tracks', ~t.existing, ~Failing(t.cb)' PROVE Waiting(t.cb, k)'
  BY <1>2 DEF ToldInv
<1>6. t \in tracks /\ ~Failing(t.cb) /\ Waiting(t.cb, k)
  <2>1. ~Failing(t.cb)
    BY <1>3 DEF Failing
  <2> QED BY <1>3, <2>1 DEF ToldInv
<1>7. /\ <<t.cb, "error", Null>> \in NotifyError(tracks)
      /\ \A v : Told(Notify(tracks, k, v), t.cb, k) /\ \A x \in Notify(tracks, k, v) : x[3] = v
      /\ Told(NotifyNull(tracks), t.cb, k) /\ \A x \in NotifyNull(tracks) : x[3] = Null
  BY <1>4, <1>6, Notified
<1>8. CASE Silent(k)
  <2>1. ~Renews(k, Head(inbox)) /\ \A x \in calling' : x[2] # k
    BY <1>8 DEF Silent, Kinds
  <2>2. Renewed(inbox, k) => Renewed(inbox', k)
    BY <1>3, <1>4, <2>1, TailKeeps
  <2>3. \A v : Knows(t.cb, k, v) => Knows(t.cb, k, v)'
    BY <1>3, <2>1 DEF Knows, Told
  <2>4. \A op \in Ops : In(requests, op) => In(requests', op)
    BY <1>3, <1>4, MoreRequests
  <2>5. CASE In(requests, QueryOf(k))
    BY <2>4, <2>5, KindFacts DEF Waiting
  <2>6. CASE In(requests, "exists") /\ Knows(t.cb, k, Null)
    <3>1. In(requests', "exists") /\ Knows(t.cb, k, Null)'
      BY <2>3, <2>4, <2>6, KindFacts
    <3> QED BY <3>1 DEF Waiting
  <2>7. CASE Renewed(inbox, k) \/ Lost(QueryOf(k)) \/ Lost("exists")
    BY <1>5, <2>2, <2>7 DEF Waiting
  <2>8. CASE Knows(t.cb, k, node[k]) /\ Guarded(k)
    <3>1. PICK v : v = node[k]
      OBVIOUS
    <3>2. Knows(t.cb, k, v)' /\ node'[k] = v
      BY <1>3, <2>3, <2>8, <3>1
    <3>3. Knows(t.cb, k, node[k])'
      BY <3>2 DEF Knows
    <3> QED BY <1>5, <2>8, <3>3 DEF Waiting
  <2> QED BY <1>6, <2>5, <2>6, <2>7, <2>8 DEF Waiting
<1>9. CASE Errors
  BY <1>7, <1>9 DEF Errors, Failing
<1>10. CASE Again(k)
  <2>1. QueryOf(k) \in inFlight'
    BY <1>6, <1>10 DEF Again
  <2> QED BY <1>2, <1>3, <2>1, FlightWaits
<1>11. CASE Erased
  <2>1. "exists" \in inFlight' /\ calling' = NotifyNull(tracks)
    BY <1>6, <1>11 DEF Erased
  <2>2. Knows(t.cb, k, Null)'
    BY <1>7, <2>1 DEF Knows
  <2>3. Flights(inFlight', requests', inbox') /\ inbox' \in Seq(Messages)
    BY <1>2, <1>3 DEF FlightInv, TrackType, TypeOK
  <2>4. CASE In(requests', "exists")
    BY <2>2, <2>4 DEF Waiting
  <2>5. CASE Has(inbox', "exists")
    <3>1. PICK i \in 1..Len(inbox') : inbox'[i][1] = "exists"
      BY <2>5 DEF Has
    <3>2. inbox'[i] \in Messages
      BY <2>3, ElementOfSeq
    <3>3. inbox'[i][2] \in {"ok", "nonode", "error"}
      BY <3>1, <3>2, MessageHas, KindFacts
    <3>4. CASE inbox'[i][2] \in {"ok", "error"}
      <4>1. Renews(k, inbox'[i])
        BY <3>1, <3>4 DEF Renews
      <4> QED BY <4>1 DEF Waiting, Renewed
    <3>5. CASE inbox'[i][2] = "nonode"
      <4>1. FreshMissing(k, i)'
        BY <1>2 DEF AnswersFresh
      <4>2. (node'[k] = Null /\ Guarded(k)') \/ WokenAfter(inbox', k, i) \/ Lost("exists")'
        BY <3>1, <3>5, <4>1 DEF FreshMissing
      <4>3. CASE node'[k] = Null /\ Guarded(k)'
        <5>1. Knows(t.cb, k, node[k])'
          BY <2>2, <4>3 DEF Knows
        <5> QED BY <4>3, <5>1 DEF Waiting
      <4>4. CASE WokenAfter(inbox', k, i)
        <5>1. Renewed(inbox', k)
          BY <4>4, WakesRenews
        <5> QED BY <5>1 DEF Waiting
      <4>5. CASE Lost("exists")'
        BY <4>5 DEF Waiting
      <4> QED BY <4>2, <4>3, <4>4, <4>5
    <3> QED BY <3>3, <3>4, <3>5
  <2> QED BY <2>1, <2>3, <2>4, <2>5, KindFacts DEF Flights
<1>12. CASE Got(k)
  <2>1. PICK v : v = Head(inbox)[3]
    OBVIOUS
  <2>2. Head(inbox)[1] = QueryOf(k) /\ Head(inbox)[2] = "ok" /\ calling' = Notify(tracks, k, v)
    BY <1>12, <2>1 DEF Got
  <2>3. Knows(t.cb, k, v)'
    BY <1>7, <2>2 DEF Knows
  <2>4. Head(inbox) = inbox[1] /\ 1 \in 1..Len(inbox)
    BY <1>3, <1>4, QueueTail
  <2>5. FreshGet(k, 1)
    BY <2>4 DEF AnswersFresh
  <2>6. (v = node[k] /\ Guarded(k)) \/ WokenAfter(inbox, k, 1) \/ Lost(QueryOf(k))
    BY <2>1, <2>2, <2>4, <2>5 DEF FreshGet
  <2>7. CASE v = node[k] /\ Guarded(k)
    <3>1. Knows(t.cb, k, node[k])'
      BY <1>3, <2>3, <2>7 DEF Knows
    <3> QED BY <1>5, <2>7, <3>1 DEF Waiting
  <2>8. CASE WokenAfter(inbox, k, 1)
    <3>1. Renewed(inbox', k)
      BY <1>3, <1>4, <2>8, TailKeeps
    <3> QED BY <3>1 DEF Waiting
  <2>9. CASE Lost(QueryOf(k))
    BY <1>5, <2>9 DEF Waiting
  <2> QED BY <2>6, <2>7, <2>8, <2>9
<1> QED BY <1>1, <1>8, <1>9, <1>10, <1>11, <1>12 DEF Outcome

LEMMA TrackKept ==
  ASSUME NEW k \in Kinds, TrackInv(k), [Next]_vars
  PROVE  TrackInv(k)'
<1>1. FlightInv /\ KindInv(k) /\ (attached => AnswersFresh(k)) /\ ToldInv(k) /\ TypeOK
  BY DEF TrackInv, FlightInv, TrackType
<1>2. FlightInv' /\ KindInv(k)'
  BY <1>1, FlightsKept, KindKept
<1>3. ASSUME ~attached' PROVE TrackInv(k)'
  BY <1>2, <1>3 DEF TrackInv, ToldInv, KindInv
<1> SUFFICES ASSUME attached' PROVE AnswersFresh(k)' /\ ToldInv(k)'
  BY <1>2, <1>3 DEF TrackInv
<1>4. attached
  <2>1. CASE attached' = attached
    BY <2>1
  <2>2. CASE TrackerShutdown
    BY <2>2 DEF TrackerShutdown
  <2>3. CASE Answering
    <3>1. PICK ops : Answered(ops)
      BY <1>1, <2>3, Handled
    <3> QED BY <3>1 DEF Answered
  <2>4. TrackerCompletion => Answering \/ attached' = attached
    BY DEF TrackerCompletion, Answering, Call, Reconnect, ResumeSession, tracker
  <2>5. Serve \/ Change \/ Disconnected \/ Reconnected \/ Expired \/ ClearErrorState => attached' = attached
    BY DEF Serve, Change, Disconnected, Reconnected, Expired, ClearErrorState, tracker
  <2>6. ASSUME NEW c \in Callbacks, Cancel(c) PROVE attached' = attached
    BY <2>6 DEF Cancel
  <2>7. ASSUME NEW c \in Callbacks, NEW use \in usage,
               DoTrack(c, use[1], use[2], use[3]) \/ DoTrackFailed(c, use[1], use[2], use[3])
        PROVE  attached' = attached
    BY <2>7 DEF DoTrack, DoTrackFailed
  <2>8. UNCHANGED vars => attached' = attached
    BY DEF vars, tracker
  <2> QED BY <2>1, <2>2, <2>3, <2>4, <2>5, <2>6, <2>7, <2>8 DEF Next
<1>5. AnswersFresh(k)
  BY <1>1, <1>4
<1>6. ASSUME Progress(k), tracks' \subseteq tracks, calling' = calling, seen' = seen, failed' = failed
      PROVE  AnswersFresh(k)' /\ ToldInv(k)'
  BY <1>1, <1>5, <1>6, ProgressFresh, QuietTold
<1>7. CASE Answering
  BY <1>1, <1>4, <1>5, <1>7, AnsweredTold
<1>8. CASE Serve
  BY <1>1, <1>4, <1>6, <1>8, ServeProgress DEF Serve, tracker
<1>9. CASE Change
  BY <1>1, <1>6, <1>9, ChangeProgress DEF Change, tracker
<1>10. CASE Disconnected
  BY <1>1, <1>6, <1>10, DisconnectedProgress DEF Disconnected, tracker
<1>11. CASE Expired
  BY <1>1, <1>6, <1>11, ExpiredProgress DEF Expired, tracker
<1>12. CASE ResumeSession
  BY <1>1, <1>12, ResumeTold
<1>13. CASE Reconnect
  <2>1. Progress(k)
    BY <1>13, SameProgress DEF Reconnect, server
  <2> QED BY <1>6, <1>13, <2>1 DEF Reconnect, tracker
<1>14. CASE Reconnected
  <2>1. Progress(k)
    BY <1>14, SameProgress DEF Reconnected
  <2> QED BY <1>6, <1>14, <2>1 DEF Reconnected, tracker
<1>15. CASE ClearErrorState
  <2>1. Progress(k)
    BY <1>15, SameProgress DEF ClearErrorState, client, server
  <2> QED BY <1>6, <1>15, <2>1 DEF ClearErrorState
<1>16. CASE Call
  <2>1. Progress(k)
    BY <1>16, SameProgress DEF Call, client, server
  <2> QED BY <1>1, <1>5, <1>16, <2>1, ProgressFresh, CallTold
<1>17. ASSUME NEW c \in Callbacks, Cancel(c) PROVE AnswersFresh(k)' /\ ToldInv(k)'
  <2>1. Progress(k)
    BY <1>17, SameProgress DEF Cancel, client, server
  <2> QED BY <1>1, <1>5, <1>17, <2>1, ProgressFresh, CancelTold
<1>18. ASSUME NEW c \in Callbacks, NEW use \in usage, DoTrackFailed(c, use[1], use[2], use[3])
       PROVE  AnswersFresh(k)' /\ ToldInv(k)'
  <2>1. Progress(k)
    BY <1>18, SameProgress DEF DoTrackFailed, client, server
  <2>2. failed' = (failed \ {c}) \cup Users(tracks')
    BY <1>18 DEF DoTrackFailed
  <2>3. \A t \in tracks' : Failing(t.cb)'
    BY <2>2 DEF Failing, Users
  <2> QED BY <1>5, <2>1, <2>3, ProgressFresh, FailedTold
<1>19. ASSUME NEW c \in Callbacks, NEW use \in usage, DoTrack(c, use[1], use[2], use[3])
       PROVE  AnswersFresh(k)' /\ ToldInv(k)'
  <2>1. QueryOf(k) \in inFlight'
    BY <1>1, <1>19, TrackedKind
  <2>2. \A d : Waiting(d, k)'
    BY <1>2, <2>1, FlightWaits
  <2>3. /\ inbox' = inbox /\ node' = node /\ watch' = watch /\ dead' = dead /\ connection' = connection
    BY <1>19 DEF DoTrack, server
  <2>4. AnswersFresh(k)'
    BY <1>5, <2>3, FreshSame
  <2> QED BY <2>2, <2>4 DEF ToldInv
<1>20. CASE UNCHANGED vars
  <2>1. Progress(k)
    BY <1>20, SameProgress DEF vars, client, server
  <2> QED BY <1>6, <1>20, <2>1 DEF vars, tracker
<1>21. ~TrackerShutdown
  BY DEF TrackerShutdown
<1> QED
  BY <1>7, <1>8, <1>9, <1>10, <1>11, <1>12, <1>13, <1>14, <1>15, <1>16, <1>17, <1>18, <1>19, <1>20, <1>21
  DEF Next, TrackerCompletion, Answering

LEMMA TrackStart ==
  ASSUME OneKind, Init
  PROVE  \E k \in Kinds : TrackInv(k)
<1>1. FlightInv
  BY FlightsStart
<1>2. /\ usage \in Usages /\ attached = TRUE /\ tracks = {} /\ inFlight = {} /\ inbox = <<>>
      /\ node = [k \in Kinds |-> 1]
  BY DEF Init
<1>3. PICK k \in Kinds : \A x \in usage : (x[1] <=> k = "data") /\ (x[2] <=> k = "children")
  BY <1>2 DEF OneKind
<1>4. node["data"] = 1 /\ node["children"] = 1
  BY <1>2 DEF Kinds
<1>5. KindInv(k)
  BY <1>2, <1>3, <1>4 DEF KindInv, Only
<1>6. Len(inbox) = 0
  BY <1>2
<1>7. AnswersFresh(k)
  BY <1>6 DEF AnswersFresh
<1> QED BY <1>1, <1>2, <1>5, <1>7 DEF TrackInv, ToldInv

\* Nothing is on its way and a watch is set: who tracks knows.
LEMMA TrackCatchesUp ==
  ASSUME NEW k \in Kinds, TrackInv(k)
  PROVE  CaughtUp
<1> SUFFICES ASSUME Quiet, NEW t \in tracks, NEW j \in Kinds, t[j], ~t.existing, t.cb \notin failed
             PROVE  seen[t.cb][j] = node[j]
  BY DEF CaughtUp
<1>1. connection = "connected" /\ requests = <<>> /\ inbox = <<>> /\ calling = {}
  BY DEF Quiet
<1>2. Len(requests) = 0 /\ Len(inbox) = 0
  BY <1>1
<1>3. j = k
  <2>1. Only(tracks, k)
    BY DEF TrackInv, KindInv
  <2> QED BY <2>1, OfTheKind
<1>4. ~Failing(t.cb)
  BY <1>1 DEF Failing
<1>5. Waiting(t.cb, k)
  BY <1>4 DEF TrackInv, ToldInv
<1>6. ~In(requests, QueryOf(k)) /\ ~In(requests, "exists") /\ ~Renewed(inbox, k)
  BY <1>2 DEF In, Renewed
<1>7. ~Lost(QueryOf(k)) /\ ~Lost("exists")
  BY <1>1 DEF Lost
<1>8. Knows(t.cb, k, node[k])
  BY <1>5, <1>6, <1>7 DEF Waiting
<1> QED BY <1>1, <1>3, <1>8 DEF Knows, Told

\* Who tracks a node knows its last state once everything on its way has arrived, unless the
\* tracker reported an error: "always track until cancelled" of zookeeper_tracker.h, for any
\* number of callbacks, changes and sessions, of programs that track one kind of thing.
THEOREM TrackerIsSound ==
  ASSUME OneKind
  PROVE  Spec => []TrackerSound
<1> DEFINE Inv == \E k \in Kinds : TrackInv(k)
<1>1. Init => Inv
  BY TrackStart
<1>2. Inv /\ [Next]_vars => Inv'
  <2> SUFFICES ASSUME NEW k \in Kinds, TrackInv(k), [Next]_vars PROVE Inv'
    OBVIOUS
  <2>1. TrackInv(k)'
    BY TrackKept
  <2> QED BY <2>1
<1>3. Inv => CaughtUp
  BY TrackCatchesUp
<1>4. Spec => []CaughtUp
  <2> HIDE DEF Inv
  <2> QED BY <1>1, <1>2, <1>3, PTL DEF Spec
<1>5. CaughtUp /\ FlightsMatch => TrackerSound
  BY DEF TrackerSound
<1> QED BY <1>4, <1>5, TrackerFlights, PTL

=============================================================================
