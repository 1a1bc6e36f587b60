------------------------------ MODULE Council ------------------------------
(***************************************************************************)
(* flinter/zookeeper/council.cpp: members elect as many councilmen as the  *)
(* election node says.  Every member makes a child of the election node,   *)
(* and the `size' lowest numbers are elected; the others track `size'      *)
(* predecessors each.  The tracker is what ZooKeeperTracker promises: a    *)
(* member is told sooner or later, by one thread, that the election node   *)
(* changed, that a tracked child is missing, that its session expired.     *)
(* Council holds its mutex in all of these, and a step ends where it calls *)
(* ZooKeeper.                                                              *)
(***************************************************************************)
EXTENDS ZooKeeperNodes

CONSTANT Sizes   \* what the election node may say; 0 is no valid size

ASSUME CouncilAssumption == Sizes \subseteq Nat

Fired == -2

VARIABLES
  election,   \* what the election node says, None if there is no such node
  up,         \* member -> _zk
  stale,      \* member -> the tracker has yet to tell what the election node says
  size,       \* member -> _size
  actual,     \* member -> _actual_id
  id,         \* member -> _id: None, Fired, or a number
  tracked,    \* member -> children it tracks
  attending   \* member -> in Attend(): "no", "create", "list"

council == <<size, actual, id, tracked, attending>>
councilVars == <<zk, election, up, stale, council>>

CouncilOK ==
  /\ NodesOK /\ election \in Sizes \cup {None}
  /\ up \in [Members -> BOOLEAN] /\ stale \in [Members -> BOOLEAN]
  /\ size \in [Members -> Sizes \cup {None}]
  /\ actual \in [Members -> 1..MaxNumber \cup {None}]
  /\ id \in [Members -> 1..MaxNumber \cup {None, Fired}]
  /\ tracked \in [Members -> SUBSET (1..MaxNumber)]
  /\ attending \in [Members -> {"no", "create", "list"}]

CouncilInit ==
  /\ NodesInit /\ election \in Sizes
  /\ up = [m \in Members |-> TRUE] /\ stale = [m \in Members |-> TRUE]   \* Initialize() is done
  /\ size = [m \in Members |-> None] /\ actual = [m \in Members |-> None]
  /\ id = [m \in Members |-> None] /\ tracked = [m \in Members |-> {}]
  /\ attending = [m \in Members |-> "no"]

-----------------------------------------------------------------------------
\* DoLostClean() and ResetState(): _id, _size and _actual_id, with s for _size.
ResetState(m, s, recoverable) ==
  /\ id' = [id EXCEPT ![m] = IF recoverable THEN None ELSE Fired]
  /\ size' = [size EXCEPT ![m] = IF recoverable THEN s ELSE None]

\* OnShrinked(): the child stays, unless it is forgotten.
OnShrinked(m, s, recoverable) ==
  /\ ResetState(m, s, recoverable)
  /\ actual' = IF recoverable THEN actual ELSE [actual EXCEPT ![m] = None]

\* OnFired() and OnQuit(), by DoQuitClean(): the child is removed first.
OnFired(m, s, recoverable) ==
  /\ actual' = [actual EXCEPT ![m] = None]
  /\ IF actual[m] = None THEN ResetState(m, s, recoverable) /\ UNCHANGED zk
     ELSE \E ok \in BOOLEAN : Erase(m, actual[m], ok) /\ ResetState(m, s, recoverable /\ ok)

\* Initialize() once more: tracks the election node.
Initialize(m) ==
  /\ ~up[m] /\ session[m] = "up" /\ troubles < MaxTroubles
  /\ up' = [up EXCEPT ![m] = TRUE] /\ stale' = [stale EXCEPT ![m] = TRUE]
  /\ size' = [size EXCEPT ![m] = None] /\ actual' = [actual EXCEPT ![m] = None]
  /\ id' = [id EXCEPT ![m] = None] /\ tracked' = [tracked EXCEPT ![m] = {}]
  /\ UNCHANGED <<zk, election, attending>>

\* Shutdown() of the tracker, and OnQuit().
Shutdown(m) ==
  /\ up[m] /\ attending[m] = "no"
  /\ up' = [up EXCEPT ![m] = FALSE] /\ stale' = [stale EXCEPT ![m] = FALSE]
  /\ tracked' = [tracked EXCEPT ![m] = {}]
  /\ OnFired(m, size[m], TRUE)
  /\ UNCHANGED <<election, attending>>

Idle(m) == up[m] /\ attending[m] = "no"

\* OnData() of the election node: it is missing, invalid, or gives the size.
OnDataElection(m) ==
  /\ Idle(m) /\ session[m] = "up" /\ stale[m]
  /\ stale' = [stale EXCEPT ![m] = FALSE]
  /\ \/ election = None /\ OnFired(m, size[m], TRUE) /\ UNCHANGED attending
     \/ election = 0 /\ OnShrinked(m, None, TRUE) /\ UNCHANGED <<zk, attending>>
     \/ /\ election > 0 /\ size' = [size EXCEPT ![m] = election]
        /\ attending' = [attending EXCEPT ![m] = "create"] /\ UNCHANGED <<zk, actual, id>>
  /\ UNCHANGED <<election, up, tracked>>

\* OnData() of a tracked child that is missing: the tracker has dropped it.
OnDataTracked(m) ==
  /\ Idle(m) /\ session[m] = "up"
  /\ \E n \in tracked[m] \ DOMAIN nodes : tracked' = [tracked EXCEPT ![m] = @ \ {n}]
  /\ attending' = IF id[m] >= 0 THEN attending ELSE [attending EXCEPT ![m] = "create"]
  /\ UNCHANGED <<zk, election, up, stale, size, actual, id>>

\* CreateNodeAsNeeded(), and what Attend() does when it fails.
CreateNodeAsNeeded(m) ==
  /\ attending[m] = "create"
  /\ \/ /\ actual[m] # None /\ attending' = [attending EXCEPT ![m] = "list"]
        /\ UNCHANGED <<zk, actual, id, size>>
     \/ /\ actual[m] = None /\ election # None /\ Create(m)
        /\ actual' = [actual EXCEPT ![m] = next]
        /\ attending' = [attending EXCEPT ![m] = "list"] /\ UNCHANGED <<id, size>>
     \/ /\ actual[m] = None
        /\ IF election = None /\ session[m] = "up" THEN UNCHANGED zk ELSE CreateFails(m)
        /\ ResetState(m, None, FALSE) /\ UNCHANGED actual
        /\ attending' = [attending EXCEPT ![m] = "no"]
  /\ UNCHANGED <<election, up, stale, tracked>>

Candidates == DOMAIN nodes
Rank(m) == Cardinality({n \in Candidates : n <= actual[m]})

\* Mutant: an off-by-one in the number of seats.
ElectedOneMore(m) == Rank(m) <= size[m] + 1

Elected(m) == Rank(m) <= size[m]

\* Mutant: only the nearest predecessor is tracked.
Nearest(m) ==
  {n \in Candidates : n < actual[m] /\ \A k \in Candidates : k < actual[m] => k <= n}

\* The `size' candidates right before the one of m.
Predecessors(m) ==
  {n \in Candidates : n < actual[m] /\ Cardinality({k \in Candidates : n <= k /\ k < actual[m]}) <= size[m]}

\* GetCandidates() and the rest of Attend(): elected, tracking others, or fired.
Decide(m) ==
  /\ session[m] = "up" /\ election # None
  /\ \/ /\ actual[m] \notin Candidates /\ OnFired(m, size[m], FALSE) /\ UNCHANGED tracked
     \/ /\ actual[m] \in Candidates /\ Elected(m)
        /\ id' = [id EXCEPT ![m] = IF @ >= 0 THEN @ ELSE actual[m]]
        /\ UNCHANGED <<zk, size, actual, tracked>>
     \/ /\ actual[m] \in Candidates /\ ~Elected(m)
        /\ \/ tracked' = [tracked EXCEPT ![m] = @ \cup Predecessors(m)]
              /\ OnShrinked(m, size[m], TRUE) /\ UNCHANGED zk
           \/ /\ size[m] > 0 /\ Fails(m) /\ UNCHANGED <<session, nodes, next>>
              /\ \E some \in SUBSET Predecessors(m) : tracked' = [tracked EXCEPT ![m] = @ \cup some]
              /\ OnShrinked(m, size[m], FALSE)

\* GetCandidates() fails.
NoCandidates(m) ==
  /\ IF election = None /\ session[m] = "up" THEN UNCHANGED zk
     ELSE Fails(m) /\ UNCHANGED <<session, nodes, next>>
  /\ size' = [size EXCEPT ![m] = None] /\ UNCHANGED <<actual, id, tracked>>

Attend(m) ==
  /\ attending[m] = "list" /\ attending' = [attending EXCEPT ![m] = "no"]
  /\ Decide(m) \/ NoCandidates(m)
  /\ UNCHANGED <<election, up, stale>>

\* OnError() with ZSESSIONEXPIRED: OnLost(); then the tracker starts over.
OnLost(m) ==
  /\ Idle(m) /\ Resume(m)
  /\ id' = [id EXCEPT ![m] = None] /\ actual' = [actual EXCEPT ![m] = None]
  /\ size' = [size EXCEPT ![m] = None] /\ stale' = [stale EXCEPT ![m] = TRUE]
  /\ UNCHANGED <<election, up, tracked, attending>>

\* A member that is down makes a new session too.
Reopen(m) ==
  /\ ~up[m] /\ Resume(m) /\ UNCHANGED <<election, up, stale, council>>

\* OnError() with anything else: fired for good, though the tracker goes on.
OnError(m) ==
  /\ Idle(m) /\ session[m] = "up" /\ troubles < MaxTroubles
  /\ OnFired(m, size[m], FALSE)
  /\ UNCHANGED <<election, up, stale, tracked, attending>>

\* Someone sets the size, or removes an election node that has no children and makes it anew.
SetElection(s) ==
  /\ Trouble /\ s # election
  /\ s = None => nodes = << >>
  /\ election' = s /\ stale' = up
  /\ next' = IF s = None THEN 1 ELSE next
  /\ UNCHANGED <<session, nodes, up, council>>

CouncilExpire(m) == Expire(m) /\ UNCHANGED <<election, up, stale, council>>

CouncilNext ==
  \/ \E m \in Members :
       \/ Initialize(m) \/ Shutdown(m) \/ OnDataElection(m) \/ OnDataTracked(m)
       \/ CreateNodeAsNeeded(m) \/ Attend(m) \/ OnLost(m) \/ Reopen(m) \/ OnError(m)
       \/ CouncilExpire(m)
  \/ \E s \in Sizes \cup {None} : SetElection(s)

\* The completion thread of each member runs, and a session that expired is replaced.
CompletionStep(m) ==
  OnLost(m) \/ OnDataElection(m) \/ OnDataTracked(m) \/ CreateNodeAsNeeded(m) \/ Attend(m)
CouncilFairness == \A m \in Members : WF_councilVars(CompletionStep(m))

CouncilSpec == CouncilInit /\ [][CouncilNext]_councilVars /\ CouncilFairness

-----------------------------------------------------------------------------
\* A member that takes itself for a councilman, whose session lives and who has been told
\* the size, is among the `size' first candidates; and so there are no more councilmen
\* than the size, but for those who have not been told something yet.
SeatsRightful ==
  \A m \in Members :
    id[m] >= 0 /\ session[m] = "up" /\ ~stale[m] /\ attending[m] = "no"
      => /\ id[m] = actual[m] /\ actual[m] \in DOMAIN nodes
         /\ size[m] = None \/ Rank(m) <= size[m]

\* A member is entitled to a seat and has none: it gets the seat, or loses the title; and so
\* there is, again and again, a time when every seat that can be filled is.
Entitled(m) ==
  /\ up[m] /\ session[m] = "up" /\ size[m] > 0 /\ id[m] = None
  /\ actual[m] \in DOMAIN nodes /\ Rank(m) <= size[m]
SeatsFilled == []<>(\A m \in Members : ~Entitled(m))

=============================================================================
