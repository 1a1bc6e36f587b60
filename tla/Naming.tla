------------------------------- MODULE Naming -------------------------------
(***************************************************************************)
(* flinter/zookeeper/naming.cpp: a member that attends keeps a child of    *)
(* the naming node, and members that attend or watch learn of all the      *)
(* children.  The tracker is what ZooKeeperTracker promises: sooner or     *)
(* later it tells the children as they are, and every error.               *)
(***************************************************************************)
EXTENDS ZooKeeperNodes

CONSTANT Watchers   \* members that only Watch()

VARIABLES
  open,     \* member -> _zk
  mine,     \* member -> _actual_path
  naming,   \* member -> _naming
  fresh,    \* member -> the children the tracker told last
  broken    \* history: members for which a call failed

namingVars == <<zk, open, mine, naming, fresh, broken>>

NamingInit ==
  /\ NodesInit
  /\ open = [m \in Members |-> FALSE] /\ mine = [m \in Members |-> None]
  /\ naming = [m \in Members |-> {}] /\ fresh = [m \in Members |-> {None}] /\ broken = {}

\* DoWatch(): the tracker will tell what there is.
DoWatch(m) ==
  /\ open' = [open EXCEPT ![m] = TRUE] /\ fresh' = [fresh EXCEPT ![m] = {None}]

Watch(m) == m \in Watchers /\ ~open[m] /\ DoWatch(m) /\ UNCHANGED <<zk, mine, naming, broken>>

\* Attend(): CreateNode(), unless an earlier node is remembered, and DoWatch().
AttendName(m) ==
  /\ m \notin Watchers /\ ~open[m]
  /\ \/ mine[m] # None /\ UNCHANGED <<zk, mine>>
     \/ mine[m] = None /\ Create(m) /\ mine' = [mine EXCEPT ![m] = next]
  /\ DoWatch(m) /\ UNCHANGED <<naming, broken>>

\* CreateNode() fails.
AttendFails(m) ==
  /\ m \notin Watchers /\ ~open[m] /\ mine[m] = None /\ CreateFails(m)
  /\ broken' = broken \cup {m} /\ UNCHANGED <<open, mine, naming, fresh>>

\* CreateNode() is done, DoWatch() fails: the node stays.
WatchFails(m) ==
  /\ m \notin Watchers /\ ~open[m] /\ mine[m] = None /\ troubles < MaxTroubles /\ Create(m)
  /\ mine' = [mine EXCEPT ![m] = next] /\ UNCHANGED <<open, naming, fresh, broken>>

\* RemoveNode(): forgets the node if it was removed.
RemoveNode(m) ==
  IF mine[m] = None THEN UNCHANGED <<zk, mine, broken>>
  ELSE \E ok \in BOOLEAN :
         /\ Erase(m, mine[m], ok)
         /\ mine' = IF ok THEN [mine EXCEPT ![m] = None] ELSE mine
         /\ broken' = IF ok THEN broken ELSE broken \cup {m}

\* OnChildren(): what there is now replaces what there was.
OnChildren(m) ==
  /\ open[m] /\ session[m] = "up" /\ fresh[m] # DOMAIN nodes
  /\ fresh' = [fresh EXCEPT ![m] = DOMAIN nodes] /\ naming' = [naming EXCEPT ![m] = DOMAIN nodes]
  /\ UNCHANGED <<zk, open, mine, broken>>

\* OnError(), of an expired session, which is replaced, or of anything else.
OnExpired(m) ==
  /\ open[m] /\ Resume(m) /\ fresh' = [fresh EXCEPT ![m] = {None}]
  /\ broken' = IF mine[m] = None THEN broken ELSE broken \cup {m}   \* RemoveNode() gets ZNONODE
  /\ UNCHANGED <<open, mine, naming>>
NamingError(m) ==
  /\ open[m] /\ session[m] = "up" /\ troubles < MaxTroubles /\ RemoveNode(m)
  /\ UNCHANGED <<open, naming, fresh>>

\* Mutant: the node is forgotten and not removed.
WithdrawForgets(m) ==
  /\ open[m] /\ open' = [open EXCEPT ![m] = FALSE]
  /\ mine' = [mine EXCEPT ![m] = None] /\ UNCHANGED <<zk, broken, naming, fresh>>

\* Shutdown(): RemoveNode(), whose failure is ignored.
Withdraw(m) ==
  /\ open[m] /\ open' = [open EXCEPT ![m] = FALSE]
  /\ IF mine[m] = None THEN UNCHANGED <<zk, broken>>
     ELSE \E ok \in BOOLEAN : Erase(m, mine[m], ok) /\ broken' = IF ok THEN broken ELSE broken \cup {m}
  /\ mine' = [mine EXCEPT ![m] = None] /\ UNCHANGED <<naming, fresh>>

NamingExpire(m) == Expire(m) /\ UNCHANGED <<open, mine, naming, fresh, broken>>
NamingReopen(m) == ~open[m] /\ Resume(m) /\ UNCHANGED <<open, mine, naming, fresh, broken>>

NamingNext ==
  \E m \in Members :
    \/ Watch(m) \/ AttendName(m) \/ AttendFails(m) \/ WatchFails(m) \/ OnChildren(m) \/ OnExpired(m)
    \/ NamingError(m) \/ Withdraw(m) \/ NamingExpire(m) \/ NamingReopen(m)

\* As for Council.
NamingFairness == \A m \in Members : WF_namingVars(OnChildren(m) \/ OnExpired(m))

NamingSpec == NamingInit /\ [][NamingNext]_namingVars /\ NamingFairness

-----------------------------------------------------------------------------
\* A child that is there is remembered by the member whose session keeps it, unless a call
\* failed: nobody else would remove the name of a member that goes on without it.
NamesOwned ==
  \A n \in DOMAIN nodes : nodes[n] \in broken \/ mine[nodes[n]] = n

\* A member that attends or watches knows, again and again, the children there are.
NamesConverge ==
  \A m \in Members : []<>(~open[m] \/ naming[m] = DOMAIN nodes)

\* What a reader of naming.h would expect and the code does not do: a member that attends
\* is listed again once its new session is up.
StaysListed ==
  \A m \in Members \ Watchers : open[m] ~> ~open[m] \/ mine[m] \in DOMAIN nodes

=============================================================================
