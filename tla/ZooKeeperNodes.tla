--------------------------- MODULE ZooKeeperNodes ---------------------------
(***************************************************************************)
(* The synchronous operations of flinter/zookeeper/zookeeper.cpp on the    *)
(* children of one persistent node, which Council and Naming share: each   *)
(* child is ephemeral and gets the next number of a sequence.  A member    *)
(* has one ZooKeeper object.  When its session expires the server removes  *)
(* its children at once; the member is told later, and what it calls until *)
(* then fails.  A call that fails with a lost connection may have been     *)
(* carried out by the server, or not.                                      *)
(***************************************************************************)
EXTENDS Integers, FiniteSets, Functions

CONSTANTS
  Members,       \* processes, each with a session
  MaxNumber,     \* bound: children created
  MaxTroubles    \* bound: sessions that expire, calls that fail, changes by others

ASSUME NodesAssumption == MaxNumber \in Nat /\ MaxTroubles \in Nat

None == -1

VARIABLES
  session,   \* member -> "up", or "expired" and the member is not told yet
  nodes,     \* number of a child -> the member whose session keeps it
  next,      \* the number of the next child
  troubles   \* number of troubles so far

zk == <<session, nodes, next, troubles>>

NodesOK ==
  /\ session \in [Members -> {"up", "expired"}]
  /\ DOMAIN nodes \subseteq 1..MaxNumber /\ Range(nodes) \subseteq Members
  /\ next \in 1..(MaxNumber + 1)
  /\ troubles \in 0..MaxTroubles

NodesInit ==
  /\ session = [m \in Members |-> "up"] /\ nodes = << >> /\ next = 1
  /\ troubles = 0

Trouble == troubles < MaxTroubles /\ troubles' = troubles + 1

Without(n) == Restrict(nodes, DOMAIN nodes \ {n})

\* A call of m fails: its session is gone, or the connection is.
Fails(m) ==
  \/ session[m] = "expired" /\ UNCHANGED troubles
  \/ session[m] = "up" /\ Trouble

\* ZooKeeper::Create(), ephemeral and in sequence, succeeds with the number next.
Create(m) ==
  /\ session[m] = "up" /\ next <= MaxNumber
  /\ nodes' = [n \in DOMAIN nodes \cup {next} |-> IF n = next THEN m ELSE nodes[n]]
  /\ next' = next + 1 /\ UNCHANGED <<session, troubles>>

\* ZooKeeper::Create() fails, its child created or not.
CreateFails(m) ==
  /\ Fails(m)
  /\ \/ UNCHANGED <<nodes, next>>
     \/ session[m] = "up" /\ next <= MaxNumber
        /\ nodes' = [n \in DOMAIN nodes \cup {next} |-> IF n = next THEN m ELSE nodes[n]]
        /\ next' = next + 1
  /\ UNCHANGED session

\* ZooKeeper::Erase() of number n returns ok or not.
Erase(m, n, ok) ==
  /\ \/ session[m] = "up" /\ UNCHANGED troubles /\ ok = (n \in DOMAIN nodes) /\ nodes' = Without(n)
     \/ ~ok /\ Fails(m) /\ (UNCHANGED nodes \/ (session[m] = "up" /\ nodes' = Without(n)))
  /\ UNCHANGED <<session, next>>

\* The server expires the session of m and removes its children.
Expire(m) ==
  /\ session[m] = "up" /\ Trouble
  /\ session' = [session EXCEPT ![m] = "expired"]
  /\ nodes' = Restrict(nodes, {n \in DOMAIN nodes : nodes[n] # m})
  /\ UNCHANGED next

\* A new session of m, made by ZooKeeper::OnSession().
Resume(m) ==
  /\ session[m] = "expired" /\ session' = [session EXCEPT ![m] = "up"]
  /\ UNCHANGED <<nodes, next, troubles>>

=============================================================================
