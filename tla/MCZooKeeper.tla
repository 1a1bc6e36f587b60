---------------------------- MODULE MCZooKeeper ----------------------------
(***************************************************************************)
(* The tracker of a node, the client object it is made of, or the members  *)
(* of a naming, to a behaviour.                                            *)
(***************************************************************************)
EXTENDS MCZooKeeperTracker, ZooKeeperClient, Naming

VARIABLE part   \* "tracker", "client" or "naming"

zooVars == <<part, vars, clientVars, namingVars>>

ZooInit ==
  /\ Init /\ ClientInit /\ NamingInit
  /\ part \in {"tracker", "client", "naming"}
  /\ part # "tracker" => usage = CHOOSE u \in Usages : TRUE

ZooNext ==
  /\ \/ part = "tracker" /\ Next /\ UNCHANGED <<clientVars, namingVars>>
     \/ part = "client" /\ ClientNext /\ UNCHANGED <<vars, namingVars>>
     \/ part = "naming" /\ NamingNext /\ UNCHANGED <<vars, clientVars>>
  /\ UNCHANGED part

ZooSpec == ZooInit /\ [][ZooNext]_zooVars

=============================================================================
