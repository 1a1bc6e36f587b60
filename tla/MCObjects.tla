----------------------------- MODULE MCObjects -----------------------------
(***************************************************************************)
(* What threads share: an ObjectMap, an AsyncRouter over one, an           *)
(* ObjectPool, or the lists of a KeyedThreadPool, one to a behaviour.  The *)
(* threads and the calls of the router are the holders of its map, and so  *)
(* what is said of an ObjectMap is checked for that of the router too.  Of *)
(* the four jobs of the pool two share a key, one has another key of the   *)
(* same thread, one belongs to the other thread.                           *)
(***************************************************************************)
EXTENDS ObjectMap, ObjectPool, AsyncRouter, KeyedThreadPool, TLC

CONSTANTS j1, j2, j3, j4

VARIABLE part   \* "map", "router", "pool" or "keyed"

MCObjectSet == 1..3
RouterObjects == 1..2   \* bound: connections of a router
MCHolders == Threads \cup Seqs
MCJobs == {j1, j2, j3, j4}
MCKey == j1 :> 1 @@ j2 :> 1 @@ j3 :> 3 @@ j4 :> 0

callVars == <<tracks, deleting, putting, pc, closing, ends, misread>>
objectVars == <<part, routerVars, poolVars, keyedVars>>

ObjectsInit ==
  part \in {"map", "router", "pool", "keyed"} /\ RouterInit /\ PoolInit /\ KeyedInit

OfRouter(A) == part = "router" /\ A /\ made' \subseteq RouterObjects

ObjectsNext ==
  /\ \/ part = "map" /\ Next /\ UNCHANGED <<callVars, poolVars, keyedVars>>
     \/ OfRouter(RouterNext) /\ UNCHANGED <<poolVars, keyedVars>>
     \/ part = "pool" /\ PoolNext /\ UNCHANGED <<routerVars, keyedVars>>
     \/ part = "keyed" /\ KeyedNext /\ UNCHANGED <<routerVars, poolVars>>
  /\ UNCHANGED part

\* As in ObjectMap, AsyncRouter and KeyedThreadPool.
OfMap(A) == part = "map" /\ A
OfKeyed(A) == part = "keyed" /\ A
ObjectsFairness ==
  /\ WF_vars(OfMap(EraserTest)) /\ \A h \in Holders : WF_vars(OfMap(Release(h)))
  /\ \A t \in Threads : WF_routerVars(OfRouter(ThreadStep(t)))
  /\ \A s \in Seqs :
       /\ WF_routerVars(OfRouter(PutRelease(s))) /\ WF_routerVars(OfRouter(DeleteTrack(s)))
       /\ SF_routerVars(OfRouter(\E expired \in SUBSET tracks : s \in expired /\ Cleanup(expired)))
  /\ SF_routerVars(OfRouter(ShutdownErase)) /\ WF_routerVars(OfRouter(ShutdownTest))
  /\ WF_keyedVars(OfKeyed(ShutdownReturn))
  /\ \A t \in Contexts :
       /\ WF_keyedVars(OfKeyed(RequestExit(t) \/ RequestWait(t) \/ RequestRun(t)))
       /\ WF_keyedVars(OfKeyed(FinishJob(t))) /\ WF_keyedVars(OfKeyed(Join(t)))

ObjectsSpec == ObjectsInit /\ [][ObjectsNext]_objectVars /\ ObjectsFairness

-----------------------------------------------------------------------------
\* A job waits in a pool, or a Shutdown() is under way.
KeyedBusy == initializing \/ \E j \in Jobs : where[j] = "queued"

\* EraseAll(true) returns once everything was released, every call ends (AsyncRouter), and
\* every job of a KeyedThreadPool is run, purged or killed: they are finitely many, and so
\* there is a time when none is left and nobody shuts down.
ObjectsLive == EraseAllReturns /\ CallsEnd /\ (KeyedBusy ~> ~KeyedBusy)

=============================================================================
