----------------------------- MODULE AsyncRouter -----------------------------
(***************************************************************************)
(* flinter/linkage/async_router.h over flinter/timeout_pool.h and an       *)
(* ObjectMap of connections.  A call is routed to a connection by Get(),   *)
(* which enters a Track for its sequence number; Put() or the timeout ends *)
(* the call.  A Track holds a reference to its connection.  The mutexes of *)
(* the TimeoutPool and of the ObjectMap are different ones: the pool's is  *)
(* held while Tracks are deleted, each of which takes the map's.  The      *)
(* holders of the map are the threads and the calls.                       *)
(***************************************************************************)
EXTENDS ObjectMap

CONSTANTS
  Threads,     \* threads that call the router
  Seqs         \* sequence numbers, each used for one call

VARIABLES
  tracks,      \* the sequence numbers in _timeout
  deleting,    \* Tracks that Check() or Clear() has still to delete, holding the pool's mutex
  putting,     \* Tracks that Put() has taken out of _timeout and not yet released
  pc,          \* thread -> <<"no">>, <<"got", seq>> and <<"inserted", seq, connection>> in
               \* Get(), <<"adding">> in Add()
  closing,     \* Shutdown(): "no", "clearing", "erasing"
  ends,        \* history: seq -> how often its task was given back or deleted
  misread      \* history: Get() read a connection that was destroyed

routerVars == <<vars, tracks, deleting, putting, pc, closing, ends, misread>>

PoolFree == deleting = {}
Calling(s) == \E t \in Threads : pc[t][1] \in {"got", "inserted"} /\ pc[t][2] = s
Fresh(s) == ends[s] = 0 /\ holds[s] = None /\ ~Calling(s)

RouterOK ==
  /\ TypeOK
  /\ tracks \subseteq Seqs /\ deleting \subseteq tracks /\ putting \subseteq Seqs
  /\ pc \in [Threads -> {<<"no">>, <<"adding">>} \cup ({"got"} \X Seqs)
                          \cup ({"inserted"} \X Seqs \X Objects)]
  /\ closing \in {"no", "clearing", "erasing"}
  /\ ends \in [Seqs -> 0..2] /\ misread \in BOOLEAN

NoCalls ==
  /\ tracks = {} /\ deleting = {} /\ putting = {}
  /\ pc = [t \in Threads |-> <<"no">>] /\ closing = "no"
  /\ ends = [s \in Seqs |-> 0] /\ misread = FALSE

RouterInit == Init /\ NoCalls

-----------------------------------------------------------------------------
(***************************************************************************)
(* Get().                                                                  *)
(***************************************************************************)
RouterGet(t, s) ==
  /\ pc[t] = <<"no">> /\ Fresh(s)
  /\ GetNext(t)
  /\ pc' = [pc EXCEPT ![t] = <<"got", s>>]
  /\ UNCHANGED <<tracks, deleting, putting, closing, ends, misread>>

\* Insert(): the Track takes the reference over.
GetInsert(t) ==
  /\ pc[t][1] = "got" /\ PoolFree
  /\ tracks' = tracks \cup {pc[t][2]}
  /\ holds' = [holds EXCEPT ![t] = None, ![pc[t][2]] = holds[t]]
  /\ pc' = [pc EXCEPT ![t] = <<"inserted", pc[t][2], holds[t]>>]
  /\ UNCHANGED <<map, drop, count, ptr, eraser, made, destroyed,
                 deleting, putting, closing, ends, misread>>

\* The channel is read from the connection.
GetReturn(t) ==
  /\ pc[t][1] = "inserted"
  /\ misread' = (misread \/ pc[t][3] \in destroyed)
  /\ pc' = [pc EXCEPT ![t] = <<"no">>]
  /\ UNCHANGED <<vars, tracks, deleting, putting, closing, ends>>

-----------------------------------------------------------------------------
(***************************************************************************)
(* The end of a call.                                                      *)
(***************************************************************************)
\* Defect: the Track is looked up and stays in the pool.
PutKeeps(s) ==
  /\ s \in tracks \ putting /\ PoolFree
  /\ putting' = putting \cup {s}
  /\ UNCHANGED <<vars, tracks, deleting, pc, closing, ends, misread>>

Put(s) ==
  /\ s \in tracks /\ PoolFree
  /\ tracks' = tracks \ {s} /\ putting' = putting \cup {s}
  /\ UNCHANGED <<vars, deleting, pc, closing, ends, misread>>

\* The connection is released and the task goes back to the caller.
PutRelease(s) ==
  /\ s \in putting
  /\ Release(s)
  /\ putting' = putting \ {s}
  /\ ends' = [ends EXCEPT ![s] = @ + 1]
  /\ UNCHANGED <<tracks, deleting, pc, closing, misread>>

\* Cleanup() finds calls whose time is over.
Cleanup(expired) ==
  /\ PoolFree /\ expired # {}
  /\ deleting' = expired
  /\ UNCHANGED <<vars, tracks, putting, pc, closing, ends, misread>>

\* ~Track(): OnTimeout(), then the task is deleted.
OnTimeout(s) == Release(s)

DeleteTrack(s) ==
  /\ s \in deleting
  /\ OnTimeout(s)
  /\ tracks' = tracks \ {s} /\ deleting' = deleting \ {s}
  /\ ends' = [ends EXCEPT ![s] = @ + 1]
  /\ UNCHANGED <<putting, pc, closing, misread>>

-----------------------------------------------------------------------------
(***************************************************************************)
(* Hosts come and go.                                                      *)
(***************************************************************************)
\* Add(): a reference is taken and given back.
RouterAdd(t, k) ==
  /\ pc[t] = <<"no">>
  /\ Get(t, k) \/ \E o \in Objects : Add(t, k, o)
  /\ pc' = [pc EXCEPT ![t] = <<"adding">>]
  /\ UNCHANGED <<tracks, deleting, putting, closing, ends, misread>>

AddRelease(t) ==
  /\ pc[t] = <<"adding">>
  /\ Release(t)
  /\ pc' = [pc EXCEPT ![t] = <<"no">>]
  /\ UNCHANGED <<tracks, deleting, putting, closing, ends, misread>>

Del(k) ==
  /\ Erase(k)
  /\ UNCHANGED <<tracks, deleting, putting, pc, closing, ends, misread>>

RouterSetAll(hosts, new) ==
  /\ SetAll(hosts, new)
  /\ UNCHANGED <<tracks, deleting, putting, pc, closing, ends, misread>>

-----------------------------------------------------------------------------
(***************************************************************************)
(* Shutdown(): all Tracks are deleted, then EraseAll(true).                *)
(***************************************************************************)
RouterShutdown ==
  /\ closing = "no" /\ PoolFree
  /\ deleting' = tracks
  /\ closing' = "clearing"
  /\ UNCHANGED <<vars, tracks, putting, pc, ends, misread>>

\* Another thread may enter Tracks and Check() the pool between the two.
ShutdownErase ==
  /\ closing = "clearing" /\ PoolFree
  /\ EraseAll(TRUE)
  /\ closing' = "erasing"
  /\ UNCHANGED <<tracks, deleting, putting, pc, ends, misread>>

ShutdownTest ==
  /\ closing = "erasing"
  /\ EraserTest
  /\ closing' = IF eraser' = "no" THEN "no" ELSE closing
  /\ UNCHANGED <<tracks, deleting, putting, pc, ends, misread>>

-----------------------------------------------------------------------------
ThreadStep(t) == GetInsert(t) \/ GetReturn(t) \/ AddRelease(t)
RouterShutdownStep == ShutdownErase \/ ShutdownTest

RouterNext ==
  \/ \E t \in Threads :
       \/ ThreadStep(t)
       \/ \E s \in Seqs : RouterGet(t, s)
       \/ \E k \in Keys : RouterAdd(t, k)
  \/ \E s \in Seqs : Put(s) \/ PutRelease(s) \/ DeleteTrack(s)
  \/ \E expired \in SUBSET tracks : Cleanup(expired)
  \/ \E k \in Keys : Del(k)
  \/ \E hosts \in SUBSET Keys, new \in [Keys -> Objects \cup {None}] : RouterSetAll(hosts, new)
  \/ RouterShutdown \/ RouterShutdownStep

RouterSpec == RouterInit /\ [][RouterNext]_routerVars

\* Threads go on, and Cleanup() is called again and again.
RouterFairness ==
  /\ \A t \in Threads : WF_routerVars(ThreadStep(t))
  /\ \A s \in Seqs : WF_routerVars(PutRelease(s)) /\ WF_routerVars(DeleteTrack(s))
  /\ \A s \in Seqs : SF_routerVars(\E expired \in SUBSET tracks : s \in expired /\ Cleanup(expired))
  /\ SF_routerVars(ShutdownErase) /\ WF_routerVars(ShutdownTest)

RouterFairSpec == RouterSpec /\ RouterFairness

-----------------------------------------------------------------------------
(***************************************************************************)
(* Properties.                                                             *)
(***************************************************************************)

\* The connection of a call that is not over is there, so that the Track can be
\* ended, also if the host was deleted or Shutdown() is waiting.
RoutedAlive ==
  \A s \in tracks \cup putting : holds[s] \in Objects /\ holds[s] \notin destroyed

\* The task of a call is given back by Put() or deleted on timeout, never both.
TaskEndsOnce == \A s \in Seqs : ends[s] <= 1

\* The two together: the connection of a call that is not over is there, and the call
\* ends once.
RouterSound == RoutedAlive /\ TaskEndsOnce

\* Get() reads the channel from a connection that exists.
ChannelValid == ~misread

\* Every call that was routed ends, and Shutdown(), which waits for the connections
\* the calls hold, returns.
CallsEnd ==
  /\ \A s \in Seqs : s \in tracks \cup putting ~> ends[s] = 1
  /\ closing # "no" ~> closing = "no"

=============================================================================
