-------------------------- MODULE ZooKeeperTracker --------------------------
(***************************************************************************)
(* flinter/zookeeper/zookeeper_tracker.cpp for one path, over what         *)
(* flinter/zookeeper/zookeeper.cpp makes of the C client: requests that    *)
(* are answered in order, watches that fire once, sessions that expire and *)
(* are resumed.  The client's completion thread calls back; any thread     *)
(* tracks and cancels.  A step of the tracker is what it does under its    *)
(* mutex, and each call of a Callback, which holds no mutex, is a step.    *)
(* Watches of one kind that fire together are one event: the tracker does  *)
(* not tell the second one from the first.                                 *)
(***************************************************************************)
EXTENDS Integers, Sequences, FiniteSets

CONSTANTS
  Callbacks,    \* users of the tracker
  Usages,       \* what a program tracks with: sets of <<data, children, cancel_on_missing>>
  MaxChanges,   \* bound: versions of the node, which starts with one
  MaxExpiries   \* bound: sessions that expire

Kinds == {"data", "children"}
Ops == {"exists", "get", "getc"}
Never == -1     \* was told nothing
Null == 0       \* the node is missing

ASSUME TrackerAssumption ==
  /\ \A usage \in Usages : usage \subseteq BOOLEAN \X BOOLEAN \X BOOLEAN
  /\ MaxChanges \in Nat \ {0} /\ MaxExpiries \in Nat

VARIABLES
  usage,        \* one of Usages
  attached,     \* _zk is not NULL
  tracks,       \* the Trackers of the path in _tracks
  inFlight,     \* operations of the path in _exists, _data, _children
  broadcasted,  \* _error_has_broadcasted
  calling,      \* calls the completion thread has still to make: <<callback, what, value>>
  connection,   \* "connected", "connecting", "expired" (its session), "opening" (a new one)
  watch,        \* pendings without a callback, by operation, whose watch is set
  dead,         \* the same, with no watch in the client
  requests,     \* to be answered by the server
  inbox,        \* answers <<operation, rc, value>> and events <<"event", type, Null>>
                \* in the order in which the completion thread handles them
  node,         \* kind -> version of the node, Null if it is missing
  changes, expiries,  \* numbers of either
  seen,         \* history: callback -> kind -> what it was last told
  failed        \* history: callbacks that were told an error of the path

tracker == <<attached, tracks, inFlight, broadcasted>>
client == <<connection, watch, dead, requests, inbox>>
server == <<node, changes, expiries>>
vars == <<usage, tracker, calling, client, server, seen, failed>>

Tracker == [cb : Callbacks, data : BOOLEAN, children : BOOLEAN, existing : BOOLEAN]
Versions == Null..MaxChanges
Events == {"created", "changed", "child", "deleted", "session"}
Messages == (Ops \X {"ok", "nonode", "error"} \X Versions) \cup ({"event"} \X Events \X {Null})

TypeOK ==
  /\ usage \in Usages /\ attached \in BOOLEAN /\ broadcasted \in BOOLEAN
  /\ tracks \subseteq Tracker /\ inFlight \subseteq Ops
  /\ calling \subseteq Callbacks \X (Kinds \cup {"error", "session"}) \X Versions
  /\ connection \in {"connected", "connecting", "expired", "opening"}
  /\ watch \subseteq Ops /\ dead \subseteq Ops
  /\ requests \in Seq(Ops)
  /\ inbox \in Seq(Messages)
  /\ node \in [Kinds -> Versions]
  /\ changes \in Versions /\ expiries \in 0..MaxExpiries
  /\ seen \in [Callbacks -> [Kinds -> Versions \cup {Never}]]
  /\ failed \subseteq Callbacks

Init ==
  /\ usage \in Usages
  /\ attached = TRUE /\ tracks = {} /\ inFlight = {} /\ broadcasted = FALSE /\ calling = {}
  /\ connection = "connected" /\ watch = {} /\ dead = {} /\ requests = <<>> /\ inbox = <<>>
  /\ node = [k \in Kinds |-> 1] /\ changes = 1 /\ expiries = 0
  /\ seen = [c \in Callbacks |-> [k \in Kinds |-> Never]]
  /\ failed = {}

-----------------------------------------------------------------------------
(***************************************************************************)
(* ProcessNolock() and Get(), with the operations in flight as they are    *)
(* at that moment.                                                         *)
(***************************************************************************)
Users(ts) == {t.cb : t \in ts}
Asked(op, ops) == IF op \in ops THEN <<op>> ELSE <<>>
InOrder(ops) == Asked("exists", ops) \o Asked("get", ops) \o Asked("getc", ops)

\* What a query is needed for.
Needs(ts, kinds, erased) ==
  {k \in kinds : \E t \in ts : t[k] /\ ~(erased /\ t.existing)}

\* state() is not ZOO_CONNECTED_STATE.
GetFails(needs) == needs # {} /\ connection # "connected"

\* A query of the data that is in flight leaves the children alone, too.
GetOps(needs, erased, fl) ==
  IF needs = {} THEN {}
  ELSE IF erased THEN {"exists"} \ fl
  ELSE IF "data" \in needs /\ "get" \in fl THEN {}
  ELSE (IF "data" \in needs THEN {"get"} ELSE {})
         \cup (IF "children" \in needs THEN {"getc"} \ fl ELSE {})

Query(ops, fl) ==
  /\ requests' = requests \o InOrder(ops)
  /\ inFlight' = fl \cup ops

(***************************************************************************)
(* NotifyNull(), NotifyError() and what OnGet() and OnGetChildren() call,  *)
(* from a copy of _tracks.                                                 *)
(***************************************************************************)
Notify(ts, kind, value) == {<<c, kind, value>> : c \in Users({t \in ts : t[kind]})}
NotifyNull(ts) == Notify(ts, "data", Null) \cup Notify(ts, "children", Null)
NotifyError(ts) == {<<c, "error", Null>> : c \in Users(ts)}

\* Process() of a missing node: it is looked for again and everybody is told.
ProcessErased(fl) ==
  LET needs == Needs(tracks, Kinds, TRUE)
  IN  \/ /\ GetFails(needs)
         /\ calling' = NotifyError(tracks)
         /\ inFlight' = fl /\ UNCHANGED requests
      \/ /\ ~GetFails(needs)
         /\ calling' = NotifyNull(tracks)
         /\ Query(GetOps(needs, TRUE, fl), fl)

\* Process() of a node that changed.
Process(kinds, fl) ==
  LET needs == Needs(tracks, kinds, FALSE)
  IN  \/ /\ GetFails(needs)
         /\ calling' = NotifyError(tracks)
         /\ inFlight' = fl /\ UNCHANGED requests
      \/ /\ ~GetFails(needs)
         /\ calling' = {}
         /\ Query(GetOps(needs, FALSE, fl), fl)

-----------------------------------------------------------------------------
(***************************************************************************)
(* Users: Track(), TrackExisting(), Cancel(), ClearErrorState() and        *)
(* Shutdown(), from any thread and from callbacks.                         *)
(***************************************************************************)
Forgotten(c) == [seen EXCEPT ![c] = [k \in Kinds |-> Never]]

Covered(c, data, children) ==
  /\ \E t \in tracks : t.cb = c /\ (data => t.data)
  /\ \E t \in tracks : t.cb = c /\ (children => t.children)

DoTrack(c, data, children, existing) ==
  LET t == [cb |-> c, data |-> data, children |-> children, existing |-> existing]
      needs == Needs(tracks \cup {t}, Kinds, FALSE)
  IN  /\ attached /\ <<data, children, existing>> \in usage /\ (data \/ children)
      /\ ~Covered(c, data, children) /\ ~GetFails(needs)
      /\ tracks' = tracks \cup {t}
      /\ Query(GetOps(needs, FALSE, inFlight), inFlight)
      /\ UNCHANGED <<usage, attached, broadcasted, calling, connection, watch, dead, inbox, server,
                     seen, failed>>

\* All trackings of the callback are reverted, the others at the path get an error.
DoTrackFailed(c, data, children, existing) ==
  /\ attached /\ <<data, children, existing>> \in usage /\ (data \/ children)
  /\ ~Covered(c, data, children) /\ GetFails(Kinds)
  /\ tracks' = {t \in tracks : t.cb # c}
  /\ failed' = (failed \ {c}) \cup Users(tracks')
  /\ seen' = Forgotten(c)
  /\ UNCHANGED <<usage, attached, inFlight, broadcasted, calling, client, server>>

Cancel(c) ==
  /\ c \in Users(tracks)
  /\ tracks' = {t \in tracks : t.cb # c}
  /\ failed' = failed \ {c} /\ seen' = Forgotten(c)
  /\ UNCHANGED <<usage, attached, inFlight, broadcasted, calling, client, server>>

ClearErrorState ==
  /\ broadcasted /\ broadcasted' = FALSE
  /\ UNCHANGED <<usage, attached, tracks, inFlight, calling, client, server, seen, failed>>

\* Detach() makes all watches ineffective.
TrackerShutdown ==
  /\ attached /\ attached' = FALSE
  /\ tracks' = {} /\ inFlight' = {} /\ watch' = {} /\ dead' = {}
  /\ UNCHANGED <<usage, broadcasted, calling, connection, requests, inbox, server, seen, failed>>

-----------------------------------------------------------------------------
(***************************************************************************)
(* The completion thread.                                                  *)
(***************************************************************************)
Answer(op, rc) ==
  /\ calling = {} /\ inbox # <<>> /\ Head(inbox)[1] = op /\ Head(inbox)[2] = rc
  /\ inbox' = Tail(inbox)

Event(type) == Answer("event", type)

\* A pending whose watch was not set stays, and is resumed with the next session.
Leftover(op) == dead' = IF attached THEN dead \cup {op} ELSE dead

OnExistsOk ==
  /\ Answer("exists", "ok")
  /\ Process(Kinds, inFlight \ {"exists"})
  /\ UNCHANGED <<usage, attached, tracks, broadcasted, connection, watch, dead, server,
                 seen, failed>>

\* Those that only track an existing node are cancelled, with all their trackings.
OnExistsMissing ==
  /\ Answer("exists", "nonode")
  /\ inFlight' = inFlight \ {"exists"}
  /\ tracks' = {t \in tracks : ~\E u \in tracks : u.cb = t.cb /\ u.existing}
  /\ UNCHANGED <<usage, attached, broadcasted, calling, connection, watch, dead, requests, server,
                 seen, failed>>

OnGetMissing(op) ==
  /\ Answer(op, "nonode") /\ op # "exists"
  /\ ProcessErased(inFlight \ {op}) /\ Leftover(op)
  /\ UNCHANGED <<usage, attached, tracks, broadcasted, connection, watch, server, seen, failed>>

OnQueryError(op) ==
  /\ Answer(op, "error")
  /\ inFlight' = inFlight \ {op} /\ calling' = NotifyError(tracks) /\ Leftover(op)
  /\ UNCHANGED <<usage, attached, tracks, broadcasted, connection, watch, requests, server,
                 seen, failed>>

OnGet(op) ==
  /\ Answer(op, "ok") /\ op # "exists"
  /\ inFlight' = inFlight \ {op}
  /\ calling' = Notify(tracks, IF op = "get" THEN "data" ELSE "children", Head(inbox)[3])
  /\ UNCHANGED <<usage, attached, tracks, broadcasted, connection, watch, dead, requests, server,
                 seen, failed>>

OnEvent ==
  /\ \/ Event("created") /\ Process(Kinds, inFlight)
     \/ Event("changed") /\ Process({"data"}, inFlight)
     \/ Event("child") /\ Process({"children"}, inFlight)
     \/ Event("deleted") /\ ProcessErased(inFlight)
  /\ UNCHANGED <<usage, attached, tracks, broadcasted, connection, watch, dead, server,
                 seen, failed>>

\* Process() of an expired session.
OnSession ==
  /\ Event("session")
  /\ calling' = IF broadcasted THEN {} ELSE {<<c, "session", Null>> : c \in Users(tracks)}
  /\ broadcasted' = TRUE
  /\ UNCHANGED <<usage, attached, tracks, inFlight, connection, watch, dead, requests, server,
                 seen, failed>>

\* A Callback is called.
Call ==
  \E call \in calling :
    /\ calling' = calling \ {call}
    /\ seen' = IF call[2] \in Kinds THEN [seen EXCEPT ![call[1]][call[2]] = call[3]] ELSE seen
    /\ failed' = IF call[2] = "error" THEN failed \cup {call[1]} ELSE failed
    /\ UNCHANGED <<usage, tracker, client, server>>

-----------------------------------------------------------------------------
(***************************************************************************)
(* ZooKeeper: OnConnected() and ResumeSession() after an expired session.  *)
(* All requests have been answered by then, so that only pendings with a   *)
(* watcher are left, and each one gets an event.                           *)
(***************************************************************************)
\* Defect: pendings whose watch was lost are not resumed.
ResumedSet == watch

Resumed == watch \cup dead

EventOf(op) == <<"event", CASE op = "exists" -> "created" [] op = "get" -> "changed"
                            [] op = "getc" -> "child", Null>>

\* OnSession() opens a new session.
Reconnect ==
  /\ connection = "expired" /\ connection' = "opening"
  /\ UNCHANGED <<usage, tracker, calling, watch, dead, requests, inbox, server, seen, failed>>

ResumeSession ==
  /\ connection = "opening" /\ inbox = <<>> /\ calling = {}
  /\ connection' = "connected"
  /\ \E ops \in {s \in [1..Cardinality(Resumed) -> Resumed] :
                   \A i, j \in DOMAIN s : i # j => s[i] # s[j]} :
       inbox' = [i \in DOMAIN ops |-> EventOf(ops[i])]
  /\ watch' = {} /\ dead' = {}
  /\ UNCHANGED <<usage, tracker, calling, requests, server, seen, failed>>

-----------------------------------------------------------------------------
(***************************************************************************)
(* The C client and the server.                                            *)
(***************************************************************************)
\* The server answers, and sets the watch of a node that is there; exists() also sets
\* one for a node that is not.
Serve ==
  /\ connection = "connected" /\ requests # <<>>
  /\ LET op == Head(requests)
         there == node["data"] # Null
     IN  /\ inbox' = Append(inbox, <<op, IF there THEN "ok" ELSE "nonode",
                                      IF op = "getc" THEN node["children"] ELSE node["data"]>>)
         /\ watch' = IF attached /\ (there \/ op = "exists") THEN watch \cup {op} ELSE watch
  /\ requests' = Tail(requests)
  /\ UNCHANGED <<usage, tracker, calling, connection, dead, server, seen, failed>>

\* Someone changes the node; watches that are set fire once.  After Shutdown() changes
\* and sessions do not matter.
Fire(type, ops) ==
  /\ inbox' = IF watch \cap ops # {} THEN Append(inbox, <<"event", type, Null>>) ELSE inbox
  /\ watch' = watch \ ops

Change ==
  /\ attached /\ changes < MaxChanges /\ changes' = changes + 1
  /\ \/ /\ node["data"] = Null /\ node' = [k \in Kinds |-> changes']
        /\ Fire("created", {"exists", "get"})
     \/ /\ node["data"] # Null /\ node' = [node EXCEPT !["data"] = changes']
        /\ Fire("changed", {"exists", "get"})
     \/ /\ node["data"] # Null /\ node' = [node EXCEPT !["children"] = changes']
        /\ Fire("child", {"getc"})
     \/ /\ node["data"] # Null /\ node' = [k \in Kinds |-> Null]
        /\ Fire("deleted", Ops)
  /\ UNCHANGED <<usage, tracker, calling, connection, dead, requests, expiries, seen, failed>>

\* The connection breaks: what was not answered fails, watches are kept.
Disconnected ==
  /\ attached /\ connection = "connected" /\ expiries < MaxExpiries
  /\ connection' = "connecting"
  /\ inbox' = inbox \o [i \in DOMAIN requests |-> <<requests[i], "error", Null>>]
  /\ requests' = <<>>
  /\ UNCHANGED <<usage, tracker, calling, watch, dead, server, seen, failed>>

Reconnected ==
  /\ connection = "connecting" /\ connection' = "connected"
  /\ expiries' = expiries + 1   \* the bound covers both
  /\ UNCHANGED <<usage, tracker, calling, watch, dead, requests, inbox, node, changes, seen, failed>>

\* The session is gone, and with it the watches.  Watchers that are set are told.
Expired ==
  /\ connection = "connecting" /\ connection' = "expired"
  /\ expiries' = expiries + 1
  /\ inbox' = IF watch # {} THEN Append(inbox, <<"event", "session", Null>>) ELSE inbox
  /\ dead' = dead \cup watch /\ watch' = {}
  /\ UNCHANGED <<usage, tracker, calling, requests, node, changes, seen, failed>>

-----------------------------------------------------------------------------
TrackerCompletion ==
  \/ OnExistsOk \/ OnExistsMissing \/ OnEvent \/ OnSession \/ Call
  \/ Reconnect \/ ResumeSession
  \/ \E op \in Ops : OnGetMissing(op) \/ OnGet(op) \/ OnQueryError(op)

Next ==
  \/ TrackerCompletion \/ Serve \/ Change \/ Disconnected \/ Reconnected \/ Expired
  \/ ClearErrorState \/ TrackerShutdown
  \/ \E c \in Callbacks :
       \/ Cancel(c)
       \/ \E use \in usage : DoTrack(c, use[1], use[2], use[3])
                               \/ DoTrackFailed(c, use[1], use[2], use[3])

Spec == Init /\ [][Next]_vars

-----------------------------------------------------------------------------
(***************************************************************************)
(* Properties.                                                             *)
(***************************************************************************)

\* Nothing is on its way.
Quiet ==
  attached /\ connection = "connected" /\ requests = <<>> /\ inbox = <<>> /\ calling = {}

\* Who tracks a node knows its last state once everything on its way has arrived, over
\* changes, deletions, new trackings, broken connections and expired sessions, unless
\* the tracker reported an error of the path: "always track until cancelled".
CaughtUp ==
  Quiet => \A t \in tracks, k \in Kinds :
             t[k] /\ ~t.existing /\ t.cb \notin failed => seen[t.cb][k] = node[k]

\* A query is listed as in flight if and only if its one answer is still to come.
FlightsMatch ==
  attached => \A op \in Ops :
          Cardinality({i \in DOMAIN requests : requests[i] = op})
            + Cardinality({i \in DOMAIN inbox : inbox[i][1] = op})
          = IF op \in inFlight THEN 1 ELSE 0

\* The two together.
TrackerSound == CaughtUp /\ FlightsMatch

\* "Automatically cancel watching if the node is missing": who asked for an existing node
\* and was told that it is missing is not listed as a user any more.
ExistingCancelled ==
  Quiet => \A t \in tracks, k \in Kinds : t[k] /\ t.existing => seen[t.cb][k] # Null

=============================================================================
