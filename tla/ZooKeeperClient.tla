--------------------------- MODULE ZooKeeperClient ---------------------------
(***************************************************************************)
(* flinter/zookeeper/zookeeper.cpp: one ZooKeeper object, its handle of    *)
(* the C client, and the Pendings whose addresses the client keeps until   *)
(* it has called back.  Users call from any thread; the client's thread    *)
(* calls back.  A step is what is done under the mutex or between two      *)
(* calls of the client.  A synchronous operation holds the mutex until the *)
(* server has answered, and leaves a trace only if it set a watcher.       *)
(***************************************************************************)
EXTENDS Integers, FiniteSets

CONSTANTS
  Pendings,      \* addresses of Pendings
  Careful,       \* no operation is started while _resuming
  MaxSessions    \* bound: sessions

VARIABLES
  handle,      \* _handle: the number of a session, 0 for NULL
  sessions,    \* sessions started
  state,       \* zoo_state(): "none", "connecting", "connected", "expired", "auth_failed"
  connecting, resuming,   \* _connecting, _resuming
  pending,     \* _pending
  zkc, zkw,    \* pending -> has a callback; "none", "set" or "detached"
  alive,       \* Pendings that are allocated
  flying,      \* Pendings the client will call a completion for
  watching,    \* Pendings the client keeps a watch for
  closing,     \* "no", or who is in zookeeper_close(): "shutdown", "reconnect"
  waiter       \* WaitUntilConnected(): "no", "waits", "true", "false"

link == <<handle, sessions, state, connecting, closing>>
book == <<resuming, pending, zkc, zkw, alive>>
clientVars == <<link, book, flying, watching, waiter>>

ClientOK ==
  /\ handle \in 0..MaxSessions /\ sessions \in 0..MaxSessions
  /\ state \in {"none", "connecting", "connected", "expired", "auth_failed"}
  /\ connecting \in BOOLEAN /\ resuming \in BOOLEAN
  /\ pending \subseteq Pendings /\ alive \subseteq Pendings
  /\ flying \subseteq Pendings /\ watching \subseteq Pendings
  /\ zkc \in [Pendings -> BOOLEAN] /\ zkw \in [Pendings -> {"none", "set", "detached"}]
  /\ closing \in {"no", "shutdown", "reconnect"} /\ waiter \in {"no", "waits", "true", "false"}

ClientInit ==
  /\ handle = 0 /\ sessions = 0 /\ state = "none" /\ connecting = FALSE /\ closing = "no"
  /\ resuming = FALSE /\ pending = {} /\ alive = {} /\ flying = {} /\ watching = {}
  /\ zkc = [p \in Pendings |-> FALSE] /\ zkw = [p \in Pendings |-> "none"] /\ waiter = "no"

-----------------------------------------------------------------------------
\* ReconnectNolock().
NewHandle ==
  /\ sessions < MaxSessions /\ sessions' = sessions + 1 /\ handle' = sessions + 1
  /\ state' = "connecting"

\* Initialize(): does nothing when a handle is being closed.
InitializeClient ==
  /\ handle = 0 /\ ~connecting /\ NewHandle
  /\ UNCHANGED <<connecting, closing, book, flying, watching, waiter>>

\* Disconnect() begins: the client calls no watcher any more; completions still fly.
CloseBy(who) ==
  /\ handle # 0 /\ handle' = 0 /\ connecting' = TRUE /\ closing' = who
  /\ watching' = {} /\ state' = "none" /\ UNCHANGED <<sessions, book, flying, waiter>>

\* Shutdown(), by a user, or by OnSession() when authorisation failed.
ShutdownBegin == closing = "no" /\ CloseBy("shutdown")

\* zookeeper_close() is over: the completions it has not called are dropped.
ShutdownEnd ==
  /\ closing = "shutdown" /\ flying' = {}
  /\ connecting' = FALSE /\ closing' = "no"
  /\ alive' = alive \ pending /\ pending' = {}
  /\ UNCHANGED <<handle, sessions, state, resuming, zkc, zkw, watching, waiter>>

\* OnSession() of an expired session, and Reconnect().
ReconnectBegin == state = "expired" /\ closing = "no" /\ CloseBy("reconnect")
ReconnectEnd ==
  /\ closing = "reconnect" /\ flying' = {} /\ connecting' = FALSE /\ closing' = "no" /\ resuming' = TRUE
  /\ NewHandle \/ (sessions = MaxSessions /\ UNCHANGED <<handle, sessions, state>>)
  /\ UNCHANGED <<pending, zkc, zkw, alive, watching, waiter>>

-----------------------------------------------------------------------------
MayCall == handle # 0 /\ (Careful => ~resuming)
Fresh == {p \in Pendings : p \notin alive /\ p \notin flying \cup watching}

Insert(p, c, w) ==
  /\ alive' = alive \cup {p} /\ pending' = pending \cup {p}
  /\ zkc' = [zkc EXCEPT ![p] = c] /\ zkw' = [zkw EXCEPT ![p] = w] /\ UNCHANGED resuming

\* Exists(), Get() or GetChildren() with a watcher succeeds; all others leave nothing behind.
SyncWatch(p) ==
  /\ MayCall /\ state = "connected" /\ p \in Fresh
  /\ Insert(p, FALSE, "set") /\ watching' = watching \cup {p}
  /\ UNCHANGED <<link, flying, waiter>>

\* AsyncGet() and the like with a callback, a watcher or both.
Async(p, c, w) ==
  /\ MayCall /\ p \in Fresh /\ (c \/ w = "set") /\ w # "detached"
  /\ Insert(p, c, w) /\ flying' = flying \cup {p}
  /\ UNCHANGED <<link, watching, waiter>>

\* Detach(): of a callback, of a watcher.
DetachCallback(p) ==
  /\ p \in pending /\ zkc[p] /\ zkc' = [zkc EXCEPT ![p] = FALSE]
  /\ UNCHANGED <<link, resuming, pending, zkw, alive, flying, watching, waiter>>
DetachWatcher(p) ==
  /\ p \in pending /\ zkw[p] = "set" /\ zkw' = [zkw EXCEPT ![p] = "detached"]
  /\ UNCHANGED <<link, resuming, pending, zkc, alive, flying, watching, waiter>>

\* ErasePending().
ErasePending(p) ==
  IF p \in pending THEN pending' = pending \ {p} /\ alive' = alive \ {p} ELSE UNCHANGED <<pending, alive>>

\* Mutant: a completion frees whatever it has called.
CompletionFrees(p, ok) ==
  /\ p \in flying /\ (ok => state = "connected") /\ flying' = flying \ {p}
  /\ watching' = IF ok /\ zkw[p] # "none" THEN watching \cup {p} ELSE watching
  /\ zkc' = [zkc EXCEPT ![p] = FALSE] /\ ErasePending(p)
  /\ UNCHANGED <<link, resuming, zkw, waiter>>

\* A completion calls the callback and frees the Pending unless it has a watcher.  Without
\* a callback, an operation with a watcher that failed frees it; one whose callback or
\* watcher was detached may be left in _pending.  The watch is set if all went well.
Completion(p, ok) ==
  /\ p \in flying /\ (ok => state = "connected") /\ flying' = flying \ {p}
  /\ watching' = IF ok /\ zkw[p] # "none" THEN watching \cup {p} ELSE watching
  /\ IF zkc[p]
     THEN /\ zkc' = [zkc EXCEPT ![p] = FALSE]
          /\ IF zkw[p] = "none" THEN ErasePending(p) ELSE UNCHANGED <<pending, alive>>
     ELSE /\ UNCHANGED zkc
          /\ \/ ~ok /\ zkw[p] # "detached" /\ ErasePending(p)
             \/ (ok \/ zkw[p] # "set") /\ UNCHANGED <<pending, alive>>
  /\ UNCHANGED <<link, resuming, zkw, waiter>>

\* GlobalWatcher(): OnEvent() unless detached, and the Pending is freed.
Watched(p) ==
  /\ p \in watching /\ state = "connected" /\ watching' = watching \ {p}
  /\ zkw' = [zkw EXCEPT ![p] = "none"] /\ ErasePending(p)
  /\ UNCHANGED <<link, resuming, zkc, flying, waiter>>

\* OnConnected(); with _resuming, ResumeSession() of all that is pending: what has a callback
\* is asked again by a new Pending, a watcher without one is called, and the old ones are deleted.
OnConnected ==
  /\ handle # 0 /\ state = "connecting" /\ state' = "connected"
  /\ IF ~resuming THEN UNCHANGED <<book, flying>>
     ELSE /\ resuming' = FALSE
          /\ LET again == {p \in pending : zkc[p]}
             IN \E new \in SUBSET Fresh :
                  /\ Cardinality(new) = Cardinality(again)
                  /\ pending' = new /\ alive' = (alive \ pending) \cup new
                  /\ flying' = flying \cup new
                  /\ zkc' = [p \in Pendings |-> IF p \in new THEN TRUE ELSE zkc[p]]
                  /\ \E w \in [new -> {"none", "set"}] :
                       zkw' = [p \in Pendings |-> IF p \in new THEN w[p] ELSE zkw[p]]
  /\ UNCHANGED <<handle, sessions, connecting, closing, watching, waiter>>

\* The session expires, fails to authorise, or loses its connection.
Session(s) ==
  /\ handle # 0 /\ state # s /\ state \in {"connecting", "connected"}
  /\ s = "connecting" => state = "connected"
  /\ state' = s /\ UNCHANGED <<handle, sessions, connecting, closing, book, flying, watching, waiter>>

\* WaitUntilConnected(): polls the state, gives up when authorisation failed or it is too late.
WaitBegin == waiter # "waits" /\ waiter' = "waits" /\ UNCHANGED <<link, book, flying, watching>>
WaitEnd ==
  /\ waiter = "waits"
  /\ \/ state = "connected" /\ waiter' = "true"
     \/ state # "connected" /\ waiter' = "false"
  /\ UNCHANGED <<link, book, flying, watching>>

ClientNext ==
  \/ InitializeClient \/ ShutdownBegin \/ ShutdownEnd \/ ReconnectBegin \/ ReconnectEnd
  \/ \E p \in Pendings :
       \/ SyncWatch(p) \/ DetachCallback(p) \/ DetachWatcher(p) \/ Watched(p)
       \/ \E c \in BOOLEAN, w \in {"none", "set"} : Async(p, c, w)
       \/ \E ok \in BOOLEAN : Completion(p, ok)
  \/ OnConnected \/ WaitBegin \/ WaitEnd
  \/ \E s \in {"connecting", "expired", "auth_failed"} : Session(s)

ClientSpec == ClientInit /\ [][ClientNext]_clientVars

-----------------------------------------------------------------------------
\* The client never holds the address of a Pending that was deleted, and what is not in
\* _pending is not allocated: GlobalWatcher() and the completions use it, Shutdown() frees the rest.
PendingsAlive ==
  /\ flying \cup watching \subseteq alive
  /\ alive = pending

=============================================================================
