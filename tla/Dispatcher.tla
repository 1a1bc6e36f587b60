----------------------------- MODULE Dispatcher -----------------------------
(***************************************************************************)
(* flinter/fastcgi/dispatcher.cpp: worker threads of a pool accept FastCGI *)
(* requests and dispatch each to a handler, which reaches its request only *)
(* through thread-local storage, until Shutdown() signals them.  The       *)
(* signal can come at any point: between the test of _run and accept(2) it *)
(* is lost, which is why it is sent twice.                                 *)
(***************************************************************************)
EXTENDS Integers, FiniteSets

CONSTANTS
  Workers, Requests,
  Disposition,   \* who handles SIGUSR1: "internal" (on_sigterm() of the dispatcher), "external"
                 \* (a handler that calls on_sigterm()) or "dummy" (one that does nothing)
  Timely         \* a thread that is about to call accept(2) does so within the 100 ms

NoRequest == "none"

VARIABLES
  run,        \* _run
  shutdownPending,   \* of the FastCGI library, set by FCGX_ShutdownPending()
  acting,     \* what SIGUSR1 does: "handler" or "default"
  phase,      \* worker -> "new", "check", "window" (before accept(2)), "blocked",
              \*           "request", "finish" or "done"
  mine,       \* worker -> the request of its FCGX_Request
  tls,        \* worker -> what _sfc_tls gives it
  backlog,    \* requests that wait to be accepted
  writes,     \* request -> workers that have written into its answer
  kills,      \* worker -> times Shutdown() has signalled it
  life        \* "up", "stopping" (in Shutdown()), "down" or "killed"

dispatcherVars == <<run, shutdownPending, acting, phase, mine, tls, backlog, writes, kills, life>>

DispatcherOK ==
  /\ run \in BOOLEAN /\ shutdownPending \in BOOLEAN /\ acting \in {"handler", "default"}
  /\ phase \in [Workers -> {"new", "check", "window", "blocked", "request", "finish", "done"}]
  /\ mine \in [Workers -> Requests \cup {NoRequest}] /\ tls \in [Workers -> Requests \cup {NoRequest}]
  /\ backlog \subseteq Requests /\ writes \in [Requests -> SUBSET Workers]
  /\ kills \in [Workers -> 0..2] /\ life \in {"up", "stopping", "down", "killed"}

\* InitializeFastCGI(): somebody handles the signals; _sfc_tls is made known to ClearSilver.
Installed == acting = "handler" /\ tls = [w \in Workers |-> NoRequest]

\* SpawnFastCGI(): every thread gets a Worker.
DispatcherInit ==
  /\ run = TRUE /\ shutdownPending = FALSE /\ Installed
  /\ phase = [w \in Workers |-> "new"]
  /\ mine = [w \in Workers |-> NoRequest]
  /\ backlog = Requests /\ writes = [r \in Requests |-> {}]
  /\ kills = [w \in Workers |-> 0] /\ life = "up"

signals == <<run, shutdownPending, acting, kills, life>>
Goes(w, p) == phase' = [phase EXCEPT ![w] = p]

-----------------------------------------------------------------------------
\* Worker::Run(): FCGX_InitRequest(), the test of _run, and FCGX_Accept_r() of the library: it
\* looks at shutdownPending, blocks in accept(2), and fails on EINTR.
RunBegin(w) ==
  /\ phase[w] = "new" /\ (Goes(w, "check") \/ Goes(w, "done"))
  /\ UNCHANGED <<mine, tls, backlog, writes, signals>>

Check(w) ==
  /\ phase[w] = "check" /\ Goes(w, IF run /\ ~shutdownPending THEN "window" ELSE "done")
  /\ UNCHANGED <<mine, tls, backlog, writes, signals>>

AcceptCall(w) ==
  /\ phase[w] = "window" /\ Goes(w, "blocked")
  /\ UNCHANGED <<mine, tls, backlog, writes, signals>>

\* Mutant: the environment of a request is kept for all threads.
SlotsShared(w) == Workers

\* _sfc_tls->Set(&request): TLS is pthread_setspecific().
Slots(w) == {w}
AcceptReturn(w, r) ==
  /\ phase[w] = "blocked" /\ r \in backlog /\ backlog' = backlog \ {r}
  /\ mine' = [mine EXCEPT ![w] = r]
  /\ tls' = [v \in Workers |-> IF v \in Slots(w) THEN r ELSE tls[v]]
  /\ Goes(w, "request") /\ UNCHANGED <<writes, signals>>

\* GetHandler(): the only handler, or one for the path below the site root, or the default one;
\* none for a request without a proper REQUEST_URI.
GetHandler(single, uri) ==
  CASE single -> "handler"
    [] ~single /\ uri \in {"missing", "relative"} -> "none"
    [] ~single /\ uri \in {"elsewhere", "unknown", "empty"} -> "default"
    [] ~single /\ uri = "known" -> "handler"

\* DispatchRequest(): the handler writes through the Emulated functions, which find the request
\* in TLS; an exception that is not an HttpException, or no handler, is a failure.
DispatchRequest(w, ok) ==
  /\ phase[w] = "request"
  /\ \E single \in BOOLEAN, uri \in {"missing", "relative", "elsewhere", "unknown", "empty", "known"} :
       /\ GetHandler(single, uri) = "none" => ~ok
       /\ writes' = IF GetHandler(single, uri) = "none" THEN writes ELSE [writes EXCEPT ![tls[w]] = @ \cup {w}]
  /\ Goes(w, IF ok THEN "finish" ELSE "done") /\ UNCHANGED <<mine, tls, backlog, signals>>

\* FCGX_Finish_r(); a worker whose dispatching failed ends without it.
FinishRequest(w) ==
  /\ phase[w] = "finish" /\ mine' = [mine EXCEPT ![w] = NoRequest]
  /\ Goes(w, "check") /\ UNCHANGED <<tls, backlog, writes, signals>>

-----------------------------------------------------------------------------
\* KillAll(SIGUSR1), twice, 100 ms apart.
ShutdownCall == life = "up" /\ life' = "stopping" /\ UNCHANGED <<run, shutdownPending, acting, kills, phase, mine, tls, backlog, writes>>

Rounds == 2
KillTurn(w) ==
  /\ kills[w] < Rounds /\ \A v \in Workers : kills[v] >= kills[w]
  /\ Timely /\ kills[w] = 1 /\ phase[w] # "done" => \A v \in Workers : phase[v] # "window"

\* on_sigterm(); the dispatcher's own installation puts SIG_DFL back.
OnSignal ==
  /\ run' = (run /\ Disposition = "dummy") /\ shutdownPending' = (shutdownPending \/ Disposition # "dummy")
  /\ acting' = IF Disposition = "internal" THEN "default" ELSE acting

Kill(w) ==
  /\ life = "stopping" /\ KillTurn(w) /\ kills' = [kills EXCEPT ![w] = @ + 1]
  /\ IF acting = "default" THEN life' = "killed" /\ UNCHANGED <<run, shutdownPending, acting, phase>>
     ELSE /\ OnSignal /\ UNCHANGED life
          /\ Goes(w, IF phase[w] = "blocked" THEN "done" ELSE phase[w])
  /\ UNCHANGED <<mine, tls, backlog, writes>>

\* Shutdown() of the pool joins the threads.
Joined ==
  /\ life = "stopping" /\ \A w \in Workers : phase[w] = "done" /\ kills[w] = Rounds
  /\ life' = "down" /\ UNCHANGED <<run, shutdownPending, acting, kills, phase, mine, tls, backlog, writes>>

WorkerStep(w) ==
  \/ RunBegin(w) \/ Check(w) \/ AcceptCall(w) \/ (\E r \in Requests : AcceptReturn(w, r))
  \/ (\E ok \in BOOLEAN : DispatchRequest(w, ok)) \/ FinishRequest(w)

DispatcherNext ==
  life \in {"up", "stopping"} /\ (ShutdownCall \/ Joined \/ \E w \in Workers : Kill(w) \/ WorkerStep(w))

DispatcherFairness ==
  WF_dispatcherVars(Joined) /\ \A w \in Workers : WF_dispatcherVars(WorkerStep(w)) /\ WF_dispatcherVars(Kill(w))

DispatcherSpec == DispatcherInit /\ [][DispatcherNext]_dispatcherVars /\ DispatcherFairness

-----------------------------------------------------------------------------
\* A handler writes into the answer of the request its own thread has accepted, and into no
\* other, though the functions ClearSilver calls back know nothing but the TLS key.
RequestsApart ==
  /\ \A r \in Requests : Cardinality(writes[r]) <= 1
  /\ \A w \in Workers : phase[w] = "request" => tls[w] = mine[w]

\* Shutdown() returns and the process survives it: no thread stays in accept(2), where nobody would wake it.
ShutdownReturns == []<>(life \in {"up", "down"})

=============================================================================
