----------------------------- MODULE Babysitter -----------------------------
(***************************************************************************)
(* flinter/babysitter.c: a process that restarts its child, relays signals *)
(* to it and kills it when it does not feed the watchdog.  All signals are *)
(* blocked in the babysitter except inside pselect(), so that what it does *)
(* between two calls of pselect() is one step.  The child, the time and    *)
(* those who send signals are the environment.                             *)
(***************************************************************************)
EXTENDS Integers, Sequences, FiniteSets, SequencesExt

CONSTANTS
  Signals,         \* sent to the babysitter, other than SIGCHLD
  QueueSize,       \* of g_signals
  Configurations,  \* records of what babysitter_configure_t says
  MaxSends         \* bound: signals sent

ASSUME BabysitterAssumption ==
  /\ QueueSize \in Nat \ {0} /\ MaxSends \in Nat
  /\ Configurations \subseteq [unconditional : BOOLEAN, restart_times : Nat,
                               normal_delay : BOOLEAN, coredump_delay : BOOLEAN,
                               watchdog : BOOLEAN]

VARIABLES
  conf,      \* one of Configurations
  bpc,       \* babysitter: "fork", "wait", "spawn", "sleep", "ended", "gone"
  pending,   \* signals pending while they are blocked
  exited,    \* g_child_exited
  queue,     \* g_signals up to g_sigtail
  times,     \* restarts counted
  watched,   \* the pipe is read
  hungry,    \* watchdog_timer has passed since last_feed
  fed,       \* there are bytes in the pipe
  child,     \* "none", "born", "default", "alive", "zombie"
  status,    \* how the child exited: "ok", "failed", "core"
  cpending,  \* signals the child has to take
  sends,     \* signals sent
  got,       \* history: signals that took effect in the child
  spawned,   \* history: children so far
  outcome    \* history: why the babysitter is gone

sitter == <<bpc, exited, queue, times, watched>>
env == <<child, status, cpending, got, fed>>
sitterVars == <<conf, sitter, pending, hungry, env, sends, spawned, outcome>>

Cap == 2 + conf.restart_times   \* of the history spawned

SitterInit ==
  /\ conf \in Configurations
  /\ bpc = "fork" /\ pending = {} /\ exited = FALSE /\ queue = <<>> /\ times = 0
  /\ watched = FALSE /\ hungry = FALSE /\ fed = FALSE
  /\ child = "none" /\ status = "ok" /\ cpending = {}
  /\ sends = 0 /\ got = {} /\ spawned = 0 /\ outcome = "none"

-----------------------------------------------------------------------------
(***************************************************************************)
(* Signals: masks and handlers.                                            *)
(***************************************************************************)
\* babysitter_signal_handler() for all pending signals in some order; a full queue drops.
Handled ==
  {queue \o SubSeq(s, 1, Min({Len(s), QueueSize - Len(queue)})) : s \in SetToSeqs(pending \ {"CHLD"})}

\* What the child does before main() goes on.
ChildDefault ==
  /\ child = "born" /\ child' = "default"
  /\ UNCHANGED <<conf, sitter, pending, hungry, status, cpending, got, fed, sends, spawned, outcome>>

ChildUnblock ==
  /\ child = "default" /\ child' = "alive"
  /\ UNCHANGED <<conf, sitter, pending, hungry, status, cpending, got, fed, sends, spawned, outcome>>

-----------------------------------------------------------------------------
(***************************************************************************)
(* babysitter_wait().                                                      *)
(***************************************************************************)
Reap(q) ==
  /\ exited' = FALSE /\ queue' = <<>> /\ child' = "none"
  /\ bpc' = IF status = "ok" /\ ~conf.unconditional THEN "ended" ELSE "spawn"
  /\ UNCHANGED <<watched, hungry, fed, cpending>>

\* The watchdog bites, again with every turn, and signals are left alone.
Bite(q) ==
  /\ hungry
  /\ watched' = FALSE /\ cpending' = cpending \cup {"KILL"} /\ queue' = q
  /\ UNCHANGED <<hungry, fed>>

\* babysitter_relay_signals(), then babysitter_suck_fd(): the end of the file means that
\* the child is gone.
Relay(q) ==
  /\ ~hungry
  /\ cpending' = cpending \cup ToSet(q) /\ queue' = <<>>
  /\ watched' = (watched /\ child # "zombie")
  /\ fed' = (fed /\ ~watched) /\ UNCHANGED hungry

\* Defect: a child that left something in the pipe is not reaped, and the flag is cleared.
TurnForgets(e, q) ==
  \/ /\ e /\ child = "zombie" /\ ~fed /\ Reap(q)
  \/ /\ ~(e /\ child = "zombie" /\ ~fed)
     /\ exited' = FALSE /\ (Bite(q) \/ Relay(q)) /\ UNCHANGED <<bpc, child>>

\* What is done after pselect(), with g_child_exited and g_signals as they are then.
Turn(e, q) ==
  \/ /\ e /\ child = "zombie" /\ Reap(q)
  \/ /\ ~(e /\ child = "zombie")
     /\ exited' = FALSE /\ (Bite(q) \/ Relay(q)) /\ UNCHANGED <<bpc, child>>

\* pselect() is interrupted by the pending signals.
WaitSignals ==
  /\ bpc = "wait" /\ pending # {}
  /\ \E q \in Handled : Turn(exited \/ "CHLD" \in pending, q)
  /\ pending' = {}
  /\ UNCHANGED <<conf, times, status, got, sends, spawned, outcome>>

\* pselect() says that there is something to read, or nothing for a second.  A feeding
\* that is read starts a new period.
WaitReady ==
  /\ bpc = "wait" /\ (pending = {} \/ (watched /\ (fed \/ child = "zombie")))
  /\ Turn(exited, queue)
  /\ UNCHANGED <<conf, pending, times, status, got, sends, spawned, outcome>>

-----------------------------------------------------------------------------
(***************************************************************************)
(* babysitter_spawn().                                                     *)
(***************************************************************************)
Leave(why) == bpc' = "gone" /\ outcome' = why

Fork ==
  /\ bpc = "fork"
  /\ bpc' = "wait" /\ child' = "born" /\ cpending' = {} /\ got' = {}
  /\ watched' = conf.watchdog /\ fed' = FALSE /\ hungry' = FALSE
  /\ spawned' = IF spawned < Cap THEN spawned + 1 ELSE spawned
  /\ UNCHANGED <<conf, pending, exited, queue, times, status, sends, outcome>>

ForkFailed ==
  /\ bpc = "fork" /\ Leave("error")
  /\ UNCHANGED <<conf, exited, queue, times, watched, pending, hungry, env, sends, spawned>>

\* Defect: the first spawn counts as a restart.
AgainCounted ==
  IF conf.restart_times > 0 /\ times + 1 >= conf.restart_times
  THEN Leave("limit") /\ UNCHANGED times
  ELSE /\ bpc' = "fork" /\ UNCHANGED outcome
       /\ times' = IF conf.restart_times > 0 THEN times + 1 ELSE times

\* New pipes, and the count of restarts.
Again ==
  \/ Leave("error") /\ UNCHANGED times
  \/ IF conf.restart_times > 0 /\ times + 1 > conf.restart_times
     THEN Leave("limit") /\ UNCHANGED times
     ELSE /\ bpc' = "fork" /\ UNCHANGED outcome
          /\ times' = IF conf.restart_times > 0 THEN times + 1 ELSE times

HasDelay == IF status = "core" THEN conf.coredump_delay ELSE conf.normal_delay

\* The user's spawn() may cancel.
Spawn ==
  /\ bpc = "spawn"
  /\ \/ bpc' = "ended" /\ UNCHANGED <<times, outcome, queue>>
     \/ HasDelay /\ bpc' = "sleep" /\ UNCHANGED <<times, outcome, queue>>
     \/ ~HasDelay /\ queue' = <<>> /\ Again
  /\ UNCHANGED <<conf, exited, watched, pending, hungry, env, sends, spawned>>

\* babysitter_delay(): signals are taken, and dropped when it is over.
SleepSignals ==
  /\ bpc = "sleep" /\ pending # {}
  /\ queue' \in Handled
  /\ exited' = (exited \/ "CHLD" \in pending) /\ pending' = {}
  /\ UNCHANGED <<conf, bpc, times, watched, hungry, env, sends, spawned, outcome>>

SleepEnd ==
  /\ bpc = "sleep" /\ pending = {} /\ queue' = <<>> /\ Again
  /\ UNCHANGED <<conf, exited, watched, pending, hungry, env, sends, spawned>>

\* The user's cleanup().
Cleanup ==
  /\ bpc = "ended" /\ queue' = <<>> /\ Leave("cleaned")
  /\ UNCHANGED <<conf, exited, times, watched, pending, hungry, env, sends, spawned>>

-----------------------------------------------------------------------------
(***************************************************************************)
(* The environment.                                                        *)
(***************************************************************************)
Lives == child \in {"born", "default", "alive"}

ChildTakes ==
  /\ child = "alive" /\ cpending \cap Signals # {}
  /\ got' = got \cup (cpending \cap Signals) /\ cpending' = cpending \ Signals
  /\ UNCHANGED <<conf, sitter, pending, hungry, child, status, fed, sends, spawned, outcome>>

ChildExits ==
  /\ Lives /\ bpc # "gone" /\ child' = "zombie" /\ pending' = pending \cup {"CHLD"}
  /\ status' \in IF "KILL" \in cpending THEN {"failed"} ELSE {"ok", "failed", "core"}
  /\ UNCHANGED <<conf, sitter, hungry, cpending, got, fed, sends, spawned, outcome>>

\* A child that is stopped or continued is reported, too.
ChildStops ==
  /\ child = "alive" /\ bpc # "gone" /\ pending' = pending \cup {"CHLD"}
  /\ UNCHANGED <<conf, sitter, hungry, env, sends, spawned, outcome>>

\* babysitter_feed().
Feed ==
  /\ child = "alive" /\ conf.watchdog /\ ~fed /\ fed' = TRUE
  /\ UNCHANGED <<conf, sitter, pending, hungry, child, status, cpending, got, sends, spawned, outcome>>

\* The watchdog's time passes.
Starve ==
  /\ bpc = "wait" /\ conf.watchdog /\ ~hungry /\ hungry' = TRUE
  /\ UNCHANGED <<conf, sitter, pending, env, sends, spawned, outcome>>

SendSignal ==
  /\ bpc # "gone" /\ sends < MaxSends /\ sends' = sends + 1
  /\ \E s \in Signals : pending' = pending \cup {s}
  /\ UNCHANGED <<conf, sitter, hungry, env, spawned, outcome>>

SitterNext ==
  \/ ChildDefault \/ ChildUnblock \/ ChildTakes \/ ChildExits \/ ChildStops \/ Feed
  \/ Starve \/ SendSignal
  \/ WaitSignals \/ WaitReady \/ Fork \/ ForkFailed \/ Spawn
  \/ SleepSignals \/ SleepEnd \/ Cleanup

\* The babysitter and the child run; a child that was killed dies.  A child does not feed
\* in each of the moments between two calls of pselect().
SitterFairness ==
  /\ WF_sitterVars(WaitReady) /\ SF_sitterVars(WaitSignals) /\ WF_sitterVars(Fork)
  /\ WF_sitterVars(Spawn) /\ WF_sitterVars(SleepSignals) /\ SF_sitterVars(SleepEnd)
  /\ WF_sitterVars(Cleanup)
  /\ WF_sitterVars(ChildDefault) /\ WF_sitterVars(ChildUnblock) /\ WF_sitterVars(ChildTakes)
  /\ WF_sitterVars("KILL" \in cpending /\ ChildExits)

SitterSpec == SitterInit /\ [][SitterNext]_sitterVars /\ SitterFairness

-----------------------------------------------------------------------------
(***************************************************************************)
(* Properties.                                                             *)
(***************************************************************************)

\* "Only restart up to this times": there are at most that many children after the first,
\* the babysitter does not give up earlier, and every child it has is its only one.
RestartsCounted ==
  /\ conf.restart_times > 0 => spawned <= conf.restart_times + 1
  /\ outcome = "limit" => spawned = conf.restart_times + 1
  /\ bpc \in {"fork", "spawn", "sleep", "ended"} => child = "none"

\* A child that exits is noticed, whenever SIGCHLD comes: it is replaced or the
\* babysitter ends.
ExitNoticed == []<>(child # "zombie")

\* A signal that the babysitter gets while it watches a child takes effect in the child,
\* even if the child was just forked, unless the child is gone first.
SignalsRelayed ==
  \A s \in Signals :
    (s \in pending /\ bpc = "wait" /\ Lives) ~> s \in got \/ ~Lives \/ bpc = "gone"

\* "Feed me within milliseconds": a child whose feeding is in the pipe is not killed.
KilledStarving == [][cpending' # cpending /\ "KILL" \in cpending' => ~fed]_sitterVars

=============================================================================
