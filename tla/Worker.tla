------------------------------- MODULE Worker -------------------------------
(***************************************************************************)
(* flinter/linkage/linkage_worker.cpp: a thread that runs an event loop,   *)
(* the commands other threads send to it, the linkages attached to it and  *)
(* its timers.  libev runs one callback at a time, which is a step, except *)
(* that a step ends with each command of a batch and each linkage the      *)
(* health check drops.  What linkages, commands and timers return is the   *)
(* environment's choice.                                                   *)
(***************************************************************************)
EXTENDS Integers, Sequences, FiniteSets, SequencesExt

CONSTANTS
  Commands,    \* Runnables that are sent, each by a thread of its own
  Failing,     \* sets of commands that return false, one of which is chosen
  Linkages,    \* what is attached
  Owned,       \* linkages attached with auto_release
  Timers,      \* Runnables of timers
  Polite       \* OnDisconnected() detaches no other linkage

Quit == "quit"   \* the NULL command that Shutdown() sends
Sent == Commands \cup {Quit}

ASSUME WorkerAssumption == Quit \notin Commands /\ Failing \subseteq SUBSET Commands

VARIABLES
  failing,     \* one of Failing
  todo,        \* commands that are still to be sent
  sending,     \* commands whose thread is between the queue and ev_async_send()
  commands,    \* _commands
  async,       \* the ev_async is pending
  batch, at,   \* OnCommand(): its queue, and the position in it; 0 outside
  quit,        \* _quit
  wpc,         \* "init", "loop", "ended"
  events,      \* _events: linkage -> running_r or running_w
  timers,      \* _timers
  drops,       \* OnHealthCheck(): clients it has still to drop
  gone,        \* linkages that were deleted
  ran, freed,  \* history: commands in the order they ran; commands that were deleted
  sent         \* history: commands and Quit in the order they were queued

queueVars == <<todo, sending, commands, async, sent>>
loopVars == <<batch, at, quit, wpc>>
ownVars == <<events, timers, drops, gone>>
workerVars == <<failing, queueVars, loopVars, ownVars, ran, freed>>

WorkerOK ==
  /\ failing \in Failing /\ todo \subseteq Sent /\ sending \subseteq Sent
  /\ commands \in Seq(Sent) /\ batch \in Seq(Sent)
  /\ at \in 0..Len(batch) /\ async \in BOOLEAN /\ quit \in BOOLEAN /\ wpc \in {"init", "loop", "ended"}
  /\ DOMAIN events \subseteq Linkages /\ \A l \in DOMAIN events : events[l] \in BOOLEAN
  /\ timers \subseteq Timers /\ drops \subseteq Linkages /\ gone \subseteq Linkages

WorkerInit ==
  /\ failing \in Failing /\ todo = Sent /\ sending = {} /\ commands = <<>> /\ async = FALSE
  /\ batch = <<>> /\ at = 0 /\ quit = FALSE /\ wpc = "init"
  /\ events = << >> /\ timers = {} /\ drops = {} /\ gone = {}
  /\ ran = <<>> /\ freed = {} /\ sent = <<>>

-----------------------------------------------------------------------------
\* SendCommand(), and Shutdown() with NULL: the queue first, then the event.
SendCommand(c) ==
  /\ c \in todo /\ todo' = todo \ {c} /\ sending' = sending \cup {c}
  /\ commands' = Append(commands, c) /\ sent' = Append(sent, c)
  /\ UNCHANGED <<failing, async, loopVars, ownVars, ran, freed>>
AsyncSend(c) ==
  /\ c \in sending /\ sending' = sending \ {c} /\ async' = TRUE
  /\ UNCHANGED <<failing, todo, commands, sent, loopVars, ownVars, ran, freed>>

\* Run() begins: the health timer is the first.
RunBegin ==
  /\ wpc = "init" /\ wpc' = "loop" /\ UNCHANGED <<failing, queueVars, batch, at, quit, ownVars, ran, freed>>

InLoop == wpc = "loop" /\ ~quit /\ at = 0 /\ drops = {}

\* Mutant: one command is taken and the wake-up is used up.
OnCommandPartly ==
  /\ InLoop /\ async /\ async' = FALSE /\ commands # <<>>
  /\ batch' = <<Head(commands)>> /\ commands' = Tail(commands) /\ at' = 1
  /\ UNCHANGED <<failing, todo, sending, sent, quit, wpc, ownVars, ran, freed>>

\* OnCommand() takes the whole queue.
OnCommand ==
  /\ InLoop /\ async /\ async' = FALSE
  /\ batch' = commands /\ commands' = <<>> /\ at' = IF commands = <<>> THEN 0 ELSE 1
  /\ UNCHANGED <<failing, todo, sending, sent, quit, wpc, ownVars, ran, freed>>

\* One command.  NULL ends the loop and leaves the batch behind; a command that returns
\* false ends the batch, and all of it is deleted.
DoCommand ==
  /\ at > 0
  /\ LET c == batch[at]
         last == at = Len(batch) \/ c \in failing
     IN IF c = Quit
        THEN quit' = TRUE /\ at' = 0 /\ UNCHANGED <<ran, freed>>
        ELSE /\ ran' = Append(ran, c) /\ UNCHANGED quit
             /\ at' = IF last THEN 0 ELSE at + 1
             /\ freed' = IF last THEN freed \cup (ToSet(batch) \ {Quit}) ELSE freed
  /\ batch' = IF at' = 0 THEN <<>> ELSE batch
  /\ UNCHANGED <<failing, queueVars, wpc, ownVars>>

-----------------------------------------------------------------------------
\* Attach() and Detach(), in the worker's thread, of a linkage that was not deleted.
AttachLinkage(l, how) ==
  /\ InLoop /\ l \notin DOMAIN events \cup gone
  /\ events' = [x \in DOMAIN events \cup {l} |-> IF x = l THEN how ELSE events[x]]
  /\ UNCHANGED <<failing, queueVars, loopVars, timers, drops, gone, ran, freed>>
DetachLinkage(l) ==
  /\ InLoop /\ l \in DOMAIN events
  /\ events' = [x \in DOMAIN events \ {l} |-> events[x]]
  /\ UNCHANGED <<failing, queueVars, loopVars, timers, drops, gone, ran, freed>>

\* SetWanna(), SetWannaRead(), SetWannaWrite().
SetWanna(l, how) ==
  /\ InLoop /\ l \in DOMAIN events /\ how # events[l] /\ events' = [events EXCEPT ![l] = how]
  /\ UNCHANGED <<failing, queueVars, loopVars, timers, drops, gone, ran, freed>>

\* DoRelease() of a client: OnDisconnected() is called, and the linkage deleted if it is owned.
DoRelease(ls) ==
  /\ events' = [x \in DOMAIN events \ ls |-> events[x]]
  /\ gone' = gone \cup (ls \cap Owned)

\* OnReadable() or OnWritable() of a linkage that wants to hang up, or has failed.
OnEvent(l) ==
  /\ InLoop /\ l \in DOMAIN events /\ events[l] /\ DoRelease({l})
  /\ UNCHANGED <<failing, queueVars, loopVars, timers, drops, ran, freed>>

\* OnHealthCheck() collects those whose Cleanup() says so, and drops one after another.
OnHealthCheck(ls) ==
  /\ InLoop /\ ls # {} /\ ls \subseteq DOMAIN events /\ drops' = ls
  /\ UNCHANGED <<failing, queueVars, loopVars, events, timers, gone, ran, freed>>
Drop(l) ==
  /\ l \in drops /\ drops' = drops \ {l}
  /\ \/ DoRelease({l})
     \/ ~Polite /\ \E o \in DOMAIN events \ {l} :   \* a callback that detaches another one
          events' = [x \in DOMAIN events \ {l, o} |-> events[x]] /\ gone' = gone \cup ({l} \cap Owned)
  /\ UNCHANGED <<failing, queueVars, loopVars, timers, ran, freed>>

\* RegisterTimer(); and OnTimer() of one whose Runnable returns false.
RegisterTimer(t) ==
  /\ InLoop /\ t \notin timers /\ timers' = timers \cup {t}
  /\ UNCHANGED <<failing, queueVars, loopVars, events, drops, gone, ran, freed>>
OnTimer(t) ==
  /\ InLoop /\ t \in timers /\ timers' = timers \ {t}
  /\ UNCHANGED <<failing, queueVars, loopVars, events, drops, gone, ran, freed>>

\* Mutant: the loop is left without releasing what is attached.
RunEndLeaves ==
  /\ wpc = "loop" /\ quit /\ at = 0 /\ wpc' = "ended" /\ timers' = {}
  /\ UNCHANGED <<failing, queueVars, batch, at, quit, events, drops, gone, ran, freed>>

\* The loop is left: everything is released.
RunEnd ==
  /\ wpc = "loop" /\ quit /\ at = 0 /\ wpc' = "ended"
  /\ DoRelease(DOMAIN events) /\ timers' = {}
  /\ UNCHANGED <<failing, queueVars, batch, at, quit, drops, ran, freed>>

WorkerNext ==
  \/ \E c \in Sent : SendCommand(c) \/ AsyncSend(c)
  \/ RunBegin \/ OnCommand \/ DoCommand \/ RunEnd
  \/ \E l \in Linkages :
       DetachLinkage(l) \/ OnEvent(l) \/ Drop(l) \/ \E how \in BOOLEAN : AttachLinkage(l, how) \/ SetWanna(l, how)
  \/ \E ls \in SUBSET Linkages : OnHealthCheck(ls)
  \/ \E t \in Timers : RegisterTimer(t) \/ OnTimer(t)

\* Threads run, and libev does not starve the commands for other events.
WorkerFairness ==
  /\ WF_workerVars(RunBegin) /\ SF_workerVars(OnCommand) /\ WF_workerVars(DoCommand) /\ WF_workerVars(RunEnd)
  /\ \A c \in Sent : WF_workerVars(AsyncSend(c))
  /\ \A l \in Linkages : WF_workerVars(Drop(l))

WorkerSpec == WorkerInit /\ [][WorkerNext]_workerVars /\ WorkerFairness

-----------------------------------------------------------------------------
\* Commands run in the order in which they were queued and each once, whatever they return;
\* while none returns false, none is left out, up to the one that quits.
RunInOrder ==
  /\ \A i, j \in 1..Len(ran) : i < j =>
       /\ ran[i] # ran[j]
       /\ \E p, q \in 1..Len(sent) : p < q /\ sent[p] = ran[i] /\ sent[q] = ran[j]
  /\ failing = {} => IsPrefix(ran, sent)

\* Commands run in order; none is deleted before it has run, unless one before it returned
\* false; the health check drops no linkage that is not attached; and a worker that has
\* ended has nothing attached.
WorkerSound ==
  /\ RunInOrder
  /\ \A c \in freed : c \in ToSet(ran) \/ \E f \in failing : f \in ToSet(ran)
  /\ drops \subseteq DOMAIN events
  /\ wpc = "ended" => DOMAIN events = {} /\ timers = {}

\* "Won't block, but Run() will eventually quit" (linkage_worker.h), as it is when no command
\* returns false: whatever was sent runs in the end, and after Shutdown() the worker ends.
QuitsUnlessFailing ==
  (failing = {} /\ sent # <<>>) ~> (wpc = "ended" \/ ToSet(sent) \subseteq ToSet(ran))

\* The same as the comment says it.
ShutdownQuits == (Quit \in ToSet(sent)) ~> wpc = "ended"

=============================================================================
