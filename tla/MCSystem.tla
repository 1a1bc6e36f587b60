------------------------------ MODULE MCSystem ------------------------------
(***************************************************************************)
(* What a program is made of besides its connections, one part to a        *)
(* behaviour: its instances and their file, its babysitter, its lock,      *)
(* calls with a timeout, directories, the command line, paths, decimals,   *)
(* and the answers and the threads of FastCGI.  The parts a behaviour is   *)
(* not about stay as they were made.                                       *)
(***************************************************************************)
EXTENDS ReadWriteLock, Daemon, Babysitter, SafeIo, Directories, Cgi, Dispatcher

VARIABLES
  part,      \* what the behaviour is about
  object,                                                               \* of Decimal
  asked, answer,                                                        \* of Paths
  cpc, top, strings, absolute, prefix, room, saved, before, bare, undone, wrong   \* of Cmdline

pathVars == <<asked, answer>>
cmdVars == <<cpc, top, strings, absolute, prefix, room, saved, before, bare, undone, wrong>>

MCConfigurations ==
  {[unconditional |-> FALSE, restart_times |-> 1, normal_delay |-> TRUE, coredump_delay |-> FALSE,
    watchdog |-> TRUE],
   [unconditional |-> TRUE, restart_times |-> 0, normal_delay |-> FALSE, coredump_delay |-> TRUE,
    watchdog |-> FALSE]}

\* mkdirs() of t/s, which holds g, beside f.
MCPath == <<"t", "s">>
MCParent == [e \in {"s", "f", "g"} |-> IF e = "g" THEN "s" ELSE "t"]

Number == INSTANCE Decimal WITH
  MaxUnits <- 25, MaxScale <- 2, MinQuotient <- 1, Units <- {0, 1, 3, 5, 10, 25}
Clean == INSTANCE Paths WITH MaxLength <- 4, MaxPlain <- 5, Depth <- 2
Command == INSTANCE Cmdline WITH
  Arena <- 45, PrefixSize <- 3, Arguments <- <<<<"x", "y">>, <<"z">>>>, Environment <- <<<<"e", "f">>>>,
  Lengths <- {1, 4}, Texts <- {<<>>, <<"t">>, <<"u", "u", "u", "u">>}, Joined <- TRUE, kept <- strings

Parts == {"lock", "daemon", "babysitter", "io", "directories", "cgi", "decimal", "paths", "cmdline",
          "dispatcher"}

early == <<rwVars, daemonVars, sitterVars>>
calls == <<ioVars, dirVars>>
texts == <<object, pathVars, cmdVars>>
fcgi == <<cgiVars, dispatcherVars>>
systemVars == <<part, early, calls, texts, fcgi>>

SystemInit ==
  /\ part \in Parts
  /\ RwInit /\ DaemonInit /\ DirectoriesInit /\ Number!DecimalInit /\ Clean!PathInit
  /\ Command!CmdlineInit /\ DispatcherInit
  /\ SitterInit /\ (part = "babysitter" \/ conf = CHOOSE c \in Configurations : TRUE)
  /\ IoInit /\ (part = "io" \/ (kind = "in" /\ nonblock))
  /\ CgiInit /\ (part = "cgi" \/ filters = 0)

SystemNext ==
  /\ \/ /\ UNCHANGED <<calls, texts, fcgi>>
        /\ \/ part = "lock" /\ RwNext /\ UNCHANGED <<daemonVars, sitterVars>>
           \/ part = "daemon" /\ DaemonNext /\ UNCHANGED <<rwVars, sitterVars>>
           \/ part = "babysitter" /\ SitterNext /\ UNCHANGED <<rwVars, daemonVars>>
     \/ /\ UNCHANGED <<early, texts, fcgi>>
        /\ \/ part = "io" /\ IoNext /\ UNCHANGED dirVars
           \/ part = "directories" /\ DirectoriesNext /\ UNCHANGED ioVars
     \/ /\ UNCHANGED <<early, calls, fcgi>>
        /\ \/ part = "decimal" /\ Number!DecimalNext /\ UNCHANGED <<pathVars, cmdVars>>
           \/ part = "paths" /\ Clean!PathNext /\ UNCHANGED <<object, cmdVars>>
           \/ part = "cmdline" /\ Command!CmdlineNext /\ UNCHANGED <<object, pathVars>>
     \/ /\ UNCHANGED <<early, calls, texts>>
        /\ \/ part = "cgi" /\ CgiNext /\ UNCHANGED dispatcherVars
           \/ part = "dispatcher" /\ DispatcherNext /\ UNCHANGED cgiVars
  /\ UNCHANGED part

\* As in Babysitter and Dispatcher.
OfSitter(A) == part = "babysitter" /\ A
OfFcgi(A) == part = "dispatcher" /\ A
SystemFairness ==
  /\ WF_sitterVars(OfSitter(WaitReady)) /\ SF_sitterVars(OfSitter(WaitSignals))
  /\ WF_sitterVars(OfSitter(Fork)) /\ WF_sitterVars(OfSitter(Spawn))
  /\ WF_sitterVars(OfSitter(SleepSignals)) /\ SF_sitterVars(OfSitter(SleepEnd))
  /\ WF_sitterVars(OfSitter(Cleanup)) /\ WF_sitterVars(OfSitter(ChildDefault))
  /\ WF_sitterVars(OfSitter(ChildUnblock)) /\ WF_sitterVars(OfSitter(ChildTakes))
  /\ WF_sitterVars(OfSitter("KILL" \in cpending /\ ChildExits))
  /\ WF_dispatcherVars(OfFcgi(Joined))
  /\ \A w \in Workers :
       WF_dispatcherVars(OfFcgi(WorkerStep(w))) /\ WF_dispatcherVars(OfFcgi(Kill(w)))

SystemSpec == SystemInit /\ [][SystemNext]_systemVars /\ SystemFairness

-----------------------------------------------------------------------------
\* Sums, differences, products, quotients, comparisons and texts of decimals are those of
\* the rational numbers (Decimal).
DecimalsExact == part = "decimal" => Number!DecimalOK /\ Number!DecimalsExact

\* A cleaned path leads where the path led, and is clean (Paths).
PathsKept == part = "paths" => Clean!PathsKept

\* The strings cmdline.c keeps do not overlap, are freed once, and the process name is padded
\* and restored (Cmdline).
CmdlineSound == part = "cmdline" => Command!CmdlineOK /\ Command!CmdlineSound

\* A child that has exited is noticed, a signal the babysitter was sent reaches the child that
\* lives, and Dispatcher::Shutdown() returns.
SystemLive == ExitNoticed /\ SignalsRelayed /\ ShutdownReturns

=============================================================================
