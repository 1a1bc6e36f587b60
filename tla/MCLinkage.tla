----------------------------- MODULE MCLinkage -----------------------------
(***************************************************************************)
(* A linkage over SslIo, one over FileDescriptorIo, or the job threads of  *)
(* an EasyServer: one of the three to a behaviour.                         *)
(***************************************************************************)
EXTENDS Linkage, EasyJobs

VARIABLES
  kind,   \* "ssl", "plain" or "jobs"
  worker2, attaching2, pc2, todo2, action2, running_r2, running_w2, wbuffer2, last_writing2,
  graceful2, closed2, connect_jam2, send_jam2, pending2, offered2, accepted2, wire2, dumped2,
  torn2   \* of the plain one

plainVars == <<
  worker2, attaching2, pc2, todo2, action2, running_r2, running_w2, wbuffer2, last_writing2,
  graceful2, closed2, connect_jam2, send_jam2, pending2, offered2, accepted2, wire2, dumped2,
  torn2>>

Plain == INSTANCE Linkage WITH Ssl <- FALSE, Lengths <- {1, 2, 4}, kMaximumBytes <- 2, MaxBytes <- 7,
  worker <- worker2, attaching <- attaching2, pc <- pc2, todo <- todo2, action <- action2,
  running_r <- running_r2, running_w <- running_w2, wbuffer <- wbuffer2, last_writing <-
  last_writing2, graceful <- graceful2, closed <- closed2, connect_jam <- connect_jam2, send_jam
  <- send_jam2, pending <- pending2, offered <- offered2, accepted <- accepted2, wire <- wire2,
  dumped <- dumped2, torn <- torn2

linkageVars == <<kind, vars, plainVars, jobsVars>>

LinkagesInit == kind \in {"ssl", "plain", "jobs"} /\ Init /\ Plain!Init /\ JobsInit

\* A step of the one that runs.
Of(A, B, C) ==
  /\ \/ kind = "ssl" /\ A /\ UNCHANGED <<plainVars, jobsVars>>
     \/ kind = "plain" /\ B /\ UNCHANGED <<vars, jobsVars>>
     \/ kind = "jobs" /\ C /\ UNCHANGED <<vars, plainVars>>
  /\ UNCHANGED kind

LinkagesNext == Of(Next, Plain!Next, JobsNext)

\* As in Linkage and in EasyJobs: kind never changes, and so fairness of the disjunction is
\* fairness of each.
LinkagesFairness ==
  /\ WF_linkageVars(Of(EventStep, Plain!EventStep, IoStep))
  /\ SF_linkageVars(Of(JamTimeout, Plain!JamTimeout, FALSE))
  /\ WF_linkageVars(Of(CleanedUp, Plain!CleanedUp, FALSE))
  /\ SF_linkageVars(Of(OnWritable /\ action = "None" /\ ~send_jam,
                       Plain!OnWritable /\ action2 = "None" /\ ~send_jam2, FALSE))
  /\ \A w \in Workers : WF_linkageVars(Of(FALSE, FALSE, WorkerStep(w)))
  /\ \A c \in Callers : WF_linkageVars(Of(FALSE, FALSE, ShutdownStep(c)))

LinkagesSpec == LinkagesInit /\ [][LinkagesNext]_linkageVars /\ LinkagesFairness

-----------------------------------------------------------------------------
\* Without OpenSSL too Send() keeps its promises, and the linkage never waits for nothing.
PlainSound == Plain!StreamIntegrity /\ Plain!Attentive

\* An EasyServer has a job to run, or a Shutdown() of it is under way.
JobsBusy ==
  \/ \E j \in AllJobs : where[j] \in {"queued", "running"}
  \/ \E c \in Callers : shutdown[c] # "no"

\* Without OpenSSL queued bytes are sent, or dumped, or the linkage is released; with it, a
\* shutdown and a handshake that were started end.  Every job of an EasyServer is run or
\* dumped and Shutdown() returns: jobs are finitely many, and so there is a time when none
\* is left and nobody shuts down.
LinkagesLive ==
  Plain!QueueDrains /\ ShutdownCompletes /\ HandshakeEnds /\ (JobsBusy ~> ~JobsBusy)

=============================================================================
