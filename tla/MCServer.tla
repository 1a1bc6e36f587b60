------------------------------ MODULE MCServer ------------------------------
(***************************************************************************)
(* The parts of a server that run by themselves, one to a behaviour: the   *)
(* receiver of a linkage, the I/O worker, the interfaces, the resolver and *)
(* the server's start and end.  The parts a behaviour is not about stay as *)
(* they were made.                                                         *)
(***************************************************************************)
EXTENDS LinkageReceiver, Worker, Interface, Resolver, EasyStartup

VARIABLE part   \* what the behaviour is about

Parts == {"receiver", "worker", "interface", "resolver", "startup"}

serverVars == <<part, vars, workerVars, ifVars, resolverVars, startVars>>

ServerInit ==
  /\ part \in Parts
  /\ Init /\ (part = "receiver" \/ ends = <<1>>)
  /\ WorkerInit /\ (part = "worker" \/ failing = {})
  /\ InterfaceInit /\ ResolverInit /\ StartupInit

ServerNext ==
  /\ \/ part = "receiver" /\ Next /\ UNCHANGED <<workerVars, ifVars, resolverVars, startVars>>
     \/ part = "worker" /\ WorkerNext /\ UNCHANGED <<vars, ifVars, resolverVars, startVars>>
     \/ part = "interface" /\ InterfaceNext /\ UNCHANGED <<vars, workerVars, resolverVars, startVars>>
     \/ part = "resolver" /\ ResolverNext /\ UNCHANGED <<vars, workerVars, ifVars, startVars>>
     \/ part = "startup" /\ StartupNext /\ UNCHANGED <<vars, workerVars, ifVars, resolverVars>>
  /\ UNCHANGED part

\* As in Worker and Resolver.
OfWorker(A) == part = "worker" /\ A
OfResolver(A) == part = "resolver" /\ A
ServerFairness ==
  /\ WF_workerVars(OfWorker(RunBegin)) /\ SF_workerVars(OfWorker(OnCommand))
  /\ WF_workerVars(OfWorker(DoCommand)) /\ WF_workerVars(OfWorker(RunEnd))
  /\ \A c \in Sent : WF_workerVars(OfWorker(AsyncSend(c)))
  /\ \A l \in Linkages : WF_workerVars(OfWorker(Drop(l)))
  /\ \A t \in Callers :
       /\ WF_resolverVars(OfResolver(Enter(t))) /\ WF_resolverVars(OfResolver(Back(t)))
       /\ SF_resolverVars(OfResolver(Wake(t)))
       /\ WF_resolverVars(OfResolver(\E answer \in Answers : Ask(t, answer)))

ServerSpec == ServerInit /\ [][ServerNext]_serverVars /\ ServerFairness

=============================================================================
