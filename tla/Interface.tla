----------------------------- MODULE Interface -----------------------------
(***************************************************************************)
(* flinter/linkage/interface.cpp and listener.cpp: sockets that listen,    *)
(* connect and accept, and the descriptors and socket files they leave in  *)
(* the kernel.  Each method is a step: it makes system calls one after     *)
(* another, any of which may fail, and undoes what it did before.  A       *)
(* Listener is an Interface whose accepted descriptors become linkages.    *)
(***************************************************************************)
EXTENDS Integers, FiniteSets

CONSTANTS
  Interfaces,        \* objects
  Fds,               \* descriptors the process may have
  CredentialsFail    \* SO_PEERCRED may fail on a socket that was just connected

ASSUME InterfaceAssumption == Fds \subseteq Nat /\ CredentialsFail \in BOOLEAN

NoFd == -1
Stale == -2   \* a socket file without a socket

VARIABLES
  fdOf,     \* interface -> _socket
  role,     \* interface -> "none", "connecting", "connected", "listening", "shut"
  named,    \* interface -> _sockname is the path
  open,     \* descriptors open in the kernel
  bound,    \* the file at the path: NoFd, the descriptor bound to it, or Stale
  taken,    \* descriptors accepted and held by the caller
  linked,   \* descriptors of linkages made by a Listener
  life      \* "up", or "crashed" once

ifVars == <<fdOf, role, named, open, bound, taken, linked, life>>

InterfaceOK ==
  /\ fdOf \in [Interfaces -> Fds \cup {NoFd}] /\ named \in [Interfaces -> BOOLEAN]
  /\ role \in [Interfaces -> {"none", "connecting", "connected", "listening", "shut"}]
  /\ open \subseteq Fds /\ taken \subseteq Fds /\ linked \subseteq Fds
  /\ bound \in {NoFd, Stale} \cup Fds /\ life \in {"up", "crashed"}

InterfaceInit ==
  /\ fdOf = [i \in Interfaces |-> NoFd] /\ role = [i \in Interfaces |-> "none"]
  /\ named = [i \in Interfaces |-> FALSE] /\ open = {} /\ bound = NoFd
  /\ taken = {} /\ linked = {} /\ life = "up"

-----------------------------------------------------------------------------
\* Close(), with which every Listen(), Connect() and Accepted() begins: the file goes first.
Closed(i) == open \ {fdOf[i]}
Unlinked(i) == IF fdOf[i] # NoFd /\ named[i] THEN NoFd ELSE bound

Holds(i, fd, r, file) ==
  /\ fdOf' = [fdOf EXCEPT ![i] = fd] /\ role' = [role EXCEPT ![i] = r]
  /\ named' = [named EXCEPT ![i] = file]

Close(i) ==
  /\ fdOf[i] # NoFd /\ Holds(i, NoFd, "none", FALSE)
  /\ open' = Closed(i) /\ bound' = Unlinked(i) /\ UNCHANGED <<taken, linked, life>>

\* A method that failed after CreateSocket() has closed the socket, and its file is removed
\* if bind() had made it.
Failed(i) ==
  /\ Holds(i, NoFd, "none", FALSE) /\ open' = Closed(i) /\ bound' = Unlinked(i)

\* CreateSocket(): socket() and the options of InitializeSocket().
CreateSocket(i) == Fds \ Closed(i)

\* Connect() by DoConnectTcp(): at once, or in progress.
ConnectTcp(i, r) ==
  /\ \/ \E fd \in CreateSocket(i) : Holds(i, fd, r, FALSE) /\ open' = Closed(i) \cup {fd}
        /\ bound' = Unlinked(i)
     \/ r = "connected" /\ Failed(i)
  /\ UNCHANGED <<taken, linked, life>>

\* LinkagePeer::Set(): what it returns for a peer; the credentials of a local one may fail.
PeerSet(local) == IF local /\ CredentialsFail THEN BOOLEAN ELSE {TRUE}

\* Connect() by DoConnectUnix(): never in progress; a peer without credentials is an error
\* that leaves the socket open.
ConnectUnix(i) ==
  /\ \/ \E fd \in CreateSocket(i), known \in PeerSet(TRUE) :
          /\ open' = Closed(i) \cup {fd}
          /\ IF known THEN Holds(i, fd, "connected", FALSE) ELSE Holds(i, NoFd, "none", FALSE)
     \/ Holds(i, NoFd, "none", FALSE) /\ open' = Closed(i)
  /\ bound' = Unlinked(i) /\ UNCHANGED <<taken, linked, life>>

\* Connect() and its short forms.
Connect(i) == ConnectTcp(i, "connected") \/ ConnectTcp(i, "connecting") \/ ConnectUnix(i)

\* Mutant: Listen() without Close().
ListenTcpTwice(i) ==
  /\ \E fd \in Fds \ open : Holds(i, fd, "listening", FALSE) /\ open' = open \cup {fd} /\ UNCHANGED bound
  /\ UNCHANGED <<taken, linked, life>>

\* Listen() by DoListenTcp4() or DoListenTcp6().
ListenTcp(i) ==
  /\ \/ \E fd \in CreateSocket(i) : Holds(i, fd, "listening", FALSE) /\ open' = Closed(i) \cup {fd}
        /\ bound' = Unlinked(i)
     \/ Failed(i)
  /\ UNCHANGED <<taken, linked, life>>

\* Listen() by DoListenUnixSocket(): bind() makes the file and fails if it is there; when
\* chmod() or listen() fails the file is removed.
ListenUnix(i) ==
  /\ \/ \E fd \in CreateSocket(i) :
          /\ Unlinked(i) = NoFd /\ bound' = fd
          /\ Holds(i, fd, "listening", TRUE) /\ open' = Closed(i) \cup {fd}
     \/ Failed(i)
  /\ UNCHANGED <<taken, linked, life>>

\* Listen() and its short forms; where both families will do, the sixth is tried first.
Listen(i) == ListenTcp(i) \/ ListenUnix(i)

\* DoAccept(): a descriptor; GetPeerOrClose() closes it if its names cannot be had.
Incoming == Fds \ open

\* Accept(): DoAccept(), GetPeerOrClose() and InitializeSocket(); a failure closes the
\* new descriptor.
Accept(i) ==
  /\ role[i] = "listening"
  /\ \E fd \in Incoming : open' = open \cup {fd} /\ taken' = taken \cup {fd}
  /\ UNCHANGED <<fdOf, role, named, bound, linked, life>>

\* Accepted(): the interface takes an accepted descriptor over, or fails and does not.
Accepted(i, fd) ==
  /\ fd \in taken
  /\ \/ Holds(i, fd, "connected", FALSE) /\ taken' = taken \ {fd}
     \/ Holds(i, NoFd, "none", FALSE) /\ UNCHANGED taken
  /\ open' = Closed(i) /\ bound' = Unlinked(i) /\ UNCHANGED <<linked, life>>

\* The caller closes what it has accepted.
Return(fd) ==
  /\ fd \in taken /\ taken' = taken \ {fd} /\ open' = open \ {fd}
  /\ UNCHANGED <<fdOf, role, named, bound, linked, life>>

\* Listener::OnReadable(): the new descriptor becomes a linkage, or is closed because there
\* is none, or with the linkage that cannot be attached.
OnReadable(i) ==
  /\ role[i] = "listening"
  /\ \E fd \in Incoming : open' = open \cup {fd} /\ linked' = linked \cup {fd}
  /\ UNCHANGED <<fdOf, role, named, bound, taken, life>>

\* Listener::OnReadable() with too many open files throws: the process ends.
Exhausted(i) ==
  /\ role[i] = "listening" /\ open = Fds /\ life = "up"
  /\ life' = "crashed" /\ open' = {} /\ taken' = {} /\ linked' = {}
  /\ bound' = IF bound = NoFd THEN NoFd ELSE Stale
  /\ fdOf' = [j \in Interfaces |-> NoFd] /\ role' = [j \in Interfaces |-> "none"]
  /\ named' = [j \in Interfaces |-> FALSE]

\* A linkage is released and closes its descriptor.
Unlink(fd) ==
  /\ fd \in linked /\ linked' = linked \ {fd} /\ open' = open \ {fd}
  /\ UNCHANGED <<fdOf, role, named, bound, taken, life>>

\* Shutdown(), also by Listener::Disconnect().
ShutdownSocket(i) ==
  /\ fdOf[i] # NoFd /\ role' = [role EXCEPT ![i] = "shut"]
  /\ UNCHANGED <<fdOf, named, open, bound, taken, linked, life>>

\* WaitUntilConnected() and TestIfConnected() find out; the socket stays either way.
Connected(i) ==
  /\ role[i] = "connecting" /\ role' = [role EXCEPT ![i] = "connected"]
  /\ UNCHANGED <<fdOf, named, open, bound, taken, linked, life>>

InterfaceNext ==
  \/ \E i \in Interfaces :
       \/ Close(i) \/ Connect(i) \/ Listen(i) \/ Accept(i) \/ OnReadable(i) \/ Exhausted(i)
       \/ ShutdownSocket(i) \/ Connected(i) \/ \E fd \in Fds : Accepted(i, fd)
  \/ \E fd \in Fds : Return(fd) \/ Unlink(fd)

InterfaceSpec == InterfaceInit /\ [][InterfaceNext]_ifVars

-----------------------------------------------------------------------------
\* Every open descriptor belongs to one interface, to the caller of Accept() or to a linkage,
\* and to one of them only; an interface has the path if and only if the file is that of its
\* socket; a file that is nobody's was left by a process that crashed.
DescriptorsOwned ==
  /\ open = ({fdOf[i] : i \in Interfaces} \ {NoFd}) \cup taken \cup linked
  /\ \A i, j \in Interfaces : fdOf[i] = fdOf[j] /\ fdOf[i] # NoFd => i = j
  /\ taken \cap linked = {} /\ \A i \in Interfaces : fdOf[i] \notin taken \cup linked
  /\ \A i \in Interfaces : named[i] => bound = fdOf[i]
  /\ bound = NoFd \/ (\E i \in Interfaces : named[i]) \/ (bound = Stale /\ life = "crashed")

=============================================================================
