---------------------------- MODULE EasyChannels ----------------------------
(***************************************************************************)
(* The channels of flinter/linkage/easy_server.cpp: one I/O thread with    *)
(* its IoContext, and other threads that call Connect(), Send(),           *)
(* Disconnect() and Forget().  These look the channel up under the mutex   *)
(* of the IoContext and leave the rest to the I/O thread as a command.     *)
(* I/O threads share no channel, so that one of them stands for all.  What *)
(* a linkage does with a message is in module Linkage.                     *)
(***************************************************************************)
EXTENDS Naturals, Sequences, FiniteSets

CONSTANTS
  In, Out,        \* channels of incoming and of outgoing connections
  Users,          \* threads other than the I/O thread
  Maximum,        \* maximum_incoming_connections
  Rejects,        \* whether OnConnected() may refuse a connection
  ReleasedDoes,   \* what OnDisconnected() does when a linkage is released,
  FailedDoes,     \* and when a connection could not be made: subsets of Reactions
  MaxLinkages,    \* bound: linkages made altogether
  MaxMessages     \* bound: messages each thread sends altogether

Reactions == {"send", "forget"}
Io == "io"
Channels == In \cup Out
Ids == 1..MaxLinkages
Senders == Users \cup {Io}

ASSUME EasyAssumption ==
  /\ In \cap Out = {} /\ Io \notin Users
  /\ Maximum \in Nat /\ MaxLinkages \in Nat /\ MaxMessages \in Nat
  /\ Rejects \in BOOLEAN /\ ReleasedDoes \subseteq Reactions /\ FailedDoes \subseteq Reactions

VARIABLES
  linkages,         \* _channel_linkages: channel -> linkage, 0 for none
  infos, handlers,  \* _outgoing_informations, _connect_proxy_handlers
  incoming,         \* _incoming_connections
  outgoing,         \* _outgoing_connections
  allocated,        \* channels handed out by AllocateChannel()
  status,           \* linkage -> "none", "attached", "graceful" (Disconnect() was called),
                    \* "deleted"
  channel,          \* linkage -> its channel
  commands,         \* _commands of the worker, each <<kind, channel, message>>
  posting,          \* user -> what it is going to append to commands, <<>> for nothing
  io,               \* the I/O thread: <<"loop">>, <<"released", linkage>> in OnDisconnected(),
                    \* <<"failed", channel>> there with the mutex held
  stuck,            \* the I/O thread waits for the mutex that it holds
  count,            \* history: thread -> messages it sent
  sent,             \* history: linkage -> messages handed to Linkage::Send()
  refused           \* history: a connection was refused below the maximum

vars == <<linkages, infos, handlers, incoming, outgoing, allocated, status, channel,
          commands, posting, io, stuck, count, sent, refused>>

Locked == io[1] = "failed"
Alive == {"attached", "graceful"}
Registered(c) == linkages[c] # 0
Of(channels) == {l \in Ids : status[l] \in Alive /\ channel[l] \in channels}
Commands == {<<"disconnect", c, <<>>>> : c \in Channels}
              \cup {<<"send", c, <<s, n>>>> : c \in Channels, s \in Senders, n \in 1..MaxMessages}

TypeOK ==
  /\ linkages \in [Channels -> 0..MaxLinkages]
  /\ infos \subseteq Out /\ handlers \subseteq Out /\ allocated \subseteq Channels
  /\ incoming \in Nat /\ outgoing \in 0..Cardinality(Out)
  /\ status \in [Ids -> Alive \cup {"none", "deleted"}]
  /\ channel \in [Ids -> Channels \cup {0}]
  /\ commands \in Seq(Commands)
  /\ posting \in [Users -> Commands \cup {<<>>}]
  /\ io \in {<<"loop">>} \cup {<<"released", l>> : l \in Ids} \cup {<<"failed", c>> : c \in Out}
  /\ stuck \in BOOLEAN /\ refused \in BOOLEAN
  /\ count \in [Senders -> 0..MaxMessages]
  /\ sent \in [Ids -> Seq(Senders \X (1..MaxMessages))]

Init ==
  /\ linkages = [c \in Channels |-> 0]
  /\ infos = {} /\ handlers = {} /\ incoming = 0 /\ outgoing = 0 /\ allocated = {}
  /\ status = [l \in Ids |-> "none"] /\ channel = [l \in Ids |-> 0]
  /\ commands = <<>> /\ posting = [u \in Users |-> <<>>]
  /\ io = <<"loop">> /\ stuck = FALSE /\ refused = FALSE
  /\ count = [s \in Senders |-> 0] /\ sent = [l \in Ids |-> <<>>]

registry == <<linkages, infos, handlers, incoming, outgoing>>
queues == <<commands, posting>>
objects == <<status, channel>>
history == <<count, sent, refused>>

\* l is a new linkage, for channel c.
New(c, l) ==
  /\ status[l] = "none" /\ \A k \in Ids : k < l => status[k] # "none"
  /\ channel' = [channel EXCEPT ![l] = c]

-----------------------------------------------------------------------------
(***************************************************************************)
(* Incoming connections: Listener::OnReadable() and AllocateChannel().     *)
(***************************************************************************)
OverLimit == incoming + 1 >= Maximum

AcceptRefused ==
  /\ io = <<"loop">> /\ OverLimit
  /\ refused' = (refused \/ Cardinality(Of(In)) < Maximum)
  /\ UNCHANGED <<registry, allocated, objects, queues, io, stuck, count, sent>>

\* Interface::Accepted() fails: the channel is not used.
AcceptFailed(c) ==
  /\ io = <<"loop">> /\ ~OverLimit /\ c \notin allocated
  /\ allocated' = allocated \cup {c}
  /\ UNCHANGED <<registry, objects, queues, io, stuck, history>>

\* The linkage is registered, then Attach() succeeds, or fails and it is deleted.
Accept(c, l, attached) ==
  /\ io = <<"loop">> /\ ~OverLimit /\ c \notin allocated
  /\ allocated' = allocated \cup {c}
  /\ incoming' = incoming + 1
  /\ New(c, l)
  /\ status' = [status EXCEPT ![l] = IF attached THEN "attached" ELSE "deleted"]
  /\ linkages' = [linkages EXCEPT ![c] = l]
  /\ UNCHANGED <<infos, handlers, outgoing, queues, io, stuck, history>>

-----------------------------------------------------------------------------
(***************************************************************************)
(* Handing a message over, in the I/O thread.                              *)
(***************************************************************************)
\* Linkage::Send(), which refuses once Disconnect() was called, and may fail when its
\* buffer is full.  DoRealSend(), not Send(), hangs up then.
Accepts(l, state, m, hangup) ==
  \/ /\ state = "attached"
     /\ sent' = [sent EXCEPT ![l] = Append(@, m)]
     /\ status' = [status EXCEPT ![l] = state]
  \/ /\ status' = [status EXCEPT ![l] = IF hangup THEN "graceful" ELSE state]
     /\ UNCHANGED sent

SendOn(l, m, hangup) ==
  /\ Accepts(l, status[l], m, hangup)
  /\ UNCHANGED <<registry, channel, io>>

\* DoReconnect() makes a connection.
Reconnected(c, m, hangup) ==
  \E l \in Ids :
    /\ New(c, l) /\ Accepts(l, "attached", m, hangup)
    /\ linkages' = [linkages EXCEPT ![c] = l]
    /\ outgoing' = outgoing + 1
    /\ UNCHANGED <<infos, handlers, incoming, io>>

\* DoReconnect() fails, in Interface::Connect() or in Attach(): callbacks are called
\* under the mutex (OnError(), OnDisconnected(), or OnConnected(), which refused).
ReconnectFailed(c) ==
  /\ io' = <<"failed", c>>
  /\ UNCHANGED <<registry, objects, sent>>

\* DoRealSend(), and Send() when it is called in the I/O thread.
Deliver(c, m, hangup) ==
  \/ Registered(c) /\ SendOn(linkages[c], m, hangup)
  \/ ~Registered(c) /\ c \in infos /\ (Reconnected(c, m, hangup) \/ ReconnectFailed(c))
  \/ ~Registered(c) /\ c \notin infos /\ UNCHANGED <<registry, objects, io, sent>>

Message(s) == <<s, count[s] + 1>>
Count(s) == count[s] < MaxMessages /\ count' = [count EXCEPT ![s] = @ + 1]

\* A handler running in the loop, OnMessage() for one, sends.
IoSend(c) ==
  /\ io = <<"loop">> /\ c \in allocated
  /\ Count(Io) /\ Deliver(c, Message(Io), FALSE)
  /\ UNCHANGED <<allocated, queues, stuck, refused>>

-----------------------------------------------------------------------------
(***************************************************************************)
(* Commands.                                                               *)
(***************************************************************************)
\* OnCommand() with a SendJob.
CommandSend ==
  /\ io = <<"loop">> /\ commands # <<>> /\ Head(commands)[1] = "send"
  /\ commands' = Tail(commands)
  /\ Deliver(Head(commands)[2], Head(commands)[3], TRUE)
  /\ UNCHANGED <<allocated, posting, stuck, count, refused>>

\* OnCommand() with a DisconnectJob.
CommandDisconnect ==
  /\ io = <<"loop">> /\ commands # <<>> /\ Head(commands)[1] = "disconnect"
  /\ commands' = Tail(commands)
  /\ status' = [l \in Ids |-> IF l = linkages[Head(commands)[2]] /\ status[l] = "attached"
                              THEN "graceful" ELSE status[l]]
  /\ UNCHANGED <<registry, allocated, channel, posting, io, stuck, history>>

-----------------------------------------------------------------------------
(***************************************************************************)
(* The end of a linkage: DoRelease() calls OnDisconnected(), which ends    *)
(* with ReleaseChannel().                                                  *)
(***************************************************************************)
Release(l) ==
  /\ io = <<"loop">> /\ status[l] \in Alive
  /\ io' = <<"released", l>>
  /\ UNCHANGED <<registry, allocated, objects, queues, stuck, history>>

\* Forget(), with the mutex.
DoForget(c) ==
  /\ infos' = infos \ {c}
  /\ handlers' = IF Registered(c) THEN handlers ELSE handlers \ {c}
  /\ UNCHANGED <<linkages, incoming, outgoing>>

ReleasedForget(l) ==
  /\ io = <<"released", l>> /\ "forget" \in ReleasedDoes /\ channel[l] \in infos
  /\ DoForget(channel[l])
  /\ UNCHANGED <<allocated, objects, queues, io, stuck, history>>

ReleasedSend(l) ==
  /\ io = <<"released", l>> /\ "send" \in ReleasedDoes
  /\ Count(Io) /\ Deliver(channel[l], Message(Io), FALSE)
  /\ UNCHANGED <<allocated, queues, stuck, refused>>

ReleaseHandlers(c) == handlers' = IF c \in infos THEN handlers ELSE handlers \ {c}

ReleaseCounts(c) ==
  IF c \in In THEN incoming' = incoming - 1 /\ outgoing' = outgoing
  ELSE incoming' = incoming /\ outgoing' = outgoing - 1

\* Defect: the channel keeps the pointer.
ReleaseEntryKept(c) == linkages' = linkages

ReleaseEntry(c) == linkages' = [linkages EXCEPT ![c] = 0]

ReleaseChannel(l) ==
  /\ io = <<"released", l>>
  /\ ReleaseEntry(channel[l]) /\ ReleaseCounts(channel[l]) /\ ReleaseHandlers(channel[l])
  /\ status' = [status EXCEPT ![l] = "deleted"]
  /\ io' = <<"loop">>
  /\ UNCHANGED <<infos, allocated, channel, queues, stuck, history>>

-----------------------------------------------------------------------------
(***************************************************************************)
(* The callbacks of a connection that could not be made.                   *)
(***************************************************************************)
FailedReturn ==
  /\ Locked /\ ~stuck
  /\ io' = <<"loop">>
  /\ UNCHANGED <<registry, allocated, objects, queues, stuck, history>>

\* Any call takes the mutex again, which is not recursive.
FailedCall ==
  /\ Locked /\ ~stuck /\ FailedDoes # {}
  /\ stuck' = TRUE
  /\ UNCHANGED <<registry, allocated, objects, queues, io, history>>

-----------------------------------------------------------------------------
(***************************************************************************)
(* Other threads.                                                          *)
(***************************************************************************)
Connect(c) ==
  /\ ~Locked /\ c \notin allocated
  /\ allocated' = allocated \cup {c}
  /\ infos' = infos \cup {c} /\ handlers' = handlers \cup {c}
  /\ UNCHANGED <<linkages, incoming, outgoing, objects, queues, io, stuck, history>>

\* The mutex is released before the command is queued.  Nothing is left to do for
\* a channel that is neither connected nor remembered.
Send(u, c) ==
  /\ ~Locked /\ posting[u] = <<>> /\ c \in allocated
  /\ Count(u)
  /\ posting' = [posting EXCEPT ![u] = IF Registered(c) \/ c \in infos
                                       THEN <<"send", c, Message(u)>> ELSE <<>>]
  /\ UNCHANGED <<registry, allocated, objects, commands, io, stuck, sent, refused>>

\* Defect: the command goes to the front.
PostFirst(u) ==
  /\ posting[u] # <<>>
  /\ commands' = <<posting[u]>> \o commands
  /\ posting' = [posting EXCEPT ![u] = <<>>]
  /\ UNCHANGED <<registry, allocated, objects, io, stuck, history>>

Post(u) ==
  /\ posting[u] # <<>>
  /\ commands' = Append(commands, posting[u])
  /\ posting' = [posting EXCEPT ![u] = <<>>]
  /\ UNCHANGED <<registry, allocated, objects, io, stuck, history>>

Disconnect(u, c) ==
  /\ ~Locked /\ posting[u] = <<>> /\ Registered(c)
  /\ \A i \in 1..Len(commands) : commands[i] # <<"disconnect", c, <<>>>>  \* a bound
  /\ commands' = Append(commands, <<"disconnect", c, <<>>>>)
  /\ UNCHANGED <<registry, allocated, objects, posting, io, stuck, history>>

Forget(u, c) ==
  /\ ~Locked /\ posting[u] = <<>> /\ c \in infos
  /\ DoForget(c)
  /\ UNCHANGED <<allocated, objects, queues, io, stuck, history>>

IoStep ==
  \/ CommandSend \/ CommandDisconnect \/ FailedReturn
  \/ \E l \in Ids : ReleaseChannel(l)

Next ==
  \/ IoStep \/ AcceptRefused \/ FailedCall
  \/ \E c \in In :
       \/ AcceptFailed(c)
       \/ \E l \in Ids, attached \in IF Rejects THEN BOOLEAN ELSE {TRUE} : Accept(c, l, attached)
  \/ \E c \in Out : Connect(c)
  \/ \E c \in Channels : IoSend(c)
  \/ \E l \in Ids : Release(l) \/ ReleasedForget(l) \/ ReleasedSend(l)
  \/ \E u \in Users :
       \/ Post(u)
       \/ \E c \in Channels : Send(u, c) \/ Disconnect(u, c) \/ Forget(u, c)

Spec == Init /\ [][Next]_vars

(***************************************************************************)
(* The I/O thread runs its loop, and handlers return unless stuck.         *)
(***************************************************************************)
FairSpec == Spec /\ WF_vars(IoStep)

-----------------------------------------------------------------------------
(***************************************************************************)
(* Properties.                                                             *)
(***************************************************************************)

\* A channel that is found in _channel_linkages has a linkage that is not deleted
\* and is its own, so that Send() and Disconnect() may use the pointer; "for
\* disconnected incoming connections, message is silently dropped".
NoDangling ==
  \A c \in Channels : Registered(c) => status[linkages[c]] \in Alive /\ channel[linkages[c]] = c

\* Each linkage of the I/O thread can be reached through its channel, and no
\* channel has two.
AllReachable ==
  \A l \in Ids : status[l] \in Alive => linkages[channel[l]] = l

\* The numbers of connections that limit what is accepted are the real ones.
CountsMatch ==
  incoming = Cardinality(Of(In)) /\ outgoing = Cardinality(Of(Out))

\* The ProxyHandler of an outgoing channel is there while the channel is remembered
\* or connected, and goes with the last of the two, whoever comes last: Forget() or
\* ReleaseChannel(), which asserts that it finds it.
HandlersKept ==
  handlers = infos \cup {c \in Out : Registered(c)}

\* The tables of the server agree with the linkages and handlers that exist, after every
\* step and whoever comes first: Disconnect(), Forget(), the end of a connection or its
\* failure.
RegistriesSound == NoDangling /\ AllReachable /\ CountsMatch /\ HandlersKept

\* What one thread sends to one channel is handed over in that order, on each
\* connection and over reconnections.
SentInOrder ==
  \A k, l \in Ids : channel[k] = channel[l] /\ k <= l =>
    \A i \in DOMAIN sent[k], j \in DOMAIN sent[l] :
      (k < l \/ i < j) /\ sent[k][i][1] = sent[l][j][1] => sent[k][i][2] < sent[l][j][2]

\* A message never goes to a linkage that is already on its way out: "for
\* disconnected outgoing connections, new connection is made and sent".
NotSentToReleased ==
  [][\A l \in Ids : sent'[l] # sent[l] => io # <<"released", l>>]_vars

\* As many connections as configured are accepted.
AdmitsMaximum == ~refused

\* The mutex of the IoContext is released, whatever handlers do.
MutexReleased == Locked ~> ~Locked

=============================================================================
