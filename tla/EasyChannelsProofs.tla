------------------------- MODULE EasyChannelsProofs -------------------------
(***************************************************************************)
(* Proofs about EasyChannels, for any channels, users, handlers and        *)
(* limits, where OnConnected() refuses nobody: the tables of the server    *)
(* agree with the linkages and handlers that exist, and what one thread    *)
(* sends to one channel is handed over in order.  And about EasyStartup,   *)
(* for any listeners, timers and workers: what the server took is freed    *)
(* once.                                                                   *)
(***************************************************************************)
EXTENDS EasyChannels, EasyStartup, FiniteSetTheorems, TLAPS

(***************************************************************************)
(* The invariant of the tables.  RegistriesSound is inductive once it is   *)
(* known that a channel is in use only after it was allocated, so that a   *)
(* new one is in no table, and that a linkage which is being released is   *)
(* still alive, so that it is counted.                                     *)
(***************************************************************************)
QueuesType ==
  /\ commands \in Seq(Commands) /\ posting \in [Users -> Commands \cup {<<>>}]
  /\ count \in [Senders -> 0..MaxMessages]

ChannelsType ==
  /\ linkages \in [Channels -> 0..MaxLinkages]
  /\ infos \subseteq Out /\ allocated \subseteq Channels
  /\ status \in [Ids -> Alive \cup {"none", "deleted"}]
  /\ channel \in [Ids -> Channels \cup {0}]
  /\ QueuesType

UsedAllocated == \A c \in Channels : Registered(c) \/ c \in infos => c \in allocated
AliveHaveChannels == \A l \in Ids : status[l] \in Alive => channel[l] \in Channels
ReleasedAlive == \A l \in Ids : io = <<"released", l>> => status[l] \in Alive

TablesInv ==
  /\ ChannelsType /\ NoDangling /\ AllReachable /\ CountsMatch /\ HandlersKept
  /\ UsedAllocated /\ AliveHaveChannels /\ ReleasedAlive

\* Where the I/O thread is: the places are different.
LEMMA IoPlaces ==
  /\ \A l : <<"released", l>> # <<"loop">>
  /\ \A c, l : <<"failed", c>> # <<"released", l>>
  /\ \A k, l : <<"released", k>> = <<"released", l>> => k = l
  OBVIOUS

\* The linkages of some channels are finitely many.
LEMMA OfFinite ==
  ASSUME NEW S
  PROVE  IsFiniteSet(Of(S)) /\ Cardinality(Of(S)) \in Nat /\ IsFiniteSet(Of(S)') /\ Cardinality(Of(S)') \in Nat
<1>1. IsFiniteSet(Ids)
  BY EasyAssumption, FS_Interval DEF Ids
<1>2. Of(S) \subseteq Ids /\ Of(S)' \subseteq Ids
  BY DEF Of
<1>3. IsFiniteSet(Of(S)) /\ IsFiniteSet(Of(S)')
  BY <1>1, <1>2, FS_Subset
<1> QED BY <1>3, FS_CardinalityType

LEMMA TablesStart == Init => TablesInv
<1> SUFFICES ASSUME Init PROVE TablesInv
  OBVIOUS
<1>1. ChannelsType
  <2>1. QueuesType
    <3>1. commands \in Seq(Commands)
      BY DEF Init
    <3>2. count \in [Senders -> 0..MaxMessages]
      BY EasyAssumption DEF Init
    <3> QED BY <3>1, <3>2 DEF QueuesType, Init
  <2>2. 0 \in 0..MaxLinkages
    BY EasyAssumption
  <2>3. linkages \in [Channels -> 0..MaxLinkages]
    BY <2>2 DEF Init
  <2> QED BY <2>1, <2>3 DEF Init, ChannelsType
<1>2. \A l \in Ids : status[l] = "none"
  BY DEF Init
<1>3. Of(In) = {} /\ Of(Out) = {}
  BY <1>2 DEF Of, Alive
<1>4. CountsMatch
  BY <1>3, FS_EmptySet DEF CountsMatch, Init
<1>5. NoDangling /\ HandlersKept /\ UsedAllocated
  BY DEF Init, NoDangling, HandlersKept, UsedAllocated, Registered, Channels
<1>6. AllReachable /\ AliveHaveChannels
  BY <1>2 DEF AllReachable, AliveHaveChannels, Alive
<1>7. ReleasedAlive
  BY IoPlaces DEF Init, ReleasedAlive
<1> QED BY <1>1, <1>4, <1>5, <1>6, <1>7 DEF TablesInv

-----------------------------------------------------------------------------
(***************************************************************************)
(* What happens to linkages: one is made, one is released, or some are     *)
(* told to hang up.                                                        *)
(***************************************************************************)

\* A linkage l is made for a channel c that has none.
LEMMA MakeLinkage ==
  ASSUME TablesInv, NEW c \in Channels, NEW l \in Ids, NEW s \in Alive,
         status[l] = "none", linkages[c] = 0,
         status' = [status EXCEPT ![l] = s], channel' = [channel EXCEPT ![l] = c],
         linkages' = [linkages EXCEPT ![c] = l]
  PROVE  /\ NoDangling' /\ AllReachable' /\ AliveHaveChannels'
         /\ linkages' \in [Channels -> 0..MaxLinkages]
         /\ status' \in [Ids -> Alive \cup {"none", "deleted"}]
         /\ channel' \in [Ids -> Channels \cup {0}]
         /\ \A S : /\ c \in S => Cardinality(Of(S)') = Cardinality(Of(S)) + 1
                   /\ c \notin S => Of(S)' = Of(S)
<1>1. ChannelsType /\ NoDangling /\ AllReachable /\ AliveHaveChannels
  BY DEF TablesInv
<1>2. l \in 0..MaxLinkages /\ l # 0
  BY EasyAssumption DEF Ids
<1>3. /\ linkages' \in [Channels -> 0..MaxLinkages] /\ linkages'[c] = l
      /\ \A d \in Channels : d # c => linkages'[d] = linkages[d]
  BY <1>1, <1>2 DEF ChannelsType
<1>4. /\ status' \in [Ids -> Alive \cup {"none", "deleted"}] /\ status'[l] = s
      /\ \A k \in Ids : k # l => status'[k] = status[k]
  BY <1>1 DEF ChannelsType
<1>5. /\ channel' \in [Ids -> Channels \cup {0}] /\ channel'[l] = c
      /\ \A k \in Ids : k # l => channel'[k] = channel[k]
  BY <1>1 DEF ChannelsType
<1>6. "none" \notin Alive
  BY DEF Alive
<1>7. NoDangling'
  <2> SUFFICES ASSUME NEW d \in Channels, linkages'[d] # 0
               PROVE  status'[linkages'[d]] \in Alive /\ channel'[linkages'[d]] = d
    BY DEF NoDangling, Registered
  <2>1. CASE d = c
    BY <1>3, <1>4, <1>5, <2>1
  <2>2. CASE d # c
    <3>1. linkages'[d] = linkages[d] /\ status[linkages[d]] \in Alive /\ channel[linkages[d]] = d
      BY <1>1, <1>3, <2>2 DEF NoDangling, Registered
    <3>2. linkages[d] \in Ids /\ linkages[d] # l
      BY <1>1, <1>3, <1>6, <3>1, EasyAssumption DEF ChannelsType, Ids
    <3> QED BY <1>4, <1>5, <3>1, <3>2
  <2> QED BY <2>1, <2>2
<1>8. AllReachable' /\ AliveHaveChannels'
  <2> SUFFICES ASSUME NEW k \in Ids, status'[k] \in Alive
               PROVE  linkages'[channel'[k]] = k /\ channel'[k] \in Channels
    BY DEF AllReachable, AliveHaveChannels
  <2>1. CASE k = l
    BY <1>3, <1>5, <2>1
  <2>2. CASE k # l
    <3>1. status[k] \in Alive /\ channel'[k] = channel[k]
      BY <1>4, <1>5, <2>2
    <3>2. linkages[channel[k]] = k /\ channel[k] \in Channels
      BY <1>1, <3>1 DEF AllReachable, AliveHaveChannels
    <3>3. k # 0
      BY EasyAssumption DEF Ids
    <3> QED BY <1>3, <3>1, <3>2, <3>3
  <2> QED BY <2>1, <2>2
<1>9. ASSUME NEW S PROVE /\ c \in S => Cardinality(Of(S)') = Cardinality(Of(S)) + 1
                         /\ c \notin S => Of(S)' = Of(S)
  <2>1. l \notin Of(S)
    BY <1>6 DEF Of
  <2>2. c \in S => Of(S)' = Of(S) \cup {l}
    BY <1>4, <1>5 DEF Of
  <2>3. c \notin S => Of(S)' = Of(S)
    BY <1>4, <1>5, <1>6 DEF Of
  <2>4. Cardinality(Of(S) \cup {l}) = Cardinality(Of(S)) + 1
    BY <2>1, OfFinite, FS_AddElement
  <2> QED BY <2>2, <2>3, <2>4
<1> QED BY <1>3, <1>4, <1>5, <1>7, <1>8, <1>9

\* Linkages that are alive stay so, though some may have to hang up.
LEMMA KeepLinkages ==
  ASSUME TablesInv, status' \in [Ids -> Alive \cup {"none", "deleted"}],
         \A l \in Ids : status'[l] \in Alive <=> status[l] \in Alive,
         linkages' = linkages, channel' = channel
  PROVE  /\ NoDangling' /\ AllReachable' /\ AliveHaveChannels' /\ \A S : Of(S)' = Of(S)
<1>1. ChannelsType /\ NoDangling /\ AllReachable /\ AliveHaveChannels
  BY DEF TablesInv
<1>2. NoDangling'
  <2>1. \A c \in Channels : linkages[c] # 0 => linkages[c] \in Ids
    BY <1>1, EasyAssumption DEF ChannelsType, Ids
  <2> QED BY <1>1, <2>1 DEF NoDangling, Registered
<1>3. AllReachable' /\ AliveHaveChannels'
  BY <1>1 DEF AllReachable, AliveHaveChannels
<1>4. ASSUME NEW S PROVE Of(S)' = Of(S)
  BY DEF Of
<1> QED BY <1>2, <1>3, <1>4

\* A linkage is released: its channel has none, and nobody else is affected.
LEMMA DropLinkage ==
  ASSUME TablesInv, NEW l \in Ids, status[l] \in Alive,
         status' = [status EXCEPT ![l] = "deleted"], channel' = channel,
         linkages' = [linkages EXCEPT ![channel[l]] = 0]
  PROVE  /\ NoDangling' /\ AllReachable' /\ AliveHaveChannels'
         /\ linkages' \in [Channels -> 0..MaxLinkages]
         /\ status' \in [Ids -> Alive \cup {"none", "deleted"}]
         /\ channel[l] \in Channels /\ linkages[channel[l]] = l
         /\ \A S : /\ channel[l] \in S => Cardinality(Of(S)') = Cardinality(Of(S)) - 1 /\ Cardinality(Of(S)) > 0
                   /\ channel[l] \notin S => Of(S)' = Of(S)
<1>1. ChannelsType /\ NoDangling /\ AllReachable /\ AliveHaveChannels
  BY DEF TablesInv
<1>2. channel[l] \in Channels /\ linkages[channel[l]] = l /\ 0 \in 0..MaxLinkages
  BY <1>1, EasyAssumption DEF AllReachable, AliveHaveChannels
<1>3. /\ linkages' \in [Channels -> 0..MaxLinkages] /\ linkages'[channel[l]] = 0
      /\ \A d \in Channels : d # channel[l] => linkages'[d] = linkages[d]
  BY <1>1, <1>2 DEF ChannelsType
<1>4. /\ status' \in [Ids -> Alive \cup {"none", "deleted"}] /\ status'[l] = "deleted"
      /\ \A k \in Ids : k # l => status'[k] = status[k]
  BY <1>1 DEF ChannelsType
<1>5. "deleted" \notin Alive
  BY DEF Alive
<1>6. NoDangling'
  <2> SUFFICES ASSUME NEW d \in Channels, linkages'[d] # 0
               PROVE  status'[linkages'[d]] \in Alive /\ channel[linkages'[d]] = d
    BY DEF NoDangling, Registered
  <2>1. d # channel[l] /\ linkages'[d] = linkages[d]
    BY <1>3
  <2>2. status[linkages[d]] \in Alive /\ channel[linkages[d]] = d
    BY <1>1, <2>1 DEF NoDangling, Registered
  <2>3. linkages[d] \in Ids /\ linkages[d] # l
    BY <1>1, <2>1, <2>2, EasyAssumption DEF ChannelsType, Ids
  <2> QED BY <1>4, <2>1, <2>2, <2>3
<1>7. AllReachable' /\ AliveHaveChannels'
  <2> SUFFICES ASSUME NEW k \in Ids, status'[k] \in Alive
               PROVE  linkages'[channel[k]] = k /\ channel[k] \in Channels
    BY DEF AllReachable, AliveHaveChannels
  <2>1. k # l /\ status[k] \in Alive
    BY <1>4, <1>5
  <2>2. linkages[channel[k]] = k /\ channel[k] \in Channels
    BY <1>1, <2>1 DEF AllReachable, AliveHaveChannels
  <2> QED BY <1>2, <1>3, <2>1, <2>2
<1>8. ASSUME NEW S
      PROVE  /\ channel[l] \in S => Cardinality(Of(S)') = Cardinality(Of(S)) - 1 /\ Cardinality(Of(S)) > 0
             /\ channel[l] \notin S => Of(S)' = Of(S)
  <2>1. channel[l] \in S => Of(S)' = Of(S) \ {l} /\ l \in Of(S)
    BY <1>4, <1>5 DEF Of
  <2>2. channel[l] \notin S => Of(S)' = Of(S)
    BY <1>4, <1>5 DEF Of
  <2>3. l \in Of(S) => Cardinality(Of(S) \ {l}) = Cardinality(Of(S)) - 1 /\ Cardinality(Of(S)) # 0
    BY OfFinite, FS_RemoveElement, FS_EmptySet
  <2>4. \A n \in Nat : n # 0 => n > 0
    OBVIOUS
  <2>5. l \in Of(S) => Cardinality(Of(S)) > 0
    BY <2>3, <2>4, OfFinite
  <2> QED BY <2>1, <2>2, <2>3, <2>5, Zenon
<1> QED BY <1>2, <1>3, <1>4, <1>6, <1>7, <1>8

-----------------------------------------------------------------------------
(***************************************************************************)
(* The actions, one after another.                                         *)
(***************************************************************************)

\* Linkages stay, the I/O thread is releasing none or the one it was, and the handlers
\* still match.
LEMMA TablesKeep ==
  ASSUME TablesInv, status' \in [Ids -> Alive \cup {"none", "deleted"}],
         \A l \in Ids : status'[l] \in Alive <=> status[l] \in Alive,
         linkages' = linkages, channel' = channel, incoming' = incoming, outgoing' = outgoing,
         io' = io \/ io' = <<"loop">> \/ \E c \in Channels : io' = <<"failed", c>>,
         infos' \subseteq Out, allocated' \subseteq Channels, allocated \subseteq allocated',
         \A c \in infos' : c \in infos \/ c \in allocated',
         handlers' = infos' \cup {c \in Out : Registered(c)},
         QueuesType'
  PROVE  TablesInv'
<1>1. /\ ChannelsType /\ CountsMatch /\ UsedAllocated /\ ReleasedAlive
  BY DEF TablesInv
<1>2. NoDangling' /\ AllReachable' /\ AliveHaveChannels' /\ \A S : Of(S)' = Of(S)
  BY KeepLinkages
<1>3. ChannelsType'
  BY <1>1 DEF ChannelsType
<1>4. CountsMatch'
  BY <1>1, <1>2 DEF CountsMatch
<1>5. HandlersKept'
  BY DEF HandlersKept, Registered
<1>6. UsedAllocated'
  BY <1>1 DEF UsedAllocated, Registered, ChannelsType
<1>7. ReleasedAlive'
  <2> SUFFICES ASSUME NEW l \in Ids, io' = <<"released", l>> PROVE status'[l] \in Alive
    BY DEF ReleasedAlive
  <2>1. io' = io
    BY IoPlaces
  <2> QED BY <1>1, <2>1 DEF ReleasedAlive
<1> QED BY <1>2, <1>3, <1>4, <1>5, <1>6, <1>7 DEF TablesInv

\* A linkage is made for a channel that was allocated: one connection more is counted, and an
\* outgoing one was remembered.
LEMMA TablesGrow ==
  ASSUME TablesInv, NEW c \in Channels, NEW l \in Ids, NEW s \in Alive,
         status[l] = "none", linkages[c] = 0,
         status' = [status EXCEPT ![l] = s], channel' = [channel EXCEPT ![l] = c],
         linkages' = [linkages EXCEPT ![c] = l],
         incoming' = IF c \in In THEN incoming + 1 ELSE incoming,
         outgoing' = IF c \in Out THEN outgoing + 1 ELSE outgoing,
         c \in Out => c \in infos, c \in allocated', allocated \subseteq allocated',
         allocated' \subseteq Channels, UNCHANGED <<infos, handlers, io>>,
         QueuesType'
  PROVE  TablesInv'
<1>1. ChannelsType /\ CountsMatch /\ HandlersKept /\ UsedAllocated /\ ReleasedAlive
  BY DEF TablesInv
<1>2. /\ NoDangling' /\ AllReachable' /\ AliveHaveChannels'
      /\ linkages' \in [Channels -> 0..MaxLinkages]
      /\ status' \in [Ids -> Alive \cup {"none", "deleted"}]
      /\ channel' \in [Ids -> Channels \cup {0}]
      /\ \A S : /\ c \in S => Cardinality(Of(S)') = Cardinality(Of(S)) + 1
                /\ c \notin S => Of(S)' = Of(S)
  BY MakeLinkage
<1>3. ChannelsType'
  BY <1>1, <1>2 DEF ChannelsType
<1>4. CountsMatch'
  <2>1. incoming' = Cardinality(Of(In)')
    BY <1>1, <1>2 DEF CountsMatch
  <2>2. outgoing' = Cardinality(Of(Out)')
    BY <1>1, <1>2 DEF CountsMatch
  <2> QED BY <2>1, <2>2 DEF CountsMatch
<1>5. l # 0 /\ linkages'[c] = l /\ \A d \in Channels : d # c => linkages'[d] = linkages[d]
  BY <1>1, EasyAssumption DEF ChannelsType, Ids
<1>6. HandlersKept'
  <2>1. Out \subseteq Channels
    BY DEF Channels
  <2>2. \A d \in Out : d \in infos \/ linkages'[d] # 0 <=> d \in infos \/ linkages[d] # 0
    BY <1>5, <2>1
  <2> QED BY <1>1, <2>2 DEF HandlersKept, Registered
<1>7. UsedAllocated'
  BY <1>1, <1>5 DEF UsedAllocated, Registered
<1>8. ReleasedAlive'
  <2>1. \A k \in Ids : status[k] \in Alive => status'[k] \in Alive
    BY <1>1 DEF ChannelsType
  <2> QED BY <1>1, <2>1 DEF ReleasedAlive
<1> QED BY <1>2, <1>3, <1>4, <1>6, <1>7, <1>8 DEF TablesInv

\* Handing a message over, in whichever way.
LEMMA DeliverKeeps ==
  ASSUME TablesInv, NEW c \in Channels, NEW m, NEW hangup \in BOOLEAN, Deliver(c, m, hangup),
         allocated' = allocated, QueuesType'
  PROVE  TablesInv'
<1>1. ChannelsType /\ NoDangling /\ HandlersKept /\ UsedAllocated /\ allocated \subseteq Channels
  BY DEF TablesInv, ChannelsType
<1>2. CASE Registered(c) /\ SendOn(linkages[c], m, hangup)
  <2> DEFINE l == linkages[c]
  <2>1. l \in Ids /\ status[l] \in Alive
    BY <1>1, <1>2, EasyAssumption DEF NoDangling, Registered, ChannelsType, Ids
  <2>2. UNCHANGED <<linkages, infos, handlers, incoming, outgoing, channel, io>>
    BY <1>2 DEF SendOn, registry
  <2>3. status' = [status EXCEPT ![l] = status[l]] \/ status' = [status EXCEPT ![l] = "graceful"]
    BY <1>2 DEF SendOn, Accepts
  <2> HIDE DEF l
  <2>4. /\ status' \in [Ids -> Alive \cup {"none", "deleted"}]
        /\ \A k \in Ids : status'[k] \in Alive <=> status[k] \in Alive
    BY <1>1, <2>1, <2>3 DEF ChannelsType, Alive
  <2>5. handlers' = infos' \cup {d \in Out : Registered(d)} /\ infos' \subseteq Out
    BY <1>1, <2>2 DEF HandlersKept, ChannelsType
  <2> QED BY <1>1, <2>2, <2>4, <2>5, TablesKeep
<1>3. CASE ~Registered(c) /\ c \in infos /\ Reconnected(c, m, hangup)
  <2>1. PICK l \in Ids :
          /\ New(c, l) /\ Accepts(l, "attached", m, hangup)
          /\ linkages' = [linkages EXCEPT ![c] = l] /\ outgoing' = outgoing + 1
          /\ UNCHANGED <<infos, handlers, incoming, io>>
    BY <1>3 DEF Reconnected
  <2>2. PICK s \in Alive : status' = [status EXCEPT ![l] = s]
    BY <2>1 DEF Accepts, Alive
  <2>3. status[l] = "none" /\ channel' = [channel EXCEPT ![l] = c] /\ linkages[c] = 0
    BY <1>3, <2>1 DEF New, Registered
  <2>4. c \in Out /\ c \notin In /\ c \in allocated' /\ allocated \subseteq allocated' /\ allocated' \subseteq Channels
    BY <1>1, <1>3, EasyAssumption DEF ChannelsType, UsedAllocated
  <2>5. /\ incoming' = IF c \in In THEN incoming + 1 ELSE incoming
        /\ outgoing' = IF c \in Out THEN outgoing + 1 ELSE outgoing
        /\ c \in Out => c \in infos
    BY <1>3, <2>1, <2>4
  <2> QED BY <2>1, <2>2, <2>3, <2>4, <2>5, TablesGrow
<1>4. CASE UNCHANGED <<registry, objects>> /\ (io' = io \/ io' = <<"failed", c>>)
  <2>1. UNCHANGED <<linkages, infos, handlers, incoming, outgoing, channel, status>>
    BY <1>4 DEF registry, objects
  <2>2. /\ status' \in [Ids -> Alive \cup {"none", "deleted"}]
        /\ \A k \in Ids : status'[k] \in Alive <=> status[k] \in Alive
    BY <1>1, <2>1 DEF ChannelsType
  <2>3. handlers' = infos' \cup {d \in Out : Registered(d)} /\ infos' \subseteq Out
    BY <1>1, <2>1 DEF HandlersKept, ChannelsType
  <2> QED BY <1>1, <1>4, <2>1, <2>2, <2>3, TablesKeep
<1> QED BY <1>2, <1>3, <1>4 DEF Deliver, ReconnectFailed

\* A command names its channel, and its message the thread that sent it.
LEMMA CommandParts ==
  ASSUME NEW x \in Commands
  PROVE  x[2] \in Channels /\ (x[1] = "send" => x[3][1] \in Senders /\ x[3][2] \in 1..MaxMessages)
  BY DEF Commands

LEMMA SendIsCommand ==
  ASSUME NEW c \in Channels, NEW u \in Senders, NEW n \in 1..MaxMessages
  PROVE  <<"send", c, <<u, n>>>> \in Commands
  BY DEF Commands

LEMMA DisconnectIsCommand ==
  ASSUME NEW c \in Channels
  PROVE  <<"disconnect", c, <<>>>> \in Commands
  BY DEF Commands

\* The steps that leave all tables alone.
LEMMA TablesUnchanged ==
  ASSUME TablesInv, QueuesType',
         UNCHANGED <<linkages, infos, handlers, incoming, outgoing, channel, status, allocated>>,
         io' = io \/ io' = <<"loop">>
  PROVE  TablesInv'
<1>1. /\ status' \in [Ids -> Alive \cup {"none", "deleted"}]
      /\ \A k \in Ids : status'[k] \in Alive <=> status[k] \in Alive
  BY DEF TablesInv, ChannelsType
<1>2. handlers' = infos' \cup {d \in Out : Registered(d)} /\ infos' \subseteq Out /\ allocated' \subseteq Channels
  BY DEF TablesInv, HandlersKept, ChannelsType
<1> QED BY <1>1, <1>2, TablesKeep

\* Threads that are not the I/O thread.
LEMMA UserKeeps ==
  ASSUME TablesInv, NEW u \in Users, Post(u) \/ \E c \in Channels : Send(u, c) \/ Disconnect(u, c)
  PROVE  TablesInv'
<1>1. QueuesType /\ u \in Senders
  BY DEF TablesInv, ChannelsType, Senders
<1>2. /\ UNCHANGED <<linkages, infos, handlers, incoming, outgoing, channel, status, allocated>>
      /\ io' = io
  BY DEF Post, Send, Disconnect, registry, objects
<1>3. QueuesType'
  <2>1. CASE Post(u)
    <3>1. posting[u] \in Commands /\ commands' = Append(commands, posting[u])
          /\ posting' = [posting EXCEPT ![u] = <<>>] /\ count' = count
      BY <1>1, <2>1 DEF Post, QueuesType, history
    <3> QED BY <1>1, <3>1 DEF QueuesType
  <2>2. ASSUME NEW c \in Channels, Send(u, c) PROVE QueuesType'
    <3>1. count[u] + 1 \in 1..MaxMessages /\ count' = [count EXCEPT ![u] = @ + 1] /\ commands' = commands
      BY <1>1, <2>2, EasyAssumption DEF Send, Count, QueuesType
    <3>2. count' \in [Senders -> 0..MaxMessages]
      BY <1>1, <3>1, EasyAssumption DEF QueuesType
    <3>3. <<"send", c, Message(u)>> \in Commands
      BY <1>1, <3>1, SendIsCommand DEF Message
    <3>4. posting' \in [Users -> Commands \cup {<<>>}]
      BY <1>1, <2>2, <3>3 DEF Send, QueuesType
    <3> QED BY <1>1, <3>1, <3>2, <3>4 DEF QueuesType
  <2>3. ASSUME NEW c \in Channels, Disconnect(u, c) PROVE QueuesType'
    <3>1. commands' = Append(commands, <<"disconnect", c, <<>>>>) /\ posting' = posting /\ count' = count
      BY <2>3 DEF Disconnect, history
    <3>2. <<"disconnect", c, <<>>>> \in Commands
      BY DisconnectIsCommand
    <3> QED BY <1>1, <3>1, <3>2 DEF QueuesType
  <2> QED BY <2>1, <2>2, <2>3
<1> QED BY <1>2, <1>3, TablesUnchanged

\* Connect() and Forget(), wherever it is called: the handler goes with the last of the two
\* that need it.
LEMMA RememberKeeps ==
  ASSUME TablesInv,
         \/ \E c \in Out : Connect(c)
         \/ \E c \in Channels : /\ c \in infos /\ DoForget(c)
                                /\ UNCHANGED <<allocated, objects, queues, io, stuck, history>>
  PROVE  TablesInv'
<1>1. ChannelsType /\ HandlersKept
  BY DEF TablesInv
<1>2. UNCHANGED <<linkages, incoming, outgoing, status, channel, commands, posting, count, io>>
  BY DEF Connect, DoForget, objects, queues, history
<1>3. /\ status' \in [Ids -> Alive \cup {"none", "deleted"}]
      /\ \A k \in Ids : status'[k] \in Alive <=> status[k] \in Alive
  BY <1>1, <1>2 DEF ChannelsType
<1>4. QueuesType'
  BY <1>1, <1>2 DEF ChannelsType, QueuesType
<1>5. /\ infos' \subseteq Out /\ allocated' \subseteq Channels /\ allocated \subseteq allocated'
      /\ \A c \in infos' : c \in infos \/ c \in allocated'
      /\ handlers' = infos' \cup {d \in Out : Registered(d)}
  <2>1. ASSUME NEW c \in Out, Connect(c) PROVE <1>5!:
    BY <1>1, <2>1 DEF Connect, ChannelsType, HandlersKept, Channels
  <2>2. ASSUME NEW c \in Channels, c \in infos, DoForget(c), allocated' = allocated PROVE <1>5!:
    BY <1>1, <2>2 DEF DoForget, ChannelsType, HandlersKept
  <2> QED BY <2>1, <2>2
<1> QED BY <1>2, <1>3, <1>4, <1>5, TablesKeep

\* Commands and messages that the I/O thread hands over.
LEMMA IoSendsKeep ==
  ASSUME TablesInv,
         CommandSend \/ (\E c \in Channels : IoSend(c)) \/ \E l \in Ids : ReleasedSend(l)
  PROVE  TablesInv'
<1>1. QueuesType /\ AliveHaveChannels /\ ReleasedAlive
  BY DEF TablesInv, ChannelsType
<1>2. CASE CommandSend
  <2>1. /\ commands # <<>> /\ commands' = Tail(commands) /\ Deliver(Head(commands)[2], Head(commands)[3], TRUE)
        /\ UNCHANGED <<allocated, posting, count>>
    BY <1>2 DEF CommandSend
  <2>2. Head(commands) \in Commands
    BY <1>1, <2>1 DEF QueuesType
  <2>3. Head(commands)[2] \in Channels
    BY <2>2, CommandParts
  <2>4. QueuesType'
    BY <1>1, <2>1 DEF QueuesType
  <2> QED BY <2>1, <2>3, <2>4, DeliverKeeps
<1>3. ASSUME NEW c \in Channels, Count(Io), Deliver(c, Message(Io), FALSE), UNCHANGED <<allocated, queues>>
      PROVE  TablesInv'
  <2>1. count' \in [Senders -> 0..MaxMessages] /\ UNCHANGED <<allocated, commands, posting>>
    <3>1. Io \in Senders
      BY DEF Senders
    <3>2. count[Io] + 1 \in 0..MaxMessages
      BY <1>1, <1>3, <3>1, EasyAssumption DEF Count, QueuesType
    <3> QED BY <1>1, <1>3, <3>1, <3>2 DEF Count, QueuesType, queues
  <2>2. QueuesType'
    BY <1>1, <2>1 DEF QueuesType
  <2> QED BY <1>3, <2>1, <2>2, DeliverKeeps
<1>4. ASSUME NEW c \in Channels, IoSend(c) PROVE TablesInv'
  BY <1>3, <1>4 DEF IoSend
<1>5. ASSUME NEW l \in Ids, ReleasedSend(l) PROVE TablesInv'
  <2>1. channel[l] \in Channels
    BY <1>1, <1>5 DEF ReleasedSend, AliveHaveChannels, ReleasedAlive
  <2> QED BY <1>3, <1>5, <2>1 DEF ReleasedSend
<1> QED BY <1>2, <1>4, <1>5

LEMMA AcceptKeeps ==
  ASSUME TablesInv, NEW c \in In, NEW l \in Ids, Accept(c, l, TRUE)
  PROVE  TablesInv'
<1>1. /\ c \notin allocated /\ allocated' = allocated \cup {c} /\ incoming' = incoming + 1 /\ New(c, l)
      /\ status' = [status EXCEPT ![l] = "attached"] /\ linkages' = [linkages EXCEPT ![c] = l]
      /\ UNCHANGED <<infos, handlers, outgoing, commands, posting, io, count>>
  BY DEF Accept, queues, history
<1>2. /\ c \in Channels /\ c \notin Out /\ linkages[c] = 0 /\ allocated' \subseteq Channels
      /\ QueuesType' /\ "attached" \in Alive
  BY <1>1, EasyAssumption DEF TablesInv, ChannelsType, UsedAllocated, Registered, Channels, Alive, QueuesType
<1>3. status[l] = "none" /\ channel' = [channel EXCEPT ![l] = c]
  BY <1>1 DEF New
<1>4. /\ incoming' = IF c \in In THEN incoming + 1 ELSE incoming
      /\ outgoing' = IF c \in Out THEN outgoing + 1 ELSE outgoing
      /\ c \in Out => c \in infos
      /\ c \in allocated' /\ allocated \subseteq allocated'
  BY <1>1, <1>2
<1> QED BY <1>1, <1>2, <1>3, <1>4, TablesGrow

\* OnCommand() with a DisconnectJob, and the beginning and the end of the release.
LEMMA ReleaseKeeps ==
  ASSUME TablesInv, CommandDisconnect \/ \E l \in Ids : Release(l) \/ ReleaseChannel(l)
  PROVE  TablesInv'
<1>1. /\ ChannelsType /\ QueuesType /\ NoDangling /\ AllReachable /\ CountsMatch /\ HandlersKept
      /\ UsedAllocated /\ AliveHaveChannels /\ ReleasedAlive
  BY DEF TablesInv, ChannelsType
<1>2. CASE CommandDisconnect
  <2>1. /\ commands # <<>> /\ commands' = Tail(commands)
        /\ status' = [l \in Ids |-> IF l = linkages[Head(commands)[2]] /\ status[l] = "attached"
                                    THEN "graceful" ELSE status[l]]
        /\ UNCHANGED <<linkages, infos, handlers, incoming, outgoing, allocated, channel, posting, io, count>>
    BY <1>2 DEF CommandDisconnect, registry, history
  <2>2. /\ status' \in [Ids -> Alive \cup {"none", "deleted"}]
        /\ \A k \in Ids : status'[k] \in Alive <=> status[k] \in Alive
    BY <1>1, <2>1 DEF ChannelsType, Alive
  <2>3. QueuesType'
    BY <1>1, <2>1 DEF QueuesType
  <2>4. handlers' = infos' \cup {d \in Out : Registered(d)} /\ infos' \subseteq Out /\ allocated' \subseteq Channels
    BY <1>1, <2>1 DEF HandlersKept, ChannelsType
  <2> QED BY <2>1, <2>2, <2>3, <2>4, TablesKeep
<1>3. ASSUME NEW l \in Ids, Release(l) PROVE TablesInv'
  <2>1. /\ status[l] \in Alive /\ io' = <<"released", l>>
        /\ UNCHANGED <<linkages, infos, handlers, incoming, outgoing, allocated, channel, status, commands, posting, count>>
    BY <1>3 DEF Release, registry, objects, queues, history
  <2>2. ReleasedAlive'
    BY <2>1, IoPlaces DEF ReleasedAlive
  <2>3. ChannelsType' /\ NoDangling' /\ AllReachable' /\ HandlersKept' /\ UsedAllocated' /\ AliveHaveChannels'
    BY <1>1, <2>1 DEF ChannelsType, QueuesType, NoDangling, AllReachable, HandlersKept, UsedAllocated,
                      AliveHaveChannels, Registered
  <2>4. CountsMatch'
    BY <1>1, <2>1 DEF CountsMatch, Of
  <2> QED BY <2>2, <2>3, <2>4 DEF TablesInv
<1>4. ASSUME NEW l \in Ids, ReleaseChannel(l) PROVE TablesInv'
  <2> DEFINE c == channel[l]
  <2>1. /\ io = <<"released", l>> /\ linkages' = [linkages EXCEPT ![c] = 0]
        /\ status' = [status EXCEPT ![l] = "deleted"] /\ io' = <<"loop">>
        /\ ReleaseCounts(c) /\ handlers' = IF c \in infos THEN handlers ELSE handlers \ {c}
        /\ UNCHANGED <<infos, allocated, channel, commands, posting, count>>
    BY <1>4 DEF ReleaseChannel, ReleaseEntry, ReleaseHandlers, queues, history
  <2>2. status[l] \in Alive
    BY <1>1, <2>1 DEF ReleasedAlive
  <2>3. /\ NoDangling' /\ AllReachable' /\ AliveHaveChannels'
        /\ linkages' \in [Channels -> 0..MaxLinkages]
        /\ status' \in [Ids -> Alive \cup {"none", "deleted"}]
        /\ c \in Channels /\ linkages[c] = l
        /\ \A S : /\ c \in S => Cardinality(Of(S)') = Cardinality(Of(S)) - 1 /\ Cardinality(Of(S)) > 0
                  /\ c \notin S => Of(S)' = Of(S)
    BY <2>1, <2>2, DropLinkage
  <2>4. CountsMatch'
    <3>1. CASE c \in In
      <4>1. c \notin Out /\ incoming' = incoming - 1 /\ outgoing' = outgoing
        BY <2>1, <3>1, EasyAssumption DEF ReleaseCounts
      <4> QED BY <1>1, <2>3, <3>1, <4>1 DEF CountsMatch
    <3>2. CASE c \notin In
      <4>1. c \in Out /\ incoming' = incoming /\ outgoing' = outgoing - 1
        BY <2>1, <2>3, <3>2 DEF ReleaseCounts, Channels
      <4> QED BY <1>1, <2>3, <3>2, <4>1 DEF CountsMatch
    <3> QED BY <3>1, <3>2
  <2>5. linkages'[c] = 0 /\ \A d \in Channels : d # c => linkages'[d] = linkages[d]
    BY <1>1, <2>1, <2>3 DEF ChannelsType
  <2>6. HandlersKept'
    <3>1. Out \subseteq Channels
      BY DEF Channels
    <3>2. l # 0
      BY EasyAssumption DEF Ids
    <3> QED BY <1>1, <2>1, <2>3, <2>5, <3>1, <3>2 DEF HandlersKept, Registered, ChannelsType
  <2>7. ChannelsType'
    BY <1>1, <2>1, <2>3 DEF ChannelsType, QueuesType
  <2>8. UsedAllocated'
    BY <1>1, <2>1, <2>5 DEF UsedAllocated, Registered
  <2>9. ReleasedAlive'
    BY <2>1, IoPlaces DEF ReleasedAlive
  <2> QED BY <2>3, <2>4, <2>6, <2>7, <2>8, <2>9 DEF TablesInv
<1> QED BY <1>2, <1>3, <1>4

\* A connection that is refused, a channel that is not used, and the callbacks of a failure.
LEMMA OtherIoKeeps ==
  ASSUME TablesInv, AcceptRefused \/ FailedReturn \/ FailedCall \/ \E c \in In : AcceptFailed(c)
  PROVE  TablesInv'
<1>1. ChannelsType /\ QueuesType /\ HandlersKept
  BY DEF TablesInv, ChannelsType
<1>2. /\ UNCHANGED <<linkages, infos, handlers, incoming, outgoing, channel, status, commands, posting, count>>
      /\ io' = io \/ io' = <<"loop">>
  BY DEF AcceptRefused, FailedReturn, FailedCall, AcceptFailed, registry, objects, queues, history
<1>3. allocated \subseteq allocated' /\ allocated' \subseteq Channels
  BY <1>1 DEF AcceptRefused, FailedReturn, FailedCall, AcceptFailed, ChannelsType, Channels
<1>4. /\ status' \in [Ids -> Alive \cup {"none", "deleted"}]
      /\ \A k \in Ids : status'[k] \in Alive <=> status[k] \in Alive
      /\ handlers' = infos' \cup {d \in Out : Registered(d)} /\ infos' \subseteq Out
  BY <1>1, <1>2 DEF ChannelsType, HandlersKept
<1>5. QueuesType'
  BY <1>1, <1>2 DEF QueuesType
<1> QED BY <1>2, <1>3, <1>4, <1>5, TablesKeep

LEMMA TablesStep == ASSUME ~Rejects PROVE TablesInv /\ [Next]_vars => TablesInv'
<1> SUFFICES ASSUME TablesInv, [Next]_vars PROVE TablesInv'
  OBVIOUS
<1>1. CASE UNCHANGED vars
  <2>1. QueuesType'
    BY <1>1 DEF vars, TablesInv, ChannelsType, QueuesType
  <2>2. /\ UNCHANGED <<linkages, infos, handlers, incoming, outgoing, channel, status, allocated>>
        /\ io' = io
    BY <1>1 DEF vars
  <2> QED BY <2>1, <2>2, TablesUnchanged
<1>2. ASSUME NEW c \in In, NEW l \in Ids, NEW attached \in IF Rejects THEN BOOLEAN ELSE {TRUE},
             Accept(c, l, attached)
      PROVE  TablesInv'
  <2>1. attached = TRUE
    OBVIOUS
  <2>2. Accept(c, l, TRUE)
    BY <1>2, <2>1
  <2> QED BY <2>2, AcceptKeeps
<1>3. ASSUME NEW l \in Ids, ReleasedForget(l) PROVE TablesInv'
  <2>1. channel[l] \in Channels
    BY <1>3 DEF ReleasedForget, TablesInv, AliveHaveChannels, ReleasedAlive
  <2> QED BY <1>3, <2>1, RememberKeeps DEF ReleasedForget
<1>4. ASSUME NEW u \in Users, NEW c \in Channels, Forget(u, c) PROVE TablesInv'
  BY <1>4, RememberKeeps DEF Forget
<1>5. CASE Next
  BY <1>2, <1>3, <1>4, <1>5, UserKeeps, RememberKeeps, IoSendsKeep, ReleaseKeeps, OtherIoKeeps
     DEF Next, IoStep
<1> QED BY <1>1, <1>5

\* Whatever Connect(), Send(), Disconnect() and Forget() other threads call, and whenever
\* connections come, fail and end: _channel_linkages holds no dangling pointer, reaches every
\* linkage, the numbers of connections are the real ones, and handlers live as long as needed.
THEOREM RegistriesAreSound == ASSUME ~Rejects PROVE Spec => []RegistriesSound
<1>1. TablesInv /\ [Next]_vars => TablesInv'
  BY TablesStep
<1>2. TablesInv => RegistriesSound
  BY DEF TablesInv, RegistriesSound
<1> QED BY <1>1, <1>2, TablesStart, PTL DEF Spec

-----------------------------------------------------------------------------
(***************************************************************************)
(* The order of messages.  A thread numbers what it sends, and a message   *)
(* is handed over, is a command of the queue, or is going to be one: the   *)
(* three come in this order, and among themselves in the order of the      *)
(* numbers.  It goes to the newest linkage of its channel, since the only  *)
(* one that is alive is the one made last.                                 *)
(***************************************************************************)
Messages == Senders \X (1..MaxMessages)
Sends(x) == x[1] = "send"

\* All that s has handed over, as the history says, bears a number below n.
Behind(handed, s, n) ==
  \A l \in Ids : \A i \in DOMAIN handed[l] : handed[l][i][1] = s => handed[l][i][2] < n

SentType == sent \in [Ids -> Seq(Messages)]
NewestAlive ==
  \A k, l \in Ids : status[k] \in Alive /\ status[l] # "none" /\ channel[k] = channel[l] => l <= k
MadeInOrder ==
  \A k, l \in Ids : status[k] = "none" /\ k <= l => status[l] = "none" /\ sent[l] = <<>>

HandedInv == SentType /\ NewestAlive /\ MadeInOrder /\ SentInOrder

CountsAhead == \A s \in Senders : Behind(sent, s, count[s] + 1)
QueueAhead ==
  \A i \in DOMAIN commands : Sends(commands[i]) =>
    /\ commands[i][3][1] \in Users /\ commands[i][3][2] <= count[commands[i][3][1]]
    /\ Behind(sent, commands[i][3][1], commands[i][3][2])
QueueOrdered ==
  \A i, j \in DOMAIN commands :
    i < j /\ Sends(commands[i]) /\ Sends(commands[j]) /\ commands[i][3][1] = commands[j][3][1]
      => commands[i][3][2] < commands[j][3][2]
PostingLast ==
  \A u \in Users : posting[u] # <<>> =>
    /\ Sends(posting[u]) /\ posting[u][3] = <<u, count[u]>> /\ Behind(sent, u, count[u])
    /\ \A i \in DOMAIN commands :
         Sends(commands[i]) /\ commands[i][3][1] = u => commands[i][3][2] < count[u]

NumbersInv == CountsAhead /\ QueueAhead /\ QueueOrdered /\ PostingLast

OrderInv == HandedInv /\ NumbersInv

LEMMA MessageParts ==
  ASSUME NEW m \in Messages
  PROVE  m[1] \in Senders /\ m[2] \in Nat /\ m = <<m[1], m[2]>>
  BY EasyAssumption DEF Messages

LEMMA OrderStart == Init => OrderInv
<1> SUFFICES ASSUME Init PROVE OrderInv
  OBVIOUS
<1>1. /\ sent \in [Ids -> Seq(Messages)] /\ \A l \in Ids : sent[l] = <<>> /\ status[l] = "none"
      /\ commands = <<>> /\ \A u \in Users : posting[u] = <<>>
  BY DEF Init
<1>2. HandedInv
  BY <1>1 DEF HandedInv, SentType, NewestAlive, MadeInOrder, SentInOrder, Alive
<1>3. \A s, n : Behind(sent, s, n)
  BY <1>1 DEF Behind
<1>4. NumbersInv
  BY <1>1, <1>3 DEF NumbersInv, CountsAhead, QueueAhead, QueueOrdered, PostingLast
<1> QED BY <1>2, <1>4 DEF OrderInv

\* A message is appended to what linkage l was given, and no later linkage of its channel
\* was given any.
LEMMA AppendOrdered ==
  ASSUME SentType, SentInOrder, NEW l \in Ids, NEW m \in Messages, Behind(sent, m[1], m[2]),
         sent' = [sent EXCEPT ![l] = Append(@, m)],
         \A k \in Ids : k # l => channel'[k] = channel[k],
         channel'[l] = channel[l] \/ sent[l] = <<>>,
         \A k \in Ids : l < k /\ channel'[k] = channel'[l] => sent[k] = <<>>
  PROVE  /\ SentType' /\ SentInOrder'
         /\ \A s, n : Behind(sent, s, n) /\ (s = m[1] => m[2] < n) => Behind(sent', s, n)
<1>1. /\ sent \in [Ids -> Seq(Messages)] /\ sent[l] \in Seq(Messages)
      /\ sent'[l] = Append(sent[l], m) /\ \A k \in Ids : k # l => sent'[k] = sent[k]
  BY DEF SentType
<1>2. SentType'
  <2>1. Append(sent[l], m) \in Seq(Messages)
    BY <1>1
  <2> QED BY <1>1, <2>1 DEF SentType
<1>3. /\ Len(sent[l]) \in Nat /\ DOMAIN sent[l] = 1..Len(sent[l])
      /\ DOMAIN sent'[l] = 1..(Len(sent[l]) + 1)
      /\ sent'[l][Len(sent[l]) + 1] = m
      /\ \A i \in DOMAIN sent[l] : sent'[l][i] = sent[l][i]
  BY <1>1
<1>4. \A i \in DOMAIN sent'[l] :
        (i \in DOMAIN sent[l] /\ sent'[l][i] = sent[l][i]) \/ (i = Len(sent[l]) + 1 /\ sent'[l][i] = m)
  BY <1>3
<1>5. ASSUME NEW s, NEW n, Behind(sent, s, n), s = m[1] => m[2] < n PROVE Behind(sent', s, n)
  BY <1>1, <1>4, <1>5 DEF Behind
<1>6. SentInOrder'
  <2> SUFFICES ASSUME NEW j \in Ids, NEW k \in Ids, channel'[j] = channel'[k], j <= k,
                      NEW a \in DOMAIN sent'[j], NEW b \in DOMAIN sent'[k],
                      j < k \/ a < b, sent'[j][a][1] = sent'[k][b][1]
               PROVE  sent'[j][a][2] < sent'[k][b][2]
    BY DEF SentInOrder
  <2>1. CASE k = l /\ b = Len(sent[l]) + 1
    <3>1. a \in DOMAIN sent[j] /\ sent'[j][a] = sent[j][a] /\ sent'[k][b] = m
      <4>1. CASE j = l
        BY <1>3, <2>1, <4>1 DEF Ids
      <4>2. CASE j # l
        BY <1>1, <1>3, <2>1, <4>2
      <4> QED BY <4>1, <4>2
    <3> QED BY <3>1 DEF Behind
  <2>2. CASE ~(k = l /\ b = Len(sent[l]) + 1)
    <3>1. b \in DOMAIN sent[k] /\ sent'[k][b] = sent[k][b]
      BY <1>1, <1>4, <2>2
    <3>2. a \in DOMAIN sent[j] /\ sent'[j][a] = sent[j][a]
      <4>1. CASE j # l
        BY <1>1, <4>1
      <4>2. CASE j = l /\ k = l
        <5>1. b \in 1..Len(sent[l]) /\ a < b /\ a \in 1..(Len(sent[l]) + 1)
          BY <1>3, <3>1, <4>2 DEF Ids
        <5>2. a \in 1..Len(sent[l])
          BY <1>3, <5>1
        <5> QED BY <1>3, <4>2, <5>2
      <4>3. CASE j = l /\ k # l
        <5>1. l < k
          BY <4>3 DEF Ids
        <5>2. sent[k] = <<>>
          BY <4>3, <5>1
        <5> QED BY <3>1, <5>2
      <4> QED BY <4>1, <4>2, <4>3
    <3>3. channel[j] = channel[k]
      <4>1. sent[j] # <<>> /\ sent[k] # <<>>
        BY <3>1, <3>2
      <4>2. channel'[l] = channel[l] \/ (j # l /\ k # l)
        BY <4>1
      <4> QED BY <4>2
    <3> QED BY <3>1, <3>2, <3>3 DEF SentInOrder
  <2> QED BY <2>1, <2>2
<1> QED BY <1>2, <1>5, <1>6

\* Nothing is handed over, no linkage is made, and none comes back to life.
LEMMA HandedKept ==
  ASSUME HandedInv, sent' = sent, channel' = channel,
         \A l \in Ids : /\ status'[l] \in Alive => status[l] \in Alive
                        /\ status'[l] = "none" <=> status[l] = "none"
  PROVE  HandedInv' /\ \A s, n : Behind(sent, s, n) => Behind(sent', s, n)
<1>1. SentType' /\ SentInOrder'
  BY DEF HandedInv, SentType, SentInOrder
<1>2. NewestAlive' /\ MadeInOrder'
  BY DEF HandedInv, NewestAlive, MadeInOrder
<1>3. \A s, n : Behind(sent, s, n) => Behind(sent', s, n)
  BY DEF Behind
<1> QED BY <1>1, <1>2, <1>3 DEF HandedInv

\* A linkage that is alive is given a message.
LEMMA HandedGiven ==
  ASSUME HandedInv, NEW l \in Ids, NEW m \in Messages, Behind(sent, m[1], m[2]), status[l] \in Alive,
         sent' = [sent EXCEPT ![l] = Append(@, m)], channel' = channel,
         \A k \in Ids : /\ status'[k] \in Alive => status[k] \in Alive
                        /\ status'[k] = "none" <=> status[k] = "none"
  PROVE  /\ HandedInv'
         /\ \A s, n : Behind(sent, s, n) /\ (s = m[1] => m[2] < n) => Behind(sent', s, n)
<1>1. SentType /\ SentInOrder /\ NewestAlive /\ MadeInOrder /\ "none" \notin Alive
  BY DEF HandedInv, Alive
<1>2. \A k \in Ids : l < k /\ channel[k] = channel[l] => sent[k] = <<>>
  <2> SUFFICES ASSUME NEW k \in Ids, l < k, channel[k] = channel[l] PROVE sent[k] = <<>>
    OBVIOUS
  <2>1. ~(k <= l) /\ k <= k
    BY DEF Ids
  <2>2. status[k] = "none"
    BY <1>1, <2>1 DEF NewestAlive
  <2> QED BY <1>1, <2>1, <2>2 DEF MadeInOrder
<1>3. /\ SentType' /\ SentInOrder'
      /\ \A s, n : Behind(sent, s, n) /\ (s = m[1] => m[2] < n) => Behind(sent', s, n)
  <2>1. /\ \A k \in Ids : k # l => channel'[k] = channel[k]
        /\ channel'[l] = channel[l] \/ sent[l] = <<>>
        /\ \A k \in Ids : l < k /\ channel'[k] = channel'[l] => sent[k] = <<>>
    BY <1>2
  <2> QED BY <1>1, <2>1, AppendOrdered
<1>4. NewestAlive'
  BY <1>1 DEF NewestAlive
<1>5. MadeInOrder'
  <2> SUFFICES ASSUME NEW j \in Ids, NEW k \in Ids, status'[j] = "none", j <= k
               PROVE  status'[k] = "none" /\ sent'[k] = <<>>
    BY DEF MadeInOrder
  <2>1. status[k] = "none" /\ sent[k] = <<>> /\ k # l
    BY <1>1 DEF MadeInOrder
  <2> QED BY <1>1, <2>1 DEF SentType
<1> QED BY <1>3, <1>4, <1>5 DEF HandedInv

\* A linkage l is made for a channel that has none, and may be given a message at once.
LEMMA HandedMade ==
  ASSUME TablesInv, HandedInv, NEW c \in Channels, NEW l \in Ids, NEW m,
         New(c, l), linkages[c] = 0,
         NEW s \in Alive, status' = [status EXCEPT ![l] = s],
         \/ sent' = sent
         \/ m \in Messages /\ Behind(sent, m[1], m[2]) /\ sent' = [sent EXCEPT ![l] = Append(@, m)]
  PROVE  /\ HandedInv'
         /\ \A t, n : Behind(sent, t, n) /\ (t = m[1] => m[2] < n) => Behind(sent', t, n)
<1>1. /\ SentType /\ SentInOrder /\ NewestAlive /\ MadeInOrder /\ "none" \notin Alive
      /\ ChannelsType /\ AllReachable
  BY DEF HandedInv, Alive, TablesInv
<1>2. /\ status[l] = "none" /\ \A k \in Ids : k < l => status[k] # "none"
      /\ channel' = [channel EXCEPT ![l] = c]
  BY DEF New
<1>3. /\ channel'[l] = c /\ \A k \in Ids : k # l => channel'[k] = channel[k]
      /\ status'[l] = s /\ \A k \in Ids : k # l => status'[k] = status[k]
  BY <1>1, <1>2 DEF ChannelsType
<1>4. \A k \in Ids : l <= k => status[k] = "none" /\ sent[k] = <<>>
  BY <1>1, <1>2 DEF MadeInOrder
<1>5. sent[l] = <<>> /\ \A k \in Ids : l < k => sent[k] = <<>>
  BY <1>4 DEF Ids
<1>6. /\ SentType' /\ SentInOrder'
      /\ \A t, n : Behind(sent, t, n) /\ (t = m[1] => m[2] < n) => Behind(sent', t, n)
  <2>1. CASE m \in Messages /\ Behind(sent, m[1], m[2]) /\ sent' = [sent EXCEPT ![l] = Append(@, m)]
    <3>1. /\ channel'[l] = channel[l] \/ sent[l] = <<>>
          /\ \A k \in Ids : l < k /\ channel'[k] = channel'[l] => sent[k] = <<>>
      BY <1>5
    <3> QED BY <1>1, <1>3, <2>1, <3>1, AppendOrdered
  <2>2. CASE sent' = sent
    <3>1. SentType' /\ \A t, n : Behind(sent, t, n) => Behind(sent', t, n)
      BY <1>1, <2>2 DEF SentType, Behind
    <3>2. SentInOrder'
      <4> SUFFICES ASSUME NEW j \in Ids, NEW k \in Ids, channel'[j] = channel'[k], j <= k,
                          NEW a \in DOMAIN sent[j], NEW b \in DOMAIN sent[k],
                          j < k \/ a < b, sent[j][a][1] = sent[k][b][1]
                   PROVE  sent[j][a][2] < sent[k][b][2]
        BY <2>2 DEF SentInOrder
      <4>1. j # l /\ k # l
        BY <1>5
      <4> QED BY <1>1, <1>3, <4>1 DEF SentInOrder
    <3> QED BY <3>1, <3>2
  <2> QED BY <2>1, <2>2
<1>7. NewestAlive'
  <2> SUFFICES ASSUME NEW j \in Ids, NEW k \in Ids, status'[j] \in Alive, status'[k] # "none",
                      channel'[j] = channel'[k]
               PROVE  k <= j
    BY DEF NewestAlive
  <2>1. CASE j = l
    <3>1. k = l \/ ~(l <= k)
      BY <1>3, <1>4
    <3> QED BY <2>1, <3>1 DEF Ids
  <2>2. CASE j # l /\ k = l
    <3>1. status[j] \in Alive /\ channel[j] = c
      BY <1>3, <2>2
    <3>2. linkages[c] = j
      BY <1>1, <3>1 DEF AllReachable
    <3> QED BY <3>2, EasyAssumption DEF Ids
  <2>3. CASE j # l /\ k # l
    BY <1>1, <1>3, <2>3 DEF NewestAlive
  <2> QED BY <2>1, <2>2, <2>3
<1>8. MadeInOrder'
  <2> SUFFICES ASSUME NEW j \in Ids, NEW k \in Ids, status'[j] = "none", j <= k
               PROVE  status'[k] = "none" /\ sent'[k] = <<>>
    BY DEF MadeInOrder
  <2>1. j # l /\ status[j] = "none"
    BY <1>1, <1>3
  <2>2. l < j
    BY <1>2, <2>1 DEF Ids
  <2>3. k # l /\ l <= k
    BY <2>2 DEF Ids
  <2>4. sent'[k] = sent[k]
    BY <2>3, <1>1 DEF SentType
  <2> QED BY <1>3, <1>4, <2>3, <2>4
<1> QED BY <1>6, <1>7, <1>8 DEF HandedInv

\* Handing a message over, in whichever way, keeps the order when nothing that its thread
\* handed over comes after it.
LEMMA DeliverOrdered ==
  ASSUME TablesInv, HandedInv, NEW c \in Channels, NEW m \in Messages, Behind(sent, m[1], m[2]),
         NEW hangup \in BOOLEAN, Deliver(c, m, hangup)
  PROVE  /\ HandedInv'
         /\ \A s, n : Behind(sent, s, n) /\ (s = m[1] => m[2] < n) => Behind(sent', s, n)
<1>1. ChannelsType /\ NoDangling /\ "none" \notin Alive /\ "graceful" \in Alive /\ "attached" \in Alive
  BY DEF TablesInv, Alive
<1>2. CASE Registered(c) /\ SendOn(linkages[c], m, hangup)
  <2> DEFINE l == linkages[c]
  <2>1. l \in Ids /\ status[l] \in Alive
    BY <1>1, <1>2, EasyAssumption DEF NoDangling, Registered, ChannelsType, Ids
  <2>2. /\ channel' = channel
        /\ \/ sent' = [sent EXCEPT ![l] = Append(@, m)] /\ status' = [status EXCEPT ![l] = status[l]]
           \/ sent' = sent /\ status' = [status EXCEPT ![l] = IF hangup THEN "graceful" ELSE status[l]]
    BY <1>2 DEF SendOn, Accepts
  <2>3. \A k \in Ids : /\ status'[k] \in Alive => status[k] \in Alive
                       /\ status'[k] = "none" <=> status[k] = "none"
    BY <1>1, <2>1, <2>2 DEF ChannelsType
  <2>4. CASE sent' = sent
    BY <2>2, <2>3, <2>4, HandedKept
  <2>5. CASE sent' = [sent EXCEPT ![l] = Append(@, m)]
    BY <2>1, <2>2, <2>3, <2>5, HandedGiven
  <2> QED BY <2>2, <2>4, <2>5
<1>3. CASE ~Registered(c) /\ Reconnected(c, m, hangup)
  <2>1. PICK l \in Ids : New(c, l) /\ Accepts(l, "attached", m, hangup)
    BY <1>3 DEF Reconnected
  <2>2. PICK s \in Alive : status' = [status EXCEPT ![l] = s]
    BY <1>1, <2>1 DEF Accepts
  <2>3. \/ sent' = sent
        \/ m \in Messages /\ Behind(sent, m[1], m[2]) /\ sent' = [sent EXCEPT ![l] = Append(@, m)]
    BY <2>1 DEF Accepts
  <2>4. linkages[c] = 0
    BY <1>3 DEF Registered
  <2> QED BY <2>1, <2>2, <2>3, <2>4, HandedMade
<1>4. CASE UNCHANGED <<objects, sent>>
  BY <1>4, HandedKept DEF objects
<1> QED BY <1>2, <1>3, <1>4 DEF Deliver, ReconnectFailed

\* The first command of the queue is handed over.
LEMMA CommandSendOrdered ==
  ASSUME TablesInv, OrderInv, CommandSend
  PROVE  OrderInv'
<1> DEFINE x == Head(commands)
           m == x[3]
<1>1. /\ HandedInv /\ CountsAhead /\ QueueAhead /\ QueueOrdered /\ PostingLast /\ QueuesType
  BY DEF OrderInv, NumbersInv, TablesInv, ChannelsType
<1>2. /\ commands # <<>> /\ Sends(x) /\ commands' = Tail(commands) /\ Deliver(x[2], m, TRUE)
      /\ posting' = posting /\ count' = count
  BY DEF CommandSend, Sends
<1>3. /\ commands \in Seq(Commands) /\ Len(commands) \in Nat /\ 1 \in DOMAIN commands /\ commands[1] = x
      /\ \A i \in DOMAIN commands' : i + 1 \in DOMAIN commands /\ commands'[i] = commands[i + 1] /\ 1 < i + 1
  BY <1>1, <1>2 DEF QueuesType
<1>4. x \in Commands
  BY <1>3
<1>5. x[2] \in Channels /\ m \in Messages
  BY <1>2, <1>4 DEF Commands, Messages, Sends
<1>6. m[1] \in Users /\ m[2] <= count[m[1]] /\ Behind(sent, m[1], m[2])
  BY <1>1, <1>2, <1>3 DEF QueueAhead
<1>7. HandedInv' /\ \A s, n : Behind(sent, s, n) /\ (s = m[1] => m[2] < n) => Behind(sent', s, n)
  <2> HIDE DEF m, x
  <2> QED BY <1>1, <1>2, <1>5, <1>6, DeliverOrdered
<1>8. \A i \in DOMAIN commands' : Sends(commands'[i]) /\ commands'[i][3][1] = m[1] => m[2] < commands'[i][3][2]
  BY <1>1, <1>2, <1>3 DEF QueueOrdered
<1>9. m[2] \in Nat /\ m[1] \in Senders /\ count[m[1]] \in Nat
  BY <1>1, <1>5, MessageParts, EasyAssumption DEF QueuesType
<1> HIDE DEF m, x
<1>10. CountsAhead'
  <2> SUFFICES ASSUME NEW s \in Senders PROVE Behind(sent', s, count[s] + 1)
    BY <1>2 DEF CountsAhead
  <2>1. s = m[1] => m[2] < count[s] + 1
    BY <1>6, <1>9
  <2> QED BY <1>1, <1>7, <2>1 DEF CountsAhead
<1>11. QueueAhead'
  <2> SUFFICES ASSUME NEW i \in DOMAIN commands', Sends(commands'[i])
               PROVE  /\ commands'[i][3][1] \in Users /\ commands'[i][3][2] <= count[commands'[i][3][1]]
                      /\ Behind(sent', commands'[i][3][1], commands'[i][3][2])
    BY <1>2 DEF QueueAhead
  <2>1. /\ commands'[i][3][1] \in Users /\ commands'[i][3][2] <= count[commands'[i][3][1]]
        /\ Behind(sent, commands'[i][3][1], commands'[i][3][2])
    BY <1>1, <1>3 DEF QueueAhead
  <2> QED BY <1>7, <1>8, <2>1
<1>12. QueueOrdered'
  <2> SUFFICES ASSUME NEW i \in DOMAIN commands', NEW j \in DOMAIN commands', i < j,
                      Sends(commands'[i]), Sends(commands'[j]), commands'[i][3][1] = commands'[j][3][1]
               PROVE  commands'[i][3][2] < commands'[j][3][2]
    BY DEF QueueOrdered
  <2>1. i + 1 < j + 1
    BY <1>1, <1>2, <1>3 DEF QueuesType
  <2> QED BY <1>1, <1>3, <2>1 DEF QueueOrdered
<1>13. PostingLast'
  <2> SUFFICES ASSUME NEW u \in Users, posting[u] # <<>>
               PROVE  /\ Sends(posting[u]) /\ posting[u][3] = <<u, count[u]>> /\ Behind(sent', u, count[u])
                      /\ \A i \in DOMAIN commands' :
                           Sends(commands'[i]) /\ commands'[i][3][1] = u => commands'[i][3][2] < count[u]
    BY <1>2 DEF PostingLast
  <2>1. /\ Sends(posting[u]) /\ posting[u][3] = <<u, count[u]>> /\ Behind(sent, u, count[u])
        /\ \A i \in DOMAIN commands :
             Sends(commands[i]) /\ commands[i][3][1] = u => commands[i][3][2] < count[u]
    BY <1>1 DEF PostingLast
  <2>2. u = m[1] => m[2] < count[u]
    BY <1>2, <1>3, <2>1 DEF m
  <2> QED BY <1>3, <1>7, <2>1, <2>2
<1> QED BY <1>7, <1>10, <1>11, <1>12, <1>13 DEF OrderInv, NumbersInv

\* The I/O thread sends, and hands over at once: none of its messages is in the queue.
LEMMA IoSendOrdered ==
  ASSUME TablesInv, OrderInv, NEW c \in Channels, Count(Io), Deliver(c, Message(Io), FALSE),
         UNCHANGED <<commands, posting>>
  PROVE  OrderInv'
<1> DEFINE m == Message(Io)
<1>1. /\ HandedInv /\ CountsAhead /\ QueueAhead /\ QueueOrdered /\ PostingLast /\ QueuesType
  BY DEF OrderInv, NumbersInv, TablesInv, ChannelsType
<1>2. Io \in Senders /\ Users \subseteq Senders /\ Io \notin Users
  BY EasyAssumption DEF Senders
<1>3. /\ count[Io] + 1 \in 1..MaxMessages /\ count[Io] + 1 \in Nat /\ count'[Io] = count[Io] + 1
      /\ \A s \in Senders : s # Io => count'[s] = count[s]
  BY <1>1, <1>2, EasyAssumption DEF Count, QueuesType
<1>4. m \in Messages /\ m[1] = Io /\ m[2] = count[Io] + 1
  BY <1>2, <1>3 DEF Message, Messages
<1>5. Behind(sent, m[1], m[2])
  BY <1>1, <1>2, <1>4 DEF CountsAhead
<1>6. HandedInv' /\ \A s, n : Behind(sent, s, n) /\ (s = m[1] => m[2] < n) => Behind(sent', s, n)
  <2>1. Deliver(c, m, FALSE)
    OBVIOUS
  <2> HIDE DEF m
  <2> QED BY <1>1, <1>4, <1>5, <2>1, DeliverOrdered
<1> HIDE DEF m
<1>7. CountsAhead'
  <2> SUFFICES ASSUME NEW s \in Senders PROVE Behind(sent', s, count'[s] + 1)
    BY DEF CountsAhead
  <2>1. CASE s # Io
    BY <1>1, <1>3, <1>4, <1>6, <2>1 DEF CountsAhead
  <2>2. CASE s = Io
    <3> DEFINE n == count[Io] + 1
    <3>1. n \in Nat /\ n < n + 1 /\ count'[s] + 1 = n + 1 /\ m[2] = n
      BY <1>3, <1>4, <2>2
    <3>2. Behind(sent, Io, n)
      BY <1>4, <1>5
    <3> HIDE DEF n
    <3>3. Behind(sent, Io, n + 1)
      <4>1. SentType
        BY <1>1 DEF HandedInv
      <4>2. \A l \in Ids : \A i \in DOMAIN sent[l] : sent[l][i] \in Messages
        BY <4>1 DEF SentType
      <4>3. \A l \in Ids : \A i \in DOMAIN sent[l] : sent[l][i][2] \in Nat
        BY <4>2, MessageParts
      <4> QED BY <3>1, <3>2, <4>3 DEF Behind
    <3>4. Behind(sent', Io, n + 1)
      BY <1>4, <1>6, <3>1, <3>3
    <3> QED BY <2>2, <3>1, <3>4
  <2> QED BY <2>1, <2>2
<1>8. QueueAhead'
  <2> SUFFICES ASSUME NEW i \in DOMAIN commands, Sends(commands[i])
               PROVE  /\ commands[i][3][1] \in Users /\ commands[i][3][2] <= count'[commands[i][3][1]]
                      /\ Behind(sent', commands[i][3][1], commands[i][3][2])
    BY DEF QueueAhead
  <2>1. /\ commands[i][3][1] \in Users /\ commands[i][3][2] <= count[commands[i][3][1]]
        /\ Behind(sent, commands[i][3][1], commands[i][3][2])
    BY <1>1 DEF QueueAhead
  <2>2. commands[i][3][1] # Io /\ count'[commands[i][3][1]] = count[commands[i][3][1]]
    BY <1>2, <1>3, <2>1
  <2> QED BY <1>4, <1>6, <2>1, <2>2
<1>9. QueueOrdered'
  BY <1>1 DEF QueueOrdered
<1>10. PostingLast'
  <2> SUFFICES ASSUME NEW u \in Users, posting[u] # <<>>
               PROVE  /\ Sends(posting[u]) /\ posting[u][3] = <<u, count'[u]>> /\ Behind(sent', u, count'[u])
                      /\ \A i \in DOMAIN commands :
                           Sends(commands[i]) /\ commands[i][3][1] = u => commands[i][3][2] < count'[u]
    BY DEF PostingLast
  <2>1. count'[u] = count[u] /\ u # Io
    BY <1>2, <1>3
  <2>2. /\ Sends(posting[u]) /\ posting[u][3] = <<u, count[u]>> /\ Behind(sent, u, count[u])
        /\ \A i \in DOMAIN commands :
             Sends(commands[i]) /\ commands[i][3][1] = u => commands[i][3][2] < count[u]
    BY <1>1 DEF PostingLast
  <2> QED BY <1>4, <1>6, <2>1, <2>2
<1> QED BY <1>6, <1>7, <1>8, <1>9, <1>10 DEF OrderInv, NumbersInv

\* Send() of another thread: the message is the last that it numbered, and none of its
\* earlier ones is still to be queued.
LEMMA SendOrdered ==
  ASSUME TablesInv, OrderInv, NEW u \in Users, NEW c \in Channels, Send(u, c)
  PROVE  OrderInv'
<1>1. /\ HandedInv /\ CountsAhead /\ QueueAhead /\ QueueOrdered /\ PostingLast /\ QueuesType
  BY DEF OrderInv, NumbersInv, TablesInv, ChannelsType
<1>2. u \in Senders /\ Users \subseteq Senders
  BY DEF Senders
<1>3. /\ commands' = commands /\ sent' = sent /\ status' = status /\ channel' = channel
      /\ posting[u] = <<>>
      /\ posting' = [posting EXCEPT ![u] = IF Registered(c) \/ c \in infos
                                           THEN <<"send", c, Message(u)>> ELSE <<>>]
      /\ count' = [count EXCEPT ![u] = @ + 1]
  BY DEF Send, Count, objects
<1>4. /\ \A s \in Senders : count[s] \in Nat
      /\ count'[u] = count[u] + 1 /\ \A s \in Senders : s # u => count'[s] = count[s]
  BY <1>1, <1>2, <1>3, EasyAssumption DEF QueuesType
<1>5. /\ posting'[u] = <<>> \/ (Sends(posting'[u]) /\ posting'[u][3] = <<u, count'[u]>>)
      /\ \A t \in Users : t # u => posting'[t] = posting[t]
  BY <1>1, <1>3, <1>4 DEF Sends, Message, QueuesType
<1>6. HandedInv' /\ \A s, n : Behind(sent, s, n) => Behind(sent', s, n)
  BY <1>1, <1>3, HandedKept
<1>7. CountsAhead'
  <2> SUFFICES ASSUME NEW s \in Senders PROVE Behind(sent', s, count'[s] + 1)
    BY DEF CountsAhead
  <2>1. Behind(sent, s, count[s] + 1)
    BY <1>1 DEF CountsAhead
  <2>2. CASE s # u
    BY <1>4, <1>6, <2>1, <2>2
  <2>3. CASE s = u
    <3> DEFINE n == count[u] + 1
    <3>1. n \in Nat /\ n < n + 1 /\ count'[s] + 1 = n + 1
      BY <1>2, <1>4, <2>3
    <3>2. Behind(sent, u, n)
      BY <2>1, <2>3
    <3> HIDE DEF n
    <3>3. \A l \in Ids : \A i \in DOMAIN sent[l] : sent[l][i] \in Messages
      BY <1>1 DEF HandedInv, SentType
    <3>4. \A l \in Ids : \A i \in DOMAIN sent[l] : sent[l][i][2] \in Nat
      BY <3>3, MessageParts
    <3>5. Behind(sent, u, n + 1)
      BY <3>1, <3>2, <3>4 DEF Behind
    <3> QED BY <1>6, <2>3, <3>1, <3>5
  <2> QED BY <2>2, <2>3
<1>8. QueueAhead'
  <2> SUFFICES ASSUME NEW i \in DOMAIN commands, Sends(commands[i])
               PROVE  /\ commands[i][3][1] \in Users /\ commands[i][3][2] <= count'[commands[i][3][1]]
                      /\ Behind(sent', commands[i][3][1], commands[i][3][2])
    BY <1>3 DEF QueueAhead
  <2>1. /\ commands[i][3][1] \in Users /\ commands[i][3][2] <= count[commands[i][3][1]]
        /\ Behind(sent, commands[i][3][1], commands[i][3][2])
    BY <1>1 DEF QueueAhead
  <2>2. commands[i][3][2] \in Nat
    <3>1. commands[i] \in Commands
      BY <1>1 DEF QueuesType
    <3> QED BY <3>1, CommandParts, EasyAssumption DEF Sends
  <2>3. commands[i][3][2] <= count'[commands[i][3][1]]
    BY <1>2, <1>4, <2>1, <2>2
  <2> QED BY <1>6, <2>1, <2>3
<1>9. QueueOrdered'
  BY <1>1, <1>3 DEF QueueOrdered
<1>10. PostingLast'
  <2> SUFFICES ASSUME NEW t \in Users, posting'[t] # <<>>
               PROVE  /\ Sends(posting'[t]) /\ posting'[t][3] = <<t, count'[t]>> /\ Behind(sent', t, count'[t])
                      /\ \A i \in DOMAIN commands :
                           Sends(commands[i]) /\ commands[i][3][1] = t => commands[i][3][2] < count'[t]
    BY <1>3 DEF PostingLast
  <2>1. CASE t # u
    BY <1>1, <1>2, <1>4, <1>5, <1>6, <2>1 DEF PostingLast
  <2>2. CASE t = u
    <3>1. Sends(posting'[t]) /\ posting'[t][3] = <<t, count'[t]>>
      BY <1>5, <2>2
    <3>2. Behind(sent', t, count'[t])
      BY <1>1, <1>2, <1>4, <1>6, <2>2 DEF CountsAhead
    <3>3. ASSUME NEW i \in DOMAIN commands, Sends(commands[i]), commands[i][3][1] = t
          PROVE  commands[i][3][2] < count'[t]
      <4>1. commands[i][3][2] <= count[t]
        BY <1>1, <3>3 DEF QueueAhead
      <4>2. commands[i] \in Commands
        BY <1>1 DEF QueuesType
      <4>3. commands[i][3][2] \in Nat
        BY <3>3, <4>2, CommandParts, EasyAssumption DEF Sends
      <4> QED BY <1>2, <1>4, <2>2, <4>1, <4>3
    <3> QED BY <3>1, <3>2, <3>3
  <2> QED BY <2>1, <2>2
<1> QED BY <1>6, <1>7, <1>8, <1>9, <1>10 DEF OrderInv, NumbersInv

\* A thread queues the command it made: behind all others, its own too.
LEMMA PostOrdered ==
  ASSUME TablesInv, OrderInv, NEW u \in Users, Post(u)
  PROVE  OrderInv'
<1>1. /\ HandedInv /\ CountsAhead /\ QueueAhead /\ QueueOrdered /\ PostingLast /\ QueuesType
  BY DEF OrderInv, NumbersInv, TablesInv, ChannelsType
<1> DEFINE p == posting[u]
<1>2. /\ p # <<>> /\ commands' = Append(commands, p) /\ posting' = [posting EXCEPT ![u] = <<>>]
      /\ sent' = sent /\ status' = status /\ channel' = channel /\ count' = count
  BY DEF Post, objects, history
<1>3. /\ Sends(p) /\ p[3][1] = u /\ p[3][2] = count[u] /\ Behind(sent, u, count[u])
      /\ \A i \in DOMAIN commands :
           Sends(commands[i]) /\ commands[i][3][1] = u => commands[i][3][2] < count[u]
  BY <1>1, <1>2 DEF PostingLast
<1>4. u \in Senders /\ count[u] \in Nat
  BY <1>1, EasyAssumption DEF QueuesType, Senders
<1>5. posting'[u] = <<>> /\ \A t \in Users : t # u => posting'[t] = posting[t]
  BY <1>1, <1>2 DEF QueuesType
<1> HIDE DEF p
<1>6. /\ Len(commands) \in Nat /\ DOMAIN commands = 1..Len(commands)
      /\ DOMAIN commands' = 1..(Len(commands) + 1) /\ commands'[Len(commands) + 1] = p
      /\ \A i \in DOMAIN commands : commands'[i] = commands[i]
  BY <1>1, <1>2 DEF QueuesType
<1>7. \A i \in DOMAIN commands' :
        (i \in DOMAIN commands /\ commands'[i] = commands[i]) \/ (i = Len(commands) + 1 /\ commands'[i] = p)
  BY <1>6
<1>8. HandedInv'
  BY <1>1, <1>2, HandedKept
<1>9. CountsAhead'
  BY <1>1, <1>2 DEF CountsAhead
<1>10. QueueAhead'
  <2> SUFFICES ASSUME NEW i \in DOMAIN commands', Sends(commands'[i])
               PROVE  /\ commands'[i][3][1] \in Users /\ commands'[i][3][2] <= count[commands'[i][3][1]]
                      /\ Behind(sent, commands'[i][3][1], commands'[i][3][2])
    BY <1>2 DEF QueueAhead
  <2>1. CASE i \in DOMAIN commands /\ commands'[i] = commands[i]
    BY <1>1, <2>1 DEF QueueAhead
  <2>2. CASE commands'[i] = p
    BY <1>3, <1>4, <2>2
  <2> QED BY <1>7, <2>1, <2>2
<1>11. QueueOrdered'
  <2> SUFFICES ASSUME NEW i \in DOMAIN commands', NEW j \in DOMAIN commands', i < j,
                      Sends(commands'[i]), Sends(commands'[j]), commands'[i][3][1] = commands'[j][3][1]
               PROVE  commands'[i][3][2] < commands'[j][3][2]
    BY DEF QueueOrdered
  <2>1. i \in DOMAIN commands /\ commands'[i] = commands[i]
    BY <1>6
  <2>2. CASE j \in DOMAIN commands /\ commands'[j] = commands[j]
    BY <1>1, <2>1, <2>2 DEF QueueOrdered
  <2>3. CASE commands'[j] = p
    BY <1>3, <2>1, <2>3
  <2> QED BY <1>7, <2>2, <2>3
<1>12. PostingLast'
  <2> SUFFICES ASSUME NEW t \in Users, posting'[t] # <<>>
               PROVE  /\ Sends(posting'[t]) /\ posting'[t][3] = <<t, count[t]>> /\ Behind(sent, t, count[t])
                      /\ \A i \in DOMAIN commands' :
                           Sends(commands'[i]) /\ commands'[i][3][1] = t => commands'[i][3][2] < count[t]
    BY <1>2 DEF PostingLast
  <2>1. t # u /\ posting'[t] = posting[t]
    BY <1>5
  <2>2. /\ Sends(posting[t]) /\ posting[t][3] = <<t, count[t]>> /\ Behind(sent, t, count[t])
        /\ \A i \in DOMAIN commands :
             Sends(commands[i]) /\ commands[i][3][1] = t => commands[i][3][2] < count[t]
    BY <1>1, <2>1 DEF PostingLast
  <2> QED BY <1>3, <1>7, <2>1, <2>2
<1> QED BY <1>8, <1>9, <1>10, <1>11, <1>12 DEF OrderInv, NumbersInv

\* What is neither sent nor queued does not matter: Disconnect() and its command, Connect(),
\* Forget() and callbacks.
LEMMA NumbersKept ==
  ASSUME NumbersInv, sent' = sent, posting' = posting, count' = count,
         \A i \in DOMAIN commands' : Sends(commands'[i]) =>
           i \in DOMAIN commands /\ commands'[i] = commands[i]
  PROVE  NumbersInv'
<1>1. CountsAhead' /\ QueueAhead'
  BY DEF NumbersInv, CountsAhead, QueueAhead
<1>2. QueueOrdered' /\ PostingLast'
  BY DEF NumbersInv, QueueOrdered, PostingLast
<1> QED BY <1>1, <1>2 DEF NumbersInv

\* A DisconnectJob is taken from the queue: the rest of it stays in order.
LEMMA CommandDisconnectOrdered ==
  ASSUME TablesInv, OrderInv, CommandDisconnect
  PROVE  OrderInv'
<1>1. /\ HandedInv /\ CountsAhead /\ QueueAhead /\ QueueOrdered /\ PostingLast /\ QueuesType /\ ChannelsType
  BY DEF OrderInv, NumbersInv, TablesInv, ChannelsType
<1>2. /\ commands # <<>> /\ commands' = Tail(commands)
      /\ status' = [l \in Ids |-> IF l = linkages[Head(commands)[2]] /\ status[l] = "attached"
                                  THEN "graceful" ELSE status[l]]
      /\ channel' = channel /\ sent' = sent /\ posting' = posting /\ count' = count
  BY DEF CommandDisconnect, history
<1>3. /\ \A i \in DOMAIN commands' : i + 1 \in DOMAIN commands /\ commands'[i] = commands[i + 1]
      /\ \A i, j \in DOMAIN commands' : i < j => i + 1 < j + 1
  BY <1>1, <1>2 DEF QueuesType
<1>4. HandedInv'
  <2>1. \A l \in Ids : /\ status'[l] \in Alive => status[l] \in Alive
                       /\ status'[l] = "none" <=> status[l] = "none"
    BY <1>2 DEF Alive
  <2> QED BY <1>1, <1>2, <2>1, HandedKept
<1>5. CountsAhead' /\ QueueAhead'
  BY <1>1, <1>2, <1>3 DEF CountsAhead, QueueAhead
<1>6. QueueOrdered'
  BY <1>1, <1>3 DEF QueueOrdered
<1>7. PostingLast'
  BY <1>1, <1>2, <1>3 DEF PostingLast
<1> QED BY <1>4, <1>5, <1>6, <1>7 DEF OrderInv, NumbersInv

\* An incoming connection: its linkage was given nothing.
LEMMA AcceptOrdered ==
  ASSUME TablesInv, OrderInv, NEW c \in In, NEW l \in Ids, Accept(c, l, TRUE)
  PROVE  OrderInv'
<1>1. /\ New(c, l) /\ status' = [status EXCEPT ![l] = "attached"] /\ sent' = sent
      /\ UNCHANGED <<commands, posting, count>>
  BY DEF Accept, queues, history
<1>2. c \in Channels /\ linkages[c] = 0 /\ "attached" \in Alive
  BY DEF Accept, TablesInv, UsedAllocated, Registered, Channels, Alive
<1>3. NumbersInv'
  BY <1>1, NumbersKept DEF OrderInv
<1>4. HandedInv'
  BY <1>1, <1>2, HandedMade DEF OrderInv
<1> QED BY <1>3, <1>4 DEF OrderInv

\* The steps that hand nothing over and queue no message.
LEMMA OthersOrdered ==
  ASSUME TablesInv, OrderInv, sent' = sent, posting' = posting, count' = count,
         \A i \in DOMAIN commands' : Sends(commands'[i]) =>
           i \in DOMAIN commands /\ commands'[i] = commands[i],
         channel' = channel,
         status' = status \/ \E l \in Ids : status[l] \in Alive /\ status' = [status EXCEPT ![l] = "deleted"]
  PROVE  OrderInv'
<1>1. \A l \in Ids : /\ status'[l] \in Alive => status[l] \in Alive
                     /\ status'[l] = "none" <=> status[l] = "none"
  BY DEF TablesInv, ChannelsType, Alive
<1>2. HandedInv'
  BY <1>1, HandedKept DEF OrderInv
<1>3. NumbersInv'
  BY NumbersKept DEF OrderInv
<1> QED BY <1>2, <1>3 DEF OrderInv

LEMMA OrderStep == ASSUME ~Rejects PROVE TablesInv /\ OrderInv /\ [Next]_vars => OrderInv'
<1> SUFFICES ASSUME TablesInv, OrderInv, [Next]_vars PROVE OrderInv'
  OBVIOUS
<1>1. ASSUME UNCHANGED <<sent, posting, count, commands, channel, status>> PROVE OrderInv'
  BY <1>1, OthersOrdered
<1>2. CASE UNCHANGED vars
  BY <1>1, <1>2 DEF vars
<1>3. CASE \E c \in Out : Connect(c)
  BY <1>1, <1>3 DEF Connect, objects, queues, history
<1>4. CASE AcceptRefused \/ FailedReturn \/ FailedCall \/ \E c \in In : AcceptFailed(c)
  BY <1>1, <1>4 DEF AcceptRefused, FailedReturn, FailedCall, AcceptFailed, objects, queues, history
<1>5. ASSUME NEW c \in In, NEW l \in Ids, NEW attached \in IF Rejects THEN BOOLEAN ELSE {TRUE},
             Accept(c, l, attached)
      PROVE  OrderInv'
  <2>1. attached = TRUE
    OBVIOUS
  <2>2. Accept(c, l, TRUE)
    BY <1>5, <2>1
  <2> QED BY <2>2, AcceptOrdered
<1>6. ASSUME NEW l \in Ids, Release(l) \/ ReleasedForget(l) PROVE OrderInv'
  BY <1>1, <1>6 DEF Release, ReleasedForget, objects, queues, history
<1>7. ASSUME NEW l \in Ids, ReleaseChannel(l) PROVE OrderInv'
  <2>1. /\ status[l] \in Alive /\ status' = [status EXCEPT ![l] = "deleted"]
        /\ UNCHANGED <<sent, posting, count, commands, channel>>
    BY <1>7 DEF ReleaseChannel, TablesInv, ReleasedAlive, queues, history
  <2> QED BY <2>1, OthersOrdered
<1>8. ASSUME NEW l \in Ids, ReleasedSend(l) PROVE OrderInv'
  <2>1. channel[l] \in Channels
    BY <1>8 DEF ReleasedSend, TablesInv, AliveHaveChannels, ReleasedAlive
  <2>2. Count(Io) /\ Deliver(channel[l], Message(Io), FALSE) /\ UNCHANGED <<commands, posting>>
    BY <1>8 DEF ReleasedSend, queues
  <2> QED BY <2>1, <2>2, IoSendOrdered
<1>9. ASSUME NEW c \in Channels, IoSend(c) PROVE OrderInv'
  <2>1. Count(Io) /\ Deliver(c, Message(Io), FALSE) /\ UNCHANGED <<commands, posting>>
    BY <1>9 DEF IoSend, queues
  <2> QED BY <2>1, IoSendOrdered
<1>10. ASSUME NEW u \in Users, NEW c \in Channels, Forget(u, c) PROVE OrderInv'
  BY <1>1, <1>10 DEF Forget, objects, queues, history
<1>11. ASSUME NEW u \in Users, NEW c \in Channels, Disconnect(u, c) PROVE OrderInv'
  <2>1. /\ commands' = Append(commands, <<"disconnect", c, <<>>>>)
        /\ UNCHANGED <<sent, posting, count, channel, status>>
    BY <1>11 DEF Disconnect, objects, history
  <2>2. ~Sends(<<"disconnect", c, <<>>>>)
    BY DEF Sends
  <2>3. commands \in Seq(Commands)
    BY DEF TablesInv, ChannelsType, QueuesType
  <2>4. \A i \in DOMAIN commands' : Sends(commands'[i]) =>
          i \in DOMAIN commands /\ commands'[i] = commands[i]
    BY <2>1, <2>2, <2>3
  <2> QED BY <2>1, <2>4, OthersOrdered
<1>12. CASE Next
  BY <1>3, <1>4, <1>5, <1>6, <1>7, <1>8, <1>9, <1>10, <1>11, <1>12, CommandSendOrdered,
     CommandDisconnectOrdered, SendOrdered, PostOrdered
     DEF Next, IoStep
<1> QED BY <1>2, <1>12

\* What one thread sends to one channel is handed to linkages in that order, though Send()
\* queues its command after it released the mutex, connections end and are made again in
\* between, and the I/O thread hands over without queueing.
THEOREM MessagesAreOrdered == ASSUME ~Rejects PROVE Spec => []SentInOrder
<1>1. TablesInv /\ OrderInv /\ [Next]_vars => TablesInv' /\ OrderInv'
  BY TablesStep, OrderStep
<1>2. OrderInv => SentInOrder
  BY DEF OrderInv, HandedInv
<1> QED BY <1>1, <1>2, TablesStart, OrderStart, PTL DEF Spec

-----------------------------------------------------------------------------
(***************************************************************************)
(* EasyStartup, when no listener fails to attach and nobody registers a    *)
(* timer while Shutdown() is under way.  FreedOnce is not inductive: an    *)
(* object is freed once because it is in one place until it is freed, the  *)
(* lists, a worker or a command to one, and it is freed at all because a   *)
(* worker has run every command it was sent when it finds its NULL.        *)
(***************************************************************************)
StartAssumed ==
  /\ ~AttachFails /\ Careful /\ "null" \notin EasyTimers
  /\ Listeners \cap EasyTimers = {} /\ Listeners \cap IoWorkers = {} /\ EasyTimers \cap IoWorkers = {}

StartTyped ==
  /\ stage \in {"idle", "running", "stopping"} /\ stray = FALSE
  /\ held \subseteq Listeners \cup EasyTimers /\ made \subseteq IoWorkers /\ alive \subseteq IoWorkers
  /\ owned \in [IoWorkers -> SUBSET EasyTimers] /\ frees \in [Objects -> 0..1] /\ accepted \subseteq Objects
  /\ timerJobs \in [IoWorkers -> Seq(EasyTimers \cup {"null"})]

\* The workers before, during and after the life of the pool.
PoolStages ==
  /\ stage = "idle" => made = {} /\ alive = {}
  /\ stage = "running" => made = IoWorkers /\ alive = IoWorkers
  /\ \A w \in IoWorkers :
       /\ w \notin alive => owned[w] = {} /\ \A i \in 1..Len(timerJobs[w]) : timerJobs[w][i] = "null"
       /\ \A i \in 1..Len(timerJobs[w]) : timerJobs[w][i] = "null" => stage = "stopping" /\ i = Len(timerJobs[w])

\* Timer t is registered in worker w, or is on its way to it.
Sent(t, w) == \E i \in 1..Len(timerJobs[w]) : timerJobs[w][i] = t
With(t, w) == t \in owned[w] \/ Sent(t, w)

OnePlace ==
  /\ \A t \in EasyTimers, w \in IoWorkers : With(t, w) => t \notin held
  /\ \A t \in EasyTimers, w, u \in IoWorkers : With(t, w) /\ With(t, u) => w = u
  /\ \A t \in EasyTimers, w \in IoWorkers : ~(t \in owned[w] /\ Sent(t, w))
  /\ \A w \in IoWorkers : \A i, k \in 1..Len(timerJobs[w]) : timerJobs[w][i] = timerJobs[w][k] => i = k

Present(o) == o \in held \/ o \in alive \/ \E w \in IoWorkers : o \in EasyTimers /\ With(o, w)
Accounted ==
  \A o \in Objects : /\ Present(o) => o \in accepted /\ frees[o] = 0
                     /\ o \in accepted /\ ~Present(o) => frees[o] = 1
                     /\ o \notin accepted => frees[o] = 0

StartInv == StartTyped /\ PoolStages /\ OnePlace /\ Accounted

LEMMA StartHas ==
  ASSUME StartInv
  PROVE  /\ stage \in {"idle", "running", "stopping"} /\ stray = FALSE
         /\ held \subseteq Listeners \cup EasyTimers /\ made \subseteq IoWorkers /\ alive \subseteq IoWorkers
         /\ owned \in [IoWorkers -> SUBSET EasyTimers] /\ frees \in [Objects -> 0..1] /\ accepted \subseteq Objects
         /\ timerJobs \in [IoWorkers -> Seq(EasyTimers \cup {"null"})]
         /\ PoolStages /\ OnePlace /\ Accounted
BY DEF StartInv, StartTyped

\* Free(): what was not freed yet is freed now, once.
LEMMA FreeDoes ==
  ASSUME StartInv, NEW gone \in SUBSET Objects, \A o \in gone : frees[o] = 0, Free(gone)
  PROVE  frees' \in [Objects -> 0..1] /\ \A o \in Objects : frees'[o] = IF o \in gone THEN 1 ELSE frees[o]
<1>1. frees \in [Objects -> 0..1] /\ \A o \in Objects : frees[o] \in 0..1
  BY StartHas
<1>2. frees' = [o \in Objects |-> frees[o] + (IF o \in gone THEN 1 ELSE 0)]
  BY DEF Free
<1>3. \A o \in Objects : frees'[o] = frees[o] + (IF o \in gone THEN 1 ELSE 0)
  BY <1>2
<1>4. \A o \in Objects : frees'[o] = IF o \in gone THEN 1 ELSE frees[o]
  BY <1>1, <1>3
<1>5. \A o \in Objects : frees'[o] \in 0..1
  BY <1>1, <1>4
<1> QED BY <1>2, <1>4, <1>5

\* Objects are accounted for when some are taken and what is freed is present no more.
LEMMA AccountKept ==
  ASSUME StartInv, NEW fresh \in SUBSET Objects, NEW gone \in SUBSET Objects,
         fresh \cap accepted = {}, accepted' = accepted \cup fresh,
         \A o \in Objects : frees'[o] = IF o \in gone THEN 1 ELSE frees[o],
         \A o \in gone : Present(o) \/ o \in fresh,
         \A o \in Objects : Present(o)' <=> (Present(o) \/ o \in fresh) /\ o \notin gone
  PROVE  Accounted'
<1>1. Accounted
  BY StartHas
<1>2. ASSUME NEW o \in Objects
      PROVE  /\ Present(o)' => o \in accepted' /\ frees'[o] = 0
             /\ o \in accepted' /\ ~Present(o)' => frees'[o] = 1
             /\ o \notin accepted' => frees'[o] = 0
  BY <1>1, <1>2 DEF Accounted
<1> QED BY <1>2 DEF Accounted

LEMMA AccountMore ==
  ASSUME StartInv, NEW fresh \in Objects, fresh \notin accepted, accepted' = accepted \cup {fresh}, frees' = frees,
         \A o \in Objects : Present(o)' <=> Present(o) \/ o = fresh
  PROVE  Accounted'
<1>1. Accounted
  BY StartHas
<1> QED BY <1>1 DEF Accounted

\* The workers' timers and commands are as they were.
LEMMA WorkersStay ==
  ASSUME owned' = owned, timerJobs' = timerJobs
  PROVE  \A t, w : (Sent(t, w)' <=> Sent(t, w)) /\ (With(t, w)' <=> With(t, w))
BY DEF Sent, With

\* A timer nobody has given to the server is nowhere.
LEMMA FreshNowhere ==
  ASSUME StartInv, NEW o \in Objects, o \notin accepted
  PROVE  o \notin held /\ o \notin alive /\ (o \in EasyTimers => \A w \in IoWorkers : ~With(o, w))
BY StartHas DEF Accounted, Present

LEMMA StartKinds ==
  ASSUME StartAssumed
  PROVE  /\ \A l \in Listeners : l \in Objects /\ l \notin EasyTimers /\ l \notin IoWorkers
         /\ \A t \in EasyTimers : t \in Objects /\ t \notin Listeners /\ t \notin IoWorkers /\ t # "null"
         /\ \A w \in IoWorkers : w \in Objects /\ w \notin Listeners /\ w \notin EasyTimers
BY DEF StartAssumed, Objects

-----------------------------------------------------------------------------
LEMMA ListenKeeps ==
  ASSUME StartInv, StartAssumed, NEW l \in Listeners, EasyListen(l)
  PROVE  StartInv'
<1>1. /\ l \notin accepted /\ accepted' = accepted \cup {l}
      /\ \/ held' = held \cup {l} /\ frees' = frees
         \/ Free({l}) /\ held' = held
      /\ stage' = stage /\ made' = made /\ owned' = owned /\ alive' = alive /\ timerJobs' = timerJobs /\ stray' = stray
  BY DEF EasyListen
<1>2. \A t, w : (Sent(t, w)' <=> Sent(t, w)) /\ (With(t, w)' <=> With(t, w))
  BY <1>1, WorkersStay
<1>3. l \in Objects /\ l \notin EasyTimers /\ l \notin IoWorkers /\ l \notin alive /\ l \notin held
  BY <1>1, StartKinds, StartHas, FreshNowhere
<1>4. frees[l] = 0
  BY <1>1, <1>3, StartHas DEF Accounted
<1>5. frees' \in [Objects -> 0..1]
  <2>1. CASE frees' = frees
    BY <2>1, StartHas
  <2>2. CASE Free({l})
    BY <1>3, <1>4, <2>2, FreeDoes
  <2> QED BY <1>1, <2>1, <2>2
<1>6. StartTyped'
  <2>1. held' \subseteq Listeners \cup EasyTimers /\ accepted' \subseteq Objects
    BY <1>1, <1>3, StartHas
  <2> QED BY <1>1, <1>5, <2>1, StartHas DEF StartTyped
<1>7. PoolStages'
  BY <1>1, StartHas DEF PoolStages
<1>8. OnePlace'
  <2>1. \A t \in EasyTimers : t \in held' <=> t \in held
    BY <1>1, <1>3
  <2>2. OnePlace
    BY StartHas
  <2> QED BY <1>1, <1>2, <2>1, <2>2 DEF OnePlace
<1>9. Accounted'
  <2>1. \A o \in Objects : Present(o) <=> o \in held \/ o \in alive \/ \E w \in IoWorkers : o \in EasyTimers /\ With(o, w)
    BY DEF Present
  <2>2. \A o \in Objects : Present(o)' <=> o \in held' \/ o \in alive \/ \E w \in IoWorkers : o \in EasyTimers /\ With(o, w)
    BY <1>1, <1>2 DEF Present
  <2>3. ~Present(l)
    BY <1>3, <2>1
  <2>4. CASE held' = held \cup {l} /\ frees' = frees
    <3>1. \A o \in Objects : Present(o)' <=> Present(o) \/ o = l
      BY <2>1, <2>2, <2>4
    <3> QED BY <1>1, <1>3, <2>4, <3>1, AccountMore
  <2>5. CASE Free({l}) /\ held' = held
    <3>1. \A o \in Objects : frees'[o] = IF o \in {l} THEN 1 ELSE frees[o]
      BY <1>3, <1>4, <2>5, FreeDoes
    <3>2. \A o \in Objects : Present(o)' <=> (Present(o) \/ o \in {l}) /\ o \notin {l}
      BY <2>1, <2>2, <2>3, <2>5
    <3> QED BY <1>1, <1>3, <3>1, <3>2, AccountKept
  <2> QED BY <1>1, <2>4, <2>5
<1> QED BY <1>6, <1>7, <1>8, <1>9 DEF StartInv

-----------------------------------------------------------------------------
\* RegisterTimer() before Initialize(), in the worker, and by a command.
LEMMA RegisterHeldKeeps ==
  ASSUME StartInv, StartAssumed, NEW t \in EasyTimers, t \notin accepted, accepted' = accepted \cup {t},
         held' = held \cup {t}, made' = made, owned' = owned, alive' = alive,
         timerJobs' = timerJobs, stray' = stray, stage' = stage, frees' = frees
  PROVE  StartInv'
<1>1. \A x, w : (Sent(x, w)' <=> Sent(x, w)) /\ (With(x, w)' <=> With(x, w))
  BY WorkersStay
<1>2. t \in Objects /\ t \notin held /\ t \notin alive /\ \A w \in IoWorkers : ~With(t, w)
  BY StartKinds, FreshNowhere
<1>3. StartTyped'
  <2>1. held' \subseteq Listeners \cup EasyTimers /\ accepted' \subseteq Objects
    BY <1>2, StartHas
  <2> QED BY <2>1, StartHas DEF StartTyped
<1>4. PoolStages'
  BY StartHas DEF PoolStages
<1>5. OnePlace'
  <2>1. OnePlace
    BY StartHas
  <2>2. \A x \in EasyTimers, w \in IoWorkers : With(x, w) => x \notin held'
    BY <1>2, <2>1 DEF OnePlace
  <2> QED BY <1>1, <2>1, <2>2 DEF OnePlace
<1>6. Accounted'
  <2>1. \A o \in Objects : Present(o)' <=> Present(o) \/ o = t
    BY <1>1 DEF Present
  <2> QED BY <1>2, <2>1, AccountMore
<1> QED BY <1>3, <1>4, <1>5, <1>6 DEF StartInv

LEMMA RegisterOwnedKeeps ==
  ASSUME StartInv, StartAssumed, NEW t \in EasyTimers, t \notin accepted, accepted' = accepted \cup {t},
         NEW w \in IoWorkers, w \in alive, owned' = [owned EXCEPT ![w] = @ \cup {t}],
         held' = held, made' = made, alive' = alive,
         timerJobs' = timerJobs, stray' = stray, stage' = stage, frees' = frees
  PROVE  StartInv'
<1>1. /\ owned' \in [IoWorkers -> SUBSET EasyTimers]
      /\ \A u \in IoWorkers : owned'[u] = IF u = w THEN owned[u] \cup {t} ELSE owned[u]
  BY StartHas
<1>2. t \in Objects /\ t \notin held /\ t \notin alive /\ \A u \in IoWorkers : ~With(t, u)
  BY StartKinds, FreshNowhere
<1>3. \A x, u : Sent(x, u)' <=> Sent(x, u)
  BY DEF Sent
<1>4. \A x \in EasyTimers, u \in IoWorkers : With(x, u)' <=> With(x, u) \/ (x = t /\ u = w)
  BY <1>1, <1>3 DEF With
<1>5. StartTyped'
  <2>1. accepted' \subseteq Objects
    BY <1>2, StartHas
  <2> QED BY <1>1, <2>1, StartHas DEF StartTyped
<1>6. PoolStages'
  <2>1. \A u \in IoWorkers : u \notin alive => owned'[u] = owned[u]
    BY <1>1
  <2> QED BY <2>1, StartHas DEF PoolStages
<1>7. OnePlace'
  <2>1. OnePlace /\ \A u \in IoWorkers : ~Sent(t, u)
    BY <1>2, StartHas DEF With
  <2>2. \A x \in EasyTimers, u \in IoWorkers : With(x, u)' => x \notin held
    BY <1>2, <1>4, <2>1 DEF OnePlace
  <2>3. \A x \in EasyTimers, u, v \in IoWorkers : With(x, u)' /\ With(x, v)' => u = v
    BY <1>2, <1>4, <2>1 DEF OnePlace
  <2>4. \A x \in EasyTimers, u \in IoWorkers : ~(x \in owned'[u] /\ Sent(x, u)')
    BY <1>1, <1>3, <2>1 DEF OnePlace
  <2> QED BY <2>1, <2>2, <2>3, <2>4 DEF OnePlace
<1>8. Accounted'
  <2>1. \A o \in Objects : Present(o)' <=> Present(o) \/ o = t
    BY <1>4 DEF Present
  <2> QED BY <1>2, <2>1, AccountMore
<1> QED BY <1>5, <1>6, <1>7, <1>8 DEF StartInv

\* The commands of the workers when c is sent to w.
LEMMA CommandSent ==
  ASSUME NEW C, NEW p \in [IoWorkers -> Seq(C)], NEW w \in IoWorkers, NEW c \in C, NEW q,
         q = [p EXCEPT ![w] = Append(@, c)]
  PROVE  /\ q \in [IoWorkers -> Seq(C)] /\ Len(p[w]) \in Nat /\ Len(q[w]) = Len(p[w]) + 1
         /\ q[w][Len(p[w]) + 1] = c /\ \A i \in 1..Len(p[w]) : q[w][i] = p[w][i]
         /\ \A i : i \in 1..Len(q[w]) <=> i \in 1..Len(p[w]) \/ i = Len(p[w]) + 1
         /\ \A u \in IoWorkers : u # w => q[u] = p[u]
<1>1. p[w] \in Seq(C)
  OBVIOUS
<1>2. Append(p[w], c) \in Seq(C) /\ Len(Append(p[w], c)) = Len(p[w]) + 1 /\ Len(p[w]) \in Nat
  BY <1>1
<1>3. Append(p[w], c)[Len(p[w]) + 1] = c /\ \A i \in 1..Len(p[w]) : Append(p[w], c)[i] = p[w][i]
  BY <1>1
<1>4. q[w] = Append(p[w], c) /\ \A u \in IoWorkers : u # w => q[u] = p[u]
  OBVIOUS
<1>5. q \in [IoWorkers -> Seq(C)]
  BY <1>2
<1>6. \A i : i \in 1..(Len(p[w]) + 1) <=> i \in 1..Len(p[w]) \/ i = Len(p[w]) + 1
  BY <1>2
<1> QED BY <1>2, <1>3, <1>4, <1>5, <1>6

LEMMA RegisterSentKeeps ==
  ASSUME StartInv, StartAssumed, NEW t \in EasyTimers, t \notin accepted, accepted' = accepted \cup {t}, stage = "running",
         NEW w \in IoWorkers, timerJobs' = [timerJobs EXCEPT ![w] = Append(@, t)],
         held' = held, made' = made, alive' = alive,
         owned' = owned, stray' = stray, stage' = stage, frees' = frees
  PROVE  StartInv'
<1>1. timerJobs \in [IoWorkers -> Seq(EasyTimers \cup {"null"})] /\ t \in EasyTimers \cup {"null"}
  BY StartHas
<1>2. /\ timerJobs' \in [IoWorkers -> Seq(EasyTimers \cup {"null"})]
      /\ Len(timerJobs[w]) \in Nat /\ Len(timerJobs'[w]) = Len(timerJobs[w]) + 1
      /\ timerJobs'[w][Len(timerJobs[w]) + 1] = t
      /\ \A i \in 1..Len(timerJobs[w]) : timerJobs'[w][i] = timerJobs[w][i]
      /\ \A i : i \in 1..Len(timerJobs'[w]) <=> i \in 1..Len(timerJobs[w]) \/ i = Len(timerJobs[w]) + 1
      /\ \A u \in IoWorkers : u # w => timerJobs'[u] = timerJobs[u]
  BY <1>1, CommandSent
<1>3. t \in Objects /\ t \notin held /\ t \notin alive /\ t # "null" /\ \A u \in IoWorkers : ~With(t, u)
  BY StartKinds, FreshNowhere
<1>4. \A x \in EasyTimers, u \in IoWorkers : Sent(x, u)' <=> Sent(x, u) \/ (x = t /\ u = w)
  <2>1. \A x \in EasyTimers, u \in IoWorkers : u # w => (Sent(x, u)' <=> Sent(x, u))
    BY <1>2 DEF Sent
  <2>2. \A x \in EasyTimers : Sent(x, w)' <=> Sent(x, w) \/ x = t
    BY <1>2 DEF Sent
  <2> QED BY <2>1, <2>2
<1>5. \A x \in EasyTimers, u \in IoWorkers : With(x, u)' <=> With(x, u) \/ (x = t /\ u = w)
  BY <1>4 DEF With
<1>6. StartTyped'
  <2>1. accepted' \subseteq Objects
    BY <1>3, StartHas
  <2> QED BY <1>2, <2>1, StartHas DEF StartTyped
<1>7. PoolStages'
  <2>1. PoolStages /\ alive = IoWorkers
    BY StartHas DEF PoolStages
  <2>2. \A u \in IoWorkers : \A i \in 1..Len(timerJobs[u]) : timerJobs[u][i] # "null"
    BY <2>1 DEF PoolStages
  <2>3. \A u \in IoWorkers : \A i \in 1..Len(timerJobs'[u]) : timerJobs'[u][i] # "null"
    BY <1>2, <1>3, <2>2
  <2> QED BY <2>1, <2>3 DEF PoolStages
<1>8. OnePlace'
  <2>1. OnePlace /\ \A u \in IoWorkers : ~Sent(t, u) /\ t \notin owned[u]
    BY <1>3, StartHas DEF With
  <2>2. \A x \in EasyTimers, u \in IoWorkers : With(x, u)' => x \notin held
    BY <1>3, <1>5, <2>1 DEF OnePlace
  <2>3. \A x \in EasyTimers, u, v \in IoWorkers : With(x, u)' /\ With(x, v)' => u = v
    BY <1>3, <1>5, <2>1 DEF OnePlace
  <2>4. \A x \in EasyTimers, u \in IoWorkers : ~(x \in owned[u] /\ Sent(x, u)')
    BY <1>4, <2>1 DEF OnePlace
  <2>5. ASSUME NEW u \in IoWorkers, NEW i \in 1..Len(timerJobs'[u]), NEW k \in 1..Len(timerJobs'[u]),
               timerJobs'[u][i] = timerJobs'[u][k]
        PROVE  i = k
    <3>1. \A n \in 1..Len(timerJobs[w]) : timerJobs[w][n] # t
      BY <2>1 DEF Sent
    <3>2. \A m, n \in 1..Len(timerJobs[u]) : timerJobs[u][m] = timerJobs[u][n] => m = n
      BY <2>1 DEF OnePlace
    <3>3. CASE u # w
      BY <1>2, <2>5, <3>2, <3>3
    <3>4. CASE u = w
      BY <1>2, <2>5, <3>1, <3>2, <3>4
    <3> QED BY <3>3, <3>4
  <2> QED BY <2>2, <2>3, <2>4, <2>5 DEF OnePlace
<1>9. Accounted'
  <2>1. \A o \in Objects : Present(o)' <=> Present(o) \/ o = t
    BY <1>5 DEF Present
  <2> QED BY <1>3, <2>1, AccountMore
<1> QED BY <1>6, <1>7, <1>8, <1>9 DEF StartInv

LEMMA RegisterTimerKeeps ==
  ASSUME StartInv, StartAssumed, NEW t \in EasyTimers, EasyRegisterTimer(t)
  PROVE  StartInv'
<1>1. /\ t \notin accepted /\ accepted' = accepted \cup {t} /\ stage # "stopping"
      /\ stage' = stage /\ made' = made /\ alive' = alive /\ frees' = frees
  BY DEF EasyRegisterTimer, StartAssumed
<1>2. CASE held' = held \cup {t} /\ owned' = owned /\ timerJobs' = timerJobs /\ stray' = stray
  BY <1>1, <1>2, RegisterHeldKeeps
<1>3. ASSUME NEW w \in made, w \in alive, owned' = [owned EXCEPT ![w] = @ \cup {t}],
             held' = held, timerJobs' = timerJobs, stray' = stray
      PROVE  StartInv'
  BY <1>1, <1>3, StartHas, RegisterOwnedKeeps
<1>4. ASSUME NEW w \in made, timerJobs' = [timerJobs EXCEPT ![w] = Append(@, t)],
             stray' = (stray \/ w \notin alive), held' = held, owned' = owned
      PROVE  StartInv'
  <2>1. stage = "running" /\ w \in IoWorkers /\ w \in alive
    BY <1>1, StartHas DEF PoolStages
  <2>2. stray' = stray
    BY <1>4, <2>1, StartHas
  <2> QED BY <1>1, <1>4, <2>1, <2>2, RegisterSentKeeps
<1> QED BY <1>2, <1>3, <1>4 DEF EasyRegisterTimer

-----------------------------------------------------------------------------
\* The commands of the workers when w has taken its first one.
LEMMA CommandTaken ==
  ASSUME NEW C, NEW p \in [IoWorkers -> Seq(C)], NEW w \in IoWorkers, p[w] # <<>>, NEW q,
         q = [p EXCEPT ![w] = Tail(@)]
  PROVE  /\ Head(p[w]) = p[w][1] /\ Head(p[w]) \in C /\ 1 \in 1..Len(p[w])
         /\ q \in [IoWorkers -> Seq(C)] /\ Len(p[w]) \in Nat /\ Len(q[w]) = Len(p[w]) - 1
         /\ \A i \in 1..Len(q[w]) : q[w][i] = p[w][i + 1] /\ i + 1 \in 1..Len(p[w]) /\ i + 1 # 1
         /\ \A i \in 1..Len(p[w]) : i # 1 => i - 1 \in 1..Len(q[w]) /\ q[w][i - 1] = p[w][i]
         /\ \A u \in IoWorkers : u # w => q[u] = p[u]
<1>1. p[w] \in Seq(C)
  OBVIOUS
<1>2. Head(p[w]) = p[w][1] /\ Head(p[w]) \in C /\ 1 \in 1..Len(p[w])
  BY <1>1
<1>3. Tail(p[w]) \in Seq(C) /\ Len(Tail(p[w])) = Len(p[w]) - 1 /\ Len(p[w]) \in Nat
  BY <1>1
<1>4. \A i \in 1..Len(Tail(p[w])) : Tail(p[w])[i] = p[w][i + 1]
  BY <1>1
<1>5. q[w] = Tail(p[w]) /\ \A u \in IoWorkers : u # w => q[u] = p[u]
  OBVIOUS
<1>6. q \in [IoWorkers -> Seq(C)]
  BY <1>3
<1>7. \A i \in 1..(Len(p[w]) - 1) : i + 1 \in 1..Len(p[w]) /\ i + 1 # 1
  BY <1>3
<1>8. \A i \in 1..Len(p[w]) : i # 1 => i - 1 \in 1..(Len(p[w]) - 1) /\ (i - 1) + 1 = i
  BY <1>3
<1>9. \A i \in 1..Len(p[w]) : i # 1 => Tail(p[w])[i - 1] = p[w][i]
  BY <1>3, <1>4, <1>8
<1> QED BY <1>2, <1>3, <1>4, <1>5, <1>6, <1>7, <1>8, <1>9

LEMMA RunCommandKeeps ==
  ASSUME StartInv, StartAssumed, NEW w \in IoWorkers, RunCommand(w)
  PROVE  StartInv'
<1>1. /\ w \in alive /\ timerJobs[w] # <<>> /\ Head(timerJobs[w]) # "null"
      /\ owned' = [owned EXCEPT ![w] = @ \cup {Head(timerJobs[w])}]
      /\ timerJobs' = [timerJobs EXCEPT ![w] = Tail(@)]
      /\ stage' = stage /\ held' = held /\ made' = made /\ alive' = alive /\ frees' = frees
      /\ accepted' = accepted /\ stray' = stray
  BY DEF RunCommand
<1>2. timerJobs \in [IoWorkers -> Seq(EasyTimers \cup {"null"})]
  BY StartHas
<1>3. /\ Head(timerJobs[w]) = timerJobs[w][1] /\ Head(timerJobs[w]) \in EasyTimers \cup {"null"}
      /\ 1 \in 1..Len(timerJobs[w]) /\ timerJobs' \in [IoWorkers -> Seq(EasyTimers \cup {"null"})]
      /\ Len(timerJobs[w]) \in Nat /\ Len(timerJobs'[w]) = Len(timerJobs[w]) - 1
      /\ \A i \in 1..Len(timerJobs'[w]) : timerJobs'[w][i] = timerJobs[w][i + 1] /\ i + 1 \in 1..Len(timerJobs[w])
                                          /\ i + 1 # 1
      /\ \A i \in 1..Len(timerJobs[w]) : i # 1 => i - 1 \in 1..Len(timerJobs'[w])
                                                  /\ timerJobs'[w][i - 1] = timerJobs[w][i]
      /\ \A u \in IoWorkers : u # w => timerJobs'[u] = timerJobs[u]
  BY <1>1, <1>2, CommandTaken
<1>4. PICK t \in EasyTimers : t = Head(timerJobs[w]) /\ t = timerJobs[w][1]
  BY <1>1, <1>3
<1>5. /\ owned' \in [IoWorkers -> SUBSET EasyTimers]
      /\ \A u \in IoWorkers : owned'[u] = IF u = w THEN owned[u] \cup {t} ELSE owned[u]
  BY <1>1, <1>4, StartHas
<1>6. OnePlace /\ PoolStages
  BY StartHas
<1>7. \A i \in 1..Len(timerJobs[w]) : timerJobs[w][i] = t => i = 1
  BY <1>3, <1>4, <1>6 DEF OnePlace
<1>8. \A x \in EasyTimers, u \in IoWorkers : Sent(x, u)' <=> Sent(x, u) /\ ~(x = t /\ u = w)
  <2>1. \A x \in EasyTimers, u \in IoWorkers : u # w => (Sent(x, u)' <=> Sent(x, u))
    BY <1>3 DEF Sent
  <2>2. ASSUME NEW x \in EasyTimers, Sent(x, w)' PROVE Sent(x, w) /\ x # t
    <3>1. PICK i \in 1..Len(timerJobs'[w]) : timerJobs'[w][i] = x
      BY <2>2 DEF Sent
    <3>2. timerJobs[w][i + 1] = x /\ i + 1 \in 1..Len(timerJobs[w]) /\ i + 1 # 1
      BY <1>3, <3>1
    <3> QED BY <1>7, <3>2 DEF Sent
  <2>3. ASSUME NEW x \in EasyTimers, Sent(x, w), x # t PROVE Sent(x, w)'
    <3>1. PICK i \in 1..Len(timerJobs[w]) : timerJobs[w][i] = x
      BY <2>3 DEF Sent
    <3>2. i # 1
      BY <1>4, <2>3, <3>1
    <3>3. i - 1 \in 1..Len(timerJobs'[w]) /\ timerJobs'[w][i - 1] = x
      BY <1>3, <3>1, <3>2
    <3> QED BY <3>3 DEF Sent
  <2> QED BY <2>1, <2>2, <2>3
<1>9. Sent(t, w)
  BY <1>3, <1>4 DEF Sent
<1>10. \A x \in EasyTimers, u \in IoWorkers : With(x, u)' <=> With(x, u)
  BY <1>5, <1>8, <1>9 DEF With
<1>11. StartTyped'
  BY <1>1, <1>3, <1>5, StartHas DEF StartTyped
<1>12. PoolStages'
  <2>1. \A u \in IoWorkers : u \notin alive => u # w /\ owned'[u] = owned[u] /\ timerJobs'[u] = timerJobs[u]
    BY <1>1, <1>3, <1>5
  <2>2. ASSUME NEW u \in IoWorkers, NEW i \in 1..Len(timerJobs'[u]), timerJobs'[u][i] = "null"
        PROVE  stage = "stopping" /\ i = Len(timerJobs'[u])
    <3>1. CASE u # w
      <4>1. timerJobs'[u] = timerJobs[u]
        BY <1>3, <3>1
      <4> QED BY <1>6, <2>2, <4>1 DEF PoolStages
    <3>2. CASE u = w
      <4>1. timerJobs[w][i + 1] = "null" /\ i + 1 \in 1..Len(timerJobs[w])
        BY <1>3, <2>2, <3>2
      <4>2. stage = "stopping" /\ i + 1 = Len(timerJobs[w])
        BY <1>6, <4>1 DEF PoolStages
      <4> QED BY <1>3, <3>2, <4>2
    <3> QED BY <3>1, <3>2
  <2> QED BY <1>1, <1>6, <2>1, <2>2 DEF PoolStages
<1>13. OnePlace'
  <2>1. \A x \in EasyTimers, u \in IoWorkers : With(x, u)' => x \notin held
    BY <1>6, <1>10 DEF OnePlace
  <2>2. \A x \in EasyTimers, u, v \in IoWorkers : With(x, u)' /\ With(x, v)' => u = v
    BY <1>6, <1>10 DEF OnePlace
  <2>3. \A x \in EasyTimers, u \in IoWorkers : ~(x \in owned'[u] /\ Sent(x, u)')
    BY <1>5, <1>6, <1>8 DEF OnePlace
  <2>4. ASSUME NEW u \in IoWorkers, NEW i \in 1..Len(timerJobs'[u]), NEW k \in 1..Len(timerJobs'[u]),
               timerJobs'[u][i] = timerJobs'[u][k]
        PROVE  i = k
    <3>1. \A m, n \in 1..Len(timerJobs[u]) : timerJobs[u][m] = timerJobs[u][n] => m = n
      BY <1>6 DEF OnePlace
    <3>2. CASE u # w
      BY <1>3, <2>4, <3>1, <3>2
    <3>3. CASE u = w
      <4>1. /\ timerJobs'[w][i] = timerJobs[w][i + 1] /\ i + 1 \in 1..Len(timerJobs[w])
            /\ timerJobs'[w][k] = timerJobs[w][k + 1] /\ k + 1 \in 1..Len(timerJobs[w])
        BY <1>3, <3>3
      <4>2. i + 1 = k + 1
        BY <2>4, <3>1, <3>3, <4>1
      <4> QED BY <1>3, <3>3, <4>2
    <3> QED BY <3>2, <3>3
  <2> QED BY <1>1, <2>1, <2>2, <2>3, <2>4 DEF OnePlace
<1>14. Accounted'
  <2>1. \A o \in Objects : Present(o)' <=> Present(o)
    BY <1>1, <1>10 DEF Present
  <2>2. Accounted
    BY StartHas
  <2> QED BY <1>1, <2>1, <2>2 DEF Accounted
<1> QED BY <1>11, <1>12, <1>13, <1>14 DEF StartInv

-----------------------------------------------------------------------------
LEMMA StartsKeeps ==
  ASSUME StartInv, StartAssumed, Initialize
  PROVE  StartInv'
<1>1. /\ stage = "idle" /\ IoWorkers \cap accepted = {} /\ accepted' = accepted \cup IoWorkers
      /\ held' = held \ EasyTimers /\ made' = IoWorkers /\ alive' = IoWorkers /\ stage' = "running" /\ frees' = frees
      /\ timerJobs' = timerJobs /\ stray' = stray
      /\ \E w \in IoWorkers : owned' = [owned EXCEPT ![w] = @ \cup (held \cap EasyTimers)]
  <2>1. AttachListeners = {TRUE}
    BY DEF AttachListeners, StartAssumed
  <2>2. Starts /\ stage = "idle" /\ IoWorkers \cap accepted = {} /\ timerJobs' = timerJobs /\ stray' = stray
    BY <2>1 DEF Initialize
  <2> QED BY <2>2 DEF Starts
<1>2. PICK w \in IoWorkers : owned' = [owned EXCEPT ![w] = @ \cup (held \cap EasyTimers)]
  BY <1>1
<1>3. /\ made = {} /\ alive = {} /\ \A u \in IoWorkers : owned[u] = {}
      /\ \A u \in IoWorkers : \A i \in 1..Len(timerJobs[u]) : FALSE
  <2>1. made = {} /\ alive = {} /\ PoolStages
    BY <1>1, StartHas DEF PoolStages
  <2>2. \A u \in IoWorkers : owned[u] = {} /\ \A i \in 1..Len(timerJobs[u]) : timerJobs[u][i] = "null"
    BY <2>1 DEF PoolStages
  <2>3. \A u \in IoWorkers : \A i \in 1..Len(timerJobs[u]) : timerJobs[u][i] = "null" => FALSE
    BY <1>1, <2>1 DEF PoolStages
  <2> QED BY <2>1, <2>2, <2>3
<1>4. /\ owned' \in [IoWorkers -> SUBSET EasyTimers]
      /\ \A u \in IoWorkers : owned'[u] = IF u = w THEN held \cap EasyTimers ELSE {}
  BY <1>2, <1>3, StartHas
<1>5. \A x, u : u \in IoWorkers => ~Sent(x, u) /\ ~Sent(x, u)'
  BY <1>1, <1>3 DEF Sent
<1>6. \A x \in EasyTimers, u \in IoWorkers : ~With(x, u) /\ (With(x, u)' <=> u = w /\ x \in held)
  BY <1>3, <1>4, <1>5 DEF With
<1>7. StartTyped'
  <2>1. accepted' \subseteq Objects /\ held' \subseteq Listeners \cup EasyTimers
    BY <1>1, StartHas DEF Objects
  <2> QED BY <1>1, <1>4, <2>1, StartHas DEF StartTyped
<1>8. PoolStages'
  BY <1>1, <1>3 DEF PoolStages
<1>9. OnePlace'
  BY <1>1, <1>3, <1>5, <1>6 DEF OnePlace
<1>10. Accounted'
  <2>1. Accounted
    BY StartHas
  <2>2. ASSUME NEW o \in Objects PROVE Present(o) <=> o \in held
    BY <1>3, <1>6 DEF Present
  <2>3. ASSUME NEW o \in Objects PROVE Present(o)' <=> o \in held \/ o \in IoWorkers
    BY <1>1, <1>6 DEF Present
  <2>4. \A o \in Objects : o \in IoWorkers => o \notin accepted
    BY <1>1
  <2> QED BY <1>1, <2>1, <2>2, <2>3, <2>4 DEF Accounted
<1> QED BY <1>7, <1>8, <1>9, <1>10 DEF StartInv

-----------------------------------------------------------------------------
\* Lists(): nothing is left but what is in the lists, and that is freed.
LEMMA ListsKeeps ==
  ASSUME StartInv, StartAssumed, alive = {}, Lists({}), stage' = "idle", alive' = alive, owned' = owned,
         accepted' = accepted, stray' = stray,
         \A w \in IoWorkers : \A i \in 1..Len(timerJobs'[w]) : FALSE,
         timerJobs' \in [IoWorkers -> Seq(EasyTimers \cup {"null"})]
  PROVE  StartInv'
<1>1. Free(held) /\ held' = {} /\ made' = {}
  <2>1. held \cup {} = held
    OBVIOUS
  <2> QED BY <2>1 DEF Lists
<1>2. \A w \in IoWorkers : owned[w] = {} /\ \A i \in 1..Len(timerJobs[w]) : timerJobs[w][i] = "null"
  BY StartHas DEF PoolStages
<1>3. \A x \in EasyTimers, u \in IoWorkers : ~Sent(x, u) /\ ~Sent(x, u)'
  BY <1>2, StartKinds DEF Sent
<1>4. \A x \in EasyTimers, u \in IoWorkers : ~With(x, u) /\ ~With(x, u)'
  BY <1>2, <1>3 DEF With
<1>5. held \subseteq Objects /\ \A o \in held : frees[o] = 0
  <2>1. held \subseteq Objects
    BY StartHas DEF Objects
  <2> QED BY <2>1, StartHas DEF Accounted, Present
<1>6. frees' \in [Objects -> 0..1] /\ \A o \in Objects : frees'[o] = IF o \in held THEN 1 ELSE frees[o]
  BY <1>1, <1>5, FreeDoes
<1>7. StartTyped'
  BY <1>1, <1>6, StartHas DEF StartTyped
<1>8. PoolStages'
  BY <1>1, <1>2 DEF PoolStages
<1>9. OnePlace'
  BY <1>2, <1>3, <1>4 DEF OnePlace
<1>10. Accounted'
  <2>1. Accounted
    BY StartHas
  <2>2. \A o \in Objects : (Present(o) <=> o \in held) /\ ~Present(o)'
    BY <1>1, <1>4 DEF Present
  <2> QED BY <1>6, <2>1, <2>2 DEF Accounted
<1> QED BY <1>7, <1>8, <1>9, <1>10 DEF StartInv

\* A command to every worker.
LEMMA CommandToAll ==
  ASSUME NEW C, NEW p \in [IoWorkers -> Seq(C)], NEW c \in C, NEW q,
         q = [w \in IoWorkers |-> Append(p[w], c)]
  PROVE  /\ q \in [IoWorkers -> Seq(C)]
         /\ \A w \in IoWorkers :
              /\ Len(p[w]) \in Nat /\ Len(q[w]) = Len(p[w]) + 1 /\ q[w][Len(p[w]) + 1] = c
              /\ \A i \in 1..Len(p[w]) : q[w][i] = p[w][i]
              /\ \A i : i \in 1..Len(q[w]) <=> i \in 1..Len(p[w]) \/ i = Len(p[w]) + 1
<1>1. ASSUME NEW w \in IoWorkers
      PROVE  /\ q[w] \in Seq(C)
             /\ Len(p[w]) \in Nat /\ Len(q[w]) = Len(p[w]) + 1 /\ q[w][Len(p[w]) + 1] = c
             /\ \A i \in 1..Len(p[w]) : q[w][i] = p[w][i]
             /\ \A i : i \in 1..Len(q[w]) <=> i \in 1..Len(p[w]) \/ i = Len(p[w]) + 1
  <2>1. p[w] \in Seq(C) /\ q[w] = Append(p[w], c)
    OBVIOUS
  <2>2. Append(p[w], c) \in Seq(C) /\ Len(Append(p[w], c)) = Len(p[w]) + 1 /\ Len(p[w]) \in Nat
    BY <2>1
  <2>3. Append(p[w], c)[Len(p[w]) + 1] = c /\ \A i \in 1..Len(p[w]) : Append(p[w], c)[i] = p[w][i]
    BY <2>1
  <2>4. \A i : i \in 1..(Len(p[w]) + 1) <=> i \in 1..Len(p[w]) \/ i = Len(p[w]) + 1
    BY <2>2
  <2> QED BY <2>1, <2>2, <2>3, <2>4
<1> QED BY <1>1

LEMMA ServerShutdownKeeps ==
  ASSUME StartInv, StartAssumed, Shutdown
  PROVE  StartInv'
<1>1. owned' = owned /\ alive' = alive /\ accepted' = accepted /\ stray' = stray
  BY DEF Shutdown
<1>2. CASE stage = "idle" /\ Lists({}) /\ stage' = stage /\ timerJobs' = timerJobs
  <2>1. alive = {} /\ PoolStages
    BY <1>2, StartHas DEF PoolStages
  <2>2. \A w \in IoWorkers : \A i \in 1..Len(timerJobs[w]) : timerJobs[w][i] = "null"
    BY <2>1 DEF PoolStages
  <2>3. \A w \in IoWorkers : \A i \in 1..Len(timerJobs[w]) : timerJobs[w][i] # "null"
    BY <1>2, <2>1 DEF PoolStages
  <2>4. timerJobs' \in [IoWorkers -> Seq(EasyTimers \cup {"null"})]
    BY <1>2, StartHas
  <2> QED BY <1>1, <1>2, <2>1, <2>2, <2>3, <2>4, ListsKeeps
<1>3. CASE stage = "running" /\ stage' = "stopping" /\ timerJobs' = Told(made) /\ held' = held /\ made' = made /\ frees' = frees
  <2>1. made = IoWorkers /\ alive = IoWorkers /\ PoolStages /\ OnePlace /\ Accounted
    BY <1>3, StartHas DEF PoolStages
  <2>2. timerJobs' = [w \in IoWorkers |-> Append(timerJobs[w], "null")]
    BY <1>3, <2>1 DEF Told
  <2>3. timerJobs \in [IoWorkers -> Seq(EasyTimers \cup {"null"})] /\ "null" \in EasyTimers \cup {"null"}
    BY StartHas
  <2>4. /\ timerJobs' \in [IoWorkers -> Seq(EasyTimers \cup {"null"})]
        /\ \A w \in IoWorkers :
             /\ Len(timerJobs[w]) \in Nat /\ Len(timerJobs'[w]) = Len(timerJobs[w]) + 1
             /\ timerJobs'[w][Len(timerJobs[w]) + 1] = "null"
             /\ \A i \in 1..Len(timerJobs[w]) : timerJobs'[w][i] = timerJobs[w][i]
             /\ \A i : i \in 1..Len(timerJobs'[w]) <=> i \in 1..Len(timerJobs[w]) \/ i = Len(timerJobs[w]) + 1
    BY <2>2, <2>3, CommandToAll
  <2>5. \A w \in IoWorkers : \A i \in 1..Len(timerJobs[w]) : timerJobs[w][i] # "null"
    BY <1>3, <2>1 DEF PoolStages
  <2>6. \A x \in EasyTimers, w \in IoWorkers : Sent(x, w)' <=> Sent(x, w)
    BY <2>4, StartKinds DEF Sent
  <2>7. \A x \in EasyTimers, w \in IoWorkers : With(x, w)' <=> With(x, w)
    BY <1>1, <2>6 DEF With
  <2>8. StartTyped'
    BY <1>1, <1>3, <2>4, StartHas DEF StartTyped
  <2>9. PoolStages'
    <3>1. \A w \in IoWorkers : \A i \in 1..Len(timerJobs'[w]) : timerJobs'[w][i] = "null" => i = Len(timerJobs'[w])
      BY <2>4, <2>5
    <3> QED BY <1>1, <1>3, <2>1, <3>1 DEF PoolStages
  <2>10. OnePlace'
    <3>1. \A x \in EasyTimers, w \in IoWorkers : With(x, w)' => x \notin held'
      BY <1>3, <2>1, <2>7 DEF OnePlace
    <3>2. \A x \in EasyTimers, w, u \in IoWorkers : With(x, w)' /\ With(x, u)' => w = u
      BY <2>1, <2>7 DEF OnePlace
    <3>3. \A x \in EasyTimers, w \in IoWorkers : ~(x \in owned'[w] /\ Sent(x, w)')
      BY <1>1, <2>1, <2>6 DEF OnePlace
    <3>4. ASSUME NEW w \in IoWorkers, NEW i \in 1..Len(timerJobs'[w]), NEW k \in 1..Len(timerJobs'[w]),
                 timerJobs'[w][i] = timerJobs'[w][k]
          PROVE  i = k
      <4>1. \A m, n \in 1..Len(timerJobs[w]) : timerJobs[w][m] = timerJobs[w][n] => m = n
        BY <2>1 DEF OnePlace
      <4> QED BY <2>4, <2>5, <3>4, <4>1
    <3> QED BY <3>1, <3>2, <3>3, <3>4 DEF OnePlace
  <2>11. Accounted'
    <3>1. \A o \in Objects : Present(o)' <=> Present(o)
      BY <1>1, <1>3, <2>7 DEF Present
    <3> QED BY <1>1, <1>3, <2>1, <3>1 DEF Accounted
  <2> QED BY <2>8, <2>9, <2>10, <2>11 DEF StartInv
<1> QED BY <1>2, <1>3 DEF Shutdown

LEMMA WorkerEndsKeeps ==
  ASSUME StartInv, StartAssumed, NEW w \in IoWorkers, WorkerEnds(w)
  PROVE  StartInv'
<1>1. /\ stage = "stopping" /\ w \in alive /\ timerJobs[w] # <<>> /\ Head(timerJobs[w]) = "null"
      /\ alive' = alive \ {w} /\ Free(owned[w] \cup {w}) /\ owned' = [owned EXCEPT ![w] = {}]
      /\ stage' = stage /\ held' = held /\ made' = made /\ timerJobs' = timerJobs /\ accepted' = accepted /\ stray' = stray
  BY DEF WorkerEnds
<1>2. PoolStages /\ OnePlace /\ Accounted
  BY StartHas
<1>3. /\ owned' \in [IoWorkers -> SUBSET EasyTimers]
      /\ \A u \in IoWorkers : owned'[u] = IF u = w THEN {} ELSE owned[u]
  BY <1>1, StartHas
<1>4. \A i \in 1..Len(timerJobs[w]) : timerJobs[w][i] = "null"
  <2>1. timerJobs[w] \in Seq(EasyTimers \cup {"null"})
    BY StartHas
  <2>2. timerJobs[w][1] = "null" /\ 1 \in 1..Len(timerJobs[w]) /\ Len(timerJobs[w]) \in Nat
    BY <1>1, <2>1
  <2>3. 1 = Len(timerJobs[w])
    BY <1>2, <2>2 DEF PoolStages
  <2> QED BY <2>2, <2>3
<1>5. \A x, u : Sent(x, u)' <=> Sent(x, u)
  BY <1>1 DEF Sent
<1>6. \A x \in EasyTimers : ~Sent(x, w)
  BY <1>4, StartKinds DEF Sent
<1>7. \A x \in EasyTimers, u \in IoWorkers : With(x, u)' <=> With(x, u) /\ u # w
  BY <1>3, <1>5, <1>6 DEF With
<1>8. owned[w] \subseteq EasyTimers /\ w \in Objects /\ w \notin EasyTimers /\ w \notin Listeners
  BY StartHas, StartKinds
<1>9. PICK gone \in SUBSET Objects : gone = owned[w] \cup {w}
  BY <1>8, StartKinds
<1>10. \A o \in gone : Present(o) /\ frees[o] = 0
  <2>1. \A o \in gone : Present(o)
    BY <1>1, <1>8, <1>9 DEF Present, With
  <2> QED BY <1>2, <2>1 DEF Accounted
<1>11. frees' \in [Objects -> 0..1] /\ \A o \in Objects : frees'[o] = IF o \in gone THEN 1 ELSE frees[o]
  BY <1>1, <1>9, <1>10, FreeDoes
<1>12. StartTyped'
  <2>1. alive' \subseteq IoWorkers
    BY <1>1, StartHas
  <2> QED BY <1>1, <1>3, <1>11, <2>1, StartHas DEF StartTyped
<1>13. PoolStages'
  <2>1. ASSUME NEW u \in IoWorkers, u \notin alive'
        PROVE  owned'[u] = {} /\ \A i \in 1..Len(timerJobs'[u]) : timerJobs'[u][i] = "null"
    BY <1>1, <1>2, <1>3, <1>4, <2>1 DEF PoolStages
  <2> QED BY <1>1, <1>2, <2>1 DEF PoolStages
<1>14. OnePlace'
  <2>1. \A x \in EasyTimers, u \in IoWorkers : With(x, u)' => x \notin held'
    BY <1>1, <1>2, <1>7 DEF OnePlace
  <2>2. \A x \in EasyTimers, u, v \in IoWorkers : With(x, u)' /\ With(x, v)' => u = v
    BY <1>2, <1>7 DEF OnePlace
  <2>3. \A x \in EasyTimers, u \in IoWorkers : ~(x \in owned'[u] /\ Sent(x, u)')
    BY <1>2, <1>3, <1>5 DEF OnePlace
  <2> QED BY <1>1, <1>2, <2>1, <2>2, <2>3 DEF OnePlace
<1>15. Accounted'
  <2>1. ASSUME NEW o \in Objects PROVE Present(o)' <=> Present(o) /\ o \notin gone
    <3>1. CASE o \in EasyTimers
      <4>1. o # w /\ o \notin alive /\ o \notin alive' /\ (o \in gone <=> o \in owned[w])
        BY <1>1, <1>8, <1>9, <3>1, StartHas, StartKinds
      <4>2. With(o, w) <=> o \in owned[w]
        BY <1>6, <3>1 DEF With
      <4>3. With(o, w) => o \notin held /\ \A u \in IoWorkers : With(o, u) => u = w
        BY <1>2, <3>1 DEF OnePlace
      <4> QED BY <1>1, <1>7, <3>1, <4>1, <4>2, <4>3 DEF Present
    <3>2. CASE o \notin EasyTimers
      <4>1. o \in gone <=> o = w
        BY <1>8, <1>9, <3>2
      <4>2. w \notin held
        BY <1>8, StartHas
      <4> QED BY <1>1, <3>2, <4>1, <4>2 DEF Present
    <3> QED BY <3>1, <3>2
  <2> QED BY <1>1, <1>2, <1>10, <1>11, <2>1 DEF Accounted
<1> QED BY <1>12, <1>13, <1>14, <1>15 DEF StartInv

LEMMA ShutdownEndsKeeps ==
  ASSUME StartInv, StartAssumed, ShutdownEnds
  PROVE  StartInv'
<1>1. /\ alive = {} /\ stage' = "idle" /\ Lists({}) /\ timerJobs' = [w \in IoWorkers |-> <<>>]
      /\ owned' = owned /\ alive' = alive /\ accepted' = accepted /\ stray' = stray
  BY DEF ShutdownEnds
<1>2. <<>> \in Seq(EasyTimers \cup {"null"}) /\ \A i \in 1..Len(<<>>) : FALSE
  OBVIOUS
<1>3. timerJobs' \in [IoWorkers -> Seq(EasyTimers \cup {"null"})]
  BY <1>1, <1>2
<1>4. \A w \in IoWorkers : \A i \in 1..Len(timerJobs'[w]) : FALSE
  BY <1>1, <1>2
<1> QED BY <1>1, <1>3, <1>4, ListsKeeps

LEMMA StartupStep ==
  ASSUME StartInv, StartAssumed, [StartupNext]_startVars
  PROVE  StartInv'
<1>1. CASE UNCHANGED startVars
  <2>1. /\ stage' = stage /\ held' = held /\ made' = made /\ owned' = owned /\ alive' = alive
        /\ timerJobs' = timerJobs /\ frees' = frees /\ accepted' = accepted /\ stray' = stray
    BY <1>1 DEF startVars
  <2>2. \A t, w : (Sent(t, w)' <=> Sent(t, w)) /\ (With(t, w)' <=> With(t, w))
    BY <2>1, WorkersStay
  <2>3. StartTyped' /\ PoolStages'
    BY <2>1, StartHas DEF StartTyped, PoolStages
  <2>4. OnePlace'
    BY <2>1, <2>2, StartHas DEF OnePlace
  <2>5. \A o \in Objects : Present(o)' <=> Present(o)
    BY <2>1, <2>2 DEF Present
  <2>6. Accounted'
    BY <2>1, <2>5, StartHas DEF Accounted
  <2> QED BY <2>3, <2>4, <2>6 DEF StartInv
<1>2. CASE StartupNext
  BY <1>2, ListenKeeps, RegisterTimerKeeps, RunCommandKeeps, WorkerEndsKeeps, StartsKeeps, ServerShutdownKeeps,
     ShutdownEndsKeeps DEF StartupNext
<1> QED BY <1>1, <1>2

\* Whatever the server has taken is freed, once, after any order of calls, for any number of
\* listeners, timers and workers, if every listener can be attached and no timer is
\* registered while Shutdown() is under way.
THEOREM ObjectsFreedOnce ==
  ASSUME ~AttachFails, Careful, "null" \notin EasyTimers,
         Listeners \cap EasyTimers = {}, Listeners \cap IoWorkers = {}, EasyTimers \cap IoWorkers = {}
  PROVE  StartupSpec => []FreedOnce
<1>1. StartAssumed
  BY DEF StartAssumed
<1>2. StartupInit => StartInv
  <2> SUFFICES ASSUME StartupInit PROVE StartInv
    OBVIOUS
  <2>1. /\ stage = "idle" /\ held = {} /\ made = {} /\ owned = [w \in IoWorkers |-> {}] /\ alive = {}
        /\ timerJobs = [w \in IoWorkers |-> <<>>] /\ frees = [o \in Objects |-> 0] /\ accepted = {} /\ stray = FALSE
    BY DEF StartupInit
  <2>2. <<>> \in Seq(EasyTimers \cup {"null"}) /\ \A i \in 1..Len(<<>>) : FALSE
    OBVIOUS
  <2>3. /\ timerJobs \in [IoWorkers -> Seq(EasyTimers \cup {"null"})] /\ owned \in [IoWorkers -> SUBSET EasyTimers]
        /\ \A w \in IoWorkers : owned[w] = {} /\ \A i \in 1..Len(timerJobs[w]) : FALSE
    BY <2>1, <2>2
  <2>4. frees \in [Objects -> 0..1] /\ \A o \in Objects : frees[o] = 0
    BY <2>1
  <2>5. \A x, w : w \in IoWorkers => ~Sent(x, w) /\ ~With(x, w)
    BY <2>3 DEF Sent, With
  <2>6. StartTyped
    BY <2>1, <2>3, <2>4 DEF StartTyped
  <2>7. PoolStages /\ OnePlace
    BY <2>1, <2>3, <2>5 DEF PoolStages, OnePlace
  <2>8. \A o \in Objects : ~Present(o)
    BY <2>1, <2>5 DEF Present
  <2>9. Accounted
    BY <2>1, <2>4, <2>8 DEF Accounted
  <2> QED BY <2>6, <2>7, <2>9 DEF StartInv
<1>3. StartInv /\ [StartupNext]_startVars => StartInv'
  BY <1>1, StartupStep
<1>4. StartInv => FreedOnce
  <2> SUFFICES ASSUME StartInv PROVE FreedOnce
    OBVIOUS
  <2>1. \A o \in Objects : frees[o] <= 1
    BY StartHas
  <2>2. ASSUME stage = "idle", held = {}, NEW o \in accepted PROVE frees[o] = 1
    <3>1. o \in Objects /\ alive = {} /\ PoolStages /\ Accounted
      BY <2>2, StartHas DEF PoolStages
    <3>2. \A w \in IoWorkers : owned[w] = {} /\ \A i \in 1..Len(timerJobs[w]) : timerJobs[w][i] = "null"
      BY <3>1 DEF PoolStages
    <3>3. \A w \in IoWorkers : \A i \in 1..Len(timerJobs[w]) : timerJobs[w][i] # "null"
      BY <2>2, <3>1 DEF PoolStages
    <3>4. ~Present(o)
      BY <2>2, <3>1, <3>2, <3>3 DEF Present, With, Sent
    <3> QED BY <3>1, <3>4 DEF Accounted
  <2>3. ~stray /\ stage # "aborted"
    BY StartHas
  <2> QED BY <2>1, <2>2, <2>3 DEF FreedOnce
<1> QED BY <1>2, <1>3, <1>4, PTL DEF StartupSpec
=============================================================================
