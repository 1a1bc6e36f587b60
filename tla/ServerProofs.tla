---------------------------- MODULE ServerProofs ----------------------------
(***************************************************************************)
(* Proofs about parts of a server that run by themselves: for any number   *)
(* of interfaces and descriptors no descriptor is lost or shared, for any  *)
(* callers and entries the resolver deletes nothing that is in use, for    *)
(* any commands and linkages the I/O worker is sound, and for any messages *)
(* and reads the receiver of a linkage cuts the stream as the peer meant.  *)
(***************************************************************************)
EXTENDS Interface, Resolver, Worker, LinkageReceiver, FiniteSetTheorems, SequenceTheorems, TLAPS

(***************************************************************************)
(* Interface.  To DescriptorsOwned the inductive invariant adds the types  *)
(* and that an interface with a socket file has a socket, so that Close()  *)
(* removes the file whenever it was made.                                  *)
(***************************************************************************)
IfInv ==
  /\ InterfaceOK /\ DescriptorsOwned
  /\ \A i \in Interfaces : named[i] => fdOf[i] # NoFd

\* No descriptor is negative.
LEMMA FdsApart == NoFd \notin Fds /\ Stale \notin Fds /\ NoFd # Stale
BY InterfaceAssumption DEF NoFd, Stale

\* An interface closes what it has and holds a new descriptor, or one from the caller, or
\* none; if it makes the socket file there is none yet.
LEMMA HoldsKeeps ==
  ASSUME IfInv, NEW i \in Interfaces, NEW fd \in Fds \cup {NoFd}, NEW file \in BOOLEAN,
         NEW r \in {"none", "connecting", "connected", "listening", "shut"},
         Holds(i, fd, r, file), fd \notin Closed(i) \ taken,
         open' = Closed(i) \cup ({fd} \ {NoFd}), taken' = taken \ {fd},
         \/ file /\ fd # NoFd /\ Unlinked(i) = NoFd /\ bound' = fd
         \/ ~file /\ bound' = Unlinked(i),
         UNCHANGED <<linked, life>>
  PROVE  IfInv'
<1> USE FdsApart
<1>1. /\ fdOf' \in [Interfaces -> Fds \cup {NoFd}] /\ fdOf'[i] = fd
      /\ \A j \in Interfaces : j # i => fdOf'[j] = fdOf[j]
  BY DEF IfInv, InterfaceOK, Holds
<1>2. /\ named' \in [Interfaces -> BOOLEAN] /\ named'[i] = file
      /\ \A j \in Interfaces : j # i => named'[j] = named[j]
  BY DEF IfInv, InterfaceOK, Holds
<1>3. InterfaceOK'
  <2>1. role' \in [Interfaces -> {"none", "connecting", "connected", "listening", "shut"}]
    BY DEF IfInv, InterfaceOK, Holds
  <2>2. bound' \in {NoFd, Stale} \cup Fds
    BY DEF IfInv, InterfaceOK, Unlinked
  <2> QED BY <1>1, <1>2, <2>1, <2>2 DEF IfInv, InterfaceOK, Closed
<1>4. taken' \subseteq taken /\ taken \subseteq open /\ linked \subseteq open
      /\ fdOf[i] \notin taken \cup linked /\ taken \cap linked = {}
  BY DEF IfInv, DescriptorsOwned
<1>5. fd \notin linked
  BY <1>4 DEF IfInv, InterfaceOK, Closed
<1>6. \A j \in Interfaces : j # i => fd # fdOf[j] \/ fd = NoFd
  BY <1>4 DEF IfInv, DescriptorsOwned, InterfaceOK, Closed
<1>7. \A j, k \in Interfaces : fdOf'[j] = fdOf'[k] /\ fdOf'[j] # NoFd => j = k
  BY <1>1, <1>6 DEF IfInv, DescriptorsOwned
<1>8. \A j \in Interfaces : fdOf'[j] \notin taken' \cup linked
  BY <1>1, <1>4, <1>5 DEF IfInv, DescriptorsOwned
<1>9. open' = ({fdOf'[j] : j \in Interfaces} \ {NoFd}) \cup taken' \cup linked
  <2>1. ASSUME NEW f \in open'
        PROVE  f \in ({fdOf'[j] : j \in Interfaces} \ {NoFd}) \cup taken' \cup linked
    <3>1. CASE f = fd
      BY <1>1, <1>3, <2>1, <3>1 DEF InterfaceOK
    <3>2. CASE f # fd
      <4>1. f \in open /\ f # fdOf[i]
        BY <2>1, <3>2 DEF Closed
      <4>2. CASE f \in taken \cup linked
        BY <3>2, <4>2
      <4>3. CASE f \notin taken \cup linked
        <5>1. PICK j \in Interfaces : f = fdOf[j] /\ f # NoFd
          BY <4>1, <4>3 DEF IfInv, DescriptorsOwned
        <5> QED BY <1>1, <4>1, <5>1
      <4> QED BY <4>2, <4>3
    <3> QED BY <3>1, <3>2
  <2>2. ASSUME NEW f \in taken' \cup linked PROVE f \in open'
    BY <1>4, <2>2 DEF Closed
  <2>3. ASSUME NEW j \in Interfaces, fdOf'[j] # NoFd PROVE fdOf'[j] \in open'
    <3>1. CASE j = i
      BY <1>1, <2>3, <3>1
    <3>2. CASE j # i
      BY <1>1, <2>3, <3>2 DEF IfInv, DescriptorsOwned, Closed
    <3> QED BY <3>1, <3>2
  <2> QED BY <2>1, <2>2, <2>3
<1>10. \A j \in Interfaces : named'[j] => bound' = fdOf'[j] /\ fdOf'[j] # NoFd
  <2>1. ASSUME NEW j \in Interfaces, named'[j], j # i PROVE bound' = fdOf'[j] /\ fdOf'[j] # NoFd
    <3>1. named[j] /\ bound = fdOf[j] /\ fdOf[j] # NoFd /\ fdOf'[j] = fdOf[j]
      BY <1>1, <1>2, <2>1 DEF IfInv, DescriptorsOwned
    <3>2. ~(fdOf[i] # NoFd /\ named[i])
      BY <2>1, <3>1 DEF IfInv, DescriptorsOwned
    <3> QED BY <3>1, <3>2 DEF Unlinked
  <2> QED BY <1>1, <1>2, <2>1
<1>11. bound' = NoFd \/ (\E j \in Interfaces : named'[j]) \/ (bound' = Stale /\ life' = "crashed")
  <2>1. CASE file
    BY <1>2, <2>1
  <2>2. CASE ~file /\ ~(fdOf[i] # NoFd /\ named[i])
    <3>1. bound' = bound /\ ~named[i]
      BY <2>2 DEF Unlinked, IfInv
    <3> QED BY <1>2, <3>1 DEF IfInv, DescriptorsOwned
  <2>3. CASE ~file /\ fdOf[i] # NoFd /\ named[i]
    BY <2>3 DEF Unlinked
  <2> QED BY <2>1, <2>2, <2>3
<1>12. DescriptorsOwned'
  BY <1>4, <1>7, <1>8, <1>9, <1>10, <1>11 DEF DescriptorsOwned
<1> QED BY <1>3, <1>10, <1>12 DEF IfInv

\* Close(), and Connect() and Listen(), which begin with it.
LEMMA OpensKeep ==
  ASSUME IfInv, ~CredentialsFail, NEW i \in Interfaces, Close(i) \/ Connect(i) \/ Listen(i)
  PROVE  IfInv'
<1>1. taken \subseteq Closed(i) /\ NoFd \notin taken
  BY FdsApart DEF IfInv, InterfaceOK, DescriptorsOwned, Closed
<1>2. UNCHANGED <<taken, linked, life>>
  BY DEF Close, Connect, ConnectTcp, ConnectUnix, Listen, ListenTcp, ListenUnix
<1>3. CASE Holds(i, NoFd, "none", FALSE) /\ open' = Closed(i) /\ bound' = Unlinked(i)
  <2>1. taken' = taken \ {NoFd} /\ open' = Closed(i) \cup ({NoFd} \ {NoFd}) /\ NoFd \notin Closed(i) \ taken
    BY <1>1, <1>2, <1>3, FdsApart DEF IfInv, InterfaceOK, Closed
  <2> QED BY <1>2, <1>3, <2>1, HoldsKeeps
<1>4. ASSUME NEW fd \in CreateSocket(i), NEW file \in BOOLEAN,
             NEW r \in {"connecting", "connected", "listening"},
             Holds(i, fd, r, file), open' = Closed(i) \cup {fd},
             \/ file /\ Unlinked(i) = NoFd /\ bound' = fd
             \/ ~file /\ bound' = Unlinked(i)
      PROVE  IfInv'
  <2>1. fd \in Fds /\ fd # NoFd /\ fd \notin Closed(i)
    BY FdsApart DEF CreateSocket
  <2>2. taken' = taken \ {fd} /\ open' = Closed(i) \cup ({fd} \ {NoFd}) /\ fd \notin Closed(i) \ taken
    BY <1>1, <1>2, <1>4, <2>1
  <2> QED BY <1>2, <1>4, <2>1, <2>2, HoldsKeeps
<1>5. CASE Close(i)
  BY <1>3, <1>5 DEF Close
<1>6. CASE Connect(i)
  <2>1. CASE ConnectTcp(i, "connected") \/ ConnectTcp(i, "connecting")
    BY <1>3, <1>4, <2>1 DEF ConnectTcp, Failed
  <2>2. CASE ConnectUnix(i)
    BY <1>3, <1>4, <2>2 DEF ConnectUnix, PeerSet
  <2> QED BY <1>6, <2>1, <2>2 DEF Connect
<1>7. CASE Listen(i)
  <2>1. CASE ListenTcp(i)
    BY <1>3, <1>4, <2>1 DEF ListenTcp, Failed
  <2>2. CASE ListenUnix(i)
    BY <1>3, <1>4, <2>2 DEF ListenUnix, Failed
  <2> QED BY <1>7, <2>1, <2>2 DEF Listen
<1> QED BY <1>5, <1>6, <1>7

\* Accepted() hands a descriptor from the caller to the interface, or leaves it.
LEMMA AcceptedKeeps ==
  ASSUME IfInv, NEW i \in Interfaces, NEW fd \in Fds, Accepted(i, fd) PROVE IfInv'
<1>1. fd \in taken /\ taken \subseteq Closed(i) /\ NoFd \notin taken /\ fd # NoFd
  BY FdsApart DEF Accepted, IfInv, InterfaceOK, DescriptorsOwned, Closed
<1>2. CASE Holds(i, fd, "connected", FALSE) /\ taken' = taken \ {fd}
  <2>1. open' = Closed(i) \cup ({fd} \ {NoFd}) /\ bound' = Unlinked(i) /\ UNCHANGED <<linked, life>>
    BY <1>1 DEF Accepted
  <2> QED BY <1>1, <1>2, <2>1, HoldsKeeps
<1>3. CASE Holds(i, NoFd, "none", FALSE) /\ UNCHANGED taken
  <2>1. /\ open' = Closed(i) \cup ({NoFd} \ {NoFd}) /\ bound' = Unlinked(i)
        /\ taken' = taken \ {NoFd} /\ NoFd \notin Closed(i) \ taken /\ UNCHANGED <<linked, life>>
    BY <1>1, <1>3, FdsApart DEF Accepted, IfInv, InterfaceOK, Closed
  <2> QED BY <1>3, <2>1, HoldsKeeps
<1> QED BY <1>2, <1>3 DEF Accepted

\* The other steps: descriptors come from accept() or go with their owners, a role changes,
\* or the process ends.
LEMMA OthersKeep ==
  ASSUME IfInv,
         \/ \E i \in Interfaces : Accept(i) \/ OnReadable(i) \/ Exhausted(i) \/ ShutdownSocket(i)
                                  \/ Connected(i)
         \/ \E fd \in Fds : Return(fd) \/ Unlink(fd)
  PROVE  IfInv'
<1> USE FdsApart DEF IfInv, InterfaceOK, DescriptorsOwned
<1>1. ASSUME NEW i \in Interfaces, Accept(i) PROVE IfInv'
  BY <1>1 DEF Accept, Incoming
<1>2. ASSUME NEW i \in Interfaces, OnReadable(i) PROVE IfInv'
  BY <1>2 DEF OnReadable, Incoming
<1>3. ASSUME NEW i \in Interfaces, Exhausted(i) PROVE IfInv'
  BY <1>3 DEF Exhausted
<1>4. ASSUME NEW i \in Interfaces, ShutdownSocket(i) \/ Connected(i) PROVE IfInv'
  BY <1>4 DEF ShutdownSocket, Connected
<1>5. ASSUME NEW fd \in Fds, Return(fd) PROVE IfInv'
  BY <1>5 DEF Return
<1>6. ASSUME NEW fd \in Fds, Unlink(fd) PROVE IfInv'
  BY <1>6 DEF Unlink
<1> QED BY <1>1, <1>2, <1>3, <1>4, <1>5, <1>6

\* Interfaces neither lose nor share descriptors, and the socket file is that of the one
\* interface that made it, in every order of calls and failures (as long as SO_PEERCRED does
\* not fail on a socket that was just connected).
THEOREM DescriptorsAreOwned == ASSUME ~CredentialsFail PROVE InterfaceSpec => []DescriptorsOwned
<1>1. InterfaceInit => IfInv
  BY DEF InterfaceInit, IfInv, InterfaceOK, DescriptorsOwned
<1>2. IfInv /\ [InterfaceNext]_ifVars => IfInv'
  <2>1. ASSUME IfInv, InterfaceNext PROVE IfInv'
    BY <2>1, OpensKeep, AcceptedKeeps, OthersKeep DEF InterfaceNext
  <2>2. ASSUME IfInv, UNCHANGED ifVars PROVE IfInv'
    BY <2>2 DEF IfInv, InterfaceOK, DescriptorsOwned, ifVars
  <2> QED BY <2>1, <2>2
<1>3. IfInv => DescriptorsOwned
  BY DEF IfInv
<1> QED BY <1>1, <1>2, <1>3, PTL DEF InterfaceSpec

-----------------------------------------------------------------------------
(***************************************************************************)
(* Resolver.  EntriesSafe alone is not inductive.  That nobody else asks   *)
(* for an entry follows from its mark, which is set while somebody asks;   *)
(* that Aging() spares an entry for which woken callers wait follows from  *)
(* its time, which is the present: they run before time goes on.           *)
(***************************************************************************)
Entry == [addr : Seq(Addresses), resolved : Int, resolving : BOOLEAN, current : Int]
Busy == {"wait", "ask", "back"}

ResolverType ==
  /\ used \in Nat /\ now \in Int /\ table \in 0..used
  /\ entry \in Seq(Entry) /\ Len(entry) = used
  /\ dead \subseteq 1..used /\ table \notin dead
  /\ rpc \in [Callers -> Busy \cup {"idle", "enter", "loop", "done"}]
  /\ started \in [Callers -> Int] /\ mine \in [Callers -> Nat]
  /\ \A t \in Callers : started[t] <= now

\* Of what a caller works with, in the entries es.
Minds(t, es) ==
  /\ rpc[t] \in Busy => mine[t] \in 1..used /\ mine[t] \notin dead
  /\ rpc[t] \in {"ask", "back"} => es[mine[t]].resolving
  /\ rpc[t] = "wait" => es[mine[t]].resolving \/ es[mine[t]].resolved = now

OneAsks(S) ==
  \A t, u \in S :
    rpc[t] \in {"ask", "back"} /\ rpc[u] \in {"ask", "back"} /\ mine[t] = mine[u] => t = u

Pickable(es) == \A c \in 1..Len(es) : es[c].current < Len(es[c].addr)

ResolverInv ==
  /\ ResolverType /\ OneAsks(Callers) /\ Pickable(entry)
  /\ \A t \in Callers : Minds(t, entry)

\* The invariant says what EntriesSafe says.
LEMMA InvSafe == ResolverInv => EntriesSafe
BY DEF ResolverInv, ResolverType, OneAsks, Pickable, Minds, EntriesSafe, Busy

\* An address that is picked is one of the entry's.
LEMMA PicksExist ==
  ASSUME NEW e \in Entry, e.current < Len(e.addr), NEW i \in Picks(e)
  PROVE  i \in Int /\ i < Len(e.addr)
<1>1. Len(e.addr) \in Nat /\ e.current \in Int
  BY DEF Entry
<1>2. CASE e.addr = <<>>
  BY <1>1, <1>2 DEF Picks
<1>3. CASE e.addr # <<>>
  <2>1. Len(e.addr) > 0
    BY <1>3 DEF Entry
  <2>2. (e.current + 1) % Len(e.addr) \in 0..(Len(e.addr) - 1)
    BY <1>1, <2>1
  <2> QED BY <1>1, <1>3, <2>1, <2>2 DEF Picks
<1> QED BY <1>2, <1>3

\* What the loop of DoResolve() does to the entries.
LEMMA LoopEntries ==
  ASSUME NEW t \in Callers, NEW es \in Seq(Entry), NEW c \in 1..Len(es), Pickable(es),
         rpc \in [Callers -> Busy \cup {"idle", "enter", "loop", "done"}], Loop(t, es, c)
  PROVE  /\ entry' \in Seq(Entry) /\ Len(entry') = Len(es) /\ Pickable(entry')
         /\ \A d \in 1..Len(es) : d # c => entry'[d] = es[d]
         /\ entry'[c].resolved = es[c].resolved
         /\ es[c].resolving => entry'[c].resolving
         /\ \/ rpc' = [rpc EXCEPT ![t] = "wait"] /\ entry'[c].resolving
            \/ rpc' = [rpc EXCEPT ![t] = "ask"] /\ entry'[c].resolving /\ ~es[c].resolving
            \/ rpc' = [rpc EXCEPT ![t] = "done"]
<1>1. es[c] \in Entry /\ es[c].current < Len(es[c].addr)
  BY DEF Pickable
<1>2. CASE es[c].resolving /\ rpc' = [rpc EXCEPT ![t] = "wait"] /\ entry' = es
  BY <1>2
<1>3. CASE /\ ~es[c].resolving /\ rpc' = [rpc EXCEPT ![t] = "ask"]
           /\ entry' = [es EXCEPT ![c].resolving = TRUE]
  <2>1. entry' = [es EXCEPT ![c] = [es[c] EXCEPT !.resolving = TRUE]]
    BY <1>3
  <2>2. /\ [es[c] EXCEPT !.resolving = TRUE] \in Entry
        /\ [es[c] EXCEPT !.resolving = TRUE].current < Len([es[c] EXCEPT !.resolving = TRUE].addr)
    BY <1>1 DEF Entry
  <2>3. entry' \in Seq(Entry) /\ Len(entry') = Len(es)
        /\ \A d \in 1..Len(es) : entry'[d] = IF d = c THEN [es[c] EXCEPT !.resolving = TRUE] ELSE es[d]
    BY <2>1, <2>2
  <2>4. Pickable(entry')
    BY <2>2, <2>3 DEF Pickable
  <2> QED BY <1>1, <1>3, <2>3, <2>4 DEF Entry
<1>4. ASSUME NEW i \in Picks(es[c]), rpc' = [rpc EXCEPT ![t] = "done"],
             entry' = [es EXCEPT ![c].current = i]
      PROVE  /\ entry' \in Seq(Entry) /\ Len(entry') = Len(es) /\ Pickable(entry')
             /\ \A d \in 1..Len(es) : d # c => entry'[d] = es[d]
             /\ entry'[c].resolved = es[c].resolved
             /\ es[c].resolving => entry'[c].resolving
  <2>1. entry' = [es EXCEPT ![c] = [es[c] EXCEPT !.current = i]]
    BY <1>4
  <2>2. /\ [es[c] EXCEPT !.current = i] \in Entry
        /\ [es[c] EXCEPT !.current = i].current < Len([es[c] EXCEPT !.current = i].addr)
    BY <1>1, PicksExist DEF Entry
  <2>3. entry' \in Seq(Entry) /\ Len(entry') = Len(es)
        /\ \A d \in 1..Len(es) : entry'[d] = IF d = c THEN [es[c] EXCEPT !.current = i] ELSE es[d]
    BY <2>1, <2>2
  <2>4. Pickable(entry')
    BY <2>2, <2>3 DEF Pickable
  <2> QED BY <1>1, <2>3, <2>4 DEF Entry
<1> QED BY <1>2, <1>3, <1>4 DEF Loop

\* A caller that runs the loop with the entries es, in which the others are safe, keeps the
\* invariant.
LEMMA LoopKeeps ==
  ASSUME ResolverInv, NEW t \in Callers, NEW es \in Seq(Entry), NEW c \in 1..Len(es),
         Len(es) = used', Pickable(es), Loop(t, es, c), used <= used', used' \in Nat,
         dead' \subseteq 1..used', c \notin dead', table' \in (0..used') \ dead',
         mine' = [mine EXCEPT ![t] = c], UNCHANGED <<now, started>>,
         \A u \in Callers \ {t} : Minds(u, es) /\ (rpc[u] \in Busy => mine[u] \notin dead')
  PROVE  ResolverInv'
<1>1. /\ entry' \in Seq(Entry) /\ Len(entry') = Len(es) /\ Pickable(entry')
      /\ \A d \in 1..Len(es) : d # c => entry'[d] = es[d]
      /\ entry'[c].resolved = es[c].resolved
      /\ es[c].resolving => entry'[c].resolving
      /\ \/ rpc' = [rpc EXCEPT ![t] = "wait"] /\ entry'[c].resolving
         \/ rpc' = [rpc EXCEPT ![t] = "ask"] /\ entry'[c].resolving /\ ~es[c].resolving
         \/ rpc' = [rpc EXCEPT ![t] = "done"]
  BY LoopEntries DEF ResolverInv, ResolverType
<1>2. /\ mine' \in [Callers -> Nat] /\ mine'[t] = c
      /\ \A u \in Callers \ {t} : mine'[u] = mine[u] /\ rpc'[u] = rpc[u]
      /\ rpc' \in [Callers -> Busy \cup {"idle", "enter", "loop", "done"}]
  <2>1. c \in Nat /\ mine \in [Callers -> Nat]
    BY DEF ResolverInv, ResolverType
  <2>2. mine' \in [Callers -> Nat] /\ mine'[t] = c /\ \A u \in Callers \ {t} : mine'[u] = mine[u]
    BY <2>1
  <2>3. \E p \in {"wait", "ask", "done"} : rpc' = [rpc EXCEPT ![t] = p]
    BY <1>1
  <2>4. /\ \A u \in Callers \ {t} : rpc'[u] = rpc[u]
        /\ rpc' \in [Callers -> Busy \cup {"idle", "enter", "loop", "done"}]
    BY <2>3 DEF ResolverInv, ResolverType, Busy
  <2> QED BY <2>2, <2>4
<1>3. ResolverType'
  BY <1>1, <1>2 DEF ResolverInv, ResolverType
<1>4. ASSUME NEW u \in Callers \ {t} PROVE Minds(u, entry)'
  <2>1. CASE rpc[u] \in Busy
    <3>1. mine[u] \in 1..Len(es) /\ mine[u] \notin dead'
      BY <2>1 DEF Minds, ResolverInv, ResolverType
    <3>2. es[mine[u]].resolving => entry'[mine[u]].resolving
      BY <1>1, <3>1
    <3>3. entry'[mine[u]].resolved = es[mine[u]].resolved
      BY <1>1, <3>1
    <3> QED BY <1>2, <2>1, <3>1, <3>2, <3>3 DEF Minds
  <2>2. CASE rpc[u] \notin Busy
    BY <1>2, <2>2 DEF Minds, Busy
  <2> QED BY <2>1, <2>2
<1>5. Minds(t, entry)'
  BY <1>1, <1>2 DEF Minds, Busy, ResolverInv, ResolverType
<1>6. OneAsks(Callers)'
  <2>1. OneAsks(Callers \ {t})'
    BY <1>2 DEF OneAsks, ResolverInv
  <2>2. ASSUME NEW u \in Callers \ {t}, rpc'[t] \in {"ask", "back"}, rpc'[u] \in {"ask", "back"}
        PROVE  mine'[t] # mine'[u]
    <3>1. ~es[c].resolving
      BY <1>1, <2>2 DEF ResolverInv, ResolverType
    <3>2. es[mine[u]].resolving
      BY <1>2, <2>2 DEF Minds
    <3> QED BY <1>2, <3>1, <3>2
  <2> QED BY <2>1, <2>2 DEF OneAsks
<1>7. Pickable(entry)'
  BY <1>1 DEF Pickable
<1> QED BY <1>3, <1>4, <1>5, <1>6, <1>7 DEF ResolverInv

\* Aging() deletes no entry that somebody waits or asks for.
LEMMA TooOldUnused ==
  ASSUME ResolverInv, NEW t \in Callers, TooOld(t), NEW u \in Callers, rpc[u] \in Busy
  PROVE  mine[u] # table
<1>1. started[t] - Expiry <= now /\ table \in 1..used
  BY ResolverAssumption DEF ResolverInv, ResolverType, TooOld
<1>2. entry[table].resolved # now
  <2>1. entry[table] \in Entry
    BY <1>1 DEF ResolverInv, ResolverType
  <2>2. entry[table].resolved \in Int /\ started[t] - Expiry \in Int /\ now \in Int
    BY SMTT(30), <2>1, ResolverAssumption DEF Entry, ResolverInv, ResolverType
  <2> QED BY <1>1, <2>2 DEF TooOld
<1> QED BY <1>2 DEF ResolverInv, Minds, TooOld, Busy

\* Entering DoResolve() with the entry that is there, or a new one.
LEMMA EnterKeeps == ASSUME ResolverInv, NEW t \in Callers, Enter(t) PROVE ResolverInv'
<1>1. CASE ~(TooOld(t) \/ table = 0)
  <2>1. table \in 1..Len(entry) /\ table' = table /\ used' = used /\ dead' = dead /\ Loop(t, entry, table)
    BY <1>1 DEF Enter, ResolverInv, ResolverType
  <2>2. \A u \in Callers \ {t} : Minds(u, entry) /\ (rpc[u] \in Busy => mine[u] \notin dead')
    BY <2>1 DEF ResolverInv, Minds
  <2>3. /\ entry \in Seq(Entry) /\ Len(entry) = used' /\ Pickable(entry) /\ used <= used'
        /\ used' \in Nat /\ dead' \subseteq 1..used' /\ table \notin dead'
        /\ table' \in (0..used') \ dead' /\ UNCHANGED <<now, started>>
        /\ mine' = [mine EXCEPT ![t] = table]
    BY <2>1 DEF Enter, ResolverInv, ResolverType
  <2> QED BY <2>1, <2>2, <2>3, LoopKeeps
<1>2. CASE TooOld(t) \/ table = 0
  <2> DEFINE es == Append(entry, NewEntry)
  <2>1. /\ used' = used + 1 /\ table' = used + 1 /\ used \in Nat
        /\ dead' = (IF table = 0 THEN dead ELSE dead \cup {table}) /\ Loop(t, es, used + 1)
        /\ mine' = [mine EXCEPT ![t] = used + 1] /\ UNCHANGED <<now, started>>
    BY <1>2 DEF Enter, ResolverInv, ResolverType
  <2>2. NewEntry \in Entry /\ NewEntry.current < Len(NewEntry.addr)
    BY DEF NewEntry, Entry
  <2>3. /\ es \in Seq(Entry) /\ Len(es) = used + 1 /\ es[used + 1] = NewEntry
        /\ \A c \in 1..used : es[c] = entry[c]
    BY <2>2 DEF ResolverInv, ResolverType
  <2> HIDE DEF es
  <2>4. Pickable(es)
    <3>1. \A c \in 1..used : entry[c].current < Len(entry[c].addr)
      BY DEF Pickable, ResolverInv, ResolverType
    <3>2. ASSUME NEW c \in 1..Len(es) PROVE es[c].current < Len(es[c].addr)
      <4>1. c \in 1..used \/ c = used + 1
        BY <2>1, <2>3
      <4>2. CASE c \in 1..used
        BY <2>3, <3>1, <4>2
      <4>3. CASE c = used + 1
        BY <2>2, <2>3, <4>3
      <4> QED BY <4>1, <4>2, <4>3
    <3> QED BY <3>2 DEF Pickable
  <2>5. dead' \subseteq 1..used /\ dead' \subseteq 1..used'
    BY <2>1 DEF ResolverInv, ResolverType
  <2>6. ASSUME NEW u \in Callers \ {t}
        PROVE  Minds(u, es) /\ (rpc[u] \in Busy => mine[u] \notin dead')
    <3>1. Minds(u, entry)
      BY DEF ResolverInv
    <3>2. Minds(u, es)
      BY <2>3, <3>1 DEF Minds, Busy
    <3>3. rpc[u] \in Busy => mine[u] \notin dead'
      BY <1>2, <2>1, <3>1, TooOldUnused DEF Minds
    <3> QED BY <3>2, <3>3
  <2>7. /\ used + 1 \in 1..Len(es) /\ used + 1 \notin dead' /\ table' \in (0..used') \ dead'
        /\ used <= used' /\ used' \in Nat /\ Len(es) = used'
    BY <2>1, <2>3, <2>5
  <2> QED BY <2>1, <2>3, <2>4, <2>5, <2>6, <2>7, LoopKeeps
<1> QED BY <1>1, <1>2

\* A caller that waited or asked goes on with its entry, which is not dead.
LEMMA ContinueKeeps ==
  ASSUME ResolverInv, NEW t \in Callers, Wake(t) \/ Back(t) PROVE ResolverInv'
<1>1. mine[t] \in 1..used /\ mine[t] \notin dead /\ Len(entry) = used /\ used \in Nat
  BY DEF ResolverInv, ResolverType, Minds, Wake, Back, Busy
<1>2. /\ UNCHANGED <<now, table, used, dead, started>> /\ mine' = [mine EXCEPT ![t] = mine[t]]
      /\ table' \in (0..used') \ dead' /\ dead' \subseteq 1..used'
  BY DEF ResolverInv, ResolverType, Wake, Back
<1>3. CASE Wake(t)
  <2>1. \A u \in Callers \ {t} : Minds(u, entry) /\ (rpc[u] \in Busy => mine[u] \notin dead')
    BY <1>2 DEF ResolverInv, Minds
  <2>2. entry \in Seq(Entry) /\ Pickable(entry) /\ Loop(t, entry, mine[t])
    BY <1>3 DEF Wake, ResolverInv, ResolverType
  <2>3. /\ mine[t] \in 1..Len(entry) /\ Len(entry) = used' /\ used <= used' /\ used' \in Nat
        /\ mine[t] \notin dead'
    BY <1>1, <1>2
  <2> QED BY <1>2, <2>1, <2>2, <2>3, LoopKeeps
<1>4. CASE Back(t)
  <2> DEFINE m == mine[t]
             e == [entry[m] EXCEPT !.resolving = FALSE, !.resolved = now]
             es == [entry EXCEPT ![m] = e]
  <2>1. Loop(t, es, m)
    BY <1>4 DEF Back
  <2>2. entry[m] \in Entry /\ entry[m].current < Len(entry[m].addr) /\ now \in Int
    BY <1>1 DEF ResolverInv, ResolverType, Pickable
  <2>3. e \in Entry /\ e.current < Len(e.addr) /\ ~e.resolving /\ e.resolved = now
    BY <2>2 DEF Entry
  <2> HIDE DEF e
  <2>4. es \in Seq(Entry) /\ Len(es) = used /\ es[m] = e /\ \A c \in 1..used : c # m => es[c] = entry[c]
    BY <1>1, <2>3 DEF ResolverInv, ResolverType
  <2> HIDE DEF es
  <2>5. Pickable(es)
    BY <1>1, <2>3, <2>4 DEF Pickable, ResolverInv
  <2>6. ASSUME NEW u \in Callers \ {t}
        PROVE  Minds(u, es) /\ (rpc[u] \in Busy => mine[u] \notin dead')
    <3>1. Minds(u, entry)
      BY DEF ResolverInv
    <3>2. rpc[u] \in {"ask", "back"} => mine[u] # m
      BY <1>4 DEF ResolverInv, OneAsks, Back
    <3> QED BY <1>2, <2>3, <2>4, <3>1, <3>2 DEF Minds, Busy
  <2>7. m \in 1..Len(es) /\ Len(es) = used' /\ used <= used' /\ used' \in Nat /\ m \notin dead'
    BY <1>1, <1>2, <2>4
  <2> QED BY <1>2, <2>1, <2>4, <2>5, <2>6, <2>7, LoopKeeps
<1> QED BY <1>3, <1>4

\* What getaddrinfo() says is a sequence.
LEMMA AnswersSeq == Answers \subseteq Seq(Addresses)
<1>1. Cardinality(Addresses) \in Nat
  BY ResolverAssumption, FS_CardinalityType
<1>2. SetToSeqs(Addresses) \subseteq Seq(Addresses)
  BY <1>1 DEF SetToSeqs
<1>3. <<>> \in Seq(Addresses)
  OBVIOUS
<1> QED BY <1>2, <1>3 DEF Answers

\* Cache::Set() writes the addresses and forgets which one was picked.
LEMMA SetEntry ==
  ASSUME NEW old \in Entry, NEW answer \in Seq(Addresses)
  PROVE  LET e == [old EXCEPT !.addr = answer, !.current = -1]
         IN  /\ e \in Entry /\ e.current < Len(e.addr) /\ e.resolving = old.resolving
             /\ e.resolved = old.resolved
<1>1. ASSUME NEW A, NEW a \in A, NEW c \in Int,
             NEW o \in [addr : A, resolved : Int, resolving : BOOLEAN, current : Int]
      PROVE  LET e == [o EXCEPT !.addr = a, !.current = c]
             IN  /\ e \in [addr : A, resolved : Int, resolving : BOOLEAN, current : Int]
                 /\ e.addr = a /\ e.current = c /\ e.resolving = o.resolving /\ e.resolved = o.resolved
  OBVIOUS
<1> DEFINE e == [old EXCEPT !.addr = answer, !.current = -1]
<1>2. -1 \in Int
  OBVIOUS
<1>3. /\ e \in Entry /\ e.addr = answer /\ e.current = -1
      /\ e.resolving = old.resolving /\ e.resolved = old.resolved
  BY <1>1, <1>2, Zenon DEF Entry
<1>4. Len(answer) \in Nat
  OBVIOUS
<1> HIDE DEF e
<1>5. e.current < Len(e.addr)
  BY <1>3, <1>4
<1> QED BY <1>3, <1>5 DEF e

\* The answer is written while the mark keeps others away.
LEMMA AskKeeps ==
  ASSUME ResolverInv, NEW t \in Callers, NEW answer \in Answers, Ask(t, answer)
  PROVE  ResolverInv'
<1> DEFINE m == mine[t]
           e == [entry[m] EXCEPT !.addr = answer, !.current = -1]
<1>1. m \in 1..used /\ Len(entry) = used /\ entry[m] \in Entry /\ used \in Nat
  BY DEF ResolverInv, ResolverType, Minds, Ask, Busy
<1>2. answer \in Seq(Addresses) /\ Len(answer) \in Nat
  BY AnswersSeq
<1>3. /\ e \in Entry /\ e.current < Len(e.addr) /\ e.resolving = entry[m].resolving
      /\ e.resolved = entry[m].resolved
  BY <1>1, <1>2, SetEntry
<1>4. entry' = entry \/ entry' = [entry EXCEPT ![m] = e]
  BY DEF Ask
<1> HIDE DEF e
<1>5. /\ entry' \in Seq(Entry) /\ Len(entry') = used
      /\ \A c \in 1..used : entry'[c] = entry[c] \/ (c = m /\ entry'[c] = e)
  <2>1. entry \in Seq(Entry)
    BY DEF ResolverInv, ResolverType
  <2> QED BY <1>1, <1>3, <1>4, <2>1
<1>6. /\ \A c \in 1..used : /\ entry'[c].resolving = entry[c].resolving
                            /\ entry'[c].resolved = entry[c].resolved
      /\ Pickable(entry)'
  BY <1>3, <1>5 DEF Pickable, ResolverInv, ResolverType
<1>7. /\ rpc' \in [Callers -> Busy \cup {"idle", "enter", "loop", "done"}] /\ rpc[t] = "ask"
      /\ rpc'[t] = "back" /\ \A u \in Callers : u # t => rpc'[u] = rpc[u]
      /\ UNCHANGED <<now, aged, table, used, dead, started, mine>>
  BY DEF ResolverInv, ResolverType, Ask, Busy
<1>8. ResolverType'
  BY <1>5, <1>7 DEF ResolverInv, ResolverType
<1>9. \A u \in Callers : Minds(u, entry)'
  BY <1>6, <1>7 DEF ResolverInv, Minds, Busy
<1>10. OneAsks(Callers)'
  BY <1>7 DEF ResolverInv, OneAsks
<1> QED BY <1>6, <1>8, <1>9, <1>10 DEF ResolverInv

\* A call begins, time passes, or the cache is cleared while nobody was woken.
LEMMA OutsideKeeps ==
  ASSUME ResolverInv, ~ClearAnytime, Clear \/ Tick \/ \E t \in Callers : DoResolve(t)
  PROVE  ResolverInv'
<1>1. ASSUME NEW t \in Callers, DoResolve(t) PROVE ResolverInv'
  <2>1. /\ rpc' \in [Callers -> Busy \cup {"idle", "enter", "loop", "done"}] /\ rpc'[t] = "enter"
        /\ \A u \in Callers : u # t => rpc'[u] = rpc[u]
        /\ started' \in [Callers -> Int] /\ \A u \in Callers : started'[u] <= now
        /\ UNCHANGED <<now, table, used, entry, dead, mine>>
    BY <1>1 DEF ResolverInv, ResolverType, DoResolve
  <2>2. ResolverType' /\ Pickable(entry)'
    BY <2>1 DEF ResolverInv, ResolverType, Pickable
  <2>3. OneAsks(Callers)' /\ \A u \in Callers : Minds(u, entry)'
    BY <2>1 DEF ResolverInv, OneAsks, Minds, Busy
  <2> QED BY <2>2, <2>3 DEF ResolverInv
<1>2. CASE Clear
  <2>1. Woken = {} /\ table \in 1..used /\ ~entry[table].resolving
    BY <1>2 DEF Clear, ResolverInv, ResolverType
  <2>2. \A u \in Callers : rpc[u] \in Busy => mine[u] # table
    BY <2>1 DEF Woken, ResolverInv, Minds, Busy
  <2>3. ResolverType' /\ Pickable(entry)' /\ OneAsks(Callers)'
    <3>1. /\ table' = 0 /\ dead' = dead \cup {table}
          /\ UNCHANGED <<now, used, entry, rpc, started, mine>>
      BY <1>2 DEF Clear
    <3>2. ResolverType /\ Pickable(entry) /\ OneAsks(Callers)
      BY DEF ResolverInv
    <3>3. ResolverType'
      BY <2>1, <3>1, <3>2 DEF ResolverType
    <3>4. Pickable(entry)' /\ OneAsks(Callers)'
      BY <3>1, <3>2 DEF Pickable, OneAsks
    <3> QED BY <3>3, <3>4
  <2>4. \A u \in Callers : Minds(u, entry)'
    BY <1>2, <2>2 DEF Clear, ResolverInv, Minds, Busy
  <2> QED BY <2>3, <2>4 DEF ResolverInv
<1>3. CASE Tick
  <2>1. ResolverType' /\ Pickable(entry)' /\ OneAsks(Callers)'
    BY <1>3 DEF Tick, ResolverInv, ResolverType, Pickable, OneAsks
  <2>2. \A u \in Callers : Minds(u, entry)'
    BY <1>3 DEF Tick, Woken, ResolverInv, Minds, Busy
  <2> QED BY <2>1, <2>2 DEF ResolverInv
<1> QED BY <1>1, <1>2, <1>3

\* The resolver deletes no entry under a caller that waits or asks for it, one caller at a
\* time writes an entry, and what Pick() returns exists (as long as Clear() does not run
\* between the waking of a caller and its getting the mutex).
THEOREM EntriesAreSafe == ASSUME ~ClearAnytime PROVE ResolverSpec => []EntriesSafe
<1>1. ResolverInit => ResolverInv
  <2> SUFFICES ASSUME ResolverInit PROVE ResolverInv
    OBVIOUS
  <2>1. ResolverType
    BY ResolverAssumption DEF ResolverInit, ResolverType, Busy
  <2>2. OneAsks(Callers) /\ Pickable(entry) /\ \A t \in Callers : Minds(t, entry)
    BY DEF ResolverInit, OneAsks, Pickable, Minds, Busy
  <2> QED BY <2>1, <2>2 DEF ResolverInv
<1>2. ResolverInv /\ [ResolverNext]_resolverVars => ResolverInv'
  <2>1. ASSUME ResolverInv, ResolverNext PROVE ResolverInv'
    BY <2>1, EnterKeeps, ContinueKeeps, AskKeeps, OutsideKeeps DEF ResolverNext
  <2>2. ASSUME ResolverInv, UNCHANGED resolverVars PROVE ResolverInv'
    BY <2>2 DEF ResolverInv, ResolverType, OneAsks, Pickable, Minds, resolverVars
  <2> QED BY <2>1, <2>2
<1> QED BY <1>1, <1>2, InvSafe, PTL DEF ResolverSpec

-----------------------------------------------------------------------------
(***************************************************************************)
(* Worker.  What was sent is what OnCommand() has taken, batch after       *)
(* batch, followed by the queue; and of the current batch everything       *)
(* before `at' has run.  The positions in `sent' that are behind us give   *)
(* the order.  Nothing else goes on while a batch or a health check does.  *)
(***************************************************************************)
Taken == Len(sent) - Len(commands)
Behind == IF at = 0 THEN Taken ELSE Taken - Len(batch) + at - 1

QueueType ==
  /\ failing \in SUBSET Commands /\ todo \subseteq Sent
  /\ sent \in Seq(Sent) /\ commands \in Seq(Sent) /\ batch \in Seq(Sent) /\ ran \in Seq(Sent)
  /\ at \in 0..Len(batch) /\ (at = 0 => batch = <<>>)
  /\ Len(commands) + Len(batch) <= Len(sent)

\* The queue and the batch are stretches of what was sent, and nothing was sent twice.
QueueIsSent ==
  /\ \A i \in 1..Len(commands) : commands[i] = sent[Taken + i]
  /\ \A i \in 1..Len(batch) : batch[i] = sent[Taken - Len(batch) + i]
  /\ \A p \in 1..Len(sent) : sent[p] \notin todo
  /\ \A p, q \in 1..Len(sent) : p < q => sent[p] # sent[q]

RanIsBehind ==
  /\ \A i \in 1..Len(ran) : \E p \in 1..Behind : sent[p] = ran[i]
  /\ \A i, j \in 1..Len(ran) : i < j => \E p, q \in 1..Behind : p < q /\ sent[p] = ran[i] /\ sent[q] = ran[j]
  /\ \A i \in 1..(at - 1) : batch[i] \in ToSet(ran)

NoneLeftOut ==
  failing = {} => /\ Len(ran) <= Len(sent) /\ \A i \in 1..Len(ran) : ran[i] = sent[i]
                  /\ ~quit => Len(ran) = Behind

FreedHaveRun == \A c \in freed : c \in ToSet(ran) \/ \E f \in failing : f \in ToSet(ran)

QueueInv == QueueType /\ QueueIsSent /\ RanIsBehind /\ NoneLeftOut /\ FreedHaveRun

LoopInv ==
  /\ at \in Nat /\ (at > 0 => wpc = "loop" /\ ~quit /\ drops = {})
  /\ drops # {} => wpc = "loop" /\ ~quit
  /\ drops \subseteq DOMAIN events
  /\ wpc = "ended" => DOMAIN events = {} /\ timers = {}

WorkerInv == QueueInv /\ LoopInv

LEMMA WorkerStarts == WorkerInit => WorkerInv
<1> SUFFICES ASSUME WorkerInit PROVE WorkerInv
  OBVIOUS
<1> USE WorkerAssumption DEF WorkerInit
<1>1. QueueType /\ Len(sent) = 0 /\ Len(commands) = 0 /\ Len(batch) = 0 /\ Len(ran) = 0 /\ at = 0
  BY DEF QueueType, Sent
<1>2. QueueIsSent
  BY <1>1 DEF QueueIsSent
<1>3. Behind = 0
  BY <1>1 DEF Behind, Taken
<1>4. RanIsBehind /\ NoneLeftOut /\ FreedHaveRun
  BY <1>1, <1>3 DEF RanIsBehind, NoneLeftOut, FreedHaveRun
<1>5. LoopInv
  BY DEF LoopInv
<1> QED BY <1>1, <1>2, <1>4, <1>5 DEF WorkerInv, QueueInv

\* Most of what the loop does leaves the commands alone.
LEMMA QueueUnchanged ==
  ASSUME QueueInv, UNCHANGED <<failing, todo, commands, sent, batch, at, quit, ran, freed>>
  PROVE  QueueInv'
<1>1. QueueType' /\ QueueIsSent' /\ Behind' = Behind
  BY DEF QueueInv, QueueType, QueueIsSent, Behind, Taken
<1>2. RanIsBehind' /\ NoneLeftOut' /\ FreedHaveRun'
  BY <1>1 DEF QueueInv, RanIsBehind, NoneLeftOut, FreedHaveRun
<1> QED BY <1>1, <1>2 DEF QueueInv

\* SendCommand() adds to the end of both.
LEMMA SendKeeps ==
  ASSUME QueueInv, NEW c \in Sent, SendCommand(c)
  PROVE  QueueInv'
<1>1. /\ c \in todo /\ todo' = todo \ {c} /\ commands' = Append(commands, c) /\ sent' = Append(sent, c)
      /\ UNCHANGED <<failing, batch, at, quit, ran, freed>>
  BY DEF SendCommand, loopVars
<1>2. /\ sent \in Seq(Sent) /\ commands \in Seq(Sent) /\ batch \in Seq(Sent)
      /\ Len(commands) + Len(batch) <= Len(sent) /\ at \in 0..Len(batch)
  BY DEF QueueInv, QueueType
<1>3. /\ sent' \in Seq(Sent) /\ Len(sent') = Len(sent) + 1 /\ sent'[Len(sent) + 1] = c
      /\ \A i \in 1..Len(sent) : sent'[i] = sent[i]
  BY <1>1, <1>2
<1>4. /\ commands' \in Seq(Sent) /\ Len(commands') = Len(commands) + 1 /\ commands'[Len(commands) + 1] = c
      /\ \A i \in 1..Len(commands) : commands'[i] = commands[i]
  BY <1>1, <1>2
<1>5. Len(sent) \in Nat /\ Len(commands) \in Nat /\ Len(batch) \in Nat
  BY <1>2
<1>6. Taken' = Taken /\ Taken \in Nat /\ Taken + Len(commands) = Len(sent)
      /\ Len(batch) <= Taken
  BY <1>2, <1>3, <1>4, <1>5 DEF Taken
<1>7. Behind' = Behind /\ Behind \in Nat /\ Behind <= Taken
  BY <1>1, <1>2, <1>5, <1>6 DEF Behind
<1>8. QueueType'
  BY <1>1, <1>2, <1>3, <1>4 DEF QueueInv, QueueType
<1>9. QueueIsSent'
  <2>1. \A i \in 1..Len(commands') : commands'[i] = sent'[Taken' + i]
    <3> TAKE i \in 1..Len(commands')
    <3>1. CASE i = Len(commands) + 1
      BY <1>3, <1>4, <1>5, <1>6, <3>1
    <3>2. CASE i \in 1..Len(commands)
      <4>1. Taken + i \in 1..Len(sent)
        BY <1>5, <1>6, <3>2
      <4>2. commands[i] = sent[Taken + i]
        BY <3>2 DEF QueueInv, QueueIsSent
      <4> QED BY <1>3, <1>4, <1>6, <3>2, <4>1, <4>2
    <3> QED BY <1>4, <1>5, <3>1, <3>2
  <2>2. \A i \in 1..Len(batch') : batch'[i] = sent'[Taken' - Len(batch') + i]
    <3> TAKE i \in 1..Len(batch')
    <3>1. i \in 1..Len(batch) /\ Taken - Len(batch) + i \in 1..Len(sent)
      BY <1>1, <1>5, <1>6
    <3>2. batch[i] = sent[Taken - Len(batch) + i]
      BY <3>1 DEF QueueInv, QueueIsSent
    <3> QED BY <1>1, <1>3, <1>6, <3>1, <3>2
  <2>3. \A p \in 1..Len(sent) : sent[p] \notin todo /\ \A q \in 1..Len(sent) : p < q => sent[p] # sent[q]
    BY DEF QueueInv, QueueIsSent
  <2>4. \A p \in 1..Len(sent') : sent'[p] \notin todo'
    BY <1>1, <1>3, <1>5, <2>3
  <2>5. \A p, q \in 1..Len(sent') : p < q => sent'[p] # sent'[q]
    <3> TAKE p, q \in 1..Len(sent')
    <3>1. CASE q \in 1..Len(sent)
      BY <1>3, <1>5, <2>3, <3>1
    <3>2. CASE q = Len(sent) + 1
      <4>1. p < q => p \in 1..Len(sent)
        BY <1>5, <3>2
      <4> QED BY <1>1, <1>3, <2>3, <3>2, <4>1
    <3> QED BY <1>3, <1>5, <3>1, <3>2
  <2> QED BY <2>1, <2>2, <2>4, <2>5 DEF QueueIsSent
<1>10. \A p \in 1..Behind : sent'[p] = sent[p]
  BY <1>3, <1>5, <1>6, <1>7
<1>11. RanIsBehind'
  <2>1. ASSUME NEW i \in 1..Len(ran) PROVE \E p \in 1..Behind : sent'[p] = ran[i]
    <3>1. PICK p \in 1..Behind : sent[p] = ran[i]
      BY DEF QueueInv, RanIsBehind
    <3> QED BY <1>10, <3>1
  <2>2. ASSUME NEW i \in 1..Len(ran), NEW j \in 1..Len(ran), i < j
        PROVE  \E p, q \in 1..Behind : p < q /\ sent'[p] = ran[i] /\ sent'[q] = ran[j]
    <3>1. PICK p \in 1..Behind, q \in 1..Behind : p < q /\ sent[p] = ran[i] /\ sent[q] = ran[j]
      BY <2>2 DEF QueueInv, RanIsBehind
    <3> QED BY <1>10, <3>1
  <2>3. ran' = ran /\ at' = at /\ batch' = batch /\ Behind' = Behind
    BY <1>1, <1>7
  <2>4. \A i \in 1..(at - 1) : batch[i] \in ToSet(ran)
    BY DEF QueueInv, RanIsBehind
  <2>5. \A i \in 1..Len(ran') : \E p \in 1..Behind' : sent'[p] = ran'[i]
    BY <2>1, <2>3
  <2>6. \A i, j \in 1..Len(ran') : i < j =>
          \E p, q \in 1..Behind' : p < q /\ sent'[p] = ran'[i] /\ sent'[q] = ran'[j]
    BY SMTT(30), <2>2, <2>3
  <2>7. \A i \in 1..(at' - 1) : batch'[i] \in ToSet(ran')
    BY <2>3, <2>4
  <2> QED BY <2>5, <2>6, <2>7 DEF RanIsBehind
<1>12. NoneLeftOut'
  BY <1>1, <1>3, <1>5, <1>7 DEF QueueInv, QueueType, NoneLeftOut
<1>13. FreedHaveRun'
  BY <1>1 DEF QueueInv, FreedHaveRun
<1> QED BY <1>8, <1>9, <1>11, <1>12, <1>13 DEF QueueInv

\* OnCommand() turns the queue into the batch: nothing moves.
LEMMA OnCommandKeeps ==
  ASSUME QueueInv, OnCommand
  PROVE  QueueInv'
<1>1. /\ at = 0 /\ batch' = commands /\ commands' = <<>> /\ at' = IF commands = <<>> THEN 0 ELSE 1
      /\ UNCHANGED <<failing, todo, sent, quit, ran, freed>>
  BY DEF OnCommand, InLoop
<1>2. /\ sent \in Seq(Sent) /\ commands \in Seq(Sent) /\ batch = <<>> /\ Len(commands) <= Len(sent)
  BY <1>1 DEF QueueInv, QueueType
<1>3. Len(sent) \in Nat /\ Len(commands) \in Nat /\ Len(commands') = 0 /\ Len(batch') = Len(commands)
      /\ (commands # <<>> => Len(commands) > 0)
  BY <1>1, <1>2
<1>4. Taken' = Len(sent) /\ Taken = Len(sent) - Len(commands)
  BY <1>1, <1>3 DEF Taken
<1>5. Behind' = Behind
  <2>1. Behind = Taken
    BY <1>1 DEF Behind
  <2>2. CASE commands = <<>>
    BY <1>1, <1>2, <1>3, <1>4, <2>1, <2>2 DEF Behind
  <2>3. CASE commands # <<>>
    BY <1>1, <1>3, <1>4, <2>1, <2>3 DEF Behind
  <2> QED BY <2>2, <2>3
<1>6. QueueType'
  BY <1>1, <1>2, <1>3 DEF QueueInv, QueueType
<1>7. QueueIsSent'
  <2>1. \A i \in 1..Len(commands) : commands[i] = sent[Taken + i]
    BY DEF QueueInv, QueueIsSent
  <2>2. \A i \in 1..Len(batch') : batch'[i] = sent'[Taken' - Len(batch') + i]
    BY <1>1, <1>3, <1>4, <2>1
  <2>3. \A i \in 1..Len(commands') : commands'[i] = sent'[Taken' + i]
    BY <1>3
  <2> QED BY <1>1, <2>2, <2>3 DEF QueueInv, QueueIsSent
<1>8. RanIsBehind'
  <2>1. \A i \in 1..(at' - 1) : batch'[i] \in ToSet(ran')
    BY <1>1
  <2> QED BY <1>1, <1>5, <2>1 DEF QueueInv, RanIsBehind
<1>9. NoneLeftOut' /\ FreedHaveRun'
  BY <1>1, <1>5 DEF QueueInv, NoneLeftOut, FreedHaveRun
<1> QED BY <1>6, <1>7, <1>8, <1>9 DEF QueueInv

\* What has run stays behind.
LEMMA BehindGrows ==
  ASSUME QueueInv, NEW b \in Nat, Behind \in Nat, Behind <= b
  PROVE  /\ \A i \in 1..Len(ran) : \E p \in 1..b : sent[p] = ran[i]
         /\ \A i, j \in 1..Len(ran) : i < j => \E p, q \in 1..b : p < q /\ sent[p] = ran[i] /\ sent[q] = ran[j]
<1>1. \A p \in 1..Behind : p \in 1..b
  OBVIOUS
<1>2. ASSUME NEW i \in 1..Len(ran) PROVE \E p \in 1..b : sent[p] = ran[i]
  <2>1. PICK p \in 1..Behind : sent[p] = ran[i]
    BY DEF QueueInv, RanIsBehind
  <2> QED BY <1>1, <2>1
<1>3. ASSUME NEW i \in 1..Len(ran), NEW j \in 1..Len(ran), i < j
      PROVE  \E p, q \in 1..b : p < q /\ sent[p] = ran[i] /\ sent[q] = ran[j]
  <2>1. PICK p \in 1..Behind, q \in 1..Behind : p < q /\ sent[p] = ran[i] /\ sent[q] = ran[j]
    BY <1>3 DEF QueueInv, RanIsBehind
  <2> QED BY <1>1, <2>1
<1> QED BY <1>2, <1>3

\* The next one runs after all that are behind.
LEMMA NextRuns ==
  ASSUME QueueInv, NEW b \in Nat, Behind \in Nat, Behind < b, NEW r \in Seq(Sent), r = Append(ran, sent[Behind + 1]),
         sent[Behind + 1] \in Sent
  PROVE  /\ r \in Seq(Sent) /\ Len(r) = Len(ran) + 1 /\ \A i \in 1..Len(ran) : r[i] = ran[i]
         /\ r[Len(ran) + 1] = sent[Behind + 1]
         /\ \A i \in 1..Len(r) : \E p \in 1..b : sent[p] = r[i]
         /\ \A i, j \in 1..Len(r) : i < j => \E p, q \in 1..b : p < q /\ sent[p] = r[i] /\ sent[q] = r[j]
<1>1. /\ r \in Seq(Sent) /\ Len(r) = Len(ran) + 1 /\ \A i \in 1..Len(ran) : r[i] = ran[i]
      /\ r[Len(ran) + 1] = sent[Behind + 1] /\ Len(ran) \in Nat
  BY DEF QueueInv, QueueType
<1>2. Behind + 1 \in 1..b /\ \A p \in 1..Behind : p \in 1..b /\ p < Behind + 1
  OBVIOUS
<1>3. ASSUME NEW i \in 1..Len(ran) PROVE \E p \in 1..Behind : sent[p] = r[i]
  <2>1. PICK p \in 1..Behind : sent[p] = ran[i]
    BY DEF QueueInv, RanIsBehind
  <2> QED BY <1>1, <2>1
<1>4. ASSUME NEW i \in 1..Len(r) PROVE \E p \in 1..b : sent[p] = r[i]
  <2>1. CASE i \in 1..Len(ran)
    BY <1>2, <1>3, <2>1
  <2>2. CASE i = Len(ran) + 1
    BY <1>1, <1>2, <2>2
  <2> QED BY <1>1, <2>1, <2>2
<1>5. ASSUME NEW i \in 1..Len(r), NEW j \in 1..Len(r), i < j
      PROVE  \E p, q \in 1..b : p < q /\ sent[p] = r[i] /\ sent[q] = r[j]
  <2>1. CASE j \in 1..Len(ran)
    <3>1. i \in 1..Len(ran)
      BY <1>1, <1>5, <2>1
    <3>2. PICK p \in 1..Behind, q \in 1..Behind : p < q /\ sent[p] = ran[i] /\ sent[q] = ran[j]
      BY <1>5, <2>1, <3>1 DEF QueueInv, RanIsBehind
    <3> QED BY <1>1, <1>2, <2>1, <3>1, <3>2
  <2>2. CASE j = Len(ran) + 1
    <3>1. i \in 1..Len(ran)
      BY <1>1, <1>5, <2>2
    <3>2. PICK p \in 1..Behind : sent[p] = r[i]
      BY <1>3, <3>1
    <3> QED BY <1>1, <1>2, <2>2, <3>2
  <2> QED BY <1>1, <2>1, <2>2
<1> QED BY <1>1, <1>4, <1>5

\* DoCommand(): the command before which everything is behind runs, or the loop quits.
LEMMA DoCommandKeeps ==
  ASSUME QueueInv, LoopInv, DoCommand
  PROVE  QueueInv'
<1> DEFINE c == batch[at]
<1>1. /\ at \in 1..Len(batch) /\ batch \in Seq(Sent) /\ sent \in Seq(Sent) /\ commands \in Seq(Sent)
      /\ ran \in Seq(Sent) /\ Len(commands) + Len(batch) <= Len(sent)
      /\ Len(batch) \in Nat /\ Len(commands) \in Nat /\ Len(sent) \in Nat /\ Len(ran) \in Nat
  BY DEF QueueInv, QueueType, DoCommand
<1>2. UNCHANGED <<failing, todo, commands, sent>> /\ batch' = IF at' = 0 THEN <<>> ELSE batch
  BY DEF DoCommand, queueVars
<1>3. Taken \in Nat /\ Taken' = Taken /\ Len(batch) <= Taken /\ Taken <= Len(sent)
  BY <1>1, <1>2 DEF Taken
<1>4. Behind = Taken - Len(batch) + at - 1
  BY <1>1 DEF Behind
<1>5. Behind \in Nat /\ Behind + 1 <= Taken /\ c \in Sent
  BY <1>1, <1>3, <1>4
<1>6. c = sent[Behind + 1]
  <2>1. c = sent[Taken - Len(batch) + at]
    BY <1>1 DEF QueueInv, QueueIsSent
  <2>2. Behind + 1 = Taken - Len(batch) + at
    BY <1>1, <1>3, <1>4
  <2> QED BY <2>1, <2>2
<1>7. ~quit
  BY <1>1 DEF LoopInv
<1>8. ASSUME at' = 0 \/ (at' = at + 1 /\ at + 1 <= Len(batch)), ran' \in Seq(Sent)
      PROVE  QueueType' /\ QueueIsSent'
  <2>1. CASE at' = 0
    <3>1. batch' = <<>> /\ Len(batch') = 0
      BY <1>2, <2>1
    <3>2. QueueType'
      BY <1>1, <1>2, <1>8, <2>1, <3>1 DEF QueueInv, QueueType
    <3>3. \A i \in 1..Len(batch') : batch'[i] = sent'[Taken' - Len(batch') + i]
      BY <3>1
    <3> QED BY <1>2, <1>3, <3>2, <3>3 DEF QueueInv, QueueIsSent
  <2>2. CASE at' = at + 1
    <3>1. batch' = batch /\ at' \in 0..Len(batch) /\ at' # 0
      BY <1>1, <1>2, <1>8, <2>2
    <3>2. QueueType'
      BY <1>1, <1>2, <1>8, <3>1 DEF QueueInv, QueueType
    <3> QED BY <1>2, <1>3, <3>1, <3>2 DEF QueueInv, QueueIsSent
  <2> QED BY <1>8, <2>1, <2>2
<1>9. CASE c = Quit
  <2>1. quit' = TRUE /\ at' = 0 /\ UNCHANGED <<ran, freed>>
    BY <1>9 DEF DoCommand
  <2>2. QueueType' /\ QueueIsSent'
    BY <1>1, <1>8, <2>1
  <2>3. Behind' = Taken
    BY <1>3, <2>1 DEF Behind
  <2>4. RanIsBehind'
    <3>1. /\ \A i \in 1..Len(ran) : \E p \in 1..Taken : sent[p] = ran[i]
          /\ \A i, j \in 1..Len(ran) : i < j => \E p, q \in 1..Taken : p < q /\ sent[p] = ran[i] /\ sent[q] = ran[j]
      <4>1. Behind <= Taken
        BY <1>3, <1>5
      <4> QED BY <1>3, <1>5, <4>1, BehindGrows
    <3>2. ran' = ran /\ sent' = sent /\ at' - 1 = -1
      BY <1>2, <2>1
    <3>3. \A i \in 1..(at' - 1) : batch'[i] \in ToSet(ran')
      BY <3>2
    <3> QED BY <2>3, <3>1, <3>2, <3>3 DEF RanIsBehind
  <2>5. NoneLeftOut' /\ FreedHaveRun'
    BY <1>2, <1>7, <2>1 DEF QueueInv, NoneLeftOut, FreedHaveRun
  <2> QED BY <2>2, <2>4, <2>5 DEF QueueInv
<1>10. CASE c # Quit
  <2> DEFINE last == at = Len(batch) \/ c \in failing
  <2>1. /\ ran' = Append(ran, c) /\ UNCHANGED quit
        /\ at' = IF last THEN 0 ELSE at + 1
        /\ freed' = IF last THEN freed \cup (ToSet(batch) \ {Quit}) ELSE freed
    BY <1>10 DEF DoCommand
  <2>2. at' = 0 \/ (at' = at + 1 /\ at + 1 <= Len(batch))
    BY <1>1, <2>1
  <2>3. Behind' \in Nat /\ Behind < Behind' /\ (failing = {} => Behind' = Behind + 1)
    <3>1. CASE last
      <4>1. Behind' = Taken
        BY <1>3, <2>1, <3>1 DEF Behind
      <4>2. failing = {} => Behind + 1 = Taken
        <5>1. failing = {} => at = Len(batch)
          BY <3>1
        <5>2. at = Len(batch) => Behind + 1 = Taken
          <6>1. at \in Nat /\ Len(batch) \in Nat /\ Taken \in Nat
            BY <1>1, <1>3
          <6> QED BY <1>4, <6>1
        <5> QED BY <5>1, <5>2
      <4> QED BY <1>3, <1>5, <4>1, <4>2
    <3>2. CASE ~last
      <4>1. at' = at + 1 /\ at' # 0 /\ batch' = batch
        BY <1>1, <1>2, <2>1, <3>2
      <4>2. Behind' = Taken - Len(batch) + at' - 1
        BY <1>3, <4>1 DEF Behind
      <4> QED BY <1>1, <1>3, <1>4, <1>5, <4>1, <4>2
    <3> QED BY <3>1, <3>2
  <2>4. /\ ran' \in Seq(Sent) /\ Len(ran') = Len(ran) + 1 /\ \A i \in 1..Len(ran) : ran'[i] = ran[i]
        /\ ran'[Len(ran) + 1] = sent[Behind + 1]
        /\ \A i \in 1..Len(ran') : \E p \in 1..Behind' : sent[p] = ran'[i]
        /\ \A i, j \in 1..Len(ran') : i < j => \E p, q \in 1..Behind' : p < q /\ sent[p] = ran'[i] /\ sent[q] = ran'[j]
    <3>1. ran' = Append(ran, sent[Behind + 1]) /\ sent[Behind + 1] \in Sent
      BY <1>5, <1>6, <2>1
    <3>2. Behind \in Nat /\ Behind' \in Nat /\ Behind < Behind'
      BY <1>5, <2>3
    <3> DEFINE b == Behind'
               r == ran'
    <3>3. b \in Nat /\ Behind < b /\ r = Append(ran, sent[Behind + 1]) /\ r \in Seq(Sent)
      BY <1>1, <3>1, <3>2
    <3> HIDE DEF b, r
    <3>4. /\ r \in Seq(Sent) /\ Len(r) = Len(ran) + 1 /\ \A i \in 1..Len(ran) : r[i] = ran[i]
          /\ r[Len(ran) + 1] = sent[Behind + 1]
          /\ \A i \in 1..Len(r) : \E p \in 1..b : sent[p] = r[i]
          /\ \A i, j \in 1..Len(r) : i < j => \E p, q \in 1..b : p < q /\ sent[p] = r[i] /\ sent[q] = r[j]
      BY <3>1, <3>2, <3>3, NextRuns
    <3> QED BY <3>4 DEF b, r
  <2>5. QueueType' /\ QueueIsSent'
    BY <1>8, <2>2, <2>4
  <2>6. ToSet(ran) \subseteq ToSet(ran') /\ c \in ToSet(ran')
    <3>1. DOMAIN ran = 1..Len(ran) /\ DOMAIN ran' = 1..(Len(ran) + 1) /\ Len(ran) + 1 \in DOMAIN ran'
      BY <1>1, <2>4
    <3>2. \A i \in DOMAIN ran : i \in DOMAIN ran' /\ ran'[i] = ran[i]
      BY <1>1, <2>4, <3>1
    <3>3. ran'[Len(ran) + 1] = c
      BY <1>6, <2>4
    <3> QED BY <3>1, <3>2, <3>3 DEF ToSet
  <2>7. \A i \in 1..at : batch[i] \in ToSet(ran')
    <3>1. \A i \in 1..(at - 1) : batch[i] \in ToSet(ran)
      BY DEF QueueInv, RanIsBehind
    <3> QED BY <1>1, <2>6, <3>1
  <2>8. RanIsBehind'
    <3>1. \A i \in 1..(at' - 1) : batch'[i] \in ToSet(ran')
      BY <1>1, <1>2, <2>2, <2>7
    <3> QED BY <1>2, <2>4, <3>1 DEF RanIsBehind
  <2>9. NoneLeftOut'
    <3> SUFFICES ASSUME failing = {}
                 PROVE  /\ Len(ran') <= Len(sent) /\ \A i \in 1..Len(ran') : ran'[i] = sent[i]
                        /\ Len(ran') = Behind'
      BY <1>2 DEF NoneLeftOut
    <3>1. Len(ran) = Behind /\ \A i \in 1..Len(ran) : ran[i] = sent[i]
      BY <1>7 DEF QueueInv, NoneLeftOut
    <3>2. Behind' = Behind + 1
      BY <2>3
    <3>3. Len(ran') = Behind + 1 /\ Len(ran') <= Len(sent)
      BY <1>1, <1>3, <1>5, <2>4, <3>1
    <3>4. ASSUME NEW i \in 1..Len(ran') PROVE ran'[i] = sent[i]
      <4>1. CASE i \in 1..Len(ran)
        BY <2>4, <3>1, <4>1
      <4>2. CASE i = Len(ran) + 1
        BY <2>4, <3>1, <4>2
      <4> QED BY <1>1, <2>4, <4>1, <4>2
    <3> QED BY <3>2, <3>3, <3>4
  <2>10. FreedHaveRun'
    <3>1. ASSUME NEW d \in freed PROVE d \in ToSet(ran') \/ \E f \in failing : f \in ToSet(ran')
      BY <2>6 DEF QueueInv, FreedHaveRun
    <3>2. ASSUME last, NEW d \in ToSet(batch) PROVE d \in ToSet(ran') \/ \E f \in failing : f \in ToSet(ran')
      <4>1. CASE c \in failing
        BY <2>6, <4>1
      <4>2. CASE at = Len(batch)
        BY <1>1, <2>7, <4>2 DEF ToSet
      <4> QED BY <3>2, <4>1, <4>2
    <3> QED BY <1>2, <2>1, <3>1, <3>2 DEF FreedHaveRun
  <2> QED BY <2>5, <2>8, <2>9, <2>10 DEF QueueInv
<1> QED BY <1>9, <1>10

\* The other actions, which leave the commands alone: what is attached, and what is to be
\* dropped.  With callbacks that detach no other linkage a drop takes only its own.
OtherSteps ==
  \/ \E c \in Sent : AsyncSend(c)
  \/ RunBegin \/ RunEnd
  \/ \E l \in Linkages :
       DetachLinkage(l) \/ OnEvent(l) \/ Drop(l) \/ \E how \in BOOLEAN : AttachLinkage(l, how) \/ SetWanna(l, how)
  \/ \E ls \in SUBSET Linkages : OnHealthCheck(ls)
  \/ \E t \in Timers : RegisterTimer(t) \/ OnTimer(t)

LEMMA OtherStepsKeep ==
  ASSUME WorkerInv, Polite, OtherSteps
  PROVE  WorkerInv'
<1>1. LoopInv
  BY DEF WorkerInv
<1>2. UNCHANGED <<failing, todo, commands, sent, batch, at, quit, ran, freed>>
  BY DEF OtherSteps, AsyncSend, RunBegin, RunEnd, DetachLinkage, OnEvent, Drop, AttachLinkage,
         SetWanna, OnHealthCheck, RegisterTimer, OnTimer, queueVars, loopVars
<1>3. LoopInv'
  <2>1. ASSUME NEW c \in Sent, AsyncSend(c) PROVE LoopInv'
    BY <1>1, <2>1 DEF AsyncSend, LoopInv, loopVars, ownVars
  <2>2. CASE RunBegin
    BY <1>1, <2>2 DEF RunBegin, LoopInv, ownVars
  <2>3. CASE RunEnd
    <3>1. drops = {} /\ DOMAIN events' = {}
      BY <1>1, <2>3 DEF RunEnd, LoopInv, DoRelease
    <3> QED BY <1>1, <2>3, <3>1 DEF RunEnd, LoopInv
  <2>4. ASSUME NEW l \in Linkages, DetachLinkage(l) \/ OnEvent(l) PROVE LoopInv'
    BY <1>1, <2>4 DEF DetachLinkage, OnEvent, InLoop, LoopInv, loopVars
  <2>5. ASSUME NEW l \in Linkages, Drop(l) PROVE LoopInv'
    <3>1. drops' = drops \ {l} /\ DOMAIN events' = DOMAIN events \ {l} /\ UNCHANGED <<at, wpc, quit, timers>>
      BY <2>5 DEF Drop, DoRelease, loopVars
    <3> QED BY <1>1, <2>5, <3>1 DEF Drop, LoopInv
  <2>6. ASSUME NEW l \in Linkages, NEW how \in BOOLEAN, AttachLinkage(l, how) \/ SetWanna(l, how) PROVE LoopInv'
    BY <1>1, <2>6 DEF AttachLinkage, SetWanna, InLoop, LoopInv, loopVars
  <2>7. ASSUME NEW ls \in SUBSET Linkages, OnHealthCheck(ls) PROVE LoopInv'
    BY <1>1, <2>7 DEF OnHealthCheck, InLoop, LoopInv, loopVars
  <2>8. ASSUME NEW t \in Timers, RegisterTimer(t) \/ OnTimer(t) PROVE LoopInv'
    BY <1>1, <2>8 DEF RegisterTimer, OnTimer, InLoop, LoopInv, loopVars
  <2> QED BY <2>1, <2>2, <2>3, <2>4, <2>5, <2>6, <2>7, <2>8 DEF OtherSteps
<1>4. QueueInv'
  BY <1>2, QueueUnchanged DEF WorkerInv
<1> QED BY <1>3, <1>4 DEF WorkerInv

LEMMA WorkerStep == ASSUME Polite PROVE WorkerInv /\ [WorkerNext]_workerVars => WorkerInv'
<1> SUFFICES ASSUME WorkerInv, [WorkerNext]_workerVars PROVE WorkerInv'
  OBVIOUS
<1>1. QueueInv /\ LoopInv
  BY DEF WorkerInv
<1>2. ASSUME NEW c \in Sent, SendCommand(c) PROVE WorkerInv'
  <2>1. LoopInv'
    BY <1>1, <1>2 DEF SendCommand, LoopInv, loopVars, ownVars
  <2> QED BY <1>1, <1>2, <2>1, SendKeeps DEF WorkerInv
<1>3. CASE OnCommand
  <2>1. LoopInv'
    BY <1>1, <1>3 DEF OnCommand, InLoop, LoopInv, ownVars
  <2> QED BY <1>1, <1>3, <2>1, OnCommandKeeps DEF WorkerInv
<1>4. CASE DoCommand
  <2>1. QueueInv'
    BY <1>1, <1>4, DoCommandKeeps
  <2>2. at' \in Nat /\ (at' > 0 => quit' = quit)
    BY <1>1, <1>4, <2>1 DEF DoCommand, LoopInv
  <2>3. at > 0 /\ UNCHANGED <<wpc, drops, events, timers>>
    BY <1>4 DEF DoCommand, ownVars
  <2>4. LoopInv'
    BY <1>1, <2>2, <2>3 DEF LoopInv
  <2> QED BY <2>1, <2>4 DEF WorkerInv
<1>5. CASE UNCHANGED workerVars
  <2>1. UNCHANGED <<failing, todo, commands, sent, batch, at, quit, ran, freed, wpc, drops, events, timers>>
    BY <1>5 DEF workerVars, queueVars, loopVars, ownVars
  <2>2. LoopInv'
    BY <1>1, <2>1 DEF LoopInv
  <2> QED BY <1>1, <2>1, <2>2, QueueUnchanged DEF WorkerInv
<1>6. CASE OtherSteps
  BY <1>6, OtherStepsKeep
<1> QED BY <1>2, <1>3, <1>4, <1>5, <1>6 DEF WorkerNext, OtherSteps

\* The invariant gives the order: what is behind is a part of what was sent, and no two of
\* that are the same.
LEMMA WorkerImplies == WorkerInv => WorkerSound
<1> SUFFICES ASSUME WorkerInv PROVE WorkerSound
  OBVIOUS
<1>1. /\ sent \in Seq(Sent) /\ ran \in Seq(Sent) /\ commands \in Seq(Sent) /\ batch \in Seq(Sent)
      /\ at \in 0..Len(batch) /\ Len(commands) + Len(batch) <= Len(sent)
  BY DEF WorkerInv, QueueInv, QueueType
<1>2. Behind \in Int /\ Behind <= Len(sent)
  BY <1>1 DEF Behind, Taken
<1>3. ASSUME NEW i \in 1..Len(ran), NEW j \in 1..Len(ran), i < j
      PROVE  /\ ran[i] # ran[j]
             /\ \E p, q \in 1..Len(sent) : p < q /\ sent[p] = ran[i] /\ sent[q] = ran[j]
  <2>1. PICK p \in 1..Behind, q \in 1..Behind : p < q /\ sent[p] = ran[i] /\ sent[q] = ran[j]
    BY <1>3 DEF WorkerInv, QueueInv, RanIsBehind
  <2>2. p \in 1..Len(sent) /\ q \in 1..Len(sent)
    BY <1>1, <1>2
  <2>3. sent[p] # sent[q]
    BY <2>1, <2>2 DEF WorkerInv, QueueInv, QueueIsSent
  <2> QED BY <2>1, <2>2, <2>3
<1>4. ASSUME failing = {} PROVE IsPrefix(ran, sent)
  <2>1. Len(ran) <= Len(sent) /\ \A i \in 1..Len(ran) : ran[i] = sent[i]
    BY <1>4 DEF WorkerInv, QueueInv, NoneLeftOut
  <2> QED BY <1>1, <2>1 DEF IsPrefix
<1>5. RunInOrder
  BY <1>3, <1>4 DEF RunInOrder
<1> QED BY <1>5 DEF WorkerInv, QueueInv, LoopInv, FreedHaveRun, WorkerSound

\* Whatever threads send commands and whatever the loop does between them, with callbacks
\* that detach no other linkage: the commands run in order and once, none is deleted early,
\* and a worker that has ended leaves nothing behind.
THEOREM WorkerIsSound == ASSUME Polite PROVE WorkerSpec => []WorkerSound
<1>1. WorkerInv /\ [WorkerNext]_workerVars => WorkerInv'
  BY WorkerStep
<1> QED BY <1>1, WorkerStarts, WorkerImplies, PTL DEF WorkerSpec

-----------------------------------------------------------------------------
(***************************************************************************)
(* LinkageReceiver: for messages of any lengths, read in chunks of any     *)
(* sizes, the stream is cut where the peer meant it to be.                 *)
(***************************************************************************)

\* What Bytes() is, and what is left, taken and put together of it.
LEMMA BytesAre ==
  ASSUME NEW a \in Nat, NEW n \in Nat
  PROVE  /\ Bytes(a, n) \in Seq(Nat) /\ Len(Bytes(a, n)) = n
         /\ \A i \in 1..n : Bytes(a, n)[i] = a + i
         /\ Bytes(a, n) = <<>> <=> n = 0
<1>1. Bytes(a, n) \in [1..n -> Nat] /\ \A i \in 1..n : Bytes(a, n)[i] = a + i
  BY DEF Bytes
<1>2. Bytes(a, n) \in Seq(Nat) /\ Len(Bytes(a, n)) = n
  BY <1>1
<1> QED BY <1>1, <1>2, EmptySeq

LEMMA BytesEqual ==
  ASSUME NEW s \in Seq(Nat), NEW a \in Nat, NEW n \in Nat, Len(s) = n, \A i \in 1..n : s[i] = a + i
  PROVE  s = Bytes(a, n)
<1>1. /\ Bytes(a, n) \in Seq(Nat) /\ Len(s) = Len(Bytes(a, n))
      /\ \A i \in 1..Len(s) : s[i] = Bytes(a, n)[i]
  BY BytesAre
<1> QED BY <1>1, SeqEqual

LEMMA BytesLeft ==
  ASSUME NEW a \in Nat, NEW n \in Nat, NEW k \in Nat, k <= n
  PROVE  Left(Bytes(a, n), k) = Bytes(a + k, n - k)
<1> DEFINE s == Bytes(a, n)
           t == SubSeq(s, k + 1, n)
<1>1. /\ s \in Seq(Nat) /\ Len(s) = n /\ \A i \in 1..n : s[i] = a + i
  BY BytesAre
<1> HIDE DEF s
<1>2. t \in Seq(Nat) /\ Len(t) = n - k /\ \A i \in 1..(n - k) : t[i] = s[k + i]
  BY <1>1
<1> HIDE DEF t
<1>3. n - k \in Nat /\ a + k \in Nat /\ \A i \in 1..(n - k) : k + i \in 1..n /\ a + (k + i) = (a + k) + i
  OBVIOUS
<1>4. \A i \in 1..(n - k) : t[i] = (a + k) + i
  BY <1>1, <1>2, <1>3
<1>5. t = Bytes(a + k, n - k)
  BY <1>2, <1>3, <1>4, BytesEqual
<1> QED BY <1>1, <1>5 DEF s, t, Left

LEMMA BytesTaken ==
  ASSUME NEW a \in Nat, NEW n \in Nat, NEW k \in Nat, k <= n
  PROVE  SubSeq(Bytes(a, n), 1, k) = Bytes(a, k)
<1> DEFINE s == Bytes(a, n)
           t == SubSeq(s, 1, k)
<1>1. /\ s \in Seq(Nat) /\ Len(s) = n /\ \A i \in 1..n : s[i] = a + i
  BY BytesAre
<1> HIDE DEF s
<1>2. t \in Seq(Nat) /\ Len(t) = k /\ \A i \in 1..k : t[i] = s[i]
  BY <1>1
<1> HIDE DEF t
<1>3. \A i \in 1..k : t[i] = a + i
  BY <1>1, <1>2
<1>4. t = Bytes(a, k)
  BY <1>2, <1>3, BytesEqual
<1> QED BY <1>4 DEF s, t

LEMMA BytesJoin ==
  ASSUME NEW a \in Nat, NEW m \in Nat, NEW n \in Nat
  PROVE  Bytes(a, m) \o Bytes(a + m, n) = Bytes(a, m + n)
<1> DEFINE s == Bytes(a, m)
           t == Bytes(a + m, n)
<1>1. s \in Seq(Nat) /\ Len(s) = m /\ \A i \in 1..m : s[i] = a + i
  BY BytesAre
<1>2. a + m \in Nat /\ m + n \in Nat
  OBVIOUS
<1>3. t \in Seq(Nat) /\ Len(t) = n /\ \A i \in 1..n : t[i] = (a + m) + i
  BY <1>2, BytesAre
<1> HIDE DEF s, t
<1>4. /\ s \o t \in Seq(Nat) /\ Len(s \o t) = Len(s) + Len(t)
      /\ \A i \in 1..(Len(s) + Len(t)) : (s \o t)[i] = IF i <= Len(s) THEN s[i] ELSE t[i - Len(s)]
  BY <1>1, <1>3, ConcatProperties
<1>5. ASSUME NEW i \in 1..(m + n) PROVE (s \o t)[i] = a + i
  <2>1. CASE i <= m
    BY <1>1, <1>3, <1>4, <2>1
  <2>2. CASE ~(i <= m)
    <3>1. i - m \in 1..n /\ (a + m) + (i - m) = a + i
      BY <2>2
    <3>2. (s \o t)[i] = t[i - m]
      BY <1>1, <1>3, <1>4, <2>2
    <3> QED BY <1>3, <3>1, <3>2
  <2> QED BY <2>1, <2>2
<1>6. s \o t = Bytes(a, m + n)
  BY <1>1, <1>2, <1>3, <1>4, <1>5, BytesEqual
<1> QED BY <1>6 DEF s, t

-----------------------------------------------------------------------------
(***************************************************************************)
(* The invariant of the receiver.  Told messages were delivered, which end *)
(* at Here.  What DoReceived() has in hand, beyond what it consumed, are   *)
(* the bytes from Here to x, and a length that is known is the one of the  *)
(* message that starts there.  Only in the second branch of OnReceived()   *)
(* does the buffer end before the last byte received: it holds exactly one *)
(* message, and the rest of the argument follows.                          *)
(***************************************************************************)
Told == Len(delivered)
Here == EndOf(Told)

StreamIs ==
  /\ ends \in Seq(Nat)
  /\ \A k \in 0..Len(ends) : EndOf(k) \in Nat
  /\ \A k \in 1..Len(ends) : LengthOf(k) \in FrameLengths
  /\ \A j, k \in 0..Len(ends) : j < k => EndOf(j) < EndOf(k)

ReceivedType ==
  /\ received \in Nat /\ received <= EndOf(Len(ends))
  /\ delivered \in Seq(Seq(Nat)) /\ consumed \in Nat /\ rlength \in Nat
  /\ receive_jam \in BOOLEAN /\ graceful \in BOOLEAN

IdleAt ==
  /\ Here <= received /\ rbuffer = Bytes(Here, received - Here)
  /\ received # Here => received - Here < LengthOf(Told + 1)
  /\ rlength # 0 => received # Here /\ rlength = LengthOf(Told + 1)
  /\ receive_jam <=> received # Here

LoopAt(x) ==
  /\ Here <= x /\ x <= received /\ consumed <= Here
  /\ buf = Bytes(Here - consumed, x - (Here - consumed))
  /\ rlength # 0 => x # Here /\ rlength = LengthOf(Told + 1)
  /\ receive_jam => x # Here
  /\ branch \in {"plain", "head", "rest", "moved"}
  /\ branch \in {"plain", "rest"} => rbuffer = <<>>
  /\ branch \in {"head", "moved"} => rbuffer = buf
  /\ branch # "head" => x = received
  /\ branch = "head" => /\ chunk = Bytes(x, received - x)
                        /\ x # Here => consumed = 0 /\ rlength = x - Here

ReceiverInv ==
  /\ StreamIs /\ ReceivedType /\ MessagesFramed
  /\ Idle => IdleAt
  /\ pc = "loop" => \E x \in Nat : LoopAt(x)

LEMMA ReceiverStart == Init => ReceiverInv
<1> SUFFICES ASSUME Init PROVE ReceiverInv
  OBVIOUS
<1>1. PICK n \in 1..MaxFrames : ends \in StreamsOf(n)
  BY DEF Init
<1>2. /\ ends \in [1..n -> 1..MaxBytes] /\ n \in Nat /\ n > 0
      /\ \A k \in 1..n : LengthOf(k) \in FrameLengths
      /\ \A j, k \in 0..n : j < k => EndOf(j) < EndOf(k)
  BY <1>1, ReceiverAssumption DEF StreamsOf, LengthOf, EndOf
<1>3. ends \in Seq(Nat) /\ Len(ends) = n
  <2>1. ends \in [1..n -> Nat]
    BY <1>2, ReceiverAssumption
  <2> QED BY <1>2, <2>1
<1>4. \A k \in 0..n : EndOf(k) \in Nat
  BY <1>2, <1>3 DEF EndOf, EndIn
<1>5. StreamIs
  BY <1>2, <1>3, <1>4 DEF StreamIs
<1>6. Told = 0 /\ Here = 0 /\ delivered \in Seq(Seq(Nat))
  BY DEF Init, Told, Here, EndOf, EndIn
<1>7. ReceivedType
  <2>1. n \in 0..n /\ 0 <= EndOf(n)
    BY <1>2, <1>4
  <2> QED BY <1>3, <1>6, <2>1 DEF ReceivedType, Init
<1>8. MessagesFramed
  BY <1>2, <1>3, <1>6 DEF MessagesFramed, Told
<1>9. IdleAt
  <2>1. <<>> = Bytes(0, 0)
    BY BytesAre
  <2> QED BY <1>6, <2>1 DEF IdleAt, Init
<1> QED BY <1>5, <1>7, <1>8, <1>9 DEF ReceiverInv, Init

\* Where the receiver is in the stream.
LEMMA Positions ==
  ASSUME ReceiverInv
  PROVE  /\ Len(ends) \in Nat /\ Told \in 0..Len(ends) /\ Told \in Nat /\ Here \in Nat /\ received \in Nat
         /\ \A x \in Nat : Here <= x /\ x <= received /\ x # Here =>
              /\ Told + 1 \in 1..Len(ends) /\ EndOf(Told + 1) = Here + LengthOf(Told + 1)
              /\ LengthOf(Told + 1) \in Nat /\ LengthOf(Told + 1) # 0
<1>1. StreamIs /\ ReceivedType /\ MessagesFramed
  BY DEF ReceiverInv
<1>2. Len(ends) \in Nat /\ Told \in 0..Len(ends) /\ Told \in Nat
  BY <1>1 DEF StreamIs, ReceivedType, MessagesFramed, Told
<1>3. Here \in Nat /\ received \in Nat /\ EndOf(Len(ends)) \in Nat /\ received <= EndOf(Len(ends))
  BY <1>1, <1>2 DEF StreamIs, ReceivedType, Here
<1>4. ASSUME NEW x \in Nat, Here <= x, x <= received, x # Here
      PROVE  /\ Told + 1 \in 1..Len(ends) /\ EndOf(Told + 1) = Here + LengthOf(Told + 1)
             /\ LengthOf(Told + 1) \in Nat /\ LengthOf(Told + 1) # 0
  <2>1. Told # Len(ends)
    BY <1>3, <1>4 DEF Here
  <2>2. Told + 1 \in 1..Len(ends) /\ Told + 1 \in 0..Len(ends) /\ (Told + 1) - 1 = Told
    BY <1>2, <2>1
  <2>3. LengthOf(Told + 1) = EndOf(Told + 1) - Here
    BY <2>2 DEF LengthOf, Here
  <2>4. LengthOf(Told + 1) \in Nat /\ LengthOf(Told + 1) # 0
    BY <1>1, <2>2, ReceiverAssumption DEF StreamIs
  <2>5. EndOf(Told + 1) \in Nat
    BY <1>1, <2>2 DEF StreamIs
  <2> QED BY <1>3, <2>2, <2>3, <2>4, <2>5
<1> QED BY <1>2, <1>3, <1>4

\* What DoReceived() has in hand, and the length that GetMessageLength() tells for it.
LEMMA InHand ==
  ASSUME ReceiverInv, NEW x \in Nat, LoopAt(x)
  PROVE  /\ Remaining = Bytes(Here, x - Here) /\ Len(Remaining) = x - Here /\ x - Here \in Nat
         /\ Remaining = <<>> <=> x = Here
         /\ x # Here => GetMessageLength(Remaining) =
                          IF x - Here >= Header \/ x - Here >= LengthOf(Told + 1) THEN LengthOf(Told + 1) ELSE 0
<1>1. StreamIs /\ ReceivedType /\ Here \in Nat /\ consumed \in Nat
  BY Positions DEF ReceiverInv, ReceivedType
<1>2. /\ Here <= x /\ x <= received /\ consumed <= Here
      /\ buf = Bytes(Here - consumed, x - (Here - consumed))
  BY DEF LoopAt
<1>3. /\ Here - consumed \in Nat /\ x - (Here - consumed) \in Nat /\ consumed <= x - (Here - consumed)
      /\ (Here - consumed) + consumed = Here /\ (x - (Here - consumed)) - consumed = x - Here
      /\ x - Here \in Nat
  BY <1>1, <1>2
<1>4. Remaining = Bytes(Here, x - Here)
  <2> DEFINE a == Here - consumed
             n == x - a
  <2>1. a \in Nat /\ n \in Nat /\ consumed <= n /\ a + consumed = Here /\ n - consumed = x - Here /\ buf = Bytes(a, n)
    BY <1>2, <1>3
  <2> HIDE DEF a, n
  <2>2. Left(Bytes(a, n), consumed) = Bytes(a + consumed, n - consumed)
    BY <1>1, <2>1, BytesLeft
  <2> QED BY <2>1, <2>2 DEF Remaining
<1>5. Len(Remaining) = x - Here /\ (Remaining = <<>> <=> x = Here)
  <2> DEFINE n == x - Here
  <2>1. n \in Nat /\ (n = 0 <=> x = Here)
    BY <1>1, <1>3
  <2>2. Remaining = Bytes(Here, n)
    BY <1>4
  <2> HIDE DEF n
  <2>3. Len(Remaining) = n /\ (Remaining = <<>> <=> n = 0)
    BY <1>1, <2>1, <2>2, BytesAre
  <2> QED BY <2>1, <2>3 DEF n
<1>6. ASSUME x # Here
      PROVE  GetMessageLength(Remaining) =
               IF x - Here >= Header \/ x - Here >= LengthOf(Told + 1) THEN LengthOf(Told + 1) ELSE 0
  <2>1. Told + 1 \in 1..Len(ends) /\ Told \in 0..Len(ends) /\ Len(ends) \in Nat /\ (Told + 1) - 1 = Told
    BY <1>2, <1>6, Positions
  <2>2. Remaining[1] = Here + 1
    <3> DEFINE n == x - Here
    <3>1. n \in Nat /\ 1 \in 1..n /\ Remaining = Bytes(Here, n)
      BY <1>1, <1>2, <1>4, <1>6
    <3> HIDE DEF n
    <3> QED BY <1>1, <3>1, BytesAre
  <2>3. ASSUME NEW i \in 1..Len(ends), EndOf(i - 1) + 1 = Here + 1 PROVE i = Told + 1
    <3>1. i - 1 \in 0..Len(ends)
      BY <2>1
    <3>2. EndOf(i - 1) \in Nat
      BY <1>1, <3>1 DEF StreamIs
    <3>3. EndOf(i - 1) = EndOf(Told)
      BY <1>1, <2>3, <3>2 DEF Here
    <3> DEFINE j == i - 1
    <3>4. j \in 0..Len(ends) /\ EndOf(j) \in Nat /\ EndOf(j) = EndOf(Told)
      BY <3>1, <3>2, <3>3
    <3> HIDE DEF j
    <3>5. ~(j < Told) /\ ~(Told < j)
      <4>1. j < Told => EndOf(j) < EndOf(Told)
        BY <1>1, <2>1, <3>4 DEF StreamIs
      <4>2. Told < j => EndOf(Told) < EndOf(j)
        BY <1>1, <2>1, <3>4 DEF StreamIs
      <4> QED BY <3>4, <4>1, <4>2
    <3>6. j = Told
      BY <2>1, <3>4, <3>5
    <3> QED BY <2>1, <3>6 DEF j
  <2>4. EndOf((Told + 1) - 1) + 1 = Here + 1
    BY <2>1 DEF Here
  <2> DEFINE k == CHOOSE i \in 1..Len(ends) : EndOf(i - 1) + 1 = Remaining[1]
  <2>5. k = Told + 1
    BY <2>1, <2>2, <2>3, <2>4
  <2>6. GetMessageLength(Remaining) =
          IF Len(Remaining) >= Header \/ Len(Remaining) >= LengthOf(k) THEN LengthOf(k) ELSE 0
    BY DEF GetMessageLength
  <2> HIDE DEF k
  <2> QED BY <1>5, <2>5, <2>6
<1> QED BY <1>3, <1>4, <1>5, <1>6

\* Nothing was delivered: the receiver is where it was.
LEMMA StreamKept ==
  ASSUME ReceiverInv, ends' = ends, delivered' = delivered
  PROVE  /\ Told' = Told /\ Here' = Here /\ StreamIs' /\ MessagesFramed'
         /\ LengthOf(Told + 1)' = LengthOf(Told + 1) /\ EndOf(Len(ends))' = EndOf(Len(ends))
<1>1. StreamIs /\ MessagesFramed
  BY DEF ReceiverInv
<1>2. \A k : EndIn(ends', k) = EndIn(ends, k)
  OBVIOUS
<1>3. Told' = Told /\ Here' = Here
  BY DEF Told, Here, EndOf
<1>4. StreamIs'
  BY <1>1 DEF StreamIs, EndOf, LengthOf
<1>5. MessagesFramed'
  BY <1>1 DEF MessagesFramed, Frame, EndOf, LengthOf
<1>6. LengthOf(Told + 1)' = LengthOf(Told + 1) /\ EndOf(Len(ends))' = EndOf(Len(ends))
  BY DEF LengthOf, EndOf, Told
<1> QED BY <1>3, <1>4, <1>5, <1>6

\* OnReceived() begins, in each of its three branches, with what was kept and what is new.
LEMMA ReceiveKeeps ==
  ASSUME ReceiverInv, NEW n \in Nat, n # 0, Receive(n)
  PROVE  ReceiverInv'
<1> DEFINE c == Bytes(received, n)
           held == received - Here
<1>1. StreamIs /\ ReceivedType /\ IdleAt
  BY DEF ReceiverInv, Receive, Idle
<1>2. /\ received' = received + n /\ received + n <= EndOf(Len(ends)) /\ OnReceived(c)
      /\ UNCHANGED <<ends, rlength, receive_jam, graceful, delivered>>
  BY DEF Receive
<1>3. /\ Here \in Nat /\ received \in Nat /\ rlength \in Nat /\ held \in Nat /\ Here + held = received
      /\ Here <= received /\ (held = 0 <=> received = Here)
  BY <1>1, Positions DEF IdleAt, ReceivedType
<1>4. /\ rbuffer = Bytes(Here, held)
      /\ rlength # 0 => held # 0 /\ held < rlength /\ rlength = LengthOf(Told + 1)
  BY <1>1, <1>3 DEF IdleAt
<1>5. rbuffer = <<>> <=> held = 0
  <2> HIDE DEF held
  <2> QED BY <1>3, <1>4, BytesAre
<1>6. Len(rbuffer) = held /\ Len(c) = n
  <2> HIDE DEF held
  <2> QED BY <1>3, <1>4, BytesAre
<1>7. /\ Told' = Told /\ Here' = Here /\ StreamIs' /\ MessagesFramed'
      /\ LengthOf(Told + 1)' = LengthOf(Told + 1) /\ EndOf(Len(ends))' = EndOf(Len(ends))
  BY <1>2, StreamKept
<1>8. pc' = "loop" /\ consumed' = 0
  BY <1>2 DEF OnReceived, Call
<1>9. ReceivedType'
  BY <1>1, <1>2, <1>3, <1>7, <1>8 DEF ReceivedType
<1>10. PICK y \in Nat : y = received + n
  BY <1>3
<1>11. received' = y /\ Here <= y /\ y # Here /\ y - (Here - 0) = held + n /\ Here - 0 = Here
  BY <1>2, <1>3, <1>10
<1>12. \A x \in Nat : LoopAt(x)' => ReceiverInv'
  BY <1>7, <1>8, <1>9 DEF ReceiverInv, Idle
<1>13. CASE rbuffer = <<>> /\ Call(c, "plain") /\ rbuffer' = rbuffer
  <2>1. branch' = "plain" /\ buf' = c /\ received = Here /\ rlength = 0 /\ held = 0 /\ held + n = n
    BY <1>3, <1>4, <1>5, <1>13 DEF Call
  <2>2. buf' = Bytes(Here - 0, y - (Here - 0))
    BY <1>11, <2>1
  <2> HIDE DEF c, held
  <2>3. LoopAt(y)'
    BY <1>2, <1>3, <1>7, <1>8, <1>11, <1>13, <2>1, <2>2 DEF LoopAt
  <2> QED BY <1>12, <2>3
<1>14. CASE /\ rbuffer # <<>> /\ Completes(c)
            /\ rbuffer' = rbuffer \o SubSeq(c, 1, rlength - Len(rbuffer))
            /\ Call(rbuffer', "head") /\ chunk' = Left(c, rlength - Len(rbuffer))
  <2>1. rlength # 0 /\ rlength <= held + n /\ branch' = "head" /\ buf' = rbuffer'
    BY <1>6, <1>14 DEF Completes, Call
  <2>2. PICK k \in Nat : k = rlength - held
    BY <1>3, <1>4, <2>1
  <2>3. PICK x \in Nat : x = Here + rlength
    BY <1>3
  <2>4. /\ k <= n /\ held + k = rlength /\ received + k = x /\ n - k = y - x
        /\ Here <= x /\ x <= y /\ x # Here /\ x - (Here - 0) = rlength /\ x - Here = rlength
    BY <1>3, <1>4, <1>10, <2>1, <2>2, <2>3
  <2>5. rbuffer' = rbuffer \o SubSeq(c, 1, k) /\ chunk' = Left(c, k)
    BY <1>6, <1>14, <2>2
  <2> HIDE DEF held
  <2>6. SubSeq(c, 1, k) = Bytes(received, k)
    BY <1>3, <2>4, BytesTaken
  <2>7. Left(c, k) = Bytes(received + k, n - k)
    BY <1>3, <2>4, BytesLeft
  <2>8. Bytes(Here, held) \o Bytes(Here + held, k) = Bytes(Here, held + k)
    <3>1. Here \in Nat /\ held \in Nat
      BY <1>3
    <3> QED BY <3>1, BytesJoin, ZenonT(40)
  <2>9. rbuffer' = Bytes(Here, rlength)
    BY <1>3, <1>4, <2>4, <2>5, <2>6, <2>8
  <2>10. chunk' = Bytes(x, y - x)
    BY <2>4, <2>5, <2>7
  <2> HIDE DEF c
  <2>11. buf' = Bytes(Here - 0, x - (Here - 0))
    BY <1>11, <2>1, <2>4, <2>9
  <2>12. LoopAt(x)'
    <3>1. Here' <= x /\ x <= received' /\ consumed' <= Here' /\ x # Here'
      BY <1>3, <1>7, <1>8, <1>11, <2>4
    <3>2. buf' = Bytes(Here' - consumed', x - (Here' - consumed')) /\ chunk' = Bytes(x, received' - x)
      BY <1>7, <1>8, <1>11, <2>10, <2>11
    <3>3. rlength' = LengthOf(Told + 1)' /\ consumed' = 0 /\ rlength' = x - Here'
      BY <1>2, <1>4, <1>7, <1>8, <2>1, <2>4
    <3> QED BY <2>1, <3>1, <3>2, <3>3 DEF LoopAt
  <2> QED BY <1>12, <2>12
<1>15. CASE rbuffer # <<>> /\ ~Completes(c) /\ rbuffer' = rbuffer \o c /\ Call(rbuffer', "moved")
  <2>1. branch' = "moved" /\ buf' = rbuffer'
    BY <1>15 DEF Call
  <2> HIDE DEF held
  <2>2. Bytes(Here, held) \o Bytes(Here + held, n) = Bytes(Here, held + n)
    <3>1. Here \in Nat /\ held \in Nat
      BY <1>3
    <3> QED BY <3>1, BytesJoin, Zenon
  <2>3. buf' = Bytes(Here - 0, y - (Here - 0))
    BY <1>3, <1>4, <1>11, <1>15, <2>1, <2>2
  <2> HIDE DEF c
  <2>4. LoopAt(y)'
    BY <1>2, <1>3, <1>4, <1>7, <1>8, <1>11, <2>1, <2>3 DEF LoopAt
  <2> QED BY <1>12, <2>4
<1> QED BY <1>2, <1>13, <1>14, <1>15 DEF OnReceived

LEMMA DiscardKeeps ==
  ASSUME ReceiverInv, NEW n \in Nat, ReceiveDiscarded(n)
  PROVE  ReceiverInv'
<1>1. /\ received' = received + n /\ received + n <= EndOf(Len(ends)) /\ graceful /\ pc = "idle"
      /\ UNCHANGED <<ends, pc, consumed, rlength, receive_jam, graceful, delivered>>
  BY DEF ReceiveDiscarded
<1>2. StreamIs' /\ MessagesFramed' /\ EndOf(Len(ends))' = EndOf(Len(ends))
  BY <1>1, StreamKept
<1>3. ReceivedType'
  BY <1>1, <1>2 DEF ReceiverInv, ReceivedType
<1> QED BY <1>1, <1>2, <1>3 DEF ReceiverInv, Idle

LEMMA LengthKeeps ==
  ASSUME ReceiverInv, LoopLength
  PROVE  ReceiverInv'
<1>1. PICK x \in Nat : LoopAt(x)
  BY DEF ReceiverInv, LoopLength, Looping
<1>2. /\ pc = "loop" /\ Remaining # <<>> /\ rlength = 0 /\ rlength' = GetMessageLength(Remaining) /\ rlength' # 0
      /\ UNCHANGED <<ends, received, pc, branch, chunk, buf, consumed, rbuffer, receive_jam, graceful, delivered>>
  BY DEF LoopLength, Looping
<1>3. x # Here /\ rlength' = LengthOf(Told + 1)
  BY <1>1, <1>2, InHand
<1>4. /\ Told' = Told /\ Here' = Here /\ StreamIs' /\ MessagesFramed'
      /\ LengthOf(Told + 1)' = LengthOf(Told + 1) /\ EndOf(Len(ends))' = EndOf(Len(ends))
  BY <1>2, StreamKept
<1>5. LengthOf(Told + 1) \in Nat
  BY <1>1, <1>3, Positions DEF LoopAt
<1>6. ReceivedType'
  BY <1>2, <1>3, <1>4, <1>5 DEF ReceiverInv, ReceivedType
<1>7. branch # "head"
  BY <1>1, <1>2, <1>3, Positions DEF LoopAt
<1>8. LoopAt(x)'
  BY <1>1, <1>2, <1>3, <1>4, <1>7 DEF LoopAt
<1> QED BY <1>2, <1>4, <1>6, <1>8 DEF ReceiverInv, Idle

\* OnMessage() is given the next message of the stream, and the receiver goes on behind it.
LEMMA MessageKeeps ==
  ASSUME ReceiverInv, NEW next \in {"keep", "close"}, NEW disconnect \in BOOLEAN,
         LoopMessage(next, disconnect)
  PROVE  ReceiverInv'
<1>1. PICK x \in Nat : LoopAt(x)
  BY DEF ReceiverInv, LoopMessage, Looping
<1>2. /\ pc = "loop" /\ Remaining # <<>> /\ rlength # 0 /\ rlength <= Len(Remaining) /\ receive_jam' = FALSE
      /\ delivered' = Append(delivered, SubSeq(Remaining, 1, rlength)) /\ graceful' = (graceful \/ disconnect)
      /\ \/ pc' = "loop" /\ consumed' = consumed + rlength /\ rlength' = 0
         \/ pc' = "over" /\ consumed' = consumed /\ rlength' = rlength
      /\ UNCHANGED <<ends, received, branch, chunk, buf, rbuffer>>
  BY DEF LoopMessage, Looping
<1>3. StreamIs /\ ReceivedType /\ MessagesFramed
  BY DEF ReceiverInv
<1>4. /\ Remaining = Bytes(Here, x - Here) /\ Len(Remaining) = x - Here /\ x - Here \in Nat /\ x # Here
  BY <1>1, <1>2, InHand
<1>5. /\ Here <= x /\ x <= received /\ consumed <= Here /\ rlength = LengthOf(Told + 1)
  BY <1>1, <1>2 DEF LoopAt
<1>6. /\ Told \in Nat /\ Here \in Nat /\ Len(ends) \in Nat
      /\ Told + 1 \in 1..Len(ends) /\ EndOf(Told + 1) = Here + rlength /\ rlength \in Nat
  BY <1>4, <1>5, Positions
<1>7. SubSeq(Remaining, 1, rlength) = Bytes(Here, rlength)
  <2>1. PICK n \in Nat : n = x - Here
    BY <1>4
  <2>2. Remaining = Bytes(Here, n) /\ rlength <= n
    BY <1>2, <1>4, <2>1
  <2> QED BY <1>6, <2>2, BytesTaken
<1>8. Frame(Told + 1) = Bytes(Here, rlength)
  BY <1>5, <1>6 DEF Frame, Here
<1>9. /\ delivered' \in Seq(Seq(Nat)) /\ Len(delivered') = Told + 1
      /\ delivered'[Told + 1] = Frame(Told + 1) /\ \A k \in 1..Told : delivered'[k] = delivered[k]
  <2>1. Bytes(Here, rlength) \in Seq(Nat)
    BY <1>6, BytesAre
  <2>2. delivered' = Append(delivered, Bytes(Here, rlength)) /\ delivered \in Seq(Seq(Nat))
    BY <1>2, <1>3, <1>7 DEF ReceivedType
  <2> QED BY <1>8, <2>1, <2>2 DEF Told
<1>10. Told' = Told + 1 /\ Here' = Here + rlength
  BY <1>2, <1>6, <1>9 DEF Told, Here, EndOf
<1>11. StreamIs' /\ EndOf(Len(ends))' = EndOf(Len(ends))
  BY <1>2, <1>3 DEF StreamIs, EndOf, LengthOf
<1>12. MessagesFramed'
  <2>1. \A k : Frame(k)' = Frame(k)
    BY <1>2 DEF Frame, EndOf, LengthOf
  <2>2. ASSUME NEW k \in 1..Len(delivered') PROVE delivered'[k] = Frame(k)
    <3>1. k \in 1..Told \/ k = Told + 1
      BY <1>6, <1>9
    <3> QED BY <1>3, <1>9, <3>1 DEF MessagesFramed, Told
  <2> QED BY SMTT(30), <1>2, <1>6, <1>9, <2>1, <2>2 DEF MessagesFramed
<1>13. ReceivedType'
  <2>1. graceful' \in BOOLEAN /\ receive_jam' \in BOOLEAN
    BY <1>2
  <2>2. consumed \in Nat /\ received \in Nat /\ received <= EndOf(Len(ends))
    BY <1>3 DEF ReceivedType
  <2>3. consumed' \in Nat /\ rlength' \in Nat
    <3>1. CASE consumed' = consumed + rlength /\ rlength' = 0
      BY <1>6, <2>2, <3>1
    <3>2. CASE consumed' = consumed /\ rlength' = rlength
      BY <1>6, <2>2, <3>2
    <3> QED BY <1>2, <3>1, <3>2
  <2>4. received' = received /\ EndOf(Len(ends))' = EndOf(Len(ends))
    BY <1>2, <1>11
  <2>5. delivered' \in Seq(Seq(Nat))
    BY <1>9
  <2> QED BY <2>1, <2>2, <2>3, <2>4, <2>5 DEF ReceivedType
<1>14. CASE pc' = "over"
  BY <1>11, <1>12, <1>13, <1>14 DEF ReceiverInv, Idle
<1>15. CASE pc' = "loop" /\ consumed' = consumed + rlength /\ rlength' = 0
  <2>1. consumed \in Nat
    BY <1>3 DEF ReceivedType
  <2>2. /\ Here' <= x /\ consumed' <= Here' /\ Here' - consumed' = Here - consumed
    <3>1. rlength <= x - Here
      BY <1>2, <1>4
    <3>2. Here \in Nat /\ rlength \in Nat /\ consumed <= Here
      BY <1>5, <1>6
    <3>3. Here' = Here + rlength /\ consumed' = consumed + rlength
      BY <1>10, <1>15
    <3> QED BY <2>1, <3>1, <3>2, <3>3
  <2>3. branch = "head" => x = Here'
    BY <1>1, <1>4, <1>6, <1>10 DEF LoopAt
  <2>4. LoopAt(x)'
    BY <1>1, <1>2, <1>15, <2>2, <2>3 DEF LoopAt
  <2> QED BY <1>11, <1>12, <1>13, <1>15, <2>4 DEF ReceiverInv, Idle
<1> QED BY <1>2, <1>14, <1>15

\* DoReceived() returns to OnReceived(), which keeps what is left, or goes on with the rest of
\* its argument.
LEMMA ReturnKeeps ==
  ASSUME ReceiverInv, ReturnPlain \/ ReturnHead \/ ReturnMoved
  PROVE  ReceiverInv'
<1>1. /\ pc = "loop" /\ Finished /\ receive_jam' = (receive_jam \/ Remaining # <<>>) /\ consumed' = 0
      /\ UNCHANGED <<ends, received, rlength, graceful, delivered>>
  BY DEF ReturnPlain, ReturnHead, ReturnMoved, LoopBreak, Call
<1>2. PICK x \in Nat : LoopAt(x)
  BY <1>1 DEF ReceiverInv
<1>3. StreamIs /\ ReceivedType /\ Here \in Nat
  BY Positions DEF ReceiverInv
<1>4. /\ Remaining = Bytes(Here, x - Here) /\ Len(Remaining) = x - Here /\ x - Here \in Nat
      /\ Remaining = <<>> <=> x = Here
      /\ x # Here => GetMessageLength(Remaining) =
                       IF x - Here >= Header \/ x - Here >= LengthOf(Told + 1) THEN LengthOf(Told + 1) ELSE 0
  BY <1>2, InHand
<1>5. /\ Here <= x /\ x <= received /\ (rlength # 0 => x # Here /\ rlength = LengthOf(Told + 1))
      /\ receive_jam => x # Here
  BY <1>2 DEF LoopAt
<1>6. x # Here => LengthOf(Told + 1) \in Nat /\ LengthOf(Told + 1) # 0
  BY <1>5, Positions
<1>7. x # Here => x - Here < LengthOf(Told + 1)
  BY <1>1, <1>4, <1>5, <1>6, ReceiverAssumption DEF Finished
<1>8. /\ Told' = Told /\ Here' = Here /\ StreamIs' /\ MessagesFramed'
      /\ LengthOf(Told + 1)' = LengthOf(Told + 1) /\ EndOf(Len(ends))' = EndOf(Len(ends))
  BY <1>1, StreamKept
<1>9. ReceivedType'
  <2>1. receive_jam' \in BOOLEAN
    BY <1>1
  <2> QED BY <1>1, <1>3, <1>8, <2>1 DEF ReceivedType
<1>10. receive_jam' <=> x # Here
  BY <1>1, <1>3, <1>4, <1>5 DEF ReceivedType
<1>11. ASSUME pc' = "idle", x = received, rbuffer' = Remaining PROVE ReceiverInv'
  <2>1. IdleAt'
    BY <1>1, <1>4, <1>5, <1>7, <1>8, <1>10, <1>11 DEF IdleAt
  <2> QED BY <1>8, <1>9, <1>11, <2>1 DEF ReceiverInv, Idle
<1>12. CASE ReturnPlain
  <2>1. pc' = "idle" /\ rbuffer' = rbuffer \o Remaining /\ rbuffer = <<>> /\ x = received
    BY <1>2, <1>12 DEF ReturnPlain, KeepRemaining, LoopAt
  <2>2. Remaining \in Seq(Nat)
    <3>1. PICK n \in Nat : n = x - Here
      BY <1>4
    <3> QED BY <1>3, <1>4, <3>1, BytesAre
  <2>3. rbuffer' = Remaining
    BY <2>1, <2>2, ConcatEmptySeq
  <2> QED BY <1>11, <2>1, <2>3
<1>13. CASE ReturnMoved
  <2>1. pc' = "idle" /\ rbuffer' = Left(rbuffer, consumed) /\ rbuffer = buf /\ x = received
    BY <1>2, <1>13 DEF ReturnMoved, LoopAt
  <2>2. rbuffer' = Remaining
    BY <2>1 DEF Remaining
  <2> QED BY <1>11, <2>1, <2>2
<1>14. CASE ReturnHead
  <2>1. /\ branch = "head" /\ rbuffer' = <<>>
        /\ \/ chunk # <<>> /\ pc' = "loop" /\ branch' = "rest" /\ buf' = chunk
           \/ chunk = <<>> /\ pc' = "idle"
    BY <1>14 DEF ReturnHead, LoopBreak, Call
  <2>2. x = Here
    BY <1>1, <1>2, <1>4, <1>7, <2>1 DEF LoopAt
  <2>3. chunk = Bytes(Here, received - Here) /\ rlength = 0 /\ ~receive_jam'
    BY <1>2, <1>5, <1>10, <2>1, <2>2 DEF LoopAt
  <2>4. PICK n \in Nat : n = received - Here
    BY <1>3, <1>5, <2>2 DEF ReceivedType
  <2>5. chunk = <<>> <=> n = 0
    BY <1>3, <2>3, <2>4, BytesAre
  <2>6. CASE chunk = <<>> /\ pc' = "idle"
    <3>1. received = x
      BY <1>3, <2>2, <2>4, <2>5, <2>6 DEF ReceivedType
    <3>2. rbuffer' = Remaining
      BY <1>4, <2>1, <2>2
    <3> QED BY <1>11, <2>6, <3>1, <3>2
  <2>7. CASE chunk # <<>> /\ pc' = "loop" /\ branch' = "rest" /\ buf' = chunk
    <3>1. PICK y \in Nat : y = received
      BY <1>3 DEF ReceivedType
    <3>2. /\ Here' <= y /\ y <= received' /\ consumed' <= Here' /\ consumed' = 0 /\ y = received'
          /\ Here' - consumed' = Here
      BY <1>1, <1>3, <1>5, <1>8, <3>1
    <3>3. buf' = Bytes(Here' - consumed', y - (Here' - consumed')) /\ rlength' = 0
      BY <1>1, <2>3, <2>7, <3>1, <3>2
    <3>4. LoopAt(y)'
      BY <2>1, <2>3, <2>7, <3>2, <3>3 DEF LoopAt
    <3> QED BY <1>8, <1>9, <2>7, <3>4 DEF ReceiverInv, Idle
  <2> QED BY <2>1, <2>6, <2>7
<1> QED BY <1>12, <1>13, <1>14

LEMMA ReceiverStep == ReceiverInv /\ [Next]_vars => ReceiverInv'
<1> SUFFICES ASSUME ReceiverInv, [Next]_vars PROVE ReceiverInv'
  OBVIOUS
<1>1. CASE UNCHANGED vars
  <2>1. /\ UNCHANGED <<ends, received, pc, branch, chunk, buf, consumed, rbuffer, rlength, receive_jam,
                       graceful, delivered>>
    BY <1>1 DEF vars
  <2>2. /\ Told' = Told /\ Here' = Here /\ StreamIs' /\ MessagesFramed'
        /\ LengthOf(Told + 1)' = LengthOf(Told + 1) /\ EndOf(Len(ends))' = EndOf(Len(ends))
    BY <2>1, StreamKept
  <2>3. ReceivedType' /\ (Idle => IdleAt)'
    BY <2>1, <2>2 DEF ReceiverInv, ReceivedType, Idle, IdleAt
  <2>4. \A x \in Nat : LoopAt(x) => LoopAt(x)'
    BY <2>1, <2>2 DEF LoopAt
  <2> QED BY <2>1, <2>2, <2>3, <2>4 DEF ReceiverInv
<1>2. ASSUME NEW n \in 1..EndOf(Len(ends)), Receive(n) \/ ReceiveDiscarded(n) PROVE ReceiverInv'
  <2>1. n \in Nat /\ n # 0
    BY DEF ReceiverInv, StreamIs
  <2> QED BY <1>2, <2>1, ReceiveKeeps, DiscardKeeps
<1>3. CASE LoopInvalid
  <2>1. pc' = "over" /\ UNCHANGED <<ends, received, consumed, rlength, receive_jam, graceful, delivered>>
    BY <1>3 DEF LoopInvalid
  <2>2. StreamIs' /\ MessagesFramed' /\ EndOf(Len(ends))' = EndOf(Len(ends))
    BY <2>1, StreamKept
  <2> QED BY <2>1, <2>2 DEF ReceiverInv, ReceivedType, Idle
<1>4. ASSUME NEW next \in {"keep", "close"}, NEW disconnect \in BOOLEAN, LoopMessage(next, disconnect)
      PROVE  ReceiverInv'
  BY <1>4, MessageKeeps
<1>5. CASE Over
  BY <1>1, <1>5 DEF Over
<1>6. CASE Next
  BY <1>2, <1>3, <1>4, <1>5, <1>6, LengthKeeps, ReturnKeeps DEF Next
<1> QED BY <1>1, <1>6

\* However the bytes of the stream are cut by the reads, the handler is given the messages of
\* the peer, in order and whole; after OnReceived() nothing is lost, no whole message is kept
\* back, _rlength is the length of the message that is incomplete, and the receive timeout runs
\* if there is one.
THEOREM StreamIsFramed == Spec => []Framing
<1>1. ReceiverInv => Framing
  <2> SUFFICES ASSUME ReceiverInv PROVE Framing
    OBVIOUS
  <2>1. Here \in Nat /\ received \in Nat
    BY Positions
  <2>2. ASSUME Idle PROVE NothingLost /\ DeliveredAtOnce /\ JamWhileIncomplete
    <3>1. IdleAt
      BY <2>2 DEF ReceiverInv
    <3>2. PICK n \in Nat : n = received - Here
      BY <2>1, <3>1 DEF IdleAt
    <3>3. rbuffer = Bytes(Here, n)
      BY <3>1, <3>2 DEF IdleAt
    <3>4. Len(rbuffer) = n /\ (rbuffer = <<>> <=> n = 0)
      BY <2>1, <3>3, BytesAre
    <3>5. n = 0 <=> received = Here
      BY <2>1, <3>2
    <3> QED BY <3>1, <3>2, <3>3, <3>4, <3>5
            DEF NothingLost, DeliveredAtOnce, JamWhileIncomplete, IdleAt, Told, Here
  <2>3. NothingLost /\ DeliveredAtOnce /\ JamWhileIncomplete
    BY <2>2 DEF NothingLost, DeliveredAtOnce, JamWhileIncomplete
  <2> QED BY <2>3 DEF Framing, ReceiverInv
<1> QED BY <1>1, ReceiverStart, ReceiverStep, PTL DEF Spec

=============================================================================
