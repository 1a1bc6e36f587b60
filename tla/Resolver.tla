------------------------------ MODULE Resolver ------------------------------
(***************************************************************************)
(* flinter/linkage/resolver.cpp for one name of one family: threads that   *)
(* look it up in the cache, one of which asks getaddrinfo() without the    *)
(* mutex when the entry is older than kRefreshTime, while others wait.     *)
(* An entry is known by its address, because those who wait keep it.       *)
(***************************************************************************)
EXTENDS Integers, Sequences, FiniteSets, SequencesExt

CONSTANTS
  Callers,       \* threads that call Resolve()
  Addresses,     \* of the name
  Refresh, Expiry,   \* kRefreshTime, which is also kAgingInterval, and kCacheExpire
  ClearAnytime,  \* Clear() is called even while others wait
  MaxTime, MaxEntries  \* bounds: time, and entries made

ASSUME ResolverAssumption ==
  /\ IsFiniteSet(Addresses) /\ Refresh \in Nat /\ Expiry \in Nat /\ ClearAnytime \in BOOLEAN
  /\ MaxTime \in Nat /\ MaxEntries \in Nat

VARIABLES
  now, aged,     \* get_monotonic_timestamp() and _last_aging
  table,         \* the entry of the name: its address, 0 for none
  used,          \* addresses used so far
  entry,         \* address -> [addr, resolved, resolving, current]
  dead,          \* addresses that were deleted
  rpc,           \* caller -> "idle", "enter", "loop", "wait", "ask", "back", "done"
  started,       \* caller -> its own `now'
  mine           \* caller -> the entry it works with

resolverVars == <<now, aged, table, used, entry, dead, rpc, started, mine>>

\* What getaddrinfo() may say: the addresses in some order, or no such name.
Answers == {<<>>} \cup SetToSeqs(Addresses)

NewEntry == [addr |-> <<>>, resolved |-> -1, resolving |-> FALSE, current |-> -1]
Deadline(t) == started[t] - Refresh

ResolverInit ==
  /\ now = Expiry /\ aged = Expiry /\ table = 0 /\ used = 0 /\ entry = << >> /\ dead = {}
  /\ rpc = [t \in Callers |-> "idle"] /\ started = [t \in Callers |-> 0]
  /\ mine = [t \in Callers |-> 0]

-----------------------------------------------------------------------------
\* DoResolve() reads the time before it takes the mutex.
DoResolve(t) ==
  /\ rpc[t] \in {"idle", "done"} /\ rpc' = [rpc EXCEPT ![t] = "enter"]
  /\ started' = [started EXCEPT ![t] = now]
  /\ UNCHANGED <<now, aged, table, used, entry, dead, mine>>

\* Pick(): kFirst, kSequential, kRandom.
Picks(c) ==
  IF c.addr = <<>> THEN {c.current}
  ELSE IF Len(c.addr) = 1 THEN {0} ELSE {0, (c.current + 1) % Len(c.addr)} \cup 0..(Len(c.addr) - 1)

\* The loop of DoResolve() under the mutex, with entries es and the entry c: it waits for
\* another caller, goes to ask, or picks an address.
Loop(t, es, c) ==
  LET e == es[c]
      stale == e.resolved < 0 \/ e.resolved < Deadline(t)
  IN \/ stale /\ e.resolving /\ rpc' = [rpc EXCEPT ![t] = "wait"] /\ entry' = es
     \/ stale /\ ~e.resolving /\ rpc' = [rpc EXCEPT ![t] = "ask"]
        /\ entry' = [es EXCEPT ![c].resolving = TRUE]
     \/ ~stale /\ rpc' = [rpc EXCEPT ![t] = "done"]
        /\ \E i \in Picks(e) : entry' = [es EXCEPT ![c].current = i]

\* Mutant: an old entry goes, whoever asks for it.
TooOldOnly(t) ==
  table # 0 /\ started[t] - aged >= Refresh /\ entry[table].resolved < started[t] - Expiry

\* Aging(): the entry is deleted if nobody asks for it and it is too old.
TooOld(t) ==
  /\ table # 0 /\ started[t] - aged >= Refresh
  /\ ~entry[table].resolving /\ entry[table].resolved < started[t] - Expiry

\* Aging(), and the entry is found or made.
Enter(t) ==
  /\ rpc[t] = "enter"
  /\ aged' = IF started[t] - aged < Refresh THEN aged ELSE started[t]
  /\ IF TooOld(t) \/ table = 0
     THEN /\ used < MaxEntries /\ used' = used + 1 /\ table' = used + 1
          /\ dead' = IF table = 0 THEN dead ELSE dead \cup {table}
          /\ Loop(t, Append(entry, NewEntry), used + 1)
     ELSE UNCHANGED <<used, table, dead>> /\ Loop(t, entry, table)
  /\ mine' = [mine EXCEPT ![t] = table'] /\ UNCHANGED <<now, started>>

\* _condition.Wait() returns when the entry is not being resolved.
Wake(t) ==
  /\ rpc[t] = "wait" /\ ~entry[mine[t]].resolving /\ Loop(t, entry, mine[t])
  /\ UNCHANGED <<now, aged, table, used, dead, started, mine>>

\* DoResolve_getaddrinfo() and Cache::Set(), without the mutex; the same addresses are kept
\* in the order they have.
Ask(t, answer) ==
  /\ rpc[t] = "ask" /\ rpc' = [rpc EXCEPT ![t] = "back"]
  /\ entry' = IF answer = <<>> \/ ToSet(answer) # ToSet(entry[mine[t]].addr)
              THEN [entry EXCEPT ![mine[t]].addr = answer, ![mine[t]].current = -1] ELSE entry
  /\ UNCHANGED <<now, aged, table, used, dead, started, mine>>

\* Mutant: the caller does not let others ask again.
BackForgets(t) ==
  /\ rpc[t] = "back" /\ Loop(t, [entry EXCEPT ![mine[t]].resolved = now], mine[t])
  /\ UNCHANGED <<now, aged, table, used, dead, started, mine>>

\* The mutex is taken back, and the others are woken.  (When getaddrinfo() failed the loop
\* asks again before it lets go of the mutex: that changes nothing.)
Back(t) ==
  /\ rpc[t] = "back"
  /\ Loop(t, [entry EXCEPT ![mine[t]].resolving = FALSE, ![mine[t]].resolved = now], mine[t])
  /\ UNCHANGED <<now, aged, table, used, dead, started, mine>>

\* Those who were woken and have not got the mutex yet.
Woken == {t \in Callers : rpc[t] = "wait" /\ ~entry[mine[t]].resolving}

\* Clear(): the entry is deleted unless somebody asks.
Clear ==
  /\ table # 0 /\ ~entry[table].resolving
  /\ ClearAnytime \/ Woken = {}
  /\ dead' = dead \cup {table} /\ table' = 0
  /\ UNCHANGED <<now, aged, used, entry, rpc, started, mine>>

\* Time: those who were woken run within kCacheExpire.
Tick ==
  /\ now < MaxTime /\ Woken = {} /\ now' = now + 1
  /\ UNCHANGED <<aged, table, used, entry, dead, rpc, started, mine>>

ResolverNext ==
  \/ \E t \in Callers :
       \/ DoResolve(t) \/ Enter(t) \/ Wake(t) \/ Back(t) \/ \E answer \in Answers : Ask(t, answer)
  \/ Clear \/ Tick

\* Threads run, the mutex and the condition are fair, and a name server answers in the end.
ResolverFairness ==
  \A t \in Callers :
    /\ WF_resolverVars(Enter(t)) /\ WF_resolverVars(Back(t)) /\ SF_resolverVars(Wake(t))
    /\ WF_resolverVars(\E answer \in Answers : Ask(t, answer))

ResolverSpec == ResolverInit /\ [][ResolverNext]_resolverVars /\ ResolverFairness

-----------------------------------------------------------------------------
\* An entry that some caller waits for, or asks for, is not deleted under it (unless
\* Clear() runs between its waking and its getting the mutex); one caller asks for an entry
\* at a time, because it writes the entry without the mutex; and what is picked exists.
EntriesSafe ==
  /\ \A t \in Callers : rpc[t] \in {"wait", "ask", "back"} => mine[t] \notin dead
  /\ \A t, u \in Callers :
       rpc[t] \in {"ask", "back"} /\ rpc[u] \in {"ask", "back"} /\ mine[t] = mine[u] => t = u
  /\ \A c \in 1..used : entry[c].current < Len(entry[c].addr)

\* Every call of Resolve() that asks, or waits for another one, returns if the name server
\* answers in the end.
ResolveReturns == \A t \in Callers : rpc[t] \in {"wait", "ask", "back"} ~> rpc[t] = "done"

\* What does not hold: nobody picks from an entry that another one is writing.  A caller that
\* read the time before its deadline passed may pick after another one found the entry stale.
PicksSettled ==
  [][\A t \in Callers : rpc[t] # "done" /\ rpc'[t] = "done" => ~entry'[mine'[t]].resolving]_resolverVars

=============================================================================
