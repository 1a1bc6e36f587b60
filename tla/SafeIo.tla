------------------------------- MODULE SafeIo -------------------------------
(***************************************************************************)
(* flinter/safeio.c: system calls that survive signals and give up in time *)
(* though a signal, another thread or a slow peer keeps interrupting them. *)
(* Threads call them on one descriptor, whose O_NONBLOCK flag they share   *)
(* and the timed calls set and put back.  Time passes in poll(2) and in a  *)
(* call that blocks; the steps between system calls take none.             *)
(***************************************************************************)
EXTENDS Integers

CONSTANTS
  Callers,        \* threads
  Milliseconds,   \* the timeout of a timed call
  Count,          \* the most bytes asked for
  MaxCredit,      \* bound: bytes, room or connections the kernel holds for the descriptor
  Alone           \* no call on a blocking descriptor while another thread's is under way

Ops == [in |-> {"read", "read_all"}, out |-> {"write", "write_all"},
        listen |-> {"accept"}, connect |-> {"connect"}]

VARIABLES
  kind,       \* what the descriptor is used for
  nonblock,   \* O_NONBLOCK
  credit,     \* bytes to read, room to write, connections to accept, or 1: connected
  hup,        \* the peer has closed, or refused
  call,       \* caller -> the locals of its call
  ret,        \* caller -> what its last call returned, and the bytes the kernel moved for it
  sockets     \* caller -> descriptors safe_resolve_and_connect() left open

ioVars == <<kind, nonblock, credit, hup, call, ret, sockets>>

\* phase: "direct" (no timeout), "poll", or "ready" (poll said so); flag: O_NONBLOCK as F_GETFL
\* gave it; budget: start + milliseconds - now; wait: what is left of the timeout of poll();
\* remain and result as in the code; moved: the bytes the kernel has moved for this call.
Idle == [op |-> "none", phase |-> "idle", flag |-> FALSE, budget |-> 0, wait |-> 0,
         remain |-> 0, result |-> 0, moved |-> 0]
Nothing == [value |-> 0, moved |-> 0]
Locals == [op : {"none"} \cup UNION {Ops[k] : k \in DOMAIN Ops},
           phase : {"idle", "direct", "poll", "ready"}, flag : BOOLEAN,
           budget : -1..Milliseconds, wait : 0..Milliseconds,
           remain : 0..Count, result : 0..Count, moved : 0..Count]

IoOK ==
  /\ kind \in DOMAIN Ops /\ nonblock \in BOOLEAN /\ credit \in 0..MaxCredit /\ hup \in BOOLEAN
  /\ call \in [Callers -> Locals] /\ sockets \in [Callers -> 0..1]
  /\ ret \in [Callers -> [value : -1..Count, moved : 0..Count]]

IoInit ==
  /\ kind \in DOMAIN Ops /\ nonblock \in BOOLEAN /\ credit = 0 /\ hup = FALSE
  /\ call = [c \in Callers |-> Idle] /\ ret = [c \in Callers |-> Nothing]
  /\ sockets = [c \in Callers |-> 0]

-----------------------------------------------------------------------------
\* The kernel and the peer: more to move, or the end of the connection.
KernelFeeds == credit < MaxCredit /\ ~hup /\ credit' = credit + 1 /\ UNCHANGED <<kind, nonblock, hup, call, ret, sockets>>
HangUp == ~hup /\ hup' = TRUE /\ UNCHANGED <<kind, nonblock, credit, call, ret, sockets>>

Ready == credit > 0 \/ hup
InCall(c) == call[c].phase # "idle"
Timed(c) == call[c].phase \in {"poll", "ready"}
Blocks(c) == call[c].phase \in {"direct", "ready"} /\ ~Ready /\ ~nonblock

\* Time passes while every call waits.
Tick ==
  /\ \E c \in Callers : Timed(c)
  /\ \A c \in Callers : InCall(c) => Blocks(c) \/ (call[c].phase = "poll" /\ call[c].wait > 0)
  /\ call' = [c \in Callers |->
       IF ~Timed(c) \/ call[c].budget < 0 THEN call[c]
       ELSE [call[c] EXCEPT !.budget = @ - 1, !.wait = IF @ > 0 THEN @ - 1 ELSE 0]]
  /\ UNCHANGED <<kind, nonblock, credit, hup, ret, sockets>>

Starts(c) == ret' = [ret EXCEPT ![c] = Nothing]
Returns(c, r, moved) ==
  call' = [call EXCEPT ![c] = Idle] /\ ret' = [ret EXCEPT ![c] = [value |-> r, moved |-> moved]]

\* safe_calculate_timeout().
Calculate(c) == IF call[c].budget < 0 THEN 0 ELSE call[c].budget

-----------------------------------------------------------------------------
\* safe_timed_read(), _read_all(), _recvfrom(), _write(), _write_all(), _sendto(),
\* _accept() and _connect() up to the loop: the flag is saved and set.  connect() itself may
\* succeed, fail at once (and the flag stays set) or be in progress.
CallTimed(c, o, n) ==
  /\ ~InCall(c)
  /\ Alone => \A d \in Callers : InCall(d) => nonblock /\ (Timed(d) => call[d].flag)
  /\ \/ /\ call' = [call EXCEPT ![c] =
             [op |-> o, phase |-> "poll", flag |-> nonblock, budget |-> Milliseconds,
              wait |-> Milliseconds, remain |-> n, result |-> 0, moved |-> 0]]
        /\ nonblock' = TRUE /\ Starts(c)
     \/ o = "connect" /\ hup /\ Returns(c, -1, 0) /\ nonblock' = TRUE
     \/ o = "connect" /\ credit > 0 /\ Returns(c, 0, 0) /\ UNCHANGED nonblock
  /\ UNCHANGED <<kind, credit, hup, sockets>>

\* The same with no timeout, and safe_read(), safe_write(), safe_accept() and safe_connect():
\* EINTR starts the system call again.
DirectCall(o, n) ==
  [op |-> o, phase |-> "direct", flag |-> FALSE, budget |-> 0, wait |-> 0,
   remain |-> n, result |-> 0, moved |-> 0]
CallUntimed(c, o, n) ==
  /\ ~InCall(c) /\ call' = [call EXCEPT ![c] = DirectCall(o, n)]
  /\ Starts(c) /\ UNCHANGED <<kind, nonblock, credit, hup, sockets>>

Direct(c) ==
  /\ call[c].phase = "direct" /\ ~Blocks(c)
  /\ \/ kind = "connect" /\ credit > 0 /\ Returns(c, 0, 0) /\ UNCHANGED credit
     \/ \E k \in 1..call[c].remain :
          kind # "connect" /\ k <= credit /\ Returns(c, k, k) /\ credit' = credit - k
     \/ credit = 0 /\ Returns(c, IF kind = "in" /\ hup THEN 0 ELSE -1, 0) /\ UNCHANGED credit
  /\ UNCHANGED <<kind, nonblock, hup, sockets>>

-----------------------------------------------------------------------------
\* Mutant: a timeout forgets what was read.
SoFarLost(c) == -1

\* The loop.  A return from inside it leaves the flag set.
SoFar(c) == IF call[c].result = 0 THEN -1 ELSE call[c].result
Leaves(c, r) == Returns(c, r, call[c].moved)

\* Another turn of the loop.
Turned(r, w, k) ==
  [r EXCEPT !.phase = "poll", !.wait = w, !.moved = @ + k, !.result = @ + k, !.remain = @ - k]
NextTurn(c, k) ==
  /\ call' = [call EXCEPT ![c] = Turned(call[c], Calculate(c), k)]
  /\ UNCHANGED <<nonblock, ret>>

\* poll(): an event, a signal, the timeout, or an error.
PollTurn(c) ==
  /\ call[c].phase = "poll"
  /\ \/ Ready /\ call' = [call EXCEPT ![c].phase = "ready"] /\ UNCHANGED <<nonblock, ret>>
     \/ call[c].wait > 0 /\ NextTurn(c, 0)
     \/ call[c].wait = 0 /\ ~Ready /\ Leaves(c, SoFar(c)) /\ UNCHANGED nonblock
     \/ Leaves(c, SoFar(c)) /\ UNCHANGED nonblock
  /\ UNCHANGED <<kind, credit, hup, sockets>>

\* The loop has ended by break: the flag is put back.
FinishLoop(c, r, moved) == Returns(c, r, moved) /\ nonblock' = (nonblock /\ call[c].flag)

\* The system call moved k bytes.
Moves(c, k) ==
  /\ k <= credit /\ credit' = credit - k
  /\ IF k = call[c].remain \/ call[c].op \notin {"read_all", "write_all"}
     THEN FinishLoop(c, call[c].result + k, call[c].moved + k)
     ELSE NextTurn(c, k)

\* Nothing could be moved: the peer has closed (0, or EPIPE), or EINTR or EAGAIN, when
\* another thread has been faster.
MovesNone(c) ==
  /\ credit = 0 /\ UNCHANGED credit
  /\ \/ hup /\ kind = "in" /\ FinishLoop(c, call[c].result, call[c].moved)
     \/ hup /\ kind = "out" /\ FinishLoop(c, SoFar(c), call[c].moved)
     \/ hup /\ kind = "listen" /\ Leaves(c, -1) /\ UNCHANGED nonblock
     \/ ~hup /\ NextTurn(c, 0)

\* safe_test_if_connected() in safe_wait_until_connected().
Connected(c) ==
  IF credit > 0 /\ ~hup THEN FinishLoop(c, 0, 0) ELSE Leaves(c, -1) /\ UNCHANGED nonblock

Transfer(c) ==
  /\ call[c].phase = "ready" /\ ~Blocks(c)
  /\ \/ kind = "connect" /\ Connected(c) /\ UNCHANGED credit
     \/ kind # "connect" /\ \E k \in 1..call[c].remain : Moves(c, k)
     \/ kind # "connect" /\ MovesNone(c)
  /\ UNCHANGED <<kind, hup, sockets>>

-----------------------------------------------------------------------------
\* safe_resolve_and_connect(): a socket of its own, closed again when it cannot be made
\* non-blocking, the host is unknown or connect() fails; 1 while the connection is made.
ResolveAndConnect(c) ==
  /\ kind = "connect" /\ ~InCall(c) /\ sockets[c] = 0
  /\ \E r \in {-1, 0, 1} : sockets' = [sockets EXCEPT ![c] = IF r < 0 THEN 0 ELSE 1]
  /\ UNCHANGED <<kind, nonblock, credit, hup, call, ret>>

\* safe_close(), until the system call is not interrupted.
SafeClose(c) ==
  /\ sockets[c] = 1 /\ sockets' = [sockets EXCEPT ![c] = 0]
  /\ UNCHANGED <<kind, nonblock, credit, hup, call, ret>>

IoNext ==
  \/ KernelFeeds \/ HangUp \/ Tick
  \/ \E c \in Callers :
       \/ \E o \in Ops[kind], n \in 1..Count :
            /\ kind \in {"listen", "connect"} => n = 1
            /\ CallTimed(c, o, n) \/ CallUntimed(c, o, n)
       \/ Direct(c) \/ PollTurn(c) \/ Transfer(c) \/ ResolveAndConnect(c) \/ SafeClose(c)

IoSpec == IoInit /\ [][IoNext]_ioVars

-----------------------------------------------------------------------------
\* A timed call is never late, however often it is interrupted, robbed of what poll() had
\* promised or fed byte by byte, and what the kernel has moved for it is what it says it has:
\* a call that fails half-way reports the half, so that no byte is dropped or sent twice.
Punctual == \A c \in Callers : Timed(c) => call[c].budget >= 0
NothingSwallowed ==
  \A c \in Callers : IF ret[c].moved > 0 THEN ret[c].value = ret[c].moved ELSE ret[c].value <= 0
TimedCallsHonest == Punctual /\ NothingSwallowed

\* What fails: a call that times out leaves a blocking descriptor non-blocking.
FlagKept == [][\A c \in Callers : Timed(c) /\ call'[c] = Idle => nonblock' = (nonblock /\ call[c].flag)]_ioVars

=============================================================================
