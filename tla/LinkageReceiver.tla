-------------------------- MODULE LinkageReceiver --------------------------
(***************************************************************************)
(* The receiving side of class Linkage: OnReceived() and DoReceived() cut  *)
(* a stream of bytes that arrives in chunks of any size into the messages  *)
(* the handler asked for, with as little copying as possible (three        *)
(* branches).                                                              *)
(*                                                                         *)
(* A byte is its position in the stream, so that the sequences below show  *)
(* loss, duplication and reordering.  The peer sends messages that end at  *)
(* the positions in `ends`; GetMessageLength() of the handler knows the    *)
(* length once it sees Header bytes of a message (or all of it).           *)
(***************************************************************************)
EXTENDS Naturals, Sequences, FiniteSets

CONSTANTS
  FrameLengths, \* the lengths of messages
  MaxFrames,    \* bound: messages in the stream
  MaxBytes,     \* bound: bytes in the stream
  Header        \* how many bytes GetMessageLength() wants to see

ASSUME ReceiverAssumption ==
  /\ FrameLengths \subseteq Nat \ {0}
  /\ MaxFrames \in Nat /\ MaxBytes \in Nat
  /\ Header \in Nat \ {0}

VARIABLES
  ends,         \* what the peer sends: where its messages end
  received,     \* how many bytes _io->Read() returned so far
  pc,           \* "idle", "loop" (in DoReceived()), "over" (linkage to be closed)
  branch,       \* the branch of OnReceived(): "plain", "head", "rest", "moved"
  chunk,        \* what is left of the argument of OnReceived()
  buf, consumed,        \* DoReceived(): its buffer and what it consumed of it
  rbuffer, rlength,     \* _rbuffer, _rlength
  receive_jam,          \* is the timestamp set?
  graceful,             \* Disconnect() was called
  delivered             \* history: the messages given to OnMessage()

vars == <<ends, received, pc, branch, chunk, buf, consumed, rbuffer, rlength,
          receive_jam, graceful, delivered>>

\* The n bytes after position a, and the k-th message.
Bytes(a, n) == [i \in 1..n |-> a + i]
EndIn(stream, k) == IF k = 0 THEN 0 ELSE stream[k]
EndOf(k) == EndIn(ends, k)
LengthOf(k) == EndOf(k) - EndOf(k - 1)
Frame(k) == Bytes(EndOf(k - 1), LengthOf(k))
Left(s, n) == SubSeq(s, n + 1, Len(s))

\* The streams of n messages.
StreamsOf(n) ==
  {stream \in [1..n -> 1..MaxBytes] :
     /\ \A k \in 1..n : EndIn(stream, k) - EndIn(stream, k - 1) \in FrameLengths
     /\ \A j, k \in 0..n : j < k => EndIn(stream, j) < EndIn(stream, k)}

TypeOK ==
  /\ pc \in {"idle", "loop", "over"}
  /\ branch \in {"plain", "head", "rest", "moved"}
  /\ received \in 0..EndOf(Len(ends))
  /\ consumed \in 0..Len(buf)
  /\ rlength \in FrameLengths \cup {0}
  /\ receive_jam \in BOOLEAN /\ graceful \in BOOLEAN

Init ==
  /\ \E n \in 1..MaxFrames : ends \in StreamsOf(n)
  /\ received = 0
  /\ pc = "idle" /\ branch = "plain"
  /\ chunk = <<>> /\ buf = <<>> /\ consumed = 0
  /\ rbuffer = <<>> /\ rlength = 0
  /\ receive_jam = FALSE /\ graceful = FALSE
  /\ delivered = <<>>

\* GetMessageLength() for the bytes s: the first one must start a message.
GetMessageLength(s) ==
  LET k == CHOOSE i \in 1..Len(ends) : EndOf(i - 1) + 1 = s[1]
  IN  IF Len(s) >= Header \/ Len(s) >= LengthOf(k) THEN LengthOf(k) ELSE 0

Remaining == Left(buf, consumed)

-----------------------------------------------------------------------------
\* DoReceived() is called for the bytes b.
Call(b, where) ==
  /\ pc' = "loop" /\ branch' = where
  /\ buf' = b /\ consumed' = 0

\* The argument completes a message whose length is known.
Completes(c) == rlength # 0 /\ rlength <= Len(rbuffer) + Len(c)

\* The three ways OnReceived() uses its argument c: as it is, up to the length
\* that is already known, or all of it moved to the buffer.
OnReceived(c) ==
  \/ /\ rbuffer = <<>>
     /\ Call(c, "plain") /\ chunk' = c /\ UNCHANGED rbuffer
  \/ /\ rbuffer # <<>> /\ Completes(c)
     /\ rbuffer' = rbuffer \o SubSeq(c, 1, rlength - Len(rbuffer))
     /\ Call(rbuffer', "head") /\ chunk' = Left(c, rlength - Len(rbuffer))
  \/ /\ rbuffer # <<>> /\ ~Completes(c)
     /\ rbuffer' = rbuffer \o c
     /\ Call(rbuffer', "moved") /\ chunk' = c

\* Read() returned n bytes, which are handed to OnReceived().
Receive(n) ==
  /\ pc = "idle" /\ ~graceful /\ received + n <= EndOf(Len(ends))
  /\ received' = received + n
  /\ OnReceived(Bytes(received, n))
  /\ UNCHANGED <<ends, rlength, receive_jam, graceful, delivered>>

\* After Disconnect() whatever arrives is thrown away.
ReceiveDiscarded(n) ==
  /\ pc = "idle" /\ graceful /\ received + n <= EndOf(Len(ends))
  /\ received' = received + n
  /\ UNCHANGED <<ends, pc, branch, chunk, buf, consumed, rbuffer, rlength, receive_jam,
                 graceful, delivered>>

-----------------------------------------------------------------------------
(***************************************************************************)
(* The loop of DoReceived().                                               *)
(***************************************************************************)
Looping == pc = "loop" /\ Remaining # <<>>

LoopLength ==
  /\ Looping /\ rlength = 0
  /\ GetMessageLength(Remaining) # 0
  /\ rlength' = GetMessageLength(Remaining)
  /\ UNCHANGED <<ends, received, pc, branch, chunk, buf, consumed, rbuffer, receive_jam,
                 graceful, delivered>>

\* GetMessageLength() is negative: the message is invalid.
LoopInvalid ==
  /\ Looping /\ rlength = 0
  /\ pc' = "over"
  /\ UNCHANGED <<ends, received, branch, chunk, buf, consumed, rbuffer, rlength, receive_jam,
                 graceful, delivered>>

\* Defect: the handler is given all that is there.
LoopMessageWhole(next, disconnect) ==
  /\ Looping /\ rlength # 0 /\ rlength <= Len(Remaining)
  /\ receive_jam' = FALSE
  /\ delivered' = Append(delivered, Remaining)
  /\ graceful' = (graceful \/ disconnect)
  /\ IF next = "keep"
     THEN consumed' = consumed + rlength /\ rlength' = 0 /\ UNCHANGED pc
     ELSE pc' = "over" /\ UNCHANGED <<consumed, rlength>>
  /\ UNCHANGED <<ends, received, branch, chunk, buf, rbuffer>>

\* OnMessage() is called; its result is next, and it may call Disconnect().
LoopMessage(next, disconnect) ==
  /\ Looping /\ rlength # 0 /\ rlength <= Len(Remaining)
  /\ receive_jam' = FALSE
  /\ delivered' = Append(delivered, SubSeq(Remaining, 1, rlength))
  /\ graceful' = (graceful \/ disconnect)
  /\ IF next = "keep"
     THEN consumed' = consumed + rlength /\ rlength' = 0 /\ UNCHANGED pc
     ELSE pc' = "over" /\ UNCHANGED <<consumed, rlength>>
  /\ UNCHANGED <<ends, received, branch, chunk, buf, rbuffer>>

-----------------------------------------------------------------------------
(***************************************************************************)
(* DoReceived() returns 1, because all is consumed or because a message is *)
(* incomplete, and OnReceived() goes on.                                   *)
(***************************************************************************)
Finished ==
  IF Remaining = <<>> THEN TRUE
  ELSE IF rlength = 0 THEN GetMessageLength(Remaining) = 0
  ELSE Len(Remaining) < rlength

LoopBreak ==
  /\ pc = "loop" /\ Finished
  /\ receive_jam' = (receive_jam \/ Remaining # <<>>)

\* The bytes that are not consumed are kept for the next time.
KeepRemaining == rbuffer' = rbuffer \o Remaining

ReturnPlain ==
  /\ LoopBreak /\ branch \in {"plain", "rest"}
  /\ KeepRemaining
  /\ pc' = "idle" /\ chunk' = <<>> /\ buf' = <<>> /\ consumed' = 0
  /\ UNCHANGED <<ends, received, branch, rlength, graceful, delivered>>

\* The message in the buffer is extracted: go on with the rest of the argument.
ReturnHead ==
  /\ LoopBreak /\ branch = "head"
  /\ rbuffer' = <<>>
  /\ IF chunk # <<>>
     THEN Call(chunk, "rest") /\ chunk' = <<>>
     ELSE /\ pc' = "idle" /\ chunk' = <<>> /\ buf' = <<>> /\ consumed' = 0
          /\ UNCHANGED branch
  /\ UNCHANGED <<ends, received, rlength, graceful, delivered>>

ReturnMoved ==
  /\ LoopBreak /\ branch = "moved"
  /\ rbuffer' = Left(rbuffer, consumed)
  /\ pc' = "idle" /\ chunk' = <<>> /\ buf' = <<>> /\ consumed' = 0
  /\ UNCHANGED <<ends, received, branch, rlength, graceful, delivered>>

\* The linkage is closed, or everything the peer sends has arrived.
Over ==
  /\ pc = "over" \/ (pc = "idle" /\ received = EndOf(Len(ends)))
  /\ UNCHANGED vars

Next ==
  \/ \E n \in 1..EndOf(Len(ends)) : Receive(n) \/ ReceiveDiscarded(n)
  \/ LoopLength \/ LoopInvalid
  \/ \E next \in {"keep", "close"}, disconnect \in BOOLEAN : LoopMessage(next, disconnect)
  \/ ReturnPlain \/ ReturnHead \/ ReturnMoved
  \/ Over

Spec == Init /\ [][Next]_vars

-----------------------------------------------------------------------------
(***************************************************************************)
(* Properties.                                                             *)
(***************************************************************************)
Idle == pc = "idle" /\ ~graceful

\* The handler sees the peer's messages, in order and each one whole, whatever
\* the sizes of the chunks and whichever branch of OnReceived() they take.
MessagesFramed ==
  /\ Len(delivered) <= Len(ends)
  /\ \A k \in 1..Len(delivered) : delivered[k] = Frame(k)

\* After OnReceived(), the bytes that were received are those of the messages
\* delivered followed by those in _rbuffer: nothing is lost or read twice.
NothingLost ==
  Idle => rbuffer = Bytes(EndOf(Len(delivered)), received - EndOf(Len(delivered)))

\* After OnReceived(), _rbuffer holds less than a message: a message is given to
\* the handler with its last byte.  If _rlength is set it is that message's, so
\* that the assertion of the second branch of OnReceived(), _rlength >
\* _rbuffer.size(), holds.
DeliveredAtOnce ==
  Idle => /\ rbuffer # <<>> => Len(rbuffer) < LengthOf(Len(delivered) + 1)
          /\ rlength # 0 => rbuffer # <<>> /\ rlength = LengthOf(Len(delivered) + 1)

\* The receive timeout runs exactly while a message is incomplete.
JamWhileIncomplete == Idle => (receive_jam <=> rbuffer # <<>>)

\* The four together: what LinkageReceiver promises, whatever the reads return.
Framing == MessagesFramed /\ NothingLost /\ DeliveredAtOnce /\ JamWhileIncomplete

=============================================================================
