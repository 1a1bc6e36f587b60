--------------------------- MODULE LinkageProofs ---------------------------
(***************************************************************************)
(* Safety of module Linkage for every transport, every limit of the        *)
(* sending buffer and any number of bytes; and of EasyJobs, the jobs of    *)
(* the server above it, for any workers and jobs: those of one hash keep   *)
(* their order, and no thread outlives what it uses.                       *)
(***************************************************************************)
EXTENDS Linkage, EasyJobs, SequenceTheorems, TLAPS

(***************************************************************************)
(* What the operators on the sending buffer do.                            *)
(***************************************************************************)

\* A buffer is what is taken from its head followed by what is left: the two
\* halves of PickSendingBuffer() and ConsumeSendingBuffer().
LEMMA TakeDrop ==
  ASSUME NEW s \in Seq(Nat), NEW n \in 0..Len(s)
  PROVE  /\ Take(s, n) \in Seq(Nat) /\ Len(Take(s, n)) = n
         /\ Drop(s, n) \in Seq(Nat) /\ Len(Drop(s, n)) = Len(s) - n
         /\ Take(s, n) \o Drop(s, n) = s
<1>1. /\ Take(s, n) \in Seq(Nat) /\ Len(Take(s, n)) = n
      /\ Drop(s, n) \in Seq(Nat) /\ Len(Drop(s, n)) = Len(s) - n
  BY SubSeqProperties, ElementOfSeq, LenProperties DEF Take, Drop
<1>2. Take(s, n) \o Drop(s, n) = SubSeq(s, 1, Len(s))
  <2>1. /\ Len(s) \in Nat /\ 1 \in 1..Len(s)+1
        /\ n \in 1-1..Len(s) /\ Len(s) \in n..Len(s)
    BY LenProperties
  <2>2. SubSeq(s, 1, n) \o SubSeq(s, n+1, Len(s)) = SubSeq(s, 1, Len(s))
    BY <2>1, ConcatAdjacentSubSeq
  <2>3. QED
    BY <2>2 DEF Take, Drop
<1>3. QED
  BY <1>1, <1>2, SubSeqFull

\* Appending to a buffer does not change its head.
LEMMA TakeOfConcat ==
  ASSUME NEW s \in Seq(Nat), NEW t \in Seq(Nat), NEW n \in 0..Len(s)
  PROVE  Take(s \o t, n) = Take(s, n)
<1>1. CASE n = 0
  BY <1>1, SubSeqEmpty DEF Take
<1>2. CASE n # 0
  <2>1. n \in 1..Len(s) /\ 1 \in 1..Len(s)
    BY <1>2, LenProperties
  <2>2. QED
    BY <2>1, SubSeqOfConcat1 DEF Take
<1>3. QED
  BY <1>1, <1>2

LEMMA TakeAll ==
  ASSUME NEW s \in Seq(Nat), NEW t \in Seq(Nat)
  PROVE  Take(s \o t, Len(s)) = s
BY TakeOfConcat, SubSeqFull, LenProperties DEF Take

\* The bytes of a call of Send() are a sequence of their number.
LEMMA BytesType ==
  ASSUME TypeOK, NEW n \in Nat
  PROVE  Bytes(n) \in Seq(Nat) /\ Len(Bytes(n)) = n
<1>1. \A i \in 1..n : offered + i \in Nat
  BY DEF TypeOK
<1>2. QED
  BY <1>1, IsASeq DEF Bytes

(***************************************************************************)
(* Type correctness, and the limit of the sending buffer.  The actions     *)
(* that do not touch the buffers are immediate; the others need the        *)
(* lemmas above.                                                           *)
(***************************************************************************)

\* The steps that leave the buffers alone, for both proofs below.
Quiet ==
  \/ Attach \/ OnReadable \/ OnWritable
  \/ ReadOk \/ ReadFailed \/ \E more \in BOOLEAN : ReadDiscarded(more)
  \/ MessageError \/ MessageHangUp \/ MessageMore \/ MessageDone
  \/ ConnectedOk \/ ConnectedFailed
  \/ HandshakeOk \/ HandshakeFailed
  \/ WriteEmpty
  \/ ShutdownAgain \/ ShutdownOk \/ ShutdownFailed
  \/ \E status \in Wanna : ReadIncomplete(status) \/ HandshakeIncomplete(status)
                             \/ ShutdownIncomplete(status)
  \/ JamTimeout \/ CleanedUp \/ WorkerExit \/ Gone

\* Which steps touch the buffers.
LEMMA NextCases ==
  ASSUME Next
  PROVE  \/ Quiet
         \/ WriteAll \/ WriteFailed
         \/ \E n \in 1..Len(wbuffer) : WritePart(n)
         \/ \E status \in Wanna : WriteIncomplete(status)
         \/ Send \/ Disconnect
BY Zenon DEF Next, EventStep, Quiet

\* What a quiet step does: it changes the control state only, stays within its
\* type, never clears _graceful and never revives a linkage.
QuietEffect ==
  /\ worker' \in {"none", "attached", "gone"}
  /\ pc' \in {"idle", "once", "message", "connected"}
  /\ todo' \in Action /\ action' \in Action
  /\ attaching' \in BOOLEAN /\ running_r' \in BOOLEAN /\ running_w' \in BOOLEAN
  /\ graceful' \in BOOLEAN /\ closed' \in BOOLEAN
  /\ connect_jam' \in BOOLEAN /\ send_jam' \in BOOLEAN
  /\ graceful => graceful'
  /\ worker' = "none" => worker = "none"
  /\ worker = "gone" => worker' = "gone"
  /\ UNCHANGED <<wbuffer, last_writing, pending, wire, history>>

\* Every quiet step has no other effect.
LEMMA QuietStep ==
  ASSUME TypeOK, Quiet
  PROVE  QuietEffect
<1> USE DEF TypeOK, Action, conn, flags, out, jams, monitors, history, vars, SetWanna,
           QuietEffect
<1>1. CASE Attach
  BY <1>1 DEF Attach, AttachEstablished, AttachConnecting, AttachHandshake, DoConnected, Monitor
<1>2. CASE OnReadable
  BY <1>2 DEF OnReadable, OnEvent, NextAction
<1>3. CASE OnWritable
  BY <1>3 DEF OnWritable, OnEvent, NextAction
<1>4. CASE ReadOk
  BY <1>4 DEF ReadOk
<1>5. CASE ReadFailed
  BY <1>5 DEF ReadFailed, Release
<1>6. ASSUME NEW more \in BOOLEAN, ReadDiscarded(more)
      PROVE  QuietEffect
  BY <1>6 DEF ReadDiscarded, NextAction, LeaveEvent, Monitor
<1>7. CASE MessageError
  BY <1>7 DEF MessageError, Release
<1>8. CASE MessageHangUp
  BY <1>8 DEF MessageHangUp, NextAction
<1>9. CASE MessageMore
  BY <1>9 DEF MessageMore, NextAction
<1>10. CASE MessageDone
  BY ZenonT(40), <1>10 DEF MessageDone, LeaveEvent, Monitor
<1>11. CASE ConnectedOk
  BY ZenonT(30), <1>11 DEF ConnectedOk, LeaveEvent, Monitor
<1>12. CASE ConnectedFailed
  BY <1>12 DEF ConnectedFailed, Release
<1>13. CASE HandshakeOk
  BY <1>13 DEF HandshakeOk, DoConnected, Monitor
<1>14. CASE HandshakeFailed
  BY <1>14 DEF HandshakeFailed, Release
<1>15. CASE WriteEmpty
  BY <1>15 DEF WriteEmpty, NextAction, LeaveEvent, Monitor
<1>17. CASE ShutdownAgain
  BY <1>17 DEF ShutdownAgain, Release
<1>18. CASE ShutdownOk
  BY <1>18 DEF ShutdownOk, Release
<1>19. CASE ShutdownFailed
  BY <1>19 DEF ShutdownFailed, Release
<1>20. ASSUME NEW status \in Wanna, 
            ReadIncomplete(status) \/ HandshakeIncomplete(status) \/ ShutdownIncomplete(status)
      PROVE  QuietEffect
  BY <1>20 DEF ReadIncomplete, HandshakeIncomplete, ShutdownIncomplete, LeaveEvent, AfterEvent
<1>21. CASE JamTimeout \/ CleanedUp \/ WorkerExit
  BY <1>21 DEF JamTimeout, CleanedUp, WorkerExit, Dropped, Release
<1>22. CASE Gone
  BY <1>22 DEF Gone
<1>23. QED
  BY <1>1, <1>2, <1>3, <1>4, <1>5, <1>6, <1>7, <1>8, <1>9, <1>10, <1>11, <1>12, <1>13, <1>14, <1>15, <1>17, <1>18, <1>19, <1>20, <1>21, <1>22, Zenon DEF Quiet

(***************************************************************************)
(* The stream.  StreamIntegrity and RetrySameWrite are not inductive       *)
(* alone: the length to repeat must lie within the queue, a dump must be   *)
(* followed by no other Send(), and nothing may be pending before Attach().*)
(***************************************************************************)
StreamInv ==
  /\ TypeOK
  /\ StreamIntegrity
  /\ RetrySameWrite
  /\ dumped => graceful /\ wbuffer = <<>>
  /\ last_writing <= Len(wbuffer) \/ dumped
  /\ worker = "none" => pending = <<>>

\* Concatenation of buffers is associative.
LEMMA ConcatAssoc ==
  ASSUME NEW s \in Seq(Nat), NEW t \in Seq(Nat), NEW u \in Seq(Nat)
  PROVE  (s \o t) \o u = s \o (t \o u)
BY SMTT(30), ConcatAssociative

\* PickSendingBuffer() picks a part of the queue.
LEMMA PickInQueue ==
  ASSUME StreamInv, wbuffer # <<>>
  PROVE  /\ ~dumped
         /\ PickLength \in 1..Len(wbuffer)
         /\ wbuffer \in Seq(Nat) /\ wire \in Seq(Nat) /\ accepted \in Seq(Nat)
         /\ wbuffer = Take(wbuffer, PickLength) \o Drop(wbuffer, PickLength)
<1>1. ~dumped /\ last_writing \in 0..Len(wbuffer)
  BY LenProperties DEF StreamInv, TypeOK
<1>2. Len(wbuffer) \in Nat /\ Len(wbuffer) # 0
  BY EmptySeq, LenProperties DEF StreamInv, TypeOK
<1>3. PickLength \in 1..Len(wbuffer)
  BY <1>1, <1>2 DEF PickLength
<1>4. wbuffer \in Seq(Nat) /\ PickLength \in 0..Len(wbuffer)
  BY <1>2, <1>3 DEF StreamInv, TypeOK
<1>5. wbuffer = Take(wbuffer, PickLength) \o Drop(wbuffer, PickLength)
  BY <1>4, TakeDrop
<1>6. QED
  BY <1>1, <1>3, <1>5 DEF StreamInv, TypeOK

\* Taking n bytes from the head of the queue keeps the stream.
LEMMA WriteTookStep ==
  ASSUME StreamInv, wbuffer # <<>>, NEW n \in 1..Len(wbuffer), Running("Write"),
         WriteTook(n), send_jam' \in BOOLEAN
  PROVE  StreamInv'
<1>1. /\ ~dumped /\ ~dumped'
      /\ wbuffer \in Seq(Nat) /\ wire \in Seq(Nat) /\ accepted \in Seq(Nat)
      /\ Len(wbuffer) \in Nat
  BY PickInQueue, LenProperties DEF WriteTook, history
<1>2. /\ Take(wbuffer, n) \in Seq(Nat)
      /\ wbuffer' \in Seq(Nat) /\ Len(wbuffer') = Len(wbuffer) - n
      /\ Take(wbuffer, n) \o wbuffer' = wbuffer
  <2>1. n \in 0..Len(wbuffer) /\ wbuffer' = Drop(wbuffer, n)
    BY <1>1 DEF WriteTook
  <2>2. QED
    BY <1>1, <2>1, TakeDrop
<1>3. wire' \in Seq(Nat) /\ wire' = wire \o Take(wbuffer, n)
  BY <1>1, <1>2, ConcatProperties DEF WriteTook
<1>4. wire' \o wbuffer' = wire \o wbuffer
  <2>1. (wire \o Take(wbuffer, n)) \o wbuffer' = wire \o (Take(wbuffer, n) \o wbuffer')
    BY <1>1, <1>2, ConcatAssoc
  <2>2. QED
    BY <1>2, <1>3, <2>1
<1>5. TypeOK'
  <2>1. Len(wbuffer') <= kMaximumBytes /\ pending' \in Seq(Nat) /\ last_writing' \in Nat
    BY <1>1, <1>2, LinkageAssumption, EmptySeq DEF StreamInv, TypeOK, WriteTook
  <2>2. QED
    BY <1>1, <1>2, <1>3, <2>1
       DEF StreamInv, TypeOK, Action, WriteTook, LeaveEvent, Monitor, SetWanna, flags, history
<1>6. StreamIntegrity'
  <2>1. SUFFICES ASSUME ~torn' PROVE wire' \o wbuffer' = accepted'
    BY ZenonT(30), <1>2, <1>3, TakeAll DEF StreamIntegrity
  <2>2. QED
    BY <1>1, <1>4, <2>1 DEF StreamInv, StreamIntegrity, WriteTook, history
<1>7. QED
  BY <1>1, <1>2, <1>5, <1>6
     DEF StreamInv, RetrySameWrite, WriteTook, LeaveEvent, Running

\* A quiet step keeps the stream.
LEMMA QuietStreamStep ==
  ASSUME StreamInv, Quiet
  PROVE  StreamInv'
<1>1. QuietEffect
  BY QuietStep DEF StreamInv
<1>2. TypeOK'
  BY <1>1 DEF StreamInv, TypeOK, QuietEffect, history
<1>3. StreamIntegrity'
  BY <1>1 DEF StreamInv, StreamIntegrity, Take, QuietEffect, history
<1>4. RetrySameWrite'
  <2>1. /\ worker' = "attached" => worker \in {"none", "attached"}
        /\ UNCHANGED <<torn, dumped, pending, last_writing, wbuffer>>
    BY <1>1 DEF QuietEffect, history, StreamInv, TypeOK
  <2>2. QED
    BY <2>1 DEF StreamInv, RetrySameWrite, Take
<1>5. QED
  BY <1>1, <1>2, <1>3, <1>4 DEF StreamInv, QuietEffect, history

\* The steps of OnEventOnce(kActionWrite) keep the stream.
LEMMA WriteStreamStep ==
  ASSUME StreamInv,
         \/ WriteAll \/ WriteFailed
         \/ \E n \in 1..Len(wbuffer) : WritePart(n)
         \/ \E status \in Wanna : WriteIncomplete(status)
  PROVE  StreamInv'
<1>0. worker = "attached" /\ Running("Write") /\ wbuffer # <<>>
  BY DEF WriteAll, WriteFailed, WritePart, WriteIncomplete, Writing, Running
<1>1. CASE WriteAll
  <2>1. PickLength \in 1..Len(wbuffer)
    BY <1>0, PickInQueue
  <2>2. WriteTook(PickLength) /\ send_jam' \in BOOLEAN
    BY <1>1 DEF WriteAll
  <2>3. QED
    BY <1>0, <2>1, <2>2, WriteTookStep
<1>2. ASSUME NEW n \in 1..Len(wbuffer), WritePart(n)
      PROVE  StreamInv'
  <2>1. WriteTook(n) /\ send_jam' \in BOOLEAN
    BY <1>2 DEF WritePart
  <2>2. QED
    BY <1>0, <2>1, WriteTookStep
<1>3. CASE WriteFailed
  <2>1. /\ worker' = "gone" /\ last_writing' = 0
        /\ UNCHANGED <<wbuffer, wire, pending, graceful, closed, connect_jam, history>>
    BY <1>3 DEF WriteFailed, Release, flags
  <2>2. TypeOK'
    <3>1. /\ pc' = "idle" /\ todo' = "None" /\ action' = "None" /\ attaching' = FALSE
          /\ running_r' = FALSE /\ running_w' = FALSE /\ send_jam' = TRUE
      BY <1>3 DEF WriteFailed, Release, SetWanna
    <3>2. QED
      BY <2>1, <3>1 DEF StreamInv, TypeOK, Action, history
  <2>3. StreamIntegrity'
    BY <2>1 DEF StreamInv, StreamIntegrity, Take, history
  <2>4. last_writing' <= Len(wbuffer')
    BY <2>1, LenProperties DEF StreamInv, TypeOK
  <2>5. QED
    BY <2>1, <2>2, <2>3, <2>4 DEF StreamInv, RetrySameWrite, history
<1>4. ASSUME NEW status \in Wanna, WriteIncomplete(status)
      PROVE  StreamInv'
  <2>1. /\ worker' = "attached" /\ last_writing' = PickLength
        /\ pending' = IF pending = <<>> THEN Take(wbuffer, PickLength) ELSE pending
        /\ UNCHANGED <<wbuffer, wire, graceful, closed, connect_jam, history>>
    BY <1>0, <1>4 DEF WriteIncomplete, LeaveEvent, flags
  <2>2. /\ ~dumped /\ PickLength \in 0..Len(wbuffer) /\ Len(wbuffer) \in Nat
        /\ wbuffer \in Seq(Nat)
    BY <1>0, PickInQueue, LenProperties
  <2>3. /\ Take(wbuffer, PickLength) \in Seq(Nat)
        /\ Len(Take(wbuffer, PickLength)) = PickLength
    BY <2>2, TakeDrop
  <2>4. TypeOK'
    <3>1. pending' \in Seq(Nat) /\ last_writing' \in Nat
      BY <2>1, <2>2, <2>3 DEF StreamInv, TypeOK
    <3>2. QED
      BY <1>4, <2>1, <3>1
         DEF StreamInv, TypeOK, Action, WriteIncomplete, AfterEvent, LeaveEvent, SetWanna, history
  <2>5. StreamIntegrity'
    BY <2>1 DEF StreamInv, StreamIntegrity, Take, history
  <2>6. RetrySameWrite'
    <3>1. SUFFICES ASSUME ~torn
                   PROVE  /\ last_writing' = Len(pending')
                          /\ pending' = Take(wbuffer, last_writing')
      BY <2>1 DEF RetrySameWrite, Take, history
    <3>2. CASE pending = <<>>
      BY <2>1, <2>3, <3>2
    <3>3. CASE pending # <<>>
      <4>1. last_writing = Len(pending) /\ pending = Take(wbuffer, last_writing)
        BY <1>0, <2>2, <3>1, <3>3 DEF StreamInv, RetrySameWrite
      <4>2. Len(pending) # 0
        BY <3>3, EmptySeq DEF StreamInv, TypeOK
      <4>3. PickLength = last_writing
        BY <4>1, <4>2 DEF PickLength
      <4>4. QED
        BY <2>1, <3>3, <4>1, <4>3
    <3>4. QED
      BY <3>2, <3>3
  <2>7. QED
    BY <2>1, <2>2, <2>4, <2>5, <2>6 DEF StreamInv, history
<1>5. QED
  BY <1>1, <1>2, <1>3, <1>4

\* What every Send() that reaches its body leaves alone.
LEMMA OfferEffect ==
  ASSUME StreamInv, NEW n \in Lengths, Offer(n)
  PROVE  /\ n \in Nat /\ n # 0
         /\ Bytes(n) \in Seq(Nat) /\ Len(Bytes(n)) = n
         /\ worker = "attached" /\ ~graceful /\ ~dumped /\ ~dumped'
         /\ wbuffer \in Seq(Nat) /\ wire \in Seq(Nat) /\ accepted \in Seq(Nat)
         /\ last_writing \in Nat /\ last_writing <= Len(wbuffer)
         /\ Len(wbuffer) \in Nat /\ Len(wbuffer) <= kMaximumBytes
         /\ offered' \in Nat
         /\ UNCHANGED <<worker, attaching, pc, todo, graceful, closed, connect_jam, dumped>>
<1>1. n \in Nat /\ n # 0 /\ offered' \in Nat
  BY LinkageAssumption DEF Offer, StreamInv, TypeOK
<1>2. Bytes(n) \in Seq(Nat) /\ Len(Bytes(n)) = n
  BY <1>1, BytesType DEF StreamInv
<1>3. QED
  BY <1>1, <1>2, LenProperties DEF Offer, UserRuns, StreamInv, TypeOK, conn, flags

\* With nothing queued, nothing is pending either (unless a Send() failed).
LEMMA DirectPending ==
  ASSUME StreamInv, worker = "attached", ~dumped, ~torn, wbuffer = <<>>
  PROVE  pending = <<>> /\ last_writing = 0
<1>1. last_writing = 0
  BY EmptySeq DEF StreamInv, TypeOK
<1>2. ASSUME pending # <<>> PROVE FALSE
  <2>1. last_writing = Len(pending)
    BY <1>2 DEF StreamInv, RetrySameWrite
  <2>2. QED
    BY <1>1, <1>2, <2>1, EmptySeq DEF StreamInv, TypeOK
<1>3. QED
  BY <1>1, <1>2

\* Send() keeps the stream: it extends the promise and the stream alike.
LEMMA SendStreamStep ==
  ASSUME StreamInv, Send
  PROVE  StreamInv'
<1>1. PICK n \in Lengths :
        \/ SendQueued(n) \/ SendAll(n) \/ SendJammed(n) \/ SendFailed(n)
        \/ \E taken \in 1..n : SendPart(n, taken)
        \/ \E status \in Wanna : SendIncomplete(n, status)
  BY DEF Send
<1>2. Offer(n)
  BY <1>1 DEF SendQueued, SendAll, SendJammed, SendFailed, SendPart, SendIncomplete
<1> DEFINE b == Bytes(n)
<1>3. /\ n \in Nat /\ n # 0 /\ b \in Seq(Nat) /\ Len(b) = n
      /\ worker = "attached" /\ ~graceful /\ ~dumped /\ ~dumped'
      /\ wbuffer \in Seq(Nat) /\ wire \in Seq(Nat) /\ accepted \in Seq(Nat)
      /\ last_writing \in Nat /\ last_writing <= Len(wbuffer)
      /\ Len(wbuffer) \in Nat /\ Len(wbuffer) <= kMaximumBytes
      /\ offered' \in Nat
      /\ UNCHANGED <<worker, attaching, pc, todo, graceful, closed, connect_jam, dumped>>
  BY <1>2, OfferEffect
<1> HIDE DEF b
<1>4. kMaximumBytes \in Nat
  BY LinkageAssumption
<1>5. accepted \o b \in Seq(Nat) /\ wire \o b \in Seq(Nat) /\ wbuffer \o b \in Seq(Nat)
      /\ Len(wbuffer \o b) = Len(wbuffer) + n
  BY <1>3, ConcatProperties
<1>6. ~torn => wire \o wbuffer = accepted
  BY <1>3 DEF StreamInv, StreamIntegrity
<1>7. (wire \o wbuffer) \o b = wire \o (wbuffer \o b)
  BY <1>3, ConcatAssoc
<1>8. \* What is left to show of the invariant, once the stream is extended.
      ASSUME /\ wbuffer' \in Seq(Nat) /\ Len(wbuffer') <= kMaximumBytes
             /\ wire' \in Seq(Nat) /\ accepted' \in Seq(Nat) /\ pending' \in Seq(Nat)
             /\ last_writing' \in Nat /\ last_writing' <= Len(wbuffer')
             /\ action' \in Action /\ running_r' \in BOOLEAN /\ running_w' \in BOOLEAN
             /\ send_jam' \in BOOLEAN /\ torn' \in BOOLEAN
             /\ ~torn' => wire' \o wbuffer' = accepted'
             /\ RetrySameWrite'
      PROVE  StreamInv'
  <2>1. TypeOK'
    BY <1>3, <1>8 DEF StreamInv, TypeOK
  <2>2. StreamIntegrity'
    BY <1>8, TakeAll DEF StreamIntegrity
  <2>3. QED
    BY <1>3, <1>8, <2>1, <2>2 DEF StreamInv
<1>9. CASE SendQueued(n)
  <2>1. CASE Fits(n)
    <3>1. /\ wbuffer' = wbuffer \o b /\ accepted' = accepted \o b
          /\ UNCHANGED <<action, last_writing, pending, wire, send_jam, running_r, running_w, torn>>
      BY <1>9, <2>1 DEF SendQueued, b, monitors
    <3>2. Len(wbuffer') <= kMaximumBytes /\ last_writing' <= Len(wbuffer')
      BY <1>3, <1>4, <1>5, <2>1, <3>1 DEF Fits
    <3>3. ~torn' => wire' \o wbuffer' = accepted'
      BY <1>6, <1>7, <3>1
    <3>4. RetrySameWrite'
      <4>1. last_writing \in 0..Len(wbuffer)
        BY <1>3
      <4>2. Take(wbuffer', last_writing) = Take(wbuffer, last_writing)
        BY <1>3, <3>1, <4>1, TakeOfConcat
      <4>3. QED
        BY <1>3, <3>1, <4>2 DEF StreamInv, RetrySameWrite
    <3>5. QED
      BY <1>3, <1>5, <1>8, <3>1, <3>2, <3>3, <3>4 DEF StreamInv, TypeOK
  <2>2. CASE ~Fits(n)
    <3>1. UNCHANGED <<wbuffer, accepted, action, last_writing, pending, wire, send_jam,
                      running_r, running_w, torn>>
      BY <1>9, <2>2 DEF SendQueued, monitors
    <3>2. RetrySameWrite'
      BY <1>3, <3>1 DEF StreamInv, RetrySameWrite, Take
    <3>3. QED
      BY <1>3, <1>6, <1>8, <3>1, <3>2 DEF StreamInv, TypeOK
  <2>3. QED
    BY <2>1, <2>2
<1>10. CASE SendAll(n)
  <2>1. /\ wbuffer = <<>> /\ wire' = wire \o b /\ accepted' = accepted \o b
        /\ send_jam' = FALSE
        /\ UNCHANGED <<action, wbuffer, last_writing, pending, running_r, running_w, torn>>
    BY <1>10 DEF SendAll, Direct, b, monitors
  <2>2. ~torn' => wire' \o wbuffer' = accepted'
    BY <1>3, <1>5, <1>6, <2>1, ConcatEmptySeq
  <2>3. RetrySameWrite'
    BY <1>3, <2>1 DEF StreamInv, RetrySameWrite, Take
  <2>4. QED
    BY <1>3, <1>5, <1>8, <2>1, <2>2, <2>3 DEF StreamInv, TypeOK
<1>11. CASE SendJammed(n)
  <2>1. CASE Fits(n)
    <3>1. /\ wbuffer = <<>> /\ wbuffer' = b /\ accepted' = accepted \o b
          /\ running_r' = FALSE /\ running_w' = TRUE /\ send_jam' = TRUE
          /\ UNCHANGED <<action, last_writing, pending, wire, torn>>
      BY <1>11, <2>1 DEF SendJammed, Direct, SetWanna, b
    <3>2. Len(wbuffer') <= kMaximumBytes /\ last_writing' <= Len(wbuffer')
      BY <1>3, <1>4, <2>1, <3>1, EmptySeq DEF Fits
    <3>3. ~torn' => wire' \o wbuffer' = accepted'
      BY <1>3, <1>6, <3>1, ConcatEmptySeq
    <3>4. RetrySameWrite'
      BY <1>3, <3>1, DirectPending DEF RetrySameWrite
    <3>5. QED
      BY <1>3, <1>5, <1>8, <3>1, <3>2, <3>3, <3>4 DEF StreamInv, TypeOK
  <2>2. CASE ~Fits(n)
    <3>1. UNCHANGED <<wbuffer, accepted, action, last_writing, pending, wire, send_jam,
                      running_r, running_w, torn>>
      BY <1>11, <2>2 DEF SendJammed, monitors
    <3>2. RetrySameWrite'
      BY <1>3, <3>1 DEF StreamInv, RetrySameWrite, Take
    <3>3. QED
      BY <1>3, <1>6, <1>8, <3>1, <3>2 DEF StreamInv, TypeOK
  <2>3. QED
    BY <2>1, <2>2
<1>12. CASE SendFailed(n)
  <2>1. UNCHANGED <<wbuffer, accepted, action, last_writing, pending, wire, send_jam,
                    running_r, running_w, torn>>
    BY <1>12 DEF SendFailed, out, monitors
  <2>2. RetrySameWrite'
    BY <1>3, <2>1 DEF StreamInv, RetrySameWrite, Take
  <2>3. QED
    BY <1>3, <1>6, <1>8, <2>1, <2>2 DEF StreamInv, TypeOK
<1>13. ASSUME NEW taken \in 1..n, SendPart(n, taken)
       PROVE  StreamInv'
  <2>0. taken \in 0..n /\ taken < n /\ wbuffer = <<>>
    BY <1>3, <1>13 DEF SendPart, Direct
  <2>1. /\ Take(b, taken) \in Seq(Nat)
        /\ Drop(b, taken) \in Seq(Nat) /\ Len(Drop(b, taken)) = n - taken
        /\ Take(b, taken) \o Drop(b, taken) = b
    BY <1>3, <2>0, TakeDrop
  <2>2. /\ wire' = wire \o Take(b, taken) /\ wire' \in Seq(Nat)
        /\ UNCHANGED <<action, last_writing, pending, running_r>>
    <3>1. /\ wire' = wire \o Take(b, taken)
          /\ UNCHANGED <<action, last_writing, pending, running_r>>
      BY <1>13 DEF SendPart, b
    <3>2. QED
      BY <1>3, <2>1, <3>1, ConcatProperties
  <2>3. last_writing = 0 /\ Len(wbuffer) = 0
    BY <1>3, <2>0, EmptySeq
  <2>4. CASE Fits(n - taken)
    <3>1. /\ wbuffer' = Drop(b, taken) /\ accepted' = accepted \o b
          /\ running_w' = TRUE /\ send_jam' = TRUE /\ torn' = torn
      BY <1>13, <2>4 DEF SendPart, b
    <3>2. Len(wbuffer') <= kMaximumBytes /\ 0 <= Len(wbuffer')
      BY SMTT(30), <1>3, <1>4, <2>0, <2>1, <2>3, <2>4, <3>1 DEF Fits
    <3>3. ~torn' => wire' \o wbuffer' = accepted'
      <4>1. (wire \o Take(b, taken)) \o Drop(b, taken) = wire \o b
        <5>1. (wire \o Take(b, taken)) \o Drop(b, taken)
                = wire \o (Take(b, taken) \o Drop(b, taken))
          BY <1>3, <2>1, ConcatAssoc
        <5>2. QED
          BY <2>1, <5>1
      <4>2. ~torn => wire = accepted
        BY <1>3, <1>6, <2>0, ConcatEmptySeq
      <4>3. QED
        BY <2>2, <3>1, <4>1, <4>2
    <3>4. RetrySameWrite'
      BY <1>3, <2>0, <2>2, <3>1, DirectPending DEF RetrySameWrite
    <3>5. QED
      BY <1>3, <1>5, <1>8, <2>1, <2>2, <2>3, <3>1, <3>2, <3>3, <3>4 DEF StreamInv, TypeOK
  <2>5. CASE ~Fits(n - taken)
    <3>1. torn' = TRUE /\ UNCHANGED <<wbuffer, accepted, running_w, send_jam>>
      BY <1>13, <2>5 DEF SendPart
    <3>2. RetrySameWrite'
      BY <3>1 DEF RetrySameWrite
    <3>3. QED
      BY <1>3, <1>8, <2>2, <3>1, <3>2 DEF StreamInv, TypeOK
  <2>6. QED
    BY <2>4, <2>5
<1>14. ASSUME NEW status \in Wanna, SendIncomplete(n, status)
       PROVE  StreamInv'
  <2>1. /\ wbuffer = <<>> /\ pending' = b /\ wire' = wire
    BY <1>14 DEF SendIncomplete, Direct, b
  <2>2. CASE Fits(n)
    <3>1. /\ wbuffer' = b /\ accepted' = accepted \o b /\ action' = "Write"
          /\ running_r' \in BOOLEAN /\ running_w' \in BOOLEAN /\ send_jam' = TRUE
          /\ last_writing' = n /\ torn' = torn
      BY <1>14, <2>2 DEF SendIncomplete, AfterEvent, SetWanna, b
    <3>2. Len(wbuffer') <= kMaximumBytes /\ last_writing' <= Len(wbuffer')
      BY <1>3, <1>4, <2>1, <2>2, <3>1, EmptySeq DEF Fits
    <3>3. ~torn' => wire' \o wbuffer' = accepted'
      BY <1>3, <1>6, <2>1, <3>1, ConcatEmptySeq
    <3>4. RetrySameWrite'
      <4>1. Take(b, n) = b
        BY <1>3, SubSeqFull DEF Take
      <4>2. QED
        BY <1>3, <2>1, <3>1, <4>1 DEF RetrySameWrite
    <3>5. QED
      BY <1>3, <1>5, <1>8, <2>1, <3>1, <3>2, <3>3, <3>4 DEF StreamInv, TypeOK, Action
  <2>3. CASE ~Fits(n)
    <3>1. torn' = TRUE
          /\ UNCHANGED <<wbuffer, accepted, action, running_r, running_w, send_jam, last_writing>>
      BY <1>14, <2>3 DEF SendIncomplete, monitors
    <3>2. RetrySameWrite'
      BY <3>1 DEF RetrySameWrite
    <3>3. QED
      BY <1>3, <1>8, <2>1, <3>1, <3>2 DEF StreamInv, TypeOK
  <2>4. QED
    BY <2>2, <2>3
<1>15. QED
  BY <1>1, <1>9, <1>10, <1>11, <1>12, <1>13, <1>14

\* Disconnect() keeps the stream, or what was sent of it if it dumps the queue.
LEMMA DisconnectStreamStep ==
  ASSUME StreamInv, Disconnect
  PROVE  StreamInv'
<1>1. PICK finish_write \in BOOLEAN :
        \/ DisconnectLater(finish_write) \/ DisconnectAgain(finish_write)
        \/ \E ok \in BOOLEAN : DisconnectNow(finish_write, ok)
        \/ \E status \in Wanna : DisconnectIncomplete(finish_write, status)
  BY DEF Disconnect
<1>2. Disconnecting(finish_write)
  BY <1>1 DEF DisconnectLater, DisconnectAgain, DisconnectNow, DisconnectIncomplete
<1>3. /\ closed' \in BOOLEAN /\ connect_jam' \in BOOLEAN /\ action' \in Action
      /\ running_r' \in BOOLEAN /\ running_w' \in BOOLEAN
  <2>1. CASE DisconnectLater(finish_write)
    BY <2>1 DEF DisconnectLater, StreamInv, TypeOK, monitors
  <2>2. CASE DisconnectAgain(finish_write)
    BY <2>2 DEF DisconnectAgain, StreamInv, TypeOK, Monitor, SetWanna
  <2>3. ASSUME NEW ok \in BOOLEAN, DisconnectNow(finish_write, ok)
        PROVE  <1>3!:
    BY <2>3 DEF DisconnectNow, StreamInv, TypeOK, Monitor, SetWanna
  <2>4. ASSUME NEW status \in Wanna, DisconnectIncomplete(finish_write, status)
        PROVE  <1>3!:
    BY <2>4 DEF DisconnectIncomplete, StreamInv, TypeOK, Action, AfterEvent, SetWanna
  <2>5. QED
    BY <1>1, <2>1, <2>2, <2>3, <2>4
<1>4. /\ worker = "attached" /\ graceful' = TRUE
      /\ dumped' = (dumped \/ (~finish_write /\ wbuffer # <<>>))
      /\ UNCHANGED <<worker, attaching, pc, todo, last_writing, pending, wire, send_jam,
                     offered, accepted, torn>>
  BY <1>2 DEF Disconnecting, UserRuns, conn
<1>5. CASE finish_write \/ wbuffer = <<>>
  <2>1. wbuffer' = wbuffer /\ dumped' = dumped
    BY <1>2, <1>5 DEF Disconnecting, StreamInv, TypeOK
  <2>2. TypeOK'
    BY <1>3, <1>4, <2>1 DEF StreamInv, TypeOK
  <2>3. StreamIntegrity' /\ RetrySameWrite'
    BY <1>4, <2>1 DEF StreamInv, StreamIntegrity, RetrySameWrite, Take
  <2>4. QED
    BY <1>4, <2>1, <2>2, <2>3 DEF StreamInv
<1>6. CASE ~finish_write /\ wbuffer # <<>>
  <2>1. wbuffer' = <<>> /\ dumped' = TRUE
    BY <1>2, <1>6 DEF Disconnecting
  <2>2. TypeOK'
    <3>1. wbuffer' \in Seq(Nat) /\ Len(wbuffer') <= kMaximumBytes
      BY <2>1, EmptySeq, LinkageAssumption
    <3>2. QED
      BY <1>3, <1>4, <2>1, <3>1 DEF StreamInv, TypeOK
  <2>3. StreamIntegrity' /\ RetrySameWrite'
    BY <1>4, <2>1 DEF StreamInv, StreamIntegrity, RetrySameWrite, Take
  <2>4. QED
    BY <1>4, <2>1, <2>2, <2>3 DEF StreamInv
<1>7. QED
  BY <1>5, <1>6

\* The stream invariant holds initially and is kept by every step.
LEMMA StreamInvInit == Init => StreamInv
<1> SUFFICES ASSUME Init PROVE StreamInv
  OBVIOUS
<1>1. <<>> \in Seq(Nat) /\ Len(<<>>) = 0
  BY EmptySeq
<1>2. TypeOK
  <2>1. /\ wbuffer \in Seq(Nat) /\ Len(wbuffer) <= kMaximumBytes
        /\ pending \in Seq(Nat) /\ wire \in Seq(Nat) /\ accepted \in Seq(Nat)
    BY <1>1, LinkageAssumption DEF Init
  <2>2. QED
    BY <2>1 DEF Init, TypeOK, Action
<1>3. StreamIntegrity
  <2>1. <<>> \o <<>> = <<>> /\ Take(<<>>, 0) = <<>>
    BY <1>1, ConcatEmptySeq, SubSeqEmpty DEF Take
  <2>2. QED
    BY <1>1, <2>1 DEF Init, StreamIntegrity
<1>4. QED
  BY <1>1, <1>2, <1>3 DEF Init, StreamInv, RetrySameWrite

LEMMA StreamInvNext == StreamInv /\ [Next]_vars => StreamInv'
<1> SUFFICES ASSUME StreamInv, [Next]_vars PROVE StreamInv'
  OBVIOUS
<1>1. CASE Next
  BY <1>1, NextCases, QuietStreamStep, WriteStreamStep, SendStreamStep, DisconnectStreamStep, Zenon
<1>2. CASE UNCHANGED vars
  BY <1>2 DEF StreamInv, TypeOK, StreamIntegrity, RetrySameWrite, Take,
              vars, conn, flags, out, jams, monitors, history
<1>3. QED
  BY <1>1, <1>2

\* Every variable keeps its type and the sending buffer its limit, whatever the
\* transport answers: AppendSendingBuffer() is never exceeded.
THEOREM LinkageType == Spec => []TypeOK
<1>1. Spec => []StreamInv
  BY StreamInvInit, StreamInvNext, PTL DEF Spec
<1>2. StreamInv => TypeOK
  BY DEF StreamInv
<1>3. QED
  BY <1>1, <1>2, PTL

\* The bytes given to the transport followed by those queued are the bytes that
\* Send() promised, for every transport, buffer limit and message length.
THEOREM LinkageStream == Spec => []StreamIntegrity
<1>1. Spec => []StreamInv
  BY StreamInvInit, StreamInvNext, PTL DEF Spec
<1>2. StreamInv => StreamIntegrity
  BY DEF StreamInv
<1>3. QED
  BY <1>1, <1>2, PTL

\* An incomplete SSL_write() is repeated with the same bytes.
THEOREM LinkageRetry == Spec => []RetrySameWrite
<1>1. Spec => []StreamInv
  BY StreamInvInit, StreamInvNext, PTL DEF Spec
<1>2. StreamInv => RetrySameWrite
  BY DEF StreamInv
<1>3. QED
  BY <1>1, <1>2, PTL

(***************************************************************************)
(* What the linkage waits for.  NeverDeaf and QueuedBytesMonitored are     *)
(* about the moments between two events; to be inductive they must also    *)
(* hold while a callback of the handler runs, which may itself send and    *)
(* disconnect.  Only OnMessage() may be entered with monitors that are to  *)
(* be set again when it returns.                                           *)
(***************************************************************************)
MonitorInv ==
  /\ worker = "attached" /\ pc \in {"idle", "connected"} /\ ~running_r
       => running_w /\ (action # "None" \/ wbuffer # <<>>)
  /\ worker = "attached" /\ pc = "message" /\ action # "None" => running_r \/ running_w
  /\ pc \in {"message", "connected"} => worker = "attached"

PlainInv ==
  /\ action \in {"None", "Connect"}
  /\ pc \in {"message", "connected"} => action = "None"
  /\ worker = "attached" /\ pc = "idle" /\ action = "Connect" => running_w
  /\ worker = "attached" /\ pc \in {"idle", "connected"} /\ wbuffer # <<>> => running_w
  /\ worker = "none" => wbuffer = <<>>

WaitInv == StreamInv /\ MonitorInv /\ (~Ssl => PlainInv)

\* AfterEvent() monitors one direction.
LEMMA AfterEventWaits ==
  ASSUME NEW status \in Wanna, AfterEvent(status)
  PROVE  Ssl /\ (running_r' \/ running_w')
BY DEF Wanna, AfterEvent, SetWanna

\* What Send() leaves in the queue and in the monitors.
SendEffect ==
  /\ worker = "attached" /\ UNCHANGED <<worker, pc>>
  /\ wbuffer' = wbuffer \/ wbuffer' # <<>>
  /\ \/ /\ UNCHANGED <<action, running_r, running_w>>
        /\ Direct => wbuffer' = wbuffer
     \/ /\ action' = action
        /\ running_w' = TRUE /\ wbuffer' # <<>>
     \/ /\ Ssl /\ action' = "Write"
        /\ running_r' \/ running_w'

\* Every Send() has that effect.
LEMMA SendQueue ==
  ASSUME StreamInv, Send
  PROVE  SendEffect
<1> USE DEF SendEffect
<1>1. PICK n \in Lengths :
        \/ SendQueued(n) \/ SendAll(n) \/ SendJammed(n) \/ SendFailed(n)
        \/ \E taken \in 1..n : SendPart(n, taken)
        \/ \E status \in Wanna : SendIncomplete(n, status)
  BY DEF Send
<1>2. Offer(n)
  BY <1>1 DEF SendQueued, SendAll, SendJammed, SendFailed, SendPart, SendIncomplete
<1>3. /\ n \in Nat /\ n # 0 /\ Bytes(n) \in Seq(Nat) /\ Len(Bytes(n)) = n
      /\ worker = "attached" /\ wbuffer \in Seq(Nat) /\ UNCHANGED <<worker, pc>>
  BY <1>2, OfferEffect
<1>4. Bytes(n) # <<>> /\ wbuffer \o Bytes(n) # <<>>
  BY <1>3, EmptySeq, ConcatEqualIffEmpty
<1>5. CASE SendQueued(n)
  BY <1>3, <1>4, <1>5 DEF SendQueued, monitors
<1>6. CASE SendAll(n) \/ SendFailed(n)
  BY <1>3, <1>6 DEF SendAll, SendFailed, out, monitors
<1>7. CASE SendJammed(n)
  BY <1>3, <1>4, <1>7 DEF SendJammed, SetWanna, monitors
<1>8. ASSUME NEW taken \in 1..n, SendPart(n, taken)
      PROVE  SendEffect
  <2>1. Drop(Bytes(n), taken) # <<>>
    <3>1. taken \in 0..Len(Bytes(n)) /\ taken < n
      BY <1>3, <1>8 DEF SendPart
    <3>2. Len(Drop(Bytes(n), taken)) = n - taken
      BY <1>3, <3>1, TakeDrop
    <3>3. QED
      BY <1>3, <3>1, <3>2, EmptySeq
  <2>2. QED
    BY <1>3, <1>8, <2>1 DEF SendPart, monitors
<1>9. ASSUME NEW status \in Wanna, SendIncomplete(n, status)
      PROVE  SendEffect
  <2>1. CASE Fits(n)
    BY <1>3, <1>4, <1>9, <2>1, AfterEventWaits DEF SendIncomplete
  <2>2. CASE ~Fits(n)
    BY <1>3, <1>9, <2>2 DEF SendIncomplete, monitors
  <2>3. QED
    BY <2>1, <2>2
<1>10. QED
  BY <1>1, <1>5, <1>6, <1>7, <1>8, <1>9

\* Every step keeps what the linkage waits for.
LEMMA WaitInvNext ==
  ASSUME WaitInv, Next, StreamInv'
  PROVE  WaitInv'
<1> USE DEF WaitInv, MonitorInv, PlainInv, conn, flags, out, jams, monitors, history, vars, SetWanna
<1>0. TypeOK
  BY DEF StreamInv
<1>1. CASE Attach
  <2>1. CASE AttachEstablished
    BY <2>1 DEF AttachEstablished, DoConnected, Monitor
  <2>2. CASE AttachConnecting
    BY <2>2 DEF AttachConnecting
  <2>3. ASSUME NEW a \in {"Accept", "Connect"}, AttachHandshake(a)
        PROVE  WaitInv'
    BY <2>3 DEF AttachHandshake
  <2>4. QED
    BY <1>1, <2>1, <2>2, <2>3 DEF Attach
<1>2. CASE OnReadable \/ OnWritable
  BY <1>2 DEF OnReadable, OnWritable, OnEvent, NextAction
<1>3. CASE EventStep
  <2>1. CASE ReadOk
    BY <1>0, <2>1 DEF ReadOk, Running
  <2>2. CASE ReadFailed \/ MessageError \/ ConnectedFailed \/ HandshakeFailed
    BY <1>0, <2>2 DEF ReadFailed, MessageError, ConnectedFailed, HandshakeFailed, Release
  <2>3. CASE WriteFailed \/ ShutdownAgain \/ ShutdownOk \/ ShutdownFailed
    BY <1>0, <2>3 DEF WriteFailed, ShutdownAgain, ShutdownOk, ShutdownFailed, Release
  <2>4. ASSUME NEW more \in BOOLEAN, ReadDiscarded(more)
        PROVE  WaitInv'
    BY <1>0, <2>4 DEF ReadDiscarded, NextAction, LeaveEvent, Monitor, Running
  <2>5. CASE MessageHangUp \/ MessageMore
    BY <1>0, <2>5 DEF MessageHangUp, MessageMore, NextAction
  <2>6. CASE MessageDone
    BY <1>0, <2>6 DEF MessageDone, LeaveEvent, Monitor
  <2>7. CASE ConnectedOk
    BY <1>0, <2>7 DEF ConnectedOk, LeaveEvent, Monitor
  <2>8. CASE HandshakeOk
    BY <1>0, <2>8 DEF HandshakeOk, Handshaking, Running, DoConnected, Monitor
  <2>9. CASE WriteAll
    BY <1>0, <2>9 DEF WriteAll, WriteTook, LeaveEvent, Monitor, Writing, Running
  <2>10. ASSUME NEW n \in 1..Len(wbuffer), WritePart(n)
        PROVE  WaitInv'
    BY <1>0, <2>10 DEF WritePart, WriteTook, LeaveEvent, Monitor, Writing, Running
  <2>11. CASE WriteEmpty
    BY <1>0, <2>11 DEF WriteEmpty, NextAction, LeaveEvent, Monitor
  <2>12. ASSUME NEW status \in Wanna,
               \/ ReadIncomplete(status) \/ HandshakeIncomplete(status)
               \/ WriteIncomplete(status) \/ ShutdownIncomplete(status)
        PROVE  WaitInv'
    <3>1. Ssl /\ (running_r' \/ running_w') /\ action' # "None"
      BY <2>12, AfterEventWaits
         DEF ReadIncomplete, HandshakeIncomplete, WriteIncomplete, ShutdownIncomplete,
             Handshaking, Running
    <3>2. pc' = "idle"
      BY <2>12 DEF ReadIncomplete, HandshakeIncomplete, WriteIncomplete, ShutdownIncomplete,
             LeaveEvent
    <3>3. QED
      BY <3>1, <3>2
  <2>13. QED
    BY <1>3, <2>1, <2>2, <2>3, <2>4, <2>5, <2>6, <2>7, <2>8, <2>9, <2>10, <2>11, <2>12, Zenon DEF EventStep
<1>4. CASE Send
  <2>1. SendEffect
    BY <1>4, SendQueue
  <2>2. QED
    BY <2>1 DEF SendEffect, Direct
<1>5. CASE Disconnect
  <2>1. PICK finish_write \in BOOLEAN :
          \/ DisconnectLater(finish_write) \/ DisconnectAgain(finish_write)
          \/ \E ok \in BOOLEAN : DisconnectNow(finish_write, ok)
          \/ \E status \in Wanna : DisconnectIncomplete(finish_write, status)
    BY <1>5 DEF Disconnect
  <2>2. Disconnecting(finish_write)
    BY <2>1 DEF DisconnectLater, DisconnectAgain, DisconnectNow, DisconnectIncomplete
  <2>3. /\ worker = "attached" /\ UNCHANGED <<worker, pc>>
        /\ wbuffer' = wbuffer \/ wbuffer' = <<>>
    BY <2>2 DEF Disconnecting, UserRuns
  <2>4. CASE DisconnectLater(finish_write)
    BY <2>3, <2>4 DEF DisconnectLater
  <2>5. CASE DisconnectAgain(finish_write)
    BY <2>3, <2>5 DEF DisconnectAgain, Monitor
  <2>6. ASSUME NEW ok \in BOOLEAN, DisconnectNow(finish_write, ok)
        PROVE  WaitInv'
    BY <2>3, <2>6 DEF DisconnectNow, Monitor
  <2>7. ASSUME NEW status \in Wanna, DisconnectIncomplete(finish_write, status)
        PROVE  WaitInv'
    BY <2>3, <2>7, AfterEventWaits DEF DisconnectIncomplete
  <2>8. QED
    BY <2>1, <2>4, <2>5, <2>6, <2>7
<1>6. CASE JamTimeout \/ CleanedUp \/ WorkerExit
  BY <1>6 DEF JamTimeout, CleanedUp, WorkerExit, Dropped, Release
<1>7. CASE Gone
  BY <1>7 DEF Gone
<1>8. QED
  BY <1>1, <1>2, <1>3, <1>4, <1>5, <1>6, <1>7, Zenon DEF Next

\* The invariant of the whole specification.
LEMMA WaitInvAlways == Spec => []WaitInv
<1>1. Init => WaitInv
  BY StreamInvInit DEF Init, WaitInv, MonitorInv, PlainInv
<1>2. WaitInv /\ [Next]_vars => WaitInv'
  <2>1. ASSUME WaitInv, Next PROVE WaitInv'
    BY <2>1, StreamInvNext, WaitInvNext DEF WaitInv
  <2>2. ASSUME WaitInv, UNCHANGED vars PROVE WaitInv'
    BY <2>2, StreamInvNext DEF WaitInv, MonitorInv, PlainInv, vars, conn, out, monitors
  <2>3. QED
    BY <2>1, <2>2
<1>3. QED
  BY <1>1, <1>2, PTL DEF Spec

\* Between two events the linkage reads, or it waits for writability because of
\* an incomplete call or of queued bytes: no sequence of callbacks, sends and
\* disconnects leaves it waiting for nothing.
THEOREM LinkageNeverDeaf == Spec => []NeverDeaf
<1>1. WaitInv => NeverDeaf
  BY DEF WaitInv, MonitorInv, NeverDeaf
<1>2. QED
  BY <1>1, WaitInvAlways, PTL

\* Without OpenSSL, bytes queued at any time are waiting for writability between
\* two events.
THEOREM LinkageQueueMonitored == ASSUME ~Ssl PROVE Spec => []QueuedBytesMonitored
<1>1. WaitInv => QueuedBytesMonitored
  BY DEF WaitInv, PlainInv, QueuedBytesMonitored
<1>2. QED
  BY <1>1, WaitInvAlways, PTL

\* Between two events a linkage waits for what it needs: the two above as one.
THEOREM LinkageAttentive == Spec => []Attentive
<1>1. WaitInv => NeverDeaf
  BY DEF WaitInv, MonitorInv, NeverDeaf
<1>2. WaitInv /\ ~Ssl => QueuedBytesMonitored
  BY DEF WaitInv, PlainInv, QueuedBytesMonitored
<1>3. WaitInv => Attentive
  BY <1>1, <1>2 DEF Attentive
<1>4. QED
  BY <1>3, WaitInvAlways, PTL

\* What is checked of the linkage over FileDescriptorIo.
PlainSound == StreamIntegrity /\ Attentive

\* Over FileDescriptorIo, too, partial writes and jams lose and reorder nothing, and between
\* two events queued bytes wait for the socket to be writable.
THEOREM LinkagePlainSound == ASSUME ~Ssl PROVE Spec => []PlainSound
BY LinkageStream, LinkageAttentive, PTL DEF PlainSound

-----------------------------------------------------------------------------
(***************************************************************************)
(* EasyJobs.  A queue holds the jobs that wait in it, each once, in the    *)
(* order of their numbers, and whatever waits is in the queue it was       *)
(* hashed to; so all that came before the head of a worker's queue is over *)
(* when the worker runs nothing.  A pool without threads has no worker, and *)
(* one caller joins them.                                                  *)
(***************************************************************************)
JobsAssumed == MaxJobs \in Nat /\ AnyWorker \notin Workers

SharedHold ==
  /\ \A i \in 1..Len(jobs) : where[jobs[i]] = "queued" /\ to[jobs[i]] = AnyWorker
  /\ \A i, k \in 1..Len(jobs) : i < k => jobs[i] < jobs[k]

HashedHold ==
  /\ \A w \in Workers : \A i \in 1..Len(hashjobs[w]) :
       hashjobs[w][i] # Null => where[hashjobs[w][i]] = "queued" /\ to[hashjobs[w][i]] = w
  /\ \A w \in Workers : \A i, k \in 1..Len(hashjobs[w]) :
       i < k /\ hashjobs[w][i] # Null /\ hashjobs[w][k] # Null => hashjobs[w][i] < hashjobs[w][k]

HashedQueued ==
  \A j \in AllJobs : where[j] = "queued" /\ to[j] # AnyWorker =>
    \E i \in 1..Len(hashjobs[to[j]]) : hashjobs[to[j]][i] = j

JobsRun ==
  /\ \A w \in Workers : runs[w] # Null => where[runs[w]] = "running" /\ to[runs[w]] \in {w, AnyWorker}
  /\ \A j \in AllJobs : where[j] = "running" => \E w \in Workers : runs[w] = j
  /\ \A w, u \in Workers : runs[w] # Null /\ runs[w] = runs[u] => w = u

NewLast == \A j, k \in AllJobs : where[j] = "new" /\ j < k => where[k] = "new"

PoolGone ==
  /\ pool = "empty" => io \in {"none", "deleted"} /\ Ended
  /\ pool # "up" => io # "queued" /\ \A w \in Workers : state[w] # "queued"
  /\ \A c \in Callers : shutdown[c] = "joining" => pool = "joining"
  /\ \A c, d \in Callers : shutdown[c] = "joining" /\ shutdown[d] = "joining" => c = d

OrderInv ==
  JobsOK /\ SharedHold /\ HashedHold /\ HashedQueued /\ JobsRun /\ NewLast /\ PoolGone /\ HashedInOrder

JobStates == {"new", "queued", "running", "done", "dumped"}
WorkerStates == {"asking", "waiting", "running", "none", "queued", "deleted"}
IoStates == {"none", "queued", "loop", "quitting", "deleted"}
ShutdownStates == {"no", "pool", "joining", "freeing"}

LEMMA JobsHas ==
  ASSUME OrderInv
  PROVE  /\ jobs \in Seq(AllJobs) /\ hashjobs \in [Workers -> Seq(AllJobs \cup {Null})]
         /\ listed \in BOOLEAN /\ quit \in BOOLEAN /\ misused \in BOOLEAN
         /\ state \in [Workers -> WorkerStates] /\ runs \in [Workers -> AllJobs \cup {Null}]
         /\ \A w \in Workers : (runs[w] # Null) <=> (state[w] = "running")
         /\ io \in IoStates /\ pool \in {"empty", "up", "joining"}
         /\ shutdown \in [Callers -> ShutdownStates]
         /\ to \in [AllJobs -> Workers \cup {AnyWorker}] /\ where \in [AllJobs -> JobStates]
         /\ SharedHold /\ HashedHold /\ HashedQueued /\ JobsRun /\ NewLast /\ PoolGone /\ HashedInOrder
<1>1. Threaded \cup {"none", "queued", "deleted"} = WorkerStates
  BY DEF Threaded, WorkerStates
<1> QED BY <1>1 DEF OrderInv, JobsOK, IoStates, ShutdownStates, JobStates

\* The converse, for the next state.
LEMMA JobsTyped ==
  ASSUME jobs' \in Seq(AllJobs), hashjobs' \in [Workers -> Seq(AllJobs \cup {Null})],
         listed' \in BOOLEAN, quit' \in BOOLEAN, misused' \in BOOLEAN,
         state' \in [Workers -> WorkerStates], runs' \in [Workers -> AllJobs \cup {Null}],
         \A w \in Workers : (runs'[w] # Null) <=> (state'[w] = "running"),
         io' \in IoStates, pool' \in {"empty", "up", "joining"}, shutdown' \in [Callers -> ShutdownStates],
         to' \in [AllJobs -> Workers \cup {AnyWorker}], where' \in [AllJobs -> JobStates]
  PROVE  JobsOK'
<1>1. Threaded \cup {"none", "queued", "deleted"} = WorkerStates
  BY DEF Threaded, WorkerStates
<1> QED BY <1>1 DEF JobsOK, IoStates, ShutdownStates, JobStates

LEMMA JobNumbers ==
  ASSUME JobsAssumed
  PROVE  AllJobs \subseteq Nat /\ Null \notin AllJobs
BY DEF JobsAssumed, AllJobs, Null

\* The queues have jobs in them.
LEMMA QueueElements ==
  ASSUME OrderInv
  PROVE  /\ Len(jobs) \in Nat /\ \A i \in 1..Len(jobs) : jobs[i] \in AllJobs
         /\ \A w \in Workers : /\ hashjobs[w] \in Seq(AllJobs \cup {Null}) /\ Len(hashjobs[w]) \in Nat
                               /\ \A i \in 1..Len(hashjobs[w]) : hashjobs[w][i] \in AllJobs \cup {Null}
<1>1. jobs \in Seq(AllJobs) /\ hashjobs \in [Workers -> Seq(AllJobs \cup {Null})]
  BY JobsHas
<1> QED BY <1>1

\* Steps that move no job.
LEMMA NoJobMoves ==
  ASSUME OrderInv, jobs' = jobs, hashjobs' = hashjobs, runs' = runs, where' = where, to' = to,
         state' \in [Workers -> WorkerStates], \A w \in Workers : state'[w] = "running" <=> state[w] = "running",
         listed' \in BOOLEAN, quit' \in BOOLEAN, misused' \in BOOLEAN,
         io' \in IoStates, pool' \in {"empty", "up", "joining"}, shutdown' \in [Callers -> ShutdownStates],
         PoolGone'
  PROVE  OrderInv'
<1>1. JobsOK'
  BY JobsHas, JobsTyped
<1>2. SharedHold' /\ HashedHold'
  BY JobsHas DEF SharedHold, HashedHold
<1>3. HashedQueued' /\ JobsRun'
  BY JobsHas DEF HashedQueued, JobsRun
<1>4. NewLast' /\ HashedInOrder'
  BY JobsHas DEF NewLast, HashedInOrder
<1> QED BY <1>1, <1>2, <1>3, <1>4 DEF OrderInv

LEMMA EasyInitializeKeeps ==
  ASSUME OrderInv, Initialize
  PROVE  OrderInv'
<1>1. /\ pool = "empty" /\ pool' = "up" /\ listed' = TRUE /\ state' = [w \in Workers |-> "queued"] /\ io' = "queued"
      /\ quit' = FALSE /\ jobs' = jobs /\ hashjobs' = hashjobs /\ runs' = runs /\ shutdown' = shutdown
      /\ to' = to /\ where' = where /\ misused' = misused
  BY DEF Initialize
<1>2. \A w \in Workers : state[w] # "running" /\ state'[w] # "running"
  BY <1>1, JobsHas DEF PoolGone, Ended, Threaded
<1>3. state' \in [Workers -> WorkerStates] /\ io' \in IoStates /\ pool' \in {"empty", "up", "joining"}
  BY <1>1 DEF WorkerStates, IoStates
<1>4. PoolGone'
  <2>1. \A c \in Callers : shutdown'[c] # "joining"
    BY <1>1, JobsHas DEF PoolGone
  <2> QED BY <1>1, <2>1 DEF PoolGone
<1> QED BY <1>1, <1>2, <1>3, <1>4, JobsHas, NoJobMoves

\* Worker w goes from one place to another, and runs nothing in either.
LEMMA WorkerMoves ==
  ASSUME OrderInv, NEW w \in Workers, state[w] # "running", NEW s \in {"asking", "waiting", "deleted"},
         state' = [state EXCEPT ![w] = s], pool = "empty" => s \notin Threaded,
         listed' = listed, quit' = quit, misused' = misused, io' = io, pool' = pool, shutdown' = shutdown
  PROVE  /\ state' \in [Workers -> WorkerStates] /\ \A u \in Workers : state'[u] = "running" <=> state[u] = "running"
         /\ PoolGone'
<1>1. state' \in [Workers -> WorkerStates] /\ \A u \in Workers : state'[u] = IF u = w THEN s ELSE state[u]
  BY JobsHas DEF WorkerStates
<1>2. \A u \in Workers : state'[u] = "running" <=> state[u] = "running"
  BY <1>1
<1>3. PoolGone'
  <2>1. PoolGone
    BY JobsHas
  <2> QED BY <1>1, <2>1 DEF PoolGone, Ended
<1> QED BY <1>1, <1>2, <1>3

\* A thread works only while the pool has threads.
LEMMA PoolUp ==
  ASSUME OrderInv, NEW w \in Workers, state[w] \in {"queued", "asking", "waiting", "running"}
  PROVE  pool # "empty"
BY JobsHas DEF PoolGone, Ended, Threaded

LEMMA WorkerAsksKeeps ==
  ASSUME OrderInv, NEW w \in Workers, StartWorker(w) \/ GetJobWait(w) \/ SpuriousWakeup(w)
  PROVE  OrderInv'
<1>1. PICK s \in {"asking", "waiting", "deleted"} :
        /\ state[w] \in {"queued", "asking", "waiting"} /\ state' = [state EXCEPT ![w] = s]
        /\ jobs' = jobs /\ hashjobs' = hashjobs /\ listed' = listed /\ runs' = runs /\ io' = io /\ quit' = quit
        /\ pool' = pool /\ shutdown' = shutdown /\ to' = to /\ where' = where /\ misused' = misused
  BY DEF StartWorker, GetJobWait, SpuriousWakeup
<1>2. pool # "empty" /\ state[w] # "running"
  BY <1>1, PoolUp
<1>3. /\ state' \in [Workers -> WorkerStates] /\ \A u \in Workers : state'[u] = "running" <=> state[u] = "running"
      /\ PoolGone'
  BY <1>1, <1>2, WorkerMoves
<1> QED BY <1>1, <1>3, JobsHas, NoJobMoves

LEMMA IoStepKeeps ==
  ASSUME OrderInv, IoStep
  PROVE  OrderInv'
<1>1. /\ io \in {"queued", "loop", "quitting"} /\ io' \in {"loop", "quitting", "deleted"} /\ quit' \in BOOLEAN
      /\ jobs' = jobs /\ hashjobs' = hashjobs /\ listed' = listed /\ runs' = runs /\ state' = state
      /\ pool' = pool /\ shutdown' = shutdown /\ to' = to /\ where' = where /\ misused' = misused
  BY JobsHas DEF IoStep, StartIo, IoQuit, IoReturn
<1>2. PoolGone'
  BY <1>1, JobsHas DEF PoolGone, Ended
<1>3. io' \in IoStates
  BY <1>1 DEF IoStates
<1> QED BY <1>1, <1>2, <1>3, JobsHas, NoJobMoves

LEMMA JobSendKeeps ==
  ASSUME OrderInv, NEW w \in Workers, JobSend(w)
  PROVE  OrderInv'
<1>1. /\ misused' \in BOOLEAN
      /\ jobs' = jobs /\ hashjobs' = hashjobs /\ listed' = listed /\ runs' = runs /\ state' = state /\ io' = io
      /\ quit' = quit /\ pool' = pool /\ shutdown' = shutdown /\ to' = to /\ where' = where
  BY DEF JobSend
<1>2. PoolGone'
  BY <1>1, JobsHas DEF PoolGone, Ended
<1> QED BY <1>1, <1>2, JobsHas, NoJobMoves

LEMMA ShutdownPoolKeeps ==
  ASSUME OrderInv, NEW c \in Callers, ShutdownPool(c) \/ ShutdownNoPool(c) \/ ShutdownJoined(c)
  PROVE  OrderInv'
<1>1. /\ jobs' = jobs /\ hashjobs' = hashjobs /\ listed' = listed /\ runs' = runs
      /\ quit' = quit /\ to' = to /\ where' = where /\ misused' = misused
      /\ \E s \in ShutdownStates : shutdown' = [shutdown EXCEPT ![c] = s]
  BY DEF ShutdownPool, ShutdownNoPool, ShutdownJoined, ShutdownStates
<1>2. shutdown' \in [Callers -> ShutdownStates]
  BY <1>1, JobsHas
<1>0. PoolGone /\ \A d \in Callers : d # c => shutdown'[d] = shutdown[d]
  BY <1>1, JobsHas
<1>3. CASE ShutdownPool(c)
  <2>1. /\ pool' = "joining" /\ pool = "up" /\ io' = IF io = "queued" THEN "deleted" ELSE io
        /\ state' = [w \in Workers |-> IF state[w] = "queued" THEN "deleted" ELSE state[w]]
    BY <1>3 DEF ShutdownPool
  <2>2. \A w \in Workers : state'[w] = IF state[w] = "queued" THEN "deleted" ELSE state[w]
    BY <2>1
  <2>3. state' \in [Workers -> WorkerStates] /\ io' \in IoStates
    BY <2>1, JobsHas DEF WorkerStates, IoStates
  <2>4. PoolGone'
    <3>1. \A d \in Callers : shutdown[d] # "joining"
      BY <1>0, <2>1 DEF PoolGone
    <3> QED BY <1>0, <2>1, <2>2, <3>1 DEF PoolGone
  <2>5. \A w \in Workers : state'[w] = "running" <=> state[w] = "running"
    BY <2>2
  <2> QED BY <1>1, <1>2, <2>1, <2>3, <2>4, <2>5, JobsHas, NoJobMoves
<1>4. CASE ShutdownNoPool(c)
  <2>1. state' = state /\ io' = io /\ pool' = pool /\ shutdown'[c] = "freeing"
    BY <1>4, JobsHas DEF ShutdownNoPool
  <2>2. PoolGone'
    BY <1>0, <2>1 DEF PoolGone, Ended
  <2> QED BY <1>1, <1>2, <2>1, <2>2, JobsHas, NoJobMoves
<1>5. CASE ShutdownJoined(c)
  <2>1. state' = state /\ io' = io /\ pool' = "empty" /\ Joined /\ shutdown[c] = "joining" /\ shutdown'[c] = "freeing"
    BY <1>5, JobsHas DEF ShutdownJoined
  <2>2. \A w \in Workers : state[w] # "queued"
    BY <1>0, <2>1 DEF PoolGone
  <2>3. \A d \in Callers : shutdown'[d] # "joining"
    BY <1>0, <2>1 DEF PoolGone
  <2>4. PoolGone'
    BY <2>1, <2>2, <2>3 DEF PoolGone, Ended, Joined
  <2> QED BY <1>1, <1>2, <2>1, <2>4, JobsHas, NoJobMoves
<1> QED BY <1>3, <1>4, <1>5

-----------------------------------------------------------------------------
\* What is not new came before what is.
LEMMA NewIsLast ==
  ASSUME OrderInv, JobsAssumed, NEW j \in AllJobs, where[j] = "new", NEW k \in AllJobs, where[k] # "new"
  PROVE  k < j
<1>1. ~(j < k) /\ j # k
  BY JobsHas DEF NewLast
<1>2. j \in Nat /\ k \in Nat
  BY JobNumbers
<1> QED BY <1>1, <1>2

LEMMA SharedAppended ==
  ASSUME NEW C, NEW s \in Seq(C), NEW j \in C, NEW q, q = Append(s, j)
  PROVE  /\ q \in Seq(C) /\ Len(s) \in Nat /\ Len(q) = Len(s) + 1 /\ q[Len(s) + 1] = j
         /\ \A i \in 1..Len(s) : q[i] = s[i]
         /\ \A i : i \in 1..Len(q) <=> i \in 1..Len(s) \/ i = Len(s) + 1
<1>1. q \in Seq(C) /\ Len(s) \in Nat /\ Len(q) = Len(s) + 1 /\ q[Len(s) + 1] = j
  OBVIOUS
<1>2. \A i \in 1..Len(s) : q[i] = s[i]
  OBVIOUS
<1>3. \A i : i \in 1..(Len(s) + 1) <=> i \in 1..Len(s) \/ i = Len(s) + 1
  BY <1>1
<1> QED BY <1>1, <1>2, <1>3

LEMMA HashedAppended ==
  ASSUME NEW C, NEW p \in [Workers -> Seq(C)], NEW w \in Workers, NEW j \in C, NEW q,
         q = [p EXCEPT ![w] = Append(@, j)]
  PROVE  /\ q \in [Workers -> Seq(C)] /\ Len(p[w]) \in Nat /\ Len(q[w]) = Len(p[w]) + 1
         /\ q[w][Len(p[w]) + 1] = j /\ \A i \in 1..Len(p[w]) : q[w][i] = p[w][i]
         /\ \A i : i \in 1..Len(q[w]) <=> i \in 1..Len(p[w]) \/ i = Len(p[w]) + 1
         /\ \A u \in Workers : u # w => q[u] = p[u]
<1>1. p[w] \in Seq(C) /\ q[w] = Append(p[w], j) /\ \A u \in Workers : u # w => q[u] = p[u]
  OBVIOUS
<1>2. /\ q[w] \in Seq(C) /\ Len(p[w]) \in Nat /\ Len(q[w]) = Len(p[w]) + 1
      /\ q[w][Len(p[w]) + 1] = j /\ \A i \in 1..Len(p[w]) : q[w][i] = p[w][i]
      /\ \A i : i \in 1..Len(q[w]) <=> i \in 1..Len(p[w]) \/ i = Len(p[w]) + 1
  BY <1>1, SharedAppended
<1>3. q \in [Workers -> Seq(C)]
  BY <1>1, <1>2
<1> QED BY <1>1, <1>2, <1>3

\* What DoAppendJob() leaves alone: the threads but for the ones it wakes, and the history
\* of every other job.
LEMMA AppendFrame ==
  ASSUME OrderInv, JobsAssumed, NEW j \in AllJobs, NEW w \in Workers \cup {AnyWorker}, AppendJob(j, w)
  PROVE  /\ where[j] = "new" /\ \A k \in AllJobs : where'[k] = IF k = j THEN "queued" ELSE where[k]
         /\ \A k \in AllJobs : to'[k] = IF k = j THEN w ELSE to[k]
         /\ where' \in [AllJobs -> JobStates] /\ to' \in [AllJobs -> Workers \cup {AnyWorker}]
         /\ state' \in [Workers -> WorkerStates] /\ \A u \in Workers : state'[u] = "running" <=> state[u] = "running"
         /\ PoolGone' /\ JobsRun' /\ NewLast' /\ HashedInOrder'
<1>1. /\ where[j] = "new" /\ DoAppendJob(j, w) /\ \A k \in AllJobs : k < j => where[k] # "new"
      /\ to' = [to EXCEPT ![j] = w] /\ where' = [where EXCEPT ![j] = "queued"]
      /\ listed' = listed /\ runs' = runs /\ io' = io /\ quit' = quit /\ pool' = pool /\ shutdown' = shutdown
  BY DEF AppendJob
<1>2. /\ \A k \in AllJobs : where'[k] = IF k = j THEN "queued" ELSE where[k]
      /\ \A k \in AllJobs : to'[k] = IF k = j THEN w ELSE to[k]
      /\ where' \in [AllJobs -> JobStates] /\ to' \in [AllJobs -> Workers \cup {AnyWorker}]
  BY <1>1, JobsHas DEF JobStates
<1>3. /\ state' \in [Workers -> WorkerStates]
      /\ \A u \in Workers : state'[u] = state[u] \/ (state[u] = "waiting" /\ state'[u] = "asking")
  <2>1. CASE WakeOne
    <3>1. CASE state' = state
      BY <3>1, JobsHas
    <3>2. ASSUME NEW v \in Workers, state[v] = "waiting", state' = [state EXCEPT ![v] = "asking"]
          PROVE  /\ state' \in [Workers -> WorkerStates]
                 /\ \A u \in Workers : state'[u] = state[u] \/ (state[u] = "waiting" /\ state'[u] = "asking")
      BY <3>2, JobsHas DEF WorkerStates
    <3> QED BY <2>1, <3>1, <3>2 DEF WakeOne, InState
  <2>2. CASE WakeAll
    BY <2>2, JobsHas DEF WakeAll, WorkerStates
  <2> QED BY <1>1, <2>1, <2>2 DEF DoAppendJob
<1>4. PoolGone'
  <2>1. PoolGone
    BY JobsHas
  <2> QED BY <1>1, <1>3, <2>1 DEF PoolGone, Ended, Threaded
<1>5. JobsRun'
  <2>1. JobsRun /\ \A u \in Workers : runs[u] # Null => runs[u] \in AllJobs
    BY JobsHas
  <2>2. \A u \in Workers : runs[u] # Null => runs[u] # j
    BY <1>1, <2>1 DEF JobsRun
  <2> QED BY <1>1, <1>2, <2>1, <2>2 DEF JobsRun
<1>6. NewLast'
  <2> SUFFICES ASSUME NEW i \in AllJobs, NEW k \in AllJobs, where'[i] = "new", i < k PROVE where'[k] = "new"
    BY DEF NewLast
  <2>1. i # j /\ where[i] = "new"
    BY <1>2
  <2>2. where[k] = "new"
    BY <2>1, JobsHas DEF NewLast
  <2>3. ~(i < j)
    BY <1>1, <2>1
  <2> QED BY <1>2, <2>2, <2>3
<1>7. HashedInOrder'
  <2> SUFFICES ASSUME NEW i \in AllJobs, NEW k \in AllJobs, i < k, to'[i] = to'[k], to'[k] # AnyWorker,
                      where'[k] \in {"running", "done"}
               PROVE  where'[i] \in {"done", "dumped"}
    BY DEF HashedInOrder
  <2>1. k # j /\ where[k] \in {"running", "done"}
    BY <1>2
  <2>2. i # j
    <3>1. k < j
      BY <1>1, <2>1, NewIsLast
    <3>2. i \in Nat /\ k \in Nat /\ j \in Nat
      BY JobNumbers
    <3> QED BY <3>1, <3>2
  <2> QED BY <1>2, <2>1, <2>2, JobsHas DEF HashedInOrder
<1> QED BY <1>1, <1>2, <1>3, <1>4, <1>5, <1>6, <1>7

LEMMA AppendSharedKeeps ==
  ASSUME OrderInv, JobsAssumed, NEW j \in AllJobs, AppendJob(j, AnyWorker)
  PROVE  OrderInv'
<1>1. /\ jobs' = Append(jobs, j) /\ hashjobs' = hashjobs
      /\ listed' = listed /\ runs' = runs /\ io' = io /\ quit' = quit /\ pool' = pool /\ shutdown' = shutdown
      /\ misused' = misused
  BY DEF AppendJob, DoAppendJob
<1>2. /\ where[j] = "new" /\ \A k \in AllJobs : where'[k] = IF k = j THEN "queued" ELSE where[k]
      /\ \A k \in AllJobs : to'[k] = IF k = j THEN AnyWorker ELSE to[k]
      /\ where' \in [AllJobs -> JobStates] /\ to' \in [AllJobs -> Workers \cup {AnyWorker}]
      /\ state' \in [Workers -> WorkerStates] /\ \A u \in Workers : state'[u] = "running" <=> state[u] = "running"
      /\ PoolGone' /\ JobsRun' /\ NewLast' /\ HashedInOrder'
  BY AppendFrame
<1>3. jobs \in Seq(AllJobs)
  BY JobsHas
<1>4. /\ jobs' \in Seq(AllJobs) /\ Len(jobs) \in Nat /\ Len(jobs') = Len(jobs) + 1 /\ jobs'[Len(jobs) + 1] = j
      /\ \A i \in 1..Len(jobs) : jobs'[i] = jobs[i]
      /\ \A i : i \in 1..Len(jobs') <=> i \in 1..Len(jobs) \/ i = Len(jobs) + 1
  BY <1>1, <1>3, SharedAppended
<1>5. JobsOK'
  BY <1>1, <1>2, <1>4, JobsHas, JobsTyped
<1>6. \A i \in 1..Len(jobs) : jobs[i] \in AllJobs /\ where[jobs[i]] = "queued" /\ to[jobs[i]] = AnyWorker /\ jobs[i] # j
  BY <1>2, QueueElements, JobsHas DEF SharedHold
<1>7. SharedHold'
  <2>1. ASSUME NEW i \in 1..Len(jobs') PROVE where'[jobs'[i]] = "queued" /\ to'[jobs'[i]] = AnyWorker
    <3>1. CASE i \in 1..Len(jobs)
      BY <1>2, <1>4, <1>6, <3>1
    <3>2. CASE i = Len(jobs) + 1
      BY <1>2, <1>4, <3>2
    <3> QED BY <1>4, <3>1, <3>2
  <2>2. ASSUME NEW i \in 1..Len(jobs'), NEW k \in 1..Len(jobs'), i < k PROVE jobs'[i] < jobs'[k]
    <3>1. i \in 1..Len(jobs)
      BY <1>4, <2>2
    <3>2. CASE k \in 1..Len(jobs)
      BY <1>4, <2>2, <3>1, <3>2, JobsHas DEF SharedHold
    <3>3. CASE k = Len(jobs) + 1
      <4>1. jobs[i] < j
        BY <1>2, <1>6, <3>1, NewIsLast
      <4> QED BY <1>4, <3>1, <3>3, <4>1
    <3> QED BY <1>4, <3>2, <3>3
  <2> QED BY <2>1, <2>2 DEF SharedHold
<1>8. HashedHold'
  <2>1. \A w \in Workers : \A i \in 1..Len(hashjobs[w]) : hashjobs[w][i] # Null =>
          hashjobs[w][i] \in AllJobs /\ where[hashjobs[w][i]] = "queued" /\ to[hashjobs[w][i]] = w
    BY QueueElements, JobsHas DEF HashedHold
  <2>2. \A w \in Workers : \A i \in 1..Len(hashjobs[w]) : hashjobs[w][i] # Null =>
          where'[hashjobs[w][i]] = "queued" /\ to'[hashjobs[w][i]] = w
    BY <1>2, <2>1
  <2> QED BY <1>1, <2>2, JobsHas DEF HashedHold
<1>9. HashedQueued'
  <2> SUFFICES ASSUME NEW k \in AllJobs, where'[k] = "queued", to'[k] # AnyWorker
               PROVE  \E i \in 1..Len(hashjobs[to'[k]]) : hashjobs[to'[k]][i] = k
    BY <1>1 DEF HashedQueued
  <2>1. k # j /\ where[k] = "queued" /\ to'[k] = to[k]
    BY <1>2
  <2> QED BY <2>1, JobsHas DEF HashedQueued
<1> QED BY <1>2, <1>5, <1>7, <1>8, <1>9 DEF OrderInv

LEMMA AppendHashedKeeps ==
  ASSUME OrderInv, JobsAssumed, NEW j \in AllJobs, NEW w \in Workers, AppendJob(j, w)
  PROVE  OrderInv'
<1>1. /\ jobs' = jobs /\ hashjobs' = [hashjobs EXCEPT ![w] = Append(@, j)]
      /\ listed' = listed /\ runs' = runs /\ io' = io /\ quit' = quit /\ pool' = pool /\ shutdown' = shutdown
      /\ misused' = misused
  BY DEF AppendJob, DoAppendJob, JobsAssumed
<1>2. /\ where[j] = "new" /\ \A k \in AllJobs : where'[k] = IF k = j THEN "queued" ELSE where[k]
      /\ \A k \in AllJobs : to'[k] = IF k = j THEN w ELSE to[k]
      /\ where' \in [AllJobs -> JobStates] /\ to' \in [AllJobs -> Workers \cup {AnyWorker}]
      /\ state' \in [Workers -> WorkerStates] /\ \A u \in Workers : state'[u] = "running" <=> state[u] = "running"
      /\ PoolGone' /\ JobsRun' /\ NewLast' /\ HashedInOrder'
  BY AppendFrame
<1>3. hashjobs \in [Workers -> Seq(AllJobs \cup {Null})] /\ j \in AllJobs \cup {Null} /\ j # Null
  BY JobsHas, JobNumbers
<1>4. /\ hashjobs' \in [Workers -> Seq(AllJobs \cup {Null})]
      /\ Len(hashjobs[w]) \in Nat /\ Len(hashjobs'[w]) = Len(hashjobs[w]) + 1
      /\ hashjobs'[w][Len(hashjobs[w]) + 1] = j /\ \A i \in 1..Len(hashjobs[w]) : hashjobs'[w][i] = hashjobs[w][i]
      /\ \A i : i \in 1..Len(hashjobs'[w]) <=> i \in 1..Len(hashjobs[w]) \/ i = Len(hashjobs[w]) + 1
      /\ \A u \in Workers : u # w => hashjobs'[u] = hashjobs[u]
  BY <1>1, <1>3, HashedAppended
<1>5. JobsOK'
  BY <1>1, <1>2, <1>4, JobsHas, JobsTyped
<1>6. SharedHold'
  <2>1. \A i \in 1..Len(jobs) : jobs[i] \in AllJobs /\ where[jobs[i]] = "queued" /\ to[jobs[i]] = AnyWorker /\ jobs[i] # j
    BY <1>2, QueueElements, JobsHas DEF SharedHold
  <2>2. \A i \in 1..Len(jobs) : where'[jobs[i]] = "queued" /\ to'[jobs[i]] = AnyWorker
    BY <1>2, <2>1
  <2> QED BY <1>1, <2>2, JobsHas DEF SharedHold
<1>7. \A u \in Workers : \A i \in 1..Len(hashjobs[u]) : hashjobs[u][i] # Null =>
        /\ hashjobs[u][i] \in AllJobs /\ where[hashjobs[u][i]] = "queued" /\ to[hashjobs[u][i]] = u
        /\ hashjobs[u][i] # j
  BY <1>2, QueueElements, JobsHas DEF HashedHold
<1>8. HashedHold'
  <2>1. ASSUME NEW u \in Workers, NEW i \in 1..Len(hashjobs'[u]), hashjobs'[u][i] # Null
        PROVE  where'[hashjobs'[u][i]] = "queued" /\ to'[hashjobs'[u][i]] = u
    <3>1. CASE u # w
      BY <1>2, <1>4, <1>7, <2>1, <3>1
    <3>2. CASE u = w /\ i \in 1..Len(hashjobs[w])
      BY <1>2, <1>4, <1>7, <2>1, <3>2
    <3>3. CASE u = w /\ i = Len(hashjobs[w]) + 1
      BY <1>2, <1>4, <3>3
    <3> QED BY <1>4, <3>1, <3>2, <3>3
  <2>2. ASSUME NEW u \in Workers, NEW i \in 1..Len(hashjobs'[u]), NEW k \in 1..Len(hashjobs'[u]),
               i < k, hashjobs'[u][i] # Null, hashjobs'[u][k] # Null
        PROVE  hashjobs'[u][i] < hashjobs'[u][k]
    <3>0. \A m, n \in 1..Len(hashjobs[u]) :
            m < n /\ hashjobs[u][m] # Null /\ hashjobs[u][n] # Null => hashjobs[u][m] < hashjobs[u][n]
      BY JobsHas DEF HashedHold
    <3>1. CASE u # w
      BY <1>4, <2>2, <3>0, <3>1
    <3>2. CASE u = w
      <4>1. i \in 1..Len(hashjobs[w])
        BY <1>4, <2>2, <3>2
      <4>2. CASE k \in 1..Len(hashjobs[w])
        BY <1>4, <2>2, <3>0, <3>2, <4>1, <4>2
      <4>3. CASE k = Len(hashjobs[w]) + 1
        <5>1. hashjobs[w][i] \in AllJobs /\ where[hashjobs[w][i]] # "new" /\ hashjobs'[w][i] = hashjobs[w][i]
          BY <1>4, <1>7, <2>2, <3>2, <4>1
        <5>2. hashjobs[w][i] < j
          BY <1>2, <5>1, NewIsLast
        <5> QED BY <1>4, <3>2, <4>3, <5>1, <5>2
      <4> QED BY <1>4, <3>2, <4>2, <4>3
    <3> QED BY <3>1, <3>2
  <2> QED BY <2>1, <2>2 DEF HashedHold
<1>9. HashedQueued'
  <2> SUFFICES ASSUME NEW k \in AllJobs, where'[k] = "queued", to'[k] # AnyWorker
               PROVE  \E i \in 1..Len(hashjobs'[to'[k]]) : hashjobs'[to'[k]][i] = k
    BY DEF HashedQueued
  <2>1. CASE k = j
    <3>1. to'[k] = w /\ Len(hashjobs[w]) + 1 \in 1..Len(hashjobs'[w])
      BY <1>2, <1>4, <2>1
    <3> QED BY <1>4, <2>1, <3>1
  <2>2. CASE k # j
    <3>1. where[k] = "queued" /\ to'[k] = to[k] /\ to[k] \in Workers
      BY <1>2, <2>2, JobsHas
    <3>2. PICK i \in 1..Len(hashjobs[to[k]]) : hashjobs[to[k]][i] = k
      BY <3>1, JobsHas DEF HashedQueued
    <3>3. CASE to[k] # w
      BY <1>4, <3>1, <3>2, <3>3
    <3>4. CASE to[k] = w
      BY <1>4, <3>1, <3>2, <3>4
    <3> QED BY <3>3, <3>4
  <2> QED BY <2>1, <2>2
<1> QED BY <1>2, <1>5, <1>6, <1>8, <1>9 DEF OrderInv

-----------------------------------------------------------------------------
LEMMA HashedTaken ==
  ASSUME NEW C, NEW p \in [Workers -> Seq(C)], NEW w \in Workers, p[w] # <<>>, NEW q,
         q = [p EXCEPT ![w] = Tail(@)]
  PROVE  /\ Head(p[w]) = p[w][1] /\ Head(p[w]) \in C /\ 1 \in 1..Len(p[w])
         /\ q \in [Workers -> Seq(C)]
         /\ \A i \in 1..Len(q[w]) : q[w][i] = p[w][i + 1] /\ i + 1 \in 1..Len(p[w]) /\ 1 < i + 1
         /\ \A i \in 1..Len(p[w]) : i # 1 => i - 1 \in 1..Len(q[w]) /\ q[w][i - 1] = p[w][i]
         /\ \A u \in Workers : u # w => q[u] = p[u]
<1>1. p[w] \in Seq(C)
  OBVIOUS
<1>2. Head(p[w]) = p[w][1] /\ Head(p[w]) \in C /\ 1 \in 1..Len(p[w])
  BY <1>1
<1>3. Tail(p[w]) \in Seq(C) /\ Len(Tail(p[w])) = Len(p[w]) - 1 /\ Len(p[w]) \in Nat
  BY <1>1
<1>4. \A i \in 1..Len(Tail(p[w])) : Tail(p[w])[i] = p[w][i + 1]
  BY <1>1
<1>5. q[w] = Tail(p[w]) /\ \A u \in Workers : u # w => q[u] = p[u]
  OBVIOUS
<1>6. q \in [Workers -> Seq(C)]
  BY <1>3
<1>7. \A i \in 1..(Len(p[w]) - 1) : i + 1 \in 1..Len(p[w]) /\ 1 < i + 1
  BY <1>3
<1>8. \A i \in 1..Len(p[w]) : i # 1 => i - 1 \in 1..(Len(p[w]) - 1) /\ (i - 1) + 1 = i
  BY <1>3
<1>9. \A i \in 1..Len(p[w]) : i # 1 => Tail(p[w])[i - 1] = p[w][i]
  BY <1>3, <1>4, <1>8
<1> QED BY <1>2, <1>3, <1>4, <1>5, <1>6, <1>7, <1>8, <1>9

LEMMA SharedTaken ==
  ASSUME NEW C, NEW p \in Seq(C), p # <<>>
  PROVE  /\ Head(p) = p[1] /\ Head(p) \in C /\ 1 \in 1..Len(p) /\ Tail(p) \in Seq(C)
         /\ \A i \in 1..Len(Tail(p)) : Tail(p)[i] = p[i + 1] /\ i + 1 \in 1..Len(p) /\ 1 < i + 1
<1>1. Head(p) = p[1] /\ Head(p) \in C /\ 1 \in 1..Len(p)
  OBVIOUS
<1>2. Tail(p) \in Seq(C) /\ Len(Tail(p)) = Len(p) - 1 /\ Len(p) \in Nat
  OBVIOUS
<1>3. \A i \in 1..Len(Tail(p)) : Tail(p)[i] = p[i + 1]
  OBVIOUS
<1>4. \A i \in 1..(Len(p) - 1) : i + 1 \in 1..Len(p) /\ 1 < i + 1
  BY <1>2
<1> QED BY <1>1, <1>2, <1>3, <1>4

\* A worker runs job j, before which all that is hashed to it is over.
LEMMA RunJobFrame ==
  ASSUME OrderInv, JobsAssumed, NEW w \in Workers, NEW j \in AllJobs, RunJob(w, j), state[w] = "asking",
         where[j] = "queued", to[j] \in {w, AnyWorker}, to' = to, io' = io, pool' = pool, shutdown' = shutdown,
         \A i \in AllJobs : i < j /\ to[i] = to[j] /\ to[j] # AnyWorker => where[i] \in {"done", "dumped"}
  PROVE  /\ \A k \in AllJobs : where'[k] = IF k = j THEN "running" ELSE where[k]
         /\ where' \in [AllJobs -> JobStates] /\ state' \in [Workers -> WorkerStates]
         /\ runs' \in [Workers -> AllJobs \cup {Null}]
         /\ \A u \in Workers : (runs'[u] # Null) <=> (state'[u] = "running")
         /\ PoolGone' /\ JobsRun' /\ NewLast' /\ HashedInOrder'
<1>1. /\ state' = [state EXCEPT ![w] = "running"] /\ runs' = [runs EXCEPT ![w] = j]
      /\ where' = [where EXCEPT ![j] = "running"]
  BY DEF RunJob
<1>2. (\A k \in AllJobs : where'[k] = IF k = j THEN "running" ELSE where[k]) /\ where' \in [AllJobs -> JobStates]
  BY <1>1, JobsHas DEF JobStates
<1>3. /\ \A u \in Workers : state'[u] = IF u = w THEN "running" ELSE state[u]
      /\ state' \in [Workers -> WorkerStates]
  BY <1>1, JobsHas DEF WorkerStates
<1>4. /\ \A u \in Workers : runs'[u] = IF u = w THEN j ELSE runs[u]
      /\ runs' \in [Workers -> AllJobs \cup {Null}]
  BY <1>1, JobsHas
<1>5. \A u \in Workers : (runs'[u] # Null) <=> (state'[u] = "running")
  <2>1. j # Null /\ \A u \in Workers : (runs[u] # Null) <=> (state[u] = "running")
    BY JobNumbers, JobsHas
  <2> QED BY <1>3, <1>4, <2>1
<1>6. PoolGone'
  <2>1. PoolGone /\ pool # "empty"
    BY JobsHas, PoolUp
  <2> QED BY <1>3, <2>1 DEF PoolGone, Ended
<1>7. JobsRun'
  <2>1. JobsRun /\ (\A u \in Workers : runs[u] # Null => runs[u] \in AllJobs) /\ runs[w] = Null /\ j # Null
    BY JobsHas, JobNumbers
  <2>2. \A u \in Workers : runs[u] # Null => runs[u] # j
    BY <2>1 DEF JobsRun
  <2>3. \A u \in Workers : runs'[u] # Null => where'[runs'[u]] = "running" /\ to'[runs'[u]] \in {u, AnyWorker}
    BY <1>2, <1>4, <2>1, <2>2 DEF JobsRun
  <2>4. ASSUME NEW k \in AllJobs, where'[k] = "running" PROVE \E u \in Workers : runs'[u] = k
    <3>1. CASE k = j
      BY <1>4, <3>1
    <3>2. CASE k # j
      <4>1. PICK u \in Workers : runs[u] = k
        BY <1>2, <2>1, <2>4, <3>2 DEF JobsRun
      <4>2. u # w
        BY <2>1, <4>1, JobNumbers
      <4> QED BY <1>4, <4>1, <4>2
    <3> QED BY <3>1, <3>2
  <2>5. \A u, v \in Workers : runs'[u] # Null /\ runs'[u] = runs'[v] => u = v
    BY <1>4, <2>1, <2>2 DEF JobsRun
  <2> QED BY <2>3, <2>4, <2>5 DEF JobsRun
<1>8. NewLast'
  BY <1>2, JobsHas DEF NewLast
<1>9. HashedInOrder'
  <2> SUFFICES ASSUME NEW i \in AllJobs, NEW k \in AllJobs, i < k, to[i] = to[k], to[k] # AnyWorker,
                      where'[k] \in {"running", "done"}
               PROVE  where'[i] \in {"done", "dumped"}
    BY DEF HashedInOrder
  <2>1. where[i] \in {"done", "dumped"}
    <3>1. CASE k = j
      BY <3>1
    <3>2. CASE k # j
      BY <1>2, <3>2, JobsHas DEF HashedInOrder
    <3> QED BY <3>1, <3>2
  <2> QED BY <1>2, <2>1
<1> QED BY <1>2, <1>3, <1>4, <1>5, <1>6, <1>7, <1>8, <1>9

\* What waits in a queue after its head is another job.
LEMMA GetHashedJobKeeps ==
  ASSUME OrderInv, JobsAssumed, NEW w \in Workers, GetHashedJob(w)
  PROVE  OrderInv'
<1> DEFINE j == Head(hashjobs[w])
<1>1. /\ state[w] = "asking" /\ hashjobs[w] # <<>> /\ j # Null /\ hashjobs' = [hashjobs EXCEPT ![w] = Tail(@)]
      /\ RunJob(w, j) /\ jobs' = jobs /\ listed' = listed /\ io' = io /\ quit' = quit
      /\ pool' = pool /\ shutdown' = shutdown /\ to' = to /\ misused' = misused
  BY DEF GetHashedJob
<1>2. hashjobs \in [Workers -> Seq(AllJobs \cup {Null})]
  BY JobsHas
<1>3. /\ j = hashjobs[w][1] /\ j \in AllJobs \cup {Null} /\ 1 \in 1..Len(hashjobs[w])
      /\ hashjobs' \in [Workers -> Seq(AllJobs \cup {Null})]
      /\ \A i \in 1..Len(hashjobs'[w]) :
           hashjobs'[w][i] = hashjobs[w][i + 1] /\ i + 1 \in 1..Len(hashjobs[w]) /\ 1 < i + 1
      /\ \A i \in 1..Len(hashjobs[w]) : i # 1 =>
           i - 1 \in 1..Len(hashjobs'[w]) /\ hashjobs'[w][i - 1] = hashjobs[w][i]
      /\ \A u \in Workers : u # w => hashjobs'[u] = hashjobs[u]
  BY <1>1, <1>2, HashedTaken
<1>4. j \in AllJobs /\ where[j] = "queued" /\ to[j] = w
  BY <1>1, <1>3, JobsHas DEF HashedHold
<1> HIDE DEF j
<1>5. ASSUME NEW i \in AllJobs, i < j, to[i] = w PROVE where[i] \in {"done", "dumped"}
  <2>1. where[i] # "new"
    BY <1>4, <1>5, JobsHas DEF NewLast
  <2>2. where[i] # "running"
    <3>1. SUFFICES ASSUME where[i] = "running" PROVE FALSE
      OBVIOUS
    <3>2. PICK u \in Workers : runs[u] = i
      BY <3>1, JobsHas DEF JobsRun
    <3>3. i # Null
      BY JobNumbers
    <3>4. to[i] \in {u, AnyWorker}
      BY <3>2, <3>3, JobsHas DEF JobsRun
    <3>5. u = w
      BY <1>5, <3>4 DEF JobsAssumed
    <3> QED BY <1>1, <3>2, <3>3, <3>5, JobsHas
  <2>3. where[i] # "queued"
    <3>1. SUFFICES ASSUME where[i] = "queued" PROVE FALSE
      OBVIOUS
    <3>2. PICK n \in 1..Len(hashjobs[w]) : hashjobs[w][n] = i
      BY <1>5, <3>1, JobsHas DEF HashedQueued, JobsAssumed
    <3>3. i # Null /\ i \in Nat /\ j \in Nat /\ Len(hashjobs[w]) \in Nat
      BY <1>4, JobNumbers, QueueElements
    <3>4. n # 1 /\ 1 < n
      BY <1>3, <1>5, <3>2, <3>3
    <3>5. j < i
      BY <1>1, <1>3, <3>2, <3>3, <3>4, JobsHas DEF HashedHold
    <3> QED BY <1>5, <3>3, <3>5
  <2> QED BY <2>1, <2>2, <2>3, JobsHas DEF JobStates
<1>6. /\ \A k \in AllJobs : where'[k] = IF k = j THEN "running" ELSE where[k]
      /\ where' \in [AllJobs -> JobStates] /\ state' \in [Workers -> WorkerStates]
      /\ runs' \in [Workers -> AllJobs \cup {Null}]
      /\ \A u \in Workers : (runs'[u] # Null) <=> (state'[u] = "running")
      /\ PoolGone' /\ JobsRun' /\ NewLast' /\ HashedInOrder'
  BY <1>1, <1>4, <1>5, RunJobFrame
<1>7. JobsOK'
  BY <1>1, <1>3, <1>6, JobsHas, JobsTyped
<1>8. SharedHold'
  <2>1. \A i \in 1..Len(jobs) : jobs[i] \in AllJobs /\ where[jobs[i]] = "queued" /\ to[jobs[i]] = AnyWorker
    BY QueueElements, JobsHas DEF SharedHold
  <2>2. \A i \in 1..Len(jobs) : where'[jobs[i]] = "queued" /\ to'[jobs[i]] = AnyWorker
    BY <1>1, <1>4, <1>6, <2>1 DEF JobsAssumed
  <2> QED BY <1>1, <2>2, JobsHas DEF SharedHold
<1>9. \A u \in Workers : \A i \in 1..Len(hashjobs[u]) : hashjobs[u][i] # Null =>
        hashjobs[u][i] \in AllJobs /\ where[hashjobs[u][i]] = "queued" /\ to[hashjobs[u][i]] = u
  BY QueueElements, JobsHas DEF HashedHold
<1>10. \A u \in Workers : \A m, n \in 1..Len(hashjobs[u]) :
         m < n /\ hashjobs[u][m] # Null /\ hashjobs[u][n] # Null => hashjobs[u][m] < hashjobs[u][n]
  BY JobsHas DEF HashedHold
<1>11. HashedHold'
  <2>1. ASSUME NEW u \in Workers, NEW i \in 1..Len(hashjobs'[u]), hashjobs'[u][i] # Null
        PROVE  where'[hashjobs'[u][i]] = "queued" /\ to'[hashjobs'[u][i]] = u
    <3>1. CASE u # w
      BY <1>1, <1>3, <1>4, <1>6, <1>9, <2>1, <3>1
    <3>2. CASE u = w
      <4>1. PICK n \in 1..Len(hashjobs[w]) : n = i + 1 /\ 1 < n /\ hashjobs'[w][i] = hashjobs[w][n]
        BY <1>3, <2>1, <3>2
      <4>2. hashjobs[w][n] # Null /\ hashjobs[w][n] \in AllJobs /\ where[hashjobs[w][n]] = "queued"
            /\ to[hashjobs[w][n]] = w
        BY <1>9, <2>1, <3>2, <4>1
      <4>3. hashjobs[w][1] < hashjobs[w][n]
        BY <1>1, <1>3, <1>10, <4>1, <4>2
      <4>4. j # hashjobs[w][n]
        BY <1>3, <1>4, <4>2, <4>3, JobNumbers
      <4> QED BY <1>1, <1>6, <3>2, <4>1, <4>2, <4>4
    <3> QED BY <3>1, <3>2
  <2>2. ASSUME NEW u \in Workers, NEW i \in 1..Len(hashjobs'[u]), NEW k \in 1..Len(hashjobs'[u]),
               i < k, hashjobs'[u][i] # Null, hashjobs'[u][k] # Null
        PROVE  hashjobs'[u][i] < hashjobs'[u][k]
    <3>1. CASE u # w
      BY <1>3, <1>10, <2>2, <3>1
    <3>2. CASE u = w
      <4>1. PICK m \in 1..Len(hashjobs[w]) : m = i + 1 /\ hashjobs'[w][i] = hashjobs[w][m]
        BY <1>3, <3>2
      <4>2. PICK n \in 1..Len(hashjobs[w]) : n = k + 1 /\ hashjobs'[w][k] = hashjobs[w][n]
        BY <1>3, <3>2
      <4>3. m < n
        BY <2>2, <4>1, <4>2
      <4> QED BY <1>10, <2>2, <3>2, <4>1, <4>2, <4>3
    <3> QED BY <3>1, <3>2
  <2> QED BY <2>1, <2>2 DEF HashedHold
<1>12. HashedQueued'
  <2> SUFFICES ASSUME NEW k \in AllJobs, where'[k] = "queued", to'[k] # AnyWorker
               PROVE  \E i \in 1..Len(hashjobs'[to'[k]]) : hashjobs'[to'[k]][i] = k
    BY DEF HashedQueued
  <2>1. k # j /\ where[k] = "queued" /\ to'[k] = to[k] /\ to[k] \in Workers
    BY <1>1, <1>6, JobsHas
  <2>2. PICK i \in 1..Len(hashjobs[to[k]]) : hashjobs[to[k]][i] = k
    BY <2>1, JobsHas DEF HashedQueued
  <2>3. CASE to[k] # w
    BY <1>3, <2>1, <2>2, <2>3
  <2>4. CASE to[k] = w
    <3>1. i # 1
      BY <1>3, <2>1, <2>2, <2>4
    <3>2. i - 1 \in 1..Len(hashjobs'[w]) /\ hashjobs'[w][i - 1] = k
      BY <1>3, <2>2, <2>4, <3>1
    <3> QED BY <2>1, <2>4, <3>2
  <2> QED BY <2>3, <2>4
<1> QED BY <1>6, <1>7, <1>8, <1>11, <1>12 DEF OrderInv

LEMMA GetSharedJobKeeps ==
  ASSUME OrderInv, JobsAssumed, NEW w \in Workers, GetSharedJob(w)
  PROVE  OrderInv'
<1> DEFINE j == Head(jobs)
<1>1. /\ state[w] = "asking" /\ jobs # <<>> /\ jobs' = Tail(jobs) /\ RunJob(w, j)
      /\ hashjobs' = hashjobs /\ listed' = listed /\ io' = io /\ quit' = quit
      /\ pool' = pool /\ shutdown' = shutdown /\ to' = to /\ misused' = misused
  BY DEF GetSharedJob
<1>2. jobs \in Seq(AllJobs)
  BY JobsHas
<1>3. /\ j = jobs[1] /\ j \in AllJobs /\ 1 \in 1..Len(jobs) /\ jobs' \in Seq(AllJobs)
      /\ \A i \in 1..Len(jobs') : jobs'[i] = jobs[i + 1] /\ i + 1 \in 1..Len(jobs) /\ 1 < i + 1
  BY <1>1, <1>2, SharedTaken
<1>4. where[j] = "queued" /\ to[j] = AnyWorker
  BY <1>3, JobsHas DEF SharedHold
<1> HIDE DEF j
<1>5. /\ \A k \in AllJobs : where'[k] = IF k = j THEN "running" ELSE where[k]
      /\ where' \in [AllJobs -> JobStates] /\ state' \in [Workers -> WorkerStates]
      /\ runs' \in [Workers -> AllJobs \cup {Null}]
      /\ \A u \in Workers : (runs'[u] # Null) <=> (state'[u] = "running")
      /\ PoolGone' /\ JobsRun' /\ NewLast' /\ HashedInOrder'
  BY <1>1, <1>3, <1>4, RunJobFrame
<1>6. JobsOK'
  BY <1>1, <1>3, <1>5, JobsHas, JobsTyped
<1>7. /\ \A i \in 1..Len(jobs) : jobs[i] \in AllJobs /\ where[jobs[i]] = "queued" /\ to[jobs[i]] = AnyWorker
      /\ \A i, k \in 1..Len(jobs) : i < k => jobs[i] < jobs[k]
  BY QueueElements, JobsHas DEF SharedHold
<1>8. SharedHold'
  <2>1. ASSUME NEW i \in 1..Len(jobs') PROVE where'[jobs'[i]] = "queued" /\ to'[jobs'[i]] = AnyWorker
    <3>1. PICK n \in 1..Len(jobs) : n = i + 1 /\ 1 < n /\ jobs'[i] = jobs[n]
      BY <1>3
    <3>2. jobs[1] < jobs[n]
      BY <1>3, <1>7, <3>1
    <3>3. j # jobs[n]
      BY <1>3, <1>7, <3>1, <3>2, JobNumbers
    <3> QED BY <1>1, <1>5, <1>7, <3>1, <3>3
  <2>2. ASSUME NEW i \in 1..Len(jobs'), NEW k \in 1..Len(jobs'), i < k PROVE jobs'[i] < jobs'[k]
    <3>1. PICK m \in 1..Len(jobs) : m = i + 1 /\ jobs'[i] = jobs[m]
      BY <1>3
    <3>2. PICK n \in 1..Len(jobs) : n = k + 1 /\ jobs'[k] = jobs[n]
      BY <1>3
    <3>3. m < n
      BY <2>2, <3>1, <3>2
    <3> QED BY <1>7, <3>1, <3>2, <3>3
  <2> QED BY <2>1, <2>2 DEF SharedHold
<1>9. HashedHold'
  <2>1. \A u \in Workers : \A i \in 1..Len(hashjobs[u]) : hashjobs[u][i] # Null =>
          /\ hashjobs[u][i] \in AllJobs /\ where[hashjobs[u][i]] = "queued" /\ to[hashjobs[u][i]] = u
    BY QueueElements, JobsHas DEF HashedHold
  <2>2. \A u \in Workers : \A i \in 1..Len(hashjobs[u]) : hashjobs[u][i] # Null =>
          where'[hashjobs[u][i]] = "queued" /\ to'[hashjobs[u][i]] = u
    BY <1>1, <1>4, <1>5, <2>1 DEF JobsAssumed
  <2> QED BY <1>1, <2>2, JobsHas DEF HashedHold
<1>10. HashedQueued'
  <2> SUFFICES ASSUME NEW k \in AllJobs, where'[k] = "queued", to[k] # AnyWorker
               PROVE  \E i \in 1..Len(hashjobs[to[k]]) : hashjobs[to[k]][i] = k
    BY <1>1 DEF HashedQueued
  <2>1. where[k] = "queued"
    BY <1>5
  <2> QED BY <2>1, JobsHas DEF HashedQueued
<1> QED BY <1>5, <1>6, <1>8, <1>9, <1>10 DEF OrderInv

LEMMA GetNullKeeps ==
  ASSUME OrderInv, JobsAssumed, NEW w \in Workers, GetNull(w)
  PROVE  OrderInv'
<1>1. /\ state[w] = "asking" /\ hashjobs[w] # <<>> /\ Head(hashjobs[w]) = Null
      /\ hashjobs' = [hashjobs EXCEPT ![w] = Tail(@)] /\ state' = [state EXCEPT ![w] = "deleted"]
      /\ jobs' = jobs /\ listed' = listed /\ runs' = runs /\ io' = io /\ quit' = quit
      /\ pool' = pool /\ shutdown' = shutdown /\ to' = to /\ where' = where /\ misused' = misused
  BY DEF GetNull
<1>2. hashjobs \in [Workers -> Seq(AllJobs \cup {Null})]
  BY JobsHas
<1>3. /\ Head(hashjobs[w]) = hashjobs[w][1] /\ 1 \in 1..Len(hashjobs[w])
      /\ hashjobs' \in [Workers -> Seq(AllJobs \cup {Null})]
      /\ \A i \in 1..Len(hashjobs'[w]) :
           hashjobs'[w][i] = hashjobs[w][i + 1] /\ i + 1 \in 1..Len(hashjobs[w]) /\ 1 < i + 1
      /\ \A i \in 1..Len(hashjobs[w]) : i # 1 =>
           i - 1 \in 1..Len(hashjobs'[w]) /\ hashjobs'[w][i - 1] = hashjobs[w][i]
      /\ \A u \in Workers : u # w => hashjobs'[u] = hashjobs[u]
  BY <1>1, <1>2, HashedTaken
<1>4. /\ state' \in [Workers -> WorkerStates] /\ \A u \in Workers : state'[u] = "running" <=> state[u] = "running"
      /\ PoolGone'
  BY <1>1, WorkerMoves DEF Threaded
<1>5. JobsOK'
  BY <1>1, <1>3, <1>4, JobsHas, JobsTyped
<1>6. SharedHold' /\ JobsRun' /\ NewLast' /\ HashedInOrder'
  BY <1>1, JobsHas DEF SharedHold, JobsRun, NewLast, HashedInOrder
<1>7. \A u \in Workers : \A i \in 1..Len(hashjobs[u]) : hashjobs[u][i] # Null =>
        where[hashjobs[u][i]] = "queued" /\ to[hashjobs[u][i]] = u
  BY JobsHas DEF HashedHold
<1>8. \A u \in Workers : \A m, n \in 1..Len(hashjobs[u]) :
         m < n /\ hashjobs[u][m] # Null /\ hashjobs[u][n] # Null => hashjobs[u][m] < hashjobs[u][n]
  BY JobsHas DEF HashedHold
<1>9. HashedHold'
  <2>1. ASSUME NEW u \in Workers, NEW i \in 1..Len(hashjobs'[u]), hashjobs'[u][i] # Null
        PROVE  where[hashjobs'[u][i]] = "queued" /\ to[hashjobs'[u][i]] = u
    BY <1>3, <1>7, <2>1
  <2>2. ASSUME NEW u \in Workers, NEW i \in 1..Len(hashjobs'[u]), NEW k \in 1..Len(hashjobs'[u]),
               i < k, hashjobs'[u][i] # Null, hashjobs'[u][k] # Null
        PROVE  hashjobs'[u][i] < hashjobs'[u][k]
    <3>1. CASE u # w
      BY <1>3, <1>8, <2>2, <3>1
    <3>2. CASE u = w
      <4>1. PICK m \in 1..Len(hashjobs[w]) : m = i + 1 /\ hashjobs'[w][i] = hashjobs[w][m]
        BY <1>3, <3>2
      <4>2. PICK n \in 1..Len(hashjobs[w]) : n = k + 1 /\ hashjobs'[w][k] = hashjobs[w][n]
        BY <1>3, <3>2
      <4>3. m < n
        BY <2>2, <4>1, <4>2
      <4> QED BY <1>8, <2>2, <3>2, <4>1, <4>2, <4>3
    <3> QED BY <3>1, <3>2
  <2> QED BY <1>1, <2>1, <2>2 DEF HashedHold
<1>10. HashedQueued'
  <2> SUFFICES ASSUME NEW k \in AllJobs, where[k] = "queued", to[k] # AnyWorker
               PROVE  \E i \in 1..Len(hashjobs'[to[k]]) : hashjobs'[to[k]][i] = k
    BY <1>1 DEF HashedQueued
  <2>1. to[k] \in Workers /\ k # Null
    BY JobsHas, JobNumbers
  <2>2. PICK i \in 1..Len(hashjobs[to[k]]) : hashjobs[to[k]][i] = k
    BY JobsHas DEF HashedQueued
  <2>3. CASE to[k] # w
    BY <1>3, <2>1, <2>2, <2>3
  <2>4. CASE to[k] = w
    <3>1. i # 1
      BY <1>1, <1>3, <2>1, <2>2, <2>4
    <3>2. i - 1 \in 1..Len(hashjobs'[w]) /\ hashjobs'[w][i - 1] = k
      BY <1>3, <2>2, <2>4, <3>1
    <3> QED BY <2>4, <3>2
  <2> QED BY <2>3, <2>4
<1> QED BY <1>4, <1>5, <1>6, <1>9, <1>10 DEF OrderInv

LEMMA FinishJobKeeps ==
  ASSUME OrderInv, JobsAssumed, NEW w \in Workers, FinishJob(w)
  PROVE  OrderInv'
<1> DEFINE j == runs[w]
<1>1. /\ state[w] = "running" /\ state' = [state EXCEPT ![w] = "asking"] /\ runs' = [runs EXCEPT ![w] = Null]
      /\ where' = [where EXCEPT ![j] = "done"] /\ jobs' = jobs /\ hashjobs' = hashjobs /\ listed' = listed
      /\ io' = io /\ quit' = quit /\ pool' = pool /\ shutdown' = shutdown /\ to' = to /\ misused' = misused
  BY DEF FinishJob
<1>2. j # Null /\ j \in AllJobs
  BY <1>1, JobsHas
<1>3. where[j] = "running"
  BY <1>2, JobsHas DEF JobsRun
<1>4. /\ \A k \in AllJobs : where'[k] = IF k = j THEN "done" ELSE where[k]
      /\ where' \in [AllJobs -> JobStates]
  BY <1>1, <1>2, JobsHas DEF JobStates
<1>5. /\ \A u \in Workers : runs'[u] = IF u = w THEN Null ELSE runs[u]
      /\ runs' \in [Workers -> AllJobs \cup {Null}]
  BY <1>1, JobsHas
<1>6. /\ \A u \in Workers : state'[u] = IF u = w THEN "asking" ELSE state[u]
      /\ state' \in [Workers -> WorkerStates]
  BY <1>1, JobsHas DEF WorkerStates
<1>7. JobsRun'
  <2>1. JobsRun /\ \A u \in Workers : runs[u] # Null => runs[u] \in AllJobs
    BY JobsHas
  <2>2. \A u \in Workers : u # w /\ runs[u] # Null => runs[u] # j
    BY <1>2, <2>1 DEF JobsRun
  <2>3. \A u \in Workers : runs'[u] # Null => where'[runs'[u]] = "running" /\ to'[runs'[u]] \in {u, AnyWorker}
    BY <1>1, <1>4, <1>5, <2>1, <2>2 DEF JobsRun
  <2>4. ASSUME NEW k \in AllJobs, where'[k] = "running" PROVE \E u \in Workers : runs'[u] = k
    <3>1. k # j /\ where[k] = "running"
      BY <1>4, <2>4
    <3>2. PICK u \in Workers : runs[u] = k
      BY <2>1, <3>1 DEF JobsRun
    <3> QED BY <1>5, <3>1, <3>2
  <2>5. \A u, v \in Workers : runs'[u] # Null /\ runs'[u] = runs'[v] => u = v
    BY <1>5, <2>1 DEF JobsRun
  <2> QED BY <2>3, <2>4, <2>5 DEF JobsRun
<1> HIDE DEF j
<1>8. \A u \in Workers : (runs'[u] # Null) <=> (state'[u] = "running")
  <2>1. \A u \in Workers : (runs[u] # Null) <=> (state[u] = "running")
    BY JobsHas
  <2> QED BY <1>5, <1>6, <2>1
<1>9. PoolGone'
  <2>1. PoolGone /\ pool # "empty"
    BY <1>1, JobsHas, PoolUp
  <2> QED BY <1>1, <1>6, <2>1 DEF PoolGone, Ended
<1>10. JobsOK'
  BY <1>1, <1>4, <1>5, <1>6, <1>8, JobsHas, JobsTyped
<1>11. SharedHold'
  <2>1. \A i \in 1..Len(jobs) : jobs[i] \in AllJobs /\ where[jobs[i]] = "queued" /\ to[jobs[i]] = AnyWorker
    BY QueueElements, JobsHas DEF SharedHold
  <2>2. \A i \in 1..Len(jobs) : where'[jobs[i]] = "queued"
    BY <1>3, <1>4, <2>1
  <2> QED BY <1>1, <2>1, <2>2, JobsHas DEF SharedHold
<1>12. HashedHold'
  <2>1. \A u \in Workers : \A i \in 1..Len(hashjobs[u]) : hashjobs[u][i] # Null =>
          /\ hashjobs[u][i] \in AllJobs /\ where[hashjobs[u][i]] = "queued" /\ to[hashjobs[u][i]] = u
    BY QueueElements, JobsHas DEF HashedHold
  <2>2. \A u \in Workers : \A i \in 1..Len(hashjobs[u]) : hashjobs[u][i] # Null =>
          where'[hashjobs[u][i]] = "queued" /\ to[hashjobs[u][i]] = u
    BY <1>3, <1>4, <2>1
  <2> QED BY <1>1, <2>2, JobsHas DEF HashedHold
<1>13. HashedQueued'
  <2> SUFFICES ASSUME NEW k \in AllJobs, where'[k] = "queued", to[k] # AnyWorker
               PROVE  \E i \in 1..Len(hashjobs[to[k]]) : hashjobs[to[k]][i] = k
    BY <1>1 DEF HashedQueued
  <2>1. where[k] = "queued"
    BY <1>4
  <2> QED BY <2>1, JobsHas DEF HashedQueued
<1>14. NewLast'
  BY <1>3, <1>4, JobsHas DEF NewLast
<1>15. HashedInOrder'
  BY <1>1, <1>3, <1>4, JobsHas DEF HashedInOrder
<1> QED BY <1>7, <1>9, <1>10, <1>11, <1>12, <1>13, <1>14, <1>15 DEF OrderInv

-----------------------------------------------------------------------------
\* A Shutdown() dumps what is queued: the queues hold no job, and no job waits.
LEMMA DumpKeeps ==
  ASSUME OrderInv, jobs' = <<>>, where' = Dumped, NEW q \in {<<>>, <<Null>>}, hashjobs' = [w \in Workers |-> q],
         runs' = runs, to' = to, state' \in [Workers -> WorkerStates],
         \A w \in Workers : state'[w] = "running" <=> state[w] = "running",
         listed' \in BOOLEAN, quit' \in BOOLEAN, misused' \in BOOLEAN,
         io' = io, pool' = pool, shutdown' \in [Callers -> ShutdownStates], PoolGone'
  PROVE  OrderInv'
<1>1. /\ \A k \in AllJobs : where'[k] = IF where[k] = "queued" THEN "dumped" ELSE where[k]
      /\ where' \in [AllJobs -> JobStates]
  BY JobsHas DEF Dumped, JobStates
<1>2. jobs' \in Seq(AllJobs) /\ Len(jobs') = 0
  OBVIOUS
<1>3. q \in Seq(AllJobs \cup {Null}) /\ \A i \in 1..Len(q) : i = 1 /\ q[i] = Null
  <2>1. CASE q = <<>>
    BY <2>1
  <2>2. CASE q = <<Null>>
    <3>1. q \in Seq(AllJobs \cup {Null}) /\ Len(q) = 1 /\ q[1] = Null
      BY <2>2
    <3>2. \A i \in 1..1 : i = 1
      OBVIOUS
    <3> QED BY <3>1, <3>2
  <2> QED BY <2>1, <2>2
<1>4. hashjobs' \in [Workers -> Seq(AllJobs \cup {Null})] /\ \A w \in Workers : hashjobs'[w] = q
  BY <1>3
<1>5. JobsOK'
  BY <1>1, <1>2, <1>4, JobsHas, JobsTyped
<1>6. SharedHold'
  BY <1>2 DEF SharedHold
<1>7. HashedHold' /\ HashedQueued'
  BY <1>1, <1>3, <1>4 DEF HashedHold, HashedQueued
<1>8. JobsRun'
  <2>1. JobsRun /\ \A u \in Workers : runs[u] # Null => runs[u] \in AllJobs
    BY JobsHas
  <2> QED BY <1>1, <2>1 DEF JobsRun
<1>9. NewLast'
  BY <1>1, JobsHas DEF NewLast
<1>10. HashedInOrder'
  BY <1>1, JobsHas DEF HashedInOrder
<1> QED BY <1>5, <1>6, <1>7, <1>8, <1>9, <1>10 DEF OrderInv

LEMMA ShutdownDumpKeeps ==
  ASSUME OrderInv, NEW c \in Callers, ShutdownBegin(c) \/ ShutdownFree(c)
  PROVE  OrderInv'
<1>1. /\ jobs' = <<>> /\ where' = Dumped /\ runs' = runs /\ to' = to /\ io' = io /\ pool' = pool
      /\ listed' \in BOOLEAN /\ quit' \in BOOLEAN /\ misused' \in BOOLEAN
  BY JobsHas DEF ShutdownBegin, ShutdownFree, TellWorkers
<1>2. PICK q \in {<<>>, <<Null>>} : hashjobs' = [w \in Workers |-> q]
  BY DEF ShutdownBegin, ShutdownFree, TellWorkers
<1>3. /\ state' \in [Workers -> WorkerStates]
      /\ \A u \in Workers : state'[u] = state[u] \/ (state[u] = "waiting" /\ state'[u] = "asking")
  BY JobsHas DEF ShutdownBegin, ShutdownFree, TellWorkers, WakeAll, WorkerStates
<1>4. PICK s \in {"pool", "no"} : shutdown' = [shutdown EXCEPT ![c] = s]
  BY DEF ShutdownBegin, ShutdownFree
<1>5. shutdown' \in [Callers -> ShutdownStates] /\ \A d \in Callers : shutdown'[d] = IF d = c THEN s ELSE shutdown[d]
  BY <1>4, JobsHas DEF ShutdownStates
<1>6. PoolGone'
  <2>1. PoolGone
    BY JobsHas
  <2> QED BY <1>1, <1>3, <1>5, <2>1 DEF PoolGone, Ended, Threaded
<1>7. \A w \in Workers : state'[w] = "running" <=> state[w] = "running"
  BY <1>3
<1> QED BY <1>1, <1>2, <1>3, <1>5, <1>6, <1>7, DumpKeeps

LEMMA OrderInit ==
  ASSUME JobsInit, JobsAssumed
  PROVE  OrderInv
<1>1. jobs \in Seq(AllJobs) /\ Len(jobs) = 0 /\ \A w \in Workers : hashjobs[w] = <<>> /\ Len(hashjobs[w]) = 0
  BY DEF JobsInit
<1>2. JobsOK
  <2>1. hashjobs \in [Workers -> Seq(AllJobs \cup {Null})] /\ runs \in [Workers -> AllJobs \cup {Null}]
    BY DEF JobsInit
  <2>2. /\ state \in [Workers -> Threaded \cup {"none", "queued", "deleted"}]
        /\ \A w \in Workers : (runs[w] # Null) <=> (state[w] = "running")
        /\ shutdown \in [Callers -> {"no", "pool", "joining", "freeing"}]
    BY DEF JobsInit
  <2>3. /\ to \in [AllJobs -> Workers \cup {AnyWorker}]
        /\ where \in [AllJobs -> {"new", "queued", "running", "done", "dumped"}]
    BY DEF JobsInit
  <2> QED BY <1>1, <2>1, <2>2, <2>3 DEF JobsInit, JobsOK
<1>3. SharedHold /\ HashedHold
  BY <1>1 DEF SharedHold, HashedHold
<1>4. HashedQueued /\ JobsRun /\ NewLast /\ HashedInOrder
  BY DEF JobsInit, HashedQueued, JobsRun, NewLast, HashedInOrder
<1>5. PoolGone
  BY DEF JobsInit, PoolGone, Ended, Threaded
<1> QED BY <1>2, <1>3, <1>4, <1>5 DEF OrderInv

LEMMA OrderStep ==
  ASSUME OrderInv, JobsAssumed, [JobsNext]_jobsVars
  PROVE  OrderInv'
<1>1. CASE UNCHANGED jobsVars
  <2>1. /\ jobs' = jobs /\ hashjobs' = hashjobs /\ listed' = listed /\ runs' = runs /\ state' = state /\ io' = io
        /\ quit' = quit /\ pool' = pool /\ shutdown' = shutdown /\ to' = to /\ where' = where /\ misused' = misused
    BY <1>1 DEF jobsVars
  <2>2. PoolGone'
    BY <2>1, JobsHas DEF PoolGone, Ended
  <2> QED BY <2>1, <2>2, JobsHas, NoJobMoves
<1>2. CASE Initialize
  BY <1>2, EasyInitializeKeeps
<1>3. CASE IoStep
  BY <1>3, IoStepKeeps
<1>4. ASSUME NEW j \in AllJobs, NEW w \in Workers \cup {AnyWorker}, AppendJob(j, w) PROVE OrderInv'
  BY <1>4, AppendSharedKeeps, AppendHashedKeeps
<1>5. ASSUME NEW w \in Workers, WorkerStep(w) \/ SpuriousWakeup(w) \/ JobSend(w) PROVE OrderInv'
  BY <1>5, WorkerAsksKeeps, GetHashedJobKeeps, GetSharedJobKeeps, GetNullKeeps, FinishJobKeeps, JobSendKeeps
     DEF WorkerStep
<1>6. ASSUME NEW c \in Callers, ShutdownBegin(c) \/ ShutdownStep(c) PROVE OrderInv'
  BY <1>6, ShutdownPoolKeeps, ShutdownDumpKeeps DEF ShutdownStep
<1> QED BY <1>1, <1>2, <1>3, <1>4, <1>5, <1>6 DEF JobsNext

\* Jobs hashed to the same worker are run one after the other, in the order in which they
\* were appended, for any number of workers, of callers of Shutdown() and of jobs: whatever
\* thread appends, whenever Shutdown() dumps the queues and however often Initialize() starts
\* over, a job is not taken before the ones ahead of it in its worker's queue are over.
THEOREM HashedJobsInOrder ==
  ASSUME MaxJobs \in Nat, AnyWorker \notin Workers
  PROVE  JobsSpec => [](JobsOK /\ HashedInOrder)
<1>1. JobsAssumed
  BY DEF JobsAssumed
<1>2. JobsInit => OrderInv
  BY <1>1, OrderInit
<1>3. OrderInv /\ [JobsNext]_jobsVars => OrderInv'
  BY <1>1, OrderStep
<1>4. OrderInv => JobsOK /\ HashedInOrder
  BY DEF OrderInv
<1> QED BY <1>2, <1>3, <1>4, PTL DEF JobsSpec

-----------------------------------------------------------------------------
\* With one thread that calls Shutdown(), the stages of a server: what the threads use is
\* there while the pool has threads, and is taken away when the pool has none.
OneCaller == \A c, d \in Callers : c = d

EasyStages ==
  /\ pool # "empty" => listed
  /\ pool = "joining" => \E c \in Callers : shutdown[c] = "joining"
  /\ \A c \in Callers : shutdown[c] = "freeing" => pool = "empty"
  /\ ~listed => jobs = <<>> /\ \A w \in Workers : hashjobs[w] = <<>>

\* A job is taken from what is listed, and a job is appended to it.
LEMMA EasyWorkStages ==
  ASSUME OrderInv, EasyStages,
         \/ \E j \in AllJobs, w \in Workers \cup {AnyWorker} : AppendJob(j, w)
         \/ \E w \in Workers : WorkerStep(w) \/ SpuriousWakeup(w) \/ JobSend(w)
  PROVE  EasyStages'
<1>1. pool' = pool /\ listed' = listed /\ shutdown' = shutdown
  BY DEF AppendJob, WorkerStep, SpuriousWakeup, JobSend, StartWorker, GetJobWait, GetHashedJob, GetSharedJob,
         GetNull, FinishJob
<1>2. CASE listed
  BY <1>1, <1>2 DEF EasyStages
<1>3. CASE ~listed
  <2>1. pool = "empty"
    BY <1>3 DEF EasyStages
  <2>2. io \in {"none", "deleted"} /\ \A w \in Workers : state[w] \notin Threaded
    BY <2>1, JobsHas DEF PoolGone, Ended
  <2>3. ~Appending
    BY <1>3, <2>2 DEF Appending, InState, Threaded
  <2>4. jobs' = jobs /\ hashjobs' = hashjobs
    BY <2>2, <2>3
       DEF AppendJob, WorkerStep, SpuriousWakeup, JobSend, StartWorker, GetJobWait, GetHashedJob, GetSharedJob,
           GetNull, FinishJob, Threaded
  <2> QED BY <1>1, <2>4 DEF EasyStages
<1> QED BY <1>2, <1>3

LEMMA EasyShutdownStages ==
  ASSUME OrderInv, EasyStages, OneCaller, NEW c \in Callers, ShutdownBegin(c) \/ ShutdownStep(c)
  PROVE  EasyStages'
<1>1. shutdown \in [Callers -> ShutdownStates] /\ \A d \in Callers : d = c
  BY JobsHas DEF OneCaller
<1>2. CASE ShutdownBegin(c)
  <2>1. /\ pool' = pool /\ listed' = listed /\ shutdown[c] = "no" /\ shutdown' = [shutdown EXCEPT ![c] = "pool"]
        /\ jobs' = <<>> /\ hashjobs' = [w \in Workers |-> IF listed THEN <<Null>> ELSE <<>>]
    BY <1>2 DEF ShutdownBegin, TellWorkers
  <2>2. pool # "joining" /\ shutdown'[c] = "pool"
    BY <1>1, <2>1 DEF EasyStages
  <2>3. ~listed => \A w \in Workers : hashjobs'[w] = <<>>
    BY <2>1
  <2> QED BY <1>1, <2>1, <2>2, <2>3 DEF EasyStages
<1>3. CASE ShutdownPool(c)
  <2>1. /\ pool = "up" /\ pool' = "joining" /\ listed' = listed /\ shutdown' = [shutdown EXCEPT ![c] = "joining"]
        /\ jobs' = jobs /\ hashjobs' = hashjobs
    BY <1>3 DEF ShutdownPool
  <2>2. shutdown'[c] = "joining"
    BY <1>1, <2>1
  <2> QED BY <1>1, <2>1, <2>2 DEF EasyStages
<1>4. CASE ShutdownNoPool(c)
  <2>1. /\ shutdown[c] = "pool" /\ pool # "up" /\ pool' = pool /\ listed' = listed
        /\ jobs' = jobs /\ hashjobs' = hashjobs
    BY <1>4 DEF ShutdownNoPool
  <2>2. pool = "empty"
    BY <1>1, <2>1, JobsHas DEF EasyStages
  <2> QED BY <2>1, <2>2 DEF EasyStages
<1>5. CASE ShutdownJoined(c)
  BY <1>5 DEF EasyStages, ShutdownJoined
<1>6. CASE ShutdownFree(c)
  <2>1. /\ shutdown[c] = "freeing" /\ pool' = pool /\ shutdown' = [shutdown EXCEPT ![c] = "no"]
        /\ jobs' = <<>> /\ hashjobs' = [w \in Workers |-> <<>>]
    BY <1>6 DEF ShutdownFree
  <2>2. pool = "empty" /\ shutdown'[c] = "no" /\ \A w \in Workers : hashjobs'[w] = <<>>
    BY <1>1, <2>1 DEF EasyStages
  <2> QED BY <1>1, <2>1, <2>2 DEF EasyStages
<1> QED BY <1>2, <1>3, <1>4, <1>5, <1>6 DEF ShutdownStep

LEMMA EasyStep ==
  ASSUME OrderInv, EasyStages, OneCaller, [JobsNext]_jobsVars
  PROVE  EasyStages'
<1>1. CASE UNCHANGED jobsVars
  BY <1>1 DEF EasyStages, jobsVars
<1>2. CASE Initialize
  BY <1>2 DEF EasyStages, Initialize
<1>3. CASE IoStep
  BY <1>3 DEF EasyStages, IoStep, StartIo, IoQuit, IoReturn
<1>4. ASSUME NEW c \in Callers, ShutdownBegin(c) \/ ShutdownStep(c) PROVE EasyStages'
  BY <1>4, EasyShutdownStages
<1> QED BY <1>1, <1>2, <1>3, <1>4, EasyWorkStages DEF JobsNext

LEMMA StagesSound ==
  ASSUME OrderInv, EasyStages, JobsAssumed
  PROVE  EasySound
<1>1. PoolGone
  BY JobsHas
<1>2. OutliveThreads
  BY <1>1 DEF OutliveThreads, EasyStages, PoolGone
<1>3. pool = "empty" => \A j \in AllJobs : where[j] # "running"
  <2> SUFFICES ASSUME pool = "empty", NEW j \in AllJobs, where[j] = "running" PROVE FALSE
    OBVIOUS
  <2>1. PICK w \in Workers : runs[w] = j
    BY JobsHas DEF JobsRun
  <2>2. state[w] = "running"
    BY <2>1, JobsHas, JobNumbers
  <2> QED BY <1>1, <2>2 DEF PoolGone, Ended, Threaded
<1>4. ShutdownComplete
  BY <1>1, <1>3 DEF ShutdownComplete, EasyStages, PoolGone
<1> QED BY <1>2, <1>4 DEF EasySound

\* When one thread at a time calls Shutdown(), the threads of an EasyServer do not outlive
\* the contexts, queues and lists they use, and Shutdown() leaves neither a thread nor a
\* job, for any number of workers and jobs and however often the server is started again.
\* With two callers at a time it is not so: the second one finds the pool joining, does not
\* wait for it, and frees what the first one's threads still use.
THEOREM EasyServerIsSound ==
  ASSUME MaxJobs \in Nat, AnyWorker \notin Workers, \A c, d \in Callers : c = d
  PROVE  JobsSpec => []EasySound
<1>1. JobsAssumed /\ OneCaller
  BY DEF JobsAssumed, OneCaller
<1>2. JobsInit => OrderInv /\ EasyStages
  <2>1. JobsInit => OrderInv
    BY <1>1, OrderInit
  <2>2. JobsInit => EasyStages
    BY DEF JobsInit, EasyStages
  <2> QED BY <2>1, <2>2
<1>3. OrderInv /\ EasyStages /\ [JobsNext]_jobsVars => OrderInv' /\ EasyStages'
  BY <1>1, OrderStep, EasyStep
<1>4. OrderInv /\ EasyStages => EasySound
  BY <1>1, StagesSound
<1> QED BY <1>2, <1>3, <1>4, PTL DEF JobsSpec
=============================================================================
