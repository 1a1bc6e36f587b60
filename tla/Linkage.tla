------------------------------ MODULE Linkage ------------------------------
(***************************************************************************)
(* One connection (class Linkage) driven by the event loop of its          *)
(* LinkageWorker: flinter/linkage/linkage.cpp and the parts of             *)
(* linkage_worker.cpp that call it.  Everything here runs in the worker's  *)
(* thread.  An I/O callback is a sequence of steps (one per round of the   *)
(* loop in OnEvent(), one per call the user's handler makes), during which *)
(* pc is not "idle" and nothing else of the worker runs.                   *)
(*                                                                         *)
(* The transport is either FileDescriptorIo or SslIo (constant Ssl); its   *)
(* answers are chosen nondeterministically among those it can give.  Bytes *)
(* are numbered in the order Send() is asked to transmit them, so that the *)
(* sequences below show loss, duplication and reordering.  The framing of  *)
(* received bytes is in module LinkageReceiver.                            *)
(***************************************************************************)
EXTENDS Naturals, Sequences

CONSTANTS
  Ssl,            \* TRUE: SslIo, FALSE: FileDescriptorIo
  Lengths,        \* the lengths Send() is called with
  kMaximumBytes,  \* the limit of the sending buffer
  MaxBytes        \* bound: how many bytes the user offers to Send() in all

ASSUME LinkageAssumption ==
  /\ Ssl \in BOOLEAN
  /\ Lengths \subseteq Nat \ {0}
  /\ kMaximumBytes \in Nat
  /\ MaxBytes \in Nat

VARIABLES
  worker,     \* "none" before Attach(), "attached", "gone" once deleted
  attaching,  \* Attach() is still running
  pc,         \* "idle", "once" (OnEventOnce(todo) is next), "message", "connected"
  todo,       \* the action OnEvent() is working on, "None" outside of it
  action,     \* _action: the I/O call to repeat on the next event
  running_r, running_w,                 \* events the worker monitors
  wbuffer, last_writing,                \* sending buffer, length to retry
  graceful, closed,
  connect_jam, send_jam,                \* is the timestamp set?
  pending,    \* external: what SSL_write() wants to see again, <<>> if nothing
  offered, accepted, wire, \* history: bytes offered, promised by Send(), given to the I/O
  dumped, torn             \* history: buffer dumped; a failed Send() wrote something

conn == <<worker, attaching, pc, todo>>
flags == <<graceful, closed>>
out == <<wbuffer, last_writing, pending, wire>>
jams == <<connect_jam, send_jam>>
monitors == <<running_r, running_w>>
history == <<offered, accepted, dumped, torn>>
vars == <<conn, action, flags, out, jams, monitors, history>>

Action == {"None", "Read", "Write", "Accept", "Connect", "Shutdown"}

TypeOK ==
  /\ worker \in {"none", "attached", "gone"}
  /\ pc \in {"idle", "once", "message", "connected"}
  /\ todo \in Action
  /\ action \in Action
  /\ attaching \in BOOLEAN /\ running_r \in BOOLEAN /\ running_w \in BOOLEAN
  /\ graceful \in BOOLEAN /\ closed \in BOOLEAN
  /\ connect_jam \in BOOLEAN /\ send_jam \in BOOLEAN
  /\ wbuffer \in Seq(Nat) /\ Len(wbuffer) <= kMaximumBytes
  /\ last_writing \in Nat
  /\ pending \in Seq(Nat) /\ wire \in Seq(Nat) /\ accepted \in Seq(Nat)
  /\ offered \in Nat
  /\ dumped \in BOOLEAN /\ torn \in BOOLEAN

(***************************************************************************)
(* Linkage::Linkage().                                                     *)
(***************************************************************************)
Init ==
  /\ worker = "none" /\ attaching = FALSE /\ pc = "idle" /\ todo = "None"
  /\ action = "None"
  /\ running_r = FALSE /\ running_w = FALSE
  /\ wbuffer = <<>> /\ last_writing = 0
  /\ graceful = FALSE /\ closed = FALSE
  /\ connect_jam = FALSE /\ send_jam = FALSE
  /\ pending = <<>>
  /\ offered = 0 /\ accepted = <<>> /\ wire = <<>>
  /\ dumped = FALSE /\ torn = FALSE

-----------------------------------------------------------------------------
(***************************************************************************)
(* Pieces shared by the actions.                                           *)
(***************************************************************************)

\* The answers that leave an I/O call incomplete: only OpenSSL gives them.
Wanna == IF Ssl THEN {"WannaRead", "WannaWrite"} ELSE {}

\* LinkageWorker::SetWanna().
SetWanna(r, w) == running_r' = r /\ running_w' = w

\* AfterEvent() for an incomplete call: monitor what the I/O asked for.
AfterEvent(status) == SetWanna(status = "WannaRead", status = "WannaWrite")

\* DoRelease() by the worker, or the detach and delete after a failed
\* Attach(): the object is not used any more.
Release ==
  /\ worker' = "gone" /\ attaching' = FALSE /\ pc' = "idle" /\ todo' = "None"
  /\ SetWanna(FALSE, FALSE)

\* OnEvent() returns a positive value to the worker (or to Attach()).
LeaveEvent ==
  /\ pc' = "idle" /\ todo' = "None" /\ attaching' = FALSE
  /\ UNCHANGED worker

\* Defect: queued bytes are forgotten.
MonitorReading(buffer) == SetWanna(TRUE, FALSE)

\* The end of OnEvent(): nothing to repeat, so the default monitoring.
Monitor(buffer) == SetWanna(TRUE, buffer # <<>>)

\* The loop of OnEvent() goes on with another action.
NextAction(a) ==
  /\ pc' = "once" /\ todo' = a
  /\ UNCHANGED <<worker, attaching>>

\* AppendSendingBuffer() fits in the limit.
Fits(n) == n <= kMaximumBytes - Len(wbuffer)

\* DoConnected() up to the call of the handler.
DoConnected ==
  /\ action' = "None"
  /\ connect_jam' = FALSE
  /\ Monitor(wbuffer)
  /\ pc' = "connected"

-----------------------------------------------------------------------------
(***************************************************************************)
(* Attach().  Initialize() of the transport says whether there is a        *)
(* handshake to run at once, one to run when the socket is connected, or   *)
(* none.                                                                   *)
(***************************************************************************)
AttachEstablished ==
  /\ worker = "none" /\ ~Ssl
  /\ worker' = "attached" /\ attaching' = TRUE /\ todo' = "None"
  /\ DoConnected
  /\ UNCHANGED <<flags, out, send_jam, history>>

AttachConnecting ==
  /\ worker = "none"
  /\ worker' = "attached"
  /\ SetWanna(FALSE, TRUE)
  /\ connect_jam' = TRUE
  /\ action' = "Connect"
  /\ UNCHANGED <<attaching, pc, todo, flags, out, send_jam, history>>

AttachHandshake(a) ==
  /\ worker = "none" /\ Ssl
  /\ worker' = "attached" /\ attaching' = TRUE
  /\ SetWanna(FALSE, FALSE)
  /\ connect_jam' = TRUE
  /\ action' = a /\ todo' = a /\ pc' = "once"
  /\ UNCHANGED <<flags, out, send_jam, history>>

(***************************************************************************)
(* The event loop calls OnReadable() or OnWritable(): OnEvent() repeats    *)
(* the incomplete action if there is one.                                  *)
(***************************************************************************)
OnEvent(idle_action) ==
  /\ worker = "attached" /\ pc = "idle"
  /\ NextAction(IF action = "None" THEN idle_action ELSE action)
  /\ UNCHANGED <<action, flags, out, jams, monitors, history>>

OnReadable == running_r /\ OnEvent("Read")

OnWritable == running_w /\ OnEvent("Write")

Running(a) == worker = "attached" /\ pc = "once" /\ todo = a

(***************************************************************************)
(* OnEventOnce(kActionRead).  OnReceived() throws the bytes away once      *)
(* _graceful is set; otherwise it runs the handler (state "message").      *)
(***************************************************************************)
ReadOk ==
  /\ Running("Read") /\ ~graceful
  /\ action' = "None" /\ pc' = "message"
  /\ UNCHANGED <<worker, attaching, todo, flags, out, jams, monitors, history>>

ReadDiscarded(more) ==
  /\ Running("Read") /\ graceful
  /\ more => Ssl
  /\ action' = "None"
  /\ IF more THEN NextAction("Read") /\ UNCHANGED monitors
             ELSE LeaveEvent /\ Monitor(wbuffer)
  /\ UNCHANGED <<flags, out, jams, history>>

ReadIncomplete(status) ==
  /\ Running("Read")
  /\ action' = "Read" /\ AfterEvent(status) /\ LeaveEvent
  /\ UNCHANGED <<flags, out, jams, history>>

\* Closed, jammed, failed: AfterEvent() is not positive in all three cases.
ReadFailed ==
  /\ Running("Read")
  /\ action' = "None" /\ Release
  /\ UNCHANGED <<flags, out, jams, history>>

(***************************************************************************)
(* OnMessage() returns: negative, an error; zero, hang up; positive, keep  *)
(* coming (and read again at once if OpenSSL holds more).                  *)
(***************************************************************************)
MessageError ==
  /\ pc = "message" /\ Release
  /\ UNCHANGED <<action, flags, out, jams, history>>

MessageHangUp ==
  /\ pc = "message" /\ NextAction("Shutdown")
  /\ UNCHANGED <<action, flags, out, jams, monitors, history>>

MessageMore ==
  /\ pc = "message" /\ Ssl /\ NextAction("Read")
  /\ UNCHANGED <<action, flags, out, jams, monitors, history>>

MessageDone ==
  /\ pc = "message" /\ LeaveEvent
  /\ IF action = "None" THEN Monitor(wbuffer) ELSE UNCHANGED monitors
  /\ UNCHANGED <<action, flags, out, jams, history>>

(***************************************************************************)
(* OnConnected() returns.  todo is "None" when Attach() called             *)
(* DoConnected() itself, outside of OnEvent().                             *)
(***************************************************************************)
ConnectedOk ==
  /\ pc = "connected" /\ LeaveEvent
  /\ IF todo # "None" /\ action = "None" THEN Monitor(wbuffer) ELSE UNCHANGED monitors
  /\ UNCHANGED <<action, flags, out, jams, history>>

ConnectedFailed ==
  /\ pc = "connected" /\ Release
  /\ UNCHANGED <<action, flags, out, jams, history>>

(***************************************************************************)
(* OnEventOnce(kActionAccept or kActionConnect).                           *)
(***************************************************************************)
Handshaking == Running("Accept") \/ Running("Connect")

HandshakeOk ==
  /\ Handshaking /\ DoConnected
  /\ UNCHANGED <<worker, attaching, todo, flags, out, send_jam, history>>

HandshakeIncomplete(status) ==
  /\ Handshaking
  /\ action' = todo /\ AfterEvent(status) /\ LeaveEvent
  /\ UNCHANGED <<flags, out, jams, history>>

HandshakeFailed ==
  /\ Handshaking
  /\ action' = "None" /\ Release
  /\ UNCHANGED <<flags, out, jams, history>>

(***************************************************************************)
(* OnEventOnce(kActionWrite).                                              *)
(***************************************************************************)
Take(s, n) == SubSeq(s, 1, n)
Drop(s, n) == SubSeq(s, n + 1, Len(s))

\* Defect: the whole queue, also when a shorter write is to be repeated.
PickEverything == Len(wbuffer)

\* PickSendingBuffer(): repeat the length that OpenSSL has seen.
PickLength == IF last_writing # 0 THEN last_writing ELSE Len(wbuffer)

\* Defect: the events monitored while jammed stay.
WriteTookStaysJammed(n) ==
  /\ wire' = wire \o Take(wbuffer, n)
  /\ wbuffer' = Drop(wbuffer, n)
  /\ last_writing' = 0 /\ pending' = <<>>
  /\ action' = "None" /\ LeaveEvent
  /\ UNCHANGED <<monitors, flags, connect_jam, history>>

\* ConsumeSendingBuffer() after the transport took n bytes.
WriteTook(n) ==
  /\ wire' = wire \o Take(wbuffer, n)
  /\ wbuffer' = Drop(wbuffer, n)
  /\ last_writing' = 0 /\ pending' = <<>>
  /\ action' = "None" /\ LeaveEvent /\ Monitor(wbuffer')
  /\ UNCHANGED <<flags, connect_jam, history>>

Writing == Running("Write") /\ wbuffer # <<>>

WriteAll ==
  /\ Writing /\ ~closed
  /\ WriteTook(PickLength) /\ send_jam' = FALSE

\* Only the kernel takes a part: SSL_MODE_ENABLE_PARTIAL_WRITE is not set.
WritePart(n) ==
  /\ Writing /\ ~closed /\ ~Ssl /\ n < PickLength
  /\ WriteTook(n) /\ send_jam' = TRUE

WriteIncomplete(status) ==
  /\ Writing
  /\ last_writing' = PickLength
  /\ pending' = IF pending = <<>> THEN Take(wbuffer, PickLength) ELSE pending
  /\ send_jam' = TRUE
  /\ action' = "Write" /\ AfterEvent(status) /\ LeaveEvent
  /\ UNCHANGED <<wbuffer, wire, flags, connect_jam, history>>

WriteFailed ==
  /\ Writing
  /\ last_writing' = 0 /\ send_jam' = TRUE
  /\ action' = "None" /\ Release
  /\ UNCHANGED <<wbuffer, wire, pending, flags, connect_jam, history>>

\* Nothing is queued.  That it is not for a Disconnect() either does not happen: an
\* event that writes is monitored only while bytes are queued.
WriteEmpty ==
  /\ Running("Write") /\ wbuffer = <<>>
  /\ action' = "None"
  /\ IF graceful THEN NextAction("Shutdown") /\ UNCHANGED monitors
     ELSE LeaveEvent /\ Monitor(wbuffer)
  /\ UNCHANGED <<flags, out, jams, history>>

(***************************************************************************)
(* OnEventOnce(kActionShutdown) in an event: what Shutdown() returns is    *)
(* what the worker gets.                                                   *)
(***************************************************************************)
ShutdownAgain ==
  /\ Running("Shutdown") /\ closed
  /\ graceful' = TRUE /\ action' = "None" /\ Release
  /\ UNCHANGED <<closed, out, jams, history>>

ShutdownOk ==
  /\ Running("Shutdown") /\ ~closed
  /\ graceful' = TRUE /\ closed' = TRUE /\ connect_jam' = TRUE
  /\ action' = "None" /\ Release
  /\ UNCHANGED <<out, send_jam, history>>

ShutdownIncomplete(status) ==
  /\ Running("Shutdown") /\ ~closed
  /\ graceful' = TRUE /\ connect_jam' = TRUE
  /\ action' = "Shutdown" /\ AfterEvent(status) /\ LeaveEvent
  /\ UNCHANGED <<closed, out, send_jam, history>>

ShutdownFailed ==
  /\ Running("Shutdown") /\ ~closed
  /\ graceful' = TRUE /\ connect_jam' = TRUE
  /\ action' = "None" /\ Release
  /\ UNCHANGED <<closed, out, send_jam, history>>

-----------------------------------------------------------------------------
(***************************************************************************)
(* Send() and Disconnect(): called by the handler's callbacks, or by a     *)
(* command or a timer while no callback of this connection runs.           *)
(***************************************************************************)
UserRuns == worker = "attached" /\ pc \in {"idle", "message", "connected"}

\* The n bytes the user offers now.
Bytes(n) == [i \in 1..n |-> offered + i]

Offer(n) ==
  /\ UserRuns /\ ~graceful
  /\ offered + n <= MaxBytes
  /\ offered' = offered + n
  /\ UNCHANGED <<conn, flags, connect_jam, dumped>>

\* Defect: the queue is not looked at.
DirectPastQueue == action = "None"

\* Send() may call the transport at once; otherwise it only queues.
Direct == action = "None" /\ wbuffer = <<>>

SendQueued(n) ==
  /\ Offer(n) /\ ~Direct
  /\ IF Fits(n)
     THEN wbuffer' = wbuffer \o Bytes(n) /\ accepted' = accepted \o Bytes(n)
     ELSE UNCHANGED <<wbuffer, accepted>>
  /\ UNCHANGED <<action, last_writing, pending, wire, send_jam, monitors, torn>>

SendAll(n) ==
  /\ Offer(n) /\ Direct /\ ~closed
  /\ wire' = wire \o Bytes(n) /\ accepted' = accepted \o Bytes(n)
  /\ send_jam' = FALSE
  /\ UNCHANGED <<action, wbuffer, last_writing, pending, monitors, torn>>

SendPart(n, taken) ==
  /\ Offer(n) /\ Direct /\ ~closed /\ ~Ssl /\ taken < n
  /\ wire' = wire \o Take(Bytes(n), taken)
  /\ IF Fits(n - taken)
     THEN /\ wbuffer' = Drop(Bytes(n), taken)
          /\ accepted' = accepted \o Bytes(n)
          /\ running_w' = TRUE /\ send_jam' = TRUE
          /\ UNCHANGED torn
     ELSE torn' = TRUE /\ UNCHANGED <<wbuffer, accepted, running_w, send_jam>>
  /\ UNCHANGED <<action, last_writing, pending, running_r>>

SendJammed(n) ==
  /\ Offer(n) /\ Direct /\ ~Ssl
  /\ IF Fits(n)
     THEN /\ wbuffer' = Bytes(n) /\ accepted' = accepted \o Bytes(n)
          /\ SetWanna(FALSE, TRUE) /\ send_jam' = TRUE
     ELSE UNCHANGED <<wbuffer, accepted, monitors, send_jam>>
  /\ UNCHANGED <<action, last_writing, pending, wire, torn>>

\* OpenSSL keeps the record it could not send, even when Send() returns false.
SendIncomplete(n, status) ==
  /\ Offer(n) /\ Direct
  /\ pending' = Bytes(n)
  /\ IF Fits(n)
     THEN /\ wbuffer' = Bytes(n) /\ accepted' = accepted \o Bytes(n)
          /\ action' = "Write" /\ AfterEvent(status) /\ send_jam' = TRUE
          /\ last_writing' = n
          /\ UNCHANGED torn
     ELSE /\ torn' = TRUE
          /\ UNCHANGED <<wbuffer, accepted, action, monitors, send_jam, last_writing>>
  /\ UNCHANGED wire

SendFailed(n) ==
  /\ Offer(n) /\ Direct
  /\ UNCHANGED <<action, out, send_jam, monitors, accepted, torn>>

\* Disconnect() up to the call of OnEvent(kActionShutdown).
Disconnecting(finish_write) ==
  /\ UserRuns
  /\ graceful' = TRUE
  /\ wbuffer' = IF finish_write THEN wbuffer ELSE <<>>
  /\ dumped' = (dumped \/ (~finish_write /\ wbuffer # <<>>))
  /\ UNCHANGED <<conn, last_writing, pending, wire, send_jam, offered, accepted, torn>>

DisconnectLater(finish_write) ==
  /\ action # "None" /\ Disconnecting(finish_write)
  /\ UNCHANGED <<action, closed, connect_jam, monitors>>

DisconnectAgain(finish_write) ==
  /\ action = "None" /\ closed /\ Disconnecting(finish_write)
  /\ Monitor(wbuffer')
  /\ UNCHANGED <<action, closed, connect_jam>>

\* Defect: the time of the shutdown is not taken.
DisconnectNowNoJam(finish_write, ok) ==
  /\ action = "None" /\ ~closed /\ Disconnecting(finish_write)
  /\ closed' = ok
  /\ Monitor(wbuffer')
  /\ UNCHANGED <<action, connect_jam>>

\* ok: the transport is shut down; otherwise it failed, and the linkage stays.
DisconnectNow(finish_write, ok) ==
  /\ action = "None" /\ ~closed /\ Disconnecting(finish_write)
  /\ closed' = ok /\ connect_jam' = TRUE
  /\ Monitor(wbuffer')
  /\ UNCHANGED action

DisconnectIncomplete(finish_write, status) ==
  /\ action = "None" /\ ~closed /\ Disconnecting(finish_write)
  /\ connect_jam' = TRUE
  /\ action' = "Shutdown" /\ AfterEvent(status)
  /\ UNCHANGED closed

-----------------------------------------------------------------------------
(***************************************************************************)
(* The worker: the health check of every second, and the end of Run().     *)
(***************************************************************************)
Dropped ==
  /\ worker = "attached" /\ pc = "idle" /\ Release
  /\ UNCHANGED <<action, flags, out, jams, history>>

\* Cleanup(): connect or send timeout.  Time is abstract: a timestamp that
\* is set may be too old.
JamTimeout == (connect_jam \/ send_jam) /\ Dropped

\* Cleanup(): receive timeout, idle timeout, or the handler wants it.
CleanedUp == Dropped

\* Run() leaves its loop.
WorkerExit == Dropped

(***************************************************************************)
(* The steps OnEvent() takes once it is called, with any outcome.          *)
(***************************************************************************)
EventStep ==
  \/ ReadOk \/ ReadFailed \/ \E more \in BOOLEAN : ReadDiscarded(more)
  \/ MessageError \/ MessageHangUp \/ MessageMore \/ MessageDone
  \/ ConnectedOk \/ ConnectedFailed
  \/ HandshakeOk \/ HandshakeFailed
  \/ WriteAll \/ WriteFailed \/ WriteEmpty
  \/ \E n \in 1..Len(wbuffer) : WritePart(n)
  \/ ShutdownAgain \/ ShutdownOk \/ ShutdownFailed
  \/ \E status \in Wanna :
       \/ ReadIncomplete(status) \/ HandshakeIncomplete(status)
       \/ WriteIncomplete(status) \/ ShutdownIncomplete(status)

Attach ==
  \/ AttachEstablished \/ AttachConnecting
  \/ \E a \in {"Accept", "Connect"} : AttachHandshake(a)

Send ==
  \E n \in Lengths :
    \/ SendQueued(n) \/ SendAll(n) \/ SendJammed(n) \/ SendFailed(n)
    \/ \E taken \in 1..n : SendPart(n, taken)
    \/ \E status \in Wanna : SendIncomplete(n, status)

Disconnect ==
  \E finish_write \in BOOLEAN :
    \/ DisconnectLater(finish_write) \/ DisconnectAgain(finish_write)
    \/ \E ok \in BOOLEAN : DisconnectNow(finish_write, ok)
    \/ \E status \in Wanna : DisconnectIncomplete(finish_write, status)

\* The object is deleted: nothing happens any more.
Gone == worker = "gone" /\ UNCHANGED vars

Next ==
  \/ Attach
  \/ OnReadable \/ OnWritable \/ EventStep
  \/ Send \/ Disconnect
  \/ JamTimeout \/ CleanedUp \/ WorkerExit
  \/ Gone

Spec == Init /\ [][Next]_vars

(***************************************************************************)
(* Callbacks return, and the health timer, which fires every second        *)
(* whatever else is ready, finds a connection whose timestamp is too old.  *)
(* An established socket that has not refused a write is writable.  A      *)
(* connection on which nothing happens any more reaches its idle timeout   *)
(* (CleanedUp): weak fairness, because every event starts that time again. *)
(* Nothing is assumed of the peer.                                         *)
(***************************************************************************)
Fairness ==
  /\ WF_vars(EventStep)
  /\ SF_vars(JamTimeout)
  /\ WF_vars(CleanedUp)
  /\ SF_vars(OnWritable /\ action = "None" /\ ~send_jam)

FairSpec == Spec /\ Fairness

-----------------------------------------------------------------------------
(***************************************************************************)
(* Properties.                                                             *)
(***************************************************************************)

\* The bytes given to the transport, followed by the bytes still queued, are
\* the bytes Send() promised to send, in order and once each: partial writes,
\* jams, retries and calls from inside the handler lose and reorder nothing
\* (Send(), PickSendingBuffer(), ConsumeSendingBuffer()).  After a dump the
\* bytes sent are still a prefix.  A Send() that fails after a part of its
\* message went out is the exception.
StreamIntegrity ==
  ~torn => /\ wire = Take(accepted, Len(wire))
           /\ ~dumped => wire \o wbuffer = accepted

\* OpenSSL must be called again with the bytes it could not write: whatever
\* happened since (reads, more Send()s, a Disconnect() that keeps the queue),
\* they head the queue and _last_writing is their number.
RetrySameWrite ==
  worker = "attached" /\ ~torn /\ ~dumped /\ pending # <<>>
    => last_writing = Len(pending) /\ pending = Take(wbuffer, last_writing)

\* Between two events the linkage stops reading only while it waits for the
\* socket to be writable, and for a reason: an incomplete call or queued bytes.
\* In particular it always waits for something.
NeverDeaf ==
  worker = "attached" /\ pc = "idle" /\ ~running_r
    => running_w /\ (action # "None" \/ wbuffer # <<>>)

\* Between two events, queued bytes are waiting for writability, also those
\* that were queued while connecting or inside a callback (without OpenSSL).
QueuedBytesMonitored ==
  worker = "attached" /\ pc = "idle" /\ wbuffer # <<>> => running_w

\* The two together: between two events a linkage is not waiting for nothing.
Attentive == NeverDeaf /\ (~Ssl => QueuedBytesMonitored)

\* A shutdown that was started ends with the release of the linkage, even if
\* the peer never answers: UpdateConnectJam() leaves it to the health check.
ShutdownCompletes == (closed \/ action = "Shutdown") ~> (worker = "gone")

\* A connection attempt or a handshake ends: OnConnected() is called or the
\* linkage is released.
HandshakeEnds ==
  (worker = "attached" /\ action \in {"Accept", "Connect"})
    ~> (worker = "gone" \/ pc = "connected")

\* Queued bytes are sent, or dumped, or the linkage is released.
QueueDrains == wbuffer # <<>> ~> (wbuffer = <<>> \/ worker = "gone")

\* "Only used when kernel send buffer is full." (_wbuffer in linkage.h): on an
\* established connection that is not being closed, bytes that do not wait for
\* writability are there because a write was refused.
QueuedOnlyWhenFull ==
  worker = "attached" /\ pc = "idle" /\ wbuffer # <<>> /\ ~running_w
    => send_jam \/ graceful \/ action \in {"Accept", "Connect"}

\* Disconnect(finish_write = true): the transport is not shut down while
\* promised bytes are queued.
ClosedAfterWriting == closed /\ ~dumped => wbuffer = <<>>

\* Disconnect() disconnects.
DisconnectCompletes == graceful ~> (worker = "gone")

=============================================================================
