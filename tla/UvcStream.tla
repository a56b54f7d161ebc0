------------------------------ MODULE UvcStream ------------------------------
(***************************************************************************)
(* The streaming of libuvc, uvc_start_streaming and uvc_stop_streaming,    *)
(* with the part of libusb it rests on.                                    *)
(*                                                                         *)
(*   Ctl   opens, starts, stops and closes the stream;                     *)
(*   Evt   the thread of libusb, which completes one transfer at a time    *)
(*         and runs _uvc_stream_callback for it;                           *)
(*   User  _uvc_user_caller, which calls the frame callback.               *)
(*                                                                         *)
(* A region under cb_mutex is one step.  The flag running is read and      *)
(* written outside of it.  The stream handle is allocated by each start    *)
(* and freed by uvc_stream_close, so that its fields begin afresh.         *)
(*                                                                         *)
(* The camera sends frames 1, 2, ... of FramePayloads payloads each; the   *)
(* frame ID bit of a payload is the parity of its frame, its end-of-frame  *)
(* bit marks the last one.  Payloads may be lost.                          *)
(***************************************************************************)
EXTENDS Naturals, Sequences

CONSTANTS
  NumTransfers,   \* LIBUVC_NUM_TRANSFER_BUFS
  FramePayloads,  \* payloads in a frame of dwMaxVideoFrameSize bytes
  MaxFrames,      \* bound: frames the camera sends
  MaxStarts,      \* bound: streams started
  MaxFailures     \* bound: submissions that fail, transfers that end in an error

ASSUME SizeAssumption == NumTransfers \in Nat \ {0} /\ FramePayloads \in Nat \ {0}
ASSUME BoundAssumption == MaxFrames \in Nat /\ MaxStarts \in Nat /\ MaxFailures \in Nat

VARIABLES
  running,
  transfers,   \* the indices i with transfers[i] # NULL
  flight,      \* what libusb does with each transfer
  current,     \* the transfer whose callback runs, 0 for none
  next,        \* the next transfer uvc_stream_start submits
  pc,
  fid, outbuf, \* the frame that is being received
  holdbuf, fresh, \* the last complete one, and hold_seq # last_seq
  frame,       \* what the frame callback was given
  plugged,
  sent,        \* payloads the camera has sent
  seen,        \* frames of which a payload has come through
  starts, failures  \* bounds

usb    == <<transfers, flight, current, next>>
data   == <<fid, outbuf, holdbuf, fresh, frame>>
camera == <<sent, seen>>
bounds == <<starts, failures>>
vars == <<running, usb, pc, data, plugged, camera, bounds>>

Transfer == 1 .. NumTransfers
Frame    == 1 .. MaxFrames
Payload  == 1 .. MaxFrames * FramePayloads

Ctl  == "control"
Evt  == "event"
User == "user"
Thread == {Ctl, Evt, User}

PC == {"none", "closed", "submit", "open", "cancel", "waiting", "woken", "join",
       "idle", "payload", "data", "test", "free", "check", "calling", "ended"}

\* "none": not submitted; "flying": in flight; "cancelled": in flight, and the
\* kernel has discarded it; "lost" and "stuck": see UvcUnplug.
Flight == {"none", "flying", "cancelled", "lost", "stuck"}

InFlight == {t \in Transfer : flight[t] # "none"}

Source == INSTANCE FrameSource WITH
  stream     <- IF pc[Ctl] = "closed" THEN "closed" ELSE IF running THEN "open" ELSE "stopping",
  inCallback <- pc[User] = "calling"

-----------------------------------------------------------------------------
Going(t, to, woken) ==
  [u \in Thread |-> IF u = t THEN to ELSE IF u \in woken THEN "woken" ELSE pc[u]]

Goto(t, to) == pc' = Going(t, to, {})

\* pthread_cond_broadcast(&strmh->cb_cond)
Broadcast(t, to) == pc' = Going(t, to, {u \in Thread : pc[u] = "waiting"})

SpuriousWakeup(t) ==
  /\ pc[t] = "waiting"
  /\ Goto(t, "woken")
  /\ UNCHANGED <<running, usb, data, plugged, camera, bounds>>

MayFail == failures < MaxFailures /\ failures' = failures + 1

-----------------------------------------------------------------------------
(* uvc_start_streaming *)

\* uvc_stream_open_ctrl and uvc_stream_start up to the thread it creates.
\* Every failure comes before that, and leaves the stream closed.
Open ==
  /\ pc[Ctl] = "closed"
  /\ starts < MaxStarts
  /\ starts' = starts + 1
  /\ running' = TRUE
  /\ transfers' = Transfer
  /\ next' = 1
  /\ fid' = 0 /\ outbuf' = << >> /\ holdbuf' = << >> /\ fresh' = FALSE /\ frame' = << >>
  /\ pc' = [pc EXCEPT ![Ctl] = "submit", ![User] = "check"]
  /\ UNCHANGED <<flight, current, plugged, camera, failures>>

\* Transfers are submitted until one fails; those that are left are freed, and
\* the start succeeds even when that is all of them.
SubmitNext ==
  /\ pc[Ctl] = "submit"
  /\ \/ /\ next \in Transfer /\ plugged
        /\ flight' = [flight EXCEPT ![next] = "flying"]
        /\ next' = next + 1
        /\ UNCHANGED <<transfers, pc, failures>>
     \/ /\ next \in Transfer
        /\ IF plugged THEN MayFail ELSE UNCHANGED failures
        /\ transfers' = transfers \ (next .. NumTransfers)
        /\ Goto(Ctl, "open")
        /\ UNCHANGED <<flight, next>>
     \/ next \notin Transfer /\ Goto(Ctl, "open") /\ UNCHANGED <<transfers, flight, next, failures>>
  /\ UNCHANGED <<running, current, data, plugged, camera, starts>>

-----------------------------------------------------------------------------
(* The event thread *)

\* usbi_handle_transfer_completion: the transfer is no longer in flight when
\* its callback is called.  One that timed out, stalled or overflowed is
\* tried again, one that was cancelled or failed is freed.
Reap(t) ==
  /\ pc[Evt] = "idle"
  /\ current' = t
  /\ flight' = [flight EXCEPT ![t] = "none"]
  /\ \/ flight[t] = "flying" /\ Goto(Evt, "payload") /\ UNCHANGED failures
     \/ flight[t] = "flying" /\ Goto(Evt, "test") /\ UNCHANGED failures
     \/ flight[t] = "flying" /\ Goto(Evt, "free") /\ MayFail
     \/ flight[t] = "cancelled" /\ Goto(Evt, "free") /\ UNCHANGED failures
  /\ UNCHANGED <<running, transfers, next, data, plugged, camera, starts>>

FrameOf(p) == ((p - 1) \div FramePayloads) + 1

IsLast(p) == p % FramePayloads = 0

\* Mutant: the consumers are not notified.
PublishQuietly(buf, to) ==
  /\ holdbuf' = buf
  /\ outbuf' = << >>
  /\ fresh' = TRUE
  /\ Goto(Evt, to)

\* _uvc_swap_buffers
Publish(buf, to) ==
  /\ holdbuf' = buf
  /\ outbuf' = << >>
  /\ fresh' = TRUE
  /\ Broadcast(Evt, to)

\* Mutant: the frame ID bit is not compared.
NeverFlipped(bit) == FALSE

\* The previous frame was left without its last payload.
Flipped(bit) == fid # bit /\ outbuf # << >>

\* The header of the next payload that comes through.  One with the error
\* bit, or in a packet that failed, counts as lost.  The camera puts the two
\* bytes that UVC prescribes before every payload: the code takes one with
\* fewer as more data of the frame at hand, without a test of its frame.
Header ==
  /\ pc[Evt] = "payload"
  /\ \E p \in Payload :
       /\ p > sent
       /\ sent' = p
       /\ seen' = seen \cup {FrameOf(p)}
       /\ fid' = FrameOf(p) % 2
       /\ IF Flipped(FrameOf(p) % 2)
          THEN Publish(outbuf, "data")
          ELSE Goto(Evt, "data") /\ UNCHANGED <<outbuf, holdbuf, fresh>>
  /\ UNCHANGED <<running, usb, frame, plugged, bounds>>

\* Mutant: the size of the frame is not looked at.
EndsWithBit(buf) == IsLast(sent)

Ends(buf) == IsLast(sent) \/ Len(buf) = FramePayloads

\* The data of the payload, if it has any, and its end-of-frame bit.  A frame
\* also ends when it has dwMaxVideoFrameSize bytes.
Data ==
  /\ pc[Evt] = "data"
  /\ LET buf == Append(outbuf, FrameOf(sent)) IN
     \/ Ends(buf) /\ Publish(buf, "payload")
     \/ /\ ~Ends(buf)
        /\ outbuf' = buf
        /\ Goto(Evt, "payload")
        /\ UNCHANGED <<holdbuf, fresh>>
     \/ Goto(Evt, "payload") /\ UNCHANGED <<outbuf, holdbuf, fresh>>
  /\ UNCHANGED <<running, usb, fid, frame, plugged, camera, bounds>>

\* The last packet of the transfer
PayloadsEnd ==
  /\ pc[Evt] = "payload"
  /\ Goto(Evt, "test")
  /\ UNCHANGED <<running, usb, data, plugged, camera, bounds>>

\* The test of running; a stop may come between it and the submission.
TestRunning ==
  /\ pc[Evt] = "test"
  /\ Goto(Evt, IF running THEN "submit" ELSE "free")
  /\ UNCHANGED <<running, usb, data, plugged, camera, bounds>>

Resubmit ==
  /\ pc[Evt] = "submit"
  /\ \/ /\ plugged
        /\ flight' = [flight EXCEPT ![current] = "flying"]
        /\ current' = 0
        /\ Goto(Evt, "idle")
        /\ UNCHANGED failures
     \/ /\ IF plugged THEN MayFail ELSE UNCHANGED failures
        /\ Goto(Evt, "free")
        /\ UNCHANGED <<flight, current>>
  /\ UNCHANGED <<running, transfers, next, data, plugged, camera, starts>>

\* The callback frees its transfer under cb_mutex.
FreeTransfer ==
  /\ pc[Evt] = "free"
  /\ transfers' = transfers \ {current}
  /\ current' = 0
  /\ Broadcast(Evt, "idle")
  /\ UNCHANGED <<running, flight, next, data, plugged, camera, bounds>>

-----------------------------------------------------------------------------
(* _uvc_user_caller *)

\* The wait is a loop; _uvc_populate_frame copies the frame under cb_mutex.
UserCheck ==
  /\ pc[User] \in {"check", "woken"}
  /\ IF ~running THEN Goto(User, "ended") /\ UNCHANGED <<fresh, frame>>
     ELSE IF fresh THEN Goto(User, "calling") /\ fresh' = FALSE /\ frame' = holdbuf
     ELSE Goto(User, "waiting") /\ UNCHANGED <<fresh, frame>>
  /\ UNCHANGED <<running, usb, fid, outbuf, holdbuf, plugged, camera, bounds>>

UserReturns ==
  /\ pc[User] = "calling"
  /\ Goto(User, "check")
  /\ UNCHANGED <<running, usb, data, plugged, camera, bounds>>

-----------------------------------------------------------------------------
(* uvc_stop_streaming *)

Stop ==
  /\ pc[Ctl] = "open"
  /\ running' = FALSE
  /\ Goto(Ctl, "cancel")
  /\ UNCHANGED <<usb, data, plugged, camera, bounds>>

\* libusb_cancel_transfer.  A transfer that has completed in the kernel, or
\* was cancelled before, is not found; when the camera has gone none is.
Cancelled(t, found) ==
  CASE t \in found -> "success"
    [] ~plugged /\ flight[t] \in {"flying", "lost"} -> "NO_DEVICE"
    [] OTHER -> "NOT_FOUND"

\* Mutant: LIBUSB_ERROR_NOT_FOUND is an error like the others.
FreedOnAnyError(found) == {t \in transfers : Cancelled(t, found) # "success"}

\* The transfers that uvc_stream_stop itself frees
FreedByStop(found) ==
  {t \in transfers : Cancelled(t, found) \notin {"success", "NOT_FOUND"}}

\* What libusb makes of a transfer that it was asked to cancel
AfterCancel(t, found) ==
  CASE t \in found -> "cancelled"
    [] t \in transfers /\ flight[t] = "lost" -> "stuck"
    [] OTHER -> flight[t]

\* Mutant: nobody wakes the user caller.
JoinQuietly == Goto(Ctl, "join")

\* The last broadcast, then pthread_join of the user caller
KickUser == Broadcast(Ctl, "join")

\* Mutant: the transfers are left to the event thread.
AwaitNothing(left) == KickUser

\* uvc_stream_stop waits until every transfer has been freed.
AwaitTransfers(left) == IF left = {} THEN KickUser ELSE Goto(Ctl, "waiting")

\* The loop is one step: the event thread does not look at a transfer that is
\* being cancelled, and one that it holds is not in flight.
CancelTransfers ==
  /\ pc[Ctl] = "cancel"
  /\ \E found \in SUBSET {t \in transfers : flight[t] = "flying"} :
       /\ ~plugged => found = {}
       /\ flight' = [t \in Transfer |-> AfterCancel(t, found)]
       /\ transfers' = transfers \ FreedByStop(found)
       /\ AwaitTransfers(transfers \ FreedByStop(found))
  /\ UNCHANGED <<running, current, next, data, plugged, camera, bounds>>

StopWakes ==
  /\ pc[Ctl] = "woken"
  /\ AwaitTransfers(transfers)
  /\ UNCHANGED <<running, usb, data, plugged, camera, bounds>>

\* Mutant: the user caller is not joined.
LeftAlone == TRUE

Joined == pc[User] = "ended"

\* pthread_join and uvc_stream_close, which frees the handle and its buffers
Close ==
  /\ pc[Ctl] = "join"
  /\ Joined
  /\ pc' = [pc EXCEPT ![Ctl] = "closed", ![User] = "none"]
  /\ UNCHANGED <<running, usb, data, plugged, camera, bounds>>

-----------------------------------------------------------------------------
Init ==
  /\ running = FALSE
  /\ transfers = {} /\ flight = [t \in Transfer |-> "none"]
  /\ current = 0 /\ next = 1
  /\ pc = [t \in Thread |-> IF t = Ctl THEN "closed" ELSE IF t = Evt THEN "idle" ELSE "none"]
  /\ fid = 0 /\ outbuf = << >> /\ holdbuf = << >> /\ fresh = FALSE /\ frame = << >>
  /\ plugged = TRUE
  /\ sent = 0 /\ seen = {}
  /\ starts = 0 /\ failures = 0

EventNext == \/ \E t \in Transfer : Reap(t)
             \/ Header \/ Data \/ PayloadsEnd \/ TestRunning \/ Resubmit \/ FreeTransfer
UserNext  == UserCheck \/ UserReturns
StopNext  == CancelTransfers \/ StopWakes \/ Close

Next ==
  \/ Open \/ SubmitNext
  \/ EventNext
  \/ UserNext
  \/ Stop \/ StopNext
  \/ \E t \in Thread : SpuriousWakeup(t)

Spec == Init /\ [][Next]_vars

\* A thread that can run is scheduled.  A transfer in flight is reaped some
\* time: it has a timeout of 5 s.  The frame callback returns.
Fairness == WF_vars(EventNext) /\ WF_vars(UserNext) /\ WF_vars(StopNext)

FairSpec == Spec /\ Fairness

-----------------------------------------------------------------------------
(* Properties *)

\* The variables keep their types, and a frame its largest size.
TypeOK ==
  /\ running \in BOOLEAN /\ fresh \in BOOLEAN /\ plugged \in BOOLEAN
  /\ transfers \subseteq Transfer
  /\ flight \in [Transfer -> Flight]
  /\ current \in 0 .. NumTransfers
  /\ next \in 1 .. NumTransfers + 1
  /\ pc \in [Thread -> PC]
  /\ fid \in {0, 1}
  /\ outbuf \in Seq(Frame) /\ Len(outbuf) < FramePayloads
  /\ holdbuf \in Seq(Frame) /\ Len(holdbuf) <= FramePayloads
  /\ frame \in Seq(Frame) /\ Len(frame) <= FramePayloads
  /\ sent \in 0 .. MaxFrames * FramePayloads
  /\ seen \subseteq Frame
  /\ starts \in 0 .. MaxStarts /\ failures \in 0 .. MaxFailures

\* No transfer is freed while libusb has it in flight, and the one whose
\* callback runs is neither freed by another thread nor in flight again.
NotFreedInFlight ==
  /\ InFlight \subseteq transfers
  /\ current # 0 => current \in transfers \ InFlight

\* When the handle has been freed no transfer refers to it, no transfer
\* callback runs and the user caller has ended: the stop waits for all of
\* them, whenever it comes.
HandleOutlivesThreads ==
  pc[Ctl] = "closed" =>
    transfers = {} /\ InFlight = {} /\ pc[Evt] = "idle" /\ pc[User] = "none"

\* A frame is never pieced together from two frames of the camera, unless
\* everything of the frames between them that could tell was lost: a frame ID
\* bit that comes back after a lost frame is not noticed.
WholeFrames ==
  \A buf \in {outbuf, holdbuf, frame} :
    \A i, j \in DOMAIN buf :
      \A n \in buf[i] .. buf[j] : n \in seen => n % 2 = buf[i] % 2

\* uvc_stop_streaming returns: every transfer is freed by somebody, including
\* one that is submitted again after the others were cancelled, and the user
\* caller is woken even when no transfer was left to wake it.
StopReturns == pc[Ctl] = "cancel" ~> pc[Ctl] = "closed"

\* A frame that was received is handed to the callback: no notification is
\* missed.
FramesDelivered == running /\ fresh ~> ~running \/ ~fresh

\* What the preview relies on
ImplementsFrameSource == Source!Spec
=============================================================================
