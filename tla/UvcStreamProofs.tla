--------------------------- MODULE UvcStreamProofs ---------------------------
(***************************************************************************)
(* Theorems about UvcStream, for any number of transfers, payloads, frames *)
(* and starts: no transfer is freed in flight, the handle outlives the     *)
(* threads, frames are whole, and the streaming implements FrameSource.    *)
(***************************************************************************)
EXTENDS UvcStream, SequenceTheorems, TLAPS

-----------------------------------------------------------------------------
(* The inductive invariant *)

CtlPC  == {"closed", "submit", "open", "cancel", "waiting", "woken", "join"}
EvtPC  == {"idle", "payload", "data", "test", "submit", "free"}
UserPC == {"none", "check", "waiting", "woken", "calling", "ended"}

\* Where the threads are, and what that says of the flag
Places ==
  /\ pc \in [Thread -> PC]
  /\ pc[Ctl] \in CtlPC /\ pc[Evt] \in EvtPC /\ pc[User] \in UserPC
  /\ running \in BOOLEAN /\ (running <=> pc[Ctl] \in {"submit", "open"})
  /\ pc[User] = "none" <=> pc[Ctl] = "closed"
  /\ plugged = TRUE
  /\ starts \in 0 .. MaxStarts /\ failures \in 0 .. MaxFailures

\* Who has which transfer
Holds ==
  /\ transfers \subseteq Transfer
  /\ flight \in [Transfer -> {"none", "flying", "cancelled"}]
  /\ \A t \in Transfer : flight[t] # "none" => t \in transfers
  /\ current \in 0 .. NumTransfers
  /\ current = 0 <=> pc[Evt] = "idle"
  /\ current # 0 => current \in transfers /\ flight[current] = "none"
  /\ next \in 1 .. NumTransfers + 1
  /\ pc[Ctl] = "submit" =>
       \A t \in next .. NumTransfers : t \in transfers /\ flight[t] = "none" /\ t # current
  /\ pc[Ctl] \in {"closed", "join"} => transfers = {}

\* Every frame that buf was pieced together from is among those of S.
Pieced(buf, S) == \A i \in DOMAIN buf : buf[i] \in S

Whole(buf, S) ==
  \A i, j \in DOMAIN buf : \A n \in buf[i] .. buf[j] : n \in S => n % 2 = buf[i] % 2

\* What the buffers hold.  Whatever came through since the oldest payload in
\* outbuf had the current frame ID bit.
Pieces ==
  /\ fid \in {0, 1} /\ fresh \in BOOLEAN
  /\ outbuf \in Seq(Frame) /\ Len(outbuf) < FramePayloads
  /\ holdbuf \in Seq(Frame) /\ Len(holdbuf) <= FramePayloads
  /\ frame \in Seq(Frame) /\ Len(frame) <= FramePayloads
  /\ sent \in 0 .. MaxFrames * FramePayloads
  /\ seen \subseteq Frame
  /\ \A n \in seen : \A p \in Payload : p > sent => n <= FrameOf(p)
  /\ pc[Evt] = "data" =>
       /\ sent \in Payload
       /\ FrameOf(sent) \in seen /\ fid = FrameOf(sent) % 2
       /\ \A n \in seen : n <= FrameOf(sent)
  /\ \A i \in DOMAIN outbuf : \A n \in seen : n >= outbuf[i] => n % 2 = fid
  /\ Pieced(outbuf, seen) /\ Pieced(holdbuf, seen) /\ Pieced(frame, seen)
  /\ Whole(holdbuf, seen) /\ Whole(frame, seen)

IInv == Places /\ Holds /\ Pieces

-----------------------------------------------------------------------------
(* The arithmetic of frames and payloads *)

LEMMA DivMonotone ==
  ASSUME NEW P \in Nat \ {0}, NEW a \in Nat, NEW b \in Nat, a <= b
  PROVE  a \div P <= b \div P
<1> DEFINE qa == a \div P  ra == a % P  qb == b \div P  rb == b % P
<1>1. /\ qa \in Int /\ qb \in Int /\ ra \in Int /\ rb \in Int
      /\ a = P * qa + ra /\ b = P * qb + rb
      /\ 0 <= ra /\ ra < P /\ 0 <= rb /\ rb < P
  OBVIOUS
<1> HIDE DEF qa, ra, qb, rb
<1>2. ASSUME qa >= qb + 1 PROVE FALSE
  <2>1. P * qa >= P * (qb + 1)
    BY <1>1, <1>2
  <2> QED BY <1>1, <2>1
<1>3. qa <= qb
  BY <1>1, <1>2
<1> QED BY <1>3 DEF qa, qb

LEMMA DivBound ==
  ASSUME NEW P \in Nat \ {0}, NEW m \in Nat, NEW a \in Nat, a < m * P
  PROVE  a \div P \in Nat /\ a \div P < m
<1> DEFINE q == a \div P  r == a % P
<1>1. q \in Int /\ r \in Int /\ a = P * q + r /\ 0 <= r /\ r < P
  OBVIOUS
<1> HIDE DEF q, r
<1>2. ASSUME q >= m PROVE FALSE
  <2>1. P * q >= P * m
    BY <1>1, <1>2
  <2> QED BY <1>1, <2>1
<1>3. ASSUME q <= -1 PROVE FALSE
  <2>1. P * q <= P * (-1)
    BY <1>1, <1>3
  <2> QED BY <1>1, <2>1
<1>4. q \in Nat /\ q < m
  BY <1>1, <1>2, <1>3
<1> QED BY <1>4 DEF q

\* The payloads of the camera are those of its frames, in order.
LEMMA FrameOfTyped ==
  ASSUME NEW p \in Payload
  PROVE  FrameOf(p) \in Frame /\ FrameOf(p) % 2 \in {0, 1}
<1>1. p - 1 \in Nat /\ p - 1 < MaxFrames * FramePayloads
  BY SizeAssumption, BoundAssumption DEF Payload
<1>2. (p - 1) \div FramePayloads \in Nat /\ (p - 1) \div FramePayloads < MaxFrames
  BY <1>1, DivBound, SizeAssumption, BoundAssumption
<1> DEFINE q == (p - 1) \div FramePayloads
<1> HIDE DEF q
<1>3. q \in Nat /\ q < MaxFrames
  BY <1>2 DEF q
<1>4. q + 1 \in 1 .. MaxFrames /\ (q + 1) % 2 \in {0, 1}
  BY <1>3, BoundAssumption
<1> QED BY <1>4 DEF q, FrameOf, Frame

LEMMA FrameOfMonotone ==
  ASSUME NEW p \in Payload, NEW r \in Payload, p <= r
  PROVE  FrameOf(p) <= FrameOf(r)
<1>1. p - 1 \in Nat /\ r - 1 \in Nat /\ p - 1 <= r - 1
  BY SizeAssumption, BoundAssumption DEF Payload
<1>2. (p - 1) \div FramePayloads <= (r - 1) \div FramePayloads
  BY <1>1, DivMonotone, SizeAssumption
<1>3. (p - 1) \div FramePayloads \in Int /\ (r - 1) \div FramePayloads \in Int
  BY <1>1, SizeAssumption
<1> DEFINE a == (p - 1) \div FramePayloads  b == (r - 1) \div FramePayloads
<1> HIDE DEF a, b
<1>4. a \in Int /\ b \in Int /\ a <= b
  BY <1>2, <1>3 DEF a, b
<1>5. a + 1 <= b + 1
  BY <1>4
<1> QED BY <1>5 DEF a, b, FrameOf

-----------------------------------------------------------------------------
(* Program counters *)

LEMMA ThreadFacts ==
  /\ Ctl \in Thread /\ Evt \in Thread /\ User \in Thread
  /\ Ctl # Evt /\ Ctl # User /\ Evt # User
  /\ \A t \in Thread : t = Ctl \/ t = Evt \/ t = User
  BY DEF Thread, Ctl, Evt, User

\* A thread that goes somewhere leaves the others where they are.
LEMMA GotoFacts ==
  ASSUME NEW t \in Thread, NEW to \in PC, pc \in [Thread -> PC], Goto(t, to)
  PROVE  /\ pc' \in [Thread -> PC]
         /\ pc'[t] = to
         /\ \A u \in Thread \ {t} : pc'[u] = pc[u]
  BY DEF Goto, Going, PC

\* A broadcast wakes those who wait, and only them.
LEMMA BroadcastFacts ==
  ASSUME NEW t \in Thread, NEW to \in PC, pc \in [Thread -> PC], Broadcast(t, to)
  PROVE  /\ pc' \in [Thread -> PC]
         /\ pc'[t] = to
         /\ \A u \in Thread \ {t} : pc'[u] = IF pc[u] = "waiting" THEN "woken" ELSE pc[u]
  BY DEF Broadcast, Going, PC

-----------------------------------------------------------------------------
(* The places *)

LEMMA PlacesInit == Init => Places
<1> SUFFICES ASSUME Init PROVE Places
  OBVIOUS
<1>1. pc \in [Thread -> PC] /\ pc[Ctl] = "closed" /\ pc[Evt] = "idle" /\ pc[User] = "none"
  BY DEF Init, Thread, Ctl, Evt, User, PC
<1>2. running = FALSE /\ plugged = TRUE /\ starts = 0 /\ failures = 0
  BY DEF Init
<1>3. starts \in 0 .. MaxStarts /\ failures \in 0 .. MaxFailures
  BY <1>2, BoundAssumption
<1>4. running \in BOOLEAN /\ (running <=> pc[Ctl] \in {"submit", "open"})
  BY <1>1, <1>2
<1> QED BY <1>1, <1>2, <1>3, <1>4 DEF Places, CtlPC, EvtPC, UserPC

LEMMA PlacesOpen ==
  ASSUME Places, Open PROVE Places'
  BY ThreadFacts, BoundAssumption DEF Places, Open, PC, CtlPC, EvtPC, UserPC, camera

LEMMA PlacesSubmitNext ==
  ASSUME Places, SubmitNext PROVE Places'
<1>1. UNCHANGED <<running, plugged, starts>> /\ failures' \in 0 .. MaxFailures
  BY BoundAssumption DEF Places, SubmitNext, MayFail
<1>2. \/ pc' = pc
      \/ Goto(Ctl, "open") /\ pc[Ctl] = "submit"
  BY DEF SubmitNext
<1>3. CASE pc' = pc
  BY <1>1, <1>3 DEF Places
<1>4. CASE Goto(Ctl, "open") /\ pc[Ctl] = "submit"
  BY <1>1, <1>4, GotoFacts, ThreadFacts DEF Places, PC, CtlPC, EvtPC, UserPC
<1> QED BY <1>2, <1>3, <1>4

\* A step of the event thread, which may wake the others
LEMMA PlacesEvent ==
  ASSUME Places, EventNext PROVE Places'
<1>1. UNCHANGED <<running, plugged, starts>> /\ failures' \in 0 .. MaxFailures
  <2>1. UNCHANGED <<running, plugged, starts>>
    BY DEF EventNext, Reap, Header, Data, PayloadsEnd, TestRunning, Resubmit, FreeTransfer,
           bounds
  <2>2. failures' = failures \/ MayFail
    BY DEF EventNext, Reap, Header, Data, PayloadsEnd, TestRunning, Resubmit, FreeTransfer,
           bounds
  <2> QED BY <2>1, <2>2, BoundAssumption DEF Places, MayFail
<1>2. \E to \in EvtPC : Goto(Evt, to) \/ Broadcast(Evt, to)
  BY DEF EventNext, Reap, Header, Data, PayloadsEnd, TestRunning, Resubmit, FreeTransfer,
         Publish, EvtPC
<1>3. PICK to \in EvtPC : Goto(Evt, to) \/ Broadcast(Evt, to)
  BY <1>2
<1>4. to \in PC
  BY DEF EvtPC, PC
<1>5. CASE Goto(Evt, to)
  BY <1>1, <1>4, <1>5, GotoFacts, ThreadFacts DEF Places
<1>6. CASE Broadcast(Evt, to)
  <2>1. /\ pc' \in [Thread -> PC] /\ pc'[Evt] = to
        /\ pc'[Ctl] = IF pc[Ctl] = "waiting" THEN "woken" ELSE pc[Ctl]
        /\ pc'[User] = IF pc[User] = "waiting" THEN "woken" ELSE pc[User]
    BY <1>4, <1>6, BroadcastFacts, ThreadFacts DEF Places
  <2> QED BY <1>1, <2>1 DEF Places, CtlPC, UserPC
<1> QED BY <1>3, <1>5, <1>6

LEMMA PlacesUser ==
  ASSUME Places, UserNext PROVE Places'
<1>1. UNCHANGED <<running, plugged, starts, failures>>
  BY DEF UserNext, UserCheck, UserReturns, bounds
<1>2. \E to \in {"ended", "calling", "waiting", "check"} : Goto(User, to)
  BY DEF UserNext, UserCheck, UserReturns
<1>3. pc[User] # "none"
  BY DEF UserNext, UserCheck, UserReturns
<1> QED BY <1>1, <1>2, <1>3, GotoFacts, ThreadFacts DEF Places, PC, UserPC

LEMMA PlacesStop ==
  ASSUME Places, Stop \/ StopNext PROVE Places'
<1>1. CASE Stop
  <2>1. /\ pc' \in [Thread -> PC] /\ pc'[Ctl] = "cancel" /\ pc[Ctl] = "open"
        /\ pc'[Evt] = pc[Evt] /\ pc'[User] = pc[User]
    BY <1>1, GotoFacts, ThreadFacts DEF Places, PC, Stop
  <2>2. running' = FALSE /\ UNCHANGED <<plugged, starts, failures>>
    BY <1>1 DEF Stop, bounds
  <2> QED BY <2>1, <2>2 DEF Places, CtlPC
<1>2. CASE CancelTransfers \/ StopWakes
  <2>1. UNCHANGED <<running, plugged, starts, failures>> /\ pc[Ctl] \in {"cancel", "woken"}
    BY <1>2 DEF CancelTransfers, StopWakes, bounds
  <2>2. Broadcast(Ctl, "join") \/ Goto(Ctl, "waiting")
    BY <1>2 DEF CancelTransfers, StopWakes, AwaitTransfers, KickUser
  <2>3. /\ pc' \in [Thread -> PC] /\ pc'[Ctl] \in {"join", "waiting"}
        /\ pc'[Evt] \in {pc[Evt], "woken"} /\ (pc[Evt] # "waiting" => pc'[Evt] = pc[Evt])
        /\ \/ pc'[User] = pc[User]
           \/ pc[User] = "waiting" /\ pc'[User] = "woken"
    BY <2>2, GotoFacts, BroadcastFacts, ThreadFacts DEF Places, PC
  <2> QED BY <2>1, <2>3 DEF Places, CtlPC, EvtPC, UserPC
<1>3. CASE Close
  BY <1>3, ThreadFacts DEF Close, Joined, Places, PC, CtlPC, EvtPC, UserPC, bounds
<1> QED BY <1>1, <1>2, <1>3 DEF StopNext

LEMMA PlacesSpurious ==
  ASSUME Places, NEW t \in Thread, SpuriousWakeup(t) PROVE Places'
<1>1. /\ pc' \in [Thread -> PC] /\ pc'[t] = "woken" /\ pc[t] = "waiting"
      /\ \A u \in Thread \ {t} : pc'[u] = pc[u]
  BY GotoFacts DEF Places, SpuriousWakeup, PC
<1> QED BY <1>1, ThreadFacts DEF Places, SpuriousWakeup, CtlPC, EvtPC, UserPC, bounds

LEMMA PlacesNext ==
  ASSUME Places, Next PROVE Places'
  BY PlacesOpen, PlacesSubmitNext, PlacesEvent, PlacesUser, PlacesStop, PlacesSpurious DEF Next

-----------------------------------------------------------------------------
(* The transfers *)

LEMMA HoldsInit == Init => Holds
<1> SUFFICES ASSUME Init PROVE Holds
  OBVIOUS
<1>1. pc[Ctl] = "closed" /\ pc[Evt] = "idle"
  BY DEF Init, Thread, Ctl, Evt, User
<1> QED BY <1>1, SizeAssumption DEF Init, Holds, Transfer

LEMMA HoldsOpen ==
  ASSUME Places, Holds, Open PROVE Holds'
<1>1. current = 0 /\ \A t \in Transfer : flight[t] = "none"
  BY DEF Holds, Open
<1>2. pc'[Ctl] = "submit" /\ pc'[Evt] = pc[Evt]
  BY ThreadFacts DEF Places, Open
<1> QED BY <1>1, <1>2, SizeAssumption DEF Holds, Open, Transfer

LEMMA HoldsSubmitNext ==
  ASSUME Places, Holds, SubmitNext PROVE Holds'
<1>1. pc[Ctl] = "submit" /\ UNCHANGED current
  BY DEF SubmitNext
<1>2. CASE /\ next \in Transfer
           /\ flight' = [flight EXCEPT ![next] = "flying"]
           /\ next' = next + 1
           /\ UNCHANGED <<transfers, pc>>
  BY <1>1, <1>2, SizeAssumption DEF Holds, Transfer
<1>3. CASE /\ next \in Transfer
           /\ transfers' = transfers \ (next .. NumTransfers)
           /\ Goto(Ctl, "open")
           /\ UNCHANGED <<flight, next>>
  <2>1. pc'[Ctl] = "open" /\ pc'[Evt] = pc[Evt]
    BY <1>3, GotoFacts, ThreadFacts DEF Places, PC
  <2> QED BY <1>1, <1>3, <2>1, SizeAssumption DEF Holds, Transfer
<1>4. CASE Goto(Ctl, "open") /\ UNCHANGED <<transfers, flight, next>>
  <2>1. pc'[Ctl] = "open" /\ pc'[Evt] = pc[Evt]
    BY <1>4, GotoFacts, ThreadFacts DEF Places, PC
  <2> QED BY <1>1, <1>4, <2>1 DEF Holds
<1> QED BY <1>2, <1>3, <1>4 DEF SubmitNext

\* The control thread starts waiting for nothing because of the event thread.
LEMMA EventLeavesControl ==
  ASSUME Places, EventNext
  PROVE  /\ pc'[Evt] \in EvtPC
         /\ pc'[Ctl] = pc[Ctl] \/ (pc[Ctl] = "waiting" /\ pc'[Ctl] = "woken")
<1>1. \E to \in EvtPC : Goto(Evt, to) \/ Broadcast(Evt, to)
  BY DEF EventNext, Reap, Header, Data, PayloadsEnd, TestRunning, Resubmit, FreeTransfer,
         Publish, EvtPC
<1>2. EvtPC \subseteq PC
  BY DEF EvtPC, PC
<1> QED BY <1>1, <1>2, GotoFacts, BroadcastFacts, ThreadFacts DEF Places

LEMMA HoldsReap ==
  ASSUME Places, Holds, NEW t \in Transfer, Reap(t) PROVE Holds'
<1>1. pc'[Ctl] = pc[Ctl] /\ pc'[Evt] # "idle" /\ pc[Evt] = "idle"
  BY GotoFacts, ThreadFacts DEF Places, Reap, PC
<1>2. flight[t] # "none" /\ t \in transfers
  BY DEF Holds, Reap
<1>3. t # 0 /\ t \in 0 .. NumTransfers
  BY SizeAssumption DEF Transfer
<1>4. pc[Ctl] = "submit" => t \notin next .. NumTransfers
  BY <1>2 DEF Holds
<1> QED BY <1>1, <1>2, <1>3, <1>4 DEF Holds, Reap

LEMMA HoldsCallback ==
  ASSUME Places, Holds, Header \/ Data \/ PayloadsEnd \/ TestRunning PROVE Holds'
<1>1. EventNext /\ UNCHANGED usb /\ pc[Evt] # "idle"
  BY DEF EventNext, Header, Data, PayloadsEnd, TestRunning
<1>2. \E to \in EvtPC \ {"idle"} : Goto(Evt, to) \/ Broadcast(Evt, to)
  BY DEF Header, Data, PayloadsEnd, TestRunning, Publish, EvtPC
<1>3. pc'[Evt] # "idle"
  BY <1>2, GotoFacts, BroadcastFacts, ThreadFacts DEF Places, EvtPC, PC
<1>4. pc'[Ctl] = pc[Ctl] \/ (pc[Ctl] = "waiting" /\ pc'[Ctl] = "woken")
  BY <1>1, EventLeavesControl
<1> QED BY <1>1, <1>3, <1>4 DEF Holds, usb

LEMMA HoldsResubmit ==
  ASSUME Places, Holds, Resubmit PROVE Holds'
<1>1. current # 0 /\ current \in transfers /\ pc[Evt] = "submit"
  BY DEF Holds, Resubmit
<1>2. pc[Ctl] = "submit" => current \notin next .. NumTransfers
  BY DEF Holds
<1>3. CASE flight' = [flight EXCEPT ![current] = "flying"] /\ current' = 0 /\ Goto(Evt, "idle")
  <2>1. pc'[Ctl] = pc[Ctl] /\ pc'[Evt] = "idle"
    BY <1>3, GotoFacts, ThreadFacts DEF Places, PC
  <2> QED BY <1>1, <1>2, <1>3, <2>1, SizeAssumption DEF Holds, Resubmit, Transfer
<1>4. CASE Goto(Evt, "free") /\ UNCHANGED <<flight, current>>
  <2>1. pc'[Ctl] = pc[Ctl] /\ pc'[Evt] = "free"
    BY <1>4, GotoFacts, ThreadFacts DEF Places, PC
  <2> QED BY <1>1, <1>4, <2>1 DEF Holds, Resubmit
<1> QED BY <1>3, <1>4 DEF Resubmit

LEMMA HoldsFreeTransfer ==
  ASSUME Places, Holds, FreeTransfer PROVE Holds'
<1>1. current # 0 /\ current \in transfers /\ flight[current] = "none"
  BY DEF Holds, FreeTransfer
<1>2. pc'[Evt] = "idle"
  BY BroadcastFacts, ThreadFacts DEF Places, PC, FreeTransfer
<1>3. pc'[Ctl] = pc[Ctl] \/ (pc[Ctl] = "waiting" /\ pc'[Ctl] = "woken")
  BY EventLeavesControl DEF EventNext
<1>4. pc[Ctl] = "submit" => current \notin next .. NumTransfers
  BY DEF Holds
<1> QED BY <1>1, <1>2, <1>3, <1>4, SizeAssumption DEF Holds, FreeTransfer

LEMMA HoldsUser ==
  ASSUME Places, Holds, UserNext PROVE Holds'
<1>1. UNCHANGED usb /\ pc'[Ctl] = pc[Ctl] /\ pc'[Evt] = pc[Evt]
  BY GotoFacts, ThreadFacts DEF Places, UserNext, UserCheck, UserReturns, PC
<1> QED BY <1>1 DEF Holds, usb

\* While the camera is there the stop frees nothing itself.
LEMMA NothingFreedByStop ==
  ASSUME Places, NEW found PROVE FreedByStop(found) = {}
  BY DEF Places, FreedByStop, Cancelled

LEMMA HoldsStop ==
  ASSUME Places, Holds, Stop \/ StopNext PROVE Holds'
<1>1. CASE Stop
  <2>1. pc'[Ctl] = "cancel" /\ pc'[Evt] = pc[Evt] /\ UNCHANGED usb
    BY <1>1, GotoFacts, ThreadFacts DEF Places, PC, Stop
  <2> QED BY <2>1 DEF Holds, usb
<1>2. ASSUME AwaitTransfers(transfers), pc[Ctl] # "submit"
      PROVE  /\ pc'[Evt] = pc[Evt]
             /\ pc'[Ctl] = "waiting" \/ (pc'[Ctl] = "join" /\ transfers = {})
  BY <1>2, GotoFacts, BroadcastFacts, ThreadFacts
  DEF Places, PC, EvtPC, AwaitTransfers, KickUser
<1>3. CASE CancelTransfers
  <2>1. PICK found \in SUBSET {t \in transfers : flight[t] = "flying"} :
          /\ flight' = [t \in Transfer |-> AfterCancel(t, found)]
          /\ transfers' = transfers \ FreedByStop(found)
          /\ AwaitTransfers(transfers \ FreedByStop(found))
    BY <1>3 DEF CancelTransfers
  <2>2. transfers' = transfers /\ AwaitTransfers(transfers)
    BY <2>1, NothingFreedByStop
  <2>3. pc[Ctl] = "cancel" /\ UNCHANGED <<current, next>>
    BY <1>3 DEF CancelTransfers
  <2>4. /\ flight' \in [Transfer -> {"none", "flying", "cancelled"}]
        /\ \A t \in Transfer : flight'[t] # "none" <=> flight[t] # "none"
    BY <2>1 DEF Holds, AfterCancel
  <2> QED BY <1>2, <2>2, <2>3, <2>4 DEF Holds
<1>4. CASE StopWakes
  BY <1>2, <1>4 DEF StopWakes, Holds, usb
<1>5. CASE Close
  <2>1. pc'[Ctl] = "closed" /\ pc'[Evt] = pc[Evt] /\ UNCHANGED usb /\ pc[Ctl] = "join"
    BY <1>5, ThreadFacts DEF Close, Places
  <2> QED BY <2>1 DEF Holds, usb
<1> QED BY <1>1, <1>3, <1>4, <1>5 DEF StopNext

LEMMA HoldsSpurious ==
  ASSUME Places, Holds, NEW t \in Thread, SpuriousWakeup(t) PROVE Holds'
<1>1. /\ pc'[Ctl] = pc[Ctl] \/ pc'[Ctl] = "woken"
      /\ pc'[Evt] = pc[Evt]
      /\ UNCHANGED usb
  BY GotoFacts, ThreadFacts DEF Places, SpuriousWakeup, PC, EvtPC
<1> QED BY <1>1 DEF Holds, usb

LEMMA HoldsNext ==
  ASSUME Places, Holds, Next PROVE Holds'
  BY HoldsOpen, HoldsSubmitNext, HoldsReap, HoldsCallback, HoldsResubmit, HoldsFreeTransfer,
     HoldsUser, HoldsStop, HoldsSpurious
  DEF Next, EventNext

-----------------------------------------------------------------------------
(* The frames *)

LEMMA PiecesInit == Init => Pieces
<1> SUFFICES ASSUME Init PROVE Pieces
  OBVIOUS
<1>1. pc[Evt] = "idle"
  BY DEF Init, Thread, Ctl, Evt, User
<1>2. 0 \in 0 .. MaxFrames * FramePayloads
  BY SizeAssumption, BoundAssumption
<1>3. << >> \in Seq(Frame) /\ Len(<< >>) = 0 /\ DOMAIN << >> = {}
  OBVIOUS
<1>4. 0 < FramePayloads /\ 0 <= FramePayloads
  BY SizeAssumption
<1>5. outbuf = << >> /\ holdbuf = << >> /\ frame = << >> /\ seen = {} /\ sent = 0
  BY DEF Init
<1>6. fid = 0 /\ fresh = FALSE
  BY DEF Init
<1>7. Pieced(outbuf, seen) /\ Pieced(holdbuf, seen) /\ Pieced(frame, seen)
  BY <1>3, <1>5 DEF Pieced
<1>8. Whole(holdbuf, seen) /\ Whole(frame, seen)
  BY <1>3, <1>5 DEF Whole
<1>9. \A i \in DOMAIN outbuf : \A n \in seen : n >= outbuf[i] => n % 2 = fid
  BY <1>5
<1> QED BY <1>1, <1>2, <1>3, <1>4, <1>5, <1>6, <1>7, <1>8, <1>9 DEF Pieces

\* A step that leaves the data alone
LEMMA PiecesSame ==
  ASSUME Pieces, UNCHANGED <<data, camera>>, pc'[Evt] = "data" => pc[Evt] = "data"
  PROVE  Pieces'
  BY DEF Pieces, data, camera, Pieced, Whole

LEMMA PiecesOpen ==
  ASSUME Places, Holds, Pieces, Open PROVE Pieces'
<1>1. pc'[Evt] = "idle"
  BY ThreadFacts DEF Places, Holds, Open
<1>3. << >> \in Seq(Frame) /\ Len(<< >>) = 0 /\ DOMAIN << >> = {}
  OBVIOUS
<1>4. 0 < FramePayloads /\ 0 <= FramePayloads
  BY SizeAssumption
<1>5. /\ outbuf' = << >> /\ holdbuf' = << >> /\ frame' = << >>
      /\ fid' = 0 /\ fresh' = FALSE /\ UNCHANGED <<sent, seen>>
  BY DEF Open, camera
<1>7. Pieced(outbuf, seen)' /\ Pieced(holdbuf, seen)' /\ Pieced(frame, seen)'
  BY <1>3, <1>5 DEF Pieced
<1>8. Whole(holdbuf, seen)' /\ Whole(frame, seen)'
  BY <1>3, <1>5 DEF Whole
<1>9. \A i \in DOMAIN outbuf' : \A n \in seen' : n >= outbuf'[i] => n % 2 = fid'
  BY <1>3, <1>5
<1> QED BY <1>1, <1>3, <1>4, <1>5, <1>7, <1>8, <1>9 DEF Pieces

\* A buffer whose payloads all came through stays whole when a later frame
\* begins.
LEMMA WholeSeen ==
  ASSUME NEW buf \in Seq(Frame), NEW S \in SUBSET Frame, Pieced(buf, S), Whole(buf, S),
         NEW m \in Frame, \A n \in S : n <= m
  PROVE  Pieced(buf, S \cup {m}) /\ Whole(buf, S \cup {m})
<1>1. Pieced(buf, S \cup {m})
  BY DEF Pieced
<1>2. ASSUME NEW i \in DOMAIN buf, NEW j \in DOMAIN buf,
             NEW n \in buf[i] .. buf[j], n \in S \cup {m}
      PROVE  n % 2 = buf[i] % 2
  <2>1. buf[i] \in Frame /\ buf[j] \in Frame /\ buf[j] \in S /\ buf[i] <= buf[j]
    BY <1>2, BoundAssumption DEF Pieced, Frame
  <2>2. CASE n \in S
    BY <1>2, <2>2 DEF Whole
  <2>3. CASE n = m
    <3>1. n = buf[j] /\ n \in S
      BY <1>2, <2>1, <2>3, BoundAssumption DEF Frame
    <3> QED BY <1>2, <3>1 DEF Whole
  <2> QED BY <1>2, <2>2, <2>3
<1> QED BY <1>1, <1>2 DEF Whole

\* What is in outbuf has the current frame ID bit.
LEMMA OutbufWhole ==
  ASSUME Pieces PROVE Whole(outbuf, seen)
<1>1. ASSUME NEW i \in DOMAIN outbuf, NEW j \in DOMAIN outbuf,
             NEW n \in outbuf[i] .. outbuf[j], n \in seen
      PROVE  n % 2 = outbuf[i] % 2
  <2>1. outbuf[i] \in Frame /\ outbuf[i] \in seen /\ n >= outbuf[i]
    <3>1. outbuf \in Seq(Frame) /\ outbuf[i] \in seen
      BY <1>1 DEF Pieces, Pieced
    <3>2. outbuf[i] \in Frame /\ outbuf[j] \in Frame
      BY <1>1, <3>1
    <3> QED BY <1>1, <3>1, <3>2, BoundAssumption DEF Frame
  <2>2. outbuf[i] >= outbuf[i]
    BY <2>1, BoundAssumption DEF Frame
  <2>3. n % 2 = fid /\ outbuf[i] % 2 = fid
    BY <1>1, <2>1, <2>2 DEF Pieces
  <2> QED BY <2>3
<1> QED BY <1>1 DEF Whole

LEMMA PiecesHeader ==
  ASSUME Places, Holds, Pieces, Header PROVE Pieces'
<1>1. PICK p \in Payload :
        /\ p > sent /\ sent' = p
        /\ seen' = seen \cup {FrameOf(p)}
        /\ fid' = FrameOf(p) % 2
        /\ IF Flipped(FrameOf(p) % 2)
           THEN Publish(outbuf, "data")
           ELSE Goto(Evt, "data") /\ UNCHANGED <<outbuf, holdbuf, fresh>>
  BY DEF Header
<1> DEFINE m == FrameOf(p)
<1>2. m \in Frame /\ m % 2 \in {0, 1} /\ \A n \in seen : n <= m
  BY <1>1, FrameOfTyped DEF Pieces
<1>3. \A r \in Payload : r > p => m <= FrameOf(r)
  BY <1>1, FrameOfMonotone, SizeAssumption, BoundAssumption DEF Payload
<1>4. \A r \in Payload : r > p => r > sent
  BY <1>1, SizeAssumption, BoundAssumption DEF Payload, Pieces
<1>5. sent' \in Payload /\ sent' \in 0 .. MaxFrames * FramePayloads
  BY <1>1, SizeAssumption, BoundAssumption DEF Payload
<1> HIDE DEF m
<1>6. /\ seen' = seen \cup {m} /\ fid' = m % 2 /\ UNCHANGED frame
      /\ sent' = p
  BY <1>1 DEF Header, m
<1>7. /\ seen \in SUBSET Frame
      /\ Whole(outbuf, seen) /\ Whole(holdbuf, seen) /\ Whole(frame, seen)
      /\ Pieced(outbuf, seen) /\ Pieced(holdbuf, seen) /\ Pieced(frame, seen)
      /\ outbuf \in Seq(Frame) /\ holdbuf \in Seq(Frame) /\ frame \in Seq(Frame)
  BY OutbufWhole DEF Pieces
<1>8. /\ Whole(outbuf, seen') /\ Whole(holdbuf, seen') /\ Whole(frame, seen')
      /\ Pieced(outbuf, seen') /\ Pieced(holdbuf, seen') /\ Pieced(frame, seen')
  BY <1>2, <1>6, <1>7, WholeSeen
<1>9. seen' \subseteq Frame /\ m \in seen' /\ \A n \in seen' : n <= m
  BY <1>2, <1>6, <1>7, BoundAssumption DEF Frame
<1>10. \A n \in seen' : \A r \in Payload : r > p => n <= FrameOf(r)
  BY <1>2, <1>3, <1>4, <1>6 DEF Pieces
<1>11. \/ /\ outbuf' = << >> /\ holdbuf' = outbuf /\ fresh' = TRUE
      \/ /\ UNCHANGED <<outbuf, holdbuf, fresh>>
         /\ fid = m % 2 \/ outbuf = << >>
  BY <1>1 DEF Flipped, Publish, m
<1>12. /\ Whole(holdbuf', seen') /\ Pieced(holdbuf', seen')
       /\ holdbuf' \in Seq(Frame) /\ Len(holdbuf') <= FramePayloads /\ fresh' \in BOOLEAN
  <2>1. fresh' \in BOOLEAN
    BY <1>11 DEF Pieces
  <2>2. Len(outbuf) \in Nat /\ Len(outbuf) <= FramePayloads /\ Len(holdbuf) <= FramePayloads
    BY SizeAssumption DEF Pieces
  <2>3. holdbuf' = outbuf \/ holdbuf' = holdbuf
    BY <1>11
  <2>4. CASE holdbuf' = outbuf
    BY <1>7, <1>8, <2>1, <2>2, <2>4
  <2>5. CASE holdbuf' = holdbuf
    BY <1>7, <1>8, <2>1, <2>2, <2>5
  <2> QED BY <2>3, <2>4, <2>5
<1>13. /\ Pieced(outbuf', seen')
       /\ outbuf' \in Seq(Frame) /\ Len(outbuf') < FramePayloads
       /\ \A i \in DOMAIN outbuf' : \A n \in seen' : n >= outbuf'[i] => n % 2 = fid'
  <2>1. CASE outbuf' = << >>
    <3>1. << >> \in Seq(Frame) /\ Len(<< >>) = 0 /\ DOMAIN << >> = {}
      OBVIOUS
    <3> QED BY <2>1, <3>1, SizeAssumption DEF Pieced
  <2>2. CASE outbuf' = outbuf /\ fid = m % 2
    <3>1. \A i \in DOMAIN outbuf : \A n \in seen \cup {m} : n >= outbuf[i] => n % 2 = fid
      BY <2>2 DEF Pieces
    <3> QED BY <1>6, <1>8, <2>2, <3>1 DEF Pieces
  <2> QED BY <1>11, <2>1, <2>2
<1>14. FrameOf(sent') \in seen' /\ fid' = FrameOf(sent') % 2 /\ \A n \in seen' : n <= FrameOf(sent')
  BY <1>6, <1>9 DEF m
<1> QED BY <1>2, <1>5, <1>6, <1>8, <1>9, <1>10, <1>12, <1>13, <1>14 DEF Pieces

LEMMA PiecesData ==
  ASSUME Places, Holds, Pieces, Data PROVE Pieces'
<1> DEFINE m == FrameOf(sent)  buf == Append(outbuf, m)
<1>1. m \in Frame /\ m \in seen /\ fid = m % 2 /\ \A n \in seen : n <= m
  BY FrameOfTyped DEF Data, Pieces
<1>2. /\ buf \in Seq(Frame) /\ Len(buf) = Len(outbuf) + 1
      /\ DOMAIN buf = DOMAIN outbuf \cup {Len(outbuf) + 1}
      /\ \A i \in DOMAIN outbuf : buf[i] = outbuf[i]
      /\ buf[Len(outbuf) + 1] = m
  BY <1>1, AppendProperties DEF Pieces
<1>3. /\ UNCHANGED <<fid, frame, sent, seen>>
      /\ \/ outbuf' = << >> /\ holdbuf' = buf /\ fresh' = TRUE
         \/ ~Ends(buf) /\ outbuf' = buf /\ UNCHANGED <<holdbuf, fresh>>
         \/ UNCHANGED <<outbuf, holdbuf, fresh>>
  BY DEF Data, Publish, camera
<1>4. pc'[Evt] # "data"
  BY GotoFacts, BroadcastFacts, ThreadFacts DEF Places, Data, Publish, PC
<1> HIDE DEF m, buf
<1>5. \A i \in DOMAIN buf : \A n \in seen : n >= buf[i] => n % 2 = fid
  <2>1. ASSUME NEW n \in seen, n >= m PROVE n % 2 = fid
    <3>1. n = m
      BY <1>1, <2>1, BoundAssumption DEF Frame, Pieces
    <3> QED BY <1>1, <3>1
  <2> QED BY <1>2, <2>1 DEF Pieces
<1>6. Pieced(buf, seen)
  BY <1>1, <1>2 DEF Pieced, Pieces
<1>7. Whole(buf, seen)
  <2>1. ASSUME NEW i \in DOMAIN buf, NEW j \in DOMAIN buf, NEW n \in buf[i] .. buf[j], n \in seen
        PROVE  n % 2 = buf[i] % 2
    <3>1. buf[i] \in Frame /\ buf[i] \in seen /\ buf[j] \in Frame
      BY <1>2, <1>6 DEF Pieced
    <3>2. n >= buf[i] /\ buf[i] >= buf[i]
      BY <2>1, <3>1, BoundAssumption DEF Frame
    <3>3. n % 2 = fid /\ buf[i] % 2 = fid
      BY <1>5, <2>1, <3>1, <3>2
    <3> QED BY <3>3
  <2> QED BY <2>1 DEF Whole
<1>8. Len(buf) <= FramePayloads /\ (~Ends(buf) => Len(buf) < FramePayloads)
  BY <1>2, SizeAssumption DEF Pieces, Ends
<1>9. << >> \in Seq(Frame) /\ Len(<< >>) = 0 /\ DOMAIN << >> = {} /\ 0 < FramePayloads
  BY SizeAssumption
<1>10. /\ holdbuf' \in Seq(Frame) /\ Len(holdbuf') <= FramePayloads /\ fresh' \in BOOLEAN
       /\ Pieced(holdbuf', seen) /\ Whole(holdbuf', seen)
  BY <1>2, <1>3, <1>6, <1>7, <1>8 DEF Pieces
<1>11. /\ outbuf' \in Seq(Frame) /\ Len(outbuf') < FramePayloads
       /\ Pieced(outbuf', seen)
       /\ \A i \in DOMAIN outbuf' : \A n \in seen : n >= outbuf'[i] => n % 2 = fid
  <2>1. CASE outbuf' = << >>
    BY <1>9, <2>1 DEF Pieced
  <2>2. CASE outbuf' = buf /\ ~Ends(buf)
    BY <1>2, <1>5, <1>6, <1>8, <2>2
  <2>3. CASE outbuf' = outbuf
    BY <2>3 DEF Pieces
  <2> QED BY <1>3, <2>1, <2>2, <2>3
<1> QED BY <1>3, <1>4, <1>10, <1>11 DEF Pieces

LEMMA PiecesUser ==
  ASSUME Places, Holds, Pieces, UserNext PROVE Pieces'
<1>1. pc'[Evt] = pc[Evt]
  BY GotoFacts, ThreadFacts DEF Places, UserNext, UserCheck, UserReturns, PC
<1>2. CASE UserReturns
  BY <1>1, <1>2, PiecesSame DEF UserReturns
<1>3. CASE UserCheck
  <2>1. /\ UNCHANGED <<fid, outbuf, holdbuf, sent, seen>>
        /\ frame' \in {frame, holdbuf} /\ fresh' \in {fresh, FALSE}
    BY <1>3 DEF UserCheck, camera
  <2>2. /\ frame' \in Seq(Frame) /\ Len(frame') <= FramePayloads /\ fresh' \in BOOLEAN
        /\ Pieced(frame', seen) /\ Whole(frame', seen)
    BY <2>1 DEF Pieces
  <2> QED BY <1>1, <2>1, <2>2 DEF Pieces
<1> QED BY <1>2, <1>3 DEF UserNext

LEMMA PiecesNext ==
  ASSUME Places, Holds, Pieces, Next PROVE Pieces'
<1>1. CASE SubmitNext \/ Stop \/ StopNext \/ (\E t \in Thread : SpuriousWakeup(t))
  <2>1. UNCHANGED <<data, camera>>
    BY <1>1 DEF SubmitNext, Stop, StopNext, CancelTransfers, StopWakes, Close, SpuriousWakeup
  <2>2. pc'[Evt] \in {pc[Evt], "woken"}
    <3>1. CASE SubmitNext \/ Stop
      BY <3>1, GotoFacts, ThreadFacts DEF Places, PC, SubmitNext, Stop
    <3>2. CASE StopNext
      <4>1. CASE CancelTransfers
        BY <4>1, GotoFacts, BroadcastFacts, ThreadFacts
        DEF Places, PC, CancelTransfers, AwaitTransfers, KickUser
      <4>2. CASE StopWakes
        BY <4>2, GotoFacts, BroadcastFacts, ThreadFacts
        DEF Places, PC, StopWakes, AwaitTransfers, KickUser
      <4>3. CASE Close
        BY <4>3, GotoFacts, ThreadFacts DEF Places, PC, Close
      <4> QED BY <3>2, <4>1, <4>2, <4>3 DEF StopNext
    <3>3. CASE \E t \in Thread : SpuriousWakeup(t)
      BY <3>3, GotoFacts, ThreadFacts DEF Places, PC, SpuriousWakeup
    <3> QED BY <1>1, <3>1, <3>2, <3>3
  <2> QED BY <2>1, <2>2, PiecesSame
<1>2. CASE (\E t \in Transfer : Reap(t)) \/ PayloadsEnd \/ TestRunning \/ Resubmit \/ FreeTransfer
  <2>1. UNCHANGED <<data, camera>>
    BY <1>2 DEF Reap, PayloadsEnd, TestRunning, Resubmit, FreeTransfer
  <2>2. \E to \in EvtPC \ {"data"} : Goto(Evt, to) \/ Broadcast(Evt, to)
    BY <1>2 DEF Reap, PayloadsEnd, TestRunning, Resubmit, FreeTransfer, EvtPC
  <2>3. pc'[Evt] # "data"
    BY <2>2, GotoFacts, BroadcastFacts, ThreadFacts DEF Places, EvtPC, PC
  <2> QED BY <2>1, <2>3, PiecesSame
<1> QED BY <1>1, <1>2, PiecesOpen, PiecesHeader, PiecesData, PiecesUser DEF Next, EventNext

-----------------------------------------------------------------------------
(* The theorems *)

\* The inductive invariant holds in every state: where the threads are, who
\* has which transfer, and what the buffers hold.
THEOREM Inductive == Spec => []IInv
<1>1. Init => IInv
  BY PlacesInit, HoldsInit, PiecesInit DEF IInv
<1>2. IInv /\ [Next]_vars => IInv'
  <2> SUFFICES ASSUME IInv, [Next]_vars PROVE IInv'
    OBVIOUS
  <2>1. CASE Next
    BY <2>1, PlacesNext, HoldsNext, PiecesNext DEF IInv
  <2>2. CASE UNCHANGED vars
    <3>1. Places'
      BY <2>2 DEF IInv, Places, vars, bounds
    <3>2. Holds'
      BY <2>2 DEF IInv, Holds, vars, usb
    <3>3. Pieces'
      BY <2>2, PiecesSame DEF IInv, vars
    <3> QED BY <3>1, <3>2, <3>3 DEF IInv
  <2> QED BY <2>1, <2>2
<1> QED BY <1>1, <1>2, PTL DEF Spec

\* The variables keep their types, and no buffer receives more than the size
\* of a frame.
THEOREM TypeCorrect == Spec => []TypeOK
<1>1. IInv => TypeOK
  <2> SUFFICES ASSUME IInv PROVE TypeOK
    OBVIOUS
  <2>1. flight \in [Transfer -> Flight]
    BY DEF IInv, Holds, Flight
  <2> QED BY <2>1 DEF IInv, Places, Holds, Pieces, TypeOK
<1> QED BY <1>1, Inductive, PTL

\* A transfer that libusb has in flight, or whose callback runs, has not been
\* freed, for any number of transfers and whatever fails.
THEOREM Freed == Spec => []NotFreedInFlight
<1>1. IInv => NotFreedInFlight
  BY DEF IInv, Holds, NotFreedInFlight, InFlight
<1> QED BY <1>1, Inductive, PTL

\* uvc_stream_close frees the handle when nothing refers to it any more.
THEOREM Outlives == Spec => []HandleOutlivesThreads
<1>1. IInv => HandleOutlivesThreads
  BY DEF IInv, Places, Holds, HandleOutlivesThreads, InFlight
<1> QED BY <1>1, Inductive, PTL

\* No buffer mixes two frames that the frame ID bit can tell apart, for any
\* number of frames and payloads and any losses.
THEOREM FramesWhole == Spec => []WholeFrames
<1>1. IInv => WholeFrames
  <2> SUFFICES ASSUME IInv PROVE WholeFrames
    OBVIOUS
  <2>1. Whole(outbuf, seen) /\ Whole(holdbuf, seen) /\ Whole(frame, seen)
    BY OutbufWhole DEF IInv, Pieces
  <2> QED BY <2>1 DEF WholeFrames, Whole
<1> QED BY <1>1, Inductive, PTL

-----------------------------------------------------------------------------
(* The refinement *)

LEMMA SourceStep ==
  ASSUME IInv, Next, IInv' PROVE [Source!Next]_Source!vars
<1> USE ThreadFacts
<1>1. CASE Open
  <2>1. pc[Ctl] = "closed" /\ pc'[Ctl] = "submit" /\ pc[User] = "none" /\ pc'[User] = "check" /\ running'
    BY <1>1 DEF Open, IInv, Places
  <2> QED BY <2>1 DEF Source!Next, Source!Start
<1>2. CASE SubmitNext
  <2>1. /\ pc[Ctl] # "closed" /\ pc'[Ctl] # "closed" /\ running' = running
        /\ pc'[User] = pc[User]
    BY <1>2, GotoFacts DEF SubmitNext, IInv, Places, PC
  <2> QED BY <2>1 DEF Source!vars
<1>3. CASE EventNext
  <2>1. running' = running
    BY <1>3 DEF EventNext, Reap, Header, Data, PayloadsEnd, TestRunning, Resubmit, FreeTransfer
  <2>2. \E to \in PC : Goto(Evt, to) \/ Broadcast(Evt, to)
    BY <1>3 DEF EventNext, Reap, Header, Data, PayloadsEnd, TestRunning, Resubmit,
                FreeTransfer, Publish, PC
  <2>3. /\ pc'[Ctl] = pc[Ctl] \/ (pc[Ctl] = "waiting" /\ pc'[Ctl] = "woken")
        /\ pc'[User] = pc[User] \/ (pc[User] = "waiting" /\ pc'[User] = "woken")
    BY <2>2, GotoFacts, BroadcastFacts DEF IInv, Places
  <2> QED BY <2>1, <2>3 DEF Source!vars
<1>4. CASE UserCheck
  <2>1. /\ running' = running /\ pc'[Ctl] = pc[Ctl]
        /\ pc[User] \in {"check", "woken"}
        /\ pc'[User] \in {"ended", "waiting"} \/ (pc'[User] = "calling" /\ running)
    BY <1>4, GotoFacts DEF UserCheck, IInv, Places, PC
  <2>2. CASE pc'[User] \in {"ended", "waiting"}
    BY <2>1, <2>2 DEF Source!vars
  <2>3. CASE pc'[User] = "calling" /\ running
    BY <2>1, <2>3 DEF Source!Next, Source!Call, IInv, Places
  <2> QED BY <2>1, <2>2, <2>3
<1>5. CASE UserReturns
  <2>1. /\ running' = running /\ pc'[Ctl] = pc[Ctl]
        /\ pc[User] = "calling" /\ pc'[User] = "check"
    BY <1>5, GotoFacts DEF UserReturns, IInv, Places, PC
  <2> QED BY <2>1 DEF Source!Next, Source!Return
<1>6. CASE Stop
  <2>1. /\ pc[Ctl] = "open" /\ pc'[Ctl] = "cancel" /\ running /\ ~running'
        /\ pc'[User] = pc[User]
    BY <1>6, GotoFacts DEF Stop, IInv, Places, PC
  <2> QED BY <2>1 DEF Source!Next, Source!Stop
<1>7. CASE CancelTransfers \/ StopWakes
  <2>1. running' = running /\ pc[Ctl] \in {"cancel", "woken"}
    BY <1>7 DEF CancelTransfers, StopWakes
  <2>2. Broadcast(Ctl, "join") \/ Goto(Ctl, "waiting")
    BY <1>7 DEF CancelTransfers, StopWakes, AwaitTransfers, KickUser
  <2>3. /\ pc'[Ctl] # "closed"
        /\ pc'[User] = pc[User] \/ (pc[User] = "waiting" /\ pc'[User] = "woken")
    BY <2>2, GotoFacts, BroadcastFacts DEF IInv, Places, PC
  <2> QED BY <2>1, <2>3 DEF Source!vars
<1>8. CASE Close
  <2>1. /\ pc[Ctl] = "join" /\ ~running /\ pc[User] = "ended"
        /\ pc'[Ctl] = "closed" /\ pc'[User] = "none"
    BY <1>8 DEF Close, Joined, IInv, Places
  <2> QED BY <2>1 DEF Source!Next, Source!Stopped
<1>9. CASE \E t \in Thread : SpuriousWakeup(t)
  <2>1. /\ running' = running
        /\ pc'[Ctl] = pc[Ctl] \/ (pc[Ctl] = "waiting" /\ pc'[Ctl] = "woken")
        /\ pc'[User] = pc[User] \/ (pc[User] = "waiting" /\ pc'[User] = "woken")
    BY <1>9, GotoFacts DEF SpuriousWakeup, IInv, Places, PC
  <2> QED BY <2>1 DEF Source!vars
<1> QED BY <1>1, <1>2, <1>3, <1>4, <1>5, <1>6, <1>7, <1>8, <1>9 DEF Next, UserNext, StopNext

\* The streaming keeps what FrameSource promises the preview: one callback at
\* a time, none before the start or after the stop has returned.
THEOREM Refines == Spec => ImplementsFrameSource
<1>1. Init => Source!Init
  <2> SUFFICES ASSUME Init PROVE Source!Init
    OBVIOUS
  <2>1. pc[Ctl] = "closed" /\ pc[User] = "none"
    BY DEF Init, Thread, Ctl, Evt, User
  <2> QED BY <2>1 DEF Source!Init
<1>2. IInv /\ IInv' /\ [Next]_vars => [Source!Next]_Source!vars
  <2>1. ASSUME UNCHANGED vars PROVE UNCHANGED Source!vars
    BY <2>1 DEF vars, Source!vars
  <2> QED BY <2>1, SourceStep
<1> QED BY <1>1, <1>2, Inductive, PTL DEF Spec, Source!Spec, ImplementsFrameSource
=============================================================================
