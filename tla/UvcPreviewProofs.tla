--------------------------- MODULE UvcPreviewProofs ---------------------------
(***************************************************************************)
(* Theorems about UvcPreview, for any number of frames, callbacks, starts  *)
(* and calls: types, the conservation of frames, the quiet that            *)
(* stopPreview leaves behind, and the bound on the frames that are lost.   *)
(***************************************************************************)
EXTENDS UvcPreview, FiniteSetTheorems, SequenceTheorems, TLAPS

-----------------------------------------------------------------------------
(* The inductive invariant *)

UsbPC == {"idle", "copied"}
CliPC == {"idle", "interrupt", "signal", "waiting", "woken", "swap", "assign", "method", "resume"}
CtlPC == {"idle", "create", "signalPreview", "signalCapture", "joinCapture", "joinPreview",
          "clear", "clearSlot", "release"}
PrvPC == {"none", "prepare", "stream", "clear", "spawn", "loop", "wait", "waiting", "woken",
          "convert", "add", "end", "unstream", "stopping", "ended"}
CapPC == {"none", "clear", "outer", "inner", "wait", "waiting", "woken", "callback", "call",
          "calling", "broadcast", "ended"}

\* Where each thread can be
Places ==
  /\ pc \in [Thread -> PC]
  /\ pc[Usb] \in UsbPC /\ pc[Cli] \in CliPC /\ pc[Ctl] \in CtlPC /\ pc[Prv] \in PrvPC
  /\ \A k \in Capture : pc[Cap(k)] \in CapPC

\* The values of the variables that take no part in the argument
Values ==
  /\ mIsRunning \in BOOLEAN /\ mIsCapturing \in BOOLEAN
  /\ mPreviewWindow \in BOOLEAN
  /\ mFrameCallbackObj \in Callback \cup {NoCallback}
  /\ capture_thread \in 0 .. MaxStarts
  /\ request \in Request
  /\ joined \subseteq Capture
  /\ crashed \in BOOLEAN
  /\ sets \in 0 .. MaxCalls /\ failures \in 0 .. MaxFailures

\* Conserved, of any hands hd, queue q, set ls of frames leased and lt lost
Accounted(hd, q, ls, lt) ==
  /\ hd \in [Holder -> Frame \cup {NoFrame}]
  /\ q \in Seq(Frame)
  /\ ls \subseteq Frame /\ lt \subseteq ls
  /\ \A g, h \in Holder : hd[g] # NoFrame /\ hd[g] = hd[h] => g = h
  /\ \A i, j \in DOMAIN q : q[i] = q[j] => i = j
  /\ \A h \in Holder : \A i \in DOMAIN q : hd[h] # q[i]
  /\ \A h \in Holder : hd[h] \notin lt
  /\ \A i \in DOMAIN q : q[i] \notin lt
  /\ \A h \in Holder : hd[h] # NoFrame => hd[h] \in ls
  /\ \A i \in DOMAIN q : q[i] \in ls
  /\ \A f \in ls : \/ f \in lt
                   \/ \E h \in Holder : hd[h] = f
                   \/ \E i \in DOMAIN q : q[i] = f

\* A thread has a frame where its code says so, and nowhere else.
Hands ==
  /\ hand[Usb] # NoFrame <=> pc[Usb] = "copied"
  /\ hand[Raw] # NoFrame <=> pc[Prv] \in {"convert", "add"}
  /\ hand[Rgb] # NoFrame <=> pc[Prv] = "add"
  /\ \A k \in Capture :
       hand[Cap(k)] # NoFrame <=> pc[Cap(k)] \in {"callback", "call", "calling"}

Frames ==
  /\ Accounted(hand, previewFrames, leased, lost)
  /\ Hands
  /\ Len(previewFrames) <= MaxFrame

Streaming == {"clear", "spawn", "loop", "wait", "waiting", "woken", "convert", "add", "end",
              "unstream"}
Stopping  == {"signalPreview", "signalCapture", "joinCapture", "joinPreview"}

\* How far the control thread is, and what the preview thread may do then
Course ==
  /\ starts \in 0 .. MaxStarts
  /\ pc[Ctl] = "create" => mIsRunning /\ starts < MaxStarts
  /\ pc[Ctl] \in Stopping \cup {"clear", "clearSlot", "release"} => ~mIsRunning
  /\ pc[Ctl] = "create" => pc[Prv] \in {"none", "ended"}
  /\ pc[Prv] \notin {"none", "ended"} => mIsRunning \/ pc[Ctl] \in Stopping
  /\ pc[Prv] # "none" => starts >= 1
  /\ stream \in {"closed", "open", "stopping"}
  /\ stream = "open" <=> pc[Prv] \in Streaming
  /\ stream = "stopping" <=> pc[Prv] = "stopping"
  /\ pc[Usb] = "copied" => stream # "closed"
  /\ \A k \in Capture : k > starts => pc[Cap(k)] = "none"
  /\ pc[Prv] \in {"prepare", "stream", "clear", "spawn"} =>
       \A k \in Capture : k = starts => pc[Cap(k)] = "none"

\* What the control thread has cleared stays clear.
Cleared ==
  /\ \/ pc[Ctl] \in {"clearSlot", "release", "create"}
     \/ pc[Ctl] = "idle" /\ ~mIsRunning
     => previewFrames = << >>
  /\ \/ pc[Ctl] \in {"release", "create"}
     \/ pc[Ctl] = "idle" /\ ~mIsRunning
     => hand[Slot] = NoFrame

\* The preview thread has not lost a frame yet.
MayLose ==
  \/ pc[Prv] \in {"prepare", "stream", "clear", "spawn", "wait", "waiting", "woken",
                  "convert", "add"}
  \/ pc[Prv] = "loop" /\ mIsRunning

Losses ==
  /\ IsFiniteSet(lost)
  /\ Cardinality(lost) <= starts
  /\ MayLose => Cardinality(lost) < starts

IInv == Places /\ Values /\ Frames /\ Course /\ Cleared /\ Losses

-----------------------------------------------------------------------------
(* Threads *)

LEMMA ThreadFacts ==
  /\ Ctl \in Thread /\ Cli \in Thread /\ Usb \in Thread /\ Prv \in Thread
  /\ \A k \in Capture : Cap(k) \in Thread
  /\ Ctl # Cli /\ Ctl # Usb /\ Ctl # Prv /\ Cli # Usb /\ Cli # Prv /\ Usb # Prv
  /\ \A k \in Capture : Cap(k) # Ctl /\ Cap(k) # Cli /\ Cap(k) # Usb /\ Cap(k) # Prv
  /\ \A j, k \in Capture : Cap(j) = Cap(k) => j = k
  /\ \A t \in Thread : t \in {Ctl, Cli, Usb, Prv} \/ \E k \in Capture : t = Cap(k)
  BY DEF Thread, Ctl, Cli, Usb, Prv, Cap

LEMMA HolderFacts ==
  /\ Usb \in Holder /\ Raw \in Holder /\ Rgb \in Holder /\ Slot \in Holder
  /\ \A k \in Capture : Cap(k) \in Holder
  /\ Usb # Raw /\ Usb # Rgb /\ Usb # Slot /\ Raw # Rgb /\ Raw # Slot /\ Rgb # Slot
  /\ \A k \in Capture : Cap(k) # Usb /\ Cap(k) # Raw /\ Cap(k) # Rgb /\ Cap(k) # Slot
  /\ \A j, k \in Capture : Cap(j) = Cap(k) => j = k
  /\ \A h \in Holder : h \in {Usb, Raw, Rgb, Slot} \/ \E k \in Capture : h = Cap(k)
  BY DEF Holder, Usb, Raw, Rgb, Slot, Cap

\* One thread goes somewhere, and may wake others.
Moves(t, to) == Goto(t, to) \/ Signalled(t, to) \/ Broadcast(t, to) \/ PreviewSignalled(t, to)

LEMMA MovesFacts ==
  ASSUME NEW t \in Thread, NEW to \in PC, pc \in [Thread -> PC], Moves(t, to)
  PROVE  /\ pc' \in [Thread -> PC]
         /\ pc'[t] = to
         /\ \A u \in Thread \ {t} :
              pc'[u] = pc[u] \/ (pc[u] = "waiting" /\ pc'[u] = "woken")
<1>1. \E W \in SUBSET {u \in Thread : pc[u] = "waiting"} : pc' = Going(t, to, W)
  BY ThreadFacts
  DEF Moves, Goto, Signalled, Broadcast, PreviewSignalled, CaptureWaiters
<1>2. PICK W \in SUBSET {u \in Thread : pc[u] = "waiting"} : pc' = Going(t, to, W)
  BY <1>1
<1>3. "woken" \in PC
  BY DEF PC
<1> QED BY <1>2, <1>3 DEF Going

LEMMA SetsOfPlaces ==
  /\ UsbPC \subseteq PC /\ CliPC \subseteq PC /\ CtlPC \subseteq PC /\ PrvPC \subseteq PC
  /\ CapPC \subseteq PC
  BY DEF UsbPC, CliPC, CtlPC, PrvPC, CapPC, PC

\* Which thread a step moves, and where
LEMMA UsbMoves ==
  ASSUME UsbNext PROVE \E to \in UsbPC : Moves(Usb, to)
  BY DEF UsbNext, CopyFrame, AddPreviewFrame, Moves, UsbPC

LEMMA PreviewMoves ==
  ASSUME PreviewNext, ~SpawnCapture PROVE \E to \in PrvPC \ {"none"} : Moves(Prv, to)
  BY DEF PreviewNext, PreparePreview, StartStreaming, DiscardOldFrames, PreviewLoop,
         WaitPreviewFrame, TakePreviewFrame, ConvertFrame, AddCaptureFrame, EndPreview,
         StopStreaming, Moves, PrvPC

LEMMA CaptureMoves ==
  ASSUME NEW k \in Capture, CaptureNext(k) PROVE \E to \in CapPC \ {"none"} : Moves(Cap(k), to)
  BY DEF CaptureNext, BeginCapture, CaptureLoop, CaptureInner, CaptureBroadcast,
         WaitCaptureFrame, TakeCaptureFrame, ConvertForCallback, CallCallback,
         CallbackReturns, Moves, CapPC

LEMMA StopMoves ==
  ASSUME StopNext \/ StartPreview \/ StopPreview PROVE \E to \in CtlPC : Moves(Ctl, to)
  BY DEF StartPreview, StopPreview, StopNext, StopSignals, JoinCapture, JoinPreview,
         StopClears, ReleaseWindow, Moves, CtlPC

LEMMA SetterMoves ==
  ASSUME SetterNext \/ SetterCall PROVE \E to \in CliPC : Moves(Cli, to)
  BY DEF SetterNext, SetterCall, SetterEnters, SetterInterrupts, SetterWaits,
         SetterWakes, ForgetMethod, ReplaceCallback, FindMethod, ResumeCapture, Moves, CliPC

LEMMA SpuriousMoves ==
  ASSUME NEW t \in Thread, SpuriousWakeup(t)
  PROVE  pc[t] = "waiting" /\ Moves(t, "woken")
  BY DEF SpuriousWakeup, Moves, At

-----------------------------------------------------------------------------
(* The places *)

LEMMA PlacesInit == Init => Places
<1> SUFFICES ASSUME Init PROVE Places
  OBVIOUS
<1>1. pc = [t \in Thread |-> IF t \in {Ctl, Cli, Usb} THEN "idle" ELSE "none"]
  BY DEF Init
<1>2. pc \in [Thread -> PC]
  BY <1>1 DEF PC
<1>3. pc[Ctl] = "idle" /\ pc[Cli] = "idle" /\ pc[Usb] = "idle" /\ pc[Prv] = "none"
  BY <1>1, ThreadFacts
<1>4. \A k \in Capture : pc[Cap(k)] = "none"
  BY <1>1, ThreadFacts
<1> QED BY <1>2, <1>3, <1>4 DEF Places, UsbPC, CliPC, CtlPC, PrvPC, CapPC

\* A thread that moves within its own program leaves the others in theirs.
LEMMA PlacesMoved ==
  ASSUME Places, NEW t \in Thread, NEW to \in PC, Moves(t, to),
         t = Usb => to \in UsbPC, t = Cli => to \in CliPC, t = Ctl => to \in CtlPC,
         t = Prv => to \in PrvPC, \A k \in Capture : t = Cap(k) => to \in CapPC
  PROVE  Places'
<1>1. /\ pc' \in [Thread -> PC]
      /\ \A u \in Thread : \/ u = t /\ pc'[u] = to
                           \/ pc'[u] = pc[u]
                           \/ pc[u] = "waiting" /\ pc'[u] = "woken"
  BY MovesFacts DEF Places
<1>2. /\ pc'[Usb] \in UsbPC /\ pc'[Cli] \in CliPC /\ pc'[Ctl] \in CtlPC /\ pc'[Prv] \in PrvPC
  BY <1>1, ThreadFacts DEF Places, UsbPC, CliPC, CtlPC, PrvPC
<1>3. \A k \in Capture : pc'[Cap(k)] \in CapPC
  BY <1>1, ThreadFacts DEF Places, CapPC
<1> QED BY <1>1, <1>2, <1>3 DEF Places

LEMMA PlacesSpawn ==
  ASSUME Places, Course, SpawnCapture PROVE Places'
<1>1. starts \in Capture
  BY LimitAssumption DEF Course, SpawnCapture, At, Capture
<1> QED BY <1>1, ThreadFacts DEF Places, SpawnCapture, PC, PrvPC, CapPC

LEMMA PlacesCreate ==
  ASSUME Places, CreatePreview PROVE Places'
<1>1. CASE pc' = [pc EXCEPT ![Ctl] = "idle", ![Prv] = "prepare"]
  BY <1>1, ThreadFacts DEF Places, PC, CtlPC, PrvPC
<1>2. CASE PreviewSignalled(Ctl, "idle")
  BY <1>2, PlacesMoved, ThreadFacts DEF Moves, CtlPC, PC
<1> QED BY <1>1, <1>2 DEF CreatePreview

LEMMA PlacesNext ==
  ASSUME Places, Course, Next PROVE Places'
<1>1. CASE UsbNext
  BY <1>1, UsbMoves, PlacesMoved, SetsOfPlaces, ThreadFacts
<1>2. CASE PreviewNext
  BY <1>2, PreviewMoves, PlacesMoved, SetsOfPlaces, ThreadFacts, PlacesSpawn
<1>3. CASE \E k \in Capture : CaptureNext(k)
  BY <1>3, CaptureMoves, PlacesMoved, SetsOfPlaces, ThreadFacts
<1>4. CASE ControlNext
  <2>1. CASE SetPreviewDisplay
    BY <2>1 DEF SetPreviewDisplay, Places
  <2>2. CASE StopNext \/ StartPreview \/ StopPreview
    BY <2>2, StopMoves, PlacesMoved, SetsOfPlaces, ThreadFacts
  <2> QED BY <1>4, <2>1, <2>2, PlacesCreate DEF ControlNext
<1>5. CASE SetterNext \/ SetterCall
  BY <1>5, SetterMoves, PlacesMoved, SetsOfPlaces, ThreadFacts
<1>6. CASE \E t \in Thread : SpuriousWakeup(t)
  <2>1. PICK t \in Thread : pc[t] = "waiting" /\ Moves(t, "woken")
    BY <1>6, SpuriousMoves
  <2>2. t # Usb /\ t # Ctl
    BY <2>1 DEF Places, UsbPC, CtlPC
  <2>3. "woken" \in PC /\ "woken" \in CliPC /\ "woken" \in PrvPC /\ "woken" \in CapPC
    BY DEF PC, CliPC, PrvPC, CapPC
  <2> QED BY <2>1, <2>2, <2>3, PlacesMoved
<1> QED BY <1>1, <1>2, <1>3, <1>4, <1>5, <1>6 DEF Next

-----------------------------------------------------------------------------
(* The values *)

LEMMA ValuesInit == Init => Values
<1> SUFFICES ASSUME Init PROVE Values
  OBVIOUS
<1>1. request \in Request
  BY DEF Init, Request, NoRequest
<1>2. sets \in 0 .. MaxCalls /\ failures \in 0 .. MaxFailures /\ capture_thread \in 0 .. MaxStarts
  BY LimitAssumption DEF Init
<1>3. /\ mIsRunning = FALSE /\ mIsCapturing = FALSE /\ mPreviewWindow = FALSE /\ crashed = FALSE
      /\ mFrameCallbackObj = NoCallback /\ joined = {}
  BY DEF Init
<1> QED BY <1>1, <1>2, <1>3 DEF Values

LEMMA ValuesUsb ==
  ASSUME Values, UsbNext PROVE Values'
<1>1. UNCHANGED <<flags, mPreviewWindow, mFrameCallbackObj, request, threads, sets>>
  BY DEF UsbNext, CopyFrame, AddPreviewFrame, bounds
<1>2. failures' = failures \/ MayFail
  BY DEF UsbNext, CopyFrame, AddPreviewFrame, bounds
<1>3. failures' \in 0 .. MaxFailures
  BY <1>2, LimitAssumption DEF Values, MayFail
<1> QED BY <1>1, <1>3 DEF Values, flags, threads

LEMMA ValuesPreview ==
  ASSUME Values, Course, PreviewNext PROVE Values'
<1>1. UNCHANGED <<flags, mPreviewWindow, mFrameCallbackObj, request, joined, crashed,
                  sets>>
  BY DEF PreviewNext, PreparePreview, StartStreaming, DiscardOldFrames, SpawnCapture, PreviewLoop,
         WaitPreviewFrame, ConvertFrame, AddCaptureFrame, EndPreview, StopStreaming, bounds,
         threads
<1>2. failures' = failures \/ MayFail
  BY DEF PreviewNext, PreparePreview, StartStreaming, DiscardOldFrames, SpawnCapture, PreviewLoop,
         WaitPreviewFrame, ConvertFrame, AddCaptureFrame, EndPreview, StopStreaming, bounds
<1>3. failures' \in 0 .. MaxFailures
  BY <1>2, LimitAssumption DEF Values, MayFail
<1>4. capture_thread' \in {capture_thread, starts}
  BY DEF PreviewNext, PreparePreview, StartStreaming, DiscardOldFrames, SpawnCapture, PreviewLoop,
         WaitPreviewFrame, ConvertFrame, AddCaptureFrame, EndPreview, StopStreaming, threads
<1> QED BY <1>1, <1>3, <1>4 DEF Values, Course, flags

LEMMA ValuesCapture ==
  ASSUME Values, NEW k \in Capture, CaptureNext(k) PROVE Values'
<1>1. UNCHANGED <<mIsRunning, mPreviewWindow, mFrameCallbackObj, request, capture_thread, joined,
                  sets>>
  BY DEF CaptureNext, BeginCapture, CaptureLoop, CaptureInner, CaptureBroadcast,
         WaitCaptureFrame, ConvertForCallback, CallCallback, CallbackReturns, bounds, threads, flags
<1>2. failures' = failures \/ MayFail
  BY DEF CaptureNext, BeginCapture, CaptureLoop, CaptureInner, CaptureBroadcast,
         WaitCaptureFrame, ConvertForCallback, CallCallback, CallbackReturns, bounds
<1>3. failures' \in 0 .. MaxFailures
  BY <1>2, LimitAssumption DEF Values, MayFail
<1>4. mIsCapturing' = mIsCapturing \/ mIsCapturing' = TRUE
  BY DEF CaptureNext, BeginCapture, CaptureLoop, CaptureInner, CaptureBroadcast,
         WaitCaptureFrame, ConvertForCallback, CallCallback, CallbackReturns, flags
<1>7. crashed' = crashed \/ crashed' \in BOOLEAN
  BY DEF CaptureNext, BeginCapture, CaptureLoop, CaptureInner, CaptureBroadcast,
         WaitCaptureFrame, ConvertForCallback, CallCallback, CallbackReturns, threads
<1> QED BY <1>1, <1>3, <1>4, <1>7 DEF Values

LEMMA ValuesControl ==
  ASSUME Values, ControlNext PROVE Values'
<1>1. UNCHANGED <<mIsCapturing, mFrameCallbackObj, request, capture_thread, sets, failures>>
  BY DEF ControlNext, SetPreviewDisplay, StartPreview, CreatePreview, StopPreview, StopNext,
         StopSignals, JoinCapture, JoinPreview, StopClears, ReleaseWindow, flags, threads, bounds
<1>2. mIsRunning' = mIsRunning \/ mIsRunning' = TRUE \/ mIsRunning' = FALSE
  BY DEF ControlNext, SetPreviewDisplay, StartPreview, CreatePreview, StopPreview, StopNext,
         StopSignals, JoinCapture, JoinPreview, StopClears, ReleaseWindow, flags
<1>3. mPreviewWindow' = mPreviewWindow \/ mPreviewWindow' \in BOOLEAN
  BY DEF ControlNext, SetPreviewDisplay, StartPreview, CreatePreview, StopPreview, StopNext,
         StopSignals, JoinCapture, JoinPreview, StopClears, ReleaseWindow
<1>4. joined' = joined \/ (joined' = joined \cup {capture_thread} /\ capture_thread # 0)
  BY DEF ControlNext, SetPreviewDisplay, StartPreview, CreatePreview, StopPreview, StopNext,
         StopSignals, JoinCapture, JoinPreview, StopClears, ReleaseWindow, threads
<1>5. crashed' = crashed \/ crashed' \in BOOLEAN
  BY DEF ControlNext, SetPreviewDisplay, StartPreview, CreatePreview, StopPreview, StopNext,
         StopSignals, JoinCapture, JoinPreview, StopClears, ReleaseWindow, threads
<1>6. capture_thread # 0 => capture_thread \in Capture
  BY LimitAssumption DEF Values, Capture
<1>7. joined \subseteq Capture
  BY DEF Values
<1>8. joined' \subseteq Capture
  BY <1>4, <1>6, <1>7
<1> QED BY <1>1, <1>2, <1>3, <1>5, <1>8 DEF Values

LEMMA ValuesSetter ==
  ASSUME Values, Course, SetterNext \/ SetterCall PROVE Values'
<1>1. CASE SetterCall
  <2>1. PICK cb \in Callback \cup {NoCallback} : SetterEnters(cb)
    BY <1>1 DEF SetterCall
  <2>2. /\ UNCHANGED <<mIsRunning, mPreviewWindow, mFrameCallbackObj, threads, failures>>
        /\ sets' = sets + 1 /\ starts + sets < MaxCalls
    BY <2>1 DEF SetterEnters, flags
  <2>3. sets' \in 0 .. MaxCalls
    BY <2>2, LimitAssumption DEF Values, Course
  <2>4. request' \in Request
    BY <2>1 DEF SetterEnters, Request, Values
  <2>5. mIsCapturing' \in BOOLEAN
    BY <2>1 DEF SetterEnters, Values, flags
  <2> QED BY <2>2, <2>3, <2>4, <2>5 DEF Values, threads
<1>2. CASE SetterNext
  <2>1. UNCHANGED <<mIsRunning, mPreviewWindow, threads, sets, failures>>
    BY <1>2 DEF SetterNext, SetterInterrupts, SetterWaits, SetterWakes, ForgetMethod,
         ReplaceCallback, FindMethod, ResumeCapture, flags, bounds
  <2>2. mIsCapturing' \in {mIsCapturing, TRUE, FALSE}
    BY <1>2 DEF SetterNext, SetterInterrupts, SetterWaits, SetterWakes, ForgetMethod,
         ReplaceCallback, FindMethod, ResumeCapture, flags
  <2>3. mFrameCallbackObj' \in {mFrameCallbackObj, request.callback}
    BY <1>2 DEF SetterNext, SetterInterrupts, SetterWaits, SetterWakes, ForgetMethod,
         ReplaceCallback, FindMethod, ResumeCapture
  <2>4. request' \in {request, NoRequest} /\ NoRequest \in Request
    BY <1>2 DEF SetterNext, SetterInterrupts, SetterWaits, SetterWakes, ForgetMethod,
         ReplaceCallback, FindMethod, ResumeCapture, NoRequest, Request
  <2>5. request.callback \in Callback \cup {NoCallback}
    BY DEF Values, Request
  <2> QED BY <2>1, <2>2, <2>3, <2>4, <2>5 DEF Values, threads
<1> QED BY <1>1, <1>2

LEMMA ValuesNext ==
  ASSUME Values, Course, Next PROVE Values'
<1>1. CASE \E t \in Thread : SpuriousWakeup(t)
  BY <1>1 DEF SpuriousWakeup, Values, flags, threads, bounds
<1> QED BY <1>1, ValuesUsb, ValuesPreview, ValuesCapture, ValuesControl, ValuesSetter DEF Next

-----------------------------------------------------------------------------
(* The account of the frames, whatever step changes it *)

\* A holder takes a frame from the pool.
LEMMA AccTake ==
  ASSUME NEW hd, NEW q, NEW ls, NEW lt, Accounted(hd, q, ls, lt),
         NEW h \in Holder, hd[h] = NoFrame, NEW f \in Frame \ ls
  PROVE  Accounted([hd EXCEPT ![h] = f], q, ls \cup {f}, lt)
  BY FrameAssumption DEF Accounted

\* A holder gives its frame back to the pool.
LEMMA AccDrop ==
  ASSUME NEW hd, NEW q, NEW ls, NEW lt, Accounted(hd, q, ls, lt), NEW h \in Holder
  PROVE  Accounted([hd EXCEPT ![h] = NoFrame], q, ls \ {hd[h]}, lt)
  BY FrameAssumption DEF Accounted

\* A holder gives its frame to a holder that has none.
LEMMA AccMove ==
  ASSUME NEW hd, NEW q, NEW ls, NEW lt, Accounted(hd, q, ls, lt),
         NEW g \in Holder, NEW h \in Holder, g # h, hd[g] = NoFrame
  PROVE  Accounted([hd EXCEPT ![g] = hd[h], ![h] = NoFrame], q, ls, lt)
  BY FrameAssumption DEF Accounted

\* A holder puts its frame into the queue.
LEMMA AccPut ==
  ASSUME NEW hd, NEW q, NEW ls, NEW lt, Accounted(hd, q, ls, lt),
         NEW h \in Holder, hd[h] # NoFrame
  PROVE  Accounted([hd EXCEPT ![h] = NoFrame], Append(q, hd[h]), ls, lt)
<1> DEFINE p == Append(q, hd[h])
           c == [hd EXCEPT ![h] = NoFrame]
<1>1. q \in Seq(Frame) /\ hd[h] \in Frame
  BY DEF Accounted
<1>2. /\ p \in Seq(Frame) /\ Len(p) = Len(q) + 1
      /\ DOMAIN p = 1 .. Len(q) + 1 /\ DOMAIN q = 1 .. Len(q)
      /\ \A i \in 1 .. Len(q) : p[i] = q[i]
      /\ p[Len(q) + 1] = hd[h]
      /\ Len(q) \in Nat
  BY <1>1
<1> HIDE DEF p
<1>3. /\ c \in [Holder -> Frame \cup {NoFrame}] /\ c[h] = NoFrame
      /\ \A g \in Holder \ {h} : c[g] = hd[g]
  BY DEF Accounted
<1> HIDE DEF c
<1>4. \A g, k \in Holder : c[g] # NoFrame /\ c[g] = c[k] => g = k
  BY <1>3 DEF Accounted
<1>5. \A i, j \in DOMAIN p : p[i] = p[j] => i = j
  BY <1>2 DEF Accounted
<1>6. \A g \in Holder : \A i \in DOMAIN p : c[g] # p[i]
  <2> SUFFICES ASSUME NEW g \in Holder, NEW i \in DOMAIN p PROVE c[g] # p[i]
    OBVIOUS
  <2>1. CASE g = h
    BY <2>1, <1>2, <1>3, FrameAssumption DEF Accounted
  <2>2. CASE g # h /\ i = Len(q) + 1
    BY <2>2, <1>2, <1>3 DEF Accounted
  <2>3. CASE g # h /\ i \in 1 .. Len(q)
    BY <2>3, <1>2, <1>3 DEF Accounted
  <2> QED BY <2>1, <2>2, <2>3, <1>2
<1>7. /\ \A g \in Holder : c[g] \notin lt /\ (c[g] # NoFrame => c[g] \in ls)
  BY <1>3, FrameAssumption DEF Accounted
<1>8. \A i \in DOMAIN p : p[i] \notin lt /\ p[i] \in ls
  BY <1>2 DEF Accounted
<1>9. \A f \in ls : \/ f \in lt
                    \/ \E g \in Holder : c[g] = f
                    \/ \E i \in DOMAIN p : p[i] = f
  BY <1>2, <1>3 DEF Accounted
<1>10. Accounted(c, p, ls, lt)
  BY <1>2, <1>3, <1>4, <1>5, <1>6, <1>7, <1>8, <1>9 DEF Accounted
<1> QED BY <1>10 DEF p, c

\* A holder takes the first frame of the queue.
LEMMA AccGet ==
  ASSUME NEW hd, NEW q, NEW ls, NEW lt, Accounted(hd, q, ls, lt),
         NEW h \in Holder, hd[h] = NoFrame, q # << >>
  PROVE  /\ Accounted([hd EXCEPT ![h] = Head(q)], Tail(q), ls, lt)
         /\ Head(q) \in Frame /\ Len(Tail(q)) <= Len(q)
<1> DEFINE p == Tail(q)
           c == [hd EXCEPT ![h] = Head(q)]
<1>1. q \in Seq(Frame)
  BY DEF Accounted
<1>2. /\ p \in Seq(Frame) /\ Len(p) = Len(q) - 1 /\ Head(q) = q[1] /\ q[1] \in Frame
      /\ DOMAIN p = 1 .. Len(q) - 1 /\ DOMAIN q = 1 .. Len(q)
      /\ \A i \in 1 .. Len(q) - 1 : p[i] = q[i + 1]
      /\ Len(q) \in Nat /\ Len(q) >= 1
  BY <1>1
<1> HIDE DEF p
<1>3. /\ c \in [Holder -> Frame \cup {NoFrame}] /\ c[h] = q[1]
      /\ \A g \in Holder \ {h} : c[g] = hd[g]
  BY <1>2 DEF Accounted
<1> HIDE DEF c
<1>4. \A g, k \in Holder : c[g] # NoFrame /\ c[g] = c[k] => g = k
  <2>1. \A g \in Holder : hd[g] # q[1]
    BY <1>2 DEF Accounted
  <2>2. \A g, k \in Holder : hd[g] # NoFrame /\ hd[g] = hd[k] => g = k
    BY DEF Accounted
  <2> SUFFICES ASSUME NEW g \in Holder, NEW k \in Holder, c[g] # NoFrame, c[g] = c[k]
      PROVE g = k
    OBVIOUS
  <2>3. c[h] = q[1] /\ (g # h => c[g] = hd[g]) /\ (k # h => c[k] = hd[k])
    BY <1>3
  <2>4. CASE g = h /\ k # h
    BY <2>1, <2>3, <2>4
  <2>5. CASE g # h /\ k = h
    BY <2>1, <2>3, <2>5
  <2>6. CASE g # h /\ k # h
    BY <2>2, <2>3, <2>6
  <2>7. CASE g = h /\ k = h
    BY <2>7
  <2> QED BY <2>4, <2>5, <2>6, <2>7
<1>5. \A i, j \in DOMAIN p : p[i] = p[j] => i = j
  <2> SUFFICES ASSUME NEW i \in DOMAIN p, NEW j \in DOMAIN p, p[i] = p[j] PROVE i = j
    OBVIOUS
  <2>1. i + 1 \in DOMAIN q /\ j + 1 \in DOMAIN q /\ q[i + 1] = q[j + 1]
    BY <1>2
  <2>2. i + 1 = j + 1
    BY <2>1 DEF Accounted
  <2> QED BY <2>2, <1>2
<1>6. \A g \in Holder : \A i \in DOMAIN p : c[g] # p[i]
  <2> SUFFICES ASSUME NEW g \in Holder, NEW i \in DOMAIN p PROVE c[g] # p[i]
    OBVIOUS
  <2>1. p[i] = q[i + 1] /\ i + 1 \in DOMAIN q /\ i + 1 # 1 /\ 1 \in DOMAIN q
    BY <1>2
  <2> QED BY <2>1, <1>3 DEF Accounted
<1>7. /\ \A g \in Holder : c[g] \notin lt /\ (c[g] # NoFrame => c[g] \in ls)
  BY <1>2, <1>3, FrameAssumption DEF Accounted
<1>8. \A i \in DOMAIN p : p[i] \notin lt /\ p[i] \in ls
  BY <1>2 DEF Accounted
<1>9. \A f \in ls : \/ f \in lt
                    \/ \E g \in Holder : c[g] = f
                    \/ \E i \in DOMAIN p : p[i] = f
  <2> SUFFICES ASSUME NEW f \in ls, f \notin lt, \A i \in DOMAIN p : p[i] # f
      PROVE \E g \in Holder : c[g] = f
    OBVIOUS
  <2>1. CASE \E g \in Holder : hd[g] = f
    BY <2>1, <1>3, FrameAssumption DEF Accounted
  <2>2. CASE \E i \in DOMAIN q : q[i] = f
    <3>1. PICK i \in 1 .. Len(q) : q[i] = f
      BY <2>2, <1>2
    <3>2. i # 1 => i - 1 \in DOMAIN p /\ p[i - 1] = f
      BY <3>1, <1>2
    <3> QED BY <3>1, <3>2, <1>3
  <2> QED BY <2>1, <2>2 DEF Accounted
<1>10. Accounted(c, p, ls, lt)
  BY <1>2, <1>3, <1>4, <1>5, <1>6, <1>7, <1>8, <1>9 DEF Accounted
<1> QED BY <1>2, <1>10 DEF p, c

\* The queue is emptied into the pool.
LEMMA AccClear ==
  ASSUME NEW hd, NEW q, NEW ls, NEW lt, Accounted(hd, q, ls, lt)
  PROVE  Accounted(hd, << >>, ls \ {q[i] : i \in DOMAIN q}, lt)
  BY DEF Accounted

\* A holder forgets its frame.
LEMMA AccLose ==
  ASSUME NEW hd, NEW q, NEW ls, NEW lt, Accounted(hd, q, ls, lt),
         NEW h \in Holder, hd[h] # NoFrame
  PROVE  Accounted([hd EXCEPT ![h] = NoFrame], q, ls, lt \cup {hd[h]})
  BY FrameAssumption DEF Accounted

LEMMA AccountedConserved ==
  ASSUME Accounted(hand, previewFrames, leased, lost) PROVE Conserved
<1>1. /\ \A g, h \in Holder : hand[g] # NoFrame /\ hand[g] = hand[h] => g = h
      /\ \A i, j \in DOMAIN previewFrames : previewFrames[i] = previewFrames[j] => i = j
  BY DEF Accounted
<1>2. Held \cap Queued = {}
  BY DEF Accounted, Held, Queued
<1>3. lost \cap (Held \cup Queued) = {}
  BY DEF Accounted, Held, Queued
<1>4. leased \subseteq Held \cup Queued \cup lost
  BY FrameAssumption DEF Accounted, Held, Queued
<1>5. Held \cup Queued \cup lost \subseteq leased
  BY DEF Accounted, Held, Queued
<1> QED BY <1>1, <1>2, <1>3, <1>4, <1>5 DEF Conserved

-----------------------------------------------------------------------------
(* The frames *)

\* Hands goes on to hold when a thread moves and what it has changes with
\* its place.
LEMMA HandsMoved ==
  ASSUME Places, Hands, NEW t \in Thread, NEW to \in PC, Moves(t, to),
         hand'[Usb] # NoFrame <=> IF t = Usb THEN to = "copied" ELSE hand[Usb] # NoFrame,
         hand'[Raw] # NoFrame <=> IF t = Prv THEN to \in {"convert", "add"} ELSE hand[Raw] # NoFrame,
         hand'[Rgb] # NoFrame <=> IF t = Prv THEN to = "add" ELSE hand[Rgb] # NoFrame,
         \A k \in Capture : hand'[Cap(k)] # NoFrame <=>
           IF t = Cap(k) THEN to \in {"callback", "call", "calling"} ELSE hand[Cap(k)] # NoFrame
  PROVE  Hands'
<1>1. /\ pc'[t] = to
      /\ \A u \in Thread \ {t} : pc'[u] = pc[u] \/ (pc[u] = "waiting" /\ pc'[u] = "woken")
  BY MovesFacts DEF Places
<1>2. t # Usb => (pc'[Usb] = "copied" <=> pc[Usb] = "copied")
  BY <1>1, ThreadFacts
<1>3. t # Prv => /\ pc'[Prv] \in {"convert", "add"} <=> pc[Prv] \in {"convert", "add"}
                 /\ pc'[Prv] = "add" <=> pc[Prv] = "add"
  BY <1>1, ThreadFacts
<1>4. \A k \in Capture : t # Cap(k) =>
        (pc'[Cap(k)] \in {"callback", "call", "calling"}
           <=> pc[Cap(k)] \in {"callback", "call", "calling"})
  BY <1>1, ThreadFacts
<1>5. hand'[Usb] # NoFrame <=> pc'[Usb] = "copied"
  BY <1>1, <1>2 DEF Hands
<1>6. hand'[Raw] # NoFrame <=> pc'[Prv] \in {"convert", "add"}
  BY <1>1, <1>3 DEF Hands
<1>7. hand'[Rgb] # NoFrame <=> pc'[Prv] = "add"
  BY <1>1, <1>3 DEF Hands
<1>8. \A k \in Capture :
        hand'[Cap(k)] # NoFrame <=> pc'[Cap(k)] \in {"callback", "call", "calling"}
  BY <1>1, <1>4 DEF Hands
<1> QED BY <1>5, <1>6, <1>7, <1>8 DEF Hands

LEMMA HandsShape ==
  ASSUME Frames
  PROVE  /\ hand \in [Holder -> Frame \cup {NoFrame}]
         /\ Hands /\ Accounted(hand, previewFrames, leased, lost)
         /\ previewFrames \in Seq(Frame)
         /\ leased \subseteq Frame
  BY DEF Frames, Accounted

\* A step that changes no frame, of a thread whose place keeps what it has
LEMMA FramesKept ==
  ASSUME Places, Frames, UNCHANGED frames, NEW t \in Thread, NEW to \in PC, Moves(t, to),
         t = Usb => to # "copied" /\ pc[Usb] # "copied",
         t = Prv => /\ to \notin {"convert", "add"} /\ pc[Prv] \notin {"convert", "add"},
         \A k \in Capture : t = Cap(k) =>
           (to \in {"callback", "call", "calling"} <=> pc[Cap(k)] \in {"callback", "call", "calling"})
  PROVE  Frames'
<1>1. Hands
  BY DEF Frames
<1>2. hand' = hand /\ previewFrames' = previewFrames /\ leased' = leased /\ lost' = lost
  BY DEF frames
<1>3. hand'[Usb] # NoFrame <=> IF t = Usb THEN to = "copied" ELSE hand[Usb] # NoFrame
  BY <1>1, <1>2 DEF Hands
<1>4. /\ hand'[Raw] # NoFrame <=> IF t = Prv THEN to \in {"convert", "add"} ELSE hand[Raw] # NoFrame
      /\ hand'[Rgb] # NoFrame <=> IF t = Prv THEN to = "add" ELSE hand[Rgb] # NoFrame
  BY <1>1, <1>2 DEF Hands
<1>5. \A k \in Capture : hand'[Cap(k)] # NoFrame <=>
        IF t = Cap(k) THEN to \in {"callback", "call", "calling"} ELSE hand[Cap(k)] # NoFrame
  BY <1>1, <1>2 DEF Hands
<1>6. Hands'
  BY <1>1, <1>3, <1>4, <1>5, HandsMoved
<1> QED BY <1>2, <1>6 DEF Frames

LEMMA FramesUsb ==
  ASSUME Places, Frames, UsbNext PROVE Frames'
<1>1. CASE CopyFrame
  <2>1. PICK f \in Frame \ leased : leased' = leased \cup {f} /\ hand' = [hand EXCEPT ![Usb] = f]
    BY <1>1 DEF CopyFrame, Get
  <2>2. /\ previewFrames' = previewFrames /\ lost' = lost /\ pc[Usb] = "idle"
        /\ Goto(Usb, "copied")
    BY <1>1 DEF CopyFrame, At
  <2>3. hand[Usb] = NoFrame
    BY <2>2 DEF Frames, Hands
  <2>4. Accounted(hand', previewFrames', leased', lost')
    BY <2>1, <2>2, <2>3, AccTake, HolderFacts DEF Frames
  <2>5. /\ hand'[Usb] = f /\ f # NoFrame
        /\ \A h \in Holder \ {Usb} : hand'[h] = hand[h]
    BY <2>1, HandsShape, HolderFacts, FrameAssumption
  <2>6. Hands'
    BY <2>2, <2>5, HandsMoved, HolderFacts, ThreadFacts, SetsOfPlaces DEF Frames, Moves, PC
  <2> QED BY <2>2, <2>4, <2>6 DEF Frames
<1>2. CASE AddPreviewFrame
  <2>1. /\ lost' = lost /\ pc[Usb] = "copied"
        /\ hand' = [hand EXCEPT ![Usb] = NoFrame]
    BY <1>2 DEF AddPreviewFrame, At
  <2>2. Moves(Usb, "idle")
    BY <1>2 DEF AddPreviewFrame, Moves
  <2>3. hand[Usb] # NoFrame
    BY <2>1 DEF Frames, Hands
  <2>4. /\ hand'[Usb] = NoFrame
        /\ \A h \in Holder \ {Usb} : hand'[h] = hand[h]
    BY <2>1, HandsShape, HolderFacts
  <2>5. Hands'
    BY <2>2, <2>4, HandsMoved, HolderFacts, ThreadFacts, SetsOfPlaces DEF Frames, PC
  <2>6. CASE /\ HasRoom /\ leased' = leased
             /\ previewFrames' = Append(previewFrames, hand[Usb])
    <3>1. Accounted(hand', previewFrames', leased', lost')
      BY <2>1, <2>3, <2>6, AccPut, HolderFacts DEF Frames
    <3>2. Len(previewFrames') <= MaxFrame
      BY <2>6, HandsShape, <2>3, HolderFacts, LimitAssumption DEF HasRoom
    <3> QED BY <2>5, <3>1, <3>2 DEF Frames
  <2>7. CASE leased' = leased \ {hand[Usb]} /\ previewFrames' = previewFrames
    <3>1. Accounted(hand', previewFrames', leased', lost')
      BY <2>1, <2>7, AccDrop, HolderFacts DEF Frames
    <3> QED BY <2>5, <2>7, <3>1 DEF Frames
  <2> QED BY <1>2, <2>6, <2>7 DEF AddPreviewFrame, Recycle
<1> QED BY <1>1, <1>2 DEF UsbNext

\* A step of the preview thread's own places, with the hand it leaves
LEMMA HandsOfPreview ==
  ASSUME Places, Frames, NEW to \in PrvPC, Moves(Prv, to),
         \A h \in Holder \ {Raw, Rgb, Slot} : hand'[h] = hand[h],
         hand'[Raw] # NoFrame <=> to \in {"convert", "add"},
         hand'[Rgb] # NoFrame <=> to = "add"
  PROVE  Hands'
  BY HandsMoved, HolderFacts, ThreadFacts, SetsOfPlaces DEF Frames

LEMMA FramesPreview ==
  ASSUME Places, Frames, PreviewNext, ~SpawnCapture PROVE Frames'
<1>1. CASE PreparePreview \/ StartStreaming \/ PreviewLoop \/ EndPreview \/ StopStreaming
  <2>1. /\ UNCHANGED frames /\ pc[Prv] \notin {"convert", "add"}
        /\ \E to \in PrvPC \ {"convert", "add"} : Moves(Prv, to)
    BY <1>1 DEF PreparePreview, StartStreaming, PreviewLoop, EndPreview, StopStreaming, At, Moves,
                PrvPC
  <2> QED BY <2>1, FramesKept, ThreadFacts, SetsOfPlaces
<1>2. CASE DiscardOldFrames
  <2>1. /\ hand' = hand /\ lost' = lost /\ previewFrames' = << >> /\ leased' = leased \ Queued
        /\ pc[Prv] = "clear" /\ Moves(Prv, "spawn") /\ "spawn" \in PrvPC
    BY <1>2 DEF DiscardOldFrames, ClearPreviewFrame, Recycle, At, Moves, PrvPC
  <2>2. Accounted(hand', previewFrames', leased', lost')
    BY <2>1, AccClear DEF Frames, Queued
  <2>3. hand[Raw] = NoFrame /\ hand[Rgb] = NoFrame
    BY <2>1 DEF Frames, Hands
  <2>4. Hands'
    BY <2>1, <2>3, HandsOfPreview, HolderFacts
  <2> QED BY <2>1, <2>2, <2>4, LimitAssumption DEF Frames
<1>3. CASE WaitPreviewFrame
  <2>1. /\ leased' = leased /\ lost' = lost /\ pc[Prv] \in {"wait", "woken"}
    BY <1>3 DEF WaitPreviewFrame, At
  <2>2. hand[Raw] = NoFrame /\ hand[Rgb] = NoFrame
    BY <2>1 DEF Frames, Hands
  <2>3. CASE /\ hand' = hand /\ previewFrames' = previewFrames
             /\ Goto(Prv, "waiting") \/ Goto(Prv, "loop")
    BY <2>1, <2>3, FramesKept, ThreadFacts DEF frames, Moves, PC
  <2>4. CASE /\ previewFrames # << >> /\ hand' = [hand EXCEPT ![Raw] = Head(previewFrames)]
             /\ previewFrames' = Tail(previewFrames) /\ Goto(Prv, "convert")
    <3>1. /\ Accounted(hand', previewFrames', leased', lost')
          /\ Head(previewFrames) \in Frame /\ Len(previewFrames') <= Len(previewFrames)
      BY <2>1, <2>2, <2>4, AccGet, HolderFacts DEF Frames
    <3>2. /\ hand'[Raw] # NoFrame /\ hand'[Rgb] = NoFrame
          /\ \A h \in Holder \ {Raw} : hand'[h] = hand[h]
      BY <2>2, <2>4, <3>1, HandsShape, HolderFacts, FrameAssumption
    <3>3. Hands'
      BY <2>4, <3>2, HandsOfPreview DEF Moves, PrvPC
    <3>4. Len(previewFrames') <= MaxFrame
      BY <2>4, <3>1, HandsShape, LimitAssumption DEF Frames
    <3> QED BY <3>1, <3>3, <3>4 DEF Frames
  <2> QED BY <1>3, <2>3, <2>4 DEF WaitPreviewFrame, TakePreviewFrame
<1>4. CASE ConvertFrame
  <2>1. previewFrames' = previewFrames /\ lost' = lost /\ pc[Prv] = "convert"
    BY <1>4 DEF ConvertFrame, At
  <2>2. hand[Raw] # NoFrame /\ hand[Rgb] = NoFrame
    BY <2>1 DEF Frames, Hands
  <2>3. CASE \E f \in Frame \ leased :
               /\ leased' = leased \cup {f} /\ hand' = [hand EXCEPT ![Rgb] = f] /\ Goto(Prv, "add")
    <3>1. PICK f \in Frame \ leased : leased' = leased \cup {f} /\ hand' = [hand EXCEPT ![Rgb] = f]
      BY <2>3
    <3>2. Accounted(hand', previewFrames', leased', lost')
      BY <2>1, <2>2, <3>1, AccTake, HolderFacts DEF Frames
    <3>3. /\ hand'[Raw] # NoFrame /\ hand'[Rgb] # NoFrame
          /\ \A h \in Holder \ {Rgb} : hand'[h] = hand[h]
      BY <2>2, <3>1, HandsShape, HolderFacts, FrameAssumption
    <3>4. Hands'
      BY <2>3, <3>3, HandsOfPreview DEF Moves, PrvPC
    <3> QED BY <2>1, <3>2, <3>4 DEF Frames
  <2>4. CASE /\ leased' = leased \ {hand[Raw]} /\ hand' = [hand EXCEPT ![Raw] = NoFrame]
             /\ Goto(Prv, "loop")
    <3>1. Accounted(hand', previewFrames', leased', lost')
      BY <2>1, <2>4, AccDrop, HolderFacts DEF Frames
    <3>2. /\ hand'[Raw] = NoFrame /\ hand'[Rgb] = NoFrame
          /\ \A h \in Holder \ {Raw} : hand'[h] = hand[h]
      BY <2>2, <2>4, HandsShape, HolderFacts
    <3>3. Hands'
      BY <2>4, <3>2, HandsOfPreview DEF Moves, PrvPC
    <3> QED BY <2>1, <3>1, <3>3 DEF Frames
  <2> QED BY <1>4, <2>3, <2>4 DEF ConvertFrame, Get, Recycle
<1>5. CASE AddCaptureFrame
  <2> DEFINE emptied == [hand EXCEPT ![Raw] = NoFrame]
  <2>1. previewFrames' = previewFrames /\ pc[Prv] = "add"
    BY <1>5 DEF AddCaptureFrame, At
  <2>2. hand[Raw] # NoFrame /\ hand[Rgb] # NoFrame
    BY <2>1 DEF Frames, Hands
  <2>3. Accounted(emptied, previewFrames, leased \ {hand[Raw]}, lost)
    BY AccDrop, HolderFacts DEF Frames
  <2>4. /\ emptied \in [Holder -> Frame \cup {NoFrame}] /\ emptied[Raw] = NoFrame
        /\ \A h \in Holder \ {Raw} : emptied[h] = hand[h]
    BY HandsShape, HolderFacts
  <2>5. CASE /\ leased' = leased \ {hand[Slot], hand[Raw]} /\ lost' = lost /\ Broadcast(Prv, "loop")
             /\ hand' = [hand EXCEPT ![Slot] = hand[Rgb], ![Rgb] = NoFrame, ![Raw] = NoFrame]
    <3> DEFINE cleared == [emptied EXCEPT ![Slot] = NoFrame]
    <3>1. Accounted(cleared, previewFrames, (leased \ {hand[Raw]}) \ {hand[Slot]}, lost)
      BY <2>3, <2>4, AccDrop, HolderFacts
    <3>2. /\ cleared[Slot] = NoFrame /\ cleared[Rgb] = hand[Rgb]
          /\ cleared \in [Holder -> Frame \cup {NoFrame}]
      BY <2>4, HolderFacts
    <3>3. Accounted([cleared EXCEPT ![Slot] = cleared[Rgb], ![Rgb] = NoFrame],
                    previewFrames, (leased \ {hand[Raw]}) \ {hand[Slot]}, lost)
      BY <3>1, <3>2, AccMove, HolderFacts
    <3>4. hand' = [cleared EXCEPT ![Slot] = cleared[Rgb], ![Rgb] = NoFrame]
      BY <2>5, <3>2, HandsShape, HolderFacts
    <3>5. leased' = (leased \ {hand[Raw]}) \ {hand[Slot]}
      BY <2>5
    <3>6. Accounted(hand', previewFrames', leased', lost')
      BY <2>1, <2>5, <3>3, <3>4, <3>5
    <3>7. /\ hand'[Raw] = NoFrame /\ hand'[Rgb] = NoFrame
          /\ \A h \in Holder \ {Raw, Rgb, Slot} : hand'[h] = hand[h]
      BY <2>5, HandsShape, HolderFacts
    <3>8. Hands'
      BY <2>5, <3>7, HandsOfPreview DEF Moves, PrvPC
    <3> QED BY <2>1, <3>6, <3>8 DEF Frames
  <2>6. CASE /\ leased' = leased \ {hand[Raw]} /\ lost' = lost \cup {hand[Rgb]}
             /\ hand' = [hand EXCEPT ![Rgb] = NoFrame, ![Raw] = NoFrame] /\ Goto(Prv, "loop")
    <3>1. Accounted([emptied EXCEPT ![Rgb] = NoFrame], previewFrames, leased \ {hand[Raw]},
                    lost \cup {emptied[Rgb]})
      BY <2>2, <2>3, <2>4, AccLose, HolderFacts
    <3>2. hand' = [emptied EXCEPT ![Rgb] = NoFrame]
      BY <2>6, HandsShape, HolderFacts
    <3>3. emptied[Rgb] = hand[Rgb]
      BY <2>4, HolderFacts
    <3>4. Accounted(hand', previewFrames', leased', lost')
      BY <2>1, <2>6, <3>1, <3>2, <3>3
    <3>5. /\ hand'[Raw] = NoFrame /\ hand'[Rgb] = NoFrame
          /\ \A h \in Holder \ {Raw, Rgb} : hand'[h] = hand[h]
      BY <2>6, HandsShape, HolderFacts
    <3>6. Hands'
      BY <2>6, <3>5, HandsOfPreview DEF Moves, PrvPC
    <3> QED BY <2>1, <3>4, <3>6 DEF Frames
  <2> QED BY <1>5, <2>5, <2>6 DEF AddCaptureFrame, Recycle
<1> QED BY <1>1, <1>2, <1>3, <1>4, <1>5 DEF PreviewNext

\* A step of a capture thread, with the hand it leaves
LEMMA HandsOfCapture ==
  ASSUME Places, Frames, NEW k \in Capture, NEW to \in CapPC, Moves(Cap(k), to),
         \A h \in Holder \ {Cap(k), Slot} : hand'[h] = hand[h],
         hand'[Cap(k)] # NoFrame <=> to \in {"callback", "call", "calling"}
  PROVE  Hands'
<1>1. \A j \in Capture : Cap(k) = Cap(j) => j = k
  BY ThreadFacts
<1>2. \A j \in Capture : hand'[Cap(j)] # NoFrame <=>
        IF Cap(k) = Cap(j) THEN to \in {"callback", "call", "calling"} ELSE hand[Cap(j)] # NoFrame
  BY <1>1, HolderFacts
<1>3. hand'[Usb] = hand[Usb] /\ hand'[Raw] = hand[Raw] /\ hand'[Rgb] = hand[Rgb]
  BY HolderFacts
<1> QED BY <1>2, <1>3, HandsMoved, ThreadFacts, SetsOfPlaces DEF Frames

LEMMA FramesCapture ==
  ASSUME Places, Frames, NEW k \in Capture, CaptureNext(k) PROVE Frames'
<1>1. CASE CaptureLoop(k) \/ CaptureInner(k) \/ CaptureBroadcast(k) \/ CallCallback(k)
  <2>1. /\ UNCHANGED frames
        /\ \E to \in CapPC :
             /\ Moves(Cap(k), to)
             /\ to \in {"callback", "call", "calling"}
                  <=> pc[Cap(k)] \in {"callback", "call", "calling"}
    BY <1>1 DEF CaptureLoop, CaptureInner, CaptureBroadcast, CallCallback, At, Moves, CapPC
  <2> QED BY <2>1, FramesKept, ThreadFacts, SetsOfPlaces
<1>2. CASE BeginCapture(k)
  <2>1. /\ previewFrames' = previewFrames /\ lost' = lost /\ leased' = leased \ {hand[Slot]}
        /\ hand' = [hand EXCEPT ![Slot] = NoFrame]
        /\ pc[Cap(k)] = "clear" /\ Moves(Cap(k), "outer") /\ "outer" \in CapPC
    BY <1>2 DEF BeginCapture, ClearCaptureFrame, Recycle, At, Moves, CapPC
  <2>2. Accounted(hand', previewFrames', leased', lost')
    BY <2>1, AccDrop, HolderFacts DEF Frames
  <2>3. hand[Cap(k)] = NoFrame
    BY <2>1 DEF Frames, Hands
  <2>4. \A h \in Holder \ {Slot} : hand'[h] = hand[h]
    BY <2>1, HandsShape, HolderFacts
  <2>5. Hands'
    BY <2>1, <2>3, <2>4, HandsOfCapture, HolderFacts
  <2> QED BY <2>1, <2>2, <2>5 DEF Frames
<1>3. CASE WaitCaptureFrame(k)
  <2>1. /\ previewFrames' = previewFrames /\ lost' = lost /\ leased' = leased
        /\ pc[Cap(k)] \in {"wait", "woken"}
    BY <1>3 DEF WaitCaptureFrame, At
  <2>2. hand[Cap(k)] = NoFrame
    BY <2>1 DEF Frames, Hands
  <2>3. CASE hand' = hand /\ (Goto(Cap(k), "waiting") \/ Goto(Cap(k), "inner"))
    <3>1. UNCHANGED frames /\ "waiting" \in CapPC /\ "inner" \in CapPC
      BY <2>1, <2>3 DEF frames, CapPC
    <3> QED BY <2>1, <2>3, <3>1, FramesKept, ThreadFacts, SetsOfPlaces DEF Moves
  <2>4. CASE /\ hand[Slot] # NoFrame /\ Goto(Cap(k), "callback")
             /\ hand' = [hand EXCEPT ![Cap(k)] = hand[Slot], ![Slot] = NoFrame]
    <3>1. Accounted(hand', previewFrames', leased', lost')
      BY <2>1, <2>2, <2>4, AccMove, HolderFacts DEF Frames
    <3>2. /\ hand'[Cap(k)] # NoFrame
          /\ \A h \in Holder \ {Cap(k), Slot} : hand'[h] = hand[h]
      BY <2>4, HandsShape, HolderFacts
    <3>3. Hands'
      BY <2>4, <3>2, HandsOfCapture DEF Moves, CapPC
    <3> QED BY <2>1, <3>1, <3>3 DEF Frames
  <2> QED BY <1>3, <2>3, <2>4 DEF WaitCaptureFrame, TakeCaptureFrame
<1>4. CASE ConvertForCallback(k)
  <2>1. previewFrames' = previewFrames /\ lost' = lost /\ pc[Cap(k)] = "callback"
    BY <1>4 DEF ConvertForCallback, At
  <2>2. hand[Cap(k)] # NoFrame
    BY <2>1 DEF Frames, Hands
  <2>3. CASE hand' = hand /\ leased' = leased /\ Goto(Cap(k), "call")
    BY <2>1, <2>3, FramesKept, ThreadFacts DEF frames, Moves, PC
  <2>4. CASE \E f \in Frame \ leased :
               /\ leased' = (leased \cup {f}) \ {hand[Cap(k)]}
               /\ hand' = [hand EXCEPT ![Cap(k)] = f] /\ Goto(Cap(k), "call")
    <3> DEFINE emptied == [hand EXCEPT ![Cap(k)] = NoFrame]
    <3>1. PICK f \in Frame \ leased : /\ leased' = (leased \cup {f}) \ {hand[Cap(k)]}
                                      /\ hand' = [hand EXCEPT ![Cap(k)] = f]
      BY <2>4
    <3>2. Accounted(emptied, previewFrames, leased \ {hand[Cap(k)]}, lost)
      BY AccDrop, HolderFacts DEF Frames
    <3>3. emptied \in [Holder -> Frame \cup {NoFrame}] /\ emptied[Cap(k)] = NoFrame
      BY HandsShape, HolderFacts
    <3>4. f \in Frame \ (leased \ {hand[Cap(k)]})
      BY <3>1
    <3>5. Accounted([emptied EXCEPT ![Cap(k)] = f], previewFrames,
                    (leased \ {hand[Cap(k)]}) \cup {f}, lost)
      BY <3>2, <3>3, <3>4, AccTake, HolderFacts
    <3>6. hand' = [emptied EXCEPT ![Cap(k)] = f]
      BY <3>1, HandsShape, HolderFacts
    <3>7. hand[Cap(k)] \in leased
      BY <2>2, HolderFacts DEF Frames, Accounted
    <3>8. leased' = (leased \ {hand[Cap(k)]}) \cup {f}
      BY <3>1, <3>7
    <3>9. Accounted(hand', previewFrames', leased', lost')
      BY <2>1, <3>5, <3>6, <3>8
    <3>10. /\ hand'[Cap(k)] # NoFrame
           /\ \A h \in Holder \ {Cap(k)} : hand'[h] = hand[h]
      BY <3>1, HandsShape, HolderFacts, FrameAssumption
    <3>11. Hands'
      BY <2>4, <3>10, HandsOfCapture DEF Moves, CapPC
    <3> QED BY <2>1, <3>9, <3>11 DEF Frames
  <2>5. CASE /\ leased' = leased \ {hand[Cap(k)]} /\ hand' = [hand EXCEPT ![Cap(k)] = NoFrame]
             /\ Goto(Cap(k), "inner")
    <3>1. Accounted(hand', previewFrames', leased', lost')
      BY <2>1, <2>5, AccDrop, HolderFacts DEF Frames
    <3>2. /\ hand'[Cap(k)] = NoFrame
          /\ \A h \in Holder \ {Cap(k)} : hand'[h] = hand[h]
      BY <2>5, HandsShape, HolderFacts
    <3>3. Hands'
      BY <2>5, <3>2, HandsOfCapture DEF Moves, CapPC
    <3> QED BY <2>1, <3>1, <3>3 DEF Frames
  <2> QED BY <1>4, <2>3, <2>4, <2>5 DEF ConvertForCallback, Get, Recycle
<1>5. CASE CallbackReturns(k)
  <2>1. /\ previewFrames' = previewFrames /\ lost' = lost /\ leased' = leased \ {hand[Cap(k)]}
        /\ hand' = [hand EXCEPT ![Cap(k)] = NoFrame]
        /\ Moves(Cap(k), "inner") /\ "inner" \in CapPC
    BY <1>5 DEF CallbackReturns, Recycle, Moves, CapPC
  <2>2. Accounted(hand', previewFrames', leased', lost')
    BY <2>1, AccDrop, HolderFacts DEF Frames
  <2>3. /\ hand'[Cap(k)] = NoFrame
        /\ \A h \in Holder \ {Cap(k)} : hand'[h] = hand[h]
    BY <2>1, HandsShape, HolderFacts
  <2>4. Hands'
    BY <2>1, <2>3, HandsOfCapture
  <2> QED BY <2>1, <2>2, <2>4 DEF Frames
<1> QED BY <1>1, <1>2, <1>3, <1>4, <1>5 DEF CaptureNext

\* A step of the control thread or of the setter, with the hand it leaves
LEMMA HandsOfOthers ==
  ASSUME Places, Frames, NEW t \in {Ctl, Cli}, NEW to \in PC, Moves(t, to),
         \A h \in Holder \ {Slot} : hand'[h] = hand[h]
  PROVE  Hands'
  BY HandsMoved, HolderFacts, ThreadFacts DEF Frames

LEMMA FramesControl ==
  ASSUME Places, Frames, ControlNext, pc[Ctl] = "create" => pc[Prv] \in {"none", "ended"}
  PROVE  Frames'
<1>1. CASE SetPreviewDisplay
  BY <1>1 DEF SetPreviewDisplay, Frames, Hands, frames
<1>2. CASE /\ UNCHANGED frames
           /\ \E to \in CtlPC : Moves(Ctl, to)
  BY <1>2, FramesKept, ThreadFacts, SetsOfPlaces
<1>3. CASE StartPreview \/ StopPreview \/ StopSignals \/ JoinCapture \/ JoinPreview \/ ReleaseWindow
  <2>1. StopNext \/ StartPreview \/ StopPreview
    BY <1>3 DEF StopNext
  <2>2. UNCHANGED frames
    BY <1>3 DEF StartPreview, StopPreview, StopSignals, JoinCapture, JoinPreview, ReleaseWindow
  <2> QED BY <1>2, <2>1, <2>2, StopMoves
<1>4. CASE CreatePreview
  <2>1. UNCHANGED frames
    BY <1>4 DEF CreatePreview
  <2>2. CASE PreviewSignalled(Ctl, "idle")
    BY <1>2, <2>1, <2>2 DEF Moves, CtlPC
  <2>3. CASE pc' = [pc EXCEPT ![Ctl] = "idle", ![Prv] = "prepare"]
    <3>1. /\ pc'[Prv] = "prepare" /\ pc[Prv] \in {"none", "ended"}
          /\ \A t \in Thread \ {Ctl, Prv} : pc'[t] = pc[t]
      BY <1>4, <2>3, ThreadFacts DEF Places, CreatePreview, At
    <3>2. hand' = hand /\ previewFrames' = previewFrames /\ leased' = leased /\ lost' = lost
      BY <2>1 DEF frames
    <3>3. hand'[Usb] # NoFrame <=> pc'[Usb] = "copied"
      BY <3>1, <3>2, ThreadFacts DEF Frames, Hands
    <3>4. hand'[Raw] # NoFrame <=> pc'[Prv] \in {"convert", "add"}
      BY <3>1, <3>2 DEF Frames, Hands
    <3>5. hand'[Rgb] # NoFrame <=> pc'[Prv] = "add"
      BY <3>1, <3>2 DEF Frames, Hands
    <3>6. \A k \in Capture : pc'[Cap(k)] = pc[Cap(k)]
      BY <3>1, ThreadFacts
    <3>7. \A k \in Capture :
            hand'[Cap(k)] # NoFrame <=> pc'[Cap(k)] \in {"callback", "call", "calling"}
      BY <3>2, <3>6 DEF Frames, Hands
    <3>8. Hands'
      BY <3>3, <3>4, <3>5, <3>7 DEF Hands
    <3> QED BY <3>2, <3>8 DEF Frames
  <2> QED BY <1>4, <2>2, <2>3 DEF CreatePreview
<1>5. CASE StopClears
  <2>1. lost' = lost /\ (\E to \in CtlPC : Goto(Ctl, to))
    BY <1>5 DEF StopClears, CtlPC
  <2>2. CASE leased' = leased \ Queued /\ previewFrames' = << >> /\ hand' = hand
    <3>1. Accounted(hand', previewFrames', leased', lost')
      BY <2>1, <2>2, AccClear DEF Frames, Queued
    <3>2. Hands'
      BY <2>1, <2>2, HandsOfOthers, SetsOfPlaces DEF Moves
    <3> QED BY <2>2, <3>1, <3>2, LimitAssumption DEF Frames
  <2>3. CASE /\ leased' = leased \ {hand[Slot]} /\ hand' = [hand EXCEPT ![Slot] = NoFrame]
             /\ previewFrames' = previewFrames
    <3>1. Accounted(hand', previewFrames', leased', lost')
      BY <2>1, <2>3, AccDrop, HolderFacts DEF Frames
    <3>2. \A h \in Holder \ {Slot} : hand'[h] = hand[h]
      BY <2>3, HandsShape, HolderFacts
    <3>3. Hands'
      BY <2>1, <3>2, HandsOfOthers, SetsOfPlaces DEF Moves
    <3> QED BY <2>3, <3>1, <3>3 DEF Frames
  <2> QED BY <1>5, <2>2, <2>3 DEF StopClears, ClearPreviewFrame, ClearCaptureFrame, Recycle
<1> QED BY <1>1, <1>3, <1>4, <1>5 DEF ControlNext, StopNext

LEMMA FramesNext ==
  ASSUME Places, Frames, Course, Next PROVE Frames'
<1>1. CASE PreviewNext
  <2>1. CASE SpawnCapture
    <3>1. /\ UNCHANGED frames /\ pc[Prv] = "spawn"
          /\ pc' = [pc EXCEPT ![Prv] = "loop", ![Cap(starts)] = "clear"]
      BY <2>1 DEF SpawnCapture, At
    <3>2. starts \in Capture /\ pc[Cap(starts)] = "none"
      BY <3>1, LimitAssumption DEF Course, Capture
    <3>3. /\ pc'[Prv] = "loop" /\ pc'[Cap(starts)] = "clear"
          /\ \A t \in Thread \ {Prv, Cap(starts)} : pc'[t] = pc[t]
      BY <3>1, <3>2, ThreadFacts DEF Places
    <3>4. hand' = hand /\ previewFrames' = previewFrames /\ leased' = leased /\ lost' = lost
      BY <3>1 DEF frames
    <3>5. hand'[Usb] # NoFrame <=> pc'[Usb] = "copied"
      BY <3>2, <3>3, <3>4, ThreadFacts DEF Frames, Hands
    <3>6. hand'[Raw] # NoFrame <=> pc'[Prv] \in {"convert", "add"}
      BY <3>1, <3>3, <3>4 DEF Frames, Hands
    <3>7. hand'[Rgb] # NoFrame <=> pc'[Prv] = "add"
      BY <3>1, <3>3, <3>4 DEF Frames, Hands
    <3>8. \A k \in Capture : k # starts => pc'[Cap(k)] = pc[Cap(k)]
      BY <3>2, <3>3, ThreadFacts
    <3>9. hand[Cap(starts)] = NoFrame
      BY <3>2 DEF Frames, Hands
    <3>10. \A k \in Capture :
             hand'[Cap(k)] # NoFrame <=> pc'[Cap(k)] \in {"callback", "call", "calling"}
      <4> SUFFICES ASSUME NEW k \in Capture
          PROVE hand'[Cap(k)] # NoFrame <=> pc'[Cap(k)] \in {"callback", "call", "calling"}
        OBVIOUS
      <4>1. CASE k = starts
        BY <4>1, <3>3, <3>4, <3>9
      <4>2. CASE k # starts
        BY <4>2, <3>4, <3>8 DEF Frames, Hands
      <4> QED BY <4>1, <4>2
    <3>11. Hands'
      BY <3>5, <3>6, <3>7, <3>10 DEF Hands
    <3> QED BY <3>4, <3>11 DEF Frames
  <2> QED BY <1>1, <2>1, FramesPreview
<1>2. CASE SetterNext \/ SetterCall
  <2>1. UNCHANGED frames
    BY <1>2 DEF SetterNext, SetterCall, SetterEnters, SetterInterrupts, SetterWaits,
         SetterWakes, ForgetMethod, ReplaceCallback, FindMethod, ResumeCapture
  <2> QED BY <1>2, <2>1, SetterMoves, FramesKept, ThreadFacts, SetsOfPlaces
<1>3. CASE \E t \in Thread : SpuriousWakeup(t)
  <2>1. PICK t \in Thread : SpuriousWakeup(t)
    BY <1>3
  <2>2. UNCHANGED frames /\ pc[t] = "waiting" /\ Moves(t, "woken") /\ "woken" \in PC
    BY <2>1, SpuriousMoves DEF SpuriousWakeup, PC
  <2>3. t # Usb
    BY <2>2 DEF Places, UsbPC
  <2> QED BY <2>2, <2>3, FramesKept
<1>4. CASE ControlNext
  BY <1>4, FramesControl DEF Course
<1> QED BY <1>1, <1>2, <1>3, <1>4, FramesUsb, FramesCapture DEF Next

LEMMA FramesInit == Init => Frames
<1> SUFFICES ASSUME Init PROVE Frames
  OBVIOUS
<1>1. /\ hand = [h \in Holder |-> NoFrame] /\ previewFrames = << >> /\ leased = {} /\ lost = {}
      /\ pc = [t \in Thread |-> IF t \in {Ctl, Cli, Usb} THEN "idle" ELSE "none"]
  BY DEF Init
<1>2. Accounted(hand, previewFrames, leased, lost)
  BY <1>1 DEF Accounted
<1>3. pc[Usb] = "idle" /\ pc[Prv] = "none"
  BY <1>1, ThreadFacts
<1>4. \A k \in Capture : pc[Cap(k)] = "none"
  BY <1>1, ThreadFacts
<1>5. \A h \in Holder : hand[h] = NoFrame
  BY <1>1
<1>6. Hands
  BY <1>3, <1>4, <1>5, HolderFacts DEF Hands
<1> QED BY <1>1, <1>2, <1>6, LimitAssumption DEF Frames

-----------------------------------------------------------------------------
(* The course of a preview *)

LEMMA OthersStay ==
  ASSUME Places, NEW t \in Thread, NEW to \in PC, Moves(t, to)
  PROVE  /\ pc'[t] = to
         /\ t # Ctl => pc'[Ctl] = pc[Ctl]
         /\ t # Usb => pc'[Usb] = pc[Usb]
         /\ t # Prv => pc'[Prv] = pc[Prv] \/ (pc[Prv] = "waiting" /\ pc'[Prv] = "woken")
         /\ \A k \in Capture : t # Cap(k) => (pc'[Cap(k)] = "none" <=> pc[Cap(k)] = "none")
<1>1. /\ pc'[t] = to
      /\ \A u \in Thread \ {t} : pc'[u] = pc[u] \/ (pc[u] = "waiting" /\ pc'[u] = "woken")
  BY MovesFacts DEF Places
<1>2. pc[Ctl] # "waiting" /\ pc[Usb] # "waiting"
  BY DEF Places, CtlPC, UsbPC
<1>3. \A k \in Capture : t # Cap(k) => (pc'[Cap(k)] = "none" <=> pc[Cap(k)] = "none")
  BY <1>1, ThreadFacts
<1> QED BY <1>1, <1>2, <1>3, ThreadFacts

\* A step of the camera, a capture thread or the setter
LEMMA CourseOfOthers ==
  ASSUME Places, Course, UNCHANGED <<mIsRunning, starts, stream>>,
         NEW t \in Thread \ {Ctl, Prv}, NEW to \in PC, Moves(t, to),
         t = Usb /\ to = "copied" => stream # "closed",
         \A k \in Capture : t = Cap(k) => to # "none" /\ pc[Cap(k)] # "none"
  PROVE  Course'
<1>1. /\ pc'[Ctl] = pc[Ctl]
      /\ pc'[Prv] = pc[Prv] \/ (pc[Prv] = "waiting" /\ pc'[Prv] = "woken")
      /\ \A k \in Capture : pc'[Cap(k)] = "none" <=> pc[Cap(k)] = "none"
      /\ pc'[Usb] = pc[Usb] \/ (pc'[Usb] = to /\ t = Usb)
  BY OthersStay
<1>2. mIsRunning' = mIsRunning /\ starts' = starts /\ stream' = stream
  OBVIOUS
<1>3. pc'[Prv] \in Streaming <=> pc[Prv] \in Streaming
  BY <1>1 DEF Streaming
<1>4. pc'[Usb] = "copied" => stream' # "closed"
  BY <1>1, <1>2 DEF Course
<1>5. \A k \in Capture : k > starts' => pc'[Cap(k)] = "none"
  BY <1>1, <1>2 DEF Course
<1>6. pc'[Prv] \in {"prepare", "stream", "clear", "spawn"} =>
        \A k \in Capture : k = starts' => pc'[Cap(k)] = "none"
  BY <1>1, <1>2 DEF Course
<1>7. /\ pc'[Ctl] = "create" => pc'[Prv] \in {"none", "ended"}
      /\ pc'[Prv] \notin {"none", "ended"} => mIsRunning' \/ pc'[Ctl] \in Stopping
      /\ pc'[Prv] # "none" => starts' >= 1
      /\ stream' = "stopping" <=> pc'[Prv] = "stopping"
  BY <1>1, <1>2 DEF Course
<1> QED BY <1>1, <1>2, <1>3, <1>4, <1>5, <1>6, <1>7 DEF Course

\* A step of the preview thread
LEMMA CourseOfPreview ==
  ASSUME Places, Course, UNCHANGED <<mIsRunning, starts>>,
         NEW to \in PrvPC \ {"none"}, Moves(Prv, to), pc[Prv] \notin {"none", "ended"},
         stream' \in {"closed", "open", "stopping"},
         stream' = "open" <=> to \in Streaming,
         stream' = "stopping" <=> to = "stopping",
         pc[Usb] = "copied" => stream' # "closed",
         to \in {"prepare", "stream", "clear", "spawn"} =>
           pc[Prv] \in {"prepare", "stream", "clear", "spawn"}
  PROVE  Course'
<1>1. /\ pc'[Prv] = to /\ pc'[Ctl] = pc[Ctl] /\ pc'[Usb] = pc[Usb]
      /\ \A k \in Capture : pc'[Cap(k)] = "none" <=> pc[Cap(k)] = "none"
  BY OthersStay, ThreadFacts, SetsOfPlaces
<1>2. mIsRunning' = mIsRunning /\ starts' = starts
  OBVIOUS
<1>3. \A k \in Capture : k > starts' => pc'[Cap(k)] = "none"
  BY <1>1, <1>2 DEF Course
<1>4. pc'[Prv] \in {"prepare", "stream", "clear", "spawn"} =>
        \A k \in Capture : k = starts' => pc'[Cap(k)] = "none"
  BY <1>1, <1>2 DEF Course
<1>5. /\ pc'[Ctl] = "create" => pc'[Prv] \in {"none", "ended"}
      /\ pc'[Prv] \notin {"none", "ended"} => mIsRunning' \/ pc'[Ctl] \in Stopping
      /\ pc'[Prv] # "none" => starts' >= 1
  BY <1>1, <1>2 DEF Course
<1> QED BY <1>1, <1>2, <1>3, <1>4, <1>5 DEF Course

LEMMA CoursePreview ==
  ASSUME Places, Course, PreviewNext PROVE Course'
<1>1. UNCHANGED <<mIsRunning, starts>> /\ pc[Prv] \notin {"none", "ended"}
  BY DEF PreviewNext, PreparePreview, StartStreaming, DiscardOldFrames, SpawnCapture, PreviewLoop,
         WaitPreviewFrame, ConvertFrame, AddCaptureFrame, EndPreview, StopStreaming, At, flags,
         bounds
<1>2. CASE PreparePreview
  <2>1. /\ pc[Prv] = "prepare" /\ stream' = stream
        /\ Moves(Prv, "stream") \/ Moves(Prv, "ended")
    BY <1>2 DEF PreparePreview, At, Moves
  <2>2. stream = "closed"
    BY <2>1 DEF Course, Streaming
  <2> QED BY <1>1, <2>1, <2>2, CourseOfPreview DEF PrvPC, Streaming, Course
<1>3. CASE StartStreaming
  <2>1. /\ pc[Prv] = "stream"
        /\ \/ Moves(Prv, "clear") /\ stream' = "open"
           \/ Moves(Prv, "ended") /\ stream' = stream
    BY <1>3 DEF StartStreaming, Source!Start, At, Moves
  <2>2. stream = "closed"
    BY <2>1 DEF Course, Streaming
  <2> QED BY <1>1, <2>1, <2>2, CourseOfPreview DEF PrvPC, Streaming, Course
<1>4. CASE DiscardOldFrames
  <2>1. pc[Prv] = "clear" /\ stream' = stream /\ Moves(Prv, "spawn")
    BY <1>4 DEF DiscardOldFrames, At, Moves
  <2>2. stream = "open"
    BY <2>1 DEF Course, Streaming
  <2> QED BY <1>1, <2>1, <2>2, CourseOfPreview DEF PrvPC, Streaming, Course
<1>5. CASE SpawnCapture
  <2>1. /\ pc[Prv] = "spawn" /\ stream' = stream
        /\ pc' = [pc EXCEPT ![Prv] = "loop", ![Cap(starts)] = "clear"]
    BY <1>5 DEF SpawnCapture, At
  <2>2. starts \in Capture
    BY <2>1, LimitAssumption DEF Course, Capture
  <2>3. /\ pc'[Prv] = "loop" /\ \A t \in Thread \ {Prv, Cap(starts)} : pc'[t] = pc[t]
    BY <2>1, <2>2, ThreadFacts DEF Places
  <2>4. /\ pc'[Ctl] = pc[Ctl] /\ pc'[Usb] = pc[Usb]
        /\ \A k \in Capture : k # starts => pc'[Cap(k)] = pc[Cap(k)]
    BY <2>2, <2>3, ThreadFacts
  <2>5. \A k \in Capture : k > starts' => pc'[Cap(k)] = "none"
    <3>1. \A k \in Capture : k > starts => k # starts
      BY LimitAssumption DEF Capture, Course
    <3> QED BY <1>1, <2>4, <3>1 DEF Course
  <2>6. stream = "open" /\ mIsRunning' = mIsRunning /\ starts' = starts
    BY <1>1, <2>1 DEF Course, Streaming
  <2>7. /\ pc[Ctl] # "create" /\ (mIsRunning \/ pc[Ctl] \in Stopping) /\ starts >= 1
    BY <2>1 DEF Course
  <2> QED BY <2>1, <2>3, <2>4, <2>5, <2>6, <2>7 DEF Course, Streaming
<1>6. CASE PreviewLoop \/ WaitPreviewFrame \/ ConvertFrame \/ AddCaptureFrame \/ EndPreview
  <2>1. /\ pc[Prv] \in Streaming /\ stream' = stream
        /\ \E to \in Streaming \ {"clear", "spawn"} : Moves(Prv, to)
    BY <1>6 DEF PreviewLoop, WaitPreviewFrame, TakePreviewFrame, ConvertFrame, AddCaptureFrame,
                EndPreview, At, Moves, Streaming
  <2>2. PICK to \in Streaming \ {"clear", "spawn"} : Moves(Prv, to)
    BY <2>1
  <2>3. to \in PrvPC \ {"none"} /\ to \notin {"prepare", "stream", "clear", "spawn", "stopping"}
    BY <2>2 DEF Streaming, PrvPC
  <2>4. stream = "open"
    BY <2>1 DEF Course
  <2> QED BY <1>1, <2>1, <2>2, <2>3, <2>4, CourseOfPreview
<1>7. CASE StopStreaming
  <2>1. CASE pc[Prv] = "unstream" /\ Goto(Prv, "stopping") /\ Source!Stop
    BY <1>1, <2>1, CourseOfPreview DEF Source!Stop, PrvPC, Streaming, Moves
  <2>2. CASE Goto(Prv, "ended") /\ Source!Stopped
    BY <1>1, <2>2, CourseOfPreview DEF Source!Stopped, PrvPC, Streaming, Moves
  <2> QED BY <1>7, <2>1, <2>2 DEF StopStreaming, At
<1> QED BY <1>2, <1>3, <1>4, <1>5, <1>6, <1>7 DEF PreviewNext

\* A step of the control thread that starts nothing
LEMMA CourseOfControl ==
  ASSUME Places, Course, NEW to \in CtlPC, Moves(Ctl, to), UNCHANGED <<starts, stream>>,
         to = "create" => mIsRunning' /\ starts < MaxStarts /\ pc[Prv] \in {"none", "ended"},
         to \in Stopping \cup {"clear", "clearSlot", "release"} => ~mIsRunning',
         pc[Prv] \notin {"none", "ended"} => mIsRunning' \/ to \in Stopping
  PROVE  Course'
<1>1. /\ pc'[Ctl] = to /\ pc'[Usb] = pc[Usb]
      /\ pc'[Prv] = pc[Prv] \/ (pc[Prv] = "waiting" /\ pc'[Prv] = "woken")
      /\ \A k \in Capture : pc'[Cap(k)] = "none" <=> pc[Cap(k)] = "none"
  BY OthersStay, ThreadFacts, SetsOfPlaces
<1>2. starts' = starts /\ stream' = stream
  OBVIOUS
<1>3. pc'[Prv] \in Streaming <=> pc[Prv] \in Streaming
  BY <1>1 DEF Streaming
<1>4. \A k \in Capture : k > starts' => pc'[Cap(k)] = "none"
  BY <1>1, <1>2 DEF Course
<1>5. pc'[Prv] \in {"prepare", "stream", "clear", "spawn"} =>
        \A k \in Capture : k = starts' => pc'[Cap(k)] = "none"
  BY <1>1, <1>2 DEF Course
<1>6. /\ pc'[Ctl] = "create" => pc'[Prv] \in {"none", "ended"}
      /\ pc'[Prv] \notin {"none", "ended"} => mIsRunning' \/ pc'[Ctl] \in Stopping
      /\ pc'[Prv] # "none" => starts' >= 1
      /\ stream' = "stopping" <=> pc'[Prv] = "stopping"
      /\ pc'[Usb] = "copied" => stream' # "closed"
  BY <1>1, <1>2 DEF Course
<1> QED BY <1>1, <1>2, <1>3, <1>4, <1>5, <1>6 DEF Course

LEMMA CourseControl ==
  ASSUME Places, Values, Course, ControlNext PROVE Course'
<1>1. CASE SetPreviewDisplay
  BY <1>1 DEF SetPreviewDisplay, Course, flags, bounds
<1>2. CASE StartPreview
  <2>1. /\ pc[Ctl] = "idle" /\ ~mIsRunning /\ mIsRunning' = TRUE /\ starts < MaxStarts
        /\ Moves(Ctl, "create") /\ UNCHANGED <<starts, stream>>
    BY <1>2 DEF StartPreview, At, Moves, bounds
  <2>2. pc[Prv] \in {"none", "ended"}
    BY <2>1 DEF Course, Stopping
  <2> QED BY <2>1, <2>2, CourseOfControl DEF CtlPC, Stopping
<1>3. CASE CreatePreview
  <2>1. /\ pc[Ctl] = "create" /\ stream' = stream
        /\ mIsRunning /\ starts < MaxStarts /\ pc[Prv] \in {"none", "ended"}
    BY <1>3 DEF CreatePreview, At, Course
  <2>2. CASE mIsRunning' = FALSE /\ PreviewSignalled(Ctl, "idle") /\ starts' = starts
    BY <2>1, <2>2, CourseOfControl DEF Moves, CtlPC, Stopping
  <2>3. CASE /\ starts' = starts + 1 /\ mIsRunning' = mIsRunning
             /\ pc' = [pc EXCEPT ![Ctl] = "idle", ![Prv] = "prepare"]
    <3>1. /\ pc'[Ctl] = "idle" /\ pc'[Prv] = "prepare" /\ pc'[Usb] = pc[Usb]
          /\ \A k \in Capture : pc'[Cap(k)] = pc[Cap(k)]
      BY <2>3, ThreadFacts DEF Places
    <3>2. starts' \in 0 .. MaxStarts /\ starts' >= 1
      BY <2>1, <2>3, LimitAssumption DEF Course
    <3>3. \A k \in Capture : k >= starts' => k > starts
      BY <2>3, LimitAssumption DEF Capture, Course
    <3>4. \A k \in Capture : k >= starts' => pc'[Cap(k)] = "none"
      BY <3>1, <3>3 DEF Course
    <3>5. \A k \in Capture : (k > starts' => k >= starts') /\ (k = starts' => k >= starts')
      BY <3>2, LimitAssumption DEF Capture
    <3>6. stream = "closed" /\ pc[Usb] # "copied"
      BY <2>1 DEF Course, Streaming
    <3>7. mIsRunning'
      BY <2>1, <2>3
    <3> QED BY <2>1, <3>1, <3>2, <3>4, <3>5, <3>6, <3>7 DEF Course, Streaming, Stopping
  <2> QED BY <1>3, <2>2, <2>3 DEF CreatePreview
<1>4. CASE StopPreview
  <2>1. /\ pc[Ctl] = "idle" /\ mIsRunning' = FALSE /\ UNCHANGED <<starts, stream>>
    BY <1>4 DEF StopPreview, At, bounds
  <2>2. CASE mIsRunning /\ Moves(Ctl, "signalPreview")
    BY <2>1, <2>2, CourseOfControl DEF CtlPC, Stopping
  <2>3. CASE ~mIsRunning /\ Moves(Ctl, "clear")
    <3>1. pc[Prv] \in {"none", "ended"}
      BY <2>1, <2>3 DEF Course, Stopping
    <3> QED BY <2>1, <2>3, <3>1, CourseOfControl DEF CtlPC, Stopping
  <2> QED BY <1>4, <2>2, <2>3 DEF StopPreview, Moves
<1>5. CASE StopNext
  <2>1. mIsRunning' = mIsRunning /\ UNCHANGED <<starts, stream>>
    BY <1>5 DEF StopNext, StopSignals, JoinCapture, JoinPreview, StopClears, ReleaseWindow, flags,
                bounds
  <2>2. CASE StopSignals \/ JoinCapture
    <3>1. /\ pc[Ctl] \in Stopping
          /\ \E to \in {"signalCapture", "joinCapture", "joinPreview"} : Moves(Ctl, to)
      BY <2>2 DEF StopSignals, JoinCapture, At, Moves, Stopping
    <3>2. ~mIsRunning
      BY <3>1 DEF Course
    <3>3. \A to \in {"signalCapture", "joinCapture", "joinPreview"} : to \in CtlPC /\ to \in Stopping
      BY DEF CtlPC, Stopping
    <3> QED BY <2>1, <3>1, <3>2, <3>3, CourseOfControl DEF Stopping
  <2>3. CASE JoinPreview
    <3>1. pc[Ctl] = "joinPreview" /\ pc[Prv] = "ended" /\ Moves(Ctl, "clear")
      BY <2>3 DEF JoinPreview, PreviewJoined, At, Moves
    <3>2. ~mIsRunning
      BY <3>1 DEF Course, Stopping
    <3> QED BY <2>1, <3>1, <3>2, CourseOfControl DEF CtlPC, Stopping
  <2>4. CASE StopClears \/ ReleaseWindow
    <3>1. /\ pc[Ctl] \in {"clear", "clearSlot", "release"}
          /\ \E to \in {"clearSlot", "release", "idle"} : Moves(Ctl, to)
      BY <2>4 DEF StopClears, ReleaseWindow, At, Moves
    <3>2. ~mIsRunning /\ pc[Prv] \in {"none", "ended"}
      BY <3>1 DEF Course, Stopping
    <3>3. \A to \in {"clearSlot", "release", "idle"} : to \in CtlPC /\ to # "create"
      BY DEF CtlPC
    <3> QED BY <2>1, <3>1, <3>2, <3>3, CourseOfControl
  <2> QED BY <1>5, <2>2, <2>3, <2>4 DEF StopNext
<1> QED BY <1>1, <1>2, <1>3, <1>4, <1>5 DEF ControlNext

LEMMA CourseNext ==
  ASSUME Places, Values, Course, Next PROVE Course'
<1>1. CASE UsbNext
  <2>1. UNCHANGED <<mIsRunning, starts, stream>>
    BY <1>1 DEF UsbNext, CopyFrame, AddPreviewFrame, Source!Call, flags, bounds
  <2>2. CASE CopyFrame
    BY <2>1, <2>2, CourseOfOthers, ThreadFacts DEF CopyFrame, Source!Call, Moves, PC
  <2>3. CASE AddPreviewFrame
    BY <2>1, <2>3, CourseOfOthers, ThreadFacts DEF AddPreviewFrame, Moves, PC
  <2> QED BY <1>1, <2>2, <2>3 DEF UsbNext
<1>2. CASE \E k \in Capture : CaptureNext(k)
  <2>1. PICK k \in Capture : CaptureNext(k)
    BY <1>2
  <2>2. UNCHANGED <<mIsRunning, starts, stream>> /\ pc[Cap(k)] # "none"
    BY <2>1 DEF CaptureNext, BeginCapture, CaptureLoop, CaptureInner, CaptureBroadcast,
                WaitCaptureFrame, ConvertForCallback, CallCallback, CallbackReturns, At, flags, bounds
  <2>3. PICK to \in CapPC \ {"none"} : Moves(Cap(k), to)
    BY <2>1, CaptureMoves
  <2>4. Cap(k) \in Thread \ {Ctl, Prv} /\ Cap(k) # Usb
    BY ThreadFacts
  <2>5. \A j \in Capture : Cap(k) = Cap(j) => to # "none" /\ pc[Cap(j)] # "none"
    BY <2>2, <2>3
  <2> QED BY <2>2, <2>3, <2>4, <2>5, CourseOfOthers, SetsOfPlaces
<1>3. CASE SetterNext \/ SetterCall
  <2>1. UNCHANGED <<mIsRunning, starts, stream>>
    BY <1>3 DEF SetterNext, SetterCall, SetterEnters, SetterInterrupts, SetterWaits,
         SetterWakes, ForgetMethod, ReplaceCallback, FindMethod, ResumeCapture, flags, bounds
  <2>2. Cli \in Thread \ {Ctl, Prv} /\ Cli # Usb /\ \A k \in Capture : Cli # Cap(k)
    BY ThreadFacts
  <2> QED BY <1>3, <2>1, <2>2, SetterMoves, CourseOfOthers, SetsOfPlaces
<1>4. CASE \E t \in Thread : SpuriousWakeup(t)
  <2>1. PICK t \in Thread : SpuriousWakeup(t)
    BY <1>4
  <2>2. /\ pc[t] = "waiting" /\ Moves(t, "woken") /\ "woken" \in PC
        /\ UNCHANGED <<mIsRunning, starts, stream>>
    BY <2>1, SpuriousMoves DEF SpuriousWakeup, PC, flags, bounds
  <2>3. t # Ctl
    BY <2>2 DEF Places, CtlPC
  <2>4. CASE t = Prv
    BY <2>2, <2>4, CourseOfPreview DEF Course, PrvPC, Streaming
  <2>5. CASE t # Prv
    BY <2>2, <2>3, <2>5, CourseOfOthers
  <2> QED BY <2>4, <2>5
<1> QED BY <1>1, <1>2, <1>3, <1>4, CoursePreview, CourseControl DEF Next

LEMMA CourseInit == Init => Course
<1> SUFFICES ASSUME Init PROVE Course
  OBVIOUS
<1>1. pc = [t \in Thread |-> IF t \in {Ctl, Cli, Usb} THEN "idle" ELSE "none"]
  BY DEF Init
<1>2. /\ pc[Ctl] = "idle" /\ pc[Prv] = "none" /\ pc[Usb] = "idle"
      /\ \A k \in Capture : pc[Cap(k)] = "none"
  BY <1>1, ThreadFacts
<1>3. starts = 0 /\ stream = "closed" /\ starts \in 0 .. MaxStarts
  BY LimitAssumption DEF Init
<1> QED BY <1>2, <1>3 DEF Course, Streaming, Stopping

-----------------------------------------------------------------------------
(* What has been cleared *)

\* A step that leaves the control thread where it is fills the queue or the
\* slot only while the preview runs.
LEMMA ClearedOfOthers ==
  ASSUME Course, Cleared, pc'[Ctl] = pc[Ctl], mIsRunning' = mIsRunning,
         \/ previewFrames' \in {previewFrames, << >>}
         \/ previewFrames # << >>
         \/ mIsRunning /\ pc[Ctl] # "create",
         \/ hand'[Slot] \in {hand[Slot], NoFrame}
         \/ mIsRunning /\ pc[Ctl] # "create"
  PROVE  Cleared'
<1>1. pc[Ctl] \in {"clearSlot", "release"} => ~mIsRunning
  BY DEF Course
<1>2. \/ pc'[Ctl] \in {"clearSlot", "release", "create"}
      \/ pc'[Ctl] = "idle" /\ ~mIsRunning'
      => previewFrames' = << >>
  BY <1>1 DEF Cleared
<1>3. \/ pc'[Ctl] \in {"release", "create"}
      \/ pc'[Ctl] = "idle" /\ ~mIsRunning'
      => hand'[Slot] = NoFrame
  BY <1>1 DEF Cleared
<1> QED BY <1>2, <1>3 DEF Cleared

LEMMA ClearedUsb ==
  ASSUME Places, Frames, Course, Cleared, UsbNext PROVE Cleared'
<1>1. pc'[Ctl] = pc[Ctl]
  BY UsbMoves, OthersStay, ThreadFacts, SetsOfPlaces
<1>2. mIsRunning' = mIsRunning
  BY DEF UsbNext, CopyFrame, AddPreviewFrame, flags
<1>3. hand'[Slot] = hand[Slot]
  BY HandsShape, HolderFacts DEF UsbNext, CopyFrame, AddPreviewFrame
<1>4. CASE CopyFrame
  BY <1>1, <1>2, <1>3, <1>4, ClearedOfOthers DEF CopyFrame
<1>5. CASE AddPreviewFrame
  <2>1. pc[Ctl] # "create"
    BY <1>5 DEF AddPreviewFrame, At, Course, Streaming
  <2>2. previewFrames' = previewFrames \/ mIsRunning
    BY <1>5 DEF AddPreviewFrame
  <2> QED BY <1>1, <1>2, <1>3, <2>1, <2>2, ClearedOfOthers
<1> QED BY <1>4, <1>5 DEF UsbNext

LEMMA ClearedPreview ==
  ASSUME Places, Frames, Course, Cleared, PreviewNext PROVE Cleared'
<1>1. pc'[Ctl] = pc[Ctl]
  <2>1. CASE SpawnCapture
    <3>1. starts \in Capture
      BY <2>1, LimitAssumption DEF SpawnCapture, At, Course, Capture
    <3> QED BY <2>1, <3>1, ThreadFacts DEF SpawnCapture, Places
  <2>2. CASE ~SpawnCapture
    BY <2>2, PreviewMoves, OthersStay, ThreadFacts, SetsOfPlaces
  <2> QED BY <2>1, <2>2
<1>2. mIsRunning' = mIsRunning
  BY DEF PreviewNext, PreparePreview, StartStreaming, DiscardOldFrames, SpawnCapture, PreviewLoop,
         WaitPreviewFrame, ConvertFrame, AddCaptureFrame, EndPreview, StopStreaming, flags
<1>3. previewFrames' \in {previewFrames, << >>} \/ previewFrames # << >>
  BY DEF PreviewNext, PreparePreview, StartStreaming, DiscardOldFrames, SpawnCapture, PreviewLoop,
         WaitPreviewFrame, TakePreviewFrame, ConvertFrame, AddCaptureFrame, EndPreview,
         StopStreaming, ClearPreviewFrame, frames
<1>4. CASE AddCaptureFrame
  <2>1. pc[Ctl] # "create"
    BY <1>4 DEF AddCaptureFrame, At, Course
  <2>2. hand'[Slot] = hand[Slot] \/ mIsRunning
    BY <1>4, HandsShape, HolderFacts DEF AddCaptureFrame, KeepsFrame
  <2> QED BY <1>1, <1>2, <1>3, <2>1, <2>2, ClearedOfOthers
<1>5. CASE ~AddCaptureFrame
  <2>1. \/ hand' = hand
        \/ hand' = [hand EXCEPT ![Raw] = Head(previewFrames)]
        \/ \E f \in Frame : hand' = [hand EXCEPT ![Rgb] = f]
        \/ hand' = [hand EXCEPT ![Raw] = NoFrame]
    BY <1>5
    DEF PreviewNext, PreparePreview, StartStreaming, DiscardOldFrames, SpawnCapture, PreviewLoop,
        WaitPreviewFrame, TakePreviewFrame, ConvertFrame, EndPreview, StopStreaming, frames
  <2>2. hand'[Slot] = hand[Slot]
    BY <2>1, HandsShape, HolderFacts
  <2> QED BY <1>1, <1>2, <1>3, <2>2, ClearedOfOthers
<1> QED BY <1>4, <1>5

LEMMA ClearedCapture ==
  ASSUME Places, Frames, Course, Cleared, NEW k \in Capture, CaptureNext(k) PROVE Cleared'
<1>1. pc'[Ctl] = pc[Ctl]
  BY CaptureMoves, OthersStay, ThreadFacts, SetsOfPlaces
<1>2. mIsRunning' = mIsRunning /\ previewFrames' = previewFrames
  BY DEF CaptureNext, BeginCapture, CaptureLoop, CaptureInner, CaptureBroadcast, WaitCaptureFrame,
         ConvertForCallback, CallCallback, CallbackReturns, flags, frames
<1>3. \/ hand' = hand
      \/ hand' = [hand EXCEPT ![Slot] = NoFrame]
      \/ hand' = [hand EXCEPT ![Cap(k)] = hand[Slot], ![Slot] = NoFrame]
      \/ \E f \in Frame : hand' = [hand EXCEPT ![Cap(k)] = f]
      \/ hand' = [hand EXCEPT ![Cap(k)] = NoFrame]
  BY DEF CaptureNext, BeginCapture, ClearCaptureFrame, CaptureLoop, CaptureInner, CaptureBroadcast,
         WaitCaptureFrame, TakeCaptureFrame, ConvertForCallback, CallCallback, CallbackReturns,
         frames
<1>4. hand'[Slot] \in {hand[Slot], NoFrame}
  BY <1>3, HandsShape, HolderFacts
<1> QED BY <1>1, <1>2, <1>4, ClearedOfOthers

LEMMA ClearedControl ==
  ASSUME Places, Frames, Course, Cleared, ControlNext PROVE Cleared'
<1>1. CASE SetPreviewDisplay
  BY <1>1 DEF SetPreviewDisplay, Cleared, flags, frames
<1>2. CASE StartPreview \/ CreatePreview \/ ReleaseWindow
  <2>1. /\ hand' = hand /\ previewFrames' = previewFrames
        /\ \/ pc[Ctl] = "idle" /\ ~mIsRunning
           \/ pc[Ctl] \in {"create", "release"}
    BY <1>2 DEF StartPreview, CreatePreview, ReleaseWindow, At, frames
  <2> QED BY <2>1 DEF Cleared
<1>3. CASE StopPreview \/ StopSignals \/ JoinCapture \/ JoinPreview
  <2>1. \E to \in {"signalPreview", "clear", "signalCapture", "joinCapture", "joinPreview"} :
          Moves(Ctl, to)
    BY <1>3 DEF StopPreview, StopSignals, JoinCapture, JoinPreview, Moves
  <2>2. pc'[Ctl] \in {"signalPreview", "clear", "signalCapture", "joinCapture", "joinPreview"}
    BY <2>1, OthersStay, ThreadFacts DEF PC
  <2> QED BY <2>2 DEF Cleared
<1>4. CASE StopClears
  <2>1. CASE pc[Ctl] = "clear" /\ previewFrames' = << >> /\ Goto(Ctl, "clearSlot")
    <3>1. pc'[Ctl] = "clearSlot"
      BY <2>1, OthersStay, ThreadFacts DEF PC, Moves
    <3> QED BY <2>1, <3>1 DEF Cleared
  <2>2. CASE /\ pc[Ctl] = "clearSlot" /\ hand' = [hand EXCEPT ![Slot] = NoFrame]
             /\ previewFrames' = previewFrames
    <3>1. hand'[Slot] = NoFrame
      BY <2>2, HandsShape, HolderFacts
    <3> QED BY <2>2, <3>1 DEF Cleared
  <2> QED BY <1>4, <2>1, <2>2 DEF StopClears, ClearPreviewFrame, ClearCaptureFrame, At
<1> QED BY <1>1, <1>2, <1>3, <1>4 DEF ControlNext, StopNext

LEMMA ClearedNext ==
  ASSUME Places, Frames, Course, Cleared, Next PROVE Cleared'
<1>1. CASE SetterNext \/ SetterCall
  <2>1. /\ mIsRunning' = mIsRunning /\ hand' = hand /\ previewFrames' = previewFrames
    BY <1>1 DEF SetterNext, SetterCall, SetterEnters, SetterInterrupts, SetterWaits,
         SetterWakes, ForgetMethod, ReplaceCallback, FindMethod, ResumeCapture, flags, frames
  <2>2. pc'[Ctl] = pc[Ctl]
    BY <1>1, SetterMoves, OthersStay, ThreadFacts, SetsOfPlaces
  <2> QED BY <2>1, <2>2, ClearedOfOthers
<1>2. CASE \E t \in Thread : SpuriousWakeup(t)
  <2>1. PICK t \in Thread : SpuriousWakeup(t)
    BY <1>2
  <2>2. /\ mIsRunning' = mIsRunning /\ hand' = hand /\ previewFrames' = previewFrames
        /\ pc[t] = "waiting" /\ Moves(t, "woken")
    BY <2>1, SpuriousMoves DEF SpuriousWakeup, flags, frames
  <2>3. pc'[Ctl] = pc[Ctl]
    BY <2>2, OthersStay, SetsOfPlaces DEF Places, CtlPC, PC
  <2> QED BY <2>2, <2>3, ClearedOfOthers
<1> QED BY <1>1, <1>2, ClearedUsb, ClearedPreview, ClearedCapture, ClearedControl DEF Next

LEMMA ClearedInit == Init => Cleared
  BY HolderFacts DEF Init, Cleared

-----------------------------------------------------------------------------
(* What has been lost *)

LEMMA LossesKept ==
  ASSUME Losses, lost' = lost, starts' = starts, MayLose' => MayLose PROVE Losses'
  BY DEF Losses

\* The preview thread stays where it is.
LEMMA LossesOfOthers ==
  ASSUME Places, Losses, lost' = lost, starts' = starts, mIsRunning' = mIsRunning,
         NEW t \in Thread \ {Prv}, NEW to \in PC, Moves(t, to)
  PROVE  Losses'
<1>1. pc'[Prv] = pc[Prv] \/ (pc[Prv] = "waiting" /\ pc'[Prv] = "woken")
  BY OthersStay
<1>2. MayLose' => MayLose
  BY <1>1 DEF MayLose
<1> QED BY <1>2, LossesKept

LEMMA LossesPreview ==
  ASSUME Places, Frames, Course, Losses, PreviewNext PROVE Losses'
<1>1. mIsRunning' = mIsRunning /\ starts' = starts
  BY DEF PreviewNext, PreparePreview, StartStreaming, DiscardOldFrames, SpawnCapture, PreviewLoop,
         WaitPreviewFrame, ConvertFrame, AddCaptureFrame, EndPreview, StopStreaming, flags, bounds
<1>2. CASE AddCaptureFrame /\ ~KeepsFrame
  <2>1. /\ pc[Prv] = "add" /\ ~mIsRunning /\ lost' = lost \cup {hand[Rgb]} /\ Goto(Prv, "loop")
    BY <1>2 DEF AddCaptureFrame, KeepsFrame, At
  <2>2. pc'[Prv] = "loop"
    BY <2>1, OthersStay, ThreadFacts DEF Moves, PC
  <2>3. IsFiniteSet(lost) /\ Cardinality(lost) < starts /\ starts \in Nat
    BY <2>1, LimitAssumption DEF Losses, MayLose, Course
  <2>4. /\ IsFiniteSet(lost')
        /\ Cardinality(lost') = Cardinality(lost) \/ Cardinality(lost') = Cardinality(lost) + 1
    BY <2>1, <2>3, FS_AddElement
  <2>5. Cardinality(lost) \in Nat
    BY <2>3, FS_CardinalityType
  <2>6. ~MayLose'
    BY <1>1, <2>1, <2>2 DEF MayLose
  <2> QED BY <1>1, <2>3, <2>4, <2>5, <2>6 DEF Losses
<1>3. CASE ~(AddCaptureFrame /\ ~KeepsFrame)
  <2>1. lost' = lost
    BY <1>3 DEF PreviewNext, PreparePreview, StartStreaming, DiscardOldFrames, SpawnCapture,
                PreviewLoop, WaitPreviewFrame, ConvertFrame, AddCaptureFrame, EndPreview,
                StopStreaming, frames
  <2>2. CASE SpawnCapture
    <3>1. pc[Prv] = "spawn"
      BY <2>2 DEF SpawnCapture, At
    <3> QED BY <1>1, <2>1, <3>1, LossesKept DEF MayLose
  <2>3. CASE EndPreview \/ StopStreaming
    <3>1. \E to \in {"unstream", "stopping", "ended"} : Moves(Prv, to)
      BY <2>3 DEF EndPreview, StopStreaming, Moves
    <3>2. pc'[Prv] \in {"unstream", "stopping", "ended"}
      BY <3>1, OthersStay, ThreadFacts DEF PC
    <3> QED BY <1>1, <2>1, <3>2, LossesKept DEF MayLose
  <2>4. CASE PreviewLoop
    <3>1. pc[Prv] = "loop" /\ Moves(Prv, IF mIsRunning THEN "wait" ELSE "end")
      BY <2>4 DEF PreviewLoop, At, Moves
    <3>2. pc'[Prv] = IF mIsRunning THEN "wait" ELSE "end"
      BY <3>1, OthersStay, ThreadFacts DEF PC
    <3>3. MayLose' => MayLose
      BY <3>1, <3>2 DEF MayLose
    <3> QED BY <1>1, <2>1, <3>3, LossesKept
  <2>5. CASE PreparePreview \/ StartStreaming \/ DiscardOldFrames \/ WaitPreviewFrame
             \/ ConvertFrame \/ AddCaptureFrame
    <3>1. MayLose
      BY <2>5 DEF PreparePreview, StartStreaming, DiscardOldFrames, WaitPreviewFrame, ConvertFrame,
                  AddCaptureFrame, At, MayLose
    <3> QED BY <1>1, <2>1, <3>1, LossesKept
  <2> QED BY <2>2, <2>3, <2>4, <2>5 DEF PreviewNext
<1> QED BY <1>2, <1>3

LEMMA LossesControl ==
  ASSUME Places, Course, Losses, ControlNext PROVE Losses'
<1>1. lost' = lost
  BY DEF ControlNext, SetPreviewDisplay, StartPreview, CreatePreview, StopPreview, StopNext,
         StopSignals, JoinCapture, JoinPreview, StopClears, ReleaseWindow, frames
<1>2. CASE SetPreviewDisplay
  BY <1>1, <1>2, LossesKept DEF SetPreviewDisplay, MayLose, flags, bounds
<1>3. CASE StopNext
  <2>1. mIsRunning' = mIsRunning /\ starts' = starts
    BY <1>3 DEF StopNext, StopSignals, JoinCapture, JoinPreview, StopClears, ReleaseWindow, flags,
                bounds
  <2> QED BY <1>1, <1>3, <2>1, StopMoves, LossesOfOthers, ThreadFacts, SetsOfPlaces
<1>4. CASE StartPreview \/ StopPreview
  <2>1. starts' = starts /\ \E to \in CtlPC : Moves(Ctl, to)
    BY <1>4, StopMoves DEF StartPreview, StopPreview, bounds
  <2>2. pc'[Prv] = pc[Prv] \/ (pc[Prv] = "waiting" /\ pc'[Prv] = "woken")
    BY <2>1, OthersStay, ThreadFacts, SetsOfPlaces
  <2>3. mIsRunning' = FALSE \/ pc[Prv] \in {"none", "ended"}
    BY <1>4 DEF StartPreview, StopPreview, At, Course, Stopping
  <2>4. MayLose' => MayLose
    BY <2>2, <2>3 DEF MayLose
  <2> QED BY <1>1, <2>1, <2>4, LossesKept
<1>5. CASE CreatePreview
  <2>1. pc[Prv] \in {"none", "ended"}
    BY <1>5 DEF CreatePreview, At, Course
  <2>2. CASE starts' = starts /\ PreviewSignalled(Ctl, "idle")
    <3>1. pc'[Prv] = pc[Prv]
      BY <2>1, <2>2, OthersStay, ThreadFacts DEF Moves, PC
    <3>2. ~MayLose'
      BY <2>1, <3>1 DEF MayLose
    <3> QED BY <1>1, <2>2, <3>2, LossesKept
  <2>3. CASE starts' = starts + 1
    <3>1. IsFiniteSet(lost) /\ Cardinality(lost) <= starts /\ starts \in Nat
      BY LimitAssumption DEF Losses, Course
    <3>2. Cardinality(lost) \in Nat
      BY <3>1, FS_CardinalityType
    <3> QED BY <1>1, <2>3, <3>1, <3>2 DEF Losses
  <2> QED BY <1>5, <2>2, <2>3 DEF CreatePreview
<1> QED BY <1>2, <1>3, <1>4, <1>5 DEF ControlNext

LEMMA LossesNext ==
  ASSUME Places, Frames, Course, Losses, Next PROVE Losses'
<1>1. CASE UsbNext
  <2>1. lost' = lost /\ starts' = starts /\ mIsRunning' = mIsRunning
    BY <1>1 DEF UsbNext, CopyFrame, AddPreviewFrame, flags, bounds
  <2> QED BY <1>1, <2>1, UsbMoves, LossesOfOthers, ThreadFacts, SetsOfPlaces
<1>2. CASE \E k \in Capture : CaptureNext(k)
  <2>1. PICK k \in Capture : CaptureNext(k)
    BY <1>2
  <2>2. lost' = lost /\ starts' = starts /\ mIsRunning' = mIsRunning
    BY <2>1 DEF CaptureNext, BeginCapture, CaptureLoop, CaptureInner, CaptureBroadcast,
                WaitCaptureFrame, ConvertForCallback, CallCallback, CallbackReturns, flags, frames,
                bounds
  <2> QED BY <2>1, <2>2, CaptureMoves, LossesOfOthers, ThreadFacts, SetsOfPlaces
<1>3. CASE SetterNext \/ SetterCall
  <2>1. lost' = lost /\ starts' = starts /\ mIsRunning' = mIsRunning
    BY <1>3 DEF SetterNext, SetterCall, SetterEnters, SetterInterrupts, SetterWaits,
         SetterWakes, ForgetMethod, ReplaceCallback, FindMethod, ResumeCapture, flags, frames,
                bounds
  <2> QED BY <1>3, <2>1, SetterMoves, LossesOfOthers, ThreadFacts, SetsOfPlaces
<1>4. CASE \E t \in Thread : SpuriousWakeup(t)
  <2>1. PICK t \in Thread : SpuriousWakeup(t)
    BY <1>4
  <2>2. /\ lost' = lost /\ starts' = starts /\ mIsRunning' = mIsRunning
        /\ pc[t] = "waiting" /\ Moves(t, "woken") /\ "woken" \in PC
    BY <2>1, SpuriousMoves DEF SpuriousWakeup, flags, frames, bounds, PC
  <2>3. CASE t = Prv
    BY <2>2, <2>3, LossesKept DEF MayLose
  <2>4. CASE t # Prv
    BY <2>2, <2>4, LossesOfOthers
  <2> QED BY <2>3, <2>4
<1> QED BY <1>1, <1>2, <1>3, <1>4, LossesPreview, LossesControl DEF Next

LEMMA LossesInit == Init => Losses
<1> SUFFICES ASSUME Init PROVE Losses
  OBVIOUS
<1>1. lost = {} /\ starts = 0 /\ pc = [t \in Thread |-> IF t \in {Ctl, Cli, Usb} THEN "idle" ELSE "none"]
  BY DEF Init
<1>2. ~MayLose
  BY <1>1, ThreadFacts DEF MayLose
<1> QED BY <1>1, <1>2, FS_EmptySet DEF Losses

-----------------------------------------------------------------------------
(* The theorems *)

\* The invariant is inductive: every step of every thread keeps all its parts.
THEOREM Inductive == Spec => []IInv
<1>1. Init => IInv
  BY PlacesInit, ValuesInit, FramesInit, CourseInit, ClearedInit, LossesInit DEF IInv
<1>2. ASSUME IInv, Next PROVE IInv'
  BY <1>2, PlacesNext, ValuesNext, FramesNext, CourseNext, ClearedNext, LossesNext DEF IInv
<1>3. ASSUME IInv, UNCHANGED vars PROVE IInv'
  <2>1. /\ UNCHANGED <<mIsRunning, mIsCapturing, mPreviewWindow, mFrameCallbackObj, request>>
        /\ UNCHANGED <<capture_thread, joined, crashed, starts, sets, failures>>
        /\ UNCHANGED <<previewFrames, hand, leased, lost, stream, pc>>
    BY <1>3 DEF vars, flags, frames, threads, bounds
  <2>2. Places' /\ Values'
    BY <1>3, <2>1 DEF IInv, Places, Values
  <2>3. Frames'
    BY <1>3, <2>1 DEF IInv, Frames, Hands
  <2>4. Course' /\ Cleared'
    BY <1>3, <2>1 DEF IInv, Course, Cleared
  <2>5. Losses'
    BY <1>3, <2>1 DEF IInv, Losses, MayLose
  <2> QED BY <2>2, <2>3, <2>4, <2>5 DEF IInv
<1>4. IInv /\ [Next]_vars => IInv'
  BY <1>2, <1>3
<1> QED BY <1>1, <1>4, PTL DEF Spec

\* The variables keep their types and the queue of the preview its limit.
THEOREM TypeCorrect == Spec => []TypeOK
<1>1. IInv => TypeOK
  <2> SUFFICES ASSUME IInv PROVE TypeOK
    OBVIOUS
  <2>1. /\ mIsRunning \in BOOLEAN /\ mIsCapturing \in BOOLEAN /\ mPreviewWindow \in BOOLEAN
        /\ crashed \in BOOLEAN
    BY DEF IInv, Values
  <2>2. /\ mFrameCallbackObj \in Callback \cup {NoCallback} /\ capture_thread \in 0 .. MaxStarts
        /\ request \in Request
        /\ joined \subseteq Capture /\ sets \in 0 .. MaxCalls /\ failures \in 0 .. MaxFailures
    BY DEF IInv, Values
  <2>3. /\ previewFrames \in Seq(Frame) /\ Len(previewFrames) <= MaxFrame
        /\ hand \in [Holder -> Frame \cup {NoFrame}] /\ leased \subseteq Frame
        /\ lost \subseteq Frame
    BY DEF IInv, Frames, Accounted
  <2>4. /\ stream \in {"closed", "open", "stopping"} /\ starts \in 0 .. MaxStarts
        /\ pc \in [Thread -> PC]
    BY DEF IInv, Course, Places
  <2> QED BY <2>1, <2>2, <2>3, <2>4 DEF TypeOK
<1> QED BY <1>1, Inductive, PTL

\* A frame has one owner, and what the pool has given out is what somebody has.
THEOREM FramesConserved == Spec => []Conserved
<1>1. IInv => Conserved
  BY AccountedConserved DEF IInv, Frames
<1> QED BY <1>1, Inductive, PTL

\* stopPreview drops at most one frame for each preview started.
THEOREM LeakBounded == Spec => []LeakPerStart
<1>1. IInv => LeakPerStart
  BY DEF IInv, Losses, LeakPerStart
<1> QED BY <1>1, Inductive, PTL

\* After stopPreview nothing streams, runs or is left over.
THEOREM StopQuiets == Spec => []QuietAfterStop
<1>1. IInv => QuietAfterStop
  <2> SUFFICES ASSUME IInv, pc[Ctl] = "idle", ~mIsRunning
      PROVE  /\ stream = "closed" /\ pc[Usb] = "idle"
             /\ pc[Prv] \in {"none", "ended"}
             /\ previewFrames = << >>
             /\ \A h \in {Usb, Raw, Rgb, Slot} : hand[h] = NoFrame
    BY DEF QuietAfterStop
  <2>1. pc[Prv] \in {"none", "ended"}
    BY DEF IInv, Course, Stopping
  <2>2. stream = "closed"
    BY <2>1 DEF IInv, Course, Streaming
  <2>3. pc[Usb] = "idle"
    BY <2>2 DEF IInv, Course, Places, UsbPC
  <2>4. previewFrames = << >> /\ hand[Slot] = NoFrame
    BY DEF IInv, Cleared
  <2>5. hand[Usb] = NoFrame /\ hand[Raw] = NoFrame /\ hand[Rgb] = NoFrame
    BY <2>1, <2>3 DEF IInv, Frames, Hands
  <2> QED BY <2>1, <2>2, <2>3, <2>4, <2>5
<1> QED BY <1>1, Inductive, PTL
=============================================================================
