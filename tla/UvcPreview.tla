----------------------------- MODULE UvcPreview -----------------------------
(***************************************************************************)
(* The native preview of the camera: class UVCPreview.                     *)
(*                                                                         *)
(* A frame travels from the frame callback of libuvc through the queue     *)
(* previewFrames to the preview thread, which converts and draws it, then  *)
(* through the slot captureQueu to a capture thread, which hands it to     *)
(* IFrameCallback.onFrame.  Five kinds of threads meet here:               *)
(*   Ctl     startPreview, stopPreview and setPreviewDisplay, serialised   *)
(*           by the lock of CameraInternal;                                *)
(*   Cli     setFrameCallback, which takes no lock of the Java side;       *)
(*   Usb     the thread of libuvc that calls uvc_preview_frame_callback;   *)
(*   Prv     the preview thread of the current start;                      *)
(*   Cap(k)  the capture thread of the k-th start.  stopPreview joins the  *)
(*           thread that capture_thread names when it looks, so that two   *)
(*           of them can be alive.                                         *)
(*                                                                         *)
(* A region under one mutex is one step, except in setFrameCallback: the   *)
(* capture threads and stopPreview change the flags, and the capture       *)
(* threads read the callback and its method, without capture_mutex.        *)
(* pthread_cond_wait is two steps: it waits, and it is woken by a signal,  *)
(* a broadcast or spuriously.                                              *)
(***************************************************************************)
EXTENDS Naturals, Sequences, FiniteSets

CONSTANTS
  Frame,        \* blocks of memory an uvc_frame_t can occupy
  NoFrame,      \* the null frame
  Callback,     \* IFrameCallback objects
  NoCallback,   \* the null callback
  MaxFrame,     \* MAX_FRAME, the capacity of previewFrames
  MaxStarts,    \* bound: previews started
  MaxCalls,     \* bound: previews started and callbacks set, together
  MaxFailures,  \* bound: negotiations, starts and conversions that fail
  Spurious      \* may a pthread_cond_wait return by itself?

ASSUME FrameAssumption == NoFrame \notin Frame /\ NoCallback \notin Callback
ASSUME LimitAssumption ==
  MaxFrame \in Nat \ {0} /\ MaxStarts \in Nat /\ MaxCalls \in Nat /\ MaxFailures \in Nat
ASSUME SpuriousAssumption == Spurious \in BOOLEAN

VARIABLES
  mIsRunning, mIsCapturing,
  mPreviewWindow,   \* whether there is one
  mFrameCallbackObj,
  capture_thread,   \* the start whose capture thread it names, 0 for none
  previewFrames,    \* the queue, a sequence
  hand,             \* the frame in the slot and in each thread's locals
  leased,           \* frames taken from the pool and not given back
  lost,             \* leased frames no variable of the program refers to
  stream,           \* the stream of libuvc, see FrameSource
  pc,               \* where each thread is
  request,          \* the arguments and wasCapturing of the setter
  joined,           \* capture threads that have been joined
  crashed,          \* the process has been aborted
  starts, sets, failures  \* bounds

flags   == <<mIsRunning, mIsCapturing>>
frames  == <<previewFrames, hand, leased, lost>>
threads == <<capture_thread, joined, crashed>>
bounds  == <<starts, sets, failures>>
vars == <<flags, mPreviewWindow, mFrameCallbackObj, frames, stream, pc, request,
          threads, bounds>>

Capture == 1 .. MaxStarts

Ctl    == <<"control", 0>>
Cli    == <<"client", 0>>
Usb    == <<"usb", 0>>
Prv    == <<"preview", 0>>
Cap(k) == <<"capture", k>>
Thread == {Ctl, Cli, Usb, Prv} \cup {Cap(k) : k \in Capture}

\* Where a frame can be held besides the pool and the queue.
Raw    == <<"raw", 0>>    \* frame_mjpeg or frame_yuv of the preview thread
Rgb    == <<"rgb", 0>>    \* frame of the preview thread
Slot   == <<"slot", 0>>   \* captureQueu
Holder == {Usb, Raw, Rgb, Slot} \cup {Cap(k) : k \in Capture}

PC == {"none", "idle", "create", "signalPreview", "signalCapture", "joinCapture",
       "joinPreview", "clear", "clearSlot", "release", "interrupt", "signal", "swap",
       "assign", "method", "resume", "waiting", "woken",
       "copied", "prepare", "stream", "spawn", "loop", "wait", "convert", "add",
       "end", "unstream", "stopping", "ended", "outer", "inner",
       "callback", "call", "calling", "broadcast"}

Request   == [callback : Callback \cup {NoCallback}, was : BOOLEAN]
NoRequest == [callback |-> NoCallback, was |-> FALSE]

Source == INSTANCE FrameSource WITH inCallback <- pc[Usb] = "copied"

-----------------------------------------------------------------------------
(* Frames *)

Queued == {previewFrames[i] : i \in DOMAIN previewFrames}
Held   == {hand[h] : h \in Holder} \ {NoFrame}

\* get_frame(): a frame from the pool when it has one that is large enough,
\* a new one otherwise; either way one that nobody uses.
Get(f) ==
  /\ Frame \ leased # {}
  /\ f = CHOOSE g \in Frame \ leased : TRUE

\* recycle_frame(): the frame goes to the pool, or is freed when the pool is
\* full; either way the caller may not use it any more.
Recycle(S) == leased' = leased \ S

-----------------------------------------------------------------------------
(* Mutexes and condition variables *)

\* Whether capture_mutex is free: setFrameCallback holds it from its first step
\* to its last, except in its wait.
CaptureMutex == pc[Cli] \in {"idle", "waiting", "woken"}

\* Whether iframecallback_fields.onFrame is the method of mFrameCallbackObj
HasMethod == pc[Cli] \notin {"assign", "method"}

\* Mutant: setFrameCallback waits for a condition of its own.
CaptureThreadsWaiting == {t \in Thread \ {Prv, Cli} : pc[t] = "waiting"}

CaptureWaiters == {t \in Thread \ {Prv} : pc[t] = "waiting"}

\* The program counters after thread t went to "to" and woke ws.
Going(t, to, ws) ==
  [u \in Thread |-> IF u = t THEN to ELSE IF u \in ws THEN "woken" ELSE pc[u]]

Goto(t, to) == pc' = Going(t, to, {})

\* pthread_cond_signal(&capture_sync) wakes one waiter if there is one.
Signalled(t, to) ==
  IF CaptureWaiters = {} THEN pc' = Going(t, to, {})
  ELSE \E w \in CaptureWaiters : pc' = Going(t, to, {w})

Broadcast(t, to) == pc' = Going(t, to, CaptureWaiters)

\* Mutant: the preview thread is not signalled.
PreviewNotSignalled(t, to) == Goto(t, to)

\* pthread_cond_signal(&preview_sync): only the preview thread waits there.
PreviewSignalled(t, to) ==
  pc' = Going(t, to, IF pc[Prv] = "waiting" THEN {Prv} ELSE {})

At(t, where) == ~crashed /\ pc[t] = where

SpuriousWakeup(t) ==
  /\ Spurious
  /\ At(t, "waiting")
  /\ Goto(t, "woken")
  /\ UNCHANGED <<flags, mPreviewWindow, mFrameCallbackObj, frames, stream, request,
                 threads, bounds>>

MayFail == failures < MaxFailures /\ failures' = failures + 1

-----------------------------------------------------------------------------
(* The thread of libuvc *)

\* uvc_preview_frame_callback up to the copy.  A callback that finds the
\* preview stopped returns at once and changes nothing.
CopyFrame ==
  /\ At(Usb, "idle")
  /\ mIsRunning
  /\ Goto(Usb, "copied")
  /\ Source!Call
  /\ \E f \in Frame :
       /\ Get(f)
       /\ leased' = leased \cup {f}
       /\ hand' = [hand EXCEPT ![Usb] = f]
  /\ UNCHANGED <<flags, mPreviewWindow, mFrameCallbackObj, previewFrames, lost, request,
                 threads, bounds>>

\* Mutant: the limit of the queue is off by one.
HasRoomForOneMore == Len(previewFrames) <= MaxFrame

HasRoom == Len(previewFrames) < MaxFrame

\* addPreviewFrame, or recycle_frame when uvc_duplicate_frame failed.
AddPreviewFrame ==
  /\ At(Usb, "copied")
  /\ \/ /\ mIsRunning /\ HasRoom
        /\ previewFrames' = Append(previewFrames, hand[Usb])
        /\ PreviewSignalled(Usb, "idle")
        /\ UNCHANGED <<leased, failures>>
     \/ /\ \/ ~(mIsRunning /\ HasRoom) /\ UNCHANGED failures
           \/ MayFail
        /\ Recycle({hand[Usb]})
        /\ Goto(Usb, "idle")
        /\ UNCHANGED previewFrames
  /\ hand' = [hand EXCEPT ![Usb] = NoFrame]
  /\ UNCHANGED <<flags, mPreviewWindow, mFrameCallbackObj, lost, stream, request,
                 threads, starts, sets>>

-----------------------------------------------------------------------------
(* The preview thread *)

\* prepare_preview and uvc_start_streaming.  When one fails the thread ends
\* and mIsRunning stays set.
PreparePreview ==
  /\ At(Prv, "prepare")
  /\ \/ Goto(Prv, "stream") /\ UNCHANGED failures
     \/ Goto(Prv, "ended") /\ MayFail
  /\ UNCHANGED <<flags, mPreviewWindow, mFrameCallbackObj, frames, stream, request,
                 threads, starts, sets>>

StartStreaming ==
  /\ At(Prv, "stream")
  /\ \/ Goto(Prv, "clear") /\ Source!Start /\ UNCHANGED failures
     \/ Goto(Prv, "ended") /\ MayFail /\ UNCHANGED stream
  /\ UNCHANGED <<flags, mPreviewWindow, mFrameCallbackObj, frames, request, threads, starts, sets>>

\* clearPreviewFrame
ClearPreviewFrame ==
  /\ Recycle(Queued)
  /\ previewFrames' = << >>

DiscardOldFrames ==
  /\ At(Prv, "clear")
  /\ ClearPreviewFrame
  /\ Goto(Prv, "spawn")
  /\ UNCHANGED <<flags, mPreviewWindow, mFrameCallbackObj, hand, lost, stream, request,
                 threads, bounds>>

\* pthread_create of the capture thread
SpawnCapture ==
  /\ At(Prv, "spawn")
  /\ capture_thread' = starts
  /\ pc' = [pc EXCEPT ![Prv] = "loop", ![Cap(starts)] = "clear"]
  /\ UNCHANGED <<flags, mPreviewWindow, mFrameCallbackObj, frames, stream, request,
                 joined, crashed, bounds>>

PreviewLoop ==
  /\ At(Prv, "loop")
  /\ Goto(Prv, IF mIsRunning THEN "wait" ELSE "end")
  /\ UNCHANGED <<flags, mPreviewWindow, mFrameCallbackObj, frames, stream, request,
                 threads, bounds>>

\* waitPreviewFrame waits once, then takes a frame if the preview runs.
TakePreviewFrame ==
  IF mIsRunning /\ previewFrames # << >>
  THEN /\ hand' = [hand EXCEPT ![Raw] = Head(previewFrames)]
       /\ previewFrames' = Tail(previewFrames)
       /\ Goto(Prv, "convert")
  ELSE Goto(Prv, "loop") /\ UNCHANGED <<hand, previewFrames>>

WaitPreviewFrame ==
  /\ \/ /\ At(Prv, "wait")
        /\ IF previewFrames = << >>
           THEN Goto(Prv, "waiting") /\ UNCHANGED <<hand, previewFrames>>
           ELSE TakePreviewFrame
     \/ At(Prv, "woken") /\ TakePreviewFrame
  /\ UNCHANGED <<flags, mPreviewWindow, mFrameCallbackObj, leased, lost, stream,
                 request, threads, bounds>>

\* get_frame, the conversion to RGBX and draw_preview_one
ConvertFrame ==
  /\ At(Prv, "convert")
  /\ \E f \in Frame :
       /\ Get(f)
       /\ \/ /\ leased' = leased \cup {f}
             /\ hand' = [hand EXCEPT ![Rgb] = f]
             /\ Goto(Prv, "add")
             /\ UNCHANGED failures
          \/ /\ MayFail
             /\ Recycle({hand[Raw]})
             /\ hand' = [hand EXCEPT ![Raw] = NoFrame]
             /\ Goto(Prv, "loop")
  /\ UNCHANGED <<flags, mPreviewWindow, mFrameCallbackObj, previewFrames, lost, stream,
                 request, threads, starts, sets>>

\* Mutant: addCaptureFrame looks at isCapturing() too.
KeepsFrameWhenCapturing == mIsRunning /\ mIsCapturing

KeepsFrame == mIsRunning

\* addCaptureFrame keeps only the latest frame, and keeps none when the
\* preview has been stopped; then recycle_frame of the camera's frame.
AddCaptureFrame ==
  /\ At(Prv, "add")
  /\ CaptureMutex
  /\ IF KeepsFrame
     THEN /\ Recycle({hand[Slot], hand[Raw]})
          /\ hand' = [hand EXCEPT ![Slot] = hand[Rgb], ![Rgb] = NoFrame, ![Raw] = NoFrame]
          /\ Broadcast(Prv, "loop")
          /\ UNCHANGED lost
     ELSE /\ Recycle({hand[Raw]})
          /\ hand' = [hand EXCEPT ![Rgb] = NoFrame, ![Raw] = NoFrame]
          /\ lost' = lost \cup {hand[Rgb]}
          /\ Goto(Prv, "loop")
  /\ UNCHANGED <<flags, mPreviewWindow, mFrameCallbackObj, previewFrames, stream, request,
                 threads, bounds>>

EndPreview ==
  /\ At(Prv, "end")
  /\ Signalled(Prv, "unstream")
  /\ UNCHANGED <<flags, mPreviewWindow, mFrameCallbackObj, frames, stream, request,
                 threads, bounds>>

\* uvc_stop_streaming
StopStreaming ==
  /\ \/ At(Prv, "unstream") /\ Goto(Prv, "stopping") /\ Source!Stop
     \/ At(Prv, "stopping") /\ Goto(Prv, "ended") /\ Source!Stopped
  /\ UNCHANGED <<flags, mPreviewWindow, mFrameCallbackObj, frames, request, threads, bounds>>

-----------------------------------------------------------------------------
(* The capture threads *)

\* Mutant: clearCaptureFrame does not set the slot to NULL.
ClearCaptureFrameOnly ==
  /\ CaptureMutex
  /\ Recycle({hand[Slot]})
  /\ UNCHANGED hand

\* clearCaptureFrame
ClearCaptureFrame ==
  /\ CaptureMutex
  /\ Recycle({hand[Slot]})
  /\ hand' = [hand EXCEPT ![Slot] = NoFrame]

BeginCapture(k) ==
  /\ At(Cap(k), "clear")
  /\ ClearCaptureFrame
  /\ Goto(Cap(k), "outer")
  /\ UNCHANGED <<flags, mPreviewWindow, mFrameCallbackObj, previewFrames, lost, stream,
                 request, threads, bounds>>

\* The loop of do_capture sets mIsCapturing without the mutex.
CaptureLoop(k) ==
  /\ At(Cap(k), "outer")
  /\ IF mIsRunning
     THEN mIsCapturing' = TRUE /\ Goto(Cap(k), "inner")
     ELSE Goto(Cap(k), "ended") /\ UNCHANGED mIsCapturing
  /\ UNCHANGED <<mIsRunning, mPreviewWindow, mFrameCallbackObj, frames, stream, request,
                 threads, bounds>>

\* The loop of do_capture_idle_loop
CaptureInner(k) ==
  /\ At(Cap(k), "inner")
  /\ Goto(Cap(k), IF mIsRunning /\ mIsCapturing THEN "wait" ELSE "broadcast")
  /\ UNCHANGED <<flags, mPreviewWindow, mFrameCallbackObj, frames, stream, request,
                 threads, bounds>>

CaptureBroadcast(k) ==
  /\ At(Cap(k), "broadcast")
  /\ Broadcast(Cap(k), "outer")
  /\ UNCHANGED <<flags, mPreviewWindow, mFrameCallbackObj, frames, stream, request,
                 threads, bounds>>

\* waitCaptureFrame waits once, then takes the frame if the preview runs.
TakeCaptureFrame(k) ==
  IF mIsRunning /\ hand[Slot] # NoFrame
  THEN /\ hand' = [hand EXCEPT ![Cap(k)] = hand[Slot], ![Slot] = NoFrame]
       /\ Goto(Cap(k), "callback")
  ELSE Goto(Cap(k), "inner") /\ UNCHANGED hand

WaitCaptureFrame(k) ==
  /\ CaptureMutex
  /\ \/ /\ At(Cap(k), "wait")
        /\ IF hand[Slot] = NoFrame
           THEN Goto(Cap(k), "waiting") /\ UNCHANGED hand
           ELSE TakeCaptureFrame(k)
     \/ At(Cap(k), "woken") /\ TakeCaptureFrame(k)
  /\ UNCHANGED <<flags, mPreviewWindow, mFrameCallbackObj, previewFrames, leased, lost,
                 stream, request, threads, bounds>>

\* do_capture_callback up to the call: with a converter the frame is
\* replaced by one from the pool, without one it is passed on.
ConvertForCallback(k) ==
  /\ At(Cap(k), "callback")
  /\ \/ /\ mFrameCallbackObj # NoCallback /\ HasMethod
        /\ \/ UNCHANGED <<hand, leased>>
           \/ \E f \in Frame :
                /\ Get(f)
                /\ leased' = (leased \cup {f}) \ {hand[Cap(k)]}
                /\ hand' = [hand EXCEPT ![Cap(k)] = f]
        /\ Goto(Cap(k), "call")
        /\ UNCHANGED failures
     \/ /\ \/ (mFrameCallbackObj = NoCallback \/ ~HasMethod) /\ UNCHANGED failures
           \/ mFrameCallbackObj # NoCallback /\ HasMethod /\ MayFail
        /\ Recycle({hand[Cap(k)]})
        /\ hand' = [hand EXCEPT ![Cap(k)] = NoFrame]
        /\ Goto(Cap(k), "inner")
  /\ UNCHANGED <<flags, mPreviewWindow, mFrameCallbackObj, previewFrames, lost, stream,
                 request, threads, starts, sets>>

\* CallVoidMethod reads mFrameCallbackObj and onFrame again; a null object, a
\* deleted one or a null method aborts.
CallCallback(k) ==
  /\ At(Cap(k), "call")
  /\ crashed' = (mFrameCallbackObj = NoCallback \/ ~HasMethod)
  /\ Goto(Cap(k), "calling")
  /\ UNCHANGED <<flags, mPreviewWindow, mFrameCallbackObj, frames, stream, request,
                 capture_thread, joined, bounds>>

CallbackReturns(k) ==
  /\ At(Cap(k), "calling")
  /\ Recycle({hand[Cap(k)]})
  /\ hand' = [hand EXCEPT ![Cap(k)] = NoFrame]
  /\ Goto(Cap(k), "inner")
  /\ UNCHANGED <<flags, mPreviewWindow, mFrameCallbackObj, previewFrames, lost, stream,
                 request, threads, bounds>>

-----------------------------------------------------------------------------
(* startPreview, stopPreview and setPreviewDisplay *)

\* CameraInternal.startPreview sets the window, which may be null, when no
\* preview runs.
SetPreviewDisplay ==
  /\ At(Ctl, "idle")
  /\ ~mIsRunning
  /\ mPreviewWindow' \in BOOLEAN
  /\ UNCHANGED <<flags, mFrameCallbackObj, frames, stream, pc,
                 request, threads, bounds>>

\* A preview that runs is left alone.
StartPreview ==
  /\ At(Ctl, "idle")
  /\ starts < MaxStarts /\ starts + sets < MaxCalls
  /\ ~mIsRunning
  /\ mIsRunning' = TRUE
  /\ Goto(Ctl, "create")
  /\ UNCHANGED <<mIsCapturing, mPreviewWindow, mFrameCallbackObj, frames, stream, request,
                 threads, bounds>>

\* pthread_create of the preview thread, if there is a window
CreatePreview ==
  /\ At(Ctl, "create")
  /\ IF mPreviewWindow
     THEN /\ starts' = starts + 1
          /\ pc' = [pc EXCEPT ![Ctl] = "idle", ![Prv] = "prepare"]
          /\ UNCHANGED mIsRunning
     ELSE /\ mIsRunning' = FALSE
          /\ PreviewSignalled(Ctl, "idle")
          /\ UNCHANGED starts
  /\ UNCHANGED <<mIsCapturing, mPreviewWindow, mFrameCallbackObj, frames, stream, request,
                 threads, sets, failures>>

StopPreview ==
  /\ At(Ctl, "idle")
  /\ mIsRunning' = FALSE
  /\ Goto(Ctl, IF mIsRunning THEN "signalPreview" ELSE "clear")
  /\ UNCHANGED <<mIsCapturing, mPreviewWindow, mFrameCallbackObj, frames, stream, request,
                 threads, bounds>>

\* The two signals are sent without the mutexes of their conditions.
StopSignals ==
  /\ \/ At(Ctl, "signalPreview") /\ PreviewSignalled(Ctl, "signalCapture")
     \/ At(Ctl, "signalCapture") /\ Signalled(Ctl, "joinCapture")
  /\ UNCHANGED <<flags, mPreviewWindow, mFrameCallbackObj, frames, stream, request,
                 threads, bounds>>

\* pthread_join of a thread joined before returns an error or aborts.
JoinCapture ==
  /\ At(Ctl, "joinCapture")
  /\ \/ capture_thread = 0 /\ UNCHANGED <<joined, crashed>>
     \/ /\ capture_thread # 0
        /\ capture_thread \notin joined
        /\ pc[Cap(capture_thread)] = "ended"
        /\ joined' = joined \cup {capture_thread}
        /\ UNCHANGED crashed
     \/ capture_thread \in joined /\ crashed' \in BOOLEAN /\ UNCHANGED joined
  /\ Goto(Ctl, "joinPreview")
  /\ UNCHANGED <<flags, mPreviewWindow, mFrameCallbackObj, frames, stream, request,
                 capture_thread, bounds>>

\* Mutant: the preview thread is not joined.
PreviewLeftAlone == TRUE

PreviewJoined == pc[Prv] = "ended"

JoinPreview ==
  /\ At(Ctl, "joinPreview")
  /\ PreviewJoined
  /\ Goto(Ctl, "clear")
  /\ UNCHANGED <<flags, mPreviewWindow, mFrameCallbackObj, frames, stream, request,
                 threads, bounds>>

StopClears ==
  /\ \/ /\ At(Ctl, "clear")
        /\ ClearPreviewFrame
        /\ Goto(Ctl, "clearSlot")
        /\ UNCHANGED hand
     \/ /\ At(Ctl, "clearSlot")
        /\ ClearCaptureFrame
        /\ Goto(Ctl, "release")
        /\ UNCHANGED previewFrames
  /\ UNCHANGED <<flags, mPreviewWindow, mFrameCallbackObj, lost, stream, request,
                 threads, bounds>>

ReleaseWindow ==
  /\ At(Ctl, "release")
  /\ CaptureMutex
  /\ mPreviewWindow' = FALSE
  /\ Goto(Ctl, "idle")
  /\ UNCHANGED <<flags, mFrameCallbackObj, frames, stream, request, threads, bounds>>

-----------------------------------------------------------------------------
(* setFrameCallback *)

\* wasCapturing is tested under capture_mutex, which the setter keeps, except
\* in its wait, until it returns; but stopPreview and the loop of do_capture
\* change the two flags without it.
SetterEnters(cb) ==
  /\ At(Cli, "idle")
  /\ starts + sets < MaxCalls
  /\ sets' = sets + 1
  /\ request' = [callback |-> cb, was |-> mIsRunning /\ mIsCapturing]
  /\ Goto(Cli, IF mIsRunning /\ mIsCapturing THEN "interrupt" ELSE "swap")
  /\ UNCHANGED <<flags, mPreviewWindow, mFrameCallbackObj, frames, stream, threads, starts,
                 failures>>

SetterInterrupts ==
  /\ At(Cli, "interrupt")
  /\ mIsCapturing' = FALSE
  /\ Goto(Cli, IF mFrameCallbackObj # NoCallback THEN "signal" ELSE "swap")
  /\ UNCHANGED <<mIsRunning, mPreviewWindow, mFrameCallbackObj, frames, stream, request,
                 threads, bounds>>

\* The one wait: what was signalled or broadcast before it is lost.
SetterWaits ==
  /\ At(Cli, "signal")
  /\ Signalled(Cli, "waiting")
  /\ UNCHANGED <<flags, mPreviewWindow, mFrameCallbackObj, frames, stream, request, threads,
                 bounds>>

SetterWakes ==
  /\ At(Cli, "woken")
  /\ Goto(Cli, "swap")
  /\ UNCHANGED <<flags, mPreviewWindow, mFrameCallbackObj, frames, stream, request, threads,
                 bounds>>

\* IsSameObject, and onFrame = NULL if it is another one
ForgetMethod ==
  /\ At(Cli, "swap")
  /\ Goto(Cli, IF mFrameCallbackObj = request.callback THEN "resume" ELSE "assign")
  /\ UNCHANGED <<flags, mPreviewWindow, mFrameCallbackObj, frames, stream, request, threads,
                 bounds>>

\* DeleteGlobalRef and the assignment
ReplaceCallback ==
  /\ At(Cli, "assign")
  /\ mFrameCallbackObj' = request.callback
  /\ Goto(Cli, IF request.callback # NoCallback THEN "method" ELSE "resume")
  /\ UNCHANGED <<flags, mPreviewWindow, frames, stream, request, threads, bounds>>

\* GetMethodID
FindMethod ==
  /\ At(Cli, "method")
  /\ Goto(Cli, "resume")
  /\ UNCHANGED <<flags, mPreviewWindow, mFrameCallbackObj, frames, stream, request, threads,
                 bounds>>

\* Capture is resumed unless the new callback is null.
ResumeCapture ==
  /\ At(Cli, "resume")
  /\ IF request.was /\ request.callback # NoCallback
     THEN mIsCapturing' = TRUE /\ Signalled(Cli, "idle")
     ELSE Goto(Cli, "idle") /\ UNCHANGED mIsCapturing
  /\ request' = NoRequest
  /\ UNCHANGED <<mIsRunning, mPreviewWindow, mFrameCallbackObj, frames, stream, threads,
                 bounds>>

-----------------------------------------------------------------------------
Init ==
  /\ mIsRunning = FALSE /\ mIsCapturing = FALSE
  /\ mPreviewWindow = FALSE
  /\ mFrameCallbackObj = NoCallback
  /\ capture_thread = 0
  /\ previewFrames = << >>
  /\ hand = [h \in Holder |-> NoFrame]
  /\ leased = {} /\ lost = {}
  /\ stream = "closed"
  /\ pc = [t \in Thread |-> IF t \in {Ctl, Cli, Usb} THEN "idle" ELSE "none"]
  /\ request = NoRequest
  /\ joined = {} /\ crashed = FALSE
  /\ starts = 0 /\ sets = 0 /\ failures = 0

UsbNext     == CopyFrame \/ AddPreviewFrame
PreviewNext == \/ PreparePreview \/ StartStreaming \/ DiscardOldFrames \/ SpawnCapture
               \/ PreviewLoop \/ WaitPreviewFrame \/ ConvertFrame \/ AddCaptureFrame
               \/ EndPreview \/ StopStreaming
CaptureNext(k) == \/ BeginCapture(k) \/ CaptureLoop(k)
                  \/ CaptureInner(k) \/ CaptureBroadcast(k) \/ WaitCaptureFrame(k)
                  \/ ConvertForCallback(k) \/ CallCallback(k) \/ CallbackReturns(k)
StopNext    == StopSignals \/ JoinCapture \/ JoinPreview \/ StopClears \/ ReleaseWindow
ControlNext == SetPreviewDisplay \/ StartPreview \/ CreatePreview \/ StopPreview \/ StopNext
SetterNext  == \/ SetterInterrupts \/ SetterWaits \/ SetterWakes \/ ForgetMethod
               \/ ReplaceCallback \/ FindMethod \/ ResumeCapture
SetterCall  == \E cb \in Callback \cup {NoCallback} : SetterEnters(cb)

Next ==
  \/ UsbNext
  \/ PreviewNext
  \/ \E k \in Capture : CaptureNext(k)
  \/ ControlNext
  \/ SetterNext
  \/ SetterCall
  \/ \E t \in Thread : SpuriousWakeup(t)

Spec == Init /\ [][Next]_vars

\* A thread that can run is scheduled, the camera sends frames, a call that
\* was made is carried out.  Nothing makes anyone start, stop or set
\* anything, and no wait ends by itself.
Fairness ==
  /\ WF_vars(UsbNext)
  /\ WF_vars(PreviewNext)
  /\ \A k \in Capture : WF_vars(CaptureNext(k))
  /\ WF_vars(CreatePreview \/ StopNext)
  /\ WF_vars(SetterNext)

FairSpec == Spec /\ Fairness

-----------------------------------------------------------------------------
(* Properties *)

\* The variables keep their types, and the queue its limit.
TypeOK ==
  /\ mIsRunning \in BOOLEAN /\ mIsCapturing \in BOOLEAN
  /\ mPreviewWindow \in BOOLEAN
  /\ mFrameCallbackObj \in Callback \cup {NoCallback}
  /\ capture_thread \in 0 .. MaxStarts
  /\ previewFrames \in Seq(Frame) /\ Len(previewFrames) <= MaxFrame
  /\ hand \in [Holder -> Frame \cup {NoFrame}]
  /\ leased \subseteq Frame /\ lost \subseteq Frame
  /\ stream \in {"closed", "open", "stopping"}
  /\ pc \in [Thread -> PC]
  /\ request \in Request
  /\ joined \subseteq Capture
  /\ crashed \in BOOLEAN
  /\ starts \in 0 .. MaxStarts /\ sets \in 0 .. MaxCalls /\ failures \in 0 .. MaxFailures

\* A frame has one owner: it is in the queue, in the slot, with one thread,
\* or lost, never in two of these, and what is taken from the pool is exactly
\* what somebody has.  With a second owner a frame would be shown, or freed,
\* while another thread still writes it.
Conserved ==
  /\ \A g, h \in Holder : hand[g] # NoFrame /\ hand[g] = hand[h] => g = h
  /\ \A i, j \in DOMAIN previewFrames : previewFrames[i] = previewFrames[j] => i = j
  /\ Held \cap Queued = {}
  /\ lost \cap (Held \cup Queued) = {}
  /\ leased = Held \cup Queued \cup lost

\* addCaptureFrame drops its frame without recycling it when the preview has
\* just been stopped.  That costs at most one frame for each preview started.
LeakPerStart == Cardinality(lost) <= starts

\* When stopPreview has returned, the camera does not stream, no frame
\* callback is running, and no frame is left on the way to the screen or in
\* the slot, whatever the threads were doing when it was called and however
\* many previews there were before.
QuietAfterStop ==
  pc[Ctl] = "idle" /\ ~mIsRunning =>
    /\ stream = "closed" /\ pc[Usb] = "idle"
    /\ pc[Prv] \in {"none", "ended"}
    /\ previewFrames = << >>
    /\ \A h \in {Usb, Raw, Rgb, Slot} : hand[h] = NoFrame

\* setFrameCallback does not wait for ever while the camera streams: its
\* signal may come when the capture thread is not waiting, but the next frame
\* wakes both of them.
SetterReturns ==
  pc[Cli] = "waiting" /\ stream = "open" ~> pc[Cli] # "waiting" \/ ~mIsRunning

\* As long as the preview runs and has a callback, frames reach the callback:
\* no wake-up that the three threads rely on is lost for good.
PreviewFlows ==
  <>[](mIsRunning /\ stream = "open" /\ mFrameCallbackObj # NoCallback)
    => []<>(\E k \in Capture : pc[Cap(k)] = "calling")

\* What CameraInternal expects of stopPreview: it returns.  It does not when
\* its signals come between the preview thread's look at mIsRunning and its
\* wait: no frame follows to wake it.
StopReturns == pc[Ctl] = "signalPreview" ~> pc[Ctl] = "idle" \/ crashed
=============================================================================
