# Openterface for Android: a TLA+ verification project

Openterface is a KVM over USB. The Android app shows the screen of a *target* computer,
which it receives as a UVC camera, and sends keyboard and mouse reports to it over a USB
serial device: a CH340 that leads to a CH9329 HID chip (vendor 1A86, product 7523), a
FE0C (1A86:FE0C), or one of the composite devices whose interfaces include a serial one.
Remote clients can watch and control the target through a VNC or a WebRTC server that
runs in the app.

This directory holds TLA+ models of the parts of the app that are hard to get right, the
TLC configurations that check them on small instances, and TLAPS proofs of the theorems
that hold for every value of the constants. Source lines are those of the repository;
`UsbDeviceManager.java` is `app/src/main/java/com/openterface/AOS/serial/UsbDeviceManager.java`
and `KeyBoardManager.java` is in `.../AOS/target/`; `UVCPreview.cpp`, `stream.c` (libuvc), `io.c` and
`linux_usbfs.c` (libusb) are under `libuvccamera/src/main/jni/`, and `VideoCapture.java` and
`CameraInternal.java` under `libuvccamera/src/main/java/`. `PROJECT.json` maps every definition to
the lines it stands for.

## 1. The system

| Component | State | Operations | Hard because | What makes it correct |
|---|---|---|---|---|
| Serial connection manager (`serial/UsbDeviceManager`) | `driver`, `pendingDevice`, `port`, `fe0cConnection`, `isConnecting` and its time, `isReading`, the two rates | broadcasts (attach, detach, permission), detection, connection, recovery, read loop, writes, automatic key release | two threads share the fields without a lock; timers guard each other through one flag; any transfer may fail; the cable may go at any step | no device opened without its permission; though both threads may connect, the rate shown is that of the chip, an open port is read, and the port of a device that has gone is closed; a plugged device is connected; a pressed key goes up |
| Ordered keyboard queue (`target/KeyBoardManager`, `...Queued`, `...PressAndRelease`) | the executor's queue, `currentlyPressedKeys` | press, release, tap | the mark and the post are two steps; the thread unmarks later than it writes; writes fail | first in first out; a tap is not split; no key left down; no mark left behind |
| Unordered keyboard senders (`KeyBoardManager.sendKeyBoardPress` ..., `KeyBoardManagerCore`, `HidManager`) | none | a thread per report | the order of two reports rests on a sleep | the release follows its press |
| Mouse worker (`target/MouseManager`) | a handler thread, dimensions, the last point | init, release, moves, clicks, drags | release and senders race; scale factors from several callers | reports in order; a position scaled with the dimensions it belongs to |
| Activity and touch input (`activity/MainActivity`, `target/CustomTouchListener`, `target/TouchPadMotion`) | gesture and keyboard flags | intents, key and touch events, dialogs | calls the managers from callbacks of several origins | every press has its release |
| Remote input (`vnc/VncInputRouter`, `webrtc/WebRtcInputRouter`) | button mask, modifiers | events of remote clients | the meaning of an event depends on the ones before it | the target's buttons follow the client's |
| VNC server (`vnc/`, `libvncserver/.../vnc_server_jni.c`) | native handle, framebuffer, client flag, service state | start, stop, frames, callbacks | the native thread outlives or precedes the objects it calls | no use of a freed server; stopped means stopped |
| WebRTC server (`webrtc/`) | peer connection, offer, answer, candidates | start, stop, offer, polling, capture | HTTP threads and the main thread share the session | an answer belongs to its offer; nothing used after it is disposed |
| Text sender (`utils/TextHidSender`) | cancel flag | send, cancel | cancelled between two reports | no key left down |
| Camera connection (`libuvccamera` `USBMonitor`, `CameraConnectionService`, watchdogs) | device maps, service state | attach, permission, open, close | callbacks on four threads | one owner of the camera |
| Native preview (`libuvccamera/.../UVCPreview.cpp`) | frame pool, `previewFrames`, `captureQueu`, `mIsRunning`, `mIsCapturing`, the callback, the windows | start, stop, window and callback setters; the frame callback, a preview thread and a capture thread | five kinds of threads, two mutexes, conditions that are waited for once; flags written without their mutex; capture threads of two starts | every frame has one owner and returns to the pool; a stop that returns leaves nothing behind; frames go on reaching the callback |
| Streaming of libuvc (`stream.c`, with the transfers of libusb) | the stream handle: `running`, `transfers`, the double buffer | start, stop, transfer callbacks, user caller | a stop races completions and resubmissions; payloads are lost; the camera is unplugged | no transfer freed in flight; no callback after the stop; frames are not pieced together wrongly |
| Recording (`VideoCapture.java`) | the flags of the recording, one `MediaMuxer`, two `MediaCodec`s, the future that sets them up again | start, stop, release; two encoding threads, an executor | four threads share flags without a lock; any operation of the platform may fail; the setup for the next recording runs behind the end of this one | a saved file is playable, a playable one is kept; a recording goes on until it is stopped (it need not: finding 5) and gets a verdict; a release frees the encoders |
| Device, HID and UVC managers (`device/`, ...) | - | an alternative detection that only an example uses | - | - |
| Soft keyboard, settings, user interface | preferences, layout | views | - | - |
| Vendored libraries (libusb, libuvc, libjpeg-turbo, libyuv, rapidjson) | - | third-party | - | - |

How they interact: the camera callbacks (`onDeviceOpen`) and USB broadcasts start the
serial connection; `KeyBoardManager` and `MouseManager` write through the static
`usbDeviceManager` they were given; the VNC and WebRTC input routers call those two
managers from their own threads or by a post to the main looper; both servers take their
frames from the callback of the native preview. The preview is built on the streaming of
libuvc, which promises it `FrameSource`. `CameraInternal` starts and stops preview and recording
under its lock; a recording gets its pictures as a second surface of the preview's renderer
and shares no state with the native side.

Every behaviour that is hard to test is listed, at its line, under `hazards` in
`PROJECT.json`, with the properties that cover it or the reason why none does yet.

## 2. The modules

| Module | What it is |
|---|---|
| `UsbSerial` | the serial connection manager, on its two threads, with the platform around it |
| `MCUsbSerial` | the kinds of the attachments and the symmetry used by the runs of `UsbSerial` |
| `UsbSerialProofs` | type correctness; no device is opened without its permission |
| `UsbSerialPortProofs` | what becomes of the port: closed when its device has gone, the rate told, the reader |
| `KeyStream` | abstract: what the keyboard queue promises |
| `KeyExecutor` | the keyboard queue, shown to implement `KeyStream` |
| `KeyExecutorProofs` | type correctness, the refinement, and what an idle executor leaves behind |
| `FrameSource` | abstract: what starting and stopping a stream promises the code above it |
| `UvcStream` | the streaming code of libuvc with the transfers of libusb, shown to implement `FrameSource` |
| `UvcUnplug` | `UvcStream` with a camera that is unplugged |
| `UvcStreamProofs` | types, memory safety of transfers and handle, whole frames, the refinement |
| `UvcPreview` | the native preview, composed with `FrameSource` |
| `MCUvcPreview` | the view under which TLC compares states of `UvcPreview` |
| `UvcPreviewProofs` | types, conservation of frames, the bound on leaks, quiet after a stop |
| `VideoCapture` | the recording, on its four threads |
| `VideoCaptureProofs` | types, and what becomes of the file |
| `VideoSessionProofs` | how a recording ends: the audio before the video |

`UvcPreview` does not repeat the streaming code: its actions `CopyFrame`, `StartStreaming` and
`StopStreaming` conjoin the actions of an instance of `FrameSource`, and `UvcStream` is shown,
by TLC and by proof, to implement that module. Composed, they say that the preview is right
on top of libuvc.

### UsbSerial and the code

The main looper is the thread `main`: a broadcast is an element of `mainq`, a runnable
posted with a delay is counted in `timers` by its kind (`init`: 3 s after `init()`;
`fallback`: 500 ms after a detection; `retry` and `retryConnect`: 2 s after a detection or
a choice of device that found nothing). The `HandlerThread` "Serial" is the thread
`serial`, its queue is `jobs`, and `releases` counts the delayed key releases posted to it.
`pc`, `dev`, `drv`, `baud` and `untried` are where each thread is in its handler and the local
variables of it; `drv` is what one statement has read of `driver` and not yet assigned.

| Code | Actions |
|---|---|
| `usbReceiver` (1629-1734) | `OnPermission`; `OnDetached`, `TestOwner` (whose device it was), `CleanUp`; `OnAttached` |
| `detectDeviceOnly` (1778-1876) | `Detect`, `NoDriver`, `StoreDriver`, `StoreDevice`, `Fire("retry")`, `Fire("fallback")` |
| `connect` (1878-1994), `requestPermissionAndConnect` | `Connect`, `ChooseDevice`, `NoDriver`, `StoreDriver`, `CheckPermission`, `Fire("retryConnect")` |
| `connectWithPermission` (2064-2229) and what it calls | `FindDriver`, `StoreDriver`, `OpenDevice`, `TryBaudrate`, `GetPort` (`ReadDriver`, `AssignPort`), `ChooseInit`, `ClaimFe0c`, `KeepFe0c`, `DropFe0c`, `OpenPort`, `Configure`, `CatchAttempt`, `NextBaudrate`, `Finish`, `Recover`, `Reopen`, `SlowDown`, `Resume`, `GiveUp` |
| `closeDevice` (2287-2316) and the assignments after it (1719-1721) | `CleanUp`, one field at a time |
| `startReading` (2383-2413) | `StartReading`, `StartLoop`, `LoopTest`, `ReadPort` |
| `reconnectWithBaudrate` (2457-2480), the dialogs of `MainActivity` | `Reconnect`, `SetPreferredBaudrate` |
| `sendKeyPressWithAutoRelease`, `sendKeyRelease` | `KeyPress`, `ReleaseKey` |
| `MyCameraHelperCallback.onDeviceOpen` (`MainActivity.java:1606`) | `CameraOpened` |
| the Android USB service, the user, time | `Plug`, `Unplug`, `Answer`, `TimePasses` |

`connectWithPermission` is one piece of code that both threads can run. It, and the handling of
a detachment, are split wherever the other thread can see or change a shared field between two
of their lines: the test of `driver` (294), the reading of it for the port and the assignment of
`port` (303) are three steps, so are the claim of an interface (1309) and the assignment of
`fe0cConnection` (1317), and the detachment is judged, then cleaned up field by field. A handler
of the main looper that no such observation splits is one action.

Abstractions, all of them deliberate:

- A `UsbDevice` is one attachment. Android makes a new object for every attachment, so an
  element of `Device` is plugged at most once, and the port made from it has its identity.
- `Detected` stands for the two passes of `detectOpenterfaceDevice` over the device list.
  A device it returns always has a serial interface, so the rescan that `connect()` makes
  for a pending device without one (1903-1930) is never entered and is left out.
- Between the list of drivers and the assignment of `driver` the device may go and its
  detachment be handled (`StoreDriver` is a step of its own); a device that has gone by the time
  its driver is looked for has none (`NoDriver`). A null `driver` that is read again is the
  exception that its method catches, where it does.
- What is done to a port is one step on the object the field names then, of the attachment that
  object was made for.
- The three ways to initialise a CH340, tried in turn (359-374), are one attempt: they open the same
  port and set the same rate on it.
- A field is visible to the other thread as soon as it is written. Only `isConnecting`
  and its time are volatile in the code; a stale read of another field shows a value that
  an interleaving of the model shows too, except across the start of a job, which orders
  memory.
- The raw bulk transfer that `writeData` falls back to without a port is not modelled:
  nothing assigns its connection while there is no port.
- A write is one step, and what `port.read` returns is not looked at: the listener only
  parses status.
- More than `MaxTimers` pending timers of one kind are merged, since all of them run the
  same code on fields that are read when they fire.
- The preference dialog may set a rate at any time, which is more than the menus allow.
- `release()` is not modelled: its only call is commented out.
- Age is abstract: `isConnecting` is "recent" for 3 s, then "stuck".

### KeyExecutor and the code

`Call` is a call of `sendKeyBoardPressQueued`, `sendKeyBoardReleaseQueued` or
`sendKeyBoardPressAndRelease` up to the post, with the duplicate test on
`currentlyPressedKeys`; `Execute` is the post. `Take`, `Write`, `WriteRelease` and `Unmark`
are the thread of the executor. A write that fails, because the device is not connected or
the transfer fails, leaves the target as it was: in a tap the press that failed ends the job
and unmarks the key, in a queued press it does not unmark it (377 looks at no result).
`last` records the last job posted, for the properties only. Modifiers and the bytes of a
report are left out.

The callers the app has (`WebRtcServerService`, which posts to the main handler,
`MainActivity`, the shortcut hub) are all on the main looper. The methods are public and
static, with a concurrent set between them, so the model lets any number of threads call
them and the properties hold for those too.

### UvcStream, UvcUnplug and the code

| Code | Actions |
|---|---|
| `uvc_stream_open_ctrl`, `uvc_stream_start` (`stream.c` 1177-1430) | `Open`, `SubmitNext` |
| `_uvc_stream_callback`, `_uvc_process_payload`, `_uvc_swap_buffers` (809-1100) | `Reap`, `Header`, `Data`, `PayloadsEnd`, `TestRunning`, `Resubmit`, `FreeTransfer` |
| `_uvc_user_caller` (1468-1494) | `UserCheck`, `UserReturns` |
| `uvc_stop_streaming`, `uvc_stream_stop`, `uvc_stream_close` (1645-1741) | `Stop`, `CancelTransfers`, `StopWakes`, `Close` |
| the camera; completion in libusb (`io.c` 1667) | the inputs of `Reap` and `Header` |
| `reap_for_handle`, `usbi_handle_disconnect`, `handle_timeout` | `UvcUnplug`: `Unplug`, `Disconnect`, `Expire` |

A region under `cb_mutex` is one step; `running` is read and written outside of it, so that a
stop may come between the test of it (1045) and the resubmission (1046). `flight` is what libusb
does with a transfer. The camera numbers its frames; a payload carries the parity of its frame
(the frame ID bit) and whether it is the last, and any payload may be lost, so that a frame
can lose its end, or a whole frame can vanish between two of equal parity. The bytes of a
payload are left out; a buffer is the sequence of frame numbers its payloads came from. Failed
submissions leave a transfer out of flight, as lines 1047 and 1427 do. Every payload has a header of
at least two bytes, which the UVC standard asks of a camera; the code takes what comes with a shorter
one for more data, without looking at its frame ID (894-895), and the model has no such payload.

### UvcPreview and the code

| Code (`UVCPreview.cpp`) | Actions |
|---|---|
| `startPreview`, `stopPreview` (374-431), `setPreviewDisplay` | `StartPreview`, `CreatePreview`, `StopPreview`, `StopSignals`, `JoinCapture`, `JoinPreview`, `StopClears`, `ReleaseWindow`, `SetPreviewDisplay` |
| `setFrameCallback` (237-286) | `SetterEnters`, `SetterInterrupts`, `SetterWaits`, `SetterWakes`, `ForgetMethod`, `ReplaceCallback`, `FindMethod`, `ResumeCapture` |
| `uvc_preview_frame_callback`, `addPreviewFrame` (436-482) | `CopyFrame`, `AddPreviewFrame` |
| `preview_thread_func`, `do_preview`, `waitPreviewFrame` (484-638) | `PreparePreview`, `StartStreaming`, `DiscardOldFrames`, `SpawnCapture`, `PreviewLoop`, `WaitPreviewFrame`, `ConvertFrame`, `AddCaptureFrame`, `EndPreview`, `StopStreaming` |
| `capture_thread_func`, `do_capture`, its two loops, `waitCaptureFrame` (741-915) | `BeginCapture`, `CaptureLoop`, `CaptureInner`, `WaitCaptureFrame`, `ConvertForCallback`, `CallCallback`, `CallbackReturns`, `CaptureBroadcast` |

A region under one mutex is one step. A `pthread_cond_wait` is two: the wait, and the wake-up by
a signal, a broadcast or nothing at all; a thread that was woken goes on without looking at
its condition again, as the code does. `setFrameCallback` holds `capture_mutex` from its entry to its
end except in the wait (`CaptureMutex`), but what it writes and tests is used by others without that
mutex, so each of its statements is a step: `stopPreview` may clear the flag and signal between the
test (242) and the wait (247), and a capture thread that has looked at the callback (862, 907) may
find its method cleared or the reference deleted when it calls, which is an abort of the
process (`crashed`). `stopPreview` joins the thread `capture_thread` names
*when it looks*: the capture thread is created by the preview thread, so after a quick stop and
start the variable may name the one of an earlier start, and capture threads are numbered.
`hand` says which frame each thread has in its locals and the slot; `leased` and `lost` are
history. Which frames the pool keeps is abstracted (`get_frame` allocates when the pool is
empty), pixels and formats too.

### VideoCapture and the code

| Code (`VideoCapture.java`) | Actions |
|---|---|
| `startRecording` (290-454) | `StartRecording` (the flag cleared, 294), `PassGuards` (332), `StartInput`, `StartEncoders`, `CreateMuxer`, `SetSignals`, `PostEncoding` |
| `stopRecording`, `release` (456-489) | `StopRecording`, `Release` |
| `videoEncode` (730-855), `writeVideoEncodedBuffer` | `VideoTake`, `VideoCheck`, `VideoNothing`, `VideoFormat`, `VideoFrame`, `VideoEos`, `VideoStop`, `VideoClose`, `VideoEnd`, `VideoReport` |
| `audioEncode` (857-958), `writeAudioEncodedBuffer` | `AudioTake`, `AudioTest`, `AudioInput`, `AudioOutput`, `AudioFormat`, `AudioStop`, `AudioEnd` |
| `mRecordingFuture`, `setupEncoder` (364-388, 523-583) | `RunFuture`, `SetupVideo`, `SetupAudio`, `SetupFinish` |

`Cam` is the thread of `CameraHelper`; `Vid` and `Aud` are the two handler threads, `posted` the jobs
waiting for them; `Exe` is the executor, `tasks` its queue of futures. A `FutureTask` runs once,
so a future that is executed twice does nothing the second time (`ran`). `encoder` is the state of
each `MediaCodec`; an operation that is illegal in it throws, as does any of them at `Fail`. An
exception nobody catches on a handler thread ends the process (`Crashed`); one in the future is
swallowed. `file` is the history of the recording the video thread is at. The samples
are left out; what remains of them is whether a video frame is a key frame and whether the
muxer had been started when it came.

## 3. The runs

| Run | Instance | What it shows |
|---|---|---|
| `usb_safety` | 5 attachments: one of each kind, plugged alone, with permission dialogs whose answer may lose its extras, 2 failing transfers and 1 change of rate; or a CH340 that is plugged a second time, with the permission granted by the system. Unplugged at any step. 3.1 M states | `TypeOK`; `PermissionBeforeOpen`; `HonestBaudrate`: after any mixture of refused rates, failed configurations and recovery, the rate shown is the rate set on the chip; `ReaderAlive`: an old read loop that ends does not leave the new port unread; `GoneIsClosed`: wherever a detachment falls between the steps of a connection, the port of the device that has gone is not left open |
| `usb_live` | 1 attachment, CH340 or FE0C, unplugged at any step; 1 key press; `FairSpec`. 160 k states | `ConnectsPromptly`; `KeysReleasedFe0c` |
| `keys_order` | 2 keys, 2 calling threads, 5 calls, 1 failing write; `FairSpec`. 63 k states | the executor implements `KeyStream` (`Ordered`); an idle executor leaves no key down and no mark (`UpWhenReleased`, `UnmarkedWhenReleased`); `KeyComesUp` |
| `stream` | 2 streams, 2 transfers, 3 frames of 2 payloads, each of which may be lost, 2 failures; `FairSpec`. 467 k states | `NotFreedInFlight`, `HandleOutlivesThreads`, `WholeFrames`; `ImplementsFrameSource`; `StopReturns`: the stop ends whatever transfers are doing; `FramesDelivered` |
| `preview` | 2 previews, a queue of one frame, a callback that is set or removed, 1 failure, three of all these in one behaviour (`Few`); spurious wake-ups. 1.0 M states | `Conserved`, `LeakPerStart`, `QuietAfterStop` |
| `preview_flow` | 1 preview, 2 callback changes; `FairSpec`. 233 k states | `PreviewFlows`, `SetterReturns` |
| `record` | 2 recordings, 1 failure, with a microphone, without one, or with one that cannot be opened; a release at any time; `FairSpec`. 368 k states | `SavedIsPlayable`, `RemovedIsUnplayable`, `MuxerOutlivesAudio`; `StopGetsVerdict`, `ReleaseFrees` |
| `usb_rate_change` | 1 CH340, 1 change of rate | violated: `RateChangeReconnects` |
| `usb_key_release` | 1 CH340, 1 key press | violated: `KeysReleasedCh340` |
| `stream_unplug` | 1 stream, 2 transfers, the camera unplugged | violated: `ActiveNotFreed` |
| `preview_stop` | 1 preview | violated: `StopReturns` |
| `record_early` | 2 recordings, no failure; the caller waits for `onVideoSaved` or `onError` before the second (`Waits`) | violated: `ContinuesUntilStopped` |

`preview` and `preview_flow` compare states under `View`, which forgets *which* frame is where and keeps who
has one, how many are leased and lost, and whether `Conserved` holds. No action and no property
tells one frame from another, so two states with the same view have the same future, and a
state that breaks `Conserved` is never identified with one that does not.

In `usb_safety`, `Sessions` says which attachments may follow one another, and the constraint `Scenario`
spends the bounds where they matter: an attempt that takes three seconds and two failing transfers on the
CH340, one failing transfer on the other kinds, none while a cable is plugged again.

`MuxerOutlivesAudio` and `ReleaseFrees` of `record` say something only while `~early`, that is, as long
as no recording has been begun before the encoders were set up again. What happens otherwise is
`record_early`.

### Why these bounds

- *Attachments.* The fields hold at most three different attachments at once (`driver`,
  `pendingDevice`, `port`), and a broadcast or a local a fourth, but a hazard needs an old one
  and a new one: two in sequence. One is enough where the question is about transfers and about
  two threads that connect, since the attachment does not change then; the run has one of each
  kind because the code path of each kind differs.
- *Failing transfers.* One failure refuses a rate, two refuse both and enter the recovery,
  or fail a rate and then the configuration of the next.
- *Settings.* One change of rate finds the flag left by the first connection; a second
  change finds the same fields.
- *Timers.* A second timer of a kind fires into the same guard as the first; with one it may
  still fire at any moment after it was armed.
- *Deliveries.* `{1}` or `{1, 2}`: the activity and the receiver may both be told of one
  attachment. The shipped runs have one; the theorems hold for both.
- *Keys, callers, calls.* The callers of the app are all on one looper; two threads are more than
  it has, since the methods are public. Five calls hold a press, a tap, a release and two more that overtake or follow.
- *Frames and previews.* Nine blocks of memory are more than all threads can hold, so the pool
  never limits anything. A queue of one frame is full as soon as a second comes. Two starts
  give two capture threads, which is what a wrong join needs; a third start finds the same. Without `Few`, two
  starts, a callback and a failure in one behaviour, `preview` has 3.2 M states and holds too.
- *Streams.* Two transfers: one whose callback runs while the other is cancelled. Three frames: the
  first and the third have the same frame ID bit. Two failures take both transfers out.
- *Recordings.* Two: what the first leaves behind meets the second. A third finds what the second found.

Known to fail outside these bounds or assumptions, and listed as hazards:

In the serial connection:

- Both threads can be in `connectWithPermission` at once when the user is asked for the permission: the
  answer connects on the main thread while a fallback connects on the serial one. No property
  forbids it; the run has it, and says what comes of it.
- `ConnectsPromptly` fails when the cable is plugged again within 3 s of the connection
  attempt of its previous attachment: the fallback finds `isConnecting` still set and too
  young, does nothing, and nothing re-arms it.
- `GoneIsClosed` speaks of one attachment. With a second one it fails: a detection of the new attachment replaces
  `driver` before the detachment of the old one is judged, which is then taken for somebody else's,
  and the old port stays open. The clean-up may also hit the new attachment: the detachment is judged
  (1693-1710), the serial thread stores and opens the new one, and `closeDevice()` (1717) closes that.
- `fe0cConnection` stays set when the clean-up falls between the claim of the interface (1309) and
  the assignment (1317): the manager takes itself for connected, to a device that has gone, and
  connects to no other.
- `HonestBaudrate` fails when a composite device replaces another one whose detachment has not been
  handled yet, its first rate cannot be tried and its second is refused: the port stays open with the
  old `currentBaudrate`, and the recovery leaves an open port alone.
- A FE0C can be connected a second time by a connection job that was queued before the first
  connection had ended.
- A detachment can end the app: the fields it nulls are in use on the serial thread, where only
  `IOException` is caught (the model has the crash as a state).

A second keystroke that comes before the executor has run the release of the first is taken for a duplicate.

In the preview, `setFrameCallback` waits once, without a loop (247): it may go on, clear the method
and delete the callback, while a capture thread is about to call it (the model has the abort as a
state). And it has the lost wake-up of finding 3: a `stopPreview` that signals between its test and its
wait leaves it waiting, which is why `SetterReturns` excepts a preview that has been stopped.

In the recording:

- A start that comes after `onVideoSaved` and before the setup behind it is finished is ended by that
  setup, which clears `mIsRecording` and the track indices: finding 5. `early` marks it.
- A good file is removed when `startRecording()` is called while it is recorded: it clears
  `mIsFirstVideoKeyFrameWrite` (294) before its guards (332), whether these refuse the start, or let it
  pass because the video thread has set the end signal (850) in between. `RemovedIsUnplayable` excepts
  the file that was `disturbed` like this, and nothing else.
- When the microphone fails once, `mAudioEncoder` is null for good; the next setup with audio
  throws in the future, where nobody sees it, before it clears `mIsRecording`, and nothing is
  recorded any more until the object is made anew.
- `release()` after a finished recording leaves the encoders to a future that has run already: they are
  never released. `ReleaseFrees` is about a release *during* a recording.
- A muxer whose `stop()` fails is not released, and its file is left where it is.
- An audio encoder that fails, or announces its format when the video has failed, crashes the app.

Deadlock is not checked: the app may crash, a camera may be left alone, and after the last bounded event
every thread may rest with nothing to do.

### Fairness

`FairSpec` of `UsbSerial` says: the main looper runs its broadcasts and the handler it is
in, and the serial thread runs its job, as long as they can (weak fairness for each thread;
a thread is scheduled, and neither blocks for ever: the dialogs are asynchronous and
`port.read` has a timeout of 5 ms); a delayed runnable that can run again and again does run
(strong fairness for each `Fire(k)` and for `ReleaseKey`: a `MessageQueue` is sorted by due
time, so a runnable is not overtaken for ever by messages that fall due after it, but
it is not enabled while another message is being handled); and time passes. Nothing is
assumed of the user or of the cable: permission is never answered, keys never pressed,
plugs never plugged by fairness. `KeysReleasedCh340` is violated under this same fairness:
`ReleaseKey` is not enabled while the read loop occupies the thread.

`FairSpec` of `KeyExecutor`: the executor's thread runs, and a thread that has marked a key
goes on to the post in the next line.

`Fairness` of `UvcStream`: the event thread goes on, which includes that a transfer in flight ends (libusb
gives it a timeout of 5 s, `stream.c` 1388 and 1404) and that payloads and frames come or are lost; the user caller
goes on, so the application's callback returns; a stop that was called is carried out. Nothing
starts or stops a stream by fairness, and no wake-up is spurious by fairness.

`Fairness` of `UvcPreview`: each of the threads goes on while it can, the camera keeps sending, and the
callback of the application returns; a start, a stop or a setter that was called is carried out. All of it
is weak fairness of a thread: the scheduler of Android runs every thread that can run.
`preview_stop` violates `StopReturns` under it.

`FairSpec` of `VideoCapture`: the four threads go on (weak fairness each), and an encoder that was told
to end delivers its end-of-stream buffer (strong fairness of `VideoEos`, since the loop of
`videoEncode` passes through the poll again and again); `MediaCodec` documents it. The audio
needs no such assumption: the loop ends by itself. No call of `stopRecording` or `release` is assumed.

## 4. The proofs

All assumptions are the named ones of the modules: `NoDev`, `NoKey`, `NoJob`, `NoFrame` and `NoCallback`
are none of the values they stand beside, `Kind` is a function into the three kinds, bounds are
naturals, and a stream has at least one transfer, a frame one payload and the preview queue room for
one frame.

**`TypeCorrect`** (`UsbSerialProofs`). `TypeOK` is not inductive: `CheckPermission` needs its
local to be a device and not null from the choice on, which is `ChosenDevice`. `Typed` is the two together. One
lemma for each action.

**`OpensWithPermission`**. The property says of a thread in `connectWithPermission` that its
device is in `Cleared`: permitted, or gone. It needs to know why a caller may call: a job has
just asked `hasPermission` and the attachment cannot lose its permission without going; a
broadcast waits in `mainq`, possibly for long, so `MessagesCleared` says that a broadcast
that says yes names a device in `Cleared`. `Cleared` never shrinks (`ClearedGrows`: a device
that is unplugged leaves `permitted` and `plugged` at once, and is never plugged again), so
both survive every step of the platform. A broadcast without extras is allowed through only
by `hasPermission` of the pending device.

**`ExecutorTyped`**, **`ExecutorImplementsKeyStream`** (`KeyExecutorProofs`). Under
`requests <- Remaining`, `lost <- faults`, the initial states map to initial states, `Execute`
is a `Post`, a successful `Write` is a `Send` or a `SendTap`, `WriteRelease` is a `Send`, a
failed write is a `Lose`, and `Call`, `Take` and `Unmark` are stutters.

**`QuietMeansUp`**, **`QuietMeansUnmarked`**. `LeavesInv` strengthens both: `LastJob` (the last
job posted is the last of the queue, or, the queue being empty, the job at hand), `SentUp`
(with nothing left and no failure, the target is up unless the last job was a press) and
`DoneUnmarked` (once the job of a last release is done, no key is marked: nothing can have
been marked and posted after it, and what is marked and not posted is not quiet).

**`TypeCorrect`, `Freed`, `Outlives`, `FramesWhole`, `Refines`** (`UvcStreamProofs`). The invariant is
`IInv == Places /\ Holds /\ Pieces`. `Places`: the flag is set exactly while the control thread submits or
the stream is open, and the user caller exists exactly while the handle does. `Holds`: a transfer in
flight is one that is not freed, the current one is neither freed nor in flight, those still to be submitted
are untouched, and once the wait of the stop is over none is left. It speaks of the transfer at hand
because a stop may come between 1045 and 1046. `Pieces`:
whatever came through since the oldest payload of the buffer had the present frame ID bit. It rests on
two lemmas of arithmetic (payloads in order belong to frames in order). The refinement maps `stream` to
the place of the control thread and `inCallback` to that of the user caller.

**`TypeCorrect`, `FramesConserved`, `LeakBounded`, `StopQuiets`** (`UvcPreviewProofs`). The invariant is
`Places /\ Values /\ Frames /\ Course /\ Cleared /\ Losses`. `Frames`: conservation, and which threads have
a frame at which step; seven lemmas about `Accounted` (take a frame from the pool, give it back, move
it, queue it, take it from the queue, clear the queue, lose it) carry each action's case. `Course`: a
preview thread that is at work means that `mIsRunning` is set or the control thread is stopping it, and
the state of the stream follows the step of that thread. `Cleared`: only a preview that runs fills the queue
or the slot, so that what the stop has cleared stays clear. `Losses`: a frame is lost only where the
preview thread finds `mIsRunning` cleared, after which it can only end; so as long as it may still lose one
(`MayLose`), fewer than `starts` are lost.

**`TypeCorrect`, `SavedPlayable`, `RemovedUnplayable`** (`VideoCaptureProofs`). What a file becomes is decided by
`errorOccurred` and `mIsFirstVideoKeyFrameWrite`, when the muxer has been closed. `OneRecording`: a start passes
its guards only when the video thread is between two recordings and nothing is posted to it, so that
no two recordings share flags or muxer. `MuxerAgrees`: `mMuxerStarted` speaks of the muxer there is, which is
there from its creation until the video thread closes it; the audio thread may start it, but only
while it is open. `KeyFrameKnown`: without an error the flag is set only for a file with a key frame, written
to a muxer that was started; and it is set for each of those unless a call of `startRecording()`,
refused or accepted, has cleared it since (`disturbed`). The
theorems need no `~early`: the gap after a recording shortens the next one, but never makes a bad file
a saved one.

**`MuxerOutlives`** (`VideoSessionProofs`). It speaks of a step of the video thread, and needs to
know that every thread is at the recording there is. `SessionInv` says so, while `~early`, in five parts.
`SetupOver`: from the start of a recording to its report the executor has nothing to do, so that nobody
resets an encoder or a flag of it. `StartsAlone`: it starts when both handlers are done with the last one.
`SignalsReset`: no end signal and no end-of-stream is left when its encoding is posted. `AudioFirst`: the
video is told to end only by an audio thread that is done, or when there is none. `EndsByEos`: without an error the video leaves its loop on an
end-of-stream buffer. The invariant is not inductive without `StartsAlone`'s second part (a post to a video
thread that still reports would put its setup behind the new recording). `~early` is the exception the
limits of section 3 describe: a recording begun too early is ended by the setup of the one before.

**`GoneStaysClosed`, `TellsRateAsked`, `ReaderStays`** (`UsbSerialPortProofs`). They speak of the first
attachment (`OneSeen`: no two have been plugged), of any kind, and assume nothing about permissions, threads or
bounds: both threads may connect to it at once, at different steps, while the main thread cleans up after its
detachment. With several attachments the three properties are only model-checked (`usb_safety`), as far as they
hold there.

- `KnownInv`, for any number of attachments: whatever the fields, locals, queues and jobs name has been plugged
  (`DevicesKnown`, `MessagesKnown`), and a clean-up is under way only when something has gone (`DetachingGone`). With
  one attachment, then, a clean-up is about it, and nothing opens it any more.
- `OneInv`: `OpenIsPort` (what is open is the port and the driver), `PortOfDriver` (a port, or a driver that was read
  and is about to become the port, is that of `driver` while the device is there), `Closing` (past the closing of
  the port nothing is open) and `GoneClosed`: the port of a device that has gone is open only until its
  detachment has been handled. A detachment that finds `driver` to be the device, or no device at all,
  is judged ours, and any other it cannot find. `GoneStaysClosed` follows.
- `RateInv`: only a FE0C is claimed (`ClaimsFe0c`), and the rate that is told is the rate on the wire unless the
  device has gone and its port is closed (`HonestUntilGone`): whoever sets a rate on the chip tells it in the
  same step, so only the clean-up parts the two, and by then it has closed the port.
- `ReaderInv`: while a thread tries rates, `driver` is the device, as long as that is there (`DriverStays`); the port of
  a FE0C is not opened unless a transfer has failed (`Fe0cUnopened`), so `startReading` never skips an open
  port; and with `isReading` set an open port has its reader or somebody about to start one (`ReaderKept`), as long
  as no transfer has failed: a read that fails ends the loop for good.

Only model-checked: every liveness property (`ConnectsPromptly`, `KeysReleasedFe0c`,
`KeyComesUp`, `StopReturns`, `FramesDelivered`, `SetterReturns`, `PreviewFlows`, `StopGetsVerdict`, `ReleaseFrees`),
since the prover has no rules for fairness. Every invariant and every action property of the passing runs is
stated by a theorem.

## 5. Findings

Each is a violation run whose counterexample is a behaviour of the code; `PROJECT.json` quotes
the lines.

1. *A change of the baud rate ends the connection* (`usb_rate_change`).
   `reconnectWithBaudrate` closes the port and calls `connect()`, which returns at its guard:
   `isConnecting` has been set since the first connection and only `closeDevice()` clears it.
2. *A key pressed on a CH340 stays down* (`usb_key_release`). The automatic release is posted
   to the serial thread, which the read loop never leaves.
3. *A stop of the preview can wait for ever* (`preview_stop`). `stopPreview` clears `mIsRunning` and signals
   without the mutex; when the preview thread has tested the flag and is about to wait, the signal finds
   no waiter, no frame is queued any more, and the join never returns. It holds the lock of
   `CameraInternal` then.
4. *A transfer in flight is freed* (`stream_unplug`), when the camera was unplugged while it streamed: the
   cancellation fails with another error than the one that means "completed", and the stop frees
   the transfer, while libusb, whose loop over the transfers is commented out, still has it.
5. *A recording begun on `onVideoSaved` is ended by the one before* (`record_early`). The documentation of
   `startRecording()` says that it "continues until `stopRecording()` is called" (279), and that of
   `stopRecording()` asks the caller to wait for no more than `onVideoSaved` or `onError` before the next start
   (447-454). The setup of the encoders runs after that callback and ends with `mIsRecording = false` (582).

## 6. What is left

Planned, in this order:

1. `VncServer`: service, native thread and clients. Promises: no callback into a null object,
   no frame pushed to a freed server.
2. `WebRtcSignaling`: the offers, answers and polling of clients against start and stop.
   Promise: the answer a client gets belongs to its offer.
3. `RemoteInput` and `MouseWorker`: the button masks and positions of remote clients, down to
   the reports. Abstract: the buttons of the target follow those of the client.
4. `KeyThreads`: the senders with a thread of their own, and the text sender. Compared with
   `KeyStream`.
5. Camera connection and its watchdog.
6. More proofs: `ReaderAlive` and `HonestBaudrate` of one CH340 that is plugged again, and the invariants behind the liveness properties.

Not modelled within the modelled components:

- *Serial connection manager*: control lines, debugging helpers, `release()`.
- *Native preview*: capturing to a `Surface` (`setCaptureDisplay` has no caller), the pool's contents, the
  destructor and `release`, sizes, formats and pixels. After a callback was deleted in use, or
  a frame freed in use, the behaviour is undefined and not followed.
- *Streaming*: negotiation; `uvc_stream_get_frame`, which has no caller; iSight headers; failing
  allocations; that a failed open leaves the interface claimed; that a start whose submissions fail after the
  first (`stream.c` 1427) is reported as a success, beyond the transfers it leaves out.
- *Recording*: `setConfig` and `setResolution`, the output to a `MediaStore`, and a file descriptor that
  cannot be closed. `MediaMuxerWrapper` and `MediaEncoder` (`encoder/`) are constructed by
  nothing in the app and are left out. `CameraHelper` calls `stopRecording` only when
  `isRecording()`, which is the guard of `StopRecording`.

Not modelled, and not planned: views and layout, preferences, on-screen keyboards, firmware
status parsing, the examples, and vendored and generated code. The last makes up nearly all of the C
and C++ lines of the repository (libyuv, libjpeg-turbo, libusb, rapidjson): pixel kernels, tables and
parsers without a protocol of this app; of libuvc and libusb the modules take the part the camera
rests on.
