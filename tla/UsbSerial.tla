------------------------------ MODULE UsbSerial ------------------------------
(***************************************************************************)
(* The serial side of the KVM app: UsbDeviceManager.                       *)
(*                                                                         *)
(* Two threads share the fields of the manager without a lock:             *)
(*   "main"    the main looper: USB broadcasts, posted timers, the UI, and *)
(*             connectWithPermission when it is called by the broadcast    *)
(*             that answers a permission dialog;                           *)
(*   "serial"  the HandlerThread "Serial": detection jobs, connection jobs *)
(*             and the read loop, which keeps the thread while it runs.    *)
(*                                                                         *)
(* connectWithPermission runs on either thread.  It and the clean-up after *)
(* a detachment are split where the other thread can observe or change the *)
(* shared fields: a test and the use of what was tested are two steps.  A  *)
(* UsbDevice is one attachment: plugging the cable again yields another    *)
(* UsbDevice, so each element of Device is plugged at most once.           *)
(***************************************************************************)
EXTENDS Naturals, Sequences, FiniteSets

CONSTANTS
  Device,        \* the attachments (UsbDevice objects)
  Kind,          \* what each of them is
  NoDev,         \* the null reference
  Granted,       \* attachments whose permission the system grants by itself
  ExtrasDropped, \* may a permission broadcast lose its extras?
  MaxFaults,     \* bound: USB transfers that fail although the device is there
  MaxSettings,   \* bound: baud rate changes made by the user
  MaxKeys,       \* bound: key presses
  MaxTimers,     \* bound: pending timers of one kind
  MaxPlugged,    \* bound: devices plugged at the same time
  Sessions,      \* bound: which devices may be plugged one after the other
  Deliveries     \* how often the app may be told of one attachment

ASSUME DeviceAssumption ==
  /\ NoDev \notin Device
  /\ Kind \in [Device -> {"ch340", "fe0c", "composite"}]
  /\ Granted \subseteq Device
  /\ ExtrasDropped \in BOOLEAN
ASSUME BoundAssumption ==
  /\ MaxFaults \in Nat
  /\ MaxSettings \in Nat
  /\ MaxKeys \in Nat
  /\ MaxTimers \in Nat
  /\ MaxPlugged \in Nat
  /\ Deliveries \subseteq {1, 2}

VARIABLES
  \* the platform
  plugged,       \* UsbManager.getDeviceList()
  seen,          \* attachments that have been plugged so far
  permitted,     \* UsbManager.hasPermission()
  asked,         \* permission dialogs on the screen
  wire,          \* the rate each CH340 was last set to
  held,          \* targets on which a key is down
  \* the two message queues
  mainq,         \* broadcasts delivered to the main looper
  timers,        \* postDelayed runnables of the main looper, by kind
  jobs,          \* jobs of the serial handler
  releases,      \* delayed key releases posted to the serial handler
  \* the fields of UsbDeviceManager
  driver, pendingDevice, port, open, currentBaudrate, preferredBaudrate, fe0c,
  isReading,
  isConnecting,  \* with its age: "no", "recent", or "stuck" after 3 s
  \* where each thread is, and its locals
  pc, dev, drv, baud, untried,
  \* the application has died of an uncaught exception
  crashed,
  \* the user asked for another rate and the port was closed for it
  reconnecting,
  \* bounds
  faults, settings, keys

platform == <<plugged, seen, permitted, asked, wire, held>>
queues   == <<mainq, timers, jobs, releases>>
fields   == <<driver, pendingDevice, port, open, currentBaudrate,
              preferredBaudrate, fe0c, isReading, isConnecting>>
locals   == <<pc, dev, drv, baud, untried>>
counters == <<faults, settings, keys>>
vars     == <<platform, queues, fields, locals, crashed, reconnecting, counters>>

Thread   == {"main", "serial"}
Timer    == {"init", "fallback", "retry", "retryConnect"}
Job      == {"detect", "connect", "read"}
Baud     == {9600, 115200}
NoBaud   == 0
DeviceOrNull == Device \cup {NoDev}

Broadcast ==
       [type : {"attach", "detach"}, device : Device]
  \cup [type : {"permission"}, device : DeviceOrNull, granted : BOOLEAN]

Attempting == {"try", "port", "assign", "init", "claim", "claimed", "store", "keep",
               "unclaim", "opening", "config", "throw", "next"}
Recovering == {"recover", "direct", "swap", "reopen", "slow", "resume", "abort"}
Connecting == {"driver", "match", "open", "finish"} \cup Attempting \cup Recovering
Detaching  == {"whose", "nullFe0c", "closePort", "resetRate", "allowReconnect",
               "stopReading", "nullDriver", "nullPending", "nullPort"}
Reading    == {"loop", "read"}
PC         == {"idle", "found", "detected", "chosen", "perm"}
              \cup Connecting \cup Detaching \cup Reading

-----------------------------------------------------------------------------
(* Helpers *)

\* isConnected()
IsOpen      == port # NoDev /\ port \in open
IsConnected == fe0c # NoDev \/ IsOpen

\* The attachments detectOpenterfaceDevice() may return: a dedicated serial
\* device when one is plugged, else a composite one.
Dedicated == {d \in plugged : Kind[d] # "composite"}
Detected  == IF Dedicated # {} THEN Dedicated ELSE plugged

\* Mutant: a rate that is none of the two the firmware knows.
DefaultBaudrateOdd(d) == IF Kind[d] = "ch340" THEN 57600 ELSE 115200

\* applyDeviceSpecificConfig()
DefaultBaudrate(d) ==
  IF Kind[d] = "ch340" THEN 9600 ELSE 115200

\* The rates connectWithPermission tries after the preferred one.
Baudrates(d) == IF Kind[d] = "fe0c" THEN {115200} ELSE Baud

Fault      == faults < MaxFaults /\ faults' = faults + 1

\* Mutant: the runnable is not posted.
ArmNever(k) == UNCHANGED timers

Arm(k)     == timers' = [timers EXCEPT ![k] = IF @ < MaxTimers THEN @ + 1 ELSE @]
At(t, l)   == ~crashed /\ pc[t] = l
Goto(t, l) == pc' = [pc EXCEPT ![t] = l]

\* thread t returns to its message queue; its locals die
Return(t) ==
  /\ Goto(t, "idle")
  /\ dev' = [dev EXCEPT ![t] = NoDev]
  /\ baud' = [baud EXCEPT ![t] = NoBaud]
  /\ untried' = [untried EXCEPT ![t] = {}]
  /\ UNCHANGED drv

\* connect() past its guard
StartConnect ==
  /\ isConnecting' = "recent"
  /\ jobs' = Append(jobs, "connect")

\* connect()
Connect ==
  IF isConnecting # "no" \/ IsConnected
  THEN UNCHANGED <<isConnecting, jobs>>
  ELSE StartConnect

\* currentBaudrate follows the rate b that was just set on the chip.
\* Mutant: it follows the rate that was asked for.
TrackPreferred(b) == currentBaudrate' = preferredBaudrate
TrackBaudrate(b)  == currentBaudrate' = b

\* Mutant: a reader is believed to be there already.
StartReadingOnce ==
  IF fe0c # NoDev \/ isReading
  THEN UNCHANGED <<isReading, jobs>>
  ELSE isReading' = TRUE /\ jobs' = Append(jobs, "read")

\* startReading()
StartReading ==
  IF fe0c # NoDev
  THEN UNCHANGED <<isReading, jobs>>
  ELSE isReading' = TRUE /\ jobs' = Append(jobs, "read")

-----------------------------------------------------------------------------
(* The main looper: one message at a time *)

MainIdle == ~crashed /\ pc["main"] = "idle"

\* usbReceiver, ACTION_USB_DEVICE_ATTACHED, and handleUsbDevice()
OnAttached ==
  /\ MainIdle
  /\ mainq # <<>> /\ Head(mainq).type = "attach"
  /\ mainq' = Tail(mainq)
  /\ jobs' = Append(jobs, "detect")
  /\ UNCHANGED <<platform, timers, releases, fields, locals, crashed,
                 reconnecting, counters>>

\* isOurDevice: the first test, and the two that follow it.
\* Mutant: the driver is not compared.
InUseNever(d) == FALSE
InUse(d)      == driver = d
IsOurs(d)     == pendingDevice = d \/ (driver = NoDev /\ pendingDevice = NoDev)

\* usbReceiver, ACTION_USB_DEVICE_DETACHED
OnDetached ==
  /\ MainIdle
  /\ mainq # <<>> /\ Head(mainq).type = "detach"
  /\ mainq' = Tail(mainq)
  /\ LET d == Head(mainq).device
     IN  IF InUse(d)
         THEN Goto("main", "nullFe0c") /\ UNCHANGED dev
         ELSE Goto("main", "whose") /\ dev' = [dev EXCEPT !["main"] = d]
  /\ UNCHANGED <<platform, timers, jobs, releases, fields, drv, baud, untried, crashed,
                 reconnecting, counters>>

TestOwner ==
  /\ At("main", "whose")
  /\ Goto("main", IF IsOurs(dev["main"]) THEN "nullFe0c" ELSE "idle")
  /\ dev' = [dev EXCEPT !["main"] = NoDev]
  /\ UNCHANGED <<platform, queues, fields, drv, baud, untried, crashed, reconnecting,
                 counters>>

\* closeDevice() and the three assignments that follow it, in their order
Following ==
  [nullFe0c |-> "closePort", closePort |-> "resetRate", resetRate |-> "allowReconnect",
   allowReconnect |-> "stopReading", stopReading |-> "nullDriver",
   nullDriver |-> "nullPending", nullPending |-> "nullPort", nullPort |-> "idle"]

\* Field x becomes v at place l of the clean-up, and stays as it is elsewhere.
After(l, x, v) == IF pc["main"] = l THEN v ELSE x

CleanUp ==
  /\ ~crashed /\ pc["main"] \in DOMAIN Following
  /\ Goto("main", Following[pc["main"]])
  /\ fe0c' = After("nullFe0c", fe0c, NoDev)
  /\ open' = After("closePort", open, open \ {port})
  /\ currentBaudrate' = After("resetRate", currentBaudrate, NoBaud)
  /\ isConnecting' = After("allowReconnect", isConnecting, "no")
  /\ isReading' = After("stopReading", isReading, FALSE)
  /\ driver' = After("nullDriver", driver, NoDev)
  /\ pendingDevice' = After("nullPending", pendingDevice, NoDev)
  /\ port' = After("nullPort", port, NoDev)
  /\ UNCHANGED <<platform, queues, preferredBaudrate, dev, drv, baud, untried, crashed,
                 reconnecting, counters>>

\* The answer m is a yes for device d, or the system says so itself.
\* Mutant: the answer is not looked at.
AllowedAnyway(m, d) == TRUE
Allowed(m, d)       == m.granted \/ d \in permitted

\* usbReceiver, ACTION_USB_PERMISSION
OnPermission ==
  /\ MainIdle
  /\ mainq # <<>> /\ Head(mainq).type = "permission"
  /\ mainq' = Tail(mainq)
  /\ LET m == Head(mainq)
         d == IF m.device = NoDev THEN pendingDevice ELSE m.device
     IN  IF d # NoDev /\ Allowed(m, d)
         THEN Goto("main", "driver") /\ dev' = [dev EXCEPT !["main"] = d]
         ELSE UNCHANGED <<pc, dev>>
  /\ UNCHANGED <<platform, timers, jobs, releases, fields, drv, baud, untried,
                 crashed, reconnecting, counters>>

\* The runnables posted with postDelayed: the 3 s fallback of init(), the
\* 500 ms fallback of detectDeviceOnly(), the 2 s retry of connect() and the
\* 500 ms connect() that follows it.
Fire(k) ==
  /\ MainIdle
  /\ timers[k] > 0
  /\ IF k = "retry" /\ isConnecting = "no" /\ ~IsConnected
     THEN timers' = [timers EXCEPT !["retry"] = @ - 1,
                                   !["retryConnect"] = IF @ < MaxTimers THEN @ + 1 ELSE @]
     ELSE timers' = [timers EXCEPT ![k] = @ - 1]
  /\ CASE k \in {"init", "retryConnect"} -> Connect
       [] k = "fallback" ->
            IF ~IsConnected /\ isConnecting # "recent"
            THEN StartConnect
            ELSE UNCHANGED <<isConnecting, jobs>>
       [] k = "retry" ->
            /\ IF isConnecting = "no" /\ ~IsConnected
               THEN jobs' = Append(jobs, "detect")
               ELSE UNCHANGED jobs
            /\ UNCHANGED <<isConnecting>>
  /\ UNCHANGED <<platform, mainq, releases, driver, pendingDevice, port, open,
                 currentBaudrate, preferredBaudrate, fe0c,
                 isReading, locals, crashed, reconnecting, counters>>

\* onDeviceOpen() of the camera posts connect()
CameraOpened ==
  /\ MainIdle
  /\ plugged # {}
  /\ Connect
  /\ UNCHANGED <<platform, mainq, timers, releases, driver, pendingDevice, port,
                 open, currentBaudrate, preferredBaudrate, fe0c,
                 isReading, locals, crashed, reconnecting,
                 counters>>

\* The baud rate dialogs: reconnectWithBaudrate() when connected.  A dialog
\* compares the choice with the preference it read when it was opened, so the
\* rate may be any of the two by now.
Reconnect(b) ==
  /\ MainIdle
  /\ settings < MaxSettings
  /\ IsConnected
  /\ settings' = settings + 1
  /\ open' = open \ {port}
  /\ reconnecting' = (reconnecting \/ IsOpen)
  /\ preferredBaudrate' = b
  /\ IF isConnecting # "no" \/ fe0c # NoDev
     THEN UNCHANGED <<isConnecting, jobs>>
     ELSE StartConnect
  /\ UNCHANGED <<platform, mainq, timers, releases, driver, pendingDevice, port,
                 currentBaudrate, fe0c, isReading, locals,
                 crashed, faults, keys>>

\* ... and setPreferredBaudrate() when not
SetPreferredBaudrate(b) ==
  /\ MainIdle
  /\ settings < MaxSettings
  /\ ~IsConnected
  /\ settings' = settings + 1
  /\ preferredBaudrate' = b
  /\ UNCHANGED <<platform, queues, driver, pendingDevice, isConnecting,
                 port, open, currentBaudrate, fe0c, isReading,
                 locals, crashed, reconnecting, faults, keys>>

\* Where writeData() sends its bytes
Target == IF fe0c # NoDev THEN fe0c ELSE port

\* sendKeyRelease() is posted to the serial handler.  Mutant: it is not.
PostNoRelease == UNCHANGED releases
PostRelease   == releases' = releases + 1

\* onKeyDown: sendKeyPressWithAutoRelease()
KeyPress ==
  /\ MainIdle
  /\ keys < MaxKeys
  /\ IsConnected
  /\ keys' = keys + 1
  /\ \/ /\ Target \in plugged
        /\ held' = held \cup {Target}
        /\ PostRelease
        /\ UNCHANGED faults
     \/ /\ IF Target \in plugged THEN Fault ELSE UNCHANGED faults
        /\ UNCHANGED <<held, releases>>
  /\ UNCHANGED <<plugged, seen, permitted, asked, wire, mainq, timers, jobs,
                 fields, locals, crashed, reconnecting, settings>>

-----------------------------------------------------------------------------
(* connectWithPermission(dev[t]), on thread t *)

Abort(t) == isConnecting' = "no" /\ Return(t)

\* find or create the driver of the device
FindDriver(t) ==
  /\ At(t, "driver")
  /\ \/ /\ driver = dev[t]
        /\ Goto(t, "open")
        /\ UNCHANGED <<isConnecting, dev, drv, baud, untried>>
     \/ /\ driver # dev[t] /\ dev[t] \in plugged
        /\ Goto(t, "match")
        /\ UNCHANGED <<isConnecting, dev, drv, baud, untried>>
     \/ /\ driver # dev[t] /\ dev[t] \notin plugged
        /\ Abort(t)
  /\ UNCHANGED <<platform, queues, driver, pendingDevice, port, open, currentBaudrate,
                 preferredBaudrate, fe0c, isReading, crashed, reconnecting,
                 counters>>

\* The driver found for the device at hand is stored, by a detection, by the
\* choice of a device, or here.  The device may have gone since it was listed.
StoreDriver(t) ==
  /\ \/ At(t, "found") /\ Goto(t, "detected") /\ UNCHANGED preferredBaudrate
     \/ /\ At(t, "chosen") /\ Goto(t, "perm")
        /\ preferredBaudrate' = DefaultBaudrate(dev[t])
     \/ At(t, "match") /\ Goto(t, "open") /\ UNCHANGED preferredBaudrate
  /\ driver' = dev[t]
  /\ UNCHANGED <<platform, queues, pendingDevice, isConnecting, port, open,
                 currentBaudrate, fe0c, isReading, dev, drv, baud, untried, crashed,
                 reconnecting, counters>>

\* usbManager.openDevice()
OpenDevice(t) ==
  /\ At(t, "open")
  /\ \/ /\ dev[t] \in plugged
        /\ baud' = [baud EXCEPT ![t] = preferredBaudrate]
        /\ untried' = [untried EXCEPT ![t] = Baudrates(dev[t])]
        /\ Goto(t, "try")
        /\ UNCHANGED <<isConnecting, dev, drv, faults>>
     \/ /\ IF dev[t] \in plugged THEN Fault ELSE UNCHANGED faults
        /\ Abort(t)
  /\ UNCHANGED <<platform, queues, driver, pendingDevice, port, open,
                 currentBaudrate, preferredBaudrate, fe0c, isReading, crashed,
                 reconnecting, settings, keys>>

\* trySerialConfiguration(): the test of driver ...
TryBaudrate(t) ==
  /\ At(t, "try")
  /\ Goto(t, IF driver = NoDev THEN "next" ELSE "port")
  /\ UNCHANGED <<platform, queues, fields, dev, drv, baud, untried, crashed, reconnecting,
                 counters>>

\* ... and port = driver.getPorts().get(0), here and in two other places: the
\* driver is read again, an exception leading to place l when it is null, and
\* the port is assigned from what was read.
ReadDriver(t, from, to, l) ==
  /\ At(t, from)
  /\ drv' = [drv EXCEPT ![t] = driver]
  /\ Goto(t, IF driver = NoDev THEN l ELSE to)
  /\ UNCHANGED <<platform, queues, fields, dev, baud, untried, crashed, reconnecting,
                 counters>>

AssignPort(t, from, to) ==
  /\ At(t, from)
  /\ port' = drv[t]
  /\ drv' = [drv EXCEPT ![t] = NoDev]
  /\ Goto(t, to)
  /\ UNCHANGED <<platform, queues, driver, pendingDevice, open, currentBaudrate,
                 preferredBaudrate, fe0c, isReading, isConnecting, dev, baud, untried,
                 crashed, reconnecting, counters>>

GetPort(t) ==
  \/ ReadDriver(t, "port", "assign", "throw")  \/ AssignPort(t, "assign", "init")
  \/ ReadDriver(t, "store", "keep", "unclaim") \/ AssignPort(t, "keep", "finish")
  \/ ReadDriver(t, "direct", "swap", "abort")  \/ AssignPort(t, "swap", "reopen")

\* which initialisation, by the device of the driver, read once more
ChooseInit(t) ==
  /\ At(t, "init")
  /\ Goto(t, IF driver = NoDev THEN "throw"
             ELSE IF Kind[driver] = "fe0c" THEN "claim" ELSE "opening")
  /\ UNCHANGED <<platform, queues, fields, dev, drv, baud, untried, crashed, reconnecting,
                 counters>>

\* initializeFE0CPort(): read driver again, claim the interface of the device
\* that was opened; no port is opened.
ClaimFe0c(t) ==
  /\ At(t, "claim")
  /\ \/ dev[t] \in plugged /\ Goto(t, "claimed") /\ UNCHANGED faults
     \/ /\ IF dev[t] \in plugged THEN Fault ELSE UNCHANGED faults
        /\ Goto(t, "next")
     \/ driver = NoDev /\ Goto(t, "unclaim") /\ UNCHANGED faults
  /\ UNCHANGED <<platform, queues, fields, dev, drv, baud, untried, crashed, reconnecting,
                 settings, keys>>

\* ... keep the connection, whatever has become of the device meanwhile,
KeepFe0c(t) ==
  /\ At(t, "claimed")
  /\ fe0c' = dev[t]
  /\ TrackBaudrate(baud[t])
  /\ Goto(t, "store")
  /\ UNCHANGED <<platform, queues, driver, pendingDevice, port, open, preferredBaudrate,
                 isReading, isConnecting, dev, drv, baud, untried, crashed, reconnecting,
                 counters>>

\* ... and give it up in the catch block.
DropFe0c(t) ==
  /\ At(t, "unclaim")
  /\ fe0c' = NoDev
  /\ Goto(t, "next")
  /\ UNCHANGED <<platform, queues, driver, pendingDevice, port, open, currentBaudrate,
                 preferredBaudrate, isReading, isConnecting, dev, drv, baud, untried,
                 crashed, reconnecting, counters>>

\* port.open() needs the connection that was made to dev[t].
Openable(t) == port # NoDev /\ {port, dev[t]} \subseteq plugged

\* port.open() of the CH340 initialisations, which close and reopen a port
\* that is open already, and of initializeStandardPort(), which only closes it.
\* It acts on the field `port', which the other thread may have nulled.  The
\* CH340 initialisations read driver again, and fail when it is null.
OpenPort(t) ==
  /\ At(t, "opening")
  /\ LET opens == Openable(t) /\ ~(Kind[port] = "composite" /\ port \in open)
     IN  \/ /\ opens
            /\ open' = open \cup {port}
            /\ Goto(t, "config")
            /\ UNCHANGED faults
         \/ /\ IF opens /\ ~(Kind[port] = "ch340" /\ driver = NoDev)
               THEN Fault
               ELSE UNCHANGED faults
            /\ open' = open \ {port}
            /\ Goto(t, "next")
  /\ UNCHANGED <<platform, queues, driver, pendingDevice, port, currentBaudrate,
                 preferredBaudrate, fe0c, isReading, isConnecting, dev, drv, baud, untried,
                 crashed, reconnecting, settings, keys>>

\* the catch block of trySerialConfiguration()
CatchAttempt(t) ==
  /\ At(t, "throw")
  /\ open' = open \ {port}
  /\ Goto(t, "next")
  /\ UNCHANGED <<platform, queues, driver, pendingDevice, port, currentBaudrate,
                 preferredBaudrate, fe0c, isReading, isConnecting, dev, drv, baud, untried,
                 crashed, reconnecting, counters>>

\* setParameters(), DTR and RTS, and the verdict of the attempt.  They act on
\* the field `port', which the other thread may have replaced or nulled; a
\* composite device that refuses its parameters leaves its port open.
Configure(t) ==
  /\ At(t, "config")
  /\ \/ /\ IsOpen /\ port \in plugged
        /\ wire' = [wire EXCEPT ![port] = baud[t]]
        /\ TrackBaudrate(baud[t])
        /\ Goto(t, "finish")
        /\ UNCHANGED <<open, faults>>
     \/ /\ IF IsOpen /\ port \in plugged THEN Fault ELSE UNCHANGED faults
        /\ open' = IF port # NoDev /\ Kind[port] = "composite"
                   THEN open ELSE open \ {port}
        /\ Goto(t, "next")
        /\ UNCHANGED <<wire, currentBaudrate>>
  /\ UNCHANGED <<plugged, seen, permitted, asked, held, queues, driver,
                 pendingDevice, isConnecting, port, preferredBaudrate,
                 fe0c, isReading, dev, drv, baud, untried, crashed,
                 reconnecting, settings, keys>>

\* the loop over the remaining rates, highest first
NextBaudrate(t) ==
  /\ At(t, "next")
  /\ LET left == untried[t] \ {preferredBaudrate}
     IN  IF left = {}
         THEN Goto(t, "recover") /\ UNCHANGED <<baud, untried>>
         ELSE \E b \in left :
                /\ \A c \in left : c <= b
                /\ baud' = [baud EXCEPT ![t] = b]
                /\ untried' = [untried EXCEPT ![t] = {c \in @ : c < b}]
                /\ Goto(t, "try")
  /\ UNCHANGED <<platform, queues, fields, dev, drv, crashed, reconnecting, counters>>

\* storeBulkTransferResources(), onConnected() and startReading().
\* isConnecting stays set.
Finish(t) ==
  /\ At(t, "finish")
  /\ StartReading
  /\ Return(t)
  /\ reconnecting' = FALSE
  /\ UNCHANGED <<platform, mainq, timers, releases, driver, pendingDevice,
                 isConnecting, port, open, currentBaudrate, preferredBaudrate,
                 fe0c, crashed, counters>>

\* advancedSerialRecovery(): open the device again ...
Recover(t) ==
  /\ At(t, "recover")
  /\ \/ dev[t] \in plugged /\ Goto(t, "direct") /\ UNCHANGED faults
     \/ /\ IF dev[t] \in plugged THEN Fault ELSE UNCHANGED faults
        /\ Goto(t, "abort")
  /\ UNCHANGED <<platform, queues, fields, dev, drv, baud, untried, crashed, reconnecting,
                 settings, keys>>

\* ... open its port; one that is open already throws and stays as it is
Reopen(t) ==
  /\ At(t, "reopen")
  /\ \/ /\ Openable(t) /\ port \notin open
        /\ open' = open \cup {port}
        /\ Goto(t, "slow")
        /\ UNCHANGED faults
     \/ /\ IF Openable(t) /\ port \notin open THEN Fault ELSE UNCHANGED faults
        /\ Goto(t, "abort")
        /\ UNCHANGED open
  /\ UNCHANGED <<platform, queues, driver, pendingDevice, port, currentBaudrate,
                 preferredBaudrate, fe0c, isReading, isConnecting, dev, drv, baud, untried,
                 crashed, reconnecting, settings, keys>>

\* ... set 9600, with no DTR or RTS,
SlowDown(t) ==
  /\ At(t, "slow")
  /\ \/ /\ IsOpen /\ port \in plugged
        /\ wire' = [wire EXCEPT ![port] = 9600]
        /\ currentBaudrate' = 9600
        /\ reconnecting' = FALSE
        /\ Goto(t, "resume")
        /\ UNCHANGED <<open, faults>>
     \/ /\ IF IsOpen /\ port \in plugged THEN Fault ELSE UNCHANGED faults
        /\ open' = open \ {port}
        /\ Goto(t, "abort")
        /\ UNCHANGED <<wire, currentBaudrate, reconnecting>>
  /\ UNCHANGED <<plugged, seen, permitted, asked, held, queues, driver, pendingDevice, port,
                 preferredBaudrate, fe0c, isReading, isConnecting, dev, drv, baud, untried,
                 crashed, settings, keys>>

\* ... and start reading.
Resume(t) ==
  /\ At(t, "resume")
  /\ StartReading
  /\ Goto(t, "abort")
  /\ UNCHANGED <<platform, mainq, timers, releases, driver, pendingDevice, port, open,
                 currentBaudrate, preferredBaudrate, fe0c, isConnecting, dev, drv, baud,
                 untried, crashed, reconnecting, counters>>

\* the end of connectWithPermission() after a recovery
GiveUp(t) ==
  /\ At(t, "abort")
  /\ Abort(t)
  /\ UNCHANGED <<platform, queues, driver, pendingDevice, port, open, currentBaudrate,
                 preferredBaudrate, fe0c, isReading, crashed, reconnecting, counters>>

Attempt(t) ==
  \/ TryBaudrate(t) \/ GetPort(t) \/ ChooseInit(t) \/ ClaimFe0c(t) \/ KeepFe0c(t)
  \/ DropFe0c(t) \/ OpenPort(t) \/ Configure(t) \/ CatchAttempt(t) \/ NextBaudrate(t)

Recovery(t) == Recover(t) \/ Reopen(t) \/ SlowDown(t) \/ Resume(t) \/ GiveUp(t)

ConnectWithPermission(t) ==
  \/ FindDriver(t) \/ StoreDriver(t) \/ OpenDevice(t) \/ Attempt(t) \/ Finish(t)
  \/ Recovery(t)

-----------------------------------------------------------------------------
(* The serial thread: its jobs, and the steps of the longer ones *)

SerialIdle == ~crashed /\ pc["serial"] = "idle"

NextJob(j) ==
  /\ SerialIdle
  /\ jobs # <<>> /\ Head(jobs) = j
  /\ jobs' = Tail(jobs)

\* the job of detectDeviceOnly(), up to the list of its drivers
Detect ==
  /\ NextJob("detect")
  /\ \/ Detected = {} /\ UNCHANGED <<dev, pc>>
     \/ \E d \in Detected :
          dev' = [dev EXCEPT !["serial"] = d] /\ Goto("serial", "found")
  /\ UNCHANGED <<platform, mainq, timers, releases, fields, drv, baud, untried,
                 crashed, reconnecting, counters>>

\* ... and from the assignment of driver on.  It reads the field again: when a
\* detach has nulled it meanwhile, nobody catches the exception.
StoreDevice ==
  /\ At("serial", "detected")
  /\ Return("serial")
  /\ IF driver = NoDev
     THEN /\ crashed' = TRUE
          /\ UNCHANGED <<preferredBaudrate, pendingDevice, timers>>
     ELSE /\ preferredBaudrate' = DefaultBaudrate(driver)
          /\ pendingDevice' = driver
          /\ Arm("fallback")
          /\ UNCHANGED crashed
  /\ UNCHANGED <<platform, mainq, jobs, releases, driver, isConnecting,
                 port, open, currentBaudrate, fe0c, isReading,
                 reconnecting, counters>>

\* the job of connect(): choose the device
ChooseDevice ==
  /\ NextJob("connect")
  /\ \/ /\ pendingDevice # NoDev
        /\ dev' = [dev EXCEPT !["serial"] = pendingDevice]
        /\ Goto("serial", "perm")
        /\ UNCHANGED <<isConnecting, timers>>
     \/ /\ pendingDevice = NoDev
        /\ \E d \in Detected : dev' = [dev EXCEPT !["serial"] = d]
        /\ Goto("serial", "chosen")
        /\ UNCHANGED <<isConnecting, timers>>
     \/ /\ pendingDevice = NoDev /\ Detected = {}
        /\ isConnecting' = "no"
        /\ Arm("retry")
        /\ UNCHANGED <<dev, pc>>
  /\ UNCHANGED <<platform, mainq, releases, driver, pendingDevice, port, open,
                 currentBaudrate, preferredBaudrate, fe0c, isReading, drv,
                 baud, untried, crashed, reconnecting, counters>>

\* A device that has gone since it was found or chosen has no driver: the
\* detection ends, and so does the connection.
NoDriver ==
  /\ At("serial", "found") \/ At("serial", "chosen")
  /\ dev["serial"] \notin plugged
  /\ isConnecting' = IF pc["serial"] = "chosen" THEN "no" ELSE isConnecting
  /\ Return("serial")
  /\ UNCHANGED <<platform, queues, driver, pendingDevice, port, open, currentBaudrate,
                 preferredBaudrate, fe0c, isReading, crashed, reconnecting, counters>>

\* usbManager.hasPermission().  Mutant: it is not asked.
HasPermissionAlways(d) == TRUE
HasPermission(d)       == d \in permitted

\* ... then connect to it, or requestPermissionAndConnect()
CheckPermission ==
  /\ At("serial", "perm")
  /\ LET d == dev["serial"]
     IN  IF HasPermission(d)
         THEN /\ pendingDevice' = NoDev
              /\ Goto("serial", "driver")
              /\ UNCHANGED <<asked, dev, drv, baud, untried>>
         ELSE /\ pendingDevice' = d
              /\ asked' = asked \cup {d}
              /\ Return("serial")
  /\ UNCHANGED <<plugged, seen, permitted, wire, held, queues, driver,
                 isConnecting, port, open, currentBaudrate,
                 preferredBaudrate, fe0c, isReading, crashed, reconnecting,
                 counters>>

\* the job of startReading(): while (isReading) port.read(..)
StartLoop ==
  /\ NextJob("read")
  /\ Goto("serial", "loop")
  /\ UNCHANGED <<platform, mainq, timers, releases, fields, dev, drv, baud, untried,
                 crashed, reconnecting, counters>>

LoopTest ==
  /\ At("serial", "loop")
  /\ Goto("serial", IF isReading THEN "read" ELSE "idle")
  /\ UNCHANGED <<platform, queues, fields, dev, drv, baud, untried, crashed,
                 reconnecting, counters>>

\* catch (IOException): leave the loop.
ReadFailed == Goto("serial", "idle")

\* A closed port or an unplugged device ends the loop with an IOException; a
\* null port is an exception nobody catches.
ReadPort ==
  /\ At("serial", "read")
  /\ \/ /\ IsOpen /\ port \in plugged
        /\ Goto("serial", "loop")
        /\ UNCHANGED <<crashed, faults>>
     \/ /\ port # NoDev
        /\ IF IsOpen /\ port \in plugged THEN Fault ELSE UNCHANGED faults
        /\ ReadFailed
        /\ UNCHANGED crashed
     \/ /\ port = NoDev
        /\ crashed' = TRUE
        /\ Goto("serial", "idle")
        /\ UNCHANGED faults
  /\ UNCHANGED <<platform, queues, fields, dev, drv, baud, untried, reconnecting,
                 settings, keys>>

\* sendKeyRelease(), posted with a delay by the key press
ReleaseKey ==
  /\ SerialIdle
  /\ releases > 0
  /\ releases' = releases - 1
  /\ \/ /\ IsConnected /\ Target \in plugged
        /\ held' = held \ {Target}
        /\ UNCHANGED faults
     \/ /\ IF IsConnected /\ Target \in plugged THEN Fault ELSE UNCHANGED faults
        /\ UNCHANGED held
  /\ UNCHANGED <<plugged, seen, permitted, asked, wire, mainq, timers, jobs,
                 fields, locals, crashed, reconnecting, settings, keys>>

-----------------------------------------------------------------------------
(* The platform *)

\* The system delivers the attachment to the receiver, and may deliver it to
\* the activity too.
Plug(d) ==
  /\ d \notin seen
  /\ Cardinality(plugged) < MaxPlugged
  /\ seen \cup {d} \in Sessions
  /\ plugged' = plugged \cup {d}
  /\ seen' = seen \cup {d}
  /\ permitted' = permitted \cup ({d} \cap Granted)
  /\ LET m == [type |-> "attach", device |-> d]
     IN  \E n \in Deliveries : mainq' = mainq \o [i \in 1..n |-> m]
  /\ UNCHANGED <<asked, wire, held, timers, jobs, releases, fields, locals,
                 crashed, reconnecting, counters>>

Unplug(d) ==
  /\ d \in plugged
  /\ plugged' = plugged \ {d}
  /\ permitted' = permitted \ {d}
  /\ held' = held \ {d}
  /\ mainq' = Append(mainq, [type |-> "detach", device |-> d])
  /\ UNCHANGED <<seen, asked, wire, timers, jobs, releases, fields, locals,
                 crashed, reconnecting, counters>>

\* The user answers a permission dialog; a device that has gone cannot be
\* granted any more.
Answer(d, yes) ==
  /\ d \in asked
  /\ yes => d \in plugged
  /\ asked' = asked \ {d}
  /\ permitted' = IF yes THEN permitted \cup {d} ELSE permitted
  /\ \E m \in {[type |-> "permission", device |-> d, granted |-> yes]} \cup
              (IF ExtrasDropped
               THEN {[type |-> "permission", device |-> NoDev, granted |-> FALSE]}
               ELSE {}) :
       mainq' = Append(mainq, m)
  /\ UNCHANGED <<plugged, seen, wire, held, timers, jobs, releases, fields,
                 locals, crashed, reconnecting, counters>>

\* Three seconds have passed since isConnecting was set.
TimePasses ==
  /\ isConnecting = "recent"
  /\ isConnecting' = "stuck"
  /\ UNCHANGED <<platform, queues, driver, pendingDevice, port, open,
                 currentBaudrate, preferredBaudrate, fe0c,
                 isReading, locals, crashed, reconnecting,
                 counters>>

-----------------------------------------------------------------------------
(* The state in which init() returns *)

Init ==
  /\ plugged \in SUBSET Device
  /\ Cardinality(plugged) <= MaxPlugged
  /\ plugged \in Sessions
  /\ seen = plugged
  /\ permitted = plugged \cap Granted
  /\ asked = {}
  /\ wire = [d \in Device |-> NoBaud]
  /\ held = {}
  /\ mainq = <<>>
  /\ timers = [k \in Timer |-> IF k = "init" THEN 1 ELSE 0]
  /\ jobs = <<"detect">>
  /\ releases = 0
  /\ driver = NoDev
  /\ pendingDevice = NoDev
  /\ isConnecting = "no"
  /\ port = NoDev
  /\ open = {}
  /\ currentBaudrate = NoBaud
  /\ preferredBaudrate = 115200
  /\ fe0c = NoDev
  /\ isReading = FALSE
  /\ pc = [t \in Thread |-> "idle"]
  /\ dev = [t \in Thread |-> NoDev]
  /\ drv = [t \in Thread |-> NoDev]
  /\ baud = [t \in Thread |-> NoBaud]
  /\ untried = [t \in Thread |-> {}]
  /\ crashed = FALSE
  /\ reconnecting = FALSE
  /\ faults = 0
  /\ settings = 0
  /\ keys = 0

Broadcasts == OnAttached \/ OnDetached \/ TestOwner \/ CleanUp \/ OnPermission

UserInterface ==
  \/ CameraOpened
  \/ \E b \in Baud : Reconnect(b) \/ SetPreferredBaudrate(b)
  \/ KeyPress

SerialJob ==
  \/ Detect \/ NoDriver \/ StoreDevice \/ ChooseDevice \/ CheckPermission
  \/ StartLoop \/ LoopTest \/ ReadPort

Platform ==
  \/ \E d \in Device : Plug(d) \/ Unplug(d)
  \/ \E d \in Device, yes \in BOOLEAN : Answer(d, yes)
  \/ TimePasses

Next ==
  \/ Broadcasts
  \/ \E k \in Timer : Fire(k)
  \/ UserInterface
  \/ \E t \in Thread : ConnectWithPermission(t)
  \/ SerialJob
  \/ ReleaseKey
  \/ Platform

Spec == Init /\ [][Next]_vars

\* Both loopers keep running their messages, and a posted runnable is not
\* overtaken for ever by messages that fall due after it.
Fairness ==
  /\ WF_vars(Broadcasts \/ ConnectWithPermission("main"))
  /\ WF_vars(SerialJob \/ ConnectWithPermission("serial"))
  /\ \A k \in Timer : SF_vars(Fire(k))
  /\ SF_vars(ReleaseKey)
  /\ WF_vars(TimePasses)

FairSpec == Spec /\ Fairness
-----------------------------------------------------------------------------
(* Properties *)

PlatformTyped ==
  /\ plugged \subseteq Device /\ seen \subseteq Device
  /\ permitted \subseteq Device /\ asked \subseteq Device
  /\ wire \in [Device -> Baud \cup {NoBaud}]
  /\ held \subseteq Device

QueuesTyped ==
  /\ mainq \in Seq(Broadcast)
  /\ timers \in [Timer -> Nat]
  /\ jobs \in Seq(Job)
  /\ releases \in Nat

FieldsTyped ==
  /\ {driver, pendingDevice, port, fe0c} \subseteq DeviceOrNull
  /\ open \subseteq Device
  /\ currentBaudrate \in Baud \cup {NoBaud}
  /\ preferredBaudrate \in Baud
  /\ isConnecting \in {"no", "recent", "stuck"}

ThreadsTyped ==
  /\ pc \in [Thread -> PC]
  /\ dev \in [Thread -> DeviceOrNull]
  /\ drv \in [Thread -> DeviceOrNull]
  /\ baud \in [Thread -> Baud \cup {NoBaud}]
  /\ untried \in [Thread -> SUBSET Baud]

CountersTyped == faults \in Nat /\ settings \in Nat /\ keys \in Nat

FlagsTyped == {isReading, crashed, reconnecting} \subseteq BOOLEAN

\* Every variable stays in the set of its values.
TypeOK ==
  /\ PlatformTyped /\ QueuesTyped /\ FieldsTyped
  /\ ThreadsTyped /\ CountersTyped /\ FlagsTyped

\* connectWithPermission() never reaches openDevice() for a device that is
\* there and that the user has not granted, whatever way it was called: by a
\* connection job that has asked hasPermission(), or by a permission
\* broadcast, which may come late or without its extras.
PermissionBeforeOpen ==
  \A t \in Thread :
    pc[t] \in {"driver", "match", "open"} => dev[t] \in permitted \cup (seen \ plugged)

\* A connection or the clean-up of one is under way.
Busy == \E t \in Thread : pc[t] \in Connecting \cup Detaching

\* Once no connection is being made or cleaned up, getCurrentBaudrate() tells
\* the rate the chip behind the open port was last set to, whatever rates were
\* tried, refused, or set by the recovery before.
HonestBaudrate ==
  (IsOpen /\ Kind[port] # "fe0c" /\ ~Busy) => currentBaudrate = wire[port]

\* As long as no transfer fails on a device that is there, an open port has its
\* reader: the loop is running, or its job is queued on the serial thread.  An
\* old loop that ends must not leave a new connection without one.
ReaderAlive ==
  (IsOpen /\ port \in plugged /\ isReading /\ faults = 0 /\ ~Busy)
    => pc["serial"] \in Reading \/ "read" \in {jobs[i] : i \in DOMAIN jobs}

\* With one attachment, its port is not left open once it has gone and the
\* broadcast of its detachment has been handled, though connections to it, by a
\* job and by a permission answer, may have been under way then.
GoneIsClosed ==
  \A d \in open \ plugged :
    \/ seen # {d} \/ Busy \/ crashed
    \/ [type |-> "detach", device |-> d] \in {mainq[i] : i \in DOMAIN mainq}

\* A device that is plugged and permitted gets a connection, unless it is
\* unplugged first, whether or not the camera ever opens: detection jobs,
\* fallback timers and the guard isConnecting together never leave it behind.
ConnectsPromptly ==
  \A d \in Device :
    (d \in plugged \cap permitted) ~> (IsConnected \/ d \notin plugged \/ crashed)

\* A key that was pressed on a FE0C, which has no read loop, goes up again
\* with nothing but the automatic release.
KeysReleasedFe0c ==
  \A d \in Device :
    (Kind[d] = "fe0c" /\ d \in held) ~> (crashed \/ d \notin held)

\* The same for a CH340.  The code does not keep this: the release is posted
\* to the thread the read loop occupies.
KeysReleasedCh340 ==
  \A d \in Device :
    (Kind[d] = "ch340" /\ d \in held) ~> (crashed \/ d \notin held)

\* reconnectWithBaudrate() closes the port, and the connection at the new rate
\* follows.  The code does not keep this: isConnecting is still set from the
\* first connection, so its connect() returns at once.
RateChangeReconnects ==
  reconnecting ~> (~reconnecting \/ plugged = {} \/ crashed)
=============================================================================
