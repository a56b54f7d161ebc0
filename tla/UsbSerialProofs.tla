--------------------------- MODULE UsbSerialProofs ---------------------------
(***************************************************************************)
(* Theorems about UsbSerial, for every set of attachments, every kind of    *)
(* device and every value of the bounds.                                    *)
(***************************************************************************)
EXTENDS UsbSerial, TLAPS

-----------------------------------------------------------------------------
(* Type correctness.  TypeOK is inductive once it says that a connection job *)
(* that is about to ask for permission has chosen a device.                  *)

ChosenDevice == pc["serial"] \in {"chosen", "perm"} => dev["serial"] \in Device

Typed == TypeOK /\ ChosenDevice

\* What the detection finds is plugged.
LEMMA DetectedPlugged == Detected \subseteq plugged
BY DEF Detected, Dedicated

\* Each kind of device has one of the two rates.
LEMMA DefaultBaudrateType == ASSUME NEW d PROVE DefaultBaudrate(d) \in Baud
BY DEF DefaultBaudrate, Baud

\* The jobs that are posted are jobs.
LEMMA JobType == {"detect", "connect", "read"} \subseteq Job
BY DEF Job

\* The messages the platform sends are broadcasts.
LEMMA MessageType ==
  ASSUME NEW d \in Device, NEW b \in BOOLEAN
  PROVE  /\ [type |-> "attach", device |-> d] \in Broadcast
         /\ [type |-> "detach", device |-> d] \in Broadcast
         /\ [type |-> "permission", device |-> d, granted |-> b] \in Broadcast
         /\ [type |-> "permission", device |-> NoDev, granted |-> FALSE] \in Broadcast
<1>1. [type |-> "attach", device |-> d] \in Broadcast BY DEF Broadcast
<1>2. [type |-> "detach", device |-> d] \in Broadcast BY DEF Broadcast
<1>3. [type |-> "permission", device |-> d, granted |-> b] \in Broadcast BY Zenon DEF Broadcast, DeviceOrNull
<1>4. [type |-> "permission", device |-> NoDev, granted |-> FALSE] \in Broadcast BY Zenon DEF Broadcast, DeviceOrNull
<1> QED BY <1>1, <1>2, <1>3, <1>4

\* What connect() posts past its guard.
LEMMA StartConnectTyped ==
  ASSUME Typed, StartConnect
  PROVE  jobs' \in Seq(Job) /\ isConnecting' \in {"no", "recent", "stuck"}
<1>1. jobs' \in Seq(Job) BY JobType DEF StartConnect, Typed, TypeOK, QueuesTyped
<1>2. isConnecting' \in {"no", "recent", "stuck"} BY DEF StartConnect
<1> QED BY <1>1, <1>2

\* What connect() leaves in the variables it may assign.
LEMMA ConnectTyped ==
  ASSUME Typed, Connect
  PROVE  jobs' \in Seq(Job) /\ isConnecting' \in {"no", "recent", "stuck"}
<1>1. CASE StartConnect BY <1>1, StartConnectTyped
<1>2. CASE UNCHANGED <<isConnecting, jobs>>
  BY <1>2 DEF Typed, TypeOK, QueuesTyped, FieldsTyped
<1> QED BY <1>1, <1>2 DEF Connect

\* What startReading() leaves in the variables it may assign.
LEMMA StartReadingTyped ==
  ASSUME Typed, StartReading
  PROVE  jobs' \in Seq(Job) /\ isReading' \in BOOLEAN
<1>1. CASE UNCHANGED <<isReading, jobs>>
  <2>1. jobs' \in Seq(Job) BY <1>1 DEF Typed, TypeOK, QueuesTyped
  <2>2. isReading' \in BOOLEAN BY <1>1 DEF Typed, TypeOK, FlagsTyped
  <2> QED BY <2>1, <2>2
<1>2. CASE isReading' = TRUE /\ jobs' = Append(jobs, "read")
  <2>1. jobs' \in Seq(Job) BY <1>2, JobType DEF Typed, TypeOK, QueuesTyped
  <2>2. isReading' \in BOOLEAN BY <1>2
  <2> QED BY <2>1, <2>2
<1> QED BY <1>1, <1>2 DEF StartReading

\* A step of a thread to place l that leaves its locals alone, but for drv.
LEMMA GotoTyped ==
  ASSUME Typed, NEW t \in Thread, NEW l \in PC \ {"chosen", "perm"}, Goto(t, l),
         UNCHANGED <<dev, baud, untried>>, drv' \in [Thread -> DeviceOrNull]
  PROVE  ThreadsTyped' /\ ChosenDevice'
BY DEF Typed, TypeOK, ThreadsTyped, ChosenDevice, Goto, Thread

\* A thread that returns to its queue.
LEMMA ReturnTyped ==
  ASSUME Typed, NEW t \in Thread, Return(t)
  PROVE  ThreadsTyped' /\ ChosenDevice'
<1>1. "idle" \in PC /\ NoDev \in DeviceOrNull /\ NoBaud \in Baud \cup {NoBaud} /\ {} \in SUBSET Baud
  BY DEF PC, DeviceOrNull
<1> QED BY <1>1 DEF Typed, TypeOK, ThreadsTyped, ChosenDevice, Return, Goto, Thread

\* The device of the driver read for the assignment of port.
LEMMA DrvTyped ==
  ASSUME Typed, NEW t \in Thread
  PROVE  /\ drv[t] \in DeviceOrNull
         /\ drv \in [Thread -> DeviceOrNull]
         /\ [drv EXCEPT ![t] = driver] \in [Thread -> DeviceOrNull]
         /\ [drv EXCEPT ![t] = NoDev] \in [Thread -> DeviceOrNull]
BY DEF Typed, TypeOK, ThreadsTyped, FieldsTyped, DeviceOrNull

\* The places of an attempt and of the recovery.
LEMMA Places ==
  /\ {"idle", "found", "detected", "driver", "match", "open", "finish", "loop", "read"}
       \cup Attempting \cup Recovering \cup Detaching \subseteq PC \ {"chosen", "perm"}
BY DEF PC, Connecting, Attempting, Recovering, Attempting, Recovering, Detaching, Reading

\* OnAttached keeps the types.
LEMMA OnAttachedTyped ==
  ASSUME Typed, OnAttached
  PROVE  Typed'
<1>1. QueuesTyped'
  BY DeviceAssumption DEF Typed, TypeOK, OnAttached, QueuesTyped, queues, Job,
     Timer
<1>2. PlatformTyped' /\ FieldsTyped' /\ ThreadsTyped' /\ CountersTyped' /\ FlagsTyped' /\ ChosenDevice'
  BY DEF Typed, TypeOK, OnAttached, PlatformTyped, FieldsTyped, ThreadsTyped,
     CountersTyped, FlagsTyped, ChosenDevice, platform, fields, locals,
     counters
<1> QED BY <1>1, <1>2 DEF Typed, TypeOK

\* OnDetached keeps the types.
LEMMA OnDetachedTyped ==
  ASSUME Typed, OnDetached
  PROVE  Typed'
<1>1. Head(mainq) \in Broadcast /\ mainq' \in Seq(Broadcast)
  BY DEF Typed, TypeOK, OnDetached, QueuesTyped
<1>2. Head(mainq).device \in DeviceOrNull
  BY <1>1 DEF OnDetached, Broadcast, DeviceOrNull
<1>3. QueuesTyped'
  BY <1>1 DEF Typed, TypeOK, OnDetached, QueuesTyped
<1>4. ThreadsTyped' /\ ChosenDevice'
  <2>1. UNCHANGED <<drv, baud, untried>>
    BY DEF OnDetached
  <2>2. /\ Goto("main", "nullFe0c") \/ Goto("main", "whose")
        /\ UNCHANGED dev \/ dev' = [dev EXCEPT !["main"] = Head(mainq).device]
    BY DEF OnDetached
  <2>3. {"nullFe0c", "whose"} \subseteq PC
    BY DEF PC, Detaching
  <2> QED BY <1>2, <2>1, <2>2, <2>3
         DEF Typed, TypeOK, ThreadsTyped, ChosenDevice, Goto, Thread
<1>5. PlatformTyped' /\ FieldsTyped' /\ CountersTyped' /\ FlagsTyped'
  BY DEF Typed, TypeOK, OnDetached, PlatformTyped, FieldsTyped, CountersTyped, FlagsTyped,
     platform, fields, counters
<1> QED BY <1>3, <1>4, <1>5 DEF Typed, TypeOK

\* TestOwner keeps the types.
LEMMA TestOwnerTyped ==
  ASSUME Typed, TestOwner
  PROVE  Typed'
<1>1. ThreadsTyped' /\ ChosenDevice'
  <2>1. UNCHANGED <<drv, baud, untried>> /\ dev' = [dev EXCEPT !["main"] = NoDev]
        /\ (Goto("main", "nullFe0c") \/ Goto("main", "idle"))
    BY DEF TestOwner
  <2>2. {"nullFe0c", "idle"} \subseteq PC /\ NoDev \in DeviceOrNull
    BY DEF PC, Detaching, DeviceOrNull
  <2> QED BY <2>1, <2>2 DEF Typed, TypeOK, ThreadsTyped, ChosenDevice, Goto, Thread
<1>2. PlatformTyped' /\ QueuesTyped' /\ FieldsTyped' /\ CountersTyped' /\ FlagsTyped'
  BY DEF Typed, TypeOK, TestOwner, PlatformTyped, QueuesTyped, FieldsTyped, CountersTyped,
     FlagsTyped, platform, queues, fields, counters
<1> QED BY <1>1, <1>2 DEF Typed, TypeOK

\* The places of the clean-up follow one another.
LEMMA FollowingType ==
  /\ DOMAIN Following \subseteq Detaching
  /\ \A l \in DOMAIN Following : Following[l] \in Detaching \cup {"idle"}
BY DEF Following, Detaching

\* CleanUp keeps the types.
LEMMA CleanUpTyped ==
  ASSUME Typed, CleanUp
  PROVE  Typed'
<1>1. ThreadsTyped' /\ ChosenDevice'
  <2>1. UNCHANGED <<dev, drv, baud, untried>> /\ Goto("main", Following[pc["main"]])
        /\ pc["main"] \in DOMAIN Following
    BY DEF CleanUp
  <2>2. Following[pc["main"]] \in PC \ {"chosen", "perm"}
    BY <2>1, FollowingType, Places
  <2> QED BY <2>1, <2>2, GotoTyped DEF Thread, Typed, TypeOK, ThreadsTyped
<1>2. FieldsTyped'
  BY DEF Typed, TypeOK, FieldsTyped, CleanUp, After, DeviceOrNull
<1>3. isReading' \in BOOLEAN
  BY DEF Typed, TypeOK, FlagsTyped, CleanUp, After
<1>4. FlagsTyped'
  BY <1>3 DEF Typed, TypeOK, FlagsTyped, CleanUp
<1>5. PlatformTyped' /\ QueuesTyped' /\ CountersTyped'
  BY DEF Typed, TypeOK, CleanUp, PlatformTyped, QueuesTyped, CountersTyped, platform, queues,
     counters
<1> QED BY <1>1, <1>2, <1>4, <1>5 DEF Typed, TypeOK

\* OnPermission keeps the types.
LEMMA OnPermissionTyped ==
  ASSUME Typed, OnPermission
  PROVE  Typed'
<1>1. QueuesTyped'
  BY DeviceAssumption DEF Typed, TypeOK, OnPermission, QueuesTyped, queues,
     Job, Timer
<1>2. ChosenDevice'
  BY DeviceAssumption DEF Typed, TypeOK, OnPermission, ChosenDevice, Goto,
     locals, Thread, DeviceOrNull, PlatformTyped, FieldsTyped, ThreadsTyped,
     NoBaud, Baud
<1>3. PlatformTyped' /\ FieldsTyped' /\ CountersTyped' /\ FlagsTyped'
  BY DEF Typed, TypeOK, OnPermission, PlatformTyped, FieldsTyped,
     CountersTyped, FlagsTyped, platform, fields, counters
<1>4. ThreadsTyped'
  <2> USE DEF Typed, TypeOK
  <2> DEFINE m == Head(mainq)
             d == IF m.device = NoDev THEN pendingDevice ELSE m.device
  <2>1. m \in Broadcast BY DEF OnPermission, QueuesTyped
  <2>2. m.device \in DeviceOrNull BY <2>1 DEF OnPermission, Broadcast, DeviceOrNull
  <2>3. d \in DeviceOrNull BY <2>2 DEF FieldsTyped
  <2>4. \/ Goto("main", "driver") /\ dev' = [dev EXCEPT !["main"] = d]
        \/ UNCHANGED <<pc, dev>>
     BY DEF OnPermission
  <2>5. UNCHANGED <<drv, baud, untried>> BY DEF OnPermission
  <2> HIDE DEF d
  <2> QED BY <2>3, <2>4, <2>5 DEF ThreadsTyped, Goto, PC, Connecting, Attempting, Recovering
<1> QED BY <1>1, <1>2, <1>3, <1>4 DEF Typed, TypeOK

\* CameraOpened keeps the types.
LEMMA CameraOpenedTyped ==
  ASSUME Typed, CameraOpened
  PROVE  Typed'
<1>1. FieldsTyped'
  BY DeviceAssumption DEF Typed, TypeOK, CameraOpened, FieldsTyped, Connect,
     StartConnect, fields, Baud, NoBaud, DeviceOrNull, PlatformTyped,
     ThreadsTyped, Thread
<1>2. PlatformTyped' /\ ThreadsTyped' /\ CountersTyped' /\ FlagsTyped' /\ ChosenDevice'
  BY DEF Typed, TypeOK, CameraOpened, PlatformTyped, ThreadsTyped,
     CountersTyped, FlagsTyped, ChosenDevice, platform, locals, counters,
     fields
<1>3. QueuesTyped'
  <2>1. jobs' \in Seq(Job) BY ConnectTyped DEF CameraOpened
  <2>2. UNCHANGED <<mainq, timers, releases>> BY DEF CameraOpened
  <2> QED BY <2>1, <2>2 DEF Typed, TypeOK, QueuesTyped
<1> QED BY <1>1, <1>2, <1>3 DEF Typed, TypeOK

\* KeyPress keeps the types.
LEMMA KeyPressTyped ==
  ASSUME Typed, KeyPress
  PROVE  Typed'
<1>1. PlatformTyped'
  BY DeviceAssumption DEF Typed, TypeOK, KeyPress, PlatformTyped, platform,
     NoBaud, Baud, FieldsTyped, ThreadsTyped, DeviceOrNull, Thread
<1>2. QueuesTyped'
  BY DeviceAssumption DEF Typed, TypeOK, KeyPress, QueuesTyped, PostRelease,
     queues, Job, Timer
<1>3. CountersTyped'
  BY DeviceAssumption DEF Typed, TypeOK, KeyPress, CountersTyped, Fault,
     counters
<1>4. FieldsTyped' /\ ThreadsTyped' /\ FlagsTyped' /\ ChosenDevice'
  BY DEF Typed, TypeOK, KeyPress, FieldsTyped, ThreadsTyped, FlagsTyped,
     ChosenDevice, fields, locals
<1> QED BY <1>1, <1>2, <1>3, <1>4 DEF Typed, TypeOK

\* Detect keeps the types.
LEMMA DetectTyped ==
  ASSUME Typed, Detect
  PROVE  Typed'
<1>1. QueuesTyped'
  BY DeviceAssumption DEF Typed, TypeOK, Detect, QueuesTyped, NextJob, queues,
     Job, Timer
<1>2. ThreadsTyped'
  BY DetectedPlugged DEF Typed, TypeOK, Detect, ThreadsTyped, Goto, Thread, PC,
     DeviceOrNull, PlatformTyped
<1>3. ChosenDevice'
  BY DeviceAssumption DEF Typed, TypeOK, Detect, ChosenDevice, Goto, locals,
     Thread, DeviceOrNull, PlatformTyped, FieldsTyped, ThreadsTyped, NoBaud,
     Baud
<1>4. PlatformTyped' /\ CountersTyped' /\ FlagsTyped'
  BY DEF Typed, TypeOK, Detect, PlatformTyped, CountersTyped, FlagsTyped,
     platform, counters, fields
<1>5. FieldsTyped'
  BY DEF Typed, TypeOK, FieldsTyped, Detect, fields
<1> QED BY <1>1, <1>2, <1>3, <1>4, <1>5 DEF Typed, TypeOK

\* NoDriver keeps the types.
LEMMA NoDriverTyped ==
  ASSUME Typed, NoDriver
  PROVE  Typed'
<1>1. ThreadsTyped' /\ ChosenDevice'
  BY ReturnTyped DEF NoDriver, Thread
<1>2. FieldsTyped'
  BY DEF Typed, TypeOK, FieldsTyped, NoDriver
<1>3. PlatformTyped' /\ QueuesTyped' /\ CountersTyped' /\ FlagsTyped'
  BY DEF Typed, TypeOK, NoDriver, PlatformTyped, QueuesTyped, CountersTyped, FlagsTyped,
     platform, queues, counters
<1> QED BY <1>1, <1>2, <1>3 DEF Typed, TypeOK

\* StoreDevice keeps the types.
LEMMA StoreDeviceTyped ==
  ASSUME Typed, StoreDevice
  PROVE  Typed'
<1>1. QueuesTyped'
  BY DeviceAssumption DEF Typed, TypeOK, StoreDevice, QueuesTyped, Arm, queues,
     Job, Timer
<1>2. ThreadsTyped'
  BY DeviceAssumption DEF Typed, TypeOK, StoreDevice, ThreadsTyped, At, Goto,
     Return, Thread, PC, Connecting, Attempting, Recovering, Reading, DeviceOrNull, Baud, NoBaud,
     PlatformTyped, FieldsTyped
<1>3. FlagsTyped'
  BY DeviceAssumption DEF Typed, TypeOK, StoreDevice, FlagsTyped, At, fields
<1>4. ChosenDevice'
  BY DeviceAssumption DEF Typed, TypeOK, StoreDevice, ChosenDevice, At, Goto,
     Return, Thread, DeviceOrNull, PlatformTyped, FieldsTyped, ThreadsTyped,
     NoBaud, Baud
<1>5. PlatformTyped' /\ CountersTyped'
  BY DEF Typed, TypeOK, StoreDevice, PlatformTyped, CountersTyped, platform,
     counters
<1>6. FieldsTyped'
  <2> USE DEF Typed, TypeOK, FieldsTyped
  <2>1. CASE driver = NoDev BY <2>1 DEF StoreDevice
  <2>2. CASE driver # NoDev BY <2>2, DefaultBaudrateType DEF StoreDevice
  <2> QED BY <2>1, <2>2
<1> QED BY <1>1, <1>2, <1>3, <1>4, <1>5, <1>6 DEF Typed, TypeOK

\* ChooseDevice keeps the types.
LEMMA ChooseDeviceTyped ==
  ASSUME Typed, ChooseDevice
  PROVE  Typed'
<1>1. QueuesTyped'
  BY DeviceAssumption DEF Typed, TypeOK, ChooseDevice, QueuesTyped, NextJob,
     Arm, queues, Job, Timer
<1>2. PlatformTyped' /\ CountersTyped' /\ FlagsTyped'
  BY DEF Typed, TypeOK, ChooseDevice, PlatformTyped, CountersTyped, FlagsTyped,
     platform, counters, fields
<1>3. FieldsTyped'
  BY DEF Typed, TypeOK, ChooseDevice, FieldsTyped
<1>4. ThreadsTyped' /\ ChosenDevice'
  <2> USE DEF Typed, TypeOK
  <2>1. UNCHANGED <<drv, baud, untried>> BY DEF ChooseDevice
  <2>2. CASE \E d \in Device, l \in {"perm", "chosen"} :
               dev' = [dev EXCEPT !["serial"] = d] /\ Goto("serial", l)
    <3>1. ThreadsTyped' BY <2>1, <2>2 DEF ThreadsTyped, Goto, PC, DeviceOrNull
    <3>2. ChosenDevice' BY <2>2 DEF ThreadsTyped, Goto, ChosenDevice, Thread
    <3> QED BY <3>1, <3>2
  <2>3. CASE UNCHANGED <<dev, pc>>
    BY <2>1, <2>3 DEF ThreadsTyped, ChosenDevice
  <2>4. pendingDevice # NoDev => pendingDevice \in Device
    BY DEF FieldsTyped, DeviceOrNull
  <2>5. Detected \subseteq Device
    BY DetectedPlugged DEF PlatformTyped
  <2> QED BY <2>2, <2>3, <2>4, <2>5 DEF ChooseDevice
<1> QED BY <1>1, <1>2, <1>3, <1>4 DEF Typed, TypeOK

\* CheckPermission keeps the types.
LEMMA CheckPermissionTyped ==
  ASSUME Typed, CheckPermission
  PROVE  Typed'
<1>1. FieldsTyped'
  BY DeviceAssumption DEF Typed, TypeOK, CheckPermission, FieldsTyped, fields,
     Baud, NoBaud, DeviceOrNull, PlatformTyped, ThreadsTyped, Thread
<1>2. ThreadsTyped'
  BY DeviceAssumption DEF Typed, TypeOK, CheckPermission, ThreadsTyped, At,
     Goto, Return, locals, Thread, PC, Connecting, Attempting, Recovering, Reading, DeviceOrNull, Baud,
     NoBaud, PlatformTyped, FieldsTyped
<1>3. ChosenDevice'
  BY DeviceAssumption DEF Typed, TypeOK, CheckPermission, ChosenDevice, At,
     Goto, Return, locals, Thread, DeviceOrNull, PlatformTyped, FieldsTyped,
     ThreadsTyped, NoBaud, Baud
<1>4. QueuesTyped' /\ CountersTyped' /\ FlagsTyped'
  BY DEF Typed, TypeOK, CheckPermission, QueuesTyped, CountersTyped,
     FlagsTyped, queues, counters, fields
<1>5. PlatformTyped'
  BY DEF Typed, TypeOK, PlatformTyped, CheckPermission, ChosenDevice, At
<1> QED BY <1>1, <1>2, <1>3, <1>4, <1>5 DEF Typed, TypeOK

\* StartLoop keeps the types.
LEMMA StartLoopTyped ==
  ASSUME Typed, StartLoop
  PROVE  Typed'
<1>1. QueuesTyped'
  BY DeviceAssumption DEF Typed, TypeOK, StartLoop, QueuesTyped, NextJob,
     queues, Job, Timer
<1>2. ThreadsTyped'
  BY DeviceAssumption DEF Typed, TypeOK, StartLoop, ThreadsTyped, Goto, locals,
     Thread, PC, Connecting, Attempting, Recovering, Reading, DeviceOrNull, Baud, NoBaud,
     PlatformTyped, FieldsTyped
<1>3. ChosenDevice'
  BY DeviceAssumption DEF Typed, TypeOK, StartLoop, ChosenDevice, Goto, locals,
     Thread, DeviceOrNull, PlatformTyped, FieldsTyped, ThreadsTyped, NoBaud,
     Baud
<1>4. PlatformTyped' /\ FieldsTyped' /\ CountersTyped' /\ FlagsTyped'
  BY DEF Typed, TypeOK, StartLoop, PlatformTyped, FieldsTyped, CountersTyped,
     FlagsTyped, platform, fields, counters
<1> QED BY <1>1, <1>2, <1>3, <1>4 DEF Typed, TypeOK

\* LoopTest keeps the types.
LEMMA LoopTestTyped ==
  ASSUME Typed, LoopTest
  PROVE  Typed'
<1>1. ThreadsTyped'
  BY DeviceAssumption DEF Typed, TypeOK, LoopTest, ThreadsTyped, At, Goto,
     locals, Thread, PC, Connecting, Attempting, Recovering, Reading, DeviceOrNull, Baud, NoBaud,
     PlatformTyped, FieldsTyped
<1>2. ChosenDevice'
  BY DeviceAssumption DEF Typed, TypeOK, LoopTest, ChosenDevice, At, Goto,
     locals, Thread, DeviceOrNull, PlatformTyped, FieldsTyped, ThreadsTyped,
     NoBaud, Baud
<1>3. PlatformTyped' /\ QueuesTyped' /\ FieldsTyped' /\ CountersTyped' /\ FlagsTyped'
  BY DEF Typed, TypeOK, LoopTest, PlatformTyped, QueuesTyped, FieldsTyped,
     CountersTyped, FlagsTyped, platform, queues, fields, counters
<1> QED BY <1>1, <1>2, <1>3 DEF Typed, TypeOK

\* ReadPort keeps the types.
LEMMA ReadPortTyped ==
  ASSUME Typed, ReadPort
  PROVE  Typed'
<1>1. CountersTyped'
  BY DeviceAssumption DEF Typed, TypeOK, ReadPort, CountersTyped, Fault,
     counters
<1>2. FlagsTyped'
  BY DeviceAssumption DEF Typed, TypeOK, ReadPort, FlagsTyped, At, fields
<1>3. PlatformTyped' /\ QueuesTyped' /\ FieldsTyped'
  BY DEF Typed, TypeOK, ReadPort, PlatformTyped, QueuesTyped, FieldsTyped,
     platform, queues, fields
<1>4. ThreadsTyped' /\ ChosenDevice'
  <2> USE DEF Typed, TypeOK, ThreadsTyped, ReadPort
  <2>1. UNCHANGED dev /\ UNCHANGED drv /\ UNCHANGED baud /\ UNCHANGED untried /\ (Goto("serial","loop") \/ Goto("serial","idle"))
    BY DEF ReadFailed
  <2>2. ThreadsTyped' BY <2>1 DEF Goto, PC, Reading, Thread
  <2>3. ChosenDevice' BY <2>1 DEF Goto, ChosenDevice, Thread
  <2> QED BY <2>2, <2>3
<1> QED BY <1>1, <1>2, <1>3, <1>4 DEF Typed, TypeOK

\* ReleaseKey keeps the types.
LEMMA ReleaseKeyTyped ==
  ASSUME Typed, ReleaseKey
  PROVE  Typed'
<1>1. PlatformTyped'
  BY DeviceAssumption DEF Typed, TypeOK, ReleaseKey, PlatformTyped, platform,
     NoBaud, Baud, FieldsTyped, ThreadsTyped, DeviceOrNull, Thread
<1>2. QueuesTyped'
  BY DeviceAssumption DEF Typed, TypeOK, ReleaseKey, QueuesTyped, queues, Job,
     Timer
<1>3. CountersTyped'
  BY DeviceAssumption DEF Typed, TypeOK, ReleaseKey, CountersTyped, Fault,
     counters
<1>4. FieldsTyped' /\ ThreadsTyped' /\ FlagsTyped' /\ ChosenDevice'
  BY DEF Typed, TypeOK, ReleaseKey, FieldsTyped, ThreadsTyped, FlagsTyped,
     ChosenDevice, fields, locals
<1> QED BY <1>1, <1>2, <1>3, <1>4 DEF Typed, TypeOK

\* TimePasses keeps the types.
LEMMA TimePassesTyped ==
  ASSUME Typed, TimePasses
  PROVE  Typed'
<1>1. FieldsTyped'
  BY DeviceAssumption DEF Typed, TypeOK, TimePasses, FieldsTyped, fields, Baud,
     NoBaud, DeviceOrNull, PlatformTyped, ThreadsTyped, Thread
<1>2. PlatformTyped' /\ QueuesTyped' /\ ThreadsTyped' /\ CountersTyped' /\ FlagsTyped' /\ ChosenDevice'
  BY DEF Typed, TypeOK, TimePasses, PlatformTyped, QueuesTyped, ThreadsTyped,
     CountersTyped, FlagsTyped, ChosenDevice, platform, queues, locals,
     counters, fields
<1> QED BY <1>1, <1>2 DEF Typed, TypeOK

\* Fire keeps the types.
LEMMA FireTyped ==
  ASSUME Typed, NEW k \in Timer, Fire(k)
  PROVE  Typed'
<1>1. PlatformTyped' /\ ThreadsTyped' /\ CountersTyped' /\ FlagsTyped' /\ ChosenDevice'
  BY DEF Typed, TypeOK, Fire, PlatformTyped, ThreadsTyped, CountersTyped,
     FlagsTyped, ChosenDevice, platform, locals, counters, fields
<1>2. QueuesTyped' /\ FieldsTyped'
  <2>1. timers' \in [Timer -> Nat]
    BY DEF Typed, TypeOK, Fire, QueuesTyped, Timer
  <2>2. jobs' \in Seq(Job) /\ isConnecting' \in {"no", "recent", "stuck"}
    <3>1. CASE Connect BY <3>1, ConnectTyped
    <3>2. CASE StartConnect BY <3>2, StartConnectTyped
    <3>3. ASSUME isConnecting' = isConnecting, jobs' = jobs \/ jobs' = Append(jobs, "detect")
          PROVE  jobs' \in Seq(Job) /\ isConnecting' \in {"no", "recent", "stuck"}
      <4>1. jobs \in Seq(Job) BY DEF Typed, TypeOK, QueuesTyped
      <4>a. Append(jobs, "detect") \in Seq(Job) BY <4>1, JobType
      <4>b. jobs' \in Seq(Job) BY <3>3, <4>1, <4>a
      <4>2. isConnecting' \in {"no", "recent", "stuck"} BY <3>3 DEF Typed, TypeOK, FieldsTyped
      <4> QED BY <4>b, <4>2
    <3>4. CASE k \in {"init", "retryConnect"}
     BY <3>4, <3>1 DEF Fire
    <3>5. CASE k = "fallback"
     BY <3>5, <3>2, <3>3, Zenon DEF Fire
    <3>6. CASE k = "retry"
     BY <3>6, <3>3 DEF Fire
    <3> QED BY <3>4, <3>5, <3>6 DEF Timer
  <2>3. QueuesTyped' BY <2>1, <2>2 DEF Fire, Typed, TypeOK, QueuesTyped
  <2>4. FieldsTyped' BY <2>2 DEF Fire, Typed, TypeOK, FieldsTyped
  <2> QED BY <2>3, <2>4
<1> QED BY <1>1, <1>2 DEF Typed, TypeOK

\* Reconnect keeps the types.
LEMMA ReconnectTyped ==
  ASSUME Typed, NEW b \in Baud, Reconnect(b)
  PROVE  Typed'
<1>1. FieldsTyped'
  BY DeviceAssumption DEF Typed, TypeOK, Reconnect, FieldsTyped, StartConnect,
     fields, Baud, NoBaud, DeviceOrNull, PlatformTyped, ThreadsTyped, Thread
<1>2. CountersTyped'
  BY DeviceAssumption DEF Typed, TypeOK, Reconnect, CountersTyped, counters
<1>3. FlagsTyped'
  BY DeviceAssumption DEF Typed, TypeOK, Reconnect, FlagsTyped, fields
<1>4. PlatformTyped' /\ ThreadsTyped' /\ ChosenDevice'
  BY DEF Typed, TypeOK, Reconnect, PlatformTyped, ThreadsTyped, ChosenDevice,
     platform, locals
<1>5. QueuesTyped'
  <2>1. jobs' \in Seq(Job)
    <3>1. CASE StartConnect BY <3>1, StartConnectTyped
    <3>2. CASE UNCHANGED <<isConnecting, jobs>> BY <3>2 DEF Typed, TypeOK, QueuesTyped
    <3> QED BY <3>1, <3>2 DEF Reconnect
  <2>2. UNCHANGED <<mainq, timers, releases>> BY DEF Reconnect
  <2> QED BY <2>1, <2>2 DEF Typed, TypeOK, QueuesTyped
<1> QED BY <1>1, <1>2, <1>3, <1>4, <1>5 DEF Typed, TypeOK

\* SetPreferredBaudrate keeps the types.
LEMMA SetPreferredBaudrateTyped ==
  ASSUME Typed, NEW b \in Baud, SetPreferredBaudrate(b)
  PROVE  Typed'
<1>1. FieldsTyped'
  BY DeviceAssumption DEF Typed, TypeOK, SetPreferredBaudrate, FieldsTyped,
     fields, Baud, NoBaud, DeviceOrNull, PlatformTyped, ThreadsTyped, Thread
<1>2. CountersTyped'
  BY DeviceAssumption DEF Typed, TypeOK, SetPreferredBaudrate, CountersTyped,
     counters
<1>3. PlatformTyped' /\ QueuesTyped' /\ ThreadsTyped' /\ FlagsTyped' /\ ChosenDevice'
  BY DEF Typed, TypeOK, SetPreferredBaudrate, PlatformTyped, QueuesTyped,
     ThreadsTyped, FlagsTyped, ChosenDevice, platform, queues, locals, fields
<1> QED BY <1>1, <1>2, <1>3 DEF Typed, TypeOK

\* Plug keeps the types.
LEMMA PlugTyped ==
  ASSUME Typed, NEW d \in Device, Plug(d)
  PROVE  Typed'
<1>1. PlatformTyped'
  BY DeviceAssumption DEF Typed, TypeOK, Plug, PlatformTyped, platform, NoBaud,
     Baud, FieldsTyped, ThreadsTyped, DeviceOrNull, Thread
<1>2. FieldsTyped' /\ ThreadsTyped' /\ CountersTyped' /\ FlagsTyped' /\ ChosenDevice'
  BY DEF Typed, TypeOK, Plug, FieldsTyped, ThreadsTyped, CountersTyped,
     FlagsTyped, ChosenDevice, fields, locals, counters
<1>3. QueuesTyped'
  <2> DEFINE m == [type |-> "attach", device |-> d]
  <2>1. PICK n \in Deliveries : mainq' = mainq \o [i \in 1..n |-> m]
    BY DEF Plug
  <2>2. m \in Broadcast BY MessageType
  <2>3. n \in Nat BY BoundAssumption
  <2> DEFINE new == [i \in 1..n |-> m]
  <2> HIDE DEF m
  <2>4. new \in Seq(Broadcast) BY <2>2, <2>3
  <2>5. UNCHANGED <<timers, jobs, releases>> BY DEF Plug
  <2>6. mainq' = mainq \o new BY <2>1
  <2> HIDE DEF new
  <2>7. mainq' \in Seq(Broadcast) BY <2>4, <2>6 DEF Typed, TypeOK, QueuesTyped
  <2> QED BY <2>5, <2>7 DEF Typed, TypeOK, QueuesTyped
<1> QED BY <1>1, <1>2, <1>3 DEF Typed, TypeOK

\* Unplug keeps the types.
LEMMA UnplugTyped ==
  ASSUME Typed, NEW d \in Device, Unplug(d)
  PROVE  Typed'
<1>1. PlatformTyped'
  BY DeviceAssumption DEF Typed, TypeOK, Unplug, PlatformTyped, platform,
     NoBaud, Baud, FieldsTyped, ThreadsTyped, DeviceOrNull, Thread
<1>2. FieldsTyped' /\ ThreadsTyped' /\ CountersTyped' /\ FlagsTyped' /\ ChosenDevice'
  BY DEF Typed, TypeOK, Unplug, FieldsTyped, ThreadsTyped, CountersTyped,
     FlagsTyped, ChosenDevice, fields, locals, counters
<1>3. QueuesTyped'
  <2>1. PICK m \in Broadcast : mainq' = Append(mainq, m)
    BY MessageType DEF Unplug
  <2>2. UNCHANGED <<timers, jobs, releases>> BY DEF Unplug
  <2> QED BY <2>1, <2>2 DEF Typed, TypeOK, QueuesTyped
<1> QED BY <1>1, <1>2, <1>3 DEF Typed, TypeOK

\* Answer keeps the types.
LEMMA AnswerTyped ==
  ASSUME Typed, NEW d \in Device, NEW yes \in BOOLEAN, Answer(d, yes)
  PROVE  Typed'
<1>1. PlatformTyped'
  BY DeviceAssumption DEF Typed, TypeOK, Answer, PlatformTyped, platform,
     NoBaud, Baud, FieldsTyped, ThreadsTyped, DeviceOrNull, Thread
<1>2. FieldsTyped' /\ ThreadsTyped' /\ CountersTyped' /\ FlagsTyped' /\ ChosenDevice'
  BY DEF Typed, TypeOK, Answer, FieldsTyped, ThreadsTyped, CountersTyped,
     FlagsTyped, ChosenDevice, fields, locals, counters
<1>3. QueuesTyped'
  <2>1. PICK m \in {[type |-> "permission", device |-> d, granted |-> yes]} \cup
                (IF ExtrasDropped
                 THEN {[type |-> "permission", device |-> NoDev, granted |-> FALSE]}
                 ELSE {}) : mainq' = Append(mainq, m)
    BY Zenon DEF Answer
  <2>2. m \in Broadcast
    BY MessageType, Zenon
  <2>3. UNCHANGED <<timers, jobs, releases>> BY DEF Answer
  <2> QED BY <2>1, <2>2, <2>3 DEF Typed, TypeOK, QueuesTyped
<1> QED BY <1>1, <1>2, <1>3 DEF Typed, TypeOK

\* FindDriver keeps the types.
LEMMA FindDriverTyped ==
  ASSUME Typed, NEW t \in Thread, FindDriver(t)
  PROVE  Typed'
<1>1. FieldsTyped'
  BY DeviceAssumption DEF Typed, TypeOK, FindDriver, FieldsTyped, Abort,
     fields, Baud, NoBaud, DeviceOrNull, PlatformTyped, ThreadsTyped, Thread
<1>2. ThreadsTyped'
  BY DeviceAssumption DEF Typed, TypeOK, FindDriver, ThreadsTyped, At, Goto,
     Return, Abort, locals, Thread, PC, Connecting, Attempting, Recovering, Reading, DeviceOrNull,
     Baud, NoBaud, PlatformTyped, FieldsTyped
<1>3. ChosenDevice'
  BY DeviceAssumption DEF Typed, TypeOK, FindDriver, ChosenDevice, At, Goto,
     Return, Abort, locals, Thread, DeviceOrNull, PlatformTyped, FieldsTyped,
     ThreadsTyped, NoBaud, Baud
<1>4. PlatformTyped' /\ QueuesTyped' /\ CountersTyped' /\ FlagsTyped'
  BY DEF Typed, TypeOK, FindDriver, PlatformTyped, QueuesTyped, CountersTyped,
     FlagsTyped, platform, queues, counters, fields
<1> QED BY <1>1, <1>2, <1>3, <1>4 DEF Typed, TypeOK

\* StoreDriver keeps the types.
LEMMA StoreDriverTyped ==
  ASSUME Typed, NEW t \in Thread, StoreDriver(t)
  PROVE  Typed'
<1>1. FieldsTyped'
  <2>1. dev[t] \in DeviceOrNull
    BY DEF Typed, TypeOK, ThreadsTyped
  <2> QED BY <2>1, DefaultBaudrateType DEF Typed, TypeOK, StoreDriver, FieldsTyped
<1>2. ThreadsTyped'
  BY DEF Typed, TypeOK, StoreDriver, ThreadsTyped, Goto, PC, Connecting, Attempting, Recovering
<1>3. ChosenDevice'
  BY DEF Typed, TypeOK, StoreDriver, ChosenDevice, At, Goto, ThreadsTyped, Thread
<1>4. PlatformTyped' /\ QueuesTyped' /\ CountersTyped' /\ FlagsTyped'
  BY DEF Typed, TypeOK, StoreDriver, PlatformTyped, QueuesTyped, CountersTyped,
     FlagsTyped, platform, queues, counters
<1> QED BY <1>1, <1>2, <1>3, <1>4 DEF Typed, TypeOK

\* OpenDevice keeps the types.
LEMMA OpenDeviceTyped ==
  ASSUME Typed, NEW t \in Thread, OpenDevice(t)
  PROVE  Typed'
<1>1. FieldsTyped'
  BY DeviceAssumption DEF Typed, TypeOK, OpenDevice, FieldsTyped, Abort,
     Baudrates, fields, Baud, NoBaud, DeviceOrNull, PlatformTyped,
     ThreadsTyped, Thread
<1>2. CountersTyped'
  BY DeviceAssumption DEF Typed, TypeOK, OpenDevice, CountersTyped, Fault,
     counters
<1>3. ChosenDevice'
  BY DeviceAssumption DEF Typed, TypeOK, OpenDevice, ChosenDevice, At, Goto,
     Return, Abort, locals, Thread, DeviceOrNull, PlatformTyped, FieldsTyped,
     ThreadsTyped, NoBaud, Baud
<1>4. PlatformTyped' /\ QueuesTyped' /\ FlagsTyped'
  BY DEF Typed, TypeOK, OpenDevice, PlatformTyped, QueuesTyped, FlagsTyped,
     platform, queues, fields
<1>5. ThreadsTyped'
  <2> USE DEF Typed, TypeOK, ThreadsTyped
  <2>1. CASE Abort(t)
    BY <2>1 DEF Abort, Return, Goto, PC, DeviceOrNull, Baud, NoBaud
  <2>2. CASE /\ baud' = [baud EXCEPT ![t] = preferredBaudrate]
             /\ untried' = [untried EXCEPT ![t] = Baudrates(dev[t])]
             /\ Goto(t, "try")
             /\ UNCHANGED <<dev, drv>>
    <3>1. Baudrates(dev[t]) \in SUBSET Baud BY DEF Baudrates, Baud
    <3>2. preferredBaudrate \in Baud BY DEF FieldsTyped
    <3> QED BY <2>2, <3>1, <3>2 DEF Goto, PC, Connecting, Attempting, Recovering
  <2> QED BY <2>1, <2>2 DEF OpenDevice
<1> QED BY <1>1, <1>2, <1>3, <1>4, <1>5 DEF Typed, TypeOK

\* TryBaudrate keeps the types.
LEMMA TryBaudrateTyped ==
  ASSUME Typed, NEW t \in Thread, TryBaudrate(t)
  PROVE  Typed'
<1>1. ThreadsTyped' /\ ChosenDevice'
  BY GotoTyped, DrvTyped, Places DEF TryBaudrate, Attempting
<1>2. PlatformTyped' /\ QueuesTyped' /\ FieldsTyped' /\ CountersTyped' /\ FlagsTyped'
  BY DEF Typed, TypeOK, TryBaudrate, PlatformTyped, QueuesTyped, FieldsTyped, CountersTyped,
     FlagsTyped, platform, queues, fields, counters
<1> QED BY <1>1, <1>2 DEF Typed, TypeOK

\* ReadDriver and AssignPort keep the types, wherever they are used.
LEMMA GetPortTyped ==
  ASSUME Typed, NEW t \in Thread, GetPort(t)
  PROVE  Typed'
<1>1. ASSUME NEW from, NEW to \in Attempting \cup Recovering,
             NEW l \in Attempting \cup Recovering, ReadDriver(t, from, to, l)
      PROVE  Typed'
  <2>1. ThreadsTyped' /\ ChosenDevice'
    BY <1>1, GotoTyped, DrvTyped, Places DEF ReadDriver
  <2>2. PlatformTyped' /\ QueuesTyped' /\ FieldsTyped' /\ CountersTyped' /\ FlagsTyped'
    BY <1>1 DEF Typed, TypeOK, ReadDriver, PlatformTyped, QueuesTyped, FieldsTyped,
       CountersTyped, FlagsTyped, platform, queues, fields, counters
  <2> QED BY <2>1, <2>2 DEF Typed, TypeOK
<1>2. ASSUME NEW from, NEW to \in Attempting \cup Recovering \cup {"finish"},
             AssignPort(t, from, to)
      PROVE  Typed'
  <2>1. ThreadsTyped' /\ ChosenDevice'
    BY <1>2, GotoTyped, DrvTyped, Places DEF AssignPort
  <2>2. FieldsTyped'
    BY <1>2, DrvTyped DEF Typed, TypeOK, FieldsTyped, AssignPort
  <2>3. PlatformTyped' /\ QueuesTyped' /\ CountersTyped' /\ FlagsTyped'
    BY <1>2 DEF Typed, TypeOK, AssignPort, PlatformTyped, QueuesTyped, CountersTyped,
       FlagsTyped, platform, queues, counters
  <2> QED BY <2>1, <2>2, <2>3 DEF Typed, TypeOK
<1> QED BY <1>1, <1>2 DEF GetPort, Attempting, Recovering

\* ChooseInit keeps the types.
LEMMA ChooseInitTyped ==
  ASSUME Typed, NEW t \in Thread, ChooseInit(t)
  PROVE  Typed'
<1>1. ThreadsTyped' /\ ChosenDevice'
  BY GotoTyped, DrvTyped, Places DEF ChooseInit, Attempting
<1>2. PlatformTyped' /\ QueuesTyped' /\ FieldsTyped' /\ CountersTyped' /\ FlagsTyped'
  BY DEF Typed, TypeOK, ChooseInit, PlatformTyped, QueuesTyped, FieldsTyped, CountersTyped,
     FlagsTyped, platform, queues, fields, counters
<1> QED BY <1>1, <1>2 DEF Typed, TypeOK

\* ClaimFe0c keeps the types.
LEMMA ClaimFe0cTyped ==
  ASSUME Typed, NEW t \in Thread, ClaimFe0c(t)
  PROVE  Typed'
<1>1. ThreadsTyped' /\ ChosenDevice'
  BY GotoTyped, DrvTyped, Places DEF ClaimFe0c, Attempting
<1>2. CountersTyped'
  BY DEF Typed, TypeOK, ClaimFe0c, CountersTyped, Fault
<1>3. PlatformTyped' /\ QueuesTyped' /\ FieldsTyped' /\ FlagsTyped'
  BY DEF Typed, TypeOK, ClaimFe0c, PlatformTyped, QueuesTyped, FieldsTyped, FlagsTyped,
     platform, queues, fields
<1> QED BY <1>1, <1>2, <1>3 DEF Typed, TypeOK

\* KeepFe0c keeps the types.
LEMMA KeepFe0cTyped ==
  ASSUME Typed, NEW t \in Thread, KeepFe0c(t)
  PROVE  Typed'
<1>1. ThreadsTyped' /\ ChosenDevice'
  BY GotoTyped, DrvTyped, Places DEF KeepFe0c, Attempting
<1>2. dev[t] \in DeviceOrNull /\ baud[t] \in Baud \cup {NoBaud}
  BY DEF Typed, TypeOK, ThreadsTyped
<1>3. FieldsTyped'
  BY <1>2 DEF Typed, TypeOK, FieldsTyped, KeepFe0c, TrackBaudrate
<1>4. PlatformTyped' /\ QueuesTyped' /\ CountersTyped' /\ FlagsTyped'
  BY DEF Typed, TypeOK, KeepFe0c, PlatformTyped, QueuesTyped, CountersTyped, FlagsTyped,
     platform, queues, counters
<1> QED BY <1>1, <1>3, <1>4 DEF Typed, TypeOK

\* DropFe0c keeps the types.
LEMMA DropFe0cTyped ==
  ASSUME Typed, NEW t \in Thread, DropFe0c(t)
  PROVE  Typed'
<1>1. ThreadsTyped' /\ ChosenDevice'
  BY GotoTyped, DrvTyped, Places DEF DropFe0c, Attempting
<1>2. FieldsTyped'
  BY DEF Typed, TypeOK, FieldsTyped, DropFe0c, DeviceOrNull
<1>3. PlatformTyped' /\ QueuesTyped' /\ CountersTyped' /\ FlagsTyped'
  BY DEF Typed, TypeOK, DropFe0c, PlatformTyped, QueuesTyped, CountersTyped, FlagsTyped,
     platform, queues, counters
<1> QED BY <1>1, <1>2, <1>3 DEF Typed, TypeOK

\* A step that may open the port, close it, or leave it as it is.
LEMMA OpenTyped ==
  ASSUME Typed, port = NoDev => open' \subseteq open, open' \subseteq open \cup {port}
  PROVE  open' \subseteq Device
BY DEF Typed, TypeOK, FieldsTyped, DeviceOrNull

\* OpenPort keeps the types.
LEMMA OpenPortTyped ==
  ASSUME Typed, NEW t \in Thread, OpenPort(t)
  PROVE  Typed'
<1>1. ThreadsTyped' /\ ChosenDevice'
  BY GotoTyped, DrvTyped, Places DEF OpenPort, Attempting
<1>2. CountersTyped'
  BY DEF Typed, TypeOK, OpenPort, CountersTyped, Fault
<1>3. open' \subseteq Device
  BY OpenTyped DEF OpenPort, Openable
<1>4. FieldsTyped'
  BY <1>3 DEF Typed, TypeOK, FieldsTyped, OpenPort
<1>5. PlatformTyped' /\ QueuesTyped' /\ FlagsTyped'
  BY DEF Typed, TypeOK, OpenPort, PlatformTyped, QueuesTyped, FlagsTyped, platform, queues
<1> QED BY <1>1, <1>2, <1>4, <1>5 DEF Typed, TypeOK

\* CatchAttempt keeps the types.
LEMMA CatchAttemptTyped ==
  ASSUME Typed, NEW t \in Thread, CatchAttempt(t)
  PROVE  Typed'
<1>1. ThreadsTyped' /\ ChosenDevice'
  BY GotoTyped, DrvTyped, Places DEF CatchAttempt, Attempting
<1>2. FieldsTyped'
  BY DEF Typed, TypeOK, FieldsTyped, CatchAttempt
<1>3. PlatformTyped' /\ QueuesTyped' /\ CountersTyped' /\ FlagsTyped'
  BY DEF Typed, TypeOK, CatchAttempt, PlatformTyped, QueuesTyped, CountersTyped, FlagsTyped,
     platform, queues, counters
<1> QED BY <1>1, <1>2, <1>3 DEF Typed, TypeOK

\* Configure keeps the types.
LEMMA ConfigureTyped ==
  ASSUME Typed, NEW t \in Thread, Configure(t)
  PROVE  Typed'
<1>1. PlatformTyped'
  BY DeviceAssumption DEF Typed, TypeOK, Configure, PlatformTyped, platform,
     NoBaud, Baud, FieldsTyped, ThreadsTyped, DeviceOrNull, Thread
<1>2. FieldsTyped'
  BY DeviceAssumption DEF Typed, TypeOK, Configure, FieldsTyped, TrackBaudrate,
     fields, Baud, NoBaud, DeviceOrNull, PlatformTyped, ThreadsTyped, Thread
<1>3. ThreadsTyped'
  BY DeviceAssumption DEF Typed, TypeOK, Configure, ThreadsTyped, At, Goto,
     locals, Thread, PC, Connecting, Attempting, Recovering, Reading, DeviceOrNull, Baud, NoBaud,
     PlatformTyped, FieldsTyped
<1>4. CountersTyped'
  BY DeviceAssumption DEF Typed, TypeOK, Configure, CountersTyped, Fault,
     counters
<1>5. ChosenDevice'
  BY DeviceAssumption DEF Typed, TypeOK, Configure, ChosenDevice, At, Goto,
     locals, Thread, DeviceOrNull, PlatformTyped, FieldsTyped, ThreadsTyped,
     NoBaud, Baud
<1>6. QueuesTyped' /\ FlagsTyped'
  BY DEF Typed, TypeOK, Configure, QueuesTyped, FlagsTyped, queues, fields
<1> QED BY <1>1, <1>2, <1>3, <1>4, <1>5, <1>6 DEF Typed, TypeOK

\* NextBaudrate keeps the types.
LEMMA NextBaudrateTyped ==
  ASSUME Typed, NEW t \in Thread, NextBaudrate(t)
  PROVE  Typed'
<1>1. ThreadsTyped'
  BY DeviceAssumption DEF Typed, TypeOK, NextBaudrate, ThreadsTyped, At, Goto,
     locals, Thread, PC, Connecting, Attempting, Recovering, Reading, DeviceOrNull, Baud, NoBaud,
     PlatformTyped, FieldsTyped
<1>2. ChosenDevice'
  BY DeviceAssumption DEF Typed, TypeOK, NextBaudrate, ChosenDevice, At, Goto,
     locals, Thread, DeviceOrNull, PlatformTyped, FieldsTyped, ThreadsTyped,
     NoBaud, Baud
<1>3. PlatformTyped' /\ QueuesTyped' /\ FieldsTyped' /\ CountersTyped' /\ FlagsTyped'
  BY DEF Typed, TypeOK, NextBaudrate, PlatformTyped, QueuesTyped, FieldsTyped,
     CountersTyped, FlagsTyped, platform, queues, fields, counters
<1> QED BY <1>1, <1>2, <1>3 DEF Typed, TypeOK

\* Finish keeps the types.
LEMMA FinishTyped ==
  ASSUME Typed, NEW t \in Thread, Finish(t)
  PROVE  Typed'
<1>1. ThreadsTyped'
  BY DeviceAssumption DEF Typed, TypeOK, Finish, ThreadsTyped, At, Goto,
     Return, locals, Thread, PC, Connecting, Attempting, Recovering, Reading, DeviceOrNull, Baud,
     NoBaud, PlatformTyped, FieldsTyped
<1>2. FlagsTyped'
  BY DeviceAssumption DEF Typed, TypeOK, Finish, FlagsTyped, At, StartReading,
     fields
<1>3. ChosenDevice'
  BY DeviceAssumption DEF Typed, TypeOK, Finish, ChosenDevice, At, Goto,
     Return, locals, Thread, DeviceOrNull, PlatformTyped, FieldsTyped,
     ThreadsTyped, NoBaud, Baud
<1>4. PlatformTyped' /\ FieldsTyped' /\ CountersTyped'
  BY DEF Typed, TypeOK, Finish, PlatformTyped, FieldsTyped, CountersTyped,
     platform, fields, counters
<1>5. QueuesTyped'
  BY StartReadingTyped DEF Typed, TypeOK, QueuesTyped, Finish
<1> QED BY <1>1, <1>2, <1>3, <1>4, <1>5 DEF Typed, TypeOK

\* Recover keeps the types.
LEMMA RecoverTyped ==
  ASSUME Typed, NEW t \in Thread, Recover(t)
  PROVE  Typed'
<1>1. ThreadsTyped' /\ ChosenDevice'
  BY GotoTyped, DrvTyped, Places DEF Recover, Recovering
<1>2. CountersTyped'
  BY DEF Typed, TypeOK, Recover, CountersTyped, Fault
<1>3. PlatformTyped' /\ QueuesTyped' /\ FieldsTyped' /\ FlagsTyped'
  BY DEF Typed, TypeOK, Recover, PlatformTyped, QueuesTyped, FieldsTyped, FlagsTyped,
     platform, queues, fields
<1> QED BY <1>1, <1>2, <1>3 DEF Typed, TypeOK

\* Reopen keeps the types.
LEMMA ReopenTyped ==
  ASSUME Typed, NEW t \in Thread, Reopen(t)
  PROVE  Typed'
<1>1. ThreadsTyped' /\ ChosenDevice'
  BY GotoTyped, DrvTyped, Places DEF Reopen, Recovering
<1>2. CountersTyped'
  BY DEF Typed, TypeOK, Reopen, CountersTyped, Fault
<1>3. open' \subseteq Device
  BY OpenTyped DEF Reopen, Openable
<1>4. FieldsTyped'
  BY <1>3 DEF Typed, TypeOK, FieldsTyped, Reopen
<1>5. PlatformTyped' /\ QueuesTyped' /\ FlagsTyped'
  BY DEF Typed, TypeOK, Reopen, PlatformTyped, QueuesTyped, FlagsTyped, platform, queues
<1> QED BY <1>1, <1>2, <1>4, <1>5 DEF Typed, TypeOK

\* SlowDown keeps the types.
LEMMA SlowDownTyped ==
  ASSUME Typed, NEW t \in Thread, SlowDown(t)
  PROVE  Typed'
<1>1. ThreadsTyped' /\ ChosenDevice'
  BY GotoTyped, DrvTyped, Places DEF SlowDown, Recovering
<1>2. CountersTyped'
  BY DEF Typed, TypeOK, SlowDown, CountersTyped, Fault
<1>3. FieldsTyped'
  BY DEF Typed, TypeOK, FieldsTyped, SlowDown, Baud
<1>4. wire' \in [Device -> Baud \cup {NoBaud}]
  BY DEF Typed, TypeOK, PlatformTyped, SlowDown, Baud
<1>5. PlatformTyped'
  BY <1>4 DEF Typed, TypeOK, PlatformTyped, SlowDown
<1>6. reconnecting' \in BOOLEAN
  <2>1. reconnecting' = FALSE \/ reconnecting' = reconnecting
    BY DEF SlowDown
  <2> QED BY <2>1 DEF Typed, TypeOK, FlagsTyped
<1>7. QueuesTyped' /\ FlagsTyped'
  BY <1>6 DEF Typed, TypeOK, SlowDown, QueuesTyped, FlagsTyped, queues
<1> QED BY <1>1, <1>2, <1>3, <1>5, <1>7 DEF Typed, TypeOK

\* Resume keeps the types.
LEMMA ResumeTyped ==
  ASSUME Typed, NEW t \in Thread, Resume(t)
  PROVE  Typed'
<1>1. ThreadsTyped' /\ ChosenDevice'
  BY GotoTyped, DrvTyped, Places DEF Resume, Recovering
<1>2. jobs' \in Seq(Job) /\ isReading' \in BOOLEAN
  BY StartReadingTyped DEF Resume
<1>3. QueuesTyped' /\ FlagsTyped'
  BY <1>2 DEF Typed, TypeOK, Resume, QueuesTyped, FlagsTyped
<1>4. PlatformTyped' /\ FieldsTyped' /\ CountersTyped'
  BY DEF Typed, TypeOK, Resume, PlatformTyped, FieldsTyped, CountersTyped, platform, counters
<1> QED BY <1>1, <1>3, <1>4 DEF Typed, TypeOK

\* GiveUp keeps the types.
LEMMA GiveUpTyped ==
  ASSUME Typed, NEW t \in Thread, GiveUp(t)
  PROVE  Typed'
<1>1. ThreadsTyped' /\ ChosenDevice'
  BY ReturnTyped DEF GiveUp, Abort
<1>2. FieldsTyped'
  BY DEF Typed, TypeOK, FieldsTyped, GiveUp, Abort
<1>3. PlatformTyped' /\ QueuesTyped' /\ CountersTyped' /\ FlagsTyped'
  BY DEF Typed, TypeOK, GiveUp, PlatformTyped, QueuesTyped, CountersTyped, FlagsTyped,
     platform, queues, counters
<1> QED BY <1>1, <1>2, <1>3 DEF Typed, TypeOK

\* The initial states.
LEMMA TypedInit == Init => Typed
<1> SUFFICES ASSUME Init PROVE Typed
  OBVIOUS
<1>1. PlatformTyped BY DEF Init, PlatformTyped, Baud
<1>2. QueuesTyped
  <2>1. mainq \in Seq(Broadcast) BY DEF Init
  <2>2. timers \in [Timer -> Nat] BY DEF Init
  <2>3. jobs \in Seq(Job) BY JobType DEF Init
  <2> QED BY <2>1, <2>2, <2>3 DEF Init, QueuesTyped
<1>3. FieldsTyped BY DEF Init, FieldsTyped, DeviceOrNull, Baud
<1>4. ThreadsTyped BY DEF Init, ThreadsTyped, PC, DeviceOrNull
<1>5. CountersTyped BY DEF Init, CountersTyped
<1>6. FlagsTyped
  <2>1. isReading = FALSE /\ crashed = FALSE /\ reconnecting = FALSE BY DEF Init
  <2> QED BY <2>1, Zenon DEF FlagsTyped
<1>7. ChosenDevice BY DEF Init, ChosenDevice, Thread
<1> QED BY <1>1, <1>2, <1>3, <1>4, <1>5, <1>6, <1>7 DEF Typed, TypeOK

\* Every step, by the actions of Next.
LEMMA TypedStep == Typed /\ [Next]_vars => Typed'
<1> SUFFICES ASSUME Typed, [Next]_vars PROVE Typed'
  OBVIOUS
<1>1. CASE Broadcasts
  BY <1>1, OnAttachedTyped, OnDetachedTyped, TestOwnerTyped, CleanUpTyped, OnPermissionTyped
     DEF Broadcasts
<1>2. CASE \E k \in Timer : Fire(k)
  BY <1>2, FireTyped
<1>3. CASE UserInterface
  BY <1>3, CameraOpenedTyped, ReconnectTyped, SetPreferredBaudrateTyped,
     KeyPressTyped DEF UserInterface
<1>4. CASE \E t \in Thread : ConnectWithPermission(t)
  BY <1>4, FindDriverTyped, StoreDriverTyped, OpenDeviceTyped, TryBaudrateTyped, GetPortTyped,
     ChooseInitTyped, ClaimFe0cTyped, KeepFe0cTyped, DropFe0cTyped, OpenPortTyped,
     ConfigureTyped, CatchAttemptTyped, NextBaudrateTyped, FinishTyped, RecoverTyped,
     ReopenTyped, SlowDownTyped, ResumeTyped, GiveUpTyped
     DEF ConnectWithPermission, Attempt, Recovery
<1>5. CASE SerialJob
  BY <1>5, DetectTyped, NoDriverTyped, StoreDeviceTyped, ChooseDeviceTyped,
     CheckPermissionTyped, StartLoopTyped, LoopTestTyped, ReadPortTyped
     DEF SerialJob
<1>6. CASE ReleaseKey
  BY <1>6, ReleaseKeyTyped
<1>7. CASE Platform
  BY <1>7, PlugTyped, UnplugTyped, AnswerTyped, TimePassesTyped DEF Platform
<1>8. CASE UNCHANGED vars
  <2> USE <1>8 DEF vars
  <2>1. PlatformTyped' BY DEF Typed, TypeOK, PlatformTyped, platform
  <2>2. QueuesTyped' BY DEF Typed, TypeOK, QueuesTyped, queues
  <2>3. FieldsTyped' BY DEF Typed, TypeOK, FieldsTyped, fields
  <2>4. ThreadsTyped' BY DEF Typed, TypeOK, ThreadsTyped, locals
  <2>5. CountersTyped' BY DEF Typed, TypeOK, CountersTyped, counters
  <2>6. FlagsTyped' BY DEF Typed, TypeOK, FlagsTyped, fields
  <2>7. ChosenDevice' BY DEF Typed, ChosenDevice, locals
  <2> QED BY <2>1, <2>2, <2>3, <2>4, <2>5, <2>6, <2>7 DEF Typed, TypeOK
<1> QED BY <1>1, <1>2, <1>3, <1>4, <1>5, <1>6, <1>7, <1>8 DEF Next

\* The invariant.
LEMMA TypedAlways == Spec => []Typed
BY TypedInit, TypedStep, PTL DEF Spec

\* The fields of the manager, the queues and the threads keep their types.
THEOREM TypeCorrect == Spec => []TypeOK
<1>1. Typed => TypeOK BY DEF Typed
<1> QED BY <1>1, TypedAlways, PTL

-----------------------------------------------------------------------------
(* A device is opened only with its permission.  A device is cleared when the *)
(* user or the system has granted it, or when it has gone: nothing can be    *)
(* opened then.  Once cleared it stays so, which is why an answer that waits *)
(* in the queue of the main looper may be acted upon late.                   *)

Cleared == permitted \cup (seen \ plugged)

MessagesCleared ==
  \A i \in 1..Len(mainq) :
    (mainq[i].type = "permission" /\ mainq[i].granted) => mainq[i].device \in Cleared

PermissionInv ==
  /\ Typed
  /\ plugged \subseteq seen
  /\ MessagesCleared
  /\ PermissionBeforeOpen

\* The initial states.
LEMMA PermissionInit == Init => PermissionInv
BY TypedInit DEF Init, PermissionInv, MessagesCleared, PermissionBeforeOpen

\* Only the platform changes what is cleared, and never takes it back.
LEMMA ClearedGrows ==
  ASSUME Typed, plugged \subseteq seen, [Next]_vars
  PROVE  /\ (plugged \subseteq seen)' /\ seen \subseteq seen'
         /\ seen \ plugged \subseteq (seen \ plugged)'
         /\ Cleared \subseteq Cleared'
<1> DEFINE Later == /\ (plugged \subseteq seen)' /\ seen \subseteq seen'
                    /\ seen \ plugged \subseteq (seen \ plugged)'
                    /\ Cleared \subseteq Cleared'
           Same == UNCHANGED <<plugged, seen, permitted>>
<1> SUFFICES ASSUME ~Same
             PROVE  Later
  BY DEF Cleared
<1>1. CASE Broadcasts
  <2>1. CASE OnAttached \/ OnDetached \/ OnPermission
    BY <2>1 DEF OnAttached, OnDetached, OnPermission, platform
  <2>2. CASE TestOwner \/ CleanUp
    BY <2>2 DEF TestOwner, CleanUp, platform
  <2> QED BY <1>1, <2>1, <2>2 DEF Broadcasts
<1>2. CASE \E k \in Timer : Fire(k)
  BY <1>2 DEF Fire, platform
<1>3. CASE UserInterface
  BY <1>3 DEF UserInterface, CameraOpened, Reconnect, SetPreferredBaudrate,
     KeyPress, platform
<1>4. CASE \E t \in Thread : ConnectWithPermission(t)
  BY <1>4 DEF ConnectWithPermission, FindDriver, StoreDriver, OpenDevice,
     Finish, Attempt, TryBaudrate, GetPort, ReadDriver, AssignPort, ChooseInit, ClaimFe0c, KeepFe0c,
     DropFe0c, OpenPort, Configure, CatchAttempt, NextBaudrate, Recovery, Recover, Reopen,
     SlowDown, Resume, GiveUp, platform
<1>5. CASE SerialJob
  BY <1>5 DEF SerialJob, Detect, NoDriver, StoreDevice, ChooseDevice, CheckPermission,
     StartLoop, LoopTest, ReadPort, platform
<1>6. CASE ReleaseKey
  BY <1>6 DEF ReleaseKey
<1>7. CASE Platform
  <2>1. ASSUME NEW d \in Device, Plug(d)
        PROVE  Later
    BY <2>1 DEF Plug, Cleared
  <2>2. ASSUME NEW d \in Device, Unplug(d)
        PROVE  Later
    BY <2>2 DEF Unplug, Cleared
  <2>3. ASSUME NEW d \in Device, NEW yes \in BOOLEAN, Answer(d, yes)
        PROVE  Later
    BY <2>3 DEF Answer, Cleared
  <2>4. ASSUME TimePasses PROVE Same
    BY <2>4 DEF TimePasses, platform
  <2> QED BY <1>7, <2>1, <2>2, <2>3, <2>4 DEF Platform
<1>8. CASE UNCHANGED vars
  BY <1>8 DEF vars, platform
<1> QED BY <1>1, <1>2, <1>3, <1>4, <1>5, <1>6, <1>7, <1>8 DEF Next

\* What the broadcast of an answer says: a device it grants is permitted, and
\* it names a device that was asked for unless it has lost its extras.
Answers(m) == /\ m.granted => m.device \in permitted'
              /\ m.device \in asked \cup {NoDev}

\* A step delivers the first message, sends such messages, a detachment among
\* them when the device goes, or leaves the queue alone.
LEMMA QueueStep ==
  ASSUME Typed, [Next]_vars
  PROVE  \/ mainq' = mainq
         \/ mainq # <<>> /\ mainq' = Tail(mainq)
         \/ \E m \in Broadcast :
              /\ m.type = "permission" => Answers(m)
              /\ m.type = "detach" => m.device \in plugged \ plugged'
              /\ \E n \in Nat : mainq' = mainq \o [i \in 1..n |-> m]
<1> DEFINE Goal ==
         \/ mainq' = mainq
         \/ mainq # <<>> /\ mainq' = Tail(mainq)
         \/ \E m \in Broadcast :
              /\ m.type = "permission" => Answers(m)
              /\ m.type = "detach" => m.device \in plugged \ plugged'
              /\ \E n \in Nat : mainq' = mainq \o [i \in 1..n |-> m]
<1> SUFFICES Goal OBVIOUS
<1>1. CASE Broadcasts
  BY <1>1 DEF Broadcasts, OnAttached, OnDetached, TestOwner, CleanUp, OnPermission, queues
<1>2. CASE \E k \in Timer : Fire(k)
  BY <1>2 DEF Fire
<1>3. CASE UserInterface
  BY <1>3 DEF UserInterface, CameraOpened, Reconnect, SetPreferredBaudrate,
     KeyPress, queues
<1>4. CASE \E t \in Thread : ConnectWithPermission(t)
  BY <1>4 DEF ConnectWithPermission, FindDriver, StoreDriver, OpenDevice,
     Finish, Attempt, TryBaudrate, GetPort, ReadDriver, AssignPort, ChooseInit, ClaimFe0c, KeepFe0c,
     DropFe0c, OpenPort, Configure, CatchAttempt, NextBaudrate, Recovery, Recover, Reopen,
     SlowDown, Resume, GiveUp, queues
<1>5. CASE SerialJob
  BY <1>5 DEF SerialJob, Detect, NoDriver, StoreDevice, ChooseDevice, CheckPermission,
     StartLoop, LoopTest, ReadPort, queues
<1>6. CASE ReleaseKey
  BY <1>6 DEF ReleaseKey
<1>7. CASE Platform
  <2>1. ASSUME NEW d \in Device, Plug(d) PROVE Goal
    <3>1. [type |-> "attach", device |-> d] \in Broadcast BY MessageType
    <3>2. PICK n \in Deliveries :
            mainq' = mainq \o [i \in 1..n |-> [type |-> "attach", device |-> d]]
      BY <2>1 DEF Plug
    <3>3. n \in Nat BY BoundAssumption
    <3> QED BY <3>1, <3>2, <3>3
  <2>2. ASSUME NEW d \in Device, Unplug(d) PROVE Goal
    <3> DEFINE m == [type |-> "detach", device |-> d]
    <3>1. m \in Broadcast BY MessageType
    <3>2. mainq' = Append(mainq, m) BY <2>2 DEF Unplug
    <3>3. mainq' = mainq \o [i \in 1..1 |-> m]
      BY <3>1, <3>2 DEF Typed, TypeOK, QueuesTyped
    <3>4. d \in plugged \ plugged' BY <2>2 DEF Unplug
    <3> QED BY <3>1, <3>3, <3>4
  <2>3. ASSUME NEW d \in Device, NEW yes \in BOOLEAN, Answer(d, yes) PROVE Goal
    <3>1. PICK m \in {[type |-> "permission", device |-> d, granted |-> yes]} \cup
              (IF ExtrasDropped
               THEN {[type |-> "permission", device |-> NoDev, granted |-> FALSE]}
               ELSE {}) : mainq' = Append(mainq, m)
      BY <2>3, Zenon DEF Answer
    <3>2. m \in Broadcast BY MessageType, Zenon
    <3>3. m.granted => yes /\ m.device = d OBVIOUS
    <3>4. (yes => d \in permitted') /\ d \in asked BY <2>3 DEF Answer
    <3>5. m.device \in {d, NoDev} OBVIOUS
    <3> HIDE DEF Goal
    <3>6. mainq' = mainq \o [i \in 1..1 |-> m]
      BY <3>1, <3>2 DEF Typed, TypeOK, QueuesTyped
    <3> QED BY <3>2, <3>3, <3>4, <3>5, <3>6 DEF Goal, Answers
  <2>4. ASSUME TimePasses PROVE Goal
    BY <2>4 DEF TimePasses, queues
  <2> QED BY <1>7, <2>1, <2>2, <2>3, <2>4 DEF Platform
<1>8. CASE UNCHANGED vars
  BY <1>8 DEF vars, queues
<1> QED BY <1>1, <1>2, <1>3, <1>4, <1>5, <1>6, <1>7, <1>8 DEF Next

\* Every message that grants a permission stays cleared while it waits.
LEMMA MessagesStep ==
  ASSUME PermissionInv, [Next]_vars
  PROVE  MessagesCleared'
<1> USE DEF PermissionInv
<1>1. Cleared \subseteq Cleared'
  BY ClearedGrows
<1>2. mainq \in Seq(Broadcast)
  BY DEF Typed, TypeOK, QueuesTyped
<1>3. CASE mainq' = mainq
  BY <1>1, <1>2, <1>3 DEF MessagesCleared
<1>4. CASE mainq # <<>> /\ mainq' = Tail(mainq)
  <2>1. Len(mainq') = Len(mainq) - 1
        /\ \A i \in 1..Len(mainq') : mainq'[i] = mainq[i + 1]
    BY <1>2, <1>4
  <2>2. ASSUME NEW i \in 1..Len(mainq') PROVE i + 1 \in 1..Len(mainq)
    BY <1>2, <1>4, <2>1
  <2> QED BY <1>1, <2>1, <2>2 DEF MessagesCleared
<1>5. CASE \E m \in Broadcast :
             /\ m.type = "permission" => Answers(m)
             /\ \E n \in Nat : mainq' = mainq \o [i \in 1..n |-> m]
  <2>1. PICK m \in Broadcast, n \in Nat :
               /\ m.type = "permission" => Answers(m)
               /\ mainq' = mainq \o [i \in 1..n |-> m]
    BY <1>5
  <2> DEFINE new == [i \in 1..n |-> m]
  <2>2. new \in Seq(Broadcast) /\ Len(new) = n /\ \A i \in 1..n : new[i] = m
    OBVIOUS
  <2>3. mainq' = mainq \o new
    BY <2>1
  <2> HIDE DEF new
  <2>4. \A i \in 1..Len(mainq') :
          \/ i \in 1..Len(mainq) /\ mainq'[i] = mainq[i]
          \/ mainq'[i] = m
    BY <1>2, <2>2, <2>3
  <2>5. permitted' \subseteq Cleared'
    BY DEF Cleared
  <2> QED BY <1>1, <2>1, <2>4, <2>5 DEF MessagesCleared, Answers
<1> QED BY <1>3, <1>4, <1>5, QueueStep

\* A thread enters connectWithPermission with a cleared device, and keeps it.
LEMMA ThreadsStep ==
  ASSUME PermissionInv, [Next]_vars
  PROVE  PermissionBeforeOpen'
<1> USE DEF PermissionInv
<1>1. Cleared \subseteq Cleared'
  BY ClearedGrows
<1> DEFINE Opening(u)  == pc[u] \in {"driver", "match", "open"}
           Enters(u) == ~Opening(u)' \/ dev'[u] \in Cleared
                        \/ (Opening(u) /\ dev'[u] = dev[u])
<1> SUFFICES \A u \in Thread : Enters(u)
  BY <1>1 DEF PermissionBeforeOpen, Cleared
<1>2. pc \in [Thread -> PC] /\ dev \in [Thread -> DeviceOrNull]
  BY DEF Typed, TypeOK, ThreadsTyped
<1>3. CASE UNCHANGED <<pc, dev>>
  BY <1>3
<1>4. CASE OnPermission
  <2> DEFINE m == Head(mainq)
             d == IF m.device = NoDev THEN pendingDevice ELSE m.device
  <2>1. m \in Broadcast /\ m = mainq[1] /\ 1 \in 1..Len(mainq)
        /\ m.type = "permission"
    BY <1>4 DEF OnPermission, Typed, TypeOK, QueuesTyped
  <2>2. m.granted => m.device \in Cleared
    BY <2>1 DEF MessagesCleared
  <2>3. Cleared \subseteq Device
    BY DEF Cleared, Typed, TypeOK, PlatformTyped
  <2>4. m.granted => d \in Cleared
    BY <2>2, <2>3, DeviceAssumption
  <2>5. d \in permitted => d \in Cleared
    BY DEF Cleared
  <2>6. \/ Goto("main", "driver") /\ dev' = [dev EXCEPT !["main"] = d] /\ Allowed(m, d)
        \/ UNCHANGED <<pc, dev>>
    BY <1>4 DEF OnPermission
  <2>7. CASE Goto("main", "driver") /\ dev' = [dev EXCEPT !["main"] = d] /\ Allowed(m, d)
    <3>1. d \in Cleared BY <2>4, <2>5, <2>7 DEF Allowed
    <3> HIDE DEF d
    <3> QED BY <1>2, <2>7, <3>1 DEF Goto, Thread
  <2> QED BY <1>3, <2>6, <2>7
<1>5. CASE CheckPermission
  BY <1>2, <1>5 DEF CheckPermission, Goto, Return, HasPermission, Cleared, Thread
<1>6. ASSUME NEW t \in Thread, ConnectWithPermission(t)
      PROVE  \A u \in Thread : Enters(u)
  <2>1. CASE FindDriver(t)
    BY <1>2, <2>1 DEF FindDriver, At, Goto, Abort, Return
  <2>2. CASE StoreDriver(t) \/ OpenDevice(t)
    BY <1>2, <2>2 DEF StoreDriver, OpenDevice, At, Goto, Abort, Return
  <2>3. ASSUME NEW l \in PC \ {"driver", "match", "open"}, Goto(t, l), UNCHANGED dev
        PROVE  \A u \in Thread : Enters(u)
    BY <1>2, <2>3 DEF Goto
  <2>4. CASE Return(t)
    BY <1>2, <2>4 DEF Return, Goto
  <2>5. CASE Attempt(t)
    <3>1. \E l \in Attempting \cup Recovering \cup {"finish"} : Goto(t, l) /\ UNCHANGED dev
      BY <2>5 DEF Attempt, TryBaudrate, GetPort, ReadDriver, AssignPort, ChooseInit, ClaimFe0c,
         KeepFe0c, DropFe0c, OpenPort, Configure, CatchAttempt, NextBaudrate, Attempting,
         Recovering
    <3> QED BY <2>3, <3>1 DEF PC, Connecting, Attempting, Recovering
  <2>6. CASE Finish(t) \/ Recovery(t)
    <3>1. Return(t) \/ \E l \in Recovering : Goto(t, l) /\ UNCHANGED dev
      BY <2>6 DEF Finish, Recovery, Recover, Reopen, SlowDown, Resume, GiveUp, Abort, Recovering
    <3> QED BY <2>3, <2>4, <3>1 DEF PC, Connecting, Recovering
  <2> QED BY <1>6, <2>1, <2>2, <2>5, <2>6 DEF ConnectWithPermission
<1>7. CASE Detect \/ NoDriver \/ StoreDevice \/ StartLoop \/ LoopTest \/ ReadPort
  BY <1>2, <1>7 DEF Detect, NoDriver, StoreDevice, StartLoop, LoopTest, ReadPort,
     ReadFailed, Return, Goto
<1>8. CASE ChooseDevice
  BY <1>2, <1>8 DEF ChooseDevice, Goto, Thread
<1>9. CASE OnDetached \/ TestOwner \/ CleanUp
  <2>1. /\ pc["main"] \notin {"driver", "match", "open"}
        /\ dev'["serial"] = dev["serial"] /\ pc'["serial"] = pc["serial"]
    BY <1>2, <1>9, FollowingType
       DEF OnDetached, MainIdle, TestOwner, CleanUp, At, Goto, Thread, Detaching
  <2>2. pc'["main"] \notin {"driver", "match", "open"}
    BY <1>2, <1>9, FollowingType
       DEF OnDetached, TestOwner, CleanUp, Goto, Thread, Detaching
  <2> QED BY <2>1, <2>2 DEF Thread
<1>10. CASE OnAttached \/ (\E k \in Timer : Fire(k)) \/ UserInterface
  BY <1>3, <1>10 DEF OnAttached, Fire, UserInterface, CameraOpened,
     Reconnect, SetPreferredBaudrate, KeyPress, locals
<1>11. CASE ReleaseKey \/ Platform \/ UNCHANGED vars
  BY <1>3, <1>11 DEF ReleaseKey, Platform, Plug, Unplug, Answer, TimePasses, vars, locals
<1> QED
  BY <1>4, <1>5, <1>6, <1>7, <1>8, <1>9, <1>10, <1>11 DEF Next, Broadcasts, SerialJob

\* openDevice() is reached only for a device the app may open, or that has
\* gone: by every path, with any number of attachments and late answers.
THEOREM OpensWithPermission == Spec => []PermissionBeforeOpen
<1>1. PermissionInv /\ [Next]_vars => PermissionInv'
  BY TypedStep, ClearedGrows, MessagesStep, ThreadsStep DEF PermissionInv
<1>2. PermissionInv => PermissionBeforeOpen
  BY DEF PermissionInv
<1> QED BY PermissionInit, <1>1, <1>2, PTL DEF Spec
=============================================================================
