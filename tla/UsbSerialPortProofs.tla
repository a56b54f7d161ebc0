------------------------- MODULE UsbSerialPortProofs -------------------------
(***************************************************************************)
(* What the two threads make of the port as long as one attachment has been *)
(* plugged, of any kind: whichever thread connects, or both at once, and    *)
(* whatever they fail at, a port is not left open on a device that has gone, *)
(* the rate that is told is the rate on the wire, and an open port has its  *)
(* reader.                                                                  *)
(***************************************************************************)
EXTENDS UsbSerialProofs

-----------------------------------------------------------------------------
(* What the manager knows has been plugged *)

Gone == seen \ plugged

Known == seen \cup {NoDev}

DevicesKnown ==
  /\ {driver, pendingDevice, port, fe0c} \cup open \cup asked \subseteq Known
  /\ \A t \in Thread : {dev[t], drv[t]} \subseteq Known

\* A broadcast names a device that has been plugged, and a detachment is told
\* only of one that has gone.
MessagesKnown ==
  \A i \in 1..Len(mainq) :
    /\ mainq[i].type = "permission" => mainq[i].device \in Known
    /\ mainq[i].type = "detach" => mainq[i].device \in Gone

\* What connectWithPermission may make of the devices it knows.
LEMMA ConnectDevices ==
  ASSUME NEW t \in Thread, ConnectWithPermission(t)
  PROVE  /\ driver' \in {driver, dev[t]} /\ port' \in {port, drv[t]}
         /\ fe0c' \in {fe0c, dev[t], NoDev} /\ open' \subseteq open \cup {port}
         /\ UNCHANGED <<pendingDevice, asked>>
         /\ dev' = dev \/ dev' = [dev EXCEPT ![t] = NoDev]
         /\ \E d \in {drv[t], driver, NoDev} : drv' = drv \/ drv' = [drv EXCEPT ![t] = d]
<1>1. CASE FindDriver(t) \/ StoreDriver(t) \/ OpenDevice(t) \/ Finish(t)
  BY <1>1 DEF FindDriver, StoreDriver, OpenDevice, Finish, Abort, Return, platform
<1>2. CASE TryBaudrate(t) \/ ChooseInit(t) \/ ClaimFe0c(t) \/ NextBaudrate(t) \/ Recover(t)
  BY <1>2 DEF TryBaudrate, ChooseInit, ClaimFe0c, NextBaudrate, Recover, fields, platform
<1>3. CASE GetPort(t)
  BY <1>3 DEF GetPort, ReadDriver, AssignPort, fields, platform
<1>4. CASE KeepFe0c(t) \/ DropFe0c(t) \/ OpenPort(t) \/ CatchAttempt(t)
  BY <1>4 DEF KeepFe0c, DropFe0c, OpenPort, CatchAttempt, platform
<1>5. CASE Configure(t) \/ SlowDown(t)
  BY <1>5 DEF Configure, SlowDown
<1>6. CASE Reopen(t) \/ Resume(t) \/ GiveUp(t)
  BY <1>6 DEF Reopen, Resume, GiveUp, Abort, Return, platform
<1> QED BY <1>1, <1>2, <1>3, <1>4, <1>5, <1>6 DEF ConnectWithPermission, Attempt, Recovery

\* The devices in hand and in the fields come from the list of plugged devices,
\* from an answer, or from one another.
LEMMA KnownStep ==
  ASSUME Typed, plugged \subseteq seen, DevicesKnown, MessagesKnown, [Next]_vars
  PROVE  DevicesKnown'
<1> DEFINE Goal ==
      /\ {driver', pendingDevice', port', fe0c'} \cup open' \cup asked' \subseteq Known
      /\ \A t \in Thread : {dev'[t], drv'[t]} \subseteq Known
<1>1. seen \subseteq seen'
  BY ClearedGrows
<1> SUFFICES Goal
  BY <1>1 DEF DevicesKnown, Known
<1> USE DEF DevicesKnown
<1>2. dev \in [Thread -> DeviceOrNull] /\ drv \in [Thread -> DeviceOrNull]
  BY DEF Typed, TypeOK, ThreadsTyped
<1>3. Detected \subseteq Known /\ NoDev \in Known
  BY DetectedPlugged DEF Known
<1>4. CASE UNCHANGED <<driver, pendingDevice, port, fe0c, open, asked, dev, drv>>
  BY <1>4
<1>5. CASE OnPermission
  <2> DEFINE m == Head(mainq)
             d == IF m.device = NoDev THEN pendingDevice ELSE m.device
  <2>1. m = mainq[1] /\ 1 \in 1..Len(mainq) /\ m.type = "permission"
    BY <1>5 DEF OnPermission, Typed, TypeOK, QueuesTyped
  <2>2. d \in Known
    BY <2>1 DEF MessagesKnown
  <2>3. dev' = dev \/ dev' = [dev EXCEPT !["main"] = d]
    BY <1>5 DEF OnPermission
  <2> HIDE DEF d
  <2> QED BY <1>2, <1>5, <2>2, <2>3 DEF OnPermission, fields, platform
<1>6. CASE OnDetached
  <2>1. Head(mainq) = mainq[1] /\ 1 \in 1..Len(mainq) /\ Head(mainq).type = "detach"
    BY <1>6 DEF OnDetached, Typed, TypeOK, QueuesTyped
  <2>2. Head(mainq).device \in Known
    BY <2>1 DEF MessagesKnown, Known, Gone
  <2>3. dev' = dev \/ dev' = [dev EXCEPT !["main"] = Head(mainq).device]
    BY <1>6 DEF OnDetached
  <2> QED BY <1>2, <1>6, <2>2, <2>3 DEF OnDetached, fields, platform
<1>7. CASE TestOwner
  BY <1>2, <1>3, <1>7 DEF TestOwner, fields, platform
<1>8. CASE CleanUp
  BY <1>2, <1>3, <1>8 DEF CleanUp, After, platform
<1>9. ASSUME NEW t \in Thread, ConnectWithPermission(t) PROVE Goal
  <2>1. /\ driver' \in {driver, dev[t]} /\ port' \in {port, drv[t]}
        /\ fe0c' \in {fe0c, dev[t], NoDev} /\ open' \subseteq open \cup {port}
        /\ UNCHANGED <<pendingDevice, asked>>
    BY <1>9, ConnectDevices
  <2>2. dev' = dev \/ dev' = [dev EXCEPT ![t] = NoDev]
    BY <1>9, ConnectDevices
  <2>3. PICK d \in {drv[t], driver, NoDev} : drv' = drv \/ drv' = [drv EXCEPT ![t] = d]
    BY <1>9, ConnectDevices
  <2>4. \A u \in Thread : {dev'[u], drv'[u]} \subseteq Known
    BY <1>2, <1>3, <2>2, <2>3
  <2> QED BY <1>3, <2>1, <2>4
<1>10. CASE Detect \/ NoDriver \/ StoreDevice
  BY <1>2, <1>3, <1>10 DEF Detect, NoDriver, StoreDevice, Return, fields, platform
<1>11. CASE ChooseDevice \/ CheckPermission
  BY <1>2, <1>3, <1>11 DEF ChooseDevice, CheckPermission, Return, At, Thread, platform
<1>12. CASE StartLoop \/ LoopTest \/ ReadPort \/ ReleaseKey
  BY <1>4, <1>12 DEF StartLoop, LoopTest, ReadPort, ReleaseKey, fields, locals, platform
<1>13. CASE OnAttached \/ (\E k \in Timer : Fire(k))
  BY <1>4, <1>13 DEF OnAttached, Fire, fields, locals, platform
<1>14. CASE UserInterface
  BY <1>4, <1>14 DEF UserInterface, CameraOpened, Reconnect, SetPreferredBaudrate, KeyPress,
     fields, locals, platform
<1>15. CASE Platform \/ UNCHANGED vars
  BY <1>4, <1>15 DEF Platform, Plug, Unplug, Answer, TimePasses, vars, fields, locals, platform
<1> QED
  BY <1>5, <1>6, <1>7, <1>8, <1>9, <1>10, <1>11, <1>12, <1>13, <1>14, <1>15
  DEF Next, Broadcasts, SerialJob

\* A broadcast of a detachment is queued only when its device leaves the bus.
LEMMA MessagesKnownStep ==
  ASSUME Typed, plugged \subseteq seen, DevicesKnown, MessagesKnown, [Next]_vars
  PROVE  MessagesKnown'
<1>1. Gone \subseteq Gone' /\ seen \subseteq seen' /\ Known \subseteq Known'
  BY ClearedGrows DEF Gone, Known
<1>2. mainq \in Seq(Broadcast)
  BY DEF Typed, TypeOK, QueuesTyped
<1>3. CASE mainq' = mainq
  BY <1>1, <1>3 DEF MessagesKnown
<1>4. CASE mainq # <<>> /\ mainq' = Tail(mainq)
  <2>1. Len(mainq') = Len(mainq) - 1
        /\ \A i \in 1..Len(mainq') : mainq'[i] = mainq[i + 1] /\ i + 1 \in 1..Len(mainq)
    BY <1>2, <1>4
  <2> QED BY <1>1, <2>1 DEF MessagesKnown
<1>5. CASE \E m \in Broadcast :
             /\ m.type = "permission" => Answers(m)
             /\ m.type = "detach" => m.device \in plugged \ plugged'
             /\ \E n \in Nat : mainq' = mainq \o [i \in 1..n |-> m]
  <2>1. PICK m \in Broadcast, n \in Nat :
               /\ m.type = "permission" => Answers(m)
               /\ m.type = "detach" => m.device \in plugged \ plugged'
               /\ mainq' = mainq \o [i \in 1..n |-> m]
    BY <1>5
  <2> DEFINE new == [i \in 1..n |-> m]
  <2>2. new \in Seq(Broadcast) /\ Len(new) = n /\ \A i \in 1..n : new[i] = m
    OBVIOUS
  <2>3. mainq' = mainq \o new
    BY <2>1
  <2> HIDE DEF new
  <2>4. \A i \in 1..Len(mainq') :
          \/ i \in 1..Len(mainq) /\ mainq'[i] = mainq[i]
          \/ mainq'[i] = m
    BY <1>2, <2>2, <2>3
  <2>5. m.type = "detach" => m.device \in Gone'
    BY <1>1, <2>1 DEF Gone
  <2>6. m.type = "permission" => m.device \in Known'
    BY <1>1, <2>1 DEF Answers, DevicesKnown, Known
  <2> QED BY <1>1, <2>4, <2>5, <2>6 DEF MessagesKnown
<1> QED BY <1>3, <1>4, <1>5, QueueStep

\* The main looper cleans up only after a device that has gone.
DetachingGone == pc["main"] \in Detaching => Gone # {}

\* What is assigned to port is not null.
ReadNotNull == \A t \in Thread : pc[t] \in {"assign", "keep", "swap"} => drv[t] # NoDev

\* A device is in hand where its driver is looked for and a connection to it made.
Looking == {"found", "chosen"} \cup Connecting

InHand == \A t \in Thread : pc[t] \in Looking => dev[t] # NoDev

LEMMA LookingPlaces ==
  /\ {"found", "chosen", "driver", "match"} \subseteq Looking
  /\ {"idle", "detected", "perm"} \cup Detaching \cup Reading \subseteq PC \ Looking
BY DEF Looking, Connecting, Attempting, Recovering, Detaching, Reading, PC

KnownInv ==
  /\ Typed /\ plugged \subseteq seen /\ DevicesKnown /\ MessagesKnown
  /\ DetachingGone /\ ReadNotNull /\ InHand

\* A step of a thread through connectWithPermission, as far as its place goes.
LEMMA ConnectPlace ==
  ASSUME NEW t \in Thread, ConnectWithPermission(t)
  PROVE  /\ pc[t] \in Looking
         /\ Return(t) \/ \E l \in PC \ Detaching : Goto(t, l)
<1> USE DEF Looking
<1>1. CASE FindDriver(t) \/ OpenDevice(t) \/ Finish(t)
  BY <1>1 DEF FindDriver, OpenDevice, Finish, Abort, At, PC, Detaching, Connecting, Attempting
<1>2. CASE StoreDriver(t)
  BY <1>2 DEF StoreDriver, At, PC, Detaching, Connecting
<1>3. CASE TryBaudrate(t) \/ GetPort(t) \/ ChooseInit(t) \/ ClaimFe0c(t) \/ KeepFe0c(t)
  BY <1>3 DEF TryBaudrate, GetPort, ReadDriver, AssignPort, ChooseInit, ClaimFe0c, KeepFe0c, At,
     PC, Detaching, Connecting, Attempting, Recovering
<1>4. CASE \/ DropFe0c(t) \/ OpenPort(t) \/ CatchAttempt(t) \/ Configure(t) \/ NextBaudrate(t)
           \/ Recovery(t)
  BY <1>4 DEF DropFe0c, OpenPort, CatchAttempt, Configure, NextBaudrate, Recovery, Recover, Reopen,
     SlowDown, Resume, GiveUp, Abort, At, PC, Detaching, Connecting, Attempting, Recovering
<1> QED BY <1>1, <1>2, <1>3, <1>4 DEF ConnectWithPermission, Attempt

\* Only the steps of a detachment lead the main looper into the clean-up and
\* through it.
LEMMA MainPlace ==
  ASSUME Typed, [Next]_vars
  PROVE  \/ OnDetached \/ TestOwner \/ CleanUp
         \/ pc["main"] \notin Detaching /\ pc'["main"] \notin Detaching
         \/ pc'["main"] = pc["main"]
<1> DEFINE Goal ==
      \/ pc["main"] \notin Detaching /\ pc'["main"] \notin Detaching
      \/ pc'["main"] = pc["main"]
<1>1. pc \in [Thread -> PC] /\ "main" \in Thread
  BY DEF Typed, TypeOK, ThreadsTyped, Thread
<1>2. CASE OnPermission
  BY <1>1, <1>2 DEF OnPermission, MainIdle, Goto, Detaching
<1>3. ASSUME NEW t \in Thread, ConnectWithPermission(t) PROVE Goal
  <2>1. pc[t] \notin Detaching
    BY <1>3, ConnectPlace, LookingPlaces
  <2>2. Return(t) \/ \E l \in PC \ Detaching : Goto(t, l)
    BY <1>3, ConnectPlace
  <2> QED BY <1>1, <2>1, <2>2 DEF Return, Goto, Detaching
<1>4. CASE SerialJob
  BY <1>1, <1>4 DEF SerialJob, Detect, NoDriver, StoreDevice, ChooseDevice, CheckPermission,
     StartLoop, LoopTest, ReadPort, ReadFailed, Return, Goto
<1>5. CASE \/ OnAttached \/ (\E k \in Timer : Fire(k))
           \/ UserInterface \/ ReleaseKey \/ Platform \/ UNCHANGED vars
  BY <1>5 DEF OnAttached, Fire, UserInterface, CameraOpened, Reconnect, SetPreferredBaudrate,
     KeyPress, ReleaseKey, Platform, Plug, Unplug, Answer, TimePasses, vars, locals
<1> QED BY <1>2, <1>3, <1>4, <1>5 DEF Next, Broadcasts

\* The message of a detachment names a device that has gone.
LEMMA DetachedHead ==
  ASSUME Typed, MessagesKnown, OnDetached
  PROVE  Head(mainq).device \in Gone
<1>1. Head(mainq) = mainq[1] /\ 1 \in 1..Len(mainq) /\ Head(mainq).type = "detach"
  BY DEF OnDetached, Typed, TypeOK, QueuesTyped
<1> QED BY <1>1 DEF MessagesKnown

\* The clean-up begins with the message of a device that has gone.
LEMMA DetachingGoneStep ==
  ASSUME KnownInv, [Next]_vars
  PROVE  DetachingGone'
<1>1. Typed /\ MessagesKnown /\ DetachingGone /\ Gone \subseteq Gone'
  BY ClearedGrows DEF KnownInv, Gone
<1>2. CASE OnDetached
  BY <1>1, <1>2, DetachedHead DEF DetachingGone
<1>3. CASE TestOwner
  BY <1>1, <1>3 DEF TestOwner, At, DetachingGone, Detaching
<1>4. CASE CleanUp
  BY <1>1, <1>4, FollowingType DEF CleanUp, DetachingGone
<1> QED BY <1>1, <1>2, <1>3, <1>4, MainPlace DEF DetachingGone

\* A thread reaches the assignment of port only with a driver it has read.
LEMMA ReadNotNullStep ==
  ASSUME KnownInv, [Next]_vars
  PROVE  ReadNotNull'
<1> DEFINE Assigning == {"assign", "keep", "swap"}
<1>0. Typed /\ ReadNotNull /\ DetachingGone
  BY DEF KnownInv
<1>1. pc \in [Thread -> PC] /\ drv \in [Thread -> DeviceOrNull]
  BY <1>0 DEF Typed, TypeOK, ThreadsTyped
<1> SUFFICES \A u \in Thread : pc'[u] \in Assigning => drv'[u] # NoDev
  BY DEF ReadNotNull
<1>2. CASE UNCHANGED <<pc, drv>>
  BY <1>0, <1>2 DEF ReadNotNull
<1>3. ASSUME NEW t \in Thread, NEW l \in PC \ Assigning, Goto(t, l), UNCHANGED drv
      PROVE  \A u \in Thread : pc'[u] \in Assigning => drv'[u] # NoDev
  BY <1>0, <1>1, <1>3 DEF Goto, ReadNotNull
<1>4. ASSUME NEW t \in Thread, Return(t)
      PROVE  \A u \in Thread : pc'[u] \in Assigning => drv'[u] # NoDev
  BY <1>3, <1>4, Places DEF Return
<1>5. CASE OnPermission
  BY <1>2, <1>3, <1>5, Places DEF OnPermission, Thread
<1>6. CASE OnDetached \/ TestOwner
  BY <1>3, <1>6, Places DEF OnDetached, TestOwner, Thread, Detaching
<1>7. CASE CleanUp
  <2>1. Following[pc["main"]] \in PC \ Assigning
    BY <1>7, FollowingType, Places DEF CleanUp, Detaching
  <2> QED BY <1>3, <1>7, <2>1 DEF CleanUp, Thread
<1>8. ASSUME NEW t \in Thread, ConnectWithPermission(t)
      PROVE  \A u \in Thread : pc'[u] \in Assigning => drv'[u] # NoDev
  <2>1. CASE \E from, to, l : ReadDriver(t, from, to, l) /\ l \notin Assigning
    BY <1>0, <1>1, <2>1 DEF ReadDriver, Goto, ReadNotNull
  <2>2. CASE \E from, to : AssignPort(t, from, to) /\ to \notin Assigning
    BY <1>0, <1>1, <2>2 DEF AssignPort, Goto, ReadNotNull
  <2>3. CASE FindDriver(t) \/ StoreDriver(t) \/ OpenDevice(t) \/ Finish(t)
    BY <1>3, <1>4, <2>3, Places
    DEF FindDriver, StoreDriver, OpenDevice, Finish, Abort, Attempting, PC
  <2>4. CASE \/ TryBaudrate(t) \/ ChooseInit(t) \/ ClaimFe0c(t) \/ KeepFe0c(t) \/ DropFe0c(t)
             \/ OpenPort(t) \/ Configure(t) \/ CatchAttempt(t) \/ NextBaudrate(t)
    BY <1>3, <2>4, Places
    DEF TryBaudrate, ChooseInit, ClaimFe0c, KeepFe0c, DropFe0c, OpenPort, Configure, CatchAttempt,
        NextBaudrate, Attempting, Recovering
  <2>5. CASE Recovery(t)
    BY <1>3, <1>4, <2>5, Places
    DEF Recovery, Recover, Reopen, SlowDown, Resume, GiveUp, Abort, Recovering
  <2> QED BY <1>8, <2>1, <2>2, <2>3, <2>4, <2>5 DEF ConnectWithPermission, Attempt, GetPort
<1>9. CASE Detect \/ NoDriver \/ StoreDevice \/ StartLoop \/ LoopTest \/ ReadPort
  BY <1>2, <1>3, <1>4, <1>9, Places
  DEF Detect, NoDriver, StoreDevice, StartLoop, LoopTest, ReadPort, ReadFailed, Thread
<1>10. CASE ChooseDevice \/ CheckPermission
  BY <1>2, <1>3, <1>4, <1>10 DEF ChooseDevice, CheckPermission, Thread, PC, Connecting
<1>11. CASE \/ OnAttached \/ (\E k \in Timer : Fire(k))
            \/ UserInterface \/ ReleaseKey \/ Platform \/ UNCHANGED vars
  BY <1>2, <1>11 DEF OnAttached, Fire, UserInterface, CameraOpened, Reconnect,
     SetPreferredBaudrate, KeyPress, ReleaseKey, Platform, Plug, Unplug, Answer, TimePasses,
     vars, locals
<1> QED
  BY <1>5, <1>6, <1>7, <1>8, <1>9, <1>10, <1>11 DEF Next, Broadcasts, SerialJob

\* A thread looks for the driver of a device it has found, chosen or been told of.
LEMMA InHandStep ==
  ASSUME KnownInv, [Next]_vars
  PROVE  InHand'
<1> DEFINE Later == \A u \in Thread : pc'[u] \in Looking => dev'[u] # NoDev
<1>0. Typed /\ InHand /\ DetachingGone /\ NoDev \notin Detected
  BY DetectedPlugged, DeviceAssumption DEF KnownInv, Typed, TypeOK, PlatformTyped
<1>1. pc \in [Thread -> PC] /\ dev \in [Thread -> DeviceOrNull]
  BY <1>0 DEF Typed, TypeOK, ThreadsTyped
<1> SUFFICES Later
  BY DEF InHand
<1>2. CASE UNCHANGED <<pc, dev>>
  BY <1>0, <1>2 DEF InHand
<1>3. ASSUME NEW t \in Thread, NEW l \in PC \ Looking, Goto(t, l),
             \A u \in Thread \ {t} : dev'[u] = dev[u]
      PROVE  Later
  BY <1>0, <1>1, <1>3 DEF Goto, InHand
<1>4. ASSUME NEW t \in Thread, Return(t) PROVE Later
  <2>1. "idle" \in PC \ Looking
    BY LookingPlaces
  <2> QED BY <1>1, <1>3, <1>4, <2>1 DEF Return
<1>5. CASE OnPermission
  <2> DEFINE m == Head(mainq)
             d == IF m.device = NoDev THEN pendingDevice ELSE m.device
  <2>1. \/ UNCHANGED <<pc, dev>>
        \/ d # NoDev /\ Goto("main", "driver") /\ dev' = [dev EXCEPT !["main"] = d]
    BY <1>5 DEF OnPermission
  <2> HIDE DEF d
  <2> QED BY <1>0, <1>1, <1>2, <2>1 DEF Goto, InHand
<1>6. CASE OnDetached
  <2>1. PICK l \in {"nullFe0c", "whose"} :
          Goto("main", l) /\ (UNCHANGED dev \/ \E d : dev' = [dev EXCEPT !["main"] = d])
    BY <1>6 DEF OnDetached
  <2>2. l \in PC \ Looking
    BY LookingPlaces DEF Detaching
  <2>3. "main" \in Thread /\ \A u \in Thread \ {"main"} : dev'[u] = dev[u]
    BY <1>1, <2>1 DEF Thread
  <2> QED BY <1>3, <2>1, <2>2, <2>3
<1>7. CASE TestOwner
  BY <1>1, <1>3, <1>7, LookingPlaces DEF TestOwner, Thread, Detaching
<1>8. CASE CleanUp
  <2>1. Following[pc["main"]] \in PC \ Looking
    BY <1>8, FollowingType, LookingPlaces DEF CleanUp
  <2> QED BY <1>3, <1>8, <2>1 DEF CleanUp, Thread
<1>9. ASSUME NEW t \in Thread, ConnectWithPermission(t) PROVE Later
  <2>1. pc[t] \in Looking
    BY <1>9, ConnectPlace
  <2>2. CASE \E l : Goto(t, l) /\ UNCHANGED dev
    BY <1>0, <1>1, <2>1, <2>2 DEF Goto, InHand
  <2>3. CASE Return(t)
    BY <1>4, <2>3
  <2>4. (\E l : Goto(t, l) /\ UNCHANGED dev) \/ Return(t)
    <3>1. CASE FindDriver(t) \/ StoreDriver(t) \/ OpenDevice(t) \/ Finish(t)
      BY <3>1 DEF FindDriver, StoreDriver, OpenDevice, Finish, Abort
    <3>2. CASE Attempt(t)
      BY <3>2 DEF Attempt, TryBaudrate, GetPort, ReadDriver, AssignPort, ChooseInit, ClaimFe0c,
         KeepFe0c, DropFe0c, OpenPort, Configure, CatchAttempt, NextBaudrate
    <3>3. CASE Recovery(t)
      BY <3>3 DEF Recovery, Recover, Reopen, SlowDown, Resume, GiveUp, Abort
    <3> QED BY <1>9, <3>1, <3>2, <3>3 DEF ConnectWithPermission
  <2> QED BY <2>2, <2>3, <2>4
<1>10. CASE Detect \/ ChooseDevice
  BY <1>0, <1>1, <1>2, <1>10 DEF Detect, ChooseDevice, Goto, InHand, Thread
<1>11. CASE CheckPermission
  BY <1>0, <1>1, <1>4, <1>11, DeviceAssumption
  DEF CheckPermission, At, Goto, InHand, Thread, KnownInv, Typed, ChosenDevice
<1>12. CASE NoDriver \/ StoreDevice \/ StartLoop \/ LoopTest \/ ReadPort
  BY <1>2, <1>3, <1>4, <1>12, LookingPlaces
  DEF NoDriver, StoreDevice, StartLoop, LoopTest, ReadPort, ReadFailed, Thread, Reading
<1>13. CASE \/ OnAttached \/ (\E k \in Timer : Fire(k))
            \/ UserInterface \/ ReleaseKey \/ Platform \/ UNCHANGED vars
  BY <1>2, <1>13 DEF OnAttached, Fire, UserInterface, CameraOpened, Reconnect,
     SetPreferredBaudrate, KeyPress, ReleaseKey, Platform, Plug, Unplug, Answer, TimePasses,
     vars, locals
<1> QED
  BY <1>5, <1>6, <1>7, <1>8, <1>9, <1>10, <1>11, <1>12, <1>13 DEF Next, Broadcasts, SerialJob

\* What is known holds in every state.
LEMMA KnownAlways == Spec => []KnownInv
<1>1. Init => KnownInv
  <2> SUFFICES ASSUME Init PROVE KnownInv
    OBVIOUS
  <2>1. Typed /\ plugged \subseteq seen
    BY TypedInit DEF Init
  <2>2. DevicesKnown
    BY DEF Init, DevicesKnown, Known
  <2>3. MessagesKnown
    BY DEF Init, MessagesKnown
  <2>4. DetachingGone /\ ReadNotNull /\ InHand
    BY LookingPlaces DEF Init, DetachingGone, ReadNotNull, InHand, Detaching, Thread
  <2> QED BY <2>1, <2>2, <2>3, <2>4 DEF KnownInv
<1>2. KnownInv /\ [Next]_vars => KnownInv'
  BY TypedStep, ClearedGrows, KnownStep, MessagesKnownStep, DetachingGoneStep, ReadNotNullStep, InHandStep
  DEF KnownInv
<1> QED BY <1>1, <1>2, PTL DEF Spec

-----------------------------------------------------------------------------
(* One attachment.  The port that is open is the one of the field `port', of *)
(* the driver that is stored, until the clean-up has closed it.  The clean-up *)
(* acts on a device that has gone, which nothing opens any more: what the    *)
(* connections do between its steps does not matter.                         *)

OneSeen == \A c, d \in seen : c = d

Told == {mainq[i] : i \in DOMAIN mainq}

OpenIsPort   == open \subseteq {port} /\ open \subseteq {driver}
PortOfDriver ==
  \A d \in plugged : (port = d \/ \E t \in Thread : drv[t] = d) => driver = d
\* where the clean-up has closed the port and not yet ended
Closed       == {"resetRate", "allowReconnect", "stopReading", "nullDriver", "nullPending",
                 "nullPort"}
Closing      == pc["main"] \in Closed => open = {}
GoneClosed   ==
  \A d \in open \ plugged :
    \/ [type |-> "detach", device |-> d] \in Told
    \/ pc["main"] \in {"nullFe0c", "closePort"}

OnePort == OpenIsPort /\ PortOfDriver /\ Closing /\ GoneClosed

OneInv == KnownInv /\ (OneSeen => OnePort)

\* With c the only attachment, everything is c or null; before it is plugged
\* everything is null, and the clean-up comes after it has gone.
LEMMA OnlyOne ==
  ASSUME KnownInv, OneSeen, NEW c \in Device, seen \subseteq {c}
  PROVE  /\ {driver, pendingDevice, port, fe0c} \subseteq {c, NoDev} /\ open \subseteq {c}
         /\ \A t \in Thread : {dev[t], drv[t]} \subseteq {c, NoDev}
         /\ plugged \subseteq {c} /\ c # NoDev
         /\ c \notin seen => open = {} /\ port = NoDev /\ \A t \in Thread : drv[t] = NoDev
         /\ pc["main"] \in Detaching => plugged = {} /\ c \in seen
<1>1. NoDev \notin open /\ c # NoDev
  BY DeviceAssumption DEF KnownInv, Typed, TypeOK, FieldsTyped
<1> QED BY <1>1 DEF KnownInv, DevicesKnown, DetachingGone, Known, Gone


\* A detachment that waits stays in the queue until the main looper takes it.
LEMMA ToldStep ==
  ASSUME Typed, [Next]_vars, ~OnDetached, NEW m \in Told, m.type = "detach"
  PROVE  m \in Told'
<1>1. mainq \in Seq(Broadcast)
  BY DEF Typed, TypeOK, QueuesTyped
<1>2. CASE mainq' = mainq
  BY <1>2 DEF Told
<1>3. CASE \E n \in Broadcast, k \in Nat : mainq' = mainq \o [i \in 1..k |-> n]
  <2>1. PICK n \in Broadcast, k \in Nat : mainq' = mainq \o [i \in 1..k |-> n]
    BY <1>3
  <2> DEFINE new == [i \in 1..k |-> n]
  <2>2. new \in Seq(Broadcast) /\ mainq' = mainq \o new
    BY <2>1
  <2> HIDE DEF new
  <2> QED BY <1>1, <2>2 DEF Told
<1>4. CASE mainq # <<>> /\ mainq' = Tail(mainq)
  <2>1. Head(mainq).type # "detach"
    <3>1. mainq' # mainq
      BY <1>1, <1>4
    <3>2. CASE Broadcasts
      BY <1>1, <1>4, <3>1, <3>2 DEF Broadcasts, OnAttached, TestOwner, CleanUp, OnPermission, queues
    <3>3. CASE \E t \in Thread : ConnectWithPermission(t)
      BY <3>1, <3>3 DEF ConnectWithPermission, FindDriver, StoreDriver, OpenDevice, Finish, Attempt,
         TryBaudrate, GetPort, ReadDriver, AssignPort, ChooseInit, ClaimFe0c, KeepFe0c, DropFe0c,
         OpenPort, Configure, CatchAttempt, NextBaudrate, Recovery, Recover, Reopen, SlowDown,
         Resume, GiveUp, queues
    <3>4. CASE SerialJob \/ ReleaseKey \/ UNCHANGED vars
      BY <3>1, <3>4 DEF SerialJob, Detect, NoDriver, StoreDevice, ChooseDevice, CheckPermission,
         StartLoop, LoopTest, ReadPort, ReleaseKey, vars, queues
    <3>5. CASE (\E k \in Timer : Fire(k)) \/ UserInterface
      BY <3>1, <3>5 DEF Fire, UserInterface, CameraOpened, Reconnect, SetPreferredBaudrate,
         KeyPress, queues
    <3>6. CASE Platform
      <4>1. Len(mainq') = Len(mainq) - 1
        BY <1>1, <1>4
      <4>2. ASSUME NEW n \in Broadcast, mainq' = Append(mainq, n) PROVE FALSE
        BY <1>1, <4>1, <4>2
      <4>3. ASSUME NEW d \in Device, Plug(d) PROVE FALSE
        <5> DEFINE n == [type |-> "attach", device |-> d]
        <5>1. PICK k \in Deliveries : mainq' = mainq \o [i \in 1..k |-> n]
          BY <4>3 DEF Plug
        <5>2. n \in Broadcast
          BY MessageType
        <5>3. k \in Nat
          BY BoundAssumption
        <5> HIDE DEF n
        <5>4. [i \in 1..k |-> n] \in Seq(Broadcast) /\ Len([i \in 1..k |-> n]) = k
          BY <5>2, <5>3
        <5> QED BY <1>1, <4>1, <5>1, <5>3, <5>4
      <4>4. ASSUME NEW d \in Device, Unplug(d) PROVE FALSE
        BY <4>2, <4>4, MessageType DEF Unplug
      <4>5. ASSUME NEW d \in Device, NEW yes \in BOOLEAN, Answer(d, yes) PROVE FALSE
        <5>1. PICK n \in {[type |-> "permission", device |-> d, granted |-> yes]} \cup
                  (IF ExtrasDropped
                   THEN {[type |-> "permission", device |-> NoDev, granted |-> FALSE]}
                   ELSE {}) : mainq' = Append(mainq, n)
          BY <4>5, Zenon DEF Answer
        <5>2. n \in Broadcast
          BY MessageType, Zenon
        <5> QED BY <4>2, <5>1, <5>2
      <4> QED BY <3>1, <3>6, <4>3, <4>4, <4>5 DEF Platform, TimePasses, queues
    <3> QED BY <3>2, <3>3, <3>4, <3>5, <3>6 DEF Next
  <2>2. PICK i \in 1..Len(mainq) : m = mainq[i]
    BY <1>1 DEF Told
  <2>3. i # 1
    BY <1>1, <1>4, <2>1, <2>2
  <2>4. i - 1 \in DOMAIN Tail(mainq) /\ Tail(mainq)[i - 1] = m
    BY <1>1, <1>4, <2>2, <2>3
  <2> QED BY <1>4, <2>4 DEF Told
<1> QED BY <1>2, <1>3, <1>4, QueueStep

\* What a step of connectWithPermission does to the driver and the port: it
\* stores the driver, reads it, assigns the port, or opens or closes it.
LEMMA ConnectPort ==
  ASSUME NEW t \in Thread, ConnectWithPermission(t)
  PROVE  /\ UNCHANGED <<plugged, seen, mainq>>
         /\ \/ /\ pc[t] \in {"found", "chosen", "match"} /\ driver' = dev[t]
               /\ UNCHANGED <<port, open, drv>>
            \/ drv' = [drv EXCEPT ![t] = driver] /\ UNCHANGED <<driver, port, open>>
            \/ /\ pc[t] \in {"assign", "keep", "swap"} /\ port' = drv[t]
               /\ drv' = [drv EXCEPT ![t] = NoDev] /\ UNCHANGED <<driver, open>>
            \/ open' \subseteq open \cup ({port} \cap plugged) /\ UNCHANGED <<driver, port, drv>>
<1>1. CASE StoreDriver(t)
  BY <1>1 DEF StoreDriver, At, platform, queues
<1>2. CASE GetPort(t)
  BY <1>2 DEF GetPort, ReadDriver, AssignPort, At, platform, queues, fields
<1>3. CASE OpenPort(t) \/ Reopen(t)
  BY <1>3 DEF OpenPort, Reopen, Openable, platform, queues
<1>4. CASE FindDriver(t) \/ OpenDevice(t) \/ Finish(t)
  BY <1>4 DEF FindDriver, OpenDevice, Finish, Abort, Return, platform, queues
<1>5. CASE TryBaudrate(t) \/ ChooseInit(t) \/ ClaimFe0c(t) \/ NextBaudrate(t) \/ Recover(t)
  BY <1>5 DEF TryBaudrate, ChooseInit, ClaimFe0c, NextBaudrate, Recover, fields, platform, queues
<1>6. CASE KeepFe0c(t) \/ DropFe0c(t) \/ CatchAttempt(t) \/ Configure(t) \/ SlowDown(t)
  BY <1>6 DEF KeepFe0c, DropFe0c, CatchAttempt, Configure, SlowDown, platform, queues
<1>7. CASE Resume(t) \/ GiveUp(t)
  BY <1>7 DEF Resume, GiveUp, Abort, Return, platform, queues
<1> QED
  BY <1>1, <1>2, <1>3, <1>4, <1>5, <1>6, <1>7 DEF ConnectWithPermission, Attempt, Recovery

\* The steps, sorted by what they do to the driver and the port.
LEMMA PortSteps ==
  ASSUME [Next]_vars
  PROVE  \/ UNCHANGED <<driver, port, open, drv, plugged>>
         \/ OnDetached \/ TestOwner \/ CleanUp \/ \E b \in Baud : Reconnect(b)
         \/ \E d \in Device : Plug(d) \/ Unplug(d)
         \/ \E t \in Thread : ConnectWithPermission(t)
<1> DEFINE Same == UNCHANGED <<driver, port, open, drv, plugged>>
<1>1. CASE OnAttached \/ OnPermission \/ (\E k \in Timer : Fire(k))
  BY <1>1 DEF OnAttached, OnPermission, Fire, fields, locals, platform
<1>2. CASE CameraOpened \/ KeyPress \/ ReleaseKey \/ (\E b \in Baud : SetPreferredBaudrate(b))
  BY <1>2 DEF CameraOpened, KeyPress, ReleaseKey, SetPreferredBaudrate, fields, locals, platform
<1>3. CASE SerialJob
  BY <1>3 DEF SerialJob, Detect, NoDriver, StoreDevice, ChooseDevice, CheckPermission, StartLoop,
     LoopTest, ReadPort, Return, fields, platform
<1>4. CASE TimePasses \/ (\E d \in Device, yes \in BOOLEAN : Answer(d, yes)) \/ UNCHANGED vars
  BY <1>4 DEF TimePasses, Answer, vars, fields, locals, platform
<1> QED BY <1>1, <1>2, <1>3, <1>4 DEF Next, Broadcasts, UserInterface, Platform

\* Every step keeps the one port of the one attachment.
LEMMA OnePortStep ==
  ASSUME KnownInv, OneSeen, OnePort, KnownInv', OneSeen', [Next]_vars,
         NEW c \in Device, seen' = {c}
  PROVE  OnePort'
<1>0. Typed /\ seen \subseteq seen' /\ MessagesKnown /\ ReadNotNull /\ InHand
  BY ClearedGrows DEF KnownInv
<1>1. /\ {driver, pendingDevice, port, fe0c} \subseteq {c, NoDev} /\ open \subseteq {c}
      /\ \A t \in Thread : {dev[t], drv[t]} \subseteq {c, NoDev}
      /\ plugged \subseteq {c} /\ c # NoDev
      /\ c \notin seen => open = {} /\ port = NoDev /\ \A t \in Thread : drv[t] = NoDev
      /\ pc["main"] \in Detaching => plugged = {} /\ c \in seen
  BY <1>0, OnlyOne
<1>2. plugged' \subseteq {c} /\ (pc'["main"] \in Detaching => plugged' = {})
  BY DEF KnownInv, DetachingGone, Gone
<1>3. pc \in [Thread -> PC] /\ dev \in [Thread -> DeviceOrNull] /\ drv \in [Thread -> DeviceOrNull]
      /\ "main" \in Thread
  BY <1>0 DEF Typed, TypeOK, ThreadsTyped, Thread
<1>4. \A d : ~OnDetached /\ [type |-> "detach", device |-> d] \in Told
             => [type |-> "detach", device |-> d] \in Told'
  BY <1>0, ToldStep
<1> USE DEF OnePort, OpenIsPort, PortOfDriver, Closing, Closed, GoneClosed, Detaching
<1>5. ASSUME ~OnDetached, ~TestOwner, ~CleanUp
      PROVE  \/ pc["main"] \notin Detaching /\ pc'["main"] \notin Detaching
             \/ pc'["main"] = pc["main"]
  BY <1>0, <1>5, MainPlace
<1>6. ASSUME ~OnDetached, ~TestOwner, ~CleanUp,
             UNCHANGED <<driver, port, drv, plugged>>, open' \subseteq open
      PROVE  OnePort'
  BY <1>4, <1>5, <1>6
<1>7. CASE OnDetached
  <2>1. UNCHANGED <<driver, port, drv, open, plugged>> /\ pc["main"] = "idle"
        /\ IF driver = Head(mainq).device THEN Goto("main", "nullFe0c") ELSE Goto("main", "whose")
    BY <1>7 DEF OnDetached, InUse, MainIdle, fields, platform
  <2>2. Head(mainq).device = c
    BY <1>0, <1>7, DetachedHead DEF Gone
  <2> QED BY <1>1, <1>3, <2>1, <2>2 DEF Goto
<1>8. CASE TestOwner
  <2>1. UNCHANGED <<driver, port, drv, open, plugged, mainq>> /\ pc["main"] = "whose"
        /\ (Goto("main", "nullFe0c") \/ Goto("main", "idle"))
    BY <1>8 DEF TestOwner, At, fields, platform, queues
  <2>2. Told' = Told
    BY <2>1 DEF Told
  <2> QED BY <1>1, <1>3, <2>1, <2>2 DEF Goto
<1>9. CASE CleanUp
  <2>1. UNCHANGED <<drv, plugged, mainq>> /\ pc["main"] \in DOMAIN Following
        /\ pc'["main"] = Following[pc["main"]]
    BY <1>3, <1>9 DEF CleanUp, platform, queues, Goto
  <2>2. Told' = Told
    BY <2>1 DEF Told
  <2>3. plugged = {}
    BY <1>1, <2>1, FollowingType
  <2>4. CASE pc["main"] = "nullFe0c"
    BY <1>9, <2>1, <2>2, <2>3, <2>4 DEF CleanUp, After, Following
  <2>5. CASE pc["main"] = "closePort"
    BY <1>9, <2>1, <2>2, <2>3, <2>5 DEF CleanUp, After, Following
  <2>6. CASE pc["main"] \in Closed
    BY <1>9, <2>1, <2>2, <2>3, <2>6 DEF CleanUp, After, Following
  <2> QED BY <2>1, <2>4, <2>5, <2>6 DEF Following
<1>10. ASSUME NEW b \in Baud, Reconnect(b) PROVE OnePort'
  <2>1. UNCHANGED <<driver, port, drv, plugged, pc, mainq>> /\ open' \subseteq open
    BY <1>10 DEF Reconnect, locals, platform
  <2>2. Told' = Told
    BY <2>1 DEF Told
  <2> QED BY <2>1, <2>2
<1>11. ASSUME NEW d \in Device, Plug(d) PROVE OnePort'
  <2>1. UNCHANGED <<driver, port, drv, open, pc>> /\ d \notin seen /\ seen' = seen \cup {d}
    BY <1>11 DEF Plug, fields, locals
  <2>2. open = {} /\ port = NoDev /\ (\A t \in Thread : drv[t] = NoDev)
    BY <1>1, <2>1
  <2> QED BY <1>1, <1>2, <2>1, <2>2
<1>12. ASSUME NEW d \in Device, Unplug(d) PROVE OnePort'
  <2>1. UNCHANGED <<driver, port, drv, open, pc>> /\ plugged' = {} /\ d = c
    BY <1>1, <1>12 DEF Unplug, fields, locals
  <2>2. [type |-> "detach", device |-> c] \in Told'
    <3>1. [type |-> "detach", device |-> c] \in Broadcast /\ mainq \in Seq(Broadcast)
      BY <1>0, MessageType DEF Typed, TypeOK, QueuesTyped
    <3>2. mainq' = Append(mainq, [type |-> "detach", device |-> c])
      BY <1>12, <2>1 DEF Unplug
    <3> QED BY <3>1, <3>2 DEF Told
  <2> QED BY <1>1, <2>1, <2>2
<1>13. ASSUME NEW t \in Thread, ConnectWithPermission(t) PROVE OnePort'
  <2>1. UNCHANGED <<plugged, seen, mainq>>
    BY <1>13, ConnectPort
  <2>2. Told' = Told
    BY <2>1 DEF Told
  <2>3. pc'["main"] = pc["main"] \/ (pc["main"] \notin Detaching /\ pc'["main"] \notin Detaching)
    <3>1. pc[t] \notin Detaching /\ (Return(t) \/ \E l \in PC \ Detaching : Goto(t, l))
      BY <1>13, ConnectPlace, LookingPlaces
    <3> QED BY <1>3, <3>1 DEF Return, Goto
  <2>4. CASE /\ pc[t] \in {"found", "chosen", "match"} /\ driver' = dev[t]
             /\ UNCHANGED <<port, open, drv>>
    <3>1. driver' = c
      BY <1>0, <1>1, <2>4, LookingPlaces DEF InHand
    <3> QED BY <1>1, <2>1, <2>2, <2>3, <2>4, <3>1
  <2>5. CASE drv' = [drv EXCEPT ![t] = driver] /\ UNCHANGED <<driver, port, open>>
    BY <1>1, <1>3, <2>1, <2>2, <2>3, <2>5
  <2>6. CASE /\ pc[t] \in {"assign", "keep", "swap"} /\ port' = drv[t]
             /\ drv' = [drv EXCEPT ![t] = NoDev] /\ UNCHANGED <<driver, open>>
    <3>1. drv[t] = c
      BY <1>0, <1>1, <2>6 DEF ReadNotNull
    <3> QED BY <1>1, <1>3, <2>1, <2>2, <2>3, <2>6, <3>1
  <2>7. CASE open' \subseteq open \cup ({port} \cap plugged) /\ UNCHANGED <<driver, port, drv>>
    BY <1>1, <2>1, <2>2, <2>3, <2>7
  <2> QED BY <1>13, <2>4, <2>5, <2>6, <2>7, ConnectPort
<1>14. CASE UNCHANGED <<driver, port, open, drv, plugged>>
  BY <1>6, <1>7, <1>8, <1>9, <1>14
<1> QED BY <1>7, <1>8, <1>9, <1>10, <1>11, <1>12, <1>13, <1>14, PortSteps

\* The same before anything is plugged.
LEMMA OneStep ==
  ASSUME OneInv, KnownInv', [Next]_vars
  PROVE  OneInv'
<1>1. SUFFICES ASSUME OneSeen' PROVE OnePort'
  BY DEF OneInv
<1>2. KnownInv /\ seen \subseteq seen'
  BY ClearedGrows DEF OneInv, KnownInv
<1>3. OneSeen /\ OnePort
  BY <1>1, <1>2 DEF OneInv, OneSeen
<1>4. CASE seen' = {}
  <2>1. open' = {} /\ plugged' = {}
    BY <1>4, DeviceAssumption
    DEF KnownInv, DevicesKnown, Known, Typed, TypeOK, FieldsTyped
  <2> QED BY <2>1 DEF OnePort, OpenIsPort, PortOfDriver, Closing, Closed, GoneClosed
<1>5. CASE seen' # {}
  <2>1. PICK c \in seen' : TRUE
    BY <1>5
  <2>2. seen' = {c} /\ c \in Device
    BY <1>1, <2>1 DEF OneSeen, KnownInv, Typed, TypeOK, PlatformTyped
  <2> QED BY <1>1, <1>2, <1>3, <2>2, OnePortStep
<1> QED BY <1>4, <1>5

\* The invariant of one attachment.
LEMMA OneAlways == Spec => []OneInv
<1>1. Init /\ KnownInv => OneInv
  BY DEF Init, OneInv, OnePort, OpenIsPort, PortOfDriver, Closing, Closed, GoneClosed, Thread, KnownInv,
     DevicesKnown
<1>2. OneInv /\ KnownInv' /\ [Next]_vars => OneInv'
  BY OneStep
<1> QED BY <1>1, <1>2, KnownAlways, PTL DEF Spec

\* With one attachment of any kind, its port is closed once it has gone and its
\* detachment has been handled, whatever the connections on the two threads
\* did between the steps of the clean-up.
THEOREM GoneStaysClosed == Spec => []GoneIsClosed
<1>1. OneInv => GoneIsClosed
  <2> SUFFICES ASSUME OneInv, NEW d \in open \ plugged, seen = {d}, ~Busy
               PROVE  [type |-> "detach", device |-> d] \in {mainq[i] : i \in DOMAIN mainq}
    BY DEF GoneIsClosed
  <2>1. pc["main"] \notin {"nullFe0c", "closePort"}
    BY DEF Busy, Detaching, Thread
  <2>2. OnePort
    BY DEF OneInv, OneSeen
  <2> QED BY <2>1, <2>2 DEF OnePort, GoneClosed, Told
<1> QED BY <1>1, OneAlways, PTL

-----------------------------------------------------------------------------
(* The rate.  Both threads may connect at the same time, each trying rates   *)
(* of its own: who sets the rate of the chip tells it, and only the clean-up  *)
(* forgets it, when the port is closed for good.                             *)

Trying == {"open", "finish"} \cup Attempting \cup Recovering

\* No step but its own leads a thread into an attempt or a recovery.
LEMMA TryingPlace ==
  ASSUME Typed, [Next]_vars, NEW u \in Thread, pc'[u] \in Trying
  PROVE  \/ pc'[u] = pc[u]
         \/ FindDriver(u) \/ StoreDriver(u) \/ OpenDevice(u) \/ Attempt(u) \/ Recovery(u)
<1>1. pc \in [Thread -> PC]
  BY DEF Typed, TypeOK, ThreadsTyped
<1>2. "idle" \notin Trying /\ Trying \cap Detaching = {}
      /\ Trying \cap {"found", "detected", "chosen", "perm", "driver", "loop", "read"} = {}
  BY DEF Trying, Attempting, Recovering, Detaching
<1>3. CASE OnPermission \/ OnDetached \/ TestOwner
  BY <1>1, <1>2, <1>3 DEF OnPermission, OnDetached, TestOwner, Goto, Detaching, Thread
<1>4. CASE CleanUp
  BY <1>1, <1>2, <1>4, FollowingType DEF CleanUp, Goto, Thread
<1>5. ASSUME NEW t \in Thread, ConnectWithPermission(t), t # u PROVE pc'[u] = pc[u]
  <2>1. Return(t) \/ \E l : Goto(t, l)
    BY <1>5, ConnectPlace
  <2> QED BY <1>1, <1>5, <2>1 DEF Return, Goto
<1>6. CASE Finish(u)
  BY <1>1, <1>2, <1>6 DEF Finish, Return, Goto
<1>7. CASE SerialJob
  BY <1>1, <1>2, <1>7 DEF SerialJob, Detect, NoDriver, StoreDevice, ChooseDevice, CheckPermission,
     StartLoop, LoopTest, ReadPort, ReadFailed, Return, Goto, Thread
<1>8. CASE \/ OnAttached \/ (\E k \in Timer : Fire(k))
           \/ UserInterface \/ ReleaseKey \/ Platform \/ UNCHANGED vars
  BY <1>8 DEF OnAttached, Fire, UserInterface, CameraOpened, Reconnect, SetPreferredBaudrate,
     KeyPress, ReleaseKey, Platform, Plug, Unplug, Answer, TimePasses, vars, locals
<1> QED
  BY <1>3, <1>4, <1>5, <1>6, <1>7, <1>8 DEF Next, Broadcasts, ConnectWithPermission

\* The interface of a FE0C is claimed only for a FE0C.
ClaimsFe0c ==
  (fe0c # NoDev \/ \E t \in Thread : pc[t] \in {"claim", "claimed"})
    => \E d \in seen : Kind[d] = "fe0c"

\* Where a FE0C is claimed and kept.
LEMMA ClaimSteps ==
  ASSUME [Next]_vars, fe0c' # fe0c
  PROVE  CleanUp \/ \E t \in Thread : KeepFe0c(t) \/ DropFe0c(t)
<1>1. CASE OnAttached \/ OnDetached \/ TestOwner \/ OnPermission \/ (\E k \in Timer : Fire(k))
  BY <1>1 DEF OnAttached, OnDetached, TestOwner, OnPermission, Fire, fields
<1>2. CASE UserInterface \/ ReleaseKey \/ SerialJob
  BY <1>2 DEF UserInterface, CameraOpened, Reconnect, SetPreferredBaudrate, KeyPress, ReleaseKey,
     SerialJob, Detect, NoDriver, StoreDevice, ChooseDevice, CheckPermission, StartLoop, LoopTest,
     ReadPort, fields
<1>3. ASSUME NEW t \in Thread, ConnectWithPermission(t), ~KeepFe0c(t), ~DropFe0c(t) PROVE FALSE
  BY <1>3 DEF ConnectWithPermission, FindDriver, StoreDriver, OpenDevice, Finish, Attempt,
     TryBaudrate, GetPort, ReadDriver, AssignPort, ChooseInit, ClaimFe0c, OpenPort, Configure,
     CatchAttempt, NextBaudrate, Recovery, Recover, Reopen, SlowDown, Resume, GiveUp, fields
<1>4. CASE Platform \/ UNCHANGED vars
  BY <1>4 DEF Platform, Plug, Unplug, Answer, TimePasses, vars, fields
<1> QED BY <1>1, <1>2, <1>3, <1>4 DEF Next, Broadcasts

\* The choice of the initialisation is by the kind of the driver.
LEMMA ClaimsFe0cStep ==
  ASSUME KnownInv, ClaimsFe0c, [Next]_vars
  PROVE  ClaimsFe0c'
<1>0. Typed /\ seen \subseteq seen' /\ driver \in Known
  BY ClearedGrows DEF KnownInv, DevicesKnown
<1>1. pc \in [Thread -> PC]
  BY <1>0 DEF Typed, TypeOK, ThreadsTyped
<1>2. SUFFICES ASSUME ~\E d \in seen : Kind[d] = "fe0c",
                      fe0c' # NoDev \/ \E t \in Thread : pc'[t] \in {"claim", "claimed"}
               PROVE  \E d \in seen' : Kind[d] = "fe0c"
  BY <1>0 DEF ClaimsFe0c
<1>3. fe0c = NoDev /\ \A t \in Thread : pc[t] \notin {"claim", "claimed"}
  BY <1>2 DEF ClaimsFe0c
<1>4. ASSUME NEW t \in Thread, pc'[t] \in {"claim", "claimed"} PROVE FALSE
  <2>1. FindDriver(t) \/ StoreDriver(t) \/ OpenDevice(t) \/ Attempt(t) \/ Recovery(t)
    BY <1>0, <1>3, <1>4, TryingPlace DEF Trying, Attempting
  <2>2. CASE FindDriver(t) \/ StoreDriver(t) \/ OpenDevice(t)
    BY <1>1, <1>4, <2>2 DEF FindDriver, StoreDriver, OpenDevice, Abort, Return, Goto
  <2>3. CASE ChooseInit(t)
    BY <1>0, <1>1, <1>2, <1>4, <2>3 DEF ChooseInit, Goto, Known
  <2>4. CASE Attempt(t) /\ ~ChooseInit(t)
    BY <1>1, <1>3, <1>4, <2>4 DEF Attempt, TryBaudrate, GetPort, ReadDriver, AssignPort, ClaimFe0c,
       KeepFe0c, DropFe0c, OpenPort, Configure, CatchAttempt, NextBaudrate, At, Goto
  <2>5. CASE Recovery(t)
    BY <1>1, <1>4, <2>5 DEF Recovery, Recover, Reopen, SlowDown, Resume, GiveUp, Abort, Return, Goto
  <2> QED BY <2>1, <2>2, <2>3, <2>4, <2>5
<1>5. CASE fe0c' # NoDev
  BY <1>3, <1>5, ClaimSteps DEF CleanUp, After, KeepFe0c, DropFe0c, At
<1> QED BY <1>2, <1>4, <1>5

HonestUntilGone ==
  \A d \in Device :
    OneSeen /\ seen \subseteq {d} /\ Kind[d] # "fe0c" =>
      currentBaudrate = wire[d] \/ (d \in Gone /\ d \notin open)

\* The steps that set a rate, tell one, or open a port.
LEMMA RateSteps ==
  ASSUME [Next]_vars
  PROVE  \/ UNCHANGED <<currentBaudrate, wire>> /\ open' \subseteq open \cup plugged
         \/ CleanUp \/ \E t \in Thread : KeepFe0c(t) \/ Configure(t) \/ SlowDown(t)
<1> DEFINE Kept == UNCHANGED <<currentBaudrate, wire>> /\ open' \subseteq open \cup plugged
<1>1. CASE OnAttached \/ OnDetached \/ TestOwner \/ OnPermission \/ (\E k \in Timer : Fire(k))
  BY <1>1 DEF OnAttached, OnDetached, TestOwner, OnPermission, Fire, fields, platform
<1>2. CASE UserInterface \/ ReleaseKey
  BY <1>2 DEF UserInterface, CameraOpened, Reconnect, SetPreferredBaudrate, KeyPress, ReleaseKey,
     fields, platform
<1>3. CASE SerialJob
  BY <1>3 DEF SerialJob, Detect, NoDriver, StoreDevice, ChooseDevice, CheckPermission, StartLoop,
     LoopTest, ReadPort, fields, platform
<1>4. ASSUME NEW t \in Thread, ConnectWithPermission(t),
             ~KeepFe0c(t), ~Configure(t), ~SlowDown(t)
      PROVE  Kept
  <2>1. open' \subseteq open \cup plugged
    BY <1>4, ConnectPort
  <2>2. UNCHANGED <<currentBaudrate, wire>>
    BY <1>4 DEF ConnectWithPermission, FindDriver, StoreDriver, OpenDevice, Finish, Attempt,
       TryBaudrate, GetPort, ReadDriver, AssignPort, ChooseInit, ClaimFe0c, DropFe0c, OpenPort,
       CatchAttempt, NextBaudrate, Recovery, Recover, Reopen, Resume, GiveUp, fields, platform
  <2> QED BY <2>1, <2>2
<1>5. CASE Platform \/ UNCHANGED vars
  BY <1>5 DEF Platform, Plug, Unplug, Answer, TimePasses, vars, fields, platform
<1> QED BY <1>1, <1>2, <1>3, <1>4, <1>5 DEF Next, Broadcasts

RateInv == OneInv /\ ClaimsFe0c /\ HonestUntilGone

\* With one attachment, every assignment of the rate means that one.
LEMMA HonestStep ==
  ASSUME RateInv, OneInv', [Next]_vars
  PROVE  HonestUntilGone'
<1> SUFFICES ASSUME NEW d \in Device, OneSeen', seen' \subseteq {d}, Kind[d] # "fe0c"
             PROVE  currentBaudrate' = wire'[d] \/ (d \in Gone' /\ d \notin open')
  BY DEF HonestUntilGone
<1>0. KnownInv /\ Typed /\ OneSeen /\ seen \subseteq {d} /\ Gone \subseteq Gone' /\ OnePort
  BY ClearedGrows DEF RateInv, OneInv, KnownInv, OneSeen, Gone
<1>1. /\ port \in {d, NoDev} /\ d # NoDev /\ open \subseteq {d} /\ plugged \subseteq {d}
      /\ pc["main"] \in Detaching => plugged = {} /\ d \in seen
      /\ wire \in [Device -> Baud \cup {NoBaud}]
  BY <1>0, OnlyOne DEF Typed, TypeOK, PlatformTyped
<1>2. currentBaudrate = wire[d] \/ (d \in Gone /\ d \notin open)
  BY <1>0 DEF RateInv, HonestUntilGone
<1>3. CASE UNCHANGED <<currentBaudrate, wire>> /\ open' \subseteq open \cup plugged
  BY <1>0, <1>1, <1>2, <1>3 DEF Gone
<1>4. CASE CleanUp
  <2>1. d \in Gone'
    BY <1>0, <1>1, <1>4, FollowingType DEF CleanUp, Gone
  <2>2. CASE pc["main"] = "resetRate"
    BY <1>0, <1>4, <2>1, <2>2 DEF CleanUp, After, OnePort, Closing, Closed
  <2>3. CASE pc["main"] # "resetRate"
    BY <1>2, <1>4, <2>1, <2>3 DEF CleanUp, After, platform
  <2> QED BY <2>2, <2>3
<1>5. ASSUME NEW t \in Thread, KeepFe0c(t)
      PROVE  currentBaudrate' = wire'[d] \/ (d \in Gone' /\ d \notin open')
  BY <1>0, <1>5 DEF KeepFe0c, At, RateInv, ClaimsFe0c
<1>6. ASSUME NEW t \in Thread, Configure(t) \/ SlowDown(t)
      PROVE  currentBaudrate' = wire'[d] \/ (d \in Gone' /\ d \notin open')
  <2>1. CASE UNCHANGED <<currentBaudrate, wire>> /\ open' \subseteq open
    BY <1>0, <1>2, <2>1
  <2>2. CASE \E b : IsOpen /\ wire' = [wire EXCEPT ![port] = b] /\ currentBaudrate' = b
    BY <1>1, <2>2 DEF IsOpen
  <2> QED BY <1>6, <2>1, <2>2 DEF Configure, SlowDown, TrackBaudrate
<1> QED BY <1>3, <1>4, <1>5, <1>6, RateSteps

\* The rate that is told is the rate of the chip, or nothing is open.
LEMMA RateAlways == Spec => []RateInv
<1>1. Init => ClaimsFe0c /\ HonestUntilGone
  BY DEF Init, ClaimsFe0c, HonestUntilGone
<1>2. RateInv /\ OneInv' /\ [Next]_vars => RateInv'
  BY ClaimsFe0cStep, HonestStep DEF RateInv, OneInv
<1>3. Init /\ OneInv => RateInv
  BY <1>1 DEF RateInv
<1> QED BY <1>2, <1>3, OneAlways, PTL DEF Spec

\* As long as one attachment has been plugged, of any kind, getCurrentBaudrate()
\* tells the rate of the chip: whichever of the two threads connects, or both at
\* once, whatever they fail at, and also when the user is asked.
THEOREM TellsRateAsked == Spec => [](OneSeen => HonestBaudrate)
<1>1. RateInv => (OneSeen => HonestBaudrate)
  <2> SUFFICES ASSUME RateInv, OneSeen, IsOpen, Kind[port] # "fe0c"
               PROVE  currentBaudrate = wire[port]
    BY DEF HonestBaudrate
  <2>1. port \in Device /\ port \in seen
    BY DEF RateInv, OneInv, KnownInv, Typed, TypeOK, FieldsTyped, DeviceOrNull, IsOpen,
       DevicesKnown, Known
  <2>2. seen \subseteq {port}
    BY <2>1 DEF OneSeen
  <2> QED BY <2>1, <2>2 DEF RateInv, HonestUntilGone, IsOpen
<1> QED BY <1>1, RateAlways, PTL

-----------------------------------------------------------------------------
(* The reader.  While the attachment is there and no transfer fails, a port  *)
(* that is open has its reader, or a thread is between the opening of the    *)
(* port and startReading().                                                  *)

Queued(q) == "read" \in {q[i] : i \in DOMAIN q}

\* A posted job leaves a queued read loop in the queue.
LEMMA QueuedAppend ==
  ASSUME jobs \in Seq(Job), NEW j \in Job
  PROVE  Queued(jobs) \/ j = "read" => Queued(Append(jobs, j))
<1>1. /\ Len(jobs) + 1 \in DOMAIN Append(jobs, j) /\ Append(jobs, j)[Len(jobs) + 1] = j
      /\ \A i \in DOMAIN jobs : i \in DOMAIN Append(jobs, j) /\ Append(jobs, j)[i] = jobs[i]
  OBVIOUS
<1>2. CASE j = "read"
  BY <1>1, <1>2 DEF Queued
<1>3. CASE Queued(jobs)
  BY <1>1, <1>3 DEF Queued
<1> QED BY <1>2, <1>3

\* Taking another job leaves a queued read loop in the queue.
LEMMA QueuedTail ==
  ASSUME jobs \in Seq(Job), jobs # <<>>, Head(jobs) # "read", Queued(jobs)
  PROVE  Queued(Tail(jobs))
<1>1. PICK i \in DOMAIN jobs : jobs[i] = "read"
  BY DEF Queued
<1>2. i \in 1..Len(jobs) /\ i # 1
  BY <1>1
<1>3. i - 1 \in DOMAIN Tail(jobs) /\ Tail(jobs)[i - 1] = "read"
  BY <1>1, <1>2
<1> QED BY <1>3 DEF Queued


\* A thread that tries a rate does it for a device that has been plugged, and
\* the driver stays stored as long as that one is there.
DriverStays ==
  \A t \in Thread : pc[t] \in Trying => seen # {} /\ (OneSeen => plugged \subseteq {driver})

\* No rate of a FE0C is refused while it is there and no transfer fails, so its
\* port is never opened.
PortPlaces == {"opening", "config", "throw", "unclaim", "next"} \cup Recovering

Fe0cUnopened ==
  \A d \in plugged :
    OneSeen /\ Kind[d] = "fe0c" /\ faults = 0 =>
      open = {} /\ \A t \in Thread : pc[t] \notin PortPlaces

BeforeReading == {"config", "finish", "slow", "resume"}

ReaderKept ==
  OneSeen /\ IsOpen /\ port \in plugged /\ isReading /\ faults = 0 =>
    \/ pc["serial"] \in Reading \/ Queued(jobs)
    \/ \E t \in Thread : pc[t] \in BeforeReading

ReaderInv == OneInv /\ ClaimsFe0c /\ DriverStays /\ Fe0cUnopened /\ ReaderKept

\* The driver is nulled only by the clean-up, after the device has gone.
LEMMA DriverStaysStep ==
  ASSUME OneInv, DriverStays, KnownInv', [Next]_vars
  PROVE  DriverStays'
<1>0. KnownInv /\ Typed /\ InHand /\ seen \subseteq seen'
  BY ClearedGrows DEF OneInv, KnownInv
<1>1. pc \in [Thread -> PC]
  BY <1>0 DEF Typed, TypeOK, ThreadsTyped
<1> SUFFICES ASSUME NEW t \in Thread, pc'[t] \in Trying
             PROVE  seen' # {} /\ (OneSeen' => plugged' \subseteq {driver'})
  BY DEF DriverStays
<1>2. ASSUME dev[t] # NoDev PROVE dev[t] \in seen
  BY <1>0, <1>2 DEF KnownInv, DevicesKnown, Known
<1>3. CASE StoreDriver(t)
  <2>1. driver' = dev[t] /\ dev[t] \in seen /\ UNCHANGED plugged /\ plugged \subseteq seen
    BY <1>0, <1>2, <1>3, LookingPlaces DEF StoreDriver, At, InHand, platform, KnownInv
  <2> QED BY <1>0, <2>1 DEF OneSeen
<1>4. CASE FindDriver(t)
  <2>1. pc[t] = "driver" /\ dev[t] \in seen
    BY <1>0, <1>2, <1>4, LookingPlaces DEF FindDriver, At, InHand
  <2>2. driver' = dev[t] /\ UNCHANGED plugged /\ plugged \subseteq seen
    BY <1>0, <1>1, <1>4 DEF FindDriver, At, platform, KnownInv, Goto, Abort, Return, Trying, Attempting,
       Recovering
  <2> QED BY <1>0, <2>1, <2>2 DEF OneSeen
<1>5. CASE pc[t] \in Trying
  <2>1. seen # {} /\ (OneSeen => plugged \subseteq {driver})
    BY <1>5 DEF DriverStays
  <2>2. SUFFICES ASSUME OneSeen' PROVE plugged' \subseteq {driver'}
    BY <1>0, <2>1
  <2>3. OneSeen
    BY <1>0, <2>2 DEF OneSeen
  <2>4. CASE UNCHANGED driver /\ plugged' \subseteq plugged
    BY <2>1, <2>3, <2>4
  <2>5. CASE \E d \in Device : Plug(d)
    BY <2>1, <2>2, <2>5 DEF Plug, OneSeen
  <2>6. CASE CleanUp
    <3>1. Gone # {} /\ plugged \subseteq seen /\ plugged' = plugged
      BY <1>0, <2>6, FollowingType DEF CleanUp, KnownInv, DetachingGone, platform
    <3> QED BY <2>3, <3>1 DEF OneSeen, Gone
  <2>7. CASE \E u \in Thread : StoreDriver(u)
    <3>1. PICK u \in Thread : StoreDriver(u)
      BY <2>7
    <3>2. driver' = dev[u] /\ dev[u] \in seen /\ UNCHANGED plugged /\ plugged \subseteq seen
      BY <1>0, <3>1, LookingPlaces
      DEF StoreDriver, At, InHand, platform, KnownInv, DevicesKnown, Known
    <3> QED BY <2>3, <3>2 DEF OneSeen
  <2>8. ASSUME NEW u \in Thread, ConnectWithPermission(u), ~StoreDriver(u)
        PROVE  UNCHANGED driver /\ plugged' \subseteq plugged
    <3>1. plugged' = plugged
      BY <2>8, ConnectPort
    <3>2. driver' = driver
      BY <2>8 DEF ConnectWithPermission, FindDriver, OpenDevice, Finish, Attempt, TryBaudrate,
         GetPort, ReadDriver, AssignPort, ChooseInit, ClaimFe0c, KeepFe0c, DropFe0c, OpenPort,
         Configure, CatchAttempt, NextBaudrate, Recovery, Recover, Reopen, SlowDown, Resume,
         GiveUp, fields
    <3> QED BY <3>1, <3>2
  <2>9. CASE OnDetached \/ TestOwner \/ (\E b \in Baud : Reconnect(b))
    BY <2>4, <2>9 DEF OnDetached, TestOwner, Reconnect, fields, platform
  <2>10. CASE \E d \in Device : Unplug(d)
    BY <2>4, <2>10 DEF Unplug, fields
  <2> QED BY <2>4, <2>5, <2>6, <2>7, <2>8, <2>9, <2>10, PortSteps
<1>6. CASE OpenDevice(t) \/ Attempt(t) \/ Recovery(t)
  <2>1. pc[t] \in Trying
    BY <1>6 DEF OpenDevice, Attempt, TryBaudrate, GetPort, ReadDriver, AssignPort, ChooseInit,
       ClaimFe0c, KeepFe0c, DropFe0c, OpenPort, Configure, CatchAttempt, NextBaudrate, Recovery,
       Recover, Reopen, SlowDown, Resume, GiveUp, At, Trying, Attempting, Recovering
  <2> QED BY <1>5, <2>1
<1> QED BY <1>0, <1>3, <1>4, <1>5, <1>6, TryingPlace

\* The places of an attempt are places where a device is in hand.
LEMMA TryingPlaces ==
  /\ Trying \subseteq Looking /\ PortPlaces \subseteq Trying /\ BeforeReading \subseteq Trying
  /\ {"idle", "open", "match", "try", "port", "assign", "init", "claim", "claimed", "store",
      "keep", "finish"} \cap PortPlaces = {}
  /\ "opening" \in PortPlaces /\ Recovering \subseteq PortPlaces
BY DEF Trying, PortPlaces, BeforeReading, Looking, Connecting, Attempting, Recovering

\* What plugs, opens a port, or counts a fault.
LEMMA PluggedSteps ==
  ASSUME [Next]_vars, plugged' # plugged
  PROVE  \E d \in Device : Plug(d) \/ Unplug(d)
<1>1. ~OnDetached /\ ~TestOwner /\ ~CleanUp /\ ~\E b \in Baud : Reconnect(b)
  BY DEF OnDetached, TestOwner, CleanUp, Reconnect, platform
<1>2. ~\E t \in Thread : ConnectWithPermission(t)
  BY ConnectPort
<1> QED BY <1>1, <1>2, PortSteps

LEMMA OpenSteps ==
  ASSUME [Next]_vars, ~(open' \subseteq open)
  PROVE  \E t \in Thread : OpenPort(t) \/ Reopen(t)
<1>1. ~OnDetached /\ ~TestOwner /\ ~CleanUp /\ (~\E b \in Baud : Reconnect(b))
      /\ ~\E d \in Device : Plug(d) \/ Unplug(d)
  BY DEF OnDetached, TestOwner, CleanUp, After, Reconnect, Plug, Unplug, fields
<1>2. PICK t \in Thread : ConnectWithPermission(t)
  BY <1>1, PortSteps
<1>3. CASE StoreDriver(t) \/ FindDriver(t) \/ OpenDevice(t) \/ Finish(t)
  BY <1>3 DEF StoreDriver, FindDriver, OpenDevice, Finish
<1>4. CASE Attempt(t)
  BY <1>4 DEF Attempt, TryBaudrate, GetPort, ReadDriver, AssignPort, ChooseInit, ClaimFe0c,
     KeepFe0c, DropFe0c, Configure, CatchAttempt, NextBaudrate, fields
<1>5. CASE Recovery(t)
  BY <1>5 DEF Recovery, Recover, SlowDown, Resume, GiveUp, fields
<1> QED BY <1>2, <1>3, <1>4, <1>5 DEF ConnectWithPermission

LEMMA FaultsGrow ==
  ASSUME [Next]_vars, faults \in Nat, faults' = 0
  PROVE  faults = 0
<1> SUFFICES faults' = faults \/ faults' = faults + 1
  OBVIOUS
<1>1. CASE Broadcasts \/ (\E k \in Timer : Fire(k))
  BY <1>1 DEF Broadcasts, OnAttached, OnDetached, TestOwner, CleanUp, OnPermission, Fire, counters
<1>2. CASE UserInterface \/ ReleaseKey
  BY <1>2 DEF UserInterface, CameraOpened, Reconnect, SetPreferredBaudrate, KeyPress, ReleaseKey,
     Fault, counters
<1>3. CASE SerialJob
  BY <1>3 DEF SerialJob, Detect, NoDriver, StoreDevice, ChooseDevice, CheckPermission, StartLoop,
     LoopTest, ReadPort, Fault, counters
<1>4. ASSUME NEW t \in Thread, FindDriver(t) \/ StoreDriver(t) \/ OpenDevice(t) \/ Finish(t)
      PROVE  faults' = faults \/ faults' = faults + 1
  BY <1>4 DEF FindDriver, StoreDriver, OpenDevice, Finish, Fault, counters
<1>5. ASSUME NEW t \in Thread, Attempt(t) PROVE faults' = faults \/ faults' = faults + 1
  BY <1>5 DEF Attempt, TryBaudrate, GetPort, ReadDriver, AssignPort, ChooseInit, ClaimFe0c,
     KeepFe0c, DropFe0c, OpenPort, Configure, CatchAttempt, NextBaudrate, Fault, counters
<1>6. ASSUME NEW t \in Thread, Recovery(t) PROVE faults' = faults \/ faults' = faults + 1
  BY <1>6 DEF Recovery, Recover, Reopen, SlowDown, Resume, GiveUp, Fault, counters
<1>7. CASE Platform \/ UNCHANGED vars
  BY <1>7 DEF Platform, Plug, Unplug, Answer, TimePasses, vars, counters
<1> QED BY <1>1, <1>2, <1>3, <1>4, <1>5, <1>6, <1>7 DEF Next, ConnectWithPermission

\* An attachment that was there before is still there; a new one is the first,
\* and nothing is tried yet.
LEMMA PluggedBefore ==
  ASSUME OneInv, DriverStays, OneSeen', [Next]_vars, NEW c \in plugged'
  PROVE  \/ c \in plugged /\ OneSeen
         \/ open' = {} /\ \A t \in Thread : pc'[t] = pc[t] /\ pc[t] \notin Trying
<1>0. KnownInv /\ Typed /\ DevicesKnown /\ seen \subseteq seen' /\ OneSeen
  BY ClearedGrows DEF OneInv, KnownInv, OneSeen
<1>1. CASE c \in plugged
  BY <1>0, <1>1
<1>2. CASE c \notin plugged
  <2>1. PICK d \in Device : Plug(d) \/ Unplug(d)
    BY <1>2, PluggedSteps
  <2>2. Plug(d) /\ d \notin seen /\ seen' = seen \cup {d}
    BY <1>2, <2>1 DEF Plug, Unplug
  <2>3. seen = {}
    BY <2>2 DEF OneSeen
  <2>4. UNCHANGED <<open, pc>> /\ open = {}
    BY <1>0, <2>2, <2>3, DeviceAssumption
    DEF Plug, fields, locals, DevicesKnown, Known, Typed, TypeOK, FieldsTyped
  <2> QED BY <2>3, <2>4 DEF DriverStays
<1> QED BY <1>1, <1>2

\* While a FE0C is there and no transfer fails, the choice is for its interface,
\* and the claim succeeds.
LEMMA Fe0cUnopenedStep ==
  ASSUME OneInv, DriverStays, Fe0cUnopened, [Next]_vars
  PROVE  Fe0cUnopened'
<1> SUFFICES ASSUME NEW c \in plugged', OneSeen', Kind[c] = "fe0c", faults' = 0
             PROVE  open' = {} /\ \A t \in Thread : pc'[t] \notin PortPlaces
  BY DEF Fe0cUnopened
<1>1. KnownInv /\ Typed /\ InHand /\ DevicesKnown /\ plugged \subseteq seen
  BY DEF OneInv, KnownInv
<1>2. pc \in [Thread -> PC] /\ faults = 0
  BY <1>1, FaultsGrow DEF Typed, TypeOK, ThreadsTyped, CountersTyped
<1>3. SUFFICES ASSUME c \in plugged, OneSeen
               PROVE  open' = {} /\ \A t \in Thread : pc'[t] \notin PortPlaces
  BY PluggedBefore, TryingPlaces
<1>4. open = {} /\ \A t \in Thread : pc[t] \notin PortPlaces
  BY <1>2, <1>3 DEF Fe0cUnopened
<1>5. open' = {}
  BY <1>4, OpenSteps, TryingPlaces DEF OpenPort, Reopen, At, Recovering
<1>6. ASSUME NEW t \in Thread, pc'[t] \in PortPlaces PROVE FALSE
  <2>1. FindDriver(t) \/ StoreDriver(t) \/ OpenDevice(t) \/ Attempt(t) \/ Recovery(t)
    BY <1>1, <1>4, <1>6, TryingPlace, TryingPlaces
  <2>2. CASE FindDriver(t) \/ StoreDriver(t) \/ OpenDevice(t)
    BY <1>2, <1>6, <2>2, TryingPlaces
    DEF FindDriver, StoreDriver, OpenDevice, Abort, Return, Goto, PortPlaces, Recovering
  <2>3. CASE Recovery(t)
    BY <1>4, <2>3, TryingPlaces
    DEF Recovery, Recover, Reopen, GetPort, SlowDown, Resume, GiveUp, At, Recovering
  <2>4. CASE DropFe0c(t) \/ OpenPort(t) \/ CatchAttempt(t) \/ Configure(t) \/ NextBaudrate(t)
    BY <1>4, <2>4 DEF DropFe0c, OpenPort, CatchAttempt, Configure, NextBaudrate, At, PortPlaces
  <2>5. CASE TryBaudrate(t) \/ GetPort(t) \/ ChooseInit(t) \/ ClaimFe0c(t) \/ KeepFe0c(t)
    <3>1. pc[t] \in Trying
      BY <2>5 DEF TryBaudrate, GetPort, ReadDriver, AssignPort, ChooseInit, ClaimFe0c, KeepFe0c, At,
         Trying, Attempting, Recovering
    <3>2. driver = c /\ c # NoDev
      BY <1>1, <1>3, <3>1, DeviceAssumption DEF DriverStays, Typed, TypeOK, PlatformTyped
    <3>3. dev[t] = c
      BY <1>1, <1>3, <3>1, TryingPlaces DEF InHand, DevicesKnown, Known, OneSeen
    <3>4. CASE TryBaudrate(t) \/ ChooseInit(t) \/ KeepFe0c(t)
      BY <1>2, <1>3, <1>6, <3>2, <3>4, TryingPlaces DEF TryBaudrate, ChooseInit, KeepFe0c, Goto
    <3>5. CASE GetPort(t)
      BY <1>2, <1>4, <1>6, <3>2, <3>5, TryingPlaces
      DEF GetPort, ReadDriver, AssignPort, Goto, At, Recovering
    <3>6. CASE ClaimFe0c(t)
      BY <1>2, <1>3, <1>6, <3>2, <3>3, <3>6, TryingPlaces DEF ClaimFe0c, Fault, Goto
    <3> QED BY <2>5, <3>4, <3>5, <3>6
  <2> QED BY <2>1, <2>2, <2>3, <2>4, <2>5 DEF Attempt
<1> QED BY <1>5, <1>6

\* Who leaves a place of a connection, who changes the flag of the loop, and
\* what becomes of the jobs.
LEMMA LeavesTrying ==
  ASSUME Typed, [Next]_vars, NEW u \in Thread, pc[u] \in Trying, pc'[u] # pc[u]
  PROVE  ConnectWithPermission(u)
<1>1. pc \in [Thread -> PC] /\ pc[u] \notin {"idle", "found", "chosen", "detected", "perm"}
      /\ pc[u] \notin Detaching /\ pc[u] \notin Reading
  BY LookingPlaces DEF Typed, TypeOK, ThreadsTyped, Trying, Attempting, Recovering, Detaching, Reading
<1>2. ~OnPermission /\ ~OnDetached /\ ~TestOwner
  BY <1>1 DEF OnPermission, OnDetached, TestOwner, MainIdle, At, Goto, Detaching, Thread
<1>3. ~CleanUp
  BY <1>1, FollowingType DEF CleanUp, Goto, Thread
<1>4. ASSUME NEW t \in Thread, ConnectWithPermission(t), t # u PROVE FALSE
  <2>1. Return(t) \/ \E l : Goto(t, l)
    BY <1>4, ConnectPlace
  <2> QED BY <1>1, <1>4, <2>1 DEF Return, Goto
<1>5. ~SerialJob
  BY <1>1 DEF SerialJob, Detect, NoDriver, StoreDevice, ChooseDevice, CheckPermission, StartLoop,
     LoopTest, ReadPort, ReadFailed, NextJob, SerialIdle, At, Return, Goto, Thread, Reading
<1>6. ~OnAttached /\ (~\E k \in Timer : Fire(k)) /\ ~UserInterface /\ ~ReleaseKey /\ ~Platform
      /\ ~UNCHANGED vars
  BY DEF OnAttached, Fire, UserInterface, CameraOpened, Reconnect, SetPreferredBaudrate,
     KeyPress, ReleaseKey, Platform, Plug, Unplug, Answer, TimePasses, vars, locals
<1> QED BY <1>2, <1>3, <1>4, <1>5, <1>6 DEF Next, Broadcasts

LEMMA ReadingSteps ==
  ASSUME [Next]_vars, isReading' # isReading
  PROVE  CleanUp \/ \E t \in Thread : Finish(t) \/ Resume(t)
<1>1. ~OnAttached /\ ~OnDetached /\ ~TestOwner /\ ~OnPermission /\ ~\E k \in Timer : Fire(k)
  BY DEF OnAttached, OnDetached, TestOwner, OnPermission, Fire, fields
<1>2. ~UserInterface /\ ~ReleaseKey
  BY DEF UserInterface, CameraOpened, Reconnect, SetPreferredBaudrate, KeyPress, ReleaseKey, fields
<1>3. ~SerialJob
  BY DEF SerialJob, Detect, NoDriver, StoreDevice, ChooseDevice, CheckPermission, StartLoop,
     LoopTest, ReadPort, fields
<1>4. ASSUME NEW t \in Thread, ConnectWithPermission(t), ~Finish(t), ~Resume(t) PROVE FALSE
  BY <1>4 DEF ConnectWithPermission, FindDriver, StoreDriver, OpenDevice, Attempt,
     TryBaudrate, GetPort, ReadDriver, AssignPort, ChooseInit, ClaimFe0c, KeepFe0c, DropFe0c,
     OpenPort, Configure, CatchAttempt, NextBaudrate, Recovery, Recover, Reopen, SlowDown, GiveUp,
     fields
<1>5. ~Platform /\ ~UNCHANGED vars
  BY DEF Platform, Plug, Unplug, Answer, TimePasses, vars, fields
<1> QED BY <1>1, <1>2, <1>3, <1>4, <1>5 DEF Next, Broadcasts

LEMMA JobSteps ==
  ASSUME [Next]_vars
  PROVE  \/ jobs' = jobs \/ \E j \in Job : jobs' = Append(jobs, j)
         \/ jobs # <<>> /\ Head(jobs) # "read" /\ jobs' = Tail(jobs)
         \/ StartLoop
<1> USE DEF Job
<1>1. CASE OnAttached \/ OnDetached \/ TestOwner \/ CleanUp \/ OnPermission
  BY <1>1 DEF OnAttached, OnDetached, TestOwner, CleanUp, OnPermission, queues
<1>2. CASE \E k \in Timer : Fire(k)
  BY <1>2 DEF Fire, Timer, Connect, StartConnect
<1>3. CASE UserInterface \/ ReleaseKey
  BY <1>3 DEF UserInterface, CameraOpened, Reconnect, SetPreferredBaudrate, KeyPress, ReleaseKey,
     Connect, StartConnect, queues
<1>4. CASE SerialJob
  BY <1>4 DEF SerialJob, Detect, NoDriver, StoreDevice, ChooseDevice, CheckPermission, NextJob,
     LoopTest, ReadPort, queues
<1>5. ASSUME NEW t \in Thread, ConnectWithPermission(t)
      PROVE  jobs' = jobs \/ jobs' = Append(jobs, "read")
  BY <1>5 DEF ConnectWithPermission, FindDriver, StoreDriver, OpenDevice, Finish, Attempt,
     TryBaudrate, GetPort, ReadDriver, AssignPort, ChooseInit, ClaimFe0c, KeepFe0c, DropFe0c,
     OpenPort, Configure, CatchAttempt, NextBaudrate, Recovery, Recover, Reopen, SlowDown, Resume,
     GiveUp, StartReading, queues
<1>6. CASE Platform \/ UNCHANGED vars
  BY <1>6 DEF Platform, Plug, Unplug, Answer, TimePasses, vars, queues
<1> QED BY <1>1, <1>2, <1>3, <1>4, <1>5, <1>6 DEF Next, Broadcasts

\* A read loop that runs goes on while its port is open and its flag is set.
LEMMA LoopStays ==
  ASSUME Typed, [Next]_vars, pc["serial"] \in Reading, isReading, IsOpen, port \in plugged,
         faults' = 0
  PROVE  pc'["serial"] \in Reading
<1>1. pc \in [Thread -> PC] /\ "serial" \in Thread /\ faults \in Nat
  BY DEF Typed, TypeOK, ThreadsTyped, CountersTyped, Thread
<1>2. pc["serial"] \notin Looking /\ pc["serial"] \notin {"idle", "detected", "perm"}
      /\ {"loop", "read"} = Reading
  BY LookingPlaces DEF Reading
<1>3. CASE SerialJob
  <2>1. LoopTest \/ ReadPort
    BY <1>2, <1>3, LookingPlaces
    DEF SerialJob, Detect, NoDriver, StoreDevice, ChooseDevice, CheckPermission, StartLoop,
        NextJob, SerialIdle, At
  <2>2. CASE LoopTest
    BY <1>1, <2>2 DEF LoopTest, Goto, Reading
  <2>3. CASE ReadPort
    BY <1>1, <2>3 DEF ReadPort, ReadFailed, Fault, Goto, Reading, IsOpen
  <2> QED BY <2>1, <2>2, <2>3
<1>4. ASSUME NEW t \in Thread, ConnectWithPermission(t) PROVE pc'["serial"] = pc["serial"]
  <2>1. pc[t] \in Looking /\ (Return(t) \/ \E l : Goto(t, l))
    BY <1>4, ConnectPlace
  <2> QED BY <1>1, <1>2, <2>1 DEF Return, Goto
<1>5. CASE OnPermission \/ OnDetached \/ TestOwner \/ CleanUp
  BY <1>1, <1>5 DEF OnPermission, OnDetached, TestOwner, CleanUp, Goto, Thread
<1>6. CASE \/ OnAttached \/ (\E k \in Timer : Fire(k))
           \/ UserInterface \/ ReleaseKey \/ Platform \/ UNCHANGED vars
  BY <1>6 DEF OnAttached, Fire, UserInterface, CameraOpened, Reconnect, SetPreferredBaudrate,
     KeyPress, ReleaseKey, Platform, Plug, Unplug, Answer, TimePasses, vars, locals
<1> QED BY <1>3, <1>4, <1>5, <1>6 DEF Next, Broadcasts

\* The port has its reader again after every step.
LEMMA ReaderStep ==
  ASSUME ReaderInv, KnownInv', Fe0cUnopened', [Next]_vars
  PROVE  ReaderKept'
<1> DEFINE Goal == \/ pc'["serial"] \in Reading \/ Queued(jobs')
                   \/ \E t \in Thread : pc'[t] \in BeforeReading
<1> SUFFICES ASSUME OneSeen', IsOpen', port' \in plugged', isReading', faults' = 0
             PROVE  Goal
  BY DEF ReaderKept
<1>0. /\ OneInv /\ KnownInv /\ Typed /\ DetachingGone /\ plugged \subseteq seen
      /\ DriverStays /\ ClaimsFe0c /\ ReaderKept
  BY DEF ReaderInv, OneInv, KnownInv
<1>1. /\ pc \in [Thread -> PC] /\ jobs \in Seq(Job) /\ faults = 0
  BY <1>0, FaultsGrow DEF Typed, TypeOK, ThreadsTyped, CountersTyped, QueuesTyped
<1>2. port' \in plugged /\ OneSeen /\ port' \in open'
  BY <1>0, PluggedBefore DEF IsOpen
<1>3. OpenIsPort /\ Kind[port'] # "fe0c"
  BY <1>0, <1>2 DEF OneInv, OnePort, Fe0cUnopened
<1>4. fe0c = NoDev
  BY <1>0, <1>2, <1>3 DEF ClaimsFe0c, OneSeen
<1>5. ~CleanUp
  BY <1>0, <1>2, FollowingType DEF CleanUp, DetachingGone, Gone, OneSeen
<1>6. CASE \E t \in Thread : Finish(t) \/ Resume(t)
  <2>1. jobs' = Append(jobs, "read")
    BY <1>4, <1>6 DEF Finish, Resume, StartReading
  <2>2. "read" \in Job
    BY DEF Job
  <2> QED BY <1>1, <2>1, <2>2, QueuedAppend
<1>7. CASE \E t \in Thread : OpenPort(t) /\ ~(open' \subseteq open)
  BY <1>1, <1>7 DEF OpenPort, Goto, BeforeReading
<1>8. CASE \E t \in Thread : Reopen(t) /\ ~(open' \subseteq open)
  BY <1>1, <1>8 DEF Reopen, Goto, BeforeReading
<1>9. SUFFICES ASSUME ~(\E t \in Thread : Finish(t) \/ Resume(t)), open' \subseteq open
               PROVE  Goal
  BY <1>6, <1>7, <1>8, OpenSteps
<1>10. IsOpen /\ port \in plugged /\ isReading
  <2>1. port = port'
    BY <1>2, <1>3, <1>9 DEF OpenIsPort
  <2>2. isReading' = isReading
    BY <1>5, <1>9, ReadingSteps
  <2>3. port # NoDev
    BY <2>1 DEF IsOpen
  <2> QED BY <1>2, <1>9, <2>1, <2>2, <2>3 DEF IsOpen
<1>11. \/ pc["serial"] \in Reading \/ Queued(jobs)
       \/ \E t \in Thread : pc[t] \in BeforeReading
  BY <1>0, <1>1, <1>2, <1>10 DEF ReaderKept
<1>12. CASE pc["serial"] \in Reading
  BY <1>0, <1>10, <1>12, LoopStays
<1>13. CASE Queued(jobs)
  <2>1. CASE \E j \in Job : jobs' = Append(jobs, j)
    BY <1>1, <1>13, <2>1, QueuedAppend
  <2>2. CASE jobs # <<>> /\ Head(jobs) # "read" /\ jobs' = Tail(jobs)
    BY <1>1, <1>13, <2>2, QueuedTail
  <2>3. CASE StartLoop
    BY <1>1, <2>3 DEF StartLoop, Goto, Reading, Thread
  <2> QED BY <1>13, <2>1, <2>2, <2>3, JobSteps
<1>14. ASSUME NEW t \in Thread, pc[t] \in BeforeReading PROVE Goal
  <2>1. CASE pc'[t] = pc[t]
    BY <1>14, <2>1
  <2>2. CASE pc'[t] # pc[t]
    <3>1. ConnectWithPermission(t)
      BY <1>0, <1>14, <2>2, TryingPlaces, LeavesTrying
    <3>2. Configure(t) \/ SlowDown(t)
      BY <1>9, <1>14, <3>1
      DEF ConnectWithPermission, FindDriver, StoreDriver, OpenDevice, Attempt, TryBaudrate,
          GetPort, ReadDriver, AssignPort, ChooseInit, ClaimFe0c, KeepFe0c, DropFe0c, OpenPort,
          CatchAttempt, NextBaudrate, Recovery, Recover, Reopen, GiveUp, At, BeforeReading
    <3> QED BY <1>1, <1>10, <3>2 DEF Configure, SlowDown, Fault, Goto, BeforeReading
  <2> QED BY <2>1, <2>2
<1> QED BY <1>11, <1>12, <1>13, <1>14

LEMMA ReaderAlways == Spec => []ReaderInv
<1>1. Init /\ OneInv => ReaderInv
  BY DEF Init, ReaderInv, ClaimsFe0c, DriverStays, Fe0cUnopened, ReaderKept, IsOpen, Trying,
     Attempting, Recovering, PortPlaces, Thread
<1>2. ReaderInv /\ OneInv' /\ [Next]_vars => ReaderInv'
  BY ClaimsFe0cStep, DriverStaysStep, Fe0cUnopenedStep, ReaderStep DEF ReaderInv, OneInv
<1> QED BY <1>1, <1>2, OneAlways, PTL DEF Spec

\* As long as one attachment has been plugged, of any kind, an open port keeps
\* its reader: the job of the new loop waits behind an old loop that ends, and a
\* recovery starts a reader of its own.
THEOREM ReaderStays == Spec => [](OneSeen => ReaderAlive)
<1>1. ReaderInv => (OneSeen => ReaderAlive)
  <2> SUFFICES ASSUME ReaderInv, OneSeen, IsOpen, port \in plugged, isReading, faults = 0, ~Busy
               PROVE  pc["serial"] \in Reading \/ Queued(jobs)
    BY DEF ReaderAlive, Queued
  <2>1. BeforeReading \subseteq Connecting
    BY DEF BeforeReading, Connecting, Attempting, Recovering
  <2> QED BY <2>1 DEF ReaderInv, ReaderKept, Busy
<1> QED BY <1>1, ReaderAlways, PTL
=============================================================================
