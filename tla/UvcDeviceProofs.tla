--------------------------- MODULE UvcDeviceProofs ---------------------------
(***************************************************************************)
(* Proofs about a camera's device, for any number of file descriptors and  *)
(* of calls, and whether or not listeners call the camera.                 *)
(***************************************************************************)
EXTENDS UvcDevice, TLAPS

-----------------------------------------------------------------------------
(* The inductive invariant *)

\* Where the client's thread is while the handle is open or half closed.
HandleInv ==
  /\ mDeviceHandle = "open" =>
       /\ mNativePtr
       /\ api \in {"idle", "connect", "opened", "control", "release", "uvc_close",
            "libusb_close"}
  /\ At("uvc_open") => mNativePtr
  /\ mDeviceHandle = "closed" <=> At("join")
  /\ api \in {"opened", "control", "uvc_close", "libusb_close"} => mDeviceHandle = "open"

\* The device has one reference for mDevice and one for the handle.
RefInv ==
  /\ ref = (IF mDevice THEN 1 ELSE 0) + (IF mDeviceHandle = "none" THEN 0 ELSE 1)
  /\ mDevice => mDeviceHandle # "none" \/ api \in {"uvc_open", "unref"}
  /\ mDeviceHandle # "none" \/ At("uvc_open") => mDevice

\* Events and their thread belong to a handle, and who has the events lock is where it
\* handles events.
EventInv ==
  /\ ev = "none" <=> mDeviceHandle = "none"
  /\ FirstOpenHasEvents
  /\ status_xfer # "none" => mDeviceHandle = "open"
  /\ delivery # "none" =>
       /\ mDeviceHandle = "open"
       /\ IF by = "event" THEN ev = "poll" ELSE At("control")

\* The handle points to a callback object from connect to uvc_close, which exists until
\* release deletes it.
CallbackInv ==
  /\ button_cb => mDeviceHandle # "none" /\ ~At("opened")
  /\ mButtonCallback <=> mDeviceHandle = "open" /\ api \in {"idle", "connect", "control",
       "release"}
  /\ mButtonCallback => button_cb
  /\ delivery \in {"enter", "notify", "blocked"} => button_cb
  /\ delivery \in {"notify", "blocked"} => listener

\* The camera owns one descriptor at most: connect's local, then the member. Only while it
\* may be 0 can others close it.
DescriptorInv ==
  /\ fd # NoFd <=> api \in {"uvc_open", "opened"}
  /\ At("opened") => fd > 0
  /\ fd > 0 => owner[fd] = "camera"
  /\ At("uvc_open") \/ mDeviceHandle # "none" => mUsbFs
  /\ mDeviceHandle # "none" /\ ~At("opened") => mFd > 0 /\ owner[mFd] = "camera"
  /\ \A f \in Fds : owner[f] = "camera" =>
       IF fd # NoFd THEN f = fd
       ELSE f = mFd /\ mUsbFs /\ (mDeviceHandle # "none" \/ At("unref"))

DeviceInv == TypeOK /\ HandleInv /\ RefInv /\ EventInv /\ CallbackInv /\ DescriptorInv

-----------------------------------------------------------------------------
(* Every step preserves it *)

USE DEF Fds, NoFd, Owners, At, GoTo, Call, java, native, device, callback, events

LEMMA InitInv == DeviceAssumption /\ Init => DeviceInv
<1> SUFFICES ASSUME DeviceAssumption, Init PROVE DeviceInv
  OBVIOUS
<1>1. FlagsOK
  BY DEF Init, FlagsOK
<1>2. DataOK
  BY DEF DeviceAssumption, Init, DataOK
<1>3. HandleInv /\ RefInv /\ EventInv /\ CallbackInv
  BY DEF Init, HandleInv, RefInv, EventInv, CallbackInv, FirstOpenHasEvents
<1>4. DescriptorInv
  BY DEF Init, DescriptorInv
<1> QED BY <1>1, <1>2, <1>3, <1>4 DEF DeviceInv, TypeOK

\* Opening a camera.
LEMMA OpenSteps ==
  ASSUME DeviceAssumption, DeviceInv,
         Create \/ Open \/ ConnectRefused \/ ConnectFails \/ Connect
         \/ UvcOpenFails \/ UvcOpen \/ NewCallback
  PROVE  DeviceInv'
<1> USE DEF DeviceAssumption, DeviceInv, TypeOK
<1>1. CASE Create
  <2>1. FlagsOK'
    BY <1>1 DEF Create, FlagsOK
  <2>2. DataOK'
    BY <1>1 DEF Create, DataOK
  <2>3. HandleInv'
    BY <1>1 DEF Create, HandleInv
  <2>4. EventInv'
    BY <1>1 DEF Create, EventInv, FirstOpenHasEvents
  <2>5. DescriptorInv'
    BY <1>1 DEF Create, DescriptorInv
  <2>6. RefInv' /\ CallbackInv'
    BY <1>1 DEF Create, RefInv, CallbackInv
  <2> QED BY <2>1, <2>2, <2>3, <2>4, <2>5, <2>6
<1>2. CASE Open
  <2>1. DataOK'
    BY <1>2 DEF Open, DataOK
  <2>2. HandleInv'
    BY <1>2 DEF Open, HandleInv
  <2>3. RefInv'
    BY <1>2 DEF Open, RefInv
  <2>4. EventInv'
    BY <1>2 DEF Open, EventInv, FirstOpenHasEvents
  <2>5. CallbackInv'
    BY <1>2 DEF Open, CallbackInv
  <2>6. DescriptorInv'
    BY <1>2 DEF Open, DescriptorInv, HandleInv, DataOK, Lowest
  <2>7. FlagsOK'
    BY <1>2 DEF Open, FlagsOK
  <2> QED BY <2>1, <2>2, <2>3, <2>4, <2>5, <2>6, <2>7
<1>3. CASE ConnectRefused
  <2>1. DataOK'
    BY <1>3 DEF ConnectRefused, DataOK
  <2>2. HandleInv'
    BY <1>3 DEF ConnectRefused, HandleInv
  <2>3. RefInv'
    BY <1>3 DEF ConnectRefused, RefInv
  <2>4. EventInv'
    BY <1>3 DEF ConnectRefused, EventInv, FirstOpenHasEvents
  <2>5. CallbackInv'
    BY <1>3 DEF ConnectRefused, CallbackInv
  <2>6. DescriptorInv'
    BY <1>3 DEF ConnectRefused, DescriptorInv
  <2>7. FlagsOK'
    BY <1>3 DEF ConnectRefused, FlagsOK
  <2> QED BY <2>1, <2>2, <2>3, <2>4, <2>5, <2>6, <2>7
<1>4. CASE ConnectFails
  <2>1. FlagsOK'
    BY <1>4 DEF ConnectFails, FlagsOK
  <2>2. DataOK'
    BY <1>4 DEF ConnectFails, DataOK
  <2>3. HandleInv'
    BY <1>4 DEF ConnectFails, HandleInv
  <2>4. RefInv'
    BY <1>4 DEF ConnectFails, RefInv, HandleInv, MayConnect
  <2>5. EventInv'
    BY <1>4 DEF ConnectFails, EventInv, FirstOpenHasEvents
  <2>6. CallbackInv'
    BY <1>4 DEF ConnectFails, CallbackInv
  <2>7. DescriptorInv'
    BY <1>4 DEF ConnectFails, DescriptorInv
  <2> QED BY <2>1, <2>2, <2>3, <2>4, <2>5, <2>6, <2>7
<1>5. CASE Connect
  <2>1. FlagsOK'
    BY <1>5 DEF Connect, FlagsOK
  <2>2. DataOK'
    BY <1>5 DEF Connect, DataOK
  <2>3. HandleInv'
    BY <1>5 DEF Connect, HandleInv, MayConnect
  <2>4. RefInv'
    BY <1>5 DEF Connect, RefInv, HandleInv, MayConnect
  <2>5. EventInv'
    BY <1>5 DEF Connect, EventInv, FirstOpenHasEvents
  <2>6. CallbackInv'
    BY <1>5 DEF Connect, CallbackInv, HandleInv, MayConnect
  <2>7. DescriptorInv'
    BY <1>5 DEF Connect, DescriptorInv, HandleInv, DataOK, Lowest, MayConnect
  <2> QED BY <2>1, <2>2, <2>3, <2>4, <2>5, <2>6, <2>7
<1>6. CASE UvcOpenFails
  <2>1. FlagsOK'
    BY <1>6 DEF UvcOpenFails, FlagsOK
  <2>2. DataOK'
    BY <1>6 DEF UvcOpenFails, DataOK, HandleInv, RefInv, DescriptorInv
  <2>3. HandleInv'
    BY <1>6 DEF UvcOpenFails, HandleInv
  <2>4. RefInv'
    BY <1>6 DEF UvcOpenFails, RefInv, HandleInv, DataOK
  <2>5. EventInv'
    BY <1>6 DEF UvcOpenFails, EventInv, FirstOpenHasEvents
  <2>6. CallbackInv'
    BY <1>6 DEF UvcOpenFails, CallbackInv, HandleInv
  <2>7. DescriptorInv'
    BY <1>6 DEF UvcOpenFails, DescriptorInv, HandleInv, DataOK
  <2> QED BY <2>1, <2>2, <2>3, <2>4, <2>5, <2>6, <2>7
<1>7. CASE UvcOpen
  <2>1. DataOK'
    BY <1>7 DEF UvcOpen, DataOK, HandleInv, RefInv
  <2>2. HandleInv'
    BY <1>7 DEF UvcOpen, HandleInv
  <2>3. RefInv'
    BY <1>7 DEF UvcOpen, RefInv, HandleInv, DataOK
  <2>4. EventInv'
    BY <1>7 DEF UvcOpen, EventInv, HandleInv, FirstOpenHasEvents
  <2>5. CallbackInv'
    BY <1>7 DEF UvcOpen, CallbackInv, HandleInv, DataOK
  <2>6. DescriptorInv'
    BY <1>7 DEF UvcOpen, DescriptorInv
  <2>7. FlagsOK'
    BY <1>7 DEF UvcOpen, FlagsOK
  <2> QED BY <2>1, <2>2, <2>3, <2>4, <2>5, <2>6, <2>7
<1>8. CASE NewCallback
  <2>1. FlagsOK'
    BY <1>8 DEF NewCallback, FlagsOK
  <2>2. DataOK'
    BY <1>8 DEF NewCallback, DataOK, DescriptorInv
  <2>3. HandleInv'
    BY <1>8 DEF NewCallback, HandleInv
  <2>4. RefInv'
    BY <1>8 DEF NewCallback, RefInv
  <2>5. EventInv'
    BY <1>8 DEF NewCallback, EventInv, FirstOpenHasEvents
  <2>6. CallbackInv'
    BY <1>8 DEF NewCallback, CallbackInv, HandleInv
  <2>7. DescriptorInv'
    BY <1>8 DEF NewCallback, DescriptorInv, HandleInv
  <2> QED BY <2>1, <2>2, <2>3, <2>4, <2>5, <2>6, <2>7
<1> QED BY <1>1, <1>2, <1>3, <1>4, <1>5, <1>6, <1>7, <1>8

\* Calls on a camera and its listener.
LEMMA UseSteps ==
  ASSUME DeviceAssumption, DeviceInv,
         Control \/ ControlDone \/ SetButtonCallback \/ CallCamera
  PROVE  DeviceInv'
<1> USE DEF DeviceAssumption, DeviceInv, TypeOK
<1>1. CASE Control
  <2>1. DataOK'
    BY <1>1 DEF Control, DataOK
  <2>2. HandleInv'
    BY <1>1 DEF Control, HandleInv
  <2>3. RefInv'
    BY <1>1 DEF Control, RefInv
  <2>4. EventInv'
    BY <1>1 DEF Control, EventInv, FirstOpenHasEvents
  <2>5. CallbackInv'
    BY <1>1 DEF Control, CallbackInv
  <2>6. DescriptorInv'
    BY <1>1 DEF Control, DescriptorInv
  <2>7. FlagsOK'
    BY <1>1 DEF Control, FlagsOK
  <2> QED BY <2>1, <2>2, <2>3, <2>4, <2>5, <2>6, <2>7
<1>2. CASE ControlDone
  <2>1. DataOK'
    BY <1>2 DEF ControlDone, DataOK
  <2>2. HandleInv'
    BY <1>2 DEF ControlDone, HandleInv
  <2>3. RefInv'
    BY <1>2 DEF ControlDone, RefInv
  <2>4. EventInv'
    BY <1>2 DEF ControlDone, EventInv, HandleInv, DataOK, FirstOpenHasEvents
  <2>5. CallbackInv'
    BY <1>2 DEF ControlDone, CallbackInv
  <2>6. DescriptorInv'
    BY <1>2 DEF ControlDone, DescriptorInv
  <2>7. FlagsOK'
    BY <1>2 DEF ControlDone, FlagsOK
  <2> QED BY <2>1, <2>2, <2>3, <2>4, <2>5, <2>6, <2>7
<1>3. CASE SetButtonCallback
  <2>1. FlagsOK'
    BY <1>3 DEF SetButtonCallback, FlagsOK
  <2>2. CallbackInv'
    BY <1>3 DEF SetButtonCallback, CallbackInv
  <2>3. DataOK' /\ HandleInv' /\ RefInv' /\ EventInv' /\ DescriptorInv'
    BY <1>3 DEF SetButtonCallback, DataOK, HandleInv, RefInv, EventInv, DescriptorInv,
         FirstOpenHasEvents
  <2> QED BY <2>1, <2>2, <2>3
<1>4. CASE CallCamera
  <2>1. DataOK'
    BY <1>4 DEF CallCamera, DataOK
  <2>2. EventInv'
    BY <1>4 DEF CallCamera, EventInv, FirstOpenHasEvents
  <2>3. CallbackInv'
    BY <1>4 DEF CallCamera, CallbackInv
  <2>4. FlagsOK' /\ HandleInv' /\ RefInv' /\ DescriptorInv'
    BY <1>4 DEF CallCamera, FlagsOK, HandleInv, RefInv, DescriptorInv
  <2> QED BY <2>1, <2>2, <2>3, <2>4
<1> QED BY <1>1, <1>2, <1>3, <1>4

\* Closing and destroying a camera.
LEMMA CloseSteps ==
  ASSUME DeviceAssumption, DeviceInv,
         Close \/ Release \/ UvcClose \/ LibusbClose \/ Join \/ Unref
         \/ CloseBlock \/ Destroy
  PROVE  DeviceInv'
<1> USE DEF DeviceAssumption, DeviceInv, TypeOK
<1>1. CASE Close
  <2>1. FlagsOK'
    BY <1>1 DEF Close, FlagsOK
  <2>2. DataOK'
    BY <1>1 DEF Close, DataOK
  <2>3. HandleInv'
    BY <1>1 DEF Close, HandleInv
  <2>4. RefInv'
    BY <1>1 DEF Close, RefInv
  <2>5. EventInv'
    BY <1>1 DEF Close, EventInv, FirstOpenHasEvents
  <2>6. CallbackInv'
    BY <1>1 DEF Close, CallbackInv, HandleInv
  <2>7. DescriptorInv'
    BY <1>1 DEF Close, DescriptorInv
  <2> QED BY <2>1, <2>2, <2>3, <2>4, <2>5, <2>6, <2>7
<1>2. CASE Release
  <2>1. FlagsOK'
    BY <1>2 DEF Release, FlagsOK
  <2>2. DataOK'
    BY <1>2 DEF Release, DataOK
  <2>3. HandleInv'
    BY <1>2 DEF Release, HandleInv
  <2>4. RefInv'
    BY <1>2 DEF Release, RefInv
  <2>5. EventInv'
    BY <1>2 DEF Release, EventInv, FirstOpenHasEvents
  <2>6. CallbackInv'
    BY <1>2 DEF Release, CallbackInv
  <2>7. DescriptorInv'
    BY <1>2 DEF Release, DescriptorInv
  <2> QED BY <2>1, <2>2, <2>3, <2>4, <2>5, <2>6, <2>7
<1>3. CASE UvcClose
  <2>1. FlagsOK'
    BY <1>3 DEF UvcClose, FlagsOK
  <2>2. DataOK'
    BY <1>3 DEF UvcClose, DataOK
  <2>3. HandleInv'
    BY <1>3 DEF UvcClose, HandleInv
  <2>4. RefInv'
    BY <1>3 DEF UvcClose, RefInv
  <2>5. EventInv'
    BY <1>3 DEF UvcClose, EventInv, FirstOpenHasEvents
  <2>6. CallbackInv'
    BY <1>3 DEF UvcClose, CallbackInv
  <2>7. DescriptorInv'
    BY <1>3 DEF UvcClose, DescriptorInv
  <2> QED BY <2>1, <2>2, <2>3, <2>4, <2>5, <2>6, <2>7
<1>4. CASE LibusbClose
  <2>1. DataOK'
    BY <1>4 DEF LibusbClose, DataOK
  <2>2. HandleInv'
    BY <1>4 DEF LibusbClose, HandleInv
  <2>3. RefInv'
    BY <1>4 DEF LibusbClose, RefInv, HandleInv
  <2>4. EventInv'
    BY <1>4 DEF LibusbClose, EventInv, HandleInv, FirstOpenHasEvents
  <2>5. CallbackInv'
    BY <1>4 DEF LibusbClose, CallbackInv
  <2>6. DescriptorInv'
    BY <1>4 DEF LibusbClose, DescriptorInv, HandleInv
  <2>7. FlagsOK'
    BY <1>4 DEF LibusbClose, FlagsOK
  <2> QED BY <2>1, <2>2, <2>3, <2>4, <2>5, <2>6, <2>7
<1>5. CASE Join
  <2>1. FlagsOK'
    BY <1>5 DEF Join, FlagsOK
  <2>2. DataOK'
    BY <1>5 DEF Join, DataOK, HandleInv, RefInv
  <2>3. HandleInv'
    BY <1>5 DEF Join, HandleInv
  <2>4. RefInv'
    BY <1>5 DEF Join, RefInv, HandleInv
  <2>5. EventInv'
    BY <1>5 DEF Join, EventInv, HandleInv, FirstOpenHasEvents
  <2>6. CallbackInv'
    BY <1>5 DEF Join, CallbackInv, EventInv, FirstOpenHasEvents
  <2>7. DescriptorInv'
    BY <1>5 DEF Join, DescriptorInv
  <2> QED BY <2>1, <2>2, <2>3, <2>4, <2>5, <2>6, <2>7
<1>6. CASE Unref
  <2>1. FlagsOK'
    BY <1>6 DEF Unref, FlagsOK
  <2>2. DataOK'
    BY <1>6 DEF Unref, DataOK, RefInv
  <2>3. HandleInv'
    BY <1>6 DEF Unref, HandleInv
  <2>4. RefInv'
    BY <1>6 DEF Unref, RefInv, HandleInv, DataOK
  <2>5. EventInv'
    BY <1>6 DEF Unref, EventInv, FirstOpenHasEvents
  <2>6. CallbackInv'
    BY <1>6 DEF Unref, CallbackInv
  <2>7. DescriptorInv'
    BY <1>6 DEF Unref, DescriptorInv, HandleInv, DataOK
  <2> QED BY <2>1, <2>2, <2>3, <2>4, <2>5, <2>6, <2>7
<1>7. CASE CloseBlock
  <2>1. DataOK'
    BY <1>7 DEF CloseBlock, DataOK
  <2>2. HandleInv'
    BY <1>7 DEF CloseBlock, HandleInv
  <2>3. RefInv'
    BY <1>7 DEF CloseBlock, RefInv
  <2>4. EventInv'
    BY <1>7 DEF CloseBlock, EventInv, FirstOpenHasEvents
  <2>5. CallbackInv'
    BY <1>7 DEF CloseBlock, CallbackInv, HandleInv
  <2>6. DescriptorInv'
    BY <1>7 DEF CloseBlock, DescriptorInv, HandleInv, DataOK
  <2>7. FlagsOK'
    BY <1>7 DEF CloseBlock, FlagsOK
  <2> QED BY <2>1, <2>2, <2>3, <2>4, <2>5, <2>6, <2>7
<1>8. CASE Destroy
  <2>1. FlagsOK'
    BY <1>8 DEF Destroy, FlagsOK
  <2>2. DataOK'
    BY <1>8 DEF Destroy, DataOK
  <2>3. HandleInv'
    BY <1>8 DEF Destroy, HandleInv
  <2>4. RefInv'
    BY <1>8 DEF Destroy, RefInv
  <2>5. EventInv'
    BY <1>8 DEF Destroy, EventInv, HandleInv, FirstOpenHasEvents
  <2>6. CallbackInv'
    BY <1>8 DEF Destroy, CallbackInv, HandleInv
  <2>7. DescriptorInv'
    BY <1>8 DEF Destroy, DescriptorInv
  <2> QED BY <2>1, <2>2, <2>3, <2>4, <2>5, <2>6, <2>7
<1> QED BY <1>1, <1>2, <1>3, <1>4, <1>5, <1>6, <1>7, <1>8

\* Events, and what the rest of the process does to descriptor 0.
LEMMA EventSteps ==
  ASSUME DeviceAssumption, DeviceInv,
         Test \/ Return \/ Take("event") \/ Take("api") \/ Process \/ Enter
         \/ Notified \/ Resubmit \/ OpenFile \/ OtherRelease
  PROVE  DeviceInv'
<1> USE DEF DeviceAssumption, DeviceInv, TypeOK
<1>1. CASE Test
  <2>1. DataOK'
    BY <1>1 DEF Test, DataOK
  <2>2. EventInv'
    BY <1>1 DEF Test, EventInv, FirstOpenHasEvents
  <2>3. FlagsOK' /\ HandleInv' /\ RefInv' /\ CallbackInv' /\ DescriptorInv'
    BY <1>1 DEF Test, FlagsOK, HandleInv, RefInv, CallbackInv, DescriptorInv
  <2> QED BY <2>1, <2>2, <2>3
<1>2. CASE Return
  <2>1. DataOK'
    BY <1>2 DEF Return, DataOK
  <2>2. EventInv'
    BY <1>2 DEF Return, EventInv, FirstOpenHasEvents
  <2>3. FlagsOK' /\ HandleInv' /\ RefInv' /\ CallbackInv' /\ DescriptorInv'
    BY <1>2 DEF Return, FlagsOK, HandleInv, RefInv, CallbackInv, DescriptorInv
  <2> QED BY <2>1, <2>2, <2>3
<1>3. ASSUME NEW t \in {"event", "api"}, Take(t)
      PROVE  DeviceInv'
  <2>1. DataOK'
    BY <1>3 DEF Take, DataOK
  <2>2. EventInv'
    BY <1>3 DEF Take, EventInv, FirstOpenHasEvents
  <2>3. CallbackInv'
    BY <1>3 DEF Take, CallbackInv
  <2>4. FlagsOK' /\ HandleInv' /\ RefInv' /\ DescriptorInv'
    BY <1>3 DEF Take, FlagsOK, HandleInv, RefInv, DescriptorInv
  <2> QED BY <2>1, <2>2, <2>3, <2>4
<1>4. CASE Process
  <2>1. DataOK'
    BY <1>4 DEF Process, DataOK
  <2>2. EventInv'
    BY <1>4 DEF Process, EventInv, FirstOpenHasEvents
  <2>3. CallbackInv'
    BY <1>4 DEF Process, CallbackInv
  <2>4. FlagsOK' /\ HandleInv' /\ RefInv' /\ DescriptorInv'
    BY <1>4 DEF Process, FlagsOK, HandleInv, RefInv, DescriptorInv
  <2> QED BY <2>1, <2>2, <2>3, <2>4
<1>5. CASE Enter
  <2>1. DataOK'
    BY <1>5 DEF Enter, DataOK
  <2>2. EventInv'
    BY <1>5 DEF Enter, EventInv, FirstOpenHasEvents
  <2>3. CallbackInv'
    BY <1>5 DEF Enter, CallbackInv
  <2>4. FlagsOK' /\ HandleInv' /\ RefInv' /\ DescriptorInv'
    BY <1>5 DEF Enter, FlagsOK, HandleInv, RefInv, DescriptorInv
  <2> QED BY <2>1, <2>2, <2>3, <2>4
<1>6. CASE Notified
  <2>1. DataOK'
    BY <1>6 DEF Notified, DataOK
  <2>2. EventInv'
    BY <1>6 DEF Notified, EventInv, FirstOpenHasEvents
  <2>3. CallbackInv'
    BY <1>6 DEF Notified, CallbackInv
  <2>4. FlagsOK' /\ HandleInv' /\ RefInv' /\ DescriptorInv'
    BY <1>6 DEF Notified, FlagsOK, HandleInv, RefInv, DescriptorInv
  <2> QED BY <2>1, <2>2, <2>3, <2>4
<1>7. CASE Resubmit
  <2>1. DataOK'
    BY <1>7 DEF Resubmit, DataOK
  <2>2. EventInv'
    BY <1>7 DEF Resubmit, EventInv, FirstOpenHasEvents
  <2>3. CallbackInv'
    BY <1>7 DEF Resubmit, CallbackInv
  <2>4. FlagsOK' /\ HandleInv' /\ RefInv' /\ DescriptorInv'
    BY <1>7 DEF Resubmit, FlagsOK, HandleInv, RefInv, DescriptorInv
  <2> QED BY <2>1, <2>2, <2>3, <2>4
<1>8. CASE OpenFile
  <2>1. DataOK'
    BY <1>8 DEF OpenFile, DataOK
  <2>2. DescriptorInv'
    BY <1>8 DEF OpenFile, DescriptorInv
  <2>3. FlagsOK' /\ HandleInv' /\ RefInv' /\ EventInv' /\ CallbackInv'
    BY <1>8 DEF OpenFile, FlagsOK, HandleInv, RefInv, EventInv, CallbackInv, FirstOpenHasEvents
  <2> QED BY <2>1, <2>2, <2>3
<1>9. CASE OtherRelease
  <2>1. DataOK'
    BY <1>9 DEF OtherRelease, DataOK
  <2>2. DescriptorInv'
    BY <1>9 DEF OtherRelease, DescriptorInv
  <2>3. FlagsOK' /\ HandleInv' /\ RefInv' /\ EventInv' /\ CallbackInv'
    BY <1>9 DEF OtherRelease, FlagsOK, HandleInv, RefInv, EventInv, CallbackInv,
         FirstOpenHasEvents
  <2> QED BY <2>1, <2>2, <2>3
<1> QED BY <1>1, <1>2, <1>3, <1>4, <1>5, <1>6, <1>7, <1>8, <1>9

LEMMA NextInv ==
  ASSUME DeviceAssumption, DeviceInv, [Next]_vars
  PROVE  DeviceInv'
<1>1. CASE UNCHANGED vars
  BY <1>1 DEF vars, DeviceInv, TypeOK, FlagsOK, DataOK, HandleInv, RefInv, EventInv,
       CallbackInv, DescriptorInv,
       FirstOpenHasEvents
<1> QED
  BY <1>1, OpenSteps, UseSteps, CloseSteps, EventSteps DEF Next, ClientStep, EventStep,
       DeliveryStep

THEOREM InvariantHolds == DeviceAssumption /\ Spec => []DeviceInv
<1> SUFFICES ASSUME DeviceAssumption PROVE Spec => []DeviceInv
  OBVIOUS
<1>1. Init => DeviceInv
  BY InitInv
<1>2. DeviceInv /\ [Next]_vars => DeviceInv'
  BY NextInv
<1> QED BY <1>1, <1>2, PTL DEF Spec
-----------------------------------------------------------------------------
(* What every camera promises *)

\* No descriptor, reference or transfer is ever outside its kind: release, uvc_open and
\* uvc_close never drop a reference the device does not have.
THEOREM TypeCorrect == DeviceAssumption /\ Spec => []TypeOK
<1> SUFFICES ASSUME DeviceAssumption PROVE Spec => []TypeOK
  OBVIOUS
<1>1. DeviceInv => TypeOK
  BY DEF DeviceInv
<1> QED BY <1>1, InvariantHolds, PTL

\* Wherever opening a camera fails, and however often it is closed, an idle camera that is
\* not open has left no reference, descriptor, transfer or thread behind.
THEOREM ClosedCameraIsClean == DeviceAssumption /\ Spec => []ClosedIsClean
<1> SUFFICES ASSUME DeviceAssumption PROVE Spec => []ClosedIsClean
  OBVIOUS
<1>1. DeviceInv => ClosedIsClean
  BY DEF DeviceInv, ClosedIsClean, TypeOK, DataOK, HandleInv, RefInv, EventInv, CallbackInv,
       DescriptorInv
<1> QED BY <1>1, InvariantHolds, PTL

\* No close, of this camera's failed attempts or of another camera, takes the descriptor of
\* an open one.
THEOREM OpenCameraKeepsDescriptor == DeviceAssumption /\ Spec => []OpenKeepsDescriptor
<1> SUFFICES ASSUME DeviceAssumption PROVE Spec => []OpenKeepsDescriptor
  OBVIOUS
<1>1. DeviceInv => OpenKeepsDescriptor
  BY DEF DeviceInv, OpenKeepsDescriptor, DescriptorInv
<1> QED BY <1>1, InvariantHolds, PTL

\* A deleted callback object is called only between release's delete and uvc_close, and no
\* listener runs once setButtonCallback(null) has returned.
THEOREM CallbacksAreBounded == DeviceAssumption /\ Spec => []CallbacksOutliveTheirCalls
<1> SUFFICES ASSUME DeviceAssumption PROVE Spec => []CallbacksOutliveTheirCalls
  OBVIOUS
<1>1. DeviceInv => CallbacksOutliveTheirCalls
  BY DEF DeviceInv, CallbacksOutliveTheirCalls, TypeOK, DataOK, HandleInv, RefInv, EventInv,
       CallbackInv
<1> QED BY <1>1, InvariantHolds, PTL

\* The first opening of a camera has a running event thread until uvc_close tells it to end.
THEOREM FirstOpenGetsEvents == DeviceAssumption /\ Spec => []FirstOpenHasEvents
<1> SUFFICES ASSUME DeviceAssumption PROVE Spec => []FirstOpenHasEvents
  OBVIOUS
<1>1. DeviceInv => FirstOpenHasEvents
  BY DEF DeviceInv, EventInv
<1> QED BY <1>1, InvariantHolds, PTL

\* uvc_close waits twice: for the events lock, whose holder is then the event thread and only waits
\* itself when a listener calls the camera, and for that thread, which is told to end and handles no
\* event any more.
CloseIsOwed ==
  /\ api \in {"libusb_close", "join"} => kill
  /\ delivery = "blocked" => ListenerCalls
  /\ At("libusb_close") /\ delivery # "none" => by = "event" /\ ev = "poll"
  /\ At("join") => delivery = "none" /\ status_xfer = "none" /\ ev \in {"test", "poll", "dead"}

\* In every opening of every camera uvc_close waits only for what can still come: the event thread
\* was told to end and has not missed it, the events lock is that thread's own, and what is being
\* delivered can be blocked only by a listener that calls the camera.
THEOREM CloseWaitsForWhatComes == DeviceAssumption /\ Spec => []CloseIsOwed
<1> SUFFICES ASSUME DeviceAssumption PROVE Spec => []CloseIsOwed
  OBVIOUS
<1> DEFINE Told == /\ api \in {"libusb_close", "join"} => kill
                   /\ delivery = "blocked" => ListenerCalls
<1>1. Init => DeviceInv /\ Told
  BY InitInv DEF Init
<1>2. DeviceInv /\ Told /\ [Next]_vars => DeviceInv' /\ Told'
  <2> SUFFICES ASSUME DeviceInv, Told, [Next]_vars PROVE Told'
    BY NextInv
  <2>1. api' \in {"libusb_close", "join"} => kill'
    BY DEF Next, ClientStep, EventStep, DeliveryStep, vars, Create, Open, ConnectRefused, ConnectFails,
       Connect, UvcOpenFails, UvcOpen, NewCallback, Control, ControlDone, SetButtonCallback, Close,
       Release, UvcClose, LibusbClose, Join, Unref, CloseBlock, Destroy, Test, Return, Take, Process,
       Enter, CallCamera, Notified, Resubmit, OpenFile, OtherRelease
  <2>2. delivery' = "blocked" => ListenerCalls
    BY DEF Next, ClientStep, EventStep, DeliveryStep, vars, Create, Open, ConnectRefused, ConnectFails,
       Connect, UvcOpenFails, UvcOpen, NewCallback, Control, ControlDone, SetButtonCallback, Close,
       Release, UvcClose, LibusbClose, Join, Unref, CloseBlock, Destroy, Test, Return, Take, Process,
       Enter, CallCamera, Notified, Resubmit, OpenFile, OtherRelease
  <2> QED BY <2>1, <2>2
<1>3. DeviceInv /\ Told => CloseIsOwed
  BY DEF DeviceInv, TypeOK, DataOK, HandleInv, EventInv, CloseIsOwed
<1> QED BY <1>1, <1>2, <1>3, PTL DEF Spec
=============================================================================
