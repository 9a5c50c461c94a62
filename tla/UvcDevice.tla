----------------------------- MODULE UvcDevice -----------------------------
(***************************************************************************)
(* A camera from UVCCamera.open to UVCCamera.destroy: the Java object, the *)
(* native UVCCamera, libuvc's device, handle and event thread, and the     *)
(* button or status callback (both are written alike; one is modelled).    *)
(*                                                                         *)
(* api is the client's thread, which has the monitor of the Java object    *)
(* unless it is "idle"; ev is libuvc's event thread.  Whoever handles an   *)
(* event, the event thread or a client that waits for a control transfer,  *)
(* has libusb's events lock while delivery is not "none".                  *)
(*                                                                         *)
(* The process's file descriptors are shared with the rest of the process  *)
(* and with other cameras, which OpenFile and OtherRelease stand for.      *)
(***************************************************************************)
EXTENDS Integers

CONSTANTS
  MaxFd,         \* bound on the file descriptors
  MaxCalls,      \* bound on the calls of the constructor, open, close and destroy
  ListenerCalls  \* whether a listener may call a synchronized method of the camera

ASSUME DeviceAssumption ==
  /\ MaxFd \in Nat /\ MaxCalls \in Nat /\ ListenerCalls \in BOOLEAN

Fds    == 0..MaxFd
NoFd   == -1
Owners == {"free", "process", "java", "camera"}

VARIABLES
  owner,            \* whose each file descriptor is
  mNativePtr,       \* is not 0
  mCtrlBlock,       \* the descriptor of the cloned block's connection
  mUsbFs,           \* is not NULL
  mFd, fd,          \* the member, and the local of connect
  mContext,         \* is not NULL
  kill,             \* mContext->kill_handler_thread
  mDevice,          \* is not NULL
  ref,              \* mDevice->ref; 0 when there is no device
  mDeviceHandle,    \* "closed" is between libusb_close and free
  mButtonCallback,  \* is not NULL
  button_cb,        \* the handle's, which points to the callback object
  listener,         \* mButtonCallbackObj is not NULL
  status_xfer,
  delivery, by,     \* what the holder of the events lock does, and who it is
  ev, api,
  destroying,       \* close was called by destroy
  calls

java     == <<mNativePtr, mCtrlBlock, destroying, calls>>
native   == <<mUsbFs, mFd, fd, mContext, mDevice>>
device   == <<ref, mDeviceHandle, kill>>
callback == <<mButtonCallback, button_cb, listener>>
events   == <<status_xfer, delivery, by, ev>>
vars     == <<owner, java, native, device, callback, events, api>>

\* The descriptor that dup and open return, if there is one.
Lowest(f) == owner[f] = "free" /\ \A g \in 0..f-1 : owner[g] # "free"

At(label)   == api = label
GoTo(label) == api' = label
Call ==
  /\ At("idle") /\ calls < MaxCalls
  /\ calls' = calls + 1

Init ==
  /\ owner = [f \in Fds |-> IF f = 0 THEN "process" ELSE "free"]
  /\ mNativePtr      = TRUE
  /\ mCtrlBlock      = NoFd
  /\ mUsbFs          = FALSE
  /\ mFd             = 0
  /\ fd              = NoFd
  /\ mContext        = FALSE
  /\ kill            = FALSE
  /\ mDevice         = FALSE
  /\ ref             = 0
  /\ mDeviceHandle   = "none"
  /\ mButtonCallback = FALSE
  /\ button_cb       = FALSE
  /\ listener        = FALSE
  /\ status_xfer     = "none"
  /\ delivery        = "none"
  /\ by              = "event"
  /\ ev              = "none"
  /\ api             = "idle"
  /\ destroying      = FALSE
  /\ calls           = 0

-----------------------------------------------------------------------------
(* UVCCamera.open *)

\* A new UVCCamera. The one before was destroyed, or did not open and is forgotten.
Create ==
  /\ Call /\ mDeviceHandle = "none"
  /\ mNativePtr' = TRUE
  /\ mCtrlBlock' = NoFd
  /\ mUsbFs' = FALSE
  /\ mContext' = FALSE
  /\ kill' = FALSE
  /\ UNCHANGED <<owner, destroying, mFd, fd, mDevice, ref, mDeviceHandle, callback, events, api>>

\* The clone opens a connection of its own; a block from before is forgotten.
Open ==
  /\ Call
  /\ \E f \in Fds :
       /\ Lowest(f)
       /\ owner' = [owner EXCEPT ![f] = "java"]
       /\ mCtrlBlock' = f
  /\ GoTo("connect")
  /\ UNCHANGED <<mNativePtr, destroying, native, device, callback, events>>

\* nativeConnect does nothing without a camera or for descriptor 0, and connect nothing
\* when a handle is open.
MayConnect == mNativePtr /\ mCtrlBlock > 0 /\ mDeviceHandle = "none"

ConnectRefused ==
  /\ At("connect") /\ ~MayConnect
  /\ GoTo("idle")
  /\ UNCHANGED <<owner, java, native, device, callback, events>>

\* uvc_init2 fails, or no device is found, in which case the duplicate is closed at once.
ConnectFails ==
  /\ At("connect") /\ MayConnect
  /\ mUsbFs' = TRUE
  /\ \/ ~mContext /\ UNCHANGED <<mContext, mDevice>>
     \/ /\ mContext' = TRUE
        /\ mDevice' = FALSE
  /\ GoTo("idle")
  /\ UNCHANGED <<owner, java, mFd, fd, device, callback, events>>

Connect ==
  /\ At("connect") /\ MayConnect
  /\ mUsbFs' = TRUE
  /\ mContext' = TRUE
  /\ \E f \in Fds :
       /\ Lowest(f)
       /\ owner' = [owner EXCEPT ![f] = "camera"]
       /\ fd' = f
  /\ mDevice' = TRUE
  /\ ref' = 1
  /\ GoTo("uvc_open")
  /\ UNCHANGED <<java, mFd, mDeviceHandle, kill, callback, events>>

(* Mutant: connect leaves its duplicate open. *)
UvcOpenFailsLeaky ==
  /\ At("uvc_open")
  /\ ref' = ref - 1
  /\ mDevice' = FALSE
  /\ fd' = NoFd
  /\ GoTo("idle")
  /\ UNCHANGED <<owner, java, mUsbFs, mFd, mContext, mDeviceHandle, kill, callback, events>>

\* libusb_open, the descriptors, the interface or the status transfer fail: uvc_open
\* drops the reference it took, connect the one of uvc_get_device_with_fd.
UvcOpenFails ==
  /\ At("uvc_open")
  /\ ref' = ref - 1
  /\ mDevice' = FALSE
  /\ owner' = [owner EXCEPT ![fd] = "free"]
  /\ fd' = NoFd
  /\ GoTo("idle")
  /\ UNCHANGED <<java, mUsbFs, mFd, mContext, mDeviceHandle, kill, callback, events>>

(* Mutant: libusb takes descriptor 0 for one. *)
UvcOpenAnyFd ==
  /\ At("uvc_open")
  /\ ref' = ref + 1
  /\ mDeviceHandle' = "open"
  /\ \E x \in {"none", "submitted"} : status_xfer' = x
  /\ ev' = "test"
  /\ GoTo("opened")
  /\ UNCHANGED <<owner, java, native, kill, callback, delivery, by>>

(* Mutant: the thread is started only when there is a status transfer. *)
UvcOpenQuiet ==
  /\ At("uvc_open") /\ fd > 0
  /\ ref' = ref + 1
  /\ mDeviceHandle' = "open"
  /\ \E x \in {"none", "submitted"} : status_xfer' = x
  /\ ev' = IF status_xfer' = "none" THEN ev ELSE "test"
  /\ GoTo("opened")
  /\ UNCHANGED <<owner, java, native, kill, callback, delivery, by>>

\* libusb takes descriptor 0 for none. The context has no other device, so its event
\* thread is started.
UvcOpen ==
  /\ At("uvc_open") /\ fd > 0
  /\ ref' = ref + 1
  /\ mDeviceHandle' = "open"
  /\ \E x \in {"none", "submitted"} : status_xfer' = x
  /\ ev' = "test"
  /\ GoTo("opened")
  /\ UNCHANGED <<owner, java, native, kill, callback, delivery, by>>

\* The rest of connect; then open negotiates the default size with the camera.
NewCallback ==
  /\ At("opened")
  /\ mFd' = fd
  /\ fd' = NoFd
  /\ mButtonCallback' = TRUE
  /\ button_cb' = TRUE
  /\ listener' = FALSE
  /\ GoTo("control")
  /\ UNCHANGED <<owner, java, mUsbFs, mContext, mDevice, device, events>>

-----------------------------------------------------------------------------
(* Calls while the camera is open *)

\* A control transfer: the caller handles events until it is answered.
Control ==
  /\ At("idle") /\ mDeviceHandle = "open"
  /\ GoTo("control")
  /\ UNCHANGED <<owner, java, native, device, callback, events>>

ControlDone ==
  /\ At("control") /\ ~(delivery # "none" /\ by = "api")
  /\ GoTo("idle")
  /\ UNCHANGED <<owner, java, native, device, callback, events>>

(* Mutant: button_mutex is not taken. *)
SetButtonCallbackUnlocked ==
  /\ mNativePtr /\ mButtonCallback
  /\ \E obj \in BOOLEAN : listener' = obj
  /\ UNCHANGED <<owner, java, native, device, mButtonCallback, button_cb, events, api>>

\* setCallback, under button_mutex, by a thread that need not have the monitor
SetButtonCallback ==
  /\ mNativePtr /\ mButtonCallback /\ delivery \notin {"notify", "blocked"}
  /\ \E obj \in BOOLEAN : listener' = obj
  /\ UNCHANGED <<owner, java, native, device, mButtonCallback, button_cb, events, api>>

-----------------------------------------------------------------------------
(* UVCCamera.close and destroy.  stopPreview is in UvcPreview. *)

Close ==
  /\ Call
  /\ \E d \in BOOLEAN : destroying' = d
  /\ GoTo(IF mNativePtr THEN "release" ELSE "block")
  /\ UNCHANGED <<owner, mNativePtr, mCtrlBlock, native, device, callback, events>>

\* The callback objects are deleted; the handle still points to them.
Release ==
  /\ At("release")
  /\ mButtonCallback' = FALSE
  /\ GoTo(IF mDeviceHandle = "open" THEN "uvc_close" ELSE "unref")
  /\ UNCHANGED <<owner, java, native, device, button_cb, listener, events>>

(* Mutant: the event thread is not told to end. *)
UvcCloseQuiet ==
  /\ At("uvc_close")
  /\ GoTo("libusb_close")
  /\ UNCHANGED <<owner, java, native, device, callback, events>>

UvcClose ==
  /\ At("uvc_close")
  /\ kill' = TRUE
  /\ GoTo("libusb_close")
  /\ UNCHANGED <<owner, java, native, ref, mDeviceHandle, callback, events>>

\* Takes the events lock and forgets the transfers in flight.
LibusbClose ==
  /\ At("libusb_close") /\ delivery = "none"
  /\ mDeviceHandle' = "closed"
  /\ status_xfer' = "none"
  /\ GoTo("join")
  /\ UNCHANGED <<owner, java, native, ref, kill, callback, delivery, by, ev>>

\* pthread_join, uvc_unref_device, uvc_free_devh
Join ==
  /\ At("join") /\ ev = "dead"
  /\ ev' = "none"
  /\ mDeviceHandle' = "none"
  /\ button_cb' = FALSE
  /\ ref' = ref - 1
  /\ GoTo("unref")
  /\ UNCHANGED <<owner, java, native, kill, mButtonCallback, listener, status_xfer, delivery, by>>

(* Mutant: the device is dropped although connect has dropped it. *)
UnrefAgain ==
  /\ At("unref")
  /\ ref' = IF mUsbFs THEN ref - 1 ELSE ref
  /\ mDevice' = FALSE
  /\ owner' = IF mUsbFs THEN [owner EXCEPT ![mFd] = "free"] ELSE owner
  /\ mFd' = IF mUsbFs THEN 0 ELSE mFd
  /\ mUsbFs' = FALSE
  /\ GoTo("block")
  /\ UNCHANGED <<java, fd, mContext, mDeviceHandle, kill, callback, events>>

\* The rest of release: mFd is closed whenever connect has come as far as mUsbFs.
Unref ==
  /\ At("unref")
  /\ ref' = IF mDevice THEN ref - 1 ELSE ref
  /\ mDevice' = FALSE
  /\ owner' = IF mUsbFs THEN [owner EXCEPT ![mFd] = "free"] ELSE owner
  /\ mFd' = IF mUsbFs THEN 0 ELSE mFd
  /\ mUsbFs' = FALSE
  /\ GoTo("block")
  /\ UNCHANGED <<java, fd, mContext, mDeviceHandle, kill, callback, events>>

CloseBlock ==
  /\ At("block")
  /\ owner' = IF mCtrlBlock = NoFd THEN owner ELSE [owner EXCEPT ![mCtrlBlock] = "free"]
  /\ mCtrlBlock' = NoFd
  /\ GoTo(IF destroying /\ mNativePtr THEN "destroy" ELSE "idle")
  /\ UNCHANGED <<mNativePtr, destroying, calls, native, device, callback, events>>

\* nativeDestroy: the destructor's release finds nothing left, uvc_exit frees the context.
Destroy ==
  /\ At("destroy")
  /\ mContext' = FALSE
  /\ kill' = FALSE
  /\ mNativePtr' = FALSE
  /\ GoTo("idle")
  /\ UNCHANGED <<owner, mCtrlBlock, destroying, calls, mUsbFs, mFd, fd, mDevice, ref,
                 mDeviceHandle, callback, events>>

-----------------------------------------------------------------------------
(* Events.  _uvc_handle_events and, in a control transfer, the caller *)

Test ==
  /\ ev = "test"
  /\ ev' = IF kill THEN "dead" ELSE "poll"
  /\ UNCHANGED <<owner, java, native, device, callback, status_xfer, delivery, by, api>>

\* libusb_handle_events returns: it was interrupted, timed out or handled an event.
Return ==
  /\ ev = "poll" /\ ~(delivery # "none" /\ by = "event")
  /\ ev' = "test"
  /\ UNCHANGED <<owner, java, native, device, callback, status_xfer, delivery, by, api>>

\* The status transfer ends and its callback is called.
Take(t) ==
  /\ IF t = "event" THEN ev = "poll" ELSE At("control")
  /\ status_xfer = "submitted" /\ delivery = "none"
  /\ status_xfer' = "handled"
  /\ delivery' = "status"
  /\ by' = t
  /\ UNCHANGED <<owner, java, native, device, callback, ev, api>>

\* ERROR, CANCELLED or NO_DEVICE ends the transfer; everything else resubmits it,
\* and a message is delivered first if there is a callback.
Process ==
  /\ delivery = "status"
  /\ \/ /\ status_xfer' = "ended"
        /\ delivery' = "none"
     \/ /\ delivery' = "resubmit"
        /\ UNCHANGED status_xfer
     \/ /\ button_cb
        /\ delivery' = "enter"
        /\ UNCHANGED status_xfer
  /\ UNCHANGED <<owner, java, native, device, callback, by, ev, api>>

\* The callback object, which may have been deleted, calls its listener, if it has one.
Enter ==
  /\ delivery = "enter"
  /\ \/ /\ listener
        /\ delivery' = "notify"
     \/ /\ ~listener \/ ~mButtonCallback
        /\ delivery' = "resubmit"
  /\ UNCHANGED <<owner, java, native, device, callback, status_xfer, by, ev, api>>

\* The listener calls a synchronized method of the camera, and waits for the monitor.
CallCamera ==
  /\ ListenerCalls /\ delivery = "notify" /\ by = "event" /\ ~At("idle")
  /\ delivery' = "blocked"
  /\ UNCHANGED <<owner, java, native, device, callback, status_xfer, by, ev, api>>

Notified ==
  /\ delivery = "notify" \/ (delivery = "blocked" /\ At("idle"))
  /\ delivery' = "resubmit"
  /\ UNCHANGED <<owner, java, native, device, callback, status_xfer, by, ev, api>>

Resubmit ==
  /\ delivery = "resubmit"
  /\ \E x \in {"submitted", "ended"} : status_xfer' = x
  /\ delivery' = "none"
  /\ UNCHANGED <<owner, java, native, device, callback, by, ev, api>>

\* Some other part of the process opens a file and gets descriptor 0.
OpenFile ==
  /\ owner[0] = "free"
  /\ owner' = [owner EXCEPT ![0] = "process"]
  /\ UNCHANGED <<java, native, device, callback, events, api>>

\* Another camera, which did not open and is closed, closes its mFd, which is 0.
OtherRelease ==
  /\ owner' = [owner EXCEPT ![0] = "free"]
  /\ UNCHANGED <<java, native, device, callback, events, api>>

-----------------------------------------------------------------------------
ClientStep ==
  \/ ConnectRefused \/ ConnectFails \/ Connect \/ UvcOpenFails \/ UvcOpen \/ NewCallback
  \/ ControlDone
  \/ Release \/ UvcClose \/ LibusbClose \/ Join \/ Unref \/ CloseBlock \/ Destroy

EventStep    == Test \/ Return
DeliveryStep == Process \/ Enter \/ Notified \/ Resubmit

Next ==
  \/ Create \/ Open \/ Close \/ Control \/ SetButtonCallback
  \/ ClientStep \/ EventStep \/ DeliveryStep \/ CallCamera
  \/ Take("event") \/ Take("api")
  \/ OpenFile \/ OtherRelease

Spec == Init /\ [][Next]_vars

\* Threads run, and a control transfer is answered or times out. libusb_close gets the
\* events lock again and again: it interrupts whoever polls.
LiveSpec == Spec /\ SF_vars(ClientStep) /\ WF_vars(EventStep) /\ WF_vars(DeliveryStep)

-----------------------------------------------------------------------------
(* Properties *)

FlagsOK ==
  /\ mNativePtr \in BOOLEAN /\ mUsbFs \in BOOLEAN
  /\ mContext \in BOOLEAN /\ kill \in BOOLEAN
  /\ mDevice \in BOOLEAN /\ mButtonCallback \in BOOLEAN
  /\ button_cb \in BOOLEAN /\ listener \in BOOLEAN
  /\ destroying \in BOOLEAN

DataOK ==
  /\ owner \in [Fds -> Owners]
  /\ mCtrlBlock \in Fds \cup {NoFd}
  /\ mFd \in Fds /\ fd \in Fds \cup {NoFd}
  /\ ref \in 0..2
  /\ mDeviceHandle \in {"none", "open", "closed"}
  /\ status_xfer \in {"none", "submitted", "handled", "ended"}
  /\ delivery \in {"none", "status", "enter", "notify", "blocked", "resubmit"}
  /\ by \in {"event", "api"}
  /\ ev \in {"none", "test", "poll", "dead"}
  /\ api \in {"idle", "connect", "uvc_open", "opened", "control", "release", "uvc_close",
       "libusb_close", "join", "unref", "block", "destroy"}
  /\ calls \in 0..MaxCalls

\* Every variable of the camera has a value of its kind: the device is referenced twice at
\* most, and descriptors are those of the process.
TypeOK == FlagsOK /\ DataOK

\* A camera that is not open, because it was closed or because opening it failed at any
\* point of UVCCamera::connect or uvc_open, has left nothing behind: no reference to the
\* device, no duplicate of the descriptor, no transfer, no event thread.
ClosedIsClean ==
  At("idle") /\ mDeviceHandle = "none" =>
    /\ ref = 0 /\ ~mDevice
    /\ \A f \in Fds : owner[f] # "camera"
    /\ status_xfer = "none" /\ ev = "none" /\ delivery = "none"
    /\ ~button_cb /\ ~mButtonCallback

\* An open camera has the descriptor libusb uses, whatever other cameras and failed
\* attempts close: UVCCamera::release closes mFd, which may be 0 and not its own.
OpenKeepsDescriptor ==
  At("idle") /\ mDeviceHandle = "open" => owner[mFd] = "camera"

\* libuvc calls a callback object that UVCCamera::release has deleted only until
\* uvc_close has closed the device, and never one of a handle that is gone; and once
\* setButtonCallback(null) has returned, the listener is not running and will not be.
CallbacksOutliveTheirCalls ==
  /\ delivery \in {"enter", "notify", "blocked"} /\ ~mButtonCallback =>
       api \in {"uvc_close", "libusb_close"} /\ mDeviceHandle = "open"
  /\ delivery \in {"notify", "blocked"} => listener

\* An open camera has its event thread, unless its context was used before: uvc_close
\* sets kill_handler_thread and nothing resets it.
FirstOpenHasEvents ==
  mDeviceHandle = "open" /\ ~kill => ev \in {"test", "poll"}

\* close returns: libusb_close gets the events lock and the event thread ends. A listener
\* that calls the camera meanwhile waits for close, and close for it.
CloseReturns ==
  []<>(delivery # "blocked") => (At("release") ~> At("idle"))

=============================================================================
