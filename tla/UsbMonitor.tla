----------------------------- MODULE UsbMonitor -----------------------------
(***************************************************************************)
(* USBMonitor with a client that does what CameraActivity does.            *)
(*                                                                         *)
(* Threads.  "main" is the UI thread: it receives the broadcasts and makes *)
(* the calls of the client.  "async" is mAsyncHandler's: it opens devices, *)
(* runs the periodic check and calls the listener.  "camera" is the        *)
(* handler's CameraThread, which clones the block it is given and closes   *)
(* the clone.                                                              *)
(*                                                                         *)
(* A device that is plugged in again is another device: its name has       *)
(* changed, and UsbDevices are compared by their names.                    *)
(*                                                                         *)
(* An exception ends the process.  The model lets the other threads go on, *)
(* which adds behaviours and takes none away.                              *)
(***************************************************************************)
EXTENDS Integers, Sequences, FiniteSets

CONSTANTS
  Devices, NoDevice,
  Cameras,            \* the devices that pass the client's filter
  Calls,              \* the client operations that are called at all
  MaxCalls,           \* bound on the calls of register, unregister and requestPermission
  MaxOrders,          \* bound on the messages of the camera thread for which close is called
  MaxBlocks           \* bound on the number of UsbControlBlocks

ASSUME MonitorAssumption ==
  /\ IsFiniteSet(Devices) /\ NoDevice \notin Devices /\ Cameras \subseteq Devices
  /\ MaxCalls \in Nat /\ MaxOrders \in Nat /\ MaxBlocks \in Nat

Threads == {"main", "async", "camera"}
Blocks  == 1..MaxBlocks
None    == 0   \* null: no block

VARIABLES
  plugged, unplugged,     \* devices that are plugged in, and that were
  permitted,              \* devices the user gave permission for
  asking,                 \* devices the user is asked about
  broadcasts,             \* sent to mUsbReceiver and not received yet
  registered,             \* mPermissionIntent is not null
  destroyed,
  tasks,                  \* mAsyncHandler's queue, but for ...
  checks,                 \* ... the instances of mDeviceCheckRunnable in it
  mDeviceCounts, mHasPermissions,
  mCtrlBlocks,
  block,                  \* the UsbControlBlocks: [device, clone, connection]
  blocks,                 \* UsbControlBlocks created so far
  pc, blk,                \* where each thread is, and the block it has in a local
  list, grown,            \* devices and "m > hasPermissionCounts" in the check
  keys,                   \* mCtrlBlocks.keySet() in destroy
  camera,                 \* the clone the open camera uses
  orders,                 \* messages for the camera thread
  closes,                 \* runnables queued by onDisconnect
  asked,                  \* devices for which the client waits for onConnect or onCancel
  calls

usb      == <<plugged, unplugged, permitted, asking>>
monitor  == <<registered, destroyed>>
counts   == <<mDeviceCounts, mHasPermissions>>
store    == <<mCtrlBlocks, block, blocks>>
locals   == <<blk, list, grown, keys>>
activity == <<camera, orders, closes, asked>>
vars == <<usb, broadcasts, monitor, tasks, checks, counts, store, pc, locals, activity, calls>>

Goto(t, label) == pc' = [pc EXCEPT ![t] = label]
Step(t, from, to) == pc[t] = from /\ Goto(t, to)

\* Thread t leaves the method that has its local.
Leave(t) == blk' = [blk EXCEPT ![t] = None]

Task(what, d) == [what |-> what, device |-> d]

\* mAsyncHandler.post, once its looper has quit without effect.
Posted(q, what, d) == IF pc["main"] = "gone" THEN q ELSE Append(q, Task(what, d))

Init ==
  /\ plugged = {} /\ unplugged = {} /\ permitted = {} /\ asking = {}
  /\ broadcasts = <<>>
  /\ registered = FALSE /\ destroyed = FALSE
  /\ tasks = <<>> /\ checks = 0
  /\ mDeviceCounts = 0 /\ mHasPermissions = {}
  /\ mCtrlBlocks = [d \in Devices |-> None]
  /\ block = [b \in Blocks |-> [device |-> NoDevice, clone |-> FALSE, connection |-> "none"]]
  /\ blocks = 0
  /\ pc = [t \in Threads |-> "idle"]
  /\ blk = [t \in Threads |-> None]
  /\ list = {} /\ grown = FALSE /\ keys = {}
  /\ camera = None /\ orders = <<>> /\ closes = 0 /\ asked = {}
  /\ calls = 0

-----------------------------------------------------------------------------
(* Android's USB service and the user. *)

Sent(what, d) == broadcasts' = IF registered THEN Append(broadcasts, Task(what, d)) ELSE broadcasts

EnvironmentUnchanged == UNCHANGED <<monitor, tasks, checks, counts, store, pc, locals, activity, calls>>

Plug(d) ==
  /\ d \notin plugged \cup unplugged
  /\ plugged' = plugged \cup {d}
  /\ EnvironmentUnchanged /\ UNCHANGED <<unplugged, permitted, asking, broadcasts>>

Unplug(d) ==
  /\ d \in plugged
  /\ plugged' = plugged \ {d} /\ unplugged' = unplugged \cup {d}
  /\ permitted' = permitted \ {d}
  /\ Sent("detached", d)
  /\ EnvironmentUnchanged /\ UNCHANGED asking

\* The user answers, or the device is gone.
Answer(d, granted) ==
  /\ d \in asking /\ (granted => d \in plugged)
  /\ asking' = asking \ {d}
  /\ permitted' = IF granted THEN permitted \cup {d} ELSE permitted
  /\ Sent(IF granted THEN "granted" ELSE "denied", d)
  /\ EnvironmentUnchanged /\ UNCHANGED <<plugged, unplugged>>

-----------------------------------------------------------------------------
(* The calls of the client, on the UI thread. *)

Calling(name) == pc["main"] = "idle" /\ name \in Calls

Call(name) == Calling(name) /\ calls < MaxCalls /\ calls' = calls + 1

CallUnchanged == UNCHANGED <<plugged, unplugged, permitted, store, blk, list, grown, camera, orders, closes>>

Register ==
  /\ Call("register")
  /\ registered' = TRUE
  /\ IF registered THEN UNCHANGED <<checks, mDeviceCounts>> ELSE checks' = checks + 1 /\ mDeviceCounts' = 0
  /\ CallUnchanged /\ UNCHANGED <<asking, asked, broadcasts, destroyed, tasks, mHasPermissions, pc, keys>>

\* A check that is running puts itself back into the queue.  The client does
\* not wait for answers it would not hear of any more.
ForgetEvents ==
  /\ registered' = FALSE /\ mDeviceCounts' = 0 /\ checks' = 0 /\ asked' = {}
  /\ broadcasts' = IF registered THEN <<>> ELSE broadcasts

Unregister ==
  /\ Call("unregister") /\ ForgetEvents
  /\ CallUnchanged /\ UNCHANGED <<asking, destroyed, tasks, mHasPermissions, pc, keys>>

(* Mutant: only the permission is forgotten. *)
ProcessCancelQuietly(d) == mHasPermissions' = mHasPermissions \ {d} /\ UNCHANGED tasks

\* processConnect and processCancel.
ProcessConnect(d) == mHasPermissions' = mHasPermissions \cup {d} /\ tasks' = Posted(tasks, "connect", d)
ProcessCancel(d) == mHasPermissions' = mHasPermissions \ {d} /\ tasks' = Posted(tasks, "cancel", d)

\* Without permission the user is asked, which may fail, too.
RequestPermission(d) ==
  /\ Call("requestPermission") /\ d \in plugged \cap Cameras
  /\ asked' = asked \cup {d}
  /\ \/ registered /\ d \in permitted /\ ProcessConnect(d) /\ UNCHANGED asking
     \/ registered /\ d \notin permitted /\ asking' = asking \cup {d} /\ UNCHANGED <<tasks, mHasPermissions>>
     \/ ~(registered /\ d \in permitted) /\ ProcessCancel(d) /\ UNCHANGED asking
  /\ CallUnchanged /\ UNCHANGED <<broadcasts, monitor, checks, mDeviceCounts, pc, keys>>

CloseCamera ==
  /\ Calling("close") /\ camera # None /\ Len(orders) < MaxOrders
  /\ orders' = Append(orders, Task("close", None))
  /\ UNCHANGED <<usb, broadcasts, monitor, tasks, checks, counts, store, pc, locals, camera, closes, asked, calls>>

Destroy ==
  /\ Calling("destroy") /\ ForgetEvents
  /\ destroyed' = TRUE
  /\ keys' = {d \in Devices : mCtrlBlocks[d] # None}
  /\ Goto("main", "destroy")
  /\ CallUnchanged /\ UNCHANGED <<asking, tasks, mHasPermissions, calls>>

-----------------------------------------------------------------------------
(* UsbControlBlock. *)

\* The connection is null if the device is not there any more.
Connected(d) == d \in plugged /\ d \in permitted

Create(d, clone) ==
  /\ blocks < MaxBlocks /\ blocks' = blocks + 1
  /\ block' = [block EXCEPT ![blocks'] =
       [device |-> d, clone |-> clone, connection |-> IF Connected(d) THEN "open" ELSE "null"]]

BlockUnchanged == UNCHANGED <<usb, broadcasts, monitor, tasks, checks, counts, blocks, list, grown, keys, camera, orders, asked, calls>>

Closed(t) == IF t = "camera" THEN "closed" ELSE IF destroyed THEN "destroy" ELSE "detached"

\* close is synchronized.
CloseConnection(t) ==
  /\ Step(t, "close", IF block[blk[t]].connection = "open" THEN "disconnect" ELSE Closed(t))
  /\ block' = IF block[blk[t]].connection = "open" THEN [block EXCEPT ![blk[t]].connection = "closed"] ELSE block
  /\ BlockUnchanged /\ UNCHANGED <<mCtrlBlocks, blk, closes>>

\* onDisconnect: CameraActivity queues a close unless its camera is this
\* device's, or its onDestroy has forgotten the handler.
Disconnect(t) ==
  /\ Step(t, "disconnect", "forget")
  /\ closes' = IF destroyed \/ (camera # None /\ block[camera].device = block[blk[t]].device)
               THEN closes ELSE closes + 1
  /\ BlockUnchanged /\ UNCHANGED <<mCtrlBlocks, block, blk>>

Forget(t) ==
  /\ Step(t, "forget", Closed(t))
  /\ mCtrlBlocks' = [mCtrlBlocks EXCEPT ![block[blk[t]].device] = None]
  /\ BlockUnchanged /\ UNCHANGED <<block, blk, closes>>

\* getDevice has nothing to return once nobody holds the UsbDevice, not even the map, and a
\* ConcurrentHashMap takes no null: close throws, which only destroy catches.
ForgetThrows(t) ==
  /\ Step(t, "forget", IF t = "main" /\ destroyed THEN "caught" ELSE "crashed")
  /\ mCtrlBlocks[block[blk[t]].device] = None
  /\ BlockUnchanged /\ UNCHANGED <<mCtrlBlocks, block, blk, closes>>

-----------------------------------------------------------------------------
(* The UI thread receives a broadcast, and destroys the monitor. *)

MainUnchanged == UNCHANGED <<usb, monitor, checks, block, blocks, list, grown, activity, calls>>

ReceiveAnswer ==
  /\ pc["main"] = "idle" /\ broadcasts # <<>>
  /\ broadcasts' = Tail(broadcasts)
  /\ LET m == Head(broadcasts) IN
     \/ m.what = "granted" /\ ProcessConnect(m.device)
     \/ m.what = "denied" /\ ProcessCancel(m.device)
  /\ MainUnchanged /\ UNCHANGED <<mDeviceCounts, mCtrlBlocks, pc, blk, keys>>

(* Mutant: the block is read and stays in the map. *)
ReceiveDetachedGet ==
  /\ pc["main"] = "idle" /\ broadcasts # <<>> /\ Head(broadcasts).what = "detached"
  /\ LET d == Head(broadcasts).device IN
     /\ Goto("main", IF mCtrlBlocks[d] # None THEN "close" ELSE "detached")
     /\ blk' = [blk EXCEPT !["main"] = mCtrlBlocks[d]]
  /\ MainUnchanged /\ UNCHANGED <<broadcasts, tasks, counts, keys, mCtrlBlocks>>

ReceiveDetached ==
  /\ pc["main"] = "idle" /\ broadcasts # <<>> /\ Head(broadcasts).what = "detached"
  /\ LET d == Head(broadcasts).device IN
     /\ Goto("main", IF mCtrlBlocks[d] # None THEN "close" ELSE "detached")
     /\ blk' = [blk EXCEPT !["main"] = mCtrlBlocks[d]]
     /\ mCtrlBlocks' = [mCtrlBlocks EXCEPT ![d] = None]
  /\ MainUnchanged /\ UNCHANGED <<broadcasts, tasks, counts, keys>>

\* The end of onReceive, with processDettach.
ReceivedDetached ==
  /\ Step("main", "detached", "idle") /\ Leave("main")
  /\ mDeviceCounts' = 0
  /\ broadcasts' = Tail(broadcasts)
  /\ tasks' = Posted(tasks, "detach", Head(broadcasts).device)
  /\ MainUnchanged /\ UNCHANGED <<mHasPermissions, mCtrlBlocks, keys>>

DestroyBlock(d) ==
  /\ pc["main"] = "destroy" /\ mCtrlBlocks[d] # None
  /\ Goto("main", "close")
  /\ blk' = [blk EXCEPT !["main"] = mCtrlBlocks[d]]
  /\ mCtrlBlocks' = [mCtrlBlocks EXCEPT ![d] = None]
  /\ keys' = keys \ {d}
  /\ MainUnchanged /\ UNCHANGED <<broadcasts, tasks, counts>>

\* A block put meanwhile may be missed by the iteration and is then dropped, as are those
\* that an exception keeps it from.
DestroyEnd ==
  /\ \/ Step("main", "destroy", "gone") /\ \A d \in keys : mCtrlBlocks[d] = None
     \/ Step("main", "caught", "gone")
  /\ Leave("main")
  /\ mCtrlBlocks' = [d \in Devices |-> None]
  /\ tasks' = <<>> /\ keys' = {}
  /\ MainUnchanged /\ UNCHANGED <<broadcasts, counts>>

-----------------------------------------------------------------------------
(* mAsyncHandler's thread. *)

AsyncUnchanged == UNCHANGED <<usb, broadcasts, monitor, keys, camera, closes, calls>>

NextTask(what) == pc["async"] = "idle" /\ tasks # <<>> /\ Head(tasks).what = what /\ tasks' = Tail(tasks)

\* onAttach, onDettach and onCancel.
RunTask ==
  /\ \/ \E what \in {"attach", "detach"} : NextTask(what) /\ UNCHANGED asked
     \/ NextTask("cancel") /\ asked' = asked \ {Head(tasks).device}
  /\ AsyncUnchanged /\ UNCHANGED <<checks, counts, store, pc, blk, list, grown, orders>>

(* Mutant: the map is not asked. *)
ConnectAnew ==
  /\ NextTask("connect")
  /\ Create(Head(tasks).device, FALSE)
  /\ blk' = [blk EXCEPT !["async"] = blocks']
  /\ Goto("async", "put")
  /\ AsyncUnchanged /\ UNCHANGED <<checks, counts, mCtrlBlocks, list, grown, orders, asked>>

\* processConnect's runnable: get the device's block or create one ...
ConnectGet ==
  /\ NextTask("connect")
  /\ LET d == Head(tasks).device IN
     IF mCtrlBlocks[d] = None
     THEN /\ Create(d, FALSE)
          /\ blk' = [blk EXCEPT !["async"] = blocks']
          /\ Goto("async", "put")
     ELSE /\ blk' = [blk EXCEPT !["async"] = mCtrlBlocks[d]]
          /\ Goto("async", "onConnect")
          /\ UNCHANGED <<block, blocks>>
  /\ AsyncUnchanged /\ UNCHANGED <<checks, counts, mCtrlBlocks, list, grown, orders, asked>>

\* ... which throws when updateDeviceInfo cannot open the permitted device once more ...
ConnectThrows ==
  /\ NextTask("connect")
  /\ Head(tasks).device \in permitted /\ mCtrlBlocks[Head(tasks).device] = None
  /\ Goto("async", "crashed")
  /\ AsyncUnchanged
  /\ UNCHANGED <<checks, counts, store, blk, list, grown, orders, asked>>

\* ... put it into the map ...
ConnectPut ==
  /\ Step("async", "put", "onConnect")
  /\ mCtrlBlocks' = [mCtrlBlocks EXCEPT ![block[blk["async"]].device] = blk["async"]]
  /\ AsyncUnchanged
  /\ UNCHANGED <<tasks, checks, counts, block, blocks, blk, list, grown, orders, asked>>

\* ... and call onConnect: CameraActivity opens the camera unless one is open.
\* It has no handler any more after its onDestroy, and throws.
OnConnect ==
  /\ Step("async", "onConnect", IF destroyed THEN "crashed" ELSE "idle") /\ Leave("async")
  /\ asked' = asked \ {block[blk["async"]].device}
  /\ orders' = IF camera = None /\ ~destroyed THEN Append(orders, Task("open", blk["async"])) ELSE orders
  /\ AsyncUnchanged /\ UNCHANGED <<tasks, checks, counts, store, list, grown>>

CheckUnchanged == AsyncUnchanged /\ UNCHANGED <<store, blk, orders, asked>>

\* mDeviceCheckRunnable: the devices, ...
CheckList ==
  /\ pc["async"] = "idle" /\ checks > 0 /\ pc["main"] # "gone"
  /\ checks' = checks - 1
  /\ Goto("async", IF destroyed THEN "idle" ELSE "checkPermissions")
  /\ list' = IF destroyed THEN list ELSE plugged
  /\ CheckUnchanged /\ UNCHANGED <<tasks, counts, grown>>

\* ... their permissions, which a destroyed monitor refuses to look up, ...
CheckPermissions ==
  /\ Step("async", "checkPermissions", IF destroyed /\ list # {} THEN "crashed" ELSE "checkCounts")
  /\ mHasPermissions' = IF destroyed THEN {} ELSE list \cap permitted
  /\ grown' = (Cardinality(list \cap permitted) > Cardinality(mHasPermissions))
  /\ CheckUnchanged /\ UNCHANGED <<tasks, checks, mDeviceCounts, list>>

(* Mutant: a change posts the check once more. *)
CheckCountsTwice ==
  /\ Step("async", "checkCounts", "idle")
  /\ mDeviceCounts' = Cardinality(list)
  /\ checks' = IF Cardinality(list) > mDeviceCounts THEN checks + 2 ELSE checks + 1
  /\ list' = {} /\ grown' = FALSE
  /\ CheckUnchanged /\ UNCHANGED <<mHasPermissions, tasks>>

\* ... and the comparison with mDeviceCounts; then the check is posted again.
CheckCounts ==
  /\ Step("async", "checkCounts", "idle")
  /\ IF Cardinality(list) > mDeviceCounts \/ grown
     THEN /\ mDeviceCounts' = Cardinality(list)
          /\ \E order \in [1..Cardinality(list) -> list] :
               /\ \A i, j \in DOMAIN order : i # j => order[i] # order[j]
               /\ tasks' = IF pc["main"] = "gone" THEN tasks
                           ELSE tasks \o [i \in DOMAIN order |-> Task("attach", order[i])]
     ELSE UNCHANGED <<mDeviceCounts, tasks>>
  /\ checks' = IF pc["main"] = "gone" THEN checks ELSE checks + 1
  /\ list' = {} /\ grown' = FALSE
  /\ CheckUnchanged /\ UNCHANGED mHasPermissions

-----------------------------------------------------------------------------
(* The camera thread and the client's own worker thread. *)

CameraUnchanged == UNCHANGED <<usb, broadcasts, monitor, tasks, checks, counts, mCtrlBlocks, list, grown, keys, closes, asked, calls>>

\* handleClose and handleOpen, which begins with it.
TakeOrder ==
  /\ pc["camera"] = "idle" /\ orders # <<>>
  /\ Goto("camera", IF camera # None THEN "close" ELSE "closed")
  /\ blk' = [blk EXCEPT !["camera"] = camera]
  /\ camera' = None
  /\ CameraUnchanged /\ UNCHANGED <<block, blocks, orders>>

CameraIsClosed ==
  /\ Step("camera", "closed", IF Head(orders).what = "open" THEN "clone" ELSE "idle")
  /\ orders' = IF Head(orders).what = "open" THEN orders ELSE Tail(orders)
  /\ Leave("camera")
  /\ CameraUnchanged /\ UNCHANGED <<block, blocks, camera>>

\* UVCCamera.open clones the block.  There is no clone without the device or if opening
\* it throws, and one with which the camera cannot be opened is forgotten.
OpenCamera ==
  /\ Step("camera", "clone", "idle")
  /\ LET d == block[Head(orders).device].device IN
     \/ Connected(d) /\ Create(d, TRUE) /\ camera' \in {None, blocks'}
     \/ UNCHANGED <<block, blocks, camera>>
  /\ orders' = Tail(orders)
  /\ CameraUnchanged /\ UNCHANGED blk

\* The runnable of onDisconnect, which throws after onDestroy.
RunClose ==
  /\ closes > 0 /\ closes' = closes - 1
  /\ orders' = IF camera = None \/ destroyed THEN orders ELSE Append(orders, Task("close", None))
  /\ UNCHANGED <<usb, broadcasts, monitor, tasks, checks, counts, store, pc, locals, camera, asked, calls>>

-----------------------------------------------------------------------------
ClientCall ==
  \/ Register \/ Unregister \/ CloseCamera \/ Destroy
  \/ \E d \in Devices : RequestPermission(d)

Environment == \E d \in Devices : Plug(d) \/ Unplug(d) \/ \E granted \in BOOLEAN : Answer(d, granted)

CloseBlock(t) == CloseConnection(t) \/ Disconnect(t) \/ Forget(t) \/ ForgetThrows(t)

MainStep ==
  \/ ReceiveAnswer \/ ReceiveDetached \/ ReceivedDetached \/ CloseBlock("main")
  \/ (\E d \in Devices : DestroyBlock(d)) \/ DestroyEnd

ConnectStep == RunTask \/ ConnectGet \/ ConnectThrows \/ ConnectPut \/ OnConnect
CheckStep   == CheckList \/ CheckPermissions \/ CheckCounts
CameraStep  == TakeOrder \/ CameraIsClosed \/ OpenCamera \/ CloseBlock("camera")

Next == ClientCall \/ Environment \/ MainStep \/ ConnectStep \/ CheckStep \/ CameraStep \/ RunClose

Spec == Init /\ [][Next]_vars

\* The threads run; a check is due every two seconds and does not keep the
\* async thread from its other work.  Nobody need call, plug in or answer.
LiveSpec ==
  /\ Spec /\ WF_vars(MainStep) /\ SF_vars(ConnectStep) /\ SF_vars(CheckStep)
  /\ WF_vars(CameraStep) /\ WF_vars(RunClose)

-----------------------------------------------------------------------------
(* Properties. *)

Names == {"attach", "connect", "cancel", "detach", "granted", "denied", "detached", "open", "close"}

Tasks  == [what : Names, device : Devices]
Orders == [what : Names, device : Blocks \cup {None}]

AnyBlock == [device : Devices \cup {NoDevice}, clone : BOOLEAN,
             connection : {"none", "null", "open", "closed"}]

SetsOK ==
  /\ plugged \subseteq Devices /\ unplugged \subseteq Devices /\ permitted \subseteq plugged
  /\ asking \subseteq Devices /\ asked \subseteq Devices
  /\ list \subseteq Devices /\ keys \subseteq Devices /\ mHasPermissions \subseteq Devices

FlagsOK == registered \in BOOLEAN /\ destroyed \in BOOLEAN /\ grown \in BOOLEAN

QueuesOK == broadcasts \in Seq(Tasks) /\ tasks \in Seq(Tasks) /\ orders \in Seq(Orders)

CountsOK ==
  /\ calls \in 0..MaxCalls /\ checks \in 0..calls /\ closes \in Nat
  /\ mDeviceCounts \in 0..Cardinality(Devices)

BlocksOK ==
  /\ mCtrlBlocks \in [Devices -> Blocks \cup {None}]
  /\ block \in [Blocks -> AnyBlock] /\ blocks \in 0..MaxBlocks
  /\ blk \in [Threads -> Blocks \cup {None}] /\ camera \in Blocks \cup {None}

ThreadsOK ==
  /\ pc["main"] \in {"idle", "close", "disconnect", "forget", "detached", "destroy", "caught", "gone", "crashed"}
  /\ pc["async"] \in {"idle", "put", "onConnect", "checkPermissions", "checkCounts", "crashed"}
  /\ pc["camera"] \in {"idle", "close", "disconnect", "forget", "closed", "clone", "crashed"}
  /\ DOMAIN pc = Threads

\* Every variable has a value of its type; in particular no more checks are
\* queued than register was called.
TypeOK == SetsOK /\ FlagsOK /\ QueuesOK /\ CountsOK /\ BlocksOK /\ ThreadsOK

Open(b) == block[b].connection = "open"

\* A block the monitor hands out was never closed, and is its device's own.
KnownBlockIsUsable ==
  \A d \in Devices : LET b == mCtrlBlocks[d] IN
    b # None => block[b].device = d /\ ~block[b].clone /\ block[b].connection # "closed"

Known(b) ==
  \/ mCtrlBlocks[block[b].device] = b
  \/ pc["async"] = "put" /\ blk["async"] = b
  \/ pc["main"] = "close" /\ blk["main"] = b

\* As long as no clone of it was closed and destroy was not called, the monitor
\* knows every open block.
OnlyClonesHideBlocks ==
  \A b \in Blocks : Open(b) /\ ~block[b].clone =>
    \/ Known(b) \/ destroyed
    \/ \E c \in Blocks : block[c].clone /\ block[c].device = block[b].device /\ block[c].connection = "closed"

\* A request that the user has answered, or need not, is answered by onConnect
\* or onCancel, unless the client unregisters or an exception ends the process first.
RequestIsAnswered ==
  \A d \in Devices : d \in asked /\ d \notin asking ~>
    d \notin asked \/ d \in asking \/ \E t \in Threads : pc[t] = "crashed"
=============================================================================
