-------------------------- MODULE UsbMonitorProofs --------------------------
(***************************************************************************)
(* Proofs about the monitor, for any finite set of devices and any number  *)
(* of calls, orders and blocks.                                            *)
(***************************************************************************)
EXTENDS UsbMonitor, FiniteSetTheorems, TLAPS

-----------------------------------------------------------------------------
(* The inductive invariant *)

\* Only a device that is gone is reported as detached, and it does not come back.  What the
\* camera thread handles is at the head of its queue until it is done.
QueueInv ==
  /\ plugged \cap unplugged = {}
  /\ \A i \in 1..Len(broadcasts) : broadcasts[i].what = "detached" => broadcasts[i].device \in unplugged
  /\ pc["main"] = "detached" => broadcasts # <<>>
  /\ pc["main"] \in {"close", "disconnect", "forget"} /\ ~destroyed => broadcasts # <<>>
  /\ \A i \in 1..Len(orders) : orders[i].what = "open" => orders[i].device \in 1..blocks
  /\ pc["camera"] # "idle" => orders # <<>>
  /\ pc["camera"] = "clone" => orders[1].what = "open"

\* The check that is running counts as one in the queue.
CheckInv == pc["async"] \in {"checkPermissions", "checkCounts"} => checks < calls

\* A block that was created has its device for ever; the camera has a clone.
BlockInv ==
  /\ \A b \in Blocks : IF b <= blocks THEN block[b].device \in Devices
                       ELSE block[b].connection = "none"
  /\ camera # None => camera <= blocks /\ block[camera].clone
  /\ pc["camera"] \in {"close", "disconnect", "forget"} =>
       blk["camera"] \in 1..blocks /\ block[blk["camera"]].clone
  /\ pc["camera"] \in {"disconnect", "forget"} => block[blk["camera"]].connection = "closed"
  /\ pc["async"] \in {"put", "onConnect"} => blk["async"] \in 1..blocks
  /\ pc["main"] \in {"close", "disconnect", "forget"} =>
       blk["main"] \in 1..blocks /\ ~block[blk["main"]].clone
  /\ pc["main"] \in {"disconnect", "forget"} => block[blk["main"]].connection = "closed"

\* A block in the map was created.
MapInv ==
  /\ KnownBlockIsUsable
  /\ \A d \in Devices : mCtrlBlocks[d] # None => mCtrlBlocks[d] <= blocks

\* A block that is about to be put into the map is new, and there is none of its device.
PutInv ==
  pc["async"] = "put" =>
    LET b == blk["async"] IN
    /\ ~block[b].clone /\ block[b].connection # "closed"
    /\ mCtrlBlocks[block[b].device] = None
    /\ pc["main"] \in {"close", "disconnect", "forget"} => blk["main"] # b

\* A block the UI thread closes is in the map no more.
CloseInv ==
  /\ pc["main"] \in {"close", "disconnect", "forget"} => \A d \in Devices : mCtrlBlocks[d] # blk["main"]
  /\ pc["main"] \in {"destroy", "caught", "gone"} => destroyed

\* The monitor may have lost track of the device's blocks.
Excused(d) ==
  \/ destroyed
  \/ \E c \in Blocks : block[c].clone /\ block[c].device = d /\ block[c].connection = "closed"

\* While the UI thread closes the block of a device that was detached, that block is the only
\* one of the device that is open.
HideInv ==
  /\ \A b \in Blocks : Open(b) /\ ~block[b].clone => Known(b) \/ Excused(block[b].device)
  /\ pc["main"] \in {"close", "disconnect", "forget"} /\ ~destroyed =>
       /\ block[blk["main"]].device \in unplugged
       /\ \A b \in Blocks : Open(b) /\ ~block[b].clone /\ block[b].device = block[blk["main"]].device =>
            b = blk["main"] \/ Excused(block[b].device)

MonitorInv ==
  /\ SetsOK /\ FlagsOK /\ QueuesOK /\ CountsOK /\ BlocksOK /\ ThreadsOK
  /\ QueueInv /\ CheckInv /\ BlockInv /\ MapInv /\ PutInv /\ CloseInv /\ HideInv

-----------------------------------------------------------------------------
(* Every step preserves it *)

USE DEF Threads, Blocks, None, Goto, Step, Leave, Task, usb, monitor, counts, store, locals,
        activity, EnvironmentUnchanged, CallUnchanged, BlockUnchanged, MainUnchanged,
        AsyncUnchanged, CheckUnchanged, CameraUnchanged

\* The queues: what is appended and what is taken.
LEMMA Extended ==
  ASSUME NEW S, NEW q \in Seq(S), NEW e \in S
  PROVE  Append(q, e) \in Seq(S)
OBVIOUS

LEMMA Taken ==
  ASSUME NEW S, NEW q \in Seq(S), q # <<>>
  PROVE  /\ Head(q) \in S /\ Tail(q) \in Seq(S) /\ Head(q) = q[1]
         /\ Len(q) \in Nat \ {0} /\ Len(Tail(q)) = Len(q) - 1
         /\ \A i \in 1..Len(Tail(q)) : Tail(q)[i] = q[i + 1]
OBVIOUS

LEMMA TaskTaken ==
  ASSUME NEW q \in Seq(Tasks), q # <<>>
  PROVE  Head(q).device \in Devices /\ Tail(q) \in Seq(Tasks)
<1>1. Head(q) \in Tasks /\ Tail(q) \in Seq(Tasks)
  BY Taken
<1> QED BY <1>1 DEF Tasks

LEMMA PostedTyped ==
  ASSUME NEW q \in Seq(Tasks), NEW what \in Names, NEW d \in Devices
  PROVE  Posted(q, what, d) \in Seq(Tasks)
<1>1. Task(what, d) \in Tasks
  BY DEF Tasks
<1> QED BY <1>1, Extended DEF Posted

LEMMA SentTyped ==
  ASSUME broadcasts \in Seq(Tasks), NEW what \in Names, NEW d \in Devices, Sent(what, d)
  PROVE  broadcasts' \in Seq(Tasks)
<1>1. Task(what, d) \in Tasks
  BY DEF Tasks
<1> QED BY <1>1, Extended DEF Sent

\* mDeviceCounts is a number of devices.
LEMMA DevicesCounted ==
  ASSUME MonitorAssumption, NEW S \in SUBSET Devices
  PROVE  Cardinality(S) \in 0..Cardinality(Devices)
BY FS_Subset, FS_CardinalityType DEF MonitorAssumption

LEMMA NoneCounted ==
  ASSUME MonitorAssumption
  PROVE  0 \in 0..Cardinality(Devices)
BY FS_CardinalityType DEF MonitorAssumption

\* What create does to the blocks.
LEMMA Created ==
  ASSUME MonitorAssumption, MonitorInv, NEW d \in Devices, NEW clone \in BOOLEAN, Create(d, clone)
  PROVE  /\ blocks' \in Blocks /\ blocks' = blocks + 1
         /\ block' \in [Blocks -> AnyBlock]
         /\ block'[blocks'].device = d /\ block'[blocks'].clone = clone
         /\ block'[blocks'].connection = IF Connected(d) THEN "open" ELSE "null"
         /\ \A b \in Blocks : b # blocks' => block'[b] = block[b]
<1>1. blocks' \in Blocks /\ blocks' = blocks + 1
  BY DEF Create, MonitorInv, BlocksOK, MonitorAssumption
<1> DEFINE new == [device |-> d, clone |-> clone, connection |-> IF Connected(d) THEN "open" ELSE "null"]
<1>2. new \in AnyBlock
  BY DEF AnyBlock
<1>3. block' = [block EXCEPT ![blocks'] = new]
  BY DEF Create
<1> HIDE DEF new
<1>4. /\ block' \in [Blocks -> AnyBlock] /\ block'[blocks'] = new
      /\ \A b \in Blocks : b # blocks' => block'[b] = block[b]
  BY <1>1, <1>2, <1>3 DEF MonitorInv, BlocksOK
<1> QED BY <1>1, <1>4 DEF new

\* A closed clone stays closed.
LEMMA ExcusedKept ==
  ASSUME destroyed => destroyed',
         \A c \in Blocks : block[c].connection = "closed" =>
           /\ block'[c].connection = "closed" /\ block'[c].clone = block[c].clone
           /\ block'[c].device = block[c].device
  PROVE  \A x : Excused(x) => Excused(x)'
BY DEF Excused

\* What close does to the block of thread t.
LEMMA ClosesOwn ==
  ASSUME MonitorInv, NEW t \in {"main", "camera"}, CloseConnection(t)
  PROVE  /\ blk[t] \in Blocks /\ block' \in [Blocks -> AnyBlock]
         /\ \A b \in Blocks : /\ block'[b].device = block[b].device /\ block'[b].clone = block[b].clone
                              /\ b # blk[t] => block'[b].connection = block[b].connection
         /\ block'[blk[t]].connection # "open"
         /\ block[blk[t]].connection # "open" => block' = block
         /\ block[blk[t]].connection = "open" => block'[blk[t]].connection = "closed"
<1>1. blk[t] \in Blocks /\ block \in [Blocks -> AnyBlock]
  BY DEF MonitorInv, BlockInv, BlocksOK, CloseConnection
<1>2. CASE block[blk[t]].connection # "open"
  BY <1>1, <1>2 DEF CloseConnection
<1>3. CASE block[blk[t]].connection = "open"
  <2>1. block' = [block EXCEPT ![blk[t]] = [block[blk[t]] EXCEPT !.connection = "closed"]]
    BY <1>3 DEF CloseConnection
  <2> DEFINE new == [block[blk[t]] EXCEPT !.connection = "closed"]
  <2>2. /\ new \in AnyBlock /\ new.device = block[blk[t]].device /\ new.clone = block[blk[t]].clone
        /\ new.connection = "closed"
    BY <1>1 DEF AnyBlock
  <2> HIDE DEF new
  <2>3. block' = [block EXCEPT ![blk[t]] = new]
    BY <2>1 DEF new
  <2>4. /\ block' \in [Blocks -> AnyBlock] /\ block'[blk[t]] = new
        /\ \A b \in Blocks : b # blk[t] => block'[b] = block[b]
    BY <1>1, <2>2, <2>3
  <2> QED BY <1>1, <1>3, <2>2, <2>4
<1> QED BY <1>2, <1>3

\* Devices, and the user.
LEMMA EnvironmentSteps ==
  ASSUME MonitorAssumption, MonitorInv,
         (\E d \in Devices : Plug(d)) \/ (\E d \in Devices : Unplug(d))
         \/ (\E d \in Devices, granted \in BOOLEAN : Answer(d, granted))
  PROVE  MonitorInv'
<1> USE DEF MonitorInv
<1>1. ASSUME NEW d \in Devices, Plug(d)
      PROVE  MonitorInv'
  <2>1. SetsOK'
    BY <1>1 DEF Plug, SetsOK
  <2>2. QueueInv'
    BY <1>1 DEF Plug, QueueInv
  <2>3. FlagsOK' /\ QueuesOK' /\ CountsOK' /\ BlocksOK' /\ ThreadsOK' /\ CheckInv'
         /\ BlockInv' /\ MapInv' /\ PutInv' /\ CloseInv' /\ HideInv'
    BY <1>1 DEF Plug, FlagsOK, QueuesOK, CountsOK, BlocksOK, ThreadsOK, CheckInv, BlockInv,
         MapInv, KnownBlockIsUsable, PutInv, CloseInv, HideInv, Open, Known, Excused
  <2> QED BY <2>1, <2>2, <2>3
<1>2. ASSUME NEW d \in Devices, Unplug(d)
      PROVE  MonitorInv'
  <2>1. SetsOK'
    BY <1>2 DEF Unplug, SetsOK
  <2>2. QueuesOK'
    <3>1. Sent("detached", d) /\ UNCHANGED <<tasks, orders>>
      BY <1>2 DEF Unplug
    <3> QED BY <3>1, SentTyped DEF QueuesOK, Names
  <2>3. QueueInv'
    BY <1>2 DEF Unplug, Sent, QueueInv
  <2>4. HideInv'
    BY <1>2 DEF Unplug, HideInv, Open, Known, Excused
  <2>5. FlagsOK' /\ CountsOK' /\ BlocksOK' /\ ThreadsOK' /\ CheckInv' /\ BlockInv'
         /\ MapInv' /\ PutInv' /\ CloseInv'
    BY <1>2 DEF Unplug, FlagsOK, CountsOK, BlocksOK, ThreadsOK, CheckInv, BlockInv, MapInv,
         KnownBlockIsUsable, PutInv, CloseInv
  <2> QED BY <2>1, <2>2, <2>3, <2>4, <2>5
<1>3. ASSUME NEW d \in Devices, NEW granted \in BOOLEAN, Answer(d, granted)
      PROVE  MonitorInv'
  <2>1. SetsOK'
    BY <1>3 DEF Answer, SetsOK
  <2>2. QueuesOK'
    <3>1. /\ Sent("granted", d) \/ Sent("denied", d)
          /\ UNCHANGED <<tasks, orders>>
      BY <1>3 DEF Answer
    <3> QED BY <3>1, SentTyped DEF QueuesOK, Names
  <2>3. QueueInv'
    BY <1>3 DEF Answer, Sent, QueueInv
  <2>4. FlagsOK' /\ CountsOK' /\ BlocksOK' /\ ThreadsOK' /\ CheckInv' /\ BlockInv'
         /\ MapInv' /\ PutInv' /\ CloseInv' /\ HideInv'
    BY <1>3 DEF Answer, FlagsOK, CountsOK, BlocksOK, ThreadsOK, CheckInv, BlockInv, MapInv,
         KnownBlockIsUsable, PutInv, CloseInv, HideInv, Open, Known, Excused
  <2> QED BY <2>1, <2>2, <2>3, <2>4
<1> QED BY <1>1, <1>2, <1>3

\* The calls of the client.
LEMMA ClientSteps ==
  ASSUME MonitorAssumption, MonitorInv,
         Register \/ Unregister \/ (\E d \in Devices : RequestPermission(d)) \/ CloseCamera
         \/ Destroy \/ RunClose
  PROVE  MonitorInv'
<1> USE DEF MonitorInv
<1>1. CASE Register
  <2>1. FlagsOK'
    BY <1>1 DEF Register, FlagsOK
  <2>2. CountsOK'
    <3>1. /\ calls < MaxCalls /\ calls' = calls + 1 /\ closes' = closes
          /\ checks' \in {checks, checks + 1} /\ mDeviceCounts' \in {mDeviceCounts, 0}
      BY <1>1 DEF Register, Call
    <3> QED BY <3>1, NoneCounted DEF CountsOK, MonitorAssumption
  <2>3. CheckInv'
    BY <1>1 DEF Register, Call, CheckInv, CountsOK
  <2>4. SetsOK' /\ QueuesOK' /\ BlocksOK' /\ ThreadsOK' /\ QueueInv' /\ BlockInv' /\ MapInv'
         /\ PutInv' /\ CloseInv' /\ HideInv'
    <3>1. UNCHANGED <<usb, broadcasts, destroyed, tasks, mHasPermissions, store, pc, locals, activity>>
      BY <1>1 DEF Register
    <3>2. SetsOK' /\ QueuesOK' /\ BlocksOK' /\ ThreadsOK'
      BY <3>1 DEF SetsOK, QueuesOK, BlocksOK, ThreadsOK
    <3>3. QueueInv' /\ BlockInv' /\ MapInv'
      BY <3>1 DEF QueueInv, BlockInv, MapInv, KnownBlockIsUsable
    <3>4. PutInv' /\ CloseInv'
      BY <3>1 DEF PutInv, CloseInv
    <3>5. HideInv'
      BY <3>1 DEF HideInv, Excused, Known, Open
    <3> QED BY <3>2, <3>3, <3>4, <3>5
  <2> QED BY <2>1, <2>2, <2>3, <2>4
<1>2. CASE Unregister
  <2>1. SetsOK'
    BY <1>2 DEF Unregister, ForgetEvents, SetsOK
  <2>2. FlagsOK'
    BY <1>2 DEF Unregister, ForgetEvents, FlagsOK
  <2>3. QueuesOK'
    BY <1>2 DEF Unregister, ForgetEvents, QueuesOK
  <2>4. CountsOK'
    <3>1. /\ calls < MaxCalls /\ calls' = calls + 1 /\ closes' = closes
          /\ checks' = 0 /\ mDeviceCounts' = 0
      BY <1>2 DEF Unregister, Call, ForgetEvents
    <3> QED BY <3>1, NoneCounted DEF CountsOK, MonitorAssumption
  <2>5. QueueInv'
    BY <1>2 DEF Unregister, Call, Calling, ForgetEvents, QueueInv
  <2>6. CheckInv'
    BY <1>2 DEF Unregister, Call, ForgetEvents, CheckInv, CountsOK
  <2>7. BlocksOK' /\ ThreadsOK' /\ BlockInv' /\ MapInv' /\ PutInv' /\ CloseInv' /\ HideInv'
    BY <1>2 DEF Unregister, BlocksOK, ThreadsOK, BlockInv, MapInv, KnownBlockIsUsable, PutInv,
         CloseInv, HideInv, Open, Known, Excused
  <2> QED BY <2>1, <2>2, <2>3, <2>4, <2>5, <2>6, <2>7
<1>3. ASSUME NEW d \in Devices, RequestPermission(d)
      PROVE  MonitorInv'
  <2>1. SetsOK'
    BY <1>3 DEF RequestPermission, ProcessConnect, ProcessCancel, SetsOK
  <2>2. QueuesOK'
    <3>1. /\ \/ tasks' = Posted(tasks, "connect", d)
             \/ tasks' = Posted(tasks, "cancel", d)
             \/ tasks' = tasks
          /\ UNCHANGED <<broadcasts, orders>>
      BY <1>3 DEF RequestPermission, ProcessConnect, ProcessCancel
    <3> QED BY <3>1, PostedTyped DEF QueuesOK, Names
  <2>3. CountsOK'
    BY <1>3 DEF RequestPermission, Call, CountsOK
  <2>4. CheckInv'
    BY <1>3 DEF RequestPermission, Call, CheckInv, CountsOK
  <2>5. FlagsOK' /\ BlocksOK' /\ ThreadsOK' /\ QueueInv' /\ BlockInv' /\ MapInv' /\ PutInv'
         /\ CloseInv' /\ HideInv'
    BY <1>3 DEF RequestPermission, FlagsOK, BlocksOK, ThreadsOK, QueueInv, BlockInv, MapInv,
         KnownBlockIsUsable, PutInv, CloseInv, HideInv, Open, Known, Excused
  <2> QED BY <2>1, <2>2, <2>3, <2>4, <2>5
<1>4. CASE CloseCamera
  <2>1. QueuesOK'
    BY <1>4 DEF CloseCamera, QueuesOK, Names, Orders
  <2>2. QueueInv'
    BY <1>4 DEF CloseCamera, QueueInv
  <2>3. SetsOK' /\ FlagsOK' /\ CountsOK' /\ BlocksOK' /\ ThreadsOK' /\ CheckInv'
         /\ BlockInv' /\ MapInv' /\ PutInv' /\ CloseInv' /\ HideInv'
    BY <1>4 DEF CloseCamera, SetsOK, FlagsOK, CountsOK, BlocksOK, ThreadsOK, CheckInv, BlockInv,
         MapInv, KnownBlockIsUsable, PutInv, CloseInv, HideInv, Open, Known, Excused
  <2> QED BY <2>1, <2>2, <2>3
<1>5. CASE Destroy
  <2>1. SetsOK'
    BY <1>5 DEF Destroy, ForgetEvents, SetsOK
  <2>2. FlagsOK'
    BY <1>5 DEF Destroy, ForgetEvents, FlagsOK
  <2>3. QueuesOK'
    BY <1>5 DEF Destroy, ForgetEvents, QueuesOK
  <2>4. CountsOK'
    <3>1. UNCHANGED <<calls, closes>> /\ checks' = 0 /\ mDeviceCounts' = 0
      BY <1>5 DEF Destroy, ForgetEvents
    <3> QED BY <3>1, NoneCounted DEF CountsOK
  <2>5. ThreadsOK'
    BY <1>5 DEF Destroy, ThreadsOK
  <2>6. QueueInv'
    BY <1>5 DEF Destroy, Calling, ForgetEvents, QueueInv
  <2>7. CheckInv'
    BY <1>5 DEF Destroy, ForgetEvents, CheckInv, CountsOK
  <2>8. BlockInv'
    BY <1>5 DEF Destroy, BlockInv
  <2>9. PutInv'
    BY <1>5 DEF Destroy, PutInv
  <2>10. CloseInv'
    BY <1>5 DEF Destroy, CloseInv
  <2>11. HideInv'
    BY <1>5 DEF Destroy, HideInv, Excused
  <2>12. BlocksOK' /\ MapInv'
    BY <1>5 DEF Destroy, BlocksOK, MapInv, KnownBlockIsUsable
  <2> QED BY <2>1, <2>2, <2>3, <2>4, <2>5, <2>6, <2>7, <2>8, <2>9, <2>10, <2>11, <2>12
<1>6. CASE RunClose
  <2>1. QueuesOK'
    <3>1. /\ orders' = orders \/ orders' = Append(orders, Task("close", None))
          /\ UNCHANGED <<broadcasts, tasks>>
      BY <1>6 DEF RunClose
    <3>2. Task("close", None) \in Orders
      BY DEF Orders, Names
    <3> QED BY <3>1, <3>2, Extended DEF QueuesOK
  <2>2. CountsOK'
    BY <1>6 DEF RunClose, CountsOK
  <2>3. QueueInv'
    BY <1>6 DEF RunClose, QueueInv
  <2>4. SetsOK' /\ FlagsOK' /\ BlocksOK' /\ ThreadsOK' /\ CheckInv' /\ BlockInv' /\ MapInv'
         /\ PutInv' /\ CloseInv' /\ HideInv'
    BY <1>6 DEF RunClose, SetsOK, FlagsOK, BlocksOK, ThreadsOK, CheckInv, BlockInv, MapInv,
         KnownBlockIsUsable, PutInv, CloseInv, HideInv, Open, Known, Excused
  <2> QED BY <2>1, <2>2, <2>3, <2>4
<1> QED BY <1>1, <1>2, <1>3, <1>4, <1>5, <1>6

\* Closing a block.
LEMMA CloseSteps ==
  ASSUME MonitorAssumption, MonitorInv,
         (\E t \in {"main", "camera"} : CloseConnection(t))
         \/ (\E t \in {"main", "camera"} : Disconnect(t))
         \/ (\E t \in {"main", "camera"} : Forget(t))
         \/ (\E t \in {"main", "camera"} : ForgetThrows(t))
  PROVE  MonitorInv'
<1> USE DEF MonitorInv
<1>1. ASSUME NEW t \in {"main", "camera"}, CloseConnection(t)
      PROVE  MonitorInv'
  <2>1. BlocksOK'
    <3> QED BY <1>1, ClosesOwn DEF CloseConnection, BlocksOK
  <2>2. ThreadsOK'
    BY <1>1 DEF CloseConnection, Closed, ThreadsOK
  <2>3. QueueInv'
    BY <1>1 DEF CloseConnection, Closed, QueueInv
  <2>4. CheckInv'
    BY <1>1 DEF CloseConnection, CheckInv
  <2>5. BlockInv'
    BY <1>1 DEF CloseConnection, Closed, BlockInv, BlocksOK
  <2>6. MapInv'
    BY <1>1 DEF CloseConnection, MapInv, KnownBlockIsUsable, BlockInv, CloseInv
  <2>7. PutInv'
    BY <1>1 DEF CloseConnection, PutInv, BlockInv
  <2>8. CloseInv'
    BY <1>1 DEF CloseConnection, Closed, CloseInv
  <2>9. HideInv'
    <3>1. /\ pc[t] = "close" /\ UNCHANGED <<usb, monitor, mCtrlBlocks, blk>>
          /\ pc'["async"] = pc["async"]
          /\ t # "main" => pc'["main"] = pc["main"]
      BY <1>1 DEF CloseConnection, ThreadsOK
    <3>2. /\ blk[t] \in Blocks
          /\ \A b \in Blocks : /\ block'[b].device = block[b].device /\ block'[b].clone = block[b].clone
                               /\ b # blk[t] => block'[b].connection = block[b].connection
          /\ block'[blk[t]].connection # "open"
          /\ block[blk[t]].connection # "open" => block' = block
      BY <1>1, ClosesOwn
    <3>3. \A x : Excused(x) => Excused(x)'
      <4>1. ASSUME NEW c \in Blocks, block[c].connection = "closed"
            PROVE  block'[c].connection = "closed"
        BY <3>2, <4>1
      <4> QED BY <3>1, <3>2, <4>1, ExcusedKept
    <3>4. ASSUME NEW b \in Blocks, Open(b)', ~block'[b].clone
          PROVE  /\ b # blk[t] /\ Open(b) /\ ~block[b].clone
                 /\ Known(b) => Known(b)'
      <4>1. b # blk[t] /\ Open(b) /\ ~block[b].clone
        BY <3>2, <3>4 DEF Open
      <4> QED BY <3>1, <3>2, <4>1 DEF Known
    <3>5. \A b \in Blocks : Open(b)' /\ ~block'[b].clone => Known(b)' \/ Excused(block[b].device)'
      BY <3>2, <3>3, <3>4 DEF HideInv
    <3>6. ASSUME pc'["main"] \in {"close", "disconnect", "forget"}, ~destroyed
          PROVE  /\ block'[blk["main"]].device \in unplugged
                 /\ \A b \in Blocks :
                      Open(b)' /\ ~block'[b].clone /\ block'[b].device = block'[blk["main"]].device =>
                        b = blk["main"] \/ Excused(block[b].device)'
      <4>1. pc["main"] \in {"close", "disconnect", "forget"} /\ blk["main"] \in Blocks
        BY <3>1, <3>6 DEF BlockInv, BlocksOK, MonitorAssumption
      <4> QED BY <3>2, <3>3, <3>4, <3>6, <4>1 DEF HideInv
    <3> QED BY <3>1, <3>5, <3>6 DEF HideInv
  <2>10. SetsOK' /\ FlagsOK' /\ QueuesOK' /\ CountsOK'
    BY <1>1 DEF CloseConnection, SetsOK, FlagsOK, QueuesOK, CountsOK
  <2> QED BY <2>1, <2>2, <2>3, <2>4, <2>5, <2>6, <2>7, <2>8, <2>9, <2>10
<1>2. ASSUME NEW t \in {"main", "camera"}, Disconnect(t)
      PROVE  MonitorInv'
  <2>1. CountsOK'
    BY <1>2 DEF Disconnect, CountsOK
  <2>2. ThreadsOK'
    BY <1>2 DEF Disconnect, ThreadsOK
  <2>3. QueueInv'
    BY <1>2 DEF Disconnect, QueueInv
  <2>4. CheckInv'
    BY <1>2 DEF Disconnect, CheckInv
  <2>5. BlockInv'
    BY <1>2 DEF Disconnect, BlockInv
  <2>6. PutInv'
    BY <1>2 DEF Disconnect, PutInv
  <2>7. CloseInv'
    BY <1>2 DEF Disconnect, CloseInv
  <2>8. HideInv'
    BY <1>2 DEF Disconnect, HideInv, Open, Known, Excused
  <2>9. SetsOK' /\ FlagsOK' /\ QueuesOK' /\ BlocksOK' /\ MapInv'
    BY <1>2 DEF Disconnect, SetsOK, FlagsOK, QueuesOK, BlocksOK, MapInv, KnownBlockIsUsable
  <2> QED BY <2>1, <2>2, <2>3, <2>4, <2>5, <2>6, <2>7, <2>8, <2>9
<1>3. ASSUME NEW t \in {"main", "camera"}, Forget(t)
      PROVE  MonitorInv'
  <2>1. BlocksOK'
    BY <1>3 DEF Forget, BlocksOK
  <2>2. ThreadsOK'
    BY <1>3 DEF Forget, Closed, ThreadsOK
  <2>3. QueueInv'
    BY <1>3 DEF Forget, Closed, QueueInv
  <2>4. CheckInv'
    BY <1>3 DEF Forget, CheckInv
  <2>5. BlockInv'
    BY <1>3 DEF Forget, BlockInv
  <2>6. MapInv'
    BY <1>3 DEF Forget, MapInv, KnownBlockIsUsable
  <2>7. PutInv'
    BY <1>3 DEF Forget, PutInv
  <2>8. CloseInv'
    BY <1>3 DEF Forget, Closed, CloseInv, BlockInv
  <2>9. HideInv'
    BY <1>3 DEF Forget, HideInv, Open, Known, Excused, BlocksOK, AnyBlock, BlockInv
  <2>10. SetsOK' /\ FlagsOK' /\ QueuesOK' /\ CountsOK'
    BY <1>3 DEF Forget, SetsOK, FlagsOK, QueuesOK, CountsOK
  <2> QED BY <2>1, <2>2, <2>3, <2>4, <2>5, <2>6, <2>7, <2>8, <2>9, <2>10
<1>4. ASSUME NEW t \in {"main", "camera"}, ForgetThrows(t)
      PROVE  MonitorInv'
  <2>1. BlocksOK'
    BY <1>4 DEF ForgetThrows, BlocksOK
  <2>2. ThreadsOK'
    BY <1>4 DEF ForgetThrows, ThreadsOK
  <2>3. QueueInv'
    BY <1>4 DEF ForgetThrows, QueueInv
  <2>4. CheckInv'
    BY <1>4 DEF ForgetThrows, CheckInv
  <2>5. BlockInv'
    BY <1>4 DEF ForgetThrows, BlockInv
  <2>6. MapInv'
    BY <1>4 DEF ForgetThrows, MapInv, KnownBlockIsUsable
  <2>7. PutInv'
    BY <1>4 DEF ForgetThrows, PutInv
  <2>8. CloseInv'
    BY <1>4 DEF ForgetThrows, CloseInv, BlockInv
  <2>9. HideInv'
    BY <1>4 DEF ForgetThrows, HideInv, Open, Known, Excused, BlocksOK, AnyBlock, BlockInv
  <2>10. SetsOK' /\ FlagsOK' /\ QueuesOK' /\ CountsOK'
    BY <1>4 DEF ForgetThrows, SetsOK, FlagsOK, QueuesOK, CountsOK
  <2> QED BY <2>1, <2>2, <2>3, <2>4, <2>5, <2>6, <2>7, <2>8, <2>9, <2>10
<1> QED BY <1>1, <1>2, <1>3, <1>4

\* The UI thread.
LEMMA MainSteps ==
  ASSUME MonitorAssumption, MonitorInv,
         ReceiveAnswer \/ ReceiveDetached \/ ReceivedDetached
         \/ (\E d \in Devices : DestroyBlock(d)) \/ DestroyEnd
  PROVE  MonitorInv'
<1> USE DEF MonitorInv
<1>1. CASE ReceiveAnswer
  <2>1. SetsOK'
    <3>1. Head(broadcasts).device \in Devices
      BY <1>1, TaskTaken DEF ReceiveAnswer, QueuesOK
    <3>2. /\ mHasPermissions' \subseteq mHasPermissions \cup {Head(broadcasts).device}
          /\ UNCHANGED <<plugged, unplugged, permitted, asking, asked, list, keys>>
      BY <1>1 DEF ReceiveAnswer, ProcessConnect, ProcessCancel
    <3> QED BY <3>1, <3>2 DEF SetsOK
  <2>2. QueuesOK'
    <3>1. Head(broadcasts).device \in Devices /\ Tail(broadcasts) \in Seq(Tasks)
      BY <1>1, TaskTaken DEF ReceiveAnswer, QueuesOK
    <3>2. /\ broadcasts' = Tail(broadcasts) /\ orders' = orders
          /\ \/ tasks' = Posted(tasks, "connect", Head(broadcasts).device)
             \/ tasks' = Posted(tasks, "cancel", Head(broadcasts).device)
      BY <1>1 DEF ReceiveAnswer, ProcessConnect, ProcessCancel
    <3> QED BY <3>1, <3>2, PostedTyped DEF QueuesOK, Names
  <2>3. QueueInv'
    BY <1>1 DEF ReceiveAnswer, QueueInv
  <2>4. FlagsOK' /\ CountsOK' /\ BlocksOK' /\ ThreadsOK' /\ CheckInv' /\ BlockInv'
         /\ MapInv' /\ PutInv' /\ CloseInv' /\ HideInv'
    BY <1>1 DEF ReceiveAnswer, FlagsOK, CountsOK, BlocksOK, ThreadsOK, CheckInv, BlockInv,
         MapInv, KnownBlockIsUsable, PutInv, CloseInv, HideInv, Open, Known, Excused
  <2> QED BY <2>1, <2>2, <2>3, <2>4
<1>2. CASE ReceiveDetached
  <2>1. BlocksOK'
    BY <1>2 DEF ReceiveDetached, BlocksOK, SetsOK, QueueInv
  <2>2. ThreadsOK'
    BY <1>2 DEF ReceiveDetached, ThreadsOK
  <2>3. QueueInv'
    BY <1>2 DEF ReceiveDetached, QueueInv
  <2>4. CheckInv'
    BY <1>2 DEF ReceiveDetached, CheckInv
  <2>5. BlockInv'
    BY <1>2 DEF ReceiveDetached, BlockInv, SetsOK, BlocksOK, ThreadsOK, QueueInv, MapInv,
         KnownBlockIsUsable
  <2>6. MapInv'
    BY <1>2 DEF ReceiveDetached, MapInv, KnownBlockIsUsable
  <2>7. PutInv'
    BY <1>2 DEF ReceiveDetached, PutInv, SetsOK, BlocksOK, QueueInv, MapInv, KnownBlockIsUsable,
         Excused
  <2>8. CloseInv'
    BY <1>2 DEF ReceiveDetached, CloseInv, SetsOK, BlocksOK, QueueInv, MapInv, KnownBlockIsUsable
  <2>9. HideInv'
    BY <1>2 DEF ReceiveDetached, HideInv, Open, Known, Excused, SetsOK, BlocksOK, AnyBlock,
         ThreadsOK, QueueInv, BlockInv, MapInv, KnownBlockIsUsable, PutInv
  <2>10. SetsOK' /\ FlagsOK' /\ QueuesOK' /\ CountsOK'
    BY <1>2 DEF ReceiveDetached, SetsOK, FlagsOK, QueuesOK, CountsOK
  <2> QED BY <2>1, <2>2, <2>3, <2>4, <2>5, <2>6, <2>7, <2>8, <2>9, <2>10
<1>3. CASE ReceivedDetached
  <2>1. QueuesOK'
    <3>1. broadcasts # <<>>
      BY <1>3 DEF ReceivedDetached, QueueInv
    <3>2. Head(broadcasts).device \in Devices /\ Tail(broadcasts) \in Seq(Tasks)
      BY <3>1, TaskTaken DEF QueuesOK
    <3>3. /\ broadcasts' = Tail(broadcasts) /\ orders' = orders
          /\ tasks' = Posted(tasks, "detach", Head(broadcasts).device)
      BY <1>3 DEF ReceivedDetached
    <3> QED BY <3>2, <3>3, PostedTyped DEF QueuesOK, Names
  <2>2. CountsOK'
    <3>1. UNCHANGED <<calls, closes, checks>> /\ mDeviceCounts' = 0
      BY <1>3 DEF ReceivedDetached
    <3> QED BY <3>1, NoneCounted DEF CountsOK
  <2>3. BlocksOK'
    BY <1>3 DEF ReceivedDetached, BlocksOK
  <2>4. ThreadsOK'
    BY <1>3 DEF ReceivedDetached, ThreadsOK
  <2>5. QueueInv'
    BY <1>3 DEF ReceivedDetached, QueueInv, QueuesOK, Tasks, Names, ThreadsOK
  <2>6. CheckInv'
    BY <1>3 DEF ReceivedDetached, CheckInv
  <2>7. BlockInv'
    BY <1>3 DEF ReceivedDetached, BlockInv
  <2>8. PutInv'
    BY <1>3 DEF ReceivedDetached, PutInv
  <2>9. CloseInv'
    BY <1>3 DEF ReceivedDetached, CloseInv
  <2>10. HideInv'
    BY <1>3 DEF ReceivedDetached, HideInv, Open, Known, Excused
  <2>11. SetsOK' /\ FlagsOK' /\ MapInv'
    BY <1>3 DEF ReceivedDetached, SetsOK, FlagsOK, MapInv, KnownBlockIsUsable
  <2> QED BY <2>1, <2>2, <2>3, <2>4, <2>5, <2>6, <2>7, <2>8, <2>9, <2>10, <2>11
<1>4. ASSUME NEW d \in Devices, DestroyBlock(d)
      PROVE  MonitorInv'
  <2>1. SetsOK'
    BY <1>4 DEF DestroyBlock, SetsOK
  <2>2. BlocksOK'
    BY <1>4 DEF DestroyBlock, BlocksOK
  <2>3. ThreadsOK'
    BY <1>4 DEF DestroyBlock, ThreadsOK
  <2>4. QueueInv'
    BY <1>4 DEF DestroyBlock, QueueInv, CloseInv
  <2>5. CheckInv'
    BY <1>4 DEF DestroyBlock, CheckInv
  <2>6. BlockInv'
    BY <1>4 DEF DestroyBlock, BlockInv, BlocksOK, MapInv, KnownBlockIsUsable
  <2>7. MapInv'
    BY <1>4 DEF DestroyBlock, MapInv, KnownBlockIsUsable
  <2>8. PutInv'
    BY <1>4 DEF DestroyBlock, PutInv, BlocksOK, MapInv, KnownBlockIsUsable
  <2>9. CloseInv'
    BY <1>4 DEF DestroyBlock, CloseInv, BlocksOK, MapInv, KnownBlockIsUsable
  <2>10. HideInv'
    BY <1>4 DEF DestroyBlock, HideInv, Excused, CloseInv
  <2>11. FlagsOK' /\ QueuesOK' /\ CountsOK'
    BY <1>4 DEF DestroyBlock, FlagsOK, QueuesOK, CountsOK
  <2> QED BY <2>1, <2>2, <2>3, <2>4, <2>5, <2>6, <2>7, <2>8, <2>9, <2>10, <2>11
<1>5. CASE DestroyEnd
  <2>0. /\ pc["main"] \in {"destroy", "caught"} /\ pc' = [pc EXCEPT !["main"] = "gone"]
        /\ UNCHANGED <<broadcasts, orders, blocks, block, camera, destroyed, usb, checks, calls>>
        /\ mCtrlBlocks' = [d \in Devices |-> None] /\ blk' = [blk EXCEPT !["main"] = None]
    BY <1>5 DEF DestroyEnd
  <2>1. SetsOK'
    BY <1>5 DEF DestroyEnd, SetsOK
  <2>2. QueuesOK'
    BY <1>5 DEF DestroyEnd, QueuesOK
  <2>3. BlocksOK'
    BY <1>5 DEF DestroyEnd, BlocksOK
  <2>4. ThreadsOK'
    BY <1>5 DEF DestroyEnd, ThreadsOK
  <2>5. QueueInv'
    BY <2>0 DEF ThreadsOK, BlocksOK, QueueInv
  <2>6. CheckInv'
    BY <2>0 DEF ThreadsOK, BlocksOK, CheckInv
  <2>7. BlockInv'
    BY <2>0 DEF ThreadsOK, BlocksOK, BlockInv
  <2>8. MapInv'
    BY <1>5 DEF DestroyEnd, MapInv, KnownBlockIsUsable
  <2>9. PutInv'
    BY <2>0 DEF ThreadsOK, PutInv, BlocksOK, BlockInv
  <2>10. CloseInv'
    BY <2>0 DEF ThreadsOK, BlocksOK, CloseInv
  <2>11. HideInv'
    BY <1>5 DEF DestroyEnd, HideInv, Excused, CloseInv
  <2>12. FlagsOK' /\ CountsOK'
    BY <1>5 DEF DestroyEnd, FlagsOK, CountsOK
  <2> QED BY <2>1, <2>2, <2>3, <2>4, <2>5, <2>6, <2>7, <2>8, <2>9, <2>10, <2>11, <2>12
<1> QED BY <1>1, <1>2, <1>3, <1>4, <1>5

\* The async thread.
LEMMA AsyncSteps ==
  ASSUME MonitorAssumption, MonitorInv,
         RunTask \/ ConnectGet \/ ConnectThrows \/ ConnectPut \/ OnConnect \/ CheckList \/ CheckPermissions
         \/ CheckCounts
  PROVE  MonitorInv'
<1> USE DEF MonitorInv
<1>1. CASE RunTask
  <2>1. SetsOK'
    BY <1>1 DEF RunTask, SetsOK
  <2>2. QueuesOK'
    <3>1. tasks # <<>> /\ tasks' = Tail(tasks) /\ UNCHANGED <<broadcasts, orders>>
      BY <1>1 DEF RunTask, NextTask
    <3> QED BY <3>1, Taken DEF QueuesOK
  <2>3. FlagsOK' /\ CountsOK' /\ BlocksOK' /\ ThreadsOK' /\ QueueInv' /\ CheckInv'
         /\ BlockInv' /\ MapInv' /\ PutInv' /\ CloseInv' /\ HideInv'
    BY <1>1 DEF RunTask, NextTask, FlagsOK, CountsOK, BlocksOK, ThreadsOK, QueueInv, CheckInv,
         BlockInv, MapInv, KnownBlockIsUsable, PutInv, CloseInv, HideInv, Open, Known, Excused
  <2> QED BY <2>1, <2>2, <2>3
<1>2. CASE ConnectGet
  <2>1. QueuesOK'
    BY <1>2 DEF ConnectGet, NextTask, QueuesOK
  <2>2. BlocksOK'
    <3> DEFINE d == Head(tasks).device
    <3>1. d \in Devices
      BY <1>2, TaskTaken DEF ConnectGet, NextTask, QueuesOK
    <3>2. CASE mCtrlBlocks[d] = None
      <4>1. Create(d, FALSE) /\ blk' = [blk EXCEPT !["async"] = blocks'] /\ UNCHANGED <<mCtrlBlocks, camera>>
        BY <1>2, <3>2 DEF ConnectGet
      <4>2. blocks' \in Blocks /\ block' \in [Blocks -> AnyBlock]
        BY <3>1, <4>1, Created
      <4>3. blk' \in [Threads -> Blocks \cup {None}]
        BY <4>1, <4>2 DEF BlocksOK
      <4> QED BY <4>1, <4>2, <4>3 DEF BlocksOK, MonitorAssumption
    <3>3. CASE mCtrlBlocks[d] # None
      <4>1. /\ blk' = [blk EXCEPT !["async"] = mCtrlBlocks[d]]
            /\ UNCHANGED <<mCtrlBlocks, camera, block, blocks>>
        BY <1>2, <3>3 DEF ConnectGet
      <4> QED BY <3>1, <4>1 DEF BlocksOK
    <3> QED BY <3>2, <3>3
  <2>3. ThreadsOK'
    BY <1>2 DEF ConnectGet, ThreadsOK
  <2>4. QueueInv'
    BY <1>2 DEF ConnectGet, Create, QueueInv, BlocksOK, AnyBlock, ThreadsOK
  <2>5. CheckInv'
    BY <1>2 DEF ConnectGet, CheckInv, ThreadsOK
  <2>6. BlockInv'
    <3> DEFINE d == Head(tasks).device
    <3>1. d \in Devices
      BY <1>2, TaskTaken DEF ConnectGet, NextTask, QueuesOK
    <3>2. /\ pc["async"] = "idle" /\ UNCHANGED <<usb, broadcasts, monitor, mCtrlBlocks, camera>>
          /\ pc'["main"] = pc["main"] /\ pc'["camera"] = pc["camera"]
          /\ blk'["main"] = blk["main"] /\ blk'["camera"] = blk["camera"]
      BY <1>2 DEF ConnectGet, NextTask, ThreadsOK, BlocksOK
    <3>3. CASE mCtrlBlocks[d] = None
      <4>1. /\ blk'["async"] = blocks' /\ pc'["async"] = "put" /\ Create(d, FALSE)
        BY <1>2, <3>3 DEF ConnectGet, ThreadsOK, BlocksOK
      <4>2. /\ blocks' \in Blocks /\ blocks' = blocks + 1 /\ block'[blocks'].device = d
            /\ \A b \in Blocks : b # blocks' => block'[b] = block[b]
        BY <3>1, <4>1, Created
      <4>3. \A b \in Blocks : IF b <= blocks' THEN block'[b].device \in Devices
                              ELSE block'[b].connection = "none"
        BY <3>1, <4>2 DEF BlockInv, BlocksOK, MonitorAssumption
      <4>4. blocks \in 0..MaxBlocks /\ camera \in Blocks \cup {None}
        BY DEF BlocksOK
      <4> QED BY <3>2, <4>1, <4>2, <4>3, <4>4 DEF BlockInv, MonitorAssumption
    <3>4. CASE mCtrlBlocks[d] # None
      <4>1. /\ blk'["async"] = mCtrlBlocks[d] /\ pc'["async"] = "onConnect"
            /\ UNCHANGED <<block, blocks>>
        BY <1>2, <3>4 DEF ConnectGet, ThreadsOK, BlocksOK
      <4>2. mCtrlBlocks[d] \in 1..blocks
        BY <3>1, <3>4 DEF MapInv, BlocksOK, MonitorAssumption
      <4> QED BY <3>2, <4>1, <4>2 DEF BlockInv
    <3> QED BY <3>3, <3>4
  <2>7. MapInv'
    BY <1>2 DEF ConnectGet, Create, Connected, MapInv, KnownBlockIsUsable, BlocksOK
  <2>8. PutInv'
    BY <1>2 DEF ConnectGet, Create, PutInv, Tasks, Names, BlocksOK, AnyBlock, ThreadsOK, BlockInv
  <2>9. CloseInv'
    BY <1>2 DEF ConnectGet, CloseInv, BlocksOK, ThreadsOK
  <2>10. HideInv'
    <3> DEFINE d == Head(tasks).device
    <3>1. d \in Devices
      BY <1>2, TaskTaken DEF ConnectGet, NextTask, QueuesOK
    <3>2. /\ pc["async"] = "idle" /\ UNCHANGED <<usb, broadcasts, monitor, mCtrlBlocks, camera>>
          /\ pc'["main"] = pc["main"] /\ pc'["camera"] = pc["camera"]
          /\ blk'["main"] = blk["main"] /\ blk'["camera"] = blk["camera"]
      BY <1>2 DEF ConnectGet, NextTask, ThreadsOK, BlocksOK
    <3>3. CASE mCtrlBlocks[d] = None
      <4>1. /\ blk'["async"] = blocks' /\ pc'["async"] = "put" /\ Create(d, FALSE)
        BY <1>2, <3>3 DEF ConnectGet, ThreadsOK, BlocksOK
      <4>2. /\ blocks' \in Blocks /\ blocks' = blocks + 1 /\ block'[blocks'].device = d
            /\ ~block'[blocks'].clone
            /\ block'[blocks'].connection = "open" => d \in plugged
            /\ \A b \in Blocks : b # blocks' => block'[b] = block[b]
        BY <3>1, <4>1, Created DEF Connected
      <4>3. block[blocks'].connection = "none"
        BY <4>2 DEF BlockInv, BlocksOK
      <4>4. \A x : Excused(x) => Excused(x)'
        BY <3>2, <4>2, <4>3, ExcusedKept
      <4>5. ASSUME NEW b \in Blocks, Open(b)', ~block'[b].clone
            PROVE  Known(b)' \/ Excused(block[b].device)'
        <5>1. CASE b = blocks'
          BY <4>1, <5>1 DEF Known
        <5>2. CASE b # blocks'
          <6>1. block'[b] = block[b] /\ Open(b) /\ ~block[b].clone
            BY <4>2, <4>5, <5>2 DEF Open
          <6>2. Known(b) => Known(b)'
            BY <3>2, <6>1 DEF Known
          <6> QED BY <4>4, <6>1, <6>2 DEF HideInv
        <5> QED BY <5>1, <5>2
      <4>6. ASSUME pc["main"] \in {"close", "disconnect", "forget"}, ~destroyed
            PROVE  /\ block'[blk["main"]].device \in unplugged
                   /\ \A b \in Blocks :
                        Open(b)' /\ ~block'[b].clone /\ block'[b].device = block'[blk["main"]].device =>
                          b = blk["main"] \/ Excused(block[b].device)'
        <5>1. blk["main"] \in Blocks /\ blk["main"] # blocks' /\ block'[blk["main"]] = block[blk["main"]]
          BY <4>2, <4>6 DEF BlockInv, BlocksOK, MonitorAssumption
        <5>2. block[blk["main"]].device \in unplugged
          BY <4>6 DEF HideInv
        <5>3. ASSUME NEW b \in Blocks, Open(b)', ~block'[b].clone, block'[b].device = block'[blk["main"]].device
              PROVE  b = blk["main"] \/ Excused(block[b].device)'
          <6>1. b # blocks'
            BY <4>2, <5>1, <5>2, <5>3 DEF QueueInv, Open
          <6>2. block'[b] = block[b] /\ Open(b)
            BY <4>2, <5>3, <6>1 DEF Open
          <6>3. b = blk["main"] \/ Excused(block[b].device)
            BY <4>6, <5>1, <5>3, <6>2 DEF HideInv
          <6> QED BY <4>4, <6>2, <6>3
        <5> QED BY <5>1, <5>2, <5>3
      <4> QED BY <3>2, <4>5, <4>6 DEF HideInv
    <3>4. CASE mCtrlBlocks[d] # None
      <4>1. UNCHANGED <<block, blocks>> /\ pc'["async"] = "onConnect"
        BY <1>2, <3>4 DEF ConnectGet, ThreadsOK
      <4>2. \A x : Excused(x)' <=> Excused(x)
        BY <3>2, <4>1 DEF Excused
      <4>3. \A b \in Blocks : (Known(b) => Known(b)') /\ (Open(b)' <=> Open(b))
        BY <3>2, <4>1 DEF Known, Open
      <4> QED BY <3>2, <4>1, <4>2, <4>3 DEF HideInv
    <3> QED BY <3>3, <3>4
  <2>11. SetsOK' /\ FlagsOK' /\ CountsOK'
    BY <1>2 DEF ConnectGet, SetsOK, FlagsOK, CountsOK
  <2> QED BY <2>1, <2>2, <2>3, <2>4, <2>5, <2>6, <2>7, <2>8, <2>9, <2>10, <2>11
<1>3. CASE ConnectPut
  <2>1. BlocksOK'
    BY <1>3 DEF ConnectPut, BlocksOK
  <2>2. ThreadsOK'
    BY <1>3 DEF ConnectPut, ThreadsOK
  <2>3. QueueInv'
    BY <1>3 DEF ConnectPut, QueueInv
  <2>4. CheckInv'
    BY <1>3 DEF ConnectPut, CheckInv
  <2>5. BlockInv'
    BY <1>3 DEF ConnectPut, BlockInv
  <2>6. MapInv'
    BY <1>3 DEF ConnectPut, MapInv, KnownBlockIsUsable, BlockInv, PutInv
  <2>7. PutInv'
    BY <1>3 DEF ConnectPut, PutInv, ThreadsOK
  <2>8. CloseInv'
    BY <1>3 DEF ConnectPut, CloseInv, PutInv
  <2>9. HideInv'
    BY <1>3 DEF ConnectPut, HideInv, Open, Known, Excused, BlocksOK, BlockInv, PutInv
  <2>10. SetsOK' /\ FlagsOK' /\ QueuesOK' /\ CountsOK'
    BY <1>3 DEF ConnectPut, SetsOK, FlagsOK, QueuesOK, CountsOK
  <2> QED BY <2>1, <2>2, <2>3, <2>4, <2>5, <2>6, <2>7, <2>8, <2>9, <2>10
<1>4. CASE OnConnect
  <2>1. SetsOK'
    BY <1>4 DEF OnConnect, SetsOK
  <2>2. QueuesOK'
    <3>1. /\ orders' = orders \/ orders' = Append(orders, Task("open", blk["async"]))
          /\ UNCHANGED <<broadcasts, tasks>>
      BY <1>4 DEF OnConnect
    <3>2. Task("open", blk["async"]) \in Orders
      BY DEF Orders, Names, BlocksOK
    <3> QED BY <3>1, <3>2, Extended DEF QueuesOK
  <2>3. BlocksOK'
    BY <1>4 DEF OnConnect, BlocksOK
  <2>4. ThreadsOK'
    BY <1>4 DEF OnConnect, ThreadsOK
  <2>5. QueueInv'
    BY <1>4 DEF OnConnect, QueueInv, BlockInv
  <2>6. CheckInv'
    BY <1>4 DEF OnConnect, CheckInv
  <2>7. BlockInv'
    BY <1>4 DEF OnConnect, BlockInv, ThreadsOK
  <2>8. PutInv'
    BY <1>4 DEF OnConnect, PutInv
  <2>9. CloseInv'
    BY <1>4 DEF OnConnect, CloseInv
  <2>10. HideInv'
    BY <1>4 DEF OnConnect, HideInv, Open, Known, Excused
  <2>11. FlagsOK' /\ CountsOK' /\ MapInv'
    BY <1>4 DEF OnConnect, FlagsOK, CountsOK, MapInv, KnownBlockIsUsable
  <2> QED BY <2>1, <2>2, <2>3, <2>4, <2>5, <2>6, <2>7, <2>8, <2>9, <2>10, <2>11
<1>5. CASE CheckList
  <2>1. SetsOK'
    BY <1>5 DEF CheckList, SetsOK
  <2>2. CountsOK'
    BY <1>5 DEF CheckList, CountsOK
  <2>3. ThreadsOK'
    BY <1>5 DEF CheckList, ThreadsOK
  <2>4. QueueInv'
    BY <1>5 DEF CheckList, QueueInv
  <2>5. CheckInv'
    BY <1>5 DEF CheckList, CheckInv, CountsOK
  <2>6. BlockInv'
    BY <1>5 DEF CheckList, BlockInv
  <2>7. PutInv'
    BY <1>5 DEF CheckList, PutInv
  <2>8. CloseInv'
    BY <1>5 DEF CheckList, CloseInv
  <2>9. HideInv'
    BY <1>5 DEF CheckList, HideInv, Open, Known, Excused
  <2>10. FlagsOK' /\ QueuesOK' /\ BlocksOK' /\ MapInv'
    BY <1>5 DEF CheckList, FlagsOK, QueuesOK, BlocksOK, MapInv, KnownBlockIsUsable
  <2> QED BY <2>1, <2>2, <2>3, <2>4, <2>5, <2>6, <2>7, <2>8, <2>9, <2>10
<1>6. CASE CheckPermissions
  <2>1. SetsOK'
    BY <1>6 DEF CheckPermissions, SetsOK
  <2>2. FlagsOK'
    BY <1>6 DEF CheckPermissions, FlagsOK
  <2>3. ThreadsOK'
    BY <1>6 DEF CheckPermissions, ThreadsOK
  <2>4. QueueInv'
    BY <1>6 DEF CheckPermissions, QueueInv
  <2>5. CheckInv'
    BY <1>6 DEF CheckPermissions, CheckInv
  <2>6. BlockInv'
    BY <1>6 DEF CheckPermissions, BlockInv
  <2>7. PutInv'
    BY <1>6 DEF CheckPermissions, PutInv
  <2>8. CloseInv'
    BY <1>6 DEF CheckPermissions, CloseInv
  <2>9. HideInv'
    BY <1>6 DEF CheckPermissions, HideInv, Open, Known, Excused
  <2>10. QueuesOK' /\ CountsOK' /\ BlocksOK' /\ MapInv'
    BY <1>6 DEF CheckPermissions, QueuesOK, CountsOK, BlocksOK, MapInv, KnownBlockIsUsable
  <2> QED BY <2>1, <2>2, <2>3, <2>4, <2>5, <2>6, <2>7, <2>8, <2>9, <2>10
<1>7. CASE CheckCounts
  <2>1. SetsOK'
    BY <1>7 DEF CheckCounts, SetsOK
  <2>2. FlagsOK'
    BY <1>7 DEF CheckCounts, FlagsOK
  <2>3. QueuesOK'
    <3>1. UNCHANGED <<broadcasts, orders>>
      BY <1>7 DEF CheckCounts
    <3>2. CASE tasks' = tasks
      BY <3>1, <3>2 DEF QueuesOK
    <3>3. CASE tasks' # tasks
      <4>1. PICK order \in [1..Cardinality(list) -> list] :
              tasks' = tasks \o [i \in DOMAIN order |-> Task("attach", order[i])]
        BY <1>7, <3>3 DEF CheckCounts
      <4>2. Cardinality(list) \in Nat
        BY DevicesCounted, FS_CardinalityType DEF SetsOK, MonitorAssumption
      <4>3. ASSUME NEW i \in DOMAIN order
            PROVE  Task("attach", order[i]) \in Tasks
        BY <4>3 DEF SetsOK, Tasks, Names
      <4> DEFINE attached == [i \in DOMAIN order |-> Task("attach", order[i])]
      <4>4. attached \in [1..Cardinality(list) -> Tasks]
        BY <4>3
      <4>5. tasks' = tasks \o attached
        BY <4>1
      <4> HIDE DEF attached
      <4>6. attached \in Seq(Tasks)
        BY <4>2, <4>4
      <4>7. tasks' \in Seq(Tasks)
        BY <4>5, <4>6 DEF QueuesOK
      <4> QED BY <3>1, <4>7 DEF QueuesOK
    <3> QED BY <3>2, <3>3
  <2>4. CountsOK'
    <3>1. /\ UNCHANGED <<calls, closes>> /\ checks' \in {checks, checks + 1}
          /\ mDeviceCounts' \in {mDeviceCounts, Cardinality(list)}
          /\ checks < calls
      BY <1>7 DEF CheckCounts, CheckInv
    <3> QED BY <3>1, DevicesCounted DEF CountsOK, SetsOK
  <2>5. ThreadsOK'
    BY <1>7 DEF CheckCounts, ThreadsOK
  <2>6. QueueInv'
    BY <1>7 DEF CheckCounts, QueueInv
  <2>7. CheckInv'
    BY <1>7 DEF CheckCounts, CheckInv, ThreadsOK
  <2>8. BlockInv'
    BY <1>7 DEF CheckCounts, BlockInv
  <2>9. PutInv'
    BY <1>7 DEF CheckCounts, PutInv
  <2>10. CloseInv'
    BY <1>7 DEF CheckCounts, CloseInv
  <2>11. HideInv'
    BY <1>7 DEF CheckCounts, HideInv, Open, Known, Excused
  <2>12. BlocksOK' /\ MapInv'
    BY <1>7 DEF CheckCounts, BlocksOK, MapInv, KnownBlockIsUsable
  <2> QED BY <2>1, <2>2, <2>3, <2>4, <2>5, <2>6, <2>7, <2>8, <2>9, <2>10, <2>11, <2>12
<1>8. CASE ConnectThrows
  <2>1. QueuesOK'
    <3>1. tasks # <<>> /\ tasks' = Tail(tasks) /\ UNCHANGED <<broadcasts, orders>>
      BY <1>8 DEF ConnectThrows, NextTask
    <3> QED BY <3>1, Taken DEF QueuesOK
  <2>2. ThreadsOK'
    BY <1>8 DEF ConnectThrows, ThreadsOK
  <2>3. SetsOK' /\ FlagsOK' /\ CountsOK' /\ BlocksOK' /\ MapInv'
    BY <1>8 DEF ConnectThrows, SetsOK, FlagsOK, CountsOK, BlocksOK, MapInv, KnownBlockIsUsable
  <2>4. QueueInv' /\ CheckInv' /\ BlockInv' /\ PutInv' /\ CloseInv'
    BY <1>8 DEF ConnectThrows, ThreadsOK, QueueInv, CheckInv, BlockInv, PutInv, CloseInv
  <2>5. HideInv'
    BY <1>8 DEF ConnectThrows, NextTask, ThreadsOK, HideInv, Open, Known, Excused
  <2> QED BY <2>1, <2>2, <2>3, <2>4, <2>5
<1> QED BY <1>1, <1>2, <1>3, <1>4, <1>5, <1>6, <1>7, <1>8

\* The camera thread.
LEMMA CameraSteps ==
  ASSUME MonitorAssumption, MonitorInv,
         TakeOrder \/ CameraIsClosed \/ OpenCamera
  PROVE  MonitorInv'
<1> USE DEF MonitorInv
<1>1. CASE TakeOrder
  <2>1. BlocksOK'
    BY <1>1 DEF TakeOrder, BlocksOK
  <2>2. ThreadsOK'
    BY <1>1 DEF TakeOrder, ThreadsOK
  <2>3. QueueInv'
    BY <1>1 DEF TakeOrder, QueueInv
  <2>4. CheckInv'
    BY <1>1 DEF TakeOrder, CheckInv
  <2>5. BlockInv'
    BY <1>1 DEF TakeOrder, BlockInv, BlocksOK
  <2>6. PutInv'
    BY <1>1 DEF TakeOrder, PutInv
  <2>7. CloseInv'
    BY <1>1 DEF TakeOrder, CloseInv
  <2>8. HideInv'
    BY <1>1 DEF TakeOrder, HideInv, Open, Known, Excused
  <2>9. SetsOK' /\ FlagsOK' /\ QueuesOK' /\ CountsOK' /\ MapInv'
    BY <1>1 DEF TakeOrder, SetsOK, FlagsOK, QueuesOK, CountsOK, MapInv, KnownBlockIsUsable
  <2> QED BY <2>1, <2>2, <2>3, <2>4, <2>5, <2>6, <2>7, <2>8, <2>9
<1>2. CASE CameraIsClosed
  <2>1. QueuesOK'
    BY <1>2 DEF CameraIsClosed, QueuesOK, QueueInv
  <2>2. BlocksOK'
    BY <1>2 DEF CameraIsClosed, BlocksOK
  <2>3. ThreadsOK'
    BY <1>2 DEF CameraIsClosed, ThreadsOK
  <2>4. QueueInv'
    BY <1>2 DEF CameraIsClosed, QueueInv, ThreadsOK
  <2>5. CheckInv'
    BY <1>2 DEF CameraIsClosed, CheckInv
  <2>6. BlockInv'
    BY <1>2 DEF CameraIsClosed, BlockInv
  <2>7. PutInv'
    BY <1>2 DEF CameraIsClosed, PutInv
  <2>8. CloseInv'
    BY <1>2 DEF CameraIsClosed, CloseInv
  <2>9. HideInv'
    BY <1>2 DEF CameraIsClosed, HideInv, Open, Known, Excused
  <2>10. SetsOK' /\ FlagsOK' /\ CountsOK' /\ MapInv'
    BY <1>2 DEF CameraIsClosed, SetsOK, FlagsOK, CountsOK, MapInv, KnownBlockIsUsable
  <2> QED BY <2>1, <2>2, <2>3, <2>4, <2>5, <2>6, <2>7, <2>8, <2>9, <2>10
<1>3. CASE OpenCamera
  <2>1. QueuesOK'
    BY <1>3 DEF OpenCamera, QueuesOK, QueueInv
  <2>2. BlocksOK'
    <3>1. block[Head(orders).device].device \in Devices
      BY <1>3, Taken DEF OpenCamera, QueueInv, QueuesOK, BlockInv, BlocksOK
    <3>2. CASE UNCHANGED <<block, blocks, camera>>
      BY <1>3, <3>2 DEF OpenCamera, BlocksOK
    <3>3. CASE ~UNCHANGED <<block, blocks, camera>>
      <4>1. /\ Create(block[Head(orders).device].device, TRUE) /\ camera' \in {None, blocks'}
            /\ UNCHANGED <<mCtrlBlocks, blk>>
        BY <1>3, <3>3 DEF OpenCamera
      <4>2. blocks' \in Blocks /\ block' \in [Blocks -> AnyBlock]
        BY <3>1, <4>1, Created
      <4> QED BY <4>1, <4>2 DEF BlocksOK, MonitorAssumption
    <3> QED BY <3>2, <3>3
  <2>3. ThreadsOK'
    BY <1>3 DEF OpenCamera, ThreadsOK
  <2>4. QueueInv'
    <3>1. /\ UNCHANGED <<plugged, unplugged, destroyed, broadcasts>> /\ orders' = Tail(orders)
          /\ pc["camera"] = "clone" /\ pc' = [pc EXCEPT !["camera"] = "idle"]
          /\ blocks' \in {blocks, blocks + 1}
      BY <1>3 DEF OpenCamera, Create
    <3>2. orders \in Seq(Orders) /\ orders # <<>>
      BY <3>1 DEF QueueInv, QueuesOK
    <3>3. /\ Len(Tail(orders)) = Len(orders) - 1 /\ Len(orders) \in Nat
          /\ \A i \in 1..Len(Tail(orders)) : Tail(orders)[i] = orders[i + 1]
      BY <3>2, Taken
    <3>4. \A i \in 1..Len(Tail(orders)) :
            Tail(orders)[i].what = "open" => Tail(orders)[i].device \in 1..blocks
      BY <3>3 DEF QueueInv
    <3>5. pc'["camera"] = "idle" /\ pc'["main"] = pc["main"]
      BY <3>1 DEF ThreadsOK
    <3> QED BY <3>1, <3>4, <3>5 DEF QueueInv, BlocksOK, MonitorAssumption
  <2>5. CheckInv'
    BY <1>3 DEF OpenCamera, CheckInv
  <2>6. BlockInv'
    <3>1. block[Head(orders).device].device \in Devices
      BY <1>3, Taken DEF OpenCamera, QueueInv, QueuesOK, BlockInv, BlocksOK
    <3>2. /\ UNCHANGED <<usb, broadcasts, monitor, mCtrlBlocks, blk>>
          /\ pc["camera"] = "clone" /\ pc'["camera"] = "idle"
          /\ pc'["main"] = pc["main"] /\ pc'["async"] = pc["async"]
      BY <1>3 DEF OpenCamera, ThreadsOK
    <3>3. CASE UNCHANGED <<block, blocks, camera>>
      BY <3>2, <3>3 DEF BlockInv
    <3>4. CASE ~UNCHANGED <<block, blocks, camera>>
      <4>1. Create(block[Head(orders).device].device, TRUE) /\ camera' \in {None, blocks'}
        BY <1>3, <3>4 DEF OpenCamera
      <4>2. /\ blocks' \in Blocks /\ blocks' = blocks + 1 /\ block'[blocks'].clone
            /\ block'[blocks'].device \in Devices
            /\ \A b \in Blocks : b # blocks' => block'[b] = block[b]
        BY <3>1, <4>1, Created
      <4>3. blocks \in 0..MaxBlocks
        BY DEF BlocksOK
      <4>4. \A b \in Blocks : IF b <= blocks' THEN block'[b].device \in Devices
                              ELSE block'[b].connection = "none"
        BY <4>2, <4>3 DEF BlockInv, MonitorAssumption
      <4> QED BY <3>2, <4>1, <4>2, <4>3, <4>4 DEF BlockInv, MonitorAssumption
    <3> QED BY <3>3, <3>4
  <2>7. MapInv'
    <3>1. block[Head(orders).device].device \in Devices
      BY <1>3, Taken DEF OpenCamera, QueueInv, QueuesOK, BlockInv, BlocksOK
    <3>2. UNCHANGED mCtrlBlocks
      BY <1>3 DEF OpenCamera
    <3>3. CASE UNCHANGED <<block, blocks>>
      BY <3>2, <3>3 DEF MapInv, KnownBlockIsUsable
    <3>4. CASE ~UNCHANGED <<block, blocks>>
      <4>1. Create(block[Head(orders).device].device, TRUE)
        BY <1>3, <3>4 DEF OpenCamera
      <4>2. /\ blocks' = blocks + 1 /\ \A b \in Blocks : b # blocks' => block'[b] = block[b]
        BY <3>1, <4>1, Created
      <4> QED BY <3>2, <4>2 DEF MapInv, KnownBlockIsUsable, BlocksOK, MonitorAssumption
    <3> QED BY <3>3, <3>4
  <2>8. PutInv'
    <3>1. block[Head(orders).device].device \in Devices
      BY <1>3, Taken DEF OpenCamera, QueueInv, QueuesOK, BlockInv, BlocksOK
    <3>2. /\ UNCHANGED <<usb, broadcasts, monitor, mCtrlBlocks, blk>>
          /\ pc["camera"] = "clone" /\ pc'["camera"] = "idle"
          /\ pc'["main"] = pc["main"] /\ pc'["async"] = pc["async"]
      BY <1>3 DEF OpenCamera, ThreadsOK
    <3>3. CASE UNCHANGED <<block, blocks, camera>>
      BY <3>2, <3>3 DEF PutInv
    <3>4. CASE ~UNCHANGED <<block, blocks, camera>>
      <4>1. Create(block[Head(orders).device].device, TRUE) /\ camera' \in {None, blocks'}
        BY <1>3, <3>4 DEF OpenCamera
      <4>2. /\ blocks' \in Blocks /\ blocks' = blocks + 1 /\ block'[blocks'].clone
            /\ block'[blocks'].device \in Devices
            /\ \A b \in Blocks : b # blocks' => block'[b] = block[b]
        BY <3>1, <4>1, Created
      <4>3. pc["async"] = "put" => /\ blk["async"] \in Blocks /\ blk["async"] # blocks'
                                   /\ block'[blk["async"]] = block[blk["async"]]
        BY <4>2 DEF BlockInv, BlocksOK, MonitorAssumption
      <4> QED BY <3>2, <4>3 DEF PutInv
    <3> QED BY <3>3, <3>4
  <2>9. CloseInv'
    BY <1>3 DEF OpenCamera, CloseInv
  <2>10. HideInv'
    <3>1. block[Head(orders).device].device \in Devices
      BY <1>3, Taken DEF OpenCamera, QueueInv, QueuesOK, BlockInv, BlocksOK
    <3>2. /\ UNCHANGED <<usb, broadcasts, monitor, mCtrlBlocks, blk>>
          /\ pc["camera"] = "clone" /\ pc'["camera"] = "idle"
          /\ pc'["main"] = pc["main"] /\ pc'["async"] = pc["async"]
      BY <1>3 DEF OpenCamera, ThreadsOK
    <3>3. CASE UNCHANGED <<block, blocks, camera>>
      BY <3>2, <3>3 DEF HideInv, Excused, Known, Open
    <3>4. CASE ~UNCHANGED <<block, blocks, camera>>
      <4>1. Create(block[Head(orders).device].device, TRUE) /\ camera' \in {None, blocks'}
        BY <1>3, <3>4 DEF OpenCamera
      <4>2. /\ blocks' \in Blocks /\ blocks' = blocks + 1 /\ block'[blocks'].clone
            /\ block'[blocks'].device \in Devices
            /\ \A b \in Blocks : b # blocks' => block'[b] = block[b]
        BY <3>1, <4>1, Created
      <4>3. block[blocks'].connection = "none"
        BY <4>2 DEF BlockInv, BlocksOK
      <4>4. \A x : Excused(x) => Excused(x)'
        BY <3>2, <4>2, <4>3, ExcusedKept
      <4>5. ASSUME NEW b \in Blocks, Open(b)', ~block'[b].clone
            PROVE  /\ block'[b] = block[b] /\ Open(b) /\ ~block[b].clone
                   /\ Known(b) => Known(b)'
        <5>1. block'[b] = block[b] /\ Open(b) /\ ~block[b].clone
          BY <4>2, <4>5 DEF Open
        <5> QED BY <3>2, <5>1 DEF Known
      <4>6. \A b \in Blocks : Open(b)' /\ ~block'[b].clone => Known(b)' \/ Excused(block[b].device)'
        BY <4>4, <4>5 DEF HideInv
      <4>7. ASSUME pc["main"] \in {"close", "disconnect", "forget"}, ~destroyed
            PROVE  /\ block'[blk["main"]].device \in unplugged
                   /\ \A b \in Blocks :
                        Open(b)' /\ ~block'[b].clone /\ block'[b].device = block'[blk["main"]].device =>
                          b = blk["main"] \/ Excused(block[b].device)'
        <5>1. block'[blk["main"]] = block[blk["main"]]
          BY <4>2, <4>7 DEF BlockInv, BlocksOK, MonitorAssumption
        <5> QED BY <4>4, <4>5, <4>7, <5>1 DEF HideInv
      <4> QED BY <3>2, <4>6, <4>7 DEF HideInv
    <3> QED BY <3>3, <3>4
  <2>11. SetsOK' /\ FlagsOK' /\ CountsOK'
    BY <1>3 DEF OpenCamera, SetsOK, FlagsOK, CountsOK
  <2> QED BY <2>1, <2>2, <2>3, <2>4, <2>5, <2>6, <2>7, <2>8, <2>9, <2>10, <2>11
<1> QED BY <1>1, <1>2, <1>3

LEMMA InitInv ==
  ASSUME MonitorAssumption, Init
  PROVE  MonitorInv
<1>1. SetsOK /\ FlagsOK /\ QueuesOK
  <2>1. SetsOK
    BY DEF Init, SetsOK
  <2>2. FlagsOK
    BY DEF Init, FlagsOK
  <2>3. QueuesOK
    BY DEF Init, QueuesOK
  <2> QED BY <2>1, <2>2, <2>3
<1>2. CountsOK
  BY NoneCounted DEF Init, CountsOK, MonitorAssumption
<1>3. BlocksOK
  BY DEF Init, BlocksOK, AnyBlock, MonitorAssumption
<1>4. ThreadsOK
  BY DEF Init, ThreadsOK
<1>5. QueueInv /\ CheckInv
  BY DEF Init, QueueInv, CheckInv
<1>6. BlockInv
  BY DEF Init, BlockInv
<1>7. MapInv /\ PutInv /\ CloseInv
  BY DEF Init, MapInv, KnownBlockIsUsable, PutInv, CloseInv
<1>8. HideInv
  BY DEF Init, HideInv, Open
<1> QED BY <1>1, <1>2, <1>3, <1>4, <1>5, <1>6, <1>7, <1>8 DEF MonitorInv

LEMMA NextInv ==
  ASSUME MonitorAssumption, MonitorInv, [Next]_vars
  PROVE  MonitorInv'
<1>1. CASE UNCHANGED vars
  <2>1. SetsOK' /\ FlagsOK' /\ QueuesOK' /\ CountsOK' /\ BlocksOK' /\ ThreadsOK'
    BY <1>1 DEF vars, MonitorInv, SetsOK, FlagsOK, QueuesOK, CountsOK, BlocksOK, ThreadsOK
  <2>2. QueueInv' /\ CheckInv' /\ BlockInv'
    BY <1>1 DEF vars, MonitorInv, QueueInv, CheckInv, BlockInv
  <2>3. MapInv' /\ PutInv' /\ CloseInv'
    BY <1>1 DEF vars, MonitorInv, MapInv, KnownBlockIsUsable, PutInv, CloseInv
  <2>4. HideInv'
    BY <1>1 DEF vars, MonitorInv, HideInv, Excused, Known, Open
  <2> QED BY <2>1, <2>2, <2>3, <2>4 DEF MonitorInv
<1>2. CASE ClientCall \/ RunClose
  BY <1>2, ClientSteps DEF ClientCall
<1>3. CASE Environment
  BY <1>3, EnvironmentSteps DEF Environment
<1>4. ASSUME NEW t \in {"main", "camera"}, CloseBlock(t)
      PROVE  MonitorInv'
  BY <1>4, CloseSteps DEF CloseBlock
<1>5. CASE MainStep
  BY <1>4, <1>5, MainSteps DEF MainStep
<1>6. CASE ConnectStep \/ CheckStep
  BY <1>6, AsyncSteps DEF ConnectStep, CheckStep
<1>7. CASE CameraStep
  BY <1>4, <1>7, CameraSteps DEF CameraStep
<1> QED BY <1>2, <1>3, <1>5, <1>6, <1>7, <1>1 DEF Next

-----------------------------------------------------------------------------
(* The theorems *)

\* The inductive invariant holds of every monitor.
THEOREM InvariantHolds ==
  MonitorAssumption /\ Spec => []MonitorInv
<1> SUFFICES ASSUME MonitorAssumption PROVE Spec => []MonitorInv
  OBVIOUS
<1>1. Init => MonitorInv
  BY InitInv
<1>2. MonitorInv /\ [Next]_vars => MonitorInv'
  BY NextInv
<1> QED BY <1>1, <1>2, PTL DEF Spec

\* Every variable of the monitor has a value of its type: register and the check that posts
\* itself again never leave more checks in the queue than register was called.
THEOREM TypeCorrect ==
  MonitorAssumption /\ Spec => []TypeOK
<1> SUFFICES ASSUME MonitorAssumption PROVE Spec => []TypeOK
  OBVIOUS
<1>1. MonitorInv => TypeOK
  BY DEF MonitorInv, TypeOK
<1> QED BY <1>1, InvariantHolds, PTL

\* However the calls, the broadcasts, the async thread and the camera thread interleave, the
\* block in mCtrlBlocks is its device's own, no clone, and was never closed.
THEOREM KnownBlocksAreUsable ==
  MonitorAssumption /\ Spec => []KnownBlockIsUsable
<1> SUFFICES ASSUME MonitorAssumption PROVE Spec => []KnownBlockIsUsable
  OBVIOUS
<1>1. MonitorInv => KnownBlockIsUsable
  BY DEF MonitorInv, MapInv
<1> QED BY <1>1, InvariantHolds, PTL

\* An open block is lost only after a clone of it was closed, or after destroy.
THEOREM OnlyClosedClonesHide ==
  MonitorAssumption /\ Spec => []OnlyClonesHideBlocks
<1> SUFFICES ASSUME MonitorAssumption PROVE Spec => []OnlyClonesHideBlocks
  OBVIOUS
<1>1. MonitorInv => OnlyClonesHideBlocks
  BY DEF MonitorInv, HideInv, Excused, OnlyClonesHideBlocks
<1> QED BY <1>1, InvariantHolds, PTL

-----------------------------------------------------------------------------
(* The answer to a request is never lost *)

\* One of these messages about the device is in the queue.
Said(q, d, names) == \E i \in 1..Len(q) : q[i].device = d /\ q[i].what \in names

Opening == pc["async"] \in {"put", "onConnect"}

\* The user is being asked and will be heard, the answer is on its way to the UI thread, the
\* UI thread has posted it, or the async thread is on its way to onConnect.
AnswerComes(d) ==
  \/ registered /\ d \in asking
  \/ Said(broadcasts, d, {"granted", "denied"})
  \/ Said(tasks, d, {"connect", "cancel"})
  \/ Opening /\ block[blk["async"]].device = d

\* Every request the client waits for is going to be answered, or the user is being asked,
\* unless an exception has ended the async thread.
AnswersAreOwed == pc["async"] # "crashed" => \A d \in asked : AnswerComes(d)

\* After destroy the client waits for nothing, and the UI thread comes to no other call.
GoneInv ==
  destroyed => asked = {} /\ pc["main"] \in {"close", "disconnect", "forget", "destroy", "caught", "gone"}

\* The broadcast the UI thread is working on is the one it took.
HeadInv ==
  pc["main"] \in {"close", "disconnect", "forget", "detached"} /\ ~destroyed =>
    broadcasts # <<>> /\ Head(broadcasts).what = "detached"

AnswerInv == AnswersAreOwed /\ GoneInv /\ HeadInv

LEMMA AppendedSaid ==
  ASSUME NEW S, NEW q \in Seq(S), NEW e \in S, NEW d, NEW names
  PROVE  /\ Said(q, d, names) => Said(Append(q, e), d, names)
         /\ e.device = d /\ e.what \in names => Said(Append(q, e), d, names)
         /\ q # <<>> => Head(Append(q, e)) = Head(q) /\ Append(q, e) # <<>>
<1> DEFINE r == Append(q, e)
<1>1. /\ Len(r) = Len(q) + 1 /\ Len(q) \in Nat /\ r[Len(q) + 1] = e
      /\ \A i \in 1..Len(q) : r[i] = q[i]
  OBVIOUS
<1>2. q # <<>> => Head(r) = Head(q) /\ r # <<>>
  OBVIOUS
<1> HIDE DEF r
<1>3. Said(q, d, names) => Said(r, d, names)
  <2> SUFFICES ASSUME NEW i \in 1..Len(q), q[i].device = d /\ q[i].what \in names
               PROVE  Said(r, d, names)
    BY DEF Said
  <2>1. i \in 1..Len(r) /\ r[i] = q[i]
    BY <1>1
  <2> QED BY <2>1 DEF Said
<1>4. e.device = d /\ e.what \in names => Said(r, d, names)
  <2>1. Len(q) + 1 \in 1..Len(r)
    BY <1>1
  <2> QED BY <1>1, <2>1 DEF Said
<1> QED BY <1>2, <1>3, <1>4 DEF r

LEMMA JoinedSaid ==
  ASSUME NEW S, NEW q \in Seq(S), NEW r \in Seq(S), NEW d, NEW names, Said(q, d, names)
  PROVE  Said(q \o r, d, names)
<1>1. PICK i \in 1..Len(q) : q[i].device = d /\ q[i].what \in names
  BY DEF Said
<1>2. i \in 1..Len(q \o r) /\ (q \o r)[i] = q[i]
  OBVIOUS
<1> QED BY <1>1, <1>2 DEF Said

LEMMA TakenSaid ==
  ASSUME NEW S, NEW q \in Seq(S), q # <<>>, NEW d, NEW names, Said(q, d, names)
  PROVE  Said(Tail(q), d, names) \/ (Head(q).device = d /\ Head(q).what \in names)
<1>1. PICK i \in 1..Len(q) : q[i].device = d /\ q[i].what \in names
  BY DEF Said
<1>2. CASE i = 1
  BY <1>1, <1>2, Taken
<1>3. CASE i # 1
  <2>1. i - 1 \in 1..Len(Tail(q)) /\ Tail(q)[i - 1] = q[i]
    BY <1>3, Taken
  <2> QED BY <1>1, <2>1 DEF Said
<1> QED BY <1>2, <1>3

\* A step that takes none of the ways away on which an answer comes.
LEMMA AnswersKept ==
  ASSUME AnswersAreOwed, asked' \subseteq asked, pc["async"] = "crashed" => pc'["async"] = "crashed",
         \A d \in asked' : registered /\ d \in asking => AnswerComes(d)',
         \A d \in asked' : Said(broadcasts, d, {"granted", "denied"}) => AnswerComes(d)',
         \A d \in asked' : Said(tasks, d, {"connect", "cancel"}) => AnswerComes(d)',
         \A d \in asked' : Opening /\ block[blk["async"]].device = d => AnswerComes(d)'
  PROVE  AnswersAreOwed'
BY DEF AnswersAreOwed, AnswerComes

\* A block keeps its device for ever.
LEMMA DeviceKept ==
  ASSUME MonitorAssumption, MonitorInv, [Next]_vars
  PROVE  \A b \in 1..blocks : block'[b].device = block[b].device
<1>1. CASE UNCHANGED block
  BY <1>1
<1>2. CASE CloseConnection("main") \/ CloseConnection("camera")
  <2>1. \A b \in Blocks : block'[b].device = block[b].device
    BY <1>2, ClosesOwn
  <2>2. \A b \in 1..blocks : b \in Blocks
    BY DEF MonitorInv, BlocksOK, MonitorAssumption
  <2> QED BY <2>1, <2>2
<1>3. ASSUME NEW d \in Devices, NEW clone \in BOOLEAN, Create(d, clone)
      PROVE  \A b \in 1..blocks : block'[b].device = block[b].device
  <2>1. \A b \in 1..blocks : b \in Blocks /\ b # blocks + 1
    BY DEF MonitorInv, BlocksOK, MonitorAssumption
  <2> QED BY <1>3, <2>1, Created
<1>4. CASE ConnectGet /\ ~UNCHANGED block
  <2>1. Head(tasks).device \in Devices
    BY <1>4, TaskTaken DEF ConnectGet, NextTask, MonitorInv, QueuesOK
  <2>2. Create(Head(tasks).device, FALSE)
    BY <1>4 DEF ConnectGet
  <2> QED BY <1>3, <2>1, <2>2
<1>5. CASE OpenCamera /\ ~UNCHANGED block
  <2> DEFINE d == block[Head(orders).device].device
  <2>1. Create(d, TRUE) /\ d \in plugged
    BY <1>5 DEF OpenCamera, Connected
  <2>2. d \in Devices
    BY <2>1 DEF MonitorInv, SetsOK
  <2> HIDE DEF d
  <2> QED BY <1>3, <2>1, <2>2
<1>6. ASSUME ~UNCHANGED block, ~ConnectGet, ~OpenCamera, Next
      PROVE  CloseConnection("main") \/ CloseConnection("camera")
  <2>1. ~ClientCall /\ ~Environment /\ ~RunClose
    BY <1>6 DEF ClientCall, Register, Unregister, CloseCamera, Destroy, RequestPermission, Environment,
       Plug, Unplug, Answer, RunClose
  <2>2. ~ConnectStep /\ ~CheckStep
    BY <1>6 DEF ConnectStep, RunTask, ConnectThrows, ConnectPut, OnConnect, CheckStep, CheckList, CheckPermissions, CheckCounts
  <2>3. MainStep => CloseConnection("main")
    BY <1>6 DEF MainStep, ReceiveAnswer, ReceiveDetached, ReceivedDetached, CloseBlock, Disconnect, Forget,
       ForgetThrows, DestroyBlock, DestroyEnd
  <2>4. CameraStep => CloseConnection("camera")
    BY <1>6 DEF CameraStep, TakeOrder, CameraIsClosed, CloseBlock, Disconnect, Forget, ForgetThrows
  <2> QED BY <1>6, <2>1, <2>2, <2>3, <2>4 DEF Next
<1> QED BY <1>1, <1>2, <1>4, <1>5, <1>6 DEF vars

\* What the service sends is appended, as long as somebody listens.
LEMMA SentSaid ==
  ASSUME MonitorInv, NEW what \in Names, NEW d \in Devices, Sent(what, d)
  PROVE  /\ \A e : Said(broadcasts, e, {"granted", "denied"}) => Said(broadcasts', e, {"granted", "denied"})
         /\ registered /\ what \in {"granted", "denied"} => Said(broadcasts', d, {"granted", "denied"})
         /\ broadcasts # <<>> => broadcasts' # <<>> /\ Head(broadcasts') = Head(broadcasts)
<1>1. broadcasts \in Seq(Tasks) /\ registered \in BOOLEAN
  BY DEF MonitorInv, QueuesOK, FlagsOK
<1>2. CASE ~registered
  BY <1>2 DEF Sent
<1>3. CASE registered
  <2> DEFINE m == Task(what, d)
  <2>1. m \in Tasks /\ m.device = d /\ m.what = what
    BY DEF Tasks
  <2>2. broadcasts' = Append(broadcasts, m)
    BY <1>3 DEF Sent
  <2> HIDE DEF m
  <2> QED BY <1>1, <2>1, <2>2, AppendedSaid
<1> QED BY <1>2, <1>3

\* What is posted before the looper has quit is appended.
LEMMA PostedSaid ==
  ASSUME NEW q \in Seq(Tasks), NEW what \in Names, NEW d \in Devices
  PROVE  /\ \A e : Said(q, e, {"connect", "cancel"}) => Said(Posted(q, what, d), e, {"connect", "cancel"})
         /\ pc["main"] # "gone" /\ what \in {"connect", "cancel"} => Said(Posted(q, what, d), d, {"connect", "cancel"})
<1>1. CASE pc["main"] = "gone"
  BY <1>1 DEF Posted
<1>2. CASE pc["main"] # "gone"
  <2> DEFINE m == Task(what, d)
  <2>1. m \in Tasks /\ m.device = d /\ m.what = what
    BY DEF Tasks
  <2>2. Posted(q, what, d) = Append(q, m)
    BY <1>2 DEF Posted
  <2> HIDE DEF m
  <2> QED BY <2>1, <2>2, AppendedSaid
<1> QED BY <1>1, <1>2

\* The user answers before or after the device is gone.
LEMMA EnvironmentAnswers ==
  ASSUME MonitorInv, AnswerInv, Environment
  PROVE  AnswerInv'
<1>1. UNCHANGED <<registered, destroyed, asked, tasks, pc, blk, block>>
  BY DEF Environment, Plug, Unplug, Answer
<1>2. PICK d \in Devices : Plug(d) \/ Unplug(d) \/ \E granted \in BOOLEAN : Answer(d, granted)
  BY DEF Environment
<1>3. \/ UNCHANGED <<broadcasts, asking>>
      \/ Sent("detached", d) /\ UNCHANGED asking
      \/ (Sent("granted", d) \/ Sent("denied", d)) /\ asking' = asking \ {d}
  BY <1>2 DEF Plug, Unplug, Answer
<1>4. /\ \A e : Said(broadcasts, e, {"granted", "denied"}) => Said(broadcasts', e, {"granted", "denied"})
      /\ broadcasts # <<>> => broadcasts' # <<>> /\ Head(broadcasts') = Head(broadcasts)
      /\ \A e \in asking : registered => e \in asking' \/ Said(broadcasts', e, {"granted", "denied"})
  <2>1. CASE UNCHANGED <<broadcasts, asking>>
    BY <2>1
  <2>2. CASE Sent("detached", d) /\ UNCHANGED asking
    BY <2>2, SentSaid DEF Names
  <2>3. CASE (Sent("granted", d) \/ Sent("denied", d)) /\ asking' = asking \ {d}
    <3>1. PICK what \in {"granted", "denied"} : Sent(what, d)
      BY <2>3
    <3> QED BY <2>3, <3>1, SentSaid DEF Names
  <2> QED BY <1>3, <2>1, <2>2, <2>3
<1>5. GoneInv' /\ HeadInv'
  BY <1>1, <1>4 DEF AnswerInv, GoneInv, HeadInv
<1>6. AnswersAreOwed'
  BY <1>1, <1>4 DEF AnswerInv, AnswersAreOwed, AnswerComes, Opening
<1> QED BY <1>5, <1>6 DEF AnswerInv

\* A request is asked, posted or refused at once; unregister and destroy forget the requests.
LEMMA ClientAnswers ==
  ASSUME MonitorInv, AnswerInv, ClientCall \/ RunClose
  PROVE  AnswerInv'
<1>1. CASE Register \/ CloseCamera \/ RunClose
  <2>1. UNCHANGED <<destroyed, asked, asking, broadcasts, tasks, pc, blk, block>> /\ (registered => registered')
    BY <1>1 DEF Register, CloseCamera, RunClose
  <2>2. GoneInv' /\ HeadInv'
    BY <2>1 DEF AnswerInv, GoneInv, HeadInv
  <2>3. AnswersAreOwed'
    BY <2>1 DEF AnswerInv, AnswersAreOwed, AnswerComes, Opening
  <2> QED BY <2>2, <2>3 DEF AnswerInv
<1>2. CASE Unregister
  <2>1. asked' = {} /\ UNCHANGED <<destroyed, pc>> /\ pc["main"] = "idle"
    BY <1>2 DEF Unregister, ForgetEvents, Call, Calling
  <2> QED BY <2>1 DEF AnswerInv, GoneInv, HeadInv, AnswersAreOwed
<1>3. CASE Destroy
  <2>1. asked' = {} /\ destroyed' /\ pc'["main"] = "destroy"
    BY <1>3 DEF Destroy, ForgetEvents, MonitorInv, ThreadsOK
  <2> QED BY <2>1 DEF AnswerInv, GoneInv, HeadInv, AnswersAreOwed
<1>4. ASSUME NEW d \in Devices, RequestPermission(d)
      PROVE  AnswerInv'
  <2>1. /\ UNCHANGED <<destroyed, registered, broadcasts, pc, blk, block>> /\ asked' = asked \cup {d}
        /\ pc["main"] = "idle" /\ tasks \in Seq(Tasks)
    BY <1>4 DEF RequestPermission, Call, Calling, MonitorInv, QueuesOK
  <2>2. /\ \A e : Said(tasks, e, {"connect", "cancel"}) => Said(tasks', e, {"connect", "cancel"})
        /\ asking \subseteq asking'
        /\ (registered' /\ d \in asking') \/ Said(tasks', d, {"connect", "cancel"})
    <3>1. CASE tasks' = Posted(tasks, "connect", d) /\ UNCHANGED asking
      BY <2>1, <3>1, PostedSaid DEF Names
    <3>2. CASE tasks' = Posted(tasks, "cancel", d) /\ UNCHANGED asking
      BY <2>1, <3>2, PostedSaid DEF Names
    <3>3. CASE registered /\ asking' = asking \cup {d} /\ UNCHANGED tasks
      BY <2>1, <3>3
    <3> QED BY <1>4, <3>1, <3>2, <3>3 DEF RequestPermission, ProcessConnect, ProcessCancel
  <2>3. GoneInv' /\ HeadInv'
    BY <2>1 DEF AnswerInv, GoneInv, HeadInv
  <2>4. AnswersAreOwed'
    <3>1. pc["async"] # "crashed" => \A e \in asked : AnswerComes(e)'
      BY <2>1, <2>2 DEF AnswerInv, AnswersAreOwed, AnswerComes, Opening
    <3>2. AnswerComes(d)'
      BY <2>2 DEF AnswerComes
    <3> QED BY <2>1, <3>1, <3>2 DEF AnswersAreOwed
  <2> QED BY <2>3, <2>4 DEF AnswerInv
<1> QED BY <1>1, <1>2, <1>3, <1>4 DEF ClientCall

\* The UI thread passes the answer on to the async thread, and what it does with another
\* broadcast leaves the answers behind it in the queue.
LEMMA MainAnswers ==
  ASSUME MonitorAssumption, MonitorInv, MonitorInv', AnswerInv, MainStep
  PROVE  AnswerInv'
<1>1. UNCHANGED <<registered, destroyed, asking, asked>> /\ pc'["async"] = pc["async"] /\ blk'["async"] = blk["async"]
  BY DEF MainStep, ReceiveAnswer, ReceiveDetached, ReceivedDetached, CloseBlock, CloseConnection, Disconnect,
     Forget, ForgetThrows, DestroyBlock, DestroyEnd, MonitorInv, BlocksOK, ThreadsOK
<1>2. Opening => block'[blk["async"]].device = block[blk["async"]].device
  BY DeviceKept DEF Next, Opening, MonitorInv, BlockInv
<1>3. broadcasts \in Seq(Tasks) /\ tasks \in Seq(Tasks)
  BY DEF MonitorInv, QueuesOK
<1>4. GoneInv'
  <2>1. destroyed => pc["main"] # "idle" /\ pc["main"] # "detached"
    BY DEF AnswerInv, GoneInv
  <2>2. destroyed => pc'["main"] \in {"close", "disconnect", "forget", "destroy", "caught", "gone"}
    BY <2>1 DEF MainStep, ReceiveAnswer, ReceiveDetached, ReceivedDetached, CloseBlock, CloseConnection,
       Disconnect, Forget, ForgetThrows, Closed, DestroyBlock, DestroyEnd, MonitorInv, ThreadsOK
  <2> QED BY <1>1, <2>2 DEF AnswerInv, GoneInv
<1>5. HeadInv'
  <2>1. CASE ReceiveAnswer
    BY <2>1 DEF ReceiveAnswer, HeadInv
  <2>2. CASE ReceiveDetached
    BY <2>2 DEF ReceiveDetached, HeadInv
  <2>3. CASE ReceivedDetached \/ DestroyEnd
    BY <2>3 DEF ReceivedDetached, DestroyEnd, HeadInv, MonitorInv, ThreadsOK
  <2>4. CASE CloseBlock("main")
    <3>1. UNCHANGED <<broadcasts, destroyed>> /\ pc["main"] \in {"close", "disconnect", "forget"}
      BY <2>4 DEF CloseBlock, CloseConnection, Disconnect, Forget, ForgetThrows
    <3> QED BY <3>1 DEF AnswerInv, HeadInv
  <2>5. CASE \E d \in Devices : DestroyBlock(d)
    <3>1. destroyed /\ UNCHANGED destroyed
      BY <2>5 DEF DestroyBlock, MonitorInv, CloseInv
    <3> QED BY <3>1 DEF HeadInv
  <2> QED BY <2>1, <2>2, <2>3, <2>4, <2>5 DEF MainStep
<1>6. CASE destroyed
  BY <1>1, <1>4, <1>5, <1>6 DEF AnswerInv, GoneInv, AnswersAreOwed
<1>7. CASE ~destroyed
  <2>1. \A d : Said(tasks, d, {"connect", "cancel"}) => Said(tasks', d, {"connect", "cancel"})
    <3>1. CASE UNCHANGED tasks
      BY <3>1
    <3>2. CASE DestroyEnd
      BY <1>7, <3>2 DEF DestroyEnd, MonitorInv, CloseInv
    <3>3. CASE ReceiveAnswer \/ ReceivedDetached
      <4>1. broadcasts # <<>>
        BY <3>3 DEF ReceiveAnswer, ReceivedDetached, MonitorInv, QueueInv
      <4>2. Head(broadcasts).device \in Devices
        BY <1>3, <4>1, TaskTaken
      <4>3. \E what \in {"connect", "cancel", "detach"} : tasks' = Posted(tasks, what, Head(broadcasts).device)
        BY <3>3 DEF ReceiveAnswer, ReceivedDetached, ProcessConnect, ProcessCancel
      <4> QED BY <1>3, <4>2, <4>3, PostedSaid DEF Names
    <3> QED BY <3>1, <3>2, <3>3 DEF MainStep, ReceiveDetached, CloseBlock, CloseConnection, Disconnect,
               Forget, ForgetThrows, DestroyBlock
  <2>2. \A d : Said(broadcasts, d, {"granted", "denied"}) =>
                 Said(broadcasts', d, {"granted", "denied"}) \/ Said(tasks', d, {"connect", "cancel"})
    <3>1. CASE UNCHANGED broadcasts
      BY <3>1
    <3>2. CASE ReceivedDetached
      <4>1. broadcasts # <<>> /\ Head(broadcasts).what = "detached" /\ broadcasts' = Tail(broadcasts)
        BY <1>7, <3>2 DEF ReceivedDetached, AnswerInv, HeadInv
      <4> QED BY <1>3, <4>1, TakenSaid
    <3>3. CASE ReceiveAnswer
      <4> DEFINE e == Head(broadcasts).device
      <4>1. broadcasts # <<>> /\ broadcasts' = Tail(broadcasts) /\ pc["main"] # "gone"
        BY <3>3 DEF ReceiveAnswer
      <4>2. e \in Devices
        BY <1>3, <4>1, TaskTaken
      <4>3. \E what \in {"connect", "cancel"} : tasks' = Posted(tasks, what, e)
        BY <3>3 DEF ReceiveAnswer, ProcessConnect, ProcessCancel
      <4> HIDE DEF e
      <4>4. Said(tasks', e, {"connect", "cancel"})
        BY <1>3, <4>1, <4>2, <4>3, PostedSaid DEF Names
      <4> QED BY <1>3, <4>1, <4>4, TakenSaid DEF e
    <3> QED BY <3>1, <3>2, <3>3 DEF MainStep, ReceiveDetached, CloseBlock, CloseConnection, Disconnect,
               Forget, ForgetThrows, DestroyBlock, DestroyEnd
  <2>3. AnswersAreOwed'
    <3>1. \A d : Said(broadcasts, d, {"granted", "denied"}) => AnswerComes(d)'
      BY <2>2 DEF AnswerComes
    <3>2. \A d : Said(tasks, d, {"connect", "cancel"}) => AnswerComes(d)'
      BY <2>1 DEF AnswerComes
    <3>3. \A d : registered /\ d \in asking => AnswerComes(d)'
      BY <1>1 DEF AnswerComes
    <3>4. \A d : Opening /\ block[blk["async"]].device = d => AnswerComes(d)'
      BY <1>1, <1>2 DEF AnswerComes, Opening
    <3> QED BY <1>1, <3>1, <3>2, <3>3, <3>4, AnswersKept DEF AnswerInv
  <2> QED BY <1>4, <1>5, <2>3 DEF AnswerInv
<1> QED BY <1>6, <1>7

\* The async thread takes a request out of its queue to answer it, and has answered it when it
\* is done; so has a check that posts what it finds.
LEMMA AsyncAnswers ==
  ASSUME MonitorAssumption, MonitorInv, MonitorInv', AnswerInv, ConnectStep \/ CheckStep
  PROVE  AnswerInv'
<1>1. UNCHANGED <<registered, destroyed, asking, broadcasts>> /\ pc'["main"] = pc["main"] /\ asked' \subseteq asked
  BY DEF ConnectStep, RunTask, ConnectGet, ConnectThrows, ConnectPut, OnConnect, CheckStep, CheckList, CheckPermissions,
     CheckCounts, MonitorInv, ThreadsOK
<1>2. GoneInv' /\ HeadInv'
  BY <1>1 DEF AnswerInv, GoneInv, HeadInv
<1>3. tasks \in Seq(Tasks)
  BY DEF MonitorInv, QueuesOK
<1>4. Opening => block'[blk["async"]].device = block[blk["async"]].device
  BY DeviceKept DEF Next, Opening, MonitorInv, BlockInv
<1>5. ASSUME ~ConnectThrows
      PROVE  \A d \in asked' : Said(tasks, d, {"connect", "cancel"}) => AnswerComes(d)'
  <2>1. CASE UNCHANGED tasks
    BY <2>1 DEF AnswerComes
  <2>2. CASE RunTask
    <3>1. /\ tasks # <<>> /\ tasks' = Tail(tasks)
          /\ Head(tasks).what = "cancel" => Head(tasks).device \notin asked'
          /\ Head(tasks).what # "connect"
      BY <2>2 DEF RunTask, NextTask
    <3> QED BY <1>3, <3>1, TakenSaid DEF AnswerComes
  <2>3. CASE ConnectGet
    <3> DEFINE e == Head(tasks).device
    <3>1. tasks # <<>> /\ tasks' = Tail(tasks) /\ pc["async"] = "idle"
      BY <2>3 DEF ConnectGet, NextTask
    <3>2. e \in Devices
      BY <1>3, <3>1, TaskTaken
    <3>3. Opening' /\ block'[blk'["async"]].device = e
      <4>1. CASE mCtrlBlocks[e] = None
        <5>1. Create(e, FALSE) /\ blk' = [blk EXCEPT !["async"] = blocks'] /\ pc' = [pc EXCEPT !["async"] = "put"]
          BY <2>3, <4>1 DEF ConnectGet
        <5>2. block'[blocks'].device = e
          BY <3>2, <5>1, Created
        <5> QED BY <5>1, <5>2 DEF Opening, MonitorInv, BlocksOK, ThreadsOK
      <4>2. CASE mCtrlBlocks[e] # None
        <5>1. /\ blk' = [blk EXCEPT !["async"] = mCtrlBlocks[e]] /\ pc' = [pc EXCEPT !["async"] = "onConnect"]
              /\ UNCHANGED block
          BY <2>3, <4>2 DEF ConnectGet
        <5>2. block[mCtrlBlocks[e]].device = e
          BY <3>2, <4>2 DEF MonitorInv, MapInv, KnownBlockIsUsable
        <5> QED BY <5>1, <5>2 DEF Opening, MonitorInv, BlocksOK, ThreadsOK
      <4> QED BY <4>1, <4>2
    <3> HIDE DEF e
    <3> QED BY <1>3, <3>1, <3>3, TakenSaid DEF AnswerComes, e
  <2>4. CASE CheckCounts
    <3>1. UNCHANGED tasks \/ \E more \in Seq(Tasks) : tasks' = tasks \o more
      <4>1. CASE UNCHANGED tasks
        BY <4>1
      <4>2. CASE ~UNCHANGED tasks
        <5>1. PICK order \in [1..Cardinality(list) -> list] :
                tasks' = tasks \o [i \in DOMAIN order |-> Task("attach", order[i])]
          BY <2>4, <4>2 DEF CheckCounts
        <5> DEFINE attached == [i \in DOMAIN order |-> Task("attach", order[i])]
        <5>2. list \in SUBSET Devices
          BY DEF MonitorInv, SetsOK
        <5>3. Cardinality(list) \in Nat
          BY <5>2, DevicesCounted, FS_CardinalityType DEF MonitorAssumption
        <5>4. \A i \in DOMAIN order : Task("attach", order[i]) \in Tasks
          BY <5>2 DEF Tasks, Names
        <5>5. attached \in [1..Cardinality(list) -> Tasks] /\ tasks' = tasks \o attached
          BY <5>1, <5>4
        <5> HIDE DEF attached
        <5>6. attached \in Seq(Tasks)
          BY <5>3, <5>5
        <5> QED BY <5>5, <5>6
      <4> QED BY <4>1, <4>2
    <3> QED BY <1>3, <3>1, JoinedSaid DEF AnswerComes
  <2> QED BY <1>5, <2>1, <2>2, <2>3, <2>4 DEF ConnectStep, ConnectPut, OnConnect, CheckStep, CheckList, CheckPermissions
<1>6. \A d \in asked' : Opening /\ block[blk["async"]].device = d => AnswerComes(d)'
  <2>1. CASE ConnectPut
    BY <1>4, <2>1 DEF ConnectPut, AnswerComes, Opening, MonitorInv, ThreadsOK
  <2>2. CASE OnConnect
    BY <2>2 DEF OnConnect
  <2>3. CASE ~(ConnectPut \/ OnConnect)
    <3>1. ~Opening
      BY <2>3 DEF ConnectStep, RunTask, NextTask, ConnectGet, ConnectThrows, CheckStep, CheckList, CheckPermissions,
         CheckCounts, Opening
    <3> QED BY <3>1
  <2> QED BY <2>1, <2>2, <2>3
<1>7. AnswersAreOwed'
  <2>1. CASE ConnectThrows
    BY <2>1 DEF ConnectThrows, AnswersAreOwed, MonitorInv, ThreadsOK
  <2>2. CASE ~ConnectThrows
    <3>1. \A d : registered /\ d \in asking => AnswerComes(d)'
      BY <1>1 DEF AnswerComes
    <3>2. \A d : Said(broadcasts, d, {"granted", "denied"}) => AnswerComes(d)'
      BY <1>1 DEF AnswerComes
    <3>3. pc["async"] # "crashed"
      BY DEF ConnectStep, RunTask, NextTask, ConnectGet, ConnectThrows, ConnectPut, OnConnect, CheckStep,
         CheckList, CheckPermissions, CheckCounts
    <3> QED BY <1>1, <1>5, <1>6, <2>2, <3>1, <3>2, <3>3, AnswersKept DEF AnswerInv
  <2> QED BY <2>1, <2>2
<1> QED BY <1>2, <1>7 DEF AnswerInv

\* The camera thread answers nobody.
LEMMA CameraAnswers ==
  ASSUME MonitorAssumption, MonitorInv, AnswerInv, CameraStep
  PROVE  AnswerInv'
<1>1. /\ UNCHANGED <<registered, destroyed, asking, asked, broadcasts, tasks>>
      /\ pc'["async"] = pc["async"] /\ pc'["main"] = pc["main"] /\ blk'["async"] = blk["async"]
  BY DEF CameraStep, TakeOrder, CameraIsClosed, OpenCamera, CloseBlock, CloseConnection, Disconnect, Forget,
     ForgetThrows, MonitorInv, BlocksOK, ThreadsOK
<1>2. Opening => block'[blk["async"]].device = block[blk["async"]].device
  BY DeviceKept DEF Next, Opening, MonitorInv, BlockInv
<1>3. GoneInv' /\ HeadInv'
  BY <1>1 DEF AnswerInv, GoneInv, HeadInv
<1>4. AnswersAreOwed'
  BY <1>1, <1>2 DEF AnswerInv, AnswersAreOwed, AnswerComes, Opening
<1> QED BY <1>3, <1>4 DEF AnswerInv

\* However plugging, the user, the broadcasts, the calls and the async thread interleave: a request
\* the client still waits for is one the user is being asked about while the monitor listens, or
\* its answer is a broadcast, a posted runnable or the onConnect that is about to be called.  No
\* interleaving drops it: not a detach received before it, not another check, not the block's close.
\* Only an exception that ends the async thread does.
THEOREM NoAnswerIsLost ==
  MonitorAssumption /\ Spec => []AnswersAreOwed
<1> SUFFICES ASSUME MonitorAssumption PROVE Spec => []AnswersAreOwed
  OBVIOUS
<1>1. Init => AnswerInv
  BY DEF Init, AnswerInv, AnswersAreOwed, GoneInv, HeadInv
<1>2. MonitorInv /\ AnswerInv /\ MonitorInv' /\ [Next]_vars => AnswerInv'
  <2> SUFFICES ASSUME MonitorInv, AnswerInv, MonitorInv', [Next]_vars
               PROVE  AnswerInv'
    OBVIOUS
  <2>1. CASE UNCHANGED vars
    BY <2>1 DEF vars, AnswerInv, AnswersAreOwed, AnswerComes, Opening, GoneInv, HeadInv
  <2> QED BY <2>1, EnvironmentAnswers, ClientAnswers, MainAnswers, AsyncAnswers, CameraAnswers DEF Next
<1>3. AnswerInv => AnswersAreOwed
  BY DEF AnswerInv
<1> QED BY <1>1, <1>2, <1>3, InvariantHolds, PTL DEF Spec
=============================================================================
