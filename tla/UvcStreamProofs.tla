--------------------------- MODULE UvcStreamProofs ---------------------------
(***************************************************************************)
(* Proofs about a video stream, for any number of transfers, packets and   *)
(* frames, isochronous or bulk, with or without a callback.                *)
(***************************************************************************)
EXTENDS UvcStream, FiniteSetTheorems, TLAPS

-----------------------------------------------------------------------------
(* The inductive invariant *)

PcOK == pc \in [Threads -> Labels]

\* Data that may be in one frame, where ids are the frames of which a frame ID was looked at.
Marked(data, ids) == data # {} /\ data \ {0} \subseteq ids /\ NotToldApart(data, ids)

\* The packets that are looked at come in the order of their frames.  The data of a packet is
\* put behind other data only when both have the same frame ID.
PacketInv ==
  /\ \A k \in seen : k <= cam
  /\ pc["event"] = "swapBefore" => packet.n # 0
  /\ pc["event"] \in {"swapBefore", "payload"} /\ packet.n # 0 =>
       /\ packet.n \in seen /\ \A k \in seen : k <= packet.n
       /\ pc["event"] = "payload" /\ gotData => fid = packet.n % 2

\* What outbuf holds while the event thread fills it: every frame ID looked at since is fid.
OutbufInv ==
  /\ gotData =>
       /\ Marked(buf[outbuf], seen)
       /\ pc["event"] # "swapBefore" =>
            \A m \in buf[outbuf] \ {0} : \A k \in seen : m <= k => k % 2 = fid
  /\ pc["event"] \in {"swapBefore", "swapAfter"} => gotData

\* What is published may be in one frame, and what its user has is that, half or whole. One
\* thread copies at a time.
HoldInv ==
  /\ hold.seq > 0 => Marked(buf[holdbuf], seen)
  /\ ~(pc["caller"] = "copy" /\ pc["poller"] = "copy")
  /\ frame.seq > 0 =>
       /\ Marked(frame.first, seen)
       /\ frame.first = IF CbMutexFree THEN frame.second ELSE buf[holdbuf]

\* A handle that is not in use, or has no callback, has no callback thread.
CallerInv ==
  /\ pc["user"] # "idle" => opened
  /\ (opened /\ (~started \/ ~user_cb)) \/ pc["user"] = "startThread" =>
       pc["caller"] \in {"none", "exited"}
  /\ pc["user"] = "startThread" => started

\* The camera stays connected and every transfer of start is submitted.
Reliable == ~Unplug /\ ~SubmitFails

\* The transfer in its callback is the event thread's.
EventInv ==
  Reliable =>
    /\ plugged
    /\ pc["event"] # "idle" => transfers[xfer] = "callback"
    /\ \A i \in Transfers : transfers[i] = "callback" => i = xfer /\ pc["event"] # "idle"

Stopping == {"stopCancel", "stopTest", "stopSleep", "stopJoin"}
AllNull  == \A i \in Transfers : transfers[i] = "null"

\* Only start and stop change running, and what start creates ends before stop does.
UserInv ==
  Reliable =>
    /\ running \/ pc["user"] \in Stopping \cup {"startThread"} => opened /\ started
    /\ pc["user"] \in {"startThread", "submit", "stopFlag"} => running
    /\ pc["user"] \in Stopping \cup {"free"} => ~running
    /\ pc["user"] = "startThread" \/ (~running /\ pc["user"] \notin Stopping) =>
         AllNull /\ pc["caller"] = "none"
    /\ pc["user"] = "stopJoin" => AllNull
    /\ pc["caller"] # "none" => user_cb
    /\ pc["user"] \in {"idle", "close", "free", "startThread", "submit", "stopFlag"} \cup Stopping

StreamInv ==
  /\ FlagsOK /\ TransfersOK /\ BuffersOK /\ ReadersOK /\ CameraOK /\ PcOK
  /\ CallerInv /\ PacketInv /\ OutbufInv /\ HoldInv /\ EventInv /\ UserInv

-----------------------------------------------------------------------------
(* The frames of a buffer *)

\* Data that may be in one frame still may when a later frame is looked at.
LEMMA StillMarked ==
  ASSUME NEW data, NEW ids \in SUBSET Nat, NEW c \in Nat, NEW n \in Nat,
         \A k \in ids : k <= c, n >= c, Marked(data, ids)
  PROVE  Marked(data, ids \cup {n})
<1>1. data # {} /\ data \ {0} \subseteq ids
  BY DEF Marked
<1>2. ASSUME NEW i \in data \ {0}, NEW j \in data \ {0}, i <= j,
             NEW k \in i..j, k \in ids \cup {n} \cup {j}
      PROVE  k % 2 = i % 2
  <2>1. i \in ids /\ j \in ids /\ j <= c
    BY <1>1
  <2>2. k \in ids \cup {j}
    BY <1>2, <2>1
  <2> QED BY <1>2, <2>2 DEF Marked, NotToldApart
<1> QED BY <1>1, <1>2 DEF Marked, NotToldApart

\* Data of frame n may be put behind data whose frame ID it has.
LEMMA AddMarked ==
  ASSUME NEW data, NEW ids \in SUBSET Nat, NEW n \in ids, n # 0,
         \A k \in ids : k <= n,
         data # {} => Marked(data, ids),
         \A m \in data \ {0} : \A k \in ids : m <= k => k % 2 = n % 2
  PROVE  /\ Marked(data \cup {n}, ids)
         /\ \A m \in (data \cup {n}) \ {0} : \A k \in ids : m <= k => k % 2 = n % 2
<1>1. data \ {0} \subseteq ids
  BY DEF Marked
<1>2. ASSUME NEW m \in (data \cup {n}) \ {0}, NEW k \in ids, m <= k
      PROVE  k % 2 = n % 2
  <2>1. CASE m \in data
    BY <1>2, <2>1
  <2>2. CASE m = n
    <3>1. k = n
      BY <1>2, <2>2
    <3> QED BY <3>1
  <2> QED BY <2>1, <2>2
<1>3. ASSUME NEW i \in (data \cup {n}) \ {0}, NEW j \in (data \cup {n}) \ {0}, i <= j,
             NEW k \in i..j, k \in ids \cup {j}
      PROVE  k % 2 = i % 2
  <2>1. i \in ids /\ j \in ids /\ k \in ids /\ i <= k
    BY <1>1, <1>3
  <2>2. k % 2 = n % 2 /\ i % 2 = n % 2
    BY <1>2, <2>1
  <2> QED BY <2>2
<1> QED BY <1>1, <1>2, <1>3 DEF Marked, NotToldApart

\* Data without a frame ID may be put behind any.
LEMMA AddUnmarked ==
  ASSUME NEW data, NEW ids, data # {} => Marked(data, ids)
  PROVE  Marked(data \cup {0}, ids)
BY DEF Marked, NotToldApart

-----------------------------------------------------------------------------
(* Every step preserves it *)

USE DEF Threads, Buffers, Transfers, Step, Goto, handle, back, camera, inCallback, reader,
        UserUnchanged, EventUnchanged, ReaderUnchanged

\* Opening and starting.
LEMMA StartSteps ==
  ASSUME StreamAssumption, StreamInv,
         Open \/ (\E cb \in BOOLEAN : Start(cb)) \/ StartRejected \/ StartThread
         \/ StartSubmit \/ StartFails \/ StartDone
  PROVE  StreamInv'
<1> USE DEF StreamInv
<1>1. CASE Open
  <2>1. FlagsOK'
    BY <1>1 DEF Open, FlagsOK
  <2>2. CallerInv'
    BY <1>1 DEF Open, HandleIsUnused, CallerInv
  <2>3. UserInv'
    BY <1>1 DEF Open, UserInv, AllNull
  <2>4. BuffersOK' /\ ReadersOK'
    BY <1>1 DEF Open, NoData, NewHold, NoFrame, BuffersOK, ReadersOK
  <2>5. CameraOK'
    <3>1. 1 \in 1..(MaxFrame + 1)
      BY DEF StreamAssumption
    <3> QED BY <1>1, <3>1 DEF Open, CameraOK
  <2>6. PacketInv' /\ OutbufInv' /\ HoldInv'
    BY <1>1 DEF Open, HandleIsUnused, NoData, NewHold, NoFrame, PacketInv, OutbufInv, gotData, HoldInv
  <2>7. TransfersOK' /\ PcOK' /\ EventInv'
    BY <1>1 DEF Open, TransfersOK, PcOK, EventInv, Reliable
  <2> QED BY <2>1, <2>2, <2>3, <2>4, <2>5, <2>6, <2>7
<1>2. ASSUME NEW cb \in BOOLEAN, Start(cb)
      PROVE  StreamInv'
  <2>1. FlagsOK'
    BY <1>2 DEF Start, FlagsOK
  <2>2. PcOK'
    BY <1>2 DEF Start, PcOK, Labels
  <2>3. CallerInv'
    BY <1>2 DEF Start, CallerInv
  <2>4. PacketInv' /\ OutbufInv'
    BY <1>2 DEF Start, PacketInv, OutbufInv, gotData
  <2>5. HoldInv'
    BY <1>2 DEF Start, HoldInv, holdbuf, CbMutexFree
  <2>6. EventInv'
    BY <1>2 DEF Start, EventInv
  <2>7. UserInv'
    BY <1>2 DEF Start, UserInv, Stopping, AllNull
  <2>8. TransfersOK' /\ BuffersOK' /\ ReadersOK' /\ CameraOK'
    BY <1>2 DEF Start, TransfersOK, BuffersOK, ReadersOK, CameraOK
  <2> QED BY <2>1, <2>2, <2>3, <2>4, <2>5, <2>6, <2>7, <2>8
<1>3. CASE StartRejected
  <2>1. FlagsOK'
    BY <1>3 DEF StartRejected, FlagsOK
  <2>2. PcOK'
    BY <1>3 DEF StartRejected, PcOK, Labels
  <2>3. CallerInv'
    BY <1>3 DEF StartRejected, CallerInv
  <2>4. PacketInv' /\ OutbufInv'
    BY <1>3 DEF StartRejected, PacketInv, OutbufInv, gotData
  <2>5. HoldInv'
    BY <1>3 DEF StartRejected, HoldInv, holdbuf, CbMutexFree
  <2>6. EventInv'
    BY <1>3 DEF StartRejected, EventInv
  <2>7. UserInv'
    BY <1>3 DEF StartRejected, UserInv, AllNull, PcOK
  <2>8. TransfersOK' /\ BuffersOK' /\ ReadersOK' /\ CameraOK'
    BY <1>3 DEF StartRejected, TransfersOK, BuffersOK, ReadersOK, CameraOK
  <2> QED BY <2>1, <2>2, <2>3, <2>4, <2>5, <2>6, <2>7, <2>8
<1>4. CASE StartThread
  <2>1. TransfersOK'
    BY <1>4 DEF StartThread, TransfersOK
  <2>2. PcOK'
    BY <1>4 DEF StartThread, PcOK, Labels
  <2>3. CallerInv'
    BY <1>4 DEF StartThread, CallerInv, PcOK
  <2>4. PacketInv' /\ OutbufInv'
    BY <1>4 DEF StartThread, PacketInv, OutbufInv, gotData, PcOK
  <2>5. HoldInv'
    <3>1. /\ pc["user"] = "startThread"
          /\ pc' = [pc EXCEPT !["user"] = "submit",
                             !["caller"] = IF user_cb THEN "callerTest" ELSE "none"]
          /\ UNCHANGED <<buf, outbuf, hold, frame, seen>>
      BY <1>4 DEF StartThread
    <3>2. pc["caller"] \in {"none", "exited"}
      BY <3>1 DEF CallerInv
    <3>3. pc'["caller"] = (IF user_cb THEN "callerTest" ELSE "none") /\ pc'["poller"] = pc["poller"]
      BY <3>1 DEF PcOK
    <3>4. pc["caller"] # "copy" /\ pc'["caller"] # "copy"
      BY <3>2, <3>3
    <3> QED BY <3>1, <3>3, <3>4 DEF HoldInv, CbMutexFree, holdbuf
  <2>6. EventInv'
    BY <1>4 DEF StartThread, EventInv, PcOK, TransfersOK, UserInv, AllNull
  <2>7. UserInv'
    BY <1>4 DEF StartThread, UserInv, Stopping, PcOK
  <2>8. FlagsOK' /\ BuffersOK' /\ ReadersOK' /\ CameraOK'
    BY <1>4 DEF StartThread, FlagsOK, BuffersOK, ReadersOK, CameraOK
  <2> QED BY <2>1, <2>2, <2>3, <2>4, <2>5, <2>6, <2>7, <2>8
<1>5. CASE StartSubmit
  <2>1. TransfersOK'
    BY <1>5 DEF StartSubmit, TransfersOK
  <2>2. EventInv'
    BY <1>5 DEF StartSubmit, ToSubmit, EventInv
  <2>3. UserInv'
    BY <1>5 DEF StartSubmit, UserInv
  <2>4. FlagsOK' /\ BuffersOK' /\ ReadersOK' /\ CameraOK' /\ PcOK' /\ CallerInv' /\ PacketInv' /\ OutbufInv' /\ HoldInv'
    BY <1>5 DEF StartSubmit, FlagsOK, BuffersOK, ReadersOK, CameraOK, PcOK, CallerInv, PacketInv, OutbufInv, gotData,
         HoldInv, holdbuf, CbMutexFree
  <2> QED BY <2>1, <2>2, <2>3, <2>4
<1>6. CASE StartFails
  <2>1. FlagsOK'
    BY <1>6 DEF StartFails, FlagsOK
  <2>2. PcOK'
    BY <1>6 DEF StartFails, PcOK, Labels
  <2>3. CallerInv'
    BY <1>6 DEF StartFails, CallerInv
  <2>4. PacketInv' /\ OutbufInv'
    BY <1>6 DEF StartFails, PacketInv, OutbufInv, gotData
  <2>5. HoldInv'
    BY <1>6 DEF StartFails, HoldInv, holdbuf, CbMutexFree
  <2>6. EventInv'
    BY <1>6 DEF StartFails, EventInv
  <2>7. UserInv'
    BY <1>6 DEF StartFails, UserInv, Reliable, EventInv
  <2>8. TransfersOK' /\ BuffersOK' /\ ReadersOK' /\ CameraOK'
    BY <1>6 DEF StartFails, TransfersOK, BuffersOK, ReadersOK, CameraOK
  <2> QED BY <2>1, <2>2, <2>3, <2>4, <2>5, <2>6, <2>7, <2>8
<1>7. CASE StartDone
  <2>1. PcOK'
    BY <1>7 DEF StartDone, PcOK, Labels
  <2>2. CallerInv'
    BY <1>7 DEF StartDone, CallerInv
  <2>3. PacketInv' /\ OutbufInv'
    BY <1>7 DEF StartDone, PacketInv, OutbufInv, gotData
  <2>4. HoldInv'
    BY <1>7 DEF StartDone, HoldInv, holdbuf, CbMutexFree
  <2>5. EventInv'
    BY <1>7 DEF StartDone, EventInv
  <2>6. UserInv'
    BY <1>7 DEF StartDone, UserInv, Stopping
  <2>7. FlagsOK' /\ TransfersOK' /\ BuffersOK' /\ ReadersOK' /\ CameraOK'
    BY <1>7 DEF StartDone, FlagsOK, TransfersOK, BuffersOK, ReadersOK, CameraOK
  <2> QED BY <2>1, <2>2, <2>3, <2>4, <2>5, <2>6, <2>7
<1> QED BY <1>1, <1>2, <1>3, <1>4, <1>5, <1>6, <1>7

\* Stopping and closing.
LEMMA StopSteps ==
  ASSUME StreamAssumption, StreamInv,
         Stop \/ StopFlag \/ StopCancel \/ StopWait \/ StopJoin \/ Close \/ CloseTest \/ Free
  PROVE  StreamInv'
<1> USE DEF StreamInv
<1>1. CASE Stop
  <2>1. PcOK'
    BY <1>1 DEF Stop, PcOK, Labels
  <2>2. CallerInv'
    BY <1>1 DEF Stop, CallerInv
  <2>3. PacketInv' /\ OutbufInv'
    BY <1>1 DEF Stop, PacketInv, OutbufInv, gotData
  <2>4. HoldInv'
    BY <1>1 DEF Stop, HoldInv, holdbuf, CbMutexFree
  <2>5. EventInv'
    BY <1>1 DEF Stop, EventInv
  <2>6. UserInv'
    BY <1>1 DEF Stop, UserInv, Stopping
  <2>7. FlagsOK' /\ TransfersOK' /\ BuffersOK' /\ ReadersOK' /\ CameraOK'
    BY <1>1 DEF Stop, FlagsOK, TransfersOK, BuffersOK, ReadersOK, CameraOK
  <2> QED BY <2>1, <2>2, <2>3, <2>4, <2>5, <2>6, <2>7
<1>2. CASE StopFlag
  <2>1. FlagsOK'
    BY <1>2 DEF StopFlag, FlagsOK
  <2>2. PcOK'
    BY <1>2 DEF StopFlag, PcOK, Labels
  <2>3. CallerInv'
    BY <1>2 DEF StopFlag, CallerInv
  <2>4. PacketInv' /\ OutbufInv'
    BY <1>2 DEF StopFlag, PacketInv, OutbufInv, gotData
  <2>5. HoldInv'
    BY <1>2 DEF StopFlag, HoldInv, holdbuf, CbMutexFree
  <2>6. EventInv'
    BY <1>2 DEF StopFlag, EventInv
  <2>7. UserInv'
    BY <1>2 DEF StopFlag, UserInv, Stopping, PcOK
  <2>8. TransfersOK' /\ BuffersOK' /\ ReadersOK' /\ CameraOK'
    BY <1>2 DEF StopFlag, TransfersOK, BuffersOK, ReadersOK, CameraOK
  <2> QED BY <2>1, <2>2, <2>3, <2>4, <2>5, <2>6, <2>7, <2>8
<1>3. CASE StopCancel
  <2>1. TransfersOK'
    BY <1>3 DEF StopCancel, TransfersOK
  <2>2. PcOK'
    BY <1>3 DEF StopCancel, PcOK, Labels
  <2>3. CallerInv'
    BY <1>3 DEF StopCancel, CallerInv
  <2>4. PacketInv' /\ OutbufInv'
    BY <1>3 DEF StopCancel, PacketInv, OutbufInv, gotData
  <2>5. HoldInv'
    BY <1>3 DEF StopCancel, CbMutexFree, HoldInv, holdbuf
  <2>6. EventInv'
    BY <1>3 DEF StopCancel, EventInv, TransfersOK
  <2>7. UserInv'
    BY <1>3 DEF StopCancel, UserInv, Stopping
  <2>8. FlagsOK' /\ BuffersOK' /\ ReadersOK' /\ CameraOK'
    BY <1>3 DEF StopCancel, FlagsOK, BuffersOK, ReadersOK, CameraOK
  <2> QED BY <2>1, <2>2, <2>3, <2>4, <2>5, <2>6, <2>7, <2>8
<1>4. CASE StopWait
  <2>1. PcOK'
    BY <1>4 DEF StopWait, Broadcast, Awake, PcOK, Labels
  <2>2. CallerInv'
    BY <1>4 DEF StopWait, Broadcast, Awake, CallerInv, PcOK
  <2>3. PacketInv' /\ OutbufInv'
    BY <1>4 DEF StopWait, Broadcast, Awake, PacketInv, OutbufInv, gotData, PcOK
  <2>4. HoldInv'
    BY <1>4 DEF StopWait, CbMutexFree, Broadcast, Awake, HoldInv, holdbuf, PcOK
  <2>5. EventInv'
    BY <1>4 DEF StopWait, Broadcast, Awake, EventInv, PcOK
  <2>6. UserInv'
    BY <1>4 DEF StopWait, Broadcast, Awake, UserInv, Stopping, AllNull, PcOK
  <2>7. FlagsOK' /\ TransfersOK' /\ BuffersOK' /\ ReadersOK' /\ CameraOK'
    BY <1>4 DEF StopWait, FlagsOK, TransfersOK, BuffersOK, ReadersOK, CameraOK
  <2> QED BY <2>1, <2>2, <2>3, <2>4, <2>5, <2>6, <2>7
<1>5. CASE StopJoin
  <2>1. PcOK'
    BY <1>5 DEF StopJoin, PcOK, Labels
  <2>2. CallerInv'
    BY <1>5 DEF StopJoin, CallerInv, PcOK
  <2>3. PacketInv' /\ OutbufInv'
    BY <1>5 DEF StopJoin, PacketInv, OutbufInv, gotData, PcOK
  <2>4. HoldInv'
    <3>1. /\ pc["user"] = "stopJoin" /\ (user_cb => pc["caller"] = "exited")
          /\ pc' = [pc EXCEPT !["user"] = IF closing THEN "free" ELSE "idle", !["caller"] = "none"]
          /\ UNCHANGED <<buf, outbuf, hold, frame, seen>>
      BY <1>5 DEF StopJoin
    <3>2. pc["caller"] \in {"none", "exited"}
      <4>1. CASE user_cb
        BY <3>1, <4>1
      <4>2. CASE ~user_cb
        BY <3>1, <4>2 DEF CallerInv
      <4> QED BY <4>1, <4>2
    <3>3. pc'["caller"] = "none" /\ pc'["poller"] = pc["poller"]
      BY <3>1 DEF PcOK
    <3>4. pc["caller"] # "copy" /\ pc'["caller"] # "copy"
      BY <3>2, <3>3
    <3> QED BY <3>1, <3>3, <3>4 DEF HoldInv, CbMutexFree, holdbuf
  <2>5. EventInv'
    BY <1>5 DEF StopJoin, EventInv, PcOK
  <2>6. UserInv'
    BY <1>5 DEF StopJoin, UserInv, AllNull, PcOK
  <2>7. FlagsOK' /\ TransfersOK' /\ BuffersOK' /\ ReadersOK' /\ CameraOK'
    BY <1>5 DEF StopJoin, FlagsOK, TransfersOK, BuffersOK, ReadersOK, CameraOK
  <2> QED BY <2>1, <2>2, <2>3, <2>4, <2>5, <2>6, <2>7
<1>6. CASE Close
  <2>1. PcOK'
    BY <1>6 DEF Close, PcOK, Labels
  <2>2. CallerInv'
    BY <1>6 DEF Close, CallerInv
  <2>3. PacketInv' /\ OutbufInv'
    BY <1>6 DEF Close, PacketInv, OutbufInv, gotData
  <2>4. HoldInv'
    BY <1>6 DEF Close, HoldInv, holdbuf, CbMutexFree
  <2>5. EventInv'
    BY <1>6 DEF Close, EventInv
  <2>6. UserInv'
    BY <1>6 DEF Close, UserInv, Stopping, AllNull
  <2>7. FlagsOK' /\ TransfersOK' /\ BuffersOK' /\ ReadersOK' /\ CameraOK'
    BY <1>6 DEF Close, FlagsOK, TransfersOK, BuffersOK, ReadersOK, CameraOK
  <2> QED BY <2>1, <2>2, <2>3, <2>4, <2>5, <2>6, <2>7
<1>7. CASE CloseTest
  <2>1. FlagsOK'
    BY <1>7 DEF CloseTest, FlagsOK
  <2>2. PcOK'
    BY <1>7 DEF CloseTest, PcOK, Labels
  <2>3. CallerInv'
    BY <1>7 DEF CloseTest, CallerInv
  <2>4. PacketInv' /\ OutbufInv'
    BY <1>7 DEF CloseTest, PacketInv, OutbufInv, gotData
  <2>5. HoldInv'
    BY <1>7 DEF CloseTest, HoldInv, holdbuf, CbMutexFree
  <2>6. EventInv'
    BY <1>7 DEF CloseTest, EventInv
  <2>7. UserInv'
    BY <1>7 DEF CloseTest, UserInv, Stopping, AllNull
  <2>8. TransfersOK' /\ BuffersOK' /\ ReadersOK' /\ CameraOK'
    BY <1>7 DEF CloseTest, TransfersOK, BuffersOK, ReadersOK, CameraOK
  <2> QED BY <2>1, <2>2, <2>3, <2>4, <2>5, <2>6, <2>7, <2>8
<1>8. CASE Free
  <2>1. FlagsOK'
    BY <1>8 DEF Free, FlagsOK
  <2>2. TransfersOK'
    BY <1>8 DEF Free, NoTransfers, TransfersOK
  <2>3. BuffersOK'
    BY <1>8 DEF Free, BuffersOK
  <2>4. ReadersOK'
    BY <1>8 DEF Free, ReadersOK
  <2>5. PcOK'
    BY <1>8 DEF Free, PcOK, Labels
  <2>6. CallerInv'
    BY <1>8 DEF Free, CallerInv, PcOK
  <2>7. PacketInv' /\ OutbufInv'
    BY <1>8 DEF Free, PacketInv, OutbufInv, gotData
  <2>8. HoldInv'
    BY <1>8 DEF Free, HoldInv, holdbuf, CbMutexFree
  <2>9. EventInv'
    BY <1>8 DEF Free, NoTransfers, EventInv, TransfersOK, UserInv, Stopping, AllNull
  <2>10. UserInv'
    BY <1>8 DEF Free, NoTransfers, UserInv, Stopping, AllNull
  <2>11. CameraOK'
    BY <1>8 DEF Free, CameraOK
  <2> QED BY <2>1, <2>2, <2>3, <2>4, <2>5, <2>6, <2>7, <2>8, <2>9, <2>10, <2>11
<1> QED BY <1>1, <1>2, <1>3, <1>4, <1>5, <1>6, <1>7, <1>8

\* The callbacks of the transfers.
LEMMA TransferSteps ==
  ASSUME StreamAssumption, StreamInv,
         UnplugCamera \/ (\E i \in Transfers : Completed(i))
         \/ (\E i \in Transfers, again \in BOOLEAN : NotCompleted(i, again))
         \/ (\E i \in Transfers : NoDevice(i)) \/ Finish \/ Resubmit \/ DeleteTransfer
  PROVE  StreamInv'
<1> USE DEF StreamInv
<1>1. CASE UnplugCamera
  <2>1. FlagsOK'
    BY <1>1 DEF UnplugCamera, FlagsOK
  <2>2. EventInv'
    BY <1>1 DEF UnplugCamera, EventInv, Reliable
  <2>3. TransfersOK' /\ BuffersOK' /\ ReadersOK' /\ CameraOK' /\ PcOK' /\ CallerInv' /\ PacketInv' /\ OutbufInv' /\ HoldInv' /\ UserInv'
    BY <1>1 DEF UnplugCamera, TransfersOK, BuffersOK, ReadersOK, CameraOK, PcOK, CallerInv,
         PacketInv, OutbufInv, gotData, HoldInv, holdbuf, CbMutexFree, UserInv, Reliable
  <2> QED BY <2>1, <2>2, <2>3
<1>2. ASSUME NEW i \in Transfers, Completed(i)
      PROVE  StreamInv'
  <2>1. FlagsOK'
    BY <1>2 DEF Completed, FlagsOK
  <2>2. TransfersOK'
    BY <1>2 DEF Completed, TransfersOK
  <2>3. PcOK'
    BY <1>2 DEF Completed, PcOK, Labels
  <2>4. CallerInv'
    BY <1>2 DEF Completed, CallerInv
  <2>5. PacketInv' /\ OutbufInv'
    BY <1>2 DEF Completed, PacketInv, OutbufInv, gotData
  <2>6. HoldInv'
    BY <1>2 DEF Completed, HoldInv, holdbuf, CbMutexFree
  <2>7. EventInv'
    BY <1>2 DEF Completed, EventInv, PcOK, TransfersOK
  <2>8. UserInv'
    BY <1>2 DEF Completed, UserInv, AllNull
  <2>9. BuffersOK' /\ ReadersOK' /\ CameraOK'
    BY <1>2 DEF Completed, BuffersOK, ReadersOK, CameraOK
  <2> QED BY <2>1, <2>2, <2>3, <2>4, <2>5, <2>6, <2>7, <2>8, <2>9
<1>3. ASSUME NEW i \in Transfers, NEW again \in BOOLEAN, NotCompleted(i, again)
      PROVE  StreamInv'
  <2>1. FlagsOK'
    BY <1>3 DEF NotCompleted, FlagsOK
  <2>2. TransfersOK'
    BY <1>3 DEF NotCompleted, TransfersOK
  <2>3. PcOK'
    BY <1>3 DEF NotCompleted, PcOK, Labels
  <2>4. CallerInv'
    BY <1>3 DEF NotCompleted, CallerInv
  <2>5. PacketInv' /\ OutbufInv'
    BY <1>3 DEF NotCompleted, PacketInv, OutbufInv, gotData
  <2>6. HoldInv'
    BY <1>3 DEF NotCompleted, HoldInv, holdbuf, CbMutexFree
  <2>7. EventInv'
    BY <1>3 DEF NotCompleted, EventInv, PcOK, TransfersOK
  <2>8. UserInv'
    BY <1>3 DEF NotCompleted, UserInv, AllNull
  <2>9. BuffersOK' /\ ReadersOK' /\ CameraOK'
    BY <1>3 DEF NotCompleted, BuffersOK, ReadersOK, CameraOK
  <2> QED BY <2>1, <2>2, <2>3, <2>4, <2>5, <2>6, <2>7, <2>8, <2>9
<1>4. ASSUME NEW i \in Transfers, NoDevice(i)
      PROVE  StreamInv'
  <2>1. FlagsOK'
    BY <1>4 DEF NoDevice, FlagsOK
  <2>2. TransfersOK'
    BY <1>4 DEF NoDevice, TransfersOK
  <2>3. PcOK'
    BY <1>4 DEF NoDevice, PcOK, Labels
  <2>4. CallerInv'
    BY <1>4 DEF NoDevice, CallerInv
  <2>5. PacketInv' /\ OutbufInv'
    BY <1>4 DEF NoDevice, PacketInv, OutbufInv, gotData
  <2>6. HoldInv'
    BY <1>4 DEF NoDevice, HoldInv, holdbuf, CbMutexFree
  <2>7. EventInv'
    BY <1>4 DEF NoDevice, EventInv
  <2>8. UserInv'
    BY <1>4 DEF NoDevice, UserInv, EventInv
  <2>9. BuffersOK' /\ ReadersOK' /\ CameraOK'
    BY <1>4 DEF NoDevice, BuffersOK, ReadersOK, CameraOK
  <2> QED BY <2>1, <2>2, <2>3, <2>4, <2>5, <2>6, <2>7, <2>8, <2>9
<1>5. CASE Finish
  <2>1. PcOK'
    BY <1>5 DEF Finish, PcOK, Labels
  <2>2. CallerInv'
    BY <1>5 DEF Finish, CallerInv
  <2>3. PacketInv' /\ OutbufInv'
    BY <1>5 DEF Finish, PacketInv, OutbufInv, gotData
  <2>4. HoldInv'
    BY <1>5 DEF Finish, HoldInv, holdbuf, CbMutexFree
  <2>5. EventInv'
    BY <1>5 DEF Finish, EventInv
  <2>6. UserInv'
    BY <1>5 DEF Finish, UserInv, AllNull
  <2>7. FlagsOK' /\ TransfersOK' /\ BuffersOK' /\ ReadersOK' /\ CameraOK'
    BY <1>5 DEF Finish, FlagsOK, TransfersOK, BuffersOK, ReadersOK, CameraOK
  <2> QED BY <2>1, <2>2, <2>3, <2>4, <2>5, <2>6, <2>7
<1>6. CASE Resubmit
  <2>1. TransfersOK'
    BY <1>6 DEF Resubmit, TransfersOK
  <2>2. PcOK'
    BY <1>6 DEF Resubmit, PcOK, Labels
  <2>3. CallerInv'
    BY <1>6 DEF Resubmit, CallerInv
  <2>4. PacketInv' /\ OutbufInv'
    BY <1>6 DEF Resubmit, PacketInv, OutbufInv, gotData
  <2>5. HoldInv'
    BY <1>6 DEF Resubmit, HoldInv, holdbuf, CbMutexFree
  <2>6. EventInv'
    BY <1>6 DEF Resubmit, EventInv, PcOK, TransfersOK
  <2>7. UserInv'
    <3>1. /\ pc["event"] = "resubmit" /\ transfers'[xfer] # "null" /\ xfer \in Transfers
          /\ pc'["user"] = pc["user"] /\ pc'["caller"] = pc["caller"]
          /\ UNCHANGED <<opened, started, user_cb, running>>
      BY <1>6 DEF Resubmit, PcOK, TransfersOK
    <3>2. Reliable => transfers[xfer] = "callback"
      BY <3>1 DEF EventInv
    <3> QED BY <3>1, <3>2 DEF UserInv, AllNull
  <2>8. FlagsOK' /\ BuffersOK' /\ ReadersOK' /\ CameraOK'
    BY <1>6 DEF Resubmit, FlagsOK, BuffersOK, ReadersOK, CameraOK
  <2> QED BY <2>1, <2>2, <2>3, <2>4, <2>5, <2>6, <2>7, <2>8
<1>7. CASE DeleteTransfer
  <2>1. TransfersOK'
    BY <1>7 DEF DeleteTransfer, TransfersOK
  <2>2. PcOK'
    BY <1>7 DEF DeleteTransfer, Broadcast, Awake, PcOK, Labels
  <2>3. CallerInv'
    BY <1>7 DEF DeleteTransfer, Broadcast, Awake, CallerInv
  <2>4. PacketInv' /\ OutbufInv'
    BY <1>7 DEF DeleteTransfer, Broadcast, PacketInv, OutbufInv, gotData
  <2>5. HoldInv'
    BY <1>7 DEF DeleteTransfer, CbMutexFree, Broadcast, Awake, HoldInv, holdbuf
  <2>6. EventInv'
    BY <1>7 DEF DeleteTransfer, Broadcast, EventInv, TransfersOK
  <2>7. UserInv'
    BY <1>7 DEF DeleteTransfer, Broadcast, Awake, UserInv, Stopping, AllNull
  <2>8. FlagsOK' /\ BuffersOK' /\ ReadersOK' /\ CameraOK'
    BY <1>7 DEF DeleteTransfer, FlagsOK, BuffersOK, ReadersOK, CameraOK
  <2> QED BY <2>1, <2>2, <2>3, <2>4, <2>5, <2>6, <2>7, <2>8
<1> QED BY <1>1, <1>2, <1>3, <1>4, <1>5, <1>6, <1>7

\* The packets of a transfer.
LEMMA PacketSteps ==
  ASSUME StreamAssumption, StreamInv,
         PacketsDone \/ BadPacket \/ SkipPacket
         \/ (\E n \in 1..MaxFrame, data \in BOOLEAN, eof \in BOOLEAN : GoodPacket(n, data, eof))
         \/ ShortHeader \/ SwapBefore \/ Payload \/ PayloadTooLong \/ BogusPacket \/ SwapAfter
  PROVE  StreamInv'
<1> USE DEF StreamInv
<1>1. CASE PacketsDone
  <2>1. PcOK'
    BY <1>1 DEF PacketsDone, PcOK, Labels
  <2>2. CallerInv'
    BY <1>1 DEF PacketsDone, CallerInv
  <2>3. PacketInv' /\ OutbufInv'
    BY <1>1 DEF PacketsDone, PacketInv, OutbufInv, gotData
  <2>4. HoldInv'
    BY <1>1 DEF PacketsDone, HoldInv, holdbuf, CbMutexFree
  <2>5. EventInv'
    BY <1>1 DEF PacketsDone, EventInv
  <2>6. UserInv'
    BY <1>1 DEF PacketsDone, UserInv, AllNull
  <2>7. FlagsOK' /\ TransfersOK' /\ BuffersOK' /\ ReadersOK' /\ CameraOK'
    BY <1>1 DEF PacketsDone, FlagsOK, TransfersOK, BuffersOK, ReadersOK, CameraOK
  <2> QED BY <2>1, <2>2, <2>3, <2>4, <2>5, <2>6, <2>7
<1>2. CASE BadPacket
  <2>1. FlagsOK'
    BY <1>2 DEF BadPacket, FlagsOK
  <2>2. TransfersOK'
    BY <1>2 DEF BadPacket, TransfersOK
  <2>3. BuffersOK' /\ ReadersOK' /\ CameraOK' /\ PcOK' /\ CallerInv' /\ PacketInv' /\ OutbufInv' /\ HoldInv' /\ EventInv' /\ UserInv'
    BY <1>2 DEF BadPacket, BuffersOK, ReadersOK, CameraOK, PcOK, CallerInv, PacketInv, OutbufInv, gotData,
         HoldInv, holdbuf, CbMutexFree, EventInv, UserInv, AllNull
  <2> QED BY <2>1, <2>2, <2>3
<1>3. CASE SkipPacket
  <2>1. TransfersOK'
    BY <1>3 DEF SkipPacket, TransfersOK
  <2>2. FlagsOK' /\ BuffersOK' /\ ReadersOK' /\ CameraOK' /\ PcOK' /\ CallerInv' /\ PacketInv' /\ OutbufInv' /\ HoldInv' /\ EventInv' /\ UserInv'
    BY <1>3 DEF SkipPacket, FlagsOK, BuffersOK, ReadersOK, CameraOK, PcOK, CallerInv, PacketInv, OutbufInv, gotData,
         HoldInv, holdbuf, CbMutexFree, EventInv, UserInv, AllNull
  <2> QED BY <2>1, <2>2
<1>4. ASSUME NEW n \in 1..MaxFrame, NEW data \in BOOLEAN, NEW eof \in BOOLEAN, GoodPacket(n, data, eof)
      PROVE  StreamInv'
  <2>1. FlagsOK'
    BY <1>4 DEF GoodPacket, FlagsOK
  <2>2. TransfersOK'
    BY <1>4 DEF GoodPacket, TransfersOK
  <2>3. CameraOK'
    BY <1>4 DEF GoodPacket, CameraOK
  <2>4. PcOK'
    BY <1>4 DEF GoodPacket, PcOK, Labels
  <2>5. CallerInv'
    BY <1>4 DEF GoodPacket, CallerInv
  <2>6. PacketInv' /\ OutbufInv'
    <3>1. /\ pc["event"] = "packet" /\ n >= cam
          /\ packet' = [n |-> n, data |-> data, eof |-> eof]
          /\ cam' = (IF eof THEN n + 1 ELSE n) /\ seen' = seen \cup {n}
          /\ pc' = [pc EXCEPT !["event"] = IF NewFrameBegins(n) THEN "swapBefore" ELSE "payload"]
          /\ UNCHANGED <<buf, outbuf, fid>>
      BY <1>4 DEF GoodPacket
    <3>2. /\ pc'["event"] = (IF NewFrameBegins(n) THEN "swapBefore" ELSE "payload")
          /\ packet'.n = n /\ n \in Nat /\ cam \in Nat /\ seen \in SUBSET Nat
      BY <3>1 DEF PcOK, CameraOK
    <3>3. /\ \A k \in seen' : k <= n
          /\ n <= cam'
      BY <3>1, <3>2 DEF PacketInv
    <3>4. \A k \in seen' : k <= cam'
      BY <3>1, <3>2, <3>3
    <3>5. gotData' <=> gotData
      BY <3>1 DEF gotData
    <3>6. gotData /\ ~NewFrameBegins(n) => fid' = n % 2
      BY <3>1 DEF NewFrameBegins
    <3>7. PacketInv'
      BY <3>1, <3>2, <3>3, <3>4, <3>5, <3>6 DEF PacketInv
    <3>8. gotData => /\ Marked(buf[outbuf], seen)
                     /\ \A m \in buf[outbuf] \ {0} : \A k \in seen : m <= k => k % 2 = fid
      BY <3>1 DEF OutbufInv
    <3>9. gotData => Marked(buf[outbuf], seen')
      BY <3>1, <3>2, <3>8, StillMarked DEF PacketInv
    <3>10. gotData' => Marked(buf'[outbuf'], seen')
      BY <3>1, <3>5, <3>9
    <3>11. gotData' /\ pc'["event"] # "swapBefore" =>
             \A m \in buf'[outbuf'] \ {0} : \A k \in seen' : m <= k => k % 2 = fid'
      BY <3>1, <3>2, <3>5, <3>6, <3>8
    <3>12. /\ pc'["event"] = "swapBefore" => gotData'
           /\ pc'["event"] # "swapAfter"
      BY <3>2, <3>5 DEF NewFrameBegins
    <3> QED BY <3>7, <3>10, <3>11, <3>12 DEF OutbufInv
  <2>7. HoldInv'
    <3>1. /\ pc["event"] = "packet" /\ n >= cam /\ seen' = seen \cup {n}
          /\ pc'["caller"] = pc["caller"] /\ pc'["poller"] = pc["poller"]
          /\ UNCHANGED <<buf, outbuf, hold, frame>>
      BY <1>4 DEF GoodPacket, PcOK
    <3>2. n \in Nat /\ cam \in Nat /\ seen \in SUBSET Nat /\ \A k \in seen : k <= cam
      BY DEF CameraOK, PacketInv
    <3>3. /\ Marked(buf[holdbuf], seen) => Marked(buf[holdbuf], seen')
          /\ Marked(frame.first, seen) => Marked(frame.first, seen')
      BY <3>1, <3>2, StillMarked
    <3> QED BY <3>1, <3>3 DEF HoldInv, holdbuf, CbMutexFree
  <2>8. EventInv'
    BY <1>4 DEF GoodPacket, EventInv
  <2>9. UserInv'
    BY <1>4 DEF GoodPacket, UserInv, AllNull
  <2>10. BuffersOK' /\ ReadersOK'
    BY <1>4 DEF GoodPacket, BuffersOK, ReadersOK
  <2> QED BY <2>1, <2>2, <2>3, <2>4, <2>5, <2>6, <2>7, <2>8, <2>9, <2>10
<1>5. CASE SwapBefore
  <2>1. FlagsOK'
    BY <1>5 DEF SwapBefore, SwapBuffers, FlagsOK
  <2>2. BuffersOK'
    BY <1>5 DEF SwapBefore, SwapBuffers, holdbuf, BuffersOK, FlagsOK
  <2>3. ReadersOK'
    BY <1>5 DEF SwapBefore, ReadersOK
  <2>4. PcOK'
    BY <1>5 DEF SwapBefore, SwapBuffers, Broadcast, Awake, PcOK, Labels
  <2>5. CallerInv'
    BY <1>5 DEF SwapBefore, SwapBuffers, Broadcast, Awake, CallerInv
  <2>6. PacketInv' /\ OutbufInv'
    BY <1>5 DEF SwapBefore, SwapBuffers, holdbuf, Broadcast, PacketInv, OutbufInv, gotData, BuffersOK
  <2>7. HoldInv'
    BY <1>5 DEF SwapBefore, SwapBuffers, CbMutexFree, holdbuf, Broadcast, Awake, HoldInv,
         BuffersOK, OutbufInv, gotData
  <2>8. EventInv'
    BY <1>5 DEF SwapBefore, SwapBuffers, Broadcast, EventInv
  <2>9. UserInv'
    BY <1>5 DEF SwapBefore, SwapBuffers, Broadcast, Awake, UserInv, Stopping, AllNull
  <2>10. TransfersOK' /\ CameraOK'
    BY <1>5 DEF SwapBefore, TransfersOK, CameraOK
  <2> QED BY <2>1, <2>2, <2>3, <2>4, <2>5, <2>6, <2>7, <2>8, <2>9, <2>10
<1>6. CASE Payload
  <2>1. FlagsOK'
    BY <1>6 DEF Payload, FlagsOK
  <2>2. BuffersOK'
    BY <1>6 DEF Payload, FidOfPacket, BuffersOK, CameraOK
  <2>3. PcOK'
    BY <1>6 DEF Payload, PcOK, Labels
  <2>4. CallerInv'
    BY <1>6 DEF Payload, CallerInv
  <2>5. PacketInv' /\ OutbufInv'
    <3>1. /\ pc["event"] = "payload" /\ pc'["event"] \in {"packet", "swapAfter"}
          /\ fid' = FidOfPacket
          /\ outbuf \in Buffers
          /\ buf'[outbuf] = (IF packet.data THEN buf[outbuf] \cup {packet.n} ELSE buf[outbuf])
          /\ pc'["event"] = "swapAfter" => packet.data \/ gotData
          /\ UNCHANGED <<cam, seen, outbuf>>
      BY <1>6 DEF Payload, PcOK, BuffersOK
    <3>2. PacketInv'
      BY <3>1 DEF PacketInv
    <3>3. pc'["event"] = "swapAfter" => gotData'
      BY <3>1 DEF gotData
    <3>4. gotData => /\ Marked(buf[outbuf], seen)
                     /\ \A m \in buf[outbuf] \ {0} : \A k \in seen : m <= k => k % 2 = fid
      BY <3>1 DEF OutbufInv
    <3>5. seen \in SUBSET Nat /\ packet.n \in Nat
      BY DEF CameraOK
    <3>6. CASE packet.n = 0
      <4>1. fid' = fid
        BY <3>1, <3>6 DEF FidOfPacket
      <4>2. buf'[outbuf] \ {0} = buf[outbuf] \ {0}
        BY <3>1, <3>6
      <4>3. buf[outbuf] # {} => Marked(buf[outbuf], seen)
        BY <3>4 DEF gotData
      <4>4. Marked(buf[outbuf] \cup {0}, seen)
        BY <4>3, AddUnmarked
      <4>5. gotData' => Marked(buf'[outbuf'], seen')
        BY <3>1, <3>6, <4>3, <4>4 DEF gotData
      <4>6. \A m \in buf'[outbuf'] \ {0} : \A k \in seen' : m <= k => k % 2 = fid'
        BY <3>1, <3>4, <4>1, <4>2 DEF gotData
      <4> QED BY <3>1, <3>2, <3>3, <4>5, <4>6 DEF OutbufInv
    <3>7. CASE packet.n # 0
      <4>1. /\ fid' = packet.n % 2 /\ packet.n \in seen /\ \A k \in seen : k <= packet.n
            /\ gotData => fid = packet.n % 2
        BY <3>1, <3>7 DEF FidOfPacket, PacketInv
      <4>2. /\ buf[outbuf] # {} => Marked(buf[outbuf], seen)
            /\ \A m \in buf[outbuf] \ {0} : \A k \in seen : m <= k => k % 2 = packet.n % 2
        BY <3>4, <4>1 DEF gotData
      <4>3. /\ Marked(buf[outbuf] \cup {packet.n}, seen)
            /\ \A m \in (buf[outbuf] \cup {packet.n}) \ {0} :
                 \A k \in seen : m <= k => k % 2 = packet.n % 2
        <5> DEFINE data == buf[outbuf]
                   n == packet.n
        <5>1. /\ seen \in SUBSET Nat /\ n \in seen /\ n # 0 /\ \A k \in seen : k <= n
              /\ data # {} => Marked(data, seen)
              /\ \A m \in data \ {0} : \A k \in seen : m <= k => k % 2 = n % 2
          BY <3>5, <3>7, <4>1, <4>2
        <5> HIDE DEF data, n
        <5>2. /\ Marked(data \cup {n}, seen)
              /\ \A m \in (data \cup {n}) \ {0} : \A k \in seen : m <= k => k % 2 = n % 2
          BY <5>1, AddMarked
        <5> QED BY <5>2 DEF data, n
      <4>4. gotData' => Marked(buf'[outbuf'], seen')
        BY <3>1, <4>2, <4>3 DEF gotData
      <4>5. gotData' => \A m \in buf'[outbuf'] \ {0} : \A k \in seen' : m <= k => k % 2 = fid'
        BY <3>1, <4>1, <4>2, <4>3 DEF gotData
      <4> QED BY <3>1, <3>2, <3>3, <4>4, <4>5 DEF OutbufInv
    <3> QED BY <3>6, <3>7
  <2>6. HoldInv'
    BY <1>6 DEF Payload, HoldInv, holdbuf, CbMutexFree
  <2>7. EventInv'
    BY <1>6 DEF Payload, EventInv
  <2>8. UserInv'
    BY <1>6 DEF Payload, UserInv, AllNull
  <2>9. TransfersOK' /\ ReadersOK' /\ CameraOK'
    BY <1>6 DEF Payload, NoPacket, StreamAssumption, TransfersOK, ReadersOK, CameraOK
  <2> QED BY <2>1, <2>2, <2>3, <2>4, <2>5, <2>6, <2>7, <2>8, <2>9
<1>7. CASE BogusPacket
  <2>1. FlagsOK'
    BY <1>7 DEF BogusPacket, FlagsOK
  <2>2. BuffersOK'
    BY <1>7 DEF BogusPacket, FidOfPacket, BuffersOK, CameraOK
  <2>3. PcOK'
    BY <1>7 DEF BogusPacket, PcOK, Labels
  <2>4. CallerInv'
    BY <1>7 DEF BogusPacket, CallerInv
  <2>5. PacketInv' /\ OutbufInv'
    <3>1. /\ pc["event"] = "payload" /\ pc'["event"] \in {"packet", "swapAfter"}
          /\ fid' = FidOfPacket
          /\ pc'["event"] = "swapAfter" => gotData
          /\ UNCHANGED <<cam, seen, buf, outbuf>>
      BY <1>7 DEF BogusPacket, PcOK
    <3>2. PacketInv'
      BY <3>1 DEF PacketInv
    <3>3. gotData => fid' = fid
      BY <3>1 DEF FidOfPacket, PacketInv
    <3> QED BY <3>1, <3>2, <3>3 DEF OutbufInv, gotData
  <2>6. HoldInv'
    BY <1>7 DEF BogusPacket, HoldInv, holdbuf, CbMutexFree
  <2>7. EventInv'
    BY <1>7 DEF BogusPacket, EventInv
  <2>8. UserInv'
    BY <1>7 DEF BogusPacket, UserInv, AllNull
  <2>9. TransfersOK' /\ ReadersOK' /\ CameraOK'
    BY <1>7 DEF BogusPacket, NoPacket, StreamAssumption, TransfersOK, ReadersOK, CameraOK
  <2> QED BY <2>1, <2>2, <2>3, <2>4, <2>5, <2>6, <2>7, <2>8, <2>9
<1>8. CASE SwapAfter
  <2>1. FlagsOK'
    BY <1>8 DEF SwapAfter, SwapBuffers, FlagsOK
  <2>2. BuffersOK'
    BY <1>8 DEF SwapAfter, SwapBuffers, holdbuf, BuffersOK, FlagsOK
  <2>3. ReadersOK'
    BY <1>8 DEF SwapAfter, ReadersOK
  <2>4. PcOK'
    BY <1>8 DEF SwapAfter, SwapBuffers, Broadcast, Awake, PcOK, Labels
  <2>5. CallerInv'
    BY <1>8 DEF SwapAfter, SwapBuffers, Broadcast, Awake, CallerInv
  <2>6. PacketInv' /\ OutbufInv'
    BY <1>8 DEF SwapAfter, SwapBuffers, holdbuf, Broadcast, PacketInv, OutbufInv, gotData, BuffersOK
  <2>7. HoldInv'
    BY <1>8 DEF SwapAfter, SwapBuffers, CbMutexFree, holdbuf, Broadcast, Awake, HoldInv,
         BuffersOK, OutbufInv, gotData
  <2>8. EventInv'
    BY <1>8 DEF SwapAfter, SwapBuffers, Broadcast, EventInv
  <2>9. UserInv'
    BY <1>8 DEF SwapAfter, SwapBuffers, Broadcast, Awake, UserInv, Stopping, AllNull
  <2>10. TransfersOK' /\ CameraOK'
    BY <1>8 DEF SwapAfter, TransfersOK, CameraOK
  <2> QED BY <2>1, <2>2, <2>3, <2>4, <2>5, <2>6, <2>7, <2>8, <2>9, <2>10
<1>9. CASE PayloadTooLong
  <2>1. FlagsOK'
    BY <1>9 DEF PayloadTooLong, FlagsOK
  <2>2. BuffersOK'
    BY <1>9 DEF PayloadTooLong, FidOfPacket, BuffersOK, CameraOK
  <2>3. PcOK'
    BY <1>9 DEF PayloadTooLong, PcOK, Labels
  <2>4. CallerInv'
    BY <1>9 DEF PayloadTooLong, CallerInv
  <2>5. PacketInv' /\ OutbufInv'
    <3>1. /\ pc["event"] = "payload" /\ pc'["event"] \in {"packet", "swapAfter"}
          /\ fid' = FidOfPacket
          /\ pc'["event"] = "swapAfter" => gotData
          /\ UNCHANGED <<cam, seen, buf, outbuf>>
      BY <1>9 DEF PayloadTooLong, PcOK
    <3>2. PacketInv'
      BY <3>1 DEF PacketInv
    <3>3. gotData => fid' = fid
      BY <3>1 DEF FidOfPacket, PacketInv
    <3> QED BY <3>1, <3>2, <3>3 DEF OutbufInv, gotData
  <2>6. HoldInv'
    BY <1>9 DEF PayloadTooLong, HoldInv, holdbuf, CbMutexFree
  <2>7. EventInv'
    BY <1>9 DEF PayloadTooLong, EventInv
  <2>8. UserInv'
    BY <1>9 DEF PayloadTooLong, UserInv, AllNull
  <2>9. TransfersOK' /\ ReadersOK' /\ CameraOK'
    BY <1>9 DEF PayloadTooLong, NoPacket, StreamAssumption, TransfersOK, ReadersOK, CameraOK
  <2> QED BY <2>1, <2>2, <2>3, <2>4, <2>5, <2>6, <2>7, <2>8, <2>9
<1>10. CASE ShortHeader
  <2>1. TransfersOK'
    BY <1>10 DEF ShortHeader, TransfersOK
  <2>2. CameraOK'
    BY <1>10 DEF ShortHeader, CameraOK, StreamAssumption
  <2>3. PcOK'
    BY <1>10 DEF ShortHeader, PcOK, Labels
  <2>4. CallerInv'
    BY <1>10 DEF ShortHeader, CallerInv
  <2>5. PacketInv' /\ OutbufInv'
    <3>1. /\ pc["event"] = "packet" /\ pc'["event"] = "payload" /\ packet'.n = 0
          /\ UNCHANGED <<cam, seen, buf, outbuf, fid>>
      BY <1>10 DEF ShortHeader, PcOK
    <3> QED BY <3>1 DEF PacketInv, OutbufInv, gotData
  <2>6. HoldInv'
    BY <1>10 DEF ShortHeader, HoldInv, holdbuf, CbMutexFree
  <2>7. EventInv'
    BY <1>10 DEF ShortHeader, EventInv
  <2>8. UserInv'
    BY <1>10 DEF ShortHeader, UserInv, AllNull
  <2>9. FlagsOK' /\ BuffersOK' /\ ReadersOK'
    BY <1>10 DEF ShortHeader, FlagsOK, BuffersOK, ReadersOK
  <2> QED BY <2>1, <2>2, <2>3, <2>4, <2>5, <2>6, <2>7, <2>8, <2>9
<1> QED BY <1>1, <1>2, <1>3, <1>4, <1>5, <1>6, <1>7, <1>8, <1>9, <1>10

\* The callback thread and the pollers.
LEMMA ReaderSteps ==
  ASSUME StreamAssumption, StreamInv,
         CallerTest \/ CallerCopied \/ CallerErr \/ CallerReturns
         \/ PollEnter \/ Poll
         \/ PollTimesOut \/ PollWoken \/ PollCopied
  PROVE  StreamInv'
<1> USE DEF StreamInv
<1>1. CASE CallerTest
  <2>1. ReadersOK'
    BY <1>1 DEF CallerTest, PopulateFrame, holdbuf, ReadersOK, BuffersOK
  <2>2. PcOK'
    BY <1>1 DEF CallerTest, PopulateFrame, PcOK, Labels
  <2>3. CallerInv'
    BY <1>1 DEF CallerTest, PopulateFrame, CallerInv, PcOK
  <2>4. PacketInv' /\ OutbufInv'
    BY <1>1 DEF CallerTest, PopulateFrame, PacketInv, OutbufInv, gotData, PcOK
  <2>5. HoldInv'
    BY <1>1 DEF CallerTest, CbMutexFree, PopulateFrame, holdbuf, HoldInv, PcOK
  <2>6. EventInv'
    BY <1>1 DEF CallerTest, PopulateFrame, EventInv, PcOK
  <2>7. UserInv'
    BY <1>1 DEF CallerTest, PopulateFrame, UserInv, AllNull, PcOK
  <2>8. FlagsOK' /\ TransfersOK' /\ BuffersOK' /\ CameraOK'
    BY <1>1 DEF CallerTest, FlagsOK, TransfersOK, BuffersOK, CameraOK
  <2> QED BY <2>1, <2>2, <2>3, <2>4, <2>5, <2>6, <2>7, <2>8
<1>2. CASE CallerCopied
  <2>1. ReadersOK'
    BY <1>2 DEF CallerCopied, PopulateRest, holdbuf, ReadersOK, BuffersOK
  <2>2. PcOK'
    BY <1>2 DEF CallerCopied, PopulateRest, PcOK, Labels
  <2>3. CallerInv'
    BY <1>2 DEF CallerCopied, PopulateRest, CallerInv
  <2>4. PacketInv' /\ OutbufInv'
    BY <1>2 DEF CallerCopied, PopulateRest, PacketInv, OutbufInv, gotData
  <2>5. HoldInv'
    BY <1>2 DEF CallerCopied, PopulateRest, holdbuf, HoldInv, CbMutexFree
  <2>6. EventInv'
    BY <1>2 DEF CallerCopied, PopulateRest, EventInv
  <2>7. UserInv'
    BY <1>2 DEF CallerCopied, PopulateRest, UserInv, AllNull
  <2>8. FlagsOK' /\ TransfersOK' /\ BuffersOK' /\ CameraOK'
    BY <1>2 DEF CallerCopied, PopulateRest, FlagsOK, TransfersOK, BuffersOK, CameraOK
  <2> QED BY <2>1, <2>2, <2>3, <2>4, <2>5, <2>6, <2>7, <2>8
<1>3. CASE CallerErr
  <2>1. PcOK'
    BY <1>3 DEF CallerErr, PcOK, Labels
  <2>2. CallerInv'
    BY <1>3 DEF CallerErr, CallerInv
  <2>3. PacketInv' /\ OutbufInv'
    BY <1>3 DEF CallerErr, PacketInv, OutbufInv, gotData
  <2>4. HoldInv'
    BY <1>3 DEF CallerErr, HoldInv, holdbuf, CbMutexFree
  <2>5. EventInv'
    BY <1>3 DEF CallerErr, EventInv
  <2>6. UserInv'
    BY <1>3 DEF CallerErr, UserInv, AllNull
  <2>7. FlagsOK' /\ TransfersOK' /\ BuffersOK' /\ ReadersOK' /\ CameraOK'
    BY <1>3 DEF CallerErr, FlagsOK, TransfersOK, BuffersOK, ReadersOK, CameraOK
  <2> QED BY <2>1, <2>2, <2>3, <2>4, <2>5, <2>6, <2>7
<1>4. CASE CallerReturns
  <2>1. PcOK'
    BY <1>4 DEF CallerReturns, PcOK, Labels
  <2>2. CallerInv'
    BY <1>4 DEF CallerReturns, CallerInv
  <2>3. PacketInv' /\ OutbufInv'
    BY <1>4 DEF CallerReturns, PacketInv, OutbufInv, gotData
  <2>4. HoldInv'
    BY <1>4 DEF CallerReturns, HoldInv, holdbuf, CbMutexFree
  <2>5. EventInv'
    BY <1>4 DEF CallerReturns, EventInv
  <2>6. UserInv'
    BY <1>4 DEF CallerReturns, UserInv, AllNull
  <2>7. FlagsOK' /\ TransfersOK' /\ BuffersOK' /\ ReadersOK' /\ CameraOK'
    BY <1>4 DEF CallerReturns, FlagsOK, TransfersOK, BuffersOK, ReadersOK, CameraOK
  <2> QED BY <2>1, <2>2, <2>3, <2>4, <2>5, <2>6, <2>7
<1>5. CASE PollEnter
  <2>1. ReadersOK'
    BY <1>5 DEF PollEnter, ReadersOK
  <2>2. PcOK'
    BY <1>5 DEF PollEnter, PcOK, Labels
  <2>3. CallerInv'
    BY <1>5 DEF PollEnter, CallerInv
  <2>4. PacketInv' /\ OutbufInv'
    BY <1>5 DEF PollEnter, PacketInv, OutbufInv, gotData
  <2>5. HoldInv'
    BY <1>5 DEF PollEnter, HoldInv, holdbuf, CbMutexFree
  <2>6. EventInv'
    BY <1>5 DEF PollEnter, EventInv
  <2>7. UserInv'
    BY <1>5 DEF PollEnter, UserInv, AllNull
  <2>8. FlagsOK' /\ TransfersOK' /\ BuffersOK' /\ CameraOK'
    BY <1>5 DEF PollEnter, FlagsOK, TransfersOK, BuffersOK, CameraOK
  <2> QED BY <2>1, <2>2, <2>3, <2>4, <2>5, <2>6, <2>7, <2>8
<1>6. CASE Poll
  <2>1. ReadersOK'
    BY <1>6 DEF Poll, PollTake, PopulateFrame, holdbuf, ReadersOK, BuffersOK
  <2>2. PcOK'
    BY <1>6 DEF Poll, PollTake, PopulateFrame, PcOK, Labels
  <2>3. CallerInv'
    BY <1>6 DEF Poll, PollTake, PopulateFrame, CallerInv, PcOK
  <2>4. PacketInv' /\ OutbufInv'
    BY <1>6 DEF Poll, PollTake, PopulateFrame, PacketInv, OutbufInv, gotData, PcOK
  <2>5. HoldInv'
    BY <1>6 DEF Poll, CbMutexFree, PollTake, PopulateFrame, holdbuf, HoldInv, PcOK
  <2>6. EventInv'
    BY <1>6 DEF Poll, PollTake, PopulateFrame, EventInv, PcOK
  <2>7. UserInv'
    BY <1>6 DEF Poll, PollTake, PopulateFrame, UserInv, AllNull, PcOK
  <2>8. FlagsOK' /\ TransfersOK' /\ BuffersOK' /\ CameraOK'
    BY <1>6 DEF Poll, FlagsOK, TransfersOK, BuffersOK, CameraOK
  <2> QED BY <2>1, <2>2, <2>3, <2>4, <2>5, <2>6, <2>7, <2>8
<1>7. CASE PollTimesOut
  <2>1. PcOK'
    BY <1>7 DEF PollTimesOut, PcOK, Labels
  <2>2. CallerInv'
    BY <1>7 DEF PollTimesOut, CallerInv
  <2>3. PacketInv' /\ OutbufInv'
    BY <1>7 DEF PollTimesOut, PacketInv, OutbufInv, gotData
  <2>4. HoldInv'
    BY <1>7 DEF PollTimesOut, HoldInv, holdbuf, CbMutexFree
  <2>5. EventInv'
    BY <1>7 DEF PollTimesOut, EventInv
  <2>6. UserInv'
    BY <1>7 DEF PollTimesOut, UserInv, AllNull
  <2>7. FlagsOK' /\ TransfersOK' /\ BuffersOK' /\ ReadersOK' /\ CameraOK'
    BY <1>7 DEF PollTimesOut, FlagsOK, TransfersOK, BuffersOK, ReadersOK, CameraOK
  <2> QED BY <2>1, <2>2, <2>3, <2>4, <2>5, <2>6, <2>7
<1>8. CASE PollWoken
  <2>1. ReadersOK'
    BY <1>8 DEF PollWoken, PollTake, PopulateFrame, holdbuf, ReadersOK, BuffersOK
  <2>2. PcOK'
    BY <1>8 DEF PollWoken, PollTake, PopulateFrame, PcOK, Labels
  <2>3. CallerInv'
    BY <1>8 DEF PollWoken, PollTake, PopulateFrame, CallerInv, PcOK
  <2>4. PacketInv' /\ OutbufInv'
    BY <1>8 DEF PollWoken, PollTake, PopulateFrame, PacketInv, OutbufInv, gotData, PcOK
  <2>5. HoldInv'
    BY <1>8 DEF PollWoken, CbMutexFree, PollTake, PopulateFrame, holdbuf, HoldInv, PcOK
  <2>6. EventInv'
    BY <1>8 DEF PollWoken, PollTake, PopulateFrame, EventInv, PcOK
  <2>7. UserInv'
    BY <1>8 DEF PollWoken, PollTake, PopulateFrame, UserInv, AllNull, PcOK
  <2>8. FlagsOK' /\ TransfersOK' /\ BuffersOK' /\ CameraOK'
    BY <1>8 DEF PollWoken, FlagsOK, TransfersOK, BuffersOK, CameraOK
  <2> QED BY <2>1, <2>2, <2>3, <2>4, <2>5, <2>6, <2>7, <2>8
<1>9. CASE PollCopied
  <2>1. ReadersOK'
    BY <1>9 DEF PollCopied, PopulateRest, holdbuf, ReadersOK, BuffersOK
  <2>2. PcOK'
    BY <1>9 DEF PollCopied, PopulateRest, PcOK, Labels
  <2>3. CallerInv'
    BY <1>9 DEF PollCopied, PopulateRest, CallerInv
  <2>4. PacketInv' /\ OutbufInv'
    BY <1>9 DEF PollCopied, PopulateRest, PacketInv, OutbufInv, gotData
  <2>5. HoldInv'
    BY <1>9 DEF PollCopied, PopulateRest, holdbuf, HoldInv, CbMutexFree
  <2>6. EventInv'
    BY <1>9 DEF PollCopied, PopulateRest, EventInv
  <2>7. UserInv'
    BY <1>9 DEF PollCopied, PopulateRest, UserInv, AllNull
  <2>8. FlagsOK' /\ TransfersOK' /\ BuffersOK' /\ CameraOK'
    BY <1>9 DEF PollCopied, PopulateRest, FlagsOK, TransfersOK, BuffersOK, CameraOK
  <2> QED BY <2>1, <2>2, <2>3, <2>4, <2>5, <2>6, <2>7, <2>8
<1> QED BY <1>1, <1>2, <1>3, <1>4, <1>5, <1>6, <1>7, <1>8, <1>9

-----------------------------------------------------------------------------
(* The invariant holds *)

LEMMA InitInv == StreamAssumption /\ Init => StreamInv
<1> SUFFICES ASSUME StreamAssumption, Init PROVE StreamInv
  OBVIOUS
<1>1. FlagsOK
  BY DEF Init, FlagsOK
<1>2. TransfersOK
  BY DEF Init, TransfersOK, NoTransfers, StreamAssumption
<1>3. BuffersOK /\ ReadersOK
  BY DEF Init, BuffersOK, ReadersOK, NoData, NewHold, NoFrame
<1>4. CameraOK
  <2>1. 1 \in 1..(MaxFrame + 1) /\ 0 \in 0..MaxFrame
    BY DEF StreamAssumption
  <2> QED BY <2>1 DEF Init, CameraOK, NoPacket
<1>5. PcOK
  BY DEF Init, PcOK, Labels
<1>6. CallerInv /\ PacketInv /\ OutbufInv /\ HoldInv
  BY DEF Init, CallerInv, PacketInv, OutbufInv, gotData, NoData, HoldInv, NewHold, NoFrame
<1>7. EventInv /\ UserInv
  BY DEF Init, EventInv, UserInv, Stopping, AllNull, NoTransfers
<1> QED BY <1>1, <1>2, <1>3, <1>4, <1>5, <1>6, <1>7 DEF StreamInv

LEMMA NextInv ==
  ASSUME StreamAssumption, StreamInv, [Next]_vars
  PROVE  StreamInv'
<1>1. CASE UNCHANGED vars
  BY <1>1 DEF vars, StreamInv, FlagsOK, TransfersOK, BuffersOK, ReadersOK, CameraOK, PcOK,
       CallerInv, PacketInv, OutbufInv, gotData, HoldInv, holdbuf, CbMutexFree, EventInv, Reliable, UserInv,
       Stopping, AllNull
<1>2. ASSUME NEW cb \in Callbacks, Start(cb)
      PROVE  StreamInv'
  <2>1. cb \in BOOLEAN
    BY DEF StreamAssumption
  <2> QED BY <1>2, <2>1, StartSteps
<1>3. CASE Open \/ Stop \/ Close \/ UserStep
  BY <1>3, StartSteps, StopSteps DEF UserStep
<1>4. CASE EventStep \/ UnplugCamera
  BY <1>4, TransferSteps, PacketSteps DEF EventStep
<1>5. CASE CallerStep \/ PollerStep
  BY <1>5, ReaderSteps DEF CallerStep, PollerStep
<1> QED BY <1>1, <1>2, <1>3, <1>4, <1>5 DEF Next

THEOREM InvariantHolds == StreamAssumption /\ Spec => []StreamInv
<1> SUFFICES ASSUME StreamAssumption PROVE Spec => []StreamInv
  OBVIOUS
<1>1. Init => StreamInv
  BY InitInv
<1>2. StreamInv /\ [Next]_vars => StreamInv'
  BY NextInv
<1> QED BY <1>1, <1>2, PTL DEF Spec

-----------------------------------------------------------------------------
(* What every stream promises *)

\* Whatever arrives, is lost or fails, every variable has a value of its type.
THEOREM TypeCorrect == StreamAssumption /\ Spec => []TypeOK
<1> SUFFICES ASSUME StreamAssumption PROVE Spec => []TypeOK
  OBVIOUS
<1>1. StreamInv => TypeOK
  BY DEF StreamInv, TypeOK, PcOK
<1> QED BY <1>1, InvariantHolds, PTL

\* Whoever gets a frame of the stream gets all of it, and one frame of the camera as far as
\* the frame IDs that were looked at tell, even when packets and whole frames are lost,
\* transfers fail or the camera is disconnected.
THEOREM FramesAreWhole == StreamAssumption /\ Spec => []FrameIsWhole
<1> SUFFICES ASSUME StreamAssumption PROVE Spec => []FrameIsWhole
  OBVIOUS
<1>1. StreamInv => FrameIsWhole
  BY DEF StreamInv, HoldInv, Marked, FrameIsWhole
<1> QED BY <1>1, InvariantHolds, PTL

\* With a camera that stays connected and transfers that are submitted, uvc_stream_stop
\* leaves no transfer, no callback and no callback thread.
THEOREM StoppedStreamIsQuiet ==
  StreamAssumption /\ Reliable /\ Spec => []StoppedIsQuiet
<1> SUFFICES ASSUME StreamAssumption, Reliable PROVE Spec => []StoppedIsQuiet
  OBVIOUS
<1>1. StreamInv => StoppedIsQuiet
  <2> SUFFICES ASSUME StreamInv, ~running, pc["user"] \in {"idle", "free"}
               PROVE  /\ \A i \in Transfers : transfers[i] = "null"
                      /\ pc["event"] = "idle" /\ pc["caller"] = "none"
    BY DEF StoppedIsQuiet
  <2>1. AllNull /\ pc["caller"] = "none"
    BY DEF StreamInv, UserInv, Stopping
  <2>2. pc["event"] # "idle" => transfers[xfer] = "callback" /\ xfer \in Transfers
    BY DEF StreamInv, EventInv, TransfersOK
  <2> QED BY <2>1, <2>2 DEF AllNull
<1> QED BY <1>1, InvariantHolds, PTL

-----------------------------------------------------------------------------
(* What the threads that wait on cb_cond wait for *)

\* A transfer whose callback is still to come, or runs; one that could not be submitted again
\* is lost instead.
Awaited(i) ==
  \/ transfers[i] \in {"active", "cancelled"}
  \/ transfers[i] = "callback" /\ i = xfer /\ pc["event"] # "idle"
  \/ transfers[i] = "lost" /\ (SubmitFails \/ ~plugged)

\* uvc_stream_stop waits for a transfer, the callback thread and a poller for a frame newer than
\* the last they took.  If the stream is no longer running, the callback thread is about to be told.
WaitersAreOwed ==
  /\ pc["user"] = "stopSleep" => \E i \in Transfers : Awaited(i)
  /\ pc["caller"] = "callerSleep" =>
       /\ last_seq = hold.seq
       /\ \/ running \/ ~opened \/ pc["user"] \in {"close", "free", "stopCancel", "stopTest", "stopSleep"}
          \/ pc["event"] \in {"finish", "delete"} /\ ~resubmit
  /\ pc["poller"] = "pollSleep" => last_polled_seq >= hold.seq

\* What became of the transfers at each point of start and stop.
SlotsInv ==
  /\ \A i \in Transfers :
       /\ transfers[i] = "callback" => i = xfer /\ pc["event"] # "idle"
       /\ transfers[i] = "lost" => SubmitFails \/ ~plugged
       /\ transfers[i] = "filled" => pc["user"] = "submit" \/ (pc["user"] \in {"close", "free"} /\ ~running)
  /\ pc["user"] \in Stopping \cup {"free"} => ~running

\* The steps of the user.
LEMMA UserKeepsOwed ==
  ASSUME StreamInv, SlotsInv, WaitersAreOwed,
         Open \/ (\E cb \in BOOLEAN : Start(cb)) \/ Stop \/ Close \/ UserStep
  PROVE  SlotsInv' /\ WaitersAreOwed'
<1> USE DEF StreamInv, PcOK, Stopping
<1>0. CASE Open
  <2>1. /\ ~opened /\ pc["user"] = "idle" /\ pc["caller"] # "callerSleep" /\ pc["poller"] = "idle"
        /\ UNCHANGED <<running, transfers, xfer, plugged, pc>>
    BY <1>0 DEF Open, HandleIsUnused
  <2> QED BY <2>1 DEF SlotsInv, WaitersAreOwed
<1>1. CASE (\E cb \in BOOLEAN : Start(cb)) \/ Stop \/ Close \/ StartRejected \/ StartFails
           \/ StartDone \/ StopFlag \/ CloseTest
  <2>1. /\ UNCHANGED <<transfers, xfer, plugged, resubmit, last_seq, last_polled_seq, hold>>
        /\ \A t \in {"event", "caller", "poller"} : pc'[t] = pc[t]
        /\ \/ pc["user"] = "idle" /\ pc'["user"] \in {"idle", "startThread", "stopFlag", "close"}
           \/ pc["user"] \in {"startThread", "submit"} /\ pc'["user"] = "close" /\ ~running'
           \/ /\ pc["user"] = "submit" /\ pc'["user"] = "idle" /\ UNCHANGED <<running, opened>>
              /\ \A i \in Transfers : transfers[i] # "filled"
           \/ pc["user"] = "stopFlag" /\ pc'["user"] = "stopCancel" /\ ~running'
           \/ pc["user"] = "close" /\ pc'["user"] = "stopFlag" /\ running /\ UNCHANGED <<running, opened>>
           \/ pc["user"] = "close" /\ pc'["user"] = "free" /\ ~running /\ UNCHANGED <<running, opened>>
    BY <1>1 DEF Start, Stop, Close, StartRejected, StartFails, StartDone, ToSubmit, StopFlag, CloseTest
  <2>2. pc["user"] = "idle" => (running => running') /\ opened' = opened
    BY <1>1, <2>1 DEF Start, Stop, Close, StartRejected, StartFails, StartDone, StopFlag, CloseTest
  <2>3. SlotsInv'
    BY <2>1, <2>2 DEF SlotsInv
  <2>4. WaitersAreOwed'
    BY <2>1, <2>2 DEF WaitersAreOwed, Awaited
  <2> QED BY <2>3, <2>4
<1>2. CASE StartThread
  <2>1. /\ pc["user"] = "startThread" /\ pc'["user"] = "submit" /\ pc'["caller"] # "callerSleep"
        /\ \A t \in {"event", "poller"} : pc'[t] = pc[t]
        /\ \A i \in Transfers : transfers'[i] = "filled"
        /\ UNCHANGED <<last_polled_seq, hold>>
    BY <1>2 DEF StartThread
  <2> QED BY <2>1 DEF SlotsInv, WaitersAreOwed
<1>3. CASE StartSubmit
  <2>1. /\ pc["user"] = "submit" /\ pc' = pc
        /\ \A i \in Transfers : transfers'[i] = transfers[i] \/ transfers'[i] = "active"
        /\ UNCHANGED <<opened, running, xfer, plugged, resubmit, last_seq, last_polled_seq, hold>>
    BY <1>3 DEF StartSubmit, TransfersOK
  <2> QED BY <2>1 DEF SlotsInv, WaitersAreOwed
<1>4. CASE StopCancel
  <2>1. /\ pc["user"] = "stopCancel" /\ pc'["user"] = "stopTest"
        /\ \A t \in {"event", "caller", "poller"} : pc'[t] = pc[t]
        /\ \A i \in Transfers : transfers'[i] = transfers[i] \/ transfers'[i] = "cancelled"
        /\ UNCHANGED <<opened, running, xfer, plugged, resubmit, last_seq, last_polled_seq, hold>>
    BY <1>4 DEF StopCancel, TransfersOK
  <2> QED BY <2>1 DEF SlotsInv, WaitersAreOwed
<1>5. CASE StopWait
  <2>1. /\ pc["user"] = "stopTest"
        /\ UNCHANGED <<opened, running, xfer, transfers, plugged, resubmit, last_seq, last_polled_seq, hold>>
    BY <1>5 DEF StopWait
  <2>2. CASE \A i \in Transfers : transfers[i] = "null"
    <3>1. pc'["user"] = "stopJoin" /\ pc'["caller"] # "callerSleep" /\ pc'["poller"] # "pollSleep"
      BY <1>5, <2>2 DEF StopWait, Broadcast, Awake
    <3>2. pc["event"] # "idle" => pc'["event"] # "idle"
      BY <1>5, <2>2 DEF StopWait, Broadcast, Awake
    <3> QED BY <2>1, <2>2, <3>1, <3>2 DEF SlotsInv, WaitersAreOwed
  <2>3. CASE ~\A i \in Transfers : transfers[i] = "null"
    <3>1. pc'["user"] = "stopSleep" /\ \A t \in {"event", "caller", "poller"} : pc'[t] = pc[t]
      BY <1>5, <2>3 DEF StopWait
    <3>2. PICK i \in Transfers : transfers[i] # "null"
      BY <2>3
    <3>3. transfers[i] \in {"active", "cancelled", "callback", "lost"}
      BY <2>1, <3>2 DEF SlotsInv, TransfersOK
    <3>4. Awaited(i)
      BY <3>3 DEF Awaited, SlotsInv
    <3>5. Awaited(i)'
      BY <2>1, <3>1, <3>4 DEF Awaited
    <3>6. SlotsInv'
      BY <2>1, <3>1 DEF SlotsInv
    <3> QED BY <2>1, <3>1, <3>5, <3>6 DEF WaitersAreOwed
  <2> QED BY <2>2, <2>3
<1>6. CASE StopJoin
  <2>1. /\ pc["user"] = "stopJoin" /\ pc'["user"] \in {"free", "idle"} /\ pc'["caller"] = "none"
        /\ \A t \in {"event", "poller"} : pc'[t] = pc[t]
        /\ UNCHANGED <<running, xfer, transfers, plugged, last_polled_seq, hold>>
    BY <1>6 DEF StopJoin
  <2> QED BY <2>1 DEF SlotsInv, WaitersAreOwed
<1>7. CASE Free
  <2>1. /\ pc["user"] = "free" /\ pc'["user"] = "idle" /\ ~opened'
        /\ \A t \in {"event", "caller", "poller"} : pc'[t] = pc[t]
        /\ UNCHANGED <<hold, last_seq, last_polled_seq>>
        /\ \A i \in Transfers : transfers'[i] = "null"
    BY <1>7 DEF Free, NoTransfers
  <2> QED BY <2>1 DEF SlotsInv, WaitersAreOwed
<1> QED BY <1>0, <1>1, <1>2, <1>3, <1>4, <1>5, <1>6, <1>7 DEF UserStep

\* The steps of the event thread, and the camera's disconnection.
LEMMA EventKeepsOwed ==
  ASSUME StreamInv, SlotsInv, WaitersAreOwed, EventStep \/ UnplugCamera
  PROVE  SlotsInv' /\ WaitersAreOwed'
<1> USE DEF StreamInv, PcOK, Stopping
<1>1. ASSUME NEW i \in Transfers,
             Completed(i) \/ (\E again \in BOOLEAN : NotCompleted(i, again)) \/ NoDevice(i)
      PROVE  SlotsInv' /\ WaitersAreOwed'
  <2>1. /\ pc["event"] = "idle" /\ pc'["event"] \in {"packet", "finish"}
        /\ transfers'[i] = "callback" /\ xfer' = i
        /\ \A j \in Transfers : j # i => transfers'[j] = transfers[j]
        /\ \A t \in {"user", "caller", "poller"} : pc'[t] = pc[t]
        /\ running' = running \/ (~running' /\ pc'["event"] = "finish" /\ ~resubmit')
        /\ UNCHANGED <<opened, plugged, last_seq, last_polled_seq, hold>>
    BY <1>1 DEF Completed, NotCompleted, NoDevice, TransfersOK
  <2>2. SlotsInv'
    BY <2>1 DEF SlotsInv
  <2>3. Awaited(i)'
    BY <2>1 DEF Awaited
  <2>4. WaitersAreOwed'
    BY <2>1, <2>3 DEF WaitersAreOwed
  <2> QED BY <2>2, <2>4
<1>2. CASE PacketsDone \/ BadPacket \/ SkipPacket \/ ShortHeader \/ Payload \/ PayloadTooLong \/ BogusPacket \/ Finish \/ UnplugCamera
           \/ \E n \in 1..MaxFrame, data, eof \in BOOLEAN : GoodPacket(n, data, eof)
  <2>1. /\ UNCHANGED <<opened, running, transfers, xfer, resubmit, last_seq, last_polled_seq, hold>>
        /\ \A t \in {"user", "caller", "poller"} : pc'[t] = pc[t]
        /\ pc["event"] # "idle" => pc'["event"] # "idle"
        /\ ~plugged => ~plugged'
    BY <1>2 DEF PacketsDone, BadPacket, SkipPacket, ShortHeader, Payload, PayloadTooLong, BogusPacket, Finish, UnplugCamera, GoodPacket
  <2>2. pc["event"] \in {"finish", "delete"} /\ ~resubmit => pc'["event"] \in {"finish", "delete"}
    BY <1>2 DEF PacketsDone, BadPacket, SkipPacket, ShortHeader, Payload, PayloadTooLong, BogusPacket, Finish, UnplugCamera, GoodPacket
  <2>3. SlotsInv'
    BY <2>1 DEF SlotsInv
  <2>4. \A i \in Transfers : Awaited(i) => Awaited(i)'
    BY <2>1 DEF Awaited
  <2>5. WaitersAreOwed'
    BY <2>1, <2>2, <2>4 DEF WaitersAreOwed
  <2> QED BY <2>3, <2>5
<1>3. CASE SwapBefore \/ SwapAfter
  <2>1. /\ UNCHANGED <<opened, running, transfers, xfer, resubmit, plugged>>
        /\ pc'["event"] # "idle" /\ pc'["caller"] # "callerSleep" /\ pc'["poller"] # "pollSleep"
        /\ pc'["user"] = Awake(pc["user"])
    BY <1>3 DEF SwapBefore, SwapAfter, SwapBuffers, Broadcast, Awake
  <2>2. pc'["user"] # "stopSleep"
    BY <2>1 DEF Awake
  <2>3. SlotsInv'
    BY <2>1, <2>2 DEF SlotsInv, Awake
  <2> QED BY <2>1, <2>2, <2>3 DEF WaitersAreOwed
<1>4. CASE Resubmit
  <2>1. /\ pc["event"] = "resubmit" /\ pc'["event"] = "idle"
        /\ \A t \in {"user", "caller", "poller"} : pc'[t] = pc[t]
        /\ transfers'[xfer] = "active" \/ (transfers'[xfer] = "lost" /\ (SubmitFails \/ ~plugged))
        /\ \A j \in Transfers : j # xfer => transfers'[j] = transfers[j]
        /\ UNCHANGED <<opened, running, xfer, plugged, resubmit, last_seq, last_polled_seq, hold>>
    BY <1>4 DEF Resubmit, TransfersOK
  <2>2. SlotsInv'
    BY <2>1 DEF SlotsInv
  <2>3. Awaited(xfer)' /\ xfer \in Transfers
    BY <2>1 DEF Awaited, TransfersOK
  <2>4. WaitersAreOwed'
    BY <2>1, <2>3 DEF WaitersAreOwed
  <2> QED BY <2>2, <2>4
<1>5. CASE DeleteTransfer
  <2>1. /\ UNCHANGED <<opened, running, xfer, plugged>>
        /\ pc'["event"] = "idle" /\ pc'["caller"] # "callerSleep" /\ pc'["poller"] # "pollSleep"
        /\ pc'["user"] = Awake(pc["user"])
        /\ \A j \in Transfers : IF j = xfer THEN transfers'[j] = "null" ELSE transfers'[j] = transfers[j]
    BY <1>5 DEF DeleteTransfer, Broadcast, Awake, TransfersOK
  <2>2. pc'["user"] # "stopSleep"
    BY <2>1 DEF Awake
  <2>3. SlotsInv'
    BY <2>1 DEF SlotsInv, Awake
  <2> QED BY <2>1, <2>2, <2>3 DEF WaitersAreOwed
<1> QED BY <1>1, <1>2, <1>3, <1>4, <1>5 DEF EventStep

\* The steps of the callback thread and of a poller.
LEMMA ReaderKeepsOwed ==
  ASSUME StreamInv, SlotsInv, WaitersAreOwed, CallerStep \/ PollerStep
  PROVE  SlotsInv' /\ WaitersAreOwed'
<1> USE DEF StreamInv, PcOK
<1>1. /\ UNCHANGED <<opened, running, transfers, xfer, resubmit, plugged, hold>>
      /\ pc'["user"] = pc["user"] /\ pc'["event"] = pc["event"]
  BY DEF CallerStep, CallerTest, CallerCopied, CallerErr, CallerReturns, PollerStep, PollEnter, Poll,
     PollTimesOut, PollWoken, PollCopied, PollTake, PopulateFrame, PopulateRest
<1>2. SlotsInv'
  BY <1>1 DEF SlotsInv
<1>3. pc'["caller"] = "callerSleep" =>
        \/ pc["caller"] = "callerSleep" /\ last_seq' = last_seq
        \/ running /\ last_seq' = hold.seq
  BY DEF CallerStep, CallerTest, CallerCopied, CallerErr, CallerReturns, PollerStep, PollEnter, Poll,
     PollTimesOut, PollWoken, PollCopied, PollTake, PopulateFrame, PopulateRest
<1>4. pc'["poller"] = "pollSleep" =>
        \/ pc["poller"] = "pollSleep" /\ last_polled_seq' = last_polled_seq
        \/ last_polled_seq' = last_polled_seq /\ last_polled_seq >= hold.seq
  BY DEF CallerStep, CallerTest, CallerCopied, CallerErr, CallerReturns, PollerStep, PollEnter, Poll,
     PollTimesOut, PollWoken, PollCopied, PollTake, PopulateFrame, PopulateRest
<1>5. \A i \in Transfers : Awaited(i) => Awaited(i)'
  BY <1>1 DEF Awaited
<1>6. WaitersAreOwed'
  BY <1>1, <1>3, <1>4, <1>5 DEF WaitersAreOwed
<1> QED BY <1>2, <1>6

\* No wakeup on cb_cond is lost, whatever fails: who waits has not missed what it waits for, and a
\* stream that stops still has to tell the callback thread.  (A poller is told of frames only.)
THEOREM NoWakeupIsLost == StreamAssumption /\ Spec => []WaitersAreOwed
<1> SUFFICES ASSUME StreamAssumption PROVE Spec => []WaitersAreOwed
  OBVIOUS
<1> DEFINE Inv == StreamInv /\ SlotsInv /\ WaitersAreOwed
<1>1. Init => Inv
  BY InitInv DEF Init, SlotsInv, WaitersAreOwed, NoTransfers, NewHold, Stopping
<1>2. Inv /\ [Next]_vars => Inv'
  <2> SUFFICES ASSUME Inv, [Next]_vars PROVE Inv'
    OBVIOUS
  <2>1. StreamInv'
    BY NextInv
  <2>2. CASE UNCHANGED vars
    BY <2>1, <2>2 DEF vars, SlotsInv, WaitersAreOwed, Awaited, Stopping
  <2>3. CASE Open \/ (\E cb \in Callbacks : Start(cb)) \/ Stop \/ Close \/ UserStep
    BY <2>1, <2>3, UserKeepsOwed DEF StreamAssumption
  <2>4. CASE EventStep \/ UnplugCamera
    BY <2>1, <2>4, EventKeepsOwed
  <2>5. CASE CallerStep \/ PollerStep
    BY <2>1, <2>5, ReaderKeepsOwed
  <2> QED BY <2>2, <2>3, <2>4, <2>5 DEF Next
<1> QED BY <1>1, <1>2, PTL DEF Spec

-----------------------------------------------------------------------------
(* The stream implements FrameSource *)

\* What the callback of the user needs: the stream is started, or being stopped.
Streaming == started /\ (running \/ pc["user"] \in Stopping)

LEMMA StepsOfTheSource ==
  ASSUME StreamAssumption, Reliable, StreamInv, [Next]_vars
  PROVE  [Source!Next]_(Source!vars)
<1> USE DEF StreamInv
<1>0. /\ pc["caller"] # "none" => Streaming
      /\ running => started
      /\ pc["user"] = "free" => ~running
  BY DEF UserInv, Streaming, Stopping
<1>1. CASE UNCHANGED vars
  BY <1>1 DEF vars, Source!vars
<1>2. ASSUME NEW cb \in Callbacks, Start(cb)
      PROVE  Source!Start
  <2>1. ~started /\ pc["user"] = "idle" /\ started' /\ running' /\ pc'["caller"] = pc["caller"]
    BY <1>2 DEF Start, PcOK
  <2>2. pc["caller"] = "none"
    BY <1>0, <2>1 DEF Streaming
  <2> QED BY <2>1, <2>2 DEF Source!Start
<1>3. CASE StartRejected
  <2>1. /\ pc["user"] = "startThread" /\ running' = FALSE /\ started' = started
        /\ pc'["user"] = "close" /\ pc'["caller"] = pc["caller"]
    BY <1>3 DEF StartRejected, PcOK
  <2>2. started /\ running /\ pc["caller"] = "none"
    BY <2>1 DEF UserInv
  <2> QED BY <2>1, <2>2 DEF Source!Next, Source!Stopped
<1>4. CASE StopJoin
  <2>1. /\ pc["user"] = "stopJoin" /\ pc'["user"] \in {"free", "idle"} /\ pc'["caller"] = "none"
        /\ running' = running /\ started' = started
    BY <1>4 DEF StopJoin, PcOK
  <2>2. started /\ ~running
    BY <2>1 DEF UserInv, Stopping
  <2>3. pc["caller"] # "userCallback"
    BY <1>4 DEF StopJoin, UserInv
  <2> QED BY <2>1, <2>2, <2>3 DEF Source!Next, Source!Stopped
<1>5. CASE CallerErr
  <2>1. /\ pc["caller"] = "callerErr" /\ pc'["caller"] \in {"callerTest", "userCallback"}
        /\ pc'["user"] = pc["user"] /\ running' = running /\ started' = started
    BY <1>5 DEF CallerErr, PcOK
  <2>2. Streaming
    BY <1>0, <2>1
  <2> QED BY <2>1, <2>2 DEF Streaming, Stopping, Source!Next, Source!Call, Source!vars
<1>6. CASE CallerReturns
  <2>1. /\ pc["caller"] = "userCallback" /\ pc'["caller"] = "callerTest"
        /\ pc'["user"] = pc["user"] /\ running' = running /\ started' = started
    BY <1>6 DEF CallerReturns, PcOK
  <2> QED BY <2>1 DEF Source!Next, Source!Return
<1>7. ASSUME started' = started, running' = running,
             pc'["user"] \in Stopping <=> pc["user"] \in Stopping,
             pc'["caller"] = "userCallback" <=> pc["caller"] = "userCallback"
      PROVE  UNCHANGED Source!vars
  BY <1>7 DEF Source!vars, Stopping
<1>8. CASE Open \/ StartThread \/ StartSubmit \/ StartDone
  <2>1. /\ started' = started /\ running' = running
        /\ pc["user"] \notin Stopping /\ pc'["user"] \notin Stopping
        /\ pc'["caller"] = "userCallback" <=> pc["caller"] = "userCallback"
    BY <1>8 DEF Open, StartThread, StartSubmit, StartDone, PcOK, CallerInv, Stopping
  <2> QED BY <1>7, <2>1
<1>9. ~StartFails
  BY DEF StartFails, Reliable, EventInv
<1>10. CASE Stop \/ StopCancel \/ StopWait \/ Close \/ CloseTest
  <2>1. /\ started' = started /\ running' = running
        /\ pc'["user"] \in Stopping <=> pc["user"] \in Stopping
        /\ pc'["caller"] = "userCallback" <=> pc["caller"] = "userCallback"
    BY <1>10 DEF Stop, StopCancel, StopWait, Broadcast, Awake, Close, CloseTest, PcOK, Stopping
  <2> QED BY <1>7, <2>1
<1>11. CASE StopFlag
  <2>1. /\ pc["user"] = "stopFlag" /\ pc'["user"] = "stopCancel" /\ pc'["caller"] = pc["caller"]
        /\ started' = started /\ running' = FALSE
    BY <1>11 DEF StopFlag, PcOK
  <2>2. started /\ running
    BY <2>1 DEF UserInv
  <2> QED BY <2>1, <2>2 DEF Source!vars
<1>12. CASE Free
  <2>1. /\ pc["user"] = "free" /\ pc'["user"] = "idle" /\ pc'["caller"] = pc["caller"]
        /\ started' = FALSE /\ running' = FALSE
    BY <1>12 DEF Free, PcOK
  <2> QED BY <1>0, <2>1 DEF Source!vars
<1>13. CASE EventStep \/ UnplugCamera
  <2>1. \A i \in Transfers : ~NoDevice(i)
    BY DEF NoDevice, EventInv
  <2>2. /\ started' = started /\ running' = running
        /\ pc'["user"] \in Stopping <=> pc["user"] \in Stopping
        /\ pc'["caller"] = "userCallback" <=> pc["caller"] = "userCallback"
    <3>1. CASE UnplugCamera \/ \E i \in Transfers : Completed(i) \/ \E again \in BOOLEAN : NotCompleted(i, again)
      BY <3>1 DEF UnplugCamera, Completed, NotCompleted, PcOK, Stopping
    <3>2. CASE \/ PacketsDone \/ BadPacket \/ SkipPacket \/ ShortHeader \/ Payload \/ PayloadTooLong \/ BogusPacket \/ Finish \/ Resubmit
               \/ \E n \in 1..MaxFrame, data, eof \in BOOLEAN : GoodPacket(n, data, eof)
      BY <3>2 DEF PacketsDone, BadPacket, SkipPacket, GoodPacket, ShortHeader, Payload, PayloadTooLong, BogusPacket, Finish,
           Resubmit, PcOK, Stopping
    <3>3. CASE SwapBefore \/ SwapAfter \/ DeleteTransfer
      BY <3>3 DEF SwapBefore, SwapAfter, SwapBuffers, DeleteTransfer, Broadcast, Awake, PcOK, Stopping
    <3> QED BY <1>13, <2>1, <3>1, <3>2, <3>3 DEF EventStep
  <2> QED BY <1>7, <2>2
<1>14. CASE CallerTest \/ CallerCopied \/ PollerStep
  <2>1. /\ started' = started /\ running' = running
        /\ pc'["user"] = pc["user"]
        /\ pc'["caller"] = "userCallback" <=> pc["caller"] = "userCallback"
    BY <1>14 DEF CallerTest, CallerCopied, PopulateFrame, PopulateRest, PollerStep, PollEnter, Poll,
         PollTake, PollTimesOut, PollWoken, PollCopied, PcOK
  <2> QED BY <1>7, <2>1
<1>15. CASE CallerStep
  BY <1>5, <1>6, <1>14, <1>15 DEF CallerStep, Source!Next
<1>16. CASE UserStep
  BY <1>3, <1>4, <1>8, <1>9, <1>10, <1>11, <1>12, <1>16 DEF UserStep, Source!Next
<1>17. CASE EventStep \/ UnplugCamera \/ PollerStep
  BY <1>13, <1>14, <1>17
<1> QED
  BY <1>1, <1>2, <1>8, <1>10, <1>15, <1>16, <1>17 DEF Next, Source!Next

\* The stream calls back only between uvc_stream_start and the return of uvc_stream_stop: this
\* is what UvcPreview relies on.
THEOREM StreamImplementsSource ==
  StreamAssumption /\ Reliable /\ Spec => ImplementsFrameSource
<1> SUFFICES ASSUME StreamAssumption, Reliable PROVE Spec => ImplementsFrameSource
  OBVIOUS
<1>1. Init => Source!Init
  BY DEF Init, Source!Init
<1>2. StreamInv /\ [Next]_vars => [Source!Next]_(Source!vars)
  BY StepsOfTheSource
<1> QED BY <1>1, <1>2, InvariantHolds, PTL DEF Spec, ImplementsFrameSource, Source!Spec
=============================================================================
