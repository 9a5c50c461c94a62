----------------------------- MODULE UvcStream -----------------------------
(***************************************************************************)
(* A video stream of libuvc: stream.c, from uvc_stream_open_ctrl to        *)
(* uvc_stream_close.                                                       *)
(*                                                                         *)
(* Threads.  "event" is libusb's event thread: it runs the callback of one *)
(* finished transfer at a time, puts the packets of the transfer into      *)
(* outbuf and swaps it with holdbuf when a frame is complete.  "caller" is *)
(* _uvc_user_caller, which copies holdbuf and hands the copy to the user's *)
(* callback.  "poller" calls uvc_stream_get_frame when there is no         *)
(* callback.  "user" opens, starts, stops and closes the stream.           *)
(*                                                                         *)
(* The camera numbers its frames 1, 2, ... and marks each packet with the  *)
(* frame's number modulo 2, the frame ID.  Any packet may be lost, and all *)
(* of a frame: the next one may be of any later frame.  A buffer is the    *)
(* set of numbers of the frames whose data it holds; 0 stands for data     *)
(* that came without a frame ID.                                           *)
(***************************************************************************)
EXTENDS Integers, FiniteSets

CONSTANTS
  NumTransfers,  \* LIBUVC_NUM_TRANSFER_BUFS
  Packets,       \* packets in one transfer, at most
  MaxFrame,      \* bound: frames the camera sends
  Isochronous,   \* TRUE when the interface has alternate settings
  Callbacks,     \* what uvc_stream_start may be given: TRUE is a frame callback
  SubmitFails,   \* TRUE when submitting a transfer may fail
  Unplug         \* TRUE when the camera may be disconnected

ASSUME StreamAssumption ==
  /\ NumTransfers \in Nat \ {0} /\ Packets \in Nat \ {0} /\ MaxFrame \in Nat
  /\ Isochronous \in BOOLEAN /\ Callbacks \subseteq BOOLEAN
  /\ SubmitFails \in BOOLEAN /\ Unplug \in BOOLEAN

Transfers == 1..NumTransfers
Threads   == {"event", "caller", "poller", "user"}
Buffers   == {"a", "b"}

VARIABLES
  opened,            \* strmh is allocated
  started,           \* uvc_stream_start has been called on it
  user_cb,           \* with a callback; without one the user polls
  running,           \* read and written without cb_mutex
  transfers,         \* what became of each transfer; "null" is an empty slot
  buf, outbuf,       \* outbuf is one of the two buffers, holdbuf the other
  bfh_err, seq, fid,
  hold,              \* hold_bfh_err and hold_seq
  last_seq,          \* of _uvc_user_caller
  last_polled_seq,
  frame,             \* strmh->frame: its number and the two halves of its data
  cam,               \* no packet of an earlier frame is still to come
  seen,              \* frames of which a frame ID was looked at; only observes
  xfer, left, packet, resubmit, \* the transfer in its callback, its packets left
  plugged,
  closing,           \* the user stops the stream in order to close it
  pc

handle == <<opened, started, user_cb>>
back   == <<bfh_err, seq, fid>>
camera == <<cam, seen, plugged>>
inCallback == <<xfer, left, packet, resubmit>>
reader == <<last_seq, last_polled_seq, frame>>
vars == <<handle, running, transfers, buf, outbuf, back, hold, reader, camera, inCallback, closing, pc>>

holdbuf == IF outbuf = "a" THEN "b" ELSE "a"

\* got_bytes > 0: a buffer has only the data that was put into it since it
\* became outbuf.
gotData == buf[outbuf] # {}

-----------------------------------------------------------------------------
(* cb_mutex is held across steps only while holdbuf is copied. *)

CbMutexFree == pc["caller"] # "copy" /\ pc["poller"] # "copy"

Goto(t, label) == pc' = [pc EXCEPT ![t] = label]
Step(t, from, to) == pc[t] = from /\ Goto(t, to)

\* Whoever sleeps on cb_cond looks again.
Awake(label) == IF label = "callerSleep" THEN "callerTest"
                ELSE IF label = "pollSleep" THEN "pollWoken"
                ELSE IF label = "stopSleep" THEN "stopTest" ELSE label

\* pc after thread t, going to label, broadcasts cb_cond.
Broadcast(t, label) == pc' = [u \in Threads |-> IF u = t THEN label ELSE Awake(pc[u])]

-----------------------------------------------------------------------------
NoPacket == [n |-> 0, data |-> FALSE, eof |-> FALSE]

\* What calloc and malloc leave in a new stream handle.
NoTransfers == [i \in Transfers |-> "null"]
NoData  == [b \in Buffers |-> {}]
NewHold == [err |-> FALSE, seq |-> 0]
NoFrame == [seq |-> 0, first |-> {}, second |-> {}]

Init ==
  /\ opened = FALSE /\ started = FALSE /\ user_cb = FALSE /\ running = FALSE
  /\ transfers = NoTransfers /\ buf = NoData /\ outbuf = "a"
  /\ bfh_err = FALSE /\ seq = 0 /\ fid = 0 /\ hold = NewHold
  /\ last_seq = 0 /\ last_polled_seq = 0 /\ frame = NoFrame
  /\ cam = 1 /\ seen = {} /\ plugged = TRUE
  /\ xfer = 1 /\ left = 0 /\ packet = NoPacket /\ resubmit = FALSE
  /\ closing = FALSE
  /\ pc = [t \in Threads |-> IF t = "caller" THEN "none" ELSE "idle"]

-----------------------------------------------------------------------------
(* The user: uvc_stream_open_ctrl, _start, _stop and _close. *)

UserUnchanged == UNCHANGED <<buf, outbuf, back, hold, reader, camera, inCallback>>

\* Nothing uses the handle any more.  After a close that leaves something
\* behind, what a new stream does is not modelled.
HandleIsUnused ==
  /\ \A i \in Transfers : transfers[i] = "null"
  /\ pc["event"] = "idle" /\ pc["caller"] \in {"none", "exited"}

\* The camera numbers the frames of each stream anew.
Open ==
  /\ pc["user"] = "idle" /\ ~opened /\ HandleIsUnused /\ pc["poller"] = "idle"
  /\ opened' = TRUE /\ buf' = NoData /\ outbuf' = "a"
  /\ bfh_err' = FALSE /\ seq' = 0 /\ fid' = 0 /\ hold' = NewHold
  /\ last_seq' = 0 /\ last_polled_seq' = 0 /\ frame' = NoFrame
  /\ cam' = 1 /\ seen' = {}
  /\ UNCHANGED <<started, user_cb, running, transfers, plugged, inCallback, closing, pc>>

\* A handle is started once, as uvc_start_streaming_bandwidth does.
Start(cb) ==
  /\ Step("user", "idle", "startThread")
  /\ opened /\ ~started
  /\ started' = TRUE /\ running' = TRUE /\ user_cb' = cb
  /\ UserUnchanged /\ UNCHANGED <<opened, transfers, closing>>

\* An unknown format, no usable alternate setting: start fails, and
\* uvc_start_streaming_bandwidth closes the stream.
StartRejected ==
  /\ Step("user", "startThread", "close")
  /\ running' = FALSE
  /\ UserUnchanged /\ UNCHANGED <<handle, transfers, closing>>

\* The transfers are allocated and, with a callback, the thread is created.
StartThread ==
  /\ pc["user"] = "startThread"
  /\ transfers' = [i \in Transfers |-> "filled"]
  /\ pc' = [pc EXCEPT !["user"] = "submit", !["caller"] = IF user_cb THEN "callerTest" ELSE "none"]
  /\ UserUnchanged /\ UNCHANGED <<handle, running, closing>>

ToSubmit == {i \in Transfers : transfers[i] = "filled"}

StartSubmit ==
  /\ pc["user"] = "submit" /\ plugged
  /\ \E i \in ToSubmit :
       /\ \A j \in ToSubmit : i <= j
       /\ transfers' = [transfers EXCEPT ![i] = "active"]
  /\ UserUnchanged /\ UNCHANGED <<handle, running, closing, pc>>

\* Submitting fails: the transfers and the thread stay as they are.
StartFails ==
  /\ Step("user", "submit", "close")
  /\ SubmitFails \/ ~plugged
  /\ ToSubmit # {}
  /\ running' = FALSE
  /\ UserUnchanged /\ UNCHANGED <<handle, transfers, closing>>

StartDone ==
  /\ Step("user", "submit", "idle") /\ ToSubmit = {}
  /\ UserUnchanged /\ UNCHANGED <<handle, running, transfers, closing>>

\* uvc_stream_stop, called by itself or from uvc_stream_close; closing is the
\* first test of either.
Stop ==
  /\ pc["user"] = "idle" /\ opened /\ running
  /\ Goto("user", "stopFlag")
  /\ UserUnchanged /\ UNCHANGED <<handle, running, transfers, closing>>

StopFlag ==
  /\ Step("user", "stopFlag", "stopCancel")
  /\ running' = FALSE
  /\ UserUnchanged /\ UNCHANGED <<handle, transfers, closing>>

\* Cancelling reaches the transfers that are in flight.
StopCancel ==
  /\ Step("user", "stopCancel", "stopTest") /\ CbMutexFree
  /\ transfers' = [i \in Transfers |-> IF transfers[i] = "active" THEN "cancelled" ELSE transfers[i]]
  /\ UserUnchanged /\ UNCHANGED <<handle, running, closing>>

(* Mutant: wait until some slot is empty. *)
StopWaitForOne ==
  /\ pc["user"] = "stopTest" /\ CbMutexFree
  /\ IF \E i \in Transfers : transfers[i] = "null"
     THEN Broadcast("user", "stopJoin") ELSE Goto("user", "stopSleep")
  /\ UserUnchanged /\ UNCHANGED <<handle, running, transfers, closing>>

\* Wait until every slot is empty; then wake the callback thread and pollers.
StopWait ==
  /\ pc["user"] = "stopTest" /\ CbMutexFree
  /\ IF \A i \in Transfers : transfers[i] = "null"
     THEN Broadcast("user", "stopJoin") ELSE Goto("user", "stopSleep")
  /\ UserUnchanged /\ UNCHANGED <<handle, running, transfers, closing>>

(* Mutant: the callback thread is not joined. *)
StopDoesNotJoin ==
  /\ Step("user", "stopJoin", IF closing THEN "free" ELSE "idle")
  /\ UserUnchanged /\ UNCHANGED <<handle, running, transfers, closing>>

StopJoin ==
  /\ pc["user"] = "stopJoin"
  /\ user_cb => pc["caller"] = "exited"
  /\ pc' = [pc EXCEPT !["user"] = IF closing THEN "free" ELSE "idle", !["caller"] = "none"]
  /\ UserUnchanged /\ UNCHANGED <<handle, running, transfers, closing>>

Close ==
  /\ Step("user", "idle", "close") /\ opened
  /\ UserUnchanged /\ UNCHANGED <<handle, running, transfers, closing>>

\* A stream that is not running is not stopped.
CloseTest ==
  /\ Step("user", "close", IF running THEN "stopFlag" ELSE "free")
  /\ closing' = TRUE
  /\ UserUnchanged /\ UNCHANGED <<handle, running, transfers>>

Free ==
  /\ Step("user", "free", "idle")
  /\ opened' = FALSE /\ started' = FALSE /\ user_cb' = FALSE /\ running' = FALSE /\ closing' = FALSE
  /\ transfers' = NoTransfers
  /\ UserUnchanged

-----------------------------------------------------------------------------
(* libusb and the camera. *)

EventUnchanged == UNCHANGED <<handle, reader, closing>>

UnplugCamera ==
  /\ Unplug /\ plugged
  /\ plugged' = FALSE
  /\ UNCHANGED <<handle, running, transfers, buf, outbuf, back, hold, reader, cam, seen, inCallback, closing, pc>>

\* _uvc_stream_callback is called for a transfer: COMPLETED ...
Completed(i) ==
  /\ pc["event"] = "idle" /\ transfers[i] \in {"active", "cancelled"}
  /\ transfers' = [transfers EXCEPT ![i] = "callback"]
  /\ xfer' = i /\ resubmit' = TRUE /\ left' \in 1..(IF Isochronous THEN Packets ELSE 1)
  /\ Goto("event", "packet")
  /\ EventUnchanged /\ UNCHANGED <<running, buf, outbuf, back, hold, camera, packet>>

\* ... TIMED_OUT, STALL or OVERFLOW, which is tried again, CANCELLED or ERROR,
\* which is not ...
NotCompleted(i, again) ==
  /\ pc["event"] = "idle"
  /\ transfers[i] \in (IF again THEN {"active"} ELSE {"active", "cancelled"})
  /\ transfers' = [transfers EXCEPT ![i] = "callback"]
  /\ xfer' = i /\ resubmit' = again
  /\ Goto("event", "finish")
  /\ EventUnchanged /\ UNCHANGED <<running, buf, outbuf, back, hold, camera, packet, left>>

\* ... or NO_DEVICE, which also stops the stream.
NoDevice(i) ==
  /\ pc["event"] = "idle" /\ transfers[i] \in {"active", "cancelled"} /\ ~plugged
  /\ transfers' = [transfers EXCEPT ![i] = "callback"]
  /\ running' = FALSE
  /\ xfer' = i /\ resubmit' = FALSE
  /\ Goto("event", "finish")
  /\ EventUnchanged /\ UNCHANGED <<buf, outbuf, back, hold, camera, packet, left>>

PacketsDone ==
  /\ Step("event", "packet", "finish") /\ left = 0
  /\ EventUnchanged /\ UNCHANGED <<running, transfers, buf, outbuf, back, hold, camera, inCallback>>

(* Mutant: one packet too many. *)
BadPacketPastTheEnd ==
  /\ pc["event"] = "packet" /\ left >= 0
  /\ left' = left - 1 /\ bfh_err' = TRUE
  /\ EventUnchanged
  /\ UNCHANGED <<running, transfers, buf, outbuf, seq, fid, hold, camera, xfer, packet, resubmit, pc>>

\* A packet with a bad status, or a bulk payload shorter than its header.
BadPacket ==
  /\ pc["event"] = "packet" /\ left > 0
  /\ left' = left - 1 /\ bfh_err' = TRUE
  /\ EventUnchanged
  /\ UNCHANGED <<running, transfers, buf, outbuf, seq, fid, hold, camera, xfer, packet, resubmit, pc>>

\* An empty packet, or one with the error bit, is skipped.
SkipPacket ==
  /\ pc["event"] = "packet" /\ left > 0
  /\ left' = left - 1
  /\ EventUnchanged
  /\ UNCHANGED <<running, transfers, buf, outbuf, back, hold, camera, xfer, packet, resubmit, pc>>

(* Mutant: the frame IDs are not compared. *)
FrameIdIgnored(n) == FALSE

\* The frame ID bit has changed: the frame in outbuf ends here, although no
\* end-of-frame bit came.
NewFrameBegins(n) == fid # n % 2 /\ gotData

\* A packet of frame n arrives; those before it that did not are lost.
GoodPacket(n, data, eof) ==
  /\ pc["event"] = "packet" /\ left > 0
  /\ n >= cam
  /\ packet' = [n |-> n, data |-> data, eof |-> eof]
  /\ left' = left - 1
  /\ cam' = IF eof THEN n + 1 ELSE n
  /\ seen' = seen \cup {n}
  /\ Goto("event", IF NewFrameBegins(n) THEN "swapBefore" ELSE "payload")
  /\ EventUnchanged /\ UNCHANGED <<running, transfers, buf, outbuf, back, hold, plugged, xfer, resubmit>>

\* A bulk payload whose header is shorter than two bytes: no frame ID and no
\* end-of-frame bit is looked at, the rest is data all the same.
ShortHeader ==
  /\ pc["event"] = "packet" /\ left > 0 /\ ~Isochronous
  /\ packet' = [n |-> 0, data |-> TRUE, eof |-> FALSE]
  /\ left' = left - 1
  /\ Goto("event", "payload")
  /\ EventUnchanged /\ UNCHANGED <<running, transfers, buf, outbuf, back, hold, camera, xfer, resubmit>>

(* Mutant: the buffers are swapped without cb_mutex. *)
SwapUnlocked(label) ==
  /\ outbuf' = holdbuf /\ buf' = [buf EXCEPT ![holdbuf] = {}]
  /\ hold' = [err |-> bfh_err, seq |-> seq]
  /\ seq' = seq + 1 /\ bfh_err' = FALSE
  /\ Broadcast("event", label)

(* Mutant: nobody is told of the new frame. *)
SwapQuietly(label) ==
  /\ CbMutexFree
  /\ outbuf' = holdbuf /\ buf' = [buf EXCEPT ![holdbuf] = {}]
  /\ hold' = [err |-> bfh_err, seq |-> seq]
  /\ seq' = seq + 1 /\ bfh_err' = FALSE
  /\ Goto("event", label)

\* _uvc_swap_buffers.
SwapBuffers(label) ==
  /\ CbMutexFree
  /\ outbuf' = holdbuf /\ buf' = [buf EXCEPT ![holdbuf] = {}]
  /\ hold' = [err |-> bfh_err, seq |-> seq]
  /\ seq' = seq + 1 /\ bfh_err' = FALSE
  /\ Broadcast("event", label)

SwapBefore ==
  /\ pc["event"] = "swapBefore"
  /\ SwapBuffers("payload")
  /\ EventUnchanged /\ UNCHANGED <<running, transfers, fid, camera, inCallback>>

\* The frame ID after the packet.
FidOfPacket == IF packet.n = 0 THEN fid ELSE packet.n % 2

\* Copy the data to outbuf.  The end-of-frame bit of a bulk payload counts
\* only when there is data, that of a packet when the frame has some.
Payload ==
  /\ pc["event"] = "payload"
  /\ fid' = FidOfPacket
  /\ buf' = IF packet.data
            THEN [buf EXCEPT ![outbuf] = @ \cup {packet.n}] ELSE buf
  /\ Goto("event", IF packet.eof /\ (packet.data \/ (Isochronous /\ gotData))
                   THEN "swapAfter" ELSE "packet")
  /\ packet' = NoPacket
  /\ EventUnchanged /\ UNCHANGED <<running, transfers, outbuf, bfh_err, seq, hold, camera, xfer, left, resubmit>>

\* The data of a bulk payload does not fit behind what outbuf holds and is
\* dropped.  (What one payload carries fits in an empty buffer.)
PayloadTooLong ==
  /\ pc["event"] = "payload" /\ ~Isochronous /\ packet.data /\ gotData
  /\ fid' = FidOfPacket /\ bfh_err' = TRUE
  /\ Goto("event", IF packet.eof THEN "swapAfter" ELSE "packet")
  /\ packet' = NoPacket
  /\ EventUnchanged
  /\ UNCHANGED <<running, transfers, buf, outbuf, seq, hold, camera, xfer, left, resubmit>>

\* The header was read, but the packet is shorter than it says.
BogusPacket ==
  /\ Step("event", "payload", "packet") /\ Isochronous
  /\ fid' = FidOfPacket /\ bfh_err' = TRUE
  /\ packet' = NoPacket
  /\ EventUnchanged
  /\ UNCHANGED <<running, transfers, buf, outbuf, seq, hold, camera, xfer, left, resubmit>>

SwapAfter ==
  /\ pc["event"] = "swapAfter"
  /\ SwapBuffers("packet")
  /\ EventUnchanged /\ UNCHANGED <<running, transfers, fid, camera, inCallback>>

Finish ==
  /\ Step("event", "finish", IF running /\ resubmit THEN "resubmit" ELSE "delete")
  /\ EventUnchanged /\ UNCHANGED <<running, transfers, buf, outbuf, back, hold, camera, inCallback>>

\* The result of libusb_submit_transfer is ignored.
Resubmit ==
  /\ Step("event", "resubmit", "idle")
  /\ \/ plugged /\ transfers' = [transfers EXCEPT ![xfer] = "active"]
     \/ (SubmitFails \/ ~plugged) /\ transfers' = [transfers EXCEPT ![xfer] = "lost"]
  /\ EventUnchanged /\ UNCHANGED <<running, buf, outbuf, back, hold, camera, inCallback>>

(* Mutant: nobody is told that a transfer is gone. *)
DeleteQuietly ==
  /\ pc["event"] = "delete" /\ CbMutexFree
  /\ transfers' = [transfers EXCEPT ![xfer] = "null"]
  /\ Goto("event", "idle")
  /\ EventUnchanged /\ UNCHANGED <<running, buf, outbuf, back, hold, camera, inCallback>>

\* _uvc_delete_transfer.
DeleteTransfer ==
  /\ pc["event"] = "delete" /\ CbMutexFree
  /\ transfers' = [transfers EXCEPT ![xfer] = "null"]
  /\ Broadcast("event", "idle")
  /\ EventUnchanged /\ UNCHANGED <<running, buf, outbuf, back, hold, camera, inCallback>>

-----------------------------------------------------------------------------
(* _uvc_user_caller and uvc_stream_get_frame. *)

ReaderUnchanged ==
  UNCHANGED <<handle, running, transfers, buf, outbuf, back, hold, camera, inCallback, closing>>

\* _uvc_populate_frame, by thread t with cb_mutex: the first half of the data ...
PopulateFrame(t) ==
  /\ frame' = [seq |-> hold.seq, first |-> buf[holdbuf], second |-> {}]
  /\ Goto(t, "copy")

\* ... and the second, after which the mutex is released.
PopulateRest(t, label) ==
  /\ Step(t, "copy", label)
  /\ frame' = [frame EXCEPT !.second = buf[holdbuf]]
  /\ ReaderUnchanged /\ UNCHANGED <<last_seq, last_polled_seq>>

CallerTest ==
  /\ pc["caller"] = "callerTest" /\ CbMutexFree
  /\ IF ~running THEN Goto("caller", "exited") /\ UNCHANGED <<last_seq, frame>>
     ELSE IF last_seq = hold.seq THEN Goto("caller", "callerSleep") /\ UNCHANGED <<last_seq, frame>>
     ELSE /\ last_seq' = hold.seq
          /\ IF hold.err THEN Goto("caller", "callerErr") /\ UNCHANGED frame
                         ELSE PopulateFrame("caller")
  /\ ReaderUnchanged /\ UNCHANGED last_polled_seq

CallerCopied == PopulateRest("caller", "callerErr")

\* hold_bfh_err is read again, without the mutex.
CallerErr ==
  /\ Step("caller", "callerErr", IF hold.err THEN "callerTest" ELSE "userCallback")
  /\ ReaderUnchanged /\ UNCHANGED reader

CallerReturns ==
  /\ Step("caller", "userCallback", "callerTest")
  /\ ReaderUnchanged /\ UNCHANGED reader

PollEnter ==
  /\ Step("poller", "idle", "poll")
  /\ ~user_cb /\ started /\ running
  /\ ReaderUnchanged /\ UNCHANGED reader

PollTake ==
  /\ last_polled_seq < hold.seq
  /\ last_polled_seq' = hold.seq
  /\ PopulateFrame("poller")

\* Without a new frame a poll with no timeout (-1) returns, any other waits.
Poll ==
  /\ pc["poller"] = "poll" /\ CbMutexFree
  /\ \/ PollTake
     \/ /\ last_polled_seq >= hold.seq
        /\ Goto("poller", "idle") \/ Goto("poller", "pollSleep")
        /\ UNCHANGED <<last_polled_seq, frame>>
  /\ ReaderUnchanged /\ UNCHANGED last_seq

\* A poll waits at most its timeout, or (0) for as long as it takes.
PollTimesOut ==
  /\ Step("poller", "pollSleep", "pollWoken")
  /\ ReaderUnchanged /\ UNCHANGED reader

\* One wait only: without a new frame the poller returns without one.
PollWoken ==
  /\ pc["poller"] = "pollWoken" /\ CbMutexFree
  /\ \/ PollTake
     \/ /\ last_polled_seq >= hold.seq
        /\ Goto("poller", "idle")
        /\ UNCHANGED <<last_polled_seq, frame>>
  /\ ReaderUnchanged /\ UNCHANGED last_seq

PollCopied == PopulateRest("poller", "idle")

-----------------------------------------------------------------------------
UserStep ==
  \/ StartRejected \/ StartThread \/ StartSubmit \/ StartFails \/ StartDone
  \/ StopFlag \/ StopCancel \/ StopWait \/ StopJoin \/ CloseTest \/ Free

EventStep ==
  \/ \E i \in Transfers : \/ Completed(i) \/ NoDevice(i)
                          \/ \E again \in BOOLEAN : NotCompleted(i, again)
  \/ PacketsDone \/ BadPacket \/ SkipPacket
  \/ \E n \in 1..MaxFrame, data, eof \in BOOLEAN : GoodPacket(n, data, eof)
  \/ ShortHeader \/ SwapBefore \/ Payload \/ PayloadTooLong \/ BogusPacket \/ SwapAfter
  \/ Finish \/ Resubmit \/ DeleteTransfer

CallerStep == CallerTest \/ CallerCopied \/ CallerErr \/ CallerReturns

PollerStep ==
  \/ PollEnter \/ Poll \/ PollTimesOut \/ PollWoken \/ PollCopied

Next ==
  \/ Open \/ (\E cb \in Callbacks : Start(cb)) \/ Stop \/ Close
  \/ UserStep \/ EventStep \/ CallerStep \/ PollerStep \/ UnplugCamera

Spec == Init /\ [][Next]_vars

\* Every thread runs, a transfer that is in flight ends (libusb completes it,
\* cancels it or times it out after five seconds) and a thread gets cb_mutex if
\* it is free again and again.
LiveSpec ==
  /\ Spec
  /\ WF_vars(EventStep) /\ SF_vars(SwapBefore \/ SwapAfter \/ DeleteTransfer)
  /\ SF_vars(UserStep) /\ SF_vars(CallerStep)

-----------------------------------------------------------------------------
(* Properties. *)

Labels ==
  {"idle", "none", "exited", "startThread", "submit", "stopFlag", "stopCancel", "stopTest",
   "stopSleep", "stopJoin", "close", "free", "packet", "swapBefore", "payload", "swapAfter",
   "finish", "resubmit", "delete", "copy", "callerTest", "callerSleep", "callerErr",
   "userCallback", "poll", "pollSleep", "pollWoken"}

FlagsOK ==
  /\ opened \in BOOLEAN /\ started \in BOOLEAN /\ user_cb \in BOOLEAN /\ running \in BOOLEAN
  /\ bfh_err \in BOOLEAN /\ plugged \in BOOLEAN
  /\ resubmit \in BOOLEAN /\ closing \in BOOLEAN

TransfersOK ==
  /\ transfers \in [Transfers -> {"null", "filled", "active", "cancelled", "callback", "lost"}]
  /\ xfer \in Transfers /\ left \in 0..Packets

BuffersOK ==
  /\ buf \in [Buffers -> SUBSET (0..MaxFrame)] /\ outbuf \in Buffers
  /\ seq \in Nat /\ fid \in {0, 1} /\ hold \in [err: BOOLEAN, seq: Nat]

ReadersOK ==
  /\ frame \in [seq: Nat, first: SUBSET (0..MaxFrame), second: SUBSET (0..MaxFrame)]
  /\ last_seq \in Nat /\ last_polled_seq \in Nat

CameraOK ==
  /\ cam \in 1..(MaxFrame + 1) /\ seen \in SUBSET (1..MaxFrame)
  /\ packet \in [n: 0..MaxFrame, data: BOOLEAN, eof: BOOLEAN]

\* Every variable of the stream has a value of its type.
TypeOK ==
  FlagsOK /\ TransfersOK /\ BuffersOK /\ ReadersOK /\ CameraOK /\ pc \in [Threads -> Labels]

\* The data of two frames are together only when nothing was looked at that
\* tells them apart: they have the same frame ID, and so has every frame
\* between them of which a frame ID was looked at (those of ids).
NotToldApart(data, ids) ==
  \A m, n \in data \ {0} : m <= n =>
    \A k \in m..n : k \in ids \cup {n} => k % 2 = m % 2

\* A frame that is not being copied, in the callback or returned by
\* uvc_stream_get_frame, is whole: both halves are of the same buffer, whatever
\* the event thread does meanwhile, and it is one frame of the camera even when
\* the packet that ends a frame is lost.  Only when every frame with the other
\* frame ID is lost whole may two be together; and data without a frame ID is
\* taken for the frame in outbuf.
FrameIsWhole ==
  CbMutexFree /\ frame.seq > 0 =>
    frame.first = frame.second /\ frame.first # {} /\ NotToldApart(frame.first, seen)

\* uvc_stream_stop ends everything: between its return and the close no
\* transfer is left, no callback runs and the callback thread is gone.
StoppedIsQuiet ==
  opened /\ started /\ ~running /\ pc["user"] \in {"idle", "free"} =>
    /\ \A i \in Transfers : transfers[i] = "null"
    /\ pc["event"] = "idle" /\ pc["caller"] = "none"

\* The stream keeps the promise of FrameSource: it calls back only between
\* uvc_stream_start and the return of uvc_stream_stop.
Source == INSTANCE FrameSource WITH
  streaming <- started /\ (running \/ pc["user"] \in {"stopCancel", "stopTest", "stopSleep", "stopJoin"}),
  calling   <- pc["caller"] = "userCallback"

ImplementsFrameSource == Source!Spec

\* uvc_stream_close "closes stream, frees handle and all streaming resources":
\* nothing that uses the handle outlives it.
NothingOutlivesTheHandle ==
  pc["user"] = "free" => HandleIsUnused

\* uvc_stream_stop returns.
StopReturns == pc["user"] = "stopFlag" ~> pc["user"] \in {"idle", "free"}

\* A frame that is published is seen by the callback thread, unless the stream stops.
PublishedFrameIsSeen ==
  \A n \in 1..(2 * MaxFrame) : user_cb /\ hold.seq >= n ~> last_seq >= n \/ ~running
=============================================================================
