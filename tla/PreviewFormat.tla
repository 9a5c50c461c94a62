---------------------------- MODULE PreviewFormat ----------------------------
(***************************************************************************)
(* How a preview gets its size and format: setPreviewSize asks the camera  *)
(* and keeps the request, and the preview thread, which startPreview       *)
(* creates, asks again, commits the answer and tells the frame callback    *)
(* what to expect.  libuvc looks for a format, a frame and an interval     *)
(* among the camera's descriptors and then probes: the camera keeps what   *)
(* was set and may answer with another frame, even an unknown one.         *)
(*                                                                         *)
(* The client is one thread, "client": that of AbstractUVCCameraHandler,   *)
(* which falls back to YUYV when its own format is refused, or any other   *)
(* user of UVCCamera.java.  setPreviewSize takes no lock, so it may meet   *)
(* the preview thread at any point.  What the preview does with its frames *)
(* is in UvcPreview, and what the stream does in UvcStream.                *)
(***************************************************************************)
EXTENDS Integers, Sequences, FiniteSets, FiniteSetsExt

CONSTANTS
  Cameras,      \* cameras: sequences of formats, [mode, frames]; a frame is [size, intervals, lo, hi, step]
  Sizes,        \* that a client asks for, in pixels
  DefaultSize,
  Rates,        \* that a client asks for: [min, max] in frames per second
  Adjusts,      \* whether a camera may answer with another frame of the format, or an unknown one
  MaxCalls,     \* bound on the client's calls
  MaxFailures   \* bound on the control transfers that fail

YUYV  == 0
MJPEG == 1
DefaultRates == [min |-> 1, max |-> 30]
HandlerRates == [min |-> 1, max |-> 31]

ASSUME FormatAssumption ==
  /\ \A camera \in Cameras : \A i \in DOMAIN camera :
       /\ i \in Nat \ {0}
       /\ camera[i].mode \in {YUYV, MJPEG}
       /\ \A j \in DOMAIN camera[i].frames : camera[i].frames[j].size \in Nat \ {0}
  /\ Sizes \subseteq Nat \ {0} /\ DefaultSize \in Nat \ {0}
  /\ \A r \in Rates : r.min \in Nat /\ r.max \in Nat
  /\ Adjusts \in BOOLEAN /\ MaxCalls \in Nat /\ MaxFailures \in Nat

Threads == {"client", "preview"}
None    == [format |-> 0, frame |-> 0, interval |-> 0]

VARIABLES
  formats,        \* the camera's
  client,         \* "handler" or "java"
  mPreviewMode,   \* of the handler, with
  mSize,          \* mWidth and mHeight
  mIsPreviewing,
  opened,
  mCurrent,       \* the Java object's size and mode
  request,        \* requestWidth and Height, requestMode, requestMinFps and MaxFps
  frame,          \* frameWidth and Height, frameMode, frameBytes
  mIsRunning,
  probe,          \* what the camera was asked
  claimed,        \* the interface, by the open handle
  stream,         \* the ctrl of the open stream, or None
  ctrl,           \* each thread's local
  pc,
  call,           \* the client's: what for, and the arguments
  disturbed,      \* setPreviewSize changed the request since the preview was started
  calls, failures

java     == <<client, mPreviewMode, mSize, mIsPreviewing, opened, mCurrent, call, calls>>
native   == <<request, frame, mIsRunning, disturbed>>
device   == <<formats, probe, claimed, stream>>
vars     == <<java, native, device, ctrl, pc, failures>>

NoCall == [for |-> "nothing", size |-> DefaultSize, mode |-> YUYV, rates |-> DefaultRates]

Init ==
  /\ formats \in Cameras
  /\ client \in {"handler", "java"} /\ mPreviewMode \in {YUYV, MJPEG} /\ mSize \in Sizes
  /\ mIsPreviewing = FALSE /\ opened = FALSE
  /\ mCurrent = [size |-> DefaultSize, mode |-> MJPEG]
  /\ request  = [size |-> DefaultSize, mode |-> YUYV, rates |-> DefaultRates]
  /\ frame    = [size |-> DefaultSize, mode |-> YUYV, bytes |-> DefaultSize * 2]
  /\ mIsRunning = FALSE /\ disturbed = FALSE
  /\ probe = None /\ claimed = FALSE /\ stream = None
  /\ ctrl = [t \in Threads |-> None]
  /\ pc = [client |-> "idle", preview |-> "none"]
  /\ call = NoCall /\ calls = 0 /\ failures = 0

At(t, label) == pc[t] = label
Goto(t, label) == pc' = [pc EXCEPT ![t] = label]

Fail == failures < MaxFailures /\ failures' = failures + 1

-----------------------------------------------------------------------------
(* libuvc: which frame and interval suit a request *)

Period == 10000000   \* 100 ns in a second

\* The intervals of a frame are a list, or a range with steps.
Listed(f, rates) ==
  {i \in DOMAIN f.intervals : Period \div f.intervals[i] \in rates.min..rates.max}

Stepped(f, rates) ==
  {fps \in (rates.min..rates.max) \ {0} :
     LET interval == Period \div fps
     IN  /\ f.lo <= interval /\ interval <= f.hi
         /\ interval = f.lo \/ (interval - f.lo) % f.step = 0}

Suits(f, size, rates) ==
  /\ f.size = size
  /\ IF f.intervals # <<>> THEN Listed(f, rates) # {} ELSE Stepped(f, rates) # {}

\* The first of the list, or the fastest.
Interval(f, rates) ==
  IF f.intervals # <<>> THEN f.intervals[Min(Listed(f, rates))]
  ELSE Period \div Max(Stepped(f, rates))

\* Everything that is not 0 is asked for as MJPEG.
Matches(i, mode) == (formats[i].mode = YUYV) = (mode = YUYV)

Suitable(i, r) == {j \in DOMAIN formats[i].frames : Suits(formats[i].frames[j], r.size, r.rates)}

Frame(c) == formats[c.format].frames[c.frame]

-----------------------------------------------------------------------------
(* uvc_get_stream_ctrl_format_size_fps, by either thread *)

Succeeds(t) == Goto(t, IF t = "client" THEN "accepted" ELSE "size")
Fails(t)    == Goto(t, IF t = "client" THEN "refused" ELSE "ended")

\* The formats are tried in turn; each claims the interface and, unless it is the one,
\* releases it, also when it cannot be prepared, as those in lost.
Search(t) ==
  /\ At(t, "search")
  /\ LET tried == {i \in DOMAIN formats : Matches(i, request.mode)}
     IN  \E lost \in SUBSET tried :
           LET good == {i \in tried \ lost : Suitable(i, request) # {}}
           IN  /\ failures + Cardinality(lost) <= MaxFailures
               /\ failures' = failures + Cardinality(lost)
               /\ \/ \E i \in good : \E j \in Suitable(i, request) :
                       /\ \A k \in good : i <= k
                       /\ \A k \in Suitable(i, request) : j <= k
                       /\ ctrl' = [ctrl EXCEPT ![t] =
                             [format |-> i, frame |-> j,
                              interval |-> Interval(formats[i].frames[j], request.rates)]]
                       /\ claimed' = TRUE
                       /\ Goto(t, "probe")
                  \/ /\ good = {}
                     /\ claimed' = (claimed /\ tried = {})
                     /\ Fails(t)
                     /\ UNCHANGED ctrl
  /\ UNCHANGED <<java, native, formats, probe, stream>>

\* uvc_probe_stream_ctrl: the camera is asked, and takes this frame, or another, which its
\* descriptors need not have (None).
Probe(t) ==
  /\ At(t, "probe")
  /\ \/ /\ \/ \E j \in DOMAIN formats[ctrl[t].format].frames :
                /\ Adjusts \/ j = ctrl[t].frame
                /\ probe' = [format |-> ctrl[t].format, frame |-> j, interval |-> ctrl[t].interval]
           \/ Adjusts /\ probe' = None
        /\ claimed' = TRUE
        /\ Goto(t, "read")
        /\ UNCHANGED failures
     \/ /\ Fail
        /\ \E ok \in BOOLEAN : claimed' = (claimed \/ ok)
        /\ Fails(t)
        /\ UNCHANGED probe
  /\ UNCHANGED <<java, native, formats, stream, ctrl>>

\* and its answer is read, which may be that to the other thread.
ReadProbe(t) ==
  /\ At(t, "read")
  /\ \/ /\ ctrl' = [ctrl EXCEPT ![t] = probe]
        /\ Succeeds(t)
        /\ UNCHANGED failures
     \/ /\ Fail
        /\ Fails(t)
        /\ UNCHANGED ctrl
  /\ UNCHANGED <<java, native, device>>

-----------------------------------------------------------------------------
(* Opening and setting a size *)

Call ==
  /\ At("client", "idle") /\ calls < MaxCalls
  /\ calls' = calls + 1

\* A new UVCPreview has the default size, which open asks for and so does not negotiate.
\* The handler makes a new Java object too, any other client may.
Open ==
  /\ Call /\ ~opened
  /\ opened' = TRUE
  /\ \/ mCurrent' = [size |-> DefaultSize, mode |-> MJPEG]
     \/ client = "java" /\ UNCHANGED mCurrent
  /\ request' = [size |-> DefaultSize, mode |-> YUYV, rates |-> DefaultRates]
  /\ frame' = [size |-> DefaultSize, mode |-> YUYV, bytes |-> DefaultSize * 2]
  /\ mIsRunning' = FALSE /\ disturbed' = FALSE
  /\ claimed' = FALSE
  /\ UNCHANGED <<client, mPreviewMode, mSize, mIsPreviewing, call, formats, probe, stream, ctrl, pc, failures>>

\* Some overloads pass the current format, which is -1 after a close.
CallSetPreviewSize ==
  /\ Call /\ client = "java" /\ opened
  /\ \E size \in Sizes, mode \in {YUYV, MJPEG, mCurrent.mode}, rates \in Rates :
       call' = [for |-> "set", size |-> size, mode |-> mode, rates |-> rates]
  /\ Goto("client", "request")
  /\ UNCHANGED <<client, mPreviewMode, mSize, mIsPreviewing, opened, mCurrent, native, device, ctrl, failures>>

(* Mutant: the guard of handleStartPreview looks at the camera only. *)
StartsAnyway == opened

MayStart == opened /\ ~mIsPreviewing

HandleStartPreview ==
  /\ Call /\ client = "handler" /\ MayStart
  /\ call' = [for |-> "try", size |-> mSize, mode |-> mPreviewMode, rates |-> HandlerRates]
  /\ Goto("client", "request")
  /\ UNCHANGED <<client, mPreviewMode, mSize, mIsPreviewing, opened, mCurrent, native, device, ctrl, failures>>

(* Mutant: the mode is not compared. *)
SameSize == request.size = call.size

\* A request like the last is not negotiated, whatever became of that.
Same == request.size = call.size /\ request.mode = call.mode

SetPreviewSize ==
  /\ At("client", "request")
  /\ IF Same THEN Goto("client", "accepted") /\ UNCHANGED <<request, disturbed>>
     ELSE /\ request' = [request EXCEPT !.size = call.size, !.rates = call.rates]
          /\ disturbed' = (disturbed \/ mIsRunning)
          /\ Goto("client", "mode")
  /\ UNCHANGED <<java, frame, mIsRunning, device, ctrl, failures>>

SetMode ==
  /\ At("client", "mode")
  /\ request' = [request EXCEPT !.mode = call.mode]
  /\ Goto("client", "search")
  /\ UNCHANGED <<java, frame, mIsRunning, disturbed, device, ctrl, failures>>

\* setPreviewSize returns,
Accepted ==
  /\ At("client", "accepted")
  /\ mCurrent' = [size |-> call.size, mode |-> call.mode]
  /\ IF call.for = "set" THEN Goto("client", "idle") /\ call' = NoCall
     ELSE Goto("client", "start") /\ UNCHANGED call
  /\ UNCHANGED <<client, mPreviewMode, mSize, mIsPreviewing, opened, calls, native, device, ctrl, failures>>

\* or throws, and the handler tries YUYV, once.
Refused ==
  /\ At("client", "refused")
  /\ IF call.for = "try"
     THEN call' = [call EXCEPT !.for = "fallback", !.mode = YUYV] /\ Goto("client", "request")
     ELSE call' = NoCall /\ Goto("client", "idle")
  /\ UNCHANGED <<client, mPreviewMode, mSize, mIsPreviewing, opened, mCurrent, calls, native, device, ctrl, failures>>

-----------------------------------------------------------------------------
(* Starting and stopping *)

\* The surface is set.
Start ==
  IF mIsRunning THEN UNCHANGED <<mIsRunning, disturbed>> /\ Goto("client", "idle")
  ELSE /\ mIsRunning' = TRUE
       /\ disturbed' = FALSE
       /\ pc' = [client |-> "idle", preview |-> "search"]

StartPreview ==
  /\ Call /\ client = "java" /\ opened
  /\ Start
  /\ UNCHANGED <<client, mPreviewMode, mSize, mIsPreviewing, opened, mCurrent, call,
                 request, frame, device, ctrl, failures>>

HandlerStarts ==
  /\ At("client", "start")
  /\ Start
  /\ mIsPreviewing' = TRUE
  /\ call' = NoCall
  /\ UNCHANGED <<client, mPreviewMode, mSize, opened, mCurrent, calls, request, frame, device, ctrl, failures>>

Stop(what) ==
  /\ call' = [NoCall EXCEPT !.for = what]
  /\ mIsRunning' = FALSE
  /\ Goto("client", IF mIsRunning THEN "join" ELSE "stopped")
  /\ UNCHANGED <<client, mPreviewMode, mSize, mIsPreviewing, opened, mCurrent,
                 request, frame, disturbed, device, ctrl, failures>>

\* The handler asks for it whenever it believes in a preview, be there a camera or not.
StopPreview == Call /\ (IF client = "handler" THEN mIsPreviewing ELSE opened) /\ Stop("stop")
Close       == Call /\ opened /\ Stop("close")

Join ==
  /\ At("client", "join") /\ At("preview", "ended")
  /\ pc' = [client |-> "stopped", preview |-> "none"]
  /\ UNCHANGED <<java, native, device, ctrl, failures>>

\* A handler's camera is destroyed; mIsPreviewing stays as it is.
Stopped ==
  /\ At("client", "stopped")
  /\ mIsPreviewing' = (mIsPreviewing /\ call.for = "close")
  /\ opened' = (opened /\ call.for # "close")
  /\ mCurrent' = IF call.for = "close" THEN [mCurrent EXCEPT !.mode = -1] ELSE mCurrent
  /\ claimed' = (claimed /\ call.for # "close")
  /\ call' = NoCall
  /\ Goto("client", "idle")
  /\ UNCHANGED <<client, mPreviewMode, mSize, calls, native, formats, probe, stream, ctrl, failures>>

-----------------------------------------------------------------------------
(* The preview thread, after it has negotiated: the rest of prepare_preview *)

(* Mutant: the size is the one that was asked for. *)
FrameOfRequest ==
  /\ At("preview", "size")
  /\ frame' = [frame EXCEPT !.size = request.size]
  /\ Goto("preview", "format")
  /\ UNCHANGED <<java, request, mIsRunning, disturbed, device, ctrl, failures>>

\* uvc_get_frame_desc finds the frame.
Known(c) == c # None

FrameSize ==
  /\ At("preview", "size")
  /\ frame' = [frame EXCEPT !.size =
       IF Known(ctrl["preview"]) THEN Frame(ctrl["preview"]).size ELSE request.size]
  /\ Goto("preview", "format")
  /\ UNCHANGED <<java, request, mIsRunning, disturbed, device, ctrl, failures>>

FrameMode ==
  /\ At("preview", "format")
  /\ frame' = [frame EXCEPT !.mode = request.mode]
  /\ Goto("preview", "bytes")
  /\ UNCHANGED <<java, request, mIsRunning, disturbed, device, ctrl, failures>>

\* There is no preview of an unknown frame.
FrameBytes ==
  /\ At("preview", "bytes")
  /\ frame' = [frame EXCEPT !.bytes = frame.size * (IF request.mode = YUYV THEN 2 ELSE 4)]
  /\ Goto("preview", IF Known(ctrl["preview"]) THEN "start" ELSE "ended")
  /\ UNCHANGED <<java, request, mIsRunning, disturbed, device, ctrl, failures>>

\* The interface is claimed, the format committed and the transfers submitted.
StartStreaming ==
  /\ At("preview", "start")
  /\ stream' = ctrl["preview"]
  /\ claimed' = TRUE
  /\ Goto("preview", "stream")
  /\ UNCHANGED <<java, native, formats, probe, ctrl, failures>>

\* Only a failed start, which closes the stream, releases the interface.
StartFails ==
  /\ At("preview", "start")
  /\ Fail
  /\ claimed' \in BOOLEAN
  /\ Goto("preview", "ended")
  /\ UNCHANGED <<java, native, formats, probe, stream, ctrl>>

(* Mutant: the stream is not closed when the preview ends. *)
LeaveStreaming ==
  /\ At("preview", "stream") /\ ~mIsRunning
  /\ Goto("preview", "ended")
  /\ UNCHANGED <<java, native, device, ctrl, failures>>

StopStreaming ==
  /\ At("preview", "stream") /\ ~mIsRunning
  /\ stream' = None
  /\ claimed' = FALSE
  /\ Goto("preview", "ended")
  /\ UNCHANGED <<java, native, formats, probe, ctrl, failures>>

Negotiate(t) == Search(t) \/ Probe(t) \/ ReadProbe(t)

PreviewStep ==
  Negotiate("preview") \/ FrameSize \/ FrameMode \/ FrameBytes \/ StartStreaming \/ StartFails \/ StopStreaming

ClientStep ==
  Negotiate("client") \/ SetPreviewSize \/ SetMode \/ Accepted \/ Refused \/ HandlerStarts \/ Join \/ Stopped

Next ==
  \/ Open \/ CallSetPreviewSize \/ HandleStartPreview \/ StartPreview \/ StopPreview \/ Close
  \/ ClientStep \/ PreviewStep

Spec == Init /\ [][Next]_vars

-----------------------------------------------------------------------------
(* Properties *)

Modes    == {YUYV, MJPEG, -1}
AnySize  == Sizes \cup {DefaultSize}
AnyRates == Rates \cup {DefaultRates, HandlerRates}
Requests == [size: AnySize, mode: Modes, rates: AnyRates]
Calls    == [for: {"nothing", "set", "try", "fallback", "stop", "close"},
             size: AnySize, mode: Modes, rates: AnyRates]

IsCtrl(c) == c = None \/ (c.format \in DOMAIN formats /\ c.frame \in DOMAIN formats[c.format].frames)

FlagsOK ==
  /\ mIsPreviewing \in BOOLEAN /\ opened \in BOOLEAN
  /\ mIsRunning \in BOOLEAN /\ claimed \in BOOLEAN /\ disturbed \in BOOLEAN

DataOK ==
  /\ formats \in Cameras
  /\ client \in {"handler", "java"} /\ mPreviewMode \in {YUYV, MJPEG} /\ mSize \in Sizes
  /\ mCurrent \in [size: AnySize, mode: Modes]
  /\ request \in Requests /\ call \in Calls
  /\ frame \in [size: Nat, mode: Modes, bytes: Nat]
  /\ calls \in Nat

ThreadsOK ==
  /\ DOMAIN pc = Threads /\ DOMAIN ctrl = Threads
  /\ pc["preview"] \in {"none", "search", "probe", "read", "size", "format", "bytes", "start", "stream", "ended"}
  /\ pc["client"] \in {"idle", "request", "mode", "search", "probe", "read", "accepted", "refused",
                       "start", "join", "stopped"}

CtrlOK ==
  /\ IsCtrl(probe) /\ IsCtrl(stream) /\ \A t \in Threads : IsCtrl(ctrl[t])
  /\ stream # None <=> pc["preview"] = "stream"

\* Whatever is asked, answered or committed is a frame of the camera, and a stream is open
\* exactly while the preview thread streams.
TypeOK == FlagsOK /\ DataOK /\ ThreadsOK /\ CtrlOK

\* A preview that no setPreviewSize disturbs, and every preview of the handler, has the
\* interface it streams over: a refused request releases it, whoever uses it.
StreamHasItsInterface ==
  stream # None /\ (client = "handler" \/ ~disturbed) => claimed

\* The frames of such a preview pass the test of uvc_preview_frame_callback, and only MJPEG
\* is decoded as MJPEG: what prepare_preview reads of the request after the negotiation
\* fits what was committed, also if the camera has chosen another frame.
FramesAreShown ==
  stream # None /\ (client = "handler" \/ ~disturbed) =>
    LET mode == formats[stream.format].mode
    IN  /\ frame.size = Frame(stream).size
        /\ mode = YUYV => Frame(stream).size * 2 >= frame.bytes
        /\ (frame.mode # YUYV) = (mode = MJPEG)

\* A handler whose format is MJPEG starts only previews the camera offers, whatever it was
\* refused before. (With YUYV the fallback repeats a refused request, which is taken for
\* the current one and accepted.)
AcceptedIsOffered ==
  client = "handler" /\ mPreviewMode = MJPEG /\ mIsRunning =>
    \E i \in DOMAIN formats : Matches(i, request.mode) /\ Suitable(i, request) # {}

=============================================================================
