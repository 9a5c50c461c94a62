----------------------------- MODULE UvcPreview -----------------------------
(***************************************************************************)
(* The preview pipeline of one camera: UVCPreview.cpp.                     *)
(*                                                                         *)
(* Threads.  "uvc" is libuvc's callback thread, which delivers frames;     *)
(* "preview" takes them from previewFrames, decodes and draws them and     *)
(* leaves the latest one in captureQueu; the capture threads take it from  *)
(* there, draw it on the recording surface and hand it to the Java frame   *)
(* callback.  "api" is the Java thread whose calls UVCCamera's monitor     *)
(* serialises; "enc" is the encoder thread, which calls startCapture and   *)
(* stopCapture outside that monitor.                                       *)
(*                                                                         *)
(* Every critical section of a mutex is one action, except the sections    *)
(* that sleep on a condition variable: those are cut where the mutex is    *)
(* still held but the code has already looked at the state, because        *)
(* mIsRunning, mIsCapturing, mCaptureWindow and the signals of stopPreview *)
(* are used without the mutex and get in between.                          *)
(***************************************************************************)
EXTENDS Integers, Sequences, FiniteSets

CONSTANTS
  Frames,          \* memory for uvc_frame_t: as many as the process can allocate
  MAX_FRAME,       \* capacity of previewFrames
  Windows,         \* surfaces a recording may be drawn on
  CaptureThreads,  \* identities of capture threads
  NoFrame, NoWindow, NoThread,
  Mjpeg,           \* frameMode: TRUE when the camera sends MJPEG
  Converts,        \* TRUE when the pixel format has a mFrameCallbackFunc
  Spurious,        \* TRUE when condition variables may wake up for no reason
  Unplug,          \* TRUE when the camera may be taken away during a preview
  Calls,           \* the client operations that are called at all
  MaxCalls         \* bound on the number of client calls

ASSUME PreviewAssumption ==
  /\ MAX_FRAME \in Nat \ {0}
  /\ IsFiniteSet(Frames) /\ NoFrame \notin Frames /\ NoWindow \notin Windows
  /\ NoThread \notin CaptureThreads
  /\ CaptureThreads \cap {"uvc", "preview", "api", "enc"} = {}
  /\ Mjpeg \in BOOLEAN /\ Converts \in BOOLEAN
  /\ Spurious \in BOOLEAN /\ Unplug \in BOOLEAN
  /\ MaxCalls \in Nat

FRAME_POOL_SZ == MAX_FRAME + 2

Clients == {"api", "enc"}
Workers == {"uvc", "preview"} \cup CaptureThreads
Threads == Clients \cup Workers
Locals  == {"frame", "spare", "converted"}

VARIABLES
  mIsRunning, mIsCapturing,   \* volatile flags, read without a mutex
  mPreviewWindow,             \* a preview surface is set
  mCaptureWindow,
  windowRefs,                 \* references held on each window
  mFrameCallbackObj,          \* a Java frame callback is registered
  previewFrames, captureQueu,
  mFramePool,                 \* recycled frames
  heap,                       \* frames that are not allocated
  streaming,                  \* uvc_start_streaming opened a stream, which is not closed yet
  device,                     \* "plugged"; "gone" once libuvc has seen that the camera is gone;
                              \* "going" while its callback thread, which may have seen the
                              \* stream running, may make one more call
  captureThread,              \* the pthread_t capture_thread
  pc,
  local,                      \* the frames each thread holds in its locals
  onSurface,                  \* capture thread is in do_capture_surface
  drawing,                    \* window a capture thread is copying to
  job,                        \* the client's call in progress
  calls

flags    == <<mIsRunning, mIsCapturing>>
surfaces == <<mPreviewWindow, mCaptureWindow, windowRefs, mFrameCallbackObj>>
queues   == <<previewFrames, captureQueu>>
pool     == <<mFramePool, heap>>
capture  == <<captureThread, onSurface, drawing>>
client   == <<job, calls>>
stream   == <<streaming, device>>
vars == <<flags, surfaces, queues, pool, stream, capture, pc, local, client>>

\* Steps of which all but the control, and the frames held, is unchanged.
OnlyControl == UNCHANGED <<flags, surfaces, queues, pool, stream, capture, local, client>>
OnlyFrames  == UNCHANGED <<flags, surfaces, queues, stream, capture, client>>

-----------------------------------------------------------------------------
(* Mutexes, condition variables and the frame pool. *)

QueuedFrames == {previewFrames[i] : i \in DOMAIN previewFrames}

PreviewMutexFree == pc["preview"] # "previewSleepy"

CaptureMutexFree ==
  /\ \A t \in CaptureThreads : pc[t] # "captureSleepy"
  /\ \A t \in Clients : pc[t] \notin {"setterLook", "setterSignal", "setterAssign"}

Goto(t, label) == pc' = [pc EXCEPT ![t] = label]
Step(t, from, to) == pc[t] = from /\ Goto(t, to)

\* Threads asleep on capture_sync; a thread whose label ends in "Woken" must
\* take the mutex again before it goes on.
CaptureSleepers == {t \in CaptureThreads \cup Clients : pc[t] \in {"captureSleep", "setterSleep"}}

Awake(t) == IF pc[t] = "captureSleep" THEN "captureWoken"
            ELSE IF pc[t] = "setterSleep" THEN "setterWoken" ELSE "previewWoken"

\* pc after thread t, going to label, signals capture_sync.
SignalCapture(t, label) ==
  IF CaptureSleepers = {}
  THEN Goto(t, label)
  ELSE \E u \in CaptureSleepers : pc' = [pc EXCEPT ![t] = label, ![u] = Awake(u)]

\* pc after thread t, going to label, broadcasts capture_sync.
BroadcastCapture(t, label) ==
  pc' = [u \in Threads |-> IF u = t THEN label
                           ELSE IF u \in CaptureSleepers THEN Awake(u) ELSE pc[u]]

\* pc after thread t, going to label, signals preview_sync.
SignalPreview(t, label) ==
  pc' = [u \in Threads |-> IF u = t THEN label
                           ELSE IF pc[u] = "previewSleep" THEN "previewWoken" ELSE pc[u]]

\* f is the result of get_frame, NoFrame when there is no memory.
GetFrame(f) ==
  IF mFramePool # {}
  THEN f \in mFramePool /\ mFramePool' = mFramePool \ {f} /\ UNCHANGED heap
  ELSE /\ UNCHANGED mFramePool
       /\ IF heap # {} THEN f \in heap /\ heap' = heap \ {f}
                       ELSE f = NoFrame /\ UNCHANGED heap

\* Thread t gets a frame into a local variable and goes to one of two labels.
GetInto(t, name, got, failed) ==
  \E f \in Frames \cup {NoFrame} :
    /\ GetFrame(f)
    /\ local' = [local EXCEPT ![<<t, name>>] = f]
    /\ Goto(t, IF f = NoFrame THEN failed ELSE got)

\* recycle_frame for every frame of fs: the pool takes what it has room for.
Recycle(fs) ==
  \E kept \in SUBSET fs :
    /\ Cardinality(mFramePool \cup kept) <= FRAME_POOL_SZ
    /\ kept = fs \/ Cardinality(mFramePool \cup kept) = FRAME_POOL_SZ
    /\ mFramePool' = mFramePool \cup kept
    /\ heap' = heap \cup (fs \ kept)

\* Thread t recycles the frame in a local variable (a null frame is ignored).
RecycleLocal(t, name) ==
  /\ Recycle({local[<<t, name>>]} \ {NoFrame})
  /\ local' = [local EXCEPT ![<<t, name>>] = NoFrame]

-----------------------------------------------------------------------------
Init ==
  /\ mIsRunning = FALSE /\ mIsCapturing = FALSE
  /\ mPreviewWindow = FALSE /\ mCaptureWindow = NoWindow
  /\ windowRefs = [w \in Windows |-> 0]
  /\ mFrameCallbackObj = FALSE
  /\ previewFrames = <<>> /\ captureQueu = NoFrame
  /\ mFramePool = {} /\ heap = Frames
  /\ streaming = FALSE /\ device = "plugged"
  /\ captureThread = NoThread
  /\ pc = [t \in Threads |-> IF t \in Clients \cup {"uvc"} THEN "idle" ELSE "none"]
  /\ local = [s \in Workers \X Locals |-> NoFrame]
  /\ onSurface = [t \in CaptureThreads |-> FALSE]
  /\ drawing = [t \in CaptureThreads |-> NoWindow]
  /\ job = [t \in Clients |-> [op |-> "none", window |-> NoWindow, callback |-> FALSE]]
  /\ calls = 0

-----------------------------------------------------------------------------
(* libuvc's callback thread: uvc_preview_frame_callback. *)

\* A complete frame arrives and the callback gets a frame to copy it to.
UvcReceive ==
  /\ streaming /\ device = "plugged" /\ pc["uvc"] = "idle" /\ mIsRunning
  /\ GetInto("uvc", "frame", "uvcAdd", "idle")
  /\ OnlyFrames

\* The last call of a stream that has ended because the camera is gone: it may
\* come when the stream is closed, and the next preview started.
UvcReceiveLate ==
  /\ device = "going" /\ pc["uvc"] = "idle" /\ mIsRunning
  /\ device' = "gone"
  /\ GetInto("uvc", "frame", "uvcAdd", "idle")
  /\ UNCHANGED <<flags, surfaces, queues, streaming, capture, client>>

\* A transfer completes with LIBUSB_TRANSFER_NO_DEVICE: libuvc takes the stream
\* for stopped, whatever its callback thread is doing.  (A loss between two
\* previews shows as PreviewFails.)
DeviceLost ==
  /\ Unplug /\ device = "plugged" /\ streaming
  /\ device' = IF pc["uvc"] = "idle" THEN "going" ELSE "gone"
  /\ UNCHANGED <<flags, surfaces, queues, pool, streaming, capture, pc, local, client>>

(* Mutant: one frame too many. *)
QueueHasRoomForOneMore == Len(previewFrames) <= MAX_FRAME

QueueHasRoom == Len(previewFrames) < MAX_FRAME

\* addPreviewFrame: the frame is queued unless the preview stopped or the queue is full.
UvcAddPreviewFrame ==
  /\ pc["uvc"] = "uvcAdd" /\ PreviewMutexFree
  /\ IF mIsRunning /\ QueueHasRoom
     THEN /\ previewFrames' = Append(previewFrames, local[<<"uvc", "frame">>])
          /\ local' = [local EXCEPT ![<<"uvc", "frame">>] = NoFrame]
          /\ SignalPreview("uvc", "idle")
     ELSE /\ Goto("uvc", "uvcRecycle")
          /\ UNCHANGED <<previewFrames, local>>
  /\ UNCHANGED <<flags, surfaces, captureQueu, pool, stream, capture, client>>

\* uvc_duplicate_frame fails: the copy goes back without being queued.
UvcDuplicateFails == Step("uvc", "uvcAdd", "uvcRecycle") /\ OnlyControl

UvcRecycle ==
  /\ Step("uvc", "uvcRecycle", "idle")
  /\ RecycleLocal("uvc", "frame")
  /\ OnlyFrames

-----------------------------------------------------------------------------
(* The preview thread: preview_thread_func. *)

PreviewUnchanged == UNCHANGED <<surfaces, stream, capture, client>>

\* prepare_preview or uvc_start_streaming_bandwidth fails: the thread ends and
\* mIsRunning stays set.
PreviewFails == Step("preview", "prepare", "exited") /\ OnlyControl

PreviewStartStreaming ==
  /\ Step("preview", "prepare", "clear") /\ device = "plugged"
  /\ streaming' = TRUE
  /\ UNCHANGED <<flags, surfaces, queues, pool, device, capture, local, client>>

(* Mutant: the queue keeps the frames it gave back. *)
RecyclePreviewFrames(t, label) ==
  /\ PreviewMutexFree
  /\ Recycle(QueuedFrames)
  /\ UNCHANGED previewFrames
  /\ Goto(t, label)

ClearPreviewFrame(t, label) ==
  /\ PreviewMutexFree
  /\ Recycle(QueuedFrames)
  /\ previewFrames' = <<>>
  /\ Goto(t, label)

PreviewClear ==
  /\ pc["preview"] = "clear"
  /\ ClearPreviewFrame("preview", "create")
  /\ PreviewUnchanged /\ UNCHANGED <<flags, captureQueu, local>>

\* pthread_create of the capture thread; its result is ignored.
PreviewCreateCapture ==
  /\ pc["preview"] = "create"
  /\ \/ \E t \in CaptureThreads :
          /\ pc[t] = "none"
          /\ captureThread' = t
          /\ pc' = [pc EXCEPT !["preview"] = "previewLoop", ![t] = "captureStart"]
     \/ /\ \A t \in CaptureThreads : pc[t] # "none"
        /\ UNCHANGED captureThread
        /\ Goto("preview", "previewLoop")
  /\ UNCHANGED <<flags, surfaces, queues, pool, stream, onSurface, drawing, local, client>>

PreviewLoop ==
  /\ Step("preview", "previewLoop", IF mIsRunning THEN "previewTest" ELSE "previewFinish")
  /\ OnlyControl

\* waitPreviewFrame looks at the queue and, still holding preview_mutex, is
\* about to sleep.
PreviewTest ==
  /\ Step("preview", "previewTest", "previewSleepy")
  /\ previewFrames = <<>>
  /\ OnlyControl

PreviewSleep == Step("preview", "previewSleepy", "previewSleep") /\ OnlyControl

\* The rest of waitPreviewFrame: one test, whether it slept or not.
PreviewTake ==
  /\ \/ pc["preview"] = "previewTest" /\ previewFrames # <<>>
     \/ pc["preview"] = "previewWoken"
  /\ IF mIsRunning /\ previewFrames # <<>>
     THEN /\ local' = [local EXCEPT ![<<"preview", IF Mjpeg THEN "spare" ELSE "frame">>] = Head(previewFrames)]
          /\ previewFrames' = Tail(previewFrames)
          /\ Goto("preview", IF Mjpeg THEN "decode" ELSE "draw")
     ELSE /\ Goto("preview", "previewLoop")
          /\ UNCHANGED <<previewFrames, local>>
  /\ PreviewUnchanged /\ UNCHANGED <<flags, captureQueu, pool>>

\* MJPEG: get a frame for the decoded picture.  uvc_mjpeg2yuyv writes to it
\* without a test: with no memory left the process dies, and nothing is promised
\* of what the other threads do after "faulted".
PreviewDecode ==
  /\ pc["preview"] = "decode"
  /\ GetInto("preview", "frame", "decoded", "faulted")
  /\ OnlyFrames

\* The compressed frame is recycled; a picture that does not decode follows it.
PreviewDecoded ==
  /\ pc["preview"] = "decoded"
  /\ RecycleLocal("preview", "spare")
  /\ \E label \in {"draw", "undecodable"} : Goto("preview", label)
  /\ OnlyFrames

PreviewUndecodable ==
  /\ Step("preview", "undecodable", "previewLoop")
  /\ RecycleLocal("preview", "frame")
  /\ OnlyFrames

\* draw_preview_one: with a window, get a frame for the converted picture.
PreviewDraw ==
  /\ pc["preview"] = "draw"
  /\ IF mPreviewWindow
     THEN GetInto("preview", "converted", "drawn", "addCapture")
     ELSE Goto("preview", "addCapture") /\ UNCHANGED <<pool, local>>
  /\ OnlyFrames

PreviewDrawn ==
  /\ Step("preview", "drawn", "addCapture")
  /\ RecycleLocal("preview", "converted")
  /\ OnlyFrames

\* addCaptureFrame: keep only the latest frame.  When the preview has stopped
\* the frame is neither kept nor recycled.
PreviewAddCapture ==
  /\ pc["preview"] = "addCapture" /\ CaptureMutexFree
  /\ IF mIsRunning
     THEN /\ Recycle({captureQueu} \ {NoFrame})
          /\ captureQueu' = local[<<"preview", "frame">>]
          /\ BroadcastCapture("preview", "previewLoop")
     ELSE Goto("preview", "previewLoop") /\ UNCHANGED <<pool, captureQueu>>
  /\ local' = [local EXCEPT ![<<"preview", "frame">>] = NoFrame]
  /\ PreviewUnchanged /\ UNCHANGED <<flags, previewFrames>>

PreviewFinish ==
  /\ pc["preview"] = "previewFinish"
  /\ SignalCapture("preview", "stopStreaming")
  /\ OnlyControl

\* uvc_stop_streaming returns when the callback thread is done; a stream that
\* lost its device is taken for stopped already, and nobody waits.
PreviewStopStreaming ==
  /\ Step("preview", "stopStreaming", "exited")
  /\ device = "plugged" => pc["uvc"] = "idle"
  /\ streaming' = FALSE
  /\ UNCHANGED <<flags, surfaces, queues, pool, device, capture, local, client>>

-----------------------------------------------------------------------------
(* A capture thread: capture_thread_func. *)

CaptureUnchanged == UNCHANGED <<mIsRunning, previewFrames, mPreviewWindow, mFrameCallbackObj,
                                stream, captureThread, client>>

ClearCaptureFrame(t, label) ==
  /\ CaptureMutexFree /\ Recycle({captureQueu} \ {NoFrame})
  /\ captureQueu' = NoFrame
  /\ Goto(t, label)

CaptureStart(t) ==
  /\ pc[t] = "captureStart"
  /\ ClearCaptureFrame(t, "captureLoop")
  /\ CaptureUnchanged /\ UNCHANGED <<mIsCapturing, mCaptureWindow, windowRefs, onSurface, drawing, local>>

\* The outer loop of do_capture: mIsCapturing is set without the mutex.
CaptureLoop(t) ==
  /\ pc[t] = "captureLoop"
  /\ IF mIsRunning
     THEN mIsCapturing' = TRUE /\ Goto(t, "capturePick")
     ELSE Goto(t, "exited") /\ UNCHANGED mIsCapturing
  /\ CaptureUnchanged /\ UNCHANGED <<mCaptureWindow, windowRefs, onSurface, drawing, captureQueu, pool, local>>

CapturePick(t) ==
  /\ Step(t, "capturePick", "captureInner")
  /\ onSurface' = [onSurface EXCEPT ![t] = mCaptureWindow # NoWindow]
  /\ CaptureUnchanged /\ UNCHANGED <<mIsCapturing, mCaptureWindow, windowRefs, drawing, captureQueu, pool, local>>

\* The loop condition of do_capture_surface and do_capture_idle_loop.
CaptureInner(t) ==
  /\ pc[t] = "captureInner"
  /\ Goto(t, IF mIsRunning /\ mIsCapturing THEN "captureTest"
             ELSE IF onSurface[t] THEN "leaveSurface" ELSE "captureBroadcast")
  /\ OnlyControl

\* waitCaptureFrame, cut like waitPreviewFrame.
CaptureTest(t) ==
  /\ Step(t, "captureTest", "captureSleepy") /\ CaptureMutexFree
  /\ captureQueu = NoFrame
  /\ OnlyControl

CaptureSleep(t) == Step(t, "captureSleepy", "captureSleep") /\ OnlyControl

CaptureTake(t) ==
  /\ \/ pc[t] = "captureTest" /\ captureQueu # NoFrame
     \/ pc[t] = "captureWoken"
  /\ CaptureMutexFree
  /\ IF mIsRunning /\ captureQueu # NoFrame
     THEN /\ local' = [local EXCEPT ![<<t, "frame">>] = captureQueu]
          /\ captureQueu' = NoFrame
          /\ Goto(t, IF onSurface[t] THEN "surfaceFrame" ELSE "callback")
     ELSE Goto(t, "captureInner") /\ UNCHANGED <<captureQueu, local>>
  /\ CaptureUnchanged /\ UNCHANGED <<mIsCapturing, mCaptureWindow, windowRefs, onSurface, drawing, pool>>

\* do_capture_surface: still capturing, get the conversion buffer once.
SurfaceFrame(t) ==
  /\ pc[t] = "surfaceFrame"
  /\ IF ~mIsCapturing THEN Goto(t, "callback") /\ UNCHANGED <<pool, local>>
     ELSE IF local[<<t, "converted">>] # NoFrame THEN Goto(t, "copy") /\ UNCHANGED <<pool, local>>
     ELSE GetInto(t, "converted", "copy", "callback")
  /\ OnlyFrames

\* copyToSurface on mCaptureWindow, which no mutex protects here, unless the
\* conversion fails.
SurfaceCopy(t) ==
  /\ pc[t] = "copy"
  /\ \E w \in {mCaptureWindow, NoWindow} :
       /\ drawing' = [drawing EXCEPT ![t] = w]
       /\ Goto(t, IF w = NoWindow THEN "callback" ELSE "copied")
  /\ CaptureUnchanged /\ UNCHANGED <<mIsCapturing, mCaptureWindow, windowRefs, onSurface, captureQueu, pool, local>>

SurfaceCopied(t) ==
  /\ Step(t, "copied", "callback")
  /\ drawing' = [drawing EXCEPT ![t] = NoWindow]
  /\ CaptureUnchanged /\ UNCHANGED <<mIsCapturing, mCaptureWindow, windowRefs, onSurface, captureQueu, pool, local>>

\* do_capture_callback looks at mFrameCallbackObj, again without the mutex.
CaptureCallback(t) ==
  /\ Step(t, "callback", IF ~mFrameCallbackObj THEN "recycle" ELSE IF Converts THEN "convert" ELSE "onFrame")
  /\ OnlyControl

\* The frame for the callback: without memory the callback is skipped.
CaptureConvert(t) ==
  /\ pc[t] = "convert"
  /\ GetInto(t, "spare", "converted", "recycle")
  /\ OnlyFrames

(* Mutant: callback_frame replaces the original, which nobody recycles. *)
CaptureReplace(t) ==
  /\ pc[t] = "converted"
  /\ local' = [local EXCEPT ![<<t, "frame">>] = local[<<t, "spare">>], ![<<t, "spare">>] = NoFrame]
  /\ \E label \in {"onFrame", "recycle"} : Goto(t, label)
  /\ UNCHANGED pool /\ OnlyFrames

\* The original is recycled and callback_frame takes its place; a failed
\* conversion skips the call.
CaptureConverted(t) ==
  /\ pc[t] = "converted"
  /\ Recycle({local[<<t, "frame">>]} \ {NoFrame})
  /\ local' = [local EXCEPT ![<<t, "frame">>] = local[<<t, "spare">>], ![<<t, "spare">>] = NoFrame]
  /\ \E label \in {"onFrame", "recycle"} : Goto(t, label)
  /\ OnlyFrames

\* CallVoidMethod(mFrameCallbackObj, onFrame).
CaptureOnFrame(t) == Step(t, "onFrame", "recycle") /\ OnlyControl

CaptureRecycle(t) ==
  /\ Step(t, "recycle", "captureInner")
  /\ RecycleLocal(t, "frame")
  /\ OnlyFrames

\* The end of do_capture_surface: recycle the buffer ...
LeaveSurface(t) ==
  /\ Step(t, "leaveSurface", "releaseWindow")
  /\ RecycleLocal(t, "converted")
  /\ OnlyFrames

DropRef(w) == windowRefs' = [v \in Windows |-> IF v = w THEN windowRefs[v] - 1 ELSE windowRefs[v]]

\* ... and release mCaptureWindow, then clear it, without the mutex.
CaptureReleaseWindow(t) ==
  /\ Step(t, "releaseWindow", IF mCaptureWindow = NoWindow THEN "captureBroadcast" ELSE "clearWindow")
  /\ DropRef(mCaptureWindow)
  /\ CaptureUnchanged /\ UNCHANGED <<mIsCapturing, mCaptureWindow, onSurface, drawing, captureQueu, pool, local>>

CaptureClearWindow(t) ==
  /\ Step(t, "clearWindow", "captureBroadcast")
  /\ mCaptureWindow' = NoWindow
  /\ CaptureUnchanged /\ UNCHANGED <<mIsCapturing, windowRefs, onSurface, drawing, captureQueu, pool, local>>

CaptureBroadcast(t) ==
  /\ pc[t] = "captureBroadcast"
  /\ BroadcastCapture(t, "captureLoop")
  /\ OnlyControl

-----------------------------------------------------------------------------
(* The client calls. *)

ClientUnchanged == UNCHANGED <<queues, pool, stream, capture, local>>

Begin(t, op) ==
  /\ pc[t] = "idle" /\ op \in Calls /\ calls < MaxCalls
  /\ calls' = calls + 1

SetPreviewDisplay(set) ==
  /\ Begin("api", "setPreviewDisplay") /\ PreviewMutexFree
  /\ mPreviewWindow' = set
  /\ ClientUnchanged /\ UNCHANGED <<flags, mCaptureWindow, windowRefs, mFrameCallbackObj, pc, job>>

StartPreview ==
  /\ Begin("api", "startPreview") /\ ~mIsRunning
  /\ mIsRunning' = TRUE
  /\ Goto("api", "startCreate")
  /\ ClientUnchanged /\ UNCHANGED <<mIsCapturing, surfaces, job>>

\* pthread_create of the preview thread, under preview_mutex.
StartCreate ==
  /\ pc["api"] = "startCreate" /\ PreviewMutexFree
  /\ mPreviewWindow
  /\ pc' = [pc EXCEPT !["api"] = "idle", !["preview"] = "prepare"]
  /\ OnlyControl

\* No window, or the thread could not be created: the flag is taken back.
StartFails ==
  /\ Step("api", "startCreate", "idle") /\ PreviewMutexFree
  /\ mIsRunning' = FALSE
  /\ ClientUnchanged /\ UNCHANGED <<mIsCapturing, surfaces, client>>

\* setFrameCallback and setCaptureDisplay: take capture_mutex and ask a capture
\* loop that runs to stop.  The JNI layer has acquired a reference on the new window.
SetterEnter(t, j) ==
  /\ Begin(t, j.op) /\ CaptureMutexFree
  /\ job' = [job EXCEPT ![t] = j]
  /\ mIsCapturing' = (mIsCapturing /\ ~mIsRunning)
  /\ Goto(t, IF mIsRunning /\ mIsCapturing THEN "setterLook" ELSE "setterAssign")
  /\ windowRefs' = [w \in Windows |-> IF w = j.window THEN windowRefs[w] + 1 ELSE windowRefs[w]]
  /\ ClientUnchanged /\ UNCHANGED <<mIsRunning, mPreviewWindow, mCaptureWindow, mFrameCallbackObj>>

SetCaptureDisplay(t, w) ==
  SetterEnter(t, [op |-> "setCaptureDisplay", window |-> w, callback |-> FALSE])

SetFrameCallback(set) ==
  SetterEnter("api", [op |-> "setFrameCallback", window |-> NoWindow, callback |-> set])

\* UVCCamera.stopPreview unregisters the frame callback first.
StopPreview ==
  SetterEnter("api", [op |-> "stopPreview", window |-> NoWindow, callback |-> FALSE])

\* When the loop has something to finish, wait for it; the capture thread
\* clears mCaptureWindow without the mutex.
SetterLook(t) ==
  /\ Step(t, "setterLook",
          IF IF job[t].op = "setCaptureDisplay" THEN mCaptureWindow # NoWindow ELSE mFrameCallbackObj
          THEN "setterSignal" ELSE "setterAssign")
  /\ OnlyControl

\* pthread_cond_signal, then pthread_cond_wait releases the mutex.
SetterWait(t) ==
  /\ pc[t] = "setterSignal"
  /\ SignalCapture(t, "setterSleep")
  /\ OnlyControl

\* The assignment, still under the mutex or after waking up with it.
SetterAssign(t) ==
  /\ \/ pc[t] = "setterAssign"
     \/ pc[t] = "setterWoken" /\ CaptureMutexFree
  /\ IF job[t].op = "setCaptureDisplay"
     THEN /\ IF mCaptureWindow # job[t].window THEN DropRef(mCaptureWindow) ELSE UNCHANGED windowRefs
          /\ mCaptureWindow' = job[t].window
          /\ UNCHANGED mFrameCallbackObj
     ELSE /\ mFrameCallbackObj' = job[t].callback
          /\ UNCHANGED <<mCaptureWindow, windowRefs>>
  /\ Goto(t, IF job[t].op = "stopPreview" THEN "stop" ELSE "idle")
  /\ ClientUnchanged /\ UNCHANGED <<flags, mPreviewWindow, client>>

\* The native stopPreview: the flag, then the signals, without the mutexes.
StopFlag ==
  /\ Step("api", "stop", IF mIsRunning THEN "stopSignalPreview" ELSE "stopClearPreview")
  /\ mIsRunning' = FALSE
  /\ ClientUnchanged /\ UNCHANGED <<mIsCapturing, surfaces, client>>

StopSignalPreview ==
  /\ pc["api"] = "stopSignalPreview"
  /\ SignalPreview("api", "stopSignalCapture")
  /\ OnlyControl

StopSignalCapture ==
  /\ pc["api"] = "stopSignalCapture"
  /\ SignalCapture("api", "joinCapture")
  /\ OnlyControl

\* pthread_join(capture_thread): fails at once when there is no such thread.
StopJoinCapture ==
  /\ pc["api"] = "joinCapture"
  /\ IF captureThread = NoThread \/ pc[captureThread] = "none"
     THEN Goto("api", "joinPreview")
     ELSE /\ pc[captureThread] = "exited"
          /\ pc' = [pc EXCEPT !["api"] = "joinPreview", ![captureThread] = "none"]
  /\ OnlyControl

(* Mutant: stopPreview does not wait for the preview thread. *)
StopDoesNotJoin ==
  /\ pc["api"] = "joinPreview"
  /\ Goto("api", "stopClearPreview")
  /\ OnlyControl

StopJoinPreview ==
  /\ pc["api"] = "joinPreview" /\ pc["preview"] = "exited"
  /\ pc' = [pc EXCEPT !["api"] = "stopClearPreview", !["preview"] = "none"]
  /\ OnlyControl

StopClearPreview ==
  /\ pc["api"] = "stopClearPreview"
  /\ ClearPreviewFrame("api", "stopClearCapture")
  /\ UNCHANGED <<flags, surfaces, captureQueu, stream, capture, local, client>>

StopClearCapture ==
  /\ pc["api"] = "stopClearCapture"
  /\ ClearCaptureFrame("api", "stopRelease")
  /\ UNCHANGED <<flags, surfaces, previewFrames, stream, capture, local, client>>

\* Both windows are released, each under its mutex.
StopRelease ==
  /\ Step("api", "stopRelease", "idle") /\ PreviewMutexFree /\ CaptureMutexFree
  /\ mPreviewWindow' = FALSE
  /\ DropRef(mCaptureWindow)
  /\ mCaptureWindow' = NoWindow
  /\ ClientUnchanged /\ UNCHANGED <<flags, mFrameCallbackObj, client>>

\* A condition variable may wake a sleeper that nobody signalled.
SpuriousWakeup ==
  /\ Spurious
  /\ \E t \in Threads : /\ pc[t] \in {"captureSleep", "setterSleep", "previewSleep"}
                        /\ Goto(t, Awake(t))
  /\ OnlyControl

-----------------------------------------------------------------------------
UvcStep == UvcAddPreviewFrame \/ UvcDuplicateFails \/ UvcRecycle

PreviewStep ==
  \/ PreviewFails \/ PreviewStartStreaming \/ PreviewClear \/ PreviewCreateCapture
  \/ PreviewLoop \/ PreviewTest \/ PreviewSleep \/ PreviewTake
  \/ PreviewDecode \/ PreviewDecoded \/ PreviewUndecodable
  \/ PreviewDraw \/ PreviewDrawn \/ PreviewAddCapture
  \/ PreviewFinish \/ PreviewStopStreaming

CaptureStep(t) ==
  \/ CaptureStart(t) \/ CaptureLoop(t) \/ CapturePick(t) \/ CaptureInner(t)
  \/ CaptureTest(t) \/ CaptureSleep(t) \/ CaptureTake(t)
  \/ SurfaceFrame(t) \/ SurfaceCopy(t) \/ SurfaceCopied(t)
  \/ CaptureCallback(t) \/ CaptureConvert(t) \/ CaptureConverted(t)
  \/ CaptureOnFrame(t) \/ CaptureRecycle(t)
  \/ LeaveSurface(t) \/ CaptureReleaseWindow(t) \/ CaptureClearWindow(t)
  \/ CaptureBroadcast(t)

\* A call starts ...
ClientCall ==
  \/ \E set \in BOOLEAN : SetPreviewDisplay(set) \/ SetFrameCallback(set)
  \/ StartPreview \/ StopPreview
  \/ \E t \in Clients, w \in Windows \cup {NoWindow} : SetCaptureDisplay(t, w)

\* ... and goes on.
ClientStep(t) ==
  \/ SetterLook(t) \/ SetterWait(t) \/ SetterAssign(t)
  \/ /\ t = "api"
     /\ \/ StartCreate \/ StartFails
        \/ StopFlag \/ StopSignalPreview \/ StopSignalCapture
        \/ StopJoinCapture \/ StopJoinPreview
        \/ StopClearPreview \/ StopClearCapture \/ StopRelease

Next ==
  \/ UvcReceive \/ UvcReceiveLate \/ DeviceLost \/ UvcStep \/ PreviewStep
  \/ \E t \in CaptureThreads : CaptureStep(t)
  \/ \E t \in Clients : ClientStep(t)
  \/ ClientCall
  \/ SpuriousWakeup

Spec == Init /\ [][Next]_vars

\* Every thread that can go on eventually does; a thread that waits for a
\* mutex gets it if it is free again and again.  Frames need not arrive and
\* clients need not call.
LiveSpec ==
  /\ Spec
  /\ WF_vars(UvcStep) /\ WF_vars(PreviewStep)
  /\ \A t \in CaptureThreads : SF_vars(CaptureStep(t))
  /\ \A t \in Clients : SF_vars(ClientStep(t))

-----------------------------------------------------------------------------
(* Properties. *)

Labels ==
  {"idle", "none", "exited", "uvcAdd", "uvcRecycle",
   "prepare", "clear", "create", "previewLoop", "previewTest", "previewSleepy",
   "previewSleep", "previewWoken", "decode", "faulted", "decoded", "undecodable",
   "draw", "drawn", "addCapture", "previewFinish", "stopStreaming",
   "captureStart", "captureLoop", "capturePick", "captureInner", "captureTest",
   "captureSleepy", "captureSleep", "captureWoken", "surfaceFrame", "copy", "copied",
   "callback", "convert", "converted", "onFrame", "recycle", "leaveSurface",
   "releaseWindow", "clearWindow", "captureBroadcast",
   "startCreate", "setterLook", "setterSignal", "setterAssign", "setterSleep", "setterWoken",
   "stop", "stopSignalPreview", "stopSignalCapture", "joinCapture", "joinPreview",
   "stopClearPreview", "stopClearCapture", "stopRelease"}

Jobs == [op : {"none", "setCaptureDisplay", "setFrameCallback", "stopPreview"},
         window : Windows \cup {NoWindow}, callback : BOOLEAN]

\* Every variable of UVCPreview has a value of its type, and neither the
\* preview queue nor the frame pool outgrows its capacity.
TypeOK ==
  /\ mIsRunning \in BOOLEAN /\ mIsCapturing \in BOOLEAN
  /\ mPreviewWindow \in BOOLEAN /\ mFrameCallbackObj \in BOOLEAN
  /\ mCaptureWindow \in Windows \cup {NoWindow}
  /\ windowRefs \in [Windows -> Int]
  /\ previewFrames \in Seq(Frames) /\ Len(previewFrames) <= MAX_FRAME
  /\ captureQueu \in Frames \cup {NoFrame}
  /\ mFramePool \in SUBSET Frames /\ heap \in SUBSET Frames
  /\ Cardinality(mFramePool) <= FRAME_POOL_SZ
  /\ streaming \in BOOLEAN /\ device \in {"plugged", "going", "gone"}
  /\ captureThread \in CaptureThreads \cup {NoThread}
  /\ pc \in [Threads -> Labels]
  /\ local \in [Workers \X Locals -> Frames \cup {NoFrame}]
  /\ onSurface \in [CaptureThreads -> BOOLEAN]
  /\ drawing \in [CaptureThreads -> Windows \cup {NoWindow}]
  /\ job \in [Clients -> Jobs]
  /\ calls \in 0..MaxCalls

HeldFrames == {local[s] : s \in Workers \X Locals} \ {NoFrame}

\* A frame has one owner: it is in the heap, in the pool, at one place of the
\* preview queue, in captureQueu or in one local variable of one thread.  No
\* interleaving of get_frame, recycle_frame, the queues and the two clear
\* functions frees, pools or queues a frame twice.
FrameHasOneOwner ==
  /\ heap \cap mFramePool = {}
  /\ \A f \in heap \cup mFramePool :
       /\ f # captureQueu
       /\ \A i \in DOMAIN previewFrames : previewFrames[i] # f
       /\ \A s \in Workers \X Locals : local[s] # f
  /\ \A i \in DOMAIN previewFrames :
       /\ previewFrames[i] # captureQueu
       /\ \A s \in Workers \X Locals : local[s] # previewFrames[i]
       /\ \A j \in DOMAIN previewFrames : previewFrames[i] = previewFrames[j] => i = j
  /\ \A s \in Workers \X Locals : local[s] # NoFrame =>
       /\ local[s] # captureQueu
       /\ \A r \in Workers \X Locals : local[s] = local[r] => s = r

LostFrames == Frames \ (heap \cup mFramePool \cup QueuedFrames \cup HeldFrames \cup {captureQueu})

\* No step loses track of a frame while the preview runs; when it is stopping,
\* a step loses at most the one frame the preview thread was drawing.
FramesLostOnlyWhenStopping ==
  [][\/ LostFrames' \subseteq LostFrames
     \/ ~mIsRunning /\ \E f \in Frames : LostFrames' = LostFrames \cup {f}]_vars

\* When stopPreview has returned and no start is under way, no stream is open,
\* no preview thread is left and no frame waits to be captured.  Unless the
\* camera was lost, no callback is in progress either and previewFrames is empty:
\* after a loss the callback that stopPreview did not wait for may still queue
\* a frame, when the next start raises mIsRunning before it fails.
StoppedIsQuiet ==
  pc["api"] = "idle" /\ ~mIsRunning =>
    /\ ~streaming /\ pc["preview"] = "none" /\ captureQueu = NoFrame
    /\ device = "plugged" => pc["uvc"] = "idle" /\ previewFrames = <<>>

\* setCaptureDisplay and setFrameCallback "wait finishing capturing" before
\* they release what the capture thread uses: a capture thread draws only on a
\* window that is still referenced.
DrawnWindowIsReferenced ==
  \A t \in CaptureThreads : drawing[t] # NoWindow => windowRefs[drawing[t]] > 0

\* While frames keep coming, a thread that waits in setCaptureDisplay or
\* setFrameCallback for the capture thread gets out of it.
SetterReturnsWhileFramesCome ==
  []<><<PreviewAddCapture /\ mIsRunning>>_vars =>
    \A t \in Clients : pc[t] = "setterSleep" ~> pc[t] \notin {"setterSleep", "setterWoken"}
=============================================================================
