-------------------------- MODULE UvcPreviewProofs --------------------------
(***************************************************************************)
(* Proofs about the preview pipeline, for any number of frames, windows    *)
(* and capture threads and any queue capacity: types, the owners of the    *)
(* frames, what a stopped preview leaves running, and when frames are lost.*)
(***************************************************************************)
EXTENDS UvcPreview, FiniteSetTheorems, TLAPS

\* What TypeOK needs to be inductive: the callback thread queues a real frame.
QueuedByCallback == pc["uvc"] = "uvcAdd" => local[<<"uvc", "frame">>] \in Frames

TypeInv == TypeOK /\ QueuedByCallback

USE DEF FRAME_POOL_SZ, QueueHasRoom, stream

\* What the last call of a stream without a device leaves alone.
OnlyLateFrame == device' = "gone" /\ UNCHANGED <<flags, surfaces, queues, streaming, capture, client>>

LEMMA PoolFinite ==
  ASSUME PreviewAssumption, NEW S \in SUBSET Frames
  PROVE  IsFiniteSet(S) /\ Cardinality(S) \in Nat
  BY FS_Subset, FS_CardinalityType DEF PreviewAssumption

\* get_frame returns a frame that was free and is not any more, or none, and
\* never makes the pool larger.
LEMMA GetFrameTaken ==
  ASSUME PreviewAssumption, TypeOK, NEW f \in Frames \cup {NoFrame}, GetFrame(f)
  PROVE  /\ mFramePool' \in SUBSET Frames /\ heap' \in SUBSET Frames
         /\ mFramePool' \subseteq mFramePool /\ heap' \subseteq heap
         /\ Cardinality(mFramePool') <= FRAME_POOL_SZ
         /\ f # NoFrame => f \in (heap \cup mFramePool) \ (heap' \cap mFramePool')
         /\ f # NoFrame /\ heap \cap mFramePool = {} => f \notin heap' \cup mFramePool'
<1>1. mFramePool' \in SUBSET mFramePool /\ heap' \in SUBSET heap
  BY DEF GetFrame
<1>2. Cardinality(mFramePool') <= Cardinality(mFramePool)
  <2>1. IsFiniteSet(mFramePool)
    BY PoolFinite DEF TypeOK
  <2> QED BY <1>1, <2>1, FS_Subset
<1>3. Cardinality(mFramePool') \in Nat /\ Cardinality(mFramePool) \in Nat
  BY <1>1, PoolFinite DEF TypeOK
<1>4. Cardinality(mFramePool') <= FRAME_POOL_SZ
  BY <1>2, <1>3 DEF TypeOK, PreviewAssumption
<1> QED BY <1>1, <1>4 DEF GetFrame, TypeOK

\* recycle_frame puts every frame in the pool or back to the heap, in one of
\* them only, and keeps the pool within its capacity.
LEMMA RecycleKept ==
  ASSUME TypeOK, NEW fs \in SUBSET Frames, Recycle(fs)
  PROVE  /\ mFramePool' \in SUBSET Frames /\ heap' \in SUBSET Frames
         /\ Cardinality(mFramePool') <= FRAME_POOL_SZ
         /\ heap' \cup mFramePool' = heap \cup mFramePool \cup fs
         /\ heap \cap mFramePool = {} /\ fs \cap (heap \cup mFramePool) = {}
              => heap' \cap mFramePool' = {}
BY DEF Recycle, TypeOK

-----------------------------------------------------------------------------
(* Type correctness. *)

USE DEF Threads, Clients, Workers

\* Waking sleepers keeps pc well typed and never sends the callback thread to
\* addPreviewFrame.
LEMMA PcTyped ==
  ASSUME PreviewAssumption, TypeOK, NEW t \in Threads, NEW label \in Labels,
         Goto(t, label) \/ BroadcastCapture(t, label) \/ SignalCapture(t, label) \/ SignalPreview(t, label)
  PROVE  /\ pc' \in [Threads -> Labels]
         /\ t # "uvc" \/ label # "uvcAdd" => (pc'["uvc"] = "uvcAdd" => pc["uvc"] = "uvcAdd" /\ t # "uvc")
<1> USE DEF PreviewAssumption, TypeOK
<1>0. \A u \in Threads : Awake(u) \in Labels \ {"uvcAdd"} /\ "previewWoken" \in Labels
  BY DEF Awake, Labels
<1>1. CASE Goto(t, label)
  BY <1>1 DEF Goto
<1>2. CASE BroadcastCapture(t, label)
  BY <1>0, <1>2 DEF BroadcastCapture
<1>3. CASE SignalCapture(t, label)
  <2>1. CASE CaptureSleepers = {}
    BY <1>1, <1>3, <2>1 DEF SignalCapture
  <2>2. CASE CaptureSleepers # {}
    <3>1. PICK u \in CaptureSleepers : pc' = [pc EXCEPT ![t] = label, ![u] = Awake(u)]
      BY <1>3, <2>2 DEF SignalCapture
    <3>2. u \in CaptureThreads \cup {"api", "enc"} /\ u # "uvc"
      BY DEF CaptureSleepers
    <3> QED BY <1>0, <3>1, <3>2
  <2> QED BY <2>1, <2>2
<1>4. CASE SignalPreview(t, label)
  BY <1>0, <1>4 DEF SignalPreview
<1> QED BY <1>1, <1>2, <1>3, <1>4

LEMMA ControlKeepsTypes ==
  ASSUME TypeInv, OnlyControl, pc' \in [Threads -> Labels],
         pc'["uvc"] = "uvcAdd" => pc["uvc"] = "uvcAdd"
  PROVE  TypeInv'
BY DEF TypeInv, TypeOK, QueuedByCallback, OnlyControl, flags, surfaces, queues, pool, capture, client

LEMMA FramesKeepTypes ==
  ASSUME TypeInv, OnlyFrames \/ OnlyLateFrame, pc' \in [Threads -> Labels],
         mFramePool' \in SUBSET Frames, heap' \in SUBSET Frames,
         Cardinality(mFramePool') <= FRAME_POOL_SZ,
         local' \in [Workers \X Locals -> Frames \cup {NoFrame}],
         QueuedByCallback'
  PROVE  TypeInv'
BY DEF TypeInv, TypeOK, OnlyFrames, OnlyLateFrame, flags, surfaces, queues, capture, client

LEMMA GetIntoTyped ==
  ASSUME PreviewAssumption, TypeInv, OnlyFrames \/ OnlyLateFrame, NEW t \in Workers, NEW name \in Locals,
         NEW got \in Labels, NEW failed \in Labels, failed # "uvcAdd",
         got = "uvcAdd" => t = "uvc" /\ name = "frame",
         t = "uvc" => pc["uvc"] # "uvcAdd",
         GetInto(t, name, got, failed)
  PROVE  TypeInv'
<1>1. PICK f \in Frames \cup {NoFrame} :
        /\ GetFrame(f)
        /\ local' = [local EXCEPT ![<<t, name>>] = f]
        /\ Goto(t, IF f = NoFrame THEN failed ELSE got)
  BY DEF GetInto
<1>2. /\ mFramePool' \in SUBSET Frames /\ heap' \in SUBSET Frames
      /\ Cardinality(mFramePool') <= FRAME_POOL_SZ
  BY <1>1, GetFrameTaken DEF TypeInv
<1>3. local' \in [Workers \X Locals -> Frames \cup {NoFrame}] /\ pc' \in [Threads -> Labels]
  BY <1>1 DEF TypeInv, TypeOK, Goto
<1>4. QueuedByCallback'
  BY <1>1 DEF TypeInv, TypeOK, QueuedByCallback, Goto, PreviewAssumption, Locals
<1> QED BY <1>2, <1>3, <1>4, FramesKeepTypes

LEMMA RecycleLocalTyped ==
  ASSUME PreviewAssumption, TypeInv, OnlyFrames, NEW t \in Workers, NEW name \in Locals,
         RecycleLocal(t, name), pc' \in [Threads -> Labels],
         pc'["uvc"] = "uvcAdd" => pc["uvc"] = "uvcAdd" /\ t # "uvc"
  PROVE  TypeInv'
<1>1. /\ mFramePool' \in SUBSET Frames /\ heap' \in SUBSET Frames
      /\ Cardinality(mFramePool') <= FRAME_POOL_SZ
  <2>1. {local[<<t, name>>]} \ {NoFrame} \in SUBSET Frames
    BY DEF TypeInv, TypeOK
  <2> QED BY <2>1, RecycleKept DEF RecycleLocal, TypeInv
<1>2. local' \in [Workers \X Locals -> Frames \cup {NoFrame}]
  BY DEF RecycleLocal, TypeInv, TypeOK
<1>3. QueuedByCallback'
  BY DEF RecycleLocal, TypeInv, TypeOK, QueuedByCallback, Locals
<1> QED BY <1>1, <1>2, <1>3, FramesKeepTypes

LEMMA QueuedFramesTyped ==
  ASSUME TypeOK
  PROVE  QueuedFrames \in SUBSET Frames
BY DEF QueuedFrames, TypeOK

LEMMA InitTypeInv == PreviewAssumption /\ Init => TypeInv
<1> SUFFICES ASSUME PreviewAssumption, Init PROVE TypeInv
  OBVIOUS
<1>1. Cardinality({}) = 0 /\ Len(<<>>) = 0 /\ <<>> \in Seq(Frames)
  BY FS_EmptySet
<1>2. pc \in [Threads -> Labels] /\ pc["uvc"] # "uvcAdd"
  BY DEF Init, Labels
<1>3. job \in [Clients -> Jobs]
  BY DEF Init, Jobs
<1>4. /\ previewFrames \in Seq(Frames) /\ Len(previewFrames) <= MAX_FRAME
      /\ Cardinality(mFramePool) <= FRAME_POOL_SZ
  BY <1>1 DEF Init, PreviewAssumption
<1>5. local \in [Workers \X Locals -> Frames \cup {NoFrame}]
  BY DEF Init
<1>6. /\ windowRefs \in [Windows -> Int]
      /\ onSurface \in [CaptureThreads -> BOOLEAN]
      /\ drawing \in [CaptureThreads -> Windows \cup {NoWindow}]
      /\ calls \in 0..MaxCalls
  BY DEF Init, PreviewAssumption
<1> QED BY <1>2, <1>3, <1>4, <1>5, <1>6 DEF Init, TypeInv, TypeOK, QueuedByCallback

\* The steps of libuvc's callback thread.
LEMMA UvcTyped ==
  ASSUME PreviewAssumption, TypeInv, UvcReceive \/ UvcReceiveLate \/ DeviceLost \/ UvcStep
  PROVE  TypeInv'
<1>0. "idle" \in Labels /\ "uvcAdd" \in Labels /\ "uvcRecycle" \in Labels
  BY DEF Labels
<1>1. CASE UvcReceive
  BY <1>0, <1>1, GetIntoTyped DEF UvcReceive, Locals
<1>5. CASE UvcReceiveLate
  BY <1>0, <1>5, GetIntoTyped DEF UvcReceiveLate, OnlyLateFrame, Locals
<1>6. CASE DeviceLost
  BY <1>6 DEF DeviceLost, TypeInv, TypeOK, QueuedByCallback, flags, surfaces, queues, pool, capture, client
<1>2. CASE UvcAddPreviewFrame
  <2>1. CASE mIsRunning /\ QueueHasRoom
    <3>1. pc' \in [Threads -> Labels] /\ pc'["uvc"] # "uvcAdd"
      BY <1>0, <1>2, <2>1, PcTyped DEF UvcAddPreviewFrame, TypeInv
    <3>2. previewFrames' \in Seq(Frames) /\ Len(previewFrames') <= MAX_FRAME
      <4>1. local[<<"uvc", "frame">>] \in Frames /\ previewFrames \in Seq(Frames)
        BY <1>2 DEF UvcAddPreviewFrame, TypeInv, TypeOK, QueuedByCallback
      <4>2. previewFrames' = Append(previewFrames, local[<<"uvc", "frame">>])
        BY <1>2, <2>1 DEF UvcAddPreviewFrame
      <4> QED BY <2>1, <4>1, <4>2 DEF PreviewAssumption
    <3>3. local' \in [Workers \X Locals -> Frames \cup {NoFrame}]
      BY <1>2, <2>1 DEF UvcAddPreviewFrame, TypeInv, TypeOK
    <3> QED BY <1>2, <3>1, <3>2, <3>3
            DEF UvcAddPreviewFrame, TypeInv, TypeOK, QueuedByCallback,
                flags, surfaces, pool, capture, client
  <2>2. CASE ~(mIsRunning /\ QueueHasRoom)
    <3>1. pc' \in [Threads -> Labels] /\ pc'["uvc"] # "uvcAdd" /\ OnlyControl
      <4>1. Goto("uvc", "uvcRecycle") /\ OnlyControl
        BY <1>2, <2>2 DEF UvcAddPreviewFrame, OnlyControl, queues
      <4> QED BY <1>0, <4>1 DEF Goto, TypeInv, TypeOK
    <3> QED BY <3>1, ControlKeepsTypes
  <2> QED BY <2>1, <2>2
<1>3. CASE UvcDuplicateFails
  BY <1>0, <1>3, ControlKeepsTypes, PcTyped DEF UvcDuplicateFails, Step, TypeInv
<1>4. CASE UvcRecycle
  <2>1. pc' \in [Threads -> Labels] /\ pc'["uvc"] # "uvcAdd"
    BY <1>0, <1>4 DEF UvcRecycle, Step, Goto, TypeInv, TypeOK
  <2> QED BY <1>4, <2>1, RecycleLocalTyped DEF UvcRecycle, Locals
<1> QED BY <1>1, <1>2, <1>3, <1>4, <1>5, <1>6 DEF UvcStep

\* The steps of the preview thread.
LEMMA PreviewTyped ==
  ASSUME PreviewAssumption, TypeInv, PreviewStep
  PROVE  TypeInv'
<1> USE DEF Step, TypeInv
<1>0. \A label \in {"prepare", "clear", "create", "previewLoop", "previewTest", "previewSleepy",
          "previewSleep", "previewFinish", "decode", "faulted", "decoded", "undecodable", "draw",
          "drawn", "addCapture", "stopStreaming", "exited", "captureStart"} :
        label \in Labels /\ label # "uvcAdd"
  BY DEF Labels
<1>1. CASE PreviewFails
  BY <1>0, <1>1, PcTyped, ControlKeepsTypes DEF PreviewFails
<1>2. CASE PreviewStartStreaming
  <2>1. pc' \in [Threads -> Labels] /\ (pc'["uvc"] = "uvcAdd" => pc["uvc"] = "uvcAdd")
    BY <1>0, <1>2, PcTyped DEF PreviewStartStreaming
  <2> QED BY <1>2, <2>1 DEF PreviewStartStreaming, TypeOK, QueuedByCallback,
               flags, surfaces, queues, pool, capture, client
<1>3. CASE PreviewClear
  <2>1. pc' \in [Threads -> Labels] /\ (pc'["uvc"] = "uvcAdd" => pc["uvc"] = "uvcAdd")
    BY <1>0, <1>3, PcTyped DEF PreviewClear, ClearPreviewFrame
  <2>2. /\ mFramePool' \in SUBSET Frames /\ heap' \in SUBSET Frames
        /\ Cardinality(mFramePool') <= FRAME_POOL_SZ
    BY <1>3, QueuedFramesTyped, RecycleKept DEF PreviewClear, ClearPreviewFrame
  <2>3. previewFrames' \in Seq(Frames) /\ Len(previewFrames') <= MAX_FRAME
    BY <1>3 DEF PreviewClear, ClearPreviewFrame, PreviewAssumption
  <2> QED BY <1>3, <2>1, <2>2, <2>3 DEF PreviewClear, PreviewUnchanged, TypeOK, QueuedByCallback,
               flags, surfaces, capture, client
<1>4. CASE PreviewCreateCapture
  <2>1. pc' \in [Threads -> Labels] /\ (pc'["uvc"] = "uvcAdd" => pc["uvc"] = "uvcAdd")
    <3>1. CASE \E t \in CaptureThreads :
                 pc' = [pc EXCEPT !["preview"] = "previewLoop", ![t] = "captureStart"]
      <4>1. PICK t \in CaptureThreads :
                 pc' = [pc EXCEPT !["preview"] = "previewLoop", ![t] = "captureStart"]
        BY <3>1
      <4>2. t # "uvc"
        BY DEF PreviewAssumption
      <4> QED BY <1>0, <4>1, <4>2 DEF TypeOK
    <3>2. CASE Goto("preview", "previewLoop")
      BY <1>0, <3>2, PcTyped
    <3> QED BY <1>4, <3>1, <3>2 DEF PreviewCreateCapture
  <2>2. captureThread' \in CaptureThreads \cup {NoThread}
    BY <1>4 DEF PreviewCreateCapture, TypeOK
  <2> QED BY <1>4, <2>1, <2>2 DEF PreviewCreateCapture, TypeOK, QueuedByCallback,
               flags, surfaces, queues, pool, client
<1>5. CASE PreviewLoop
  BY <1>0, <1>5, PcTyped, ControlKeepsTypes DEF PreviewLoop
<1>6. CASE PreviewTest
  BY <1>0, <1>6, PcTyped, ControlKeepsTypes DEF PreviewTest
<1>7. CASE PreviewSleep
  BY <1>0, <1>7, PcTyped, ControlKeepsTypes DEF PreviewSleep
<1>8. CASE PreviewTake
  <2>1. pc' \in [Threads -> Labels] /\ (pc'["uvc"] = "uvcAdd" => pc["uvc"] = "uvcAdd")
    BY <1>0, <1>8, PcTyped DEF PreviewTake
  <2>2. previewFrames' \in Seq(Frames) /\ Len(previewFrames') <= MAX_FRAME
    <3>1. CASE mIsRunning /\ previewFrames # <<>>
      <4>1. previewFrames' = Tail(previewFrames) /\ previewFrames \in Seq(Frames)
        BY <1>8, <3>1 DEF PreviewTake, TypeOK
      <4> QED BY <3>1, <4>1 DEF TypeOK, PreviewAssumption
    <3>2. CASE ~(mIsRunning /\ previewFrames # <<>>)
      BY <1>8, <3>2 DEF PreviewTake, TypeOK
    <3> QED BY <3>1, <3>2
  <2>3. /\ local' \in [Workers \X Locals -> Frames \cup {NoFrame}]
        /\ local'[<<"uvc", "frame">>] = local[<<"uvc", "frame">>]
    <3>1. CASE mIsRunning /\ previewFrames # <<>>
      <4> DEFINE name == IF Mjpeg THEN "spare" ELSE "frame"
      <4>1. local' = [local EXCEPT ![<<"preview", name>>] = Head(previewFrames)]
        BY <1>8, <3>1 DEF PreviewTake
      <4>2. Head(previewFrames) \in Frames
        BY <3>1 DEF TypeOK
      <4>3. <<"preview", name>> # <<"uvc", "frame">>
        OBVIOUS
      <4> HIDE DEF name
      <4> QED BY <4>1, <4>2, <4>3 DEF TypeOK, Locals
    <3>2. CASE ~(mIsRunning /\ previewFrames # <<>>)
      BY <1>8, <3>2 DEF PreviewTake, TypeOK
    <3> QED BY <3>1, <3>2
  <2> QED BY <1>8, <2>1, <2>2, <2>3 DEF PreviewTake, PreviewUnchanged, TypeOK, QueuedByCallback,
               flags, surfaces, pool, capture, client
<1>9. CASE PreviewDecode
  BY <1>0, <1>9, GetIntoTyped DEF PreviewDecode, Locals
<1>10. CASE PreviewDecoded
  <2>1. pc' \in [Threads -> Labels] /\ (pc'["uvc"] = "uvcAdd" => pc["uvc"] = "uvcAdd")
    BY <1>0, <1>10, PcTyped DEF PreviewDecoded
  <2> QED BY <1>10, <2>1, RecycleLocalTyped DEF PreviewDecoded, Locals
<1>11. CASE PreviewUndecodable
  <2>1. pc' \in [Threads -> Labels] /\ (pc'["uvc"] = "uvcAdd" => pc["uvc"] = "uvcAdd")
    BY <1>0, <1>11, PcTyped DEF PreviewUndecodable
  <2> QED BY <1>11, <2>1, RecycleLocalTyped DEF PreviewUndecodable, Locals
<1>12. CASE PreviewDraw
  <2>1. CASE mPreviewWindow
    BY <1>0, <1>12, <2>1, GetIntoTyped DEF PreviewDraw, Locals
  <2>2. CASE ~mPreviewWindow
    <3>1. Goto("preview", "addCapture") /\ OnlyControl
      BY <1>12, <2>2 DEF PreviewDraw, OnlyFrames, OnlyControl
    <3> QED BY <1>0, <3>1, PcTyped, ControlKeepsTypes
  <2> QED BY <2>1, <2>2
<1>13. CASE PreviewDrawn
  <2>1. pc' \in [Threads -> Labels] /\ (pc'["uvc"] = "uvcAdd" => pc["uvc"] = "uvcAdd")
    BY <1>0, <1>13, PcTyped DEF PreviewDrawn
  <2> QED BY <1>13, <2>1, RecycleLocalTyped DEF PreviewDrawn, Locals
<1>14. CASE PreviewAddCapture
  <2>1. pc' \in [Threads -> Labels] /\ (pc'["uvc"] = "uvcAdd" => pc["uvc"] = "uvcAdd")
    BY <1>0, <1>14, PcTyped DEF PreviewAddCapture
  <2>2. /\ mFramePool' \in SUBSET Frames /\ heap' \in SUBSET Frames
        /\ Cardinality(mFramePool') <= FRAME_POOL_SZ
        /\ captureQueu' \in Frames \cup {NoFrame}
    <3>1. CASE mIsRunning
      <4>1. {captureQueu} \ {NoFrame} \in SUBSET Frames
        BY DEF TypeOK
      <4>2. captureQueu' \in Frames \cup {NoFrame}
        BY <1>14, <3>1 DEF PreviewAddCapture, TypeOK, Locals
      <4> QED BY <1>14, <3>1, <4>1, <4>2, RecycleKept DEF PreviewAddCapture
    <3>2. CASE ~mIsRunning
      BY <1>14, <3>2 DEF PreviewAddCapture, pool, TypeOK
    <3> QED BY <3>1, <3>2
  <2>3. /\ local' \in [Workers \X Locals -> Frames \cup {NoFrame}]
        /\ local'[<<"uvc", "frame">>] = local[<<"uvc", "frame">>]
    BY <1>14 DEF PreviewAddCapture, TypeOK, Locals
  <2> QED BY <1>14, <2>1, <2>2, <2>3 DEF PreviewAddCapture, PreviewUnchanged, TypeOK,
               QueuedByCallback, flags, surfaces, capture, client
<1>15. CASE PreviewFinish
  BY <1>0, <1>15, PcTyped, ControlKeepsTypes DEF PreviewFinish
<1>16. CASE PreviewStopStreaming
  <2>1. pc' \in [Threads -> Labels] /\ (pc'["uvc"] = "uvcAdd" => pc["uvc"] = "uvcAdd")
    BY <1>0, <1>16, PcTyped DEF PreviewStopStreaming
  <2> QED BY <1>16, <2>1 DEF PreviewStopStreaming, TypeOK, QueuedByCallback,
               flags, surfaces, queues, pool, capture, client
<1> QED BY <1>1, <1>2, <1>3, <1>4, <1>5, <1>6, <1>7, <1>8, <1>9, <1>10, <1>11, <1>12,
           <1>13, <1>14, <1>15, <1>16 DEF PreviewStep

\* The steps of a capture thread.
LEMMA CaptureTyped ==
  ASSUME PreviewAssumption, TypeInv, NEW t \in CaptureThreads, CaptureStep(t)
  PROVE  TypeInv'
<1> USE DEF Step, TypeInv
<1>0. /\ t \in Threads /\ t \in Workers /\ t # "uvc"
      /\ \A label \in {"captureStart", "captureLoop", "capturePick", "captureInner", "captureTest",
             "captureSleepy", "captureSleep", "surfaceFrame", "copy", "copied", "callback",
             "convert", "converted", "onFrame", "recycle", "leaveSurface", "releaseWindow",
             "clearWindow", "captureBroadcast", "exited"} :
           label \in Labels /\ label # "uvcAdd"
  BY DEF Labels, PreviewAssumption
<1>1. CASE CaptureStart(t)
  <2>1. pc' \in [Threads -> Labels] /\ (pc'["uvc"] = "uvcAdd" => pc["uvc"] = "uvcAdd")
    BY <1>0, <1>1, PcTyped DEF CaptureStart, ClearCaptureFrame
  <2>2. /\ mFramePool' \in SUBSET Frames /\ heap' \in SUBSET Frames
        /\ Cardinality(mFramePool') <= FRAME_POOL_SZ
    <3>1. {captureQueu} \ {NoFrame} \in SUBSET Frames
      BY DEF TypeOK
    <3> QED BY <1>1, <3>1, RecycleKept DEF CaptureStart, ClearCaptureFrame
  <2> QED BY <1>1, <2>1, <2>2 DEF CaptureStart, ClearCaptureFrame, CaptureUnchanged, TypeOK,
               QueuedByCallback, client
<1>2. CASE CaptureLoop(t)
  <2>1. pc' \in [Threads -> Labels] /\ (pc'["uvc"] = "uvcAdd" => pc["uvc"] = "uvcAdd")
    BY <1>0, <1>2, PcTyped DEF CaptureLoop
  <2>2. mIsCapturing' \in BOOLEAN
    BY <1>2 DEF CaptureLoop, TypeOK
  <2> QED BY <1>2, <2>1, <2>2 DEF CaptureLoop, CaptureUnchanged, TypeOK, QueuedByCallback,
               pool, client
<1>3. CASE CapturePick(t)
  <2>1. pc' \in [Threads -> Labels] /\ (pc'["uvc"] = "uvcAdd" => pc["uvc"] = "uvcAdd")
    BY <1>0, <1>3, PcTyped DEF CapturePick
  <2>2. onSurface' \in [CaptureThreads -> BOOLEAN]
    BY <1>3 DEF CapturePick, TypeOK
  <2> QED BY <1>3, <2>1, <2>2 DEF CapturePick, CaptureUnchanged, TypeOK, QueuedByCallback,
               pool, client
<1>4. CASE CaptureInner(t)
  BY <1>0, <1>4, PcTyped, ControlKeepsTypes DEF CaptureInner
<1>5. CASE CaptureTest(t)
  BY <1>0, <1>5, PcTyped, ControlKeepsTypes DEF CaptureTest
<1>6. CASE CaptureSleep(t)
  BY <1>0, <1>6, PcTyped, ControlKeepsTypes DEF CaptureSleep
<1>7. CASE CaptureTake(t)
  <2>1. pc' \in [Threads -> Labels] /\ (pc'["uvc"] = "uvcAdd" => pc["uvc"] = "uvcAdd")
    BY <1>0, <1>7, PcTyped DEF CaptureTake
  <2>2. /\ local' \in [Workers \X Locals -> Frames \cup {NoFrame}]
        /\ local'[<<"uvc", "frame">>] = local[<<"uvc", "frame">>]
        /\ captureQueu' \in Frames \cup {NoFrame}
    <3>1. CASE mIsRunning /\ captureQueu # NoFrame
      <4>1. /\ local' = [local EXCEPT ![<<t, "frame">>] = captureQueu]
            /\ captureQueu' = NoFrame
        BY <1>7, <3>1 DEF CaptureTake
      <4> QED BY <1>0, <4>1 DEF TypeOK, Locals
    <3>2. CASE ~(mIsRunning /\ captureQueu # NoFrame)
      BY <1>7, <3>2 DEF CaptureTake, TypeOK
    <3> QED BY <3>1, <3>2
  <2> QED BY <1>7, <2>1, <2>2 DEF CaptureTake, CaptureUnchanged, TypeOK, QueuedByCallback,
               pool, client
<1>8. CASE SurfaceFrame(t)
  <2>1. CASE mIsCapturing /\ local[<<t, "converted">>] = NoFrame
    BY <1>0, <1>8, <2>1, GetIntoTyped DEF SurfaceFrame, Locals
  <2>2. CASE ~(mIsCapturing /\ local[<<t, "converted">>] = NoFrame)
    <3>1. (Goto(t, "callback") \/ Goto(t, "copy")) /\ OnlyControl
      BY <1>8, <2>2 DEF SurfaceFrame, OnlyFrames, OnlyControl
    <3> QED BY <1>0, <3>1, PcTyped, ControlKeepsTypes
  <2> QED BY <2>1, <2>2
<1>9. CASE SurfaceCopy(t)
  <2>1. pc' \in [Threads -> Labels] /\ (pc'["uvc"] = "uvcAdd" => pc["uvc"] = "uvcAdd")
    BY <1>0, <1>9, PcTyped DEF SurfaceCopy
  <2>2. drawing' \in [CaptureThreads -> Windows \cup {NoWindow}]
    BY <1>9 DEF SurfaceCopy, TypeOK
  <2> QED BY <1>9, <2>1, <2>2 DEF SurfaceCopy, CaptureUnchanged, TypeOK, QueuedByCallback,
               pool, client
<1>10. CASE SurfaceCopied(t)
  <2>1. pc' \in [Threads -> Labels] /\ (pc'["uvc"] = "uvcAdd" => pc["uvc"] = "uvcAdd")
    BY <1>0, <1>10, PcTyped DEF SurfaceCopied
  <2>2. drawing' \in [CaptureThreads -> Windows \cup {NoWindow}]
    BY <1>10 DEF SurfaceCopied, TypeOK
  <2> QED BY <1>10, <2>1, <2>2 DEF SurfaceCopied, CaptureUnchanged, TypeOK, QueuedByCallback,
               pool, client
<1>11. CASE CaptureCallback(t)
  BY <1>0, <1>11, PcTyped, ControlKeepsTypes DEF CaptureCallback
<1>12. CASE CaptureConvert(t)
  BY <1>0, <1>12, GetIntoTyped DEF CaptureConvert, Locals
<1>13. CASE CaptureConverted(t)
  <2>1. pc' \in [Threads -> Labels] /\ (pc'["uvc"] = "uvcAdd" => pc["uvc"] = "uvcAdd")
    BY <1>0, <1>13, PcTyped DEF CaptureConverted
  <2>2. /\ mFramePool' \in SUBSET Frames /\ heap' \in SUBSET Frames
        /\ Cardinality(mFramePool') <= FRAME_POOL_SZ
    <3>1. {local[<<t, "frame">>]} \ {NoFrame} \in SUBSET Frames
      BY <1>0 DEF TypeOK, Locals
    <3> QED BY <1>13, <3>1, RecycleKept DEF CaptureConverted
  <2>3. /\ local' \in [Workers \X Locals -> Frames \cup {NoFrame}]
        /\ local'[<<"uvc", "frame">>] = local[<<"uvc", "frame">>]
    BY <1>0, <1>13 DEF CaptureConverted, TypeOK, Locals
  <2> QED BY <1>13, <2>1, <2>2, <2>3, FramesKeepTypes DEF CaptureConverted, QueuedByCallback
<1>14. CASE CaptureOnFrame(t)
  BY <1>0, <1>14, PcTyped, ControlKeepsTypes DEF CaptureOnFrame
<1>15. CASE CaptureRecycle(t)
  <2>1. pc' \in [Threads -> Labels] /\ (pc'["uvc"] = "uvcAdd" => pc["uvc"] = "uvcAdd")
    BY <1>0, <1>15, PcTyped DEF CaptureRecycle
  <2> QED BY <1>0, <1>15, <2>1, RecycleLocalTyped DEF CaptureRecycle, Locals
<1>16. CASE LeaveSurface(t)
  <2>1. pc' \in [Threads -> Labels] /\ (pc'["uvc"] = "uvcAdd" => pc["uvc"] = "uvcAdd")
    BY <1>0, <1>16, PcTyped DEF LeaveSurface
  <2> QED BY <1>0, <1>16, <2>1, RecycleLocalTyped DEF LeaveSurface, Locals
<1>17. CASE CaptureReleaseWindow(t)
  <2>1. pc' \in [Threads -> Labels] /\ (pc'["uvc"] = "uvcAdd" => pc["uvc"] = "uvcAdd")
    BY <1>0, <1>17, PcTyped DEF CaptureReleaseWindow
  <2>2. windowRefs' \in [Windows -> Int]
    BY <1>17 DEF CaptureReleaseWindow, TypeOK, DropRef
  <2> QED BY <1>17, <2>1, <2>2 DEF CaptureReleaseWindow, CaptureUnchanged, TypeOK, QueuedByCallback,
               pool, client
<1>18. CASE CaptureClearWindow(t)
  <2>1. pc' \in [Threads -> Labels] /\ (pc'["uvc"] = "uvcAdd" => pc["uvc"] = "uvcAdd")
    BY <1>0, <1>18, PcTyped DEF CaptureClearWindow
  <2>2. mCaptureWindow' \in Windows \cup {NoWindow}
    BY <1>18 DEF CaptureClearWindow, TypeOK
  <2> QED BY <1>18, <2>1, <2>2 DEF CaptureClearWindow, CaptureUnchanged, TypeOK, QueuedByCallback,
               pool, client
<1>19. CASE CaptureBroadcast(t)
  BY <1>0, <1>19, PcTyped, ControlKeepsTypes DEF CaptureBroadcast
<1> QED BY <1>1, <1>2, <1>3, <1>4, <1>5, <1>6, <1>7, <1>8, <1>9, <1>10, <1>11,
           <1>12, <1>13, <1>14, <1>15, <1>16, <1>17, <1>18, <1>19 DEF CaptureStep

\* The calls of the clients, from their start ...
LEMMA CallTyped ==
  ASSUME PreviewAssumption, TypeInv, ClientCall
  PROVE  TypeInv'
<1> USE DEF Step, TypeInv
<1>0. \A label \in {"idle", "startCreate", "setterLook", "setterSignal", "setterAssign"} :
        label \in Labels /\ label # "uvcAdd"
  BY DEF Labels
<1>1. ASSUME NEW op, calls < MaxCalls, calls' = calls + 1
      PROVE  calls' \in 0..MaxCalls
  BY <1>1 DEF TypeOK, PreviewAssumption
<1>2. ASSUME NEW set \in BOOLEAN, SetPreviewDisplay(set)
      PROVE  TypeInv'
  BY <1>1, <1>2 DEF SetPreviewDisplay, Begin, ClientUnchanged, TypeOK, QueuedByCallback,
       flags, queues, pool, capture
<1>3. CASE StartPreview
  <2>1. pc' \in [Threads -> Labels] /\ (pc'["uvc"] = "uvcAdd" => pc["uvc"] = "uvcAdd")
    BY <1>0, <1>3, PcTyped DEF StartPreview
  <2> QED BY <1>1, <1>3, <2>1 DEF StartPreview, Begin, ClientUnchanged, TypeOK, QueuedByCallback,
               surfaces, queues, pool, capture
<1>4. ASSUME NEW t \in Clients, NEW j \in Jobs, SetterEnter(t, j)
      PROVE  TypeInv'
  <2>1. pc' \in [Threads -> Labels] /\ (pc'["uvc"] = "uvcAdd" => pc["uvc"] = "uvcAdd")
    BY <1>0, <1>4, PcTyped DEF SetterEnter
  <2>2. job' \in [Clients -> Jobs] /\ windowRefs' \in [Windows -> Int] /\ mIsCapturing' \in BOOLEAN
    BY <1>4 DEF SetterEnter, TypeOK
  <2>3. calls' \in 0..MaxCalls
    BY <1>1, <1>4 DEF SetterEnter, Begin
  <2> QED BY <1>4, <2>1, <2>2, <2>3 DEF SetterEnter, ClientUnchanged, TypeOK, QueuedByCallback,
               queues, pool, capture
<1>5. \A w \in Windows \cup {NoWindow} : \A c \in BOOLEAN :
        \A op \in {"setCaptureDisplay", "setFrameCallback", "stopPreview"} :
          [op |-> op, window |-> w, callback |-> c] \in Jobs
  BY DEF Jobs
<1>6. CASE \E t \in Clients, w \in Windows \cup {NoWindow} : SetCaptureDisplay(t, w)
  BY <1>4, <1>5, <1>6 DEF SetCaptureDisplay
<1>7. ASSUME NEW set \in BOOLEAN, SetFrameCallback(set)
      PROVE  TypeInv'
  BY <1>4, <1>5, <1>7 DEF SetFrameCallback
<1>8. CASE StopPreview
  BY <1>4, <1>5, <1>8 DEF StopPreview
<1> QED BY <1>2, <1>3, <1>6, <1>7, <1>8 DEF ClientCall

\* ... to their return.
LEMMA ClientTyped ==
  ASSUME PreviewAssumption, TypeInv, NEW t \in Clients, ClientStep(t)
  PROVE  TypeInv'
<1> USE DEF Step, TypeInv
<1>0. /\ "api" \in Threads /\ "api" # "uvc" /\ t \in Threads /\ t # "uvc"
      /\ \A label \in {"idle", "none", "exited", "prepare", "setterSignal", "setterAssign", "setterSleep", "stop",
             "stopSignalPreview", "stopSignalCapture", "joinCapture", "joinPreview",
             "stopClearPreview", "stopClearCapture", "stopRelease"} :
           label \in Labels /\ label # "uvcAdd"
  BY DEF Labels
<1>1. CASE SetterWait(t)
  BY <1>0, <1>1, PcTyped, ControlKeepsTypes DEF SetterWait
<1>13. CASE SetterLook(t)
  BY <1>0, <1>13, PcTyped, ControlKeepsTypes DEF SetterLook
<1>2. CASE SetterAssign(t)
  <2>1. pc' \in [Threads -> Labels] /\ (pc'["uvc"] = "uvcAdd" => pc["uvc"] = "uvcAdd")
    BY <1>0, <1>2, PcTyped DEF SetterAssign
  <2>2. job[t] \in Jobs
    BY DEF TypeOK
  <2>3. /\ windowRefs' \in [Windows -> Int]
        /\ mCaptureWindow' \in Windows \cup {NoWindow} /\ mFrameCallbackObj' \in BOOLEAN
    BY <1>2, <2>2 DEF SetterAssign, DropRef, Jobs, TypeOK
  <2> QED BY <1>2, <2>1, <2>3 DEF SetterAssign, ClientUnchanged, TypeOK, QueuedByCallback,
               flags, queues, pool, capture, client
<1>3. CASE StartCreate
  <2>1. pc' \in [Threads -> Labels] /\ (pc'["uvc"] = "uvcAdd" => pc["uvc"] = "uvcAdd")
    BY <1>0, <1>3 DEF StartCreate, TypeOK
  <2> QED BY <1>3, <2>1, ControlKeepsTypes DEF StartCreate
<1>4. CASE StartFails
  <2>1. pc' \in [Threads -> Labels] /\ (pc'["uvc"] = "uvcAdd" => pc["uvc"] = "uvcAdd")
    BY <1>0, <1>4, PcTyped DEF StartFails
  <2> QED BY <1>4, <2>1 DEF StartFails, ClientUnchanged, TypeOK, QueuedByCallback,
               surfaces, queues, pool, capture, client
<1>5. CASE StopFlag
  <2>1. pc' \in [Threads -> Labels] /\ (pc'["uvc"] = "uvcAdd" => pc["uvc"] = "uvcAdd")
    BY <1>0, <1>5, PcTyped DEF StopFlag
  <2> QED BY <1>5, <2>1 DEF StopFlag, ClientUnchanged, TypeOK, QueuedByCallback,
               surfaces, queues, pool, capture, client
<1>6. CASE StopSignalPreview
  BY <1>0, <1>6, PcTyped, ControlKeepsTypes DEF StopSignalPreview
<1>7. CASE StopSignalCapture
  BY <1>0, <1>7, PcTyped, ControlKeepsTypes DEF StopSignalCapture
<1>8. CASE StopJoinCapture
  <2>1. pc' \in [Threads -> Labels] /\ (pc'["uvc"] = "uvcAdd" => pc["uvc"] = "uvcAdd")
    <3>1. CASE captureThread = NoThread \/ pc[captureThread] = "none"
      BY <1>0, <1>8, <3>1, PcTyped DEF StopJoinCapture
    <3>2. CASE ~(captureThread = NoThread \/ pc[captureThread] = "none")
      <4>1. captureThread \in CaptureThreads
        BY <3>2 DEF TypeOK
      <4>2. pc' = [pc EXCEPT !["api"] = "joinPreview", ![captureThread] = "none"]
        BY <1>8, <3>2 DEF StopJoinCapture
      <4> QED BY <1>0, <4>1, <4>2 DEF TypeOK
    <3> QED BY <3>1, <3>2
  <2> QED BY <1>8, <2>1, ControlKeepsTypes DEF StopJoinCapture
<1>9. CASE StopJoinPreview
  <2>1. pc' \in [Threads -> Labels] /\ (pc'["uvc"] = "uvcAdd" => pc["uvc"] = "uvcAdd")
    BY <1>0, <1>9 DEF StopJoinPreview, TypeOK
  <2> QED BY <1>9, <2>1, ControlKeepsTypes DEF StopJoinPreview
<1>10. CASE StopClearPreview
  <2>1. pc' \in [Threads -> Labels] /\ (pc'["uvc"] = "uvcAdd" => pc["uvc"] = "uvcAdd")
    BY <1>0, <1>10, PcTyped DEF StopClearPreview, ClearPreviewFrame
  <2>2. /\ mFramePool' \in SUBSET Frames /\ heap' \in SUBSET Frames
        /\ Cardinality(mFramePool') <= FRAME_POOL_SZ
    BY <1>10, QueuedFramesTyped, RecycleKept DEF StopClearPreview, ClearPreviewFrame
  <2>3. previewFrames' \in Seq(Frames) /\ Len(previewFrames') <= MAX_FRAME
    BY <1>10 DEF StopClearPreview, ClearPreviewFrame, PreviewAssumption
  <2> QED BY <1>10, <2>1, <2>2, <2>3 DEF StopClearPreview, TypeOK, QueuedByCallback,
               flags, surfaces, capture, client
<1>11. CASE StopClearCapture
  <2>1. pc' \in [Threads -> Labels] /\ (pc'["uvc"] = "uvcAdd" => pc["uvc"] = "uvcAdd")
    BY <1>0, <1>11, PcTyped DEF StopClearCapture, ClearCaptureFrame
  <2>2. /\ mFramePool' \in SUBSET Frames /\ heap' \in SUBSET Frames
        /\ Cardinality(mFramePool') <= FRAME_POOL_SZ
    <3>1. {captureQueu} \ {NoFrame} \in SUBSET Frames
      BY DEF TypeOK
    <3> QED BY <1>11, <3>1, RecycleKept DEF StopClearCapture, ClearCaptureFrame
  <2> QED BY <1>11, <2>1, <2>2 DEF StopClearCapture, ClearCaptureFrame, TypeOK, QueuedByCallback,
               flags, surfaces, capture, client
<1>12. CASE StopRelease
  <2>1. pc' \in [Threads -> Labels] /\ (pc'["uvc"] = "uvcAdd" => pc["uvc"] = "uvcAdd")
    BY <1>0, <1>12, PcTyped DEF StopRelease
  <2>2. windowRefs' \in [Windows -> Int]
    BY <1>12 DEF StopRelease, DropRef, TypeOK
  <2> QED BY <1>12, <2>1, <2>2 DEF StopRelease, ClientUnchanged, TypeOK, QueuedByCallback,
               flags, queues, pool, capture, client
<1> QED BY <1>1, <1>2, <1>3, <1>4, <1>5, <1>6, <1>7, <1>8, <1>9, <1>10, <1>11, <1>12, <1>13 DEF ClientStep

LEMMA NextTyped ==
  ASSUME PreviewAssumption, TypeInv, [Next]_vars
  PROVE  TypeInv'
<1>1. CASE UNCHANGED vars
  BY <1>1 DEF vars, TypeInv, TypeOK, QueuedByCallback, flags, surfaces, queues, pool, capture, client
<1>2. CASE SpuriousWakeup
  <2>1. PICK u \in Threads : Goto(u, Awake(u))
    BY <1>2 DEF SpuriousWakeup
  <2>2. pc' \in [Threads -> Labels] /\ (pc'["uvc"] = "uvcAdd" => pc["uvc"] = "uvcAdd")
    BY <2>1 DEF Goto, Awake, Labels, TypeInv, TypeOK
  <2> QED BY <1>2, <2>2, ControlKeepsTypes DEF SpuriousWakeup
<1> QED BY <1>1, <1>2, UvcTyped, PreviewTyped, CaptureTyped, CallTyped, ClientTyped DEF Next

\* Type correctness: the queue and the pool never outgrow their capacities,
\* whatever the interleaving of the threads.
THEOREM TypeCorrect == PreviewAssumption /\ Spec => []TypeOK
<1> SUFFICES ASSUME PreviewAssumption PROVE Spec => []TypeOK
  OBVIOUS
<1>1. Init => TypeInv
  BY InitTypeInv
<1>2. TypeInv /\ [Next]_vars => TypeInv'
  BY NextTyped
<1>3. TypeInv => TypeOK
  BY DEF TypeInv
<1> QED BY <1>1, <1>2, <1>3, PTL DEF Spec

-----------------------------------------------------------------------------
(* Ownership of the frames. *)

\* A frame that is not free is held at one place at most, so taking a free one
\* and giving a held one back keep a single owner.
LEMMA GetIntoOwned ==
  ASSUME PreviewAssumption, TypeOK, FrameHasOneOwner, OnlyFrames \/ OnlyLateFrame,
         NEW t \in Workers, NEW name \in Locals, NEW got, NEW failed,
         GetInto(t, name, got, failed)
  PROVE  FrameHasOneOwner'
<1>1. PICK f \in Frames \cup {NoFrame} :
        GetFrame(f) /\ local' = [local EXCEPT ![<<t, name>>] = f]
  BY DEF GetInto
<1>2. /\ mFramePool' \subseteq mFramePool /\ heap' \subseteq heap
      /\ f # NoFrame => f \in heap \cup mFramePool
      /\ f # NoFrame => f \notin heap' \cup mFramePool'
      /\ mFramePool \subseteq Frames /\ heap \subseteq Frames /\ NoFrame \notin Frames
  BY <1>1, GetFrameTaken DEF FrameHasOneOwner, TypeOK, PreviewAssumption
<1>3. \A s \in Workers \X Locals : local'[s] = IF s = <<t, name>> THEN f ELSE local[s]
  BY <1>1 DEF TypeOK
<1>4. previewFrames' = previewFrames /\ captureQueu' = captureQueu /\ previewFrames \in Seq(Frames)
  BY DEF OnlyFrames, OnlyLateFrame, queues, TypeOK
<1>5. f # NoFrame => /\ f # captureQueu
                     /\ \A i \in DOMAIN previewFrames : previewFrames[i] # f
                     /\ \A s \in Workers \X Locals : local[s] # f
  BY <1>2 DEF FrameHasOneOwner
<1>6. \A i \in DOMAIN previewFrames : previewFrames[i] # NoFrame
  BY <1>2, <1>4
<1>7. \A g \in heap' \cup mFramePool' :
        /\ g # captureQueu
        /\ \A i \in DOMAIN previewFrames : previewFrames[i] # g
        /\ \A s \in Workers \X Locals : local'[s] # g
  BY <1>2, <1>3 DEF FrameHasOneOwner
<1>8. \A s \in Workers \X Locals : local'[s] # NoFrame =>
        /\ local'[s] # captureQueu
        /\ \A i \in DOMAIN previewFrames : local'[s] # previewFrames[i]
        /\ \A r \in Workers \X Locals : local'[s] = local'[r] => s = r
  BY <1>3, <1>5 DEF FrameHasOneOwner
<1>9. heap' \cap mFramePool' = {}
  BY <1>2 DEF FrameHasOneOwner
<1> QED BY <1>3, <1>4, <1>6, <1>7, <1>8, <1>9 DEF FrameHasOneOwner

LEMMA RecycleLocalOwned ==
  ASSUME PreviewAssumption, TypeOK, FrameHasOneOwner, OnlyFrames,
         NEW t \in Workers, NEW name \in Locals, RecycleLocal(t, name)
  PROVE  FrameHasOneOwner'
<1> DEFINE fs == {local[<<t, name>>]} \ {NoFrame}
<1>1. fs \in SUBSET Frames /\ Recycle(fs)
  BY DEF RecycleLocal, TypeOK
<1>2. fs \cap (heap \cup mFramePool) = {} /\ heap \cap mFramePool = {}
  BY DEF FrameHasOneOwner
<1>3. /\ heap' \cup mFramePool' = heap \cup mFramePool \cup fs
      /\ heap' \cap mFramePool' = {}
      /\ heap' \cup mFramePool' \subseteq Frames /\ NoFrame \notin Frames
  BY <1>1, <1>2, RecycleKept DEF TypeOK, PreviewAssumption
<1>4. \A s \in Workers \X Locals : local'[s] = IF s = <<t, name>> THEN NoFrame ELSE local[s]
  BY DEF RecycleLocal, TypeOK
<1>5. previewFrames' = previewFrames /\ captureQueu' = captureQueu
  BY DEF OnlyFrames, queues
<1>6. previewFrames \in Seq(Frames)
  BY DEF TypeOK
<1> QED BY <1>3, <1>4, <1>5, <1>6 DEF FrameHasOneOwner

LEMMA UnmovedOwned ==
  ASSUME FrameHasOneOwner, UNCHANGED <<queues, pool, local>>
  PROVE  FrameHasOneOwner'
BY DEF FrameHasOneOwner, queues, pool

\* clearPreviewFrame and clearCaptureFrame empty what they give back.
LEMMA ClearPreviewOwned ==
  ASSUME PreviewAssumption, TypeOK, FrameHasOneOwner, NEW t, NEW label,
         ClearPreviewFrame(t, label), UNCHANGED <<captureQueu, local>>
  PROVE  FrameHasOneOwner'
<1>1. QueuedFrames \in SUBSET Frames /\ Recycle(QueuedFrames) /\ previewFrames' = <<>>
  BY QueuedFramesTyped DEF ClearPreviewFrame
<1>2. QueuedFrames \cap (heap \cup mFramePool) = {} /\ heap \cap mFramePool = {}
  BY DEF FrameHasOneOwner, QueuedFrames
<1>3. /\ heap' \cup mFramePool' = heap \cup mFramePool \cup QueuedFrames
      /\ heap' \cap mFramePool' = {}
  BY <1>1, <1>2, RecycleKept
<1>4. \A f \in QueuedFrames : /\ f # captureQueu
                             /\ \A s \in Workers \X Locals : local[s] # f
  BY DEF FrameHasOneOwner, QueuedFrames
<1>5. DOMAIN previewFrames' = {}
  BY <1>1
<1> QED BY <1>3, <1>4, <1>5 DEF FrameHasOneOwner

LEMMA ClearCaptureOwned ==
  ASSUME PreviewAssumption, TypeOK, FrameHasOneOwner, NEW t, NEW label,
         ClearCaptureFrame(t, label), UNCHANGED <<previewFrames, local>>
  PROVE  FrameHasOneOwner'
<1> DEFINE fs == {captureQueu} \ {NoFrame}
<1>1. fs \in SUBSET Frames /\ Recycle(fs) /\ captureQueu' = NoFrame
  BY DEF ClearCaptureFrame, TypeOK
<1>2. fs \cap (heap \cup mFramePool) = {} /\ heap \cap mFramePool = {}
  BY DEF FrameHasOneOwner
<1>3. /\ heap' \cup mFramePool' = heap \cup mFramePool \cup fs
      /\ heap' \cap mFramePool' = {}
      /\ heap' \cup mFramePool' \subseteq Frames /\ NoFrame \notin Frames
  BY <1>1, <1>2, RecycleKept DEF TypeOK, PreviewAssumption
<1>4. previewFrames \in Seq(Frames)
  BY DEF TypeOK
<1> QED BY <1>1, <1>3, <1>4 DEF FrameHasOneOwner

LEMMA UvcOwned ==
  ASSUME PreviewAssumption, TypeInv, FrameHasOneOwner, UvcReceive \/ UvcReceiveLate \/ DeviceLost \/ UvcStep
  PROVE  FrameHasOneOwner'
<1> USE DEF TypeInv
<1>1. CASE UvcReceive
  BY <1>1, GetIntoOwned DEF UvcReceive, Locals
<1>5. CASE UvcReceiveLate
  BY <1>5, GetIntoOwned DEF UvcReceiveLate, OnlyLateFrame, Locals
<1>6. CASE DeviceLost
  BY <1>6, UnmovedOwned DEF DeviceLost
<1>2. CASE UvcAddPreviewFrame
  <2>1. CASE mIsRunning /\ QueueHasRoom
    <3> DEFINE f == local[<<"uvc", "frame">>]
    <3>1. f \in Frames /\ NoFrame \notin Frames /\ previewFrames \in Seq(Frames)
      BY <1>2 DEF UvcAddPreviewFrame, QueuedByCallback, TypeOK, PreviewAssumption
    <3>2. /\ previewFrames' = Append(previewFrames, f)
          /\ UNCHANGED <<captureQueu, heap, mFramePool>>
      BY <1>2, <2>1 DEF UvcAddPreviewFrame, pool
    <3>3. \A s \in Workers \X Locals :
            local'[s] = IF s = <<"uvc", "frame">> THEN NoFrame ELSE local[s]
      BY <1>2, <2>1 DEF UvcAddPreviewFrame, TypeOK
    <3>4. /\ DOMAIN previewFrames' = 1..(Len(previewFrames) + 1)
          /\ DOMAIN previewFrames = 1..Len(previewFrames)
          /\ \A i \in 1..Len(previewFrames) : previewFrames'[i] = previewFrames[i]
          /\ previewFrames'[Len(previewFrames) + 1] = f
          /\ Len(previewFrames) \in Nat
      BY <3>1, <3>2
    <3>5. /\ f \notin heap \cup mFramePool /\ f # captureQueu
          /\ \A i \in 1..Len(previewFrames) : previewFrames[i] # f
          /\ \A s \in Workers \X Locals : s # <<"uvc", "frame">> => local[s] # f
      <4>1. <<"uvc", "frame">> \in Workers \X Locals
        BY DEF Locals
      <4> QED BY <3>1, <3>4, <4>1 DEF FrameHasOneOwner
    <3>6. \A i \in DOMAIN previewFrames' :
            /\ previewFrames'[i] # captureQueu
            /\ previewFrames'[i] \notin heap \cup mFramePool
            /\ \A s \in Workers \X Locals : local'[s] # previewFrames'[i]
      <4>1. ASSUME NEW i \in 1..Len(previewFrames), NEW s \in Workers \X Locals
            PROVE  local'[s] # previewFrames'[i]
        <5>1. previewFrames[i] \in Frames
          BY <3>1
        <5> QED BY <3>1, <3>3, <3>4, <5>1 DEF FrameHasOneOwner
      <4>2. \A s \in Workers \X Locals : local'[s] # f
        BY <3>1, <3>3, <3>5
      <4>3. \A i \in 1..Len(previewFrames) :
              previewFrames'[i] # captureQueu /\ previewFrames'[i] \notin heap \cup mFramePool
        BY <3>4 DEF FrameHasOneOwner
      <4>4. \A i \in DOMAIN previewFrames' : i \in 1..Len(previewFrames) \/ previewFrames'[i] = f
        BY <3>4
      <4> QED BY <3>5, <4>1, <4>2, <4>3, <4>4
    <3>7. \A i, j \in DOMAIN previewFrames' : previewFrames'[i] = previewFrames'[j] => i = j
      <4>1. \A i, j \in 1..Len(previewFrames) : previewFrames[i] = previewFrames[j] => i = j
        BY <3>4 DEF FrameHasOneOwner
      <4> QED BY <3>4, <3>5, <4>1
    <3>8. \A s \in Workers \X Locals : local'[s] # NoFrame =>
            /\ local'[s] # captureQueu
            /\ local'[s] \notin heap \cup mFramePool
            /\ \A r \in Workers \X Locals : local'[s] = local'[r] => s = r
      BY <3>3 DEF FrameHasOneOwner
    <3>9. NoFrame \notin heap \cup mFramePool
      BY <3>1 DEF TypeOK
    <3> HIDE DEF f
    <3> QED BY <3>2, <3>6, <3>7, <3>8, <3>9 DEF FrameHasOneOwner
  <2>2. CASE ~(mIsRunning /\ QueueHasRoom)
    BY <1>2, <2>2, UnmovedOwned DEF UvcAddPreviewFrame, queues
  <2> QED BY <2>1, <2>2
<1>3. CASE UvcDuplicateFails
  BY <1>3, UnmovedOwned DEF UvcDuplicateFails, OnlyControl
<1>4. CASE UvcRecycle
  BY <1>4, RecycleLocalOwned DEF UvcRecycle, Locals
<1> QED BY <1>1, <1>2, <1>3, <1>4, <1>5, <1>6 DEF UvcStep

LEMMA PreviewOwned ==
  ASSUME PreviewAssumption, TypeInv, FrameHasOneOwner, PreviewStep
  PROVE  FrameHasOneOwner'
<1> USE DEF TypeInv
<1>1. CASE PreviewFails \/ PreviewStartStreaming \/ PreviewCreateCapture \/ PreviewLoop
           \/ PreviewTest \/ PreviewSleep \/ PreviewFinish \/ PreviewStopStreaming
  <2>1. UNCHANGED <<queues, pool, local>>
    BY <1>1 DEF PreviewFails, PreviewStartStreaming, PreviewCreateCapture, PreviewLoop,
         PreviewTest, PreviewSleep, PreviewFinish, PreviewStopStreaming, OnlyControl
  <2> QED BY <2>1, UnmovedOwned
<1>2. CASE PreviewClear
  BY <1>2, ClearPreviewOwned DEF PreviewClear
<1>3. CASE PreviewDecode
  BY <1>3, GetIntoOwned DEF PreviewDecode, Locals
<1>4. CASE PreviewDecoded \/ PreviewUndecodable \/ PreviewDrawn
  BY <1>4, RecycleLocalOwned DEF PreviewDecoded, PreviewUndecodable, PreviewDrawn, Locals
<1>5. CASE PreviewDraw
  <2>1. CASE mPreviewWindow
    BY <1>5, <2>1, GetIntoOwned DEF PreviewDraw, Locals
  <2>2. CASE ~mPreviewWindow
    BY <1>5, <2>2, UnmovedOwned DEF PreviewDraw, OnlyFrames
  <2> QED BY <2>1, <2>2
<1>6. CASE PreviewTake
  <2>1. CASE mIsRunning /\ previewFrames # <<>>
    <3> DEFINE f == Head(previewFrames)
               mine == <<"preview", IF Mjpeg THEN "spare" ELSE "frame">>
    <3>1. /\ previewFrames \in Seq(Frames) /\ NoFrame \notin Frames
          /\ mine \in Workers \X Locals
      BY DEF TypeOK, PreviewAssumption, Locals
    <3>2. /\ previewFrames' = Tail(previewFrames)
          /\ UNCHANGED <<captureQueu, heap, mFramePool>>
      BY <1>6, <2>1 DEF PreviewTake, pool
    <3>3. \A s \in Workers \X Locals : local'[s] = IF s = mine THEN f ELSE local[s]
      BY <1>6, <2>1 DEF PreviewTake, TypeOK
    <3>4. /\ 1 \in DOMAIN previewFrames /\ f = previewFrames[1]
          /\ \A i \in DOMAIN previewFrames' :
               i + 1 \in DOMAIN previewFrames /\ previewFrames'[i] = previewFrames[i + 1]
                 /\ i + 1 # 1 /\ i \in Nat
      BY <2>1, <3>1, <3>2
    <3> HIDE DEF f, mine
    <3>5. /\ f \notin heap \cup mFramePool /\ f # captureQueu
          /\ \A s \in Workers \X Locals : local[s] # f
          /\ \A i \in DOMAIN previewFrames' : previewFrames'[i] # f
      BY <3>4 DEF FrameHasOneOwner
    <3>6. \A i, j \in DOMAIN previewFrames' : previewFrames'[i] = previewFrames'[j] => i = j
      BY <3>4 DEF FrameHasOneOwner
    <3>7. \A i \in DOMAIN previewFrames' :
            /\ previewFrames'[i] # captureQueu
            /\ previewFrames'[i] \notin heap \cup mFramePool
            /\ \A s \in Workers \X Locals : local'[s] # previewFrames'[i]
      BY <3>3, <3>4, <3>5 DEF FrameHasOneOwner
    <3>8. \A s \in Workers \X Locals : local'[s] # NoFrame =>
            /\ local'[s] # captureQueu
            /\ local'[s] \notin heap \cup mFramePool
            /\ \A r \in Workers \X Locals : local'[s] = local'[r] => s = r
      BY <3>3, <3>5 DEF FrameHasOneOwner
    <3>9. NoFrame \notin heap \cup mFramePool
      BY <3>1 DEF TypeOK
    <3> QED BY <3>2, <3>6, <3>7, <3>8, <3>9 DEF FrameHasOneOwner
  <2>2. CASE ~(mIsRunning /\ previewFrames # <<>>)
    BY <1>6, <2>2, UnmovedOwned DEF PreviewTake, queues
  <2> QED BY <2>1, <2>2
<1>7. CASE PreviewAddCapture
  <2> DEFINE f == local[<<"preview", "frame">>]
             fs == {captureQueu} \ {NoFrame}
  <2>1. \A s \in Workers \X Locals : local'[s] = IF s = <<"preview", "frame">> THEN NoFrame ELSE local[s]
    BY <1>7 DEF PreviewAddCapture, TypeOK
  <2>2. /\ previewFrames' = previewFrames /\ previewFrames \in Seq(Frames) /\ NoFrame \notin Frames
        /\ heap \cup mFramePool \subseteq Frames /\ <<"preview", "frame">> \in Workers \X Locals
    BY <1>7 DEF PreviewAddCapture, TypeOK, PreviewAssumption, Locals
  <2>3. CASE mIsRunning
    <3>1. fs \in SUBSET Frames /\ Recycle(fs) /\ captureQueu' = f
      BY <1>7, <2>3 DEF PreviewAddCapture, TypeOK
    <3>2. fs \cap (heap \cup mFramePool) = {} /\ heap \cap mFramePool = {}
      BY DEF FrameHasOneOwner
    <3>3. heap' \cup mFramePool' = heap \cup mFramePool \cup fs /\ heap' \cap mFramePool' = {}
      BY <3>1, <3>2, RecycleKept
    <3>4. \A g \in heap' \cup mFramePool' :
            /\ g \in Frames /\ g # f
            /\ \A i \in DOMAIN previewFrames : previewFrames[i] # g
            /\ \A s \in Workers \X Locals : local[s] # g
      <4>1. ASSUME NEW g \in fs
            PROVE  /\ g \in Frames /\ g # f
                   /\ \A i \in DOMAIN previewFrames : previewFrames[i] # g
                   /\ \A s \in Workers \X Locals : local[s] # g
        BY <2>2, <3>1 DEF FrameHasOneOwner
      <4>2. ASSUME NEW g \in heap \cup mFramePool
            PROVE  /\ g \in Frames /\ g # f
                   /\ \A i \in DOMAIN previewFrames : previewFrames[i] # g
                   /\ \A s \in Workers \X Locals : local[s] # g
        BY <2>2 DEF FrameHasOneOwner
      <4> QED BY <3>3, <4>1, <4>2
    <3>5. \A i \in DOMAIN previewFrames : previewFrames[i] # f
      BY <2>2 DEF FrameHasOneOwner
    <3> QED BY <2>1, <2>2, <3>1, <3>3, <3>4, <3>5 DEF FrameHasOneOwner
  <2>4. CASE ~mIsRunning
    <3>1. UNCHANGED <<captureQueu, heap, mFramePool>>
      BY <1>7, <2>4 DEF PreviewAddCapture, pool
    <3> QED BY <2>1, <2>2, <3>1 DEF FrameHasOneOwner
  <2> QED BY <2>3, <2>4
<1> QED BY <1>1, <1>2, <1>3, <1>4, <1>5, <1>6, <1>7 DEF PreviewStep

LEMMA CaptureOwned ==
  ASSUME PreviewAssumption, TypeInv, FrameHasOneOwner, NEW t \in CaptureThreads, CaptureStep(t)
  PROVE  FrameHasOneOwner'
<1> USE DEF TypeInv
<1>1. CASE CaptureLoop(t) \/ CapturePick(t) \/ SurfaceCopy(t) \/ SurfaceCopied(t)
           \/ CaptureReleaseWindow(t) \/ CaptureClearWindow(t)
  <2>1. UNCHANGED <<queues, pool, local>>
    BY <1>1 DEF CaptureLoop, CapturePick, SurfaceCopy, SurfaceCopied, CaptureReleaseWindow,
         CaptureClearWindow, CaptureUnchanged, queues
  <2> QED BY <2>1, UnmovedOwned
<1>2. CASE CaptureInner(t) \/ CaptureTest(t) \/ CaptureSleep(t) \/ CaptureCallback(t)
           \/ CaptureOnFrame(t) \/ CaptureBroadcast(t)
  <2>1. UNCHANGED <<queues, pool, local>>
    BY <1>2 DEF CaptureInner, CaptureTest, CaptureSleep, CaptureCallback, CaptureOnFrame,
         CaptureBroadcast, OnlyControl
  <2> QED BY <2>1, UnmovedOwned
<1>3. CASE CaptureStart(t)
  BY <1>3, ClearCaptureOwned DEF CaptureStart, CaptureUnchanged
<1>4. CASE CaptureConvert(t)
  BY <1>4, GetIntoOwned DEF CaptureConvert, Locals
<1>5. CASE CaptureRecycle(t) \/ LeaveSurface(t)
  BY <1>5, RecycleLocalOwned DEF CaptureRecycle, LeaveSurface, Locals
<1>6. CASE SurfaceFrame(t)
  <2>1. CASE mIsCapturing /\ local[<<t, "converted">>] = NoFrame
    BY <1>6, <2>1, GetIntoOwned DEF SurfaceFrame, Locals
  <2>2. CASE ~(mIsCapturing /\ local[<<t, "converted">>] = NoFrame)
    BY <1>6, <2>2, UnmovedOwned DEF SurfaceFrame, OnlyFrames
  <2> QED BY <2>1, <2>2
<1>7. CASE CaptureTake(t)
  <2>1. CASE mIsRunning /\ captureQueu # NoFrame
    <3>1. /\ captureQueu' = NoFrame /\ <<t, "frame">> \in Workers \X Locals
          /\ UNCHANGED <<previewFrames, heap, mFramePool>>
      BY <1>7, <2>1 DEF CaptureTake, CaptureUnchanged, pool, Locals
    <3>2. \A s \in Workers \X Locals :
            local'[s] = IF s = <<t, "frame">> THEN captureQueu ELSE local[s]
      BY <1>7, <2>1 DEF CaptureTake, TypeOK
    <3>3. /\ previewFrames \in Seq(Frames) /\ NoFrame \notin Frames
          /\ heap \cup mFramePool \subseteq Frames
      BY DEF TypeOK, PreviewAssumption
    <3>4. \A i \in DOMAIN previewFrames : previewFrames[i] # NoFrame
      BY <3>3
    <3> QED BY <2>1, <3>1, <3>2, <3>3, <3>4 DEF FrameHasOneOwner
  <2>2. CASE ~(mIsRunning /\ captureQueu # NoFrame)
    <3>1. UNCHANGED <<queues, pool, local>>
      BY <1>7, <2>2 DEF CaptureTake, CaptureUnchanged, queues
    <3> QED BY <3>1, UnmovedOwned
  <2> QED BY <2>1, <2>2
<1>8. CASE CaptureConverted(t)
  <2> DEFINE f == local[<<t, "frame">>]
             fs == {f} \ {NoFrame}
             new == local[<<t, "spare">>]
  <2>1. fs \in SUBSET Frames /\ Recycle(fs) /\ UNCHANGED queues
    BY <1>8 DEF CaptureConverted, OnlyFrames, TypeOK, Locals
  <2>2. fs \cap (heap \cup mFramePool) = {} /\ heap \cap mFramePool = {}
    <3>1. <<t, "frame">> \in Workers \X Locals
      BY DEF Locals
    <3> QED BY <3>1 DEF FrameHasOneOwner
  <2>3. heap' \cup mFramePool' = heap \cup mFramePool \cup fs /\ heap' \cap mFramePool' = {}
    BY <2>1, <2>2, RecycleKept
  <2>4. \A s \in Workers \X Locals :
          local'[s] = IF s = <<t, "frame">> THEN new
                      ELSE IF s = <<t, "spare">> THEN NoFrame ELSE local[s]
    <3>1. local' = [local EXCEPT ![<<t, "frame">>] = new, ![<<t, "spare">>] = NoFrame]
      BY <1>8 DEF CaptureConverted
    <3>2. <<t, "frame">> # <<t, "spare">> /\ DOMAIN local = Workers \X Locals
      BY DEF TypeOK
    <3> HIDE DEF new
    <3> QED BY <3>1, <3>2
  <2>5. /\ <<t, "frame">> \in Workers \X Locals /\ <<t, "spare">> \in Workers \X Locals
        /\ <<t, "frame">> # <<t, "spare">>
        /\ previewFrames \in Seq(Frames) /\ NoFrame \notin Frames
        /\ heap \cup mFramePool \subseteq Frames
    BY DEF Locals, TypeOK, PreviewAssumption
  <2>6. /\ \A i \in DOMAIN previewFrames : previewFrames[i] # NoFrame
        /\ previewFrames' = previewFrames /\ captureQueu' = captureQueu
    BY <2>1, <2>5 DEF queues
  <2>7. \A g \in heap' \cup mFramePool' :
          /\ g # captureQueu
          /\ \A i \in DOMAIN previewFrames : previewFrames[i] # g
          /\ \A s \in Workers \X Locals : local'[s] # g
    <3>1. ASSUME NEW g \in heap \cup mFramePool, NEW s \in Workers \X Locals
          PROVE  local'[s] # g
      BY <2>4, <2>5 DEF FrameHasOneOwner
    <3>2. ASSUME NEW g \in fs, NEW s \in Workers \X Locals
          PROVE  local'[s] # g
      BY <2>4, <2>5 DEF FrameHasOneOwner
    <3>3. \A g \in fs \cup heap \cup mFramePool :
            g # captureQueu /\ \A i \in DOMAIN previewFrames : previewFrames[i] # g
      BY <2>5 DEF FrameHasOneOwner
    <3> QED BY <2>3, <3>1, <3>2, <3>3
  <2>8. \A s \in Workers \X Locals : local'[s] # NoFrame =>
          /\ local'[s] # captureQueu
          /\ \A i \in DOMAIN previewFrames : local'[s] # previewFrames[i]
          /\ \A r \in Workers \X Locals : local'[s] = local'[r] => s = r
    BY <2>4, <2>5 DEF FrameHasOneOwner
  <2> HIDE DEF f, fs, new
  <2> QED BY <2>3, <2>6, <2>7, <2>8, <2>4, <2>5 DEF FrameHasOneOwner
<1> QED BY <1>1, <1>2, <1>3, <1>4, <1>5, <1>6, <1>7, <1>8 DEF CaptureStep

LEMMA ClientOwned ==
  ASSUME PreviewAssumption, TypeInv, FrameHasOneOwner, ClientCall \/ \E t \in Clients : ClientStep(t)
  PROVE  FrameHasOneOwner'
<1> USE DEF TypeInv
<1>1. CASE ClientCall
  <2>1. UNCHANGED <<queues, pool, local>>
    BY <1>1 DEF ClientCall, SetPreviewDisplay, SetFrameCallback, StartPreview, StopPreview,
         SetCaptureDisplay, SetterEnter, ClientUnchanged
  <2> QED BY <2>1, UnmovedOwned
<1>2. ASSUME NEW t \in Clients, ClientStep(t)
      PROVE  FrameHasOneOwner'
  <2>1. CASE StopClearPreview
    BY <2>1, ClearPreviewOwned DEF StopClearPreview
  <2>2. CASE StopClearCapture
    BY <2>2, ClearCaptureOwned DEF StopClearCapture
  <2>3. CASE SetterLook(t) \/ SetterWait(t) \/ SetterAssign(t) \/ StartCreate \/ StartFails \/ StopFlag
             \/ StopSignalPreview \/ StopSignalCapture \/ StopJoinCapture \/ StopJoinPreview
             \/ StopRelease
    <3>1. UNCHANGED <<queues, pool, local>>
      BY <2>3 DEF SetterLook, Step, SetterWait, SetterAssign, StartCreate, StartFails, StopFlag, StopSignalPreview,
           StopSignalCapture, StopJoinCapture, StopJoinPreview, StopRelease, OnlyControl, ClientUnchanged
    <3> QED BY <3>1, UnmovedOwned
  <2> QED BY <1>2, <2>1, <2>2, <2>3 DEF ClientStep
<1> QED BY <1>1, <1>2

LEMMA NextOwned ==
  ASSUME PreviewAssumption, TypeInv, FrameHasOneOwner, [Next]_vars
  PROVE  FrameHasOneOwner'
<1>1. CASE UNCHANGED vars
  BY <1>1, UnmovedOwned DEF vars
<1>2. CASE SpuriousWakeup
  BY <1>2, UnmovedOwned DEF SpuriousWakeup, OnlyControl
<1> QED BY <1>1, <1>2, UvcOwned, PreviewOwned, CaptureOwned, ClientOwned DEF Next

\* No frame is ever in two places: get_frame never hands out a frame that some
\* queue or thread still holds, and none is queued, pooled or freed twice.
THEOREM FramesAreOwnedOnce == PreviewAssumption /\ Spec => []FrameHasOneOwner
<1> SUFFICES ASSUME PreviewAssumption PROVE Spec => []FrameHasOneOwner
  OBVIOUS
<1>1. Init => TypeInv /\ FrameHasOneOwner
  BY InitTypeInv DEF Init, FrameHasOneOwner, PreviewAssumption
<1>2. TypeInv /\ FrameHasOneOwner /\ [Next]_vars => (TypeInv /\ FrameHasOneOwner)'
  BY NextTyped, NextOwned
<1> QED BY <1>1, <1>2, PTL DEF Spec
-----------------------------------------------------------------------------
(* A stopped preview is quiet. *)

\* Between these labels stopPreview waits for the threads, and then empties the queues.
Joining  == {"stopSignalPreview", "stopSignalCapture", "joinCapture", "joinPreview"}
Clearing == {"stopClearPreview", "stopClearCapture", "stopRelease"}

\* Unless the camera is lost, frames come only while the preview thread is between its start and its
\* stop of the stream.
StreamInv ==
  /\ ~streaming /\ device = "plugged" => pc["uvc"] = "idle"
  /\ pc["preview"] \in {"none", "prepare", "exited"} => ~streaming

\* The client says the preview has stopped.
SaysStopped == ~mIsRunning /\ pc["api"] \notin Joining \cup Clearing

\* What stopPreview has done when it comes to each of its labels stays done until the preview
\* thread is created again.
StopInv ==
  /\ pc["api"] \in Joining \cup Clearing => ~mIsRunning
  /\ pc["api"] = "startCreate" => mIsRunning
  /\ SaysStopped \/ pc["api"] \in Clearing \cup {"startCreate"} => pc["preview"] = "none"
  /\ SaysStopped \/ pc["api"] \in {"stopClearCapture", "stopRelease", "startCreate"} =>
       device # "plugged" \/ previewFrames = <<>>
  /\ SaysStopped \/ pc["api"] \in {"stopRelease", "startCreate"} => captureQueu = NoFrame

QuietInv == StreamInv /\ StopInv

\* A signal or a broadcast of thread t changes the label of another thread only to wake it.
LEMMA WakesOnlySleepers ==
  ASSUME PreviewAssumption, TypeOK, NEW t \in Threads, NEW label,
         Goto(t, label) \/ BroadcastCapture(t, label) \/ SignalCapture(t, label) \/ SignalPreview(t, label)
  PROVE  /\ pc'[t] = label \/ (t \in CaptureSleepers /\ pc'[t] = Awake(t))
         /\ \A u \in Threads \ {t} :
              pc'[u] = pc[u] \/ (u \in CaptureSleepers /\ pc'[u] = Awake(u))
                             \/ (pc[u] = "previewSleep" /\ pc'[u] = "previewWoken")
<1> USE DEF TypeOK
<1>1. CASE Goto(t, label)
  BY <1>1 DEF Goto
<1>2. CASE BroadcastCapture(t, label)
  BY <1>2 DEF BroadcastCapture
<1>3. CASE SignalCapture(t, label)
  <2>1. CASE CaptureSleepers # {}
    <3>1. PICK u \in CaptureSleepers : pc' = [pc EXCEPT ![t] = label, ![u] = Awake(u)]
      BY <1>3, <2>1 DEF SignalCapture
    <3>2. u \in Threads
      BY DEF CaptureSleepers
    <3> QED BY <3>1, <3>2
  <2> QED BY <1>1, <1>3, <2>1 DEF SignalCapture
<1>4. CASE SignalPreview(t, label)
  BY <1>4 DEF SignalPreview
<1> QED BY <1>1, <1>2, <1>3, <1>4

\* The labels QuietInv speaks of.
Critical == Joining \cup Clearing \cup {"startCreate"}

\* A capture thread, the encoder, or a client at no label QuietInv speaks of.
LEMMA MovesAside ==
  ASSUME QuietInv,
         UNCHANGED <<mIsRunning, streaming>>,
         device' = "plugged" => device = "plugged",
         previewFrames' \in {previewFrames, <<>>} \/ pc["preview"] # "none" \/ device # "plugged",
         captureQueu' \in {captureQueu, NoFrame} \/ pc["preview"] # "none",
         pc'["uvc"] = pc["uvc"] \/ streaming \/ device # "plugged",
         \/ pc'["preview"] = pc["preview"]
         \/ {pc["preview"], pc'["preview"]} \cap {"none", "prepare", "exited"} = {},
         \/ pc'["api"] = pc["api"]
         \/ {pc["api"], pc'["api"]} \cap Critical = {}
  PROVE  QuietInv'
<1>1. pc'["preview"] \in {"none", "prepare", "exited"} => pc'["preview"] = pc["preview"]
  OBVIOUS
<1>2. StreamInv'
  BY <1>1 DEF QuietInv, StreamInv
<1>3. pc["preview"] = "none" => pc'["preview"] = "none"
  OBVIOUS
<1>4. pc'["api"] = pc["api"] \/ (pc["api"] \notin Critical /\ pc'["api"] \notin Critical)
  OBVIOUS
<1>5. StopInv'
  <2>1. SaysStopped' <=> SaysStopped
    BY <1>4 DEF SaysStopped, Critical
  <2>2. CASE pc["preview"] = "none"
    <3>1. device' = "plugged" /\ previewFrames = <<>> => previewFrames' = <<>>
      BY <2>2
    <3>2. captureQueu = NoFrame => captureQueu' = NoFrame
      BY <2>2
    <3> QED BY <1>3, <1>4, <2>1, <2>2, <3>1, <3>2 DEF QuietInv, StopInv, Critical, Joining, Clearing
  <2>3. CASE pc["preview"] # "none"
    <3>1. ~SaysStopped /\ pc["api"] \notin Clearing \cup {"startCreate"}
      BY <2>3 DEF QuietInv, StopInv
    <3>2. ~SaysStopped' /\ pc'["api"] \notin Clearing \cup {"startCreate"}
      BY <1>4, <2>1, <3>1 DEF Critical
    <3>3. pc'["api"] \in Joining => ~mIsRunning'
      BY <1>4 DEF QuietInv, StopInv, Critical
    <3> QED BY <3>2, <3>3 DEF StopInv, Clearing
  <2> QED BY <2>2, <2>3
<1> QED BY <1>2, <1>5 DEF QuietInv

\* What waking does to the three threads QuietInv speaks of.
LEMMA WakesAside ==
  ASSUME PreviewAssumption, TypeOK, NEW t \in Threads, NEW label,
         Goto(t, label) \/ BroadcastCapture(t, label) \/ SignalCapture(t, label) \/ SignalPreview(t, label)
  PROVE  /\ t # "uvc" => pc'["uvc"] = pc["uvc"] \/ pc["uvc"] = "previewSleep"
         /\ t # "preview" => \/ pc'["preview"] = pc["preview"]
                             \/ pc["preview"] = "previewSleep" /\ pc'["preview"] = "previewWoken"
         /\ t # "api" => \/ pc'["api"] = pc["api"]
                         \/ {pc["api"], pc'["api"]} \cap Critical = {}
<1>1. /\ "uvc" \in Threads /\ "preview" \in Threads /\ "api" \in Threads
      /\ "uvc" \notin CaptureSleepers /\ "preview" \notin CaptureSleepers
  BY DEF CaptureSleepers, PreviewAssumption
<1>2. "api" \in CaptureSleepers => pc["api"] \in {"captureSleep", "setterSleep"}
  BY DEF CaptureSleepers
<1>3. Awake("api") \in {"captureWoken", "setterWoken", "previewWoken"}
  BY DEF Awake
<1> QED BY <1>1, <1>2, <1>3, WakesOnlySleepers DEF Critical, Joining, Clearing

LEMMA UvcQuiet ==
  ASSUME PreviewAssumption, TypeInv, QuietInv, UvcReceive \/ UvcReceiveLate \/ UvcStep
  PROVE  QuietInv'
<1> USE DEF TypeInv
<1>1. streaming \/ device # "plugged"
  BY DEF UvcReceive, UvcReceiveLate, UvcStep, UvcAddPreviewFrame, UvcDuplicateFails, UvcRecycle, Step, QuietInv, StreamInv
<1>2. pc["preview"] # "none" \/ device # "plugged"
  BY <1>1 DEF QuietInv, StreamInv
<1>3. /\ UNCHANGED <<mIsRunning, streaming, captureQueu>>
      /\ device' = "plugged" => device = "plugged"
      /\ \E label : Goto("uvc", label) \/ SignalPreview("uvc", label)
  BY DEF UvcReceive, UvcReceiveLate, GetInto, UvcStep, UvcAddPreviewFrame, UvcDuplicateFails, UvcRecycle,
         Step, OnlyControl, OnlyFrames, flags, queues
<1>4. PICK label : Goto("uvc", label) \/ SignalPreview("uvc", label)
  BY <1>3
<1>5. /\ \/ pc'["preview"] = pc["preview"]
         \/ pc["preview"] = "previewSleep" /\ pc'["preview"] = "previewWoken"
      /\ \/ pc'["api"] = pc["api"]
         \/ {pc["api"], pc'["api"]} \cap Critical = {}
  BY <1>4, WakesAside
<1> QED BY <1>1, <1>2, <1>3, <1>5, MovesAside

LEMMA CaptureQuiet ==
  ASSUME PreviewAssumption, TypeInv, QuietInv, NEW t \in CaptureThreads, CaptureStep(t)
  PROVE  QuietInv'
<1> USE DEF TypeInv
<1>1. /\ UNCHANGED <<mIsRunning, streaming, device, previewFrames>>
      /\ captureQueu' \in {captureQueu, NoFrame}
      /\ \E label : Goto(t, label) \/ BroadcastCapture(t, label)
  <2>1. CASE \/ CaptureStart(t) \/ CaptureLoop(t) \/ CapturePick(t) \/ CaptureTake(t) \/ SurfaceCopy(t)
             \/ SurfaceCopied(t) \/ CaptureReleaseWindow(t) \/ CaptureClearWindow(t)
    BY <2>1 DEF CaptureStart, ClearCaptureFrame, CaptureLoop, CapturePick, CaptureTake, SurfaceCopy,
         SurfaceCopied, CaptureReleaseWindow, CaptureClearWindow, Step, CaptureUnchanged
  <2>2. CASE \/ CaptureInner(t) \/ CaptureTest(t) \/ CaptureSleep(t) \/ CaptureCallback(t)
             \/ CaptureOnFrame(t) \/ CaptureBroadcast(t)
    BY <2>2 DEF CaptureInner, CaptureTest, CaptureSleep, CaptureCallback, CaptureOnFrame,
         CaptureBroadcast, Step, OnlyControl, flags, queues
  <2>3. CASE \/ SurfaceFrame(t) \/ CaptureConvert(t) \/ CaptureConverted(t) \/ CaptureRecycle(t)
             \/ LeaveSurface(t)
    BY <2>3 DEF SurfaceFrame, GetInto, CaptureConvert, CaptureConverted, CaptureRecycle, LeaveSurface,
         Step, OnlyFrames, flags, queues
  <2> QED BY <2>1, <2>2, <2>3 DEF CaptureStep
<1>2. PICK label : Goto(t, label) \/ BroadcastCapture(t, label)
  BY <1>1
<1>3. t \in Threads \ {"uvc", "preview", "api"}
  BY DEF PreviewAssumption
<1>4. /\ pc'["uvc"] = pc["uvc"] \/ pc["uvc"] = "previewSleep"
      /\ \/ pc'["preview"] = pc["preview"]
         \/ pc["preview"] = "previewSleep" /\ pc'["preview"] = "previewWoken"
      /\ \/ pc'["api"] = pc["api"]
         \/ {pc["api"], pc'["api"]} \cap Critical = {}
  BY <1>2, <1>3, WakesAside
<1>5. pc["uvc"] = "previewSleep" => streaming \/ device # "plugged"
  BY DEF QuietInv, StreamInv
<1> QED BY <1>1, <1>4, <1>5, MovesAside DEF TypeOK

LEMMA PreviewQuiet ==
  ASSUME PreviewAssumption, TypeInv, QuietInv, PreviewStep
  PROVE  QuietInv'
<1> USE DEF TypeInv
<1>1. pc["preview"] # "none" /\ UNCHANGED mIsRunning
  BY DEF PreviewStep, PreviewFails, PreviewStartStreaming, PreviewClear, ClearPreviewFrame,
         PreviewCreateCapture, PreviewLoop, PreviewTest, PreviewSleep, PreviewTake, PreviewDecode,
         PreviewDecoded, PreviewUndecodable, PreviewDraw, PreviewDrawn, PreviewAddCapture,
         PreviewFinish, PreviewStopStreaming, Step, PreviewUnchanged, OnlyControl, OnlyFrames, flags
<1>2. ~SaysStopped /\ pc["api"] \notin Clearing \cup {"startCreate"}
  BY <1>1 DEF QuietInv, StopInv
<1>3. SUFFICES ASSUME pc'["api"] = pc["api"] \/ {pc["api"], pc'["api"]} \cap Critical = {},
                      StreamInv'
               PROVE  QuietInv'
  <2>1. \/ pc'["api"] = pc["api"]
        \/ {pc["api"], pc'["api"]} \cap Critical = {}
    <3>1. CASE PreviewCreateCapture
      BY <3>1 DEF PreviewCreateCapture, Goto, TypeOK, PreviewAssumption
    <3>2. CASE ~PreviewCreateCapture
      <4>1. PICK label : Goto("preview", label) \/ BroadcastCapture("preview", label) \/ SignalCapture("preview", label)
        BY <3>2 DEF PreviewStep, PreviewFails, PreviewStartStreaming, PreviewClear, ClearPreviewFrame,
           PreviewLoop, PreviewTest, PreviewSleep, PreviewTake, PreviewDecode, GetInto,
           PreviewDecoded, PreviewUndecodable, PreviewDraw, PreviewDrawn, PreviewAddCapture,
           PreviewFinish, PreviewStopStreaming, Step
      <4> QED BY <4>1, WakesAside
    <3> QED BY <3>1, <3>2
  <2>2. StreamInv'
    <3>1. CASE PreviewFails \/ PreviewStartStreaming
      BY <3>1 DEF PreviewFails, PreviewStartStreaming, Step, Goto, OnlyControl, QuietInv, StreamInv, TypeOK
    <3>2. CASE PreviewStopStreaming
      BY <3>2 DEF PreviewStopStreaming, Step, Goto, StreamInv, TypeOK
    <3>3. CASE PreviewCreateCapture
      BY <3>3 DEF PreviewCreateCapture, Goto, QuietInv, StreamInv, TypeOK, PreviewAssumption
    <3>4. CASE ~(PreviewFails \/ PreviewStartStreaming \/ PreviewStopStreaming \/ PreviewCreateCapture)
      <4>1. PICK label :
              /\ Goto("preview", label) \/ BroadcastCapture("preview", label) \/ SignalCapture("preview", label)
              /\ label \notin {"none", "prepare", "exited"}
        BY <3>4 DEF PreviewStep, PreviewClear, ClearPreviewFrame,
           PreviewLoop, PreviewTest, PreviewSleep, PreviewTake, PreviewDecode, GetInto,
           PreviewDecoded, PreviewUndecodable, PreviewDraw, PreviewDrawn, PreviewAddCapture,
           PreviewFinish, Step
      <4>2. streaming' = streaming /\ device' = device /\ pc["preview"] \notin {"none", "prepare", "exited"}
        BY <3>4 DEF PreviewStep, PreviewClear, PreviewLoop, PreviewTest, PreviewSleep, PreviewTake,
           PreviewDecode, PreviewDecoded, PreviewUndecodable, PreviewDraw, PreviewDrawn,
           PreviewAddCapture, PreviewFinish, Step, PreviewUnchanged, OnlyControl, OnlyFrames
      <4>3. pc'["uvc"] = pc["uvc"] \/ pc["uvc"] = "previewSleep"
        BY <4>1, WakesAside
      <4>4. pc'["preview"] = label
        BY <4>1, WakesOnlySleepers DEF CaptureSleepers, PreviewAssumption
      <4> QED BY <4>1, <4>2, <4>3, <4>4 DEF QuietInv, StreamInv
    <3> QED BY <3>1, <3>2, <3>3, <3>4
  <2> QED BY <1>3, <2>1, <2>2
<1>4. pc["api"] \in Critical => pc["api"] \in Joining
  BY <1>2 DEF Critical
<1>5. ~SaysStopped' /\ pc'["api"] \notin Clearing \cup {"startCreate"}
  BY <1>1, <1>2, <1>3, <1>4 DEF SaysStopped, Critical
<1>6. pc'["api"] \in Joining => ~mIsRunning'
  BY <1>1, <1>3 DEF QuietInv, StopInv, Critical
<1>7. pc'["api"] \notin {"startCreate", "stopClearPreview", "stopClearCapture", "stopRelease"}
  BY <1>5 DEF Clearing
<1>8. StopInv'
  BY <1>5, <1>6, <1>7 DEF StopInv, Clearing
<1> QED BY <1>3, <1>8 DEF QuietInv

LEMMA ClientQuiet ==
  ASSUME PreviewAssumption, TypeInv, QuietInv, ClientCall \/ \E t \in Clients : ClientStep(t)
  PROVE  QuietInv'
<1> USE DEF TypeInv
<1>1. ASSUME NEW t \in Clients, SetterLook(t) \/ SetterWait(t) \/ SetterAssign(t)
      PROVE  QuietInv'
  <2>1. /\ UNCHANGED <<mIsRunning, streaming, device, previewFrames, captureQueu>>
        /\ pc[t] \notin Critical
        /\ \E label : (Goto(t, label) \/ SignalCapture(t, label)) /\ label \notin Critical
    BY <1>1 DEF SetterLook, Step, SetterWait, SetterAssign, OnlyControl, ClientUnchanged, flags, queues,
         Critical, Joining, Clearing
  <2>2. PICK label : (Goto(t, label) \/ SignalCapture(t, label)) /\ label \notin Critical
    BY <2>1
  <2>3. pc'[t] \notin Critical
    BY <2>2, WakesOnlySleepers DEF Awake, Critical, Joining, Clearing
  <2> QED BY <2>1, <2>2, <2>3, WakesAside, MovesAside DEF QuietInv, StreamInv
<1>2. ASSUME NEW t \in Clients, NEW j, SetterEnter(t, j)
      PROVE  QuietInv'
  <2>1. /\ UNCHANGED <<mIsRunning, streaming, device, previewFrames, captureQueu>>
        /\ pc[t] = "idle"
        /\ \E label \in {"setterLook", "setterAssign"} : Goto(t, label)
    BY <1>2 DEF SetterEnter, Begin, ClientUnchanged, queues
  <2> QED BY <2>1, MovesAside DEF Goto, TypeOK, Critical, Joining, Clearing
<1>3. ASSUME NEW set, SetPreviewDisplay(set)
      PROVE  QuietInv'
  BY <1>3, MovesAside DEF SetPreviewDisplay, ClientUnchanged, flags, queues
<1>4. CASE StartPreview
  BY <1>4 DEF StartPreview, Begin, Goto, ClientUnchanged, queues, TypeOK, QuietInv, StreamInv,
       StopInv, SaysStopped, Joining, Clearing
<1>5. CASE ClientCall
  BY <1>2, <1>3, <1>4, <1>5 DEF ClientCall, SetFrameCallback, StopPreview, SetCaptureDisplay
<1>6. CASE StartCreate
  BY <1>6 DEF StartCreate, OnlyControl, flags, queues, TypeOK, QuietInv, StreamInv,
       StopInv, SaysStopped, Joining, Clearing
<1>7. CASE StartFails \/ StopFlag
  BY <1>7 DEF StartFails, StopFlag, Step, Goto, ClientUnchanged, queues, TypeOK, QuietInv, StreamInv,
       StopInv, SaysStopped, Joining, Clearing
<1>8. CASE StopSignalPreview \/ StopSignalCapture
  <2>1. PICK label : /\ SignalPreview("api", label) \/ SignalCapture("api", label)
                     /\ label \in Joining /\ pc["api"] \in Joining
    BY <1>8 DEF StopSignalPreview, StopSignalCapture, Joining
  <2>2. UNCHANGED <<mIsRunning, streaming, device, previewFrames, captureQueu>>
    BY <1>8 DEF StopSignalPreview, StopSignalCapture, OnlyControl, flags, queues
  <2>3. pc'["api"] = label
    BY <2>1, WakesOnlySleepers DEF CaptureSleepers, Joining
  <2>4. /\ pc'["uvc"] = pc["uvc"] \/ pc["uvc"] = "previewSleep"
        /\ \/ pc'["preview"] = pc["preview"]
           \/ pc["preview"] = "previewSleep" /\ pc'["preview"] = "previewWoken"
    BY <2>1, WakesAside
  <2> QED BY <2>1, <2>2, <2>3, <2>4 DEF QuietInv, StreamInv, StopInv, SaysStopped, Joining, Clearing
<1>9. CASE StopJoinCapture
  <2>1. /\ pc["api"] = "joinCapture" /\ pc'["api"] = "joinPreview"
        /\ pc'["preview"] = pc["preview"] /\ pc'["uvc"] = pc["uvc"]
    BY <1>9 DEF StopJoinCapture, Goto, TypeOK, PreviewAssumption
  <2>2. UNCHANGED <<mIsRunning, streaming, device, previewFrames, captureQueu>>
    BY <1>9 DEF StopJoinCapture, OnlyControl, flags, queues
  <2> QED BY <2>1, <2>2 DEF QuietInv, StreamInv, StopInv, SaysStopped, Joining, Clearing
<1>10. CASE StopJoinPreview
  BY <1>10 DEF StopJoinPreview, OnlyControl, flags, queues, TypeOK, QuietInv, StreamInv,
       StopInv, SaysStopped, Joining, Clearing
<1>11. CASE StopClearPreview \/ StopClearCapture \/ StopRelease
  BY <1>11 DEF StopClearPreview, ClearPreviewFrame, StopClearCapture, ClearCaptureFrame, StopRelease,
       Step, Goto, ClientUnchanged, flags, queues, TypeOK, QuietInv, StreamInv, StopInv, SaysStopped,
       Joining, Clearing
<1> QED BY <1>1, <1>5, <1>6, <1>7, <1>8, <1>9, <1>10, <1>11 DEF ClientStep

LEMMA NextQuiet ==
  ASSUME PreviewAssumption, TypeInv, QuietInv, [Next]_vars
  PROVE  QuietInv'
<1>1. CASE UNCHANGED vars
  BY <1>1, MovesAside DEF vars, flags, queues
<1>2. CASE SpuriousWakeup
  <2>1. PICK t \in Threads : /\ pc[t] \in {"captureSleep", "setterSleep", "previewSleep"}
                             /\ pc' = [pc EXCEPT ![t] = Awake(t)]
    BY <1>2 DEF SpuriousWakeup, Goto
  <2>2. Awake(t) \in {"captureWoken", "setterWoken", "previewWoken"}
    BY DEF Awake
  <2>3. pc["uvc"] = "idle" \/ streaming \/ device # "plugged"
    BY DEF QuietInv, StreamInv
  <2>4. UNCHANGED <<mIsRunning, streaming, device, previewFrames, captureQueu>>
    BY <1>2 DEF SpuriousWakeup, OnlyControl, flags, queues
  <2> QED BY <2>1, <2>2, <2>3, <2>4, MovesAside DEF TypeInv, TypeOK, Critical, Joining, Clearing
<1>3. CASE DeviceLost
  BY <1>3, MovesAside DEF DeviceLost, flags, queues
<1> QED BY <1>1, <1>2, <1>3, UvcQuiet, PreviewQuiet, CaptureQuiet, ClientQuiet DEF Next

\* When stopPreview has returned, or a start has failed, no stream is open, no preview thread is left
\* and no frame waits to be captured, however the threads, the signals and the joins interleave and
\* whether or not the camera is lost; unless it was lost, no callback is in progress either, and no
\* frame is left in previewFrames.
THEOREM StoppedPreviewIsQuiet == PreviewAssumption /\ Spec => []StoppedIsQuiet
<1> SUFFICES ASSUME PreviewAssumption PROVE Spec => []StoppedIsQuiet
  OBVIOUS
<1>1. Init => TypeInv /\ QuietInv
  BY InitTypeInv DEF Init, QuietInv, StreamInv, StopInv, SaysStopped, Joining, Clearing
<1>2. TypeInv /\ QuietInv /\ [Next]_vars => (TypeInv /\ QuietInv)'
  BY NextTyped, NextQuiet
<1>3. QuietInv => StoppedIsQuiet
  BY DEF QuietInv, StreamInv, StopInv, SaysStopped, Joining, Clearing, StoppedIsQuiet
<1> QED BY <1>1, <1>2, <1>3, PTL DEF Spec

-----------------------------------------------------------------------------
(* Frames are lost only when a preview stops. *)

\* A local variable that a thread is about to fill holds no frame.
UvcLocals == pc["uvc"] = "idle" => local[<<"uvc", "frame">>] = NoFrame

PreviewLocals ==
  /\ pc["preview"] \notin {"decoded", "draw", "drawn", "addCapture", "undecodable"} =>
       local[<<"preview", "frame">>] = NoFrame
  /\ pc["preview"] \notin {"decode", "decoded", "faulted"} => local[<<"preview", "spare">>] = NoFrame
  /\ pc["preview"] # "drawn" => local[<<"preview", "converted">>] = NoFrame

CaptureLocals(t) ==
  /\ pc[t] \notin {"surfaceFrame", "copy", "copied", "callback", "convert", "converted", "onFrame",
                   "recycle"} => local[<<t, "frame">>] = NoFrame
  /\ pc[t] # "converted" => local[<<t, "spare">>] = NoFrame

LocalsInv == UvcLocals /\ PreviewLocals /\ \A t \in CaptureThreads : CaptureLocals(t)

\* A step of thread t that leaves the locals of the others alone, whomever it wakes.
LEMMA OthersKeepLocals ==
  ASSUME PreviewAssumption, TypeOK, LocalsInv, NEW t \in Threads, NEW label,
         Goto(t, label) \/ BroadcastCapture(t, label) \/ SignalCapture(t, label) \/ SignalPreview(t, label),
         \A s \in Workers \X Locals : s[1] # t => local'[s] = local[s]
  PROVE  /\ t # "uvc" => UvcLocals'
         /\ t # "preview" => PreviewLocals'
         /\ \A u \in CaptureThreads \ {t} : CaptureLocals(u)'
<1>1. \A u \in Threads \ {t} :
        \/ pc'[u] = pc[u]
        \/ /\ pc[u] \in {"captureSleep", "setterSleep", "previewSleep"}
           /\ pc'[u] \in {"captureWoken", "setterWoken", "previewWoken"}
  <2>1. \A u \in CaptureSleepers : /\ pc[u] \in {"captureSleep", "setterSleep", "previewSleep"}
                                   /\ Awake(u) \in {"captureWoken", "setterWoken", "previewWoken"}
    BY DEF CaptureSleepers, Awake
  <2> QED BY <2>1, WakesOnlySleepers
<1>2. ASSUME NEW u \in Workers, NEW name \in Locals, u # t
      PROVE  local'[<<u, name>>] = local[<<u, name>>]
  BY <1>2
<1>3. ASSUME t # "uvc"
      PROVE  UvcLocals'
  BY <1>1, <1>2, <1>3 DEF LocalsInv, UvcLocals, Locals
<1>4. ASSUME t # "preview"
      PROVE  PreviewLocals'
  BY <1>1, <1>2, <1>4 DEF LocalsInv, PreviewLocals, Locals
<1>5. ASSUME NEW u \in CaptureThreads \ {t}
      PROVE  CaptureLocals(u)'
  <2>1. /\ local'[<<u, "frame">>] = local[<<u, "frame">>]
        /\ local'[<<u, "spare">>] = local[<<u, "spare">>]
    BY <1>2 DEF Locals
  <2> QED BY <1>1, <2>1 DEF LocalsInv, CaptureLocals
<1> QED BY <1>3, <1>4, <1>5

\* The same without a word about the steps's thread: it may be a client.
LEMMA ClientsKeepLocals ==
  ASSUME PreviewAssumption, TypeOK, LocalsInv, NEW t \in Clients, NEW label, UNCHANGED local,
         Goto(t, label) \/ SignalCapture(t, label) \/ SignalPreview(t, label)
  PROVE  LocalsInv'
BY OthersKeepLocals DEF LocalsInv, PreviewAssumption

LEMMA UvcLocalsKept ==
  ASSUME PreviewAssumption, TypeInv, LocalsInv, UvcReceive \/ UvcReceiveLate \/ UvcStep
  PROVE  LocalsInv'
<1> USE DEF TypeInv
<1>1. PICK label : Goto("uvc", label) \/ SignalPreview("uvc", label)
  BY DEF UvcReceive, UvcReceiveLate, GetInto, UvcStep, UvcAddPreviewFrame, UvcDuplicateFails, UvcRecycle, Step
<1>2. \A s \in Workers \X Locals : s[1] # "uvc" => local'[s] = local[s]
  BY DEF UvcReceive, UvcReceiveLate, GetInto, UvcStep, UvcAddPreviewFrame, UvcDuplicateFails, UvcRecycle, RecycleLocal,
         OnlyControl, TypeOK
<1>3. PreviewLocals' /\ \A u \in CaptureThreads : CaptureLocals(u)'
  BY <1>1, <1>2, OthersKeepLocals DEF PreviewAssumption
<1>4. CASE UvcReceive \/ UvcReceiveLate
  <2>1. PICK f : /\ local' = [local EXCEPT ![<<"uvc", "frame">>] = f]
                 /\ pc' = [pc EXCEPT !["uvc"] = IF f = NoFrame THEN "idle" ELSE "uvcAdd"]
    BY <1>4 DEF UvcReceive, UvcReceiveLate, GetInto, Goto
  <2>2. /\ local'[<<"uvc", "frame">>] = f
        /\ pc'["uvc"] = IF f = NoFrame THEN "idle" ELSE "uvcAdd"
    BY <2>1 DEF TypeOK, Locals
  <2> QED BY <1>3, <2>2 DEF LocalsInv, UvcLocals
<1>5. CASE UvcAddPreviewFrame \/ UvcRecycle
  <2>1. local'[<<"uvc", "frame">>] = NoFrame \/ pc'["uvc"] = "uvcRecycle"
    BY <1>5 DEF UvcAddPreviewFrame, UvcRecycle, RecycleLocal, Goto, TypeOK, Locals
  <2> QED BY <1>3, <2>1 DEF LocalsInv, UvcLocals
<1>6. CASE UvcDuplicateFails
  BY <1>3, <1>6 DEF UvcDuplicateFails, Step, Goto, TypeOK, LocalsInv, UvcLocals
<1> QED BY <1>4, <1>5, <1>6 DEF UvcStep

\* A step of the preview thread, but for the creation of the capture thread.
LEMMA PreviewLocalsKept ==
  ASSUME PreviewAssumption, TypeInv, LocalsInv, PreviewStep
  PROVE  LocalsInv'
<1> USE DEF TypeInv
<1> DEFINE frame     == local[<<"preview", "frame">>]
           spare     == local[<<"preview", "spare">>]
           converted == local[<<"preview", "converted">>]
<1>1. CASE PreviewCreateCapture
  <2>1. local' = local /\ pc'["preview"] = "previewLoop" /\ pc["preview"] = "create" /\ pc'["uvc"] = pc["uvc"]
    BY <1>1 DEF PreviewCreateCapture, Goto, TypeOK, PreviewAssumption
  <2>2. \A t \in CaptureThreads : pc'[t] = pc[t] \/ (pc[t] = "none" /\ pc'[t] = "captureStart")
    BY <1>1 DEF PreviewCreateCapture, Goto, TypeOK, PreviewAssumption
  <2> QED BY <2>1, <2>2 DEF LocalsInv, UvcLocals, PreviewLocals, CaptureLocals
<1>2. CASE ~PreviewCreateCapture
  <2>1. PICK label :
          Goto("preview", label) \/ BroadcastCapture("preview", label) \/ SignalCapture("preview", label)
    BY <1>2 DEF PreviewStep, PreviewFails, PreviewStartStreaming, PreviewClear, ClearPreviewFrame,
       PreviewLoop, PreviewTest, PreviewSleep, PreviewTake, PreviewDecode, GetInto, PreviewDecoded,
       PreviewUndecodable, PreviewDraw, PreviewDrawn, PreviewAddCapture, PreviewFinish,
       PreviewStopStreaming, Step
  <2>2. \A s \in Workers \X Locals : s[1] # "preview" => local'[s] = local[s]
    BY <1>2 DEF PreviewStep, PreviewFails, PreviewStartStreaming, PreviewClear, PreviewLoop, PreviewTest,
       PreviewSleep, PreviewTake, PreviewDecode, GetInto, PreviewDecoded, PreviewUndecodable,
       PreviewDraw, PreviewDrawn, PreviewAddCapture, PreviewFinish, PreviewStopStreaming,
       RecycleLocal, OnlyControl, TypeOK
  <2>3. UvcLocals' /\ \A u \in CaptureThreads : CaptureLocals(u)'
    BY <2>1, <2>2, OthersKeepLocals DEF PreviewAssumption
  <2>4. PreviewLocals'
    <3>1. CASE \/ PreviewFails \/ PreviewStartStreaming \/ PreviewClear \/ PreviewLoop \/ PreviewTest
               \/ PreviewSleep \/ PreviewFinish \/ PreviewStopStreaming
      <4>1. /\ local' = local
            /\ pc["preview"] \notin {"decode", "decoded", "draw", "drawn", "addCapture", "undecodable", "faulted"}
        BY <3>1 DEF PreviewFails, PreviewStartStreaming, PreviewClear, ClearPreviewFrame, PreviewLoop,
           PreviewTest, PreviewSleep, PreviewFinish, PreviewStopStreaming, Step, OnlyControl
      <4> QED BY <4>1 DEF LocalsInv, PreviewLocals
    <3>2. CASE PreviewTake
      <4>1. pc["preview"] \in {"previewTest", "previewWoken"}
        BY <3>2 DEF PreviewTake
      <4>2. frame = NoFrame /\ spare = NoFrame /\ converted = NoFrame
        BY <4>1 DEF LocalsInv, PreviewLocals
      <4>3. CASE local' = local
        BY <4>2, <4>3 DEF PreviewLocals
      <4>4. CASE local' # local
        <5>1. /\ local' = [local EXCEPT ![<<"preview", IF Mjpeg THEN "spare" ELSE "frame">>] = Head(previewFrames)]
              /\ pc' = [pc EXCEPT !["preview"] = IF Mjpeg THEN "decode" ELSE "draw"]
          BY <3>2, <4>4 DEF PreviewTake, Goto
        <5>2. CASE Mjpeg
          BY <4>2, <5>1, <5>2 DEF PreviewLocals, TypeOK, Locals
        <5>3. CASE ~Mjpeg
          BY <4>2, <5>1, <5>3 DEF PreviewLocals, TypeOK, Locals
        <5> QED BY <5>2, <5>3
      <4> QED BY <4>3, <4>4
    <3>3. CASE PreviewDecode
      <4>1. PICK f : /\ local' = [local EXCEPT ![<<"preview", "frame">>] = f]
                     /\ pc' = [pc EXCEPT !["preview"] = IF f = NoFrame THEN "faulted" ELSE "decoded"]
        BY <3>3 DEF PreviewDecode, GetInto, Goto
      <4>2. local'[<<"preview", "frame">>] = f /\ converted' = converted
        BY <4>1 DEF TypeOK, Locals
      <4>3. pc'["preview"] = IF f = NoFrame THEN "faulted" ELSE "decoded"
        BY <4>1 DEF TypeOK
      <4>4. converted = NoFrame
        BY <3>3 DEF PreviewDecode, LocalsInv, PreviewLocals
      <4> QED BY <4>2, <4>3, <4>4 DEF PreviewLocals
    <3>4. CASE PreviewDecoded
      <4>1. /\ spare' = NoFrame /\ converted' = converted /\ frame' = frame
            /\ pc["preview"] = "decoded" /\ pc'["preview"] \in {"draw", "undecodable"}
        BY <3>4 DEF PreviewDecoded, RecycleLocal, Goto, TypeOK, Locals
      <4> QED BY <4>1 DEF LocalsInv, PreviewLocals
    <3>5. CASE PreviewUndecodable
      <4>1. /\ spare' = spare /\ converted' = converted /\ frame' = NoFrame
            /\ pc["preview"] = "undecodable" /\ pc'["preview"] = "previewLoop"
        BY <3>5 DEF PreviewUndecodable, Step, RecycleLocal, Goto, TypeOK, Locals
      <4> QED BY <4>1 DEF LocalsInv, PreviewLocals
    <3>6. CASE PreviewDraw
      <4>1. spare = NoFrame /\ converted = NoFrame
        BY <3>6 DEF PreviewDraw, LocalsInv, PreviewLocals
      <4>2. spare' = spare /\ frame' = frame
        BY <3>6 DEF PreviewDraw, GetInto, TypeOK, Locals
      <4>3. CASE local' = local
        <5>1. pc'["preview"] \in {"drawn", "addCapture"}
          BY <3>6 DEF PreviewDraw, GetInto, Goto, TypeOK
        <5> QED BY <4>1, <4>3, <5>1 DEF PreviewLocals
      <4>4. CASE local' # local
        <5>1. PICK f : /\ local' = [local EXCEPT ![<<"preview", "converted">>] = f]
                       /\ pc' = [pc EXCEPT !["preview"] = IF f = NoFrame THEN "addCapture" ELSE "drawn"]
          BY <3>6, <4>4 DEF PreviewDraw, GetInto, Goto
        <5>2. converted' = f /\ pc'["preview"] = IF f = NoFrame THEN "addCapture" ELSE "drawn"
          BY <5>1 DEF TypeOK, Locals
        <5> QED BY <4>1, <4>2, <5>2 DEF PreviewLocals
      <4> QED BY <4>3, <4>4
    <3>7. CASE PreviewDrawn
      <4>1. /\ spare' = spare /\ converted' = NoFrame /\ frame' = frame
            /\ pc["preview"] = "drawn" /\ pc'["preview"] = "addCapture"
        BY <3>7 DEF PreviewDrawn, Step, RecycleLocal, Goto, TypeOK, Locals
      <4> QED BY <4>1 DEF LocalsInv, PreviewLocals
    <3>8. CASE PreviewAddCapture
      <4>1. /\ spare' = spare /\ converted' = converted /\ frame' = NoFrame
            /\ pc["preview"] = "addCapture"
        BY <3>8 DEF PreviewAddCapture, TypeOK, Locals
      <4>2. pc'["preview"] = "previewLoop"
        BY <3>8 DEF PreviewAddCapture, BroadcastCapture, Goto, TypeOK
      <4> QED BY <4>1, <4>2 DEF LocalsInv, PreviewLocals
    <3> QED BY <1>2, <3>1, <3>2, <3>3, <3>4, <3>5, <3>6, <3>7, <3>8 DEF PreviewStep
  <2> QED BY <2>3, <2>4 DEF LocalsInv
<1> QED BY <1>1, <1>2

LEMMA CaptureLocalsKept ==
  ASSUME PreviewAssumption, TypeInv, LocalsInv, NEW t \in CaptureThreads, CaptureStep(t)
  PROVE  LocalsInv'
<1> USE DEF TypeInv
<1>1. PICK label : Goto(t, label) \/ BroadcastCapture(t, label)
  BY DEF CaptureStep, CaptureStart, ClearCaptureFrame, CaptureLoop, CapturePick, CaptureInner, CaptureTest,
         CaptureSleep, CaptureTake, SurfaceFrame, SurfaceCopy, SurfaceCopied, CaptureCallback,
         CaptureConvert, CaptureConverted, CaptureOnFrame, CaptureRecycle, LeaveSurface,
         CaptureReleaseWindow, CaptureClearWindow, CaptureBroadcast, GetInto, Step
<1>2. \A s \in Workers \X Locals : s[1] # t => local'[s] = local[s]
  BY DEF CaptureStep, CaptureStart, CaptureLoop, CapturePick, CaptureInner, CaptureTest,
         CaptureSleep, CaptureTake, SurfaceFrame, SurfaceCopy, SurfaceCopied, CaptureCallback,
         CaptureConvert, CaptureConverted, CaptureOnFrame, CaptureRecycle, LeaveSurface,
         CaptureReleaseWindow, CaptureClearWindow, CaptureBroadcast, GetInto, RecycleLocal,
         OnlyControl, TypeOK
<1>3. t \in Threads \ {"uvc", "preview"}
  BY DEF PreviewAssumption
<1>4. UvcLocals' /\ PreviewLocals' /\ \A u \in CaptureThreads \ {t} : CaptureLocals(u)'
  BY <1>1, <1>2, <1>3, OthersKeepLocals
<1>5. SUFFICES CaptureLocals(t)'
  BY <1>4 DEF LocalsInv
<1>6. /\ t \in Threads /\ t \in Workers /\ t # "api"
      /\ CaptureLocals(t)
  BY <1>3 DEF LocalsInv
<1>7. CASE \/ CaptureStart(t) \/ CaptureLoop(t) \/ CapturePick(t) \/ CaptureInner(t) \/ CaptureTest(t)
           \/ CaptureSleep(t) \/ CaptureReleaseWindow(t) \/ CaptureClearWindow(t) \/ CaptureBroadcast(t)
  <2>1. /\ local' = local
        /\ pc[t] \in {"captureStart", "captureLoop", "capturePick", "captureInner", "captureTest",
                      "captureSleepy", "releaseWindow", "clearWindow", "captureBroadcast"}
    BY <1>7 DEF CaptureStart, CaptureLoop, CapturePick, CaptureInner, CaptureTest, CaptureSleep,
       CaptureReleaseWindow, CaptureClearWindow, CaptureBroadcast, Step, OnlyControl
  <2> QED BY <1>6, <2>1 DEF CaptureLocals
<1>8. CASE SurfaceCopy(t) \/ SurfaceCopied(t) \/ CaptureCallback(t) \/ CaptureOnFrame(t)
  <2>1. /\ local' = local
        /\ pc[t] # "converted"
        /\ pc'[t] \in {"callback", "copied", "recycle", "convert", "onFrame"}
    BY <1>6, <1>8 DEF SurfaceCopy, SurfaceCopied, CaptureCallback, CaptureOnFrame, Step, Goto,
       OnlyControl, TypeOK
  <2> QED BY <1>6, <2>1 DEF CaptureLocals
<1>9. CASE CaptureTake(t)
  <2>1. /\ pc[t] \in {"captureTest", "captureWoken"}
        /\ local'[<<t, "spare">>] = local[<<t, "spare">>]
        /\ \/ local' = local
           \/ pc'[t] \in {"surfaceFrame", "callback"}
    BY <1>6, <1>9 DEF CaptureTake, Goto, TypeOK, Locals
  <2> QED BY <1>6, <2>1 DEF CaptureLocals
<1>10. CASE SurfaceFrame(t)
  <2>1. /\ pc[t] = "surfaceFrame" /\ pc'[t] \in {"callback", "copy"}
        /\ local'[<<t, "spare">>] = local[<<t, "spare">>]
    BY <1>6, <1>10 DEF SurfaceFrame, GetInto, Goto, TypeOK, Locals
  <2> QED BY <1>6, <2>1 DEF CaptureLocals
<1>11. CASE CaptureConvert(t)
  <2>1. PICK f : /\ local' = [local EXCEPT ![<<t, "spare">>] = f]
                 /\ pc' = [pc EXCEPT ![t] = IF f = NoFrame THEN "recycle" ELSE "converted"]
    BY <1>11 DEF CaptureConvert, GetInto, Goto
  <2>2. local'[<<t, "spare">>] = f /\ pc'[t] = IF f = NoFrame THEN "recycle" ELSE "converted"
    BY <1>6, <2>1 DEF TypeOK, Locals
  <2> QED BY <1>6, <2>2 DEF CaptureLocals
<1>12. CASE CaptureConverted(t)
  <2>1. /\ local'[<<t, "spare">>] = NoFrame
        /\ pc'[t] \in {"onFrame", "recycle"}
    BY <1>6, <1>12 DEF CaptureConverted, Goto, TypeOK, Locals
  <2> QED BY <2>1 DEF CaptureLocals
<1>13. CASE CaptureRecycle(t)
  <2>1. /\ local'[<<t, "frame">>] = NoFrame /\ local'[<<t, "spare">>] = local[<<t, "spare">>]
        /\ pc[t] = "recycle"
    BY <1>6, <1>13 DEF CaptureRecycle, Step, RecycleLocal, TypeOK, Locals
  <2> QED BY <1>6, <2>1 DEF CaptureLocals
<1>14. CASE LeaveSurface(t)
  <2>1. /\ local'[<<t, "frame">>] = local[<<t, "frame">>] /\ local'[<<t, "spare">>] = local[<<t, "spare">>]
        /\ pc[t] = "leaveSurface"
    BY <1>6, <1>14 DEF LeaveSurface, Step, RecycleLocal, TypeOK, Locals
  <2> QED BY <1>6, <2>1 DEF CaptureLocals
<1> QED BY <1>7, <1>8, <1>9, <1>10, <1>11, <1>12, <1>13, <1>14 DEF CaptureStep

LEMMA ClientLocalsKept ==
  ASSUME PreviewAssumption, TypeInv, QuietInv, LocalsInv, ClientCall \/ \E t \in Clients : ClientStep(t)
  PROVE  LocalsInv'
<1> USE DEF TypeInv
<1>1. UNCHANGED local
  BY DEF ClientCall, SetPreviewDisplay, SetFrameCallback, StartPreview, StopPreview, SetCaptureDisplay,
         SetterEnter, ClientStep, SetterLook, SetterWait, SetterAssign, StartCreate, StartFails, StopFlag,
         StopSignalPreview, StopSignalCapture, StopJoinCapture, StopJoinPreview, StopClearPreview,
         StopClearCapture, StopRelease, ClientUnchanged, OnlyControl
<1>2. CASE StartCreate
  <2>1. /\ pc["preview"] = "none" /\ pc'["preview"] = "prepare"
        /\ \A t \in Threads \ {"preview", "api"} : pc'[t] = pc[t]
    BY <1>2 DEF StartCreate, TypeOK, QuietInv, StopInv
  <2>2. CaptureThreads \cup {"uvc"} \subseteq Threads \ {"preview", "api"}
    BY DEF PreviewAssumption
  <2> QED BY <1>1, <2>1, <2>2 DEF LocalsInv, UvcLocals, PreviewLocals, CaptureLocals
<1>3. CASE StopJoinPreview \/ StopJoinCapture
  <2>1. \A t \in Threads \ {"api"} : pc'[t] = pc[t] \/ (pc[t] = "exited" /\ pc'[t] = "none")
    BY <1>3 DEF StopJoinPreview, StopJoinCapture, Goto, TypeOK
  <2>2. Workers \subseteq Threads \ {"api"} /\ "uvc" \in Workers /\ "preview" \in Workers
    BY DEF PreviewAssumption
  <2>3. CaptureThreads \subseteq Workers
    OBVIOUS
  <2>4. UvcLocals'
    BY <1>1, <2>1, <2>2, <1>3 DEF StopJoinPreview, StopJoinCapture, Goto, TypeOK, LocalsInv, UvcLocals
  <2>5. PreviewLocals'
    BY <1>1, <2>1, <2>2 DEF LocalsInv, PreviewLocals
  <2>6. ASSUME NEW t \in CaptureThreads
        PROVE  CaptureLocals(t)'
    BY <1>1, <2>1, <2>2, <2>3 DEF LocalsInv, CaptureLocals
  <2> QED BY <2>4, <2>5, <2>6 DEF LocalsInv
<1>4. CASE \E set : SetPreviewDisplay(set)
  BY <1>1, <1>4 DEF SetPreviewDisplay, LocalsInv, UvcLocals, PreviewLocals, CaptureLocals
<1>5. CASE ~(StartCreate \/ StopJoinPreview \/ StopJoinCapture \/ \E set : SetPreviewDisplay(set))
  <2>1. \E t \in Clients : \E label : Goto(t, label) \/ SignalCapture(t, label) \/ SignalPreview(t, label)
    BY <1>5 DEF ClientCall, SetFrameCallback, StartPreview, StopPreview, SetCaptureDisplay,
         SetterEnter, ClientStep, SetterLook, SetterWait, SetterAssign, StartFails, StopFlag,
         StopSignalPreview, StopSignalCapture, StopClearPreview, ClearPreviewFrame,
         StopClearCapture, ClearCaptureFrame, StopRelease, Step
  <2> QED BY <1>1, <2>1, ClientsKeepLocals
<1> QED BY <1>2, <1>3, <1>4, <1>5

LEMMA NextLocals ==
  ASSUME PreviewAssumption, TypeInv, QuietInv, LocalsInv, [Next]_vars
  PROVE  LocalsInv'
<1>1. CASE UNCHANGED vars
  BY <1>1 DEF vars, LocalsInv, UvcLocals, PreviewLocals, CaptureLocals
<1>2. CASE SpuriousWakeup
  <2>1. PICK t \in Threads : /\ pc[t] \in {"captureSleep", "setterSleep", "previewSleep"}
                             /\ pc' = [pc EXCEPT ![t] = Awake(t)]
    BY <1>2 DEF SpuriousWakeup, Goto
  <2>2. Awake(t) \in {"captureWoken", "setterWoken", "previewWoken"} /\ local' = local
    BY <1>2 DEF Awake, SpuriousWakeup, OnlyControl
  <2>3. \A u \in Threads :
          \/ pc'[u] = pc[u]
          \/ /\ pc[u] \in {"captureSleep", "setterSleep", "previewSleep"}
             /\ pc'[u] \in {"captureWoken", "setterWoken", "previewWoken"}
    BY <2>1, <2>2 DEF TypeInv, TypeOK
  <2> QED BY <2>2, <2>3 DEF LocalsInv, UvcLocals, PreviewLocals, CaptureLocals
<1>3. CASE DeviceLost
  BY <1>3 DEF DeviceLost, LocalsInv, UvcLocals, PreviewLocals, CaptureLocals
<1> QED BY <1>1, <1>2, <1>3, UvcLocalsKept, PreviewLocalsKept, CaptureLocalsKept, ClientLocalsKept DEF Next


\* The frames somebody has hold of, the heap included.
Kept == heap \cup mFramePool \cup QueuedFrames \cup HeldFrames \cup {captureQueu}

LEMMA KeptIsNotLost ==
  ASSUME PreviewAssumption, Kept \ {NoFrame} \subseteq Kept'
  PROVE  LostFrames' \subseteq LostFrames
BY DEF LostFrames, Kept, PreviewAssumption

LEMMA UnmovedLosesNone ==
  ASSUME UNCHANGED <<queues, pool, local>>
  PROVE  LostFrames' \subseteq LostFrames
BY DEF queues, pool, LostFrames, QueuedFrames, HeldFrames

\* Assigning to a local variable drops only the frame it held.
LEMMA AssignDropsOne ==
  ASSUME TypeOK, NEW s \in Workers \X Locals, NEW f, local' = [local EXCEPT ![s] = f]
  PROVE  /\ HeldFrames \ {local[s]} \subseteq HeldFrames'
         /\ f # NoFrame => f \in HeldFrames'
<1>1. local'[s] = f /\ \A r \in Workers \X Locals : r # s => local'[r] = local[r]
  BY DEF TypeOK
<1>2. ASSUME NEW g \in HeldFrames \ {local[s]}
      PROVE  g \in HeldFrames'
  <2>1. PICK r \in Workers \X Locals : g = local[r] /\ g # NoFrame
    BY DEF HeldFrames
  <2> QED BY <1>1, <2>1 DEF HeldFrames
<1>3. f # NoFrame => f \in HeldFrames'
  BY <1>1 DEF HeldFrames
<1> QED BY <1>2, <1>3

\* get_frame into a local variable that held nothing.
LEMMA GetIntoLosesNone ==
  ASSUME PreviewAssumption, TypeOK, NEW t \in Workers, NEW name \in Locals, NEW got, NEW failed,
         GetInto(t, name, got, failed), local[<<t, name>>] = NoFrame, UNCHANGED queues
  PROVE  LostFrames' \subseteq LostFrames
<1>1. PICK f \in Frames \cup {NoFrame} : GetFrame(f) /\ local' = [local EXCEPT ![<<t, name>>] = f]
  BY DEF GetInto
<1>2. heap \cup mFramePool \subseteq heap' \cup mFramePool' \cup {f}
  BY <1>1 DEF GetFrame
<1>3. HeldFrames \subseteq HeldFrames' /\ (f # NoFrame => f \in HeldFrames')
  BY <1>1, AssignDropsOne DEF HeldFrames
<1>4. QueuedFrames' = QueuedFrames /\ captureQueu' = captureQueu
  BY DEF queues, QueuedFrames
<1> QED BY <1>2, <1>3, <1>4, KeptIsNotLost DEF Kept

\* What is recycled is in the pool or in the heap afterwards.
LEMMA RecycleLosesNone ==
  ASSUME NEW fs, Recycle(fs)
  PROVE  heap \cup mFramePool \cup fs \subseteq heap' \cup mFramePool'
BY DEF Recycle

LEMMA RecycleLocalLosesNone ==
  ASSUME PreviewAssumption, TypeOK, NEW t \in Workers, NEW name \in Locals, RecycleLocal(t, name),
         UNCHANGED queues
  PROVE  LostFrames' \subseteq LostFrames
<1>1. heap \cup mFramePool \cup ({local[<<t, name>>]} \ {NoFrame}) \subseteq heap' \cup mFramePool'
  BY RecycleLosesNone DEF RecycleLocal
<1>2. HeldFrames \ {local[<<t, name>>]} \subseteq HeldFrames'
  BY AssignDropsOne DEF RecycleLocal
<1>3. QueuedFrames' = QueuedFrames /\ captureQueu' = captureQueu
  BY DEF queues, QueuedFrames
<1> QED BY <1>1, <1>2, <1>3, KeptIsNotLost DEF Kept

LEMMA ClearPreviewLosesNone ==
  ASSUME PreviewAssumption, NEW t, NEW label, ClearPreviewFrame(t, label),
         UNCHANGED <<captureQueu, local>>
  PROVE  LostFrames' \subseteq LostFrames
<1>1. heap \cup mFramePool \cup QueuedFrames \subseteq heap' \cup mFramePool'
  BY RecycleLosesNone DEF ClearPreviewFrame
<1> QED BY <1>1, KeptIsNotLost DEF Kept, HeldFrames

LEMMA ClearCaptureLosesNone ==
  ASSUME PreviewAssumption, NEW t, NEW label, ClearCaptureFrame(t, label),
         UNCHANGED <<previewFrames, local>>
  PROVE  LostFrames' \subseteq LostFrames
<1>1. heap \cup mFramePool \cup ({captureQueu} \ {NoFrame}) \subseteq heap' \cup mFramePool'
  BY RecycleLosesNone DEF ClearCaptureFrame
<1> QED BY <1>1, KeptIsNotLost DEF Kept, HeldFrames, QueuedFrames

LEMMA UvcLosesNone ==
  ASSUME PreviewAssumption, TypeInv, LocalsInv, UvcReceive \/ UvcReceiveLate \/ DeviceLost \/ UvcStep
  PROVE  LostFrames' \subseteq LostFrames
<1> USE DEF TypeInv
<1>1. CASE UvcReceive
  BY <1>1, GetIntoLosesNone DEF UvcReceive, OnlyFrames, LocalsInv, UvcLocals, Locals
<1>6. CASE UvcReceiveLate
  BY <1>6, GetIntoLosesNone DEF UvcReceiveLate, LocalsInv, UvcLocals, Locals
<1>7. CASE DeviceLost
  BY <1>7, UnmovedLosesNone DEF DeviceLost
<1>2. CASE UvcDuplicateFails
  BY <1>2, UnmovedLosesNone DEF UvcDuplicateFails, OnlyControl
<1>3. CASE UvcRecycle
  BY <1>3, RecycleLocalLosesNone DEF UvcRecycle, OnlyFrames, Locals
<1>4. CASE UvcAddPreviewFrame /\ ~(mIsRunning /\ QueueHasRoom)
  BY <1>4, UnmovedLosesNone DEF UvcAddPreviewFrame, queues
<1>5. CASE UvcAddPreviewFrame /\ mIsRunning /\ QueueHasRoom
  <2> DEFINE f == local[<<"uvc", "frame">>]
  <2>1. /\ previewFrames' = Append(previewFrames, f)
        /\ local' = [local EXCEPT ![<<"uvc", "frame">>] = NoFrame]
        /\ UNCHANGED <<captureQueu, pool>>
        /\ f \in Frames
    BY <1>5 DEF UvcAddPreviewFrame, QueuedByCallback
  <2>2. QueuedFrames \cup {f} \subseteq QueuedFrames'
    <3>1. /\ DOMAIN previewFrames' = 1..(Len(previewFrames) + 1)
          /\ DOMAIN previewFrames = 1..Len(previewFrames)
          /\ Len(previewFrames) \in Nat
          /\ previewFrames'[Len(previewFrames) + 1] = f
          /\ \A i \in DOMAIN previewFrames : previewFrames'[i] = previewFrames[i]
      BY <2>1 DEF TypeOK
    <3> QED BY <3>1 DEF QueuedFrames
  <2>3. HeldFrames \ {f} \subseteq HeldFrames'
    BY <2>1, AssignDropsOne DEF Locals
  <2> QED BY <2>1, <2>2, <2>3, KeptIsNotLost DEF Kept, pool
<1> QED BY <1>1, <1>2, <1>3, <1>4, <1>5, <1>6, <1>7 DEF UvcStep

\* addCaptureFrame forgets its frame when the preview has stopped; nothing else loses one.
LEMMA PreviewLosesOnlyItsOwn ==
  ASSUME PreviewAssumption, TypeInv, LocalsInv, PreviewStep
  PROVE  \/ LostFrames' \subseteq LostFrames
         \/ ~mIsRunning /\ \E f \in Frames : LostFrames' = LostFrames \cup {f}
<1> USE DEF TypeInv
<1>1. CASE \/ PreviewFails \/ PreviewStartStreaming \/ PreviewCreateCapture \/ PreviewLoop
           \/ PreviewTest \/ PreviewSleep \/ PreviewFinish \/ PreviewStopStreaming
  BY <1>1, UnmovedLosesNone DEF PreviewFails, PreviewStartStreaming, PreviewCreateCapture, PreviewLoop,
     PreviewTest, PreviewSleep, PreviewFinish, PreviewStopStreaming, OnlyControl
<1>2. CASE PreviewClear
  BY <1>2, ClearPreviewLosesNone DEF PreviewClear
<1>3. CASE PreviewTake
  <2>1. CASE UNCHANGED <<previewFrames, local>>
    BY <1>3, <2>1, UnmovedLosesNone DEF PreviewTake, queues
  <2>2. CASE ~UNCHANGED <<previewFrames, local>>
    <3> DEFINE f == Head(previewFrames)
    <3>1. PICK name \in {"spare", "frame"} :
            /\ local' = [local EXCEPT ![<<"preview", name>>] = f]
            /\ previewFrames # <<>> /\ previewFrames' = Tail(previewFrames)
            /\ UNCHANGED <<captureQueu, pool>>
      BY <1>3, <2>2 DEF PreviewTake
    <3>2. pc["preview"] \in {"previewTest", "previewWoken"}
      BY <1>3 DEF PreviewTake
    <3>3. local[<<"preview", name>>] = NoFrame
      BY <3>1, <3>2 DEF LocalsInv, PreviewLocals
    <3>4. /\ HeldFrames \subseteq HeldFrames'
          /\ f # NoFrame => f \in HeldFrames'
      BY <3>1, <3>3, AssignDropsOne DEF HeldFrames, Locals
    <3>5. QueuedFrames \subseteq QueuedFrames' \cup {f}
      <4>1. /\ DOMAIN previewFrames = 1..Len(previewFrames) /\ Len(previewFrames) \in Nat
            /\ DOMAIN previewFrames' = 1..(Len(previewFrames) - 1)
            /\ f = previewFrames[1]
            /\ \A i \in 1..(Len(previewFrames) - 1) : previewFrames'[i] = previewFrames[i + 1]
        BY <3>1 DEF TypeOK
      <4>2. ASSUME NEW i \in DOMAIN previewFrames
            PROVE  previewFrames[i] \in QueuedFrames' \cup {f}
        <5>1. CASE i = 1
          BY <4>1, <5>1
        <5>2. CASE i # 1
          <6>1. i - 1 \in DOMAIN previewFrames' /\ previewFrames'[i - 1] = previewFrames[i]
            BY <4>1, <5>2
          <6> QED BY <6>1 DEF QueuedFrames
        <5> QED BY <5>1, <5>2
      <4> QED BY <4>2 DEF QueuedFrames
    <3>6. Kept \ {NoFrame} \subseteq Kept'
      BY <3>1, <3>4, <3>5 DEF Kept, pool
    <3> QED BY <3>6, KeptIsNotLost
  <2> QED BY <2>1, <2>2
<1>4. CASE PreviewDecode
  BY <1>4, GetIntoLosesNone DEF PreviewDecode, OnlyFrames, LocalsInv, PreviewLocals, Locals
<1>5. CASE PreviewDecoded
  BY <1>5, RecycleLocalLosesNone DEF PreviewDecoded, OnlyFrames, Locals
<1>6. CASE PreviewUndecodable
  BY <1>6, RecycleLocalLosesNone DEF PreviewUndecodable, OnlyFrames, Locals
<1>7. CASE PreviewDraw /\ mPreviewWindow
  BY <1>7, GetIntoLosesNone DEF PreviewDraw, OnlyFrames, LocalsInv, PreviewLocals, Locals
<1>8. CASE PreviewDraw /\ ~mPreviewWindow
  BY <1>8, UnmovedLosesNone DEF PreviewDraw, OnlyFrames
<1>9. CASE PreviewDrawn
  BY <1>9, RecycleLocalLosesNone DEF PreviewDrawn, OnlyFrames, Locals
<1>10. CASE PreviewAddCapture
  <2> DEFINE f == local[<<"preview", "frame">>]
  <2>1. /\ local' = [local EXCEPT ![<<"preview", "frame">>] = NoFrame]
        /\ QueuedFrames' = QueuedFrames
    BY <1>10 DEF PreviewAddCapture, QueuedFrames
  <2>2. HeldFrames \ {f} \subseteq HeldFrames'
    BY <2>1, AssignDropsOne DEF Locals
  <2>3. CASE mIsRunning
    <3>1. /\ heap \cup mFramePool \cup ({captureQueu} \ {NoFrame}) \subseteq heap' \cup mFramePool'
          /\ captureQueu' = f
      BY <1>10, <2>3, RecycleLosesNone DEF PreviewAddCapture
    <3> QED BY <2>1, <2>2, <3>1, KeptIsNotLost DEF Kept
  <2>4. CASE ~mIsRunning
    <3>1. UNCHANGED <<heap, mFramePool, captureQueu>>
      BY <1>10, <2>4 DEF PreviewAddCapture, pool
    <3>2. Kept \ {f} \subseteq Kept'
      BY <2>1, <2>2, <3>1 DEF Kept
    <3>3. CASE f \in Kept' \cup {NoFrame}
      BY <3>2, <3>3, KeptIsNotLost
    <3>4. CASE f \notin Kept' \cup {NoFrame}
      <4>1. HeldFrames' \subseteq HeldFrames
        BY <2>1 DEF HeldFrames, TypeOK
      <4>2. Kept' = Kept \ {f}
        BY <2>1, <3>1, <3>2, <3>4, <4>1 DEF Kept
      <4>3. f \in Kept /\ f \in Frames
        BY <3>4 DEF Kept, HeldFrames, TypeOK, Locals
      <4>4. LostFrames' = LostFrames \cup {f}
        BY <4>2, <4>3 DEF LostFrames, Kept
      <4> QED BY <2>4, <4>3, <4>4
    <3> QED BY <3>3, <3>4
  <2> QED BY <2>3, <2>4
<1> QED BY <1>1, <1>2, <1>3, <1>4, <1>5, <1>6, <1>7, <1>8, <1>9, <1>10 DEF PreviewStep

LEMMA CaptureLosesNone ==
  ASSUME PreviewAssumption, TypeInv, LocalsInv, NEW t \in CaptureThreads, CaptureStep(t)
  PROVE  LostFrames' \subseteq LostFrames
<1> USE DEF TypeInv
<1>1. t \in Workers /\ CaptureLocals(t)
  BY DEF LocalsInv
<1>2. CASE CaptureStart(t)
  BY <1>2, ClearCaptureLosesNone DEF CaptureStart, CaptureUnchanged
<1>3. CASE \/ CaptureLoop(t) \/ CapturePick(t) \/ CaptureInner(t) \/ CaptureTest(t) \/ CaptureSleep(t)
           \/ SurfaceCopy(t) \/ SurfaceCopied(t) \/ CaptureCallback(t) \/ CaptureOnFrame(t)
           \/ CaptureReleaseWindow(t) \/ CaptureClearWindow(t) \/ CaptureBroadcast(t)
  BY <1>3, UnmovedLosesNone DEF CaptureLoop, CapturePick, CaptureInner, CaptureTest, CaptureSleep,
     SurfaceCopy, SurfaceCopied, CaptureCallback, CaptureOnFrame, CaptureReleaseWindow,
     CaptureClearWindow, CaptureBroadcast, CaptureUnchanged, OnlyControl, queues
<1>4. CASE CaptureTake(t)
  <2>1. CASE UNCHANGED <<captureQueu, local>>
    BY <1>4, <2>1, UnmovedLosesNone DEF CaptureTake, CaptureUnchanged, queues
  <2>2. CASE ~UNCHANGED <<captureQueu, local>>
    <3>1. /\ local' = [local EXCEPT ![<<t, "frame">>] = captureQueu]
          /\ UNCHANGED <<previewFrames, pool>>
      BY <1>4, <2>2 DEF CaptureTake, CaptureUnchanged
    <3>2. local[<<t, "frame">>] = NoFrame
      BY <1>1, <1>4 DEF CaptureTake, CaptureLocals
    <3>3. HeldFrames \cup ({captureQueu} \ {NoFrame}) \subseteq HeldFrames'
      BY <1>1, <3>1, <3>2, AssignDropsOne DEF HeldFrames, Locals
    <3> QED BY <3>1, <3>3, KeptIsNotLost DEF Kept, pool, QueuedFrames
  <2> QED BY <2>1, <2>2
<1>5. CASE SurfaceFrame(t)
  <2>1. CASE UNCHANGED <<pool, local>>
    BY <1>5, <2>1, UnmovedLosesNone DEF SurfaceFrame, OnlyFrames
  <2>2. CASE ~UNCHANGED <<pool, local>>
    BY <1>1, <1>5, <2>2, GetIntoLosesNone DEF SurfaceFrame, OnlyFrames, Locals
  <2> QED BY <2>1, <2>2
<1>6. CASE CaptureConvert(t)
  BY <1>1, <1>6, GetIntoLosesNone DEF CaptureConvert, OnlyFrames, Locals, CaptureLocals
<1>7. CASE CaptureConverted(t)
  <2> DEFINE f == local[<<t, "frame">>]
             g == local[<<t, "spare">>]
  <2>1. /\ heap \cup mFramePool \cup ({f} \ {NoFrame}) \subseteq heap' \cup mFramePool'
        /\ local' = [local EXCEPT ![<<t, "frame">>] = g, ![<<t, "spare">>] = NoFrame]
        /\ UNCHANGED queues
    BY <1>7, RecycleLosesNone DEF CaptureConverted, OnlyFrames
  <2>2. /\ local'[<<t, "frame">>] = g
        /\ \A s \in Workers \X Locals : s \notin {<<t, "frame">>, <<t, "spare">>} => local'[s] = local[s]
    BY <1>1, <2>1 DEF TypeOK, Locals
  <2>3. HeldFrames \ {f} \subseteq HeldFrames'
    BY <1>1, <2>2 DEF HeldFrames, Locals
  <2> QED BY <2>1, <2>3, KeptIsNotLost DEF Kept, queues, QueuedFrames
<1>8. CASE CaptureRecycle(t)
  BY <1>1, <1>8, RecycleLocalLosesNone DEF CaptureRecycle, OnlyFrames, Locals
<1>9. CASE LeaveSurface(t)
  BY <1>1, <1>9, RecycleLocalLosesNone DEF LeaveSurface, OnlyFrames, Locals
<1> QED BY <1>2, <1>3, <1>4, <1>5, <1>6, <1>7, <1>8, <1>9 DEF CaptureStep

LEMMA ClientLosesNone ==
  ASSUME PreviewAssumption, TypeInv, ClientCall \/ \E t \in Clients : ClientStep(t)
  PROVE  LostFrames' \subseteq LostFrames
<1>1. CASE StopClearPreview
  BY <1>1, ClearPreviewLosesNone DEF StopClearPreview
<1>2. CASE StopClearCapture
  BY <1>2, ClearCaptureLosesNone DEF StopClearCapture
<1>3. CASE ~(StopClearPreview \/ StopClearCapture)
  BY <1>3, UnmovedLosesNone DEF ClientCall, SetPreviewDisplay, SetFrameCallback, StartPreview,
     StopPreview, SetCaptureDisplay, SetterEnter, ClientStep, SetterLook, SetterWait, SetterAssign, StartCreate,
     StartFails, StopFlag, StopSignalPreview, StopSignalCapture, StopJoinCapture, StopJoinPreview,
     StopRelease, ClientUnchanged, OnlyControl
<1> QED BY <1>1, <1>2, <1>3

\* No interleaving makes the process lose a frame while the preview runs, and a preview that stops
\* loses at most the frame its thread was drawing.
THEOREM FramesAreLostOnlyByStopping == PreviewAssumption /\ Spec => FramesLostOnlyWhenStopping
<1> SUFFICES ASSUME PreviewAssumption PROVE Spec => FramesLostOnlyWhenStopping
  OBVIOUS
<1> DEFINE LosesLittle == \/ LostFrames' \subseteq LostFrames
                          \/ ~mIsRunning /\ \E f \in Frames : LostFrames' = LostFrames \cup {f}
<1>1. Init => TypeInv /\ QuietInv /\ LocalsInv
  BY InitTypeInv DEF Init, QuietInv, StreamInv, StopInv, SaysStopped, Joining, Clearing, LocalsInv,
     UvcLocals, PreviewLocals, CaptureLocals, Locals
<1>2. TypeInv /\ QuietInv /\ LocalsInv /\ [Next]_vars => (TypeInv /\ QuietInv /\ LocalsInv)'
  BY NextTyped, NextQuiet, NextLocals
<1>3. TypeInv /\ QuietInv /\ LocalsInv /\ [Next]_vars => [LosesLittle]_vars
  <2> SUFFICES ASSUME TypeInv, LocalsInv, Next
               PROVE  LosesLittle
    OBVIOUS
  <2>1. CASE SpuriousWakeup
    BY <2>1, UnmovedLosesNone DEF SpuriousWakeup, OnlyControl
  <2> QED BY <2>1, UvcLosesNone, PreviewLosesOnlyItsOwn, CaptureLosesNone, ClientLosesNone DEF Next
<1> QED BY <1>1, <1>2, <1>3, PTL DEF Spec, FramesLostOnlyWhenStopping
-----------------------------------------------------------------------------
(* No thread sleeps on a frame that is there. *)

\* waitPreviewFrame sleeps only on an empty queue, and every capture thread in waitCaptureFrame only
\* while there is no frame to take.
NoFrameIsSleptOn ==
  /\ pc["preview"] \in {"previewSleepy", "previewSleep"} => previewFrames = <<>>
  /\ \A t \in CaptureThreads : pc[t] \in {"captureSleepy", "captureSleep"} => captureQueu = NoFrame

Sleeps == {"previewSleepy", "previewSleep", "captureSleepy", "captureSleep"}

\* A step after which nobody sleeps who did not, and which puts no frame into a queue.
LEMMA NothingToWakeFor ==
  ASSUME NoFrameIsSleptOn,
         \A u \in Threads : pc'[u] \in Sleeps => pc[u] \in Sleeps /\ pc'[u] = pc[u],
         previewFrames' \in {previewFrames, <<>>} \/ pc'["preview"] \notin {"previewSleepy", "previewSleep"},
         captureQueu' \in {captureQueu, NoFrame}
  PROVE  NoFrameIsSleptOn'
BY DEF NoFrameIsSleptOn, Sleeps

\* A step of thread t, waking others or not, that does not put t to sleep puts nobody to sleep.
LEMMA NobodyElseSleeps ==
  ASSUME PreviewAssumption, TypeOK, NEW t \in Threads, NEW label, label \notin Sleeps,
         Goto(t, label) \/ BroadcastCapture(t, label) \/ SignalCapture(t, label) \/ SignalPreview(t, label)
  PROVE  \A u \in Threads : pc'[u] \in Sleeps => pc[u] \in Sleeps /\ pc'[u] = pc[u]
<1>1. \A u \in Threads : Awake(u) \notin Sleeps /\ "previewWoken" \notin Sleeps
  BY DEF Awake, Sleeps
<1>2. pc'[t] \notin Sleeps
  BY <1>1, WakesOnlySleepers
<1>3. \A u \in Threads \ {t} : pc'[u] = pc[u] \/ pc'[u] \notin Sleeps
  BY <1>1, WakesOnlySleepers
<1> QED BY <1>2, <1>3

\* addPreviewFrame signals the preview thread whenever it queues a frame, and cannot come between
\* its test of the queue and its sleep.
LEMMA UvcWakes ==
  ASSUME PreviewAssumption, TypeOK, NoFrameIsSleptOn, UvcReceive \/ UvcReceiveLate \/ DeviceLost \/ UvcStep
  PROVE  NoFrameIsSleptOn'
<1>1. UNCHANGED captureQueu
  BY DEF UvcReceive, UvcReceiveLate, DeviceLost, UvcStep, UvcAddPreviewFrame, UvcDuplicateFails, UvcRecycle, OnlyControl, OnlyFrames, queues
<1>3. \A u \in Threads : pc'[u] \in Sleeps => pc[u] \in Sleeps /\ pc'[u] = pc[u]
  <2>1. CASE DeviceLost
    BY <2>1 DEF DeviceLost
  <2>2. CASE ~DeviceLost
    <3>1. \E label : label \notin Sleeps /\ (Goto("uvc", label) \/ SignalPreview("uvc", label))
      BY <2>2 DEF UvcReceive, UvcReceiveLate, GetInto, UvcStep, UvcAddPreviewFrame, UvcDuplicateFails,
         UvcRecycle, Step, Sleeps
    <3> QED BY <3>1, NobodyElseSleeps
  <2> QED BY <2>1, <2>2
<1>4. UNCHANGED previewFrames \/ pc'["preview"] \notin {"previewSleepy", "previewSleep"}
  <2>1. CASE UvcAddPreviewFrame
    <3>1. CASE mIsRunning /\ QueueHasRoom
      <4>1. SignalPreview("uvc", "idle") /\ pc["preview"] # "previewSleepy"
        BY <2>1, <3>1 DEF UvcAddPreviewFrame, PreviewMutexFree
      <4> QED BY <4>1 DEF SignalPreview
    <3> QED BY <2>1, <3>1 DEF UvcAddPreviewFrame
  <2> QED BY <2>1 DEF UvcReceive, UvcReceiveLate, DeviceLost, UvcStep, UvcDuplicateFails, UvcRecycle, OnlyControl, OnlyFrames, queues
<1> QED BY <1>1, <1>3, <1>4, NothingToWakeFor

\* The preview thread goes to sleep only when it finds the queue empty, and its addCaptureFrame wakes
\* every capture thread that sleeps, while none is between its test and its sleep.
LEMMA PreviewWakes ==
  ASSUME PreviewAssumption, TypeOK, NoFrameIsSleptOn, PreviewStep
  PROVE  NoFrameIsSleptOn'
<1>1. "preview" \in Threads /\ CaptureThreads \subseteq Threads /\ "preview" \notin CaptureThreads
  BY DEF PreviewAssumption
<1>2. CASE PreviewTest \/ PreviewSleep
  <2>1. UNCHANGED <<previewFrames, captureQueu>> /\ previewFrames = <<>>
    BY <1>2 DEF PreviewTest, PreviewSleep, Step, OnlyControl, queues, NoFrameIsSleptOn
  <2>2. \A t \in CaptureThreads : pc'[t] = pc[t]
    BY <1>1, <1>2 DEF PreviewTest, PreviewSleep, Step, Goto, TypeOK
  <2> QED BY <2>1, <2>2 DEF NoFrameIsSleptOn
<1>3. CASE PreviewAddCapture /\ mIsRunning
  <2>1. UNCHANGED previewFrames /\ BroadcastCapture("preview", "previewLoop") /\ CaptureMutexFree
    BY <1>3 DEF PreviewAddCapture
  <2>2. pc'["preview"] = "previewLoop"
    BY <1>1, <2>1 DEF BroadcastCapture
  <2>3. ASSUME NEW t \in CaptureThreads
        PROVE  pc'[t] \notin {"captureSleepy", "captureSleep"}
    <3>1. pc[t] # "captureSleepy"
      BY <2>1 DEF CaptureMutexFree
    <3>2. pc'[t] = IF t \in CaptureSleepers THEN Awake(t) ELSE pc[t]
      BY <1>1, <2>1 DEF BroadcastCapture
    <3>3. pc[t] = "captureSleep" => t \in CaptureSleepers
      BY DEF CaptureSleepers
    <3> QED BY <3>1, <3>2, <3>3 DEF Awake
  <2> QED BY <2>2, <2>3 DEF NoFrameIsSleptOn
<1>4. CASE PreviewCreateCapture
  <2>1. UNCHANGED <<previewFrames, captureQueu>>
    BY <1>4 DEF PreviewCreateCapture, queues
  <2>2. \A u \in Threads : pc'[u] \in Sleeps => pc[u] \in Sleeps /\ pc'[u] = pc[u]
    BY <1>1, <1>4 DEF PreviewCreateCapture, Goto, TypeOK, Sleeps
  <2> QED BY <2>1, <2>2, NothingToWakeFor
<1>5. CASE ~(PreviewTest \/ PreviewSleep \/ PreviewCreateCapture \/ (PreviewAddCapture /\ mIsRunning))
  <2>1. /\ \E label : /\ label \notin Sleeps
                      /\ Goto("preview", label) \/ SignalCapture("preview", label)
        /\ UNCHANGED captureQueu
    <3>1. CASE PreviewFails \/ PreviewStartStreaming \/ PreviewClear \/ PreviewLoop \/ PreviewFinish \/ PreviewStopStreaming
      BY <3>1 DEF PreviewFails, PreviewStartStreaming, PreviewClear, ClearPreviewFrame, PreviewLoop,
         PreviewFinish, PreviewStopStreaming, Step, OnlyControl, queues, Sleeps
    <3>2. CASE PreviewTake \/ PreviewDecode \/ PreviewDecoded \/ PreviewUndecodable
      BY <3>2 DEF PreviewTake, PreviewDecode, GetInto, PreviewDecoded, PreviewUndecodable, Step,
         OnlyFrames, queues, Sleeps
    <3>3. CASE PreviewDraw \/ PreviewDrawn \/ (PreviewAddCapture /\ ~mIsRunning)
      BY <3>3 DEF PreviewDraw, GetInto, PreviewDrawn, PreviewAddCapture, Step, OnlyFrames, queues, Sleeps
    <3> QED BY <1>5, <3>1, <3>2, <3>3 DEF PreviewStep
  <2>2. \A u \in Threads : pc'[u] \in Sleeps => pc[u] \in Sleeps /\ pc'[u] = pc[u]
    BY <1>1, <2>1, NobodyElseSleeps
  <2>3. pc'["preview"] \notin Sleeps
    <3>1. "preview" \notin CaptureSleepers
      BY <1>1 DEF CaptureSleepers
    <3> QED BY <1>1, <2>1, <3>1, WakesOnlySleepers
  <2> QED BY <2>1, <2>2, <2>3, NothingToWakeFor DEF Sleeps
<1> QED BY <1>2, <1>3, <1>4, <1>5

\* A capture thread goes to sleep only when there is no frame to take, and none ever puts one there.
LEMMA CaptureWakes ==
  ASSUME PreviewAssumption, TypeOK, NoFrameIsSleptOn, NEW t \in CaptureThreads, CaptureStep(t)
  PROVE  NoFrameIsSleptOn'
<1>1. t \in Threads /\ t # "preview" /\ CaptureThreads \subseteq Threads /\ "preview" \in Threads
  BY DEF PreviewAssumption
<1>2. CASE CaptureTest(t) \/ CaptureSleep(t)
  <2>1. UNCHANGED <<previewFrames, captureQueu>> /\ captureQueu = NoFrame
    BY <1>2 DEF CaptureTest, CaptureSleep, Step, OnlyControl, queues, NoFrameIsSleptOn
  <2>2. pc'["preview"] = pc["preview"]
    BY <1>1, <1>2 DEF CaptureTest, CaptureSleep, Step, Goto, TypeOK
  <2> QED BY <2>1, <2>2 DEF NoFrameIsSleptOn
<1>3. CASE ~(CaptureTest(t) \/ CaptureSleep(t))
  <2>1. /\ UNCHANGED previewFrames
        /\ captureQueu' \in {captureQueu, NoFrame}
        /\ \E label : label \notin Sleeps /\ (Goto(t, label) \/ BroadcastCapture(t, label))
    <3>1. CASE \/ CaptureStart(t) \/ CaptureLoop(t) \/ CapturePick(t) \/ CaptureTake(t) \/ SurfaceCopy(t)
               \/ SurfaceCopied(t) \/ CaptureReleaseWindow(t) \/ CaptureClearWindow(t)
      BY <3>1 DEF CaptureStart, ClearCaptureFrame, CaptureLoop, CapturePick, CaptureTake, SurfaceCopy,
         SurfaceCopied, CaptureReleaseWindow, CaptureClearWindow, Step, CaptureUnchanged, Sleeps
    <3>2. CASE CaptureInner(t) \/ CaptureCallback(t) \/ CaptureOnFrame(t) \/ CaptureBroadcast(t)
      BY <3>2 DEF CaptureInner, CaptureCallback, CaptureOnFrame, CaptureBroadcast, Step, OnlyControl,
         flags, queues, Sleeps
    <3>3. CASE \/ SurfaceFrame(t) \/ CaptureConvert(t) \/ CaptureConverted(t) \/ CaptureRecycle(t)
               \/ LeaveSurface(t)
      BY <3>3 DEF SurfaceFrame, GetInto, CaptureConvert, CaptureConverted, CaptureRecycle, LeaveSurface,
         Step, OnlyFrames, flags, queues, Sleeps
    <3> QED BY <1>3, <3>1, <3>2, <3>3 DEF CaptureStep
  <2>2. \A u \in Threads : pc'[u] \in Sleeps => pc[u] \in Sleeps /\ pc'[u] = pc[u]
    BY <1>1, <2>1, NobodyElseSleeps
  <2> QED BY <2>1, <2>2, NothingToWakeFor
<1> QED BY <1>2, <1>3

\* The clients put no frame into a queue.
LEMMA ClientWakes ==
  ASSUME PreviewAssumption, TypeOK, NoFrameIsSleptOn, ClientCall \/ \E t \in Clients : ClientStep(t)
  PROVE  NoFrameIsSleptOn'
<1>1. /\ previewFrames' \in {previewFrames, <<>>}
      /\ captureQueu' \in {captureQueu, NoFrame}
  BY DEF ClientCall, SetPreviewDisplay, SetFrameCallback, StartPreview, StopPreview, SetCaptureDisplay,
     SetterEnter, ClientStep, SetterLook, SetterWait, SetterAssign, StartCreate, StartFails, StopFlag,
     StopSignalPreview, StopSignalCapture, StopJoinCapture, StopJoinPreview, StopClearPreview,
     ClearPreviewFrame, StopClearCapture, ClearCaptureFrame, StopRelease, ClientUnchanged, OnlyControl, queues
<1>2. \A u \in Threads : pc'[u] \in Sleeps => pc[u] \in Sleeps /\ pc'[u] = pc[u]
  <2>1. CASE (\E set \in BOOLEAN : SetPreviewDisplay(set)) \/ StartCreate \/ StopJoinCapture \/ StopJoinPreview
    BY <2>1 DEF SetPreviewDisplay, StartCreate, StopJoinCapture, StopJoinPreview, Goto, TypeOK, Sleeps
  <2>2. CASE ~((\E set \in BOOLEAN : SetPreviewDisplay(set)) \/ StartCreate \/ StopJoinCapture \/ StopJoinPreview)
    <3>1. \E t \in Clients : \E label :
            /\ label \notin Sleeps
            /\ Goto(t, label) \/ SignalCapture(t, label) \/ SignalPreview(t, label)
      <4>1. CASE ClientCall
        BY <2>2, <4>1 DEF ClientCall, SetFrameCallback, StartPreview, StopPreview, SetCaptureDisplay,
           SetterEnter, Sleeps
      <4>2. ASSUME NEW t \in Clients, SetterLook(t) \/ SetterWait(t) \/ SetterAssign(t)
            PROVE  \E label : label \notin Sleeps /\ (Goto(t, label) \/ SignalCapture(t, label))
        BY <4>2 DEF SetterLook, Step, SetterWait, SetterAssign, Sleeps
      <4>3. CASE StartFails \/ StopFlag \/ StopSignalPreview \/ StopSignalCapture
        BY <4>3 DEF StartFails, StopFlag, StopSignalPreview, StopSignalCapture, Step, Sleeps
      <4>4. CASE StopClearPreview \/ StopClearCapture \/ StopRelease
        BY <4>4 DEF StopClearPreview, ClearPreviewFrame, StopClearCapture, ClearCaptureFrame,
           StopRelease, Step, Sleeps
      <4> QED BY <2>2, <4>1, <4>2, <4>3, <4>4 DEF ClientStep
    <3> QED BY <3>1, NobodyElseSleeps
  <2> QED BY <2>1, <2>2
<1> QED BY <1>1, <1>2, NothingToWakeFor

LEMMA NextWakes ==
  ASSUME PreviewAssumption, TypeOK, NoFrameIsSleptOn, [Next]_vars
  PROVE  NoFrameIsSleptOn'
<1>1. CASE UNCHANGED vars
  BY <1>1 DEF vars, queues, NoFrameIsSleptOn
<1>2. CASE SpuriousWakeup
  <2>1. PICK t \in Threads : Goto(t, Awake(t))
    BY <1>2 DEF SpuriousWakeup
  <2>2. Awake(t) \notin Sleeps
    BY DEF Awake, Sleeps
  <2>3. UNCHANGED <<previewFrames, captureQueu>>
    BY <1>2 DEF SpuriousWakeup, OnlyControl, queues
  <2> QED BY <2>1, <2>2, <2>3, NobodyElseSleeps, NothingToWakeFor
<1> QED BY <1>1, <1>2, UvcWakes, PreviewWakes, CaptureWakes, ClientWakes DEF Next

\* However the callback, the preview thread, the capture threads, stopPreview and the setters
\* interleave, and whether or not the condition variables wake for no reason: no frame lies in
\* previewFrames or captureQueu with the thread that takes it asleep.  The test and the sleep of
\* waitPreviewFrame and waitCaptureFrame lose no signal that a frame was queued.  (The signals of
\* stopPreview and of the end of do_capture are sent without the mutex: they can be lost.)
THEOREM FramesWakeTheirThread == PreviewAssumption /\ Spec => []NoFrameIsSleptOn
<1> SUFFICES ASSUME PreviewAssumption PROVE Spec => []NoFrameIsSleptOn
  OBVIOUS
<1>1. Init => TypeInv /\ NoFrameIsSleptOn
  BY InitTypeInv DEF Init, NoFrameIsSleptOn
<1>2. TypeInv /\ NoFrameIsSleptOn /\ [Next]_vars => (TypeInv /\ NoFrameIsSleptOn)'
  BY NextTyped, NextWakes DEF TypeInv
<1> QED BY <1>1, <1>2, PTL DEF Spec
=============================================================================
