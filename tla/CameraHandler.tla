---------------------------- MODULE CameraHandler ----------------------------
(***************************************************************************)
(* AbstractUVCCameraHandler: one camera, its thread and its callers.       *)
(*                                                                         *)
(* Threads.  Looper is CameraThread, which handles one message at a time.  *)
(* Clients call the handler; their calls send messages, and stopPreview    *)
(* also waits.  Thread r is the video encoder's of recording r, which      *)
(* calls back when it has stopped and may then run handleRelease itself.   *)
(* The view's render thread takes the encoders the view is given, in the   *)
(* order of their messages, and feeds the last it took.                    *)
(*                                                                         *)
(* A synchronized block of mSync is one action.  What a recording does in  *)
(* between is in Recording; here it starts, is asked to stop and stops.    *)
(***************************************************************************)
EXTENDS Integers, Sequences, FiniteSets

CONSTANTS
  Clients,
  NoClient,
  EncoderTypes,   \* what mEncoderType may be: 1 MediaVideoEncoder, 2 MediaVideoBufferEncoder
  Collector,      \* TRUE when an encoder may find its MediaMuxerWrapper collected
  MaxCalls,       \* bound: calls of the clients
  MaxRecordings   \* bound: recordings

ASSUME HandlerAssumption ==
  /\ NoClient \notin Clients /\ Clients \cap Nat = {}
  /\ EncoderTypes \subseteq {1, 2} /\ Collector \in BOOLEAN
  /\ MaxCalls \in Nat /\ MaxRecordings \in Nat

Recordings == 1..MaxRecordings
Cameras    == 1..MaxCalls
Looper     == 0
Workers    == {Looper} \cup Recordings
Threads    == Clients \cup Workers
None       == 0   \* null: no camera, no recording
Crashed    == -1  \* of the view: its render thread has ended with an exception

VARIABLES
  mEncoderType,
  messages,        \* the looper's queue: [what, surface]
  delayed,         \* MSG_MEDIA_UPDATE messages that are not due yet
  mUVCCamera,      \* the open camera
  opened,          \* cameras opened so far
  shown,           \* the surface each camera's native preview draws on
  alive,           \* clients that have not released their surface
  mIsPreviewing, mIsRecording, mReleased,
  mMuxer,          \* the recording in progress
  posted,          \* the view's MSG_SET_ENCODER messages
  viewEncoder,     \* the recording the view hands its frames to
  encoder,         \* state of the video encoder of each recording
  recordings,      \* recordings created so far
  destroyed,       \* the Activity is destroyed
  pc,
  after,           \* what a worker does when its camera is closed, or its recording stopped
  muxer, camera,   \* locals of handleStopRecording and handleClose
  surface,         \* local of handleStartPreview
  op,              \* the call a client is in
  calls

queue   == <<messages, delayed>>
native  == <<mUVCCamera, opened, shown>>
preview == <<native, mIsPreviewing>>
view    == <<posted, viewEncoder>>
record  == <<mIsRecording, mMuxer, view, encoder, recordings>>
locals  == <<after, muxer, camera, surface>>
outside == <<alive, destroyed, op, calls>>
vars == <<mEncoderType, queue, preview, record, mReleased, pc, locals, outside>>

-----------------------------------------------------------------------------
Goto(t, label) == pc' = [pc EXCEPT ![t] = label]
Step(t, from, to) == pc[t] = from /\ Goto(t, to)

\* The queue after some messages are sent: a looper that has quit takes none.
Sent(q, whats, s) ==
  IF pc[Looper] \in {"exit", "ended", "crashed"} THEN q
  ELSE q \o [i \in DOMAIN whats |-> [what |-> whats[i], surface |-> s]]

Send(whats, s) == messages' = Sent(messages, whats, s)

\* notifyAll on mSync: pc after thread t, going to label, wakes the waiting clients.
Notify(t, label) ==
  pc' = [u \in Threads |-> IF u = t THEN label ELSE IF pc[u] = "waiting" THEN "stopped" ELSE pc[u]]

Init ==
  /\ mEncoderType \in EncoderTypes
  /\ messages = <<>> /\ delayed = 0
  /\ mUVCCamera = None /\ opened = 0 /\ shown = [k \in Cameras |-> NoClient]
  /\ alive = Clients /\ destroyed = FALSE
  /\ mIsPreviewing = FALSE /\ mIsRecording = FALSE /\ mReleased = FALSE
  /\ mMuxer = None /\ posted = <<>> /\ viewEncoder = None
  /\ encoder = [r \in Recordings |-> "none"] /\ recordings = 0
  /\ pc = [t \in Threads |-> "idle"]
  /\ after = [t \in Workers |-> "idle"]
  /\ muxer = [t \in Workers |-> None] /\ camera = [t \in Workers |-> None]
  /\ surface = NoClient
  /\ op = [c \in Clients |-> "none"] /\ calls = 0

-----------------------------------------------------------------------------
(* The view. *)

\* What the view feeds when it has taken the messages that are queued.
Told == IF posted = <<>> THEN viewEncoder ELSE posted[Len(posted)]

\* setVideoEncoder posts a message.  One that repeats the last is left out: to
\* set null twice is to set it once, and no encoder is posted twice.
SetVideoEncoder(e) ==
  /\ posted' = IF Told \in {e, Crashed} THEN posted ELSE Append(posted, e)
  /\ UNCHANGED viewEncoder

ViewUnchanged ==
  UNCHANGED <<mEncoderType, queue, preview, mIsRecording, mMuxer, encoder, recordings, mReleased, pc, locals, outside>>

\* The render thread takes a message.
SetEncoder ==
  /\ posted # <<>> /\ (Head(posted) # None => encoder[Head(posted)] \notin {"done", "lost"})
  /\ viewEncoder' = Head(posted) /\ posted' = Tail(posted)
  /\ ViewUnchanged

\* A released MediaVideoEncoder has no RenderHandler to give the view's texture to.
SetEncoderThrows ==
  /\ posted # <<>> /\ Head(posted) # None
  /\ encoder[Head(posted)] \in {"stopping", "done", "lost"}
  /\ viewEncoder' = Crashed /\ posted' = <<>>
  /\ ViewUnchanged

-----------------------------------------------------------------------------
(* The clients. *)

ClientUnchanged == UNCHANGED <<mEncoderType, delayed, preview, record, locals, destroyed>>

Call(c) == pc[c] = "idle" /\ calls < MaxCalls /\ calls' = calls + 1

\* open, startPreview, captureStill and startRecording check that the handler
\* is not released and send a message; stopRecording only sends.
CallSend(c, what) ==
  /\ Call(c)
  /\ what # "captureStop" => ~mReleased
  /\ what = "previewStart" => c \in alive
  /\ Send(<<what>>, c)
  /\ ClientUnchanged /\ UNCHANGED <<mReleased, pc, op, alive>>

\* removeMessages: the queue q without the messages what.
RemoveMessages(q, what) ==
  LET kept[n \in 0..Len(q)] ==
        IF n = 0 THEN <<>>
        ELSE IF q[n].what = what THEN kept[n - 1] ELSE Append(kept[n - 1], q[n])
  IN  kept[Len(q)]

\* stopPreview forgets a start that is not being handled, and stops recording.
EnterStop(c) == messages' = Sent(RemoveMessages(messages, "previewStart"), <<"captureStop">>, c)

StopPreview(c) ==
  /\ Call(c) /\ Goto(c, "stopTest")
  /\ op' = [op EXCEPT ![c] = "stopPreview"]
  /\ EnterStop(c)
  /\ ClientUnchanged /\ UNCHANGED <<mReleased, alive>>

Close(c) ==
  /\ Call(c) /\ Goto(c, "closeTest")
  /\ op' = [op EXCEPT ![c] = "close"]
  /\ ClientUnchanged /\ UNCHANGED <<messages, mReleased, alive>>

Release(c) ==
  /\ Call(c) /\ Goto(c, "closeTest")
  /\ op' = [op EXCEPT ![c] = "release"]
  /\ mReleased' = TRUE
  /\ ClientUnchanged /\ UNCHANGED <<messages, alive>>

\* A camera that is not open yet, or not any more, is not closed.
CloseTest(c) ==
  /\ pc[c] = "closeTest"
  /\ IF mUVCCamera # None
     THEN EnterStop(c) /\ Goto(c, "stopTest")
     ELSE Send(IF op[c] = "release" THEN <<"release">> ELSE <<>>, c) /\ Goto(c, "idle")
  /\ ClientUnchanged /\ UNCHANGED <<mReleased, op, calls, alive>>

IsPreviewing == mUVCCamera # None /\ mIsPreviewing

StopTest(c) ==
  /\ Step(c, "stopTest", IF IsPreviewing THEN "stopSend" ELSE "stopped")
  /\ ClientUnchanged /\ UNCHANGED <<messages, mReleased, op, calls, alive>>

StopWait(c) ==
  /\ Step(c, "stopSend", "waiting")
  /\ Send(<<"previewStop">>, c)
  /\ ClientUnchanged /\ UNCHANGED <<mReleased, op, calls, alive>>

\* stopPreview has returned: the rest of close and release.  The caller may
\* now release the surface it gave to startPreview.
Stopped(c) ==
  /\ Step(c, "stopped", "idle")
  /\ Send(IF op[c] = "stopPreview" THEN <<>>
          ELSE IF op[c] = "close" THEN <<"close">> ELSE <<"close", "release">>, c)
  /\ alive' \in {alive, alive \ {c}}
  /\ ClientUnchanged /\ UNCHANGED <<mReleased, op, calls>>

DestroyActivity ==
  /\ ~destroyed /\ destroyed' = TRUE
  /\ UNCHANGED <<mEncoderType, queue, preview, record, mReleased, pc, locals, alive, op, calls>>

-----------------------------------------------------------------------------
(* The camera thread takes a message. *)

LooperUnchanged == UNCHANGED <<mEncoderType, outside>>

\* A worker enters handleStopRecording, on its own or as the first part of
\* handleClose, and goes on as then says.
EnterStopRecording(t, then) ==
  /\ Goto(t, "stopRecording")
  /\ after' = [after EXCEPT ![t] = then]

ToRelease == mReleased \/ destroyed

TakeMessage ==
  /\ pc[Looper] = "idle" /\ messages # <<>>
  /\ messages' = Tail(messages)
  /\ LET m == Head(messages) IN
     /\ surface' = m.surface
     /\ \/ /\ m.what \in {"previewStart", "previewStop", "captureStart", "captureStill"}
           /\ Goto(Looper, m.what)
           /\ UNCHANGED after
        \/ /\ m.what \in {"open", "close", "captureStop", "release"}
           /\ EnterStopRecording(Looper, m.what)
        \/ m.what = "mediaUpdate" /\ ToRelease /\ EnterStopRecording(Looper, "release")
        \/ m.what = "mediaUpdate" /\ ~ToRelease /\ UNCHANGED <<pc, after>>
  /\ LooperUnchanged /\ UNCHANGED <<delayed, preview, record, mReleased, muxer, camera>>

Deliver ==
  /\ delayed > 0 /\ delayed' = delayed - 1
  /\ Send(<<"mediaUpdate">>, NoClient)
  /\ LooperUnchanged /\ UNCHANGED <<preview, record, mReleased, pc, locals>>

StillUnchanged == LooperUnchanged /\ UNCHANGED <<delayed, preview, record, mReleased, locals>>

\* handleCaptureStill waits, for as long as it takes, for the UI thread to draw
\* a frame.  The activity and its view may be collected once it is destroyed.
CaptureStill ==
  /\ \/ Step(Looper, "captureStill", "stillWait")
     \/ destroyed /\ Step(Looper, "captureStill", "idle")
  /\ StillUnchanged /\ UNCHANGED messages

\* onSurfaceTextureUpdated.
StillDrawn ==
  /\ Step(Looper, "stillWait", "saveStill")
  /\ StillUnchanged /\ UNCHANGED messages

\* The file may not be written.
SaveStill ==
  /\ Step(Looper, "saveStill", "idle")
  /\ \E whats \in {<<>>, <<"mediaUpdate">>} : Send(whats, NoClient)
  /\ StillUnchanged

-----------------------------------------------------------------------------
(* handleStartPreview and handleStopPreview. *)

PreviewUnchanged == LooperUnchanged /\ UNCHANGED <<queue, record, mReleased, locals>>

\* Without a camera, during a preview, or when no preview size is accepted,
\* nothing starts.
StartPreviewTest ==
  /\ \/ mUVCCamera # None /\ ~mIsPreviewing /\ Step(Looper, "previewStart", "startNative")
     \/ Step(Looper, "previewStart", "idle")
  /\ PreviewUnchanged /\ UNCHANGED preview

StartNative ==
  /\ pc[Looper] = "startNative"
  /\ IF mUVCCamera = None THEN Goto(Looper, "crashed") /\ UNCHANGED shown
     ELSE shown' = [shown EXCEPT ![mUVCCamera] = surface] /\ Goto(Looper, "startParams")
  /\ PreviewUnchanged /\ UNCHANGED <<mUVCCamera, opened, mIsPreviewing>>

\* mUVCCamera.updateCameraParams.
StartParams ==
  /\ Step(Looper, "startParams", IF mUVCCamera = None THEN "crashed" ELSE "startFlag")
  /\ PreviewUnchanged /\ UNCHANGED preview

StartFlag ==
  /\ Step(Looper, "startFlag", "idle")
  /\ mIsPreviewing' = TRUE
  /\ PreviewUnchanged /\ UNCHANGED native

StopNative ==
  /\ Step(Looper, "previewStop", IF mIsPreviewing THEN "stopFlag" ELSE "idle")
  /\ shown' = IF mIsPreviewing /\ mUVCCamera # None
              THEN [shown EXCEPT ![mUVCCamera] = NoClient] ELSE shown
  /\ PreviewUnchanged /\ UNCHANGED <<mUVCCamera, opened, mIsPreviewing>>

(* Mutant: the waiting clients are not notified. *)
StopFlagSilently ==
  /\ Step(Looper, "stopFlag", "idle")
  /\ mIsPreviewing' = FALSE
  /\ PreviewUnchanged /\ UNCHANGED native

StopFlag ==
  /\ pc[Looper] = "stopFlag"
  /\ mIsPreviewing' = FALSE
  /\ Notify(Looper, "idle")
  /\ PreviewUnchanged /\ UNCHANGED native

-----------------------------------------------------------------------------
(* handleStartRecording. *)

RecordUnchanged == LooperUnchanged /\ UNCHANGED <<queue, preview, mReleased, locals>>

(* Mutant: a recording in progress is replaced. *)
MayRecordAgain == mUVCCamera # None

MayRecord == mUVCCamera # None /\ mMuxer = None

StartRecordingTest ==
  /\ pc[Looper] = "captureStart"
  /\ IF ~MayRecord
     THEN Goto(Looper, "idle") /\ UNCHANGED <<encoder, recordings>>
     ELSE /\ recordings < MaxRecordings
          /\ recordings' = recordings + 1
          /\ encoder' = [encoder EXCEPT ![recordings'] = "created"]
          /\ Goto(Looper, "prepare")
  /\ RecordUnchanged /\ UNCHANGED <<mIsRecording, mMuxer, view>>

\* muxer.prepare: the video encoder calls onPrepared.
Prepare ==
  /\ Step(Looper, "prepare", "startRecording")
  /\ mIsRecording' = TRUE
  /\ IF mEncoderType = 1 THEN SetVideoEncoder(recordings) ELSE UNCHANGED view
  /\ RecordUnchanged /\ UNCHANGED <<mMuxer, encoder, recordings>>

\* It throws instead, or after that: the recording is forgotten.
PrepareThrows ==
  /\ \E label \in {"prepare", "startRecording"} : Step(Looper, label, "idle")
  /\ encoder' = [encoder EXCEPT ![recordings] = "abandoned"]
  /\ RecordUnchanged /\ UNCHANGED <<mIsRecording, mMuxer, view, recordings>>

\* muxer.startRecording.
StartRecording ==
  /\ Step(Looper, "startRecording", IF mEncoderType = 2 THEN "startCallback" ELSE "setMuxer")
  /\ encoder' = [encoder EXCEPT ![recordings] = "running"]
  /\ RecordUnchanged /\ UNCHANGED <<mIsRecording, mMuxer, view, recordings>>

\* mUVCCamera.setFrameCallback, for a MediaVideoBufferEncoder.
StartCallback ==
  /\ Step(Looper, "startCallback", IF mUVCCamera = None THEN "crashed" ELSE "setMuxer")
  /\ RecordUnchanged /\ UNCHANGED record

SetMuxer ==
  /\ Step(Looper, "setMuxer", "idle")
  /\ mMuxer' = recordings
  /\ RecordUnchanged /\ UNCHANGED <<mIsRecording, view, encoder, recordings>>

-----------------------------------------------------------------------------
(* handleStopRecording, handleClose, handleOpen and handleRelease, by the   *)
(* camera thread or an encoder thread t.                                    *)

WorkerUnchanged == LooperUnchanged /\ UNCHANGED <<delayed, surface>>

(* Mutant: release forgets the camera. *)
RecordingStoppedQuits(t) ==
  CASE after[t] = "captureStop" -> "idle" [] after[t] = "release" -> "quit" [] OTHER -> "closeCamera"

RecordingStopped(t) == IF after[t] = "captureStop" THEN "idle" ELSE "closeCamera"

TakeMuxer(t) ==
  /\ Step(t, "stopRecording", "clearView")
  /\ muxer' = [muxer EXCEPT ![t] = mMuxer]
  /\ mMuxer' = None
  /\ WorkerUnchanged
  /\ UNCHANGED <<messages, preview, mIsRecording, view, encoder, recordings, mReleased, after, camera>>

(* Mutant: the view goes on handing over frames. *)
KeepView(t) ==
  /\ Step(t, "clearView", IF muxer[t] # None THEN "stopMuxer" ELSE RecordingStopped(t))
  /\ WorkerUnchanged
  /\ UNCHANGED <<messages, preview, record, mReleased, after, muxer, camera>>

ClearView(t) ==
  /\ Step(t, "clearView", IF muxer[t] # None THEN "stopMuxer" ELSE RecordingStopped(t))
  /\ SetVideoEncoder(None)
  /\ WorkerUnchanged
  /\ UNCHANGED <<messages, preview, mIsRecording, mMuxer, encoder, recordings, mReleased, after, muxer, camera>>

\* muxer.stopRecording, after which the encoder may stop at any time.
StopMuxer(t) ==
  /\ Step(t, "stopMuxer", "stopCallback")
  /\ encoder' = [encoder EXCEPT ![muxer[t]] = "stopping"]
  /\ muxer' = [muxer EXCEPT ![t] = None]
  /\ WorkerUnchanged
  /\ UNCHANGED <<messages, preview, mIsRecording, mMuxer, view, recordings, mReleased, after, camera>>

\* mUVCCamera.setFrameCallback: an exception ends the camera thread; an encoder
\* thread catches it.
StopCallback(t) ==
  /\ Step(t, "stopCallback", IF mUVCCamera # None THEN RecordingStopped(t)
                             ELSE IF t = Looper THEN "crashed" ELSE "idle")
  /\ WorkerUnchanged
  /\ UNCHANGED <<messages, preview, record, mReleased, after, muxer, camera>>

CameraClosed(t) ==
  IF after[t] = "open" THEN "openCamera" ELSE IF after[t] = "close" THEN "idle" ELSE "quit"

TakeCamera(t) ==
  /\ Step(t, "closeCamera", IF mUVCCamera # None THEN "destroyCamera" ELSE CameraClosed(t))
  /\ camera' = [camera EXCEPT ![t] = mUVCCamera]
  /\ mUVCCamera' = None
  /\ WorkerUnchanged
  /\ UNCHANGED <<messages, opened, shown, mIsPreviewing, record, mReleased, after, muxer>>

\* UVCCamera.stopPreview and destroy.  mIsPreviewing stays as it is.
DestroyCamera(t) ==
  /\ Step(t, "destroyCamera", CameraClosed(t))
  /\ shown' = [shown EXCEPT ![camera[t]] = NoClient]
  /\ camera' = [camera EXCEPT ![t] = None]
  /\ WorkerUnchanged
  /\ UNCHANGED <<messages, mUVCCamera, opened, mIsPreviewing, record, mReleased, after, muxer>>

\* UVCCamera.open may fail.  MaxCalls is also the bound on the cameras opened, which it never
\* restricts: each is asked for by a call.
OpenCamera ==
  /\ Step(Looper, "openCamera", "idle")
  /\ opened < MaxCalls /\ opened' = opened + 1
  /\ mUVCCamera' \in {None, opened'}
  /\ WorkerUnchanged
  /\ UNCHANGED <<messages, shown, mIsPreviewing, record, mReleased, after, muxer, camera>>

\* The end of handleRelease.  An encoder thread has no looper to quit.
Quit(t) ==
  /\ Step(t, "quit", IF t = Looper /\ ~mIsRecording THEN "exit" ELSE "idle")
  /\ mReleased' = (mReleased \/ ~mIsRecording)
  /\ messages' = IF t = Looper /\ ~mIsRecording THEN <<>> ELSE messages
  /\ WorkerUnchanged
  /\ UNCHANGED <<preview, record, after, muxer, camera>>

\* The end of run.
Exit ==
  /\ pc[Looper] = "exit"
  /\ Notify(Looper, "ended")
  /\ mReleased' = TRUE
  /\ WorkerUnchanged
  /\ UNCHANGED <<messages, preview, record, after, muxer, camera>>

-----------------------------------------------------------------------------
(* onStopped, called by the video encoder's thread. *)

EncoderUnchanged == UNCHANGED <<mEncoderType, preview, mMuxer, recordings, mReleased, muxer, camera, surface, outside>>

\* A MediaVideoBufferEncoder is not of the classes onStopped looks for.
OnStopped(r) ==
  /\ pc[r] = "idle" /\ encoder[r] = "stopping"
  /\ encoder' = [encoder EXCEPT ![r] = "done"]
  /\ IF mEncoderType = 1
     THEN mIsRecording' = FALSE /\ Goto(r, "onStopped")
     ELSE UNCHANGED <<mIsRecording, pc>>
  /\ EncoderUnchanged /\ UNCHANGED <<queue, view, after>>

OnStoppedView(r) ==
  /\ Step(r, "onStopped", "getPath")
  /\ SetVideoEncoder(None)
  /\ EncoderUnchanged /\ UNCHANGED <<queue, mIsRecording, encoder, after>>

(* Mutant: MSG_MEDIA_UPDATE is not sent. *)
OnStoppedPathUnsent(r) ==
  /\ Step(r, "getPath", "idle")
  /\ EncoderUnchanged /\ UNCHANGED <<queue, mIsRecording, view, encoder, after>>

(* Mutant: the file is announced twice. *)
OnAnyStoppedPath(r) ==
  /\ Step(r, "getPath", "idle")
  /\ delayed' = IF pc[Looper] = "ended" THEN delayed ELSE delayed + 2
  /\ EncoderUnchanged /\ UNCHANGED <<messages, mIsRecording, view, encoder, after>>

\* The file is to be scanned a second later; mHandler may be null by now.
OnStoppedPath(r) ==
  /\ Step(r, "getPath", "idle")
  /\ delayed' = IF pc[Looper] = "ended" THEN delayed ELSE delayed + 1
  /\ EncoderUnchanged /\ UNCHANGED <<messages, mIsRecording, view, encoder, after>>

\* The wrapper is gone, and with it the path.
OnStoppedNoPath(r) ==
  /\ Collector /\ pc[r] = "getPath"
  /\ encoder' = [encoder EXCEPT ![r] = "lost"]
  /\ IF ToRelease THEN EnterStopRecording(r, "release") ELSE Goto(r, "idle") /\ UNCHANGED after
  /\ EncoderUnchanged /\ UNCHANGED <<queue, mIsRecording, view>>

-----------------------------------------------------------------------------
ClientCall ==
  \E c \in Clients :
    \/ \E what \in {"open", "previewStart", "captureStill", "captureStart", "captureStop"} : CallSend(c, what)
    \/ StopPreview(c) \/ Close(c) \/ Release(c)

ClientStep(c) == CloseTest(c) \/ StopTest(c) \/ StopWait(c) \/ Stopped(c)

CloseStep(t) ==
  TakeMuxer(t) \/ ClearView(t) \/ StopMuxer(t) \/ StopCallback(t) \/ TakeCamera(t) \/ DestroyCamera(t) \/ Quit(t)

LooperStep ==
  \/ TakeMessage \/ CaptureStill \/ SaveStill
  \/ StartPreviewTest \/ StartNative \/ StartParams \/ StartFlag \/ StopNative \/ StopFlag
  \/ StartRecordingTest \/ Prepare \/ PrepareThrows \/ StartRecording \/ StartCallback \/ SetMuxer
  \/ CloseStep(Looper) \/ OpenCamera \/ Exit

CallbackStep(r) == OnStoppedView(r) \/ OnStoppedPath(r) \/ OnStoppedNoPath(r) \/ CloseStep(r)

EncoderStep(r) == OnStopped(r) \/ CallbackStep(r)

RenderStep == SetEncoder \/ SetEncoderThrows

Next ==
  \/ ClientCall \/ DestroyActivity \/ Deliver \/ LooperStep \/ StillDrawn \/ RenderStep
  \/ \E c \in Clients : ClientStep(c)
  \/ \E r \in Recordings : EncoderStep(r)

Spec == Init /\ [][Next]_vars

\* Every thread runs and delayed messages become due.  Clients need not call, no
\* frame need be drawn, and an encoder that is asked to stop need not stop.
LiveSpec ==
  /\ Spec /\ WF_vars(LooperStep) /\ WF_vars(Deliver)
  /\ \A c \in Clients : WF_vars(ClientStep(c))
  /\ \A r \in Recordings : WF_vars(CallbackStep(r))

-----------------------------------------------------------------------------
(* Properties. *)

Whats == {"open", "close", "previewStart", "previewStop", "captureStill", "captureStart",
          "captureStop", "mediaUpdate", "release"}

ClientLabels == {"idle", "closeTest", "stopTest", "stopSend", "waiting", "stopped"}
CloseLabels  == {"idle", "stopRecording", "clearView", "stopMuxer", "stopCallback",
                 "closeCamera", "destroyCamera", "quit"}
LooperLabels ==
  CloseLabels \cup {"previewStart", "previewStop", "captureStart", "captureStill", "stillWait",
                    "saveStill", "startNative", "startParams", "startFlag", "stopFlag", "prepare",
                    "startRecording", "startCallback", "setMuxer", "openCamera", "exit", "ended",
                    "crashed"}

EncoderStates == {"none", "created", "running", "stopping", "done", "lost", "abandoned"}

FlagsOK ==
  /\ mIsPreviewing \in BOOLEAN /\ mIsRecording \in BOOLEAN /\ mReleased \in BOOLEAN
  /\ destroyed \in BOOLEAN

ThreadsOK ==
  /\ DOMAIN pc = Threads /\ pc[Looper] \in LooperLabels
  /\ \A c \in Clients : pc[c] \in ClientLabels
  /\ \A r \in Recordings : pc[r] \in CloseLabels \cup {"onStopped", "getPath"}
  /\ after \in [Workers -> {"idle", "open", "close", "captureStop", "release"}]

RecordsOK ==
  /\ mEncoderType \in {1, 2}
  /\ mMuxer \in Recordings \cup {None}
  /\ posted \in Seq(Recordings \cup {None}) /\ viewEncoder \in Recordings \cup {None, Crashed}
  /\ encoder \in [Recordings -> EncoderStates] /\ recordings \in 0..MaxRecordings
  /\ muxer \in [Workers -> Recordings \cup {None}]

CamerasOK ==
  /\ mUVCCamera \in Cameras \cup {None} /\ opened \in 0..MaxCalls
  /\ DOMAIN shown = Cameras
  /\ camera \in [Workers -> Cameras \cup {None}]

MessagesOK ==
  /\ messages \in Seq([what : Whats, surface : Clients \cup {NoClient}]) /\ delayed \in 0..recordings
  /\ surface \in Clients \cup {NoClient} /\ alive \subseteq Clients
  /\ \A k \in Cameras : shown[k] \in Clients \cup {NoClient}
  /\ op \in [Clients -> {"none", "stopPreview", "close", "release"}] /\ calls \in 0..MaxCalls

\* Every variable has a value of its type; in particular at most one file is
\* waiting to be scanned for each recording.
TypeOK == FlagsOK /\ ThreadsOK /\ RecordsOK /\ CamerasOK /\ MessagesOK

\* No recording is forgotten: one that runs is mMuxer's, or the thread that
\* started it is about to make it so, or one that took it from there is about to
\* stop it.
RunningRecordingIsKnown ==
  \A r \in Recordings : encoder[r] = "running" =>
    \/ mMuxer = r
    \/ r = recordings /\ pc[Looper] \in {"startCallback", "setMuxer"}
    \/ \E t \in Workers : muxer[t] = r

\* A recording that is asked to stop was taken from the view before: the view
\* feeds it only as long as a message that takes it away is queued, and no
\* message gives it back.
StoppedRecordingIsLetGo ==
  \A r \in Recordings : encoder[r] \in {"stopping", "done", "lost"} => Told # r

\* By whatever way the camera thread ends, it leaves nothing behind: the camera
\* is closed, or an encoder thread is closing it, and no recording runs.
EndedIsClosed ==
  pc[Looper] = "ended" =>
    /\ mUVCCamera = None /\ mMuxer = None
    /\ \A k \in Cameras : shown[k] # NoClient => \E r \in Recordings : camera[r] = k
    /\ \A r \in Recordings : encoder[r] = "running" => \E s \in Recordings : muxer[s] = r

\* Frames are drawn: a camera thread that waits for one to capture gets it.
FramesAreDrawn == []<>(pc[Looper] # "stillWait")

\* An encoder that is asked to stop stops.
EncodersStop == \A r \in Recordings : []<>(encoder[r] # "stopping")

\* As long as frames are drawn, a client that waits in stopPreview is woken while
\* the preview it waits for is on and a message to stop it is queued, whatever is
\* handled before that message.
SleeperIsWoken ==
  FramesAreDrawn =>
    \A c \in Clients :
      pc[c] = "waiting" /\ mIsPreviewing /\ (\E i \in DOMAIN messages : messages[i].what = "previewStop")
        ~> pc[c] # "waiting" \/ pc[Looper] = "crashed"

\* As long as frames are drawn and encoders stop, a camera thread that is to be
\* released ends, also when it must first wait for a recording, unless that
\* recording was abandoned or lost its wrapper, or its end is not reported
\* because it records from a buffer.
ReleaseEnds ==
  FramesAreDrawn /\ EncodersStop =>
    ((\E i \in DOMAIN messages : messages[i].what = "release") ~>
       \/ pc[Looper] \in {"ended", "crashed"}
       \/ mEncoderType = 2 /\ mIsRecording
       \/ \E r \in Recordings : encoder[r] \in {"abandoned", "lost"})
=============================================================================
