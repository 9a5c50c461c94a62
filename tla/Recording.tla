------------------------------ MODULE Recording ------------------------------
(***************************************************************************)
(* One recording: the threads of MediaEncoder, one for video and one for   *)
(* audio, and the MediaMuxerWrapper they share.                            *)
(*                                                                         *)
(* Threads.  client is the camera thread in handleStartRecording and       *)
(* handleStopRecording.  run[e] is MediaEncoder.run of encoder e.  feed[e] *)
(* is who brings it frames: for audio AudioThread; for video the view's    *)
(* render thread, which draws to the encoder's surface (MediaVideoEncoder), *)
(* or the camera's frame callback (MediaVideoBufferEncoder).               *)
(*                                                                         *)
(* A codec is a queue: what was put in and has not been taken out.  It may *)
(* be slow: dequeueOutputBuffer may say "try again" at any time.           *)
(***************************************************************************)
EXTENDS Integers, Sequences

CONSTANTS
  EncoderTypes,  \* what mEncoderType may be
  PrepareFails,  \* TRUE when there may be no codec, or prepare may throw
  Collector,     \* TRUE when the garbage collector may find the wrapper
  MaxFrames      \* bound: frames that each source brings

ASSUME RecordingAssumption ==
  /\ EncoderTypes \subseteq {1, 2} /\ PrepareFails \in BOOLEAN
  /\ Collector \in BOOLEAN
  /\ MaxFrames \in Nat

Encoders == {"video", "audio"}

VARIABLES
  mEncoderType,  \* 1: MediaVideoEncoder, 2: MediaVideoBufferEncoder
  microphone,    \* AudioThread can open an audio source
  client, run, feed,
  mIsCapturing, mRequestStop, mRequestDrain, mMuxerStarted, mIsEOS,
  drainFor,      \* what run does after drain()
  codec,         \* "none" when mMediaCodec is null, else "running"
  queue,         \* frames, and the end of the stream, in the codec
  formatSent,    \* the codec has announced its output format
  frames,        \* frames brought so far
  collected,     \* mWeakMuxer.get() returns null
  mEncoderCount, mStartedCount, mIsStarted,
  mediaMuxer, tracks, written   \* android.media.MediaMuxer

flags   == <<mIsCapturing, mRequestStop, mRequestDrain>>
codecs  == <<mIsEOS, codec, queue, formatSent>>
wrapper == <<mEncoderCount, mStartedCount, mIsStarted>>
file    == <<mediaMuxer, tracks, written>>
kind    == <<mEncoderType, microphone>>
vars == <<kind, client, run, feed, flags, mMuxerStarted, drainFor, codecs, frames, collected, wrapper, file>>

At(thread, e, label) == thread[e] = label
GoRun(e, label) == run' = [run EXCEPT ![e] = label]
GoFeed(e, label) == feed' = [feed EXCEPT ![e] = label]

Init ==
  /\ mEncoderType \in EncoderTypes /\ microphone \in BOOLEAN
  /\ client = <<"add", "video">>
  /\ run = [e \in Encoders |-> "none"] /\ feed = [e \in Encoders |-> "idle"]
  /\ mIsCapturing = [e \in Encoders |-> FALSE]
  /\ mRequestStop = [e \in Encoders |-> FALSE]
  /\ mRequestDrain = [e \in Encoders |-> 0]
  /\ mMuxerStarted = [e \in Encoders |-> FALSE] /\ mIsEOS = [e \in Encoders |-> FALSE]
  /\ drainFor = [e \in Encoders |-> "check"]
  /\ codec = [e \in Encoders |-> "none"] /\ queue = [e \in Encoders |-> <<>>]
  /\ formatSent = [e \in Encoders |-> FALSE] /\ frames = [e \in Encoders |-> 0]
  /\ collected = FALSE /\ mEncoderCount = 0 /\ mStartedCount = 0 /\ mIsStarted = FALSE
  /\ mediaMuxer = "initialized" /\ tracks = {} /\ written = [e \in Encoders |-> 0]

\* mSync.notifyAll: the encoder thread, if it sleeps, runs.
Awake(e) == run' = [run EXCEPT ![e] = IF @ = "sleep" THEN "check" ELSE @]

-----------------------------------------------------------------------------
(* The camera thread. *)

\* It does the same for video and then for audio.
Then(op, e, nextOp) == IF e = "video" THEN <<op, "audio">> ELSE nextOp

ClientUnchanged == UNCHANGED <<kind, drainFor, queue, formatSent, frames, collected, mStartedCount, mIsStarted, file>>

\* MediaEncoder(): starts the thread and waits for its notify.
AddEncoder(e) ==
  /\ client = <<"add", e>>
  /\ client' = <<"wait", e>>
  /\ mEncoderCount' = mEncoderCount + 1
  /\ GoRun(e, "starting")
  /\ ClientUnchanged /\ UNCHANGED <<feed, flags, mMuxerStarted, mIsEOS, codec>>

Added(e) ==
  /\ client = <<"wait", e>> /\ run[e] # "starting"
  /\ client' = Then("add", e, <<"prepare", "video">>)
  /\ ClientUnchanged /\ UNCHANGED <<run, feed, flags, mMuxerStarted, mIsEOS, codec, mEncoderCount>>

\* Without a codec prepare returns as if nothing had happened.
Prepare(e) ==
  /\ client = <<"prepare", e>>
  /\ client' = Then("prepare", e, <<"start", "video">>)
  /\ mMuxerStarted' = [mMuxerStarted EXCEPT ![e] = FALSE]
  /\ mIsEOS' = [mIsEOS EXCEPT ![e] = FALSE]
  /\ \E found \in (IF PrepareFails THEN BOOLEAN ELSE {TRUE}) :
       codec' = [codec EXCEPT ![e] = IF found THEN "running" ELSE "none"]
  /\ ClientUnchanged /\ UNCHANGED <<run, feed, flags, mEncoderCount>>

\* An IOException ends handleStartRecording; the encoders are forgotten.
PrepareThrows(e) ==
  /\ PrepareFails /\ client = <<"prepare", e>>
  /\ client' = <<"failed", e>>
  /\ ClientUnchanged /\ UNCHANGED <<run, feed, flags, mMuxerStarted, mIsEOS, codec, mEncoderCount>>

StartRecording(e) ==
  /\ client = <<"start", e>>
  /\ client' = Then("start", e, <<"recording", "video">>)
  /\ mIsCapturing' = [mIsCapturing EXCEPT ![e] = TRUE]
  /\ mRequestStop' = [mRequestStop EXCEPT ![e] = FALSE]
  /\ Awake(e)
  /\ IF e = "audio" THEN GoFeed(e, "loop") ELSE UNCHANGED feed
  /\ ClientUnchanged /\ UNCHANGED <<mRequestDrain, mMuxerStarted, mIsEOS, codec, mEncoderCount>>

StopClicked ==
  /\ client = <<"recording", "video">>
  /\ client' = <<"stop", "video">>
  /\ ClientUnchanged /\ UNCHANGED <<run, feed, flags, mMuxerStarted, mIsEOS, codec, mEncoderCount>>

StopRecording(e) ==
  /\ client = <<"stop", e>>
  /\ client' = Then("stop", e, <<"stopped", "video">>)
  /\ IF mIsCapturing[e] /\ ~mRequestStop[e]
     THEN mRequestStop' = [mRequestStop EXCEPT ![e] = TRUE] /\ Awake(e)
     ELSE UNCHANGED <<mRequestStop, run>>
  /\ ClientUnchanged
  /\ UNCHANGED <<feed, mIsCapturing, mRequestDrain, mMuxerStarted, mIsEOS, codec, mEncoderCount>>

-----------------------------------------------------------------------------
(* encode, by the source of the frames and, for the end of the stream, by  *)
(* the encoder thread.                                                     *)

(* Mutant: a length of zero queues the end of the stream. *)
EncodeEos(e, length) ==
  IF mIsCapturing[e] /\ length = 0
  THEN /\ queue' = [queue EXCEPT ![e] = Append(@, "eos")]
       /\ mIsEOS' = [mIsEOS EXCEPT ![e] = TRUE]
  ELSE IF mIsCapturing[e] THEN queue' = [queue EXCEPT ![e] = Append(@, "frame")] /\ UNCHANGED mIsEOS
  ELSE UNCHANGED <<queue, mIsEOS>>

\* A buffer is queued as long as some of length bytes are left.
Encode(e, length) ==
  IF mIsCapturing[e] /\ 0 < length
  THEN /\ queue' = [queue EXCEPT ![e] = Append(@, IF length <= 0 THEN "eos" ELSE "frame")]
       /\ mIsEOS' = [mIsEOS EXCEPT ![e] = @ \/ length <= 0]
  ELSE UNCHANGED <<queue, mIsEOS>>

-----------------------------------------------------------------------------
(* The encoder thread. *)

RunUnchanged == UNCHANGED <<kind, client, feed, frames, mEncoderCount, collected>>

RunStart(e) ==
  /\ At(run, e, "starting")
  /\ mRequestStop' = [mRequestStop EXCEPT ![e] = FALSE]
  /\ mRequestDrain' = [mRequestDrain EXCEPT ![e] = 0]
  /\ GoRun(e, "check")
  /\ RunUnchanged
  /\ UNCHANGED <<mIsCapturing, mMuxerStarted, drainFor, codecs, mStartedCount, mIsStarted, file>>

\* drain() returns at once when there is no codec, or no wrapper any more.
Drain(e, after) ==
  /\ drainFor' = [drainFor EXCEPT ![e] = after]
  /\ GoRun(e, IF codec[e] = "none" \/ collected THEN after ELSE "drain")

Check(e) ==
  /\ At(run, e, "check")
  /\ IF mRequestDrain[e] > 0
     THEN mRequestDrain' = [mRequestDrain EXCEPT ![e] = @ - 1] ELSE UNCHANGED mRequestDrain
  /\ \/ mRequestStop[e] /\ Drain(e, "signal")
     \/ ~mRequestStop[e] /\ mRequestDrain[e] > 0 /\ Drain(e, "check")
     \/ ~mRequestStop[e] /\ mRequestDrain[e] = 0 /\ GoRun(e, "toWait") /\ UNCHANGED drainFor
  /\ RunUnchanged
  /\ UNCHANGED <<mIsCapturing, mRequestStop, mMuxerStarted, codecs, mStartedCount, mIsStarted, file>>

\* The flags are not tested again before the wait.
Sleep(e) ==
  /\ At(run, e, "toWait")
  /\ GoRun(e, "sleep")
  /\ RunUnchanged
  /\ UNCHANGED <<flags, mMuxerStarted, drainFor, codecs, mStartedCount, mIsStarted, file>>

(* Mutant: drain until the end of the stream. *)
DrainUntilEos(e) ==
  /\ At(run, e, "drain") /\ ~mIsCapturing[e]
  /\ GoRun(e, drainFor[e])
  /\ RunUnchanged
  /\ UNCHANGED <<flags, mMuxerStarted, drainFor, codecs, mStartedCount, mIsStarted, file>>

\* Nothing came for 50 milliseconds, or the encoder does not capture any more.
DrainEnd(e) ==
  /\ At(run, e, "drain")
  /\ mIsCapturing[e] => ~mIsEOS[e]
  /\ GoRun(e, drainFor[e])
  /\ RunUnchanged
  /\ UNCHANGED <<flags, mMuxerStarted, drainFor, codecs, mStartedCount, mIsStarted, file>>

\* INFO_OUTPUT_FORMAT_CHANGED; the muxer refuses a track when it is started.
DrainFormat(e) ==
  /\ At(run, e, "drain") /\ mIsCapturing[e] /\ queue[e] # <<>> /\ ~formatSent[e]
  /\ formatSent' = [formatSent EXCEPT ![e] = TRUE]
  /\ IF mMuxerStarted[e] \/ mIsStarted
     THEN GoRun(e, "crashed") /\ UNCHANGED <<tracks, mMuxerStarted>>
     ELSE /\ tracks' = tracks \cup {e}
          /\ mMuxerStarted' = [mMuxerStarted EXCEPT ![e] = TRUE]
          /\ GoRun(e, "muxerStart")
  /\ RunUnchanged
  /\ UNCHANGED <<flags, drainFor, mIsEOS, codec, queue, mStartedCount, mIsStarted, mediaMuxer, written>>

(* Mutant: the muxer starts with the first encoder. *)
StartWithTheFirst(e) ==
  /\ At(run, e, "muxerStart")
  /\ mStartedCount' = mStartedCount + 1
  /\ mIsStarted' = TRUE /\ mediaMuxer' = "started" /\ GoRun(e, "drain")
  /\ RunUnchanged
  /\ UNCHANGED <<flags, mMuxerStarted, drainFor, codecs, tracks, written>>

\* MediaMuxerWrapper.start.
MuxerStart(e) ==
  /\ At(run, e, "muxerStart")
  /\ mStartedCount' = mStartedCount + 1
  /\ IF mEncoderCount > 0 /\ mStartedCount' = mEncoderCount
     THEN mIsStarted' = TRUE /\ mediaMuxer' = "started"
     ELSE UNCHANGED <<mIsStarted, mediaMuxer>>
  /\ GoRun(e, IF mIsStarted' THEN "drain" ELSE "muxerWait")
  /\ RunUnchanged
  /\ UNCHANGED <<flags, mMuxerStarted, drainFor, codecs, tracks, written>>

\* Whether to stop is not tested here.
MuxerWait(e) ==
  /\ At(run, e, "muxerWait") /\ mIsStarted
  /\ GoRun(e, "drain")
  /\ RunUnchanged
  /\ UNCHANGED <<flags, mMuxerStarted, drainFor, codecs, mStartedCount, mIsStarted, file>>

DrainOutput(e) ==
  /\ At(run, e, "drain") /\ mIsCapturing[e] /\ queue[e] # <<>> /\ formatSent[e]
  /\ IF Head(queue[e]) = "eos"
     THEN /\ mMuxerStarted' = [mMuxerStarted EXCEPT ![e] = FALSE]
          /\ mIsCapturing' = [mIsCapturing EXCEPT ![e] = FALSE]
          /\ GoRun(e, drainFor[e])
     ELSE /\ UNCHANGED <<mMuxerStarted, mIsCapturing>>
          /\ GoRun(e, IF mMuxerStarted[e] THEN "write" ELSE "crashed")
  /\ queue' = [queue EXCEPT ![e] = Tail(@)]
  /\ RunUnchanged
  /\ UNCHANGED <<mRequestStop, mRequestDrain, drainFor, mIsEOS, codec, formatSent, mStartedCount, mIsStarted, file>>

\* MediaMuxerWrapper.writeSampleData; MediaMuxer throws unless it is started.
Write(e) ==
  /\ At(run, e, "write")
  /\ IF mStartedCount > 0 /\ mediaMuxer # "started" THEN GoRun(e, "crashed") /\ UNCHANGED written
     ELSE /\ written' = IF mStartedCount > 0 THEN [written EXCEPT ![e] = @ + 1] ELSE written
          /\ GoRun(e, "drain")
  /\ RunUnchanged
  /\ UNCHANGED <<flags, mMuxerStarted, drainFor, codecs, mStartedCount, mIsStarted, mediaMuxer, tracks>>

\* signalEndOfInputStream, then drain again.  encode uses mMediaCodec without
\* a test.
Signal(e) ==
  /\ At(run, e, "signal")
  /\ IF mIsCapturing[e] /\ codec[e] = "none"
     THEN GoRun(e, "crashed") /\ UNCHANGED <<drainFor, queue, mIsEOS>>
     ELSE Encode(e, 0) /\ Drain(e, "release")
  /\ RunUnchanged
  /\ UNCHANGED <<flags, mMuxerStarted, codec, formatSent, mStartedCount, mIsStarted, file>>

Release(e) ==
  /\ At(run, e, "release")
  /\ mIsCapturing' = [mIsCapturing EXCEPT ![e] = FALSE]
  /\ GoRun(e, "releaseCodec")
  /\ RunUnchanged
  /\ UNCHANGED <<mRequestStop, mRequestDrain, mMuxerStarted, drainFor, codecs, mStartedCount, mIsStarted, file>>

(* Mutant: the muxer is stopped even if this encoder did not start it. *)
ReleaseStopsAlways(e) ==
  /\ At(run, e, "releaseCodec")
  /\ codec' = [codec EXCEPT ![e] = "none"] /\ queue' = [queue EXCEPT ![e] = <<>>]
  /\ GoRun(e, "muxerStop")
  /\ RunUnchanged
  /\ UNCHANGED <<flags, mMuxerStarted, drainFor, mIsEOS, formatSent, mStartedCount, mIsStarted, file>>

ReleaseCodec(e) ==
  /\ At(run, e, "releaseCodec")
  /\ codec' = [codec EXCEPT ![e] = "none"] /\ queue' = [queue EXCEPT ![e] = <<>>]
  /\ GoRun(e, IF mMuxerStarted[e] /\ ~collected THEN "muxerStop" ELSE "exit")
  /\ RunUnchanged
  /\ UNCHANGED <<flags, mMuxerStarted, drainFor, mIsEOS, formatSent, mStartedCount, mIsStarted, file>>

\* MediaMuxerWrapper.stop; that MediaMuxer may throw is ignored.
MuxerStop(e) ==
  /\ At(run, e, "muxerStop")
  /\ mStartedCount' = mStartedCount - 1
  /\ IF mEncoderCount > 0 /\ mStartedCount' <= 0
     THEN /\ mediaMuxer' = IF mediaMuxer = "started" THEN "stopped" ELSE mediaMuxer
          /\ mIsStarted' = FALSE
     ELSE UNCHANGED <<mediaMuxer, mIsStarted>>
  /\ GoRun(e, "exit")
  /\ RunUnchanged
  /\ UNCHANGED <<flags, mMuxerStarted, drainFor, codecs, tracks, written>>

Exit(e) ==
  /\ At(run, e, "exit")
  /\ mRequestStop' = [mRequestStop EXCEPT ![e] = TRUE]
  /\ mIsCapturing' = [mIsCapturing EXCEPT ![e] = FALSE]
  /\ GoRun(e, "done")
  /\ RunUnchanged
  /\ UNCHANGED <<mRequestDrain, mMuxerStarted, drainFor, codecs, mStartedCount, mIsStarted, file>>

\* Encoders hold the wrapper by a weak reference, the camera thread only
\* until it has stopped the recording.
Collect ==
  /\ Collector /\ ~collected /\ client[1] \in {"stopped", "failed"}
  /\ \A e \in Encoders : run[e] \notin {"drain", "muxerStart", "muxerWait", "write", "muxerStop"}
  /\ collected' = TRUE
  /\ UNCHANGED <<kind, client, run, feed, flags, mMuxerStarted, drainFor, codecs, frames, wrapper, file>>

-----------------------------------------------------------------------------
(* The sources of frames. *)

FeedUnchanged == UNCHANGED <<kind, client, mIsCapturing, mRequestStop, mMuxerStarted, drainFor, codec, formatSent, collected, wrapper, file>>

\* MediaEncoder.frameAvailableSoon.
Accepts(e) == mIsCapturing[e] /\ ~mRequestStop[e]

FrameAvailableSoon(e) ==
  IF Accepts(e) THEN mRequestDrain' = [mRequestDrain EXCEPT ![e] = @ + 1] /\ Awake(e)
  ELSE UNCHANGED <<mRequestDrain, run>>

NewFrame(e) == frames[e] < MaxFrames /\ frames' = [frames EXCEPT ![e] = @ + 1]

\* The view renders a frame: MediaVideoEncoder.frameAvailableSoon, ...
RenderFrame ==
  /\ mEncoderType = 1 /\ At(feed, "video", "idle") /\ Accepts("video") /\ NewFrame("video")
  /\ FrameAvailableSoon("video") /\ GoFeed("video", "draw")
  /\ FeedUnchanged /\ UNCHANGED <<queue, mIsEOS>>

\* MediaVideoEncoder.release begins with its mRenderHandler.
RenderHandlerReleased == run["video"] \in {"releaseCodec", "muxerStop", "exit", "done"}

\* ... and then mRenderHandler.draw, which reaches the codec if there is one.
\* It throws on the view's render thread when the encoder has been released.
DrawFrame ==
  /\ At(feed, "video", "draw")
  /\ GoFeed("video", IF RenderHandlerReleased THEN "crashed" ELSE "idle")
  /\ queue' = IF codec["video"] = "running" THEN [queue EXCEPT !["video"] = Append(@, "frame")] ELSE queue
  /\ FeedUnchanged /\ UNCHANGED <<run, mRequestDrain, mIsEOS, frames>>

\* IFrameCallback.onFrame.
OnFrame ==
  /\ mEncoderType = 2 /\ At(feed, "video", "idle") /\ client = <<"recording", "video">> /\ NewFrame("video")
  /\ FrameAvailableSoon("video") /\ GoFeed("video", "test")
  /\ FeedUnchanged /\ UNCHANGED <<queue, mIsEOS>>

EncodeTest ==
  /\ At(feed, "video", "test")
  /\ GoFeed("video", IF Accepts("video") THEN "encode" ELSE "idle")
  /\ FeedUnchanged /\ UNCHANGED <<run, mRequestDrain, queue, mIsEOS, frames>>

\* AudioThread.run; without a microphone it sends some silence.
ReadAudio ==
  /\ At(feed, "audio", "loop") /\ mIsCapturing["audio"] /\ NewFrame("audio")
  /\ microphone => ~mRequestStop["audio"] /\ ~mIsEOS["audio"]
  /\ GoFeed("audio", "encode")
  /\ FeedUnchanged /\ UNCHANGED <<run, mRequestDrain, queue, mIsEOS>>

AudioEnds ==
  /\ At(feed, "audio", "loop")
  /\ \/ ~mIsCapturing["audio"]
     \/ microphone /\ (mRequestStop["audio"] \/ mIsEOS["audio"])
     \/ ~microphone /\ frames["audio"] = MaxFrames
  /\ GoFeed("audio", "idle")
  /\ IF microphone /\ frames["audio"] > 0 THEN FrameAvailableSoon("audio")
     ELSE UNCHANGED <<mRequestDrain, run>>
  /\ FeedUnchanged /\ UNCHANGED <<queue, mIsEOS, frames>>

\* Without a codec encode throws: the frame callback's exception is cleared,
\* AudioThread ends.
EncodeFrame(e) ==
  /\ At(feed, e, "encode")
  /\ IF mIsCapturing[e] /\ codec[e] = "none"
     THEN GoFeed(e, "idle") /\ UNCHANGED <<queue, mIsEOS>>
     ELSE Encode(e, 1) /\ GoFeed(e, IF e = "audio" THEN "soon" ELSE "idle")
  /\ FeedUnchanged /\ UNCHANGED <<run, mRequestDrain, frames>>

AudioSoon ==
  /\ At(feed, "audio", "soon") /\ GoFeed("audio", "loop")
  /\ FrameAvailableSoon("audio")
  /\ FeedUnchanged /\ UNCHANGED <<queue, mIsEOS, frames>>

-----------------------------------------------------------------------------
ClientStep ==
  \E e \in Encoders : AddEncoder(e) \/ Added(e) \/ Prepare(e) \/ PrepareThrows(e)
                      \/ StartRecording(e) \/ StopRecording(e)

RunStep(e) ==
  \/ RunStart(e) \/ Check(e) \/ Sleep(e)
  \/ DrainEnd(e) \/ DrainFormat(e) \/ MuxerStart(e) \/ MuxerWait(e) \/ DrainOutput(e) \/ Write(e)
  \/ Signal(e) \/ Release(e) \/ ReleaseCodec(e) \/ MuxerStop(e) \/ Exit(e)

FeedStep ==
  \/ RenderFrame \/ DrawFrame \/ OnFrame \/ EncodeTest
  \/ ReadAudio \/ AudioEnds \/ AudioSoon \/ \E e \in Encoders : EncodeFrame(e)

Next == ClientStep \/ StopClicked \/ Collect \/ FeedStep \/ \E e \in Encoders : RunStep(e)

Spec == Init /\ [][Next]_vars

\* The threads run; the user need not stop the recording, the codec need not
\* deliver and the sources need not bring a frame.
LiveSpec ==
  /\ Spec /\ WF_vars(ClientStep) /\ \A e \in Encoders : WF_vars(RunStep(e))

-----------------------------------------------------------------------------
(* Properties. *)

Positions == {"add", "wait", "prepare", "start", "recording", "stop", "stopped", "failed"}

RunLabels ==
  {"none", "starting", "check", "toWait", "sleep", "drain", "muxerStart", "muxerWait", "write",
   "signal", "release", "releaseCodec", "muxerStop", "exit", "done", "crashed"}

FlagsOK ==
  /\ microphone \in BOOLEAN /\ mIsStarted \in BOOLEAN /\ collected \in BOOLEAN
  /\ mIsCapturing \in [Encoders -> BOOLEAN] /\ mRequestStop \in [Encoders -> BOOLEAN]
  /\ mMuxerStarted \in [Encoders -> BOOLEAN] /\ mIsEOS \in [Encoders -> BOOLEAN]
  /\ formatSent \in [Encoders -> BOOLEAN]

ThreadsOK ==
  /\ client \in Positions \X Encoders
  /\ run \in [Encoders -> RunLabels]
  /\ feed \in [Encoders -> {"idle", "draw", "test", "loop", "encode", "soon", "crashed"}]
  /\ drainFor \in [Encoders -> {"check", "signal", "release"}]

CodecsOK ==
  /\ codec \in [Encoders -> {"none", "running"}] /\ queue \in [Encoders -> Seq({"frame", "eos"})]
  /\ frames \in [Encoders -> 0..MaxFrames]
  /\ mRequestDrain \in [Encoders -> 0..MaxFrames + 1]

FileOK ==
  /\ mEncoderType \in {1, 2} /\ mEncoderCount \in 0..2 /\ mStartedCount \in 0..2
  /\ mediaMuxer \in {"initialized", "started", "stopped"} /\ tracks \subseteq Encoders
  /\ written \in [Encoders -> Nat]

\* Every variable has a value of its type; in particular no more encoders
\* stop the muxer than have started it.
TypeOK == FlagsOK /\ ThreadsOK /\ CodecsOK /\ FileOK

\* No encoder thread that has a codec dies of an exception: it never adds a
\* track to a muxer that has started and never writes to one that has not, or
\* that another encoder has stopped.
NoEncoderCrashes == \A e \in Encoders : codec[e] = "running" => run[e] # "crashed"

\* When both encoders are done, a file that was started has been finished,
\* unless the wrapper was collected before.
RecordingIsClosed ==
  (\A e \in Encoders : run[e] = "done") /\ ~collected => mediaMuxer # "started"

\* The two encoders and the wrapper keep the promise of MuxerProtocol.
Muxer == INSTANCE MuxerProtocol WITH file <- mediaMuxer

ImplementsMuxer == Muxer!Spec

\* An encoder that stops after the muxer has started gets to its end.
StoppingFinishes ==
  \A e \in Encoders : run[e] = "drain" /\ drainFor[e] # "check" /\ mIsStarted ~> run[e] = "done"
=============================================================================
