--------------------------- MODULE RecordingProofs ---------------------------
(***************************************************************************)
(* Proofs about a recording, for any number of frames, both kinds of video *)
(* encoder, a microphone or none, and a collector that takes the wrapper.  *)
(***************************************************************************)
EXTENDS Recording, TLAPS

-----------------------------------------------------------------------------
(* The inductive invariant *)

\* The client has not yet prepared, not yet started encoder e.
NotPrepared(e) ==
  \/ client[1] \in {"add", "wait"}
  \/ client[1] = "prepare" /\ (client[2] = e \/ e = "audio")

NotStarted(e) ==
  \/ client[1] \in {"add", "wait", "prepare", "failed"}
  \/ client[1] = "start" /\ (client[2] = e \/ e = "audio")

\* The encoders are there before the first of them has a codec, and nothing is captured before
\* the start.
ClientInv ==
  /\ mEncoderCount = (IF client = <<"add", "video">> THEN 0
                      ELSE IF client \in {<<"wait", "video">>, <<"add", "audio">>} THEN 1 ELSE 2)
  /\ collected => client[1] \in {"stopped", "failed"}
  /\ \A e \in Encoders : NotPrepared(e) => codec[e] = "none"
  /\ \A e \in Encoders : NotStarted(e) => ~mIsCapturing[e] /\ ~formatSent[e] /\ run[e] # "crashed"

\* No codec is ever given the end of its stream.
QueueInv ==
  queue \in [Encoders -> Seq({"frame"})] /\ \A e \in Encoders : ~mIsEOS[e]

\* A request to drain answers a frame; AudioThread makes one more when it ends.
FeedInv ==
  /\ mRequestDrain["video"] <= frames["video"]
  /\ mRequestDrain["audio"] <= frames["audio"] + (IF feed["audio"] = "idle" THEN 1 ELSE 0)
  /\ feed["audio"] \in {"encode", "soon"} => mRequestDrain["audio"] < frames["audio"]
  /\ NotStarted("audio") => feed["audio"] = "idle" /\ mRequestDrain["audio"] = 0

\* An encoder drains and uses the muxer only while it has a codec, and uses the muxer from
\* when it has added its track.
CodecInv ==
  /\ tracks = {e \in Encoders : mMuxerStarted[e]}
  /\ \A e \in Encoders :
       /\ mMuxerStarted[e] <=> formatSent[e]
       /\ run[e] \in {"drain", "muxerStart", "muxerWait", "write"} => codec[e] = "running"
       /\ run[e] \in {"muxerStart", "muxerWait", "write", "muxerStop"} => mMuxerStarted[e]
       /\ mMuxerStarted[e] /\ run[e] \notin {"muxerStop", "exit", "done"} => codec[e] = "running"
       /\ run[e] = "crashed" => codec[e] = "none"

\* Encoder e has started the muxer and not stopped it.
Holds(e) == mMuxerStarted[e] /\ run[e] \notin {"muxerStart", "exit", "done"}

\* The wrapper counts them, as long as there is one.
CountInv ==
  /\ ~collected => mStartedCount = (IF Holds("video") THEN 1 ELSE 0) + (IF Holds("audio") THEN 1 ELSE 0)
  /\ collected => \A e \in Encoders :
                    run[e] \notin {"drain", "muxerStart", "muxerWait", "write", "muxerStop"}

\* The muxer starts when both have and stops when neither has.
MuxerInv ==
  /\ mIsStarted <=> mediaMuxer = "started"
  /\ mediaMuxer = "initialized" => \A e \in Encoders : Holds(e) => run[e] = "muxerWait"
  /\ mediaMuxer # "initialized" => \A e \in Encoders : mMuxerStarted[e] /\ run[e] # "muxerStart"
  /\ mediaMuxer = "started" /\ ~collected => \E e \in Encoders : Holds(e)
  /\ mediaMuxer = "stopped" /\ ~collected => \A e \in Encoders : ~Holds(e)

RecordingInv ==
  /\ FlagsOK /\ ThreadsOK /\ CodecsOK /\ FileOK
  /\ ClientInv /\ QueueInv /\ FeedInv /\ CodecInv /\ CountInv /\ MuxerInv

-----------------------------------------------------------------------------
(* Every step preserves it *)

USE DEF Encoders, At, GoRun, GoFeed, flags, codecs, wrapper, file, kind, ClientUnchanged,
        RunUnchanged, FeedUnchanged

\* The camera thread, and the collector.
LEMMA ClientSteps ==
  ASSUME RecordingAssumption, RecordingInv,
         (\E e \in Encoders : AddEncoder(e)) \/ (\E e \in Encoders : Added(e))
         \/ (\E e \in Encoders : Prepare(e)) \/ (\E e \in Encoders : PrepareThrows(e))
         \/ (\E e \in Encoders : StartRecording(e)) \/ (\E e \in Encoders : StopRecording(e))
         \/ StopClicked \/ Collect
  PROVE  RecordingInv'
<1> USE DEF RecordingInv
<1>1. ASSUME NEW e \in Encoders, AddEncoder(e)
      PROVE  RecordingInv'
  <2>1. ThreadsOK'
    BY <1>1 DEF AddEncoder, ThreadsOK, Positions, RunLabels
  <2>2. FileOK'
    BY <1>1 DEF AddEncoder, FileOK, ClientInv
  <2>3. ClientInv'
    BY <1>1 DEF AddEncoder, ClientInv, NotPrepared, NotStarted
  <2>4. FeedInv'
    BY <1>1 DEF AddEncoder, FeedInv, NotStarted
  <2>5. CodecInv'
    BY <1>1 DEF AddEncoder, CodecInv, ClientInv, NotStarted
  <2>6. CountInv'
    BY <1>1 DEF AddEncoder, CountInv, Holds, ClientInv, NotStarted, CodecInv
  <2>7. MuxerInv'
    BY <1>1 DEF AddEncoder, MuxerInv, Holds, ClientInv, NotStarted, CodecInv
  <2>8. FlagsOK' /\ CodecsOK' /\ QueueInv'
    BY <1>1 DEF AddEncoder, FlagsOK, CodecsOK, QueueInv
  <2> QED BY <2>1, <2>2, <2>3, <2>4, <2>5, <2>6, <2>7, <2>8
<1>2. ASSUME NEW e \in Encoders, Added(e)
      PROVE  RecordingInv'
  <2>1. ThreadsOK'
    BY <1>2 DEF Added, Then, ThreadsOK, Positions
  <2>2. ClientInv'
    BY <1>2 DEF Added, Then, ClientInv, NotPrepared, NotStarted
  <2>3. FeedInv'
    BY <1>2 DEF Added, FeedInv, NotStarted
  <2>4. FlagsOK' /\ CodecsOK' /\ FileOK' /\ QueueInv' /\ CodecInv' /\ CountInv' /\ MuxerInv'
    BY <1>2 DEF Added, FlagsOK, CodecsOK, FileOK, QueueInv, CodecInv, CountInv, Holds, MuxerInv
  <2> QED BY <2>1, <2>2, <2>3, <2>4
<1>3. ASSUME NEW e \in Encoders, Prepare(e)
      PROVE  RecordingInv'
  <2>1. FlagsOK'
    BY <1>3 DEF Prepare, FlagsOK
  <2>2. ThreadsOK'
    BY <1>3 DEF Prepare, Then, ThreadsOK, Positions
  <2>3. CodecsOK'
    BY <1>3 DEF Prepare, CodecsOK
  <2>4. ClientInv'
    BY <1>3 DEF Prepare, Then, ClientInv, NotPrepared, NotStarted
  <2>5. QueueInv'
    BY <1>3 DEF Prepare, QueueInv
  <2>6. FeedInv'
    BY <1>3 DEF Prepare, FeedInv, NotStarted
  <2>7. CodecInv'
    <3>1. PICK found \in BOOLEAN :
            /\ client = <<"prepare", e>>
            /\ mMuxerStarted' = [mMuxerStarted EXCEPT ![e] = FALSE]
            /\ codec' = [codec EXCEPT ![e] = IF found THEN "running" ELSE "none"]
            /\ UNCHANGED <<run, tracks, formatSent>>
      BY <1>3 DEF Prepare
    <3>2. codec[e] = "none" /\ ~formatSent[e] /\ ~mMuxerStarted[e] /\ run[e] # "crashed"
      BY <3>1 DEF ClientInv, CodecInv, NotPrepared, NotStarted
    <3>3. \A f \in Encoders : f # e => codec'[f] = codec[f]
      BY <3>1 DEF CodecsOK
    <3>4. \A f \in Encoders : mMuxerStarted'[f] <=> mMuxerStarted[f]
      BY <3>1, <3>2 DEF FlagsOK
    <3>5. tracks' = {f \in Encoders : mMuxerStarted'[f]}
      <4>1. tracks' = {f \in Encoders : mMuxerStarted[f]}
        BY <3>1 DEF CodecInv
      <4> QED BY <3>4, <4>1
    <3>6. ASSUME NEW f \in Encoders
          PROVE  /\ mMuxerStarted'[f] <=> formatSent'[f]
                 /\ run'[f] \in {"drain", "muxerStart", "muxerWait", "write"} => codec'[f] = "running"
                 /\ run'[f] \in {"muxerStart", "muxerWait", "write", "muxerStop"} => mMuxerStarted'[f]
                 /\ mMuxerStarted'[f] /\ run'[f] \notin {"muxerStop", "exit", "done"}
                      => codec'[f] = "running"
                 /\ run'[f] = "crashed" => codec'[f] = "none"
      BY <3>1, <3>2, <3>3, <3>4 DEF CodecInv
    <3> QED BY <3>5, <3>6 DEF CodecInv
  <2>8. CountInv'
    BY <1>3 DEF Prepare, CountInv, Holds, ClientInv, NotStarted, CodecInv
  <2>9. MuxerInv'
    BY <1>3 DEF Prepare, MuxerInv, Holds, ClientInv, NotStarted, CodecInv
  <2>10. FileOK'
    BY <1>3 DEF Prepare, FileOK
  <2> QED BY <2>1, <2>2, <2>3, <2>4, <2>5, <2>6, <2>7, <2>8, <2>9, <2>10
<1>4. ASSUME NEW e \in Encoders, PrepareThrows(e)
      PROVE  RecordingInv'
  <2>1. ThreadsOK'
    BY <1>4 DEF PrepareThrows, ThreadsOK, Positions
  <2>2. ClientInv'
    BY <1>4 DEF PrepareThrows, ClientInv, NotPrepared, NotStarted
  <2>3. FeedInv'
    BY <1>4 DEF PrepareThrows, FeedInv, NotStarted
  <2>4. FlagsOK' /\ CodecsOK' /\ FileOK' /\ QueueInv' /\ CodecInv' /\ CountInv' /\ MuxerInv'
    BY <1>4 DEF PrepareThrows, FlagsOK, CodecsOK, FileOK, QueueInv, CodecInv, CountInv, Holds,
         MuxerInv
  <2> QED BY <2>1, <2>2, <2>3, <2>4
<1>5. ASSUME NEW e \in Encoders, StartRecording(e)
      PROVE  RecordingInv'
  <2>1. FlagsOK'
    BY <1>5 DEF StartRecording, FlagsOK
  <2>2. ThreadsOK'
    BY <1>5 DEF StartRecording, Then, Awake, ThreadsOK, Positions, RunLabels
  <2>3. ClientInv'
    BY <1>5 DEF StartRecording, Then, Awake, ClientInv, NotPrepared, NotStarted
  <2>4. FeedInv'
    BY <1>5 DEF StartRecording, Then, FeedInv, NotStarted, ThreadsOK, CodecsOK
  <2>5. CodecInv'
    BY <1>5 DEF StartRecording, Awake, CodecInv
  <2>6. CountInv'
    BY <1>5 DEF StartRecording, Awake, CountInv, Holds
  <2>7. MuxerInv'
    BY <1>5 DEF StartRecording, Awake, MuxerInv, Holds
  <2>8. CodecsOK' /\ FileOK' /\ QueueInv'
    BY <1>5 DEF StartRecording, CodecsOK, FileOK, QueueInv
  <2> QED BY <2>1, <2>2, <2>3, <2>4, <2>5, <2>6, <2>7, <2>8
<1>6. ASSUME NEW e \in Encoders, StopRecording(e)
      PROVE  RecordingInv'
  <2>1. FlagsOK'
    BY <1>6 DEF StopRecording, FlagsOK
  <2>2. ThreadsOK'
    BY <1>6 DEF StopRecording, Then, Awake, ThreadsOK, Positions, RunLabels
  <2>3. ClientInv'
    BY <1>6 DEF StopRecording, Then, ClientInv, NotPrepared, NotStarted
  <2>4. FeedInv'
    BY <1>6 DEF StopRecording, Then, FeedInv, NotStarted
  <2>5. CodecInv'
    BY <1>6 DEF StopRecording, Awake, CodecInv, ThreadsOK
  <2>6. CountInv'
    BY <1>6 DEF StopRecording, Awake, CountInv, Holds, ThreadsOK
  <2>7. MuxerInv'
    BY <1>6 DEF StopRecording, Awake, MuxerInv, Holds, ThreadsOK
  <2>8. CodecsOK' /\ FileOK' /\ QueueInv'
    BY <1>6 DEF StopRecording, CodecsOK, FileOK, QueueInv
  <2> QED BY <2>1, <2>2, <2>3, <2>4, <2>5, <2>6, <2>7, <2>8
<1>7. CASE StopClicked
  <2>1. ThreadsOK'
    BY <1>7 DEF StopClicked, ThreadsOK, Positions
  <2>2. ClientInv'
    BY <1>7 DEF StopClicked, ClientInv, NotPrepared, NotStarted
  <2>3. FeedInv'
    BY <1>7 DEF StopClicked, FeedInv, NotStarted
  <2>4. FlagsOK' /\ CodecsOK' /\ FileOK' /\ QueueInv' /\ CodecInv' /\ CountInv' /\ MuxerInv'
    BY <1>7 DEF StopClicked, FlagsOK, CodecsOK, FileOK, QueueInv, CodecInv, CountInv, Holds,
         MuxerInv
  <2> QED BY <2>1, <2>2, <2>3, <2>4
<1>8. CASE Collect
  <2>1. FlagsOK'
    BY <1>8 DEF Collect, FlagsOK
  <2>2. ClientInv'
    BY <1>8 DEF Collect, ClientInv, NotPrepared, NotStarted
  <2>3. CountInv'
    BY <1>8 DEF Collect, CountInv
  <2>4. MuxerInv'
    BY <1>8 DEF Collect, MuxerInv, Holds
  <2>5. ThreadsOK' /\ CodecsOK' /\ FileOK' /\ QueueInv' /\ FeedInv' /\ CodecInv'
    BY <1>8 DEF Collect, ThreadsOK, CodecsOK, FileOK, QueueInv, FeedInv, NotStarted, CodecInv
  <2> QED BY <2>1, <2>2, <2>3, <2>4, <2>5
<1> QED BY <1>1, <1>2, <1>3, <1>4, <1>5, <1>6, <1>7, <1>8

\* An encoder thread until it drains.
LEMMA DrainSteps ==
  ASSUME RecordingAssumption, RecordingInv,
         (\E e \in Encoders : RunStart(e)) \/ (\E e \in Encoders : Check(e))
         \/ (\E e \in Encoders : Sleep(e)) \/ (\E e \in Encoders : DrainEnd(e))
         \/ (\E e \in Encoders : DrainFormat(e)) \/ (\E e \in Encoders : DrainOutput(e))
  PROVE  RecordingInv'
<1> USE DEF RecordingInv
<1>1. ASSUME NEW e \in Encoders, RunStart(e)
      PROVE  RecordingInv'
  <2>1. FlagsOK'
    BY <1>1 DEF RunStart, FlagsOK
  <2>2. ThreadsOK'
    BY <1>1 DEF RunStart, ThreadsOK, RunLabels
  <2>3. CodecsOK'
    BY <1>1 DEF RunStart, CodecsOK
  <2>4. ClientInv'
    BY <1>1 DEF RunStart, ClientInv, NotPrepared, NotStarted
  <2>5. FeedInv'
    BY <1>1 DEF RunStart, FeedInv, NotStarted, CodecsOK
  <2>6. CodecInv'
    BY <1>1 DEF RunStart, CodecInv
  <2>7. CountInv'
    BY <1>1 DEF RunStart, CountInv, Holds
  <2>8. MuxerInv'
    BY <1>1 DEF RunStart, MuxerInv, Holds
  <2>9. FileOK' /\ QueueInv'
    BY <1>1 DEF RunStart, FileOK, QueueInv
  <2> QED BY <2>1, <2>2, <2>3, <2>4, <2>5, <2>6, <2>7, <2>8, <2>9
<1>2. ASSUME NEW e \in Encoders, Check(e)
      PROVE  RecordingInv'
  <2>1. ThreadsOK'
    BY <1>2 DEF Check, Drain, ThreadsOK, RunLabels
  <2>2. CodecsOK'
    BY <1>2 DEF Check, CodecsOK
  <2>3. ClientInv'
    BY <1>2 DEF Check, Drain, ClientInv, NotPrepared, NotStarted, ThreadsOK
  <2>4. FeedInv'
    BY <1>2 DEF Check, FeedInv, NotStarted, CodecsOK
  <2>5. CodecInv'
    BY <1>2 DEF Check, Drain, CodecInv, ThreadsOK, CodecsOK
  <2>6. CountInv'
    BY <1>2 DEF Check, Drain, CountInv, Holds, ThreadsOK
  <2>7. MuxerInv'
    BY <1>2 DEF Check, Drain, MuxerInv, Holds, ThreadsOK
  <2>8. FlagsOK' /\ FileOK' /\ QueueInv'
    BY <1>2 DEF Check, FlagsOK, FileOK, QueueInv
  <2> QED BY <2>1, <2>2, <2>3, <2>4, <2>5, <2>6, <2>7, <2>8
<1>3. ASSUME NEW e \in Encoders, Sleep(e)
      PROVE  RecordingInv'
  <2>1. ThreadsOK'
    BY <1>3 DEF Sleep, ThreadsOK, RunLabels
  <2>2. ClientInv'
    BY <1>3 DEF Sleep, ClientInv, NotPrepared, NotStarted
  <2>3. CodecInv'
    BY <1>3 DEF Sleep, CodecInv
  <2>4. CountInv'
    BY <1>3 DEF Sleep, CountInv, Holds
  <2>5. MuxerInv'
    BY <1>3 DEF Sleep, MuxerInv, Holds
  <2>6. FlagsOK' /\ CodecsOK' /\ FileOK' /\ QueueInv' /\ FeedInv'
    BY <1>3 DEF Sleep, FlagsOK, CodecsOK, FileOK, QueueInv, FeedInv, NotStarted
  <2> QED BY <2>1, <2>2, <2>3, <2>4, <2>5, <2>6
<1>4. ASSUME NEW e \in Encoders, DrainEnd(e)
      PROVE  RecordingInv'
  <2>1. ThreadsOK'
    BY <1>4 DEF DrainEnd, ThreadsOK, RunLabels
  <2>2. ClientInv'
    BY <1>4 DEF DrainEnd, ClientInv, NotPrepared, NotStarted, ThreadsOK
  <2>3. CodecInv'
    BY <1>4 DEF DrainEnd, CodecInv, ThreadsOK
  <2>4. CountInv'
    BY <1>4 DEF DrainEnd, CountInv, Holds, ThreadsOK
  <2>5. MuxerInv'
    BY <1>4 DEF DrainEnd, MuxerInv, Holds, ThreadsOK
  <2>6. FlagsOK' /\ CodecsOK' /\ FileOK' /\ QueueInv' /\ FeedInv'
    BY <1>4 DEF DrainEnd, FlagsOK, CodecsOK, FileOK, QueueInv, FeedInv, NotStarted
  <2> QED BY <2>1, <2>2, <2>3, <2>4, <2>5, <2>6
<1>5. ASSUME NEW e \in Encoders, DrainFormat(e)
      PROVE  RecordingInv'
  <2>1. FlagsOK'
    BY <1>5 DEF DrainFormat, FlagsOK
  <2>2. ThreadsOK'
    BY <1>5 DEF DrainFormat, ThreadsOK, RunLabels
  <2>3. FileOK'
    BY <1>5 DEF DrainFormat, FileOK
  <2>4. ClientInv'
    BY <1>5 DEF DrainFormat, ClientInv, NotPrepared, NotStarted, ThreadsOK
  <2>5. CodecInv'
    BY <1>5 DEF DrainFormat, CodecInv, FlagsOK, ThreadsOK, MuxerInv
  <2>6. CountInv'
    BY <1>5 DEF DrainFormat, CountInv, Holds, FlagsOK, ThreadsOK
  <2>7. MuxerInv'
    BY <1>5 DEF DrainFormat, MuxerInv, Holds, FlagsOK, ThreadsOK
  <2>8. CodecsOK' /\ QueueInv' /\ FeedInv'
    BY <1>5 DEF DrainFormat, CodecsOK, QueueInv, FeedInv, NotStarted
  <2> QED BY <2>1, <2>2, <2>3, <2>4, <2>5, <2>6, <2>7, <2>8
<1>6. ASSUME NEW e \in Encoders, DrainOutput(e)
      PROVE  RecordingInv'
  <2>1. FlagsOK'
    BY <1>6 DEF DrainOutput, FlagsOK, QueueInv
  <2>2. ThreadsOK'
    BY <1>6 DEF DrainOutput, ThreadsOK, RunLabels
  <2>3. CodecsOK'
    BY <1>6 DEF DrainOutput, CodecsOK
  <2>4. ClientInv'
    BY <1>6 DEF DrainOutput, ClientInv, NotPrepared, NotStarted, FlagsOK, ThreadsOK
  <2>5. QueueInv'
    BY <1>6 DEF DrainOutput, QueueInv
  <2>6. CodecInv'
    BY <1>6 DEF DrainOutput, CodecInv, QueueInv, ThreadsOK
  <2>7. CountInv'
    BY <1>6 DEF DrainOutput, CountInv, Holds, QueueInv, ThreadsOK
  <2>8. MuxerInv'
    BY <1>6 DEF DrainOutput, MuxerInv, Holds, QueueInv, ThreadsOK
  <2>9. FileOK' /\ FeedInv'
    BY <1>6 DEF DrainOutput, FileOK, FeedInv, NotStarted
  <2> QED BY <2>1, <2>2, <2>3, <2>4, <2>5, <2>6, <2>7, <2>8, <2>9
<1> QED BY <1>1, <1>2, <1>3, <1>4, <1>5, <1>6

\* An encoder thread and the muxer, and its end.
LEMMA MuxerSteps ==
  ASSUME RecordingAssumption, RecordingInv,
         (\E e \in Encoders : MuxerStart(e)) \/ (\E e \in Encoders : MuxerWait(e))
         \/ (\E e \in Encoders : Write(e)) \/ (\E e \in Encoders : Signal(e))
         \/ (\E e \in Encoders : Release(e)) \/ (\E e \in Encoders : ReleaseCodec(e))
         \/ (\E e \in Encoders : MuxerStop(e)) \/ (\E e \in Encoders : Exit(e))
  PROVE  RecordingInv'
<1> USE DEF RecordingInv
<1>1. ASSUME NEW e \in Encoders, MuxerStart(e)
      PROVE  RecordingInv'
  <2>1. FlagsOK'
    BY <1>1 DEF MuxerStart, FlagsOK
  <2>2. ThreadsOK'
    BY <1>1 DEF MuxerStart, ThreadsOK, RunLabels
  <2>3. FileOK'
    BY <1>1 DEF MuxerStart, FileOK, CountInv, Holds
  <2>4. ClientInv'
    BY <1>1 DEF MuxerStart, ClientInv, NotPrepared, NotStarted
  <2>5. CodecInv'
    BY <1>1 DEF MuxerStart, CodecInv
  <2>6. CountInv'
    BY <1>1 DEF MuxerStart, CountInv, Holds, ThreadsOK, CodecInv
  <2>7. MuxerInv'
    BY <1>1 DEF MuxerStart, MuxerInv, Holds, ThreadsOK, ClientInv, NotPrepared, CodecInv,
         CountInv
  <2>8. CodecsOK' /\ QueueInv' /\ FeedInv'
    BY <1>1 DEF MuxerStart, CodecsOK, QueueInv, FeedInv, NotStarted
  <2> QED BY <2>1, <2>2, <2>3, <2>4, <2>5, <2>6, <2>7, <2>8
<1>2. ASSUME NEW e \in Encoders, MuxerWait(e)
      PROVE  RecordingInv'
  <2>1. ThreadsOK'
    BY <1>2 DEF MuxerWait, ThreadsOK, RunLabels
  <2>2. ClientInv'
    BY <1>2 DEF MuxerWait, ClientInv, NotPrepared, NotStarted
  <2>3. CodecInv'
    BY <1>2 DEF MuxerWait, CodecInv
  <2>4. CountInv'
    BY <1>2 DEF MuxerWait, CountInv, Holds
  <2>5. MuxerInv'
    BY <1>2 DEF MuxerWait, MuxerInv, Holds
  <2>6. FlagsOK' /\ CodecsOK' /\ FileOK' /\ QueueInv' /\ FeedInv'
    BY <1>2 DEF MuxerWait, FlagsOK, CodecsOK, FileOK, QueueInv, FeedInv, NotStarted
  <2> QED BY <2>1, <2>2, <2>3, <2>4, <2>5, <2>6
<1>3. ASSUME NEW e \in Encoders, Write(e)
      PROVE  RecordingInv'
  <2>1. ThreadsOK'
    BY <1>3 DEF Write, ThreadsOK, RunLabels
  <2>2. FileOK'
    BY <1>3 DEF Write, FileOK
  <2>3. ClientInv'
    BY <1>3 DEF Write, ClientInv, NotPrepared, NotStarted, ThreadsOK, CodecInv
  <2>4. CodecInv'
    BY <1>3 DEF Write, CodecInv, ThreadsOK, FileOK, CountInv, Holds, MuxerInv
  <2>5. CountInv'
    BY <1>3 DEF Write, CountInv, Holds, ThreadsOK
  <2>6. MuxerInv'
    BY <1>3 DEF Write, MuxerInv, Holds, ThreadsOK
  <2>7. FlagsOK' /\ CodecsOK' /\ QueueInv' /\ FeedInv'
    BY <1>3 DEF Write, FlagsOK, CodecsOK, QueueInv, FeedInv, NotStarted
  <2> QED BY <2>1, <2>2, <2>3, <2>4, <2>5, <2>6, <2>7
<1>4. ASSUME NEW e \in Encoders, Signal(e)
      PROVE  RecordingInv'
  <2>1. FlagsOK'
    BY <1>4 DEF Signal, Encode, FlagsOK
  <2>2. ThreadsOK'
    BY <1>4 DEF Signal, Drain, ThreadsOK, RunLabels
  <2>3. CodecsOK'
    BY <1>4 DEF Signal, Encode, CodecsOK
  <2>4. ClientInv'
    BY <1>4 DEF Signal, Drain, ClientInv, NotPrepared, NotStarted, ThreadsOK
  <2>5. QueueInv'
    BY <1>4 DEF Signal, Encode, QueueInv
  <2>6. CodecInv'
    BY <1>4 DEF Signal, Drain, CodecInv, ThreadsOK, CodecsOK
  <2>7. CountInv'
    BY <1>4 DEF Signal, Drain, CountInv, Holds, ThreadsOK
  <2>8. MuxerInv'
    BY <1>4 DEF Signal, Drain, MuxerInv, Holds, ThreadsOK
  <2>9. FileOK' /\ FeedInv'
    BY <1>4 DEF Signal, FileOK, FeedInv, NotStarted
  <2> QED BY <2>1, <2>2, <2>3, <2>4, <2>5, <2>6, <2>7, <2>8, <2>9
<1>5. ASSUME NEW e \in Encoders, Release(e)
      PROVE  RecordingInv'
  <2>1. FlagsOK'
    BY <1>5 DEF Release, FlagsOK
  <2>2. ThreadsOK'
    BY <1>5 DEF Release, ThreadsOK, RunLabels
  <2>3. ClientInv'
    BY <1>5 DEF Release, ClientInv, NotPrepared, NotStarted
  <2>4. CodecInv'
    BY <1>5 DEF Release, CodecInv
  <2>5. CountInv'
    BY <1>5 DEF Release, CountInv, Holds
  <2>6. MuxerInv'
    BY <1>5 DEF Release, MuxerInv, Holds
  <2>7. CodecsOK' /\ FileOK' /\ QueueInv' /\ FeedInv'
    BY <1>5 DEF Release, CodecsOK, FileOK, QueueInv, FeedInv, NotStarted
  <2> QED BY <2>1, <2>2, <2>3, <2>4, <2>5, <2>6, <2>7
<1>6. ASSUME NEW e \in Encoders, ReleaseCodec(e)
      PROVE  RecordingInv'
  <2>1. ThreadsOK'
    BY <1>6 DEF ReleaseCodec, ThreadsOK, RunLabels
  <2>2. CodecsOK'
    BY <1>6 DEF ReleaseCodec, CodecsOK
  <2>3. ClientInv'
    BY <1>6 DEF ReleaseCodec, ClientInv, NotPrepared, NotStarted
  <2>4. QueueInv'
    BY <1>6 DEF ReleaseCodec, QueueInv
  <2>5. CodecInv'
    BY <1>6 DEF ReleaseCodec, CodecInv, ThreadsOK
  <2>6. CountInv'
    BY <1>6 DEF ReleaseCodec, CountInv, Holds
  <2>7. MuxerInv'
    BY <1>6 DEF ReleaseCodec, MuxerInv, Holds
  <2>8. FlagsOK' /\ FileOK' /\ FeedInv'
    BY <1>6 DEF ReleaseCodec, FlagsOK, FileOK, FeedInv, NotStarted
  <2> QED BY <2>1, <2>2, <2>3, <2>4, <2>5, <2>6, <2>7, <2>8
<1>7. ASSUME NEW e \in Encoders, MuxerStop(e)
      PROVE  RecordingInv'
  <2>1. FlagsOK'
    BY <1>7 DEF MuxerStop, FlagsOK
  <2>2. ThreadsOK'
    BY <1>7 DEF MuxerStop, ThreadsOK, RunLabels
  <2>3. FileOK'
    BY <1>7 DEF MuxerStop, FileOK, CodecInv, CountInv, Holds
  <2>4. ClientInv'
    BY <1>7 DEF MuxerStop, ClientInv, NotPrepared, NotStarted
  <2>5. CodecInv'
    BY <1>7 DEF MuxerStop, CodecInv
  <2>6. CountInv'
    BY <1>7 DEF MuxerStop, CountInv, Holds, ThreadsOK, CodecInv
  <2>7. MuxerInv'
    BY <1>7 DEF MuxerStop, MuxerInv, Holds, ThreadsOK, ClientInv, NotStarted, CodecInv, CountInv
  <2>8. CodecsOK' /\ QueueInv' /\ FeedInv'
    BY <1>7 DEF MuxerStop, CodecsOK, QueueInv, FeedInv, NotStarted
  <2> QED BY <2>1, <2>2, <2>3, <2>4, <2>5, <2>6, <2>7, <2>8
<1>8. ASSUME NEW e \in Encoders, Exit(e)
      PROVE  RecordingInv'
  <2>1. FlagsOK'
    BY <1>8 DEF Exit, FlagsOK
  <2>2. ThreadsOK'
    BY <1>8 DEF Exit, ThreadsOK, RunLabels
  <2>3. ClientInv'
    BY <1>8 DEF Exit, ClientInv, NotPrepared, NotStarted
  <2>4. CodecInv'
    BY <1>8 DEF Exit, CodecInv
  <2>5. CountInv'
    BY <1>8 DEF Exit, CountInv, Holds
  <2>6. MuxerInv'
    BY <1>8 DEF Exit, MuxerInv, Holds
  <2>7. CodecsOK' /\ FileOK' /\ QueueInv' /\ FeedInv'
    BY <1>8 DEF Exit, CodecsOK, FileOK, QueueInv, FeedInv, NotStarted
  <2> QED BY <2>1, <2>2, <2>3, <2>4, <2>5, <2>6, <2>7
<1> QED BY <1>1, <1>2, <1>3, <1>4, <1>5, <1>6, <1>7, <1>8

\* The sources of frames.
LEMMA FeedSteps ==
  ASSUME RecordingAssumption, RecordingInv,
         RenderFrame \/ DrawFrame \/ OnFrame \/ EncodeTest \/ ReadAudio \/ AudioEnds
         \/ AudioSoon \/ (\E e \in Encoders : EncodeFrame(e))
  PROVE  RecordingInv'
<1> USE DEF RecordingInv
<1>1. CASE RenderFrame
  <2>1. ThreadsOK'
    BY <1>1 DEF RenderFrame, FrameAvailableSoon, Awake, ThreadsOK, RunLabels
  <2>2. CodecsOK'
    BY <1>1 DEF RenderFrame, NewFrame, FrameAvailableSoon, CodecsOK, FeedInv
  <2>3. ClientInv'
    BY <1>1 DEF RenderFrame, FrameAvailableSoon, Awake, ClientInv, NotPrepared, NotStarted,
         ThreadsOK
  <2>4. FeedInv'
    BY <1>1 DEF RenderFrame, NewFrame, FrameAvailableSoon, FeedInv, NotStarted, CodecsOK
  <2>5. CodecInv'
    BY <1>1 DEF RenderFrame, FrameAvailableSoon, Awake, CodecInv, ThreadsOK
  <2>6. CountInv'
    BY <1>1 DEF RenderFrame, FrameAvailableSoon, Awake, CountInv, Holds, ThreadsOK
  <2>7. MuxerInv'
    BY <1>1 DEF RenderFrame, FrameAvailableSoon, Awake, MuxerInv, Holds, ThreadsOK
  <2>8. FlagsOK' /\ FileOK' /\ QueueInv'
    BY <1>1 DEF RenderFrame, FlagsOK, FileOK, QueueInv
  <2> QED BY <2>1, <2>2, <2>3, <2>4, <2>5, <2>6, <2>7, <2>8
<1>2. CASE DrawFrame
  <2>1. ThreadsOK'
    BY <1>2 DEF DrawFrame, ThreadsOK
  <2>2. CodecsOK'
    BY <1>2 DEF DrawFrame, CodecsOK
  <2>3. QueueInv'
    BY <1>2 DEF DrawFrame, QueueInv
  <2>4. FeedInv'
    BY <1>2 DEF DrawFrame, FeedInv, NotStarted
  <2>5. FlagsOK' /\ FileOK' /\ ClientInv' /\ CodecInv' /\ CountInv' /\ MuxerInv'
    BY <1>2 DEF DrawFrame, FlagsOK, FileOK, ClientInv, NotPrepared, NotStarted, CodecInv,
         CountInv, Holds, MuxerInv
  <2> QED BY <2>1, <2>2, <2>3, <2>4, <2>5
<1>3. CASE OnFrame
  <2>1. ThreadsOK'
    BY <1>3 DEF OnFrame, FrameAvailableSoon, Awake, ThreadsOK, RunLabels
  <2>2. CodecsOK'
    BY <1>3 DEF OnFrame, NewFrame, FrameAvailableSoon, CodecsOK, FeedInv
  <2>3. ClientInv'
    BY <1>3 DEF OnFrame, ClientInv, NotPrepared, NotStarted
  <2>4. FeedInv'
    BY <1>3 DEF OnFrame, NewFrame, FrameAvailableSoon, FeedInv, NotStarted, CodecsOK
  <2>5. CodecInv'
    BY <1>3 DEF OnFrame, FrameAvailableSoon, Awake, CodecInv, ThreadsOK
  <2>6. CountInv'
    BY <1>3 DEF OnFrame, FrameAvailableSoon, Awake, CountInv, Holds, ThreadsOK
  <2>7. MuxerInv'
    BY <1>3 DEF OnFrame, FrameAvailableSoon, Awake, MuxerInv, Holds, ThreadsOK
  <2>8. FlagsOK' /\ FileOK' /\ QueueInv'
    BY <1>3 DEF OnFrame, FlagsOK, FileOK, QueueInv
  <2> QED BY <2>1, <2>2, <2>3, <2>4, <2>5, <2>6, <2>7, <2>8
<1>4. CASE EncodeTest
  <2>1. ThreadsOK'
    BY <1>4 DEF EncodeTest, ThreadsOK
  <2>2. FeedInv'
    BY <1>4 DEF EncodeTest, FeedInv, NotStarted
  <2>3. FlagsOK' /\ CodecsOK' /\ FileOK' /\ ClientInv' /\ QueueInv' /\ CodecInv' /\ CountInv' /\ MuxerInv'
    BY <1>4 DEF EncodeTest, FlagsOK, CodecsOK, FileOK, ClientInv, NotPrepared, NotStarted,
         QueueInv, CodecInv, CountInv, Holds, MuxerInv
  <2> QED BY <2>1, <2>2, <2>3
<1>5. CASE ReadAudio
  <2>1. ThreadsOK'
    BY <1>5 DEF ReadAudio, ThreadsOK
  <2>2. CodecsOK'
    BY <1>5 DEF ReadAudio, NewFrame, CodecsOK
  <2>3. FeedInv'
    BY <1>5 DEF ReadAudio, NewFrame, FeedInv, NotStarted, CodecsOK
  <2>4. FlagsOK' /\ FileOK' /\ ClientInv' /\ QueueInv' /\ CodecInv' /\ CountInv' /\ MuxerInv'
    BY <1>5 DEF ReadAudio, FlagsOK, FileOK, ClientInv, NotPrepared, NotStarted, QueueInv,
         CodecInv, CountInv, Holds, MuxerInv
  <2> QED BY <2>1, <2>2, <2>3, <2>4
<1>6. CASE AudioEnds
  <2>1. ThreadsOK'
    BY <1>6 DEF AudioEnds, FrameAvailableSoon, Awake, ThreadsOK, RunLabels
  <2>2. CodecsOK'
    BY <1>6 DEF AudioEnds, FrameAvailableSoon, CodecsOK, FeedInv
  <2>3. ClientInv'
    BY <1>6 DEF AudioEnds, FrameAvailableSoon, Accepts, ClientInv, NotPrepared, NotStarted
  <2>4. FeedInv'
    BY <1>6 DEF AudioEnds, FrameAvailableSoon, FeedInv, NotStarted, ThreadsOK, CodecsOK
  <2>5. CodecInv'
    BY <1>6 DEF AudioEnds, FrameAvailableSoon, Awake, CodecInv, ThreadsOK
  <2>6. CountInv'
    BY <1>6 DEF AudioEnds, FrameAvailableSoon, Awake, CountInv, Holds, ThreadsOK
  <2>7. MuxerInv'
    BY <1>6 DEF AudioEnds, FrameAvailableSoon, Awake, MuxerInv, Holds, ThreadsOK
  <2>8. FlagsOK' /\ FileOK' /\ QueueInv'
    BY <1>6 DEF AudioEnds, FlagsOK, FileOK, QueueInv
  <2> QED BY <2>1, <2>2, <2>3, <2>4, <2>5, <2>6, <2>7, <2>8
<1>7. CASE AudioSoon
  <2>1. ThreadsOK'
    BY <1>7 DEF AudioSoon, FrameAvailableSoon, Awake, ThreadsOK, RunLabels
  <2>2. CodecsOK'
    BY <1>7 DEF AudioSoon, FrameAvailableSoon, CodecsOK, FeedInv
  <2>3. ClientInv'
    BY <1>7 DEF AudioSoon, FrameAvailableSoon, Accepts, ClientInv, NotPrepared, NotStarted
  <2>4. FeedInv'
    BY <1>7 DEF AudioSoon, FrameAvailableSoon, FeedInv, NotStarted, ThreadsOK, CodecsOK
  <2>5. CodecInv'
    BY <1>7 DEF AudioSoon, FrameAvailableSoon, Awake, CodecInv, ThreadsOK
  <2>6. CountInv'
    BY <1>7 DEF AudioSoon, FrameAvailableSoon, Awake, CountInv, Holds, ThreadsOK
  <2>7. MuxerInv'
    BY <1>7 DEF AudioSoon, FrameAvailableSoon, Awake, MuxerInv, Holds, ThreadsOK
  <2>8. FlagsOK' /\ FileOK' /\ QueueInv'
    BY <1>7 DEF AudioSoon, FlagsOK, FileOK, QueueInv
  <2> QED BY <2>1, <2>2, <2>3, <2>4, <2>5, <2>6, <2>7, <2>8
<1>8. ASSUME NEW e \in Encoders, EncodeFrame(e)
      PROVE  RecordingInv'
  <2>1. FlagsOK'
    BY <1>8 DEF EncodeFrame, Encode, FlagsOK
  <2>2. ThreadsOK'
    BY <1>8 DEF EncodeFrame, ThreadsOK
  <2>3. CodecsOK'
    <3>1. queue' = queue \/ queue' = [queue EXCEPT ![e] = Append(queue[e], "frame")]
      BY <1>8 DEF EncodeFrame, Encode
    <3> DEFINE Q == Seq({"frame", "eos"})
    <3>2. /\ queue \in [Encoders -> Q]
          /\ \A s \in Q : Append(s, "frame") \in Q
      BY DEF CodecsOK
    <3> HIDE DEF Q
    <3>3. queue' \in [Encoders -> Q]
      <4> DEFINE longer == Append(queue[e], "frame")
      <4>1. longer \in Q
        BY <3>2
      <4>2. queue' = queue \/ queue' = [queue EXCEPT ![e] = longer]
        BY <3>1
      <4> HIDE DEF longer
      <4> QED BY <3>2, <4>1, <4>2
    <3> USE DEF Q
    <3> QED BY <1>8, <3>3 DEF EncodeFrame, CodecsOK
  <2>4. QueueInv'
    <3>1. queue' = queue \/ queue' = [queue EXCEPT ![e] = Append(queue[e], "frame")]
      BY <1>8 DEF EncodeFrame, Encode
    <3> DEFINE Q == Seq({"frame"})
    <3>2. /\ queue \in [Encoders -> Q]
          /\ \A s \in Q : Append(s, "frame") \in Q
      BY DEF QueueInv
    <3> HIDE DEF Q
    <3>3. queue' \in [Encoders -> Q]
      <4> DEFINE longer == Append(queue[e], "frame")
      <4>1. longer \in Q
        BY <3>2
      <4>2. queue' = queue \/ queue' = [queue EXCEPT ![e] = longer]
        BY <3>1
      <4> HIDE DEF longer
      <4> QED BY <3>2, <4>1, <4>2
    <3> USE DEF Q
    <3>4. mIsEOS' = mIsEOS \/ mIsEOS' = [mIsEOS EXCEPT ![e] = mIsEOS[e] \/ 1 <= 0]
      BY <1>8 DEF EncodeFrame, Encode
    <3>5. ~(1 <= 0)
      OBVIOUS
    <3>6. \A f \in Encoders : ~mIsEOS'[f]
      BY <3>4, <3>5, ZenonT(30) DEF QueueInv, FlagsOK
    <3> QED BY <3>3, <3>6 DEF QueueInv
  <2>5. FeedInv'
    BY <1>8 DEF EncodeFrame, FeedInv, NotStarted, ThreadsOK, CodecsOK
  <2>6. FileOK' /\ ClientInv' /\ CodecInv' /\ CountInv' /\ MuxerInv'
    BY <1>8 DEF EncodeFrame, FileOK, ClientInv, NotPrepared, NotStarted, CodecInv, CountInv,
         Holds, MuxerInv
  <2> QED BY <2>1, <2>2, <2>3, <2>4, <2>5, <2>6
<1> QED BY <1>1, <1>2, <1>3, <1>4, <1>5, <1>6, <1>7, <1>8

LEMMA InitInv ==
  ASSUME RecordingAssumption, Init
  PROVE  RecordingInv
<1>1. FlagsOK /\ ThreadsOK
  BY DEF Init, FlagsOK, ThreadsOK, Positions, RunLabels
<1>2. CodecsOK /\ FileOK
  BY DEF RecordingAssumption, Init, CodecsOK, FileOK
<1>3. ClientInv /\ QueueInv /\ FeedInv
  BY DEF Init, ClientInv, QueueInv, FeedInv, NotPrepared, NotStarted
<1>4. CodecInv
  <2>1. tracks = {e \in Encoders : mMuxerStarted[e]}
    BY DEF Init
  <2>2. \A e \in Encoders : ~mMuxerStarted[e] /\ ~formatSent[e] /\ run[e] = "none"
    BY DEF Init
  <2> QED BY <2>1, <2>2 DEF CodecInv
<1>5. CountInv /\ MuxerInv
  BY DEF Init, CountInv, MuxerInv, Holds
<1> QED BY <1>1, <1>2, <1>3, <1>4, <1>5 DEF RecordingInv

LEMMA NextInv ==
  ASSUME RecordingAssumption, RecordingInv, [Next]_vars
  PROVE  RecordingInv'
<1>1. CASE UNCHANGED vars
  BY <1>1 DEF vars, RecordingInv, FlagsOK, ThreadsOK, CodecsOK, FileOK, ClientInv, NotPrepared,
       NotStarted, QueueInv, FeedInv, CodecInv, CountInv, Holds, MuxerInv
<1>2. CASE ClientStep \/ StopClicked \/ Collect
  BY <1>2, ClientSteps DEF ClientStep
<1>3. CASE \E e \in Encoders : RunStep(e)
  <2>1. PICK e \in Encoders : RunStep(e)
    BY <1>3
  <2> QED BY <2>1, DrainSteps, MuxerSteps DEF RunStep
<1>4. CASE FeedStep
  BY <1>4, FeedSteps DEF FeedStep
<1> QED BY <1>1, <1>2, <1>3, <1>4 DEF Next

-----------------------------------------------------------------------------
(* The theorems *)

\* The inductive invariant holds of every recording.
THEOREM InvariantHolds ==
  RecordingAssumption /\ Spec => []RecordingInv
<1> SUFFICES ASSUME RecordingAssumption PROVE Spec => []RecordingInv
  OBVIOUS
<1>1. Init => RecordingInv
  BY InitInv
<1>2. RecordingInv /\ [Next]_vars => RecordingInv'
  BY NextInv
<1> QED BY <1>1, <1>2, PTL DEF Spec

\* The fields of MediaEncoder and MediaMuxerWrapper stay in their ranges: mStartedCount counts
\* no encoder twice, and no request to drain is made that no frame asked for.
THEOREM TypeCorrect ==
  RecordingAssumption /\ Spec => []TypeOK
<1> SUFFICES ASSUME RecordingAssumption PROVE Spec => []TypeOK
  OBVIOUS
<1>1. RecordingInv => TypeOK
  BY DEF RecordingInv, TypeOK
<1> QED BY <1>1, InvariantHolds, PTL

\* No encoder that has its codec is ended by an exception of the muxer, however the two encoders
\* start, drain and stop.
THEOREM EncodersNeverCrash ==
  RecordingAssumption /\ Spec => []NoEncoderCrashes
<1> SUFFICES ASSUME RecordingAssumption PROVE Spec => []NoEncoderCrashes
  OBVIOUS
<1>1. RecordingInv => NoEncoderCrashes
  BY DEF RecordingInv, CodecInv, CodecsOK, NoEncoderCrashes
<1> QED BY <1>1, InvariantHolds, PTL

\* The last encoder to end finishes the file, if it was started.
THEOREM FileIsFinished ==
  RecordingAssumption /\ Spec => []RecordingIsClosed
<1> SUFFICES ASSUME RecordingAssumption PROVE Spec => []RecordingIsClosed
  OBVIOUS
<1>1. RecordingInv => RecordingIsClosed
  BY DEF RecordingInv, MuxerInv, Holds, RecordingIsClosed
<1> QED BY <1>1, InvariantHolds, PTL

\* What each step does to the file.
LEMMA StepsOfTheMuxer ==
  ASSUME RecordingAssumption, RecordingInv, [Next]_vars
  PROVE  [Muxer!Next]_(Muxer!vars)
<1> USE DEF RecordingInv
<1>1. CASE UNCHANGED vars
  BY <1>1 DEF vars, Muxer!vars
<1>2. CASE ClientStep \/ StopClicked \/ Collect
  BY <1>2 DEF ClientStep, AddEncoder, Added, Prepare, PrepareThrows, StartRecording, StopRecording,
       StopClicked, Collect, Muxer!vars
<1>3. CASE FeedStep
  BY <1>3 DEF FeedStep, RenderFrame, DrawFrame, OnFrame, EncodeTest, ReadAudio, AudioEnds,
       AudioSoon, EncodeFrame, Muxer!vars
<1>4. ASSUME NEW e \in Encoders, DrainFormat(e)
      PROVE  Muxer!AddTrack(e)
  <2>1. run[e] = "drain" /\ ~formatSent[e] /\ ~mMuxerStarted[e] /\ e \notin tracks
    BY <1>4 DEF DrainFormat, CodecInv
  <2>2. mediaMuxer = "initialized" /\ ~mIsStarted
    BY <2>1 DEF MuxerInv, FileOK
  <2> QED BY <1>4, <2>1, <2>2 DEF DrainFormat, Muxer!AddTrack
<1>5. ASSUME NEW e \in Encoders, MuxerStart(e)
      PROVE  Muxer!Start \/ UNCHANGED Muxer!vars
  <2>1. UNCHANGED <<tracks, written>> /\ run[e] = "muxerStart" /\ mMuxerStarted[e]
    BY <1>5 DEF MuxerStart, CodecInv
  <2>2. mediaMuxer = "initialized" /\ ~collected
    BY <2>1 DEF MuxerInv, FileOK, CountInv
  <2>3. CASE mStartedCount + 1 = mEncoderCount
    <3>1. mediaMuxer' = "started" \/ mediaMuxer' = mediaMuxer
      BY <1>5 DEF MuxerStart
    <3>2. mEncoderCount = 2
      BY <1>5, <2>1, <2>3 DEF ClientInv, CodecInv, CodecsOK, NotPrepared, ThreadsOK, Positions
    <3>3. \A f \in Encoders : mMuxerStarted[f]
      BY <2>1, <2>2, <2>3, <3>2 DEF CountInv, Holds
    <3>4. tracks = Encoders
      BY <3>3 DEF CodecInv
    <3> QED BY <2>1, <2>2, <3>1, <3>4 DEF Muxer!Start, Muxer!vars
  <2>4. CASE mStartedCount + 1 # mEncoderCount
    BY <1>5, <2>1, <2>4 DEF MuxerStart, Muxer!vars
  <2> QED BY <2>3, <2>4
<1>6. ASSUME NEW e \in Encoders, Write(e)
      PROVE  Muxer!Write(e) \/ UNCHANGED Muxer!vars
  BY <1>6 DEF Write, Muxer!Write, Muxer!vars
<1>7. ASSUME NEW e \in Encoders, MuxerStop(e)
      PROVE  Muxer!Stop \/ UNCHANGED Muxer!vars
  BY <1>7 DEF MuxerStop, Muxer!Stop, Muxer!vars
<1>8. ASSUME NEW e \in Encoders,
             \/ RunStart(e) \/ Check(e) \/ Sleep(e) \/ DrainEnd(e) \/ MuxerWait(e) \/ DrainOutput(e)
             \/ Signal(e) \/ Release(e) \/ ReleaseCodec(e) \/ Exit(e)
      PROVE  UNCHANGED Muxer!vars
  BY <1>8 DEF RunStart, Check, Sleep, DrainEnd, MuxerWait, DrainOutput, Signal, Release,
       ReleaseCodec, Exit, Muxer!vars
<1>9. CASE \E e \in Encoders : RunStep(e)
  <2>1. PICK e \in Encoders : RunStep(e)
    BY <1>9
  <2> QED BY <2>1, <1>4, <1>5, <1>6, <1>7, <1>8 DEF RunStep, Muxer!Next
<1> QED BY <1>1, <1>2, <1>3, <1>9 DEF Next

\* The two encoders and the wrapper use the file as MuxerProtocol allows: all tracks are added
\* before it is started, samples are written only while it is, and it is stopped once.
THEOREM RecordingImplementsMuxer ==
  RecordingAssumption /\ Spec => ImplementsMuxer
<1> SUFFICES ASSUME RecordingAssumption PROVE Spec => ImplementsMuxer
  OBVIOUS
<1>1. Init => Muxer!Init
  BY DEF Init, Muxer!Init
<1>2. RecordingInv /\ [Next]_vars => [Muxer!Next]_(Muxer!vars)
  BY StepsOfTheMuxer
<1> QED BY <1>1, <1>2, InvariantHolds, PTL DEF Spec, ImplementsMuxer, Muxer!Spec
=============================================================================
