------------------------- MODULE CameraHandlerProofs -------------------------
(***************************************************************************)
(* Proofs about the camera handler, for any number of clients, of their    *)
(* calls and of recordings.                                                *)
(***************************************************************************)
EXTENDS CameraHandler, TLAPS, FiniteSetTheorems, WellFoundedInduction

-----------------------------------------------------------------------------
(* Lemmas about removeMessages *)

\* A set of numbers that holds 0, and with each its successor, holds them all.
LEMMA Induction ==
  ASSUME NEW S, 0 \in S, \A n \in Nat : n \in S => n + 1 \in S
  PROVE  \A n \in Nat : n \in S
<1> DEFINE T == {n \in Nat : n \notin S}
<1> SUFFICES ASSUME T # {} PROVE FALSE
  OBVIOUS
<1>1. PICK x \in T : \A y \in T : ~(<<y, x>> \in OpToRel(<, Nat))
  BY NatLessThanWellFounded, WFMin
<1>2. x # 0 /\ x - 1 \in Nat /\ x - 1 \notin S
  OBVIOUS
<1>3. <<x - 1, x>> \in OpToRel(<, Nat)
  BY <1>2 DEF OpToRel
<1> QED BY <1>1, <1>2, <1>3

\* What removeMessages has kept of the first j messages, from what it kept of the first j - 1.
KeptStep(k, q, what, j) ==
  IF j = 0 THEN <<>> ELSE IF q[j].what = what THEN k[j - 1] ELSE Append(k[j - 1], q[j])
Keeps(k, q, what, n) == k = [j \in 0..n |-> KeptStep(k, q, what, j)]

\* The recursion of removeMessages has a solution for every queue, and its result is the last
\* value of one.
LEMMA KeepsUnfolds ==
  ASSUME NEW k, NEW q, NEW what, NEW n \in Nat, Keeps(k, q, what, n)
  PROVE  DOMAIN k = 0..n /\ \A j \in 0..n : k[j] = KeptStep(k, q, what, j)
<1> DEFINE F == [j \in 0..n |-> KeptStep(k, q, what, j)]
<1>1. k = F
  BY DEF Keeps
<1>2. DOMAIN F = 0..n /\ \A j \in 0..n : F[j] = KeptStep(k, q, what, j)
  OBVIOUS
<1> HIDE DEF F
<1> QED BY <1>1, <1>2

LEMMA KeptExists ==
  ASSUME NEW M, NEW q \in Seq(M), NEW what
  PROVE  \E k : Keeps(k, q, what, Len(q))
<1> DEFINE S == {n \in Nat : \E k : Keeps(k, q, what, n)}
<1>1. 0 \in S
  <2> DEFINE k == [j \in 0..0 |-> <<>>]
  <2>1. k = [j \in 0..0 |-> KeptStep(k, q, what, j)]
    BY DEF KeptStep
  <2>2. Keeps(k, q, what, 0)
    BY <2>1 DEF Keeps
  <2> QED BY <2>2
<1>2. ASSUME NEW n \in Nat, n \in S PROVE n + 1 \in S
  <2>1. PICK k : Keeps(k, q, what, n)
    BY <1>2
  <2> DEFINE l == [j \in 0..(n + 1) |-> IF j = n + 1
                   THEN IF q[j].what = what THEN k[n] ELSE Append(k[n], q[j]) ELSE k[j]]
  <2>2. \A j \in 0..n : l[j] = k[j]
    OBVIOUS
  <2>3. l[n + 1] = KeptStep(l, q, what, n + 1)
    BY <2>2 DEF KeptStep
  <2>4. ASSUME NEW j \in 0..n PROVE l[j] = KeptStep(l, q, what, j)
    <3>1. l[j] = k[j] /\ k[j] = KeptStep(k, q, what, j)
      BY <2>1, <2>2, KeepsUnfolds
    <3>2. j # 0 => l[j - 1] = k[j - 1]
      BY <2>2
    <3> HIDE DEF l
    <3> QED BY <3>1, <3>2 DEF KeptStep
  <2>5. l = [j \in 0..(n + 1) |-> l[j]]
    OBVIOUS
  <2> HIDE DEF l
  <2>6. \A j \in 0..(n + 1) : l[j] = KeptStep(l, q, what, j)
    BY <2>3, <2>4
  <2>7. l = [j \in 0..(n + 1) |-> KeptStep(l, q, what, j)]
    BY <2>5, <2>6
  <2>8. Keeps(l, q, what, n + 1)
    BY <2>7 DEF Keeps
  <2> QED BY <2>8
<1> HIDE DEF S
<1>3. \A n \in Nat : n \in S
  BY <1>1, <1>2, Induction
<1>4. Len(q) \in S
  BY <1>3
<1> QED BY <1>4 DEF S

LEMMA RemoveMessagesUnfolds ==
  ASSUME NEW M, NEW q \in Seq(M), NEW what
  PROVE  \E k : /\ RemoveMessages(q, what) = k[Len(q)] /\ k[0] = <<>>
                /\ \A n \in 1..Len(q) :
                     k[n] = IF q[n].what = what THEN k[n - 1] ELSE Append(k[n - 1], q[n])
<1> DEFINE K == CHOOSE k : Keeps(k, q, what, Len(q))
<1>1. Keeps(K, q, what, Len(q))
  BY KeptExists
<1>2. RemoveMessages(q, what) = K[Len(q)]
  BY DEF Keeps, KeptStep, RemoveMessages
<1> HIDE DEF K
<1>3. Len(q) \in Nat
  OBVIOUS
<1>4. \A j \in 0..Len(q) : K[j] = KeptStep(K, q, what, j)
  BY <1>1, <1>3, KeepsUnfolds
<1>5. K[0] = <<>>
  BY <1>3, <1>4 DEF KeptStep
<1>6. \A n \in 1..Len(q) : K[n] = IF q[n].what = what THEN K[n - 1] ELSE Append(K[n - 1], q[n])
  BY <1>3, <1>4 DEF KeptStep
<1> QED BY <1>2, <1>5, <1>6

\* removeMessages adds nothing: what holds of every message of the queue holds of those it keeps.
LEMMA RemoveMessagesType ==
  ASSUME NEW M, NEW q \in Seq(M), NEW what
  PROVE  RemoveMessages(q, what) \in Seq(M)
<1>1. PICK k : /\ RemoveMessages(q, what) = k[Len(q)] /\ k[0] = <<>>
               /\ \A n \in 1..Len(q) :
                     k[n] = IF q[n].what = what THEN k[n - 1] ELSE Append(k[n - 1], q[n])
  BY RemoveMessagesUnfolds
<1> DEFINE S == {n \in Nat : n <= Len(q) => k[n] \in Seq(M)}
<1>2. 0 \in S
  <2>1. <<>> \in Seq(M)
    OBVIOUS
  <2> QED BY <1>1, <2>1
<1>3. ASSUME NEW n \in Nat, n \in S PROVE n + 1 \in S
  <2> SUFFICES ASSUME n + 1 <= Len(q) PROVE k[n + 1] \in Seq(M)
    OBVIOUS
  <2>1. k[n] \in Seq(M) /\ q[n + 1] \in M
    BY <1>3
  <2>2. k[n + 1] = IF q[n + 1].what = what THEN k[n] ELSE Append(k[n], q[n + 1])
    BY <1>1
  <2>3. Append(k[n], q[n + 1]) \in Seq(M)
    BY <2>1
  <2> QED BY <2>1, <2>2, <2>3
<1> HIDE DEF S
<1>4. Len(q) \in S
  BY <1>2, <1>3, Induction
<1> QED BY <1>1, <1>4 DEF S

\* It keeps the messages of the other kinds.
LEMMA RemoveMessagesKeeps ==
  ASSUME NEW M, NEW q \in Seq(M), NEW what, NEW i \in 1..Len(q), q[i].what # what
  PROVE  \E j \in DOMAIN RemoveMessages(q, what) : RemoveMessages(q, what)[j] = q[i]
<1>1. PICK k : /\ RemoveMessages(q, what) = k[Len(q)] /\ k[0] = <<>>
               /\ \A n \in 1..Len(q) :
                    k[n] = IF q[n].what = what THEN k[n - 1] ELSE Append(k[n - 1], q[n])
  BY RemoveMessagesUnfolds
<1> DEFINE S == {n \in Nat : n <= Len(q) => /\ k[n] \in Seq(M)
                                            /\ i <= n => \E j \in 1..Len(k[n]) : k[n][j] = q[i]}
<1>2. 0 \in S
  <2>1. <<>> \in Seq(M)
    OBVIOUS
  <2>2. ~(i <= 0)
    OBVIOUS
  <2> QED BY <1>1, <2>1, <2>2
<1>3. ASSUME NEW n \in Nat, n \in S PROVE n + 1 \in S
  <2> SUFFICES ASSUME n + 1 <= Len(q)
               PROVE  /\ k[n + 1] \in Seq(M)
                      /\ i <= n + 1 => \E j \in 1..Len(k[n + 1]) : k[n + 1][j] = q[i]
    OBVIOUS
  <2>1. /\ k[n] \in Seq(M) /\ q[n + 1] \in M
        /\ i <= n => \E j \in 1..Len(k[n]) : k[n][j] = q[i]
    BY <1>3
  <2>2. k[n + 1] = IF q[n + 1].what = what THEN k[n] ELSE Append(k[n], q[n + 1])
    BY <1>1
  <2>3. CASE k[n + 1] = k[n] /\ i # n + 1
    BY <2>1, <2>3
  <2>4. CASE k[n + 1] = Append(k[n], q[n + 1])
    <3>1. /\ Append(k[n], q[n + 1]) \in Seq(M) /\ Len(Append(k[n], q[n + 1])) = Len(k[n]) + 1
          /\ Append(k[n], q[n + 1])[Len(k[n]) + 1] = q[n + 1]
          /\ \A j \in 1..Len(k[n]) : Append(k[n], q[n + 1])[j] = k[n][j]
      BY <2>1
    <3>2. Len(k[n]) \in Nat
      BY <2>1
    <3>3. ASSUME i <= n + 1 PROVE \E j \in 1..Len(k[n + 1]) : k[n + 1][j] = q[i]
      <4>1. CASE i = n + 1
        <5>1. Len(k[n]) + 1 \in 1..Len(k[n + 1]) /\ k[n + 1][Len(k[n]) + 1] = q[i]
          BY <2>4, <3>1, <3>2, <4>1
        <5> QED BY <5>1
      <4>2. CASE i <= n
        <5>1. PICK j \in 1..Len(k[n]) : k[n][j] = q[i]
          BY <2>1, <4>2
        <5>2. j \in 1..Len(k[n + 1]) /\ k[n + 1][j] = q[i]
          BY <2>4, <3>1, <3>2, <5>1
        <5> QED BY <5>2
      <4> QED BY <3>3, <4>1, <4>2
    <3> QED BY <2>4, <3>1, <3>3
  <2> QED BY <2>2, <2>3, <2>4
<1> HIDE DEF S
<1>4. Len(q) \in S
  BY <1>2, <1>3, Induction
<1>5. k[Len(q)] \in Seq(M) /\ \E j \in 1..Len(k[Len(q)]) : k[Len(q)][j] = q[i]
  BY <1>4 DEF S
<1>6. DOMAIN k[Len(q)] = 1..Len(k[Len(q)])
  BY <1>5
<1> QED BY <1>1, <1>5, <1>6

-----------------------------------------------------------------------------
(* The inductive invariant *)

Closing == {"destroyCamera", "openCamera", "quit", "exit", "ended"}

\* Only the camera thread opens a camera and starts a recording: from where it has closed or
\* stopped them they stay so until it goes on to the next message.
LooperInv ==
  /\ pc[Looper] \in Closing \cup {"clearView", "stopMuxer", "stopCallback", "closeCamera"} => mMuxer = None
  /\ pc[Looper] \in Closing => mUVCCamera = None
  /\ pc[Looper] \in {"prepare", "startRecording"} =>
       /\ mMuxer = None /\ recordings \in Recordings /\ encoder[recordings] = "created"
       /\ mEncoderType = 2 => mUVCCamera # None
  /\ pc[Looper] \in {"startCallback", "setMuxer"} =>
       /\ mMuxer = None /\ recordings \in Recordings /\ encoder[recordings] = "running"
       /\ \A t \in Workers : muxer[t] # recordings
       /\ mEncoderType = 2 => mUVCCamera # None
  /\ pc[Looper] = "startCallback" => mEncoderType = 2
  /\ mEncoderType = 2 => \A r \in Recordings : pc[r] = "idle"
  /\ \A r \in Recordings : /\ pc[r] \in {"onStopped", "getPath"} => encoder[r] = "done"
                           /\ after[r] \in {"idle", "release"}

\* A running recording is in one place: mMuxer, the thread that is to set it, or the thread
\* that took it to stop it.
MuxerInv ==
  /\ \A r \in Recordings : r > recordings => encoder[r] = "none"
  /\ mMuxer # None => encoder[mMuxer] = "running"
  /\ \A t \in Workers : muxer[t] # None =>
       /\ encoder[muxer[t]] = "running" /\ mMuxer # muxer[t] /\ pc[t] \in {"clearView", "stopMuxer"}
       /\ \A s \in Workers : muxer[s] = muxer[t] => s = t
  /\ \A t \in Workers : pc[t] = "stopMuxer" => muxer[t] # None
  /\ RunningRecordingIsKnown

\* The view is told to let a recording go before the recording is stopped.
ViewInv ==
  /\ Told \in Recordings => encoder[Told] \in {"created", "running", "abandoned"}
  /\ \A t \in Workers : pc[t] = "stopMuxer" => muxer[t] # Told

\* A camera that shows is the open one, or the thread that took it is about to destroy it.
CameraInv ==
  /\ \A t \in Workers : camera[t] # None <=> pc[t] = "destroyCamera"
  /\ \A k \in Cameras : shown[k] # NoClient => k = mUVCCamera \/ \E t \in Workers : camera[t] = k

HandlerInv ==
  /\ FlagsOK /\ ThreadsOK /\ RecordsOK /\ CamerasOK
  /\ LooperInv /\ MuxerInv /\ ViewInv /\ CameraInv

-----------------------------------------------------------------------------
(* Every step preserves it *)

USE DEF Threads, Workers, Recordings, Cameras, Looper, None, Goto, Step, queue, native, preview,
        view, record, locals, outside, StillUnchanged, ClientUnchanged, LooperUnchanged, PreviewUnchanged,
        RecordUnchanged, WorkerUnchanged, EncoderUnchanged

\* What the view is told last, after a message is posted and after one is taken.
Encoders == Recordings \cup {None}

LEMMA LastOfAppend ==
  ASSUME NEW E, NEW q \in Seq(E), NEW e \in E
  PROVE  /\ Append(q, e) \in Seq(E) /\ Append(q, e) # <<>>
         /\ Append(q, e)[Len(Append(q, e))] = e
  OBVIOUS

LEMMA LastOfTail ==
  ASSUME NEW E, NEW q \in Seq(E), q # <<>>
  PROVE  /\ Head(q) \in E /\ Tail(q) \in Seq(E) /\ q[Len(q)] \in E
         /\ Tail(q) = <<>> => q[Len(q)] = Head(q)
         /\ Tail(q) # <<>> => q[Len(q)] = Tail(q)[Len(Tail(q))]
<1>1. /\ Len(q) \in Nat \ {0} /\ q \in [1..Len(q) -> E] /\ Head(q) = q[1]
      /\ Tail(q) \in Seq(E) /\ Len(Tail(q)) = Len(q) - 1
      /\ \A i \in 1..(Len(q) - 1) : Tail(q)[i] = q[i + 1]
  OBVIOUS
<1>2. Tail(q) = <<>> <=> Len(Tail(q)) = 0
  BY <1>1
<1> QED BY <1>1, <1>2

LEMMA PostedIsTold ==
  ASSUME posted \in Seq(Encoders), NEW e \in Encoders, SetVideoEncoder(e)
  PROVE  /\ posted' \in Seq(Encoders) /\ viewEncoder' = viewEncoder
         /\ Told' = e \/ Told' = Crashed
<1>1. CASE Told \in {e, Crashed}
  <2>1. posted' = posted /\ viewEncoder' = viewEncoder
    BY <1>1 DEF SetVideoEncoder
  <2>2. Told' = Told
    BY <2>1 DEF Told
  <2> QED BY <1>1, <2>1, <2>2
<1>2. CASE Told \notin {e, Crashed}
  <2>1. posted' = Append(posted, e) /\ viewEncoder' = viewEncoder
    BY <1>2 DEF SetVideoEncoder
  <2> QED BY <2>1, LastOfAppend DEF Told
<1> QED BY <1>1, <1>2

LEMMA TakenIsTold ==
  ASSUME posted \in Seq(Encoders), SetEncoder
  PROVE  posted' \in Seq(Encoders) /\ viewEncoder' \in Encoders /\ Told' = Told
<1>1. posted # <<>> /\ viewEncoder' = Head(posted) /\ posted' = Tail(posted)
  BY DEF SetEncoder
<1> QED BY <1>1, LastOfTail DEF Told

\* The view.
LEMMA ViewSteps ==
  ASSUME HandlerAssumption, HandlerInv, RenderStep
  PROVE  HandlerInv'
<1> USE DEF HandlerInv
<1>1. UNCHANGED <<mEncoderType, queue, preview, mIsRecording, mMuxer, encoder, recordings, mReleased,
                  pc, locals, outside>>
  BY DEF RenderStep, SetEncoder, SetEncoderThrows, ViewUnchanged
<1>2. /\ posted' \in Seq(Encoders) /\ viewEncoder' \in Encoders \cup {Crashed}
      /\ Told' = Told \/ Told' = Crashed
  <2>1. posted \in Seq(Encoders)
    BY DEF RecordsOK, Encoders
  <2>2. CASE SetEncoder
    BY <2>1, <2>2, TakenIsTold
  <2>3. CASE SetEncoderThrows
    <3>1. posted' = <<>> /\ viewEncoder' = Crashed
      BY <2>3 DEF SetEncoderThrows
    <3>2. Told' = Crashed /\ <<>> \in Seq(Encoders)
      BY <3>1 DEF Told
    <3> QED BY <3>1, <3>2
  <2> QED BY <2>2, <2>3 DEF RenderStep
<1>3. RecordsOK'
  BY <1>1, <1>2 DEF RecordsOK, Encoders
<1>4. ViewInv'
  BY <1>1, <1>2 DEF ViewInv, Crashed, RecordsOK, MuxerInv
<1>5. FlagsOK' /\ ThreadsOK' /\ CamerasOK' /\ LooperInv' /\ MuxerInv' /\ CameraInv'
  BY <1>1 DEF FlagsOK, ThreadsOK, CamerasOK, LooperInv, MuxerInv, RunningRecordingIsKnown, CameraInv
<1> QED BY <1>3, <1>4, <1>5

\* The clients.
LEMMA ClientSteps ==
  ASSUME HandlerAssumption, HandlerInv,
         (\E c \in Clients, what \in Whats : CallSend(c, what))
         \/ (\E c \in Clients : StopPreview(c)) \/ (\E c \in Clients : Close(c))
         \/ (\E c \in Clients : Release(c)) \/ (\E c \in Clients : CloseTest(c))
         \/ (\E c \in Clients : StopTest(c)) \/ (\E c \in Clients : StopWait(c))
         \/ (\E c \in Clients : Stopped(c)) \/ DestroyActivity
  PROVE  HandlerInv'
<1> USE DEF HandlerInv
<1>1. ASSUME NEW c \in Clients, NEW what \in Whats, CallSend(c, what)
      PROVE  HandlerInv'
  <2>1. FlagsOK' /\ ThreadsOK' /\ RecordsOK' /\ CamerasOK' /\ LooperInv' /\ MuxerInv' /\ ViewInv' /\ CameraInv'
    BY <1>1 DEF CallSend, FlagsOK, ThreadsOK, RecordsOK, CamerasOK, LooperInv, MuxerInv,
         RunningRecordingIsKnown, ViewInv, Told, CameraInv
  <2> QED BY <2>1
<1>2. ASSUME NEW c \in Clients, StopPreview(c)
      PROVE  HandlerInv'
  <2>1. ThreadsOK'
    BY <1>2 DEF StopPreview, ThreadsOK, ClientLabels
  <2>2. LooperInv'
    BY <1>2 DEF StopPreview, LooperInv
  <2>3. MuxerInv'
    BY <1>2 DEF StopPreview, MuxerInv, RunningRecordingIsKnown
  <2>4. ViewInv'
    BY <1>2 DEF StopPreview, ViewInv, Told
  <2>5. CameraInv'
    BY <1>2 DEF StopPreview, CameraInv
  <2>6. FlagsOK' /\ RecordsOK' /\ CamerasOK'
    BY <1>2 DEF StopPreview, FlagsOK, RecordsOK, CamerasOK
  <2> QED BY <2>1, <2>2, <2>3, <2>4, <2>5, <2>6
<1>3. ASSUME NEW c \in Clients, Close(c)
      PROVE  HandlerInv'
  <2>1. ThreadsOK'
    BY <1>3 DEF Close, ThreadsOK, ClientLabels
  <2>2. LooperInv'
    BY <1>3 DEF Close, LooperInv
  <2>3. MuxerInv'
    BY <1>3 DEF Close, MuxerInv, RunningRecordingIsKnown
  <2>4. ViewInv'
    BY <1>3 DEF Close, ViewInv, Told
  <2>5. CameraInv'
    BY <1>3 DEF Close, CameraInv
  <2>6. FlagsOK' /\ RecordsOK' /\ CamerasOK'
    BY <1>3 DEF Close, FlagsOK, RecordsOK, CamerasOK
  <2> QED BY <2>1, <2>2, <2>3, <2>4, <2>5, <2>6
<1>4. ASSUME NEW c \in Clients, Release(c)
      PROVE  HandlerInv'
  <2>1. FlagsOK'
    BY <1>4 DEF Release, FlagsOK
  <2>2. ThreadsOK'
    BY <1>4 DEF Release, ThreadsOK, ClientLabels
  <2>3. LooperInv'
    BY <1>4 DEF Release, LooperInv
  <2>4. MuxerInv'
    BY <1>4 DEF Release, MuxerInv, RunningRecordingIsKnown
  <2>5. ViewInv'
    BY <1>4 DEF Release, ViewInv, Told
  <2>6. CameraInv'
    BY <1>4 DEF Release, CameraInv
  <2>7. RecordsOK' /\ CamerasOK'
    BY <1>4 DEF Release, RecordsOK, CamerasOK
  <2> QED BY <2>1, <2>2, <2>3, <2>4, <2>5, <2>6, <2>7
<1>5. ASSUME NEW c \in Clients, CloseTest(c)
      PROVE  HandlerInv'
  <2>1. ThreadsOK'
    BY <1>5 DEF CloseTest, ThreadsOK, CloseLabels, ClientLabels
  <2>2. LooperInv'
    BY <1>5 DEF CloseTest, LooperInv, ThreadsOK
  <2>3. MuxerInv'
    BY <1>5 DEF CloseTest, MuxerInv, RunningRecordingIsKnown, ThreadsOK
  <2>4. ViewInv'
    BY <1>5 DEF CloseTest, ViewInv, Told, ThreadsOK
  <2>5. CameraInv'
    BY <1>5 DEF CloseTest, CameraInv, ThreadsOK
  <2>6. FlagsOK' /\ RecordsOK' /\ CamerasOK'
    BY <1>5 DEF CloseTest, FlagsOK, RecordsOK, CamerasOK
  <2> QED BY <2>1, <2>2, <2>3, <2>4, <2>5, <2>6
<1>6. ASSUME NEW c \in Clients, StopTest(c)
      PROVE  HandlerInv'
  <2>1. ThreadsOK'
    BY <1>6 DEF StopTest, ThreadsOK, ClientLabels
  <2>2. LooperInv'
    BY <1>6 DEF StopTest, LooperInv
  <2>3. MuxerInv'
    BY <1>6 DEF StopTest, MuxerInv, RunningRecordingIsKnown
  <2>4. ViewInv'
    BY <1>6 DEF StopTest, ViewInv, Told
  <2>5. CameraInv'
    BY <1>6 DEF StopTest, CameraInv
  <2>6. FlagsOK' /\ RecordsOK' /\ CamerasOK'
    BY <1>6 DEF StopTest, FlagsOK, RecordsOK, CamerasOK
  <2> QED BY <2>1, <2>2, <2>3, <2>4, <2>5, <2>6
<1>7. ASSUME NEW c \in Clients, StopWait(c)
      PROVE  HandlerInv'
  <2>1. ThreadsOK'
    BY <1>7 DEF StopWait, ThreadsOK, ClientLabels
  <2>2. LooperInv'
    BY <1>7 DEF StopWait, LooperInv
  <2>3. MuxerInv'
    BY <1>7 DEF StopWait, MuxerInv, RunningRecordingIsKnown
  <2>4. ViewInv'
    BY <1>7 DEF StopWait, ViewInv, Told
  <2>5. CameraInv'
    BY <1>7 DEF StopWait, CameraInv
  <2>6. FlagsOK' /\ RecordsOK' /\ CamerasOK'
    BY <1>7 DEF StopWait, FlagsOK, RecordsOK, CamerasOK
  <2> QED BY <2>1, <2>2, <2>3, <2>4, <2>5, <2>6
<1>8. ASSUME NEW c \in Clients, Stopped(c)
      PROVE  HandlerInv'
  <2>1. ThreadsOK'
    BY <1>8 DEF Stopped, ThreadsOK, ClientLabels
  <2>2. LooperInv'
    BY <1>8 DEF Stopped, LooperInv
  <2>3. MuxerInv'
    BY <1>8 DEF Stopped, MuxerInv, RunningRecordingIsKnown
  <2>4. ViewInv'
    BY <1>8 DEF Stopped, ViewInv, Told
  <2>5. CameraInv'
    BY <1>8 DEF Stopped, CameraInv
  <2>6. FlagsOK' /\ RecordsOK' /\ CamerasOK'
    BY <1>8 DEF Stopped, FlagsOK, RecordsOK, CamerasOK
  <2> QED BY <2>1, <2>2, <2>3, <2>4, <2>5, <2>6
<1>9. CASE DestroyActivity
  <2>1. FlagsOK'
    BY <1>9 DEF DestroyActivity, FlagsOK
  <2>2. ThreadsOK' /\ RecordsOK' /\ CamerasOK' /\ LooperInv' /\ MuxerInv' /\ ViewInv' /\ CameraInv'
    BY <1>9 DEF DestroyActivity, ThreadsOK, RecordsOK, CamerasOK, LooperInv, MuxerInv,
         RunningRecordingIsKnown, ViewInv, Told, CameraInv
  <2> QED BY <2>1, <2>2
<1> QED BY <1>1, <1>2, <1>3, <1>4, <1>5, <1>6, <1>7, <1>8, <1>9

\* The messages of the camera thread, and its preview.
LEMMA LooperSteps ==
  ASSUME HandlerAssumption, HandlerInv,
         TakeMessage \/ Deliver \/ CaptureStill \/ StillDrawn \/ SaveStill \/ StartPreviewTest
         \/ StartNative \/ StartParams \/ StartFlag \/ StopNative \/ StopFlag
  PROVE  HandlerInv'
<1> USE DEF HandlerInv
<1>1. CASE TakeMessage
  <2>1. ThreadsOK'
    BY <1>1 DEF TakeMessage, EnterStopRecording, ToRelease, ThreadsOK, LooperLabels, CloseLabels
  <2>2. LooperInv'
    <3>1. /\ pc'[Looper] \in {"previewStart", "previewStop", "captureStart", "captureStill",
                              "stopRecording", "idle"}
          /\ \A r \in Recordings : pc'[r] = pc[r] /\ after'[r] = after[r]
          /\ UNCHANGED <<mEncoderType, mMuxer, mUVCCamera, recordings, encoder, muxer>>
      BY <1>1 DEF TakeMessage, EnterStopRecording, ThreadsOK
    <3> QED BY <3>1 DEF LooperInv, Closing
  <2>3. MuxerInv'
    BY <1>1 DEF TakeMessage, EnterStopRecording, MuxerInv, RunningRecordingIsKnown, ThreadsOK
  <2>4. ViewInv'
    BY <1>1 DEF TakeMessage, EnterStopRecording, ViewInv, Told, ThreadsOK
  <2>5. CameraInv'
    BY <1>1 DEF TakeMessage, EnterStopRecording, CameraInv, ThreadsOK
  <2>6. FlagsOK' /\ RecordsOK' /\ CamerasOK'
    BY <1>1 DEF TakeMessage, FlagsOK, RecordsOK, CamerasOK
  <2> QED BY <2>1, <2>2, <2>3, <2>4, <2>5, <2>6
<1>2. CASE Deliver
  <2>1. FlagsOK' /\ ThreadsOK' /\ RecordsOK' /\ CamerasOK' /\ LooperInv' /\ MuxerInv' /\ ViewInv' /\ CameraInv'
    BY <1>2 DEF Deliver, FlagsOK, ThreadsOK, RecordsOK, CamerasOK, LooperInv, MuxerInv,
         RunningRecordingIsKnown, ViewInv, Told, CameraInv
  <2> QED BY <2>1
<1>3. CASE CaptureStill \/ StillDrawn \/ SaveStill
  <2>1. /\ pc[Looper] \in {"captureStill", "stillWait", "saveStill"}
        /\ \E l \in {"idle", "stillWait", "saveStill"} : pc' = [pc EXCEPT ![Looper] = l]
        /\ UNCHANGED <<mEncoderType, preview, record, mReleased, locals, outside>>
    BY <1>3 DEF CaptureStill, StillDrawn, SaveStill
  <2>2. ThreadsOK'
    BY <2>1 DEF ThreadsOK, LooperLabels, CloseLabels
  <2>3. LooperInv'
    BY <2>1 DEF LooperInv, Closing, ThreadsOK
  <2>4. MuxerInv'
    BY <2>1 DEF MuxerInv, RunningRecordingIsKnown, ThreadsOK
  <2>5. ViewInv'
    BY <2>1 DEF ViewInv, Told, ThreadsOK
  <2>6. CameraInv'
    BY <2>1 DEF CameraInv, ThreadsOK
  <2>7. FlagsOK' /\ RecordsOK' /\ CamerasOK'
    BY <2>1 DEF FlagsOK, RecordsOK, CamerasOK
  <2> QED BY <2>2, <2>3, <2>4, <2>5, <2>6, <2>7
<1>4. CASE StartPreviewTest
  <2>1. ThreadsOK'
    BY <1>4 DEF StartPreviewTest, ThreadsOK, LooperLabels, CloseLabels
  <2>2. LooperInv'
    BY <1>4 DEF StartPreviewTest, LooperInv, Closing, ThreadsOK
  <2>3. MuxerInv'
    BY <1>4 DEF StartPreviewTest, MuxerInv, RunningRecordingIsKnown, ThreadsOK
  <2>4. ViewInv'
    BY <1>4 DEF StartPreviewTest, ViewInv, Told, ThreadsOK
  <2>5. CameraInv'
    BY <1>4 DEF StartPreviewTest, CameraInv, ThreadsOK
  <2>6. FlagsOK' /\ RecordsOK' /\ CamerasOK'
    BY <1>4 DEF StartPreviewTest, FlagsOK, RecordsOK, CamerasOK
  <2> QED BY <2>1, <2>2, <2>3, <2>4, <2>5, <2>6
<1>5. CASE StartNative
  <2>1. ThreadsOK'
    BY <1>5 DEF StartNative, ThreadsOK, LooperLabels
  <2>2. CamerasOK'
    BY <1>5 DEF StartNative, CamerasOK
  <2>3. LooperInv'
    BY <1>5 DEF StartNative, LooperInv, Closing, ThreadsOK
  <2>4. MuxerInv'
    BY <1>5 DEF StartNative, MuxerInv, RunningRecordingIsKnown, ThreadsOK
  <2>5. ViewInv'
    BY <1>5 DEF StartNative, ViewInv, Told, ThreadsOK
  <2>6. CameraInv'
    BY <1>5 DEF StartNative, CameraInv, ThreadsOK, ClientLabels, CamerasOK
  <2>7. FlagsOK' /\ RecordsOK'
    BY <1>5 DEF StartNative, FlagsOK, RecordsOK
  <2> QED BY <2>1, <2>2, <2>3, <2>4, <2>5, <2>6, <2>7
<1>9. CASE StartParams
  <2>1. ThreadsOK'
    BY <1>9 DEF StartParams, ThreadsOK, LooperLabels
  <2>2. LooperInv'
    BY <1>9 DEF StartParams, LooperInv, Closing, ThreadsOK
  <2>3. MuxerInv'
    BY <1>9 DEF StartParams, MuxerInv, RunningRecordingIsKnown, ThreadsOK
  <2>4. ViewInv'
    BY <1>9 DEF StartParams, ViewInv, Told, ThreadsOK
  <2>5. CameraInv'
    BY <1>9 DEF StartParams, CameraInv, ThreadsOK
  <2>6. FlagsOK' /\ RecordsOK' /\ CamerasOK'
    BY <1>9 DEF StartParams, FlagsOK, RecordsOK, CamerasOK
  <2> QED BY <2>1, <2>2, <2>3, <2>4, <2>5, <2>6
<1>6. CASE StartFlag
  <2>1. FlagsOK'
    BY <1>6 DEF StartFlag, FlagsOK
  <2>2. ThreadsOK'
    BY <1>6 DEF StartFlag, ThreadsOK, LooperLabels, CloseLabels
  <2>3. LooperInv'
    BY <1>6 DEF StartFlag, LooperInv, Closing
  <2>4. MuxerInv'
    BY <1>6 DEF StartFlag, MuxerInv, RunningRecordingIsKnown
  <2>5. ViewInv'
    BY <1>6 DEF StartFlag, ViewInv, Told
  <2>6. CameraInv'
    BY <1>6 DEF StartFlag, CameraInv
  <2>7. RecordsOK' /\ CamerasOK'
    BY <1>6 DEF StartFlag, RecordsOK, CamerasOK
  <2> QED BY <2>1, <2>2, <2>3, <2>4, <2>5, <2>6, <2>7
<1>7. CASE StopNative
  <2>1. ThreadsOK'
    BY <1>7 DEF StopNative, ThreadsOK, LooperLabels, CloseLabels
  <2>2. CamerasOK'
    BY <1>7 DEF StopNative, CamerasOK
  <2>3. LooperInv'
    BY <1>7 DEF StopNative, LooperInv, Closing
  <2>4. MuxerInv'
    BY <1>7 DEF StopNative, MuxerInv, RunningRecordingIsKnown
  <2>5. ViewInv'
    BY <1>7 DEF StopNative, ViewInv, Told
  <2>6. CameraInv'
    BY <1>7 DEF StopNative, CameraInv
  <2>7. FlagsOK' /\ RecordsOK'
    BY <1>7 DEF StopNative, FlagsOK, RecordsOK
  <2> QED BY <2>1, <2>2, <2>3, <2>4, <2>5, <2>6, <2>7
<1>8. CASE StopFlag
  <2>1. FlagsOK'
    BY <1>8 DEF StopFlag, FlagsOK
  <2>2. ThreadsOK'
    BY <1>8 DEF StopFlag, Notify, ThreadsOK, LooperLabels, CloseLabels, ClientLabels
  <2>3. LooperInv'
    BY <1>8 DEF StopFlag, Notify, LooperInv, Closing
  <2>4. MuxerInv'
    BY <1>8 DEF StopFlag, Notify, MuxerInv, RunningRecordingIsKnown
  <2>5. ViewInv'
    BY <1>8 DEF StopFlag, Notify, ViewInv, Told
  <2>6. CameraInv'
    BY <1>8 DEF StopFlag, Notify, CameraInv
  <2>7. RecordsOK' /\ CamerasOK'
    BY <1>8 DEF StopFlag, RecordsOK, CamerasOK
  <2> QED BY <2>1, <2>2, <2>3, <2>4, <2>5, <2>6, <2>7
<1> QED BY <1>1, <1>2, <1>3, <1>4, <1>5, <1>6, <1>7, <1>8, <1>9

\* handleStartRecording.
LEMMA RecordSteps ==
  ASSUME HandlerAssumption, HandlerInv,
         StartRecordingTest \/ Prepare \/ PrepareThrows \/ StartRecording \/ StartCallback \/ SetMuxer
  PROVE  HandlerInv'
<1> USE DEF HandlerInv
<1>1. CASE StartRecordingTest
  <2>1. ThreadsOK'
    BY <1>1 DEF StartRecordingTest, ThreadsOK, LooperLabels, CloseLabels
  <2>2. RecordsOK'
    BY <1>1 DEF StartRecordingTest, RecordsOK, EncoderStates
  <2>3. LooperInv'
    <3>1. /\ pc[Looper] = "captureStart" /\ pc'[Looper] \in {"idle", "prepare"}
          /\ \A r \in Recordings : pc'[r] = pc[r]
          /\ UNCHANGED <<mEncoderType, mMuxer, mUVCCamera, after>>
      BY <1>1 DEF StartRecordingTest, ThreadsOK
    <3>2. CASE pc'[Looper] = "idle"
      <4>1. UNCHANGED <<encoder, recordings>>
        BY <1>1, <3>1, <3>2 DEF StartRecordingTest, ThreadsOK
      <4> QED BY <3>1, <3>2, <4>1 DEF LooperInv, Closing
    <3>3. CASE pc'[Looper] = "prepare"
      <4>1. /\ mUVCCamera # None /\ mMuxer = None
            /\ recordings < MaxRecordings /\ recordings' = recordings + 1
            /\ encoder' = [encoder EXCEPT ![recordings'] = "created"]
        BY <1>1, <3>1, <3>3 DEF StartRecordingTest, MayRecord, ThreadsOK
      <4>2. recordings' \in Recordings /\ encoder[recordings'] = "none"
        BY <4>1 DEF RecordsOK, MuxerInv, HandlerAssumption
      <4>3. \A r \in Recordings : r # recordings' => encoder'[r] = encoder[r]
        BY <4>1 DEF RecordsOK
      <4>4. encoder'[recordings'] = "created"
        BY <4>1, <4>2 DEF RecordsOK
      <4> QED BY <3>1, <3>3, <4>1, <4>2, <4>3, <4>4 DEF LooperInv, Closing
    <3> QED BY <3>1, <3>2, <3>3
  <2>4. MuxerInv'
    <3>1. /\ pc[Looper] = "captureStart" /\ pc'[Looper] \in {"idle", "prepare"}
          /\ \A r \in Recordings : pc'[r] = pc[r]
          /\ UNCHANGED <<mMuxer, muxer>>
      BY <1>1 DEF StartRecordingTest, ThreadsOK
    <3>2. CASE UNCHANGED <<encoder, recordings>>
      BY <3>1, <3>2 DEF MuxerInv, RunningRecordingIsKnown, ThreadsOK
    <3>3. CASE /\ recordings' = recordings + 1
               /\ encoder' = [encoder EXCEPT ![recordings'] = "created"]
      <4>1. encoder[recordings'] = "none" \/ recordings' \notin Recordings
        BY <3>3 DEF RecordsOK, MuxerInv
      <4>2. \A r \in Recordings : /\ r # recordings' => encoder'[r] = encoder[r]
                                  /\ r = recordings' => encoder'[r] = "created"
        BY <3>3 DEF RecordsOK
      <4>3. \A r \in Recordings : r > recordings' => r > recordings /\ r # recordings'
        BY <3>3 DEF RecordsOK
      <4>4. \A t \in Workers : /\ muxer[t] # None => muxer[t] \in Recordings
                               /\ pc'[t] = pc[t] \/ t = Looper
        BY <3>1 DEF RecordsOK
      <4>5. mMuxer # None => mMuxer \in Recordings
        BY DEF RecordsOK
      <4> QED BY <3>1, <4>1, <4>2, <4>3, <4>4, <4>5 DEF MuxerInv, RunningRecordingIsKnown
    <3> QED BY <1>1, <3>2, <3>3 DEF StartRecordingTest
  <2>5. ViewInv'
    BY <1>1 DEF StartRecordingTest, ViewInv, Told, ThreadsOK, RecordsOK
  <2>6. CameraInv'
    BY <1>1 DEF StartRecordingTest, CameraInv, ThreadsOK
  <2>7. FlagsOK' /\ CamerasOK'
    BY <1>1 DEF StartRecordingTest, FlagsOK, CamerasOK
  <2> QED BY <2>1, <2>2, <2>3, <2>4, <2>5, <2>6, <2>7
<1>2. CASE Prepare
  <2>0. /\ posted' \in Seq(Encoders) /\ viewEncoder' = viewEncoder
        /\ Told' \in {Told, recordings, Crashed}
    <3>1. posted \in Seq(Encoders) /\ recordings \in Encoders
      BY <1>2 DEF Prepare, RecordsOK, Encoders, LooperInv
    <3>2. CASE SetVideoEncoder(recordings)
      BY <3>1, <3>2, PostedIsTold
    <3>3. CASE UNCHANGED view
      BY <3>1, <3>3 DEF Told
    <3> QED BY <1>2, <3>2, <3>3 DEF Prepare
  <2>00. /\ pc[Looper] = "prepare" /\ pc' = [pc EXCEPT ![Looper] = "startRecording"] /\ mIsRecording' = TRUE
         /\ UNCHANGED <<mMuxer, encoder, recordings, mEncoderType, outside, queue, preview, mReleased, locals>>
    BY <1>2 DEF Prepare
  <2>1. FlagsOK'
    BY <2>00 DEF FlagsOK
  <2>2. ThreadsOK'
    BY <2>00 DEF ThreadsOK, LooperLabels
  <2>3. RecordsOK'
    BY <2>0, <2>00 DEF RecordsOK, Encoders
  <2>4. LooperInv'
    BY <2>00 DEF LooperInv, Closing, ThreadsOK
  <2>5. MuxerInv'
    BY <2>00 DEF MuxerInv, RunningRecordingIsKnown, ThreadsOK
  <2>6. ViewInv'
    <3>1. encoder[recordings] = "created"
      BY <2>00 DEF LooperInv
    <3>2. \A t \in Workers : pc'[t] = "stopMuxer" =>
            pc[t] = "stopMuxer" /\ muxer[t] \in Recordings /\ encoder[muxer[t]] = "running"
      BY <2>00 DEF ThreadsOK, MuxerInv, RecordsOK
    <3> QED BY <2>0, <2>00, <3>1, <3>2 DEF ViewInv, Crashed
  <2>7. CameraInv'
    BY <2>00 DEF CameraInv, ThreadsOK
  <2>8. CamerasOK'
    BY <2>00 DEF CamerasOK
  <2> QED BY <2>1, <2>2, <2>3, <2>4, <2>5, <2>6, <2>7, <2>8
<1>3. CASE PrepareThrows
  <2>1. ThreadsOK'
    BY <1>3 DEF PrepareThrows, ThreadsOK, LooperLabels, CloseLabels
  <2>2. RecordsOK'
    BY <1>3 DEF PrepareThrows, RecordsOK, EncoderStates
  <2>3. LooperInv'
    BY <1>3 DEF PrepareThrows, LooperInv, Closing, ThreadsOK
  <2>4. MuxerInv'
    BY <1>3 DEF PrepareThrows, MuxerInv, RunningRecordingIsKnown, LooperInv
  <2>5. ViewInv'
    BY <1>3 DEF PrepareThrows, ViewInv, Told
  <2>6. CameraInv'
    BY <1>3 DEF PrepareThrows, CameraInv
  <2>7. FlagsOK' /\ CamerasOK'
    BY <1>3 DEF PrepareThrows, FlagsOK, CamerasOK
  <2> QED BY <2>1, <2>2, <2>3, <2>4, <2>5, <2>6, <2>7
<1>4. CASE StartRecording
  <2>1. ThreadsOK'
    BY <1>4 DEF StartRecording, ThreadsOK, LooperLabels, CloseLabels
  <2>2. RecordsOK'
    BY <1>4 DEF StartRecording, RecordsOK, EncoderStates, LooperInv
  <2>3. LooperInv'
    <3>1. /\ pc[Looper] = "startRecording" /\ pc'[Looper] \in {"startCallback", "setMuxer"}
          /\ encoder' = [encoder EXCEPT ![recordings] = "running"]
          /\ UNCHANGED <<mEncoderType, mMuxer, mUVCCamera, recordings, muxer, after>>
          /\ \A r \in Recordings : pc'[r] = pc[r]
          /\ pc'[Looper] = "startCallback" => mEncoderType = 2
      BY <1>4 DEF StartRecording, ThreadsOK
    <3>2. /\ recordings \in Recordings /\ encoder[recordings] = "created" /\ mMuxer = None
          /\ mEncoderType = 2 => mUVCCamera # None
      BY <3>1 DEF LooperInv
    <3>3. encoder'[recordings] = "running" /\ \A r \in Recordings : r # recordings => encoder'[r] = encoder[r]
      BY <3>1, <3>2 DEF RecordsOK
    <3>4. \A t \in Workers : muxer[t] # recordings
      BY <3>2 DEF MuxerInv
    <3> QED BY <3>1, <3>2, <3>3, <3>4 DEF LooperInv, Closing
  <2>4. MuxerInv'
    <3>1. /\ pc[Looper] = "startRecording" /\ UNCHANGED <<recordings, muxer>>
          /\ encoder' = [encoder EXCEPT ![recordings] = "running"]
          /\ \A r \in Recordings : pc'[r] = pc[r]
      BY <1>4 DEF StartRecording, ThreadsOK
    <3>2. /\ recordings \in Recordings /\ encoder[recordings] = "created" /\ mMuxer = None
          /\ mEncoderType = 2 => mUVCCamera # None
      BY <3>1 DEF LooperInv
    <3>3. UNCHANGED mMuxer /\ pc'[Looper] \in {"startCallback", "setMuxer"}
      BY <1>4, <3>2 DEF StartRecording, ThreadsOK
    <3>4. \A r \in Recordings : /\ r # recordings => encoder'[r] = encoder[r]
                                /\ r = recordings => encoder'[r] = "running"
      BY <3>1 DEF RecordsOK
    <3>5. \A t \in Workers : /\ muxer[t] # None => muxer[t] \in Recordings
                             /\ pc'[t] = pc[t] \/ t = Looper
      BY <3>1 DEF RecordsOK
    <3>6. \A r \in Recordings : r > recordings => r # recordings
      BY DEF RecordsOK
    <3> QED BY <3>1, <3>2, <3>3, <3>4, <3>5, <3>6 DEF MuxerInv, RunningRecordingIsKnown
  <2>5. ViewInv'
    BY <1>4 DEF StartRecording, ViewInv, Told, ThreadsOK
  <2>6. CameraInv'
    BY <1>4 DEF StartRecording, CameraInv, ThreadsOK
  <2>7. FlagsOK' /\ CamerasOK'
    BY <1>4 DEF StartRecording, FlagsOK, CamerasOK
  <2> QED BY <2>1, <2>2, <2>3, <2>4, <2>5, <2>6, <2>7
<1>5. CASE StartCallback
  <2>1. /\ pc[Looper] = "startCallback"
        /\ mUVCCamera = None => pc'[Looper] = "crashed"
        /\ mUVCCamera # None => pc'[Looper] = "setMuxer"
        /\ \E l \in LooperLabels : pc' = [pc EXCEPT ![Looper] = l]
        /\ UNCHANGED <<mEncoderType, queue, preview, record, mReleased, locals, outside>>
    BY <1>5 DEF StartCallback, LooperLabels, ThreadsOK
  <2>2. ThreadsOK' /\ FlagsOK' /\ RecordsOK' /\ CamerasOK'
    BY <2>1 DEF ThreadsOK, FlagsOK, RecordsOK, CamerasOK
  <2>3. LooperInv'
    BY <2>1 DEF LooperInv, Closing, ThreadsOK
  <2>4. MuxerInv'
    <3>1. pc'[Looper] = "setMuxer" /\ \A r \in Recordings : pc'[r] = pc[r]
      BY <2>1 DEF LooperInv, ThreadsOK
    <3> QED BY <2>1, <3>1 DEF MuxerInv, RunningRecordingIsKnown, ThreadsOK
  <2>5. ViewInv'
    BY <2>1 DEF ViewInv, Told, ThreadsOK
  <2>6. CameraInv'
    BY <2>1 DEF CameraInv, ThreadsOK
  <2> QED BY <2>2, <2>3, <2>4, <2>5, <2>6
<1>6. CASE SetMuxer
  <2>1. /\ pc[Looper] = "setMuxer" /\ pc' = [pc EXCEPT ![Looper] = "idle"] /\ mMuxer' = recordings
        /\ UNCHANGED <<mIsRecording, view, encoder, recordings>>
        /\ UNCHANGED <<mEncoderType, queue, preview, mReleased, locals, outside>>
    BY <1>6 DEF SetMuxer
  <2>2. /\ recordings \in Recordings /\ encoder[recordings] = "running"
        /\ \A t \in Workers : muxer[t] # recordings
    BY <2>1 DEF LooperInv
  <2>3. ThreadsOK' /\ FlagsOK' /\ CamerasOK'
    BY <2>1 DEF ThreadsOK, FlagsOK, CamerasOK, LooperLabels, CloseLabels
  <2>4. RecordsOK'
    BY <2>1, <2>2 DEF RecordsOK
  <2>5. LooperInv'
    BY <2>1 DEF LooperInv, Closing, ThreadsOK
  <2>6. MuxerInv'
    BY <2>1, <2>2 DEF MuxerInv, RunningRecordingIsKnown, ThreadsOK, LooperInv
  <2>7. ViewInv'
    BY <2>1 DEF ViewInv, Told, ThreadsOK
  <2>8. CameraInv'
    BY <2>1 DEF CameraInv, ThreadsOK
  <2> QED BY <2>3, <2>4, <2>5, <2>6, <2>7, <2>8
<1> QED BY <1>1, <1>2, <1>3, <1>4, <1>5, <1>6

\* handleStopRecording, handleClose, handleOpen and handleRelease.
LEMMA CloseSteps ==
  ASSUME HandlerAssumption, HandlerInv,
         (\E t \in Workers : TakeMuxer(t)) \/ (\E t \in Workers : ClearView(t))
         \/ (\E t \in Workers : StopMuxer(t)) \/ (\E t \in Workers : StopCallback(t))
         \/ (\E t \in Workers : TakeCamera(t)) \/ (\E t \in Workers : DestroyCamera(t))
         \/ (\E t \in Workers : Quit(t)) \/ OpenCamera \/ Exit
  PROVE  HandlerInv'
<1> USE DEF HandlerInv
<1>1. ASSUME NEW t \in Workers, TakeMuxer(t)
      PROVE  HandlerInv'
  <2>1. ThreadsOK'
    BY <1>1 DEF TakeMuxer, ThreadsOK, LooperLabels, CloseLabels
  <2>2. RecordsOK'
    BY <1>1 DEF TakeMuxer, RecordsOK
  <2>3. LooperInv'
    BY <1>1 DEF TakeMuxer, LooperInv, Closing
  <2>4. MuxerInv'
    BY <1>1 DEF TakeMuxer, MuxerInv, RunningRecordingIsKnown, ThreadsOK, RecordsOK
  <2>5. ViewInv'
    BY <1>1 DEF TakeMuxer, ViewInv, Told
  <2>6. CameraInv'
    BY <1>1 DEF TakeMuxer, CameraInv
  <2>7. FlagsOK' /\ CamerasOK'
    BY <1>1 DEF TakeMuxer, FlagsOK, CamerasOK
  <2> QED BY <2>1, <2>2, <2>3, <2>4, <2>5, <2>6, <2>7
<1>2. ASSUME NEW t \in Workers, ClearView(t)
      PROVE  HandlerInv'
  <2>0. posted' \in Seq(Encoders) /\ viewEncoder' = viewEncoder /\ Told' \in {None, Crashed}
    <3>1. posted \in Seq(Encoders) /\ None \in Encoders /\ SetVideoEncoder(None)
      BY <1>2 DEF ClearView, RecordsOK, Encoders
    <3> QED BY <3>1, PostedIsTold
  <2>1. ThreadsOK'
    BY <1>2 DEF ClearView, RecordingStopped, ThreadsOK, LooperLabels, CloseLabels
  <2>2. RecordsOK'
    BY <1>2, <2>0 DEF ClearView, RecordsOK, Encoders
  <2>3. LooperInv'
    BY <1>2 DEF ClearView, RecordingStopped, LooperInv, Closing
  <2>4. MuxerInv'
    BY <1>2 DEF ClearView, RecordingStopped, MuxerInv, RunningRecordingIsKnown
  <2>5. ViewInv'
    <3>1. \A u \in Workers : pc'[u] = "stopMuxer" => muxer'[u] \in Recordings
      BY <1>2 DEF ClearView, RecordingStopped, ThreadsOK, MuxerInv, RecordsOK
    <3> QED BY <2>0, <3>1 DEF ViewInv, Crashed
  <2>6. CameraInv'
    BY <1>2 DEF ClearView, RecordingStopped, CameraInv
  <2>7. FlagsOK' /\ CamerasOK'
    BY <1>2 DEF ClearView, FlagsOK, CamerasOK
  <2> QED BY <2>1, <2>2, <2>3, <2>4, <2>5, <2>6, <2>7
<1>3. ASSUME NEW t \in Workers, StopMuxer(t)
      PROVE  HandlerInv'
  <2>1. ThreadsOK'
    BY <1>3 DEF StopMuxer, ThreadsOK, LooperLabels, CloseLabels
  <2>2. RecordsOK'
    BY <1>3 DEF StopMuxer, RecordsOK, EncoderStates
  <2>3. LooperInv'
    BY <1>3 DEF StopMuxer, LooperInv, Closing, MuxerInv
  <2>4. MuxerInv'
    BY <1>3 DEF StopMuxer, MuxerInv, RunningRecordingIsKnown, ThreadsOK, RecordsOK
  <2>5. ViewInv'
    BY <1>3 DEF StopMuxer, ViewInv, Told, ThreadsOK
  <2>6. CameraInv'
    BY <1>3 DEF StopMuxer, CameraInv
  <2>7. FlagsOK' /\ CamerasOK'
    BY <1>3 DEF StopMuxer, FlagsOK, CamerasOK
  <2> QED BY <2>1, <2>2, <2>3, <2>4, <2>5, <2>6, <2>7
<1>4. ASSUME NEW t \in Workers, StopCallback(t)
      PROVE  HandlerInv'
  <2>1. ThreadsOK'
    BY <1>4 DEF StopCallback, RecordingStopped, ThreadsOK, LooperLabels, CloseLabels
  <2>2. LooperInv'
    BY <1>4 DEF StopCallback, RecordingStopped, LooperInv, Closing
  <2>3. MuxerInv'
    BY <1>4 DEF StopCallback, RecordingStopped, MuxerInv, RunningRecordingIsKnown
  <2>4. ViewInv'
    BY <1>4 DEF StopCallback, RecordingStopped, ViewInv, Told
  <2>5. CameraInv'
    BY <1>4 DEF StopCallback, RecordingStopped, CameraInv
  <2>6. FlagsOK' /\ RecordsOK' /\ CamerasOK'
    BY <1>4 DEF StopCallback, FlagsOK, RecordsOK, CamerasOK
  <2> QED BY <2>1, <2>2, <2>3, <2>4, <2>5, <2>6
<1>5. ASSUME NEW t \in Workers, TakeCamera(t)
      PROVE  HandlerInv'
  <2>1. ThreadsOK'
    BY <1>5 DEF TakeCamera, CameraClosed, ThreadsOK, LooperLabels, CloseLabels, LooperInv
  <2>2. CamerasOK'
    BY <1>5 DEF TakeCamera, CamerasOK
  <2>3. LooperInv'
    BY <1>5 DEF TakeCamera, CameraClosed, LooperInv
  <2>4. MuxerInv'
    BY <1>5 DEF TakeCamera, CameraClosed, MuxerInv, RunningRecordingIsKnown
  <2>5. ViewInv'
    BY <1>5 DEF TakeCamera, CameraClosed, ViewInv, Told
  <2>6. CameraInv'
    BY <1>5 DEF TakeCamera, CameraClosed, CameraInv, ThreadsOK, CamerasOK
  <2>7. FlagsOK' /\ RecordsOK'
    BY <1>5 DEF TakeCamera, FlagsOK, RecordsOK
  <2> QED BY <2>1, <2>2, <2>3, <2>4, <2>5, <2>6, <2>7
<1>6. ASSUME NEW t \in Workers, DestroyCamera(t)
      PROVE  HandlerInv'
  <2>1. ThreadsOK'
    BY <1>6 DEF DestroyCamera, CameraClosed, ThreadsOK, LooperLabels, CloseLabels, LooperInv
  <2>2. CamerasOK'
    BY <1>6 DEF DestroyCamera, CamerasOK
  <2>3. LooperInv'
    BY <1>6 DEF DestroyCamera, CameraClosed, LooperInv, Closing
  <2>4. MuxerInv'
    BY <1>6 DEF DestroyCamera, CameraClosed, MuxerInv, RunningRecordingIsKnown
  <2>5. ViewInv'
    BY <1>6 DEF DestroyCamera, CameraClosed, ViewInv, Told
  <2>6. CameraInv'
    BY <1>6 DEF DestroyCamera, CameraClosed, CameraInv, ThreadsOK, CamerasOK
  <2>7. FlagsOK' /\ RecordsOK'
    BY <1>6 DEF DestroyCamera, FlagsOK, RecordsOK
  <2> QED BY <2>1, <2>2, <2>3, <2>4, <2>5, <2>6, <2>7
<1>7. ASSUME NEW t \in Workers, Quit(t)
      PROVE  HandlerInv'
  <2>1. FlagsOK'
    BY <1>7 DEF Quit, FlagsOK
  <2>2. ThreadsOK'
    BY <1>7 DEF Quit, ThreadsOK, LooperLabels, CloseLabels
  <2>3. LooperInv'
    BY <1>7 DEF Quit, LooperInv
  <2>4. MuxerInv'
    BY <1>7 DEF Quit, MuxerInv, RunningRecordingIsKnown
  <2>5. ViewInv'
    BY <1>7 DEF Quit, ViewInv, Told
  <2>6. CameraInv'
    BY <1>7 DEF Quit, CameraInv
  <2>7. RecordsOK' /\ CamerasOK'
    BY <1>7 DEF Quit, RecordsOK, CamerasOK
  <2> QED BY <2>1, <2>2, <2>3, <2>4, <2>5, <2>6, <2>7
<1>8. CASE OpenCamera
  <2>1. ThreadsOK'
    BY <1>8 DEF OpenCamera, ThreadsOK, LooperLabels, CloseLabels
  <2>2. CamerasOK'
    BY <1>8 DEF OpenCamera, CamerasOK
  <2>3. LooperInv'
    BY <1>8 DEF OpenCamera, LooperInv, Closing, ThreadsOK
  <2>4. MuxerInv'
    BY <1>8 DEF OpenCamera, MuxerInv, RunningRecordingIsKnown
  <2>5. ViewInv'
    BY <1>8 DEF OpenCamera, ViewInv, Told
  <2>6. CameraInv'
    BY <1>8 DEF OpenCamera, CameraInv, LooperInv, Closing
  <2>7. FlagsOK' /\ RecordsOK'
    BY <1>8 DEF OpenCamera, FlagsOK, RecordsOK
  <2> QED BY <2>1, <2>2, <2>3, <2>4, <2>5, <2>6, <2>7
<1>9. CASE Exit
  <2>1. FlagsOK'
    BY <1>9 DEF Exit, FlagsOK
  <2>2. ThreadsOK'
    BY <1>9 DEF Exit, Notify, ThreadsOK, LooperLabels, CloseLabels, ClientLabels
  <2>3. LooperInv'
    BY <1>9 DEF Exit, Notify, LooperInv, Closing
  <2>4. MuxerInv'
    BY <1>9 DEF Exit, Notify, MuxerInv, RunningRecordingIsKnown
  <2>5. ViewInv'
    BY <1>9 DEF Exit, Notify, ViewInv, Told
  <2>6. CameraInv'
    BY <1>9 DEF Exit, Notify, CameraInv
  <2>7. RecordsOK' /\ CamerasOK'
    BY <1>9 DEF Exit, RecordsOK, CamerasOK
  <2> QED BY <2>1, <2>2, <2>3, <2>4, <2>5, <2>6, <2>7
<1> QED BY <1>1, <1>2, <1>3, <1>4, <1>5, <1>6, <1>7, <1>8, <1>9

\* onStopped.
LEMMA EncoderSteps ==
  ASSUME HandlerAssumption, HandlerInv,
         (\E r \in Recordings : OnStopped(r)) \/ (\E r \in Recordings : OnStoppedView(r))
         \/ (\E r \in Recordings : OnStoppedPath(r))
         \/ (\E r \in Recordings : OnStoppedNoPath(r))
  PROVE  HandlerInv'
<1> USE DEF HandlerInv
<1>1. ASSUME NEW r \in Recordings, OnStopped(r)
      PROVE  HandlerInv'
  <2>1. FlagsOK'
    BY <1>1 DEF OnStopped, FlagsOK
  <2>2. ThreadsOK'
    BY <1>1 DEF OnStopped, ThreadsOK, LooperLabels, CloseLabels
  <2>3. RecordsOK'
    BY <1>1 DEF OnStopped, RecordsOK, EncoderStates
  <2>4. LooperInv'
    <3>1. /\ encoder[r] = "stopping" /\ encoder' = [encoder EXCEPT ![r] = "done"]
          /\ \A t \in Workers : pc'[t] = pc[t] \/ (t = r /\ pc'[t] = "onStopped" /\ mEncoderType = 1)
          /\ UNCHANGED <<mEncoderType, mMuxer, mUVCCamera, recordings, muxer, after>>
      BY <1>1 DEF OnStopped, ThreadsOK
    <3>2. encoder'[r] = "done" /\ \A s \in Recordings : s # r => encoder'[s] = encoder[s]
      BY <3>1 DEF RecordsOK
    <3>3. pc'[Looper] = pc[Looper]
      BY <3>1 DEF ThreadsOK
    <3> QED BY <3>1, <3>2, <3>3 DEF LooperInv
  <2>5. MuxerInv'
    BY <1>1 DEF OnStopped, MuxerInv, RunningRecordingIsKnown, ThreadsOK
  <2>6. ViewInv'
    BY <1>1 DEF OnStopped, ViewInv, Told, ThreadsOK
  <2>7. CameraInv'
    BY <1>1 DEF OnStopped, CameraInv, ThreadsOK
  <2>8. CamerasOK'
    BY <1>1 DEF OnStopped, CamerasOK
  <2> QED BY <2>1, <2>2, <2>3, <2>4, <2>5, <2>6, <2>7, <2>8
<1>2. ASSUME NEW r \in Recordings, OnStoppedView(r)
      PROVE  HandlerInv'
  <2>0. posted' \in Seq(Encoders) /\ viewEncoder' = viewEncoder /\ Told' \in {None, Crashed}
    <3>1. posted \in Seq(Encoders) /\ None \in Encoders /\ SetVideoEncoder(None)
      BY <1>2 DEF OnStoppedView, RecordsOK, Encoders
    <3> QED BY <3>1, PostedIsTold
  <2>1. ThreadsOK'
    BY <1>2 DEF OnStoppedView, ThreadsOK
  <2>2. RecordsOK'
    BY <1>2, <2>0 DEF OnStoppedView, RecordsOK, Encoders
  <2>3. LooperInv'
    BY <1>2 DEF OnStoppedView, LooperInv
  <2>4. MuxerInv'
    BY <1>2 DEF OnStoppedView, MuxerInv, RunningRecordingIsKnown
  <2>5. ViewInv'
    <3>1. \A u \in Workers : pc'[u] = "stopMuxer" => muxer'[u] \in Recordings
      BY <1>2 DEF OnStoppedView, ThreadsOK, MuxerInv, RecordsOK
    <3> QED BY <2>0, <3>1 DEF ViewInv, Crashed
  <2>6. CameraInv'
    BY <1>2 DEF OnStoppedView, CameraInv
  <2>7. FlagsOK' /\ CamerasOK'
    BY <1>2 DEF OnStoppedView, FlagsOK, CamerasOK
  <2> QED BY <2>1, <2>2, <2>3, <2>4, <2>5, <2>6, <2>7
<1>3. ASSUME NEW r \in Recordings, OnStoppedPath(r)
      PROVE  HandlerInv'
  <2>1. ThreadsOK'
    BY <1>3 DEF OnStoppedPath, ThreadsOK, CloseLabels
  <2>2. LooperInv'
    BY <1>3 DEF OnStoppedPath, LooperInv
  <2>3. MuxerInv'
    BY <1>3 DEF OnStoppedPath, MuxerInv, RunningRecordingIsKnown
  <2>4. ViewInv'
    BY <1>3 DEF OnStoppedPath, ViewInv, Told
  <2>5. CameraInv'
    BY <1>3 DEF OnStoppedPath, CameraInv
  <2>6. FlagsOK' /\ RecordsOK' /\ CamerasOK'
    BY <1>3 DEF OnStoppedPath, FlagsOK, RecordsOK, CamerasOK
  <2> QED BY <2>1, <2>2, <2>3, <2>4, <2>5, <2>6
<1>4. ASSUME NEW r \in Recordings, OnStoppedNoPath(r)
      PROVE  HandlerInv'
  <2>1. ThreadsOK'
    BY <1>4 DEF OnStoppedNoPath, EnterStopRecording, ThreadsOK, CloseLabels
  <2>2. RecordsOK'
    BY <1>4 DEF OnStoppedNoPath, RecordsOK, EncoderStates
  <2>3. LooperInv'
    BY <1>4 DEF OnStoppedNoPath, EnterStopRecording, LooperInv, ThreadsOK
  <2>4. MuxerInv'
    <3>1. /\ pc[r] = "getPath" /\ pc'[r] \in {"stopRecording", "idle"}
          /\ \A t \in Workers : t # r => pc'[t] = pc[t]
          /\ encoder' = [encoder EXCEPT ![r] = "lost"] /\ UNCHANGED <<mMuxer, muxer, recordings>>
      BY <1>4 DEF OnStoppedNoPath, EnterStopRecording, ThreadsOK
    <3>2. encoder[r] = "done"
      BY <3>1 DEF LooperInv
    <3>3. encoder'[r] = "lost" /\ \A s \in Recordings : s # r => encoder'[s] = encoder[s]
      BY <3>1 DEF RecordsOK
    <3>4. \A t \in Workers : muxer[t] # None => muxer[t] \in Recordings
      BY DEF RecordsOK
    <3>5. mMuxer # None => mMuxer \in Recordings
      BY DEF RecordsOK
    <3> QED BY <3>1, <3>2, <3>3, <3>4, <3>5 DEF MuxerInv, RunningRecordingIsKnown
  <2>5. ViewInv'
    BY <1>4 DEF OnStoppedNoPath, EnterStopRecording, ViewInv, Told, ThreadsOK, LooperInv, Closing
  <2>6. CameraInv'
    BY <1>4 DEF OnStoppedNoPath, EnterStopRecording, CameraInv, ThreadsOK
  <2>7. FlagsOK' /\ CamerasOK'
    BY <1>4 DEF OnStoppedNoPath, FlagsOK, CamerasOK
  <2> QED BY <2>1, <2>2, <2>3, <2>4, <2>5, <2>6, <2>7
<1> QED BY <1>1, <1>2, <1>3, <1>4

LEMMA InitInv ==
  ASSUME HandlerAssumption, Init
  PROVE  HandlerInv
<1>1. FlagsOK
  BY DEF Init, FlagsOK
<1>2. ThreadsOK
  BY DEF Init, ThreadsOK, LooperLabels, CloseLabels, ClientLabels
<1>3. RecordsOK /\ CamerasOK
  BY DEF HandlerAssumption, Init, RecordsOK, CamerasOK, EncoderStates
<1>4. LooperInv /\ MuxerInv
  BY DEF Init, LooperInv, Closing, MuxerInv, RunningRecordingIsKnown
<1>5. ViewInv /\ CameraInv
  BY DEF Init, ViewInv, Told, CameraInv
<1> QED BY <1>1, <1>2, <1>3, <1>4, <1>5 DEF HandlerInv

LEMMA NextInv ==
  ASSUME HandlerAssumption, HandlerInv, [Next]_vars
  PROVE  HandlerInv'
<1>1. CASE UNCHANGED vars
  BY <1>1 DEF vars, HandlerInv, FlagsOK, ThreadsOK, RecordsOK, CamerasOK, LooperInv, Closing,
       MuxerInv, RunningRecordingIsKnown, ViewInv, Told, CameraInv
<1>2. CASE ClientCall \/ DestroyActivity
  BY <1>2, ClientSteps DEF ClientCall, Whats
<1>3. ASSUME NEW c \in Clients, ClientStep(c)
      PROVE  HandlerInv'
  BY <1>3, ClientSteps DEF ClientStep
<1>4. ASSUME NEW t \in Workers, CloseStep(t)
      PROVE  HandlerInv'
  BY <1>4, CloseSteps DEF CloseStep
<1>5. CASE LooperStep \/ Deliver
  BY <1>4, <1>5, LooperSteps, RecordSteps, CloseSteps DEF LooperStep
<1>6. ASSUME NEW r \in Recordings, EncoderStep(r)
      PROVE  HandlerInv'
  BY <1>4, <1>6, EncoderSteps DEF EncoderStep, CallbackStep
<1>7. CASE StillDrawn \/ RenderStep
  BY <1>7, LooperSteps, ViewSteps
<1> QED BY <1>1, <1>2, <1>3, <1>5, <1>6, <1>7 DEF Next

-----------------------------------------------------------------------------
(* The queue, and what is still to be announced *)

Surfaces == Clients \cup {NoClient}
Message == [what : Whats, surface : Surfaces]

\* The two parts of a queue.
LEMMA SequenceParts ==
  ASSUME NEW M, NEW q \in Seq(M), q # <<>>
  PROVE  Head(q) \in M /\ Tail(q) \in Seq(M) /\ q[1] = Head(q)
  OBVIOUS

\* sendMessage keeps the queue a queue of messages.
LEMMA SentType ==
  ASSUME NEW q \in Seq(Message), NEW whats \in Seq(Whats), NEW s \in Surfaces
  PROVE  Sent(q, whats, s) \in Seq(Message)
<1> DEFINE new == [i \in DOMAIN whats |-> [what |-> whats[i], surface |-> s]]
<1>1. new \in Seq(Message)
  <2>1. \A i \in DOMAIN whats : whats[i] \in Whats
    OBVIOUS
  <2>2. \A i \in DOMAIN whats : [what |-> whats[i], surface |-> s] \in Message
    BY <2>1 DEF Message
  <2>3. DOMAIN whats = 1..Len(whats) /\ Len(whats) \in Nat
    OBVIOUS
  <2>4. new \in [1..Len(whats) -> Message]
    BY <2>2, <2>3
  <2> QED BY <2>3, <2>4
<1> HIDE DEF new
<1>2. q \o new \in Seq(Message)
  BY <1>1
<1>3. Sent(q, whats, s) = q \/ Sent(q, whats, s) = q \o new
  BY DEF Sent, new
<1> QED BY <1>2, <1>3

\* The messages the program sends.
LEMMA WhatsSent ==
  /\ \A w \in Whats : <<w>> \in Seq(Whats)
  /\ <<>> \in Seq(Whats)
  /\ <<"release">> \in Seq(Whats) /\ <<"close">> \in Seq(Whats) /\ <<"captureStop">> \in Seq(Whats)
  /\ <<"previewStop">> \in Seq(Whats) /\ <<"mediaUpdate">> \in Seq(Whats)
  /\ <<"close", "release">> \in Seq(Whats)
<1>1. \A w \in Whats : <<w>> \in Seq(Whats)
  OBVIOUS
<1>2. {"release", "close", "captureStop", "previewStop", "mediaUpdate"} \subseteq Whats
  BY DEF Whats
<1>3. \A v, w \in Whats : <<v, w>> \in Seq(Whats)
  OBVIOUS
<1>4. <<>> \in Seq(Whats)
  OBVIOUS
<1> HIDE DEF Whats
<1> QED BY <1>1, <1>2, <1>3, <1>4

\* Every step leaves a queue of messages.
LEMMA ClientQueue ==
  ASSUME messages \in Seq(Message), NEW c \in Clients,
         (\E what \in {"open", "previewStart", "captureStill", "captureStart", "captureStop"} :
            CallSend(c, what))
         \/ StopPreview(c) \/ Close(c) \/ Release(c) \/ ClientStep(c)
  PROVE  messages' \in Seq(Message)
<1>0. c \in Surfaces
  BY DEF Surfaces
<1>1. ASSUME NEW what \in Whats, CallSend(c, what)
      PROVE  messages' \in Seq(Message)
  <2>1. messages' = Sent(messages, <<what>>, c) /\ <<what>> \in Seq(Whats)
    BY <1>1, WhatsSent DEF CallSend, Send
  <2> QED BY <1>0, <2>1, SentType
<1>2. ASSUME EnterStop(c)
      PROVE  messages' \in Seq(Message)
  <2>1. RemoveMessages(messages, "previewStart") \in Seq(Message)
    BY RemoveMessagesType
  <2> QED BY <1>0, <1>2, <2>1, SentType, WhatsSent DEF EnterStop
<1>3. ASSUME NEW whats \in Seq(Whats), Send(whats, c)
      PROVE  messages' \in Seq(Message)
  BY <1>0, <1>3, SentType DEF Send
<1>4. CASE CloseTest(c)
  <2>1. EnterStop(c) \/ Send(<<"release">>, c) \/ Send(<<>>, c)
    BY <1>4 DEF CloseTest
  <2> QED BY <1>2, <1>3, <2>1, WhatsSent
<1>5. CASE Stopped(c)
  <2>1. Send(<<>>, c) \/ Send(<<"close">>, c) \/ Send(<<"close", "release">>, c)
    BY <1>5 DEF Stopped
  <2> QED BY <1>3, <2>1, WhatsSent
<1>6. CASE StopWait(c)
  BY <1>3, <1>6, WhatsSent DEF StopWait
<1>7. CASE StopPreview(c)
  BY <1>2, <1>7 DEF StopPreview
<1>8. CASE Close(c) \/ Release(c) \/ StopTest(c)
  BY <1>8 DEF Close, Release, StopTest
<1>9. {"open", "previewStart", "captureStill", "captureStart", "captureStop"} \subseteq Whats
  BY DEF Whats
<1> QED BY <1>1, <1>4, <1>5, <1>6, <1>7, <1>8, <1>9 DEF ClientStep

LEMMA QueueStep ==
  ASSUME messages \in Seq(Message), [Next]_vars
  PROVE  messages' \in Seq(Message)
<1>1. CASE UNCHANGED vars
  BY <1>1 DEF vars
<1>2. CASE ClientCall \/ (\E c \in Clients : ClientStep(c))
  BY <1>2, ClientQueue DEF ClientCall
<1>3. CASE DestroyActivity \/ RenderStep
  BY <1>3 DEF DestroyActivity, RenderStep, SetEncoder, SetEncoderThrows, ViewUnchanged
<1>4. NoClient \in Surfaces
  BY DEF Surfaces
<1>5. CASE Deliver
  <2>1. messages' = Sent(messages, <<"mediaUpdate">>, NoClient)
    BY <1>5 DEF Deliver, Send
  <2> QED BY <1>4, <2>1, SentType, WhatsSent
<1>6. CASE SaveStill
  <2>1. \E whats \in {<<>>, <<"mediaUpdate">>} : messages' = Sent(messages, whats, NoClient)
    BY <1>6 DEF SaveStill, Send
  <2> QED BY <1>4, <2>1, SentType, WhatsSent
<1>7. CASE TakeMessage
  <2>1. messages # <<>> /\ messages' = Tail(messages)
    BY <1>7 DEF TakeMessage
  <2>2. Tail(messages) \in Seq(Message)
    BY <2>1, SequenceParts
  <2> QED BY <2>1, <2>2
<1>8. CASE CaptureStill \/ StillDrawn \/ StartPreviewTest \/ StartNative \/ StartParams \/ StartFlag \/ StopNative \/ StopFlag
           \/ StartRecordingTest \/ Prepare \/ PrepareThrows \/ StartRecording \/ StartCallback \/ SetMuxer \/ OpenCamera \/ Exit
  BY <1>8 DEF CaptureStill, StillDrawn, StartPreviewTest, StartNative, StartParams, StartFlag, StopNative, StopFlag, StartRecordingTest,
       Prepare, PrepareThrows, StartRecording, StartCallback, SetMuxer, OpenCamera, Exit
<1>9. ASSUME NEW t \in Workers, CloseStep(t)
      PROVE  messages' \in Seq(Message)
  <2>1. CASE Quit(t)
    <3>1. messages' = <<>> \/ messages' = messages
      BY <2>1 DEF Quit
    <3>2. <<>> \in Seq(Message)
      OBVIOUS
    <3> QED BY <3>1, <3>2
  <2>2. CASE ~Quit(t)
    BY <1>9, <2>2 DEF CloseStep, TakeMuxer, ClearView, StopMuxer, StopCallback, TakeCamera, DestroyCamera
  <2> QED BY <2>1, <2>2
<1>10. ASSUME NEW r \in Recordings, EncoderStep(r)
      PROVE  messages' \in Seq(Message)
  <2>1. CASE CloseStep(r)
    BY <1>9, <2>1
  <2>2. CASE ~CloseStep(r)
    BY <1>10, <2>2 DEF EncoderStep, CallbackStep, OnStopped, OnStoppedView, OnStoppedPath, OnStoppedNoPath
  <2> QED BY <2>1, <2>2
<1> QED BY <1>1, <1>2, <1>3, <1>5, <1>6, <1>7, <1>8, <1>9, <1>10 DEF Next, LooperStep

\* The rest of MessagesOK but delayed.
SurfacesOK ==
  /\ surface \in Surfaces /\ alive \subseteq Clients /\ \A k \in Cameras : shown[k] \in Surfaces
  /\ op \in [Clients -> {"none", "stopPreview", "close", "release"}] /\ calls \in 0..MaxCalls

LEMMA SurfacesStep ==
  ASSUME HandlerAssumption, messages \in Seq(Message), CamerasOK, SurfacesOK, [Next]_vars
  PROVE  SurfacesOK'
<1>1. CASE UNCHANGED vars
  BY <1>1 DEF vars, SurfacesOK
<1>2. ASSUME NEW c \in Clients,
             (\E what \in {"open", "previewStart", "captureStill", "captureStart", "captureStop"} :
                CallSend(c, what))
             \/ StopPreview(c) \/ Close(c) \/ Release(c)
      PROVE  SurfacesOK'
  <2>1. UNCHANGED <<surface, alive, shown>>
    BY <1>2 DEF CallSend, StopPreview, Close, Release
  <2>2. calls < MaxCalls /\ calls' = calls + 1
    BY <1>2 DEF CallSend, StopPreview, Close, Release, Call
  <2>3. calls' \in 0..MaxCalls
    BY <2>2 DEF SurfacesOK, HandlerAssumption
  <2>4. op' = op \/ \E v \in {"stopPreview", "close", "release"} : op' = [op EXCEPT ![c] = v]
    BY <1>2 DEF CallSend, StopPreview, Close, Release
  <2>5. op' \in [Clients -> {"none", "stopPreview", "close", "release"}]
    BY <2>4 DEF SurfacesOK
  <2> QED BY <2>1, <2>3, <2>5 DEF SurfacesOK
<1>3. ASSUME NEW c \in Clients, ClientStep(c)
      PROVE  SurfacesOK'
  <2>1. UNCHANGED <<surface, shown, op, calls>> /\ alive' \subseteq alive
    BY <1>3 DEF ClientStep, CloseTest, StopTest, StopWait, Stopped
  <2> QED BY <2>1 DEF SurfacesOK
<1>4. CASE TakeMessage
  <2>1. messages # <<>> /\ surface' = Head(messages).surface
    BY <1>4 DEF TakeMessage
  <2>2. \A q \in Seq(Message) : q # <<>> => Head(q) \in Message
    OBVIOUS
  <2>3. surface' \in Surfaces
    BY <2>1, <2>2 DEF Message
  <2>4. UNCHANGED <<shown, alive, op, calls>>
    BY <1>4 DEF TakeMessage
  <2> QED BY <2>3, <2>4 DEF SurfacesOK
<1>5. CASE StartNative \/ StopNative
  <2>1. UNCHANGED <<surface, alive, op, calls>>
    BY <1>5 DEF StartNative, StopNative
  <2>2. shown' = shown \/ \E s \in {surface, NoClient} : shown' = [shown EXCEPT ![mUVCCamera] = s]
    BY <1>5 DEF StartNative, StopNative
  <2>3. \A k \in Cameras : shown'[k] \in {shown[k], surface, NoClient}
    BY <2>2 DEF CamerasOK
  <2> QED BY <2>1, <2>3 DEF SurfacesOK, Surfaces
<1>6. CASE DestroyActivity \/ Deliver \/ CaptureStill \/ StillDrawn \/ SaveStill \/ RenderStep
           \/ StartPreviewTest \/ StartParams \/ StartFlag \/ StopFlag
           \/ StartRecordingTest \/ Prepare \/ PrepareThrows \/ StartRecording \/ StartCallback \/ SetMuxer \/ OpenCamera \/ Exit
  <2>1. UNCHANGED <<surface, shown, alive, op, calls>>
    BY <1>6 DEF DestroyActivity, Deliver, CaptureStill, StillDrawn, SaveStill,
         RenderStep, SetEncoder, SetEncoderThrows, ViewUnchanged, StartPreviewTest, StartParams, StartFlag, StopFlag,
         StartRecordingTest, Prepare, PrepareThrows, StartRecording, StartCallback, SetMuxer, OpenCamera, Exit
  <2> QED BY <2>1 DEF SurfacesOK
<1>7. ASSUME NEW t \in Workers, CloseStep(t)
      PROVE  SurfacesOK'
  <2>1. UNCHANGED <<surface, alive, op, calls>>
    BY <1>7 DEF CloseStep, TakeMuxer, ClearView, StopMuxer, StopCallback, TakeCamera, DestroyCamera, Quit
  <2>2. shown' = shown \/ shown' = [shown EXCEPT ![camera[t]] = NoClient]
    BY <1>7 DEF CloseStep, TakeMuxer, ClearView, StopMuxer, StopCallback, TakeCamera, DestroyCamera, Quit
  <2>3. \A k \in Cameras : shown'[k] \in {shown[k], NoClient}
    BY <2>2 DEF CamerasOK
  <2> QED BY <2>1, <2>3 DEF SurfacesOK, Surfaces
<1>8. ASSUME NEW r \in Recordings, EncoderStep(r), ~CloseStep(r)
      PROVE  SurfacesOK'
  <2>1. UNCHANGED <<surface, shown, alive, op, calls>>
    BY <1>8 DEF EncoderStep, CallbackStep, OnStopped, OnStoppedView, OnStoppedPath, OnStoppedNoPath
  <2> QED BY <2>1 DEF SurfacesOK
<1> QED BY <1>1, <1>2, <1>3, <1>4, <1>5, <1>6, <1>7, <1>8 DEF Next, ClientCall, LooperStep, EncoderStep, CallbackStep

\* The recordings whose file was announced, or whose end is not reported: no more messages
\* MSG_MEDIA_UPDATE are on their way than there are of them.
Announced == {r \in Recordings : encoder[r] = "done" /\ pc[r] = "idle"}

DelayedInv == delayed \in Nat /\ delayed <= Cardinality(Announced)

LEMMA AnnouncedFinite ==
  ASSUME HandlerAssumption
  PROVE  IsFiniteSet(Announced) /\ IsFiniteSet(Announced') /\ Cardinality(Announced) \in Nat
<1>1. IsFiniteSet(1..MaxRecordings)
  BY FS_Interval DEF HandlerAssumption
<1> QED BY <1>1, FS_Subset, FS_CardinalityType DEF Announced

LEMMA DelayedKept ==
  ASSUME HandlerAssumption, DelayedInv, delayed' \in Nat, delayed' <= delayed, Announced \subseteq Announced'
  PROVE  DelayedInv'
<1>1. Cardinality(Announced) <= Cardinality(Announced')
  BY AnnouncedFinite, FS_Subset
<1>2. Cardinality(Announced) \in Nat /\ Cardinality(Announced') \in Nat
  BY AnnouncedFinite, FS_CardinalityType
<1> QED BY <1>1, <1>2 DEF DelayedInv

LEMMA DelayedBound ==
  ASSUME HandlerAssumption, RecordsOK, \A r \in Recordings : r > recordings => encoder[r] = "none", DelayedInv
  PROVE  delayed \in 0..recordings
<1>1. recordings \in Nat
  BY DEF RecordsOK
<1>2. Announced \subseteq 1..recordings
  BY <1>1 DEF Announced
<1>3. IsFiniteSet(1..recordings) /\ Cardinality(1..recordings) = recordings
  BY <1>1, FS_Interval
<1>4. Cardinality(Announced) <= Cardinality(1..recordings)
  BY <1>2, <1>3, FS_Subset
<1> QED BY <1>1, <1>3, <1>4, AnnouncedFinite DEF DelayedInv

LEMMA DelayedStep ==
  ASSUME HandlerAssumption, HandlerInv, DelayedInv, [Next]_vars
  PROVE  DelayedInv'
<1> USE DEF HandlerInv
<1>1. CASE delayed' = delayed
  <2>1. ASSUME NEW r \in Recordings, encoder[r] = "done", pc[r] = "idle"
        PROVE  encoder'[r] = "done" /\ pc'[r] = "idle"
    <3>1. CASE UNCHANGED vars \/ RenderStep
      BY <2>1, <3>1 DEF vars, RenderStep, SetEncoder, SetEncoderThrows, ViewUnchanged
    <3>2. CASE ClientCall \/ DestroyActivity \/ Deliver \/ \E c \in Clients : ClientStep(c)
      <4>1. encoder' = encoder /\ pc'[r] = pc[r]
        BY <3>2 DEF ClientCall, ClientStep, CallSend, StopPreview, Close, Release, CloseTest,
             StopTest, StopWait, Stopped, DestroyActivity, Deliver, HandlerAssumption, ThreadsOK
      <4> QED BY <2>1, <4>1
    <3>3. CASE \/ TakeMessage \/ CaptureStill \/ StillDrawn \/ SaveStill \/ StartPreviewTest \/ StartNative \/ StartParams \/ StartFlag
               \/ StopNative \/ StopFlag \/ OpenCamera \/ Exit
      <4>1. encoder' = encoder
        BY <3>3 DEF TakeMessage, CaptureStill, StillDrawn, SaveStill, StartPreviewTest, StartNative, StartParams, StartFlag, StopNative,
             StopFlag, OpenCamera, Exit
      <4>2. pc'[r] = "idle"
        BY <2>1, <3>3 DEF TakeMessage, EnterStopRecording, CaptureStill, StillDrawn, SaveStill, StartPreviewTest,
             StartNative, StartParams, StartFlag, StopNative, StopFlag, OpenCamera, Exit, Notify, ThreadsOK
      <4> QED BY <2>1, <4>1, <4>2
    <3>4. CASE StartRecordingTest \/ Prepare \/ PrepareThrows \/ StartRecording \/ StartCallback \/ SetMuxer
      <4>1. pc'[r] = pc[r]
        BY <3>4 DEF StartRecordingTest, Prepare, PrepareThrows, StartRecording, StartCallback, SetMuxer, ThreadsOK
      <4>2. \/ encoder' = encoder
            \/ recordings' = recordings + 1 /\ \E s \in EncoderStates : encoder' = [encoder EXCEPT ![recordings'] = s]
            \/ /\ pc[Looper] \in {"prepare", "startRecording"}
               /\ \E s \in EncoderStates : encoder' = [encoder EXCEPT ![recordings] = s]
        BY <3>4 DEF StartRecordingTest, Prepare, PrepareThrows, StartRecording, StartCallback, SetMuxer, EncoderStates
      <4>3. pc[Looper] \in {"prepare", "startRecording"} => r # recordings
        BY <2>1 DEF LooperInv
      <4>4. r # recordings + 1
        BY <2>1 DEF MuxerInv, RecordsOK
      <4>5. encoder'[r] = encoder[r]
        BY <4>2, <4>3, <4>4 DEF RecordsOK
      <4> QED BY <2>1, <4>1, <4>5
    <3>5. ASSUME NEW t \in Workers, CloseStep(t)
          PROVE  encoder'[r] = "done" /\ pc'[r] = "idle"
      <4>1. pc[t] # "idle" /\ \A u \in Workers : u # t => pc'[u] = pc[u]
        BY <3>5 DEF CloseStep, TakeMuxer, ClearView, StopMuxer, StopCallback, TakeCamera,
             DestroyCamera, Quit, ThreadsOK
      <4>2. encoder' = encoder \/ (muxer[t] # None /\ encoder' = [encoder EXCEPT ![muxer[t]] = "stopping"])
        BY <3>5 DEF CloseStep, TakeMuxer, ClearView, StopMuxer, StopCallback, TakeCamera,
             DestroyCamera, Quit, MuxerInv
      <4>3. muxer[t] # None => encoder[muxer[t]] = "running"
        BY DEF MuxerInv
      <4>4. encoder'[r] = encoder[r]
        BY <2>1, <4>2, <4>3 DEF RecordsOK
      <4> QED BY <2>1, <4>1, <4>4
    <3>6. ASSUME NEW s \in Recordings, EncoderStep(s)
          PROVE  encoder'[r] = "done" /\ pc'[r] = "idle"
      <4>1. CASE CloseStep(s)
        BY <3>5, <4>1
      <4>2. CASE OnStopped(s) \/ OnStoppedView(s) \/ OnStoppedPath(s) \/ OnStoppedNoPath(s)
        <5>1. s # r
          BY <2>1, <4>2 DEF OnStopped, OnStoppedView, OnStoppedPath, OnStoppedNoPath
        <5>2. encoder'[r] = encoder[r] /\ pc'[r] = pc[r]
          BY <4>2, <5>1 DEF OnStopped, OnStoppedView, OnStoppedPath, OnStoppedNoPath,
               EnterStopRecording, ThreadsOK, RecordsOK
        <5> QED BY <2>1, <5>2
      <4> QED BY <3>6, <4>1, <4>2 DEF EncoderStep, CallbackStep
    <3> QED BY <3>1, <3>2, <3>3, <3>4, <3>5, <3>6 DEF Next, LooperStep
  <2>2. Announced \subseteq Announced'
    BY <2>1 DEF Announced
  <2> QED BY <1>1, <2>2, DelayedKept DEF DelayedInv
<1>2. CASE Deliver
  <2>1. delayed > 0 /\ delayed' = delayed - 1 /\ UNCHANGED <<encoder, pc>>
    BY <1>2 DEF Deliver
  <2>2. Announced' = Announced
    BY <2>1 DEF Announced
  <2> QED BY <2>1, <2>2, DelayedKept DEF DelayedInv
<1>3. ASSUME NEW r \in Recordings, OnStoppedPath(r)
      PROVE  DelayedInv'
  <2>1. /\ pc[r] = "getPath" /\ encoder[r] = "done" /\ encoder' = encoder
        /\ delayed' \in {delayed, delayed + 1}
    BY <1>3 DEF OnStoppedPath, LooperInv
  <2>2. pc'[r] = "idle" /\ \A s \in Recordings : s # r => pc'[s] = pc[s]
    BY <1>3 DEF OnStoppedPath, ThreadsOK
  <2>3. r \notin Announced /\ Announced' = Announced \cup {r}
    BY <2>1, <2>2 DEF Announced
  <2>4. Cardinality(Announced') = Cardinality(Announced) + 1
    BY <2>3, AnnouncedFinite, FS_AddElement
  <2> QED BY <2>1, <2>4, AnnouncedFinite DEF DelayedInv
<1>4. CASE delayed' # delayed
  <2>1. ~(UNCHANGED vars) /\ ~ClientCall /\ ~DestroyActivity /\ ~LooperStep /\ ~StillDrawn /\ ~RenderStep
        /\ \A c \in Clients : ~ClientStep(c)
    BY <1>4 DEF vars, RenderStep, SetEncoder, SetEncoderThrows, ViewUnchanged, ClientCall, ClientStep, CallSend, StopPreview, Close, Release, CloseTest,
         StopTest, StopWait, Stopped, DestroyActivity, LooperStep, CloseStep, TakeMessage,
         CaptureStill, StillDrawn, SaveStill, StartPreviewTest, StartNative, StartParams, StartFlag, StopNative, StopFlag, OpenCamera,
         Exit, StartRecordingTest, Prepare, PrepareThrows, StartRecording, StartCallback, SetMuxer, TakeMuxer, ClearView,
         StopMuxer, StopCallback, TakeCamera, DestroyCamera, Quit
  <2>2. \A r \in Recordings : EncoderStep(r) => OnStoppedPath(r)
    BY <1>4 DEF EncoderStep, CallbackStep, OnStopped, OnStoppedView, OnStoppedNoPath, CloseStep, TakeMuxer,
         ClearView, StopMuxer, StopCallback, TakeCamera, DestroyCamera, Quit
  <2> QED BY <1>2, <1>3, <2>1, <2>2 DEF Next
<1> QED BY <1>1, <1>4

\* The whole of TypeOK with what it rests on.
QueueInv == messages \in Seq(Message) /\ SurfacesOK /\ DelayedInv

LEMMA InitQueue ==
  ASSUME HandlerAssumption, Init
  PROVE  QueueInv
<1>1. messages \in Seq(Message)
  BY DEF Init
<1>2. SurfacesOK
  BY DEF Init, SurfacesOK, Surfaces, HandlerAssumption
<1>3. DelayedInv
  BY AnnouncedFinite DEF Init, DelayedInv
<1> QED BY <1>1, <1>2, <1>3 DEF QueueInv

-----------------------------------------------------------------------------
(* What a client waits for in stopPreview *)

Stops(q) == {i \in DOMAIN q : q[i].what = "previewStop"}

StopsQueued == Stops(messages) # {}

\* A client that waits, as long as the camera thread has not ended, waits for a message that is
\* queued or being handled, and its handler will notify because the preview is on.
SleeperIsOwed ==
  \A c \in Clients : pc[c] = "waiting" /\ pc[Looper] \notin {"ended", "crashed"} =>
    \/ mIsPreviewing /\ (StopsQueued \/ pc[Looper] = "previewStop")
    \/ pc[Looper] \in {"stopFlag", "exit"}

\* With one client there is one such message at a time, and only while the client waits.
SoleInv ==
  /\ \A c \in Clients : pc[c] # "waiting" => ~StopsQueued /\ pc[Looper] \notin {"previewStop", "stopFlag"}
  /\ \A c \in Clients : pc[c] = "stopSend" => mIsPreviewing
  /\ pc[Looper] \in {"previewStop", "stopFlag"} => ~StopsQueued
  /\ \A i, j \in Stops(messages) : i = j
  /\ pc[Looper] \in {"exit", "ended"} => messages = <<>>
  /\ SleeperIsOwed

\* What the operations on the queue do to the messages that stop the preview.
LEMMA StopsOfSent ==
  ASSUME NEW q \in Seq(Message), NEW whats \in Seq(Whats), NEW s \in Surfaces,
         \A i \in DOMAIN whats : whats[i] # "previewStop"
  PROVE  Stops(Sent(q, whats, s)) = Stops(q)
<1> DEFINE new == [i \in DOMAIN whats |-> [what |-> whats[i], surface |-> s]]
<1>1. Len(whats) \in Nat /\ DOMAIN whats = 1..Len(whats)
  OBVIOUS
<1>2. \A i \in DOMAIN whats : [what |-> whats[i], surface |-> s] \in Message
  BY DEF Message
<1>3. new \in [1..Len(whats) -> Message]
  BY <1>1, <1>2
<1>4. new \in Seq(Message) /\ Len(new) = Len(whats)
  BY <1>1, <1>3
<1>5. \A i \in 1..Len(whats) : new[i].what # "previewStop"
  BY <1>1
<1> HIDE DEF new
<1>6. /\ q \o new \in Seq(Message) /\ Len(q \o new) = Len(q) + Len(new)
      /\ DOMAIN (q \o new) = 1..(Len(q) + Len(new)) /\ DOMAIN q = 1..Len(q)
      /\ Len(q) \in Nat /\ Len(new) \in Nat
  BY <1>4
<1>7. \A i \in 1..(Len(q) + Len(new)) :
        (q \o new)[i] = IF i <= Len(q) THEN q[i] ELSE new[i - Len(q)]
  BY <1>4
<1>8. \A i \in 1..(Len(q) + Len(new)) : i > Len(q) => (q \o new)[i].what # "previewStop"
  BY <1>4, <1>5, <1>6, <1>7
<1>9. Stops(q \o new) = Stops(q)
  BY <1>6, <1>7, <1>8 DEF Stops
<1> QED BY <1>9 DEF Sent, new

LEMMA StopsOfStop ==
  ASSUME NEW q \in Seq(Message), NEW s \in Surfaces
  PROVE  \/ Sent(q, <<"previewStop">>, s) = q /\ pc[Looper] \in {"exit", "ended", "crashed"}
         \/ Stops(Sent(q, <<"previewStop">>, s)) = Stops(q) \cup {Len(q) + 1}
<1> DEFINE m == [what |-> "previewStop", surface |-> s]
<1>1. [i \in DOMAIN <<"previewStop">> |-> [what |-> <<"previewStop">>[i], surface |-> s]] = <<m>>
  OBVIOUS
<1>2. \/ Sent(q, <<"previewStop">>, s) = q /\ pc[Looper] \in {"exit", "ended", "crashed"}
      \/ Sent(q, <<"previewStop">>, s) = q \o <<m>>
  BY <1>1 DEF Sent
<1>3. m \in Message /\ m.what = "previewStop"
  BY DEF Message, Whats
<1> HIDE DEF m
<1>4. /\ Len(q) \in Nat /\ DOMAIN q = 1..Len(q) /\ DOMAIN (q \o <<m>>) = 1..(Len(q) + 1)
      /\ (q \o <<m>>)[Len(q) + 1] = m /\ \A i \in 1..Len(q) : (q \o <<m>>)[i] = q[i]
  BY <1>3
<1>5. Stops(q \o <<m>>) = Stops(q) \cup {Len(q) + 1}
  BY <1>3, <1>4 DEF Stops
<1> QED BY <1>2, <1>5

LEMMA StopsOfTail ==
  ASSUME NEW q \in Seq(Message), q # <<>>
  PROVE  Stops(Tail(q)) = {i \in 1..(Len(q) - 1) : i + 1 \in Stops(q)} /\ (Head(q).what = "previewStop" <=> 1 \in Stops(q))
<1>1. /\ Len(q) \in Nat \ {0} /\ DOMAIN q = 1..Len(q) /\ DOMAIN Tail(q) = 1..(Len(q) - 1)
      /\ \A i \in 1..(Len(q) - 1) : Tail(q)[i] = q[i + 1] /\ i + 1 \in 1..Len(q)
      /\ Head(q) = q[1] /\ 1 \in 1..Len(q)
  OBVIOUS
<1> QED BY <1>1 DEF Stops

LEMMA StopsOfRemove ==
  ASSUME NEW q \in Seq(Message), Stops(q) = {}
  PROVE  Stops(RemoveMessages(q, "previewStart")) = {} /\ RemoveMessages(q, "previewStart") \in Seq(Message)
<1> DEFINE M == {m \in Message : m.what # "previewStop"}
<1>1. Len(q) \in Nat /\ q \in [1..Len(q) -> Message] /\ DOMAIN q = 1..Len(q)
  OBVIOUS
<1>2. \A i \in 1..Len(q) : q[i] \in M
  BY <1>1 DEF Stops
<1>3. q \in [1..Len(q) -> M]
  BY <1>1, <1>2
<1>4. q \in Seq(M)
  BY <1>1, <1>3
<1>5. RemoveMessages(q, "previewStart") \in Seq(M)
  BY <1>4, RemoveMessagesType
<1>6. \A r \in Seq(M) : Stops(r) = {}
  BY DEF Stops
<1> QED BY <1>5, <1>6, RemoveMessagesType

LEMMA OthersAreNoStops ==
  ASSUME NEW whats \in {<<>>, <<"release">>, <<"close">>, <<"close", "release">>, <<"mediaUpdate">>}
  PROVE  \A i \in DOMAIN whats : whats[i] # "previewStop"
<1>1. \A i \in DOMAIN <<>> : <<>>[i] # "previewStop"
  OBVIOUS
<1>2. \A i \in DOMAIN <<"release">> : <<"release">>[i] # "previewStop"
  OBVIOUS
<1>3. \A i \in DOMAIN <<"close">> : <<"close">>[i] # "previewStop"
  OBVIOUS
<1>4. \A i \in DOMAIN <<"close", "release">> : <<"close", "release">>[i] # "previewStop"
  OBVIOUS
<1>5. \A i \in DOMAIN <<"mediaUpdate">> : <<"mediaUpdate">>[i] # "previewStop"
  OBVIOUS
<1> QED BY <1>1, <1>2, <1>3, <1>4, <1>5

\* A step that leaves those messages, the preview and the handling of such a message alone.
LEMMA SoleFrame ==
  ASSUME SoleInv, Stops(messages') = Stops(messages),
         mIsPreviewing => mIsPreviewing',
         pc[Looper] \in {"exit", "ended"} => messages' = messages,
         \/ pc'[Looper] = pc[Looper]
         \/ /\ pc[Looper] \notin {"previewStop", "stopFlag", "exit", "ended", "crashed"}
            /\ pc'[Looper] \notin {"previewStop", "stopFlag", "exit", "ended"},
         \A c \in Clients : pc'[c] = pc[c] \/ (pc[c] # "waiting" /\ pc'[c] \notin {"waiting", "stopSend"})
  PROVE  SoleInv'
<1>1. StopsQueued' <=> StopsQueued
  BY DEF StopsQueued
<1>2. SleeperIsOwed'
  BY <1>1 DEF SoleInv, SleeperIsOwed
<1>3. \A i, j \in Stops(messages') : i = j
  BY DEF SoleInv
<1> QED BY <1>1, <1>2, <1>3 DEF SoleInv

LEMMA SoleClientStep ==
  ASSUME HandlerAssumption, ThreadsOK, messages \in Seq(Message), SoleInv, \A c, d \in Clients : c = d,
         NEW c \in Clients,
         (\E what \in {"open", "previewStart", "captureStill", "captureStart", "captureStop"} :
            CallSend(c, what))
         \/ StopPreview(c) \/ Close(c) \/ Release(c) \/ ClientStep(c)
  PROVE  SoleInv'
<1>1. c # Looper /\ c \in Surfaces /\ \A d \in Clients : d = c
  BY DEF HandlerAssumption, Surfaces
<1>2. mIsPreviewing' = mIsPreviewing
  BY DEF ClientStep, CallSend, StopPreview, Close, Release, CloseTest, StopTest, StopWait, Stopped
<1>3. pc'[Looper] = pc[Looper]
  BY <1>1 DEF ThreadsOK, ClientStep, CallSend, StopPreview, Close, Release, CloseTest, StopTest,
       StopWait, Stopped
<1>4. ASSUME NEW q \in Seq(Message), Stops(q) = Stops(messages), NEW whats \in Seq(Whats),
             \A i \in DOMAIN whats : whats[i] # "previewStop", messages' = Sent(q, whats, c),
             pc[Looper] \in {"exit", "ended"} => q = messages
      PROVE  /\ Stops(messages') = Stops(messages)
             /\ pc[Looper] \in {"exit", "ended"} => messages' = messages
  <2>1. Stops(messages') = Stops(messages)
    BY <1>1, <1>4, StopsOfSent
  <2>2. pc[Looper] \in {"exit", "ended"} => messages' = messages
    BY <1>4 DEF Sent
  <2> QED BY <2>1, <2>2
<1>5. \A w \in Whats \ {"previewStop"} : \A i \in DOMAIN <<w>> : <<w>>[i] # "previewStop"
  OBVIOUS
<1>6. ASSUME NEW what \in Whats \ {"previewStop"}, CallSend(c, what)
      PROVE  SoleInv'
  <2>1. messages' = Sent(messages, <<what>>, c) /\ <<what>> \in Seq(Whats) /\ pc' = pc
    BY <1>6, WhatsSent DEF CallSend, Send
  <2>2. \A i \in DOMAIN <<what>> : <<what>>[i] # "previewStop"
    BY <1>5
  <2>3. /\ Stops(messages') = Stops(messages)
        /\ pc[Looper] \in {"exit", "ended"} => messages' = messages
    BY <1>4, <2>1, <2>2
  <2> QED BY <1>2, <1>3, <2>1, <2>3, SoleFrame
<1>7. ASSUME EnterStop(c), pc[c] # "waiting"
      PROVE  /\ Stops(messages') = Stops(messages)
             /\ pc[Looper] \in {"exit", "ended"} => messages' = messages
  <2>1. Stops(messages) = {}
    BY <1>7 DEF SoleInv, StopsQueued
  <2> DEFINE q == RemoveMessages(messages, "previewStart")
  <2>2. Stops(q) = {} /\ q \in Seq(Message)
    BY <2>1, StopsOfRemove
  <2>3. pc[Looper] \in {"exit", "ended"} => q = messages
    <3>1. \A k \in Seq({}) : k = <<>>
      OBVIOUS
    <3>2. <<>> \in Seq({})
      OBVIOUS
    <3> QED BY <3>1, <3>2, RemoveMessagesType DEF SoleInv
  <2>4. messages' = Sent(q, <<"captureStop">>, c) /\ <<"captureStop">> \in Seq(Whats)
    BY <1>7, WhatsSent DEF EnterStop
  <2>5. \A i \in DOMAIN <<"captureStop">> : <<"captureStop">>[i] # "previewStop"
    OBVIOUS
  <2> HIDE DEF q
  <2> QED BY <1>4, <2>1, <2>2, <2>3, <2>4, <2>5
<1>8. CASE StopPreview(c)
  <2>1. EnterStop(c) /\ pc[c] = "idle" /\ pc' = [pc EXCEPT ![c] = "stopTest"]
    BY <1>8 DEF StopPreview, Call
  <2>2. pc'[c] = "stopTest"
    BY <2>1 DEF ThreadsOK
  <2> QED BY <1>1, <1>2, <1>3, <1>7, <2>1, <2>2, SoleFrame
<1>9. CASE Close(c) \/ Release(c)
  <2>1. messages' = messages /\ pc[c] = "idle" /\ pc' = [pc EXCEPT ![c] = "closeTest"]
    BY <1>9 DEF Close, Release, Call
  <2>2. pc'[c] = "closeTest"
    BY <2>1 DEF ThreadsOK
  <2> QED BY <1>1, <1>2, <1>3, <2>1, <2>2, SoleFrame
<1>10. CASE CloseTest(c)
  <2>1. pc[c] = "closeTest" /\ \E l \in {"stopTest", "idle"} : pc' = [pc EXCEPT ![c] = l]
    BY <1>10 DEF CloseTest
  <2>2. pc'[c] \in {"stopTest", "idle"}
    BY <2>1 DEF ThreadsOK
  <2>3. EnterStop(c) \/ Send(<<"release">>, c) \/ Send(<<>>, c)
    BY <1>10 DEF CloseTest
  <2>4. CASE EnterStop(c)
    BY <1>1, <1>2, <1>3, <1>7, <2>1, <2>2, <2>4, SoleFrame
  <2>5. CASE Send(<<"release">>, c) \/ Send(<<>>, c)
    <3>1. PICK whats \in {<<"release">>, <<>>} : messages' = Sent(messages, whats, c)
      BY <2>5 DEF Send
    <3>2. whats \in Seq(Whats) /\ \A i \in DOMAIN whats : whats[i] # "previewStop"
      BY <3>1, WhatsSent, OthersAreNoStops
    <3> QED BY <1>1, <1>2, <1>3, <1>4, <2>1, <2>2, <3>1, <3>2, SoleFrame
  <2> QED BY <2>3, <2>4, <2>5
<1>11. CASE Stopped(c)
  <2>1. pc[c] = "stopped" /\ pc' = [pc EXCEPT ![c] = "idle"]
    BY <1>11 DEF Stopped
  <2>2. pc'[c] = "idle"
    BY <2>1 DEF ThreadsOK
  <2>3. PICK whats \in {<<>>, <<"close">>, <<"close", "release">>} : messages' = Sent(messages, whats, c)
    BY <1>11 DEF Stopped, Send
  <2>4. whats \in Seq(Whats) /\ \A i \in DOMAIN whats : whats[i] # "previewStop"
    BY <2>3, WhatsSent, OthersAreNoStops
  <2> QED BY <1>1, <1>2, <1>3, <1>4, <2>1, <2>2, <2>3, <2>4, SoleFrame
<1>12. CASE StopTest(c)
  <2>1. /\ pc[c] = "stopTest" /\ messages' = messages
        /\ pc' = [pc EXCEPT ![c] = IF IsPreviewing THEN "stopSend" ELSE "stopped"]
    BY <1>12 DEF StopTest
  <2>2. pc'[c] # "waiting" /\ (pc'[c] = "stopSend" => mIsPreviewing)
    BY <2>1 DEF ThreadsOK, IsPreviewing
  <2>3. StopsQueued' <=> StopsQueued
    BY <2>1 DEF StopsQueued
  <2> QED BY <1>1, <1>2, <1>3, <2>1, <2>2, <2>3 DEF SoleInv, SleeperIsOwed
<1>13. CASE StopWait(c)
  <2>1. /\ pc[c] = "stopSend" /\ pc' = [pc EXCEPT ![c] = "waiting"]
        /\ messages' = Sent(messages, <<"previewStop">>, c)
    BY <1>13 DEF StopWait, Send
  <2>2. pc'[c] = "waiting"
    BY <2>1 DEF ThreadsOK
  <2>3. Stops(messages) = {} /\ mIsPreviewing /\ pc[Looper] \notin {"previewStop", "stopFlag"}
    BY <2>1 DEF SoleInv, StopsQueued
  <2>4. \/ messages' = messages /\ pc[Looper] \in {"exit", "ended", "crashed"}
        \/ Stops(messages') = Stops(messages) \cup {Len(messages) + 1}
    BY <1>1, <2>1, StopsOfStop
  <2>5. pc[Looper] \in {"exit", "ended"} => messages' = messages
    BY <2>1 DEF Sent
  <2>6. \/ Stops(messages') = {} /\ pc[Looper] \in {"exit", "ended", "crashed"}
        \/ Stops(messages') = {Len(messages) + 1}
    BY <2>3, <2>4
  <2>7. \A i, j \in Stops(messages') : i = j
    BY <2>6
  <2>8. SleeperIsOwed'
    BY <1>1, <1>2, <1>3, <2>3, <2>6 DEF SleeperIsOwed, StopsQueued
  <2> QED BY <1>1, <1>2, <1>3, <2>2, <2>3, <2>5, <2>7, <2>8 DEF SoleInv
<1>14. {"open", "previewStart", "captureStill", "captureStart", "captureStop"} \subseteq Whats \ {"previewStop"}
  BY DEF Whats
<1> QED BY <1>6, <1>8, <1>9, <1>10, <1>11, <1>12, <1>13, <1>14 DEF ClientStep

LEMMA SoleStep ==
  ASSUME HandlerAssumption, ThreadsOK, messages \in Seq(Message), SoleInv, \A c, d \in Clients : c = d,
         [Next]_vars
  PROVE  SoleInv'
<1>1. \A c \in Clients : c # Looper /\ c \notin Recordings
  BY DEF HandlerAssumption
<1>2. \A r \in Recordings : r # Looper
  BY DEF HandlerAssumption
<1>3. NoClient \in Surfaces
  BY DEF Surfaces
<1>4. CASE UNCHANGED vars \/ DestroyActivity \/ RenderStep
  <2>1. UNCHANGED <<messages, mIsPreviewing, pc>>
    BY <1>4 DEF vars, DestroyActivity, RenderStep, SetEncoder, SetEncoderThrows, ViewUnchanged
  <2>2. Stops(messages') = Stops(messages)
    BY <2>1
  <2> QED BY <2>1, <2>2, SoleFrame
<1>5. CASE ClientCall \/ \E c \in Clients : ClientStep(c)
  BY <1>5, SoleClientStep DEF ClientCall
<1>6. CASE Deliver \/ SaveStill
  <2>1. PICK whats \in {<<>>, <<"mediaUpdate">>} : messages' = Sent(messages, whats, NoClient)
    BY <1>6 DEF Deliver, SaveStill, Send
  <2>2. whats \in Seq(Whats) /\ \A i \in DOMAIN whats : whats[i] # "previewStop"
    BY <2>1, WhatsSent, OthersAreNoStops
  <2>3. Stops(messages') = Stops(messages)
    BY <1>3, <2>1, <2>2, StopsOfSent
  <2>4. pc[Looper] \in {"exit", "ended"} => messages' = messages
    BY <2>1 DEF Sent
  <2>5. mIsPreviewing' = mIsPreviewing /\ \A c \in Clients : pc'[c] = pc[c]
    BY <1>1, <1>6 DEF Deliver, SaveStill, ThreadsOK
  <2>6. pc'[Looper] = pc[Looper] \/ (pc[Looper] = "saveStill" /\ pc'[Looper] = "idle")
    BY <1>6 DEF Deliver, SaveStill, ThreadsOK
  <2> QED BY <2>3, <2>4, <2>5, <2>6, SoleFrame
<1>7. CASE TakeMessage
  <2>1. messages # <<>> /\ pc[Looper] = "idle" /\ messages' = Tail(messages) /\ mIsPreviewing' = mIsPreviewing
    BY <1>7 DEF TakeMessage
  <2>2. \A c \in Clients : pc'[c] = pc[c]
    BY <1>1, <1>7 DEF TakeMessage, EnterStopRecording, ThreadsOK
  <2>3. /\ pc'[Looper] = "previewStop" <=> Head(messages).what = "previewStop"
        /\ pc'[Looper] \notin {"stopFlag", "exit", "ended", "crashed"}
    BY <2>1, <1>7 DEF TakeMessage, EnterStopRecording, ThreadsOK
  <2>4. /\ Stops(messages') = {i \in 1..(Len(messages) - 1) : i + 1 \in Stops(messages)}
        /\ Head(messages).what = "previewStop" <=> 1 \in Stops(messages)
    BY <2>1, StopsOfTail
  <2>5. Stops(messages) \subseteq 1..Len(messages) /\ Len(messages) \in Nat
    BY DEF Stops
  <2>6. \A i, j \in Stops(messages) : i = j
    BY DEF SoleInv
  <2>7. \A i, j \in Stops(messages') : i = j
    BY <2>4, <2>5, <2>6
  <2>8. 1 \in Stops(messages) => Stops(messages') = {}
    BY <2>4, <2>5, <2>6
  <2>9. Stops(messages) # {} => 1 \in Stops(messages) \/ Stops(messages') # {}
    <3>1. ASSUME NEW i \in Stops(messages), i # 1
          PROVE  i - 1 \in Stops(messages')
      BY <2>4, <2>5, <3>1
    <3> QED BY <3>1
  <2>10. Stops(messages) = {} => Stops(messages') = {}
    BY <2>4
  <2>11. SleeperIsOwed'
    BY <2>1, <2>2, <2>3, <2>4, <2>9 DEF SoleInv, SleeperIsOwed, StopsQueued
  <2>12. \A c \in Clients : pc'[c] # "waiting" =>
           ~StopsQueued' /\ pc'[Looper] \notin {"previewStop", "stopFlag"}
    BY <2>2, <2>3, <2>4, <2>10 DEF SoleInv, StopsQueued
  <2>13. pc'[Looper] \in {"previewStop", "stopFlag"} => ~StopsQueued'
    BY <2>3, <2>4, <2>8 DEF StopsQueued
  <2> QED BY <2>1, <2>2, <2>3, <2>7, <2>11, <2>12, <2>13 DEF SoleInv
<1>8. CASE \/ CaptureStill \/ StillDrawn \/ StartPreviewTest \/ StartNative \/ StartParams \/ StartFlag \/ OpenCamera
           \/ StartRecordingTest \/ Prepare \/ PrepareThrows \/ StartRecording \/ StartCallback \/ SetMuxer
  <2>1. messages' = messages /\ (mIsPreviewing => mIsPreviewing')
    BY <1>8 DEF CaptureStill, StillDrawn, StartPreviewTest, StartNative, StartParams, StartFlag, OpenCamera, StartRecordingTest, Prepare,
         PrepareThrows, StartRecording, StartCallback, SetMuxer
  <2>2. \A c \in Clients : pc'[c] = pc[c]
    BY <1>1, <1>8 DEF CaptureStill, StillDrawn, StartPreviewTest, StartNative, StartParams, StartFlag, OpenCamera, StartRecordingTest,
         Prepare, PrepareThrows, StartRecording, StartCallback, SetMuxer, ThreadsOK
  <2>3. /\ pc[Looper] \notin {"previewStop", "stopFlag", "exit", "ended", "crashed"}
        /\ pc'[Looper] \notin {"previewStop", "stopFlag", "exit", "ended"}
    BY <1>8 DEF CaptureStill, StillDrawn, StartPreviewTest, StartNative, StartParams, StartFlag, OpenCamera, StartRecordingTest, Prepare,
         PrepareThrows, StartRecording, StartCallback, SetMuxer, ThreadsOK
  <2>4. Stops(messages') = Stops(messages)
    BY <2>1
  <2> QED BY <2>1, <2>2, <2>3, <2>4, SoleFrame
<1>9. CASE StopNative
  <2>1. /\ pc[Looper] = "previewStop" /\ pc'[Looper] = IF mIsPreviewing THEN "stopFlag" ELSE "idle"
        /\ \A c \in Clients : pc'[c] = pc[c]
        /\ UNCHANGED <<messages, mIsPreviewing>>
    BY <1>1, <1>9 DEF StopNative, ThreadsOK
  <2>2. StopsQueued' = StopsQueued
    BY <2>1 DEF StopsQueued
  <2> QED BY <2>1, <2>2 DEF SoleInv, SleeperIsOwed
<1>10. CASE StopFlag
  <2>1. /\ pc[Looper] = "stopFlag" /\ pc'[Looper] = "idle" /\ messages' = messages
        /\ \A c \in Clients : pc'[c] = IF pc[c] = "waiting" THEN "stopped" ELSE pc[c]
    BY <1>1, <1>10 DEF StopFlag, Notify
  <2>2. StopsQueued' = StopsQueued
    BY <2>1 DEF StopsQueued
  <2> QED BY <2>1, <2>2 DEF SoleInv, SleeperIsOwed
<1>11. CASE Exit
  <2>1. /\ pc[Looper] = "exit" /\ pc'[Looper] = "ended"
        /\ UNCHANGED <<messages, mIsPreviewing>>
        /\ \A c \in Clients : pc'[c] = IF pc[c] = "waiting" THEN "stopped" ELSE pc[c]
    BY <1>1, <1>11 DEF Exit, Notify
  <2>2. messages = <<>>
    BY <2>1 DEF SoleInv
  <2>3. ~StopsQueued' /\ \A i, j \in Stops(messages') : i = j
    BY <2>1, <2>2 DEF StopsQueued, Stops
  <2> QED BY <2>1, <2>2, <2>3 DEF SoleInv, SleeperIsOwed
<1>12. ASSUME NEW t \in Workers, CloseStep(t)
      PROVE  SoleInv'
  <2>1. mIsPreviewing' = mIsPreviewing /\ \A c \in Clients : pc'[c] = pc[c]
    BY <1>1, <1>12 DEF CloseStep, TakeMuxer, ClearView, StopMuxer, StopCallback, TakeCamera,
         DestroyCamera, Quit, ThreadsOK
  <2>2. \/ pc'[Looper] = pc[Looper]
        \/ /\ pc[Looper] \notin {"previewStop", "stopFlag", "exit", "ended", "crashed"}
           /\ pc'[Looper] \notin {"previewStop", "stopFlag", "ended"}
    BY <1>2, <1>12 DEF CloseStep, TakeMuxer, ClearView, StopMuxer, StopCallback, TakeCamera, DestroyCamera,
         Quit, RecordingStopped, CameraClosed, ThreadsOK
  <2>3. messages' = messages \/ (messages' = <<>> /\ pc'[Looper] = "exit")
    BY <1>12 DEF CloseStep, TakeMuxer, ClearView, StopMuxer, StopCallback, TakeCamera, DestroyCamera,
         Quit, ThreadsOK
  <2>4. pc'[Looper] = "exit" => pc[Looper] = "exit" \/ messages' = <<>>
    BY <1>2, <1>12 DEF CloseStep, TakeMuxer, ClearView, StopMuxer, StopCallback, TakeCamera, DestroyCamera,
         Quit, RecordingStopped, CameraClosed, ThreadsOK
  <2>5. CASE pc'[Looper] = "exit"
    <3>1. messages' = <<>>
      BY <2>3, <2>4, <2>5 DEF SoleInv
    <3>2. ~StopsQueued' /\ \A i, j \in Stops(messages') : i = j
      BY <3>1 DEF StopsQueued, Stops
    <3> QED BY <2>1, <2>5, <3>1, <3>2 DEF SoleInv, SleeperIsOwed
  <2>6. CASE pc'[Looper] # "exit"
    <3>1. messages' = messages /\ Stops(messages') = Stops(messages)
      BY <2>3, <2>6
    <3> QED BY <2>1, <2>2, <2>6, <3>1, SoleFrame
  <2> QED BY <2>5, <2>6
<1>13. ASSUME NEW r \in Recordings, EncoderStep(r)
      PROVE  SoleInv'
  <2>1. CASE CloseStep(r)
    BY <1>12, <2>1
  <2>2. CASE OnStopped(r) \/ OnStoppedView(r) \/ OnStoppedPath(r) \/ OnStoppedNoPath(r)
    <3>1. UNCHANGED <<messages, mIsPreviewing>>
      BY <2>2 DEF OnStopped, OnStoppedView, OnStoppedPath, OnStoppedNoPath
    <3>2. pc'[Looper] = pc[Looper] /\ \A c \in Clients : pc'[c] = pc[c]
      BY <1>1, <1>2, <2>2 DEF OnStopped, OnStoppedView, OnStoppedPath, OnStoppedNoPath,
           EnterStopRecording, ThreadsOK
    <3>3. Stops(messages') = Stops(messages)
      BY <3>1
    <3> QED BY <3>1, <3>2, <3>3, SoleFrame
  <2> QED BY <1>13, <2>1, <2>2 DEF EncoderStep, CallbackStep
<1> QED BY <1>4, <1>5, <1>6, <1>7, <1>8, <1>9, <1>10, <1>11, <1>12, <1>13 DEF Next, LooperStep

LEMMA InitSole ==
  ASSUME HandlerAssumption, Init
  PROVE  SoleInv
<1>1. Stops(messages) = {} /\ messages = <<>>
  BY DEF Init, Stops
<1>2. \A t \in Threads : pc[t] = "idle"
  BY DEF Init
<1> QED BY <1>1, <1>2 DEF SoleInv, SleeperIsOwed, StopsQueued

\* With any number of clients: a message that would wake the waiting ones is queued, or handled.
StopOwed == StopsQueued \/ pc[Looper] \in {"previewStop", "stopFlag", "exit"}

\* No step takes it away and leaves them waiting, but the handling of a stop that finds the preview
\* stopped already.
StopIsKept ==
  \A c \in Clients : StopOwed /\ pc[c] = "waiting" /\ pc'[c] = "waiting" =>
    StopOwed' \/ (pc[Looper] = "previewStop" /\ ~mIsPreviewing)

LEMMA SentKeepsStops ==
  ASSUME NEW q \in Seq(Message), NEW whats \in Seq(Whats), NEW s \in Surfaces
  PROVE  Stops(q) \subseteq Stops(Sent(q, whats, s))
<1> DEFINE new == [i \in DOMAIN whats |-> [what |-> whats[i], surface |-> s]]
<1>1. Len(whats) \in Nat /\ DOMAIN whats = 1..Len(whats)
  OBVIOUS
<1>2. \A i \in DOMAIN whats : [what |-> whats[i], surface |-> s] \in Message
  BY DEF Message
<1>3. new \in [1..Len(whats) -> Message]
  BY <1>1, <1>2
<1>4. new \in Seq(Message)
  BY <1>1, <1>3
<1> HIDE DEF new
<1>5. DOMAIN q \subseteq DOMAIN (q \o new) /\ \A i \in DOMAIN q : (q \o new)[i] = q[i]
  BY <1>4
<1>6. Stops(q) \subseteq Stops(q \o new)
  BY <1>5 DEF Stops
<1> QED BY <1>6 DEF Sent, new

LEMMA RemoveKeepsStops ==
  ASSUME NEW q \in Seq(Message), Stops(q) # {}
  PROVE  Stops(RemoveMessages(q, "previewStart")) # {}
<1>1. PICK i \in 1..Len(q) : q[i].what = "previewStop"
  BY DEF Stops
<1>2. q[i].what # "previewStart"
  BY <1>1
<1>3. PICK j \in DOMAIN RemoveMessages(q, "previewStart") : RemoveMessages(q, "previewStart")[j] = q[i]
  BY <1>2, RemoveMessagesKeeps
<1> QED BY <1>1, <1>3 DEF Stops

LEMMA StopKeptStep ==
  ASSUME HandlerAssumption, ThreadsOK, messages \in Seq(Message), [Next]_vars
  PROVE  StopIsKept
<1>1. \A c \in Clients : c # Looper /\ c \in Surfaces
  BY DEF HandlerAssumption, Surfaces
<1>2. NoClient \in Surfaces /\ \A r \in Recordings : r # Looper
  BY DEF HandlerAssumption, Surfaces
<1>3. ASSUME StopsQueued => StopsQueued', pc'[Looper] = pc[Looper]
      PROVE  StopIsKept
  BY <1>3 DEF StopIsKept, StopOwed
<1>4. ASSUME StopsQueued => StopsQueued', pc[Looper] \notin {"previewStop", "stopFlag", "exit"}
      PROVE  StopIsKept
  BY <1>4 DEF StopIsKept, StopOwed
<1>5. messages' = messages => (StopsQueued => StopsQueued')
  BY DEF StopsQueued
<1>6. ASSUME NEW whats \in Seq(Whats), NEW s \in Surfaces, Send(whats, s)
      PROVE  StopsQueued => StopsQueued'
  BY <1>6, SentKeepsStops DEF Send, StopsQueued
<1>7. ASSUME NEW c \in Clients, EnterStop(c)
      PROVE  StopsQueued => StopsQueued'
  <2> SUFFICES ASSUME StopsQueued PROVE StopsQueued'
    OBVIOUS
  <2> DEFINE q == RemoveMessages(messages, "previewStart")
  <2>1. q \in Seq(Message) /\ Stops(q) # {}
    BY RemoveMessagesType, RemoveKeepsStops DEF StopsQueued
  <2>2. messages' = Sent(q, <<"captureStop">>, c)
    BY <1>7 DEF EnterStop
  <2> HIDE DEF q
  <2> QED BY <1>1, <2>1, <2>2, SentKeepsStops, WhatsSent DEF StopsQueued
<1>8. CASE UNCHANGED vars \/ DestroyActivity \/ RenderStep
  BY <1>3, <1>5, <1>8 DEF vars, DestroyActivity, RenderStep, SetEncoder, SetEncoderThrows, ViewUnchanged
<1>9. ASSUME NEW c \in Clients,
             (\E what \in {"open", "previewStart", "captureStill", "captureStart", "captureStop"} :
                CallSend(c, what))
             \/ StopPreview(c) \/ Close(c) \/ Release(c) \/ ClientStep(c)
      PROVE  StopIsKept
  <2>1. pc'[Looper] = pc[Looper]
    BY <1>1, <1>9 DEF ThreadsOK, ClientStep, CallSend, StopPreview, Close, Release, CloseTest,
         StopTest, StopWait, Stopped
  <2>2. \/ EnterStop(c) \/ messages' = messages
        \/ \E whats \in {<<>>, <<"release">>, <<"close">>, <<"close", "release">>, <<"previewStop">>} :
             Send(whats, c)
        \/ \E what \in Whats : Send(<<what>>, c)
    BY <1>9 DEF ClientStep, CallSend, StopPreview, Close, Release, CloseTest, StopTest, StopWait,
         Stopped, Whats
  <2>3. StopsQueued => StopsQueued'
    <3>1. ASSUME NEW whats \in {<<>>, <<"release">>, <<"close">>, <<"close", "release">>, <<"previewStop">>},
                 Send(whats, c)
          PROVE  StopsQueued => StopsQueued'
      <4>1. whats \in Seq(Whats)
        BY WhatsSent
      <4> QED BY <1>1, <1>6, <3>1, <4>1
    <3>2. ASSUME NEW what \in Whats, Send(<<what>>, c)
          PROVE  StopsQueued => StopsQueued'
      BY <1>1, <1>6, <3>2, WhatsSent
    <3> QED BY <1>5, <1>7, <2>2, <3>1, <3>2
  <2> QED BY <1>3, <2>1, <2>3
<1>10. CASE Deliver \/ SaveStill
  <2>1. PICK whats \in {<<>>, <<"mediaUpdate">>} : Send(whats, NoClient)
    BY <1>10 DEF Deliver, SaveStill
  <2>2. whats \in Seq(Whats)
    BY <2>1, WhatsSent
  <2>3. StopsQueued => StopsQueued'
    BY <1>2, <1>6, <2>1, <2>2
  <2>4. pc'[Looper] = pc[Looper] \/ pc[Looper] = "saveStill"
    BY <1>10 DEF Deliver, SaveStill
  <2> QED BY <1>3, <1>4, <2>3, <2>4
<1>11. CASE TakeMessage
  <2>1. messages # <<>> /\ pc[Looper] = "idle" /\ messages' = Tail(messages)
    BY <1>11 DEF TakeMessage
  <2>2. Head(messages).what = "previewStop" => pc'[Looper] = "previewStop"
    BY <1>11 DEF TakeMessage, ThreadsOK
  <2>3. /\ Stops(messages') = {i \in 1..(Len(messages) - 1) : i + 1 \in Stops(messages)}
        /\ Head(messages).what = "previewStop" <=> 1 \in Stops(messages)
    BY <2>1, StopsOfTail
  <2>4. Stops(messages) \subseteq 1..Len(messages) /\ Len(messages) \in Nat
    BY DEF Stops
  <2>5. ASSUME NEW i \in Stops(messages), i # 1
        PROVE  i - 1 \in Stops(messages')
    BY <2>3, <2>4, <2>5
  <2>6. StopsQueued => 1 \in Stops(messages) \/ StopsQueued'
    BY <2>5 DEF StopsQueued
  <2> QED BY <2>1, <2>2, <2>3, <2>6 DEF StopIsKept, StopOwed
<1>12. CASE \/ CaptureStill \/ StillDrawn \/ StartPreviewTest \/ StartNative \/ StartParams \/ StartFlag \/ OpenCamera
            \/ StartRecordingTest \/ Prepare \/ PrepareThrows \/ StartRecording \/ StartCallback \/ SetMuxer
  <2>1. messages' = messages /\ pc[Looper] \notin {"previewStop", "stopFlag", "exit"}
    BY <1>12 DEF CaptureStill, StillDrawn, StartPreviewTest, StartNative, StartParams, StartFlag, OpenCamera, StartRecordingTest, Prepare,
         PrepareThrows, StartRecording, StartCallback, SetMuxer
  <2> QED BY <1>4, <1>5, <2>1
<1>13. CASE StopNative
  <2>1. pc[Looper] = "previewStop" /\ (mIsPreviewing => pc'[Looper] = "stopFlag")
    BY <1>13 DEF StopNative, ThreadsOK
  <2> QED BY <2>1 DEF StopIsKept, StopOwed
<1>14. CASE StopFlag \/ Exit
  <2>1. \A c \in Clients : pc[c] = "waiting" => pc'[c] = "stopped"
    BY <1>1, <1>14 DEF StopFlag, Exit, Notify
  <2> QED BY <2>1 DEF StopIsKept
<1>15. ASSUME NEW t \in Workers, CloseStep(t)
       PROVE  StopIsKept
  <2>1. messages' = messages \/ pc'[Looper] = "exit"
    BY <1>15 DEF CloseStep, TakeMuxer, ClearView, StopMuxer, StopCallback, TakeCamera, DestroyCamera,
         Quit, ThreadsOK
  <2>2. pc'[Looper] = pc[Looper] \/ pc[Looper] \notin {"previewStop", "stopFlag", "exit"}
    BY <1>2, <1>15 DEF CloseStep, TakeMuxer, ClearView, StopMuxer, StopCallback, TakeCamera,
         DestroyCamera, Quit, ThreadsOK
  <2>3. CASE pc'[Looper] = "exit"
    BY <2>3 DEF StopIsKept, StopOwed
  <2> QED BY <1>3, <1>4, <1>5, <2>1, <2>2, <2>3
<1>16. ASSUME NEW r \in Recordings, EncoderStep(r)
       PROVE  StopIsKept
  <2>1. CASE CloseStep(r)
    BY <1>15, <2>1
  <2>2. CASE OnStopped(r) \/ OnStoppedView(r) \/ OnStoppedPath(r) \/ OnStoppedNoPath(r)
    <3>1. messages' = messages /\ pc'[Looper] = pc[Looper]
      BY <1>2, <2>2 DEF OnStopped, OnStoppedView, OnStoppedPath, OnStoppedNoPath,
           EnterStopRecording, ThreadsOK
    <3> QED BY <1>3, <1>5, <3>1
  <2> QED BY <1>16, <2>1, <2>2 DEF EncoderStep, CallbackStep
<1> QED BY <1>8, <1>9, <1>10, <1>11, <1>12, <1>13, <1>14, <1>15, <1>16 DEF Next, ClientCall, LooperStep

-----------------------------------------------------------------------------
(* The theorems *)

\* The inductive invariant holds of every handler.
THEOREM InvariantHolds ==
  HandlerAssumption /\ Spec => []HandlerInv
<1> SUFFICES ASSUME HandlerAssumption PROVE Spec => []HandlerInv
  OBVIOUS
<1>1. Init => HandlerInv
  BY InitInv
<1>2. HandlerInv /\ [Next]_vars => HandlerInv'
  BY NextInv
<1> QED BY <1>1, <1>2, PTL DEF Spec

\* Every variable has a value of its type, whatever calls are made: the queue holds messages of the
\* handler, and no more files are waiting to be scanned than there were recordings.
THEOREM TypeCorrect ==
  HandlerAssumption /\ Spec => []TypeOK
<1> SUFFICES ASSUME HandlerAssumption PROVE Spec => []TypeOK
  OBVIOUS
<1>1. Init => HandlerInv /\ QueueInv
  BY InitInv, InitQueue
<1>2. HandlerInv /\ QueueInv /\ [Next]_vars => (HandlerInv /\ QueueInv)'
  <2> SUFFICES ASSUME HandlerInv, QueueInv, [Next]_vars PROVE HandlerInv' /\ QueueInv'
    OBVIOUS
  <2>1. HandlerInv'
    BY NextInv
  <2>2. messages' \in Seq(Message)
    BY QueueStep DEF QueueInv
  <2>3. SurfacesOK'
    BY SurfacesStep DEF QueueInv, HandlerInv
  <2>4. DelayedInv'
    BY DelayedStep DEF QueueInv
  <2> QED BY <2>1, <2>2, <2>3, <2>4 DEF QueueInv
<1>3. HandlerInv /\ QueueInv => TypeOK
  <2> SUFFICES ASSUME HandlerInv, QueueInv PROVE MessagesOK /\ FlagsOK /\ ThreadsOK /\ RecordsOK /\ CamerasOK
    BY DEF TypeOK
  <2>1. FlagsOK /\ ThreadsOK /\ RecordsOK /\ CamerasOK
    BY DEF HandlerInv
  <2>2. delayed \in 0..recordings
    BY DelayedBound DEF HandlerInv, MuxerInv, QueueInv
  <2>3. messages \in Seq([what : Whats, surface : Clients \cup {NoClient}])
    BY DEF QueueInv, Message, Surfaces
  <2>4. MessagesOK
    BY <2>2, <2>3 DEF QueueInv, SurfacesOK, Surfaces, MessagesOK
  <2> QED BY <2>1, <2>4
<1> QED BY <1>1, <1>2, <1>3, PTL DEF Spec

\* No recording that runs is forgotten, although onStopped, handleRelease and the camera thread
\* may all stop it: it is mMuxer's or about to be, or the local of the thread that will stop it.
THEOREM RecordingsAreKnown ==
  HandlerAssumption /\ Spec => []RunningRecordingIsKnown
<1> SUFFICES ASSUME HandlerAssumption PROVE Spec => []RunningRecordingIsKnown
  OBVIOUS
<1>1. HandlerInv => RunningRecordingIsKnown
  BY DEF HandlerInv, MuxerInv
<1> QED BY <1>1, InvariantHolds, PTL

\* A recording is taken from the view before it is stopped, and never given back: however far the
\* view's render thread is behind with its messages, the last of them takes the recording away.
THEOREM ViewIsToldFirst ==
  HandlerAssumption /\ Spec => []StoppedRecordingIsLetGo
<1> SUFFICES ASSUME HandlerAssumption PROVE Spec => []StoppedRecordingIsLetGo
  OBVIOUS
<1>1. HandlerInv => StoppedRecordingIsLetGo
  BY DEF HandlerInv, ViewInv, StoppedRecordingIsLetGo
<1> QED BY <1>1, InvariantHolds, PTL

\* The camera thread ends with the camera closed and no recording running, or leaves them to an
\* encoder thread that is at work on them.
THEOREM NothingIsLeftBehind ==
  HandlerAssumption /\ Spec => []EndedIsClosed
<1> SUFFICES ASSUME HandlerAssumption PROVE Spec => []EndedIsClosed
  OBVIOUS
<1>1. ASSUME HandlerInv, pc[Looper] = "ended"
      PROVE  /\ mUVCCamera = None /\ mMuxer = None
             /\ \A k \in Cameras : shown[k] # NoClient => \E r \in Recordings : camera[r] = k
             /\ \A r \in Recordings : encoder[r] = "running" => \E s \in Recordings : muxer[s] = r
  <2>1. mUVCCamera = None /\ mMuxer = None
    BY <1>1 DEF HandlerInv, LooperInv, Closing
  <2>2. camera[Looper] = None /\ muxer[Looper] = None
    BY <1>1 DEF HandlerInv, CameraInv, MuxerInv
  <2>3. ASSUME NEW k \in Cameras, shown[k] # NoClient
        PROVE  \E r \in Recordings : camera[r] = k
    BY <1>1, <2>1, <2>2, <2>3 DEF HandlerInv, CameraInv, HandlerAssumption
  <2>4. ASSUME NEW r \in Recordings, encoder[r] = "running"
        PROVE  \E s \in Recordings : muxer[s] = r
    BY <1>1, <2>1, <2>2, <2>4 DEF HandlerInv, MuxerInv, RunningRecordingIsKnown, HandlerAssumption
  <2> QED BY <2>1, <2>3, <2>4
<1>2. HandlerInv => EndedIsClosed
  BY <1>1 DEF EndedIsClosed
<1> QED BY <1>2, InvariantHolds, PTL

\* A caller that is alone never waits in stopPreview for nothing: from its wait
\* (AbstractUVCCameraHandler.java:184) on its message is queued or being handled, the preview stays on
\* until that stops it, and the camera thread notifies then, or when it ends.  Whether it comes to the
\* message is another matter: SleeperIsWoken says when.
THEOREM SoleCallerIsOwed ==
  HandlerAssumption /\ (\A c, d \in Clients : c = d) /\ Spec => []SleeperIsOwed
<1> SUFFICES ASSUME HandlerAssumption, \A c, d \in Clients : c = d PROVE Spec => []SleeperIsOwed
  OBVIOUS
<1> DEFINE Inv == HandlerInv /\ messages \in Seq(Message) /\ SoleInv
<1>1. Init => Inv
  BY InitInv, InitQueue, InitSole DEF QueueInv
<1>2. Inv /\ [Next]_vars => Inv'
  BY NextInv, QueueStep, SoleStep DEF HandlerInv
<1>3. Inv => SleeperIsOwed
  BY DEF SoleInv
<1> QED BY <1>1, <1>2, <1>3, PTL DEF Spec

\* However many callers there are, no call of one takes back the message another waits for, although
\* each removes messages from the queue: the wakeup is lost only when the preview was stopped before.
THEOREM WaitingStopIsKept ==
  HandlerAssumption /\ Spec => [][StopIsKept]_vars
<1> SUFFICES ASSUME HandlerAssumption PROVE Spec => [][StopIsKept]_vars
  OBVIOUS
<1> DEFINE Inv == HandlerInv /\ messages \in Seq(Message)
<1>1. Init => Inv
  BY InitInv, InitQueue DEF QueueInv
<1>2. Inv /\ [Next]_vars => Inv'
  BY NextInv, QueueStep
<1>3. Inv /\ [Next]_vars => [StopIsKept]_vars
  BY StopKeptStep DEF HandlerInv
<1> QED BY <1>1, <1>2, <1>3, PTL DEF Spec
=============================================================================
