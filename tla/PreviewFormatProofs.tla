------------------------- MODULE PreviewFormatProofs -------------------------
(***************************************************************************)
(* Proofs about how a preview gets its format, for all cameras, sizes and  *)
(* rates and any number of calls and failures.                             *)
(***************************************************************************)
EXTENDS PreviewFormat, TLAPS

-----------------------------------------------------------------------------
(* The inductive invariant *)

\* A thread that probes has found a frame, and the preview thread starts only one it knows.
AnswerInv ==
  /\ \A t \in Threads : pc[t] = "probe" => ctrl[t] # None
  /\ pc["preview"] = "start" => ctrl["preview"] # None

\* A preview thread runs from startPreview until stopPreview, or close, has joined it.
ControlInv ==
  /\ mIsRunning => opened /\ pc["preview"] # "none"
  /\ pc["preview"] # "none" => opened /\ (mIsRunning \/ pc["client"] = "join")
  /\ pc["client"] \in {"join", "stopped"} => ~mIsRunning
  /\ pc["client"] = "join" => pc["preview"] # "none"

Setting == {"request", "mode", "search", "probe", "read", "accepted", "refused"}

\* Only handleStartPreview, which starts no second preview, tries and falls back; it asks
\* for what it was set to and holds the client's thread until it has started the preview.
HandlerInv ==
  /\ client = "handler" =>
       /\ mIsRunning => mIsPreviewing
       /\ pc["client"] \in Setting \cup {"start"} => ~mIsPreviewing
       /\ call.for # "set"
  /\ pc["client"] \in Setting =>
       /\ opened
       /\ client = "handler" => call.for \in {"try", "fallback"}
       /\ client = "java" => call.for = "set"
       /\ call.for = "try" => call.size = mSize /\ call.mode = mPreviewMode
       /\ call.for = "fallback" => call.mode = YUYV
  /\ pc["client"] = "start" => client = "handler" /\ opened

\* setPreviewSize works on a running preview only if it has disturbed it; otherwise nobody
\* releases the interface of a stream.
InterfaceInv ==
  /\ mIsRunning /\ pc["client"] \in {"mode", "search", "probe", "read"} =>
       client = "java" /\ disturbed
  /\ StreamHasItsInterface

\* What each line of prepare_preview has read and set fits the request and what was
\* negotiated, which is what will be committed.
FrameInv ==
  client = "handler" \/ ~disturbed =>
    LET c == ctrl["preview"] IN
    /\ pc["preview"] = "read" => probe = None \/ Matches(probe.format, request.mode)
    /\ pc["preview"] \in {"probe", "size", "format", "bytes", "start"} =>
         c = None \/ Matches(c.format, request.mode)
    /\ pc["preview"] \in {"format", "bytes", "start"} => c = None \/ frame.size = Frame(c).size
    /\ pc["preview"] \in {"bytes", "start"} => frame.mode = request.mode
    /\ pc["preview"] = "start" =>
         frame.bytes = frame.size * (IF request.mode = YUYV THEN 2 ELSE 4)
    /\ FramesAreShown

\* The camera offers what is requested.
Offered == \E i \in DOMAIN formats : Matches(i, request.mode) /\ Suitable(i, request) # {}

\* A handler set to MJPEG is left with a request for MJPEG only if the camera offers it:
\* what was refused is replaced by one for YUYV before anything else is asked.
OfferInv ==
  client = "handler" /\ mPreviewMode = MJPEG =>
    /\ request.mode \in {YUYV, MJPEG}
    /\ mIsRunning \/ pc["client"] \in {"probe", "read", "accepted", "start"} => Offered
    /\ pc["client"] \in {"search", "probe", "read", "refused"} => request.mode = call.mode
    /\ pc["client"] = "request" /\ call.for = "fallback" => request.mode = MJPEG
    /\ request.mode = MJPEG =>
         Offered \/ pc["client"] \in {"mode", "search", "refused"}
           \/ (pc["client"] = "request" /\ call.for = "fallback")
    /\ pc["client"] \in Setting /\ call.for = "try" => call.mode = MJPEG

FormatInv ==
  TypeOK /\ AnswerInv /\ ControlInv /\ HandlerInv /\ InterfaceInv /\ FrameInv /\ OfferInv

-----------------------------------------------------------------------------
(* Every step preserves it *)

USE DEF Threads, At, Goto, java, native, device, NoCall, YUYV, MJPEG, DefaultRates,
        HandlerRates

\* A frame of the camera has a size.
LEMMA FrameSized ==
  ASSUME FormatAssumption, DataOK, NEW c, IsCtrl(c), c # None
  PROVE  Frame(c).size \in Nat \ {0}
BY DEF FormatAssumption, DataOK, IsCtrl, Frame

\* A refusal is followed by the fallback, or ends the call.
LEMMA RefusedStep ==
  ASSUME DataOK, Refused
  PROVE  /\ pc["client"] = "refused" /\ call' \in Calls
         /\ \/ /\ call.for = "try" /\ call'.for = "fallback" /\ call'.mode = YUYV
               /\ Goto("client", "request")
            \/ /\ call.for # "try" /\ call'.for = "nothing"
               /\ Goto("client", "idle")
         /\ UNCHANGED <<client, mPreviewMode, mSize, mIsPreviewing, opened, mCurrent, calls,
                        native, device, ctrl, failures>>
<1>1. call \in Calls
  BY DEF DataOK
<1>2. CASE call.for = "try"
  <2>1. call' = [call EXCEPT !.for = "fallback", !.mode = YUYV]
    BY <1>2 DEF Refused
  <2>2. call' \in Calls
    BY <1>1, <2>1 DEF Calls, Modes
  <2>3. call'.for = "fallback" /\ call'.mode = YUYV
    BY <1>1, <2>1 DEF Calls
  <2> QED BY <1>2, <2>2, <2>3 DEF Refused
<1>3. CASE call.for # "try"
  <2>1. call' = NoCall
    BY <1>3 DEF Refused
  <2>2. call' \in Calls
    BY <2>1 DEF Calls, Modes, AnySize, AnyRates
  <2> QED
    BY <1>3, <2>1, <2>2 DEF Refused
<1> QED BY <1>2, <1>3

\* libuvc, for either thread.
LEMMA NegotiationSteps ==
  ASSUME FormatAssumption, FormatInv,
         (\E t \in Threads : Search(t)) \/ (\E t \in Threads : Probe(t))
         \/ (\E t \in Threads : ReadProbe(t))
  PROVE  FormatInv'
<1> USE DEF FormatInv, TypeOK
<1>1. ASSUME NEW t \in Threads, Search(t)
      PROVE  FormatInv'
  <2>1. FlagsOK'
    BY <1>1 DEF Search, FlagsOK
  <2>2. ThreadsOK'
    BY <1>1 DEF Search, Fails, ThreadsOK
  <2>3. CtrlOK'
    BY <1>1 DEF Search, Suitable, Fails, CtrlOK, IsCtrl, ThreadsOK
  <2>4. AnswerInv'
    BY <1>1 DEF Search, Fails, AnswerInv, None, DataOK, ThreadsOK
  <2>5. ControlInv'
    BY <1>1 DEF Search, Fails, ControlInv, ThreadsOK
  <2>6. HandlerInv'
    BY <1>1 DEF Search, Fails, HandlerInv, Setting, ThreadsOK
  <2>7. InterfaceInv'
    BY <1>1 DEF Search, Fails, InterfaceInv, StreamHasItsInterface, ThreadsOK, CtrlOK, ControlInv
  <2>8. FrameInv'
    BY <1>1 DEF Search, Matches, Fails, FrameInv, None, Frame, FramesAreShown, DataOK, Requests,
         Calls, ThreadsOK, Setting
  <2>9. OfferInv'
    BY <1>1 DEF Search, Matches, Suitable, Fails, OfferInv, Offered, Setting, ThreadsOK
  <2>10. DataOK'
    BY <1>1 DEF Search, DataOK
  <2> QED BY <2>1, <2>2, <2>3, <2>4, <2>5, <2>6, <2>7, <2>8, <2>9, <2>10
<1>2. ASSUME NEW t \in Threads, Probe(t)
      PROVE  FormatInv'
  <2>1. FlagsOK'
    BY <1>2 DEF Probe, FlagsOK
  <2>2. ThreadsOK'
    BY <1>2 DEF Probe, Fails, ThreadsOK
  <2>3. CtrlOK'
    <3>1. ctrl[t] # None
      BY <1>2 DEF Probe, AnswerInv
    <3>2. IsCtrl(probe)'
      BY <1>2, <3>1 DEF Probe, CtrlOK, IsCtrl, ThreadsOK
    <3>3. /\ UNCHANGED <<formats, stream, ctrl>>
          /\ pc'["preview"] = "stream" <=> pc["preview"] = "stream"
      BY <1>2 DEF Probe, ThreadsOK, Fails
    <3> QED BY <3>2, <3>3 DEF CtrlOK, IsCtrl, ThreadsOK
  <2>4. AnswerInv'
    BY <1>2 DEF Probe, Fails, AnswerInv, None, DataOK, ThreadsOK, CtrlOK, IsCtrl
  <2>5. ControlInv'
    BY <1>2 DEF Probe, Fails, ControlInv, ThreadsOK
  <2>6. HandlerInv'
    BY <1>2 DEF Probe, Fails, HandlerInv, Setting, ThreadsOK
  <2>7. InterfaceInv'
    BY <1>2 DEF Probe, Fails, InterfaceInv, StreamHasItsInterface, ThreadsOK
  <2>8. FrameInv'
    <3>1. /\ UNCHANGED <<client, request, frame, disturbed, formats, stream, ctrl>> /\ pc[t] = "probe"
          /\ \/ pc'[t] = "read" /\ (probe' = None \/ probe'.format = ctrl[t].format)
             \/ pc'[t] \in {"refused", "ended"}
          /\ \A u \in Threads : u # t => pc'[u] = pc[u]
      BY <1>2 DEF Probe, Fails, ThreadsOK
    <3>2. CASE t = "preview"
      <4>1. ctrl[t] # None
        BY <1>2, <3>1 DEF AnswerInv
      <4>2. stream = None
        BY <3>1, <3>2 DEF CtrlOK
      <4>3. FramesAreShown'
        BY <3>1, <4>2 DEF FramesAreShown
      <4>4. client = "handler" \/ ~disturbed => Matches(ctrl[t].format, request.mode)
        BY <3>1, <3>2, <4>1 DEF FrameInv
      <4> QED BY <3>1, <3>2, <4>1, <4>3, <4>4 DEF FrameInv, Matches
    <3>3. CASE t = "client" /\ (client = "handler" \/ ~disturbed)
      <4>1. pc["preview"] = "none" /\ stream = None
        BY <3>1, <3>3 DEF InterfaceInv, ControlInv, FlagsOK, CtrlOK
      <4> QED BY <3>1, <3>3, <4>1 DEF FrameInv, FramesAreShown
    <3>4. CASE ~(client = "handler" \/ ~disturbed)
      BY <3>1, <3>4 DEF FrameInv
    <3> QED BY <3>2, <3>3, <3>4
  <2>9. OfferInv'
    BY <1>2 DEF Probe, Fails, OfferInv, Offered, Matches, Suitable, Setting, ThreadsOK
  <2>10. DataOK'
    BY <1>2 DEF Probe, DataOK
  <2> QED BY <2>1, <2>2, <2>3, <2>4, <2>5, <2>6, <2>7, <2>8, <2>9, <2>10
<1>3. ASSUME NEW t \in Threads, ReadProbe(t)
      PROVE  FormatInv'
  <2>1. ThreadsOK'
    BY <1>3 DEF ReadProbe, Succeeds, Fails, ThreadsOK
  <2>2. CtrlOK'
    BY <1>3 DEF ReadProbe, Succeeds, Fails, CtrlOK, IsCtrl, ThreadsOK
  <2>3. AnswerInv'
    BY <1>3 DEF ReadProbe, Succeeds, Fails, AnswerInv, ThreadsOK
  <2>4. ControlInv'
    BY <1>3 DEF ReadProbe, Succeeds, Fails, ControlInv, ThreadsOK
  <2>5. HandlerInv'
    BY <1>3 DEF ReadProbe, Succeeds, Fails, HandlerInv, Setting, ThreadsOK
  <2>6. InterfaceInv'
    BY <1>3 DEF ReadProbe, Succeeds, Fails, InterfaceInv, StreamHasItsInterface, ThreadsOK
  <2>7. FrameInv'
    BY <1>3 DEF ReadProbe, Succeeds, Fails, FrameInv, Matches, Frame, FramesAreShown, ThreadsOK
  <2>8. OfferInv'
    BY <1>3 DEF ReadProbe, Succeeds, Fails, OfferInv, Offered, Matches, Suitable, Setting,
         ThreadsOK
  <2>9. FlagsOK' /\ DataOK'
    BY <1>3 DEF ReadProbe, FlagsOK, DataOK
  <2> QED BY <2>1, <2>2, <2>3, <2>4, <2>5, <2>6, <2>7, <2>8, <2>9
<1> QED BY <1>1, <1>2, <1>3

\* Opening and setting a size.
LEMMA SettingSteps ==
  ASSUME FormatAssumption, FormatInv,
         Open \/ CallSetPreviewSize \/ HandleStartPreview \/ SetPreviewSize \/ SetMode
         \/ Accepted \/ Refused
  PROVE  FormatInv'
<1> USE DEF FormatInv, TypeOK
<1>1. CASE Open
  <2>1. FlagsOK'
    BY <1>1 DEF Open, FlagsOK
  <2>2. DataOK'
    BY <1>1 DEF Open, Call, DataOK, AnySize, Modes, Requests, AnyRates
  <2>3. ThreadsOK'
    BY <1>1 DEF Open, ThreadsOK
  <2>4. CtrlOK'
    BY <1>1 DEF Open, CtrlOK, IsCtrl
  <2>5. AnswerInv'
    BY <1>1 DEF Open, AnswerInv
  <2>6. ControlInv'
    BY <1>1 DEF Open, ControlInv
  <2>7. HandlerInv'
    BY <1>1 DEF Open, HandlerInv
  <2>8. InterfaceInv'
    BY <1>1 DEF Open, InterfaceInv, StreamHasItsInterface, CtrlOK, ControlInv
  <2>9. FrameInv'
    BY <1>1 DEF Open, FrameInv, FramesAreShown, CtrlOK, ControlInv
  <2>10. OfferInv'
    BY <1>1 DEF Open, Call, OfferInv
  <2> QED BY <2>1, <2>2, <2>3, <2>4, <2>5, <2>6, <2>7, <2>8, <2>9, <2>10
<1>2. CASE CallSetPreviewSize
  <2>1. DataOK'
    BY <1>2 DEF CallSetPreviewSize, Call, DataOK, AnySize, Modes, AnyRates, Calls
  <2>2. ThreadsOK'
    BY <1>2 DEF CallSetPreviewSize, ThreadsOK
  <2>3. CtrlOK'
    BY <1>2 DEF CallSetPreviewSize, CtrlOK, IsCtrl
  <2>4. AnswerInv'
    BY <1>2 DEF CallSetPreviewSize, AnswerInv
  <2>5. ControlInv'
    BY <1>2 DEF CallSetPreviewSize, Call, ControlInv
  <2>6. HandlerInv'
    BY <1>2 DEF CallSetPreviewSize, HandlerInv
  <2>7. InterfaceInv'
    BY <1>2 DEF CallSetPreviewSize, InterfaceInv, StreamHasItsInterface
  <2>8. FrameInv'
    BY <1>2 DEF CallSetPreviewSize, FrameInv, Matches, Frame, FramesAreShown
  <2>9. OfferInv'
    BY <1>2 DEF CallSetPreviewSize, OfferInv
  <2>10. FlagsOK'
    BY <1>2 DEF CallSetPreviewSize, FlagsOK
  <2> QED BY <2>1, <2>2, <2>3, <2>4, <2>5, <2>6, <2>7, <2>8, <2>9, <2>10
<1>3. CASE HandleStartPreview
  <2>1. DataOK'
    BY <1>3 DEF HandleStartPreview, Call, DataOK, AnySize, Modes, AnyRates, Calls
  <2>2. ThreadsOK'
    BY <1>3 DEF HandleStartPreview, ThreadsOK
  <2>3. CtrlOK'
    BY <1>3 DEF HandleStartPreview, CtrlOK, IsCtrl
  <2>4. AnswerInv'
    BY <1>3 DEF HandleStartPreview, AnswerInv
  <2>5. ControlInv'
    BY <1>3 DEF HandleStartPreview, Call, ControlInv
  <2>6. HandlerInv'
    BY <1>3 DEF HandleStartPreview, MayStart, HandlerInv
  <2>7. InterfaceInv'
    BY <1>3 DEF HandleStartPreview, InterfaceInv, StreamHasItsInterface
  <2>8. FrameInv'
    BY <1>3 DEF HandleStartPreview, FrameInv, Matches, Frame, FramesAreShown
  <2>9. OfferInv'
    BY <1>3 DEF HandleStartPreview, Call, OfferInv, Offered, Matches, Suitable
  <2>10. FlagsOK'
    BY <1>3 DEF HandleStartPreview, FlagsOK
  <2> QED BY <2>1, <2>2, <2>3, <2>4, <2>5, <2>6, <2>7, <2>8, <2>9, <2>10
<1>4. CASE SetPreviewSize
  <2>1. FlagsOK'
    BY <1>4 DEF SetPreviewSize, FlagsOK
  <2>2. DataOK'
    <3>1. request' \in Requests
      BY <1>4 DEF SetPreviewSize, DataOK, Calls, Requests, AnySize, AnyRates, Modes
    <3> QED BY <1>4, <3>1 DEF SetPreviewSize, DataOK
  <2>3. ThreadsOK'
    BY <1>4 DEF SetPreviewSize, ThreadsOK
  <2>4. CtrlOK'
    BY <1>4 DEF SetPreviewSize, CtrlOK, IsCtrl, ThreadsOK
  <2>5. AnswerInv'
    BY <1>4 DEF SetPreviewSize, AnswerInv, ThreadsOK
  <2>6. ControlInv'
    BY <1>4 DEF SetPreviewSize, ControlInv, ThreadsOK
  <2>7. HandlerInv'
    BY <1>4 DEF SetPreviewSize, HandlerInv, Setting, ThreadsOK
  <2>8. InterfaceInv'
    BY <1>4 DEF SetPreviewSize, InterfaceInv, StreamHasItsInterface, DataOK, ThreadsOK,
         HandlerInv, Setting
  <2>9. FrameInv'
    BY <1>4 DEF SetPreviewSize, FrameInv, Matches, Frame, FramesAreShown, ThreadsOK, ControlInv,
         HandlerInv, Setting
  <2>10. OfferInv'
    <3>1. CASE Same
      <4>1. /\ At("client", "request") /\ Goto("client", "accepted")
            /\ UNCHANGED <<java, request, mIsRunning, formats>>
        BY <1>4, <3>1 DEF SetPreviewSize
      <4> QED BY <3>1, <4>1
        DEF Same, OfferInv, Offered, Matches, Suitable, HandlerInv, Setting, ThreadsOK, DataOK,
            Modes
    <3>2. CASE ~Same
      <4>1. request'.mode = request.mode
        BY <1>4, <3>2 DEF SetPreviewSize, DataOK, Requests
      <4> QED BY <1>4, <3>2, <4>1
        DEF SetPreviewSize, OfferInv, Offered, Matches, Suitable, HandlerInv, Setting, ThreadsOK,
            DataOK, Modes, ControlInv
    <3> QED BY <3>1, <3>2
  <2> QED BY <2>1, <2>2, <2>3, <2>4, <2>5, <2>6, <2>7, <2>8, <2>9, <2>10
<1>5. CASE SetMode
  <2>1. DataOK'
    BY <1>5 DEF SetMode, DataOK, Requests, Calls
  <2>2. ThreadsOK'
    BY <1>5 DEF SetMode, ThreadsOK
  <2>3. CtrlOK'
    BY <1>5 DEF SetMode, CtrlOK, IsCtrl
  <2>4. AnswerInv'
    BY <1>5 DEF SetMode, AnswerInv
  <2>5. ControlInv'
    BY <1>5 DEF SetMode, ControlInv
  <2>6. HandlerInv'
    BY <1>5 DEF SetMode, HandlerInv, Setting
  <2>7. InterfaceInv'
    BY <1>5 DEF SetMode, InterfaceInv, StreamHasItsInterface
  <2>8. FrameInv'
    BY <1>5 DEF SetMode, FrameInv, Frame, FramesAreShown, ControlInv, InterfaceInv
  <2>9. OfferInv'
    BY <1>5 DEF SetMode, OfferInv, Setting, HandlerInv
  <2>10. FlagsOK'
    BY <1>5 DEF SetMode, FlagsOK
  <2> QED BY <2>1, <2>2, <2>3, <2>4, <2>5, <2>6, <2>7, <2>8, <2>9, <2>10
<1>6. CASE Accepted
  <2>1. DataOK'
    BY <1>6 DEF Accepted, DataOK, AnySize, Modes, AnyRates, Calls
  <2>2. ThreadsOK'
    BY <1>6 DEF Accepted, ThreadsOK
  <2>3. CtrlOK'
    BY <1>6 DEF Accepted, CtrlOK, IsCtrl, ThreadsOK
  <2>4. AnswerInv'
    BY <1>6 DEF Accepted, AnswerInv, ThreadsOK
  <2>5. ControlInv'
    BY <1>6 DEF Accepted, ControlInv, ThreadsOK
  <2>6. HandlerInv'
    BY <1>6 DEF Accepted, HandlerInv, Setting, DataOK, ThreadsOK
  <2>7. InterfaceInv'
    BY <1>6 DEF Accepted, InterfaceInv, StreamHasItsInterface, ThreadsOK
  <2>8. FrameInv'
    BY <1>6 DEF Accepted, FrameInv, Matches, Frame, FramesAreShown, ThreadsOK
  <2>9. OfferInv'
    BY <1>6 DEF Accepted, OfferInv, Offered, Matches, Suitable, Setting, ThreadsOK
  <2>10. FlagsOK'
    BY <1>6 DEF Accepted, FlagsOK
  <2> QED BY <2>1, <2>2, <2>3, <2>4, <2>5, <2>6, <2>7, <2>8, <2>9, <2>10
<1>7. CASE Refused
  <2>1. DataOK'
    BY <1>7, RefusedStep DEF DataOK
  <2>2. ThreadsOK'
    BY <1>7 DEF Refused, ThreadsOK
  <2>3. CtrlOK'
    BY <1>7 DEF Refused, CtrlOK, IsCtrl, ThreadsOK
  <2>4. AnswerInv'
    BY <1>7 DEF Refused, AnswerInv, ThreadsOK
  <2>5. ControlInv'
    BY <1>7 DEF Refused, ControlInv, ThreadsOK
  <2>6. HandlerInv'
    BY <1>7, RefusedStep DEF HandlerInv, Setting, ThreadsOK
  <2>7. InterfaceInv'
    BY <1>7 DEF Refused, InterfaceInv, StreamHasItsInterface, ThreadsOK
  <2>8. FrameInv'
    BY <1>7 DEF Refused, FrameInv, Matches, Frame, FramesAreShown, ThreadsOK
  <2>9. OfferInv'
    BY <1>7, RefusedStep
       DEF OfferInv, Offered, Matches, Suitable, HandlerInv, Setting, ThreadsOK, DataOK, Modes,
           ControlInv
  <2>10. FlagsOK'
    BY <1>7 DEF Refused, FlagsOK
  <2> QED BY <2>1, <2>2, <2>3, <2>4, <2>5, <2>6, <2>7, <2>8, <2>9, <2>10
<1> QED BY <1>1, <1>2, <1>3, <1>4, <1>5, <1>6, <1>7

\* Starting and stopping.
LEMMA StartingSteps ==
  ASSUME FormatAssumption, FormatInv,
         StartPreview \/ HandlerStarts \/ StopPreview \/ Close \/ Join \/ Stopped
  PROVE  FormatInv'
<1> USE DEF FormatInv, TypeOK
<1>1. CASE StartPreview
  <2>1. FlagsOK'
    BY <1>1 DEF StartPreview, Start, FlagsOK
  <2>2. DataOK'
    BY <1>1 DEF StartPreview, Call, DataOK
  <2>3. ThreadsOK'
    BY <1>1 DEF StartPreview, Start, ThreadsOK
  <2>4. CtrlOK'
    BY <1>1 DEF StartPreview, Call, Start, CtrlOK, IsCtrl, ThreadsOK, ControlInv
  <2>5. AnswerInv'
    BY <1>1 DEF StartPreview, Start, AnswerInv, ThreadsOK
  <2>6. ControlInv'
    BY <1>1 DEF StartPreview, Start, ControlInv, ThreadsOK
  <2>7. HandlerInv'
    BY <1>1 DEF StartPreview, Call, Start, HandlerInv, ThreadsOK
  <2>8. InterfaceInv'
    BY <1>1 DEF StartPreview, Call, Start, InterfaceInv, StreamHasItsInterface, ThreadsOK,
         CtrlOK, ControlInv
  <2>9. FrameInv'
    BY <1>1 DEF StartPreview, Call, Start, FrameInv, Matches, Frame, FramesAreShown, ThreadsOK,
         CtrlOK, ControlInv
  <2>10. OfferInv'
    BY <1>1 DEF StartPreview, OfferInv
  <2> QED BY <2>1, <2>2, <2>3, <2>4, <2>5, <2>6, <2>7, <2>8, <2>9, <2>10
<1>2. CASE HandlerStarts
  <2>1. FlagsOK'
    BY <1>2 DEF HandlerStarts, Start, FlagsOK
  <2>2. DataOK'
    BY <1>2 DEF HandlerStarts, DataOK, AnySize, Modes, AnyRates, Calls
  <2>3. ThreadsOK'
    BY <1>2 DEF HandlerStarts, Start, ThreadsOK
  <2>4. CtrlOK'
    BY <1>2 DEF HandlerStarts, Start, CtrlOK, IsCtrl, ControlInv, HandlerInv
  <2>5. AnswerInv'
    BY <1>2 DEF HandlerStarts, Start, AnswerInv, ThreadsOK
  <2>6. ControlInv'
    BY <1>2 DEF HandlerStarts, Start, ControlInv, HandlerInv
  <2>7. HandlerInv'
    BY <1>2 DEF HandlerStarts, Start, HandlerInv, Setting
  <2>8. InterfaceInv'
    BY <1>2 DEF HandlerStarts, Start, InterfaceInv, StreamHasItsInterface, HandlerInv
  <2>9. FrameInv'
    BY <1>2 DEF HandlerStarts, Start, FrameInv, Frame, FramesAreShown, HandlerInv
  <2>10. OfferInv'
    BY <1>2 DEF HandlerStarts, Start, OfferInv, Offered, Matches, Suitable, ThreadsOK
  <2> QED BY <2>1, <2>2, <2>3, <2>4, <2>5, <2>6, <2>7, <2>8, <2>9, <2>10
<1>3. CASE StopPreview
  <2>1. FlagsOK'
    BY <1>3 DEF StopPreview, Stop, FlagsOK
  <2>2. DataOK'
    BY <1>3 DEF StopPreview, Call, Stop, DataOK, AnySize, Modes, AnyRates, Calls
  <2>3. ThreadsOK'
    BY <1>3 DEF StopPreview, Stop, ThreadsOK
  <2>4. CtrlOK'
    BY <1>3 DEF StopPreview, Stop, CtrlOK, IsCtrl
  <2>5. AnswerInv'
    BY <1>3 DEF StopPreview, Stop, AnswerInv
  <2>6. ControlInv'
    BY <1>3 DEF StopPreview, Call, Stop, ControlInv, ThreadsOK
  <2>7. HandlerInv'
    BY <1>3 DEF StopPreview, Call, Stop, HandlerInv, Setting
  <2>8. InterfaceInv'
    BY <1>3 DEF StopPreview, Stop, InterfaceInv, StreamHasItsInterface
  <2>9. FrameInv'
    BY <1>3 DEF StopPreview, Stop, FrameInv, Matches, Frame, FramesAreShown
  <2>10. OfferInv'
    BY <1>3 DEF StopPreview, Call, Stop, OfferInv, Offered, Matches, Suitable
  <2> QED BY <2>1, <2>2, <2>3, <2>4, <2>5, <2>6, <2>7, <2>8, <2>9, <2>10
<1>4. CASE Close
  <2>1. FlagsOK'
    BY <1>4 DEF Close, Stop, FlagsOK
  <2>2. DataOK'
    BY <1>4 DEF Close, Call, Stop, DataOK, AnySize, Modes, AnyRates, Calls
  <2>3. ThreadsOK'
    BY <1>4 DEF Close, Stop, ThreadsOK
  <2>4. CtrlOK'
    BY <1>4 DEF Close, Stop, CtrlOK, IsCtrl
  <2>5. AnswerInv'
    BY <1>4 DEF Close, Stop, AnswerInv
  <2>6. ControlInv'
    BY <1>4 DEF Close, Call, Stop, ControlInv, ThreadsOK
  <2>7. HandlerInv'
    BY <1>4 DEF Close, Call, Stop, HandlerInv, Setting
  <2>8. InterfaceInv'
    BY <1>4 DEF Close, Stop, InterfaceInv, StreamHasItsInterface
  <2>9. FrameInv'
    BY <1>4 DEF Close, Stop, FrameInv, Matches, Frame, FramesAreShown
  <2>10. OfferInv'
    BY <1>4 DEF Close, Call, Stop, OfferInv, Offered, Matches, Suitable
  <2> QED BY <2>1, <2>2, <2>3, <2>4, <2>5, <2>6, <2>7, <2>8, <2>9, <2>10
<1>5. CASE Join
  <2>1. ThreadsOK'
    BY <1>5 DEF Join, ThreadsOK
  <2>2. CtrlOK'
    BY <1>5 DEF Join, CtrlOK, IsCtrl
  <2>3. AnswerInv'
    BY <1>5 DEF Join, AnswerInv
  <2>4. ControlInv'
    BY <1>5 DEF Join, ControlInv
  <2>5. HandlerInv'
    BY <1>5 DEF Join, HandlerInv, Setting
  <2>6. InterfaceInv'
    BY <1>5 DEF Join, InterfaceInv, StreamHasItsInterface
  <2>7. FrameInv'
    BY <1>5 DEF Join, FrameInv, Frame, FramesAreShown
  <2>8. OfferInv'
    BY <1>5 DEF Join, OfferInv, Offered, Matches, Suitable, Setting
  <2>9. FlagsOK' /\ DataOK'
    BY <1>5 DEF Join, FlagsOK, DataOK
  <2> QED BY <2>1, <2>2, <2>3, <2>4, <2>5, <2>6, <2>7, <2>8, <2>9
<1>6. CASE Stopped
  <2>1. FlagsOK'
    BY <1>6 DEF Stopped, FlagsOK
  <2>2. DataOK'
    BY <1>6 DEF Stopped, DataOK, AnySize, Modes, AnyRates, Calls
  <2>3. ThreadsOK'
    BY <1>6 DEF Stopped, ThreadsOK
  <2>4. CtrlOK'
    BY <1>6 DEF Stopped, CtrlOK, IsCtrl
  <2>5. AnswerInv'
    BY <1>6 DEF Stopped, AnswerInv
  <2>6. ControlInv'
    BY <1>6 DEF Stopped, ControlInv
  <2>7. HandlerInv'
    <3>1. call'.for = "nothing"
      BY <1>6 DEF Stopped
    <3> QED BY <1>6, <3>1 DEF Stopped, FlagsOK, HandlerInv, ControlInv, Setting, ThreadsOK
  <2>8. InterfaceInv'
    BY <1>6 DEF Stopped, FlagsOK, InterfaceInv, StreamHasItsInterface, ControlInv, ThreadsOK, CtrlOK
  <2>9. FrameInv'
    BY <1>6 DEF Stopped, FrameInv, Matches, Frame, FramesAreShown
  <2>10. OfferInv'
    BY <1>6 DEF Stopped, OfferInv, Offered, Matches, Suitable
  <2> QED BY <2>1, <2>2, <2>3, <2>4, <2>5, <2>6, <2>7, <2>8, <2>9, <2>10
<1> QED BY <1>1, <1>2, <1>3, <1>4, <1>5, <1>6

\* The preview thread.
LEMMA PreviewSteps ==
  ASSUME FormatAssumption, FormatInv,
         FrameSize \/ FrameMode \/ FrameBytes \/ StartStreaming \/ StartFails
         \/ StopStreaming
  PROVE  FormatInv'
<1> USE DEF FormatInv, TypeOK
<1>1. CASE FrameSize
  <2>1. DataOK'
    <3>1. Known(ctrl["preview"]) => Frame(ctrl["preview"]).size \in Nat
      BY <1>1, FrameSized DEF FrameSize, CtrlOK, Known
    <3>2. request.size \in Nat
      BY DEF DataOK, Requests, AnySize, FormatAssumption
    <3>3. frame' \in [size: Nat, mode: Modes, bytes: Nat]
      BY <1>1, <3>1, <3>2 DEF FrameSize, DataOK
    <3> QED BY <1>1, <3>3 DEF FrameSize, DataOK
  <2>2. ThreadsOK'
    BY <1>1 DEF FrameSize, ThreadsOK
  <2>3. CtrlOK'
    BY <1>1 DEF FrameSize, CtrlOK, IsCtrl
  <2>4. AnswerInv'
    BY <1>1 DEF FrameSize, AnswerInv
  <2>5. ControlInv'
    BY <1>1 DEF FrameSize, ControlInv
  <2>6. HandlerInv'
    BY <1>1 DEF FrameSize, HandlerInv
  <2>7. InterfaceInv'
    BY <1>1 DEF FrameSize, InterfaceInv, StreamHasItsInterface
  <2>8. FrameInv'
    BY <1>1 DEF FrameSize, Frame, FrameInv, Known, Matches, FramesAreShown, CtrlOK
  <2>9. OfferInv'
    BY <1>1 DEF FrameSize, OfferInv, Offered, Matches, Suitable
  <2>10. FlagsOK'
    BY <1>1 DEF FrameSize, FlagsOK
  <2> QED BY <2>1, <2>2, <2>3, <2>4, <2>5, <2>6, <2>7, <2>8, <2>9, <2>10
<1>2. CASE FrameMode
  <2>1. DataOK'
    BY <1>2 DEF FrameMode, DataOK, Requests
  <2>2. ThreadsOK'
    BY <1>2 DEF FrameMode, ThreadsOK
  <2>3. CtrlOK'
    BY <1>2 DEF FrameMode, CtrlOK, IsCtrl
  <2>4. AnswerInv'
    BY <1>2 DEF FrameMode, AnswerInv
  <2>5. ControlInv'
    BY <1>2 DEF FrameMode, ControlInv
  <2>6. HandlerInv'
    BY <1>2 DEF FrameMode, HandlerInv
  <2>7. InterfaceInv'
    BY <1>2 DEF FrameMode, InterfaceInv, StreamHasItsInterface
  <2>8. FrameInv'
    BY <1>2 DEF FrameMode, FrameInv, Matches, Frame, FramesAreShown, CtrlOK
  <2>9. OfferInv'
    BY <1>2 DEF FrameMode, OfferInv, Offered, Matches, Suitable
  <2>10. FlagsOK'
    BY <1>2 DEF FrameMode, FlagsOK
  <2> QED BY <2>1, <2>2, <2>3, <2>4, <2>5, <2>6, <2>7, <2>8, <2>9, <2>10
<1>3. CASE FrameBytes
  <2>1. DataOK'
    BY <1>3 DEF FrameBytes, DataOK
  <2>2. ThreadsOK'
    BY <1>3 DEF FrameBytes, ThreadsOK, Known
  <2>3. CtrlOK'
    BY <1>3 DEF FrameBytes, CtrlOK, IsCtrl, Known
  <2>4. AnswerInv'
    BY <1>3 DEF FrameBytes, AnswerInv, Known
  <2>5. ControlInv'
    BY <1>3 DEF FrameBytes, ControlInv
  <2>6. HandlerInv'
    BY <1>3 DEF FrameBytes, HandlerInv
  <2>7. InterfaceInv'
    BY <1>3 DEF FrameBytes, InterfaceInv, StreamHasItsInterface
  <2>8. FrameInv'
    BY <1>3 DEF FrameBytes, FrameInv, Known, Matches, Frame, FramesAreShown, DataOK
  <2>9. OfferInv'
    BY <1>3 DEF FrameBytes, OfferInv, Offered, Matches, Suitable
  <2>10. FlagsOK'
    BY <1>3 DEF FrameBytes, FlagsOK
  <2> QED BY <2>1, <2>2, <2>3, <2>4, <2>5, <2>6, <2>7, <2>8, <2>9, <2>10
<1>4. CASE StartStreaming
  <2>1. FlagsOK'
    BY <1>4 DEF StartStreaming, FlagsOK
  <2>2. ThreadsOK'
    BY <1>4 DEF StartStreaming, ThreadsOK
  <2>3. CtrlOK'
    BY <1>4 DEF StartStreaming, CtrlOK, AnswerInv, IsCtrl, ThreadsOK
  <2>4. AnswerInv'
    BY <1>4 DEF StartStreaming, AnswerInv
  <2>5. ControlInv'
    BY <1>4 DEF StartStreaming, ControlInv
  <2>6. HandlerInv'
    BY <1>4 DEF StartStreaming, HandlerInv
  <2>7. InterfaceInv'
    BY <1>4 DEF StartStreaming, InterfaceInv, StreamHasItsInterface
  <2>8. FrameInv'
    BY <1>4 DEF StartStreaming, FrameInv, Matches, Frame, FramesAreShown, DataOK, CtrlOK, IsCtrl
  <2>9. OfferInv'
    BY <1>4 DEF StartStreaming, OfferInv, Offered, Matches, Suitable
  <2>10. DataOK'
    BY <1>4 DEF StartStreaming, DataOK
  <2> QED BY <2>1, <2>2, <2>3, <2>4, <2>5, <2>6, <2>7, <2>8, <2>9, <2>10
<1>5. CASE StartFails
  <2>1. FlagsOK'
    BY <1>5 DEF StartFails, FlagsOK
  <2>2. ThreadsOK'
    BY <1>5 DEF StartFails, ThreadsOK
  <2>3. CtrlOK'
    BY <1>5 DEF StartFails, CtrlOK, IsCtrl
  <2>4. AnswerInv'
    BY <1>5 DEF StartFails, AnswerInv
  <2>5. ControlInv'
    BY <1>5 DEF StartFails, ControlInv
  <2>6. HandlerInv'
    BY <1>5 DEF StartFails, HandlerInv
  <2>7. InterfaceInv'
    BY <1>5 DEF StartFails, InterfaceInv, StreamHasItsInterface, CtrlOK
  <2>8. FrameInv'
    BY <1>5 DEF StartFails, FrameInv, Matches, Frame, FramesAreShown
  <2>9. OfferInv'
    BY <1>5 DEF StartFails, OfferInv, Offered, Matches, Suitable
  <2>10. DataOK'
    BY <1>5 DEF StartFails, DataOK
  <2> QED BY <2>1, <2>2, <2>3, <2>4, <2>5, <2>6, <2>7, <2>8, <2>9, <2>10
<1>6. CASE StopStreaming
  <2>1. FlagsOK'
    BY <1>6 DEF StopStreaming, FlagsOK
  <2>2. ThreadsOK'
    BY <1>6 DEF StopStreaming, ThreadsOK
  <2>3. CtrlOK'
    BY <1>6 DEF StopStreaming, CtrlOK, IsCtrl, ThreadsOK
  <2>4. AnswerInv'
    BY <1>6 DEF StopStreaming, AnswerInv
  <2>5. ControlInv'
    BY <1>6 DEF StopStreaming, ControlInv
  <2>6. HandlerInv'
    BY <1>6 DEF StopStreaming, HandlerInv
  <2>7. InterfaceInv'
    BY <1>6 DEF StopStreaming, InterfaceInv, StreamHasItsInterface
  <2>8. FrameInv'
    BY <1>6 DEF StopStreaming, FrameInv, FramesAreShown
  <2>9. OfferInv'
    BY <1>6 DEF StopStreaming, OfferInv, Offered, Matches, Suitable
  <2>10. DataOK'
    BY <1>6 DEF StopStreaming, DataOK
  <2> QED BY <2>1, <2>2, <2>3, <2>4, <2>5, <2>6, <2>7, <2>8, <2>9, <2>10
<1> QED BY <1>1, <1>2, <1>3, <1>4, <1>5, <1>6

LEMMA InitInv == FormatAssumption /\ Init => FormatInv
<1> SUFFICES ASSUME FormatAssumption, Init PROVE FormatInv
  OBVIOUS
<1>1. FlagsOK
  BY DEF Init, FlagsOK
<1>2. DataOK
  <2>1. DefaultSize \in Nat /\ DefaultSize * 2 \in Nat
    BY DEF FormatAssumption
  <2> QED BY <2>1 DEF Init, DataOK, Requests, Calls, AnySize, AnyRates, Modes
<1>3. ThreadsOK
  BY DEF Init, ThreadsOK
<1>4. CtrlOK /\ AnswerInv /\ ControlInv /\ HandlerInv
  BY DEF Init, CtrlOK, IsCtrl, AnswerInv, ControlInv, HandlerInv, Setting
<1>5. InterfaceInv /\ FrameInv /\ OfferInv
  BY DEF Init, InterfaceInv, StreamHasItsInterface, FrameInv, FramesAreShown, OfferInv
<1> QED BY <1>1, <1>2, <1>3, <1>4, <1>5 DEF FormatInv, TypeOK

LEMMA NextInv ==
  ASSUME FormatAssumption, FormatInv, [Next]_vars
  PROVE  FormatInv'
<1>1. CASE UNCHANGED vars
  BY <1>1 DEF vars, FormatInv, TypeOK, FlagsOK, DataOK, ThreadsOK, CtrlOK, IsCtrl, AnswerInv,
       ControlInv, HandlerInv, Setting, InterfaceInv, StreamHasItsInterface, FrameInv, Matches,
       Frame, FramesAreShown, OfferInv, Offered, Suitable
<1>2. CASE Next
  BY <1>2, NegotiationSteps, SettingSteps, StartingSteps, PreviewSteps
     DEF Next, ClientStep, PreviewStep, Negotiate
<1> QED BY <1>1, <1>2

THEOREM InvariantHolds == FormatAssumption /\ Spec => []FormatInv
<1> SUFFICES ASSUME FormatAssumption PROVE Spec => []FormatInv
  OBVIOUS
<1>1. Init => FormatInv
  BY InitInv
<1>2. FormatInv /\ [Next]_vars => FormatInv'
  BY NextInv
<1> QED BY <1>1, <1>2, PTL DEF Spec

-----------------------------------------------------------------------------
(* What every preview promises *)

\* Whatever is asked, answered or committed, with whatever camera, is one of the camera's
\* frames, and a stream is open exactly while the preview thread streams.
THEOREM TypeCorrect == FormatAssumption /\ Spec => []TypeOK
<1> SUFFICES ASSUME FormatAssumption PROVE Spec => []TypeOK
  OBVIOUS
<1>1. FormatInv => TypeOK
  BY DEF FormatInv
<1> QED BY <1>1, InvariantHolds, PTL

\* A refused request never takes the interface from a stream of the handler, nor from one
\* that no setPreviewSize disturbs.
THEOREM StreamsKeepTheirInterface == FormatAssumption /\ Spec => []StreamHasItsInterface
<1> SUFFICES ASSUME FormatAssumption PROVE Spec => []StreamHasItsInterface
  OBVIOUS
<1>1. FormatInv => StreamHasItsInterface
  BY DEF FormatInv, InterfaceInv
<1> QED BY <1>1, InvariantHolds, PTL

\* What prepare_preview sets fits what is committed, so the frames of such a preview pass
\* the test of uvc_preview_frame_callback and are decoded as what they are.
THEOREM FramesAlwaysFit == FormatAssumption /\ Spec => []FramesAreShown
<1> SUFFICES ASSUME FormatAssumption PROVE Spec => []FramesAreShown
  OBVIOUS
<1>1. FormatInv => FramesAreShown
  BY DEF FormatInv, FrameInv, FramesAreShown
<1> QED BY <1>1, InvariantHolds, PTL

\* The handler's fallback never leads it to accept an MJPEG request that was refused.
THEOREM FallbackIsHonest == FormatAssumption /\ Spec => []AcceptedIsOffered
<1> SUFFICES ASSUME FormatAssumption PROVE Spec => []AcceptedIsOffered
  OBVIOUS
<1>1. FormatInv => AcceptedIsOffered
  BY DEF FormatInv, OfferInv, AcceptedIsOffered, Offered
<1> QED BY <1>1, InvariantHolds, PTL
=============================================================================
