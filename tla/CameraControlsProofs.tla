------------------------ MODULE CameraControlsProofs ------------------------
(***************************************************************************)
(* Proofs about the camera's controls, for any controls in use, any        *)
(* requests and any number of failing transfers:                           *)
(*   - a call for one control leaves the others as they are;               *)
(*   - the limits that are known are those of the camera that is open;     *)
(*   - what is clamped to them is taken, by a camera whose limits are as   *)
(*     CamerasAssumption says.                                             *)
(* The first two hold of any cameras.                                      *)
(***************************************************************************)
EXTENDS CameraControls, TLAPS

-----------------------------------------------------------------------------
(* The tables *)

\* A row of a joined table is the row of its part.
LEMMA JoinedRows ==
  ASSUME NEW T, \A t, u \in T : \A x \in DOMAIN t \cap DOMAIN u : t = u
  PROVE  /\ DOMAIN Joined(T) = UNION {DOMAIN t : t \in T}
         /\ \A t \in T : \A x \in DOMAIN t : Joined(T)[x] = t[x]
  BY DEF Joined

AccessorTables ==
  {ExposureAccess, FocusAccess, IrisZoomAccess, PanTiltAccess, RollAccess, PrivacyAccess,
   LightAccess, GainHueAccess, ToneAccess, WhiteAccess, AnalogAccess}

LEMMA AccessorRows ==
  /\ DOMAIN Accessor = UNION {DOMAIN t : t \in AccessorTables}
  /\ \A t \in AccessorTables : \A a \in DOMAIN t : Accessor[a] = t[a]
<1>1. \A t, u \in AccessorTables : \A a \in DOMAIN t \cap DOMAIN u : t = u
  BY DEF AccessorTables, ExposureAccess, FocusAccess, IrisZoomAccess, PanTiltAccess, RollAccess,
         PrivacyAccess, LightAccess, GainHueAccess, ToneAccess, WhiteAccess, AnalogAccess
<1> QED BY <1>1, JoinedRows DEF Accessor, AccessorTables

RowTables ==
  {ExposureModeRows, ExposureRows, FocusRows, IrisRows, PanTiltRows, RollRows, PrivacyRows,
   LightRows, GainRows, WhiteRows, ColourRows, PowerZoomRows, DigitalRows}

LEMMA ControlRows ==
  /\ Controls = UNION {DOMAIN t : t \in RowTables}
  /\ \A t \in RowTables : \A c \in DOMAIN t : Row[c] = t[c]
<1>1. \A t, u \in RowTables : \A c \in DOMAIN t \cap DOMAIN u : t = u
  BY DEF RowTables, ExposureModeRows, ExposureRows, FocusRows, IrisRows, PanTiltRows, RollRows,
         PrivacyRows, LightRows, GainRows, WhiteRows, ColourRows, PowerZoomRows, DigitalRows
<1> QED BY <1>1, JoinedRows DEF Controls, Row, RowTables

\* The selector to which control c is sent, and the controls that are sent to selector s.
Selector(c) == Accessor[Row[c].access].selector

SentTo ==
  [scanning_mode |-> {"ScanningMode"}, ae_mode |-> {"ExposureMode"}, ae_priority |-> {"ExposurePriority"},
   exposure_abs |-> {"Exposure"}, exposure_rel |-> {"ExposureRel"}, focus_auto |-> {"AutoFocus"},
   focus_abs |-> {"Focus", "Iris"}, focus_rel |-> {"FocusRel", "IrisRel"}, zoom_abs |-> {"Zoom"},
   zoom_rel |-> {"ZoomRel"}, pantilt_abs |-> {"Pan", "Tilt"}, roll_abs |-> {"Roll"},
   privacy |-> {"Privacy"}, backlight_compensation |-> {"BacklightComp"}, brightness |-> {"Brightness"},
   contrast |-> {"Contrast"}, contrast_auto |-> {"AutoContrast"}, gain |-> {"Gain"},
   powerline |-> {"PowerlineFrequency"}, hue |-> {"Hue"}, hue_auto |-> {"AutoHue"},
   saturation |-> {"Saturation"}, sharpness |-> {"Sharpness"}, gamma |-> {"Gamma"},
   wb_temperature |-> {"WhiteBlance"}, wb_temperature_auto |-> {"AutoWhiteBlance"},
   wb_component |-> {"WhiteBlanceCompo"}, wb_component_auto |-> {"AutoWhiteBlanceCompo"},
   multiplier |-> {"DigitalMultiplier"}, multiplier_limit |-> {"DigitalMultiplierLimit"},
   video_standard |-> {"AnalogVideoStandard"}, video_lockstate |-> {"AnalogVideoLockState"}]

Turns(c) == Row[c].how = "pantilt"

\* What matters here of a row: how its setter works and which accessor it uses.
LEMMA RowShapes ==
  \A member, mask, updateMask, access :
    /\ Clamped(member, mask, access).how = "clamped"
    /\ Clamped(member, mask, access).access = access
    /\ Direct(member, updateMask, mask, access).how = "direct"
    /\ Direct(member, updateMask, mask, access).access = access
    /\ Switch(member, updateMask, mask, access).how = "switch"
    /\ Switch(member, updateMask, mask, access).access = access
  BY DEF Clamped, Direct, Switch

LEMMA MixedShapes ==
  /\ FocusRows.FocusRel.how = "clamped" /\ FocusRows.FocusRel.access = "focus_rel"
  /\ PanTiltRow.how = "pantilt" /\ PanTiltRow.access = "pantilt_abs"
  /\ PrivacyRows.Privacy.how = "clamped" /\ PrivacyRows.Privacy.access = "privacy"
  /\ PowerZoomRows.PowerlineFrequency.how = "powerline"
  /\ PowerZoomRows.PowerlineFrequency.access = "powerline"
  BY DEF FocusRows, PanTiltRow, PrivacyRows, PowerZoomRows, Clamped, Direct

LEMMA SelectorsOfControls ==
  \A c \in Controls : /\ Row[c].access \in DOMAIN Accessor
                      /\ Selector(c) \in DOMAIN SentTo /\ c \in SentTo[Selector(c)]
                      /\ Turns(c) <=> c \in {"Pan", "Tilt"}
                      /\ Turns(c) <=> Row[c].access = "pantilt_abs"
                      /\ Row[c].how = "powerline" => Row[c].access = "powerline"
<1> USE AccessorRows, ControlRows, RowShapes, MixedShapes DEF AccessorTables, RowTables, Access, Selector, Turns, SentTo
<1> DEFINE Good(c) == /\ Row[c].access \in DOMAIN Accessor
                      /\ Selector(c) \in DOMAIN SentTo /\ c \in SentTo[Selector(c)]
                      /\ Turns(c) <=> c \in {"Pan", "Tilt"}
                      /\ Turns(c) <=> Row[c].access = "pantilt_abs"
                      /\ Row[c].how = "powerline" => Row[c].access = "powerline"
<1>1. \A c \in DOMAIN ExposureModeRows : Good(c)
  BY DEF ExposureModeRows, ExposureAccess, FocusAccess
<1>2. \A c \in DOMAIN ExposureRows : Good(c)
  BY DEF ExposureRows, ExposureAccess
<1>3. \A c \in DOMAIN FocusRows : Good(c)
  BY DEF FocusRows, FocusAccess
<1>4. \A c \in DOMAIN IrisRows : Good(c)
  BY DEF IrisRows, IrisZoomAccess
<1>5. \A c \in DOMAIN PanTiltRows : Good(c)
  BY DEF PanTiltRows, PanTiltAccess
<1>6. \A c \in DOMAIN RollRows : Good(c)
  BY DEF RollRows, RollAccess
<1>7. \A c \in DOMAIN PrivacyRows : Good(c)
  BY DEF PrivacyRows, PrivacyAccess
<1>8. \A c \in DOMAIN LightRows : Good(c)
  BY DEF LightRows, LightAccess
<1>9. \A c \in DOMAIN GainRows : Good(c)
  BY DEF GainRows, ToneAccess, GainHueAccess, WhiteAccess
<1>10. \A c \in DOMAIN WhiteRows : Good(c)
  BY DEF WhiteRows, WhiteAccess, ToneAccess
<1>11. \A c \in DOMAIN ColourRows : Good(c)
  BY DEF ColourRows, ToneAccess, GainHueAccess
<1>12. \A c \in DOMAIN PowerZoomRows : Good(c)
  BY DEF PowerZoomRows, GainHueAccess, IrisZoomAccess
<1>13. \A c \in DOMAIN DigitalRows : Good(c)
  BY DEF DigitalRows, WhiteAccess, AnalogAccess
<1> HIDE DEF Good
<1>14. \A c \in Controls : Good(c)
  BY <1>1, <1>2, <1>3, <1>4, <1>5, <1>6, <1>7, <1>8, <1>9, <1>10, <1>11, <1>12, <1>13
<1> QED BY <1>14 DEF Good
-----------------------------------------------------------------------------
(* The inductive invariant *)

\* The angles the native camera keeps are the camera's, or not known.
AnglesInv ==
  \/ current = [Pan |-> -1, Tilt |-> -1]
  \/ current = [Pan |-> register.pantilt_abs[1], Tilt |-> register.pantilt_abs[2]]

ControlsInv == inUse \subseteq Controls /\ DOMAIN register = Selectors /\ AnglesInv

-----------------------------------------------------------------------------
(* Every step preserves it and leaves the others *)

\* The excuses of OthersAreLeft.
Left(d) ==
  \/ Value(d)' = Value(d)
  \/ \E c \in call'.sets : {c, d} \in SameSelector
  \/ d \in {"Pan", "Tilt"} /\ current[d] < 0

OthersLeft == \A d \in inUse \ call'.sets : Left(d)

LEMMA OwnPanTilt == "pantilt_abs" \in Selectors /\ Own["pantilt_abs"] = <<"i32", "i32">>
<1>1. /\ "pantilt_abs" \in DOMAIN Accessor
      /\ Accessor["pantilt_abs"] = [selector |-> "pantilt_abs", types |-> <<"i32", "i32">>]
  BY AccessorRows DEF AccessorTables, PanTiltAccess, Access
<1> QED BY <1>1 DEF Selectors, Own

LEMMA SelectorIsOne == \A c \in Controls : Selector(c) \in Selectors
  BY SelectorsOfControls DEF Selector, Selectors

\* Two controls with the same selector are those that share one.
LEMMA SelectorsDiffer ==
  ASSUME NEW c \in Controls, NEW d \in Controls, c # d, Selector(c) = Selector(d)
  PROVE  {c, d} \in SameSelector \/ {c, d} = {"Pan", "Tilt"}
<1>1. Selector(c) \in DOMAIN SentTo /\ {c, d} \subseteq SentTo[Selector(c)]
  BY SelectorsOfControls
<1> QED BY <1>1 DEF SentTo, SameSelector

\* A call that sends nothing.
LEMMA NothingLeaves ==
  ASSUME ControlsInv, Nothing
  PROVE  OthersLeft
  BY DEF Nothing, OthersLeft, Left, Value

LEMMA RequestLeaves ==
  ASSUME ControlsInv, NEW c \in inUse, NEW x, NEW f, Request(c, x, f)
  PROVE  /\ call'.sets = {c}
         /\ DOMAIN register' = Selectors
         /\ \A s \in Selectors : s # Selector(c) => register'[s] = register[s]
  BY DEF Request, Sent, Returns, Selector, ControlsInv

\* A request of a control that does not turn the camera.
LEMMA PlainRequest ==
  ASSUME ControlsInv, NEW c \in inUse, ~Turns(c), NEW x, NEW f, Request(c, x, f),
         UNCHANGED <<current, inUse>>
  PROVE  ControlsInv' /\ OthersLeft
<1>1. /\ call'.sets = {c}
      /\ DOMAIN register' = Selectors
      /\ \A s \in Selectors : s # Selector(c) => register'[s] = register[s]
  BY RequestLeaves
<1>2. c \in Controls /\ c \notin {"Pan", "Tilt"}
  BY SelectorsOfControls DEF ControlsInv
<1>3. Selector(c) # "pantilt_abs"
  <2>1. c \in SentTo[Selector(c)]
    BY <1>2, SelectorsOfControls
  <2> QED BY <1>2, <2>1 DEF SentTo
<1>4. ControlsInv'
  BY <1>1, <1>3, OwnPanTilt DEF ControlsInv, AnglesInv
<1>5. ASSUME NEW d \in inUse \ {c}
      PROVE  Left(d)
  <2>1. d \in Controls /\ d # c
    BY <1>5 DEF ControlsInv
  <2>2. CASE Selector(d) = Selector(c)
    <3>1. {c, d} \in SameSelector
      BY <1>2, <2>1, <2>2, SelectorsDiffer
    <3> QED BY <1>1, <3>1 DEF Left
  <2>3. CASE Selector(d) # Selector(c)
    <3>1. register'[Selector(d)] = register[Selector(d)]
      BY <1>1, <2>1, <2>3, SelectorIsOne
    <3> QED BY <3>1 DEF Left, Value, Selector
  <2> QED BY <2>2, <2>3
<1> QED BY <1>1, <1>4, <1>5 DEF OthersLeft

\* Both angles are sent: that of c, and the other as it is known.
LEMMA TurnRequest ==
  ASSUME ControlsInv, NEW c \in inUse, Turns(c), NEW pan, NEW tilt, NEW f,
         c = "Pan" => tilt = current.Tilt \/ current.Tilt < 0,
         c = "Tilt" => pan = current.Pan \/ current.Pan < 0,
         Request(c, <<pan, tilt>>, f), UNCHANGED inUse,
         current' = IF Taken(Row[c].access, <<pan, tilt>>, f) THEN [Pan |-> pan, Tilt |-> tilt]
                    ELSE current
  PROVE  ControlsInv' /\ OthersLeft
<1>1. /\ call'.sets = {c}
      /\ DOMAIN register' = Selectors
      /\ \A s \in Selectors : s # Selector(c) => register'[s] = register[s]
  BY RequestLeaves
<1>2. /\ c \in {"Pan", "Tilt"} /\ c \in Controls /\ Row[c].access = "pantilt_abs"
      /\ Selector(c) = "pantilt_abs" /\ Accessor["pantilt_abs"].selector = "pantilt_abs"
  <2>1. Accessor["pantilt_abs"].selector = "pantilt_abs"
    BY AccessorRows DEF AccessorTables, PanTiltAccess, Access
  <2> QED BY <2>1, SelectorsOfControls DEF ControlsInv, Selector
<1>3. CASE ~Taken(Row[c].access, <<pan, tilt>>, f)
  <2>1. register' = register /\ current' = current
    BY <1>3 DEF Request, Sent
  <2> QED BY <2>1 DEF ControlsInv, AnglesInv, OthersLeft, Left, Value
<1>4. CASE Taken(Row[c].access, <<pan, tilt>>, f)
  <2>1. Stored("pantilt_abs", <<pan, tilt>>) = <<pan, tilt>>
    <3>1. As(pan, "i32") = pan /\ As(tilt, "i32") = tilt
      BY DEF As, Size
    <3> QED BY <1>2, <3>1, OwnPanTilt DEF Stored
  <2>2. register'["pantilt_abs"] = <<pan, tilt>> /\ current' = [Pan |-> pan, Tilt |-> tilt]
    BY <1>2, <1>4, <2>1, OwnPanTilt DEF Request, Sent, ControlsInv
  <2>3. ControlsInv'
    BY <1>1, <2>2 DEF ControlsInv, AnglesInv
  <2>4. ASSUME NEW d \in inUse \ {c}
        PROVE  Left(d)
    <3>1. d \in Controls /\ d # c
      BY <2>4 DEF ControlsInv
    <3>2. CASE Selector(d) = Selector(c)
      <4>1. {c, d} \in SameSelector \/ {c, d} = {"Pan", "Tilt"}
        BY <1>2, <3>1, <3>2, SelectorsDiffer
      <4>2. CASE {c, d} \in SameSelector
        BY <1>1, <4>2 DEF Left
      <4>3. CASE c = "Pan" /\ d = "Tilt"
        <5>1. current.Tilt < 0 \/ (tilt = current.Tilt /\ current.Tilt = register["pantilt_abs"][2])
          BY <4>3 DEF ControlsInv, AnglesInv
        <5>2. Value("Tilt") = register["pantilt_abs"][2] /\ Value("Tilt")' = register'["pantilt_abs"][2]
          BY <1>2, <3>2, <4>3 DEF Value, Selector
        <5> QED BY <2>2, <4>3, <5>1, <5>2 DEF Left
      <4>4. CASE c = "Tilt" /\ d = "Pan"
        <5>1. current.Pan < 0 \/ (pan = current.Pan /\ current.Pan = register["pantilt_abs"][1])
          BY <4>4 DEF ControlsInv, AnglesInv
        <5>2. Value("Pan") = register["pantilt_abs"][1] /\ Value("Pan")' = register'["pantilt_abs"][1]
          BY <1>2, <3>2, <4>4 DEF Value, Selector
        <5> QED BY <2>2, <4>4, <5>1, <5>2 DEF Left
      <4> QED BY <1>2, <3>1, <4>1, <4>2, <4>3, <4>4
    <3>3. CASE Selector(d) # Selector(c)
      <4>1. register'[Selector(d)] = register[Selector(d)]
        BY <1>1, <3>1, <3>3, SelectorIsOne
      <4> QED BY <4>1 DEF Left, Value, Selector
    <3> QED BY <3>2, <3>3
  <2> QED BY <1>1, <2>3, <2>4 DEF OthersLeft
<1> QED BY <1>3, <1>4

\* The controls of the Java methods in per cent do not turn the camera.
LEMMA PercentsArePlain == \A c \in DOMAIN Percent : c \in Controls => ~Turns(c)
<1>1. DOMAIN Percent = UNION {DOMAIN t : t \in {FocusPercents, LightPercents, ColourPercents, HuePercents}}
  BY DEF Percent, Joined
<1>2. "Pan" \notin DOMAIN Percent /\ "Tilt" \notin DOMAIN Percent
  BY <1>1 DEF FocusPercents, LightPercents, ColourPercents, HuePercents
<1> QED BY <1>2, SelectorsOfControls

\* A setter that clamps sends one request or none.
LEMMA SetClampedLeaves ==
  ASSUME ControlsInv, NEW c \in inUse, ~Turns(c), NEW s, NEW v, NEW f, SetClamped(s, c, v, f),
         UNCHANGED <<current, inUse>>
  PROVE  ControlsInv' /\ OthersLeft
<1>1. Nothing \/ \E x : Request(c, x, f)
  BY DEF SetClamped
<1>2. CASE Nothing
  BY <1>2, NothingLeaves DEF Nothing, ControlsInv, AnglesInv
<1>3. ASSUME NEW x, Request(c, x, f)
      PROVE  ControlsInv' /\ OthersLeft
  BY <1>3, PlainRequest
<1> QED BY <1>1, <1>2, <1>3

\* A call that only reads.
LEMMA ReadLeaves ==
  ASSUME ControlsInv, UNCHANGED <<register, current, inUse>>
  PROVE  ControlsInv' /\ OthersLeft
  BY DEF ControlsInv, AnglesInv, OthersLeft, Left, Value

\* The Java methods.
LEMMA JavaSteps ==
  ASSUME ControlsInv, NEW c \in inUse, NEW f \in Faults,
         Reset(c, f) \/ GetPercent(c, f) \/ ConvertPercent(c, f) \/ UpdateCameraParams(c, f)
         \/ \E p \in Percents : SetPercent(c, p, f)
  PROVE  ControlsInv' /\ OthersLeft
<1>1. CASE Reset(c, f)
  <2>1. ~Turns(c)
    BY <1>1, PercentsArePlain DEF Reset, ControlsInv
  <2> QED BY <1>1, <2>1, SetClampedLeaves DEF Reset, Unchanged
<1>2. CASE GetPercent(c, f) \/ ConvertPercent(c, f)
  BY <1>2, ReadLeaves DEF GetPercent, ConvertPercent, Nothing, Unchanged
<1>3. CASE UpdateCameraParams(c, f)
  BY <1>3, ReadLeaves DEF UpdateCameraParams
<1>4. ASSUME NEW p \in Percents, SetPercent(c, p, f)
      PROVE  ControlsInv' /\ OthersLeft
  <2>1. ~Turns(c)
    BY <1>4, PercentsArePlain DEF SetPercent, ControlsInv
  <2>2. Nothing \/ \E s, v : SetClamped(s, c, v, f)
    BY <1>4 DEF SetPercent
  <2>3. UNCHANGED <<current, inUse>>
    BY <1>4 DEF SetPercent, Unchanged
  <2>4. CASE Nothing
    BY <2>3, <2>4, ReadLeaves DEF Nothing
  <2> QED BY <2>1, <2>2, <2>3, <2>4, SetClampedLeaves
<1> QED BY <1>1, <1>2, <1>3, <1>4

\* The natives.
LEMMA NativeSteps ==
  ASSUME ControlsInv, NEW c \in inUse, NEW f \in Faults, NEW v \in Requests,
         NativeSetClamped(c, v, f) \/ NativeSetDirect(c, v, f) \/ SetPowerline(c, v, f)
  PROVE  ControlsInv' /\ OthersLeft
<1>1. CASE NativeSetClamped(c, v, f)
  <2>1. ~Turns(c)
    BY <1>1 DEF NativeSetClamped, Turns
  <2> QED BY <1>1, <2>1, SetClampedLeaves DEF NativeSetClamped, Unchanged
<1>2. CASE NativeSetDirect(c, v, f) \/ SetPowerline(c, v, f)
  <2>1. ~Turns(c)
    BY <1>2 DEF NativeSetDirect, SetPowerline, Turns
  <2>2. Nothing \/ \E x : Request(c, x, f)
    BY <1>2 DEF NativeSetDirect, SetPowerline
  <2>3. UNCHANGED <<current, inUse>>
    BY <1>2 DEF NativeSetDirect, SetPowerline, Unchanged
  <2>4. CASE Nothing
    BY <2>3, <2>4, ReadLeaves DEF Nothing
  <2> QED BY <2>1, <2>2, <2>3, <2>4, PlainRequest
<1> QED BY <1>1, <1>2

LEMMA ReadSteps ==
  ASSUME ControlsInv, NEW c \in inUse, NEW f \in Faults, NativeUpdate(c, f) \/ NativeGet(c, f)
  PROVE  ControlsInv' /\ OthersLeft
<1>1. CASE NativeUpdate(c, f)
  BY <1>1, ReadLeaves DEF NativeUpdate, Nothing, Unchanged
<1>2. CASE NativeGet(c, f)
  <2>1. UNCHANGED <<register, inUse>>
    BY <1>2 DEF NativeGet, Nothing, Unchanged
  <2>2. \/ current' = current
        \/ current' = [Pan |-> register.pantilt_abs[1], Tilt |-> register.pantilt_abs[2]]
    BY <1>2 DEF NativeGet
  <2> QED BY <2>1, <2>2 DEF ControlsInv, AnglesInv, OthersLeft, Left, Value
<1> QED BY <1>1, <1>2

LEMMA TurnSteps ==
  ASSUME ControlsInv, NEW c \in inUse, NEW f \in Faults, NEW v \in Requests, SetPanTilt(c, v, f)
  PROVE  ControlsInv' /\ OthersLeft
<1>1. Turns(c) /\ UNCHANGED inUse
  BY DEF SetPanTilt, Turns, Unchanged
<1> DEFINE vs   == Learn(values, Row[c].members, Row[c].access, f)
           pan  == IF c = "Pan" THEN Clamp(v, <<"i32">>, vs.mPan)[1]
                   ELSE IF current.Pan < 0 THEN vs.mPan.def ELSE current.Pan
           tilt == IF c = "Tilt" THEN Clamp(v, <<"i32">>, vs.mTilt)[1]
                   ELSE IF current.Tilt < 0 THEN vs.mTilt.def ELSE current.Tilt
<1>2. \/ Nothing /\ UNCHANGED current
      \/ /\ Request(c, <<pan, tilt>>, f)
         /\ current' = IF Taken(Row[c].access, <<pan, tilt>>, f) THEN [Pan |-> pan, Tilt |-> tilt]
                       ELSE current
  BY Zenon DEF SetPanTilt
<1>3. CASE Nothing /\ UNCHANGED current
  BY <1>1, <1>3, ReadLeaves DEF Nothing
<1>4. CASE /\ Request(c, <<pan, tilt>>, f)
           /\ current' = IF Taken(Row[c].access, <<pan, tilt>>, f) THEN [Pan |-> pan, Tilt |-> tilt]
                         ELSE current
  <2>1. /\ c = "Pan" => tilt = current.Tilt \/ current.Tilt < 0
        /\ c = "Tilt" => pan = current.Pan \/ current.Pan < 0
    OBVIOUS
  <2> HIDE DEF pan, tilt
  <2> QED BY <1>1, <1>4, <2>1, TurnRequest
<1> QED BY <1>2, <1>3, <1>4

LEMMA InitInv == ControlsAssumption /\ Init => ControlsInv
  BY DEF ControlsAssumption, Init, ControlsInv, AnglesInv

LEMMA NextInv ==
  ASSUME ControlsAssumption, ControlsInv, [Next]_vars
  PROVE  ControlsInv' /\ (camera # NoCamera /\ camera' # NoCamera => OthersLeft)
<1>1. CASE Connect \/ Close
  BY <1>1 DEF Connect, Close, ClearCameraParams, NoCamera, ControlsInv, AnglesInv
<1>2. ASSUME NEW f \in Faults, NEW c \in inUse,
             \/ Reset(c, f) \/ GetPercent(c, f) \/ ConvertPercent(c, f) \/ UpdateCameraParams(c, f)
             \/ \E p \in Percents : SetPercent(c, p, f)
      PROVE  ControlsInv' /\ OthersLeft
  BY <1>2, JavaSteps
<1>3. ASSUME NEW f \in Faults, NEW c \in inUse, NativeUpdate(c, f) \/ NativeGet(c, f)
      PROVE  ControlsInv' /\ OthersLeft
  BY <1>3, ReadSteps
<1>4. ASSUME NEW f \in Faults, NEW c \in inUse, NEW v \in Requests,
             \/ NativeSetClamped(c, v, f) \/ NativeSetDirect(c, v, f) \/ SetPowerline(c, v, f)
             \/ SetPanTilt(c, v, f)
      PROVE  ControlsInv' /\ OthersLeft
  BY <1>4, NativeSteps, TurnSteps
<1>5. CASE UNCHANGED vars
  BY <1>5, ReadLeaves DEF vars, native
<1> QED BY <1>1, <1>2, <1>3, <1>4, <1>5 DEF Next

\* A control in use is one of the table, and the angles the native camera keeps are the camera's or not
\* known.
THEOREM InvariantHolds == ControlsAssumption /\ Spec => []ControlsInv
<1> SUFFICES ASSUME ControlsAssumption PROVE Spec => []ControlsInv
  OBVIOUS
<1>1. Init => ControlsInv
  BY InitInv
<1>2. ControlsInv /\ [Next]_vars => ControlsInv'
  BY NextInv
<1> QED BY <1>1, <1>2, PTL DEF Spec

\* A call that sets one control of an open camera leaves the value of every other as it was, but
\* for those that libuvc sends to the same selector, and for the other angle while it is negative or
\* not known.
THEOREM CallsLeaveOthers == ControlsAssumption /\ Spec => OthersAreLeft
<1> SUFFICES ASSUME ControlsAssumption PROVE Spec => OthersAreLeft
  OBVIOUS
<1>1. ControlsInv /\ [Next]_vars =>
        [camera # NoCamera /\ camera' # NoCamera =>
           \A d \in inUse \ call'.sets :
             \/ Value(d)' = Value(d)
             \/ \E c \in call'.sets : {c, d} \in SameSelector
             \/ d \in {"Pan", "Tilt"} /\ current[d] < 0]_vars
  BY NextInv DEF OthersLeft, Left
<1> QED BY <1>1, InvariantHolds, PTL DEF Spec, OthersAreLeft

-----------------------------------------------------------------------------
(* What is known of the limits *)

\* Of a control that is not Mixed, the native camera knows nothing or its limits; if no transfer
\* failed, all
\* of them.
Plain == Controls \ Mixed
OwnLimits(c, m) == [q \in Queries |-> OwnLimit(c, m, q)]

Right(vs) == \A c \in Plain : \A m \in Range(Row[c].members) : \A q \in Queries : vs[m][q] \in {0, OwnLimit(c, m, q)}
Whole(vs) == \A c \in Plain : \A m \in Range(Row[c].members) : vs[m] \in {Unknown, OwnLimits(c, m)}

KnownInv ==
  /\ has \subseteq Controls /\ failures \in Nat /\ DOMAIN fields = Fields
  /\ camera = NoCamera => supports = [ctrl |-> {}, proc |-> {}]
  /\ camera # NoCamera => Right(values) /\ (failures = 0 => Whole(values)) /\ JavaKnows

\* The controls whose limits are kept in each member.
KeptIn ==
  [mScanningMode |-> {"ScanningMode"}, mExposureMode |-> {"ExposureMode"},
   mExposurePriority |-> {"ExposurePriority"}, mExposureAbs |-> {"Exposure", "ExposureRel"},
   mAutoFocus |-> {"AutoFocus", "AutoContrast"}, mFocus |-> {"Focus"}, mFocusRel |-> {"FocusRel"},
   mIris |-> {"Iris", "IrisRel"}, mRoll |-> {"Roll"}, mPrivacy |-> {"Privacy"},
   mBacklightComp |-> {"BacklightComp"}, mBrightness |-> {"Brightness"}, mContrast |-> {"Contrast"},
   mSharpness |-> {"Sharpness"}, mGain |-> {"Gain"}, mAutoWhiteBlance |-> {"AutoWhiteBlance"},
   mAutoWhiteBlanceCompo |-> {"AutoWhiteBlanceCompo"}, mWhiteBlance |-> {"WhiteBlance"},
   mWhiteBlanceCompo |-> {"WhiteBlanceCompo"}, mGamma |-> {"Gamma"}, mSaturation |-> {"Saturation"},
   mHue |-> {"Hue"}, mAutoHue |-> {"AutoHue"}, mPowerlineFrequency |-> {"PowerlineFrequency"},
   mZoom |-> {"Zoom"}, mZoomRel |-> {"ZoomRel"}, mMultiplier |-> {"DigitalMultiplier"},
   mMultiplierLimit |-> {"DigitalMultiplierLimit"}, mAnalogVideoStandard |-> {"AnalogVideoStandard"},
   mAnalogVideoLockState |-> {"AnalogVideoLockState"}]

LEMMA MemberShapes ==
  \A member, mask, updateMask, access :
    /\ Clamped(member, mask, access).members = <<member>>
    /\ Clamped(member, mask, access).mask = mask
    /\ Clamped(member, mask, access).updateMask = mask
    /\ Clamped(member, mask, access).update = access
    /\ Clamped(member, mask, access).getLimits = access
    /\ Direct(member, updateMask, mask, access).members = <<member>>
    /\ Direct(member, updateMask, mask, access).update = access
    /\ Direct(member, updateMask, mask, access).getLimits = access
    /\ Switch(member, updateMask, mask, access).members = <<member>>
    /\ Switch(member, updateMask, mask, access).update = access
    /\ Switch(member, updateMask, mask, access).getLimits = access
  BY DEF Clamped, Direct, Switch

LEMMA MixedMembers ==
  /\ FocusRows.FocusRel.members = <<"mFocusRel">>
  /\ PanTiltRow.members = <<"mPan", "mTilt">>
  /\ PanTiltRow.update = "pantilt_abs" /\ PanTiltRow.getLimits = "pantilt_abs"
  /\ PrivacyRows.Privacy.members = <<"mPrivacy">>
  /\ PowerZoomRows.PowerlineFrequency.members = <<"mPowerlineFrequency">>
  /\ PowerZoomRows.PowerlineFrequency.update = "powerline"
  /\ PowerZoomRows.PowerlineFrequency.getLimits = "powerline"
  BY DEF FocusRows, PanTiltRow, PrivacyRows, PowerZoomRows, Clamped, Direct

LEMMA MembersOfControls ==
  \A c \in Controls :
    /\ Turns(c) => Row[c].members = <<"mPan", "mTilt">>
    /\ ~Turns(c) => \E m \in DOMAIN KeptIn : Row[c].members = <<m>> /\ c \in KeptIn[m]
    /\ c \notin Mixed => Row[c].update = Row[c].access /\ Row[c].getLimits = Row[c].access
<1> USE ControlRows, RowShapes, MixedShapes, MemberShapes, MixedMembers DEF RowTables, Turns, KeptIn, Mixed
<1> DEFINE Good(c) ==
      /\ Turns(c) => Row[c].members = <<"mPan", "mTilt">>
      /\ ~Turns(c) => \E m \in DOMAIN KeptIn : Row[c].members = <<m>> /\ c \in KeptIn[m]
      /\ c \notin Mixed => Row[c].update = Row[c].access /\ Row[c].getLimits = Row[c].access
<1>1. \A c \in DOMAIN ExposureModeRows : Good(c)
  BY DEF ExposureModeRows
<1>2. \A c \in DOMAIN ExposureRows : Good(c)
  BY DEF ExposureRows
<1>3. \A c \in DOMAIN FocusRows : Good(c)
  BY DEF FocusRows
<1>4. \A c \in DOMAIN IrisRows : Good(c)
  BY DEF IrisRows
<1>5. \A c \in DOMAIN PanTiltRows : Good(c)
  BY DEF PanTiltRows
<1>6. \A c \in DOMAIN RollRows : Good(c)
  BY DEF RollRows
<1>7. \A c \in DOMAIN PrivacyRows : Good(c)
  BY DEF PrivacyRows
<1>8. \A c \in DOMAIN LightRows : Good(c)
  BY DEF LightRows
<1>9. \A c \in DOMAIN GainRows : Good(c)
  BY DEF GainRows
<1>10. \A c \in DOMAIN WhiteRows : Good(c)
  BY DEF WhiteRows
<1>11. \A c \in DOMAIN ColourRows : Good(c)
  BY DEF ColourRows
<1>12. \A c \in DOMAIN PowerZoomRows : Good(c)
  BY DEF PowerZoomRows
<1>13. \A c \in DOMAIN DigitalRows : Good(c)
  BY DEF DigitalRows
<1> HIDE DEF Good
<1>14. \A c \in Controls : Good(c)
  BY <1>1, <1>2, <1>3, <1>4, <1>5, <1>6, <1>7, <1>8, <1>9, <1>10, <1>11, <1>12, <1>13
<1> QED BY <1>14 DEF Good

\* No other control keeps its limits where one that is not Mixed does, but pan and tilt.
LEMMA MembersDiffer ==
  ASSUME NEW c \in Plain, NEW d \in Controls, NEW m \in Range(Row[c].members) \cap Range(Row[d].members)
  PROVE  c = d \/ (Turns(c) /\ Turns(d))
<1>1. c \in Controls /\ c \notin Mixed
  BY DEF Plain
<1>2. ASSUME ~Turns(c), ~Turns(d)
      PROVE  c = d
  <2>1. m \in DOMAIN KeptIn /\ {c, d} \subseteq KeptIn[m]
    BY <1>1, <1>2, MembersOfControls DEF Range
  <2> QED BY <1>1, <2>1 DEF KeptIn, Mixed
<1>3. Turns(c) <=> Turns(d)
  BY <1>1, MembersOfControls DEF Range, KeptIn
<1> QED BY <1>2, <1>3

LEMMA PercentNames ==
  DOMAIN Percent = {"Focus", "WhiteBlance", "Brightness", "Contrast", "Sharpness", "Gain", "Gamma", "Saturation",
                    "Hue", "Zoom"}
<1>1. DOMAIN Percent = UNION {DOMAIN t : t \in {FocusPercents, LightPercents, ColourPercents, HuePercents}}
  BY DEF Percent, Joined
<1> QED BY <1>1 DEF FocusPercents, LightPercents, ColourPercents, HuePercents

LEMMA PercentRows ==
  \A c \in DOMAIN Percent :
    /\ c \in Plain /\ Row[c].how = "clamped" /\ c \in Fields
    /\ Row[c].updateMask = Row[c].mask /\ Row[c].mask.unit \in {"ctrl", "proc"}
    /\ Percent[c].through \in DOMAIN Percent
<1> DEFINE tables == {FocusPercents, LightPercents, ColourPercents, HuePercents}
<1>1. \A t, u \in tables : \A c \in DOMAIN t \cap DOMAIN u : t = u
  BY DEF FocusPercents, LightPercents, ColourPercents, HuePercents
<1>2. /\ DOMAIN Percent = UNION {DOMAIN t : t \in tables}
      /\ \A t \in tables : \A c \in DOMAIN t : Percent[c] = t[c]
  BY <1>1, JoinedRows DEF Percent
<1>3. DOMAIN Percent = {"Focus", "WhiteBlance", "Brightness", "Contrast", "Sharpness", "Gain", "Gamma",
                        "Saturation", "Hue", "Zoom"}
  BY PercentNames
<1>4. \A c \in DOMAIN Percent : Percent[c].through \in DOMAIN Percent
  <2>1. /\ FocusPercents.WhiteBlance.through = "Focus" /\ LightPercents.Contrast.through = "Contrast"
        /\ HuePercents.Hue.through = "Hue"
    BY DEF FocusPercents, LightPercents, HuePercents, Ranged
  <2>2. \A c : Ranged(c).through = c
    BY DEF Ranged
  <2>3. \A c \in DOMAIN FocusPercents : FocusPercents[c].through = "Focus"
    BY <2>1, <2>2 DEF FocusPercents
  <2>4. \A c \in DOMAIN LightPercents : LightPercents[c].through = c
    <3>1. LightPercents.Brightness.through = "Brightness" /\ LightPercents.Sharpness.through = "Sharpness"
      BY DEF LightPercents, Ranged
    <3>2. DOMAIN LightPercents = {"Brightness", "Contrast", "Sharpness"}
      BY DEF LightPercents
    <3> QED BY <2>1, <3>1, <3>2
  <2>5. \A c \in DOMAIN ColourPercents : ColourPercents[c].through = c
    BY <2>1, <2>2 DEF ColourPercents
  <2>6. \A c \in DOMAIN HuePercents : HuePercents[c].through = c
    BY <2>1, <2>2 DEF HuePercents
  <2> QED BY <1>2, <1>3, <2>3, <2>4, <2>5, <2>6
<1>5. \A c \in DOMAIN Percent : c \in Fields /\ c \notin Mixed
  BY <1>3 DEF Fields, ModeNatives, ExposureNatives, LightNatives, FocusNatives, TurnNatives, RollNatives,
         ContrastNatives, GainNatives, ColourNatives, HueNatives, ZoomNatives, AnalogNatives, Mixed
<1>6. \A c \in DOMAIN Percent :
        /\ c \in Controls /\ Row[c].how = "clamped"
        /\ Row[c].updateMask = Row[c].mask /\ Row[c].mask.unit \in {"ctrl", "proc"}
  <2>1. \A bit : Ctrl(bit).unit = "ctrl" /\ Proc(bit).unit = "proc"
    BY DEF Ctrl, Proc
  <2> QED BY <1>3, <2>1, ControlRows, RowShapes, MemberShapes
     DEF RowTables, FocusRows, WhiteRows, LightRows, GainRows, ColourRows, PowerZoomRows
<1> QED BY <1>4, <1>5, <1>6 DEF Plain

LEMMA PlainMember ==
  ASSUME NEW c \in Plain, ~Turns(c)
  PROVE  \E m \in Members : Row[c].members = <<m>>
<1>1. PICK m \in DOMAIN KeptIn : Row[c].members = <<m>>
  BY MembersOfControls DEF Plain
<1>2. m \in Range(Row[c].members)
  BY <1>1 DEF Range
<1> QED BY <1>1, <1>2 DEF Members, Plain

\* update_ctrl_values learns the limits of a control that is not Mixed, or those a failure leaves.
LEMMA LearnsOwn ==
  ASSUME NEW c \in Plain, NEW m \in Range(Row[c].members), NEW vs, NEW f \in Faults,
         ~AllKnown(vs, Row[c].members)
  PROVE  Learn(vs, Row[c].members, Row[c].access, f)[m] =
           [q \in Queries |-> IF q \in Read[f] THEN OwnLimit(c, m, q) ELSE vs[m][q]]
<1>1. c \in Controls /\ m \in Members
  BY DEF Plain, Members
<1>2. CASE ~Turns(c)
  <2>1. Row[c].members = <<m>>
    BY <1>2, PlainMember DEF Range
  <2>2. (CHOOSE i \in DOMAIN <<m>> : <<m>>[i] = m) = 1
    OBVIOUS
  <2>3. \A q \in Queries : OwnLimit(c, m, q) = Pack(Answer(Row[c].access, q))
    BY <2>1 DEF OwnLimit
  <2> QED BY <1>1, <2>1, <2>2, <2>3 DEF Learn
<1>3. CASE Turns(c)
  <2>1. Row[c].members = <<"mPan", "mTilt">> /\ m \in {"mPan", "mTilt"} /\ Row[c].access = "pantilt_abs"
    BY <1>1, <1>3, MembersOfControls, SelectorsOfControls DEF Range
  <2>2. Accessor["pantilt_abs"].types = <<"i32", "i32">>
    BY AccessorRows DEF AccessorTables, PanTiltAccess, Access
  <2>3. \A q : DOMAIN Answer("pantilt_abs", q) = 1..2
    BY <2>2 DEF Answer
  <2> DEFINE pair == <<"mPan", "mTilt">>
             place(n) == CHOOSE i \in 1..2 : pair[i] = n
  <2>4. place("mPan") = 1 /\ place("mTilt") = 2
    OBVIOUS
  <2>5. \A q \in Queries : OwnLimit(c, m, q) = Answer("pantilt_abs", q)[place(m)]
    BY <2>1, <2>3 DEF OwnLimit
  <2>6. Learn(vs, pair, "pantilt_abs", f)[m] =
          [q \in Queries |-> IF q \in Read[f] THEN Answer("pantilt_abs", q)[place(m)] ELSE vs[pair[place(m)]][q]]
    BY <1>1, <2>1 DEF Learn
  <2>7. pair[place(m)] = m
    BY <2>1, <2>4
  <2> QED BY <2>1, <2>5, <2>6, <2>7
<1> QED BY <1>2, <1>3

LEMMA LearnsNoOther ==
  ASSUME NEW vs, NEW members, NEW a, NEW f, NEW m \in Members, m \notin Range(members)
  PROVE  Learn(vs, members, a, f)[m] = vs[m]
  BY DEF Learn, Range

\* What is known after update_ctrl_values, called for control c with an accessor that is its own
\* if it is not Mixed.
LEMMA LearnKeepsRight ==
  ASSUME NEW c \in Controls, NEW a, c \notin Mixed => a = Row[c].access, NEW vs, NEW f \in Faults
  PROVE  /\ Right(vs) => Right(Learn(vs, Row[c].members, a, f))
         /\ f = "no" /\ Whole(vs) => Whole(Learn(vs, Row[c].members, a, f))
<1> DEFINE ls == Learn(vs, Row[c].members, a, f)
<1>1. CASE AllKnown(vs, Row[c].members)
  BY <1>1 DEF Learn
<1>2. CASE ~AllKnown(vs, Row[c].members)
  <2>1. ASSUME NEW d \in Plain, NEW m \in Range(Row[d].members)
        PROVE  \/ ls[m] = vs[m]
               \/ ls[m] = [q \in Queries |-> IF q \in Read[f] THEN OwnLimit(d, m, q) ELSE vs[m][q]]
    <3>1. m \in Members /\ d \in Controls
      BY DEF Members, Plain
    <3>2. CASE m \notin Range(Row[c].members)
      BY <3>1, <3>2, LearnsNoOther
    <3>3. CASE m \in Range(Row[c].members)
      <4>1. c = d \/ (Turns(d) /\ Turns(c))
        BY <3>3, MembersDiffer
      <4>2. Row[c].members = Row[d].members /\ Row[c].access = Row[d].access /\ c \notin Mixed
        BY <3>1, <4>1, MembersOfControls, SelectorsOfControls DEF Plain, Mixed
      <4> QED BY <1>2, <4>2, LearnsOwn
    <3> QED BY <3>2, <3>3
  <2>2. Right(vs) => Right(ls)
    <3> SUFFICES ASSUME Right(vs), NEW d \in Plain, NEW m \in Range(Row[d].members), NEW q \in Queries
                 PROVE  ls[m][q] \in {0, OwnLimit(d, m, q)}
      BY DEF Right
    <3>1. vs[m][q] \in {0, OwnLimit(d, m, q)}
      BY DEF Right
    <3>2. \/ ls[m] = vs[m]
          \/ ls[m] = [p \in Queries |-> IF p \in Read[f] THEN OwnLimit(d, m, p) ELSE vs[m][p]]
      BY <2>1
    <3> HIDE DEF ls
    <3> QED BY <3>1, <3>2
  <2>3. f = "no" /\ Whole(vs) => Whole(ls)
    <3> SUFFICES ASSUME f = "no", Whole(vs), NEW d \in Plain, NEW m \in Range(Row[d].members)
                 PROVE  ls[m] \in {Unknown, OwnLimits(d, m)}
      BY DEF Whole
    <3>1. vs[m] \in {Unknown, OwnLimits(d, m)}
      BY DEF Whole
    <3>2. \/ ls[m] = vs[m]
          \/ ls[m] = [p \in Queries |-> IF p \in Read[f] THEN OwnLimit(d, m, p) ELSE vs[m][p]]
      BY <2>1
    <3>3. Read[f] = Queries
      BY DEF Read
    <3> HIDE DEF ls
    <3> QED BY <3>1, <3>2, <3>3 DEF OwnLimits
  <2> QED BY <2>2, <2>3
<1> QED BY <1>1, <1>2

\* And if no transfer fails, all limits of the control are known.
LEMMA LearnIsWhole ==
  ASSUME NEW c \in Plain, NEW m \in Range(Row[c].members), NEW vs, Whole(vs)
  PROVE  Learn(vs, Row[c].members, Row[c].access, "no")[m] = OwnLimits(c, m)
<1>1. CASE AllKnown(vs, Row[c].members)
  <2>1. vs[m].min # 0 \/ vs[m].max # 0
    BY <1>1 DEF AllKnown, Range
  <2>2. vs[m] # Unknown
    BY <2>1 DEF Unknown, Queries
  <2>3. vs[m] = OwnLimits(c, m)
    BY <2>2 DEF Whole
  <2> QED BY <1>1, <2>3 DEF Learn
<1>2. CASE ~AllKnown(vs, Row[c].members)
  <2>1. Read["no"] = Queries /\ "no" \in Faults
    BY DEF Read, Faults
  <2> QED BY <1>2, <2>1, LearnsOwn DEF OwnLimits
<1> QED BY <1>1, <1>2

\* What a state of a call knows, if no transfer has failed and in general.
Good(s) == DOMAIN s.fields = Fields /\ Right(s.values) /\ (failures' = 0 => Whole(s.values))

\* The range of control c in the Java object is that of the camera.
Ranges(s, c) == \A q \in Queries : s.fields[c][q] = OwnLimit(c, Row[c].members[1], q)

State(s) == \E vs, fs, k, p : s = [values |-> vs, fields |-> fs, ctrl |-> k, proc |-> p]

LEMMA UpdatedIsGood ==
  ASSUME NEW s, State(s), NEW c \in Controls, NEW f \in Faults, failures' = 0 => f = "no", Good(s)
  PROVE  /\ State(Updated(s, c, f)) /\ Good(Updated(s, c, f))
         /\ Updated(s, c, f).ctrl = s.ctrl /\ Updated(s, c, f).proc = s.proc
         /\ failures' = 0 => \A d \in DOMAIN Percent :
               Ranges(s, d) \/ (d = c /\ Supported(Row[c].mask, s)) => Ranges(Updated(s, c, f), d)
<1> DEFINE row == Row[c]
           vs  == Learn(s.values, row.members, row.update, f)
           fs  == IF Learnt(s.values, row.members, f) /\ c \in Fields /\ row.how # "pantilt"
                  THEN [s.fields EXCEPT ![c] = vs[row.members[1]]] ELSE s.fields
<1>1. CASE ~Supported(row.updateMask, s)
  <2>1. Updated(s, c, f) = s
    BY <1>1 DEF Updated
  <2>2. c \in DOMAIN Percent => Row[c].updateMask = Row[c].mask
    BY PercentRows
  <2> QED BY <1>1, <2>1, <2>2
<1>2. CASE Supported(row.updateMask, s)
  <2>1. Updated(s, c, f) = [values |-> vs, fields |-> fs, ctrl |-> s.ctrl, proc |-> s.proc]
    BY <1>2 DEF Updated
  <2>2. c \notin Mixed => row.update = row.access
    BY MembersOfControls
  <2>3. Right(vs) /\ (failures' = 0 => Whole(vs))
    BY <2>2, LearnKeepsRight DEF Good
  <2>4. DOMAIN fs = Fields
    BY DEF Good
  <2>5. ASSUME failures' = 0, NEW d \in DOMAIN Percent, Ranges(s, d) \/ (d = c /\ Supported(Row[c].mask, s))
        PROVE  \A q \in Queries : fs[d][q] = OwnLimit(d, Row[d].members[1], q)
    <3>1. CASE d # c
      BY <2>5, <3>1 DEF Ranges, Good
    <3>2. CASE d = c
      <4>1. c \in Fields /\ row.how # "pantilt" /\ row.update = row.access
        BY <2>2, <3>2, PercentRows DEF Plain
      <4>2. Learnt(s.values, row.members, f)
        BY <2>5 DEF Learnt, Read
      <4>3. vs[row.members[1]] = OwnLimits(c, row.members[1])
        <5>1. c \in Plain /\ row.members[1] \in Range(row.members)
          BY <3>2, PercentRows, PlainMember DEF Turns, Range
        <5> QED BY <2>5, <4>1, <5>1, LearnIsWhole DEF Good
      <4> HIDE DEF vs, row
      <4>4. fs[c] = vs[row.members[1]]
        BY <4>1, <4>2 DEF Good
      <4> QED BY <3>2, <4>3, <4>4 DEF row, OwnLimits
    <3> QED BY <3>1, <3>2
  <2> HIDE DEF vs, fs
  <2>6. /\ Updated(s, c, f).values = vs /\ Updated(s, c, f).fields = fs
        /\ Updated(s, c, f).ctrl = s.ctrl /\ Updated(s, c, f).proc = s.proc
    BY <2>1
  <2>7. State(Updated(s, c, f))
    BY <2>1 DEF State
  <2>8. Good(Updated(s, c, f))
    BY <2>3, <2>4, <2>6 DEF Good
  <2>9. failures' = 0 => \A d \in DOMAIN Percent :
          Ranges(s, d) \/ (d = c /\ Supported(Row[c].mask, s)) => Ranges(Updated(s, c, f), d)
    BY <2>5, <2>6 DEF Ranges
  <2> QED BY <2>6, <2>7, <2>8, <2>9
<1> QED BY <1>1, <1>2

LEMMA LookedIsGood ==
  ASSUME NEW s, State(s), NEW c \in Controls, NEW f \in Faults, failures' = 0 => f = "no", Good(s)
  PROVE  State(Looked(s, c, f)) /\ Good(Looked(s, c, f)) /\ Looked(s, c, f).fields = s.fields
<1> DEFINE vs == Learn(s.values, Row[c].members, Row[c].getLimits, f)
<1>1. c \notin Mixed => Row[c].getLimits = Row[c].access
  BY MembersOfControls
<1>2. Right(vs) /\ (failures' = 0 => Whole(vs))
  BY <1>1, LearnKeepsRight DEF Good
<1>3. Looked(s, c, f) = s \/ Looked(s, c, f) = [s EXCEPT !.values = vs]
  BY DEF Looked
<1> HIDE DEF vs
<1>4. PICK v, w, k, p : s = [values |-> v, fields |-> w, ctrl |-> k, proc |-> p]
  BY DEF State
<1>5. CASE Looked(s, c, f) = s
  BY <1>5
<1>6. CASE Looked(s, c, f) = [s EXCEPT !.values = vs]
  <2>1. Looked(s, c, f) = [values |-> vs, fields |-> w, ctrl |-> k, proc |-> p]
    BY <1>4, <1>6
  <2>2. Looked(s, c, f).values = vs /\ Looked(s, c, f).fields = s.fields
    BY <1>4, <2>1
  <2> QED BY <1>2, <2>1, <2>2 DEF Good, State
<1> QED BY <1>3, <1>5, <1>6

\* A setter learns the limits of its control and sends what it has clamped.
LEMMA SetClampedIsGood ==
  ASSUME NEW s, State(s), NEW c \in Controls, NEW v, NEW f \in Faults, failures' = 0 => f = "no", Good(s),
         SetClamped(s, c, v, f)
  PROVE  Right(values') /\ (failures' = 0 => Whole(values')) /\ fields' = s.fields
<1> DEFINE vs == IF Supported(Row[c].mask, s) THEN Learn(s.values, Row[c].members, Row[c].access, f)
                 ELSE s.values
<1>1. Right(vs) /\ (failures' = 0 => Whole(vs))
  BY LearnKeepsRight DEF Good
<1>2. Becomes([s EXCEPT !.values = vs])
  BY DEF SetClamped
<1> HIDE DEF vs
<1>3. PICK x, w, k, p : s = [values |-> x, fields |-> w, ctrl |-> k, proc |-> p]
  BY DEF State
<1>4. [s EXCEPT !.values = vs] = [values |-> vs, fields |-> w, ctrl |-> k, proc |-> p]
  BY <1>3
<1>5. values' = vs /\ fields' = w
  BY <1>2, <1>4 DEF Becomes
<1> QED BY <1>1, <1>3, <1>5

-----------------------------------------------------------------------------
(* Every step keeps what is known right *)

LEMMA NowIsGood == ASSUME KnownInv, camera # NoCamera, failures' = 0 => failures = 0 PROVE State(Now) /\ Good(Now)
<1>1. Now.values = values /\ Now.fields = fields /\ State(Now)
  BY DEF Now, State
<1> QED BY <1>1 DEF KnownInv, Good

LEMMA FaultCounts ==
  ASSUME KnownInv, NEW f, Fault(f)
  PROVE  f \in Faults /\ failures' \in Nat /\ (failures' = 0 => f = "no" /\ failures = 0)
<1>1. failures \in Nat
  BY DEF KnownInv
<1> QED BY <1>1 DEF Fault

\* A call leaves the camera as it is; its limits do not depend on anything else.
LEMMA LimitsStay ==
  ASSUME camera' = camera
  PROVE  /\ \A c, m, q : OwnLimit(c, m, q)' = OwnLimit(c, m, q)
         /\ Right(values') => Right(values)'
         /\ Whole(values') => Whole(values)'
<1>1. \A c, m, q : OwnLimit(c, m, q)' = OwnLimit(c, m, q)
  BY DEF OwnLimit, Answer
<1>2. Right(values') => Right(values)'
  BY <1>1 DEF Right
<1>3. Whole(values') => Whole(values)'
  BY <1>1 DEF Whole, OwnLimits
<1> QED BY <1>1, <1>2, <1>3

LEMMA CallKeepsKnown ==
  ASSUME KnownInv, camera # NoCamera, UNCHANGED <<camera, has, supports>>, NEW f, Fault(f),
         Right(values'), failures' = 0 => Whole(values'), NEW fs, fields' = fs, DOMAIN fs = Fields,
         failures' = 0 => \A d \in DOMAIN Percent : Ranges(Now, d) =>
                            \A q \in Queries : fs[d][q] = OwnLimit(d, Row[d].members[1], q)
  PROVE  KnownInv'
<1>1. failures' \in Nat /\ (failures' = 0 => failures = 0)
  BY FaultCounts
<1>2. JavaKnows'
  <2> SUFFICES ASSUME failures' = 0, supports'.ctrl # {}, supports'.proc # {},
                      NEW d \in DOMAIN Percent \cap has, NEW q \in Queries
               PROVE  fs[d][q] = OwnLimit(d, Row[d].members[1], q)
    BY LimitsStay DEF JavaKnows
  <2>1. JavaKnows
    BY DEF KnownInv
  <2>2. Ranges(Now, d)
    BY <1>1, <2>1 DEF JavaKnows, Ranges, Now
  <2> QED BY <2>2
<1>3. Right(values)' /\ (failures' = 0 => Whole(values)')
  BY LimitsStay
<1> QED BY <1>1, <1>2, <1>3 DEF KnownInv

\* In one step of updateCameraParams the range of c becomes right and none that was becomes wrong.
Reached(s, cs) ==
  /\ State(s) /\ Good(s)
  /\ s.ctrl = Bits("ctrl") /\ s.proc = Bits("proc")
  /\ failures' = 0 => \A d \in cs \cap has : Ranges(s, d)

LEMMA RefreshedOneReaches ==
  ASSUME NEW s, NEW cs \in SUBSET DOMAIN Percent, NEW c \in DOMAIN Percent, NEW f \in Faults,
         failures' = 0 => f = "no", NEW failing, Reached(s, cs)
  PROVE  Reached(RefreshedOne(s, c, failing, f), cs \cup {c})
<1> DEFINE g == IF c = failing THEN f ELSE "no"
<1>1. c \in Controls /\ Row[c].mask.unit \in {"ctrl", "proc"}
  BY PercentRows DEF Plain
<1>2. c \in has => Supported(Row[c].mask, s)
  BY <1>1 DEF Supported, Reached, Bits
<1>3. g \in Faults /\ (failures' = 0 => g = "no")
  BY DEF Faults
<1> HIDE DEF g
<1>4. /\ State(Updated(s, c, g)) /\ Good(Updated(s, c, g))
      /\ Updated(s, c, g).ctrl = s.ctrl /\ Updated(s, c, g).proc = s.proc
      /\ failures' = 0 => \A d \in DOMAIN Percent :
            Ranges(s, d) \/ (d = c /\ Supported(Row[c].mask, s)) => Ranges(Updated(s, c, g), d)
  BY <1>1, <1>3, UpdatedIsGood DEF Reached
<1>5. RefreshedOne(s, c, failing, f) = Updated(s, c, g)
  BY DEF RefreshedOne, g
<1> QED BY <1>2, <1>4, <1>5 DEF Reached

LEMMA RefreshedReaches ==
  ASSUME NEW s, NEW f \in Faults, failures' = 0 => f = "no", NEW failing, Reached(s, {})
  PROVE  Reached(Refreshed(s, failing, f), DOMAIN Percent)
<1> DEFINE up(t, c)  == RefreshedOne(t, c, failing, f)
           light  == up(up(up(s, "Brightness"), "Contrast"), "Sharpness")
           tone   == up(up(up(light, "Gain"), "Gamma"), "Saturation")
           all    == up(up(up(up(tone, "Hue"), "Zoom"), "WhiteBlance"), "Focus")
           Has(t, cs) == cs \subseteq DOMAIN Percent /\ Reached(t, cs)
           three == {} \cup {"Brightness"} \cup {"Contrast"} \cup {"Sharpness"}
           six   == three \cup {"Gain"} \cup {"Gamma"} \cup {"Saturation"}
           ten   == six \cup {"Hue"} \cup {"Zoom"} \cup {"WhiteBlance"} \cup {"Focus"}
<1>1. ASSUME NEW t, NEW cs, NEW c \in DOMAIN Percent, Has(t, cs)
      PROVE  Has(up(t, c), cs \cup {c})
  BY <1>1, RefreshedOneReaches
<1>2. Refreshed(s, failing, f) = all
  BY DEF Refreshed
<1>3. Has(s, {})
  OBVIOUS
<1>4. {"Brightness", "Contrast", "Sharpness", "Gain", "Gamma", "Saturation", "Hue", "Zoom", "WhiteBlance",
       "Focus"} \subseteq DOMAIN Percent
  BY PercentNames
<1>5. ten = DOMAIN Percent
  BY PercentNames
<1> HIDE DEF up, Has
<1>6. Has(light, three)
  BY <1>1, <1>3, <1>4
<1> HIDE DEF light, three
<1>7. Has(tone, six)
  BY <1>1, <1>4, <1>6
<1> HIDE DEF tone, six
<1>8. Has(all, ten)
  BY <1>1, <1>4, <1>7
<1> QED BY <1>2, <1>5, <1>8 DEF Has

LEMMA UpdateCameraParamsKnown ==
  ASSUME KnownInv, NEW failing, NEW f, UpdateCameraParams(failing, f)
  PROVE  KnownInv'
<1> DEFINE s == [values |-> values, fields |-> fields, ctrl |-> Bits("ctrl"), proc |-> Bits("proc")]
           t == IF s.ctrl # {} /\ s.proc # {} THEN Refreshed(s, failing, f) ELSE s
<1>1. /\ f \in Faults /\ failures' \in Nat /\ (failures' = 0 => f = "no" /\ failures = 0)
      /\ camera # NoCamera /\ UNCHANGED <<camera, has>>
  BY FaultCounts DEF UpdateCameraParams
<1>2. s = [values |-> values, fields |-> fields, ctrl |-> Bits("ctrl"), proc |-> Bits("proc")]
  OBVIOUS
<1>3. supports' = [ctrl |-> s.ctrl, proc |-> s.proc] /\ Becomes(t)
  BY DEF UpdateCameraParams
<1> HIDE DEF s
<1>4. Reached(s, {})
  BY <1>1, <1>2 DEF Reached, State, Good, KnownInv
<1>5. Good(t) /\ (failures' = 0 /\ s.ctrl # {} /\ s.proc # {} =>
                     \A d \in DOMAIN Percent \cap has : Ranges(t, d))
  BY <1>1, <1>4, RefreshedReaches DEF Reached
<1>6. values' = t.values /\ fields' = t.fields
  BY <1>3 DEF Becomes
<1> HIDE DEF t
<1>7. Right(values)' /\ (failures' = 0 => Whole(values)')
  BY <1>1, <1>5, <1>6, LimitsStay DEF Good
<1>8. JavaKnows'
  BY <1>1, <1>3, <1>5, <1>6, LimitsStay DEF JavaKnows, Ranges
<1>9. DOMAIN fields' = Fields
  BY <1>5, <1>6 DEF Good
<1> QED BY <1>1, <1>7, <1>8, <1>9 DEF KnownInv

\* A call that reads or learns, and one that sends what it has clamped.
LEMMA StateKept ==
  ASSUME KnownInv, camera # NoCamera, UNCHANGED <<camera, has, supports>>, NEW f, Fault(f),
         NEW s, Good(s), values' = s.values, fields' = s.fields,
         failures' = 0 => \A d \in DOMAIN Percent : Ranges(Now, d) => Ranges(s, d)
  PROVE  KnownInv'
  BY CallKeepsKnown DEF Good, Ranges

LEMMA UpdatedKept ==
  ASSUME KnownInv, camera # NoCamera, UNCHANGED <<camera, has, supports>>, NEW f, Fault(f),
         NEW s, State(s), Good(s), NEW c \in Controls, Becomes(Updated(s, c, f)),
         failures' = 0 => \A d \in DOMAIN Percent : Ranges(Now, d) => Ranges(s, d)
  PROVE  KnownInv'
<1>1. f \in Faults /\ (failures' = 0 => f = "no")
  BY FaultCounts
<1>2. /\ Good(Updated(s, c, f))
      /\ failures' = 0 => \A d \in DOMAIN Percent : Ranges(s, d) => Ranges(Updated(s, c, f), d)
  BY <1>1, UpdatedIsGood
<1> QED BY <1>2, StateKept DEF Becomes

LEMMA ClampedKept ==
  ASSUME KnownInv, camera # NoCamera, UNCHANGED <<camera, has, supports>>, NEW f, Fault(f),
         NEW s, State(s), Good(s), NEW c \in Controls, NEW v, SetClamped(s, c, v, f),
         failures' = 0 => \A d \in DOMAIN Percent : Ranges(Now, d) => Ranges(s, d)
  PROVE  KnownInv'
<1>1. f \in Faults /\ (failures' = 0 => f = "no")
  BY FaultCounts
<1>2. Right(values') /\ (failures' = 0 => Whole(values')) /\ fields' = s.fields
  BY <1>1, SetClampedIsGood
<1> QED BY <1>2, CallKeepsKnown DEF Good, Ranges

\* A call finds the camera open, and its control is one of Controls.
LEMMA CallStarts ==
  ASSUME ControlsInv, KnownInv, NEW c, NEW f, MayCall(c, f), Unchanged
  PROVE  /\ c \in Controls /\ f \in Faults /\ Fault(f) /\ camera # NoCamera
         /\ UNCHANGED <<camera, has, supports>>
         /\ State(Now) /\ Good(Now) /\ Now.values = values /\ Now.fields = fields
         /\ failures' = 0 => f = "no"
<1>1. c \in Controls /\ Fault(f) /\ camera # NoCamera /\ UNCHANGED <<camera, has, supports>>
  BY DEF ControlsInv, MayCall, Unchanged
<1>2. f \in Faults /\ (failures' = 0 => f = "no" /\ failures = 0)
  BY <1>1, FaultCounts
<1>3. Now.values = values /\ Now.fields = fields
  BY DEF Now
<1> QED BY <1>1, <1>2, <1>3, NowIsGood

LEMMA JavaKnown ==
  ASSUME ControlsInv, KnownInv, NEW c, NEW f,
         Reset(c, f) \/ GetPercent(c, f) \/ ConvertPercent(c, f) \/ \E p \in Percents : SetPercent(c, p, f)
  PROVE  KnownInv'
<1>1. MayCall(c, f) /\ Unchanged /\ c \in DOMAIN Percent
  BY DEF Reset, GetPercent, ConvertPercent, SetPercent
<1> USE CallStarts, <1>1
<1>2. CASE Reset(c, f)
  BY <1>2, ClampedKept DEF Reset
<1>3. CASE GetPercent(c, f)
  <2> DEFINE s == Looked(Now, c, f)
             t == Percent[c].through
  <2>1. State(s) /\ Good(s) /\ s.fields = fields
    BY LookedIsGood
  <2>2. t \in Controls
    BY PercentRows DEF Plain
  <2>3. \A d \in DOMAIN Percent : Ranges(Now, d) => Ranges(s, d)
    BY <2>1 DEF Ranges
  <2>4. Becomes(s) \/ Becomes(Updated(s, t, f))
    BY <1>3 DEF GetPercent
  <2> HIDE DEF s, t
  <2>5. CASE Becomes(s)
    BY <2>1, <2>3, <2>5, StateKept DEF Becomes
  <2>6. CASE Becomes(Updated(s, t, f))
    BY <2>1, <2>2, <2>3, <2>6, UpdatedKept
  <2> QED BY <2>4, <2>5, <2>6
<1>4. CASE ConvertPercent(c, f)
  BY <1>4, UpdatedKept DEF ConvertPercent
<1>5. ASSUME NEW p \in Percents, SetPercent(c, p, f)
      PROVE  KnownInv'
  <2> DEFINE s == IF Percent[c].refreshSet THEN Updated(Now, c, f) ELSE Now
  <2>1. State(s) /\ Good(s) /\ (failures' = 0 => \A d \in DOMAIN Percent : Ranges(Now, d) => Ranges(s, d))
    BY UpdatedIsGood
  <2>2. Becomes(s) \/ \E v : SetClamped(s, c, v, f)
    BY <1>5 DEF SetPercent
  <2> HIDE DEF s
  <2>3. CASE Becomes(s)
    BY <2>1, <2>3, StateKept DEF Becomes
  <2>4. ASSUME NEW v, SetClamped(s, c, v, f)
        PROVE  KnownInv'
    BY <2>1, <2>4, ClampedKept
  <2> QED BY <2>2, <2>3, <2>4
<1> QED BY <1>2, <1>3, <1>4, <1>5

LEMMA NativeKnown ==
  ASSUME ControlsInv, KnownInv, NEW c, NEW f, NEW v,
         \/ NativeUpdate(c, f) \/ NativeGet(c, f) \/ NativeSetClamped(c, v, f)
         \/ NativeSetDirect(c, v, f) \/ SetPowerline(c, v, f)
  PROVE  KnownInv'
<1>1. MayCall(c, f) /\ Unchanged
  BY DEF NativeUpdate, NativeGet, NativeSetClamped, NativeSetDirect, SetPowerline, MayCallNative
<1> USE CallStarts, <1>1
<1>2. CASE NativeUpdate(c, f)
  BY <1>2, UpdatedKept DEF NativeUpdate
<1>3. CASE NativeGet(c, f)
  <2> DEFINE s == Looked(Now, c, f)
  <2>1. State(s) /\ Good(s) /\ s.fields = fields
    BY LookedIsGood
  <2>2. Becomes(s)
    BY <1>3 DEF NativeGet
  <2> HIDE DEF s
  <2>3. \A d \in DOMAIN Percent : Ranges(Now, d) => Ranges(s, d)
    BY <2>1 DEF Ranges
  <2> QED BY <2>1, <2>2, <2>3, StateKept DEF Becomes
<1>4. CASE NativeSetClamped(c, v, f)
  BY <1>4, ClampedKept DEF NativeSetClamped
<1>5. CASE NativeSetDirect(c, v, f) \/ SetPowerline(c, v, f)
  <2>1. values' = Now.values /\ fields' = Now.fields
    BY <1>5 DEF NativeSetDirect, SetPowerline
  <2> QED BY <2>1, StateKept
<1> QED BY <1>2, <1>3, <1>4, <1>5

LEMMA TurnKnown ==
  ASSUME ControlsInv, KnownInv, NEW c, NEW f, NEW v, SetPanTilt(c, v, f)
  PROVE  KnownInv'
<1>1. MayCall(c, f) /\ Unchanged /\ UNCHANGED fields
  BY DEF SetPanTilt, MayCallNative
<1> DEFINE vs == Learn(values, Row[c].members, Row[c].access, f)
<1>2. values' = values \/ values' = vs
  BY DEF SetPanTilt
<1> USE CallStarts, <1>1
<1>3. Right(vs) /\ (failures' = 0 => Whole(vs))
  BY LearnKeepsRight DEF Good
<1> HIDE DEF vs
<1>4. Right(values') /\ (failures' = 0 => Whole(values'))
  BY <1>2, <1>3 DEF Good
<1> QED BY <1>4, CallKeepsKnown DEF Good, Ranges

LEMMA NextKnown ==
  ASSUME ControlsAssumption, ControlsInv, KnownInv, [Next]_vars
  PROVE  KnownInv'
<1>1. CASE Connect
  <2>1. /\ has' \subseteq Controls /\ UNCHANGED <<failures, fields, supports>>
        /\ supports = [ctrl |-> {}, proc |-> {}] /\ values' = [m \in Members |-> Unknown]
    BY <1>1 DEF Connect, ClearCameraParams, java, KnownInv, ControlsInv
  <2>2. \A c \in Plain : Range(Row[c].members) \subseteq Members
    BY DEF Plain, Members
  <2>3. Right(values)' /\ Whole(values)'
    BY <2>1, <2>2 DEF Right, Whole, Unknown
  <2>4. JavaKnows'
    BY <2>1 DEF JavaKnows
  <2> QED BY <2>1, <2>3, <2>4 DEF KnownInv
<1>2. CASE Close
  BY <1>2 DEF Close, NoCamera, KnownInv
<1>3. ASSUME NEW f \in Faults, NEW c \in inUse,
             Reset(c, f) \/ GetPercent(c, f) \/ ConvertPercent(c, f) \/ \E p \in Percents : SetPercent(c, p, f)
      PROVE  KnownInv'
  BY <1>3, JavaKnown
<1>4. ASSUME NEW f \in Faults, NEW c \in inUse, UpdateCameraParams(c, f)
      PROVE  KnownInv'
  BY <1>4, UpdateCameraParamsKnown
<1>5. ASSUME NEW f \in Faults, NEW c \in inUse, NativeUpdate(c, f) \/ NativeGet(c, f)
      PROVE  KnownInv'
  BY <1>5, NativeKnown
<1>6. ASSUME NEW f \in Faults, NEW c \in inUse, NEW v \in Requests,
             NativeSetClamped(c, v, f) \/ NativeSetDirect(c, v, f) \/ SetPowerline(c, v, f)
      PROVE  KnownInv'
  BY <1>6, NativeKnown
<1>7. ASSUME NEW f \in Faults, NEW c \in inUse, NEW v \in Requests, SetPanTilt(c, v, f)
      PROVE  KnownInv'
  BY <1>7, TurnKnown
<1>8. CASE UNCHANGED vars
  <2>1. UNCHANGED <<camera, has, failures, fields, supports, values>>
    BY <1>8 DEF vars, native, java
  <2> QED BY <2>1, LimitsStay DEF KnownInv, JavaKnows
<1> QED BY <1>1, <1>2, <1>3, <1>4, <1>5, <1>6, <1>7, <1>8 DEF Next

\* What both layers keep of the controls' limits, and the angles, is of the camera that is open and
\* of the right control, whatever transfers failed and whatever camera was open before.
THEOREM LimitsAreTheCameras == ControlsAssumption /\ Spec => []KnownIsTheCameras
<1> SUFFICES ASSUME ControlsAssumption PROVE Spec => []KnownIsTheCameras
  OBVIOUS
<1>1. Init => KnownInv
  BY DEF Init, KnownInv, NoCamera
<1>2. ControlsInv /\ KnownInv /\ [Next]_vars => KnownInv'
  BY NextKnown
<1>3. ControlsInv /\ KnownInv => KnownIsTheCameras
  <2> SUFFICES ASSUME ControlsInv, KnownInv, camera # NoCamera PROVE NativeKnows /\ JavaKnows
    BY DEF KnownIsTheCameras
  <2>1. NativeKnows
    BY DEF NativeKnows, ControlsInv, AnglesInv, KnownInv, Right, Plain
  <2> QED BY <2>1 DEF KnownInv
<1> QED BY <1>1, <1>2, <1>3, InvariantHolds, PTL DEF Spec

-----------------------------------------------------------------------------
(* The types of the fields *)

FieldTypes == {<<"u8">>, <<"u16">>, <<"i16">>, <<"i32">>, <<"u32">>, <<"i8", "u8">>, <<"i8", "u8", "u8">>,
               <<"i32", "i32">>}

\* Of the accessors, those of the iris send to another selector.
LEMMA AccessorShapes ==
  \A a \in DOMAIN Accessor :
    /\ Accessor[a].types \in FieldTypes
    /\ Len(Accessor[a].types) = 2 <=> a \in {"focus_rel", "pantilt_abs"}
    /\ Len(Accessor[a].types) = 3 <=> a = "zoom_rel"
    /\ Accessor[a].selector =
         IF a = "iris_abs" THEN "focus_abs" ELSE IF a = "iris_rel" THEN "focus_rel" ELSE a
<1> DEFINE Shaped(a) ==
      /\ Accessor[a].types \in FieldTypes
      /\ Len(Accessor[a].types) = 2 <=> a \in {"focus_rel", "pantilt_abs"}
      /\ Len(Accessor[a].types) = 3 <=> a = "zoom_rel"
      /\ Accessor[a].selector =
           IF a = "iris_abs" THEN "focus_abs" ELSE IF a = "iris_rel" THEN "focus_rel" ELSE a
<1> USE AccessorRows DEF AccessorTables, Access, FieldTypes
<1>1. \A a \in DOMAIN ExposureAccess : Shaped(a)
  BY DEF ExposureAccess
<1>2. \A a \in DOMAIN FocusAccess : Shaped(a)
  BY DEF FocusAccess
<1>3. \A a \in DOMAIN IrisZoomAccess : Shaped(a)
  BY DEF IrisZoomAccess
<1>4. \A a \in DOMAIN PanTiltAccess : Shaped(a)
  BY DEF PanTiltAccess
<1>5. \A a \in DOMAIN RollAccess : Shaped(a)
  BY DEF RollAccess
<1>6. \A a \in DOMAIN PrivacyAccess : Shaped(a)
  BY DEF PrivacyAccess
<1>7. \A a \in DOMAIN LightAccess : Shaped(a)
  BY DEF LightAccess
<1>8. \A a \in DOMAIN GainHueAccess : Shaped(a)
  BY DEF GainHueAccess
<1>9. \A a \in DOMAIN ToneAccess : Shaped(a)
  BY DEF ToneAccess
<1>10. \A a \in DOMAIN WhiteAccess : Shaped(a)
  BY DEF WhiteAccess
<1>11. \A a \in DOMAIN AnalogAccess : Shaped(a)
  BY DEF AnalogAccess
<1> HIDE DEF Shaped
<1>12. \A a \in DOMAIN Accessor : Shaped(a)
  BY <1>1, <1>2, <1>3, <1>4, <1>5, <1>6, <1>7, <1>8, <1>9, <1>10, <1>11
<1> QED BY <1>12 DEF Shaped

\* An accessor sends as many fields as its selector has, but that of iris_rel.
LEMMA AccessorLengths ==
  \A a \in DOMAIN Accessor :
    /\ Accessor[a].selector \in Selectors
    /\ DOMAIN Accessor[a].types \subseteq DOMAIN Own[Accessor[a].selector]
    /\ a \notin {"iris_abs", "iris_rel", "exposure_rel"} => Own[Accessor[a].selector] = Accessor[a].types
<1> SUFFICES ASSUME NEW a \in DOMAIN Accessor
             PROVE  /\ Accessor[a].selector \in Selectors
                    /\ DOMAIN Accessor[a].types \subseteq DOMAIN Own[Accessor[a].selector]
                    /\ a \notin {"iris_abs", "iris_rel", "exposure_rel"} =>
                         Own[Accessor[a].selector] = Accessor[a].types
  OBVIOUS
<1>1. Accessor[a].selector \in Selectors
  BY DEF Selectors
<1>2. /\ {"focus_abs", "focus_rel"} \subseteq Selectors
      /\ Own["focus_abs"] = <<"i16">> /\ Own["focus_rel"] = <<"i8", "u8">>
  <2>1. /\ {"focus_abs", "focus_rel"} \subseteq DOMAIN Accessor
        /\ Accessor["focus_abs"] = [selector |-> "focus_abs", types |-> <<"i16">>]
        /\ Accessor["focus_rel"] = [selector |-> "focus_rel", types |-> <<"i8", "u8">>]
    BY AccessorRows DEF AccessorTables, FocusAccess, Access
  <2>2. {"focus_abs", "focus_rel"} \subseteq Selectors
    BY <2>1 DEF Selectors
  <2> QED BY <2>1, <2>2 DEF Own
<1>3. /\ Accessor["iris_abs"].types = <<"u16">> /\ Accessor["iris_rel"].types = <<"u8">>
      /\ Accessor["exposure_rel"].types = <<"u8">>
  BY AccessorRows DEF AccessorTables, IrisZoomAccess, ExposureAccess, Access
<1>4. CASE a \in {"iris_abs", "iris_rel"}
  BY <1>1, <1>2, <1>3, <1>4, AccessorShapes
<1>5. CASE a \notin {"iris_abs", "iris_rel"}
  <2>1. Accessor[a].selector = a
    BY <1>5, AccessorShapes
  <2> QED BY <1>1, <1>3, <2>1 DEF Own
<1> QED BY <1>4, <1>5

LEMMA MixedAccess == \A c \in Mixed : {Row[c].update, Row[c].getLimits} \subseteq DOMAIN Accessor \ {"pantilt_abs"}
<1>1. {"exposure_abs", "exposure_rel", "focus_auto", "contrast_auto", "focus_abs", "focus_rel", "iris_abs",
       "iris_rel", "privacy"} \subseteq DOMAIN Accessor
  BY AccessorRows DEF AccessorTables, ExposureAccess, FocusAccess, LightAccess, IrisZoomAccess, PrivacyAccess
<1>2. /\ FocusRows.FocusRel.update = "focus_rel" /\ FocusRows.FocusRel.getLimits = "focus_abs"
      /\ PrivacyRows.Privacy.update = "focus_abs" /\ PrivacyRows.Privacy.getLimits = "privacy"
  BY DEF FocusRows, PrivacyRows, Clamped
<1>3. \A c \in {"Exposure", "ExposureRel"} : Row[c] = ExposureRows[c]
  BY ControlRows DEF RowTables, ExposureRows
<1>4. \A c \in {"AutoFocus", "FocusRel"} : Row[c] = FocusRows[c]
  BY ControlRows DEF RowTables, FocusRows
<1>5. \A c \in {"Iris", "IrisRel"} : Row[c] = IrisRows[c]
  BY ControlRows DEF RowTables, IrisRows
<1>6. Row["Privacy"] = PrivacyRows["Privacy"] /\ Row["AutoContrast"] = LightRows["AutoContrast"]
  BY ControlRows DEF RowTables, PrivacyRows, LightRows
<1> QED BY <1>1, <1>2, <1>3, <1>4, <1>5, <1>6, MemberShapes DEF Mixed, ExposureRows, FocusRows, IrisRows, LightRows

\* The accessors a control uses.
LEMMA AccessorsOfControls ==
  ASSUME NEW c \in Controls
  PROVE  /\ {Row[c].access, Row[c].update, Row[c].getLimits} \subseteq DOMAIN Accessor
         /\ Turns(c) => {Row[c].access, Row[c].update, Row[c].getLimits} = {"pantilt_abs"}
<1>1. Row[c].access \in DOMAIN Accessor /\ (Turns(c) => Row[c].access = "pantilt_abs" /\ c \notin Mixed)
  BY SelectorsOfControls DEF Mixed
<1> QED BY <1>1, MembersOfControls, MixedAccess

LEMMA MaskBits ==
  \A c \in Controls : /\ Row[c].mask.unit = "ctrl" => Row[c].mask.bit \in Range(CTRL)
                      /\ Row[c].mask.unit = "proc" => Row[c].mask.bit \in Range(PU)
<1> DEFINE Kept(mask) == \/ mask.unit = "ctrl" /\ mask.bit \in Range(CTRL)
                         \/ mask.unit = "proc" /\ mask.bit \in Range(PU)
<1>1. \A x \in DOMAIN CTRL : Kept(Ctrl(CTRL[x]))
  BY DEF Ctrl, Range
<1>2. \A x \in DOMAIN PU : Kept(Proc(PU[x]))
  BY DEF Proc, Range
<1>3. \A member, updateMask, mask, access : /\ Clamped(member, mask, access).mask = mask
                                            /\ Direct(member, updateMask, mask, access).mask = mask
                                            /\ Switch(member, updateMask, mask, access).mask = mask
  BY DEF Clamped, Direct, Switch
<1>4. /\ DOMAIN CTRL = {"SCANNING", "AE", "AE_PRIORITY", "AE_ABS", "AE_REL", "FOCUS_ABS", "FOCUS_REL", "IRIS_ABS",
                        "IRIS_REL", "ZOOM_ABS", "ZOOM_REL", "PANTILT_ABS", "ROLL_ABS", "FOCUS_AUTO", "PRIVACY"}
      /\ DOMAIN PU = {"BRIGHTNESS", "CONTRAST", "HUE", "SATURATION", "SHARPNESS", "GAMMA", "WB_TEMP", "WB_COMPO",
                      "BACKLIGHT", "GAIN", "POWER_LF", "HUE_AUTO", "WB_TEMP_AUTO", "WB_COMPO_AUTO", "DIGITAL_MULT",
                      "DIGITAL_LIMIT", "AVIDEO_STD", "AVIDEO_LOCK", "CONTRAST_AUTO"}
  BY DEF CTRL, PU
<1>5. /\ FocusRows.FocusRel.mask = Ctrl(CTRL["FOCUS_REL"]) /\ PanTiltRow.mask = Ctrl(CTRL["PANTILT_ABS"])
      /\ PrivacyRows.Privacy.mask = Ctrl(CTRL["PRIVACY"])
      /\ PowerZoomRows.PowerlineFrequency.mask = Proc(PU["POWER_LF"])
  BY DEF FocusRows, PanTiltRow, PrivacyRows, PowerZoomRows, Clamped, Direct
<1> HIDE DEF Kept
<1> USE <1>1, <1>2, <1>3, <1>4, <1>5, ControlRows DEF RowTables
<1>6. \A c \in DOMAIN ExposureModeRows : Kept(Row[c].mask)
  BY DEF ExposureModeRows
<1>7. \A c \in DOMAIN ExposureRows : Kept(Row[c].mask)
  BY DEF ExposureRows
<1>8. \A c \in DOMAIN FocusRows : Kept(Row[c].mask)
  BY DEF FocusRows
<1>9. \A c \in DOMAIN IrisRows : Kept(Row[c].mask)
  BY DEF IrisRows
<1>10. \A c \in DOMAIN PanTiltRows : Kept(Row[c].mask)
  BY DEF PanTiltRows
<1>11. \A c \in DOMAIN RollRows : Kept(Row[c].mask)
  BY DEF RollRows
<1>12. \A c \in DOMAIN PrivacyRows : Kept(Row[c].mask)
  BY DEF PrivacyRows
<1>13. \A c \in DOMAIN LightRows : Kept(Row[c].mask)
  BY DEF LightRows
<1>14. \A c \in DOMAIN GainRows : Kept(Row[c].mask)
  BY DEF GainRows
<1>15. \A c \in DOMAIN WhiteRows : Kept(Row[c].mask)
  BY DEF WhiteRows
<1>16. \A c \in DOMAIN ColourRows : Kept(Row[c].mask)
  BY DEF ColourRows
<1>17. \A c \in DOMAIN PowerZoomRows : Kept(Row[c].mask)
  BY DEF PowerZoomRows
<1>18. \A c \in DOMAIN DigitalRows : Kept(Row[c].mask)
  BY DEF DigitalRows
<1>19. \A c \in Controls : Kept(Row[c].mask)
  BY <1>6, <1>7, <1>8, <1>9, <1>10, <1>11, <1>12, <1>13, <1>14, <1>15, <1>16, <1>17, <1>18
<1> QED BY <1>19 DEF Kept

-----------------------------------------------------------------------------
(* The fields' arithmetic *)

LEMMA AsIsInt == ASSUME NEW v \in Int, NEW t PROVE As(v, t) \in Int
<1>1. CASE t \in DOMAIN Size
  <2>1. Low[t] \in Int /\ Size[t] \in Nat \ {0}
    BY <1>1, SMT DEF Low, Size
  <2>2. (v - Low[t]) % Size[t] \in Int
    BY <2>1, SMT
  <2> QED BY <1>1, <2>1, <2>2, SMT DEF As
<1>2. CASE t \notin DOMAIN Size
  BY <1>2, SMT DEF As
<1> QED BY <1>1, <1>2

LEMMA Remainder ==
  ASSUME NEW v \in Int, NEW low \in Int, NEW size \in Nat \ {0}
  PROVE  ((v - low) % size) + low = v <=> low <= v /\ v < low + size
<1>1. low <= v /\ v < low + size => ((v - low) % size) + low = v
  BY SMT
<1>2. (v - low) % size \in 0..(size - 1)
  BY SMT
<1> QED BY <1>1, <1>2, SMT

\* Between two values of a type all are.
LEMMA AsBetween ==
  ASSUME NEW t \in {"u8", "i8", "u16", "i16", "u32", "i32"}, NEW a \in Int, NEW b \in Int, NEW w \in Int,
         As(a, t) = a, As(b, t) = b, a <= w, w <= b
  PROVE  As(w, t) = w
<1>1. CASE t \in DOMAIN Size
  <2>1. Low[t] \in Int /\ Size[t] \in Nat \ {0}
    BY <1>1, SMT DEF Low, Size
  <2>2. ASSUME NEW v \in Int
        PROVE  As(v, t) = v <=> Low[t] <= v /\ v < Low[t] + Size[t]
    <3>1. As(v, t) = ((v - Low[t]) % Size[t]) + Low[t]
      BY <1>1, SMT DEF As
    <3>2. ((v - Low[t]) % Size[t]) + Low[t] = v <=> Low[t] <= v /\ v < Low[t] + Size[t]
      BY <2>1, Remainder, Zenon
    <3> QED BY <3>1, <3>2
  <2> QED BY <2>1, <2>2, SMT
<1>2. CASE t \notin DOMAIN Size
  BY <1>2, SMT DEF As
<1> QED BY <1>1, <1>2

LEMMA Bytes ==
  ASSUME NEW a \in Int, NEW b \in Int, NEW c \in Int, NEW p \in Int, p = a * 65536 + b * 256 + c,
         As(a, "i8") = a, As(b, "u8") = b, As(c, "u8") = c
  PROVE  As(p \div 65536, "i8") = a /\ As(p \div 256, "u8") = b /\ As(p \div 1, "u8") = c
<1>1. \A v \in Int : As(v, "u8") = v % 256
  BY SMT DEF As, Size, Low
<1>2. b = b % 256 /\ c = c % 256
  BY <1>1, SMT
<1>3. 0 <= b /\ b < 256 /\ 0 <= c /\ c < 256
  BY <1>2, SMT
<1>4. p \div 65536 = a
  BY <1>3, SMT
<1>5. p \div 256 = a * 256 + b /\ (a * 256 + b) % 256 = b
  BY <1>3, SMT
<1>6. p \div 1 = p /\ p = (a * 256 + b) * 256 + c /\ ((a * 256 + b) * 256 + c) % 256 = c
  BY <1>3, SMT
<1>7. As(p \div 256, "u8") = b
  BY <1>1, <1>5, SMT
<1>8. As(p \div 1, "u8") = c
  BY <1>1, <1>6, SMT
<1> QED BY <1>4, <1>7, <1>8, SMT

\* Three fields are kept in an int and found there again.
LEMMA ThreeUnpacked ==
  ASSUME NEW a \in Int, NEW b \in Int, NEW c \in Int, As(a, "i8") = a, As(b, "u8") = b, As(c, "u8") = c
  PROVE  /\ Pack(<<a, b, c>>) \in Int
         /\ Unpack(Pack(<<a, b, c>>), <<"i8", "u8", "u8">>) = <<a, b, c>>
<1>1. PICK p \in Int : p = a * 65536 + b * 256 + c
  BY SMT
<1>2. Pack(<<a, b, c>>) = p
  BY <1>1, SMT DEF Pack
<1>3. As(p \div 65536, "i8") = a /\ As(p \div 256, "u8") = b /\ As(p \div 1, "u8") = c
  BY <1>1, Bytes, SMT
<1>4. Shifts(Len(<<"i8", "u8", "u8">>)) = <<65536, 256, 1>>
  BY SMT DEF Shifts
<1>5. Unpack(p, <<"i8", "u8", "u8">>) = [i \in 1..3 |-> <<a, b, c>>[i]]
  BY <1>3, <1>4, SMT DEF Unpack
<1> QED BY <1>2, <1>5, SMT

-----------------------------------------------------------------------------
(* Types *)

Known == [Members -> [Queries -> Int]]
Typed(s) == s.values \in Known /\ s.fields \in [Fields -> [Queries -> Int]]

\* The limits of a camera are as CamerasAssumption says.
LEMMA LimitShapes ==
  ASSUME CamerasAssumption, camera \in Cameras, NEW s \in Selectors
  PROVE  LET lim == Limits[camera][s]
         IN  /\ \A q \in Queries :
                  /\ lim[q] \in Seq(Int) /\ Len(lim[q]) = Len(Own[s])
                  /\ \A i \in DOMAIN lim[q] : As(lim[q][i], Own[s][i]) = lim[q][i]
             /\ \A i \in DOMAIN Own[s] : lim["min"][i] <= lim["def"][i] /\ lim["def"][i] <= lim["max"][i]
             /\ s = "powerline" => lim["min"] = <<0>> /\ lim["max"] \in {<<2>>, <<3>>}
  BY DEF CamerasAssumption

LEMMA OwnShapes == \A s \in Selectors : Own[s] \in FieldTypes \cup {<<"i8">>}
<1>1. Selectors \subseteq DOMAIN Accessor
  <2>1. {"focus_abs", "focus_rel"} \subseteq DOMAIN Accessor
    BY AccessorRows DEF AccessorTables, FocusAccess
  <2> QED BY <2>1, AccessorShapes DEF Selectors
<1> QED BY <1>1, AccessorShapes DEF Own

LEMMA AnswerIsInts ==
  ASSUME CamerasAssumption, camera \in Cameras, NEW a \in DOMAIN Accessor, NEW q \in Queries
  PROVE  Answer(a, q) \in Seq(Int) /\ Len(Answer(a, q)) = Len(Accessor[a].types)
<1> DEFINE types == Accessor[a].types
           x == Limits[camera][Accessor[a].selector][q]
<1>1. types \in FieldTypes
  BY AccessorShapes
<1>2. x \in Seq(Int) /\ DOMAIN types \subseteq DOMAIN x
  <2>1. x \in Seq(Int) /\ Len(x) = Len(Own[Accessor[a].selector])
    BY AccessorLengths, LimitShapes
  <2>2. DOMAIN Own[Accessor[a].selector] = 1..Len(Own[Accessor[a].selector])
    BY AccessorLengths, OwnShapes DEF FieldTypes
  <2>3. DOMAIN types \subseteq DOMAIN Own[Accessor[a].selector]
    BY AccessorLengths
  <2> HIDE DEF types, x
  <2> QED BY <2>1, <2>2, <2>3
<1>3. Answer(a, q) = [i \in DOMAIN types |-> As(x[i], types[i])]
  BY DEF Answer
<1> HIDE DEF types, x
<1>4. \A i \in DOMAIN types : x[i] \in Int
  BY <1>2
<1>5. \A i \in DOMAIN types : As(x[i], types[i]) \in Int
  BY <1>4, AsIsInt
<1>6. DOMAIN types = 1..Len(types) /\ Len(types) \in Nat
  BY <1>1 DEF FieldTypes
<1> QED BY <1>3, <1>5, <1>6 DEF types

\* Most accessors read the limits as they are.
LEMMA AnswerIsLimit ==
  ASSUME CamerasAssumption, camera \in Cameras, NEW q \in Queries,
         NEW a \in DOMAIN Accessor \ {"iris_abs", "iris_rel", "exposure_rel"}
  PROVE  Answer(a, q) = Limits[camera][a][q]
<1>1. a \in Selectors /\ Accessor[a].selector = a /\ Own[a] = Accessor[a].types
  BY AccessorShapes, AccessorLengths
<1> DEFINE x == Limits[camera][a][q]
<1>2. x \in Seq(Int) /\ Len(x) = Len(Own[a]) /\ \A i \in DOMAIN x : As(x[i], Own[a][i]) = x[i]
  BY <1>1, LimitShapes
<1>3. DOMAIN Own[a] = 1..Len(Own[a])
  BY <1>1, AccessorShapes DEF FieldTypes
<1>4. Answer(a, q) = [i \in DOMAIN Own[a] |-> As(x[i], Own[a][i])]
  BY <1>1 DEF Answer
<1> HIDE DEF x
<1>5. Answer(a, q) = [i \in 1..Len(x) |-> x[i]]
  BY <1>2, <1>3, <1>4
<1>6. x = [i \in 1..Len(x) |-> x[i]]
  BY <1>2
<1> QED BY <1>5, <1>6 DEF x

LEMMA PackIsInt == ASSUME NEW x \in Seq(Int), Len(x) \in 1..3 PROVE Pack(x) \in Int
<1>1. CASE Len(x) = 1
  BY <1>1, SMT DEF Pack
<1>2. CASE Len(x) = 2
  <2>1. x[1] \in Int /\ x[2] \in Int
    <3>1. x \in [1..2 -> Int]
      BY <1>2, SMT
    <3> QED BY <3>1, SMT
  <2> QED BY <1>2, <2>1, SMT DEF Pack
<1>3. CASE Len(x) = 3
  <2>1. x[1] \in Int /\ x[2] \in Int /\ x[3] \in Int
    BY <1>3, SMT
  <2>2. x[1] * 65536 + x[2] * 256 + x[3] \in Int
    BY <2>1, SMT
  <2> QED BY <1>3, <2>2, SMT DEF Pack
<1> QED BY <1>1, <1>2, <1>3, SMT

LEMMA UnpackIsInts ==
  ASSUME NEW v \in Int, NEW types \in FieldTypes
  PROVE  Unpack(v, types) \in Seq(Int) /\ Len(Unpack(v, types)) = Len(types)
<1>1. DOMAIN types = 1..Len(types) /\ Len(types) \in {1, 2, 3}
  BY SMT DEF FieldTypes
<1>2. \A i \in DOMAIN types : Shifts(Len(types))[i] \in Nat \ {0}
  BY <1>1, SMT DEF Shifts
<1>3. \A i \in DOMAIN types : v \div Shifts(Len(types))[i] \in Int
  BY <1>2, SMT
<1>4. \A i \in DOMAIN types : As(v \div Shifts(Len(types))[i], types[i]) \in Int
  BY <1>3, AsIsInt, Zenon
<1> QED BY <1>1, <1>4, SMT DEF Unpack

LEMMA ClampIsInts ==
  ASSUME NEW v \in Int, NEW types \in FieldTypes, NEW lim \in [Queries -> Int]
  PROVE  Clamp(v, types, lim) \in Seq(Int) /\ Len(Clamp(v, types, lim)) = Len(types)
<1> DEFINE bounds(b) == IF Len(types) = 1 THEN <<b>> ELSE Unpack(b, types)
           x == Unpack(v, types)
           between(w, low, high) == IF w < low THEN low ELSE IF w > high THEN high ELSE w
<1>1. lim.min \in Int /\ lim.max \in Int
  BY DEF Queries
<1>2. DOMAIN types = 1..Len(types) /\ Len(types) \in Nat
  BY SMT DEF FieldTypes
<1>3. \A b \in Int : \A i \in DOMAIN types : bounds(b)[i] \in Int
  BY <1>2, UnpackIsInts
<1>4. \A i \in DOMAIN types : x[i] \in Int
  BY <1>2, UnpackIsInts
<1>5. Clamp(v, types, lim) =
        [i \in DOMAIN types |-> As(between(x[i], bounds(lim.min)[i], bounds(lim.max)[i]), types[i])]
  BY DEF Clamp
<1>6. \A i \in DOMAIN types : between(x[i], bounds(lim.min)[i], bounds(lim.max)[i]) \in Int
  BY <1>1, <1>3, <1>4
<1> HIDE DEF bounds, x, between
<1>7. \A i \in DOMAIN types : As(between(x[i], bounds(lim.min)[i], bounds(lim.max)[i]), types[i]) \in Int
  BY <1>6, AsIsInt
<1> QED BY <1>2, <1>5, <1>7

\* update_ctrl_values keeps ints.
LEMMA LearnIsTyped ==
  ASSUME CamerasAssumption, camera \in Cameras, NEW c \in Controls, NEW a \in DOMAIN Accessor,
         Turns(c) => a = "pantilt_abs", NEW vs \in Known, NEW f \in Faults
  PROVE  Learn(vs, Row[c].members, a, f) \in Known
<1> DEFINE members == Row[c].members
           value(i, q) == IF Len(members) = 1 THEN Pack(Answer(a, q)) ELSE Answer(a, q)[i]
           learnt(i) == [q \in Queries |-> IF q \in Read[f] THEN value(i, q) ELSE vs[members[i]][q]]
<1>1. CASE AllKnown(vs, members)
  BY <1>1 DEF Learn
<1>2. CASE ~AllKnown(vs, members)
  <2>1. \A i \in DOMAIN members : members[i] \in Members
    BY DEF Members, Range
  <2>2. \A i \in DOMAIN members : \A q \in Queries : value(i, q) \in Int
    <3>1. CASE Turns(c)
      <4>1. members = <<"mPan", "mTilt">> /\ a = "pantilt_abs" /\ Len(Accessor[a].types) = 2
        BY <3>1, MembersOfControls, AccessorShapes
      <4>2. \A q \in Queries : Answer(a, q) \in Seq(Int) /\ Len(Answer(a, q)) = 2
        BY <4>1, AnswerIsInts
      <4>3. Len(members) = 2 /\ DOMAIN members = 1..2
        BY <4>1
      <4> HIDE DEF members
      <4> QED BY <4>2, <4>3
    <3>2. CASE ~Turns(c)
      <4>1. Len(members) = 1
        <5>1. PICK m : members = <<m>>
          BY <3>2, MembersOfControls
        <5> QED BY <5>1
      <4>2. Len(Accessor[a].types) \in 1..3
        BY AccessorShapes DEF FieldTypes
      <4>3. \A q \in Queries : Answer(a, q) \in Seq(Int) /\ Len(Answer(a, q)) \in 1..3
        BY <4>2, AnswerIsInts
      <4> QED BY <4>1, <4>3, PackIsInt
    <3> QED BY <3>1, <3>2
  <2> HIDE DEF value
  <2>3. \A i \in DOMAIN members : learnt(i) \in [Queries -> Int]
    BY <2>1, <2>2 DEF Known
  <2>4. Learn(vs, members, a, f) =
          [m \in Members |-> IF \E i \in DOMAIN members : members[i] = m
                             THEN learnt(CHOOSE i \in DOMAIN members : members[i] = m) ELSE vs[m]]
    BY <1>2, Zenon DEF Learn, value
  <2> HIDE DEF learnt, members
  <2>5. \A m \in Members : (\E i \in DOMAIN members : members[i] = m) =>
          (CHOOSE i \in DOMAIN members : members[i] = m) \in DOMAIN members
    OBVIOUS
  <2>6. \A m \in Members : (\E i \in DOMAIN members : members[i] = m) =>
          learnt(CHOOSE i \in DOMAIN members : members[i] = m) \in [Queries -> Int]
    BY <2>3, <2>5
  <2>7. Learn(vs, members, a, f) \in Known
    BY <2>4, <2>6 DEF Known
  <2> QED BY <2>7 DEF members
<1> QED BY <1>1, <1>2

LEMMA UpdatedIsTyped ==
  ASSUME CamerasAssumption, camera \in Cameras, NEW s, State(s), Typed(s), NEW c \in Controls,
         NEW f \in Faults
  PROVE  State(Updated(s, c, f)) /\ Typed(Updated(s, c, f))
<1> DEFINE row == Row[c]
           vs  == Learn(s.values, row.members, row.update, f)
           fs  == IF Learnt(s.values, row.members, f) /\ c \in Fields /\ row.how # "pantilt"
                  THEN [s.fields EXCEPT ![c] = vs[row.members[1]]] ELSE s.fields
<1>1. vs \in Known
  BY AccessorsOfControls, LearnIsTyped DEF Typed
<1>2. row.members[1] \in Members
  <2>1. row.members[1] \in Range(row.members)
    <3>1. CASE Turns(c)
      BY <3>1, MembersOfControls DEF Range
    <3>2. CASE ~Turns(c)
      <4>1. PICK m : row.members = <<m>>
        BY <3>2, MembersOfControls
      <4> QED BY <4>1 DEF Range
    <3> QED BY <3>1, <3>2
  <2> QED BY <2>1 DEF Members
<1>3. fs \in [Fields -> [Queries -> Int]]
  <2>1. vs[row.members[1]] \in [Queries -> Int]
    BY <1>1, <1>2 DEF Known
  <2> HIDE DEF vs, row
  <2> QED BY <2>1 DEF Typed
<1>4. Updated(s, c, f) = s \/ Updated(s, c, f) = [values |-> vs, fields |-> fs, ctrl |-> s.ctrl, proc |-> s.proc]
  BY DEF Updated
<1> HIDE DEF vs, fs, row
<1>5. CASE Updated(s, c, f) = s
  BY <1>5
<1>6. CASE Updated(s, c, f) = [values |-> vs, fields |-> fs, ctrl |-> s.ctrl, proc |-> s.proc]
  <2>1. Updated(s, c, f).values = vs /\ Updated(s, c, f).fields = fs
    BY <1>6
  <2>2. State(Updated(s, c, f))
    BY <1>6 DEF State
  <2> QED BY <1>1, <1>3, <2>1, <2>2 DEF Typed
<1> QED BY <1>4, <1>5, <1>6

LEMMA WithValues ==
  ASSUME NEW s, State(s), NEW vs
  PROVE  /\ State([s EXCEPT !.values = vs])
         /\ [s EXCEPT !.values = vs].values = vs /\ [s EXCEPT !.values = vs].fields = s.fields
<1>1. PICK v, w, k, p : s = [values |-> v, fields |-> w, ctrl |-> k, proc |-> p]
  BY DEF State
<1>2. [s EXCEPT !.values = vs] = [values |-> vs, fields |-> w, ctrl |-> k, proc |-> p]
  BY <1>1
<1>3. [s EXCEPT !.values = vs].values = vs /\ [s EXCEPT !.values = vs].fields = s.fields
  BY <1>1, <1>2
<1>4. State([s EXCEPT !.values = vs])
  BY <1>2 DEF State
<1> QED BY <1>3, <1>4

LEMMA LookedIsTyped ==
  ASSUME CamerasAssumption, camera \in Cameras, NEW s, State(s), Typed(s), NEW c \in Controls,
         NEW f \in Faults
  PROVE  State(Looked(s, c, f)) /\ Typed(Looked(s, c, f))
<1> DEFINE vs == Learn(s.values, Row[c].members, Row[c].getLimits, f)
<1>1. vs \in Known
  BY AccessorsOfControls, LearnIsTyped DEF Typed
<1>2. Looked(s, c, f) = s \/ Looked(s, c, f) = [s EXCEPT !.values = vs]
  BY DEF Looked
<1> HIDE DEF vs
<1>3. CASE Looked(s, c, f) = s
  BY <1>3
<1>4. CASE Looked(s, c, f) = [s EXCEPT !.values = vs]
  <2>1. /\ State(Looked(s, c, f))
        /\ Looked(s, c, f).values = vs /\ Looked(s, c, f).fields = s.fields
    BY <1>4, WithValues
  <2> QED BY <1>1, <2>1 DEF Typed
<1> QED BY <1>2, <1>3, <1>4

LEMMA RefreshedIsTyped ==
  ASSUME CamerasAssumption, camera \in Cameras, NEW s, State(s), Typed(s), NEW f \in Faults, NEW failing
  PROVE  Typed(Refreshed(s, failing, f))
<1> DEFINE up(t, c) == RefreshedOne(t, c, failing, f)
           light    == up(up(up(s, "Brightness"), "Contrast"), "Sharpness")
           tone     == up(up(up(light, "Gain"), "Gamma"), "Saturation")
           all      == up(up(up(up(tone, "Hue"), "Zoom"), "WhiteBlance"), "Focus")
           Fine(t)  == State(t) /\ Typed(t)
<1>1. ASSUME NEW t, NEW c \in DOMAIN Percent, Fine(t)
      PROVE  Fine(up(t, c))
  <2>1. c \in Controls
    BY PercentRows DEF Plain
  <2>2. (IF c = failing THEN f ELSE "no") \in Faults
    BY DEF Faults
  <2> QED BY <1>1, <2>1, <2>2, UpdatedIsTyped DEF RefreshedOne
<1>2. Refreshed(s, failing, f) = all
  BY DEF Refreshed
<1>3. Fine(s)
  OBVIOUS
<1>4. {"Brightness", "Contrast", "Sharpness", "Gain", "Gamma", "Saturation", "Hue", "Zoom", "WhiteBlance",
       "Focus"} \subseteq DOMAIN Percent
  BY PercentNames
<1> HIDE DEF up, Fine
<1>5. Fine(light)
  BY <1>1, <1>3, <1>4
<1> HIDE DEF light
<1>6. Fine(tone)
  BY <1>1, <1>4, <1>5
<1> HIDE DEF tone
<1>7. Fine(all)
  BY <1>1, <1>4, <1>6
<1> QED BY <1>2, <1>7 DEF Fine

-----------------------------------------------------------------------------
(* What is sent *)

\* The registers hold values the camera takes.
Holding == \A s \in Selectors : register[s] \in Seq(Int) /\ Holds(s, register[s])

LEMMA StoredIsInts ==
  ASSUME NEW a, NEW x \in Seq(Int)
  PROVE  Stored(a, x) \in Seq(Int) /\ Len(Stored(a, x)) = Len(x)
<1> DEFINE own == Own[Accessor[a].selector]
<1>1. Stored(a, x) = [i \in 1..Len(x) |-> IF i \in DOMAIN own THEN As(x[i], own[i]) ELSE x[i]]
  BY DEF Stored
<1> HIDE DEF own
<1>2. \A i \in 1..Len(x) : (IF i \in DOMAIN own THEN As(x[i], own[i]) ELSE x[i]) \in Int
  BY AsIsInt
<1> QED BY <1>1, <1>2

\* Nothing but a value that is taken is held.
LEMMA RequestHolds ==
  ASSUME Holding, DOMAIN register = Selectors, camera' = camera, NEW c \in Controls, NEW x \in Seq(Int),
         NEW f,
         Request(c, x, f)
  PROVE  Holding' /\ DOMAIN register' = Selectors
<1>1. Selector(c) \in Selectors
  BY SelectorIsOne
<1>2. Stored(Row[c].access, x) \in Seq(Int)
  BY StoredIsInts
<1>3. \/ register' = register
      \/ /\ register' = [register EXCEPT ![Selector(c)] = Stored(Row[c].access, x)]
         /\ Holds(Selector(c), Stored(Row[c].access, x))
  BY DEF Request, Sent, Taken, Selector
<1>4. \A s, y : Holds(s, y) => (camera' = camera => Holds(s, y)')
  BY DEF Holds
<1> QED BY <1>1, <1>2, <1>3, <1>4 DEF Holding, Holds

\* A value that is between the limits is taken.
Fine(c, x) == Holds(Selector(c), Stored(Row[c].access, x))

\* The accessors of the controls that are not mixed.
LEMMA PlainAccess ==
  ASSUME NEW c \in Plain
  PROVE  /\ Row[c].access \in DOMAIN Accessor \ {"iris_abs", "iris_rel", "exposure_rel", "focus_rel"}
         /\ Selector(c) = Row[c].access /\ Selector(c) \in Selectors
         /\ Own[Selector(c)] = Accessor[Row[c].access].types
<1>1. c \in Controls /\ c \notin Mixed
  BY DEF Plain
<1>2. Row[c].access \in DOMAIN Accessor /\ c \in SentTo[Selector(c)]
  BY <1>1, SelectorsOfControls
<1>3. Row[c].access \notin {"iris_rel", "exposure_rel", "focus_rel"}
  BY <1>1, <1>2, AccessorShapes DEF Selector, SentTo, Mixed
<1>4. Row[c].access # "iris_abs"
  <2>1. Row["Focus"].access = "focus_abs"
    BY ControlRows, RowShapes DEF RowTables, FocusRows
  <2> QED BY <1>1, <1>2, <2>1, AccessorShapes DEF Selector, SentTo, Mixed
<1> QED BY <1>1, <1>2, <1>3, <1>4, AccessorShapes, AccessorLengths DEF Selector

\* Fields between the limits are stored as they are.
LEMMA BetweenIsFine ==
  ASSUME CamerasAssumption, camera \in Cameras, NEW c \in Plain, NEW x \in Seq(Int),
         Len(x) = Len(Accessor[Row[c].access].types),
         \A i \in DOMAIN x : /\ Limits[camera][Selector(c)]["min"][i] <= x[i]
                             /\ x[i] <= Limits[camera][Selector(c)]["max"][i]
  PROVE  Fine(c, x) /\ \A i \in DOMAIN x : As(x[i], Accessor[Row[c].access].types[i]) = x[i]
<1> DEFINE s == Selector(c)
           own == Own[s]
           low == Limits[camera][s]["min"]
           high == Limits[camera][s]["max"]
<1>1. Row[c].access = s /\ s \in Selectors /\ Accessor[Row[c].access].selector = s
      /\ Accessor[Row[c].access].types = own
  BY PlainAccess DEF Selector
<1>2. own \in FieldTypes
  BY <1>1, PlainAccess, AccessorShapes
<1>3. /\ low \in Seq(Int) /\ Len(low) = Len(own) /\ \A i \in DOMAIN low : As(low[i], own[i]) = low[i]
      /\ high \in Seq(Int) /\ Len(high) = Len(own) /\ \A i \in DOMAIN high : As(high[i], own[i]) = high[i]
  BY <1>1, LimitShapes DEF Queries
<1>4. /\ DOMAIN own = 1..Len(own)
      /\ \A i \in DOMAIN own : own[i] \in {"u8", "i8", "u16", "i16", "u32", "i32"}
  BY <1>2 DEF FieldTypes
<1>5. Len(x) = Len(own) /\ \A i \in DOMAIN x : low[i] <= x[i] /\ x[i] <= high[i]
  BY <1>1
<1>6. Stored(Row[c].access, x) = [i \in DOMAIN x |-> IF i \in DOMAIN own THEN As(x[i], own[i]) ELSE x[i]]
  BY <1>1 DEF Stored
<1>9. Holds(s, x) <=> Len(x) = Len(own) /\ \A i \in DOMAIN x : low[i] <= x[i] /\ x[i] <= high[i]
  BY DEF Holds
<1> HIDE DEF s, own, low, high
<1>7. ASSUME NEW i \in DOMAIN x
      PROVE  As(x[i], own[i]) = x[i]
  <2>1. /\ i \in DOMAIN own /\ i \in DOMAIN low /\ i \in DOMAIN high
        /\ low[i] \in Int /\ high[i] \in Int /\ x[i] \in Int
    BY <1>3, <1>4, <1>5
  <2>2. /\ own[i] \in {"u8", "i8", "u16", "i16", "u32", "i32"}
        /\ As(low[i], own[i]) = low[i] /\ As(high[i], own[i]) = high[i]
        /\ low[i] <= x[i] /\ x[i] <= high[i]
    BY <1>3, <1>4, <1>5, <2>1
  <2> QED BY <2>1, <2>2, AsBetween
<1>8. Stored(Row[c].access, x) = x
  BY <1>4, <1>5, <1>6, <1>7
<1> QED BY <1>1, <1>5, <1>7, <1>8, <1>9 DEF Fine, s

\* The fields of a bound that is kept in an int.
Bounds(b, types) == IF Len(types) = 1 THEN <<b>> ELSE Unpack(b, types)

LEMMA ClampIsBetween ==
  ASSUME NEW v \in Int, NEW types \in FieldTypes, NEW lim, NEW i \in DOMAIN types, NEW low \in Int,
         NEW high \in Int,
         low = Bounds(lim.min, types)[i], high = Bounds(lim.max, types)[i],
         As(low, types[i]) = low, As(high, types[i]) = high, low <= high
  PROVE  low <= Clamp(v, types, lim)[i] /\ Clamp(v, types, lim)[i] <= high
<1> DEFINE x == Unpack(v, types)
           between(w, l, h) == IF w < l THEN l ELSE IF w > h THEN h ELSE w
<1>1. DOMAIN types = 1..Len(types) /\ types[i] \in {"u8", "i8", "u16", "i16", "u32", "i32"}
  BY DEF FieldTypes
<1>2. Unpack(v, types) \in Seq(Int) /\ Len(Unpack(v, types)) = Len(types)
  BY UnpackIsInts
<1>3. x[i] \in Int
  BY <1>1, <1>2
<1>4. Clamp(v, types, lim) =
        [j \in DOMAIN types |-> As(between(x[j], Bounds(lim.min, types)[j], Bounds(lim.max, types)[j]), types[j])]
  BY DEF Clamp, Bounds
<1> HIDE DEF x, between
<1>5. Clamp(v, types, lim)[i] = As(between(x[i], low, high), types[i])
  BY <1>4
<1>6. between(x[i], low, high) \in Int /\ low <= between(x[i], low, high) /\ between(x[i], low, high) <= high
  BY <1>3 DEF between
<1>7. As(between(x[i], low, high), types[i]) = between(x[i], low, high)
  BY <1>1, <1>6, AsBetween
<1> QED BY <1>5, <1>6, <1>7

LEMMA ThreeFields ==
  ASSUME NEW x \in Seq(Int), Len(x) = 3
  PROVE  x = <<x[1], x[2], x[3]>> /\ x[1] \in Int /\ x[2] \in Int /\ x[3] \in Int
<1>1. x \in [1..3 -> Int]
  BY SMT
<1> QED BY <1>1, SMT

\* The limits as they are kept, and as the camera has them.
LEMMA KeptLimits ==
  ASSUME CamerasAssumption, camera \in Cameras, NEW c \in Plain, ~Turns(c),
         NEW m, Row[c].members = <<m>>, NEW q \in Queries
  PROVE  /\ OwnLimit(c, m, q) \in Int
         /\ Bounds(OwnLimit(c, m, q), Accessor[Row[c].access].types) = Limits[camera][Selector(c)][q]
<1> DEFINE types == Accessor[Row[c].access].types
           x == Limits[camera][Selector(c)][q]
<1>1. /\ Row[c].access \in DOMAIN Accessor \ {"iris_abs", "iris_rel", "exposure_rel", "focus_rel"}
      /\ Selector(c) = Row[c].access /\ Selector(c) \in Selectors /\ Own[Selector(c)] = types
  BY PlainAccess
<1>2. Row[c].access # "pantilt_abs"
  BY SelectorsOfControls DEF Plain
<1>3. /\ types \in FieldTypes /\ Len(types) # 2 /\ (Len(types) = 3 => types = <<"i8", "u8", "u8">>)
      /\ Len(types) \in {1, 2, 3}
  BY <1>1, <1>2, AccessorShapes DEF FieldTypes
<1>4. OwnLimit(c, m, q) = Pack(x)
  BY <1>1, AnswerIsLimit DEF OwnLimit
<1>5. x \in Seq(Int) /\ Len(x) = Len(types) /\ \A i \in DOMAIN x : As(x[i], types[i]) = x[i]
  BY <1>1, LimitShapes
<1> HIDE DEF types, x
<1>6. CASE Len(types) = 1
  <2>1. x = <<x[1]>> /\ x[1] \in Int
    <3>1. x \in Seq(Int) /\ Len(x) = 1
      BY <1>5, <1>6
    <3>2. x \in [1..1 -> Int]
      BY <3>1
    <3> QED BY <3>1, <3>2
  <2>2. Pack(x) = x[1]
    BY <1>5, <1>6, SMT DEF Pack
  <2> QED BY <1>4, <1>6, <2>1, <2>2 DEF Bounds, types, x
<1>7. CASE Len(types) = 3
  <2>1. types = <<"i8", "u8", "u8">>
    BY <1>3, <1>7
  <2>3. PICK a \in Int, b \in Int, d \in Int : x = <<a, b, d>>
    <3>1. x \in Seq(Int) /\ Len(x) = 3
      BY <1>5, <1>7
    <3> QED BY <3>1, ThreeFields
  <2>4. As(a, "i8") = a /\ As(b, "u8") = b /\ As(d, "u8") = d
    BY <1>5, <2>1, <2>3
  <2>5. Pack(x) \in Int /\ Unpack(Pack(x), types) = x
    BY <2>1, <2>3, <2>4, ThreeUnpacked
  <2> QED BY <1>4, <1>7, <2>5 DEF Bounds, types, x
<1> QED BY <1>3, <1>6, <1>7

\* What is clamped to the camera's limits is taken.
LEMMA ClampIsFine ==
  ASSUME CamerasAssumption, camera \in Cameras, NEW c \in Plain, ~Turns(c),
         NEW m, Row[c].members = <<m>>, NEW v \in Int
  PROVE  Fine(c, Clamp(v, Accessor[Row[c].access].types, OwnLimits(c, m)))
<1> DEFINE types == Accessor[Row[c].access].types
           lim == OwnLimits(c, m)
           x == Clamp(v, types, lim)
           low == Limits[camera][Selector(c)]["min"]
           high == Limits[camera][Selector(c)]["max"]
<1>1. types \in FieldTypes /\ Selector(c) \in Selectors /\ Own[Selector(c)] = types
  BY PlainAccess, AccessorShapes
<1>2. lim \in [Queries -> Int] /\ lim.min = OwnLimit(c, m, "min") /\ lim.max = OwnLimit(c, m, "max")
  BY KeptLimits DEF OwnLimits, Queries
<1>3. Bounds(lim.min, types) = low /\ Bounds(lim.max, types) = high
  BY <1>2, KeptLimits DEF Queries
<1>4. DOMAIN types = 1..Len(types)
  BY <1>1 DEF FieldTypes
<1>5. /\ low \in Seq(Int) /\ Len(low) = Len(types) /\ \A i \in DOMAIN low : As(low[i], types[i]) = low[i]
      /\ high \in Seq(Int) /\ Len(high) = Len(types) /\ \A i \in DOMAIN high : As(high[i], types[i]) = high[i]
  BY <1>1, LimitShapes DEF Queries
<1> HIDE DEF types, lim, x, low, high
<1>10. /\ low \in Seq(Int) /\ DOMAIN low = DOMAIN types
       /\ high \in Seq(Int) /\ DOMAIN high = DOMAIN types
  BY <1>4, <1>5
<1>11. \A i \in DOMAIN types : low[i] \in Int /\ high[i] \in Int
  BY <1>10
<1>6. \A i \in DOMAIN types : low[i] <= high[i]
  <2>1. \A i \in DOMAIN types : Limits[camera][Selector(c)]["def"][i] \in Int
    <3>1. "def" \in Queries
      BY DEF Queries
    <3>2. Limits[camera][Selector(c)]["def"] \in Seq(Int) /\ Len(Limits[camera][Selector(c)]["def"]) = Len(types)
      BY <1>1, <3>1, LimitShapes
    <3> QED BY <1>4, <3>2
  <2>3. \A i \in DOMAIN types : /\ low[i] <= Limits[camera][Selector(c)]["def"][i]
                                /\ Limits[camera][Selector(c)]["def"][i] <= high[i]
    BY <1>1, LimitShapes DEF low, high
  <2> QED BY <1>11, <2>1, <2>3
<1>7. x \in Seq(Int) /\ Len(x) = Len(types)
  BY <1>1, <1>2, ClampIsInts DEF x
<1>8. ASSUME NEW i \in DOMAIN x
      PROVE  low[i] <= x[i] /\ x[i] <= high[i]
  <2>1. i \in DOMAIN types
    BY <1>4, <1>7
  <2>2. low[i] \in Int /\ high[i] \in Int /\ As(low[i], types[i]) = low[i] /\ As(high[i], types[i]) = high[i]
    BY <1>5, <1>10, <1>11, <2>1
  <2>3. low[i] <= high[i] /\ low[i] = Bounds(lim.min, types)[i] /\ high[i] = Bounds(lim.max, types)[i]
    BY <1>3, <1>6, <2>1
  <2> QED BY <1>1, <2>1, <2>2, <2>3, ClampIsBetween DEF x
<1>9. Fine(c, x)
  BY <1>7, <1>8, BetweenIsFine DEF types, low, high
<1> QED BY <1>9 DEF x, types, lim

\* The limits of the angles.
LEMMA PanTiltLimits ==
  ASSUME CamerasAssumption, camera \in Cameras, NEW c \in Controls, Turns(c)
  PROVE  LET lim == Limits[camera]["pantilt_abs"]
             own(i, q) == OwnLimit(c, <<"mPan", "mTilt">>[i], q)
         IN  /\ \A i \in 1..2, q \in Queries : own(i, q) = lim[q][i] /\ lim[q][i] \in Int
             /\ \A i \in 1..2 : lim["min"][i] <= lim["def"][i] /\ lim["def"][i] <= lim["max"][i]
<1> DEFINE pair == <<"mPan", "mTilt">>
<1>1. Row[c].members = pair /\ Row[c].access = "pantilt_abs"
  BY MembersOfControls, SelectorsOfControls
<1>2. "pantilt_abs" \in Selectors /\ Own["pantilt_abs"] = <<"i32", "i32">>
  BY OwnPanTilt
<1>3. \A q \in Queries : Limits[camera]["pantilt_abs"][q] \in Seq(Int) /\ Len(Limits[camera]["pantilt_abs"][q]) = 2
  BY <1>2, LimitShapes
<1>4. \A i \in 1..2 : /\ Limits[camera]["pantilt_abs"]["min"][i] <= Limits[camera]["pantilt_abs"]["def"][i]
                      /\ Limits[camera]["pantilt_abs"]["def"][i] <= Limits[camera]["pantilt_abs"]["max"][i]
  BY <1>2, LimitShapes
<1>5. \A q \in Queries : Answer("pantilt_abs", q) = Limits[camera]["pantilt_abs"][q]
  <2>1. "pantilt_abs" \in DOMAIN Accessor
    BY <1>1, SelectorsOfControls
  <2> QED BY <2>1, AnswerIsLimit
<1>6. \A i \in 1..2 : (CHOOSE j \in 1..2 : pair[j] = pair[i]) = i
  OBVIOUS
<1>7. \A i \in 1..2, q \in Queries : OwnLimit(c, pair[i], q) = Limits[camera]["pantilt_abs"][q][i]
  <2> SUFFICES ASSUME NEW i \in 1..2, NEW q \in Queries
               PROVE  OwnLimit(c, pair[i], q) = Limits[camera]["pantilt_abs"][q][i]
    OBVIOUS
  <2>1. Len(Row[c].members) = 2
    BY <1>1
  <2>2. DOMAIN Limits[camera]["pantilt_abs"][q] = 1..2
    BY <1>3
  <2>3. OwnLimit(c, pair[i], q) =
          Limits[camera]["pantilt_abs"][q][CHOOSE j \in 1..2 : Row[c].members[j] = pair[i]]
    BY <1>1, <1>5, <2>1, <2>2 DEF OwnLimit
  <2> QED BY <1>1, <1>6, <2>3
<1>8. \A i \in 1..2, q \in Queries : Limits[camera]["pantilt_abs"][q][i] \in Int
  BY <1>3
<1> QED BY <1>4, <1>7, <1>8

-----------------------------------------------------------------------------
(* Every step keeps the types and sends what is taken *)

TypedInv == TypeOK /\ (camera # NoCamera => Holding)

Angle == [{"Pan", "Tilt"} -> Int]

LEMMA CameraIsOne == ASSUME ControlsAssumption, TypedInv, camera # NoCamera PROVE camera \in Cameras
  BY DEF ControlsAssumption, TypedInv, TypeOK, NoCamera, Cameras

\* What a call for c may send: ints, and if it clamps c and no transfer failed, what the camera takes.
MaySend(c, x) ==
  x \in Seq(Int) /\ (failures' = 0 => c \in Mixed \/ Row[c].how \in {"direct", "switch"} \/ Fine(c, x))

LEMMA CallKeepsTypes ==
  ASSUME ControlsAssumption, ControlsInv, TypedInv, camera # NoCamera, UNCHANGED inUse,
         UNCHANGED <<camera, opened, has, mCtrlSupports, mPUSupports, supports>>, NEW f, Fault(f),
         values' \in Known, fields' \in [Fields -> [Queries -> Int]], current' \in Angle,
         NEW c \in Controls, Nothing \/ \E x : MaySend(c, x) /\ Request(c, x, f)
  PROVE  TypedInv' /\ RequestsAreTaken'
<1>1. Holding'
  <2>1. CASE Nothing
    BY <2>1 DEF Nothing, TypedInv, Holding, Holds
  <2>2. ASSUME NEW x \in Seq(Int), Request(c, x, f)
        PROVE  Holding'
    BY <2>2, RequestHolds DEF TypedInv, ControlsInv
  <2> QED BY <2>1, <2>2 DEF MaySend
<1>2. failures' \in 0..MaxFailures
  BY DEF Fault, TypedInv, TypeOK, ControlsAssumption
<1>3. \A d \in inUse' : Holds(Selector(d), register[Selector(d)])'
  <2>1. \A d \in inUse' : Selector(d) \in Selectors
    BY SelectorIsOne DEF ControlsInv
  <2> QED BY <1>1, <2>1 DEF Holding
<1>4. TypeOK'
  BY <1>2, <1>3 DEF TypedInv, TypeOK, Known, Angle, Selector
<1>5. RequestsAreTaken'
  <2>1. CASE Nothing
    BY <2>1 DEF Nothing, Returns, RequestsAreTaken
  <2>2. ASSUME NEW x, MaySend(c, x), Request(c, x, f)
        PROVE  RequestsAreTaken'
    <3>1. call'.sets = {c} /\ (call'.refused => ~Fine(c, x))
      BY <2>2 DEF Request, Returns, Taken, Fine, Selector
    <3> QED BY <2>2, <3>1 DEF MaySend, RequestsAreTaken
  <2> QED BY <2>1, <2>2
<1> QED BY <1>1, <1>4, <1>5 DEF TypedInv

LEMMA SetClampedSends ==
  ASSUME CamerasAssumption, camera \in Cameras, NEW s, State(s), Typed(s), Good(s), NEW c \in Controls,
         ~Turns(c),
         NEW v \in Int, NEW f \in Faults, failures' = 0 => f = "no", SetClamped(s, c, v, f)
  PROVE  /\ values' \in Known /\ fields' \in [Fields -> [Queries -> Int]]
         /\ Nothing \/ \E x : MaySend(c, x) /\ Request(c, x, f)
<1> DEFINE ls == Learn(s.values, Row[c].members, Row[c].access, f)
           vs == IF Supported(Row[c].mask, s) THEN ls ELSE s.values
           types == Accessor[Row[c].access].types
<1>1. PICK m : Row[c].members = <<m>>
  BY MembersOfControls
<1>2. m \in Members /\ m \in Range(Row[c].members)
  BY <1>1 DEF Members, Range
<1>3. Row[c].access \in DOMAIN Accessor /\ types \in FieldTypes
  BY AccessorsOfControls, AccessorShapes
<1>4. ls \in Known
  BY <1>3, LearnIsTyped DEF Typed
<1>5. vs \in Known
  BY <1>4 DEF Typed
<1>6. Becomes([s EXCEPT !.values = vs])
  BY DEF SetClamped
<1>7. Nothing \/ (Supported(Row[c].mask, s) /\ Request(c, Clamp(v, types, vs[m]), f))
  BY <1>1 DEF SetClamped
<1> HIDE DEF ls, vs, types
<1>8. values' = vs /\ fields' = s.fields
  BY <1>6, WithValues DEF Becomes
<1>9. vs[m] \in [Queries -> Int]
  BY <1>2, <1>5 DEF Known
<1>10. Clamp(v, types, vs[m]) \in Seq(Int)
  BY <1>3, <1>9, ClampIsInts
<1>11. ASSUME failures' = 0, c \notin Mixed, Supported(Row[c].mask, s)
       PROVE  Fine(c, Clamp(v, types, vs[m]))
  <2>1. c \in Plain /\ Whole(s.values) /\ f = "no"
    BY <1>11 DEF Plain, Good
  <2>2. vs[m] = OwnLimits(c, m)
    BY <1>2, <1>11, <2>1, LearnIsWhole DEF vs, ls
  <2> QED BY <1>1, <2>1, <2>2, ClampIsFine DEF types
<1>12. Supported(Row[c].mask, s) => MaySend(c, Clamp(v, types, vs[m]))
  BY <1>10, <1>11 DEF MaySend
<1> QED BY <1>5, <1>7, <1>8, <1>12 DEF Typed

LEMMA PercentResets == \A c \in DOMAIN Percent : Percent[c].reset \in DOMAIN Percent
<1> DEFINE tables == {FocusPercents, LightPercents, ColourPercents, HuePercents}
<1>1. \A t, u \in tables : \A c \in DOMAIN t \cap DOMAIN u : t = u
  BY DEF FocusPercents, LightPercents, ColourPercents, HuePercents
<1>2. /\ DOMAIN Percent = UNION {DOMAIN t : t \in tables}
      /\ \A t \in tables : \A c \in DOMAIN t : Percent[c] = t[c]
  BY <1>1, JoinedRows DEF Percent
<1>3. \A c : Ranged(c).reset = c
  BY DEF Ranged
<1>4. FocusPercents.WhiteBlance.reset = "WhiteBlance" /\ FocusPercents.Focus.reset = "Focus"
  BY DEF FocusPercents, Ranged
<1>5. /\ LightPercents.Contrast.reset = "Contrast" /\ LightPercents.Brightness.reset = "Brightness"
      /\ LightPercents.Sharpness.reset = "Sharpness"
  BY DEF LightPercents, Ranged
<1>6. HuePercents.Hue.reset = "Saturation" /\ HuePercents.Zoom.reset = "Zoom"
  BY DEF HuePercents, Ranged
<1>7. \A c \in DOMAIN ColourPercents : ColourPercents[c].reset = c
  BY <1>3 DEF ColourPercents
<1>8. /\ DOMAIN FocusPercents = {"Focus", "WhiteBlance"}
      /\ DOMAIN LightPercents = {"Brightness", "Contrast", "Sharpness"}
      /\ DOMAIN HuePercents = {"Hue", "Zoom"}
  BY DEF FocusPercents, LightPercents, HuePercents
<1> QED BY <1>2, <1>4, <1>5, <1>6, <1>7, <1>8, PercentNames

\* A value of a number of per cent is an int.
LEMMA PercentIsInt ==
  ASSUME ControlsAssumption, NEW p \in Percents, NEW lim \in [Queries -> Int], NEW v \in OfPercent(p, lim)
  PROVE  v \in Int
<1>1. p \in Int /\ lim.min \in Int /\ lim.max \in Int
  <2>1. p \in 0..100
    BY DEF ControlsAssumption
  <2>2. lim.min \in Int /\ lim.max \in Int
    BY DEF Queries
  <2> QED BY <2>1, <2>2
<1>2. Range100(lim) \in Int
  BY <1>1 DEF Range100
<1>3. p * Range100(lim) \in Int
  BY <1>1, <1>2
<1>4. (p * Range100(lim)) \div 100 \in Int
  BY <1>3
<1>5. \A w \in Scaled(p, Range100(lim)) : w \in Int
  BY <1>4 DEF Scaled
<1> QED BY <1>1, <1>5 DEF OfPercent

\* A call finds the state typed.
LEMMA TypedCall ==
  ASSUME ControlsAssumption, ControlsInv, KnownInv, TypedInv, NEW c \in inUse, NEW f, MayCall(c, f), Unchanged
  PROVE  /\ camera \in Cameras /\ camera # NoCamera /\ c \in Controls /\ f \in Faults /\ Fault(f)
         /\ State(Now) /\ Good(Now) /\ Typed(Now) /\ Now.values = values /\ Now.fields = fields
         /\ current \in Angle /\ (failures' = 0 => f = "no") /\ UNCHANGED inUse
         /\ UNCHANGED <<camera, opened, has, mCtrlSupports, mPUSupports, supports>>
<1>1. /\ c \in Controls /\ f \in Faults /\ Fault(f) /\ camera # NoCamera
      /\ State(Now) /\ Good(Now) /\ Now.values = values /\ Now.fields = fields
      /\ failures' = 0 => f = "no"
  BY CallStarts
<1>2. Typed(Now) /\ current \in Angle
  BY <1>1 DEF Typed, TypedInv, TypeOK, Known, Angle
<1>3. camera \in Cameras
  BY <1>1, CameraIsOne
<1> QED BY <1>1, <1>2, <1>3 DEF Unchanged

LEMMA JavaTyped ==
  ASSUME ControlsAssumption, CamerasAssumption, ControlsInv, KnownInv, TypedInv, NEW c \in inUse, NEW f,
         Reset(c, f) \/ GetPercent(c, f) \/ ConvertPercent(c, f) \/ \E p \in Percents : SetPercent(c, p, f)
  PROVE  TypedInv' /\ RequestsAreTaken'
<1>1. MayCall(c, f) /\ Unchanged /\ c \in DOMAIN Percent /\ UNCHANGED current
  BY DEF Reset, GetPercent, ConvertPercent, SetPercent
<1>2. c \in Fields /\ ~Turns(c) /\ Percent[c].through \in Controls /\ Percent[c].reset \in Fields
  BY <1>1, PercentRows, PercentResets DEF Turns, Plain
<1> USE TypedCall, <1>1, <1>2
<1>3. CASE Reset(c, f)
  <2>1. fields[Percent[c].reset].def \in Int
    <3>1. fields[Percent[c].reset] \in [Queries -> Int] /\ "def" \in Queries
      BY DEF TypedInv, TypeOK, Queries
    <3> QED BY <3>1
  <2>2. SetClamped(Now, c, fields[Percent[c].reset].def, f)
    BY <1>3 DEF Reset
  <2>3. /\ values' \in Known /\ fields' \in [Fields -> [Queries -> Int]]
        /\ Nothing \/ \E x : MaySend(c, x) /\ Request(c, x, f)
    BY <2>1, <2>2, SetClampedSends
  <2> QED BY <2>3, CallKeepsTypes
<1>4. CASE GetPercent(c, f)
  <2> DEFINE s == Looked(Now, c, f)
             t == Percent[c].through
  <2>1. State(s) /\ Typed(s)
    BY LookedIsTyped
  <2>2. (Becomes(s) \/ Becomes(Updated(s, t, f))) /\ Nothing
    BY <1>4 DEF GetPercent
  <2>3. Typed(Updated(s, t, f))
    BY <2>1, UpdatedIsTyped
  <2> HIDE DEF s, t
  <2>4. values' \in Known /\ fields' \in [Fields -> [Queries -> Int]]
    BY <2>1, <2>2, <2>3 DEF Becomes, Typed
  <2> QED BY <2>2, <2>4, CallKeepsTypes
<1>5. CASE ConvertPercent(c, f)
  <2>1. Typed(Updated(Now, c, f)) /\ Becomes(Updated(Now, c, f)) /\ Nothing
    BY <1>5, UpdatedIsTyped DEF ConvertPercent
  <2>2. values' \in Known /\ fields' \in [Fields -> [Queries -> Int]]
    BY <2>1 DEF Becomes, Typed
  <2> QED BY <2>1, <2>2, CallKeepsTypes
<1>6. ASSUME NEW p \in Percents, SetPercent(c, p, f)
      PROVE  TypedInv' /\ RequestsAreTaken'
  <2> DEFINE s == IF Percent[c].refreshSet THEN Updated(Now, c, f) ELSE Now
  <2>1. State(s) /\ Typed(s) /\ Good(s)
    BY UpdatedIsTyped, UpdatedIsGood
  <2>2. \/ Becomes(s) /\ Nothing
        \/ \E v \in OfPercent(p, s.fields[c]) : SetClamped(s, c, v, f)
    BY <1>6 DEF SetPercent
  <2> HIDE DEF s
  <2>3. CASE Becomes(s) /\ Nothing
    <3>1. values' \in Known /\ fields' \in [Fields -> [Queries -> Int]]
      BY <2>1, <2>3 DEF Becomes, Typed
    <3> QED BY <2>3, <3>1, CallKeepsTypes
  <2>4. ASSUME NEW v \in OfPercent(p, s.fields[c]), SetClamped(s, c, v, f)
        PROVE  TypedInv' /\ RequestsAreTaken'
    <3>1. s.fields[c] \in [Queries -> Int]
      BY <2>1 DEF Typed
    <3>2. v \in Int
      BY <3>1, PercentIsInt
    <3>3. /\ values' \in Known /\ fields' \in [Fields -> [Queries -> Int]]
          /\ Nothing \/ \E x : MaySend(c, x) /\ Request(c, x, f)
      BY <2>1, <2>4, <3>2, SetClampedSends
    <3> QED BY <3>3, CallKeepsTypes
  <2> QED BY <2>2, <2>3, <2>4
<1> QED BY <1>3, <1>4, <1>5, <1>6

LEMMA NativeTyped ==
  ASSUME ControlsAssumption, CamerasAssumption, ControlsInv, KnownInv, TypedInv, NEW c \in inUse, NEW f,
         \/ NativeUpdate(c, f) \/ NativeGet(c, f)
         \/ \E v \in Requests : NativeSetClamped(c, v, f) \/ NativeSetDirect(c, v, f)
  PROVE  TypedInv' /\ RequestsAreTaken'
<1>1. MayCall(c, f) /\ Unchanged
  BY DEF NativeUpdate, NativeGet, NativeSetClamped, NativeSetDirect, MayCallNative
<1> USE TypedCall, <1>1
<1>2. CASE NativeUpdate(c, f)
  <2>1. Typed(Updated(Now, c, f)) /\ Becomes(Updated(Now, c, f)) /\ Nothing /\ UNCHANGED current
    BY <1>2, UpdatedIsTyped DEF NativeUpdate
  <2>2. values' \in Known /\ fields' \in [Fields -> [Queries -> Int]]
    BY <2>1 DEF Becomes, Typed
  <2> QED BY <2>1, <2>2, CallKeepsTypes
<1>3. CASE NativeGet(c, f)
  <2>1. Typed(Looked(Now, c, f)) /\ Becomes(Looked(Now, c, f)) /\ Nothing
    BY <1>3, LookedIsTyped DEF NativeGet
  <2>2. values' \in Known /\ fields' \in [Fields -> [Queries -> Int]]
    BY <2>1 DEF Becomes, Typed
  <2>3. current' \in Angle
    <3>1. \/ current' = current
          \/ current' = [Pan |-> register["pantilt_abs"][1], Tilt |-> register["pantilt_abs"][2]]
      BY <1>3 DEF NativeGet
    <3>2. register["pantilt_abs"] \in Seq(Int) /\ Len(register["pantilt_abs"]) = 2
      BY OwnPanTilt DEF TypedInv, Holding, Holds
    <3>3. register["pantilt_abs"][1] \in Int /\ register["pantilt_abs"][2] \in Int
      BY <3>2
    <3> QED BY <3>1, <3>3 DEF Angle
  <2> QED BY <2>1, <2>2, <2>3, CallKeepsTypes
<1>4. ASSUME NEW v \in Requests, NativeSetClamped(c, v, f)
      PROVE  TypedInv' /\ RequestsAreTaken'
  <2>1. v \in Int /\ ~Turns(c) /\ SetClamped(Now, c, v, f) /\ UNCHANGED current
    BY <1>4 DEF NativeSetClamped, Turns, ControlsAssumption
  <2>2. /\ values' \in Known /\ fields' \in [Fields -> [Queries -> Int]]
        /\ Nothing \/ \E x : MaySend(c, x) /\ Request(c, x, f)
    BY <2>1, SetClampedSends
  <2> QED BY <2>1, <2>2, CallKeepsTypes
<1>5. ASSUME NEW v \in Requests, NativeSetDirect(c, v, f)
      PROVE  TypedInv' /\ RequestsAreTaken'
  <2> DEFINE w == IF Row[c].how = "switch" /\ v # 0 THEN 1 ELSE v
             types == Accessor[Row[c].access].types
  <2>1. w \in Int
    BY DEF ControlsAssumption
  <2>2. types \in FieldTypes
    BY AccessorsOfControls, AccessorShapes
  <2>3. Row[c].how \in {"direct", "switch"} /\ (Nothing \/ Request(c, Unpack(w, types), f))
    BY <1>5 DEF NativeSetDirect
  <2>4. UNCHANGED <<values, fields, current>>
    BY <1>5 DEF NativeSetDirect
  <2> HIDE DEF w, types
  <2>5. MaySend(c, Unpack(w, types))
    BY <2>1, <2>2, <2>3, UnpackIsInts DEF MaySend
  <2>6. values' \in Known /\ fields' \in [Fields -> [Queries -> Int]]
    BY <2>4 DEF Typed
  <2> QED BY <2>3, <2>4, <2>5, <2>6, CallKeepsTypes
<1> QED BY <1>2, <1>3, <1>4, <1>5

\* The frequency that is sent is one the camera's version of the standard has.
LEMMA PowerlineTyped ==
  ASSUME ControlsAssumption, CamerasAssumption, ControlsInv, KnownInv, TypedInv, NEW c \in inUse, NEW f,
         NEW v \in Requests, SetPowerline(c, v, f)
  PROVE  TypedInv' /\ RequestsAreTaken'
<1> DEFINE lim == Limits[camera]["powerline"]
           old == lim["max"][1] < 3
           asks(freq) == freq = 255 \/ (freq % 4 = 3 /\ old)
           sent(freq) == IF asks(freq) THEN Answer("powerline", "def")[1] % 4 ELSE freq % 4
<1>1. MayCall(c, f) /\ Unchanged /\ Row[c].how = "powerline" /\ UNCHANGED <<values, fields, current>>
  BY DEF SetPowerline, MayCallNative
<1> USE TypedCall, <1>1
<1>2. Nothing \/ \E freq \in Frequencies(v, f) : Request(c, <<sent(freq)>>, f)
  BY DEF SetPowerline
<1>3. Row[c].access = "powerline" /\ ~Turns(c)
  BY SelectorsOfControls DEF Turns
<1>4. "powerline" \in Selectors /\ Own["powerline"] = <<"u8">>
  <2>1. "powerline" \in DOMAIN Accessor /\ Accessor["powerline"] = [selector |-> "powerline", types |-> <<"u8">>]
    BY AccessorRows DEF AccessorTables, GainHueAccess, Access
  <2> QED BY <2>1 DEF Selectors, Own
<1>5. /\ lim["min"] = <<0>> /\ lim["max"] \in {<<2>>, <<3>>}
      /\ lim["def"] \in Seq(Int) /\ Len(lim["def"]) = 1
      /\ lim["min"][1] <= lim["def"][1] /\ lim["def"][1] <= lim["max"][1]
  BY <1>4, LimitShapes DEF Queries
<1>6. Answer("powerline", "def") = lim["def"]
  BY <1>3, AccessorsOfControls, AnswerIsLimit DEF Queries
<1> DEFINE d == lim["def"][1]
           top == lim["max"][1]
<1>7. d \in Int /\ top \in {2, 3} /\ 0 <= d /\ d <= top /\ lim["min"][1] = 0
  BY <1>5
<1> HIDE DEF d, top, lim
<1>8. d % 4 = d
  BY <1>7
<1>9. ASSUME NEW freq \in Frequencies(v, f)
      PROVE  sent(freq) \in Int /\ 0 <= sent(freq) /\ sent(freq) <= top
  <2>1. freq \in Int
    <3>1. \A w \in 0..3 : w \in Int
      OBVIOUS
    <3>2. v \in Int
      BY DEF ControlsAssumption
    <3> QED BY <3>1, <3>2, AsIsInt DEF Frequencies
  <2>2. CASE asks(freq)
    BY <1>6, <1>7, <1>8, <2>2 DEF d
  <2>3. CASE ~asks(freq)
    <3>1. freq % 4 \in 0..3
      BY <2>1
    <3>2. freq % 4 = 3 => ~(top < 3)
      BY <2>3 DEF top
    <3>3. sent(freq) = freq % 4
      BY <2>3
    <3> HIDE DEF asks, sent
    <3> QED BY <1>7, <3>1, <3>2, <3>3
  <2> QED BY <2>2, <2>3
<1>10. ASSUME NEW freq \in Frequencies(v, f)
       PROVE  MaySend(c, <<sent(freq)>>)
  <2> HIDE DEF sent
  <2>1. <<sent(freq)>> \in Seq(Int) /\ Len(<<sent(freq)>>) = 1
    BY <1>9
  <2>2. CASE c \in Mixed
    BY <2>1, <2>2 DEF MaySend
  <2>3. CASE c \notin Mixed
    <3>1. c \in Plain /\ Selector(c) = "powerline" /\ Accessor[Row[c].access].types = <<"u8">>
      BY <1>3, <1>4, <2>3, PlainAccess DEF Plain
    <3>2. \A i \in DOMAIN <<sent(freq)>> : /\ lim["min"][i] <= <<sent(freq)>>[i]
                                           /\ <<sent(freq)>>[i] <= lim["max"][i]
      BY <1>7, <1>9 DEF top
    <3>3. Fine(c, <<sent(freq)>>)
      BY <2>1, <3>1, <3>2, BetweenIsFine DEF lim
    <3> QED BY <2>1, <3>3 DEF MaySend
  <2> QED BY <2>2, <2>3
<1> HIDE DEF sent
<1>11. Nothing \/ \E x : MaySend(c, x) /\ Request(c, x, f)
  BY <1>2, <1>10
<1>12. values' \in Known /\ fields' \in [Fields -> [Queries -> Int]]
  BY DEF Typed
<1> QED BY <1>11, <1>12, CallKeepsTypes

\* Both angles are between the limits: one is clamped, the other the camera's or its default.
LEMMA TurnTyped ==
  ASSUME ControlsAssumption, CamerasAssumption, ControlsInv, KnownInv, TypedInv, NEW c \in inUse, NEW f,
         NEW v \in Requests, SetPanTilt(c, v, f)
  PROVE  TypedInv' /\ RequestsAreTaken'
<1>1. MayCall(c, f) /\ Unchanged /\ Turns(c) /\ UNCHANGED fields
  BY DEF SetPanTilt, MayCallNative, Turns
<1> USE TypedCall, <1>1
<1> DEFINE vs   == Learn(values, Row[c].members, Row[c].access, f)
           pan  == IF c = "Pan" THEN Clamp(v, <<"i32">>, vs.mPan)[1]
                   ELSE IF current.Pan < 0 THEN vs.mPan.def ELSE current.Pan
           tilt == IF c = "Tilt" THEN Clamp(v, <<"i32">>, vs.mTilt)[1]
                   ELSE IF current.Tilt < 0 THEN vs.mTilt.def ELSE current.Tilt
<1>2. \/ UNCHANGED values /\ Nothing /\ UNCHANGED current
      \/ values' = vs /\ Nothing /\ UNCHANGED current
      \/ /\ values' = vs
         /\ Request(c, <<pan, tilt>>, f)
         /\ current' = IF Taken(Row[c].access, <<pan, tilt>>, f) THEN [Pan |-> pan, Tilt |-> tilt]
                       ELSE current
  BY Zenon DEF SetPanTilt
<1>3. Row[c].members = <<"mPan", "mTilt">> /\ Row[c].access = "pantilt_abs" /\ c \notin Mixed /\ c \in Plain
      /\ Accessor[Row[c].access].types = <<"i32", "i32">> /\ Selector(c) = "pantilt_abs"
  <2>1. Row[c].members = <<"mPan", "mTilt">> /\ Row[c].access = "pantilt_abs" /\ c \in {"Pan", "Tilt"}
    BY MembersOfControls, SelectorsOfControls
  <2>2. Accessor["pantilt_abs"] = [selector |-> "pantilt_abs", types |-> <<"i32", "i32">>]
    BY AccessorRows DEF AccessorTables, PanTiltAccess, Access
  <2> QED BY <2>1, <2>2 DEF Mixed, Plain, Selector
<1>4. vs \in Known /\ "mPan" \in Members /\ "mTilt" \in Members
      /\ "mPan" \in Range(Row[c].members) /\ "mTilt" \in Range(Row[c].members)
  <2>1. "mPan" \in Range(Row[c].members) /\ "mTilt" \in Range(Row[c].members)
    BY <1>3 DEF Range
  <2>2. vs \in Known
    BY <1>3, AccessorsOfControls, LearnIsTyped DEF Typed
  <2> QED BY <2>1, <2>2 DEF Members
<1> HIDE DEF vs
<1>5. vs["mPan"] \in [Queries -> Int] /\ vs["mTilt"] \in [Queries -> Int]
  BY <1>4 DEF Known
<1>6. current.Pan \in Int /\ current.Tilt \in Int
  BY DEF Angle
<1>7. \A m \in {"mPan", "mTilt"} :
        Clamp(v, <<"i32">>, vs[m])[1] \in Int
  <2>1. v \in Int /\ <<"i32">> \in FieldTypes /\ Len(<<"i32">>) = 1
    BY DEF ControlsAssumption, FieldTypes
  <2>2. \A m \in {"mPan", "mTilt"} :
          Clamp(v, <<"i32">>, vs[m]) \in Seq(Int) /\ Len(Clamp(v, <<"i32">>, vs[m])) = 1
    BY <1>5, <2>1, ClampIsInts
  <2> QED BY <2>2
<1>8. pan \in Int /\ tilt \in Int
  <2>1. "def" \in Queries
    BY DEF Queries
  <2> QED BY <1>5, <1>6, <1>7, <2>1
<1> DEFINE lim == Limits[camera]["pantilt_abs"]
<1>9. /\ \A q \in Queries : /\ OwnLimit(c, "mPan", q) = lim[q][1] /\ lim[q][1] \in Int
                            /\ OwnLimit(c, "mTilt", q) = lim[q][2] /\ lim[q][2] \in Int
      /\ lim["min"][1] <= lim["def"][1] /\ lim["def"][1] <= lim["max"][1]
      /\ lim["min"][2] <= lim["def"][2] /\ lim["def"][2] <= lim["max"][2]
  <2>1. /\ \A i \in 1..2, q \in Queries : OwnLimit(c, <<"mPan", "mTilt">>[i], q) = lim[q][i] /\ lim[q][i] \in Int
        /\ \A i \in 1..2 : lim["min"][i] <= lim["def"][i] /\ lim["def"][i] <= lim["max"][i]
    BY PanTiltLimits
  <2> HIDE DEF lim
  <2> QED BY <2>1
<1>10. ASSUME failures' = 0
       PROVE  /\ vs["mPan"] = OwnLimits(c, "mPan") /\ vs["mTilt"] = OwnLimits(c, "mTilt")
  <2>1. Whole(values) /\ f = "no"
    BY <1>10 DEF Good
  <2> QED BY <1>3, <1>4, <2>1, LearnIsWhole DEF vs
<1>11. /\ current.Pan < 0 \/ (lim["min"][1] <= current.Pan /\ current.Pan <= lim["max"][1])
       /\ current.Tilt < 0 \/ (lim["min"][2] <= current.Tilt /\ current.Tilt <= lim["max"][2])
  <2>1. CASE current = [Pan |-> -1, Tilt |-> -1]
    BY <2>1
  <2>2. CASE current = [Pan |-> register["pantilt_abs"][1], Tilt |-> register["pantilt_abs"][2]]
    <3>1. register["pantilt_abs"] \in Seq(Int) /\ Len(register["pantilt_abs"]) = 2
          /\ Holds("pantilt_abs", register["pantilt_abs"])
      BY OwnPanTilt DEF TypedInv, Holding, Holds
    <3>2. \A i \in 1..2 : lim["min"][i] <= register["pantilt_abs"][i] /\ register["pantilt_abs"][i] <= lim["max"][i]
      BY <3>1 DEF Holds
    <3> HIDE DEF lim
    <3> QED BY <2>2, <3>2
  <2> QED BY <2>1, <2>2 DEF ControlsInv, AnglesInv
<1> HIDE DEF lim
<1>12. ASSUME NEW kept, NEW low \in Int, NEW high \in Int, kept.min = low, kept.max = high, low <= high
       PROVE  low <= Clamp(v, <<"i32">>, kept)[1] /\ Clamp(v, <<"i32">>, kept)[1] <= high
  <2>1. v \in Int /\ <<"i32">> \in FieldTypes /\ 1 \in DOMAIN <<"i32">>
    <3>1. v \in Int
      BY DEF ControlsAssumption
    <3>2. <<"i32">> \in FieldTypes /\ 1 \in DOMAIN <<"i32">>
      BY DEF FieldTypes
    <3> QED BY <3>1, <3>2
  <2>2. As(low, <<"i32">>[1]) = low /\ As(high, <<"i32">>[1]) = high
    BY DEF As, Size
  <2>3. low = Bounds(kept.min, <<"i32">>)[1] /\ high = Bounds(kept.max, <<"i32">>)[1]
    BY <1>12 DEF Bounds
  <2> QED BY <1>12, <2>1, <2>2, <2>3, ClampIsBetween
<1>13. ASSUME failures' = 0
       PROVE  /\ lim["min"][1] <= pan /\ pan <= lim["max"][1]
              /\ lim["min"][2] <= tilt /\ tilt <= lim["max"][2]
  <2>1. "min" \in Queries /\ "def" \in Queries /\ "max" \in Queries
    BY DEF Queries
  <2>2. /\ vs["mPan"].min = lim["min"][1] /\ vs["mPan"].max = lim["max"][1] /\ vs["mPan"].def = lim["def"][1]
        /\ vs["mTilt"].min = lim["min"][2] /\ vs["mTilt"].max = lim["max"][2] /\ vs["mTilt"].def = lim["def"][2]
    BY <1>9, <1>10, <1>13, <2>1 DEF OwnLimits
  <2>3. /\ lim["min"][1] \in Int /\ lim["max"][1] \in Int /\ lim["min"][1] <= lim["max"][1]
        /\ lim["min"][2] \in Int /\ lim["max"][2] \in Int /\ lim["min"][2] <= lim["max"][2]
    BY <1>9, <2>1
  <2>4. /\ lim["min"][1] <= Clamp(v, <<"i32">>, vs["mPan"])[1] /\ Clamp(v, <<"i32">>, vs["mPan"])[1] <= lim["max"][1]
    BY <1>12, <2>2, <2>3
  <2>5. /\ lim["min"][2] <= Clamp(v, <<"i32">>, vs["mTilt"])[1] /\ Clamp(v, <<"i32">>, vs["mTilt"])[1] <= lim["max"][2]
    BY <1>12, <2>2, <2>3
  <2> QED BY <1>9, <1>11, <2>2, <2>4, <2>5
<1> HIDE DEF pan, tilt
<1>14. <<pan, tilt>> \in Seq(Int) /\ Len(<<pan, tilt>>) = 2 /\ DOMAIN <<pan, tilt>> = 1..2
  BY <1>8
<1>15. failures' = 0 => Fine(c, <<pan, tilt>>)
  <2>1. failures' = 0 => \A i \in DOMAIN <<pan, tilt>> : /\ lim["min"][i] <= <<pan, tilt>>[i]
                                                         /\ <<pan, tilt>>[i] <= lim["max"][i]
    BY <1>13, <1>14
  <2> QED BY <1>3, <1>14, <2>1, BetweenIsFine DEF lim
<1>16. MaySend(c, <<pan, tilt>>)
  BY <1>14, <1>15 DEF MaySend
<1>17. current' \in Angle
  <2>1. [Pan |-> pan, Tilt |-> tilt] \in Angle
    BY <1>8 DEF Angle
  <2> QED BY <1>2, <2>1
<1>18. values' \in Known /\ fields' \in [Fields -> [Queries -> Int]]
  BY <1>2, <1>4 DEF Typed
<1>19. Nothing \/ \E x : MaySend(c, x) /\ Request(c, x, f)
  BY <1>2, <1>16
<1> QED BY <1>17, <1>18, <1>19, CallKeepsTypes

LEMMA UpdateCameraParamsTyped ==
  ASSUME ControlsAssumption, CamerasAssumption, ControlsInv, KnownInv, TypedInv, NEW failing, NEW f,
         UpdateCameraParams(failing, f)
  PROVE  TypedInv' /\ RequestsAreTaken'
<1> DEFINE s == [values |-> values, fields |-> fields, ctrl |-> Bits("ctrl"), proc |-> Bits("proc")]
           t == IF s.ctrl # {} /\ s.proc # {} THEN Refreshed(s, failing, f) ELSE s
<1>1. /\ f \in Faults /\ Fault(f) /\ camera # NoCamera /\ camera \in Cameras
      /\ UNCHANGED <<camera, opened, has, register, current, inUse>>
  BY FaultCounts, CameraIsOne DEF UpdateCameraParams
<1>2. /\ mCtrlSupports' = s.ctrl /\ mPUSupports' = s.proc
      /\ supports' = [ctrl |-> s.ctrl, proc |-> s.proc] /\ Becomes(t)
      /\ call' = [sets |-> {}, refused |-> FALSE]
  BY DEF UpdateCameraParams, Returns
<1>3. s.ctrl \subseteq Range(CTRL) /\ s.proc \subseteq Range(PU)
  BY MaskBits DEF Bits, KnownInv
<1>4. State(s) /\ Typed(s)
  <2>1. s.values = values /\ s.fields = fields /\ State(s)
    BY DEF State
  <2> HIDE DEF s
  <2> QED BY <2>1 DEF Typed, TypedInv, TypeOK, Known
<1> HIDE DEF s
<1>5. Typed(t)
  BY <1>1, <1>4, RefreshedIsTyped
<1> HIDE DEF t
<1>6. values' \in Known /\ fields' \in [Fields -> [Queries -> Int]]
  BY <1>2, <1>5 DEF Typed, Becomes
<1>7. failures' \in 0..MaxFailures
  BY <1>1 DEF Fault, TypedInv, TypeOK, ControlsAssumption
<1>8. /\ supports'.ctrl = mCtrlSupports' /\ supports'.proc = mPUSupports'
      /\ mCtrlSupports' \subseteq Range(CTRL) /\ mPUSupports' \subseteq Range(PU)
  BY <1>2, <1>3
<1>9. \A r, x : Holds(r, x) => Holds(r, x)'
  BY <1>1 DEF Holds
<1>10. Holding'
  BY <1>1, <1>9 DEF TypedInv, Holding
<1>11. \A d \in inUse' : Holds(Selector(d), register[Selector(d)])'
  <2>1. \A d \in inUse' : Selector(d) \in Selectors
    BY <1>1, SelectorIsOne DEF ControlsInv
  <2> QED BY <1>10, <2>1 DEF Holding
<1>12. TypeOK'
  BY <1>1, <1>6, <1>7, <1>8, <1>11 DEF TypedInv, TypeOK, Known, Selector
<1>13. RequestsAreTaken'
  BY <1>2 DEF RequestsAreTaken
<1> QED BY <1>10, <1>12, <1>13 DEF TypedInv

LEMMA ConnectTyped ==
  ASSUME ControlsAssumption, CamerasAssumption, ControlsInv, KnownInv, TypedInv, Connect
  PROVE  TypedInv' /\ RequestsAreTaken'
<1>1. /\ opened' = opened + 1 /\ camera' = opened' /\ opened' \in 0..MaxOpens /\ camera' \in Cameras
      /\ has' \in {Controls, inUse} /\ UNCHANGED <<fields, supports, inUse, failures>>
      /\ register' = [s \in Selectors |-> Limits[camera'][s]["max"]]
      /\ values' = [m \in Members |-> Unknown] /\ current' = [Pan |-> -1, Tilt |-> -1]
      /\ mCtrlSupports' = {} /\ mPUSupports' = {}
      /\ call' = [sets |-> {}, refused |-> FALSE]
  BY DEF Connect, ClearCameraParams, Returns, java, TypedInv, TypeOK, ControlsAssumption, Cameras
<1>2. supports = [ctrl |-> {}, proc |-> {}]
  BY DEF Connect, KnownInv
<1>3. ASSUME NEW s \in Selectors
      PROVE  register'[s] \in Seq(Int) /\ Holds(s, register[s])'
  <2> DEFINE lim(q) == Limits[camera'][s][q]
  <2>1. /\ \A q \in Queries : lim(q) \in Seq(Int) /\ Len(lim(q)) = Len(Own[s])
        /\ \A i \in DOMAIN Own[s] : lim("min")[i] <= lim("def")[i] /\ lim("def")[i] <= lim("max")[i]
    BY <1>1 DEF CamerasAssumption
  <2>2. DOMAIN Own[s] = 1..Len(Own[s])
    BY OwnShapes DEF FieldTypes
  <2>3. register'[s] = lim("max")
    BY <1>1
  <2>4. "min" \in Queries /\ "def" \in Queries /\ "max" \in Queries
    BY DEF Queries
  <2>5. Holds(s, register[s])' <=>
          /\ Len(register'[s]) = Len(Own[s])
          /\ \A i \in DOMAIN register'[s] : lim("min")[i] <= register'[s][i] /\ register'[s][i] <= lim("max")[i]
    BY DEF Holds
  <2> HIDE DEF lim
  <2>6. \A q \in Queries : lim(q) \in Seq(Int) /\ DOMAIN lim(q) = DOMAIN Own[s]
    BY <2>1, <2>2
  <2>7. \A i \in DOMAIN Own[s] : lim("min")[i] \in Int /\ lim("def")[i] \in Int /\ lim("max")[i] \in Int
    BY <2>4, <2>6
  <2>8. \A i \in DOMAIN Own[s] : lim("min")[i] <= lim("max")[i] /\ lim("max")[i] <= lim("max")[i]
    BY <2>1, <2>7
  <2> QED BY <2>1, <2>3, <2>4, <2>5, <2>6, <2>8
<1>4. Holding'
  BY <1>3 DEF Holding
<1>5. \A d \in inUse' : Holds(Selector(d), register[Selector(d)])'
  <2>1. \A d \in inUse' : Selector(d) \in Selectors
    BY <1>1, SelectorIsOne DEF ControlsInv
  <2> QED BY <1>4, <2>1 DEF Holding
<1>6. values' \in Known /\ current' \in Angle
  BY <1>1 DEF Known, Unknown, Angle
<1>7. supports'.ctrl = {} /\ supports'.proc = {}
  BY <1>1, <1>2
<1>8. TypeOK'
  BY <1>1, <1>5, <1>6, <1>7 DEF TypedInv, TypeOK, Known, Angle, Selector
<1>9. RequestsAreTaken'
  BY <1>1 DEF RequestsAreTaken
<1> QED BY <1>4, <1>8, <1>9 DEF TypedInv

LEMMA CloseTyped ==
  ASSUME TypedInv, Close
  PROVE  TypedInv' /\ RequestsAreTaken'
<1>1. /\ camera' = NoCamera /\ has' = {} /\ values' = [m \in Members |-> Unknown]
      /\ current' = [Pan |-> -1, Tilt |-> -1] /\ mCtrlSupports' = {} /\ mPUSupports' = {}
      /\ supports'.ctrl = {} /\ supports'.proc = {} /\ UNCHANGED <<opened, fields, inUse, failures>>
      /\ call' = [sets |-> {}, refused |-> FALSE]
  BY DEF Close, ClearCameraParams, Returns
<1>2. values' \in Known /\ current' \in Angle
  BY <1>1 DEF Known, Unknown, Angle
<1>3. TypeOK'
  BY <1>1, <1>2 DEF TypedInv, TypeOK, Known, Angle
<1>4. RequestsAreTaken'
  BY <1>1 DEF RequestsAreTaken
<1> QED BY <1>1, <1>3, <1>4 DEF TypedInv

LEMMA NextTyped ==
  ASSUME ControlsAssumption, CamerasAssumption, ControlsInv, KnownInv, TypedInv, RequestsAreTaken, [Next]_vars
  PROVE  TypedInv' /\ RequestsAreTaken'
<1>1. CASE Connect
  BY <1>1, ConnectTyped
<1>2. CASE Close
  BY <1>2, CloseTyped
<1>3. ASSUME NEW f \in Faults, NEW c \in inUse,
             Reset(c, f) \/ GetPercent(c, f) \/ ConvertPercent(c, f) \/ \E p \in Percents : SetPercent(c, p, f)
      PROVE  TypedInv' /\ RequestsAreTaken'
  BY <1>3, JavaTyped
<1>4. ASSUME NEW f \in Faults, NEW c \in inUse, UpdateCameraParams(c, f)
      PROVE  TypedInv' /\ RequestsAreTaken'
  BY <1>4, UpdateCameraParamsTyped
<1>5. ASSUME NEW f \in Faults, NEW c \in inUse,
             \/ NativeUpdate(c, f) \/ NativeGet(c, f)
             \/ \E v \in Requests : NativeSetClamped(c, v, f) \/ NativeSetDirect(c, v, f)
      PROVE  TypedInv' /\ RequestsAreTaken'
  BY <1>5, NativeTyped
<1>6. ASSUME NEW f \in Faults, NEW c \in inUse, NEW v \in Requests, SetPowerline(c, v, f) \/ SetPanTilt(c, v, f)
      PROVE  TypedInv' /\ RequestsAreTaken'
  BY <1>6, PowerlineTyped, TurnTyped
<1>7. CASE UNCHANGED vars
  <2>1. UNCHANGED <<camera, opened, has, register, values, current, mCtrlSupports, mPUSupports, fields, supports,
                    inUse, call, failures>>
    BY <1>7 DEF vars, native, java
  <2>2. Holding => Holding'
    BY <2>1 DEF Holding, Holds
  <2>3. TypeOK'
    BY <2>1 DEF TypedInv, TypeOK, Holds
  <2>4. RequestsAreTaken'
    BY <2>1 DEF RequestsAreTaken
  <2> QED BY <2>1, <2>2, <2>3, <2>4 DEF TypedInv
<1> QED BY <1>1, <1>2, <1>3, <1>4, <1>5, <1>6, <1>7 DEF Next

LEMMA InitTyped == ControlsAssumption /\ Init => TypedInv /\ RequestsAreTaken
<1> SUFFICES ASSUME ControlsAssumption, Init PROVE TypedInv /\ RequestsAreTaken
  OBVIOUS
<1>1. values \in Known /\ fields \in [Fields -> [Queries -> Int]] /\ current \in Angle
  BY DEF Init, Known, Unknown, Angle
<1>2. TypeOK
  BY <1>1 DEF Init, TypeOK, Known, Angle, ControlsAssumption, NoCamera
<1> QED BY <1>2 DEF Init, TypedInv, RequestsAreTaken

\* What TypeCorrect and ClampedRequestsAreTaken rest on: the four invariants hold together.
THEOREM TypesHold == ControlsAssumption /\ CamerasAssumption /\ Spec => [](TypedInv /\ RequestsAreTaken)
<1> SUFFICES ASSUME ControlsAssumption, CamerasAssumption PROVE Spec => [](TypedInv /\ RequestsAreTaken)
  OBVIOUS
<1>1. Init => TypedInv /\ RequestsAreTaken /\ ControlsInv /\ KnownInv
  BY InitTyped, InitInv DEF Init, KnownInv, NoCamera
<1>2. /\ ControlsInv /\ KnownInv /\ TypedInv /\ RequestsAreTaken /\ [Next]_vars
      => ControlsInv' /\ KnownInv' /\ TypedInv' /\ RequestsAreTaken'
  BY NextInv, NextKnown, NextTyped
<1> QED BY <1>1, <1>2, PTL DEF Spec

\* Each variable has its type: what is kept are ints, and a camera's registers hold what it takes,
\* whatever
\* is asked for and whatever transfers fail.
THEOREM TypeCorrect == ControlsAssumption /\ CamerasAssumption /\ Spec => []TypeOK
<1> SUFFICES ASSUME ControlsAssumption, CamerasAssumption PROVE Spec => []TypeOK
  OBVIOUS
<1>1. TypedInv => TypeOK
  BY DEF TypedInv
<1> QED BY <1>1, TypesHold, PTL

\* If no transfer has failed, a camera whose limits are in order takes every request of a control that is
\* clamped and not mixed up with another, and of the powerline frequency.
THEOREM ClampedRequestsAreTaken == ControlsAssumption /\ CamerasAssumption /\ Spec => []RequestsAreTaken
<1> SUFFICES ASSUME ControlsAssumption, CamerasAssumption PROVE Spec => []RequestsAreTaken
  OBVIOUS
<1> QED BY TypesHold, PTL
=============================================================================
