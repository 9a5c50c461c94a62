--------------------------- MODULE CameraControls ---------------------------
(***************************************************************************)
(* The camera's controls (brightness, focus, pan and tilt, ...) through    *)
(* three layers: UVCCamera.java, which speaks per cent; the native         *)
(* UVCCamera, which keeps each control's limits and clamps requests to     *)
(* them; and libuvc, whose accessors turn a request into a control         *)
(* transfer.  The camera answers a request for a limit (min, max, def) or  *)
(* for the current value and takes or refuses a new value.                 *)
(*                                                                         *)
(* The methods of the Java object are synchronized, so a call is one step. *)
(* A control that differs from the others only by its names is a row of a  *)
(* table: Accessor is ctrl.c, Row the native UVCCamera, Percent the Java   *)
(* object.  The controls the client uses, inUse, are chosen at the start.  *)
(***************************************************************************)
EXTENDS Integers, Sequences, SequencesExt

CONSTANTS
  MaxOpens,     \* bound on the cameras that are opened, one after the other
  Limits,       \* of a camera: [selector -> [min, max, def -> its fields]]
  Requests,     \* the values a client asks for, of natives
  Percents,     \* and of Java methods
  Combinations, \* the sets of controls a client may use
  MaxFailures   \* bound on the control transfers that fail

Queries == {"min", "max", "def"}
Cameras  == 1..MaxOpens
NoCamera == 0

\* Tables of different rows as one.
Joined(tables) ==
  [name \in UNION {DOMAIN t : t \in tables} |-> (CHOOSE t \in tables : name \in DOMAIN t)[name]]

-----------------------------------------------------------------------------
(* The accessors of libuvc: uvc_get_x and uvc_set_x send a request to a    *)
(* selector, with the types of the fields it carries.                      *)

Access(selector, types) == [selector |-> selector, types |-> types]

ExposureAccess ==
  [ae_mode      |-> Access("ae_mode", <<"u8">>),
   ae_priority  |-> Access("ae_priority", <<"u8">>),
   exposure_abs |-> Access("exposure_abs", <<"i32">>),
   exposure_rel |-> Access("exposure_rel", <<"u8">>)]  \* an int, read from and cut to a byte

FocusAccess ==
  [scanning_mode |-> Access("scanning_mode", <<"u8">>),
   focus_auto    |-> Access("focus_auto", <<"u8">>),
   focus_abs     |-> Access("focus_abs", <<"i16">>),
   focus_rel     |-> Access("focus_rel", <<"i8", "u8">>)]

\* The iris is sent to the selectors of the focus.
IrisZoomAccess ==
  [iris_abs |-> Access("focus_abs", <<"u16">>),
   iris_rel |-> Access("focus_rel", <<"u8">>),
   zoom_abs |-> Access("zoom_abs", <<"u16">>),
   zoom_rel |-> Access("zoom_rel", <<"i8", "u8", "u8">>)]

PanTiltAccess == [pantilt_abs |-> Access("pantilt_abs", <<"i32", "i32">>)]

RollAccess == [roll_abs |-> Access("roll_abs", <<"i16">>)]

PrivacyAccess == [privacy |-> Access("privacy", <<"u8">>)]

LightAccess ==
  [backlight_compensation |-> Access("backlight_compensation", <<"i16">>),
   brightness    |-> Access("brightness", <<"i16">>),
   contrast      |-> Access("contrast", <<"u16">>),
   contrast_auto |-> Access("contrast_auto", <<"u8">>)]

GainHueAccess ==
  [gain      |-> Access("gain", <<"u16">>),
   powerline |-> Access("powerline", <<"u8">>),
   hue       |-> Access("hue", <<"i16">>),
   hue_auto  |-> Access("hue_auto", <<"u8">>)]

ToneAccess ==
  [saturation     |-> Access("saturation", <<"u16">>),
   sharpness      |-> Access("sharpness", <<"u16">>),
   gamma          |-> Access("gamma", <<"u16">>),
   wb_temperature |-> Access("wb_temperature", <<"u16">>)]

WhiteAccess ==
  [wb_temperature_auto |-> Access("wb_temperature_auto", <<"u8">>),
   wb_component        |-> Access("wb_component", <<"u32">>),
   wb_component_auto   |-> Access("wb_component_auto", <<"u8">>),
   multiplier          |-> Access("multiplier", <<"u16">>)]

AnalogAccess ==
  [multiplier_limit |-> Access("multiplier_limit", <<"u16">>),
   video_standard   |-> Access("video_standard", <<"u8">>),
   video_lockstate  |-> Access("video_lockstate", <<"u8">>)]

Accessor ==
  Joined({ExposureAccess, FocusAccess, IrisZoomAccess, PanTiltAccess, RollAccess, PrivacyAccess,
          LightAccess, GainHueAccess, ToneAccess, WhiteAccess, AnalogAccess})

Selectors == {Accessor[a].selector : a \in DOMAIN Accessor}

\* The types of a selector's fields in the standard, and so in the camera.
Own == [s \in Selectors |-> IF s = "exposure_rel" THEN <<"i8">> ELSE Accessor[s].types]

Low  == [u8 |-> 0, i8 |-> -128, u16 |-> 0, i16 |-> -32768]
Size == [u8 |-> 256, i8 |-> 256, u16 |-> 65536, i16 |-> 65536]

\* The int v, or the bytes of v, as a C integer type. 32 bits are not exceeded here, but
\* a negative number becomes a large one.
As(v, type) ==
  IF type \in DOMAIN Size THEN ((v - Low[type]) % Size[type]) + Low[type]
  ELSE IF type = "u32" /\ v < 0 THEN 2147483647 ELSE v

\* Several fields are kept in one int, each in a byte of it, and a client passes them in one.
Shifts(n)        == IF n = 1 THEN <<1>> ELSE IF n = 2 THEN <<256, 1>> ELSE <<65536, 256, 1>>
Pack(fields)     == IF Len(fields) = 1 THEN fields[1]
                    ELSE IF Len(fields) = 2 THEN fields[1] * 256 + fields[2]
                    ELSE fields[1] * 65536 + fields[2] * 256 + fields[3]
Unpack(v, types) == [i \in DOMAIN types |-> As(v \div Shifts(Len(types))[i], types[i])]

-----------------------------------------------------------------------------
(* The native UVCCamera: of each control the member (or members) that keep *)
(* its limits, the bit that says whether the camera has it, the accessor,  *)
(* and, where they differ, the bit and the accessor of updateXLimit and    *)
(* the accessor by which getX reads the limits.                            *)

CTRL ==
  [SCANNING |-> 0, AE |-> 1, AE_PRIORITY |-> 2, AE_ABS |-> 3, AE_REL |-> 4, FOCUS_ABS |-> 5,
   FOCUS_REL |-> 6, IRIS_ABS |-> 7, IRIS_REL |-> 8, ZOOM_ABS |-> 9, ZOOM_REL |-> 10,
   PANTILT_ABS |-> 11, ROLL_ABS |-> 13, FOCUS_AUTO |-> 17, PRIVACY |-> 18]

PU ==
  [BRIGHTNESS |-> 0, CONTRAST |-> 1, HUE |-> 2, SATURATION |-> 3, SHARPNESS |-> 4, GAMMA |-> 5,
   WB_TEMP |-> 6, WB_COMPO |-> 7, BACKLIGHT |-> 8, GAIN |-> 9, POWER_LF |-> 10, HUE_AUTO |-> 11,
   WB_TEMP_AUTO |-> 12, WB_COMPO_AUTO |-> 13, DIGITAL_MULT |-> 14, DIGITAL_LIMIT |-> 15,
   AVIDEO_STD |-> 16, AVIDEO_LOCK |-> 17, CONTRAST_AUTO |-> 18]

\* A bit of mCtrlSupports, and of mPUSupports.
Ctrl(bit) == [unit |-> "ctrl", bit |-> bit]
Proc(bit) == [unit |-> "proc", bit |-> bit]

\* setX clamps the value to the limits.
Clamped(member, mask, access) ==
  [how |-> "clamped", members |-> <<member>>, mask |-> mask, updateMask |-> mask,
   access |-> access, update |-> access, getLimits |-> access]

\* setX sends the value as it is, and getX reads no limits.
Direct(member, updateMask, mask, access) ==
  [Clamped(member, mask, access) EXCEPT !.how = "direct", !.updateMask = updateMask]

\* The same with a boolean.
Switch(member, updateMask, mask, access) ==
  [Direct(member, updateMask, mask, access) EXCEPT !.how = "switch"]

ExposureModeRows ==
  [ScanningMode     |-> Direct("mScanningMode", Proc(CTRL.SCANNING), Ctrl(CTRL.SCANNING), "scanning_mode"),
   ExposureMode     |-> Direct("mExposureMode", Proc(CTRL.AE), Ctrl(CTRL.AE), "ae_mode"),
   ExposurePriority |-> Direct("mExposurePriority", Proc(CTRL.AE_PRIORITY), Ctrl(CTRL.AE_PRIORITY), "ae_priority")]

ExposureRows ==
  [Exposure    |-> Direct("mExposureAbs", Proc(CTRL.AE_ABS), Ctrl(CTRL.AE_ABS), "exposure_abs"),
   ExposureRel |-> Direct("mExposureAbs", Proc(CTRL.AE_REL), Ctrl(CTRL.AE_REL), "exposure_rel")]

FocusRows ==
  [AutoFocus |-> Switch("mAutoFocus", Proc(CTRL.FOCUS_AUTO), Ctrl(CTRL.FOCUS_AUTO), "focus_auto"),
   Focus     |-> Clamped("mFocus", Ctrl(CTRL.FOCUS_ABS), "focus_abs"),
   FocusRel  |-> [Clamped("mFocusRel", Ctrl(CTRL.FOCUS_REL), "focus_rel")
                    EXCEPT !.getLimits = "focus_abs"]]

IrisRows ==
  [Iris    |-> Clamped("mIris", Ctrl(CTRL.IRIS_ABS), "iris_abs"),
   IrisRel |-> Clamped("mIris", Ctrl(CTRL.IRIS_REL), "iris_rel")]

\* One accessor carries both, and either reads both members' limits.
PanTiltRow == [Clamped("mPan", Ctrl(CTRL.PANTILT_ABS), "pantilt_abs")
                 EXCEPT !.how = "pantilt", !.members = <<"mPan", "mTilt">>]
PanTiltRows == [Pan |-> PanTiltRow, Tilt |-> PanTiltRow]

RollRows == [Roll |-> Clamped("mRoll", Ctrl(CTRL.ROLL_ABS), "roll_abs")]

PrivacyRows == [Privacy |-> [Clamped("mPrivacy", Ctrl(CTRL.PRIVACY), "privacy")
                               EXCEPT !.update = "focus_abs"]]

LightRows ==
  [BacklightComp |-> Clamped("mBacklightComp", Proc(PU.BACKLIGHT), "backlight_compensation"),
   Brightness    |-> Clamped("mBrightness", Proc(PU.BRIGHTNESS), "brightness"),
   Contrast      |-> Clamped("mContrast", Proc(PU.CONTRAST), "contrast"),
   AutoContrast  |-> Switch("mAutoFocus", Proc(PU.CONTRAST_AUTO), Proc(PU.CONTRAST_AUTO), "contrast_auto")]

GainRows ==
  [Sharpness       |-> Clamped("mSharpness", Proc(PU.SHARPNESS), "sharpness"),
   Gain            |-> Clamped("mGain", Proc(PU.GAIN), "gain"),
   AutoWhiteBlance |-> Switch("mAutoWhiteBlance", Proc(PU.WB_TEMP_AUTO), Proc(PU.WB_TEMP_AUTO),
                              "wb_temperature_auto")]

WhiteRows ==
  [AutoWhiteBlanceCompo |-> Switch("mAutoWhiteBlanceCompo", Proc(PU.WB_COMPO_AUTO),
                                   Proc(PU.WB_COMPO_AUTO), "wb_component_auto"),
   WhiteBlance          |-> Clamped("mWhiteBlance", Proc(PU.WB_TEMP), "wb_temperature"),
   WhiteBlanceCompo     |-> Clamped("mWhiteBlanceCompo", Proc(PU.WB_COMPO), "wb_component")]

ColourRows ==
  [Gamma      |-> Clamped("mGamma", Proc(PU.GAMMA), "gamma"),
   Saturation |-> Clamped("mSaturation", Proc(PU.SATURATION), "saturation"),
   Hue        |-> Clamped("mHue", Proc(PU.HUE), "hue"),
   AutoHue    |-> Switch("mAutoHue", Proc(PU.HUE_AUTO), Proc(PU.HUE_AUTO), "hue_auto")]

PowerZoomRows ==
  [PowerlineFrequency |-> [Direct("mPowerlineFrequency", Ctrl(PU.POWER_LF), Proc(PU.POWER_LF), "powerline")
                             EXCEPT !.how = "powerline"],
   Zoom               |-> Clamped("mZoom", Ctrl(CTRL.ZOOM_ABS), "zoom_abs"),
   ZoomRel            |-> Clamped("mZoomRel", Ctrl(CTRL.ZOOM_REL), "zoom_rel")]

DigitalRows ==
  [DigitalMultiplier      |-> Clamped("mMultiplier", Proc(PU.DIGITAL_MULT), "multiplier"),
   DigitalMultiplierLimit |-> Clamped("mMultiplierLimit", Proc(PU.DIGITAL_LIMIT), "multiplier_limit"),
   AnalogVideoStandard    |-> Clamped("mAnalogVideoStandard", Proc(PU.AVIDEO_STD), "video_standard"),
   AnalogVideoLockState   |-> Clamped("mAnalogVideoLockState", Proc(PU.AVIDEO_LOCK), "video_lockstate")]

Row ==
  Joined({ExposureModeRows, ExposureRows, FocusRows, IrisRows, PanTiltRows, RollRows, PrivacyRows,
          LightRows, GainRows, WhiteRows, ColourRows, PowerZoomRows, DigitalRows})

Controls == DOMAIN Row
Members  == UNION {Range(Row[c].members) : c \in Controls}

ASSUME ControlsAssumption ==
  /\ MaxOpens \in Nat /\ Percents \subseteq 0..100 /\ Requests \subseteq Int /\ MaxFailures \in Nat
  /\ \A cs \in Combinations : cs \subseteq Controls

\* The limits of a camera are values of the fields' types and in order, and those of the
\* frequency are what the camera's version of the standard says.
ASSUME CamerasAssumption ==
  \A k \in Cameras, s \in Selectors :
    LET lim == Limits[k][s]
    IN  /\ \A q \in Queries :
             /\ lim[q] \in Seq(Int) /\ Len(lim[q]) = Len(Own[s])
             /\ \A i \in DOMAIN lim[q] : As(lim[q][i], Own[s][i]) = lim[q][i]
        /\ \A i \in DOMAIN Own[s] : lim["min"][i] <= lim["def"][i] /\ lim["def"][i] <= lim["max"][i]
        /\ s = "powerline" => lim["min"] = <<0>> /\ lim["max"] \in {<<2>>, <<3>>}

-----------------------------------------------------------------------------
(* The glue: of these controls, nativeUpdateXLimit writes the limits into  *)
(* fields of the Java object. For the others it looks for fields that are  *)
(* not there; the limits of pan and tilt are never reported as read.       *)

ModeNatives     == {"ScanningMode", "ExposureMode", "ExposurePriority"}
ExposureNatives == {"Exposure", "AutoFocus"}
LightNatives    == {"AutoWhiteBlance", "AutoWhiteBlanceCompo", "Brightness"}
FocusNatives    == {"Focus", "FocusRel", "Iris"}
TurnNatives     == {"IrisRel", "Pan", "Tilt"}
RollNatives     == {"Roll"}
ContrastNatives == {"Contrast", "Sharpness"}
GainNatives     == {"Gain", "Gamma", "WhiteBlance"}
ColourNatives   == {"WhiteBlanceCompo", "BacklightComp", "Saturation"}
HueNatives      == {"Hue", "PowerlineFrequency"}
ZoomNatives     == {"Zoom", "ZoomRel"}
AnalogNatives   == {"AnalogVideoStandard", "AnalogVideoLockState", "Privacy"}

Fields ==
  ModeNatives \cup ExposureNatives \cup LightNatives \cup FocusNatives \cup TurnNatives \cup RollNatives
  \cup ContrastNatives \cup GainNatives \cup ColourNatives \cup HueNatives \cup ZoomNatives \cup AnalogNatives

-----------------------------------------------------------------------------
(* The Java methods in per cent: whether setX and getX(int) refresh the    *)
(* range, whose getX(int) is used by getX(), and whose default by resetX.  *)

Ranged(control) == [refreshSet |-> FALSE, refreshGet |-> TRUE, through |-> control, reset |-> control]

FocusPercents == [Focus       |-> Ranged("Focus"),
                  WhiteBlance |-> [Ranged("WhiteBlance") EXCEPT !.through = "Focus"]]

LightPercents == [Brightness |-> Ranged("Brightness"),
                  Contrast   |-> [Ranged("Contrast") EXCEPT !.refreshSet = TRUE, !.refreshGet = FALSE],
                  Sharpness  |-> Ranged("Sharpness")]

ColourPercents == [Gain |-> Ranged("Gain"), Gamma |-> Ranged("Gamma"), Saturation |-> Ranged("Saturation")]

HuePercents == [Hue  |-> [Ranged("Hue") EXCEPT !.reset = "Saturation"],
                Zoom |-> Ranged("Zoom")]

Percent == Joined({FocusPercents, LightPercents, ColourPercents, HuePercents})

-----------------------------------------------------------------------------
VARIABLES
  camera,         \* that is open, or NoCamera
  opened,         \* how many have been opened
  has,            \* the controls the camera has
  register,       \* the current fields of each of its selectors
  values,         \* of each member: the limits that are known, else 0
  current,        \* mPan.current and mTilt.current
  mCtrlSupports,
  mPUSupports,
  fields,         \* the Java object's limits
  supports,       \* its mControlSupports and mProcSupports
  inUse,
  call,           \* of the last call: the control it set, and whether the camera refused
  failures

native == <<values, current, mCtrlSupports, mPUSupports>>
java   == <<fields, supports>>
vars   == <<camera, opened, has, register, native, java, inUse, call, failures>>

Unknown == [q \in Queries |-> 0]

Init ==
  /\ camera = NoCamera
  /\ opened = 0
  /\ has = {}
  /\ register      = [s \in Selectors |-> <<0>>]
  /\ values        = [m \in Members |-> Unknown]
  /\ current       = [Pan |-> -1, Tilt |-> -1]
  /\ mCtrlSupports = {}
  /\ mPUSupports   = {}
  /\ fields        = [c \in Fields |-> Unknown]
  /\ supports      = [ctrl |-> {}, proc |-> {}]
  /\ inUse \in Combinations
  /\ call          = [sets |-> {}, refused |-> FALSE]
  /\ failures      = 0

\* Which of a call's transfers fails: that for a limit, that for the value, or none.
Faults == Queries \cup {"cur", "no"}

Fault(f) ==
  /\ f \in Faults
  /\ f # "no" => failures < MaxFailures
  /\ failures' = IF f = "no" THEN failures ELSE failures + 1

Returns(cs, refused) == call' = [sets |-> cs, refused |-> refused]

-----------------------------------------------------------------------------
(* The camera *)

Answer(a, q) ==
  LET types == Accessor[a].types
  IN  [i \in DOMAIN types |-> As(Limits[camera][Accessor[a].selector][q][i], types[i])]

Holds(s, x) ==
  /\ Len(x) = Len(Own[s])
  /\ \A i \in DOMAIN x : Limits[camera][s]["min"][i] <= x[i] /\ x[i] <= Limits[camera][s]["max"][i]

\* The register takes the bytes of the fields x as its own types, unless the camera
\* refuses them or the transfer fails.
Stored(a, x) ==
  LET own == Own[Accessor[a].selector]
  IN  [i \in DOMAIN x |-> IF i \in DOMAIN own THEN As(x[i], own[i]) ELSE x[i]]
Taken(a, x, f) == f # "cur" /\ Holds(Accessor[a].selector, Stored(a, x))
Sent(a, x, f) ==
  register' = IF Taken(a, x, f) THEN [register EXCEPT ![Accessor[a].selector] = Stored(a, x)]
              ELSE register

-----------------------------------------------------------------------------
(* The native camera's part of a call, as functions of the state s that    *)
(* the call has reached.                                                   *)

Now == [values |-> values, fields |-> fields, ctrl |-> mCtrlSupports, proc |-> mPUSupports]

Supported(mask, s) == mask.bit \in s[mask.unit]

\* update_ctrl_values: the limits are asked for while both are 0 (of either member, if
\* there are two). A transfer that fails leaves what was read before it.
AllKnown(vs, members) == \A i \in DOMAIN members : vs[members[i]].min # 0 \/ vs[members[i]].max # 0
Read == [min |-> {}, max |-> {"min"}, def |-> {"min", "max"}, cur |-> Queries, no |-> Queries]
Learn(vs, members, a, f) ==
  LET value(i, q) == IF Len(members) = 1 THEN Pack(Answer(a, q)) ELSE Answer(a, q)[i]
      learnt(i)   == [q \in Queries |-> IF q \in Read[f] THEN value(i, q) ELSE vs[members[i]][q]]
  IN  IF AllKnown(vs, members) THEN vs
      ELSE [m \in Members |-> IF \E i \in DOMAIN members : members[i] = m
                              THEN learnt(CHOOSE i \in DOMAIN members : members[i] = m) ELSE vs[m]]
Learnt(vs, members, f) == AllKnown(vs, members) \/ Read[f] = Queries

\* nativeUpdateXLimit
Updated(s, c, f) ==
  LET row == Row[c]
  IN  IF ~Supported(row.updateMask, s) THEN s
      ELSE LET vs == Learn(s.values, row.members, row.update, f)
               fs == IF Learnt(s.values, row.members, f) /\ c \in Fields /\ row.how # "pantilt"
                     THEN [s.fields EXCEPT ![c] = vs[row.members[1]]] ELSE s.fields
           IN  [values |-> vs, fields |-> fs, ctrl |-> s.ctrl, proc |-> s.proc]

\* What getX learns.
Looked(s, c, f) ==
  LET row == Row[c]
  IN  IF row.how \in {"clamped", "pantilt"} /\ Supported(row.mask, s)
      THEN [s EXCEPT !.values = Learn(@, row.members, row.getLimits, f)] ELSE s

(* Mutant: a value above the maximum is sent. *)
ClampBelow(v, types, lim) ==
  LET x == Unpack(v, types)
      low == IF Len(types) = 1 THEN <<lim.min>> ELSE Unpack(lim.min, types)
  IN  [i \in DOMAIN types |-> IF x[i] < low[i] THEN low[i] ELSE x[i]]

\* internalSetCtrlValue: each field between its limits.
Clamp(v, types, lim) ==
  LET bounds(b) == IF Len(types) = 1 THEN <<b>> ELSE Unpack(b, types)
      x         == Unpack(v, types)
      between(w, low, high) == IF w < low THEN low ELSE IF w > high THEN high ELSE w
  IN  [i \in DOMAIN types |-> As(between(x[i], bounds(lim.min)[i], bounds(lim.max)[i]), types[i])]

Becomes(s) == values' = s.values /\ fields' = s.fields

Nothing == UNCHANGED register /\ Returns({}, FALSE)
Request(c, x, f) ==
  /\ Sent(Row[c].access, x, f)
  /\ Returns({c}, f # "cur" /\ ~Taken(Row[c].access, x, f))

SetClamped(s, c, v, f) ==
  LET row == Row[c]
      vs  == IF Supported(row.mask, s) THEN Learn(s.values, row.members, row.access, f) ELSE s.values
  IN  /\ Becomes([s EXCEPT !.values = vs])
      /\ IF Supported(row.mask, s) /\ Learnt(s.values, row.members, f)
         THEN Request(c, Clamp(v, Accessor[row.access].types, vs[row.members[1]]), f)
         ELSE Nothing

-----------------------------------------------------------------------------
(* Opening and closing *)

(* Mutant: the limits of roll are forgotten. *)
ClearMostParams ==
  /\ values'        = [m \in Members |-> IF m = "mRoll" THEN values[m] ELSE Unknown]
  /\ current'       = [Pan |-> -1, Tilt |-> -1]
  /\ mCtrlSupports' = {}
  /\ mPUSupports'   = {}

ClearCameraParams ==
  /\ values'        = [m \in Members |-> Unknown]
  /\ current'       = [Pan |-> -1, Tilt |-> -1]
  /\ mCtrlSupports' = {}
  /\ mPUSupports'   = {}

\* The camera has all controls or just those in use, and its registers are as a client
\* before left them.
Connect ==
  /\ camera = NoCamera /\ opened < MaxOpens
  /\ opened' = opened + 1
  /\ camera' = opened + 1
  /\ has' \in {Controls, inUse}
  /\ register' = [s \in Selectors |-> Limits[opened + 1][s]["max"]]
  /\ ClearCameraParams
  /\ Returns({}, FALSE)
  /\ UNCHANGED <<java, inUse, failures>>

(* Mutant: one of the masks is kept. *)
CloseKeepsMask ==
  /\ camera # NoCamera
  /\ camera' = NoCamera
  /\ has' = {}
  /\ register' = [s \in Selectors |-> <<0>>]
  /\ ClearCameraParams
  /\ supports' = [supports EXCEPT !.proc = {}]
  /\ Returns({}, FALSE)
  /\ UNCHANGED <<opened, fields, inUse, failures>>

Close ==
  /\ camera # NoCamera
  /\ camera' = NoCamera
  /\ has' = {}
  /\ register' = [s \in Selectors |-> <<0>>]
  /\ ClearCameraParams
  /\ supports' = [ctrl |-> {}, proc |-> {}]
  /\ Returns({}, FALSE)
  /\ UNCHANGED <<opened, fields, inUse, failures>>

\* getCtrlSupports and getProcSupports: what the descriptors say.
Bits(unit) == {Row[c].mask.bit : c \in {d \in has : Row[d].mask.unit = unit}}

\* The limits of the ten. A transfer for those of one of them may fail.
RefreshedOne(s, c, failing, f) == Updated(s, c, IF c = failing THEN f ELSE "no")
Refreshed(s, failing, f) ==
  LET up(t, c) == RefreshedOne(t, c, failing, f)
      light    == up(up(up(s, "Brightness"), "Contrast"), "Sharpness")
      tone     == up(up(up(light, "Gain"), "Gamma"), "Saturation")
  IN  up(up(up(up(tone, "Hue"), "Zoom"), "WhiteBlance"), "Focus")

\* Both masks are read, and, if neither is empty, the limits.
UpdateCameraParams(failing, f) ==
  /\ camera # NoCamera /\ Fault(f)
  /\ supports.ctrl = {} \/ supports.proc = {}
  /\ LET s == [values |-> values, fields |-> fields, ctrl |-> Bits("ctrl"), proc |-> Bits("proc")]
     IN  /\ mCtrlSupports' = s.ctrl
         /\ mPUSupports'   = s.proc
         /\ supports'      = [ctrl |-> s.ctrl, proc |-> s.proc]
         /\ Becomes(IF s.ctrl # {} /\ s.proc # {} THEN Refreshed(s, failing, f) ELSE s)
  /\ Returns({}, FALSE)
  /\ UNCHANGED <<camera, opened, has, register, current, inUse>>

-----------------------------------------------------------------------------
(* The Java methods in per cent *)

MayCall(c, f) == camera # NoCamera /\ c \in inUse /\ Fault(f)
Unchanged == UNCHANGED <<camera, opened, has, mCtrlSupports, mPUSupports, supports, inUse>>

\* (int)(p / 100.f * range): the float may come out below a whole number.
Scaled(p, range) ==
  LET whole == (p * range) \div 100
  IN  IF (p * range) % 100 = 0 /\ p % 25 # 0 THEN {whole, whole - 1} ELSE {whole}
Range100(lim) == IF lim.max < lim.min THEN lim.min - lim.max ELSE lim.max - lim.min
OfPercent(p, lim) == {v + lim.min : v \in Scaled(p, Range100(lim))}

SetPercent(c, p, f) ==
  /\ MayCall(c, f) /\ c \in DOMAIN Percent
  /\ LET s == IF Percent[c].refreshSet THEN Updated(Now, c, f) ELSE Now
     IN  IF Range100(s.fields[c]) = 0 THEN Becomes(s) /\ Nothing
         ELSE \E v \in OfPercent(p, s.fields[c]) : SetClamped(s, c, v, f)
  /\ Unchanged /\ UNCHANGED current

Reset(c, f) ==
  /\ MayCall(c, f) /\ c \in DOMAIN Percent
  /\ SetClamped(Now, c, fields[Percent[c].reset].def, f)
  /\ Unchanged /\ UNCHANGED current

GetPercent(c, f) ==
  /\ MayCall(c, f) /\ c \in DOMAIN Percent
  /\ LET s == Looked(Now, c, f)
         t == Percent[c].through
     IN  Becomes(IF Percent[t].refreshGet THEN Updated(s, t, f) ELSE s)
  /\ Nothing
  /\ Unchanged /\ UNCHANGED current

\* getX(int), which converts a value it is given.
ConvertPercent(c, f) ==
  /\ MayCall(c, f) /\ c \in DOMAIN Percent /\ Percent[c].refreshGet
  /\ Becomes(Updated(Now, c, f))
  /\ Nothing
  /\ Unchanged /\ UNCHANGED current

-----------------------------------------------------------------------------
(* The natives of the other controls. Java has methods for AutoFocus,      *)
(* AutoWhiteBlance and PowerlineFrequency and declares the natives of the  *)
(* rest.                                                                   *)

MayCallNative(c, f) == MayCall(c, f) /\ c \notin DOMAIN Percent

NativeUpdate(c, f) ==
  /\ MayCallNative(c, f)
  /\ Becomes(Updated(Now, c, f))
  /\ Nothing
  /\ Unchanged /\ UNCHANGED current

NativeGet(c, f) ==
  /\ MayCallNative(c, f) /\ Row[c].how \in {"clamped", "pantilt"}
  /\ Becomes(Looked(Now, c, f))
  /\ current' = IF /\ Row[c].how = "pantilt" /\ Supported(Row[c].mask, Now)
                   /\ Learnt(values, Row[c].members, f) /\ f # "cur"
                THEN [Pan |-> register.pantilt_abs[1], Tilt |-> register.pantilt_abs[2]] ELSE current
  /\ Nothing
  /\ Unchanged

NativeSetClamped(c, v, f) ==
  /\ MayCallNative(c, f) /\ Row[c].how = "clamped"
  /\ SetClamped(Now, c, v, f)
  /\ Unchanged /\ UNCHANGED current

NativeSetDirect(c, v, f) ==
  /\ MayCallNative(c, f) /\ Row[c].how \in {"direct", "switch"}
  /\ LET w == IF Row[c].how = "switch" /\ v # 0 THEN 1 ELSE v
     IN  IF Supported(Row[c].mask, Now) THEN Request(c, Unpack(w, Accessor[Row[c].access].types), f)
         ELSE Nothing
  /\ Unchanged /\ UNCHANGED <<values, fields, current>>

\* A negative frequency is to stand for the default, but the test of the result is
\* inverted: what is sent is a variable the failed transfer did not set.
Frequencies(v, f) == IF v >= 0 THEN {As(v, "u8")} ELSE IF f = "def" THEN 0..3 ELSE {}

\* "Auto" is new in UVC 1.5, of which a maximum of 3 is the sign here.
SetPowerline(c, v, f) ==
  /\ MayCallNative(c, f) /\ Row[c].how = "powerline"
  /\ LET old   == Limits[camera].powerline.max[1] < 3
         asks(freq) == freq = 255 \/ (freq % 4 = 3 /\ old)
         sent(freq) == IF asks(freq) THEN Answer("powerline", "def")[1] % 4 ELSE freq % 4
     IN  IF Supported(Row[c].mask, Now) /\ Frequencies(v, f) # {}
         THEN \E freq \in Frequencies(v, f) :
                IF asks(freq) /\ f = "def" THEN Nothing ELSE Request(c, <<sent(freq)>>, f)
         ELSE Nothing
  /\ Unchanged /\ UNCHANGED <<values, fields, current>>

(* Mutant: the other angle is always sent as its default. *)
TurnAlone(c, v, f) ==
  /\ MayCallNative(c, f) /\ Row[c].how = "pantilt"
  /\ LET row    == Row[c]
         vs     == Learn(values, row.members, row.access, f)
         pan    == IF c = "Pan" THEN Clamp(v, <<"i32">>, vs.mPan)[1] ELSE vs.mPan.def
         tilt   == IF c = "Tilt" THEN Clamp(v, <<"i32">>, vs.mTilt)[1] ELSE vs.mTilt.def
     IN  /\ Supported(row.mask, Now)
         /\ values' = vs
         /\ Request(c, <<pan, tilt>>, f)
         /\ current' = IF Taken(row.access, <<pan, tilt>>, f) THEN [Pan |-> pan, Tilt |-> tilt] ELSE current
  /\ Unchanged /\ UNCHANGED fields

\* setPan and setTilt: the other angle is sent as it is known, or as its default.
SetPanTilt(c, v, f) ==
  /\ MayCallNative(c, f) /\ Row[c].how = "pantilt"
  /\ LET row    == Row[c]
         vs     == Learn(values, row.members, row.access, f)
         pan    == IF c = "Pan" THEN Clamp(v, <<"i32">>, vs.mPan)[1]
                   ELSE IF current.Pan < 0 THEN vs.mPan.def ELSE current.Pan
         tilt   == IF c = "Tilt" THEN Clamp(v, <<"i32">>, vs.mTilt)[1]
                   ELSE IF current.Tilt < 0 THEN vs.mTilt.def ELSE current.Tilt
     IN  IF Supported(row.mask, Now)
         THEN /\ values' = vs
              /\ IF Learnt(values, row.members, f)
                 THEN /\ Request(c, <<pan, tilt>>, f)
                      /\ current' = IF Taken(row.access, <<pan, tilt>>, f)
                                    THEN [Pan |-> pan, Tilt |-> tilt] ELSE current
                 ELSE Nothing /\ UNCHANGED current
         ELSE Nothing /\ UNCHANGED <<values, current>>
  /\ Unchanged /\ UNCHANGED fields

Next ==
  \/ Connect
  \/ Close
  \/ \E f \in Faults :
       \/ \E c \in inUse : UpdateCameraParams(c, f)
       \/ \E c \in inUse :
            \/ Reset(c, f)
            \/ GetPercent(c, f)
            \/ ConvertPercent(c, f)
            \/ NativeUpdate(c, f)
            \/ NativeGet(c, f)
            \/ \E p \in Percents : SetPercent(c, p, f)
            \/ \E v \in Requests :
                 \/ NativeSetClamped(c, v, f)
                 \/ NativeSetDirect(c, v, f)
                 \/ SetPowerline(c, v, f)
                 \/ SetPanTilt(c, v, f)

Spec == Init /\ [][Next]_vars

-----------------------------------------------------------------------------
(* Properties *)

TypeOK ==
  /\ opened \in 0..MaxOpens /\ camera \in {NoCamera, opened}
  /\ has \in {{}, Controls, inUse}
  /\ camera # NoCamera =>
       \A c \in inUse : LET s == Accessor[Row[c].access].selector IN Holds(s, register[s])
  /\ values \in [Members -> [Queries -> Int]]
  /\ current \in [{"Pan", "Tilt"} -> Int]
  /\ fields \in [Fields -> [Queries -> Int]]
  /\ mCtrlSupports \subseteq Range(CTRL) /\ mPUSupports \subseteq Range(PU)
  /\ supports.ctrl \in {{}, mCtrlSupports} /\ supports.proc \in {{}, mPUSupports}
  /\ failures \in 0..MaxFailures

\* Controls whose rows mix the accessors of two.
Mixed == {"Exposure", "ExposureRel", "AutoFocus", "AutoContrast", "FocusRel", "Iris", "IrisRel", "Privacy"}

OwnLimit(c, m, q) ==
  LET x == Answer(Row[c].access, q)
  IN  IF Len(Row[c].members) = 1 THEN Pack(x) ELSE x[CHOOSE i \in DOMAIN x : Row[c].members[i] = m]

\* The limits and the angles the native camera keeps are unknown or this camera's,
\* whatever transfers fail and whatever camera was open before: each angle is sent with
\* the other as it is known.
NativeKnows ==
  /\ \A c \in inUse \ Mixed : \A m \in Range(Row[c].members) : \A q \in Queries :
       values[m][q] \in {0, OwnLimit(c, m, q)}
  /\ \/ current = [Pan |-> -1, Tilt |-> -1]
     \/ current = [Pan |-> register.pantilt_abs[1], Tilt |-> register.pantilt_abs[2]]

\* Once updateCameraParams has found both masks, so are the ranges of the Java object.
JavaKnows ==
  failures = 0 /\ supports.ctrl # {} /\ supports.proc # {} =>
    \A c \in DOMAIN Percent \cap has : \A q \in Queries :
      fields[c][q] = OwnLimit(c, Row[c].members[1], q)

\* What both layers know is of the camera that is open and of the right control.
KnownIsTheCameras == camera # NoCamera => NativeKnows /\ JavaKnows

\* A request of a control that is clamped is one the camera takes, if the limits could be
\* read: whatever the client asks for and whatever range the Java object believes in.
RequestsAreTaken ==
  failures = 0 /\ call.refused => \A c \in call.sets : c \in Mixed \/ Row[c].how \in {"direct", "switch"}

\* What a client reads of control c.
Value(c) ==
  LET x == register[Accessor[Row[c].access].selector]
  IN  IF c = "Pan" THEN x[1] ELSE IF c = "Tilt" THEN x[2] ELSE x

SameSelector == {{"Focus", "Iris"}, {"FocusRel", "IrisRel"}}

\* A call for one control does not change another's value. The iris, which libuvc sends
\* to the focus, does, and so do pan and tilt while the other's angle is negative or not
\* known, as it is then sent as its default.
OthersAreLeft ==
  [][camera # NoCamera /\ camera' # NoCamera =>
       \A d \in inUse \ call'.sets :
         \/ Value(d)' = Value(d)
         \/ \E c \in call'.sets : {c, d} \in SameSelector
         \/ d \in {"Pan", "Tilt"} /\ current[d] < 0]_vars

=============================================================================
