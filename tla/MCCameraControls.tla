-------------------------- MODULE MCCameraControls --------------------------
(* Two cameras whose limits differ from each other's and from control to   *)
(* control, and controls used in twos: neighbours in this sequence, and    *)
(* those that share a member, a selector or an accessor.                   *)
EXTENDS CameraControls

ControlSeq ==
  <<"ScanningMode", "ExposureMode", "ExposurePriority", "Exposure", "ExposureRel", "AutoFocus", "Focus",
    "FocusRel", "Iris", "IrisRel", "Pan", "Tilt", "Roll", "Privacy", "BacklightComp", "Brightness", "Contrast",
    "AutoContrast", "Sharpness", "Gain", "AutoWhiteBlance", "AutoWhiteBlanceCompo", "WhiteBlance",
    "WhiteBlanceCompo", "Gamma", "Saturation", "Hue", "AutoHue", "PowerlineFrequency", "Zoom", "ZoomRel",
    "DigitalMultiplier", "DigitalMultiplierLimit", "AnalogVideoStandard", "AnalogVideoLockState">>

Index(s) == CHOOSE i \in DOMAIN ControlSeq :
              s \in {Accessor[Row[ControlSeq[i]].access].selector, Row[ControlSeq[i]].access}
Limit(i, s, t) ==
  [min |-> IF t \in {"i8", "i16", "i32"} THEN -i - 2 ELSE IF s = "powerline" THEN 0 ELSE i,
   max |-> IF s = "powerline" THEN 1 + i ELSE 20 * i + Index(s),
   def |-> IF s = "powerline" THEN 1 ELSE i + 3]
LimitTable ==
  [i \in 1..2 |-> [s \in Selectors |-> [q \in Queries |-> [k \in DOMAIN Own[s] |-> Limit(i, s, Own[s][k])[q]]]]]

\* The comparison makes TLC compute the table once and not at each use.
MCLimits == LET table == LimitTable IN IF table = table THEN table ELSE <<>>

MCRequests == {-3, 1, 300}

MCCombinations ==
  {{ControlSeq[i], ControlSeq[i + 1]} : i \in {j \in 1..Len(ControlSeq) - 1 : j % 2 = 1}}
  \cup {{"AutoFocus", "AutoContrast"}, {"Focus", "Iris"}, {"FocusRel", "IrisRel"}, {"Focus", "Privacy"},
        {"Focus", "FocusRel"}, {"Focus", "WhiteBlance"}, {"Zoom", "Brightness"}, {"AnalogVideoLockState", "Roll"}}
=============================================================================
