SPECIFICATION Spec
CONSTANTS
  Frames = {f1, f2, f3, f4}
  MAX_FRAME = 1
  Windows = {w1}
  CaptureThreads = {c1, c2}
  NoFrame = NoFrame
  NoWindow = NoWindow
  NoThread = NoThread
  Mjpeg = TRUE
  Converts = FALSE
  Spurious = TRUE
  Unplug = TRUE
  Calls = {"startPreview", "stopPreview", "setPreviewDisplay"}
  MaxCalls = 5
SYMMETRY FrameSymmetry
INVARIANTS TypeOK FrameHasOneOwner StoppedIsQuiet
CHECK_DEADLOCK FALSE
