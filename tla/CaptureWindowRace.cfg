SPECIFICATION Spec
CONSTANTS
  Frames = {f1, f2}
  MAX_FRAME = 1
  Windows = {w1}
  CaptureThreads = {c1}
  NoFrame = NoFrame
  NoWindow = NoWindow
  NoThread = NoThread
  Mjpeg = FALSE
  Converts = FALSE
  Spurious = FALSE
  Unplug = FALSE
  Calls = {"setPreviewDisplay", "startPreview", "setCaptureDisplay"}
  MaxCalls = 4
INVARIANT DrawnWindowIsReferenced
CHECK_DEADLOCK FALSE
