SPECIFICATION LiveSpec
CONSTANTS
  Frames = {f1, f2}
  MAX_FRAME = 1
  Windows = {w1}
  CaptureThreads = {c1}
  NoFrame = NoFrame
  NoWindow = NoWindow
  NoThread = NoThread
  Mjpeg = FALSE
  Converts = TRUE
  Spurious = FALSE
  Unplug = FALSE
  Calls = {"setPreviewDisplay", "startPreview", "setFrameCallback", "setCaptureDisplay"}
  MaxCalls = 4
PROPERTIES FramesLostOnlyWhenStopping SetterReturnsWhileFramesCome
CHECK_DEADLOCK FALSE
