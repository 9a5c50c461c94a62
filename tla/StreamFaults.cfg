SPECIFICATION Spec
CONSTANTS
  NumTransfers = 1
  Packets = 1
  MaxFrame = 3
  Isochronous = FALSE
  Callbacks = {TRUE, FALSE}
  SubmitFails = TRUE
  Unplug = TRUE
INVARIANT FrameIsWhole
CHECK_DEADLOCK FALSE
