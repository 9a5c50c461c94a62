SPECIFICATION Spec
CONSTANTS
  NumTransfers = 2
  Packets = 1
  MaxFrame = 1
  Isochronous = TRUE
  Callbacks = {TRUE}
  SubmitFails = FALSE
  Unplug = TRUE
INVARIANT NothingOutlivesTheHandle
CHECK_DEADLOCK FALSE
