SPECIFICATION LiveSpec
CONSTANTS
  NumTransfers = 2
  Packets = 2
  MaxFrame = 2
  Isochronous = TRUE
  Callbacks = {TRUE}
  SubmitFails = FALSE
  Unplug = FALSE
INVARIANTS TypeOK StoppedIsQuiet
PROPERTIES ImplementsFrameSource StopReturns PublishedFrameIsSeen
CHECK_DEADLOCK FALSE
