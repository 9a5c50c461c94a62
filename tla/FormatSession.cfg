SPECIFICATION Spec
CONSTANTS
  Cameras <- MCCameras
  Rates <- MCRates
  Sizes = {1, 2}
  DefaultSize = 2
  Adjusts = TRUE
  MaxCalls = 4
  MaxFailures = 1
INVARIANTS TypeOK StreamHasItsInterface FramesAreShown AcceptedIsOffered
CHECK_DEADLOCK FALSE
