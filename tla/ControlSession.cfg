SPECIFICATION Spec
CONSTANTS
  MaxOpens = 2
  Limits <- MCLimits
  Combinations <- MCCombinations
  Requests <- MCRequests
  Percents = {30, 100}
  MaxFailures = 1
INVARIANTS TypeOK KnownIsTheCameras RequestsAreTaken
PROPERTY OthersAreLeft
CHECK_DEADLOCK FALSE
