SPECIFICATION LiveSpec
CONSTANTS
  MaxFd = 3
  MaxCalls = 6
  ListenerCalls = TRUE
INVARIANTS TypeOK ClosedIsClean OpenKeepsDescriptor CallbacksOutliveTheirCalls FirstOpenHasEvents
PROPERTY CloseReturns
CHECK_DEADLOCK FALSE
