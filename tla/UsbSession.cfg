SPECIFICATION LiveSpec
CONSTANTS
  Devices = {d1}
  Cameras = {d1}
  NoDevice = NoDevice
  Calls = {"register", "unregister", "requestPermission", "close", "destroy"}
  MaxCalls = 3
  MaxOrders = 2
  MaxBlocks = 4
INVARIANTS TypeOK KnownBlockIsUsable OnlyClonesHideBlocks
PROPERTY RequestIsAnswered
CHECK_DEADLOCK FALSE
