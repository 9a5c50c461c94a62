SPECIFICATION LiveSpec
CONSTANTS
  Clients = {main, usb}
  NoClient = NoClient
  EncoderTypes = {1, 2}
  Collector = TRUE
  MaxCalls = 3
  MaxRecordings = 2
INVARIANTS TypeOK RunningRecordingIsKnown StoppedRecordingIsLetGo EndedIsClosed
PROPERTIES SleeperIsWoken ReleaseEnds
CHECK_DEADLOCK FALSE
