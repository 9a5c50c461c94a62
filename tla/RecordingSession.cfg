SPECIFICATION LiveSpec
CONSTANTS
  EncoderTypes = {1, 2}
  PrepareFails = TRUE
  Collector = TRUE
  MaxFrames = 2
INVARIANTS TypeOK NoEncoderCrashes RecordingIsClosed
PROPERTIES ImplementsMuxer StoppingFinishes
CHECK_DEADLOCK FALSE
