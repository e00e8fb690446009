SPECIFICATION Spec
CONSTANTS
  Backends <- MCBackends
  Device = {"d1"}
  Media = {"midi", "pcm"}
  Start <- MCStart
  Absent = Absent
  MaxAttempts = 2
  MaxMoves = 2
CHECK_DEADLOCK FALSE
INVARIANTS OpenedAsRecorded
