\* One store at a time, on a disk that may refuse to begin a write.
SPECIFICATION Spec
CONSTANTS
  EventIds <- MCEventIds
  Unsupported = {3}
  Handles = {h1}
  Garbled = Garbled
  Faults = {"io_error"}
  MaxLines = 4
  MaxRefused = 1
CONSTRAINT Bounded
INVARIANT AckedSurvivesRestart
CHECK_DEADLOCK FALSE
