\* One store at a time on a disk that completes every write it begins.
SPECIFICATION Spec
CONSTANTS
  EventIds <- MCEventIdsSole
  Unsupported = {4}
  Handles = {h1}
  Garbled = Garbled
  Faults = {}
  MaxLines = 4
  MaxRefused = 1
CONSTRAINT Bounded
PROPERTY ImplementsOfficialLog
CHECK_DEADLOCK FALSE
