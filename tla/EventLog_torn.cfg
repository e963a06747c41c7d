\* One store at a time, whose process may die in the middle of a write.
SPECIFICATION Spec
CONSTANTS
  EventIds <- MCEventIds
  Unsupported = {3}
  Handles = {h1}
  Garbled = Garbled
  Faults = {"torn_write"}
  MaxLines = 4
  MaxRefused = 1
CONSTRAINT Bounded
INVARIANT RestartSurvives
CHECK_DEADLOCK FALSE
