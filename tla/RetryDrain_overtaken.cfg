\* Two attempts overlap; nothing else goes wrong with the app.
SPECIFICATION Spec
CONSTANTS
  Ops <- MCOps
  MaxAttempts = 2
  Attempts = {a1, a2}
  Logger = logger
  Support = {}
  Refused = {2}
  Others = {e1}
  MaxBatch = 2
  MaxCrashes = 0
  Together = TRUE
  None = None
  Absent = Absent
  Torn = Torn
PROPERTY HoldsStopRetry
CHECK_DEADLOCK FALSE
