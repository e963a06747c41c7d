\* The app dies in a write, and logs a contact before any recovery.
SPECIFICATION Spec
CONSTANTS
  Ops <- MCOps
  MaxAttempts = 2
  Attempts = {a1}
  Logger = logger
  Support = {}
  Refused = {}
  Others = {}
  MaxBatch = 2
  MaxCrashes = 1
  Together = TRUE
  None = None
  Absent = Absent
  Torn = Torn
INVARIANT QueuedWorkIsNotLost
CHECK_DEADLOCK FALSE
