\* One attempt at a time, two contacts and a station operation; the app may die once.
SPECIFICATION Spec
CONSTANTS
  Ops <- MCOps
  MaxAttempts = 2
  Attempts = {a1}
  Logger = logger
  Support = {3}
  Refused = {2}
  Others = {e1}
  MaxBatch = 2
  MaxCrashes = 1
  Together = FALSE
  None = None
  Absent = Absent
  Torn = Torn
INVARIANTS TypeOK AcceptedIsOnServer QueueKeepsWork
PROPERTIES ImplementsOutbox AttemptsSettle
CHECK_DEADLOCK FALSE
