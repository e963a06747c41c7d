\* One writer, and a source that already holds what it logged.
SPECIFICATION Spec
CONSTANTS
  EventIds <- MCEventIds
  Unsupported = {}
  Clients = {c1, c2}
  Writers = {c1}
  Server = server
  None = None
  MaxCrashes = 0
INVARIANT MatchingHeadsDoNotDiverge
