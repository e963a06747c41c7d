\* Two clients log contacts on the same logbook; messages are lost, nodes die.
SPECIFICATION Spec
CONSTANTS
  EventIds <- MCEventIds
  Unsupported = {3}
  Clients = {c1, c2}
  Writers = {c1, c2}
  Server = server
  None = None
  MaxCrashes = 1
SYMMETRY ClientSymmetry
INVARIANTS
  TypeOK
  SharedHistory
  PullReportIsTrue
  AckedIsHeld
  RepetitionCatchesUp
PROPERTY LogsAreOfficial
