\* Two stores may be open on the same file; writes fail, processes die.
SPECIFICATION Spec
CONSTANTS
  EventIds <- MCEventIds
  Unsupported = {3}
  Handles = {h1, h2}
  Garbled = Garbled
  Faults = {"io_error", "torn_write"}
  MaxLines = 2
  MaxRefused = 1
SYMMETRY HandleSymmetry
CONSTRAINT Bounded
INVARIANTS
  TypeOK
  DurableChainVerifies
  AlwaysReopens
  AckedIsDurable
  EveryLineHasItsPast
CHECK_DEADLOCK FALSE
