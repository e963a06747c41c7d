----------------------------- MODULE MCEventLog -----------------------------
(***************************************************************************)
(* Instances of EventLog for TLC.                                          *)
(***************************************************************************)
EXTENDS EventLog, FiniteSets, TLC

CONSTANTS
  MaxLines,    \* bound on the terminated lines of the file
  MaxRefused   \* bound on the events whose write was refused

MCEventIds == 1..3

MCEventIdsSole == 1..4

HandleSymmetry == Permutations(Handles)

Bounded == Len(lines) <= MaxLines /\ Cardinality(refused) <= MaxRefused
=============================================================================
