---------------------------- MODULE OfficialLog ----------------------------
(***************************************************************************)
(* What the official event store promises (ADR 0001 and the store trait of *)
(* store.rs): one sequence of events per logbook, extended one event at a  *)
(* time at its end, each event linked to its predecessor by hash, no       *)
(* identity used twice, nothing ever edited or removed.                    *)
(***************************************************************************)
EXTENDS EventChain

VARIABLE log

Init == log = << >>

Extend(e) ==
  /\ hash_is_valid(e)
  /\ e.prev = HeadOf(log)
  /\ e.id \notin IdsOf(log)
  /\ log' = Append(log, e)

Next == \E id \in EventIds : Extend(from_new(id, HeadOf(log)))

Spec == Init /\ [][Next]_log
=============================================================================
