------------------------------- MODULE Outbox -------------------------------
(***************************************************************************)
(* What the offline queue promises to whoever logs contacts                *)
(* (docs/SYNC_PROTOCOL.md, "Queued official events drain in deterministic  *)
(* logbook order", and ready_mutations of ham-core sync/offline.rs): an    *)
(* operation is queued once, after all others, and never leaves its place; *)
(* and the server receives the operations first in, first out, except the  *)
(* ones that are carried out without it.                                   *)
(***************************************************************************)
EXTENDS Naturals, Sequences

CONSTANTS
  Ops,
  Local   \* operations that are carried out without the server

VARIABLES
  order,      \* the operations in the order in which they were queued
  delivered   \* the operations that the server received

First(n) == {order[i] : i \in 1..n}

Init == order = << >> /\ delivered = {}

Enqueue(op) ==
  /\ op \notin First(Len(order))
  /\ order' = Append(order, op)
  /\ UNCHANGED delivered

\* The server takes one or more operations, and holds a start of the queue then.
Deliver ==
  /\ \E n \in 1..Len(order) : delivered \subseteq First(n) /\ delivered' = First(n) \ Local
  /\ UNCHANGED order

Next == (\E op \in Ops : Enqueue(op)) \/ Deliver

Spec == Init /\ [][Next]_<<order, delivered>>
=============================================================================
