---------------------------- MODULE OfflineQueue ----------------------------
(***************************************************************************)
(* The offline queue of one logbook (ham-core sync/offline.rs): one entry  *)
(* per local operation that still has to reach the sync server, in the     *)
(* order of their sequence numbers.  Every store call reads the queue,     *)
(* changes it by one of the edits below, and writes it back.               *)
(*                                                                         *)
(* Of an entry the model keeps the operation, its status, the number of    *)
(* send attempts, whether the hash of its official event was attached, and *)
(* whether its next attempt is due.  No caller gives an operation          *)
(* dependencies, so they are left out.                                     *)
(***************************************************************************)
EXTENDS Naturals, SequencesExt

CONSTANTS
  Ops,          \* the operations
  MaxAttempts   \* sends of one operation after which a failure is final

ASSUME MaxAttemptsAssumption == MaxAttempts \in Nat \ {0}

Draining == {"pending", "retrying"}

Held == {"blocked", "failed", "user_action_required"}

QueueStatuses == Draining \cup Held \cup {"sending", "accepted"}

QueueEntry == [op : Ops, status : QueueStatuses, attempts : Nat, linked : BOOLEAN, due : BOOLEAN]

OpsOf(q) == {e.op : e \in Range(q)}

\* The last element of a log, or nothing.
LastOf(s) == IF s = << >> THEN << >> ELSE <<Last(s)>>

-----------------------------------------------------------------------------
(***************************************************************************)
(* The edits of one entry.                                                 *)
(***************************************************************************)
attach_local_event(e) ==
  [e EXCEPT !.linked = TRUE, !.status = IF @ \in Held THEN "pending" ELSE @]

mark_sending(e) ==
  [e EXCEPT !.status = "sending", !.attempts = @ + 1, !.due = TRUE]

\* Mutation: a failed send gets a status that the queue file does not know.
record_transient_failure_stopped(e) == [e EXCEPT !.status = "stopped"]

record_transient_failure(e) ==
  IF e.attempts >= MaxAttempts
    THEN [e EXCEPT !.status = "failed", !.due = TRUE]
    ELSE [e EXCEPT !.status = "retrying", !.due = FALSE]

mark_blocked(e) == [e EXCEPT !.status = "blocked", !.due = TRUE]

mark_user_action_required(e) ==
  [e EXCEPT !.status = "user_action_required", !.due = TRUE]

mark_accepted(e) == [e EXCEPT !.status = "accepted", !.due = TRUE]

\* mark_accepted_by_event_hashes finds an operation by the hash of its event.
mark_accepted_by_event_hash(e) ==
  IF e.linked THEN mark_accepted(e) ELSE e

recover_interrupted_write(e) ==
  IF e.status = "sending" THEN [e EXCEPT !.status = "retrying", !.due = TRUE] ELSE e

-----------------------------------------------------------------------------
(***************************************************************************)
(* The edits of the queue: what a store call writes back.                  *)
(***************************************************************************)
Kinds == {"enqueue", "attach", "sending", "transient", "blocked",
          "user_action", "accepted", "support", "recover"}

Edit == [kind : Kinds, ops : SUBSET Ops]

enqueue_input(q, op) ==
  IF op \in OpsOf(q) THEN q
  ELSE Append(q, [op |-> op, status |-> "pending", attempts |-> 0,
                  linked |-> FALSE, due |-> TRUE])

EditEntry(kind, e) ==
  CASE kind = "attach"      -> attach_local_event(e)
    [] kind = "sending"     -> mark_sending(e)
    [] kind = "transient"   -> record_transient_failure(e)
    [] kind = "blocked"     -> mark_blocked(e)
    [] kind = "user_action" -> mark_user_action_required(e)
    [] kind = "accepted"    -> mark_accepted_by_event_hash(e)
    [] kind = "support"     -> mark_accepted(e)
    [] kind = "recover"     -> recover_interrupted_write(e)

update_mutation(q, kind, ops) ==
  [i \in 1..Len(q) |-> IF q[i].op \in ops THEN EditEntry(kind, q[i]) ELSE q[i]]

\* One call for each of the operations.
Each(kind, ops) == [i \in 1..Len(ops) |-> [kind |-> kind, ops |-> {ops[i]}]]

ApplyEdit(q, edit) ==
  IF edit.kind = "enqueue"
    THEN enqueue_input(q, CHOOSE op \in edit.ops : TRUE)
    ELSE update_mutation(q, edit.kind, edit.ops)

-----------------------------------------------------------------------------
(***************************************************************************)
(* What an attempt may send: the unaccepted entries up to the first that   *)
(* is held, being sent or not due; of these the ones up to the first whose *)
(* official event is not known, which is reported as missing.              *)
(***************************************************************************)
is_ready(e) == e.status \in Draining /\ e.due

\* Mutation: an entry that cannot be sent is passed over.
ready_mutations_passing(q) == SelectSeq(q, is_ready)

ready_mutations(q) ==
  LET Stops == {i \in 1..Len(q) : q[i].status # "accepted" /\ ~ is_ready(q[i])}
      last == IF Stops = {} THEN Len(q) ELSE (CHOOSE i \in Stops : \A j \in Stops : i <= j) - 1
      ready[n \in 0..last] == IF n = 0 THEN << >>
                              ELSE IF q[n].status = "accepted" THEN ready[n - 1]
                              ELSE Append(ready[n - 1], q[n])
  IN ready[last]

\* ready_event_batch: the operations to send and the operation that is missing.
ready_event_batch(q, known) ==
  LET ready == ready_mutations(q)
      Missing == {i \in 1..Len(ready) : ~ (ready[i].linked /\ ready[i].op \in known)}
      first == CHOOSE i \in Missing : \A j \in Missing : i <= j
      sent == IF Missing = {} THEN ready ELSE SubSeq(ready, 1, first - 1)
  IN [ops |-> [i \in 1..Len(sent) |-> sent[i].op],
      missing |-> IF Missing = {} THEN {} ELSE {ready[first].op}]
=============================================================================
