----------------------------- MODULE RetryDrain -----------------------------
(***************************************************************************)
(* How contacts logged on iOS reach the sync server (ham-ios-ffi lib.rs,   *)
(* the retry executor of RustBridge.swift, ham-core sync/offline.rs).      *)
(*                                                                         *)
(* Logging a contact enqueues an operation, appends the official event and *)
(* attaches it to the operation.  Creating a station profile or a piece of *)
(* equipment enqueues an operation too, which has no event and is accepted *)
(* as soon as the station book is saved.  A retry attempt recovers the     *)
(* queue, plans a batch from it, pushes the planned events, and records    *)
(* the answer.  Attempts of the user and of the background task run side   *)
(* by side, each with its own bridge.  Every call on the queue reads the   *)
(* file, edits it, and replaces it through a temporary file; the app may   *)
(* die at any of these steps.  When it starts it recovers nothing.         *)
(*                                                                         *)
(*   main     the queue file                                               *)
(*   temp     the temporary file of the atomic write                       *)
(*   call     the queue that the call in progress writes, and its caller   *)
(*   proc     what each process is doing: its phase, the store calls it    *)
(*            still makes in it, and the operations it does this for       *)
(*   listed   the official events that a planning attempt has listed       *)
(*   wire     the push of each attempt that the server has not handled     *)
(*   log      the official log of the app, an event named by its operation *)
(*   server   the official log of the server                               *)
(*   acked    the operations whose logging returned to the user (history)  *)
(*   crashes  how many times the app died                                  *)
(*   lost     whether a call took the queue that a death left in the       *)
(*            temporary file for an empty one (history)                    *)
(*                                                                         *)
(* The calls of two processes are not interleaved here: a call is over     *)
(* before the next begins, unless the app dies in it.  A call never misses *)
(* its operation: entries are not removed, and who knew a lost one died.   *)
(***************************************************************************)
EXTENDS OfflineQueue

CONSTANTS
  Attempts,    \* the processes that retry
  Logger,      \* the process of the user's commands: contacts, stations, recovery
  Support,     \* operations on stations and equipment, which have no event
  Refused,     \* operations whose events the server does not support
  Others,      \* events of other clients
  MaxBatch,    \* bound of the program on the operations of a plan
  MaxCrashes,  \* bound on the deaths of the app
  Together,    \* whether both a death and a push of another client occur (a bound)
  None, Absent, Torn  \* no call, no file, a file that is not complete

ASSUME LoggerAssumption == Logger \notin Attempts
ASSUME OthersAssumption == Others \cap Ops = {}
ASSUME FilesAssumption ==
  /\ Absent # Torn /\ Absent \notin Seq(QueueEntry) /\ Torn \notin Seq(QueueEntry)
  /\ None \notin [by : Attempts \cup {Logger}, queue : Seq(QueueEntry)]
ASSUME BoundsAssumption == MaxBatch \in Nat \ {0} /\ MaxCrashes \in Nat
                            /\ Together \in BOOLEAN

Procs == Attempts \cup {Logger}

VARIABLES main, temp, call, proc, listed, wire, log, server, acked, crashes, lost

vars == <<main, temp, call, proc, listed, wire, log, server, acked, crashes, lost>>

Phases == {"idle", "enqueue", "settle", "attach", "recover",
           "plan", "listed", "replan", "send", "sent", "record"}

Proc == [phase : Phases, todo : Seq(Edit), ops : Seq(Ops)]

TypeOK ==
  /\ main \in Seq(QueueEntry) \cup {Absent}
  /\ temp \in Seq(QueueEntry) \cup {Absent, Torn}
  /\ call \in [by : Procs, queue : Seq(QueueEntry)] \cup {None}
  /\ proc \in [Procs -> Proc]
  /\ listed \in [Attempts -> SUBSET (Ops \cup Others)]
  /\ wire \in [Attempts -> Seq(Ops)]
  /\ log \in Seq(Ops \cup Others)
  /\ server \in Seq(Ops \cup Others)
  /\ acked \subseteq Ops
  /\ crashes \in 0..MaxCrashes
  /\ lost \in BOOLEAN

Idle == [phase |-> "idle", todo |-> << >>, ops |-> << >>]

Init ==
  /\ main = Absent /\ temp = Absent /\ call = None
  /\ proc = [p \in Procs |-> Idle]
  /\ listed = [a \in Attempts |-> {}]
  /\ wire = [a \in Attempts |-> << >>]
  /\ log = << >> /\ server = << >>
  /\ acked = {} /\ crashes = 0 /\ lost = FALSE

-----------------------------------------------------------------------------
(***************************************************************************)
(* A call on the queue.                                                    *)
(***************************************************************************)

\* load_file: without a file there is an empty queue.
load_file == IF main = Absent THEN << >> ELSE main

\* Mutation: the temporary file is only cleared away.
recover_interrupted_atomic_write_quarantine == load_file

\* recover_interrupted_atomic_write: a complete temporary file that was to
\* replace the missing queue file is the queue.
recover_interrupted_atomic_write ==
  IF main = Absent /\ temp \notin {Absent, Torn} THEN temp ELSE load_file

\* Enqueueing an operation that is queued already only reads the queue.
OnlyReads(edit) == edit.kind = "enqueue" /\ edit.ops \subseteq OpsOf(load_file)

FindQueued(p) ==
  /\ call = None /\ proc[p].todo # << >> /\ OnlyReads(Head(proc[p].todo))
  /\ proc' = [proc EXCEPT ![p].todo = Tail(@)]
  /\ UNCHANGED <<main, temp, call, listed, wire, log, server, acked, crashes, lost>>

\* The call of p reads the queue and creates the temporary file anew.
BeginCall(p) ==
  /\ call = None /\ proc[p].todo # << >> /\ ~ OnlyReads(Head(proc[p].todo))
  /\ LET edit == Head(proc[p].todo)
         q == IF edit.kind = "recover" THEN recover_interrupted_atomic_write ELSE load_file
     IN /\ call' = [by |-> p, queue |-> ApplyEdit(q, edit)]
        /\ main' = IF edit.kind = "recover" /\ q # load_file THEN q ELSE main
        /\ lost' = (lost \/ (edit.kind # "recover" /\ main = Absent /\ temp \notin {Absent, Torn}))
  /\ temp' = Torn
  /\ UNCHANGED <<proc, listed, wire, log, server, acked, crashes>>

\* The temporary file is complete, and the old queue file removed.  (A death in
\* between leaves the old queue and a temporary file that is cleared away, as does
\* one before the temporary file is complete.)
WriteTemp ==
  /\ call # None /\ temp = Torn
  /\ temp' = call.queue /\ main' = Absent
  /\ UNCHANGED <<call, proc, listed, wire, log, server, acked, crashes, lost>>

EndCall ==
  /\ call # None /\ temp # Torn
  /\ main' = temp /\ temp' = Absent
  /\ call' = None
  /\ proc' = [proc EXCEPT ![call.by].todo = Tail(@)]
  /\ UNCHANGED <<listed, wire, log, server, acked, crashes, lost>>

\* p made the calls of its phase.
Ready(p, phase) == call = None /\ proc[p].phase = phase /\ proc[p].todo = << >>

Enter(p, phase, todo, ops) ==
  proc' = [proc EXCEPT ![p] = [phase |-> phase, todo |-> todo, ops |-> ops]]

-----------------------------------------------------------------------------
(***************************************************************************)
(* The commands of the user: a contact (create_qso_command), a station     *)
(* profile or equipment, and the recovery of the queue.                    *)
(***************************************************************************)

\* Every contact is a new operation.
Unused(op) ==
  /\ op \notin Range(log)
  /\ main # Absent => op \notin OpsOf(main)
  /\ temp \notin {Absent, Torn} => op \notin OpsOf(temp)

\* An operation on a station profile is named by the profile, and comes again with
\* each selection of it.
Submit(op) ==
  /\ Ready(Logger, "idle") /\ (op \in Support \/ Unused(op))
  /\ Enter(Logger, "enqueue", Each("enqueue", <<op>>), <<op>>)
  /\ UNCHANGED <<main, temp, call, listed, wire, log, server, acked, crashes, lost>>

AppendEvent ==
  /\ Ready(Logger, "enqueue") /\ Range(proc[Logger].ops) \cap Support = {}
  /\ log' = log \o proc[Logger].ops
  /\ Enter(Logger, "attach", Each("attach", proc[Logger].ops), proc[Logger].ops)
  /\ UNCHANGED <<main, temp, call, listed, wire, server, acked, crashes, lost>>

\* The proposal is rejected, or the station book is not saved.
Reject ==
  /\ Ready(Logger, "enqueue")
  /\ Enter(Logger, "settle", Each("user_action", proc[Logger].ops), proc[Logger].ops)
  /\ UNCHANGED <<main, temp, call, listed, wire, log, server, acked, crashes, lost>>

\* The station book is saved; no server is asked.
SaveStationBook ==
  /\ Ready(Logger, "enqueue") /\ Range(proc[Logger].ops) \subseteq Support
  /\ Enter(Logger, "settle", Each("support", proc[Logger].ops), proc[Logger].ops)
  /\ UNCHANGED <<main, temp, call, listed, wire, log, server, acked, crashes, lost>>

\* The type of the equipment is refused after the operation was queued.
RefuseEquipment ==
  /\ Ready(Logger, "enqueue") /\ Range(proc[Logger].ops) \subseteq Support
  /\ Enter(Logger, "settle", << >>, proc[Logger].ops)
  /\ UNCHANGED <<main, temp, call, listed, wire, log, server, acked, crashes, lost>>

recover_or_initialize == <<[kind |-> "recover", ops |-> Ops]>>

\* The recover button.
Recover ==
  /\ Ready(Logger, "idle")
  /\ Enter(Logger, "recover", recover_or_initialize, << >>)
  /\ UNCHANGED <<main, temp, call, listed, wire, log, server, acked, crashes, lost>>

ReturnToUser ==
  /\ \/ Ready(Logger, "attach") /\ acked' = acked \cup Range(proc[Logger].ops)
     \/ Ready(Logger, "settle") /\ UNCHANGED acked
     \/ Ready(Logger, "recover") /\ UNCHANGED acked
  /\ proc' = [proc EXCEPT ![Logger] = Idle]
  /\ UNCHANGED <<main, temp, call, listed, wire, log, server, crashes, lost>>

-----------------------------------------------------------------------------
(***************************************************************************)
(* A retry attempt.                                                        *)
(***************************************************************************)
StartPlan(a) ==
  /\ Ready(a, "idle")
  /\ Enter(a, "plan", recover_or_initialize, << >>)
  /\ UNCHANGED <<main, temp, call, listed, wire, log, server, acked, crashes, lost>>

\* Without a network the plan ends with the recovery.
PlanOffline(a) ==
  /\ Ready(a, "plan")
  /\ proc' = [proc EXCEPT ![a] = Idle]
  /\ UNCHANGED <<main, temp, call, listed, wire, log, server, acked, crashes, lost>>

\* The official events are listed before the queue is read.
ListEvents(a) ==
  /\ Ready(a, "plan")
  /\ listed' = [listed EXCEPT ![a] = Range(log)]
  /\ Enter(a, "listed", << >>, << >>)
  /\ UNCHANGED <<main, temp, call, wire, log, server, acked, crashes, lost>>

\* The batch is read, and read again with the same events after a missing
\* operation was reported.
PlanBatch(a) ==
  /\ Ready(a, "listed") \/ Ready(a, "replan")
  /\ LET batch == ready_event_batch(load_file, listed[a])
         ops == SubSeq(batch.ops, 1, IF Len(batch.ops) < MaxBatch THEN Len(batch.ops)
                                                                  ELSE MaxBatch)
     IN \/ /\ proc[a].phase = "listed" /\ batch.missing # {}
           /\ Enter(a, "replan", <<[kind |-> "user_action", ops |-> batch.missing]>>, << >>)
           /\ UNCHANGED listed
        \/ /\ ~ (proc[a].phase = "listed" /\ batch.missing # {})
           /\ listed' = [listed EXCEPT ![a] = {}]
           /\ IF ops = << >> THEN proc' = [proc EXCEPT ![a] = Idle]
              ELSE Enter(a, "send", Each("sending", ops), ops)
  /\ UNCHANGED <<main, temp, call, wire, log, server, acked, crashes, lost>>

Push(a) ==
  /\ Ready(a, "send")
  /\ wire' = [wire EXCEPT ![a] = proc[a].ops]
  /\ Enter(a, "sent", << >>, proc[a].ops)
  /\ UNCHANGED <<main, temp, call, listed, log, server, acked, crashes, lost>>

EndAttempt(a) ==
  /\ Ready(a, "record")
  /\ proc' = [proc EXCEPT ![a] = Idle]
  /\ UNCHANGED <<main, temp, call, listed, wire, log, server, acked, crashes, lost>>

\* The backoff of an operation passes.
BecomeDue(op) ==
  /\ call = None /\ main # Absent
  /\ \E i \in 1..Len(main) :
       /\ main[i].op = op /\ ~ main[i].due
       /\ main' = [main EXCEPT ![i].due = TRUE]
  /\ UNCHANGED <<temp, call, proc, listed, wire, log, server, acked, crashes, lost>>

-----------------------------------------------------------------------------
(***************************************************************************)
(* The server and the answers.                                             *)
(***************************************************************************)

\* The event the event of op links to, or nothing.
Previous(op) ==
  LET i == CHOOSE j \in 1..Len(log) : log[j] = op
  IN IF i = 1 THEN << >> ELSE <<log[i - 1]>>

\* push_events on one event: the log, how many were accepted or ignored, and the
\* error that ends the loop.
TakeEvent(acc, op) ==
  IF acc.error # "none" THEN acc
  ELSE IF op \in Refused THEN [acc EXCEPT !.error = "user_action"]
  ELSE IF op \in Range(acc.log) THEN [acc EXCEPT !.count = @ + 1]
  ELSE IF Previous(op) = LastOf(acc.log)
    THEN [acc EXCEPT !.log = Append(@, op), !.count = @ + 1]
  ELSE [acc EXCEPT !.error = "blocked"]

push_events(ops) ==
  LET after[n \in 0..Len(ops)] ==
        IF n = 0 THEN [log |-> server, count |-> 0, error |-> "none"]
        ELSE TakeEvent(after[n - 1], ops[n])
  IN after[Len(ops)]

\* Mutation: the whole batch is recorded as accepted.
recordRetryResponse_all(ops, count, error) ==
  <<[kind |-> "accepted", ops |-> Range(ops)]>>

\* Mutation: after a partial acceptance the rest of the batch is left as it is.
recordRetryResponse_prefix(ops, count, error) ==
  LET accepted == <<[kind |-> "accepted", ops |-> Range(SubSeq(ops, 1, count))]>>
  IN IF count > 0 THEN accepted ELSE Each(error, ops)

\* The accepted prefix is recorded by hash, then the rest by the kind of failure.
recordRetryResponse(ops, count, error) ==
  LET accepted == <<[kind |-> "accepted", ops |-> Range(SubSeq(ops, 1, count))]>>
  IN (IF count = 0 THEN << >> ELSE accepted)
       \o (IF error = "none" THEN << >>
           ELSE Each(error, SubSeq(ops, count + 1, Len(ops))))

\* The answer reaches an attempt that still waits for it.
Answer(a, todo) ==
  IF proc[a].phase = "sent"
    THEN Enter(a, "record", todo, proc[a].ops)
    ELSE UNCHANGED proc

HandlePush(a) ==
  /\ wire[a] # << >>
  /\ LET result == push_events(wire[a])
     IN /\ server' = result.log
        /\ Answer(a, recordRetryResponse(wire[a], result.count, result.error))
  /\ wire' = [wire EXCEPT ![a] = << >>]
  /\ UNCHANGED <<main, temp, call, listed, log, acked, crashes, lost>>

\* The token was revoked or has expired.
DenyPush(a) ==
  /\ wire[a] # << >>
  /\ Answer(a, Each("user_action", wire[a]))
  /\ wire' = [wire EXCEPT ![a] = << >>]
  /\ UNCHANGED <<main, temp, call, listed, log, server, acked, crashes, lost>>

\* No answer in time; the server may still handle the push.
GiveUp(a) ==
  /\ Ready(a, "sent")
  /\ Enter(a, "record", Each("transient", proc[a].ops), proc[a].ops)
  /\ UNCHANGED <<main, temp, call, listed, wire, log, server, acked, crashes, lost>>

OtherClientPushes(e) ==
  /\ e \notin Range(server) /\ (Together \/ crashes = 0)
  /\ server' = Append(server, e)
  /\ UNCHANGED <<main, temp, call, proc, listed, wire, log, acked, crashes, lost>>

\* A pull brings what the server holds beyond the log of the app.
Pull ==
  /\ IsStrictPrefix(log, server)
  /\ log' = server
  /\ UNCHANGED <<main, temp, call, proc, listed, wire, server, acked, crashes, lost>>

-----------------------------------------------------------------------------
\* The app dies; a push on its way is not taken back.  The next start reads
\* nothing and repairs nothing.
Crash ==
  /\ crashes < MaxCrashes /\ (Together \/ Range(server) \cap Others = {})
  /\ crashes' = crashes + 1
  /\ call' = None
  /\ proc' = [p \in Procs |-> Idle] /\ listed' = [a \in Attempts |-> {}]
  /\ UNCHANGED <<main, temp, wire, log, server, acked, lost>>

Attempt(a) ==
  \/ StartPlan(a) \/ PlanOffline(a) \/ ListEvents(a) \/ PlanBatch(a) \/ Push(a) \/ EndAttempt(a)
  \/ HandlePush(a) \/ DenyPush(a) \/ GiveUp(a)

Commands ==
  \/ \E op \in Ops : Submit(op)
  \/ AppendEvent \/ Reject \/ SaveStationBook \/ RefuseEquipment
  \/ Recover \/ ReturnToUser

StoreCall ==
  \/ \E p \in Procs : FindQueued(p) \/ BeginCall(p)
  \/ WriteTemp \/ EndCall

Next ==
  \/ StoreCall \/ Commands
  \/ \E a \in Attempts : Attempt(a)
  \/ \E op \in Ops : BecomeDue(op)
  \/ \E e \in Others : OtherClientPushes(e)
  \/ Pull \/ Crash

Spec == Init /\ [][Next]_vars

-----------------------------------------------------------------------------
\* The queue on disk, counting a complete temporary file that lost its queue file.
LiveQueue == IF main = Absent /\ temp \in Seq(QueueEntry) THEN temp ELSE load_file

\* Accepted is only recorded of a contact that the server holds, whichever attempt
\* was answered, overtaken or given up, and whatever became of the rest of its batch
\* (recordRetryResponse and mark_accepted_by_event_hashes against push_events).
AcceptedIsOnServer ==
  \A e \in Range(LiveQueue) : e.status = "accepted" => e.op \in Range(server) \cup Support

\* A contact never reaches the server while one queued before it has not: held,
\* retried and incomplete operations are not passed (ready_mutations,
\* ready_event_batch and the truncation of the plan).
DrainsInOrder ==
  \A i, j \in 1..Len(LiveQueue) :
    i < j /\ LiveQueue[j].op \in Range(server)
      => LiveQueue[i].op \in Range(server) \cup Support

OrderOf(q) == [i \in 1..Len(q) |-> q[i].op]

Delivered == Range(server) \cap Ops

Out == INSTANCE Outbox WITH Local <- Support, order <- OrderOf(LiveQueue), delivered <- Delivered

\* Up to a call that takes the queue for an empty one, nothing that happens to the
\* file, the attempts and their messages takes an operation out of its place, queues
\* it twice or delivers it out of turn (enqueue_input, update_mutation and
\* write_json_atomically with the above).
ImplementsOutbox ==
  Out!Init /\ [][lost' \/ Out!Next]_<<OrderOf(LiveQueue), Delivered>>

IsKept(op) == \E e \in Range(LiveQueue) : e.op = op /\ e.linked

\* What was queued and acknowledged to the user stays in the queue with its event,
\* whichever process writes the queue and wherever the app dies in a write, if the
\* next call recovers the queue (write_json_atomically and recover_or_initialize).
QueueKeepsWork == ~ lost => \A op \in acked : IsKept(op)

\* docs/SYNC_PROTOCOL.md:119-120, of a termination between the two steps of a write:
\* the temporary file "is promoted back into the live queue without losing queued
\* work" (recover_or_initialize, which create_qso_command does not call).
QueuedWorkIsNotLost == \A op \in acked : IsKept(op)

\* Once an operation waits for the operator no retry takes it up again; only
\* attaching its event does (retry_result against the attempts that overlap).
HoldsStopRetry ==
  [][\A e \in Range(LiveQueue), f \in Range(LiveQueue') :
       e.op = f.op /\ e.status \in {"blocked", "user_action_required"}
         /\ proc[Logger].phase # "attach"
         => f.status \in Held \cup {"accepted"}]_vars

Sending(op) == \E e \in Range(LiveQueue) : e.op = op /\ e.status = "sending"

Running == \E a \in Attempts : proc[a].phase # "idle"

\* When the last running attempt has ended, no operation is left marked as being
\* sent, where no plan takes it up and everything behind it waits: each attempt gives
\* every operation of its batch an outcome, and takes up what a death of the app or
\* another attempt has left (recordRetryResponse, mark_accepted_by_event_hashes and
\* recover_interrupted_writes_in_file).
AttemptsSettle ==
  [][Running /\ ~ Running' /\ UNCHANGED crashes => \A op \in Ops : ~ Sending(op)']_vars
=============================================================================
