---------------------------- MODULE DesktopDrain ----------------------------
(* How the desktop (serve.rs) drains its offline queue to the cloud server  *)
(* that runs inside its process: unlike on iOS some of its official events  *)
(* are logged without the queue, a push is settled as a whole, and the      *)
(* server and its sessions are gone when the desktop stops.  Requests are   *)
(* handled one after the other.  A write of the queue file may be refused,  *)
(* which the handlers pass over, and the desktop may stop between two of    *)
(* the writes of one request.                                               *)
EXTENDS OfflineQueue, FiniteSetsExt

CONSTANTS
    Unqueued,       \* events pulled from a LAN peer or logged by the CLI
    Unsupported,    \* events of a type or schema version the server does not take
    MaxQueueFaults  \* refused writes and stops of the desktop

ASSUME UnqueuedAssumption == Unqueued \cap Ops = {} /\ MaxQueueFaults \in Nat
ASSUME UnsupportedAssumption == Unsupported \subseteq Ops \cup Unqueued

VARIABLES
    queue,
    ownLog,       \* the official log, an event named by its operation
    cloud,        \* the log of the server
    connected,    \* a session with the server is known
    gone,         \* history: events no push of the queue sends again
    queueFaults

drainVars == <<queue, ownLog, cloud, connected, gone, queueFaults>>

PreviousOwn(e) ==
    LET at == CHOOSE i \in 1 .. Len(ownLog) : ownLog[i] = e
    IN IF at = 1 THEN <<>> ELSE <<ownLog[at - 1]>>

----------------------------------------------------------------------------
(* What became of a queue after the first n of a handler's writes, of which *)
(* some were refused.                                                       *)
Written(q, edits, n, refused) ==
    LET after[i \in 0 .. n] ==
            IF i = 0 THEN q
            ELSE IF i \in refused THEN after[i - 1]
            ELSE ApplyEdit(after[i - 1], edits[i])
    IN after[n]

(* The state a desktop starts with: recover_or_initialize, an empty server, *)
(* no session.                                                              *)
StartFrom(q, server) ==
    /\ queue' = update_mutation(q, "recover", Ops)
    /\ cloud' = <<>> /\ connected' = FALSE
    /\ gone' = gone \cup {e \in Range(server) :
                            ~ \E m \in Range(q) : m.op = e /\ m.status # "accepted"}

(* A handler makes its writes and returns, or the desktop stops first.      *)
Handle(q, edits, server, session) ==
    \/ \E refused \in SUBSET (1 .. Len(edits)) :
         /\ queueFaults + Cardinality(refused) <= MaxQueueFaults
         /\ queueFaults' = queueFaults + Cardinality(refused)
         /\ queue' = Written(q, edits, Len(edits), refused)
         /\ cloud' = server /\ connected' = session
         /\ UNCHANGED gone
    \/ \E n \in 0 .. Len(edits) :
         /\ queueFaults < MaxQueueFaults /\ queueFaults' = queueFaults + 1
         /\ StartFrom(Written(q, edits, n, {}), server)

----------------------------------------------------------------------------
(* The operation is queued, its event appended and attached, or the         *)
(* proposal refused.                                                        *)
IsNew(op) == op \notin OpsOf(queue) \cup Range(ownLog)

submit_offline_tracked_proposal(op) ==
    /\ IsNew(op)
    /\ \/ ownLog' = Append(ownLog, op)
          /\ Handle(enqueue_input(queue, op), Each("attach", <<op>>), cloud, connected)
       \/ UNCHANGED ownLog
          /\ Handle(enqueue_input(queue, op), Each("user_action", <<op>>), cloud, connected)

(* handle_station_select_profile queues an operation without an event.      *)
SelectStation(op) ==
    /\ IsNew(op)
    /\ \E kind \in {"support", "user_action"} :
         Handle(enqueue_input(queue, op), Each(kind, <<op>>), cloud, connected)
    /\ UNCHANGED ownLog

LogUnqueued(e) ==
    /\ e \notin Range(ownLog)
    /\ ownLog' = Append(ownLog, e)
    /\ gone' = gone \cup {e}
    /\ UNCHANGED <<queue, cloud, connected, queueFaults>>

(* push_events of the server, on one event of its only client: it is held,  *)
(* connects, or ends the push with an error, which push_replication_status  *)
(* reads as a divergence or a rejection.                                    *)
TakeOwnEvent(acc, e) ==
    IF acc.error # "none" \/ e \in Range(acc.log) THEN acc
    ELSE IF e \in Unsupported THEN [acc EXCEPT !.error = "rejected"]
    ELSE IF PreviousOwn(e) = LastOf(acc.log) THEN [acc EXCEPT !.log = Append(@, e)]
    ELSE [acc EXCEPT !.error = "diverged"]

push_own_events(events) ==
    LET after[i \in 0 .. Len(events)] ==
            IF i = 0 THEN [log |-> cloud, error |-> "none"]
            ELSE TakeOwnEvent(after[i - 1], events[i])
    IN after[Len(events)]

(* Mutation: a push that was taken in part is settled as accepted.          *)
Settled_taken(ops, push) ==
    IF push.error # "none" /\ push.log = cloud THEN Each("blocked", ops)
    ELSE <<[kind |-> "accepted", ops |-> Range(ops)]>>

(* A push is settled as a whole: a part that was taken before the error is  *)
(* held with the rest.                                                      *)
Settled(ops, push) ==
    CASE push.error = "none" -> <<[kind |-> "accepted", ops |-> Range(ops)]>>
      [] push.error = "diverged" -> Each("blocked", ops)
      [] push.error = "rejected" -> Each("user_action", ops)

(* run_cloud_push.  A push that finds nothing in the queue sends all of the *)
(* log, unless it was to drain the queue only.  The session may have ended. *)
run_cloud_push(queueOnly) ==
    LET batch == ready_event_batch(queue, Range(ownLog))
        missing == IF batch.missing = {} THEN <<>>
                   ELSE <<[kind |-> "user_action", ops |-> batch.missing]>>
        marked == missing \o Each("sending", batch.ops)
        events == IF batch.ops = <<>> THEN ownLog ELSE batch.ops
        push == push_own_events(events)
    IN \/ /\ queueOnly /\ batch.ops = <<>>
          /\ Handle(queue, missing, cloud, TRUE)
       \/ /\ ~ (queueOnly /\ batch.ops = <<>>)
          /\ \/ Handle(queue, marked \o Settled(batch.ops, push), push.log, TRUE)
             \/ Handle(queue, marked \o Each("transient", batch.ops), cloud, TRUE)

handle_cloud_push == connected /\ run_cloud_push(FALSE) /\ UNCHANGED ownLog

(* handle_cloud_connect, with or without auto_push_enabled.                 *)
Connect ==
    /\ \/ Handle(queue, <<>>, cloud, TRUE)
       \/ run_cloud_push(TRUE)
    /\ UNCHANGED ownLog

(* The recovery of the Sync panel.                                          *)
Recover ==
    /\ Handle(queue, <<[kind |-> "recover", ops |-> Ops]>>, cloud, connected)
    /\ UNCHANGED ownLog

RetryIsDue(i) ==
    /\ ~ queue[i].due
    /\ queue' = [queue EXCEPT ![i].due = TRUE]
    /\ UNCHANGED <<ownLog, cloud, connected, gone, queueFaults>>

----------------------------------------------------------------------------
DrainInit ==
    /\ queue = <<>> /\ ownLog = <<>> /\ cloud = <<>> /\ connected = FALSE
    /\ gone = {} /\ queueFaults = 0

DrainNext ==
    \/ \E op \in Ops : submit_offline_tracked_proposal(op) \/ SelectStation(op)
    \/ \E e \in Unqueued : LogUnqueued(e)
    \/ handle_cloud_push \/ Connect \/ Recover
    \/ \E i \in DOMAIN queue : RetryIsDue(i)

DrainSpec == DrainInit /\ [][DrainNext]_drainVars

DrainTypeOK ==
    /\ queue \in Seq(QueueEntry)
    /\ ownLog \in Seq(Ops \cup Unqueued) /\ cloud \in Seq(Ops \cup Unqueued)
    /\ connected \in BOOLEAN /\ gone \subseteq Ops \cup Unqueued
    /\ queueFaults \in 0 .. MaxQueueFaults

(* The queue tells the operator the truth: an operation that reads accepted *)
(* is on the server or was when the server ended; one that is held as       *)
(* diverged, or one queued after it, follows a gap: an event that no push   *)
(* of the queue sends.  The queue itself never tears a gap, whatever is not *)
(* due, incomplete, refused or interrupted, in either kind of push.         *)
FollowsGap(op) ==
    \E j, k \in DOMAIN ownLog : j < k /\ ownLog[j] \in gone /\ ownLog[k] = op

DrainReportsAreTrue ==
    \A i \in DOMAIN queue :
        /\ queue[i].status = "accepted" /\ queue[i].linked =>
             queue[i].op \in Range(cloud) \cup gone
        /\ queue[i].status = "blocked" =>
             \E k \in i .. Len(queue) : FollowsGap(queue[k].op)
=============================================================================
