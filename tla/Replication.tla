---------------------------- MODULE Replication ----------------------------
(***************************************************************************)
(* Replication of the official log of one logbook between clients (desktop *)
(* and iOS) and a sync server (ham-core sync/mod.rs, the server routes and *)
(* the desktop handlers that call it).                                     *)
(*                                                                         *)
(* A pull is a fetch, whose answer travels, and an apply; a push travels   *)
(* to the server and its answer travels back.  A node handles one request  *)
(* after the other, and appends the events of a pull or of a push one at a *)
(* time; it may die between two of them, keeping what it appended (the     *)
(* store on disk is the subject of EventLog).  A message may never be      *)
(* handled, because a later one replaces it, and a client may send the     *)
(* same events again.                                                      *)
(*                                                                         *)
(*   log      the official log of each node                                *)
(*   offer    the answer to the fetch a client made last; overlapping      *)
(*            pulls of the same client may apply it more than once         *)
(*   work     the events a node is still appending, and for which request  *)
(*   pull     the outcome of the pull each client applied since its last   *)
(*            fetch                                                        *)
(*   acked    the events of the pushes that were answered without an error *)
(*            (history)                                                    *)
(*   crashes  how many times a node died                                   *)
(***************************************************************************)
EXTENDS EventChain, SequencesExt

CONSTANTS
  Clients,      \* the clients that replicate the logbook
  Server,       \* the sync server
  Writers,      \* the clients that log contacts
  None,         \* no message, no work, no outcome
  MaxCrashes    \* bound on the number of deaths

Nodes == Clients \cup {Server}

ASSUME ServerAssumption == Server \notin Clients
ASSUME WritersAssumption == Writers \subseteq Clients
ASSUME MaxCrashesAssumption == MaxCrashes \in Nat

VARIABLES log, offer, work, pull, acked, crashes

vars == <<log, offer, work, pull, acked, crashes>>

\* events: what was sent; source: the log it was taken from, at that time.
\* rest: what is still to be appended; pushed: what the push began with.
Offer == [events : Seq(Event), source : Seq(Event)]

Work == [rest : Seq(Event), pushed : Seq(Event)]

Statuses == {"in_sync", "pulled", "diverged", "rejected"}

Outcome == [status : Statuses, source : Seq(Event)]

TypeOK ==
  /\ log \in [Nodes -> Seq(Event)]
  /\ offer \in [Clients -> Offer \cup {None}]
  /\ work \in [Nodes -> Work \cup {None}]
  /\ pull \in [Clients -> Outcome \cup {None}]
  /\ acked \subseteq Event
  /\ crashes \in 0..MaxCrashes

Init ==
  /\ log = [n \in Nodes |-> << >>]
  /\ offer = [c \in Clients |-> None]
  /\ work = [n \in Nodes |-> None]
  /\ pull = [c \in Clients |-> None]
  /\ acked = {}
  /\ crashes = 0

-----------------------------------------------------------------------------
(***************************************************************************)
(* The comparison of a local head with a list of remote events.            *)
(***************************************************************************)
PositionsOf(s, hash) == {i \in 1..Len(s) : s[i].hash = hash}

Contains_head(s, head) == head = NoHash \/ PositionsOf(s, head) # {}

\* missing_events_after, when the remote events contain the local head.
missing_events_after(s, head) ==
  IF head = NoHash THEN s
  ELSE SubSeq(s, 1 + CHOOSE i \in PositionsOf(s, head) :
                       \A j \in PositionsOf(s, head) : i <= j, Len(s))

remote_events_are_missing_tail(s, head) ==
  head # NoHash /\ s # << >> /\ s[1].prev = head

\* preview_pull_from_events, as the server answers a fetch: the events after the
\* head the client named, and none when the heads match or diverged.
pull_events(s, head) ==
  IF head = HeadOf(s) \/ ~ Contains_head(s, head) THEN << >>
  ELSE missing_events_after(s, head)

\* Mutation: the verdict has another name than the status it stands for.
verify_incoming_chain_verdict(head, s) == "verified"

\* verify_incoming_chain: the first event that fails decides the status.
verify_incoming_chain(head, s) ==
  LET Connected(i) == s[i].prev = IF i = 1 THEN head ELSE s[i - 1].hash
      Bad == {i \in 1..Len(s) : ~ validate_supported_remote_event(s[i]) \/ ~ Connected(i)}
      first == CHOOSE i \in Bad : \A j \in Bad : i <= j
  IN IF Bad = {} THEN "pulled"
     ELSE IF validate_supported_remote_event(s[first]) THEN "diverged" ELSE "rejected"

\* What pull_missing_events makes of the remote events r on top of head, before
\* it appends any: the status, and the events to append if it is "pulled".
Missing(head, r) ==
  IF Contains_head(r, head) THEN missing_events_after(r, head) ELSE r

\* Mutation: no remote events, nothing to pull.
PullStatus_empty_in_sync(head, r) ==
  IF head = HeadOf(r) \/ r = << >> THEN "in_sync"
  ELSE IF ~ Contains_head(r, head) /\ ~ remote_events_are_missing_tail(r, head)
    THEN "diverged"
  ELSE verify_incoming_chain(head, Missing(head, r))

PullStatus(head, r) ==
  IF head = HeadOf(r) THEN "in_sync"
  ELSE IF ~ Contains_head(r, head) /\ ~ remote_events_are_missing_tail(r, head)
    THEN "diverged"
  ELSE verify_incoming_chain(head, Missing(head, r))

-----------------------------------------------------------------------------
(***************************************************************************)
(* The clients.                                                            *)
(***************************************************************************)

\* The identities in use; a new event takes another one.
Used == UNION {IdsOf(log[n]) : n \in Nodes}

\* An accepted proposal becomes an official event of the client.
LogContact(c) ==
  /\ c \in Writers /\ work[c] = None
  /\ \E id \in EventIds \ Used :
       log' = [log EXCEPT ![c] = Append(@, from_new(id, HeadOf(@)))]
  /\ UNCHANGED <<offer, work, pull, acked, crashes>>

\* The client asks the server for what follows its head, or a LAN peer for the
\* whole log.
FetchFrom(c, n) ==
  /\ work[c] = None /\ work[n] = None
  /\ offer' = [offer EXCEPT ![c] =
       [source |-> log[n],
        events |-> IF n = Server THEN pull_events(log[n], HeadOf(log[c])) ELSE log[n]]]
  /\ pull' = [pull EXCEPT ![c] = None]
  /\ UNCHANGED <<log, work, acked, crashes>>

FetchCloud(c) == FetchFrom(c, Server)

FetchLan(c) == \E n \in Clients \ {c} : FetchFrom(c, n)

\* pull_missing_events on the answer: the head is read again, the events are
\* verified as a whole, and only then appended.
ApplyPull(c) ==
  /\ work[c] = None /\ offer[c] # None
  /\ LET head == HeadOf(log[c])
         status == PullStatus(head, offer[c].events)
     IN IF status = "pulled"
          THEN /\ work' = [work EXCEPT ![c] =
                    [rest |-> Missing(head, offer[c].events), pushed |-> << >>]]
               /\ UNCHANGED pull
          ELSE /\ pull' = [pull EXCEPT ![c] =
                    [status |-> status, source |-> offer[c].source]]
               /\ UNCHANGED work
  /\ UNCHANGED <<log, offer, acked, crashes>>

-----------------------------------------------------------------------------
(***************************************************************************)
(* Appending, one event at a time: the loop that push_events and           *)
(* pull_missing_events share.                                              *)
(***************************************************************************)
ReceivePush(events) ==
  /\ work[Server] = None /\ events # << >>
  /\ work' = [work EXCEPT ![Server] = [rest |-> events, pushed |-> events]]
  /\ UNCHANGED <<log, offer, pull, acked, crashes>>

\* run_cloud_push: the whole log, or the part of it that the offline queue holds.
\* A push sent earlier, or sent again, holds a part of the present log, too.
PushAll(c) == ReceivePush(log[c])

PushQueued(c) ==
  \E n \in 1..Len(log[c]) : \E at \in [1..n -> 1..Len(log[c])] :
    /\ \A i, j \in 1..n : i < j => at[i] < at[j]
    /\ ReceivePush([i \in 1..n |-> log[c][at[i]]])

\* The loop accepts the next event or ignores it as a duplicate.
AppendNext(n) ==
  /\ work[n] # None /\ work[n].rest # << >>
  /\ LET e == Head(work[n].rest)
         outcome == RemoteOutcome(log[n], HeadOf(log[n]), e)
     IN /\ outcome \in {"appended", "duplicate"}
        /\ log' = [log EXCEPT ![n] = IF outcome = "appended" THEN Append(@, e) ELSE @]
  /\ work' = [work EXCEPT ![n].rest = Tail(@)]
  /\ UNCHANGED <<offer, pull, acked, crashes>>

\* Mutation: a refused event ends the loop like the last one does.
LoopStatus_ignoring_errors(n) ==
  IF work[n].rest = << >> THEN "pulled"
  ELSE IF RemoteOutcome(log[n], HeadOf(log[n]), Head(work[n].rest))
            \in {"appended", "duplicate"} THEN "running"
  ELSE "pulled"

\* The status of the answer, once the loop has ended: with the last event, or
\* with the first that is refused (push_replication_status).
LoopStatus(n) ==
  IF work[n].rest = << >> THEN "pulled"
  ELSE LET e == Head(work[n].rest)
       IN CASE RemoteOutcome(log[n], HeadOf(log[n]), e) = "disconnected" -> "diverged"
            [] RemoteOutcome(log[n], HeadOf(log[n]), e) \in {"invalid", "conflict"} -> "rejected"
            [] OTHER -> "running"

EndPull(c) ==
  /\ work[c] # None /\ LoopStatus(c) # "running"
  /\ pull' = [pull EXCEPT ![c] =
       [status |-> IF LoopStatus(c) = "pulled" THEN "pulled" ELSE "rejected",
        source |-> offer[c].source]]
  /\ work' = [work EXCEPT ![c] = None]
  /\ UNCHANGED <<log, offer, acked, crashes>>

\* The answer may be lost on its way to the client.
EndPush ==
  /\ work[Server] # None /\ LoopStatus(Server) # "running"
  /\ \/ LoopStatus(Server) = "pulled" /\ acked' = acked \cup ToSet(work[Server].pushed)
     \/ UNCHANGED acked
  /\ work' = [work EXCEPT ![Server] = None]
  /\ UNCHANGED <<log, offer, pull, crashes>>

\* A node dies: the request it was handling is lost, its log is not.
Crash(n) ==
  /\ crashes < MaxCrashes
  /\ crashes' = crashes + 1
  /\ work' = [work EXCEPT ![n] = None]
  /\ offer' = IF n = Server THEN offer ELSE [offer EXCEPT ![n] = None]
  /\ UNCHANGED <<log, pull, acked>>

ClientStep(c) ==
  \/ LogContact(c)
  \/ FetchCloud(c)
  \/ FetchLan(c)
  \/ ApplyPull(c)
  \/ EndPull(c)
  \/ PushAll(c)
  \/ PushQueued(c)

NodeStep(n) == AppendNext(n) \/ Crash(n)

Next ==
  \/ \E c \in Clients : ClientStep(c)
  \/ \E n \in Nodes : NodeStep(n)
  \/ EndPush

Spec == Init /\ [][Next]_vars

-----------------------------------------------------------------------------
(***************************************************************************)
(* Safety.                                                                 *)
(***************************************************************************)

\* Whatever is fetched, pushed, lost, repeated or cut short by a crash, the log
\* of every node passes verify_chain.
ChainsVerify == \A n \in Nodes : verify_chain(log[n], HeadOf(log[n]))

\* ADR 0001, node by node: what the store of a node promises survives replication.
\* A step leaves a log alone or extends it, at its end, by one event that is linked
\* to its head and whose identity it did not hold.
Official(n) == INSTANCE OfficialLog WITH log <- log[n]

LogsAreOfficial == [][\A n \in Nodes : [Official(n)!Next]_(log[n])]_vars

\* ADR 0005: histories are never merged.  An event that two nodes hold is the
\* same event at the same place after the same history.
SharedHistory ==
  \A m, n \in Nodes : \A i \in 1..Len(log[m]), j \in 1..Len(log[n]) :
    log[m][i].id = log[n][j].id =>
      i = j /\ SubSeq(log[m], 1, i) = SubSeq(log[n], 1, j)

\* A pull that reports "pulled" or "in_sync" left the client with everything the
\* source held when it answered; a fork is never reported as a success, also when
\* the answer is older than the client's head.
PullReportIsTrue ==
  \A c \in Clients :
    pull[c] # None /\ pull[c].status \in {"pulled", "in_sync"} =>
      IsPrefix(pull[c].source, log[c])

\* A push that was answered without an error is held by the server, event by
\* event, and stays there.
AckedIsHeld == acked \subseteq ToSet(log[Server])

\* docs/SYNC_PROTOCOL.md: a matching head hash means that the logbook heads match,
\* and "diverged" is for chains that do not share the expected ancestor.  A pull
\* from a source whose log the client already holds must not report a divergence.
MatchingHeadsDoNotDiverge ==
  \A c \in Clients :
    pull[c] # None /\ pull[c].status = "diverged" => log[c] # pull[c].source

Supported(s) == IdsOf(s) \cap Unsupported = {}

\* Repeating an exchange catches up.  A push of a whole verified log to a server
\* that holds a prefix of it, or more than it, is never refused, wherever an
\* earlier push stopped or died, and leaves the server with the whole log.  A pull
\* of a client that holds a prefix of what the source answered with, however stale
\* the answer, is neither diverged nor rejected nor taken for in sync.
RepetitionCatchesUp ==
  /\ LET pushed == work[Server].pushed
     IN /\ work[Server] # None
        /\ Supported(pushed) /\ verify_chain(pushed, HeadOf(pushed))
        /\ IsPrefix(pushed, log[Server]) \/ IsPrefix(log[Server], pushed)
        => /\ LoopStatus(Server) \in {"running", "pulled"}
           /\ work[Server].rest = << >> => IsPrefix(pushed, log[Server])
  /\ \A c \in Clients :
       LET source == offer[c].source
       IN offer[c] # None /\ Supported(source) /\ IsStrictPrefix(log[c], source) =>
            PullStatus(HeadOf(log[c]), offer[c].events) = "pulled"
=============================================================================
