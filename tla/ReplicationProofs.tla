------------------------- MODULE ReplicationProofs -------------------------
(***************************************************************************)
(* Theorems about Replication, for every set of clients and identities.    *)
(***************************************************************************)
EXTENDS Replication, EventChainProofs

-----------------------------------------------------------------------------
(***************************************************************************)
(* What the comparison of a head with remote events yields.                *)
(***************************************************************************)

\* The events after a head that the list contains follow an event with that hash.
LEMMA MissingEventsFollow ==
  ASSUME NEW s \in Seq(Event), NEW head, Contains_head(s, head), head # NoHash
  PROVE  \E k \in 1..Len(s) : /\ s[k].hash = head
                              /\ missing_events_after(s, head) = SubSeq(s, k + 1, Len(s))
<1> DEFINE P == PositionsOf(s, head)
           First(i) == \A j \in P : i <= j
<1>1. P # {} /\ P \subseteq 1..Len(s) /\ Len(s) \in Nat
  BY LenProperties DEF Contains_head, PositionsOf
<1>2. \E i \in P : First(i)
  <2>1. P \subseteq Nat
    BY <1>1
  <2> HIDE DEF P
  <2>2. QED
    BY <1>1, <2>1, LeastNumber
<1>3. (CHOOSE i \in P : First(i)) \in P
  <2> HIDE DEF P, First
  <2>1. QED
    BY <1>2
<1>4. PICK k \in P : k = CHOOSE i \in P : First(i)
  BY <1>1, <1>3
<1>5. missing_events_after(s, head) = SubSeq(s, 1 + k, Len(s))
  BY <1>4 DEF missing_events_after
<1>6. k \in 1..Len(s) /\ s[k].hash = head /\ 1 + k = k + 1
  BY <1>1, <1>4 DEF PositionsOf
<1>7. QED
  BY <1>5, <1>6

\* They are an end of the list.
LEMMA MissingEventsAreAnEnd ==
  ASSUME NEW s \in Seq(Event), NEW head, Contains_head(s, head)
  PROVE  Suffix(missing_events_after(s, head), s)
<1>1. CASE head = NoHash
  BY <1>1, SuffixOfItself DEF missing_events_after
<1>2. CASE head # NoHash
  <2>1. Len(s) \in Nat
    BY LenProperties
  <2>2. QED
    BY <1>2, <2>1, MissingEventsFollow DEF Suffix
<1>3. QED
  BY <1>1, <1>2

\* Only the empty log has the head of the empty log.
LEMMA EmptyHead ==
  ASSUME NEW s \in Seq(Event), verify_chain(s, HeadOf(s)), HeadOf(s) = NoHash
  PROVE  s = << >>
<1>1. SUFFICES ASSUME s # << >> PROVE FALSE
  OBVIOUS
<1>2. Len(s) \in 1..Len(s) /\ HeadOf(s) = s[Len(s)].hash
  BY <1>1, EmptySeq, LenProperties DEF HeadOf
<1>3. Len(HeadOf(s)) = Len(s)
  BY <1>2, HashListsHistory
<1>4. QED
  BY <1>2, <1>3 DEF NoHash

\* The server answers with an end of its log, and to a client without events with
\* the whole of it.
LEMMA PullEventsAnswer ==
  ASSUME NEW s \in Seq(Event), verify_chain(s, HeadOf(s)), NEW head
  PROVE  /\ Suffix(pull_events(s, head), s)
         /\ head = NoHash /\ pull_events(s, head) = << >> => s = << >>
<1>1. CASE head = HeadOf(s) \/ ~ Contains_head(s, head)
  <2>1. pull_events(s, head) = << >>
    BY <1>1 DEF pull_events
  <2>2. Len(s) \in Nat /\ SubSeq(s, Len(s) + 1, Len(s)) = << >>
    BY LenProperties, SubSeqEmpty
  <2>3. Suffix(<< >>, s)
    BY <2>2 DEF Suffix
  <2>4. head = NoHash => s = << >>
    BY <1>1, EmptyHead DEF Contains_head
  <2>5. QED
    BY <2>1, <2>3, <2>4
<1>2. CASE ~ (head = HeadOf(s) \/ ~ Contains_head(s, head))
  <2>1. pull_events(s, head) = missing_events_after(s, head)
    BY <1>2 DEF pull_events
  <2>2. head = NoHash => missing_events_after(s, head) = s
    BY DEF missing_events_after
  <2>3. QED
    BY <1>2, <2>1, <2>2, MissingEventsAreAnEnd
<1>3. QED
  BY <1>1, <1>2

\* What a pull is about to append is an end of what was offered.
LEMMA MissingIsAnEnd ==
  ASSUME NEW r \in Seq(Event), NEW head
  PROVE  Suffix(Missing(head, r), r)
BY MissingEventsAreAnEnd, SuffixOfItself DEF Missing

\* A pull that goes on to append has something to append.
LEMMA MissingIsNotEmpty ==
  ASSUME NEW r \in Seq(Event), NEW head, PullStatus(head, r) = "pulled"
  PROVE  Missing(head, r) # << >>
<1>1. head # HeadOf(r)
  BY DEF PullStatus
<1>2. CASE Contains_head(r, head) /\ head = NoHash
  BY <1>1, <1>2 DEF Missing, missing_events_after, HeadOf
<1>3. CASE Contains_head(r, head) /\ head # NoHash
  <2>1. PICK k \in 1..Len(r) : /\ r[k].hash = head
                               /\ missing_events_after(r, head) = SubSeq(r, k + 1, Len(r))
    BY <1>3, MissingEventsFollow
  <2>2. Len(r) \in Nat /\ r # << >>
    BY LenProperties, EmptySeq
  <2>3. k # Len(r)
    BY <1>1, <2>1, <2>2 DEF HeadOf
  <2>4. k \in 0..Len(r) /\ Len(r) - k # 0
    BY <2>2, <2>3
  <2>5. Len(SubSeq(r, k + 1, Len(r))) = Len(r) - k
    BY <2>4, SuffixElements
  <2>6. QED
    BY <1>3, <2>1, <2>4, <2>5, EmptySeq DEF Missing
<1>4. CASE ~ Contains_head(r, head)
  BY <1>4 DEF PullStatus, Missing, remote_events_are_missing_tail, Contains_head
<1>5. QED
  BY <1>2, <1>3, <1>4

\* An end of a list of events is a list of events of that list.
LEMMA SuffixSet ==
  ASSUME NEW s \in Seq(Event), NEW t, Suffix(t, s)
  PROVE  t \in Seq(Event) /\ ToSet(t) \subseteq ToSet(s)
<1>1. PICK k \in 0..Len(s) : t = SubSeq(s, k + 1, Len(s))
  BY DEF Suffix
<1>2. t \in Seq(Event) /\ Len(t) = Len(s) - k /\ \A i \in 1..Len(t) : t[i] = s[k + i]
  BY <1>1, SuffixElements
<1>3. Len(s) \in Nat /\ DOMAIN s = 1..Len(s) /\ DOMAIN t = 1..Len(t)
  BY <1>2, LenProperties
<1>4. \A i \in 1..Len(t) : k + i \in 1..Len(s)
  BY <1>2, <1>3
<1>5. QED
  BY <1>2, <1>3, <1>4 DEF ToSet

-----------------------------------------------------------------------------
(***************************************************************************)
(* The inductive invariant.                                                *)
(***************************************************************************)

\* The events that some node holds.
Held == UNION {ToSet(log[n]) : n \in Nodes}

OneEventPerIdentity == \A e, f \in Held : e.id = f.id => e = f

\* What travels, and what is being appended, is held by some node.
InFlightIsHeld ==
  /\ \A c \in Clients : offer[c] # None => ToSet(offer[c].source) \subseteq Held
  /\ \A n \in Nodes : work[n] # None =>
       ToSet(work[n].rest) \subseteq Held /\ ToSet(work[n].pushed) \subseteq Held

\* An offer is an end of a log; it is empty only if the log was, or if the client
\* already had events.
OffersAreEnds ==
  \A c \in Clients : offer[c] # None =>
    /\ verify_chain(offer[c].source, HeadOf(offer[c].source))
    /\ Suffix(offer[c].events, offer[c].source)
    /\ offer[c].events = << >> => offer[c].source = << >> \/ log[c] # << >>

\* A pull that is appending has an end of the source before it; once nothing is
\* left, the client holds the last event of the source.
PullsAdvance ==
  \A c \in Clients : work[c] # None =>
    /\ offer[c] # None /\ offer[c].source # << >>
    /\ Suffix(work[c].rest, offer[c].source)
    /\ work[c].rest = << >> =>
         offer[c].source[Len(offer[c].source)] \in ToSet(log[c])

\* What was pushed is held by the server or still to be appended.
PushesAdvance ==
  work[Server] # None =>
    ToSet(work[Server].pushed) \subseteq ToSet(log[Server]) \cup ToSet(work[Server].rest)

IInv ==
  /\ TypeOK
  /\ ChainsVerify
  /\ OneEventPerIdentity
  /\ InFlightIsHeld
  /\ OffersAreEnds
  /\ PullsAdvance
  /\ PushesAdvance
  /\ PullReportIsTrue
  /\ AckedIsHeld

\* The only way a log changes.
LogStep ==
  \/ log' = log
  \/ \E n \in Nodes, e \in Event :
       /\ log' = [log EXCEPT ![n] = Append(@, e)]
       /\ hash_is_valid(e) /\ e.prev = HeadOf(log[n]) /\ e.id \notin IdsOf(log[n])
       /\ e \in Held \/ e.id \notin Used

-----------------------------------------------------------------------------
(***************************************************************************)
(* The logs, at every step.                                                *)
(***************************************************************************)

\* An event that some node holds is an event.
LEMMA HeldEvents ==
  ASSUME TypeOK
  PROVE  /\ Held \subseteq Event
         /\ Used = {e.id : e \in Held}
         /\ \A n \in Nodes : /\ log[n] \in Seq(Event)
                             /\ ToSet(log[n]) = {log[n][i] : i \in 1..Len(log[n])}
                             /\ ToSet(log[n]) \subseteq Held
<1>1. \A n \in Nodes : log[n] \in Seq(Event)
  BY DEF TypeOK
<1>2. ASSUME NEW n \in Nodes
      PROVE  /\ ToSet(log[n]) = {log[n][i] : i \in 1..Len(log[n])}
             /\ ToSet(log[n]) \subseteq Event
             /\ IdsOf(log[n]) = {e.id : e \in ToSet(log[n])}
  BY <1>1, LenProperties, ElementOfSeq DEF ToSet, IdsOf
<1>3. Held \subseteq Event /\ \A n \in Nodes : ToSet(log[n]) \subseteq Held
  BY <1>2 DEF Held
<1>4. Used = {e.id : e \in Held}
  <2>1. ASSUME NEW id \in Used
        PROVE  id \in {e.id : e \in Held}
    <3>1. PICK n \in Nodes : id \in IdsOf(log[n])
      BY <2>1 DEF Used
    <3>2. PICK e \in ToSet(log[n]) : id = e.id
      BY <3>1, <1>2
    <3>3. e \in Held
      BY <1>3, <3>2
    <3>4. QED
      BY <3>2, <3>3
  <2>2. ASSUME NEW e \in Held
        PROVE  e.id \in Used
    <3>1. PICK n \in Nodes : e \in ToSet(log[n])
      BY <2>2 DEF Held
    <3>2. e.id \in IdsOf(log[n])
      BY <3>1, <1>2
    <3>3. QED
      BY <3>2 DEF Used
  <2>3. QED
    BY <2>1, <2>2
<1>5. QED
  BY <1>1, <1>2, <1>3, <1>4

\* The events a push sends are events of the log of the client.
LEMMA QueuedEvents ==
  ASSUME TypeOK, NEW c \in Clients, NEW n \in 1..Len(log[c]),
         NEW at \in [1..n -> 1..Len(log[c])]
  PROVE  LET s == [i \in 1..n |-> log[c][at[i]]]
         IN s \in Seq(Event) /\ ToSet(s) \subseteq ToSet(log[c])
<1> DEFINE s == [i \in 1..n |-> log[c][at[i]]]
<1>1. log[c] \in Seq(Event) /\ Len(log[c]) \in Nat /\ DOMAIN log[c] = 1..Len(log[c])
  BY LenProperties DEF TypeOK, Nodes
<1>2. n \in Nat /\ \A i \in 1..n : at[i] \in 1..Len(log[c])
  BY <1>1
<1>3. \A i \in 1..n : s[i] \in Event
  BY <1>1, <1>2, ElementOfSeq
<1>4. s \in Seq(Event)
  BY <1>2, <1>3, SeqDef
<1>5. ToSet(s) \subseteq ToSet(log[c])
  BY <1>1, <1>2 DEF ToSet
<1>6. QED
  BY <1>4, <1>5

\* The kinds of steps: a push sends events that its client holds.
LEMMA StepKinds ==
  ASSUME TypeOK, [Next]_vars
  PROVE  \/ \E c \in Clients : LogContact(c) \/ ApplyPull(c) \/ EndPull(c)
         \/ \E c \in Clients, n \in Nodes : FetchFrom(c, n)
         \/ \E s \in Seq(Event) : ToSet(s) \subseteq Held /\ ReceivePush(s)
         \/ \E n \in Nodes : AppendNext(n) \/ Crash(n)
         \/ EndPush
         \/ UNCHANGED vars
<1>1. ASSUME NEW c \in Clients, PushAll(c) \/ PushQueued(c)
      PROVE  \E s \in Seq(Event) : ToSet(s) \subseteq Held /\ ReceivePush(s)
  <2>1. log[c] \in Seq(Event) /\ ToSet(log[c]) \subseteq Held
    BY HeldEvents DEF Nodes
  <2>2. CASE PushAll(c)
    BY <2>1, <2>2 DEF PushAll
  <2>3. CASE PushQueued(c)
    <3>1. PICK n \in 1..Len(log[c]) : \E at \in [1..n -> 1..Len(log[c])] :
            ReceivePush([i \in 1..n |-> log[c][at[i]]])
      BY <2>3 DEF PushQueued
    <3>2. PICK at \in [1..n -> 1..Len(log[c])] : ReceivePush([i \in 1..n |-> log[c][at[i]]])
      BY <3>1
    <3>3. QED
      BY <2>1, <3>2, QueuedEvents
  <2>4. QED
    BY <1>1, <2>2, <2>3
<1>2. ASSUME NEW c \in Clients, FetchCloud(c) \/ FetchLan(c)
      PROVE  \E n \in Nodes : FetchFrom(c, n)
  BY <1>2 DEF FetchCloud, FetchLan, Nodes
<1>3. QED
  BY <1>1, <1>2 DEF Next, ClientStep, NodeStep

\* The event a loop appends is the first of its rest.
LEMMA NextEvent ==
  ASSUME TypeOK, InFlightIsHeld, NEW n \in Nodes, work[n] # None, work[n].rest # << >>
  PROVE  /\ work[n].rest \in Seq(Event)
         /\ Head(work[n].rest) \in Event /\ Head(work[n].rest) \in Held
         /\ ToSet(work[n].rest) = {Head(work[n].rest)} \cup ToSet(Tail(work[n].rest))
<1> DEFINE r == work[n].rest
<1>1. r \in Seq(Event) /\ ToSet(r) \subseteq Held
  BY DEF TypeOK, Work, InFlightIsHeld
<1>2. /\ Len(r) \in Nat \ {0} /\ DOMAIN r = 1..Len(r) /\ Head(r) = r[1]
      /\ Tail(r) \in Seq(Event) /\ Len(Tail(r)) = Len(r) - 1
      /\ DOMAIN Tail(r) = 1..Len(Tail(r))
      /\ \A i \in 1..Len(Tail(r)) : Tail(r)[i] = r[i + 1]
  <2>1. Len(r) \in Nat \ {0} /\ DOMAIN r = 1..Len(r) /\ Head(r) = r[1]
    BY <1>1, EmptySeq, LenProperties
  <2>2. /\ Tail(r) \in Seq(Event) /\ Len(Tail(r)) = Len(r) - 1
        /\ \A i \in 1..Len(Tail(r)) : Tail(r)[i] = r[i + 1]
    BY <1>1, HeadTailProperties
  <2>3. QED
    BY <2>1, <2>2, LenProperties
<1>3. Head(r) \in Event /\ Head(r) \in ToSet(r)
  BY <1>1, <1>2, ElementOfSeq DEF ToSet
<1>4. ToSet(Tail(r)) \subseteq ToSet(r)
  BY <1>2 DEF ToSet
<1>5. ToSet(r) \subseteq {Head(r)} \cup ToSet(Tail(r))
  <2>1. SUFFICES ASSUME NEW i \in 1..Len(r), i # 1
                 PROVE  r[i] \in ToSet(Tail(r))
    BY <1>2 DEF ToSet
  <2>2. i - 1 \in 1..Len(Tail(r)) /\ (i - 1) + 1 = i
    BY <1>2, <2>1
  <2>3. QED
    BY <1>2, <2>2 DEF ToSet
<1>6. QED
  BY <1>1, <1>3, <1>4, <1>5

\* Every step leaves the logs alone or extends one chain by one event.
LEMMA StepOfLog ==
  ASSUME IInv, [Next]_vars
  PROVE  LogStep
<1>1. ASSUME NEW c \in Clients, LogContact(c)
      PROVE  LogStep
  <2>1. PICK id \in EventIds \ Used :
          log' = [log EXCEPT ![c] = Append(@, from_new(id, HeadOf(@)))]
    BY <1>1 DEF LogContact
  <2>2. c \in Nodes /\ log[c] \in Seq(Event)
    BY DEF Nodes, IInv, TypeOK
  <2> DEFINE e == from_new(id, HeadOf(log[c]))
  <2>3. e \in Event /\ hash_is_valid(e)
    BY <2>1, <2>2, HeadType, HashType
  <2>4. e.prev = HeadOf(log[c]) /\ e.id = id /\ id \notin IdsOf(log[c])
    BY <2>1, <2>2 DEF from_new, Used
  <2>5. log' = [log EXCEPT ![c] = Append(@, e)]
    BY <2>1
  <2> HIDE DEF e
  <2>6. QED
    BY <2>1, <2>2, <2>3, <2>4, <2>5 DEF LogStep
<1>2. ASSUME NEW n \in Nodes, AppendNext(n)
      PROVE  LogStep
  <2> DEFINE e == Head(work[n].rest)
             outcome == RemoteOutcome(log[n], HeadOf(log[n]), e)
  <2>1. e \in Event /\ e \in Held
    BY <1>2, NextEvent DEF AppendNext, IInv
  <2>2. log' = [log EXCEPT ![n] = IF outcome = "appended" THEN Append(@, e) ELSE @]
    BY <1>2 DEF AppendNext
  <2>3. CASE outcome = "appended"
    <3>1. hash_is_valid(e) /\ e.prev = HeadOf(log[n]) /\ e.id \notin IdsOf(log[n])
      BY <2>3 DEF RemoteOutcome, validate_supported_remote_event
    <3>2. log' = [log EXCEPT ![n] = Append(@, e)]
      BY <2>2, <2>3
    <3> HIDE DEF e
    <3>3. QED
      BY <2>1, <3>1, <3>2 DEF LogStep
  <2>4. CASE outcome # "appended"
    <3>1. log' = [log EXCEPT ![n] = @]
      BY <2>2, <2>4
    <3>2. log' = log
      BY <3>1 DEF IInv, TypeOK
    <3>3. QED
      BY <3>2 DEF LogStep
  <2>5. QED
    BY <2>3, <2>4
<1>3. ASSUME UNCHANGED log
      PROVE  LogStep
  BY <1>3 DEF LogStep
<1>4. QED
  BY <1>1, <1>2, <1>3 DEF Next, ClientStep, NodeStep, FetchCloud, FetchLan, FetchFrom,
     ApplyPull, EndPull, PushAll, PushQueued, ReceivePush, EndPush, Crash, vars

\* The logs only grow.
LEMMA LogsGrow ==
  ASSUME TypeOK, LogStep
  PROVE  /\ log' \in [Nodes -> Seq(Event)]
         /\ \A n \in Nodes : /\ Len(log[n]) <= Len(log'[n])
                             /\ \A i \in 1..Len(log[n]) : log'[n][i] = log[n][i]
                             /\ ToSet(log[n]) \subseteq ToSet(log'[n])
                             /\ log[n] # << >> => log'[n] # << >>
         /\ Held \subseteq Held'
<1>1. \A n \in Nodes : log[n] \in Seq(Event) /\ Len(log[n]) \in Nat
  BY LenProperties DEF TypeOK
<1> DEFINE Grown == /\ log' \in [Nodes -> Seq(Event)]
                    /\ \A n \in Nodes : /\ Len(log[n]) <= Len(log'[n])
                                        /\ \A i \in 1..Len(log[n]) : log'[n][i] = log[n][i]
<1>2. Grown
  <2>1. CASE log' = log
    BY <2>1, <1>1 DEF TypeOK
  <2>2. ASSUME NEW m \in Nodes, NEW e \in Event,
               log' = [log EXCEPT ![m] = Append(@, e)]
        PROVE  Grown
    <3>1. /\ Append(log[m], e) \in Seq(Event)
          /\ Len(Append(log[m], e)) = Len(log[m]) + 1
          /\ \A i \in 1..Len(log[m]) : Append(log[m], e)[i] = log[m][i]
      BY <1>1, AppendProperties
    <3>2. \A n \in Nodes : log'[n] = IF n = m THEN Append(log[m], e) ELSE log[n]
      BY <2>2 DEF TypeOK
    <3>3. log' \in [Nodes -> Seq(Event)]
      BY <2>2, <3>1 DEF TypeOK
    <3>4. ASSUME NEW n \in Nodes
          PROVE  /\ Len(log[n]) <= Len(log'[n])
                 /\ \A i \in 1..Len(log[n]) : log'[n][i] = log[n][i]
      <4>1. CASE n = m
        <5>1. log'[n] = Append(log[m], e) /\ Len(log[n]) \in Nat
          BY <4>1, <1>1, <3>2
        <5>2. Len(log[n]) <= Len(log[n]) + 1
          BY <5>1
        <5>3. QED
          BY <4>1, <5>1, <5>2, <3>1
      <4>2. CASE n # m
        BY <4>2, <1>1, <3>2
      <4>3. QED
        BY <4>1, <4>2
    <3>5. QED
      BY <3>3, <3>4
  <2>3. log' = log \/ \E m \in Nodes, e \in Event : log' = [log EXCEPT ![m] = Append(@, e)]
    BY DEF LogStep
  <2> HIDE DEF Grown
  <2>4. QED
    BY <2>1, <2>2, <2>3
<1>3. ASSUME NEW n \in Nodes
      PROVE  ToSet(log[n]) \subseteq ToSet(log'[n]) /\ (log[n] # << >> => log'[n] # << >>)
  <2>1. DOMAIN log[n] = 1..Len(log[n]) /\ DOMAIN log'[n] = 1..Len(log'[n])
    BY <1>1, <1>2, LenProperties
  <2>2. Len(log[n]) \in Nat /\ Len(log'[n]) \in Nat
    BY <1>1, <1>2, LenProperties
  <2>3. \A i \in 1..Len(log[n]) : i \in 1..Len(log'[n])
    BY <1>2, <2>2
  <2>4. ToSet(log[n]) \subseteq ToSet(log'[n])
    BY <2>1, <2>3, <1>2 DEF ToSet
  <2>5. log[n] # << >> => log'[n] # << >>
    BY <1>1, <1>2, <2>2, EmptySeq
  <2>6. QED
    BY <2>4, <2>5
<1>4. QED
  BY <1>2, <1>3 DEF Held

\* Chains stay verified.
LEMMA ChainsStayVerified ==
  ASSUME TypeOK, ChainsVerify, LogStep
  PROVE  ChainsVerify'
<1>1. CASE log' = log
  BY <1>1 DEF ChainsVerify
<1>2. ASSUME NEW m \in Nodes, NEW e \in Event,
             log' = [log EXCEPT ![m] = Append(@, e)],
             hash_is_valid(e), e.prev = HeadOf(log[m])
      PROVE  ChainsVerify'
  <2>1. log[m] \in Seq(Event) /\ verify_chain(log[m], HeadOf(log[m]))
    BY DEF TypeOK, ChainsVerify
  <2>2. verify_chain(Append(log[m], e), HeadOf(Append(log[m], e)))
    BY <1>2, <2>1, ChainExtends
  <2>3. \A n \in Nodes : log'[n] = IF n = m THEN Append(log[m], e) ELSE log[n]
    BY <1>2 DEF TypeOK
  <2>4. \A n \in Nodes : verify_chain(log'[n], HeadOf(log'[n]))
    BY <2>2, <2>3 DEF ChainsVerify
  <2>5. QED
    BY <2>4 DEF ChainsVerify
<1>3. QED
  BY <1>1, <1>2 DEF LogStep

\* An identity keeps standing for one event.
LEMMA IdentitiesStayUnique ==
  ASSUME TypeOK, OneEventPerIdentity, LogStep
  PROVE  OneEventPerIdentity'
<1>1. CASE log' = log
  BY <1>1 DEF OneEventPerIdentity, Held
<1>2. ASSUME NEW m \in Nodes, NEW e \in Event,
             log' = [log EXCEPT ![m] = Append(@, e)],
             e \in Held \/ e.id \notin Used
      PROVE  OneEventPerIdentity'
  <2>1. log[m] \in Seq(Event)
    BY DEF TypeOK
  <2>2. ToSet(Append(log[m], e)) = ToSet(log[m]) \cup {e}
    BY <2>1, AppendProperties, LenProperties DEF ToSet
  <2>3. \A n \in Nodes : log'[n] = IF n = m THEN Append(log[m], e) ELSE log[n]
    BY <1>2 DEF TypeOK
  <2>4. Held' \subseteq Held \cup {e}
    BY <2>2, <2>3 DEF Held
  <2>5. QED
    BY <1>2, <2>4, HeldEvents DEF OneEventPerIdentity
<1>3. QED
  BY <1>1, <1>2 DEF LogStep

-----------------------------------------------------------------------------
(***************************************************************************)
(* Type correctness.                                                       *)
(***************************************************************************)
LEMMA InitInv == Init => IInv
<1>1. SUFFICES ASSUME Init PROVE IInv
  OBVIOUS
<1>2. TypeOK
  BY <1>1, EmptySeq, MaxCrashesAssumption DEF Init, TypeOK
<1>3. \A n \in Nodes : log[n] = << >> /\ work[n] = None
  BY <1>1 DEF Init
<1>4. Held = {}
  BY <1>3 DEF Held, ToSet
<1>5. ChainsVerify
  BY <1>3 DEF ChainsVerify, verify_chain
<1>6. \A c \in Clients : offer[c] = None /\ pull[c] = None /\ work[c] = None
  BY <1>1, <1>3 DEF Init, Nodes
<1>7. work[Server] = None
  BY <1>3 DEF Nodes
<1>8. acked = {}
  BY <1>1 DEF Init
<1>9. QED
  BY <1>2, <1>4, <1>5, <1>3, <1>6, <1>7, <1>8 DEF IInv, OneEventPerIdentity, InFlightIsHeld,
     OffersAreEnds, PullsAdvance, PushesAdvance, PullReportIsTrue, AckedIsHeld

\* The verdict of verify_incoming_chain, and so of a pull, is a status.
LEMMA PullStatusType ==
  ASSUME NEW head, NEW r
  PROVE  PullStatus(head, r) \in Statuses
<1>1. verify_incoming_chain(head, Missing(head, r)) \in Statuses
  BY DEF verify_incoming_chain, Statuses
<1>2. QED
  BY <1>1 DEF PullStatus, Statuses

\* Every step keeps the types; that a pull under way has an offer needs the rest
\* of the invariant.
LEMMA TypeStep ==
  ASSUME IInv, [Next]_vars
  PROVE  TypeOK'
<1>1. TypeOK /\ log' \in [Nodes -> Seq(Event)]
  BY StepOfLog, LogsGrow DEF IInv
<1>2. Server \in Nodes /\ \A c \in Clients : c \in Nodes
  BY DEF Nodes
<1>3. << >> \in Seq(Event) /\ \A n \in Nodes : log[n] \in Seq(Event)
  BY <1>1, EmptySeq DEF TypeOK
<1>4. ASSUME NEW c \in Clients, LogContact(c)
      PROVE  TypeOK'
  BY <1>1, <1>4 DEF LogContact, TypeOK
<1>5. ASSUME NEW c \in Clients, NEW n \in Nodes, FetchFrom(c, n)
      PROVE  TypeOK'
  <2> DEFINE o == [source |-> log[n],
                   events |-> IF n = Server THEN pull_events(log[n], HeadOf(log[c]))
                                            ELSE log[n]]
  <2>1. verify_chain(log[n], HeadOf(log[n]))
    BY DEF IInv, ChainsVerify
  <2>2. pull_events(log[n], HeadOf(log[c])) \in Seq(Event)
    BY <1>3, <2>1, PullEventsAnswer, SuffixSet
  <2>3. o \in Offer
    BY <1>3, <2>2 DEF Offer
  <2>4. offer' = [offer EXCEPT ![c] = o] /\ pull' = [pull EXCEPT ![c] = None]
    BY <1>5 DEF FetchFrom
  <2> HIDE DEF o
  <2>5. QED
    BY <1>1, <1>5, <2>3, <2>4 DEF FetchFrom, TypeOK
<1>6. ASSUME NEW c \in Clients, ApplyPull(c)
      PROVE  TypeOK'
  <2> DEFINE head == HeadOf(log[c])
             status == PullStatus(head, offer[c].events)
             w == [rest |-> Missing(head, offer[c].events), pushed |-> << >>]
             p == [status |-> status, source |-> offer[c].source]
  <2>1. offer[c].events \in Seq(Event) /\ offer[c].source \in Seq(Event)
    BY <1>1, <1>6 DEF ApplyPull, TypeOK, Offer
  <2>2. w \in Work
    BY <1>3, <2>1, MissingIsAnEnd, SuffixSet DEF Work
  <2>3. p \in Outcome
    BY <2>1, PullStatusType DEF Outcome
  <2>4. \/ work' = [work EXCEPT ![c] = w] /\ UNCHANGED pull
        \/ pull' = [pull EXCEPT ![c] = p] /\ UNCHANGED work
    BY <1>6 DEF ApplyPull
  <2>5. UNCHANGED <<offer, acked, crashes>>
    BY <1>6 DEF ApplyPull
  <2> HIDE DEF w, p
  <2>6. QED
    BY <1>1, <1>2, <2>2, <2>3, <2>4, <2>5 DEF TypeOK
<1>7. ASSUME NEW c \in Clients, EndPull(c)
      PROVE  TypeOK'
  <2> DEFINE p == [status |-> IF LoopStatus(c) = "pulled" THEN "pulled" ELSE "rejected",
                   source |-> offer[c].source]
  <2>1. offer[c] # None
    BY <1>7 DEF EndPull, IInv, PullsAdvance
  <2>2. p \in Outcome
    BY <1>1, <2>1 DEF TypeOK, Offer, Outcome, Statuses
  <2>3. pull' = [pull EXCEPT ![c] = p]
    BY <1>7 DEF EndPull
  <2> HIDE DEF p
  <2>4. QED
    BY <1>1, <1>2, <1>7, <2>2, <2>3 DEF EndPull, TypeOK
<1>8. ASSUME NEW s \in Seq(Event), ReceivePush(s)
      PROVE  TypeOK'
  BY <1>1, <1>2, <1>8 DEF ReceivePush, Work, TypeOK
<1>9. ASSUME NEW n \in Nodes, AppendNext(n)
      PROVE  TypeOK'
  <2>1. work[n] \in Work /\ work[n].rest # << >>
    BY <1>1, <1>9 DEF AppendNext, TypeOK
  <2>2. Tail(work[n].rest) \in Seq(Event)
    BY <2>1, HeadTailProperties DEF Work
  <2>3. [work[n] EXCEPT !.rest = Tail(work[n].rest)] \in Work
    BY <2>1, <2>2 DEF Work
  <2>4. work' = [work EXCEPT ![n] = [work[n] EXCEPT !.rest = Tail(work[n].rest)]]
    BY <1>9 DEF AppendNext
  <2>5. QED
    BY <1>1, <1>9, <2>3, <2>4 DEF AppendNext, TypeOK
<1>10. ASSUME EndPush
       PROVE  TypeOK'
  <2>1. work[Server] \in Work
    BY <1>1, <1>2, <1>10 DEF EndPush, TypeOK
  <2>2. ToSet(work[Server].pushed) \subseteq Event
    BY <2>1, LenProperties, ElementOfSeq DEF Work, ToSet
  <2>3. acked' \subseteq Event
    BY <1>1, <1>10, <2>2 DEF EndPush, TypeOK
  <2>4. QED
    BY <1>1, <1>2, <1>10, <2>3 DEF EndPush, TypeOK
<1>11. ASSUME NEW n \in Nodes, Crash(n)
       PROVE  TypeOK'
  <2>1. crashes' \in 0..MaxCrashes
    BY <1>1, <1>11, MaxCrashesAssumption DEF Crash, TypeOK
  <2>2. QED
    BY <1>1, <1>11, <2>1 DEF Crash, TypeOK
<1>12. CASE UNCHANGED vars
  BY <1>1, <1>12 DEF vars, TypeOK
<1>13. QED
  BY <1>4, <1>5, <1>6, <1>7, <1>8, <1>9, <1>10, <1>11, <1>12, StepKinds DEF IInv

-----------------------------------------------------------------------------
(***************************************************************************)
(* What travels.                                                           *)
(***************************************************************************)

\* A list all of whose events are held stays so.
LEMMA InFlightStep ==
  ASSUME IInv, [Next]_vars
  PROVE  InFlightIsHeld'
<1>1. TypeOK /\ InFlightIsHeld /\ Held \subseteq Held'
  BY StepOfLog, LogsGrow DEF IInv
<1>2. Server \in Nodes /\ \A c \in Clients : c \in Nodes
  BY DEF Nodes
<1>3. CASE UNCHANGED <<offer, work>>
  BY <1>1, <1>3 DEF InFlightIsHeld
<1>4. ASSUME NEW c \in Clients, NEW n \in Nodes, FetchFrom(c, n)
      PROVE  InFlightIsHeld'
  <2>1. offer'[c].source = log[n] /\ \A d \in Clients \ {c} : offer'[d] = offer[d]
    BY <1>1, <1>4 DEF FetchFrom, TypeOK
  <2>2. ToSet(log[n]) \subseteq Held
    BY <1>1, HeldEvents
  <2>3. QED
    BY <1>1, <1>4, <2>1, <2>2 DEF FetchFrom, InFlightIsHeld
<1>5. ASSUME NEW c \in Clients, ApplyPull(c)
      PROVE  InFlightIsHeld'
  <2> DEFINE r == Missing(HeadOf(log[c]), offer[c].events)
  <2>1. /\ offer[c].events \in Seq(Event) /\ offer[c].source \in Seq(Event)
        /\ Suffix(offer[c].events, offer[c].source)
        /\ ToSet(offer[c].source) \subseteq Held
    BY <1>1, <1>5 DEF ApplyPull, TypeOK, Offer, OffersAreEnds, InFlightIsHeld, IInv
  <2>2. ToSet(r) \subseteq Held
    BY <2>1, MissingIsAnEnd, SuffixSet
  <2>3. ToSet(<< >>) = {}
    BY DEF ToSet
  <2>4. work' = [work EXCEPT ![c] = [rest |-> r, pushed |-> << >>]] \/ UNCHANGED work
    BY <1>5 DEF ApplyPull
  <2>5. \A n \in Nodes : work'[n] = work[n] \/ work'[n] = [rest |-> r, pushed |-> << >>]
    BY <1>1, <2>4 DEF TypeOK
  <2>6. UNCHANGED offer
    BY <1>5 DEF ApplyPull
  <2> HIDE DEF r
  <2>7. QED
    BY <1>1, <2>2, <2>3, <2>5, <2>6 DEF InFlightIsHeld
<1>6. ASSUME NEW s \in Seq(Event), ToSet(s) \subseteq Held, ReceivePush(s)
      PROVE  InFlightIsHeld'
  <2>1. \A n \in Nodes : work'[n] = work[n] \/ work'[n] = [rest |-> s, pushed |-> s]
    BY <1>1, <1>6 DEF ReceivePush, TypeOK
  <2>2. QED
    BY <1>1, <1>6, <2>1 DEF ReceivePush, InFlightIsHeld
<1>7. ASSUME NEW n \in Nodes, AppendNext(n)
      PROVE  InFlightIsHeld'
  <2> DEFINE w == [work[n] EXCEPT !.rest = Tail(work[n].rest)]
  <2>1. work[n] # None /\ work[n] \in Work /\ work[n].rest # << >>
    BY <1>1, <1>7 DEF AppendNext, TypeOK
  <2>2. ToSet(Tail(work[n].rest)) \subseteq ToSet(work[n].rest)
    BY <2>1, TailIsSuffix, SuffixSet DEF Work
  <2>3. w.rest = Tail(work[n].rest) /\ w.pushed = work[n].pushed
    BY <2>1 DEF Work
  <2>4. \A m \in Nodes : work'[m] = IF m = n THEN w ELSE work[m]
    BY <1>1, <1>7 DEF AppendNext, TypeOK
  <2>5. UNCHANGED offer
    BY <1>7 DEF AppendNext
  <2>6. ToSet(w.rest) \subseteq Held' /\ ToSet(w.pushed) \subseteq Held'
    BY <1>1, <2>1, <2>2, <2>3 DEF InFlightIsHeld
  <2> HIDE DEF w
  <2>7. QED
    BY <1>1, <2>4, <2>5, <2>6 DEF InFlightIsHeld
<1>8. ASSUME NEW n \in Nodes, work' = [work EXCEPT ![n] = None],
             \A c \in Clients : offer'[c] = offer[c] \/ offer'[c] = None
      PROVE  InFlightIsHeld'
  <2>1. \A m \in Nodes : work'[m] = work[m] \/ work'[m] = None
    BY <1>1, <1>8 DEF TypeOK
  <2>2. QED
    BY <1>1, <1>8, <2>1 DEF InFlightIsHeld
<1>9. ASSUME NEW n \in Nodes, Crash(n)
      PROVE  InFlightIsHeld'
  BY <1>1, <1>8, <1>9 DEF Crash, TypeOK
<1>10. QED
  BY <1>1, <1>2, <1>3, <1>4, <1>5, <1>6, <1>7, <1>8, <1>9, StepKinds
     DEF LogContact, EndPull, EndPush, vars

\* An offer is made from a log, and what its client holds only grows.
LEMMA OffersStep ==
  ASSUME IInv, [Next]_vars
  PROVE  OffersAreEnds'
<1>1. /\ TypeOK /\ OffersAreEnds
      /\ \A c \in Clients : log[c] # << >> => log'[c] # << >>
  BY StepOfLog, LogsGrow DEF IInv, Nodes
<1>2. CASE UNCHANGED offer
  BY <1>1, <1>2 DEF OffersAreEnds
<1>3. ASSUME NEW c \in Clients, NEW n \in Nodes, FetchFrom(c, n)
      PROVE  OffersAreEnds'
  <2> DEFINE r == IF n = Server THEN pull_events(log[n], HeadOf(log[c])) ELSE log[n]
  <2>1. /\ log[n] \in Seq(Event) /\ verify_chain(log[n], HeadOf(log[n]))
        /\ log'[c] = log[c]
    BY <1>1, <1>3 DEF TypeOK, IInv, ChainsVerify, FetchFrom
  <2>2. Suffix(r, log[n])
    BY <2>1, PullEventsAnswer, SuffixOfItself
  <2>3. r = << >> => log[n] = << >> \/ log[c] # << >>
    BY <2>1, PullEventsAnswer DEF HeadOf
  <2>4. \A d \in Clients : offer'[d] = IF d = c THEN [source |-> log[n], events |-> r]
                                                ELSE offer[d]
    BY <1>1, <1>3 DEF FetchFrom, TypeOK
  <2> HIDE DEF r
  <2>5. QED
    BY <1>1, <2>1, <2>2, <2>3, <2>4 DEF OffersAreEnds
<1>4. ASSUME NEW n \in Nodes, Crash(n)
      PROVE  OffersAreEnds'
  <2>1. \A c \in Clients : offer'[c] = offer[c] \/ offer'[c] = None
    BY <1>1, <1>4 DEF Crash, TypeOK
  <2>2. QED
    BY <1>1, <2>1 DEF OffersAreEnds
<1>5. QED
  BY <1>1, <1>2, <1>3, <1>4, StepKinds
     DEF LogContact, ApplyPull, EndPull, ReceivePush, AppendNext, EndPush, vars

-----------------------------------------------------------------------------
(***************************************************************************)
(* What is being appended.                                                 *)
(***************************************************************************)

\* When a loop takes an event, its node holds the event afterwards.
LEMMA AppendedIsHeld ==
  ASSUME IInv, NEW n \in Nodes, AppendNext(n)
  PROVE  Head(work[n].rest) \in ToSet(log'[n])
<1> DEFINE e == Head(work[n].rest)
           outcome == RemoteOutcome(log[n], HeadOf(log[n]), e)
<1>1. /\ log[n] \in Seq(Event) /\ e \in Event
      /\ log' = [log EXCEPT ![n] = IF outcome = "appended" THEN Append(@, e) ELSE @]
      /\ outcome \in {"appended", "duplicate"}
  BY NextEvent DEF IInv, TypeOK, AppendNext
<1>2. log'[n] = IF outcome = "appended" THEN Append(log[n], e) ELSE log[n]
  BY <1>1 DEF IInv, TypeOK
<1>3. CASE outcome = "appended"
  <2>1. /\ Append(log[n], e) \in Seq(Event)
        /\ Len(Append(log[n], e)) = Len(log[n]) + 1 /\ Len(log[n]) \in Nat
        /\ Append(log[n], e)[Len(log[n]) + 1] = e
    BY <1>1, AppendProperties, LenProperties
  <2>2. DOMAIN Append(log[n], e) = 1..(Len(log[n]) + 1)
    BY <2>1, LenProperties
  <2> HIDE DEF e
  <2>3. e \in ToSet(Append(log[n], e))
    BY <2>1, <2>2 DEF ToSet
  <2>4. QED
    BY <1>2, <1>3, <2>3 DEF e
<1>4. CASE outcome = "duplicate"
  <2>1. \E i \in 1..Len(log[n]) : log[n][i] = e
    BY <1>4 DEF RemoteOutcome
  <2>2. log'[n] = log[n] /\ DOMAIN log[n] = 1..Len(log[n])
    BY <1>1, <1>2, <1>4, LenProperties
  <2>3. QED
    BY <2>1, <2>2 DEF ToSet
<1>5. QED
  BY <1>1, <1>3, <1>4

\* A pull appends an end of the source to its last event.
LEMMA PullsStep ==
  ASSUME IInv, [Next]_vars
  PROVE  PullsAdvance'
<1>1. /\ TypeOK /\ PullsAdvance
      /\ \A c \in Clients : c \in Nodes /\ c # Server
      /\ \A c \in Clients : ToSet(log[c]) \subseteq ToSet(log'[c])
  BY StepOfLog, LogsGrow, ServerAssumption DEF IInv, Nodes
<1>2. ASSUME \A c \in Clients : \/ work'[c] = None
                                \/ work'[c] = work[c] /\ offer'[c] = offer[c]
      PROVE  PullsAdvance'
  BY <1>1, <1>2 DEF PullsAdvance
<1>3. ASSUME NEW c \in Clients, NEW n \in Nodes, FetchFrom(c, n)
      PROVE  PullsAdvance'
  <2>1. \A d \in Clients : work'[d] = work[d] /\ (d # c => offer'[d] = offer[d])
    BY <1>1, <1>3 DEF FetchFrom, TypeOK
  <2>2. work[c] = None
    BY <1>3 DEF FetchFrom
  <2>3. \A d \in Clients : \/ work'[d] = None
                           \/ work'[d] = work[d] /\ offer'[d] = offer[d]
    BY <2>1, <2>2
  <2>4. QED
    BY <1>2, <2>3
<1>4. ASSUME NEW c \in Clients, ApplyPull(c)
      PROVE  PullsAdvance'
  <2> DEFINE head == HeadOf(log[c])
             r == Missing(head, offer[c].events)
  <2>1. UNCHANGED <<offer, log>> /\ offer[c] # None
    BY <1>4 DEF ApplyPull
  <2>2. CASE UNCHANGED work
    BY <1>2, <2>1, <2>2
  <2>3. CASE PullStatus(head, offer[c].events) = "pulled"
    <3>1. /\ offer[c].events \in Seq(Event) /\ offer[c].source \in Seq(Event)
          /\ Suffix(offer[c].events, offer[c].source)
      BY <1>1, <2>1 DEF TypeOK, Offer, OffersAreEnds, IInv
    <3>2. Suffix(r, offer[c].events) /\ Suffix(r, offer[c].source)
      BY <3>1, MissingIsAnEnd, SuffixOfSuffix
    <3>3. r # << >>
      BY <2>3, <3>1, MissingIsNotEmpty
    <3>4. offer[c].source # << >>
      BY <3>1, <3>2, <3>3, SuffixHead
    <3>5. \A d \in Clients : work'[d] = IF d = c THEN [rest |-> r, pushed |-> << >>]
                                                 ELSE work[d]
      BY <1>1, <1>4, <2>3 DEF ApplyPull, TypeOK
    <3> HIDE DEF r
    <3>6. QED
      BY <1>1, <2>1, <3>2, <3>3, <3>4, <3>5 DEF PullsAdvance
  <2>4. QED
    BY <1>4, <2>2, <2>3 DEF ApplyPull
<1>5. ASSUME NEW n \in Nodes, AppendNext(n)
      PROVE  PullsAdvance'
  <2>1. \A c \in Clients : c # n => work'[c] = work[c]
    BY <1>1, <1>5 DEF AppendNext, TypeOK
  <2>2. CASE n \notin Clients
    BY <1>2, <1>5, <2>1, <2>2 DEF AppendNext
  <2>3. CASE n \in Clients
    <3> DEFINE r == work[n].rest
               source == offer[n].source
    <3>1. work[n] # None /\ work[n] \in Work /\ r # << >> /\ r \in Seq(Event)
      BY <1>1, <1>5 DEF AppendNext, TypeOK, Work
    <3>2. offer[n] # None /\ source # << >> /\ Suffix(r, source) /\ source \in Seq(Event)
      BY <1>1, <2>3, <3>1 DEF PullsAdvance, TypeOK, Offer
    <3>3. Suffix(Tail(r), source)
      BY <3>1, <3>2, TailIsSuffix, SuffixOfSuffix
    <3> HIDE DEF r
    <3>4. Tail(r) = << >> => Head(r) = r[Len(r)]
      <4>1. Len(Tail(r)) = Len(r) - 1 /\ Len(r) \in Nat
        BY <3>1, HeadTailProperties, LenProperties
      <4>2. Len(<< >>) = 0
        BY EmptySeq
      <4>3. CASE Tail(r) = << >>
        <5>1. Len(Tail(r)) = 0
          BY <4>2, <4>3
        <5>2. Len(r) = 1
          BY <4>1, <5>1
        <5>3. QED
          BY <5>2
      <4>4. QED
        BY <4>3
    <3>5. Tail(r) = << >> => source[Len(source)] \in ToSet(log'[n])
      BY <1>5, <3>1, <3>2, <3>4, SuffixHead, AppendedIsHeld DEF r
    <3>6. work'[n].rest = Tail(r)
      BY <1>1, <1>5, <3>1 DEF AppendNext, TypeOK, Work, r
    <3>7. UNCHANGED offer
      BY <1>5 DEF AppendNext
    <3>8. QED
      BY <1>1, <2>1, <3>2, <3>3, <3>5, <3>6, <3>7 DEF PullsAdvance
  <2>4. QED
    BY <2>2, <2>3
<1>6. ASSUME NEW n \in Nodes, Crash(n)
      PROVE  PullsAdvance'
  <2>1. \A c \in Clients : IF c = n THEN work'[c] = None
                                    ELSE work'[c] = work[c] /\ offer'[c] = offer[c]
    BY <1>1, <1>6 DEF Crash, TypeOK
  <2>2. QED
    BY <1>2, <2>1
<1>7. ASSUME NEW c \in Clients, EndPull(c)
      PROVE  PullsAdvance'
  BY <1>1, <1>2, <1>7 DEF EndPull, TypeOK
<1>8. ASSUME NEW s, ReceivePush(s)
      PROVE  PullsAdvance'
  BY <1>1, <1>2, <1>8 DEF ReceivePush, TypeOK
<1>9. ASSUME EndPush
      PROVE  PullsAdvance'
  BY <1>1, <1>2, <1>9 DEF EndPush, TypeOK
<1>10. ASSUME UNCHANGED <<work, offer>>
       PROVE  PullsAdvance'
  BY <1>2, <1>10
<1>11. QED
  BY <1>1, <1>3, <1>4, <1>5, <1>6, <1>7, <1>8, <1>9, <1>10, StepKinds DEF LogContact, vars

\* What was pushed is appended event by event, and is acknowledged when nothing is
\* left to append.
LEMMA PushesStep ==
  ASSUME IInv, [Next]_vars
  PROVE  PushesAdvance' /\ AckedIsHeld'
<1>1. /\ TypeOK /\ PushesAdvance /\ AckedIsHeld
      /\ ToSet(log[Server]) \subseteq ToSet(log'[Server])
      /\ Server \in Nodes /\ Server \notin Clients
  BY StepOfLog, LogsGrow, ServerAssumption DEF IInv, Nodes
<1>2. ASSUME work'[Server] = None \/ work'[Server] = work[Server], UNCHANGED acked
      PROVE  PushesAdvance' /\ AckedIsHeld'
  BY <1>1, <1>2 DEF PushesAdvance, AckedIsHeld
<1>3. ASSUME NEW s \in Seq(Event), ReceivePush(s)
      PROVE  PushesAdvance' /\ AckedIsHeld'
  <2>1. work'[Server] = [rest |-> s, pushed |-> s] /\ UNCHANGED acked
    BY <1>1, <1>3 DEF ReceivePush, TypeOK
  <2>2. QED
    BY <1>1, <2>1 DEF PushesAdvance, AckedIsHeld
<1>4. ASSUME NEW n \in Nodes, AppendNext(n)
      PROVE  PushesAdvance' /\ AckedIsHeld'
  <2>1. CASE n # Server
    BY <1>1, <1>2, <1>4, <2>1 DEF AppendNext, TypeOK
  <2>2. CASE n = Server
    <3> DEFINE r == work[Server].rest
    <3>1. work[Server] # None /\ work[Server] \in Work /\ r # << >>
      BY <1>1, <1>4, <2>2 DEF AppendNext, TypeOK
    <3>2. ToSet(r) = {Head(r)} \cup ToSet(Tail(r))
      BY <1>1, <3>1, NextEvent DEF IInv
    <3>3. Head(r) \in ToSet(log'[Server])
      BY <1>1, <1>4, <2>2, AppendedIsHeld
    <3>4. work'[Server].rest = Tail(r) /\ work'[Server].pushed = work[Server].pushed
      BY <1>1, <1>4, <2>2, <3>1 DEF AppendNext, TypeOK, Work
    <3>5. UNCHANGED acked
      BY <1>4 DEF AppendNext
    <3>6. QED
      BY <1>1, <3>1, <3>2, <3>3, <3>4, <3>5 DEF PushesAdvance, AckedIsHeld
  <2>3. QED
    BY <2>1, <2>2
<1>5. ASSUME EndPush
      PROVE  PushesAdvance' /\ AckedIsHeld'
  <2>1. work'[Server] = None /\ UNCHANGED log /\ work[Server] # None
    BY <1>1, <1>5 DEF EndPush, TypeOK
  <2>2. CASE UNCHANGED acked
    BY <1>2, <2>1, <2>2
  <2>3. CASE LoopStatus(Server) = "pulled" /\ acked' = acked \cup ToSet(work[Server].pushed)
    <3>1. work[Server].rest = << >>
      BY <2>3 DEF LoopStatus
    <3>2. ToSet(work[Server].rest) = {}
      BY <3>1 DEF ToSet
    <3>3. QED
      BY <1>1, <2>1, <2>3, <3>2 DEF PushesAdvance, AckedIsHeld
  <2>4. QED
    BY <1>5, <2>2, <2>3 DEF EndPush
<1>6. ASSUME NEW n \in Nodes, Crash(n)
      PROVE  PushesAdvance' /\ AckedIsHeld'
  BY <1>1, <1>2, <1>6 DEF Crash, TypeOK
<1>7. ASSUME NEW c \in Clients, LogContact(c) \/ ApplyPull(c) \/ EndPull(c)
      PROVE  PushesAdvance' /\ AckedIsHeld'
  BY <1>1, <1>2, <1>7 DEF LogContact, ApplyPull, EndPull, TypeOK
<1>8. ASSUME NEW c \in Clients, NEW n \in Nodes, FetchFrom(c, n)
      PROVE  PushesAdvance' /\ AckedIsHeld'
  BY <1>2, <1>8 DEF FetchFrom
<1>9. CASE UNCHANGED vars
  BY <1>2, <1>9 DEF vars
<1>10. QED
  BY <1>1, <1>3, <1>4, <1>5, <1>6, <1>7, <1>8, <1>9, StepKinds

-----------------------------------------------------------------------------
(***************************************************************************)
(* What a pull reports.                                                    *)
(***************************************************************************)

\* A log that holds the last event of a verified source holds all of it.
LEMMA HoldsTheSource ==
  ASSUME IInv, NEW n \in Nodes, NEW s \in Seq(Event), s # << >>,
         verify_chain(s, HeadOf(s)), ToSet(s) \subseteq Held,
         \E i \in 1..Len(log[n]) : log[n][i].hash = HeadOf(s)
  PROVE  IsPrefix(s, log[n])
<1>1. /\ log[n] \in Seq(Event) /\ verify_chain(log[n], HeadOf(log[n]))
      /\ ToSet(log[n]) \subseteq Held
      /\ OneEventPerIdentity
  BY HeldEvents DEF IInv, ChainsVerify
<1>2. /\ Len(s) \in Nat \ {0} /\ Len(log[n]) \in Nat
      /\ DOMAIN s = 1..Len(s) /\ DOMAIN log[n] = 1..Len(log[n])
  BY <1>1, LenProperties, EmptySeq
<1>3. \A k \in 1..Len(s), l \in 1..Len(log[n]) : s[k].id = log[n][l].id => s[k] = log[n][l]
  BY <1>1, <1>2 DEF OneEventPerIdentity, ToSet
<1>4. PICK i \in 1..Len(log[n]) : log[n][i].hash = s[Len(s)].hash
  BY DEF HeadOf
<1>5. Len(s) = i /\ \A k \in 1..Len(s) : s[k] = log[n][k]
  <2> DEFINE l == log[n]
  <2>1. /\ l \in Seq(Event) /\ verify_chain(l, HeadOf(l))
        /\ Len(s) \in 1..Len(s) /\ i \in 1..Len(l) /\ s[Len(s)].hash = l[i].hash
        /\ \A k \in 1..Len(s), j \in 1..Len(l) : s[k].id = l[j].id => s[k] = l[j]
    BY <1>1, <1>2, <1>3, <1>4
  <2> HIDE DEF l
  <2>2. s \in Seq(Event) /\ verify_chain(s, HeadOf(s))
    OBVIOUS
  <2>3. Len(s) = i /\ \A k \in 1..Len(s) : s[k] = l[k]
    BY ONLY <2>1, <2>2, SameHistory
  <2>4. QED
    BY <2>3 DEF l
<1>6. Len(s) <= Len(log[n])
  BY <1>2, <1>4, <1>5
<1> DEFINE t == SubSeq(log[n], 1, Len(s))
<1>7. t \in Seq(Event) /\ Len(t) = Len(s) /\ \A k \in 1..Len(s) : t[k] = log[n][k]
  <2>1. \A k \in 1..Len(s) : log[n][k] \in Event
    BY <1>1, <1>2, <1>6, ElementOfSeq
  <2>2. /\ t \in Seq(Event)
        /\ Len(t) = IF 1 <= Len(s) THEN Len(s) - 1 + 1 ELSE 0
        /\ \A k \in 1..(Len(s) - 1 + 1) : t[k] = log[n][1 + k - 1]
    BY <1>2, <2>1, SubSeqProperties
  <2>3. Len(s) - 1 + 1 = Len(s) /\ \A k \in 1..Len(s) : 1 + k - 1 = k
    BY <1>2
  <2>4. QED
    BY <1>2, <2>2, <2>3
<1>8. t = s
  <2> HIDE DEF t
  <2>1. QED
    BY <1>5, <1>7, SeqEqual
<1>9. SubSeq(s, 1, Len(s)) = s
  BY SubSeqFull
<1>10. QED
  BY <1>6, <1>8, <1>9 DEF IsPrefix

\* The empty log is the beginning of every log.
LEMMA EmptyIsPrefix ==
  ASSUME NEW s \in Seq(Event)
  PROVE  IsPrefix(<< >>, s)
BY EmptySeq, LenProperties, SubSeqEmpty DEF IsPrefix

\* What is the beginning of a log stays so while the log grows.
LEMMA PrefixStays ==
  ASSUME TypeOK, LogStep, NEW n \in Nodes, NEW s \in Seq(Event), IsPrefix(s, log[n])
  PROVE  IsPrefix(s, log'[n])
<1>1. /\ log[n] \in Seq(Event) /\ log'[n] \in Seq(Event)
      /\ Len(log[n]) <= Len(log'[n])
      /\ \A i \in 1..Len(log[n]) : log'[n][i] = log[n][i]
  BY LogsGrow DEF TypeOK
<1>2. /\ Len(s) \in Nat /\ Len(log[n]) \in Nat /\ Len(log'[n]) \in Nat
      /\ Len(s) <= Len(log[n])
  BY <1>1, LenProperties DEF IsPrefix
<1>3. \A i \in 1..Len(s) : /\ log'[n][i] = log[n][i]
                           /\ log[n][i] \in Event
  BY <1>1, <1>2, ElementOfSeq
<1> DEFINE t == SubSeq(log[n], 1, Len(s))
           u == SubSeq(log'[n], 1, Len(s))
<1>4. /\ t \in Seq(Event) /\ u \in Seq(Event) /\ Len(t) = Len(u)
      /\ \A i \in 1..(Len(s) - 1 + 1) : t[i] = log[n][1 + i - 1] /\ u[i] = log'[n][1 + i - 1]
      /\ Len(t) = IF 1 <= Len(s) THEN Len(s) - 1 + 1 ELSE 0
  BY <1>2, <1>3, SubSeqProperties
<1>5. \A i \in 1..Len(t) : t[i] = u[i]
  <2>1. Len(s) - 1 + 1 = Len(s) /\ Len(t) = Len(s)
    BY <1>2, <1>4
  <2>2. \A i \in 1..Len(s) : 1 + i - 1 = i
    BY <1>2
  <2> HIDE DEF t, u
  <2>3. QED
    BY <1>3, <1>4, <2>1, <2>2
<1>6. t = u
  <2> HIDE DEF t, u
  <2>1. QED
    BY <1>4, <1>5, SeqEqual
<1>7. QED
  BY <1>1, <1>2, <1>6 DEF IsPrefix

LEMMA ReportStep ==
  ASSUME IInv, [Next]_vars
  PROVE  PullReportIsTrue'
<1>1. TypeOK /\ PullReportIsTrue /\ LogStep
  BY StepOfLog DEF IInv
<1>2. \A c \in Clients : c \in Nodes /\ log[c] \in Seq(Event)
  BY <1>1 DEF Nodes, TypeOK
<1>3. ASSUME NEW c \in Clients,
             pull[c] # None, pull[c].status \in {"pulled", "in_sync"}
      PROVE  IsPrefix(pull[c].source, log'[c])
  <2>1. pull[c].source \in Seq(Event)
    BY <1>1, <1>3 DEF TypeOK, Outcome
  <2>2. IsPrefix(pull[c].source, log[c])
    BY <1>1, <1>3 DEF PullReportIsTrue
  <2>3. QED
    BY <1>1, <1>2, <2>1, <2>2, PrefixStays
<1>4. ASSUME NEW c \in Clients, \A d \in Clients : d # c => pull'[d] = pull[d],
             \/ pull'[c] = None \/ pull'[c] = pull[c]
             \/ pull'[c].status \notin {"pulled", "in_sync"}
             \/ IsPrefix(pull'[c].source, log'[c])
      PROVE  PullReportIsTrue'
  BY <1>3, <1>4 DEF PullReportIsTrue
<1>5. CASE UNCHANGED pull
  BY <1>3, <1>5 DEF PullReportIsTrue
<1>6. ASSUME NEW c \in Clients, NEW n \in Nodes, FetchFrom(c, n)
      PROVE  PullReportIsTrue'
  BY <1>1, <1>4, <1>6 DEF FetchFrom, TypeOK
<1>7. ASSUME NEW c \in Clients, offer[c] # None
      PROVE  /\ offer[c].events \in Seq(Event) /\ offer[c].source \in Seq(Event)
             /\ Suffix(offer[c].events, offer[c].source)
             /\ verify_chain(offer[c].source, HeadOf(offer[c].source))
             /\ ToSet(offer[c].source) \subseteq Held
             /\ offer[c].events = << >> => offer[c].source = << >> \/ log[c] # << >>
  BY <1>1, <1>7 DEF TypeOK, Offer, IInv, OffersAreEnds, InFlightIsHeld
<1>8. ASSUME NEW c \in Clients, ApplyPull(c)
      PROVE  PullReportIsTrue'
  <2> DEFINE head == HeadOf(log[c])
             events == offer[c].events
             source == offer[c].source
             status == PullStatus(head, events)
  <2>1. offer[c] # None /\ UNCHANGED log
    BY <1>8 DEF ApplyPull
  <2>2. CASE status = "pulled"
    BY <1>5, <1>8, <2>2 DEF ApplyPull
  <2>3. CASE status # "pulled"
    <3>1. pull' = [pull EXCEPT ![c] = [status |-> status, source |-> source]]
      BY <1>8, <2>3 DEF ApplyPull
    <3>2. CASE status = "in_sync"
      <4>1. head = HeadOf(events)
        BY <3>2 DEF PullStatus, verify_incoming_chain
      <4>2. log[c] \in Seq(Event) /\ verify_chain(log[c], head)
        BY <1>2 DEF IInv, ChainsVerify
      <4>3. CASE events = << >>
        <5>1. head = NoHash
          BY <4>1, <4>3 DEF HeadOf
        <5>2. log[c] = << >>
          BY <4>2, <5>1, EmptyHead
        <5>3. source = << >>
          BY <1>7, <2>1, <4>3, <5>2
        <5>4. IsPrefix(source, log[c])
          BY <1>2, <5>3, EmptyIsPrefix
        <5>5. QED
          BY <1>1, <1>4, <2>1, <3>1, <5>4 DEF TypeOK
      <4>4. CASE events # << >>
        <5>1. source # << >> /\ HeadOf(source) = head
          BY <1>7, <2>1, <4>1, <4>4, SuffixHead
        <5>2. log[c] # << >>
          <6>1. SUFFICES ASSUME log[c] = << >> PROVE FALSE
            OBVIOUS
          <6>2. HeadOf(source) = NoHash
            BY <5>1, <6>1 DEF HeadOf
          <6>3. QED
            BY <1>7, <2>1, <5>1, <6>2, EmptyHead
        <5>3. Len(log[c]) \in 1..Len(log[c]) /\ log[c][Len(log[c])].hash = HeadOf(source)
          BY <1>2, <5>1, <5>2, EmptySeq, LenProperties DEF HeadOf
        <5>4. IsPrefix(source, log[c])
          BY <1>2, <1>7, <2>1, <5>1, <5>3, HoldsTheSource
        <5>5. QED
          BY <1>1, <1>4, <2>1, <3>1, <5>4 DEF TypeOK
      <4>5. QED
        BY <4>3, <4>4
    <3>3. CASE status # "in_sync"
      BY <1>1, <1>4, <2>3, <3>1, <3>3 DEF TypeOK
    <3>4. QED
      BY <3>2, <3>3
  <2>4. QED
    BY <2>2, <2>3
<1>9. ASSUME NEW c \in Clients, EndPull(c)
      PROVE  PullReportIsTrue'
  <2> DEFINE source == offer[c].source
  <2>1. /\ work[c] # None /\ UNCHANGED log /\ LoopStatus(c) # "running"
        /\ pull' = [pull EXCEPT ![c] =
             [status |-> IF LoopStatus(c) = "pulled" THEN "pulled" ELSE "rejected",
              source |-> source]]
    BY <1>9 DEF EndPull
  <2>2. CASE LoopStatus(c) = "pulled"
    <3>1. work[c].rest = << >>
      BY <2>2 DEF LoopStatus
    <3>2. offer[c] # None /\ source # << >> /\ source[Len(source)] \in ToSet(log[c])
      BY <2>1, <3>1 DEF IInv, PullsAdvance
    <3>3. \E i \in 1..Len(log[c]) : log[c][i].hash = HeadOf(source)
      BY <1>2, <3>2, LenProperties DEF ToSet, HeadOf
    <3>4. IsPrefix(source, log[c])
      BY <1>2, <1>7, <3>2, <3>3, HoldsTheSource
    <3>5. QED
      BY <1>1, <1>4, <2>1, <3>4 DEF TypeOK
  <2>3. CASE LoopStatus(c) # "pulled"
    BY <1>1, <1>4, <2>1, <2>3 DEF TypeOK
  <2>4. QED
    BY <2>2, <2>3
<1>10. QED
  BY <1>1, <1>5, <1>6, <1>8, <1>9, StepKinds
     DEF LogContact, ReceivePush, AppendNext, EndPush, Crash, vars

-----------------------------------------------------------------------------
(***************************************************************************)
(* The theorems.                                                           *)
(***************************************************************************)
LEMMA InductiveInvariant == Spec => []IInv
<1>1. Init => IInv
  BY InitInv
<1>2. IInv /\ [Next]_vars => IInv'
  <2>1. SUFFICES ASSUME IInv, [Next]_vars PROVE IInv'
    OBVIOUS
  <2>2. ChainsVerify' /\ OneEventPerIdentity'
    BY <2>1, StepOfLog, ChainsStayVerified, IdentitiesStayUnique DEF IInv
  <2>3. QED
    BY <2>1, <2>2, TypeStep, InFlightStep, OffersStep, PullsStep, PushesStep, ReportStep
       DEF IInv
<1>3. QED
  BY <1>1, <1>2, PTL DEF Spec

\* The state keeps its types, for any number of clients, writers and identities.
THEOREM TypeCorrect == Spec => []TypeOK
<1>1. IInv => TypeOK
  BY DEF IInv
<1>2. QED
  BY <1>1, InductiveInvariant, PTL

\* push_events and pull_missing_events keep every chain verified, in any order of
\* messages, with repetitions, partial pushes and crashes between two appends.
THEOREM ChainsAlwaysVerify == Spec => []ChainsVerify
<1>1. IInv => ChainsVerify
  BY DEF IInv
<1>2. QED
  BY <1>1, InductiveInvariant, PTL

\* ADR 0005: two nodes that hold the same event hold the same history of it; forks
\* are refused and never merged.
THEOREM HistoriesAreShared == Spec => []SharedHistory
<1>1. IInv => SharedHistory
  <2>1. SUFFICES ASSUME IInv, NEW m \in Nodes, NEW n \in Nodes,
                        NEW i \in 1..Len(log[m]), NEW j \in 1..Len(log[n]),
                        log[m][i].id = log[n][j].id
                 PROVE  i = j /\ SubSeq(log[m], 1, i) = SubSeq(log[n], 1, j)
    BY DEF SharedHistory
  <2> DEFINE s == log[m]
             t == log[n]
  <2>2. /\ s \in Seq(Event) /\ verify_chain(s, HeadOf(s))
        /\ t \in Seq(Event) /\ verify_chain(t, HeadOf(t))
    BY <2>1 DEF IInv, TypeOK, ChainsVerify
  <2>3. \A k \in 1..Len(s), l \in 1..Len(t) : s[k].id = t[l].id => s[k] = t[l]
    BY <2>1, HeldEvents DEF IInv, OneEventPerIdentity
  <2>4. i \in 1..Len(s) /\ j \in 1..Len(t) /\ s[i].id = t[j].id
    BY <2>1
  <2> HIDE DEF s, t
  <2>5. i = j /\ \A k \in 1..i : s[k] = t[k]
    <3>1. s[i].hash = t[j].hash
      BY <2>3, <2>4
    <3>2. QED
      BY <2>2, <2>3, <2>4, <3>1, SameHistory
  <2>6. Len(s) \in Nat /\ Len(t) \in Nat
    BY <2>2, LenProperties
  <2>7. \A k \in 1..i : k \in 1..Len(s) /\ s[k] \in Event /\ t[k] = s[k]
    BY <2>2, <2>4, <2>5, <2>6, ElementOfSeq
  <2> DEFINE u == SubSeq(s, 1, i)
             v == SubSeq(t, 1, i)
  <2>8. /\ u \in Seq(Event) /\ v \in Seq(Event) /\ Len(u) = Len(v)
        /\ Len(u) = IF 1 <= i THEN i - 1 + 1 ELSE 0
        /\ \A k \in 1..(i - 1 + 1) : u[k] = s[1 + k - 1] /\ v[k] = t[1 + k - 1]
    BY <2>4, <2>7, SubSeqProperties
  <2>9. \A k \in 1..Len(u) : u[k] = v[k]
    <3>1. Len(u) = i /\ i - 1 + 1 = i /\ \A k \in 1..i : 1 + k - 1 = k
      BY <2>4, <2>8
    <3> HIDE DEF u, v
    <3>2. QED
      BY <2>7, <2>8, <3>1
  <2>10. u = v
    <3> HIDE DEF u, v
    <3>1. QED
      BY <2>8, <2>9, SeqEqual
  <2>11. QED
    BY <2>5, <2>10 DEF s, t
<1>2. QED
  BY <1>1, InductiveInvariant, PTL

\* A pull that reports success left the client with everything its source held
\* when it answered, also when the client's log grew in between.
THEOREM PullReportsAreTrue == Spec => []PullReportIsTrue
<1>1. IInv => PullReportIsTrue
  BY DEF IInv
<1>2. QED
  BY <1>1, InductiveInvariant, PTL

\* What the server acknowledged it holds.
THEOREM AcknowledgedIsHeld == Spec => []AckedIsHeld
<1>1. IInv => AckedIsHeld
  BY DEF IInv
<1>2. QED
  BY <1>1, InductiveInvariant, PTL

-----------------------------------------------------------------------------
(***************************************************************************)
(* Every node keeps an official log.                                       *)
(***************************************************************************)

\* What a step does to one log, the abstract log allows.
LEMMA StepIsOfficial ==
  ASSUME TypeOK, LogStep, NEW n \in Nodes
  PROVE  [Official(n)!Next]_(log[n])
<1>1. CASE log' = log
  BY <1>1
<1>2. ASSUME NEW m \in Nodes, NEW e \in Event,
             log' = [log EXCEPT ![m] = Append(@, e)],
             hash_is_valid(e), e.prev = HeadOf(log[m]), e.id \notin IdsOf(log[m])
      PROVE  [Official(n)!Next]_(log[n])
  <2>1. log'[n] = IF n = m THEN Append(log[m], e) ELSE log[n]
    BY <1>2 DEF TypeOK
  <2>2. CASE n # m
    BY <2>1, <2>2
  <2>3. CASE n = m
    <3>1. e = from_new(e.id, HeadOf(log[n])) /\ e.id \in EventIds
      BY <1>2, <2>3 DEF Event, hash_is_valid, from_new
    <3>2. log'[n] = Append(log[n], e)
      BY <2>1, <2>3
    <3>3. Official(n)!Extend(from_new(e.id, HeadOf(log[n])))
      BY <1>2, <2>3, <3>1, <3>2
         DEF Official!Extend, Official!hash_is_valid, hash_is_valid,
             Official!HeadOf, HeadOf, Official!IdsOf, IdsOf, Official!calculate_hash,
             calculate_hash, Official!NoHash, NoHash
    <3>4. QED
      BY <3>1, <3>3 DEF Official!Next, Official!from_new, from_new, Official!HeadOf, HeadOf,
         Official!calculate_hash, calculate_hash, Official!NoHash, NoHash
  <2>4. QED
    BY <2>2, <2>3
<1>3. QED
  BY <1>1, <1>2 DEF LogStep

\* ADR 0001 for the replicated logbook: whatever is fetched, pushed, repeated, lost
\* or cut short by a crash, push_events and pull_missing_events only ever extend
\* the log of a node, at its end, by one linked event of a new identity.
THEOREM LogsAreOnlyExtended == Spec => LogsAreOfficial
<1>1. IInv /\ [Next]_vars => [\A n \in Nodes : [Official(n)!Next]_(log[n])]_vars
  BY StepOfLog, StepIsOfficial DEF IInv
<1>2. QED
  BY <1>1, InductiveInvariant, PTL DEF Spec, LogsAreOfficial

\* The same as a refinement: the log of every single node of the exchange behaves
\* like the one log that OfficialLog promises.
THEOREM NodesImplementOfficialLog ==
  ASSUME NEW n \in Nodes
  PROVE  Spec => Official(n)!Spec
<1>1. Init => Official(n)!Init
  BY DEF Init, Official!Init
<1>2. IInv /\ [Next]_vars => [Official(n)!Next]_(log[n])
  BY StepOfLog, StepIsOfficial DEF IInv
<1>3. QED
  BY <1>1, <1>2, InductiveInvariant, PTL DEF Spec, Official!Spec
=============================================================================
