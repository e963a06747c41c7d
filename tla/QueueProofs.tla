----------------------------- MODULE QueueProofs -----------------------------
(***************************************************************************)
(* Theorems about the retry executor, which drains the offline queue to a  *)
(* server it does not share a process with (RetryDrain), for any number of *)
(* attempts, operations and crashes.                                       *)
(***************************************************************************)
EXTENDS RetryDrain, OfflineQueueProofs

-----------------------------------------------------------------------------
(***************************************************************************)
(* push_events.                                                            *)
(***************************************************************************)

Events == Ops \cup Others
PushErrors == {"none", "user_action", "blocked"}
PushResult == [log : Seq(Events), count : Nat, error : PushErrors]

\* After n events: the server has more than before by the counted ones.
Pushed(ops, n, r) ==
  /\ r.count \in 0..n /\ (r.error = "none" => r.count = n)
  /\ Range(server) \subseteq Range(r.log)
  /\ \A k \in 1..r.count : ops[k] \in Range(r.log)
  /\ \A e \in Range(r.log) : e \in Range(server) \/ \E k \in 1..r.count : ops[k] = e


LEMMA TakeOne ==
  ASSUME NEW ops \in Seq(Ops), NEW n \in 1..Len(ops), NEW r \in PushResult
  PROVE  /\ TakeEvent(r, ops[n]) \in PushResult
         /\ Pushed(ops, n - 1, r) => Pushed(ops, n, TakeEvent(r, ops[n]))
<1>1. PICK op, s : op = ops[n] /\ s = TakeEvent(r, op)
  OBVIOUS
<1>2. /\ op \in Ops /\ op \in Events /\ r.log \in Seq(Events) /\ r.count \in Nat /\ n \in Nat
      /\ r = [log |-> r.log, count |-> r.count, error |-> r.error] /\ r.error \in PushErrors
  BY <1>1, ElementOfSeq, LenProperties DEF PushResult, Events
<1>3. CASE s = r /\ r.error # "none"
  BY <1>1, <1>2, <1>3 DEF Pushed, PushErrors
<1>4. CASE r.error = "none" /\ s = [r EXCEPT !.error = "user_action"]
  <2>1. s = [log |-> r.log, count |-> r.count, error |-> "user_action"]
    BY <1>2, <1>4
  <2>2. QED
    BY <1>1, <1>2, <2>1 DEF Pushed, PushResult, PushErrors
<1>5. CASE r.error = "none" /\ s = [r EXCEPT !.error = "blocked"]
  <2>1. s = [log |-> r.log, count |-> r.count, error |-> "blocked"]
    BY <1>2, <1>5
  <2>2. QED
    BY <1>1, <1>2, <2>1 DEF Pushed, PushResult, PushErrors
<1>6. ASSUME NEW l \in Seq(Events), s = [log |-> l, count |-> r.count + 1, error |-> "none"],
             Range(l) = Range(r.log) \cup {op}, r.error = "none"
      PROVE  s \in PushResult /\ (Pushed(ops, n - 1, r) => Pushed(ops, n, s))
  <2>1. s \in PushResult
    BY <1>2, <1>6 DEF PushResult, PushErrors
  <2>2. ASSUME Pushed(ops, n - 1, r) PROVE Pushed(ops, n, s)
    <3>1. r.count = n - 1 /\ s.count = n /\ s.log = l /\ s.error = "none"
      BY <1>2, <1>6, <2>2 DEF Pushed
    <3>2. \A k \in 1..n : k = n \/ k \in 1..(n - 1)
      BY <1>2
    <3>3. n \in 1..n /\ n \in 0..n /\ 1..(n - 1) \subseteq 1..n
      BY <1>2
    <3>4. \A k \in 1..n : ops[k] \in Range(l)
      BY <1>1, <1>6, <2>2, <3>1, <3>2 DEF Pushed
    <3>5. \A e \in Range(l) : e \in Range(server) \/ \E k \in 1..n : ops[k] = e
      BY <1>1, <1>6, <2>2, <3>1, <3>3 DEF Pushed
    <3>6. Range(server) \subseteq Range(l)
      BY <1>6, <2>2 DEF Pushed
    <3>7. QED
      BY <3>1, <3>3, <3>4, <3>5, <3>6 DEF Pushed
  <2>3. QED
    BY <2>1, <2>2
<1>7. CASE r.error = "none" /\ op \in Range(r.log) /\ s = [r EXCEPT !.count = @ + 1]
  <2>1. s = [log |-> r.log, count |-> r.count + 1, error |-> "none"] /\ Range(r.log) = Range(r.log) \cup {op}
    BY <1>2, <1>7
  <2>2. QED
    BY <1>1, <1>2, <1>6, <1>7, <2>1
<1>8. CASE r.error = "none" /\ s = [r EXCEPT !.log = Append(@, op), !.count = @ + 1]
  <2>1. s = [log |-> Append(r.log, op), count |-> r.count + 1, error |-> "none"]
    BY <1>2, <1>8
  <2>2. Append(r.log, op) \in Seq(Events) /\ Range(Append(r.log, op)) = Range(r.log) \cup {op}
    BY <1>2, AppendProperties, RangeOfAppend
  <2>3. QED
    BY <1>1, <1>6, <1>8, <2>1, <2>2
<1>9. QED
  BY <1>1, <1>3, <1>4, <1>5, <1>7, <1>8 DEF TakeEvent

LEMMA PushTakesPrefix ==
  ASSUME server \in Seq(Events), NEW ops \in Seq(Ops)
  PROVE  push_events(ops) \in PushResult /\ Pushed(ops, Len(ops), push_events(ops))
<1> DEFINE base == [log |-> server, count |-> 0, error |-> "none"]
           After(h) == h = [n \in 0..Len(ops) |-> IF n = 0 THEN base ELSE TakeEvent(h[n - 1], ops[n])]
<1>1. Len(ops) \in Nat /\ base \in PushResult /\ Pushed(ops, 0, base)
  <2>1. Len(ops) \in Nat
    BY LenProperties
  <2>2. base \in PushResult
    BY DEF PushResult, PushErrors
  <2>3. Pushed(ops, 0, base)
    BY DEF Pushed
  <2>4. QED
    BY <2>1, <2>2, <2>3
<1>2. push_events(ops) = (CHOOSE h : After(h))[Len(ops)]
  BY DEF push_events
<1> HIDE DEF base
<1>3. \A h : After(h) <=> h = [n \in 0..Len(ops) |-> IF n = 0 THEN base ELSE TakeEvent(h[n - 1], ops[n])]
  OBVIOUS
<1> HIDE DEF After
<1>4. \E h : After(h)
  <2>1. PICK turn : turn = [n \in 1..Len(ops) |-> [r \in PushResult |-> TakeEvent(r, ops[n])]]
    OBVIOUS
  <2>2. turn \in [1..Len(ops) -> [PushResult -> PushResult]]
    BY <2>1, TakeOne
  <2>3. Loops(PushResult, Len(ops), base, turn) # {}
    BY <1>1, <2>2, LoopIsDefined
  <2>4. PICK h \in [0..Len(ops) -> PushResult] :
          h[0] = base /\ \A n \in 1..Len(ops) : h[n] = turn[n][h[n - 1]]
    BY <2>3 DEF Loops
  <2>5. ASSUME NEW n \in 0..Len(ops)
        PROVE  h[n] = IF n = 0 THEN base ELSE TakeEvent(h[n - 1], ops[n])
    <3>1. CASE n = 0
      BY <2>4, <3>1
    <3>2. CASE n # 0
      <4>1. n \in 1..Len(ops) /\ n - 1 \in 0..Len(ops)
        BY <1>1, <3>2
      <4>2. h[n - 1] \in PushResult
        BY <4>1
      <4>3. h[n] = turn[n][h[n - 1]]
        BY <2>4, <4>1
      <4>4. turn[n][h[n - 1]] = TakeEvent(h[n - 1], ops[n])
        BY <2>1, <4>1, <4>2
      <4>5. QED
        BY <3>2, <4>3, <4>4
    <3>3. QED
      BY <3>1, <3>2
  <2>6. After(h)
    BY <1>3, <2>5
  <2>7. QED
    BY <2>6
<1>5. PICK h : h = CHOOSE g : After(g)
  OBVIOUS
<1>6. After(h)
  BY <1>4, <1>5
<1>7. \A n \in 0..Len(ops) : h[n] = IF n = 0 THEN base ELSE TakeEvent(h[n - 1], ops[n])
  BY <1>3, <1>6
<1> DEFINE P == {n \in 0..Len(ops) : h[n] \in PushResult /\ Pushed(ops, n, h[n])}
<1>8. 0 \in P
  <2>1. 0 \in 0..Len(ops)
    BY <1>1
  <2>2. QED
    BY <1>1, <1>7, <2>1
<1>9. \A n \in 1..Len(ops) : n - 1 \in P => n \in P
  <2> SUFFICES ASSUME NEW n \in 1..Len(ops), h[n - 1] \in PushResult, Pushed(ops, n - 1, h[n - 1])
               PROVE  h[n] \in PushResult /\ Pushed(ops, n, h[n])
    <3>1. \A n \in 1..Len(ops) : n \in 0..Len(ops)
      BY <1>1
    <3>2. QED
      BY <3>1
  <2>1. h[n] = TakeEvent(h[n - 1], ops[n])
    BY <1>1, <1>7
  <2>2. QED
    BY <2>1, TakeOne
<1>10. P = 0..Len(ops)
  <2>1. P \subseteq 0..Len(ops)
    OBVIOUS
  <2> HIDE DEF P
  <2>2. QED
    BY <1>1, <1>8, <1>9, <2>1, EveryTurn
<1>11. Len(ops) \in P
  BY <1>1, <1>10
<1>12. QED
  BY <1>2, <1>5, <1>11

-----------------------------------------------------------------------------
(***************************************************************************)
(* The inductive invariant.                                                *)
(***************************************************************************)

\* What is known of a queue, "held" being what the server holds.
Honest(q, held) ==
  \A i \in 1..Len(q) : q[i].status = "accepted" => q[i].op \in held \cup Support
InOrder(q, held) ==
  \A i, j \in 1..Len(q) : i < j /\ q[j].op \in held => q[i].op \in held \cup Support

\* What is sent passes nothing that the server does not hold.
Follows(q, held, sent) ==
  \A j \in 1..Len(q), k \in 1..Len(sent) : sent[k] = q[j].op =>
    \A i \in 1..(j - 1) : q[i].op \in held \cup Support \/ \E m \in 1..(k - 1) : sent[m] = q[i].op

\* The queues that a call leaves, if it is completed or if it is not, and what
\* is being sent.
Queues == ({main, temp} \ {Absent, Torn}) \cup (IF call = None THEN {} ELSE {call.queue})
Flights == {proc[a].ops : a \in Attempts} \cup {wire[a] : a \in Attempts}

QueueOK(q) ==
  /\ Distinct(q) /\ Honest(q, Range(server)) /\ InOrder(q, Range(server))
  /\ \A sent \in Flights : Follows(q, Range(server), sent)

\* A call that is still to be made: what it accepts is on the server, and what it
\* enqueues is not logged.
EditOK(p, edit, held, logged) ==
  /\ edit \in Edit
  /\ edit.kind = "support" => edit.ops \subseteq Support
  /\ edit.kind = "accepted" => edit.ops \subseteq held
  /\ edit.kind = "enqueue" => p = Logger /\ \E op \in Ops \ logged : edit.ops = {op}

\* The types of what the invariant is about.
CoreTypes ==
  /\ main \in Seq(QueueEntry) \cup {Absent}
  /\ temp \in Seq(QueueEntry) \cup {Absent, Torn}
  /\ call \in [by : Procs, queue : Seq(QueueEntry)] \cup {None}
  /\ proc \in [Procs -> Proc]
  /\ wire \in [Attempts -> Seq(Ops)]
  /\ log \in Seq(Ops \cup Others)
  /\ server \in Seq(Ops \cup Others)
  /\ acked \subseteq Ops
  /\ crashes \in 0..MaxCrashes

DrainInv ==
  /\ CoreTypes
  /\ \A q \in Queues : QueueOK(q)
  /\ \A sent \in Flights : Range(sent) \subseteq Range(log)
  /\ Range(server) \cap Ops \subseteq Range(log)
  /\ Range(log) \cap Support \cap Ops = {}
  /\ temp \notin {Absent, Torn} => main = Absent /\ (call # None => temp = call.queue)
  /\ call # None => proc[call.by].todo # << >>
  /\ \A p \in Procs : proc[p].phase = "sent" => proc[p].todo = << >>
  /\ \A p \in Procs : \A i \in 1..Len(proc[p].todo) :
       EditOK(p, proc[p].todo[i], Range(server), Range(log))

\* A planning attempt has listed events of the log.
ListedInv ==
  /\ listed \in [Attempts -> SUBSET Events]
  /\ \A a \in Attempts : listed[a] \subseteq Range(log)
  /\ lost \in BOOLEAN

-----------------------------------------------------------------------------
(***************************************************************************)
(* What the invariant says of single parts of the state.                   *)
(***************************************************************************)

LEMMA DrainFacts ==
  ASSUME DrainInv
  PROVE  /\ server \in Seq(Events) /\ log \in Seq(Events)
         /\ \A q \in Queues : q \in Seq(QueueEntry) /\ QueueOK(q)
         /\ load_file \in Seq(QueueEntry) /\ (load_file = << >> \/ load_file \in Queues)
         /\ main # Absent => main \in Queues
         /\ temp \notin {Absent, Torn} => temp \in Queues /\ main = Absent
         /\ call # None => call.queue \in Queues /\ call.by \in Procs /\ proc[call.by].todo # << >>
         /\ Flights \subseteq Seq(Ops)
         /\ \A p \in Procs : /\ proc[p] \in Proc /\ proc[p].phase \in Phases
                             /\ proc[p].todo \in Seq(Edit) /\ proc[p].ops \in Seq(Ops)
         /\ \A a \in Attempts : a \in Procs /\ proc[a].ops \in Flights /\ wire[a] \in Flights
         /\ Logger \in Procs /\ Attempts \subseteq Procs
         /\ Ops \subseteq Events /\ Others \subseteq Events /\ Others \cap Ops = {}
<1>1. CoreTypes /\ \A q \in Queues : QueueOK(q)
  BY DEF DrainInv
<1>2. Absent # Torn /\ Absent \notin Seq(QueueEntry) /\ Torn \notin Seq(QueueEntry)
      /\ None \notin [by : Procs, queue : Seq(QueueEntry)]
  BY FilesAssumption DEF Procs
<1>3. \A q \in Queues : q \in Seq(QueueEntry)
  BY <1>1 DEF CoreTypes, Queues
<1>4. main # Absent => main \in Queues
  <2>1. main # Absent => main \in Seq(QueueEntry)
    BY <1>1 DEF CoreTypes
  <2>2. QED
    BY <1>2, <2>1 DEF Queues
<1>5. temp \notin {Absent, Torn} => temp \in Queues /\ main = Absent
  BY DEF DrainInv, Queues
<1>6. load_file \in Seq(QueueEntry) /\ (load_file = << >> \/ load_file \in Queues)
  BY <1>3, <1>4 DEF load_file
<1>7. call # None => call.queue \in Queues /\ call.by \in Procs /\ proc[call.by].todo # << >>
  <2>1. call # None => call \in [by : Procs, queue : Seq(QueueEntry)]
    BY <1>1 DEF CoreTypes
  <2>2. QED
    BY <2>1 DEF Queues, DrainInv
<1>8. \A p \in Procs : /\ proc[p] \in Proc /\ proc[p].phase \in Phases
                       /\ proc[p].todo \in Seq(Edit) /\ proc[p].ops \in Seq(Ops)
  BY <1>1 DEF CoreTypes, Proc
<1>9. Attempts \subseteq Procs /\ Logger \in Procs
  BY DEF Procs
<1>10. Flights \subseteq Seq(Ops) /\ \A a \in Attempts : proc[a].ops \in Flights /\ wire[a] \in Flights
  <2>1. \A a \in Attempts : wire[a] \in Seq(Ops)
    BY <1>1 DEF CoreTypes
  <2>2. QED
    BY <1>8, <1>9, <2>1 DEF Flights
<1>11. server \in Seq(Events) /\ log \in Seq(Events)
  BY <1>1 DEF CoreTypes, Events
<1>12. Ops \subseteq Events /\ Others \subseteq Events /\ Others \cap Ops = {}
  BY OthersAssumption DEF Events
<1>13. QED
  BY <1>1, <1>3, <1>4, <1>5, <1>6, <1>7, <1>8, <1>9, <1>10, <1>11, <1>12

LEMMA EmptyIsOK ==
  /\ QueueOK(<< >>)
  /\ \A q, held : Follows(q, held, << >>)
  /\ Range(<< >>) = {}
<1>1. Len(<< >>) = 0 /\ \A i : i \notin 1..0
  OBVIOUS
<1>2. \A q, held : Follows(q, held, << >>)
  BY <1>1 DEF Follows
<1>3. QueueOK(<< >>)
  BY <1>1 DEF QueueOK, Distinct, Honest, InOrder, Follows
<1>4. QED
  BY <1>2, <1>3 DEF Range

\* A queue is judged by its operations and by what it calls accepted.
LEMMA SameOperations ==
  ASSUME NEW q \in Seq(QueueEntry), QueueOK(q), NEW r \in Seq(QueueEntry), Len(r) = Len(q),
         \A i \in 1..Len(q) : r[i].op = q[i].op,
         Honest(r, Range(server))
  PROVE  QueueOK(r)
<1>1. Distinct(r) /\ InOrder(r, Range(server))
  BY DEF QueueOK, Distinct, InOrder
<1>2. \A sent \in Flights : Follows(r, Range(server), sent)
  <2> SUFFICES ASSUME NEW sent \in Flights, NEW j \in 1..Len(r), NEW k \in 1..Len(sent),
                      sent[k] = r[j].op, NEW i \in 1..(j - 1)
               PROVE  r[i].op \in Range(server) \cup Support \/ \E m \in 1..(k - 1) : sent[m] = r[i].op
    BY DEF Follows
  <2>1. i \in 1..Len(q) /\ j \in 1..Len(q)
    BY LenProperties
  <2>2. sent[k] = q[j].op /\ r[i].op = q[i].op
    BY <2>1
  <2>3. q[i].op \in Range(server) \cup Support \/ \E m \in 1..(k - 1) : sent[m] = q[i].op
    BY <2>1, <2>2 DEF QueueOK, Follows
  <2>4. QED
    BY <2>2, <2>3
<1>3. QED
  BY <1>1, <1>2 DEF QueueOK

\* A call that still is to be made leaves a queue of which the same is known.
LEMMA EditKeepsOK ==
  ASSUME DrainInv, NEW q \in Seq(QueueEntry), QueueOK(q), NEW p, NEW edit, EditOK(p, edit, Range(server), Range(log))
  PROVE  ApplyEdit(q, edit) \in Seq(QueueEntry) /\ QueueOK(ApplyEdit(q, edit))
<1>1. PICK r : r = ApplyEdit(q, edit)
  OBVIOUS
<1>2. CASE edit.kind # "enqueue"
  <2>1. r = update_mutation(q, edit.kind, edit.ops)
    BY <1>1, <1>2 DEF ApplyEdit
  <2>2. edit.kind \in Kinds \ {"enqueue"}
    BY <1>2 DEF EditOK, Edit
  <2>3. /\ r \in Seq(QueueEntry) /\ Len(r) = Len(q)
        /\ \A i \in 1..Len(q) :
             /\ r[i].op = q[i].op
             /\ r[i].status = "accepted" =>
                  q[i].status = "accepted" \/ (edit.kind \in {"accepted", "support"} /\ q[i].op \in edit.ops)
    BY <2>1, <2>2, EditInPlace
  <2>4. Honest(r, Range(server))
    BY <2>3 DEF EditOK, QueueOK, Honest
  <2>5. QED
    BY <1>1, <2>3, <2>4, SameOperations
<1>3. CASE edit.kind = "enqueue"
  <2>1. PICK op \in Ops \ Range(log) : edit.ops = {op}
    BY <1>3 DEF EditOK
  <2>2. (CHOOSE o \in edit.ops : TRUE) = op
    BY <2>1
  <2>3. r = enqueue_input(q, op)
    BY <1>1, <1>3, <2>2 DEF ApplyEdit
  <2>4. CASE op \in OpsOf(q)
    <3>1. r = q
      BY <2>3, <2>4 DEF enqueue_input
    <3>2. QED
      BY <1>1, <3>1
  <2>5. CASE op \notin OpsOf(q)
    <3>1. /\ r \in Seq(QueueEntry) /\ Len(r) = Len(q) + 1
          /\ r[Len(r)].op = op /\ r[Len(r)].status = "pending"
          /\ \A i \in 1..Len(q) : r[i] = q[i]
      BY <2>3, <2>5, EnqueueLast
    <3>2. Len(q) \in Nat /\ \A i \in 1..Len(r) : i = Len(r) \/ i \in 1..Len(q)
      BY <3>1, LenProperties
    <3>3. \A i \in 1..Len(q) : q[i].op # op
      BY <2>5, LenProperties DEF OpsOf, Range
    <3>4. op \notin Range(server)
      BY <2>1 DEF DrainInv
    <3>5. Distinct(r)
      BY <3>1, <3>2, <3>3 DEF QueueOK, Distinct
    <3>6. Honest(r, Range(server))
      BY <3>1, <3>2 DEF QueueOK, Honest
    <3>7. InOrder(r, Range(server))
      <4> SUFFICES ASSUME NEW i \in 1..Len(r), NEW j \in 1..Len(r), i < j, r[j].op \in Range(server)
                   PROVE  r[i].op \in Range(server) \cup Support
        BY DEF InOrder
      <4>1. j \in 1..Len(q)
        BY <3>1, <3>2, <3>4
      <4>2. i \in 1..Len(q)
        BY <3>2, <4>1
      <4>3. QED
        BY <3>1, <4>1, <4>2 DEF QueueOK, InOrder
    <3>8. \A sent \in Flights : Follows(r, Range(server), sent)
      <4> SUFFICES ASSUME NEW sent \in Flights, NEW j \in 1..Len(r), NEW k \in 1..Len(sent),
                          sent[k] = r[j].op, NEW i \in 1..(j - 1)
                   PROVE  r[i].op \in Range(server) \cup Support \/ \E m \in 1..(k - 1) : sent[m] = r[i].op
        BY DEF Follows
      <4>1. sent[k] \in Range(log)
        <5>1. sent \in Seq(Ops) /\ Range(sent) \subseteq Range(log)
          BY DrainFacts DEF DrainInv
        <5>2. sent[k] \in Range(sent)
          BY <5>1, LenProperties DEF Range
        <5>3. QED
          BY <5>1, <5>2
      <4>2. j \in 1..Len(q)
        BY <2>1, <3>1, <3>2, <4>1
      <4>3. i \in 1..Len(q)
        BY <3>2, <4>2
      <4>4. sent[k] = q[j].op /\ r[i] = q[i]
        BY <3>1, <4>2, <4>3
      <4>5. q[i].op \in Range(server) \cup Support \/ \E m \in 1..(k - 1) : sent[m] = q[i].op
        BY <4>2, <4>4 DEF QueueOK, Follows
      <4>6. QED
        BY <4>4, <4>5
    <3>9. QED
      BY <1>1, <3>1, <3>5, <3>6, <3>7, <3>8 DEF QueueOK
  <2>6. QED
    BY <2>4, <2>5
<1>4. QED
  BY <1>2, <1>3

LEMMA StillOK ==
  ASSUME Range(server) \subseteq Range(server'), NEW q, QueueOK(q), InOrder(q, Range(server')),
         \A sent \in Flights' : sent \in Flights \cup {<< >>} \/ Follows(q, Range(server), sent)
  PROVE  QueueOK(q)'
<1>1. \A sent \in Flights' : Follows(q, Range(server), sent)
  BY EmptyIsOK DEF QueueOK
<1>2. \A sent \in Flights' : Follows(q, Range(server'), sent)
  BY <1>1 DEF Follows
<1>3. Honest(q, Range(server'))
  BY DEF QueueOK, Honest
<1>4. QED
  BY <1>2, <1>3 DEF QueueOK

LEMMA StillOKs ==
  ASSUME UNCHANGED server, Flights' \subseteq Flights \cup {<< >>}
  PROVE  \A q : QueueOK(q) => QueueOK(q)'
<1> SUFFICES ASSUME NEW q, QueueOK(q) PROVE QueueOK(q)'
  OBVIOUS
<1>1. InOrder(q, Range(server'))
  BY DEF QueueOK
<1>2. QED
  BY <1>1, StillOK

-----------------------------------------------------------------------------
(***************************************************************************)
(* The steps of the store.                                                 *)
(***************************************************************************)

LEMMA BeginCallStep ==
  ASSUME DrainInv, NEW p \in Procs, BeginCall(p)
  PROVE  DrainInv'
<1>1. PICK edit, q, r :
        /\ edit = Head(proc[p].todo)
        /\ q = IF edit.kind = "recover" THEN recover_interrupted_atomic_write ELSE load_file
        /\ r = ApplyEdit(q, edit)
  OBVIOUS
<1>2. /\ call = None /\ proc[p].todo # << >>
      /\ call' = [by |-> p, queue |-> r] /\ temp' = Torn
      /\ main' = (IF edit.kind = "recover" /\ q # load_file THEN q ELSE main)
      /\ UNCHANGED <<proc, wire, log, server, acked, crashes>>
  BY <1>1 DEF BeginCall
<1>3. q \in Seq(QueueEntry) /\ QueueOK(q) /\ (q # load_file => q \in Queues)
  <2>1. load_file \in Seq(QueueEntry) /\ QueueOK(load_file)
    BY DrainFacts, EmptyIsOK
  <2>2. temp \notin {Absent, Torn} => temp \in Queues /\ temp \in Seq(QueueEntry) /\ QueueOK(temp)
    BY DrainFacts
  <2>3. QED
    BY <1>1, <2>1, <2>2 DEF recover_interrupted_atomic_write
<1>4. EditOK(p, edit, Range(server), Range(log))
  <2>1. proc[p].todo \in Seq(Edit) /\ 1 \in 1..Len(proc[p].todo) /\ edit = proc[p].todo[1]
    BY <1>1, <1>2, DrainFacts, HeadTailProperties, LenProperties
  <2>2. QED
    BY <2>1 DEF DrainInv
<1>5. r \in Seq(QueueEntry) /\ QueueOK(r)
  BY <1>1, <1>3, <1>4, EditKeepsOK
<1>6. main' \in Seq(QueueEntry) \cup {Absent} /\ (main' # Absent => QueueOK(main'))
  <2>1. main \in Seq(QueueEntry) \cup {Absent} /\ (main # Absent => QueueOK(main))
    BY DrainFacts DEF DrainInv, CoreTypes
  <2>2. QED
    BY <1>2, <1>3, <2>1
<1>7. call' # None
  <2>1. call' \in [by : Procs, queue : Seq(QueueEntry)]
    BY <1>2, <1>5
  <2>2. QED
    BY <2>1, FilesAssumption DEF Procs
<1>8. Queues' \subseteq (({main'} \ {Absent}) \cup {r})
  BY <1>2, <1>7 DEF Queues
<1>9. CoreTypes'
  <2>1. temp' \in Seq(QueueEntry) \cup {Absent, Torn} /\ call' \in [by : Procs, queue : Seq(QueueEntry)] \cup {None}
    BY <1>2, <1>5
  <2>2. QED
    BY <1>2, <1>6, <2>1 DEF DrainInv, CoreTypes
<1>10. \A s \in Queues' : QueueOK(s)'
  <2>1. \A s \in Queues' : QueueOK(s)
    BY <1>5, <1>6, <1>8
  <2>2. Flights' = Flights
    BY <1>2 DEF Flights
  <2>3. QED
    BY <1>2, <2>1, <2>2, StillOKs
<1>11. \A sent \in Flights' : Range(sent) \subseteq Range(log')
  BY <1>2 DEF Flights, DrainInv
<1>12. proc'[call'.by].todo # << >>
  BY <1>2
<1>13. \A o \in Procs : \A i \in 1..Len(proc'[o].todo) : EditOK(o, proc'[o].todo[i], Range(server'), Range(log'))
  BY <1>2 DEF DrainInv
<1>14. QED
  BY <1>2, <1>9, <1>10, <1>11, <1>12, <1>13 DEF DrainInv

LEMMA WriteTempStep ==
  ASSUME DrainInv, WriteTemp
  PROVE  DrainInv'
<1>1. /\ call # None /\ temp' = call.queue /\ main' = Absent
      /\ UNCHANGED <<call, proc, wire, log, server, acked, crashes>>
  BY DEF WriteTemp
<1>2. call.queue \in Queues /\ call.queue \in Seq(QueueEntry)
  BY <1>1, DrainFacts
<1>3. Queues' \subseteq Queues /\ Flights' = Flights
  BY <1>1, <1>2 DEF Queues, Flights
<1>4. CoreTypes'
  BY <1>1, <1>2 DEF DrainInv, CoreTypes
<1>5. \A s \in Queues' : QueueOK(s)'
  BY <1>1, <1>3, StillOKs DEF DrainInv
<1>6. \A o \in Procs : \A i \in 1..Len(proc'[o].todo) : EditOK(o, proc'[o].todo[i], Range(server'), Range(log'))
  BY <1>1 DEF DrainInv
<1>7. QED
  BY <1>1, <1>3, <1>4, <1>5, <1>6 DEF DrainInv

LEMMA EndCallStep ==
  ASSUME DrainInv, EndCall
  PROVE  DrainInv'
<1>1. PICK p : p = call.by
  OBVIOUS
<1>2. /\ call # None /\ temp # Torn /\ main' = temp /\ temp' = Absent /\ call' = None
      /\ proc' = [proc EXCEPT ![p].todo = Tail(@)]
      /\ UNCHANGED <<wire, log, server, acked, crashes>>
  BY <1>1 DEF EndCall
<1>3. /\ p \in Procs /\ proc[p] \in Proc /\ proc[p].todo \in Seq(Edit) /\ proc[p].todo # << >>
  BY <1>1, <1>2, DrainFacts
<1>4. PICK todo : todo = Tail(proc[p].todo)
  OBVIOUS
<1>5. /\ todo \in Seq(Edit) /\ Len(todo) = Len(proc[p].todo) - 1
      /\ \A i \in 1..Len(todo) : todo[i] = proc[p].todo[i + 1] /\ i + 1 \in 1..Len(proc[p].todo)
  BY <1>3, <1>4, HeadTailProperties, LenProperties
<1>6. /\ proc' \in [Procs -> Proc] /\ proc'[p].todo = todo /\ proc'[p].phase = proc[p].phase
      /\ \A o \in Procs : proc'[o].ops = proc[o].ops /\ (o # p => proc'[o] = proc[o])
  <2>1. proc[p] = [phase |-> proc[p].phase, todo |-> proc[p].todo, ops |-> proc[p].ops]
    BY <1>3 DEF Proc
  <2>2. PICK x : x = [phase |-> proc[p].phase, todo |-> todo, ops |-> proc[p].ops]
    OBVIOUS
  <2>3. x \in Proc /\ x.todo = todo /\ x.ops = proc[p].ops /\ x.phase = proc[p].phase
    BY <1>3, <1>5, <2>2 DEF Proc
  <2>4. proc \in [Procs -> Proc]
    BY DEF DrainInv, CoreTypes
  <2>5. x = [proc[p] EXCEPT !.todo = todo]
    BY <2>1, <2>2
  <2>6. proc' = [proc EXCEPT ![p] = x]
    BY <1>2, <1>3, <1>4, <2>4, <2>5
  <2>7. QED
    BY <1>3, <2>3, <2>4, <2>6
<1>7. Queues' \subseteq Queues /\ Flights' \subseteq Flights
  <2>1. Flights' \subseteq Flights
    BY <1>2, <1>6 DEF Flights, Procs
  <2>2. Queues' \subseteq {temp} \ {Absent, Torn}
    BY <1>2 DEF Queues
  <2>3. QED
    BY <2>1, <2>2 DEF Queues
<1>8. CoreTypes'
  BY <1>2, <1>6 DEF DrainInv, CoreTypes
<1>9. \A s \in Queues' : QueueOK(s)'
  BY <1>2, <1>7, StillOKs DEF DrainInv
<1>10. \A o \in Procs : \A i \in 1..Len(proc'[o].todo) : EditOK(o, proc'[o].todo[i], Range(server'), Range(log'))
  <2>1. \A o \in Procs : \A i \in 1..Len(proc'[o].todo) : EditOK(o, proc'[o].todo[i], Range(server), Range(log))
    BY <1>5, <1>6 DEF DrainInv
  <2>2. QED
    BY <1>2, <2>1
<1>11. \A sent \in Flights' : Range(sent) \subseteq Range(log')
  BY <1>2, <1>7 DEF DrainInv
<1>12. \A o \in Procs : proc'[o].phase = "sent" => proc'[o].todo = << >>
  BY <1>3, <1>6 DEF DrainInv
<1>13. QED
  BY <1>2, <1>8, <1>9, <1>10, <1>11, <1>12 DEF DrainInv

\* p is done with a call that was only a read.
LEMMA FindQueuedTodo ==
  ASSUME DrainInv, NEW p \in Procs, FindQueued(p)
  PROVE  \E x \in Proc :
           /\ x.phase = proc[p].phase /\ x.ops = proc[p].ops
           /\ x.todo = Tail(proc[p].todo) /\ proc' = [proc EXCEPT ![p] = x]
           /\ Len(x.todo) = Len(proc[p].todo) - 1
           /\ \A i \in 1..Len(x.todo) : x.todo[i] = proc[p].todo[i + 1] /\ i + 1 \in 1..Len(proc[p].todo)
<1>1. /\ proc[p] \in Proc /\ proc[p].todo \in Seq(Edit) /\ proc[p].todo # << >>
      /\ proc' = [proc EXCEPT ![p].todo = Tail(@)] /\ proc \in [Procs -> Proc]
  BY DrainFacts DEF FindQueued, DrainInv, CoreTypes
<1>2. PICK todo : todo = Tail(proc[p].todo)
  OBVIOUS
<1>3. /\ todo \in Seq(Edit) /\ Len(todo) = Len(proc[p].todo) - 1
      /\ \A i \in 1..Len(todo) : todo[i] = proc[p].todo[i + 1] /\ i + 1 \in 1..Len(proc[p].todo)
  BY <1>1, <1>2, HeadTailProperties, LenProperties
<1>4. proc[p] = [phase |-> proc[p].phase, todo |-> proc[p].todo, ops |-> proc[p].ops]
  BY <1>1 DEF Proc
<1>5. PICK x : x = [phase |-> proc[p].phase, todo |-> todo, ops |-> proc[p].ops]
  OBVIOUS
<1>6. x \in Proc /\ x.todo = todo /\ x.ops = proc[p].ops /\ x.phase = proc[p].phase
  BY <1>1, <1>3, <1>5 DEF Proc
<1>7. x = [proc[p] EXCEPT !.todo = todo]
  BY <1>4, <1>5
<1>8. proc' = [proc EXCEPT ![p] = x]
  BY <1>1, <1>2, <1>7
<1>9. QED
  BY <1>2, <1>3, <1>6, <1>8

LEMMA IdleFacts ==
  /\ Idle \in Proc /\ Idle.phase = "idle" /\ Idle.todo = << >> /\ Idle.ops = << >>
  /\ Len(Idle.todo) = 0
  /\ Range(Idle.ops) = {} /\ \A q, held : Follows(q, held, Idle.ops)
<1>1. Idle \in Proc
  <2>1. << >> \in Seq(Edit) /\ << >> \in Seq(Ops)
    OBVIOUS
  <2>2. QED
    BY <2>1 DEF Idle, Proc, Phases
<1>2. QED
  BY <1>1, EmptyIsOK DEF Idle

LEMMA CrashStep ==
  ASSUME DrainInv, Crash
  PROVE  DrainInv'
<1>1. /\ call' = None /\ crashes' \in 0..MaxCrashes
      /\ proc' = [p \in Procs |-> Idle]
      /\ UNCHANGED <<main, temp, wire, log, server, acked>>
  BY BoundsAssumption DEF Crash, DrainInv, CoreTypes
<1>4. \A p \in Procs : /\ proc'[p] \in Proc /\ proc'[p].ops = << >>
                       /\ Len(proc'[p].todo) = 0 /\ proc'[p].phase # "sent"
  BY <1>1, IdleFacts
<1>5. Queues' \subseteq Queues /\ Flights' \subseteq Flights \cup {<< >>}
  <2>1. Flights' \subseteq Flights \cup {<< >>}
    BY <1>1, <1>4 DEF Flights, Procs
  <2>2. QED
    BY <1>1, <2>1 DEF Queues
<1>6. CoreTypes'
  <2>1. proc' \in [Procs -> Proc]
    BY <1>1, <1>4
  <2>2. QED
    BY <1>1, <2>1 DEF DrainInv, CoreTypes
<1>7. \A s \in Queues' : QueueOK(s)'
  BY <1>1, <1>5, StillOKs DEF DrainInv
<1>8. \A o \in Procs : \A i \in 1..Len(proc'[o].todo) : EditOK(o, proc'[o].todo[i], Range(server'), Range(log'))
  BY <1>4
<1>9. \A sent \in Flights' : Range(sent) \subseteq Range(log')
  BY <1>1, <1>5, EmptyIsOK DEF DrainInv
<1>10. QED
  BY <1>1, <1>4, <1>6, <1>7, <1>8, <1>9 DEF DrainInv

-----------------------------------------------------------------------------
(***************************************************************************)
(* The steps of the processes.                                             *)
(***************************************************************************)

\* p goes on to x; what it will write is true, what it sends comes in order, and
\* the logs only grow.
LEMMA ProcStep ==
  ASSUME DrainInv, NEW p \in Procs, NEW x \in Proc, proc' = [proc EXCEPT ![p] = x],
         UNCHANGED <<main, temp, call, crashes>>, acked' \subseteq Ops,
         call # None /\ call.by = p => x.todo # << >>,
         log' \in Seq(Events), Range(log) \subseteq Range(log'),
         p = Logger \/ Range(log') \cap Ops \subseteq Range(log),
         Range(log') \cap Support \cap Ops \subseteq Range(log),
         server' \in Seq(Events), Range(server) \subseteq Range(server'),
         Range(server') \cap Ops \subseteq Range(log'),
         \A q \in Queues : InOrder(q, Range(server')),
         wire' \in [Attempts -> Seq(Ops)], \A a \in Attempts : wire'[a] \in Flights \cup {<< >>},
         x.phase = "sent" => x.todo = << >>,
         \A i \in 1..Len(x.todo) : EditOK(p, x.todo[i], Range(server'), Range(log')),
         p \in Attempts => /\ Range(x.ops) \subseteq Range(log)
                           /\ \A q \in Queues : Follows(q, Range(server), x.ops)
  PROVE  DrainInv'
<1>1. /\ \A o \in Procs : proc'[o] = IF o = p THEN x ELSE proc[o]
      /\ proc' \in [Procs -> Proc] /\ Queues' = Queues
  BY DEF DrainInv, CoreTypes, Queues
<1>2. CoreTypes'
  BY <1>1 DEF DrainInv, CoreTypes, Events
<1>3. \A sent \in Flights' : \/ sent \in Flights \cup {<< >>}
                             \/ sent = x.ops /\ p \in Attempts
  BY <1>1, DrainFacts DEF Flights
<1>4. \A q \in Queues' : QueueOK(q)'
  <2> SUFFICES ASSUME NEW q \in Queues PROVE QueueOK(q)'
    BY <1>1
  <2>1. QueueOK(q) /\ InOrder(q, Range(server'))
    BY DEF DrainInv
  <2>2. \A sent \in Flights' : sent \in Flights \cup {<< >>} \/ Follows(q, Range(server), sent)
    BY <1>3
  <2>3. QED
    BY <2>1, <2>2, StillOK
<1>5. \A sent \in Flights' : Range(sent) \subseteq Range(log')
  BY <1>3, EmptyIsOK DEF DrainInv
<1>6. call' # None => proc'[call'.by].todo # << >>
  BY <1>1, DrainFacts
<1>7. \A o \in Procs : proc'[o].phase = "sent" => proc'[o].todo = << >>
  BY <1>1 DEF DrainInv
<1>8. ASSUME NEW o \in Procs, NEW i \in 1..Len(proc'[o].todo)
      PROVE  EditOK(o, proc'[o].todo[i], Range(server'), Range(log'))
  <2>1. CASE o = p
    BY <1>1, <2>1
  <2>2. CASE o # p
    <3>1. EditOK(o, proc'[o].todo[i], Range(server), Range(log))
      BY <1>1, <2>2 DEF DrainInv
    <3>2. QED
      BY <2>2, <3>1 DEF EditOK
  <2>3. QED
    BY <2>1, <2>2
<1>9. QED
  BY <1>1, <1>2, <1>4, <1>5, <1>6, <1>7, <1>8 DEF DrainInv

\* A step of one process between two calls that sends nothing.
LEMMA PhaseStep ==
  ASSUME DrainInv, call = None, NEW p \in Procs, NEW x \in Proc, proc' = [proc EXCEPT ![p] = x],
         UNCHANGED <<main, temp, call, wire, log, server, crashes>>, acked' \subseteq Ops,
         x.phase # "sent",
         \A i \in 1..Len(x.todo) : EditOK(p, x.todo[i], Range(server), Range(log)),
         p \in Attempts => /\ Range(x.ops) \subseteq Range(log)
                           /\ \A q \in Queues : Follows(q, Range(server), x.ops)
  PROVE  DrainInv'
<1>1. /\ log' \in Seq(Events) /\ server' \in Seq(Events) /\ wire' \in [Attempts -> Seq(Ops)]
      /\ Range(server') \cap Ops \subseteq Range(log')
      /\ \A q \in Queues : InOrder(q, Range(server'))
  BY DEF DrainInv, CoreTypes, Events, QueueOK
<1>2. \A a \in Attempts : wire'[a] \in Flights
  BY DrainFacts
<1>3. QED
  BY <1>1, <1>2, ProcStep

LEMMA FindQueuedStep ==
  ASSUME DrainInv, NEW p \in Procs, FindQueued(p)
  PROVE  DrainInv'
<1>1. PICK x \in Proc :
        /\ x.phase = proc[p].phase /\ x.ops = proc[p].ops /\ proc' = [proc EXCEPT ![p] = x]
        /\ \A i \in 1..Len(x.todo) : x.todo[i] = proc[p].todo[i + 1] /\ i + 1 \in 1..Len(proc[p].todo)
  BY FindQueuedTodo
<1>2. call = None /\ proc[p].todo # << >> /\ UNCHANGED <<main, temp, call, wire, log, server, acked, crashes>>
  BY DEF FindQueued
<1>3. x.phase # "sent" /\ acked' \subseteq Ops
  BY <1>1, <1>2 DEF DrainInv, CoreTypes
<1>4. \A i \in 1..Len(x.todo) : EditOK(p, x.todo[i], Range(server), Range(log))
  BY <1>1 DEF DrainInv
<1>5. p \in Attempts => x.ops \in Flights
  BY <1>1, DrainFacts
<1>6. p \in Attempts => /\ Range(x.ops) \subseteq Range(log)
                        /\ \A q \in Queues : Follows(q, Range(server), x.ops)
  BY <1>5 DEF DrainInv, QueueOK
<1>7. QED
  BY <1>1, <1>2, <1>3, <1>4, <1>6, PhaseStep

\* Edits that neither accept nor enqueue anything are always right.
LEMMA EachIsOK ==
  ASSUME NEW kind \in Kinds \ {"enqueue", "accepted", "support"}, NEW ops \in Seq(Ops), NEW p,
         NEW held, NEW logged
  PROVE  /\ Each(kind, ops) \in Seq(Edit)
         /\ \A i \in 1..Len(Each(kind, ops)) : EditOK(p, Each(kind, ops)[i], held, logged)
<1>1. /\ Each(kind, ops) \in Seq(Edit) /\ Len(Each(kind, ops)) = Len(ops)
      /\ \A i \in 1..Len(ops) : /\ Each(kind, ops)[i] = [kind |-> kind, ops |-> {ops[i]}]
                                /\ ops[i] \in Ops
  BY EachIsMade
<1>2. \A op \in Ops : EditOK(p, [kind |-> kind, ops |-> {op}], held, logged)
  BY DEF EditOK, Edit
<1>3. QED
  BY <1>1, <1>2

LEMMA SubmitStep ==
  ASSUME DrainInv, NEW op \in Ops, Submit(op)
  PROVE  DrainInv'
<1>1. PICK ops : ops = <<op>>
  OBVIOUS
<1>2. PICK x : x = [phase |-> "enqueue", todo |-> Each("enqueue", ops), ops |-> ops]
  OBVIOUS
<1>3. /\ call = None /\ op \notin Range(log) /\ proc' = [proc EXCEPT ![Logger] = x]
      /\ UNCHANGED <<main, temp, call, wire, log, server, acked, crashes>>
  <2>1. op \in Support \/ Unused(op)
    BY DEF Submit
  <2>2. op \notin Range(log)
    BY <2>1 DEF Unused, DrainInv
  <2>3. QED
    BY <1>1, <1>2, <2>2 DEF Submit, Ready, Enter
<1>4. ops \in Seq(Ops) /\ Len(ops) = 1 /\ ops[1] = op /\ "enqueue" \in Kinds
  BY <1>1 DEF Kinds
<1>5. /\ Each("enqueue", ops) \in Seq(Edit) /\ Len(Each("enqueue", ops)) = 1
      /\ Each("enqueue", ops)[1] = [kind |-> "enqueue", ops |-> {op}]
  BY <1>4, EachIsMade
<1>6. x \in Proc /\ x.phase # "sent" /\ x.todo = Each("enqueue", ops)
  BY <1>2, <1>4, <1>5 DEF Proc, Phases
<1>7. EditOK(Logger, [kind |-> "enqueue", ops |-> {op}], Range(server), Range(log))
  BY <1>3 DEF EditOK, Edit, Kinds
<1>8. \A i \in 1..Len(x.todo) : EditOK(Logger, x.todo[i], Range(server), Range(log))
  BY <1>5, <1>6, <1>7
<1>9. Logger \in Procs /\ Logger \notin Attempts /\ acked' \subseteq Ops
  BY <1>3, LoggerAssumption DEF Procs, DrainInv, CoreTypes
<1>10. QED
  BY <1>3, <1>6, <1>8, <1>9, PhaseStep

\* A command of the user that goes on to phase, with edits that may be made.
LEMMA LoggerStep ==
  ASSUME DrainInv, call = None, NEW phase \in Phases \ {"sent"}, NEW todo \in Seq(Edit),
         NEW ops \in Seq(Ops), Enter(Logger, phase, todo, ops),
         UNCHANGED <<main, temp, call, wire, log, server, acked, crashes>>,
         \A i \in 1..Len(todo) : EditOK(Logger, todo[i], Range(server), Range(log))
  PROVE  DrainInv'
<1>1. PICK x : x = [phase |-> phase, todo |-> todo, ops |-> ops]
  OBVIOUS
<1>2. x \in Proc /\ x.phase # "sent" /\ x.todo = todo /\ proc' = [proc EXCEPT ![Logger] = x]
  BY <1>1 DEF Proc, Enter
<1>3. Logger \in Procs /\ Logger \notin Attempts /\ acked' \subseteq Ops
  BY LoggerAssumption DEF Procs, DrainInv, CoreTypes
<1>4. QED
  BY <1>2, <1>3, PhaseStep

LEMMA RejectStep ==
  ASSUME DrainInv, Reject
  PROVE  DrainInv'
<1>1. PICK ops, todo : ops = proc[Logger].ops /\ todo = Each("user_action", ops)
  OBVIOUS
<1>2. /\ call = None /\ Enter(Logger, "settle", todo, ops)
      /\ UNCHANGED <<main, temp, call, wire, log, server, acked, crashes>>
  BY <1>1 DEF Reject, Ready
<1>3. /\ ops \in Seq(Ops) /\ "user_action" \in Kinds \ {"enqueue", "accepted", "support"}
      /\ "settle" \in Phases \ {"sent"}
  BY <1>1, DrainFacts DEF Kinds, Phases
<1>4. todo \in Seq(Edit) /\ \A i \in 1..Len(todo) : EditOK(Logger, todo[i], Range(server), Range(log))
  BY <1>1, <1>3, EachIsOK
<1>5. QED
  BY <1>2, <1>3, <1>4, LoggerStep

LEMMA SaveStationBookStep ==
  ASSUME DrainInv, SaveStationBook
  PROVE  DrainInv'
<1>1. PICK ops, todo : ops = proc[Logger].ops /\ todo = Each("support", ops)
  OBVIOUS
<1>2. /\ call = None /\ Enter(Logger, "settle", todo, ops) /\ Range(ops) \subseteq Support
      /\ UNCHANGED <<main, temp, call, wire, log, server, acked, crashes>>
  BY <1>1 DEF SaveStationBook, Ready
<1>3. ops \in Seq(Ops) /\ "support" \in Kinds /\ "settle" \in Phases \ {"sent"}
  BY <1>1, DrainFacts DEF Kinds, Phases
<1>4. /\ todo \in Seq(Edit) /\ Len(todo) = Len(ops) /\ Len(ops) \in Nat
      /\ \A i \in 1..Len(ops) : todo[i] = [kind |-> "support", ops |-> {ops[i]}] /\ ops[i] \in Ops
  BY <1>1, <1>3, EachIsMade, LenProperties
<1>5. \A i \in 1..Len(ops) : ops[i] \in Support
  BY <1>2, <1>3, LenProperties DEF Range
<1>6. ASSUME NEW i \in 1..Len(todo) PROVE EditOK(Logger, todo[i], Range(server), Range(log))
  <2>1. todo[i] = [kind |-> "support", ops |-> {ops[i]}] /\ ops[i] \in Ops /\ ops[i] \in Support
    BY <1>4, <1>5
  <2>2. QED
    BY <2>1 DEF EditOK, Edit, Kinds
<1>7. QED
  BY <1>2, <1>3, <1>4, <1>6, LoggerStep

LEMMA RefuseEquipmentStep ==
  ASSUME DrainInv, RefuseEquipment
  PROVE  DrainInv'
<1>1. PICK ops, todo : ops = proc[Logger].ops /\ todo = << >>
  OBVIOUS
<1>2. /\ call = None /\ Enter(Logger, "settle", todo, ops)
      /\ UNCHANGED <<main, temp, call, wire, log, server, acked, crashes>>
  BY <1>1 DEF RefuseEquipment, Ready
<1>3. ops \in Seq(Ops) /\ todo \in Seq(Edit) /\ Len(todo) = 0 /\ "settle" \in Phases \ {"sent"}
  BY <1>1, DrainFacts DEF Phases
<1>4. \A i \in 1..Len(todo) : EditOK(Logger, todo[i], Range(server), Range(log))
  BY <1>3
<1>5. QED
  BY <1>2, <1>3, <1>4, LoggerStep

LEMMA RecoverStep ==
  ASSUME DrainInv, Recover
  PROVE  DrainInv'
<1>1. PICK ops, todo : ops = << >> /\ todo = recover_or_initialize
  OBVIOUS
<1>2. /\ call = None /\ Enter(Logger, "recover", todo, ops)
      /\ UNCHANGED <<main, temp, call, wire, log, server, acked, crashes>>
  BY <1>1 DEF Recover, Ready
<1>3. ops \in Seq(Ops) /\ "recover" \in Phases \ {"sent"}
  BY <1>1 DEF Phases
<1>4. todo \in Seq(Edit) /\ \A i \in 1..Len(todo) : EditOK(Logger, todo[i], Range(server), Range(log))
  BY <1>1 DEF recover_or_initialize, EditOK, Edit, Kinds
<1>5. QED
  BY <1>2, <1>3, <1>4, LoggerStep

LEMMA ReturnToUserStep ==
  ASSUME DrainInv, ReturnToUser
  PROVE  DrainInv'
<1>1. /\ call = None /\ proc' = [proc EXCEPT ![Logger] = Idle]
      /\ UNCHANGED <<main, temp, call, wire, log, server, crashes>>
  BY DEF ReturnToUser, Ready
<1>2. acked' \subseteq Ops
  <2>1. proc[Logger].ops \in Seq(Ops) /\ acked \subseteq Ops
    BY DrainFacts DEF DrainInv, CoreTypes
  <2>2. Range(proc[Logger].ops) \subseteq Ops
    BY <2>1, LenProperties, ElementOfSeq DEF Range
  <2>3. QED
    BY <2>1, <2>2 DEF ReturnToUser
<1>3. Logger \in Procs /\ Logger \notin Attempts
  BY LoggerAssumption DEF Procs
<1>4. /\ Idle \in Proc /\ Idle.phase # "sent"
      /\ \A i \in 1..Len(Idle.todo) : EditOK(Logger, Idle.todo[i], Range(server), Range(log))
  BY IdleFacts
<1>5. QED
  BY <1>1, <1>2, <1>3, <1>4, PhaseStep

LEMMA AppendEventStep ==
  ASSUME DrainInv, AppendEvent
  PROVE  DrainInv'
<1>1. PICK ops : ops = proc[Logger].ops
  OBVIOUS
<1>2. PICK x : x = [phase |-> "attach", todo |-> Each("attach", ops), ops |-> ops]
  OBVIOUS
<1>3. /\ call = None /\ log' = log \o ops /\ proc' = [proc EXCEPT ![Logger] = x]
      /\ Range(ops) \cap Support = {}
      /\ UNCHANGED <<main, temp, call, wire, server, acked, crashes>>
  BY <1>1, <1>2 DEF AppendEvent, Ready, Enter
<1>4. ops \in Seq(Ops) /\ ops \in Seq(Events) /\ "attach" \in Kinds \ {"enqueue", "accepted", "support"}
  BY <1>1, DrainFacts, SeqMonotonic DEF Kinds
<1>5. /\ Each("attach", ops) \in Seq(Edit)
      /\ \A i \in 1..Len(Each("attach", ops)) :
           EditOK(Logger, Each("attach", ops)[i], Range(server'), Range(log'))
  BY <1>4, EachIsOK
<1>6. x \in Proc /\ x.phase # "sent" /\ x.todo = Each("attach", ops)
  BY <1>2, <1>4, <1>5 DEF Proc, Phases
<1>7. Logger \in Procs /\ Logger \notin Attempts /\ acked' \subseteq Ops
  BY <1>3, LoggerAssumption DEF Procs, DrainInv, CoreTypes
<1>8. log' \in Seq(Events) /\ Range(log') = Range(log) \cup Range(ops)
  <2>1. log \in Seq(Events)
    BY DrainFacts
  <2>2. QED
    BY <1>3, <1>4, <2>1, ConcatProperties, RangeConcatenation
<1>9. /\ server' \in Seq(Events) /\ wire' \in [Attempts -> Seq(Ops)]
      /\ Range(server') \cap Ops \subseteq Range(log')
      /\ \A q \in Queues : InOrder(q, Range(server'))
  BY <1>3, <1>8 DEF DrainInv, CoreTypes, Events, QueueOK
<1>10. \A a \in Attempts : wire'[a] \in Flights
  BY <1>3, DrainFacts
<1>11. Range(log) \subseteq Range(log') /\ Range(log') \cap Support \cap Ops \subseteq Range(log)
  BY <1>3, <1>8
<1>12. QED
  BY <1>3, <1>5, <1>6, <1>7, <1>8, <1>9, <1>10, <1>11, ProcStep

\* What an attempt sends, or has sent, it may go on with.
LEMMA FlightFacts ==
  ASSUME DrainInv, NEW sent \in Flights
  PROVE  /\ sent \in Seq(Ops) /\ Range(sent) \subseteq Range(log)
         /\ \A q \in Queues : Follows(q, Range(server), sent)
  BY DrainFacts DEF DrainInv, QueueOK

\* An attempt that stops.
LEMMA StopStep ==
  ASSUME DrainInv, call = None, NEW a \in Attempts, proc' = [proc EXCEPT ![a] = Idle],
         UNCHANGED <<main, temp, call, wire, log, server, acked, crashes>>
  PROVE  DrainInv'
<1>1. a \in Procs /\ acked' \subseteq Ops
  BY DEF Procs, DrainInv, CoreTypes
<1>2. /\ Idle \in Proc /\ Idle.phase # "sent"
      /\ \A i \in 1..Len(Idle.todo) : EditOK(a, Idle.todo[i], Range(server), Range(log))
      /\ Range(Idle.ops) \subseteq Range(log) /\ \A q \in Queues : Follows(q, Range(server), Idle.ops)
  BY IdleFacts
<1>3. QED
  BY <1>1, <1>2, PhaseStep

\* An attempt that goes on to phase, with edits that accept nothing.
LEMMA AttemptStep ==
  ASSUME DrainInv, call = None, NEW a \in Attempts, NEW phase \in Phases \ {"sent"},
         NEW todo \in Seq(Edit), NEW ops \in Seq(Ops), Enter(a, phase, todo, ops),
         UNCHANGED <<main, temp, call, wire, log, server, acked, crashes>>,
         \A i \in 1..Len(todo) : EditOK(a, todo[i], Range(server), Range(log)),
         Range(ops) \subseteq Range(log), \A q \in Queues : Follows(q, Range(server), ops)
  PROVE  DrainInv'
<1>1. a \in Procs /\ acked' \subseteq Ops
  BY DEF Procs, DrainInv, CoreTypes
<1>2. PICK x : x = [phase |-> phase, todo |-> todo, ops |-> ops]
  OBVIOUS
<1>3. /\ x \in Proc /\ x.phase # "sent" /\ x.todo = todo /\ x.ops = ops
      /\ proc' = [proc EXCEPT ![a] = x]
  BY <1>2 DEF Proc, Enter
<1>4. QED
  BY <1>1, <1>3, PhaseStep

LEMMA StartPlanStep ==
  ASSUME DrainInv, NEW a \in Attempts, StartPlan(a)
  PROVE  DrainInv'
<1>1. PICK todo : todo = recover_or_initialize
  OBVIOUS
<1>2. /\ call = None /\ Enter(a, "plan", todo, << >>)
      /\ UNCHANGED <<main, temp, call, wire, log, server, acked, crashes>>
  BY <1>1 DEF StartPlan, Ready
<1>3. todo \in Seq(Edit) /\ \A i \in 1..Len(todo) : EditOK(a, todo[i], Range(server), Range(log))
  BY <1>1 DEF recover_or_initialize, EditOK, Edit, Kinds
<1>4. "plan" \in Phases \ {"sent"} /\ << >> \in Seq(Ops)
  BY DEF Phases
<1>5. Range(<< >>) \subseteq Range(log) /\ \A q \in Queues : Follows(q, Range(server), << >>)
  BY EmptyIsOK
<1>6. QED
  BY <1>2, <1>3, <1>4, <1>5, AttemptStep

LEMMA ListEventsStep ==
  ASSUME DrainInv, NEW a \in Attempts, ListEvents(a)
  PROVE  DrainInv'
<1>1. /\ call = None /\ Enter(a, "listed", << >>, << >>)
      /\ UNCHANGED <<main, temp, call, wire, log, server, acked, crashes>>
  BY DEF ListEvents, Ready
<1>2. /\ "listed" \in Phases \ {"sent"} /\ << >> \in Seq(Ops) /\ << >> \in Seq(Edit)
      /\ \A i : i \notin 1..Len(<< >>)
  BY DEF Phases
<1>3. Range(<< >>) \subseteq Range(log) /\ \A q \in Queues : Follows(q, Range(server), << >>)
  BY EmptyIsOK
<1>4. QED
  BY <1>1, <1>2, <1>3, AttemptStep

LEMMA GiveUpStep ==
  ASSUME DrainInv, NEW a \in Attempts, GiveUp(a)
  PROVE  DrainInv'
<1>1. PICK ops : ops = proc[a].ops
  OBVIOUS
<1>2. PICK todo : todo = Each("transient", ops)
  OBVIOUS
<1>3. /\ call = None /\ Enter(a, "record", todo, ops)
      /\ UNCHANGED <<main, temp, call, wire, log, server, acked, crashes>>
  BY <1>1, <1>2 DEF GiveUp, Ready
<1>4. ops \in Flights
  BY <1>1, DrainFacts
<1>5. /\ ops \in Seq(Ops) /\ Range(ops) \subseteq Range(log)
      /\ \A q \in Queues : Follows(q, Range(server), ops)
  BY <1>4, FlightFacts
<1>6. "transient" \in Kinds \ {"enqueue", "accepted", "support"} /\ "record" \in Phases \ {"sent"}
  BY DEF Kinds, Phases
<1>7. todo \in Seq(Edit) /\ \A i \in 1..Len(todo) : EditOK(a, todo[i], Range(server), Range(log))
  BY <1>2, <1>5, <1>6, EachIsOK
<1>8. QED
  BY <1>3, <1>5, <1>6, <1>7, AttemptStep

LEMMA PushStep ==
  ASSUME DrainInv, NEW a \in Attempts, Push(a)
  PROVE  DrainInv'
<1>1. PICK ops : ops = proc[a].ops
  OBVIOUS
<1>2. PICK x : x = [phase |-> "sent", todo |-> << >>, ops |-> ops]
  OBVIOUS
<1>3. /\ call = None /\ proc' = [proc EXCEPT ![a] = x] /\ wire' = [wire EXCEPT ![a] = ops]
      /\ UNCHANGED <<main, temp, call, log, server, acked, crashes>>
  BY <1>1, <1>2 DEF Push, Ready, Enter
<1>4. ops \in Flights
  BY <1>1, DrainFacts
<1>5. /\ ops \in Seq(Ops) /\ Range(ops) \subseteq Range(log)
      /\ \A q \in Queues : Follows(q, Range(server), ops)
  BY <1>4, FlightFacts
<1>6. x \in Proc /\ x.todo = << >> /\ Len(x.todo) = 0 /\ x.ops = ops
  <2>1. << >> \in Seq(Edit)
    OBVIOUS
  <2>2. QED
    BY <1>2, <1>5, <2>1 DEF Proc, Phases
<1>7. /\ log' \in Seq(Events) /\ server' \in Seq(Events) /\ acked' \subseteq Ops /\ a \in Procs
      /\ Range(server') \cap Ops \subseteq Range(log')
      /\ \A q \in Queues : InOrder(q, Range(server'))
  BY <1>3 DEF DrainInv, CoreTypes, Events, QueueOK, Procs
<1>8. wire' \in [Attempts -> Seq(Ops)]
  <2>1. wire \in [Attempts -> Seq(Ops)]
    BY DEF DrainInv, CoreTypes
  <2>2. QED
    BY <1>3, <1>5, <2>1
<1>9. \A b \in Attempts : wire'[b] \in Flights \cup {<< >>}
  <2>1. wire \in [Attempts -> Seq(Ops)]
    BY DEF DrainInv, CoreTypes
  <2>2. \A b \in Attempts : wire'[b] = ops \/ wire'[b] = wire[b]
    BY <1>3, <2>1
  <2>3. QED
    BY <1>4, <2>2, DrainFacts
<1>10. \A i \in 1..Len(x.todo) : EditOK(a, x.todo[i], Range(server'), Range(log'))
  BY <1>6
<1>11. /\ Range(log) \subseteq Range(log') /\ Range(log') \cap Ops \subseteq Range(log)
       /\ Range(server) \subseteq Range(server') /\ UNCHANGED <<main, temp, call, crashes>>
  BY <1>3
<1>12. QED
  BY <1>3, <1>5, <1>6, <1>7, <1>8, <1>9, <1>10, <1>11, ProcStep

\* What a plan takes from the queue passes nothing that is not on the server.
LEMMA PlanFollows ==
  ASSUME DrainInv, call = None, NEW known, known \subseteq Range(log),
         NEW batch, batch = ready_event_batch(load_file, known),
         NEW n \in 0..Len(batch.ops), NEW ops, ops = SubSeq(batch.ops, 1, n)
  PROVE  /\ batch.missing \subseteq Ops
         /\ ops \in Seq(Ops) /\ Range(ops) \subseteq Range(log)
         /\ \A q \in Queues : Follows(q, Range(server), ops)
<1>1. PICK q : q = load_file
  OBVIOUS
<1>2. q \in Seq(QueueEntry) /\ (q = << >> \/ q \in Queues) /\ Len(q) \in Nat
  BY <1>1, DrainFacts, LenProperties
<1>3. /\ batch.ops \in Seq(Ops) /\ batch.missing \subseteq Ops
      /\ \A k \in 1..Len(batch.ops) :
           /\ batch.ops[k] \in Range(log)
           /\ \E j \in 1..Len(q) :
                /\ q[j].op = batch.ops[k] /\ q[j].linked
                /\ \A i \in 1..(j - 1) :
                     q[i].status = "accepted" \/ \E m \in 1..(k - 1) : batch.ops[m] = q[i].op
  <2>1. batch = ready_event_batch(q, known)
    BY <1>1
  <2>2. Planned(q, known, batch)
    BY <1>2, <2>1, BatchFollows
  <2>3. QED
    BY <2>2 DEF Planned
<1>4. Len(batch.ops) \in Nat /\ \A k \in 1..Len(batch.ops) : batch.ops[k] \in Ops
  BY <1>3, LenProperties, ElementOfSeq
<1>5. /\ ops \in Seq(Ops) /\ Len(ops) = n
      /\ \A k \in 1..n : k \in 1..Len(batch.ops) /\ ops[k] = batch.ops[k]
  <2>1. 1 \in Int /\ n \in Int /\ \A i \in 1..n : batch.ops[i] \in Ops
    BY <1>4
  <2>2. QED
    BY <1>4, <2>1, SubSeqProperties
<1>6. Range(ops) \subseteq Range(log)
  <2>1. DOMAIN ops = 1..n
    BY <1>5, LenProperties
  <2>2. QED
    BY <1>3, <1>5, <2>1 DEF Range
<1>7. ASSUME NEW s \in Queues PROVE Follows(s, Range(server), ops)
  <2>0. (s = main /\ main # Absent) \/ main = Absent
    BY <1>7, DrainFacts DEF Queues
  <2>1. CASE main = Absent
    <3>1. Len(q) = 0
      BY <1>1, <2>1 DEF load_file
    <3>2. n = 0
      BY <1>3, <1>4, <3>1
    <3>3. Len(ops) = 0 /\ \A k : k \notin 1..0
      BY <1>5, <3>2
    <3>4. QED
      BY <3>3 DEF Follows
  <2>2. CASE s = main /\ main # Absent
    <3>1. QueueOK(q) /\ q = s
      BY <1>1, <1>7, <2>2 DEF DrainInv, load_file
    <3>0. SUFFICES Follows(q, Range(server), ops)
      BY <3>1
    <3> SUFFICES ASSUME NEW j \in 1..Len(q), NEW k \in 1..Len(ops), ops[k] = q[j].op, NEW i \in 1..(j - 1)
                 PROVE  q[i].op \in Range(server) \cup Support \/ \E m \in 1..(k - 1) : ops[m] = q[i].op
      BY DEF Follows
    <3>2. PICK h \in 1..Len(q) :
            /\ q[h].op = batch.ops[k]
            /\ \A g \in 1..(h - 1) : q[g].status = "accepted" \/ \E m \in 1..(k - 1) : batch.ops[m] = q[g].op
      BY <1>3, <1>5
    <3>3. h = j
      BY <1>5, <3>1, <3>2 DEF QueueOK, Distinct
    <3>4. q[i].status = "accepted" \/ \E m \in 1..(k - 1) : batch.ops[m] = q[i].op
      BY <3>2, <3>3
    <3>5. i \in 1..Len(q) /\ \A m \in 1..(k - 1) : m \in 1..n
      BY <1>2
    <3>6. QED
      BY <1>5, <3>1, <3>4, <3>5 DEF QueueOK, Honest
  <2>3. QED
    BY <2>0, <2>1, <2>2
<1>8. QED
  BY <1>3, <1>5, <1>6, <1>7

LEMMA PlanBatchStep ==
  ASSUME DrainInv, ListedInv, NEW a \in Attempts, PlanBatch(a)
  PROVE  DrainInv'
<1>1. PICK known, batch : known = listed[a] /\ batch = ready_event_batch(load_file, known)
  OBVIOUS
<1>2. PICK n : n = IF Len(batch.ops) < MaxBatch THEN Len(batch.ops) ELSE MaxBatch
  OBVIOUS
<1>3. PICK ops : ops = SubSeq(batch.ops, 1, n)
  OBVIOUS
<1>4. PICK todo : todo = <<[kind |-> "user_action", ops |-> batch.missing]>>
  OBVIOUS
<1>5. /\ call = None /\ UNCHANGED <<main, temp, call, wire, log, server, acked, crashes>>
      /\ \/ Enter(a, "replan", todo, << >>)
         \/ proc' = [proc EXCEPT ![a] = Idle]
         \/ Enter(a, "send", Each("sending", ops), ops)
  BY <1>1, <1>2, <1>3, <1>4 DEF PlanBatch, Ready
<1>6. n \in 0..Len(batch.ops)
  <2>1. load_file \in Seq(QueueEntry)
    BY DrainFacts
  <2>2. batch.ops \in Seq(Ops)
    BY <1>1, <2>1, BatchFollows DEF Planned
  <2>3. QED
    BY <1>2, <2>2, LenProperties, BoundsAssumption
<1>7. /\ batch.missing \subseteq Ops
      /\ ops \in Seq(Ops) /\ Range(ops) \subseteq Range(log)
      /\ \A q \in Queues : Follows(q, Range(server), ops)
  <2>1. known \subseteq Range(log)
    BY <1>1 DEF ListedInv
  <2>2. QED
    BY <1>1, <1>3, <1>5, <1>6, <2>1, PlanFollows
<1>8. CASE Enter(a, "replan", todo, << >>)
  <2>1. "replan" \in Phases \ {"sent"} /\ << >> \in Seq(Ops)
    BY DEF Phases
  <2>2. Range(<< >>) \subseteq Range(log) /\ \A q \in Queues : Follows(q, Range(server), << >>)
    BY EmptyIsOK
  <2>3. todo \in Seq(Edit) /\ \A i \in 1..Len(todo) : EditOK(a, todo[i], Range(server), Range(log))
    BY <1>4, <1>7 DEF EditOK, Edit, Kinds
  <2>4. QED
    BY <1>5, <1>8, <2>1, <2>2, <2>3, AttemptStep
<1>9. CASE proc' = [proc EXCEPT ![a] = Idle]
  BY <1>5, <1>9, StopStep
<1>10. CASE Enter(a, "send", Each("sending", ops), ops)
  <2>1. "send" \in Phases \ {"sent"} /\ "sending" \in Kinds \ {"enqueue", "accepted", "support"}
    BY DEF Phases, Kinds
  <2>2. PICK sends : sends = Each("sending", ops)
    OBVIOUS
  <2>3. sends \in Seq(Edit) /\ \A i \in 1..Len(sends) : EditOK(a, sends[i], Range(server), Range(log))
    BY <1>7, <2>1, <2>2, EachIsOK
  <2>4. QED
    BY <1>5, <1>7, <1>10, <2>1, <2>2, <2>3, AttemptStep
<1>11. QED
  BY <1>5, <1>8, <1>9, <1>10

\* The backoff of an entry passes.
LEMMA BecomeDueStep ==
  ASSUME DrainInv, NEW op \in Ops, BecomeDue(op)
  PROVE  DrainInv'
<1>1. PICK i \in 1..Len(main) : main' = [main EXCEPT ![i].due = TRUE]
  BY DEF BecomeDue
<1>2. /\ main # Absent /\ main \in Seq(QueueEntry) /\ QueueOK(main) /\ call = None
      /\ UNCHANGED <<temp, call, proc, wire, log, server, acked, crashes>>
  BY DrainFacts DEF BecomeDue
<1>3. Len(main) \in Nat /\ main[i] \in QueueEntry
  BY <1>2, LenProperties, ElementOfSeq
<1>4. PICK e : e = [main[i] EXCEPT !.due = TRUE]
  OBVIOUS
<1>5. e \in QueueEntry /\ e.op = main[i].op /\ e.status = main[i].status
  <2>1. main[i] = [op |-> main[i].op, status |-> main[i].status, attempts |-> main[i].attempts,
                   linked |-> main[i].linked, due |-> main[i].due]
    BY <1>3 DEF QueueEntry
  <2>2. e = [op |-> main[i].op, status |-> main[i].status, attempts |-> main[i].attempts,
             linked |-> main[i].linked, due |-> TRUE]
    BY <1>4, <2>1
  <2>3. QED
    BY <1>3, <2>2 DEF QueueEntry
<1>6. main' = [main EXCEPT ![i] = e]
  BY <1>1, <1>4
<1>7. main' \in Seq(QueueEntry) /\ Len(main') = Len(main)
  BY <1>2, <1>5, <1>6, ExceptSeq
<1>8. \A j \in 1..Len(main) : main'[j] = IF j = i THEN e ELSE main[j]
  BY <1>2, <1>6, ExceptSeq
<1>9. QueueOK(main')
  <2>1. \A j \in 1..Len(main) : main'[j].op = main[j].op /\ main'[j].status = main[j].status
    BY <1>5, <1>8
  <2>2. PICK r : r = main'
    OBVIOUS
  <2>3. Honest(r, Range(server))
    BY <1>2, <1>7, <2>1, <2>2 DEF QueueOK, Honest
  <2>4. QueueOK(r)
    BY <1>2, <1>7, <2>1, <2>2, <2>3, SameOperations
  <2>5. QED
    BY <2>2, <2>4
<1>10. temp \in {Absent, Torn}
  BY <1>2, DrainFacts
<1>11. CoreTypes'
  BY <1>2, <1>7 DEF DrainInv, CoreTypes
<1>12. \A q \in Queues' : QueueOK(q)'
  <2>1. Queues' \subseteq {main'} /\ Flights' = Flights
    BY <1>2, <1>10 DEF Queues, Flights
  <2>2. \A q \in Queues' : QueueOK(q)
    BY <1>9, <2>1
  <2>3. QED
    BY <1>2, <2>1, <2>2, StillOKs
<1>13. Flights' = Flights
  BY <1>2 DEF Flights
<1>14. QED
  BY <1>2, <1>10, <1>11, <1>12, <1>13 DEF DrainInv

-----------------------------------------------------------------------------
(***************************************************************************)
(* The steps of the server and of the other clients.                       *)
(***************************************************************************)

LEMMA KeepsEdits ==
  ASSUME DrainInv, NEW p \in Procs, Range(server) \subseteq Range(server'),
         Range(log') \cap Ops \subseteq Range(log)
  PROVE  \A i \in 1..Len(proc[p].todo) : EditOK(p, proc[p].todo[i], Range(server'), Range(log'))
<1> SUFFICES ASSUME NEW i \in 1..Len(proc[p].todo)
             PROVE  EditOK(p, proc[p].todo[i], Range(server'), Range(log'))
  OBVIOUS
<1>1. EditOK(p, proc[p].todo[i], Range(server), Range(log))
  BY DEF DrainInv
<1>2. QED
  BY <1>1 DEF EditOK

\* An answer, or an answer that nobody waits for.
LEMMA AnswerStep ==
  ASSUME DrainInv, NEW a \in Attempts, NEW todo \in Seq(Edit), Answer(a, todo),
         UNCHANGED <<main, temp, call, log, acked, crashes>>, wire' = [wire EXCEPT ![a] = << >>],
         server' \in Seq(Events), Range(server) \subseteq Range(server'),
         Range(server') \cap Ops \subseteq Range(log),
         \A q \in Queues : InOrder(q, Range(server')),
         \A i \in 1..Len(todo) : EditOK(a, todo[i], Range(server'), Range(log))
  PROVE  DrainInv'
<1>1. wire' \in [Attempts -> Seq(Ops)] /\ \A b \in Attempts : wire'[b] \in Flights \cup {<< >>}
  <2>1. wire \in [Attempts -> Seq(Ops)] /\ << >> \in Seq(Ops)
    BY DEF DrainInv, CoreTypes
  <2>2. QED
    BY <2>1, DrainFacts
<1>2. /\ a \in Procs /\ acked' \subseteq Ops /\ log' \in Seq(Events)
      /\ Range(log) \subseteq Range(log') /\ Range(log') \cap Ops \subseteq Range(log)
      /\ Range(server') \cap Ops \subseteq Range(log') /\ UNCHANGED <<main, temp, call, crashes>>
      /\ proc \in [Procs -> Proc] /\ proc[a] \in Proc
  BY DEF Procs, DrainInv, CoreTypes, Events
<1>3. /\ proc[a].ops \in Seq(Ops) /\ Range(proc[a].ops) \subseteq Range(log)
      /\ \A q \in Queues : Follows(q, Range(server), proc[a].ops)
  BY DrainFacts, FlightFacts
<1>4. CASE proc[a].phase = "sent"
  <2>1. PICK x : x = [phase |-> "record", todo |-> todo, ops |-> proc[a].ops]
    OBVIOUS
  <2>2. /\ x \in Proc /\ x.phase # "sent" /\ x.todo = todo /\ x.ops = proc[a].ops
        /\ proc' = [proc EXCEPT ![a] = x]
    BY <1>3, <1>4, <2>1 DEF Proc, Phases, Answer, Enter
  <2>3. call # None => call.by # a
    BY <1>2, <1>4 DEF DrainInv
  <2>4. \A i \in 1..Len(x.todo) : EditOK(a, x.todo[i], Range(server'), Range(log'))
    BY <1>2, <2>2
  <2>5. QED
    BY <1>1, <1>2, <1>3, <2>2, <2>3, <2>4, ProcStep
<1>5. CASE proc[a].phase # "sent"
  <2>1. PICK x : x = proc[a]
    OBVIOUS
  <2>2. x \in Proc /\ x.phase # "sent" /\ x.ops = proc[a].ops /\ proc' = [proc EXCEPT ![a] = x]
    BY <1>2, <1>5, <2>1 DEF Answer
  <2>3. call # None /\ call.by = a => x.todo # << >>
    BY <2>1 DEF DrainInv
  <2>4. \A i \in 1..Len(x.todo) : EditOK(a, x.todo[i], Range(server'), Range(log'))
    BY <1>2, <2>1, KeepsEdits
  <2>5. QED
    BY <1>1, <1>2, <1>3, <2>2, <2>3, <2>4, ProcStep
<1>6. QED
  BY <1>4, <1>5

LEMMA DenyPushStep ==
  ASSUME DrainInv, NEW a \in Attempts, DenyPush(a)
  PROVE  DrainInv'
<1>1. PICK todo : todo = Each("user_action", wire[a])
  OBVIOUS
<1>2. /\ Answer(a, todo) /\ wire' = [wire EXCEPT ![a] = << >>]
      /\ UNCHANGED <<main, temp, call, log, server, acked, crashes>>
  BY <1>1 DEF DenyPush
<1>3. wire[a] \in Seq(Ops) /\ "user_action" \in Kinds \ {"enqueue", "accepted", "support"}
  BY DEF DrainInv, CoreTypes, Kinds
<1>4. todo \in Seq(Edit) /\ \A i \in 1..Len(todo) : EditOK(a, todo[i], Range(server'), Range(log))
  BY <1>1, <1>3, EachIsOK
<1>5. /\ server' \in Seq(Events) /\ Range(server') \cap Ops \subseteq Range(log)
      /\ Range(server) \subseteq Range(server') /\ \A q \in Queues : InOrder(q, Range(server'))
  BY <1>2 DEF DrainInv, CoreTypes, Events, QueueOK
<1>6. QED
  BY <1>2, <1>4, <1>5, AnswerStep

\* What is recorded of a push: the server holds what is called accepted.
LEMMA RecordIsOK ==
  ASSUME NEW ops \in Seq(Ops), NEW count \in 0..Len(ops), NEW error \in PushErrors,
         NEW p, NEW held, NEW logged, \A k \in 1..count : ops[k] \in held
  PROVE  /\ recordRetryResponse(ops, count, error) \in Seq(Edit)
         /\ \A i \in 1..Len(recordRetryResponse(ops, count, error)) :
              EditOK(p, recordRetryResponse(ops, count, error)[i], held, logged)
<1> DEFINE OK(todo) == todo \in Seq(Edit) /\ \A i \in 1..Len(todo) : EditOK(p, todo[i], held, logged)
<1>1. Len(ops) \in Nat /\ \A k \in 1..Len(ops) : ops[k] \in Ops
  BY LenProperties, ElementOfSeq
<1>2. PICK first, rest : first = SubSeq(ops, 1, count) /\ rest = SubSeq(ops, count + 1, Len(ops))
  OBVIOUS
<1>3. /\ first \in Seq(Ops) /\ Len(first) = count /\ \A k \in 1..count : first[k] = ops[k]
  <2>1. 1 \in Int /\ count \in Int /\ \A i \in 1..count : ops[i] \in Ops
    BY <1>1
  <2>2. QED
    BY <1>1, <1>2, <2>1, SubSeqProperties
<1>4. rest \in Seq(Ops)
  <2>1. count + 1 \in Int /\ Len(ops) \in Int /\ \A i \in (count + 1)..Len(ops) : ops[i] \in Ops
    BY <1>1
  <2>2. QED
    BY <1>2, <2>1, SubSeqProperties
<1>5. PICK edit : edit = [kind |-> "accepted", ops |-> Range(first)]
  OBVIOUS
<1>6. OK(<<edit>>)
  <2>1. \A op \in Range(first) : op \in Ops /\ op \in held
    <3>1. DOMAIN first = 1..count
      BY <1>3, LenProperties
    <3>2. QED
      BY <1>1, <1>3, <3>1 DEF Range
  <2>2. EditOK(p, edit, held, logged)
    BY <1>5, <2>1 DEF EditOK, Edit, Kinds
  <2>3. edit \in Edit
    BY <2>2 DEF EditOK
  <2>4. QED
    BY <2>2, <2>3
<1>7. OK(<< >>)
  OBVIOUS
<1>8. error # "none" => OK(Each(error, rest))
  <2>1. error # "none" => error \in Kinds \ {"enqueue", "accepted", "support"}
    BY DEF PushErrors, Kinds
  <2>2. QED
    BY <1>4, <2>1, EachIsOK
<1>9. ASSUME NEW s, NEW t, OK(s), OK(t) PROVE OK(s \o t)
  <2>1. /\ s \o t \in Seq(Edit) /\ Len(s \o t) = Len(s) + Len(t) /\ Len(s) \in Nat /\ Len(t) \in Nat
        /\ \A i \in 1..Len(s) + Len(t) : (s \o t)[i] = IF i <= Len(s) THEN s[i] ELSE t[i - Len(s)]
    BY <1>9, ConcatProperties, LenProperties
  <2>2. ASSUME NEW i \in 1..Len(s) + Len(t) PROVE EditOK(p, (s \o t)[i], held, logged)
    <3>1. CASE i <= Len(s)
      BY <1>9, <2>1, <3>1
    <3>2. CASE ~ (i <= Len(s))
      <4>1. i - Len(s) \in 1..Len(t)
        BY <2>1, <3>2
      <4>2. QED
        BY <1>9, <2>1, <3>2, <4>1
    <3>3. QED
      BY <3>1, <3>2
  <2>3. QED
    BY <2>1, <2>2
<1>10. recordRetryResponse(ops, count, error)
         = (IF count = 0 THEN << >> ELSE <<edit>>) \o (IF error = "none" THEN << >> ELSE Each(error, rest))
  BY <1>2, <1>5 DEF recordRetryResponse
<1> HIDE DEF OK
<1>11. OK(IF count = 0 THEN << >> ELSE <<edit>>) /\ OK(IF error = "none" THEN << >> ELSE Each(error, rest))
  BY <1>6, <1>7, <1>8
<1>12. OK(recordRetryResponse(ops, count, error))
  BY <1>9, <1>10, <1>11
<1>13. QED
  BY <1>12 DEF OK

LEMMA HandlePushStep ==
  ASSUME DrainInv, NEW a \in Attempts, HandlePush(a)
  PROVE  DrainInv'
<1>1. PICK ops, result : ops = wire[a] /\ result = push_events(ops)
  OBVIOUS
<1>2. PICK todo : todo = recordRetryResponse(ops, result.count, result.error)
  OBVIOUS
<1>3. /\ server' = result.log /\ Answer(a, todo) /\ wire' = [wire EXCEPT ![a] = << >>]
      /\ UNCHANGED <<main, temp, call, log, acked, crashes>>
  BY <1>1, <1>2 DEF HandlePush
<1>4. /\ ops \in Seq(Ops) /\ Range(ops) \subseteq Range(log)
      /\ \A q \in Queues : Follows(q, Range(server), ops)
  BY <1>1, DrainFacts, FlightFacts
<1>5. result \in PushResult /\ Pushed(ops, Len(ops), result)
  BY <1>1, <1>4, DrainFacts, PushTakesPrefix
<1>6. /\ server' \in Seq(Events) /\ result.count \in 0..Len(ops) /\ result.error \in PushErrors
      /\ Range(server) \subseteq Range(server')
      /\ \A k \in 1..result.count : ops[k] \in Range(server')
      /\ \A e \in Range(server') : e \in Range(server) \/ \E k \in 1..result.count : ops[k] = e
  BY <1>3, <1>5 DEF PushResult, Pushed
<1>7. Len(ops) \in Nat /\ \A k \in 1..result.count : k \in 1..Len(ops) /\ ops[k] \in Range(ops)
  BY <1>4, <1>6, LenProperties DEF Range
<1>8. Range(server') \cap Ops \subseteq Range(log)
  BY <1>4, <1>6, <1>7 DEF DrainInv
<1>9. ASSUME NEW q \in Queues PROVE InOrder(q, Range(server'))
  <2> SUFFICES ASSUME NEW i \in 1..Len(q), NEW j \in 1..Len(q), i < j, q[j].op \in Range(server')
               PROVE  q[i].op \in Range(server') \cup Support
    BY DEF InOrder
  <2>1. CASE q[j].op \in Range(server)
    <3>1. InOrder(q, Range(server))
      BY DEF DrainInv, QueueOK
    <3>2. QED
      BY <1>6, <2>1, <3>1 DEF InOrder
  <2>2. CASE q[j].op \notin Range(server)
    <3>1. PICK k \in 1..result.count : ops[k] = q[j].op
      BY <1>6, <2>2
    <3>2. i \in 1..(j - 1) /\ k \in 1..Len(ops)
      BY <1>7
    <3>3. q[i].op \in Range(server) \cup Support \/ \E m \in 1..(k - 1) : ops[m] = q[i].op
      BY <1>4, <3>1, <3>2 DEF Follows
    <3>4. \A m \in 1..(k - 1) : m \in 1..result.count
      BY <1>6
    <3>5. QED
      BY <1>6, <3>3, <3>4
  <2>3. QED
    BY <2>1, <2>2
<1>10. todo \in Seq(Edit) /\ \A i \in 1..Len(todo) : EditOK(a, todo[i], Range(server'), Range(log))
  <2>1. PICK held, logged : held = Range(server') /\ logged = Range(log)
    OBVIOUS
  <2>2. todo \in Seq(Edit) /\ \A i \in 1..Len(todo) : EditOK(a, todo[i], held, logged)
    BY <1>2, <1>4, <1>6, <2>1, RecordIsOK
  <2>3. QED
    BY <2>1, <2>2
<1>11. QED
  BY <1>3, <1>6, <1>8, <1>9, <1>10, AnswerStep

\* A step of the server, or of a pull, that leaves the app's own part alone.
LEMMA EnvironmentStep ==
  ASSUME DrainInv, UNCHANGED <<main, temp, call, proc, wire, acked, crashes>>,
         log' \in Seq(Events), Range(log) \subseteq Range(log'), Range(log') \cap Ops \subseteq Range(log),
         server' \in Seq(Events), Range(server) \subseteq Range(server'),
         Range(server') \cap Ops \subseteq Range(server)
  PROVE  DrainInv'
<1>1. PICK x : x = proc[Logger]
  OBVIOUS
<1>2. /\ Logger \in Procs /\ Logger \notin Attempts /\ acked' \subseteq Ops /\ x \in Proc
      /\ proc' = [proc EXCEPT ![Logger] = x] /\ wire' \in [Attempts -> Seq(Ops)]
      /\ x.phase = "sent" => x.todo = << >>
      /\ call # None /\ call.by = Logger => x.todo # << >>
  BY <1>1, LoggerAssumption DEF DrainInv, CoreTypes, Procs
<1>3. \A a \in Attempts : wire'[a] \in Flights
  BY DrainFacts
<1>4. ASSUME NEW q \in Queues PROVE InOrder(q, Range(server'))
  <2>1. InOrder(q, Range(server)) /\ q \in Seq(QueueEntry) /\ \A i \in 1..Len(q) : q[i] \in QueueEntry
    BY DrainFacts, ElementOfSeq DEF QueueOK
  <2>2. \A i \in 1..Len(q) : q[i].op \in Ops
    BY <2>1 DEF QueueEntry
  <2>3. QED
    BY <2>1, <2>2 DEF InOrder
<1>5. \A i \in 1..Len(x.todo) : EditOK(Logger, x.todo[i], Range(server'), Range(log'))
  BY <1>1, <1>2, KeepsEdits
<1>6. Range(server') \cap Ops \subseteq Range(log')
  BY DEF DrainInv
<1>7. QED
  BY <1>2, <1>3, <1>4, <1>5, <1>6, ProcStep

LEMMA OtherClientStep ==
  ASSUME DrainInv, NEW e \in Others, OtherClientPushes(e)
  PROVE  DrainInv'
<1>1. /\ server' = Append(server, e)
      /\ UNCHANGED <<main, temp, call, proc, wire, log, acked, crashes>>
  BY DEF OtherClientPushes
<1>2. server \in Seq(Events) /\ log \in Seq(Events) /\ e \in Events /\ e \notin Ops
  BY DrainFacts
<1>3. server' \in Seq(Events) /\ Range(server') = Range(server) \cup {e}
  BY <1>1, <1>2, AppendProperties, RangeOfAppend
<1>4. QED
  BY <1>1, <1>2, <1>3, EnvironmentStep

LEMMA PullStep ==
  ASSUME DrainInv, Pull
  PROVE  DrainInv'
<1>1. /\ log' = server /\ IsStrictPrefix(log, server)
      /\ UNCHANGED <<main, temp, call, proc, wire, server, acked, crashes>>
  BY DEF Pull
<1>2. server \in Seq(Events) /\ log \in Seq(Events) /\ Len(log) \in Nat /\ Len(server) \in Nat
  BY DrainFacts, LenProperties
<1>3. Len(log) <= Len(server) /\ \A i \in 1..Len(log) : log[i] = server[i]
  BY <1>1, <1>2 DEF IsStrictPrefix, IsPrefix
<1>4. Range(log) \subseteq Range(server)
  <2>1. DOMAIN log = 1..Len(log) /\ DOMAIN server = 1..Len(server)
    BY <1>2, LenProperties
  <2>2. QED
    BY <1>2, <1>3, <2>1 DEF Range
<1>5. Range(log') \cap Ops \subseteq Range(log)
  BY <1>1 DEF DrainInv
<1>6. QED
  BY <1>1, <1>2, <1>4, <1>5, EnvironmentStep

-----------------------------------------------------------------------------
(***************************************************************************)
(* The invariant, and what it says of the queue on disk.                   *)
(***************************************************************************)

LEMMA DrainInvInit == Init => DrainInv
<1> SUFFICES ASSUME Init PROVE DrainInv
  OBVIOUS
<1>1. /\ main = Absent /\ temp = Absent /\ call = None /\ log = << >> /\ server = << >>
      /\ acked = {} /\ crashes = 0
      /\ proc = [p \in Procs |-> Idle] /\ wire = [a \in Attempts |-> << >>]
  BY DEF Init
<1>2. CoreTypes
  <2>1. << >> \in Seq(Ops) /\ << >> \in Seq(Ops \cup Others) /\ 0 \in 0..MaxCrashes
    BY BoundsAssumption
  <2>2. QED
    BY <1>1, <2>1, IdleFacts DEF CoreTypes
<1>3. Queues = {}
  BY <1>1 DEF Queues
<1>4. \A sent \in Flights : sent = << >>
  BY <1>1, IdleFacts DEF Flights, Procs, Idle
<1>5. Range(server) \cap Ops \subseteq Range(log)
  BY <1>1
<1>6. \A p \in Procs : /\ proc[p].phase # "sent"
                       /\ \A i \in 1..Len(proc[p].todo) : EditOK(p, proc[p].todo[i], Range(server), Range(log))
  BY <1>1, IdleFacts
<1>7. QED
  BY <1>1, <1>2, <1>3, <1>4, <1>5, <1>6, EmptyIsOK DEF DrainInv

LEMMA DrainInvStep == DrainInv /\ ListedInv /\ [Next]_vars => DrainInv'
<1> SUFFICES ASSUME DrainInv, ListedInv, [Next]_vars PROVE DrainInv'
  OBVIOUS
<1>1. CASE StoreCall
  BY <1>1, FindQueuedStep, BeginCallStep, WriteTempStep, EndCallStep DEF StoreCall
<1>2. CASE Commands
  BY <1>2, SubmitStep, AppendEventStep, RejectStep, SaveStationBookStep, RefuseEquipmentStep,
     RecoverStep, ReturnToUserStep DEF Commands
<1>3. ASSUME NEW a \in Attempts, Attempt(a) PROVE DrainInv'
  <2>1. CASE PlanOffline(a)
    BY <2>1, StopStep DEF PlanOffline, Ready
  <2>2. CASE EndAttempt(a)
    BY <2>2, StopStep DEF EndAttempt, Ready
  <2>3. QED
    BY <1>3, <2>1, <2>2, StartPlanStep, ListEventsStep, PlanBatchStep, PushStep, HandlePushStep, DenyPushStep,
       GiveUpStep DEF Attempt
<1>4. CASE \E op \in Ops : BecomeDue(op)
  BY <1>4, BecomeDueStep
<1>5. CASE \E e \in Others : OtherClientPushes(e)
  BY <1>5, OtherClientStep
<1>6. CASE Pull
  BY <1>6, PullStep
<1>7. CASE Crash
  BY <1>7, CrashStep
<1>8. CASE UNCHANGED vars
  <2>1. UNCHANGED <<main, temp, call, proc, wire, log, server, acked, crashes>>
    BY <1>8 DEF vars
  <2>2. server \in Seq(Events) /\ log \in Seq(Events)
    BY DrainFacts
  <2>3. QED
    BY <2>1, <2>2, EnvironmentStep
<1>9. QED
  BY <1>1, <1>2, <1>3, <1>4, <1>5, <1>6, <1>7, <1>8 DEF Next

LEMMA LogGrows ==
  ASSUME DrainInv, [Next]_vars
  PROVE  Range(log) \subseteq Range(log')
<1>1. log \in Seq(Events) /\ server \in Seq(Events) /\ proc[Logger].ops \in Seq(Events)
  BY DrainFacts, SeqMonotonic
<1>2. CASE log' = log \o proc[Logger].ops
  BY <1>1, <1>2, RangeConcatenation
<1>3. CASE Pull
  <2>1. Len(log) \in Nat /\ Len(log) <= Len(server) /\ \A i \in 1..Len(log) : log[i] = server[i]
    BY <1>1, <1>3, LenProperties DEF Pull, IsStrictPrefix, IsPrefix
  <2>2. DOMAIN log = 1..Len(log) /\ DOMAIN server = 1..Len(server) /\ Len(server) \in Nat
    BY <1>1, LenProperties
  <2>3. log' = server
    BY <1>3 DEF Pull
  <2>4. QED
    BY <2>1, <2>2, <2>3 DEF Range
<1>4. CASE UNCHANGED log
  BY <1>4
<1>5. QED
  BY <1>2, <1>3, <1>4 DEF Next, StoreCall, Commands, Attempt, FindQueued, BeginCall, WriteTemp, EndCall, Submit,
     AppendEvent, Reject, SaveStationBook, RefuseEquipment, Recover, ReturnToUser, StartPlan,
     PlanOffline, ListEvents, PlanBatch, Push, EndAttempt, HandlePush, DenyPush, GiveUp, BecomeDue,
     OtherClientPushes, Crash, vars

LEMMA ListedStep ==
  ASSUME DrainInv, ListedInv, [Next]_vars
  PROVE  ListedInv'
<1>1. Range(log) \subseteq Range(log')
  BY LogGrows
<1>2. Range(log) \subseteq Events
  BY DrainFacts, ElementOfSeq, LenProperties DEF Range
<1>3. ASSUME listed' \in [Attempts -> SUBSET Events],
             \A a \in Attempts : listed'[a] \subseteq listed[a] \cup Range(log),
             lost' \in BOOLEAN
      PROVE  ListedInv'
  BY <1>1, <1>3 DEF ListedInv
<1>4. CASE UNCHANGED <<listed, lost>>
  BY <1>3, <1>4 DEF ListedInv
<1>5. CASE \E p \in Procs : BeginCall(p)
  BY <1>3, <1>5 DEF BeginCall, ListedInv
<1>6. ASSUME NEW a \in Attempts, NEW new \in {{}, Range(log)},
             listed' = [listed EXCEPT ![a] = new], UNCHANGED lost
      PROVE  ListedInv'
  BY <1>2, <1>3, <1>6 DEF ListedInv
<1>7. CASE Crash
  BY <1>3, <1>7 DEF Crash, ListedInv
<1>8. ASSUME NEW a \in Attempts, Attempt(a)
      PROVE  ListedInv'
  <2>1. CASE ListEvents(a)
    BY <1>6, <2>1 DEF ListEvents
  <2>2. CASE PlanBatch(a)
    BY <1>4, <1>6, <2>2 DEF PlanBatch
  <2>3. QED
    BY <1>4, <1>8, <2>1, <2>2 DEF Attempt, StartPlan, PlanOffline, Push, EndAttempt, HandlePush,
       DenyPush, GiveUp
<1>9. CASE Commands
  BY <1>4, <1>9 DEF Commands, Submit, AppendEvent, Reject, SaveStationBook, RefuseEquipment,
     Recover, ReturnToUser
<1>10. QED
  BY <1>4, <1>5, <1>7, <1>8, <1>9 DEF Next, StoreCall, FindQueued, WriteTemp, EndCall, BecomeDue,
     OtherClientPushes, Pull, vars

LEMMA ListedInit == Init => ListedInv
  BY DEF Init, ListedInv

\* The invariant of draining holds for any number of attempts, operations and deaths.
THEOREM DrainInvariant == Spec => [](DrainInv /\ ListedInv)
<1>1. Init => DrainInv /\ ListedInv
  BY DrainInvInit, ListedInit
<1>2. DrainInv /\ ListedInv /\ [Next]_vars => (DrainInv /\ ListedInv)'
  BY DrainInvStep, ListedStep
<1>3. QED
  BY <1>1, <1>2, PTL DEF Spec

LEMMA LiveQueueIsOK ==
  ASSUME DrainInv
  PROVE  LiveQueue \in Seq(QueueEntry) /\ QueueOK(LiveQueue)
<1>1. load_file \in Seq(QueueEntry) /\ QueueOK(load_file)
  BY DrainFacts, EmptyIsOK
<1>2. temp \in Seq(QueueEntry) => QueueOK(temp)
  BY DrainFacts, FilesAssumption
<1>3. QED
  BY <1>1, <1>2 DEF LiveQueue

\* Every part of the state keeps its type, also over deaths in a write.
THEOREM DrainTypes == Spec => []TypeOK
<1>1. DrainInv /\ ListedInv => TypeOK
  BY DEF DrainInv, CoreTypes, ListedInv, TypeOK, Events
<1>2. QED
  BY <1>1, DrainInvariant, PTL

\* However many attempts overlap, are answered late or are given up, the queue
\* calls nothing accepted that the server does not hold (recordRetryResponse).
THEOREM AcceptedIsHeld == Spec => []AcceptedIsOnServer
<1>1. DrainInv => AcceptedIsOnServer
  <2> SUFFICES ASSUME DrainInv, NEW e \in Range(LiveQueue), e.status = "accepted"
               PROVE  e.op \in Range(server) \cup Support
    BY DEF AcceptedIsOnServer
  <2>1. LiveQueue \in Seq(QueueEntry) /\ QueueOK(LiveQueue)
    BY LiveQueueIsOK
  <2>2. PICK i \in 1..Len(LiveQueue) : LiveQueue[i] = e
    BY <2>1, LenProperties DEF Range
  <2>3. QED
    BY <2>1, <2>2 DEF QueueOK, Honest
<1>2. QED
  BY <1>1, DrainInvariant, PTL

\* However many attempts overlap, the server takes the operations in the order
\* of the queue (ready_event_batch, the truncation of the plan, push_events).
THEOREM DrainedInOrder == Spec => []DrainsInOrder
<1>1. DrainInv => DrainsInOrder
  BY LiveQueueIsOK DEF DrainsInOrder, QueueOK, InOrder
<1>2. QED
  BY <1>1, DrainInvariant, PTL

-----------------------------------------------------------------------------
(***************************************************************************)
(* Work that was queued is kept, until a call takes the queue for empty.   *)
(***************************************************************************)

LinkedIn(q) == {q[i].op : i \in {j \in 1..Len(q) : q[j].linked}}

\* What the logger relies on: the operation is queued before its event is
\* appended, and linked before the contact is acknowledged.
MustQueue ==
  IF proc[Logger].phase = "attach" \/ (proc[Logger].phase = "enqueue" /\ proc[Logger].todo = << >>)
    THEN Range(proc[Logger].ops) ELSE {}

MustLink ==
  acked \cup (IF proc[Logger].phase = "attach" /\ proc[Logger].todo = << >>
                THEN Range(proc[Logger].ops) ELSE {})

Kept(q) == MustQueue \subseteq OpsOf(q) /\ MustLink \subseteq LinkedIn(q)

\* What the call of the logger writes.
LoggerWrites ==
  /\ proc[Logger].phase = "enqueue" => Range(proc[Logger].ops) \subseteq OpsOf(call.queue)
  /\ proc[Logger].phase = "attach" => Range(proc[Logger].ops) \subseteq LinkedIn(call.queue)

\* The logger makes one call in each phase; its kind is named like the phase.
LoggerShape(x) ==
  x.phase \in {"enqueue", "attach"} =>
    \E op \in Ops : x.ops = <<op>> /\ x.todo \in {<< >>, <<[kind |-> x.phase, ops |-> {op}]>>}

WorkInv ==
  /\ LoggerShape(proc[Logger])
  /\ call # None => temp # Absent
  /\ Kept(LiveQueue)
  /\ call # None => Kept(call.queue) /\ (call.by = Logger => LoggerWrites)

LEMMA InOps ==
  ASSUME NEW q \in Seq(QueueEntry), NEW op
  PROVE  op \in OpsOf(q) <=> \E i \in 1..Len(q) : q[i].op = op
<1>1. Len(q) \in Nat /\ DOMAIN q = 1..Len(q)
  BY LenProperties
<1>2. QED
  BY <1>1 DEF OpsOf, Range

\* No call takes an operation out of the queue or detaches its event; enqueueing
\* and attaching do what they are called for.
LEMMA EditKeepsWork ==
  ASSUME NEW q \in Seq(QueueEntry), NEW edit, NEW p, NEW held, NEW logged,
         EditOK(p, edit, held, logged), NEW r, r = ApplyEdit(q, edit)
  PROVE  /\ OpsOf(q) \subseteq OpsOf(r) /\ LinkedIn(q) \subseteq LinkedIn(r)
         /\ edit.kind = "enqueue" => edit.ops \subseteq OpsOf(r)
         /\ edit.kind = "attach" => edit.ops \cap OpsOf(q) \subseteq LinkedIn(r)
<1>1. Len(q) \in Nat
  BY LenProperties
<1>2. CASE edit.kind # "enqueue"
  <2>1. r = update_mutation(q, edit.kind, edit.ops) /\ edit.kind \in Kinds \ {"enqueue"}
    BY <1>2 DEF ApplyEdit, EditOK, Edit
  <2>2. /\ r \in Seq(QueueEntry) /\ Len(r) = Len(q)
        /\ \A i \in 1..Len(q) :
             /\ r[i].op = q[i].op
             /\ q[i].linked \/ (edit.kind = "attach" /\ q[i].op \in edit.ops) => r[i].linked
    BY <2>1, EditInPlace
  <2>3. \A op : op \in OpsOf(q) => op \in OpsOf(r)
    BY <2>2, InOps
  <2>4. LinkedIn(q) \subseteq LinkedIn(r)
    BY <2>2 DEF LinkedIn
  <2>5. edit.kind = "attach" => \A op \in edit.ops : op \in OpsOf(q) => op \in LinkedIn(r)
    BY <2>2, InOps DEF LinkedIn
  <2>6. QED
    BY <1>2, <2>3, <2>4, <2>5
<1>3. CASE edit.kind = "enqueue"
  <2>1. PICK op \in Ops : edit.ops = {op}
    BY <1>3 DEF EditOK
  <2>2. r = enqueue_input(q, op)
    <3>1. (CHOOSE o \in edit.ops : TRUE) = op
      BY <2>1
    <3>2. QED
      BY <1>3, <3>1 DEF ApplyEdit
  <2>3. CASE op \in OpsOf(q)
    <3>1. r = q
      BY <2>2, <2>3 DEF enqueue_input
    <3>2. QED
      BY <1>3, <2>1, <2>3, <3>1
  <2>4. CASE op \notin OpsOf(q)
    <3>1. /\ r \in Seq(QueueEntry) /\ Len(r) = Len(q) + 1 /\ r[Len(r)].op = op
          /\ \A i \in 1..Len(q) : r[i] = q[i]
      BY <2>2, <2>4, EnqueueLast
    <3>2. 1..Len(q) \subseteq 1..Len(r) /\ Len(r) \in 1..Len(r)
      BY <1>1, <3>1
    <3>3. \A o : o \in OpsOf(q) => o \in OpsOf(r)
      BY <3>1, <3>2, InOps
    <3>4. LinkedIn(q) \subseteq LinkedIn(r)
      BY <3>1, <3>2 DEF LinkedIn
    <3>5. op \in OpsOf(r)
      BY <3>1, <3>2, InOps
    <3>6. QED
      BY <1>3, <2>1, <3>3, <3>4, <3>5
  <2>5. QED
    BY <2>3, <2>4
<1>4. QED
  BY <1>2, <1>3

LEMMA LinkedIsQueued ==
  ASSUME NEW q \in Seq(QueueEntry)
  PROVE  LinkedIn(q) \subseteq OpsOf(q)
<1>1. \A op \in LinkedIn(q) : \E i \in 1..Len(q) : q[i].op = op
  BY DEF LinkedIn
<1>2. QED
  BY <1>1, InOps

\* Steps of the others, and of the environment.
LEMMA OthersWork ==
  ASSUME WorkInv, UNCHANGED <<main, temp, call, acked>>, proc'[Logger] = proc[Logger]
  PROVE  WorkInv'
<1>1. LiveQueue' = LiveQueue /\ MustQueue' = MustQueue /\ MustLink' = MustLink
  BY DEF LiveQueue, load_file, MustQueue, MustLink
<1>2. \A q : Kept(q) => Kept(q)'
  BY <1>1 DEF Kept
<1>3. Kept(LiveQueue)' /\ (call' # None => Kept(call.queue)')
  BY <1>1 DEF WorkInv, Kept
<1>4. call' # None => Kept(call.queue)' /\ (call.by = Logger => LoggerWrites')
  BY <1>3 DEF WorkInv, LoggerWrites
<1>5. QED
  BY <1>3, <1>4 DEF WorkInv

\* Steps of the logger between two calls.
LEMMA LoggerWork ==
  ASSUME WorkInv, call = None, UNCHANGED <<main, temp, call>>, LoggerShape(proc'[Logger]),
         MustQueue' \subseteq OpsOf(LiveQueue), MustLink' \subseteq LinkedIn(LiveQueue)
  PROVE  WorkInv'
<1>1. LiveQueue' = LiveQueue
  BY DEF LiveQueue, load_file
<1>2. Kept(LiveQueue)'
  BY <1>1 DEF Kept
<1>3. QED
  BY <1>2 DEF WorkInv

LEMMA LoggerFacts ==
  ASSUME DrainInv, WorkInv, NEW phase, Ready(Logger, phase)
  PROVE  /\ call = None /\ proc \in [Procs -> Proc] /\ Logger \in Procs /\ proc[Logger] \in Proc
         /\ proc[Logger].phase = phase /\ proc[Logger].todo = << >> /\ Kept(LiveQueue)
  BY DEF Ready, WorkInv, DrainInv, CoreTypes, Procs

LEMMA SubmitWork ==
  ASSUME DrainInv, WorkInv, NEW op \in Ops, Submit(op)
  PROVE  WorkInv'
<1>1. Ready(Logger, "idle")
  BY DEF Submit
<1>2. PICK x : x = [phase |-> "enqueue", todo |-> Each("enqueue", <<op>>), ops |-> <<op>>]
  OBVIOUS
<1>3. proc' = [proc EXCEPT ![Logger] = x] /\ UNCHANGED <<main, temp, call, acked>>
  BY <1>2 DEF Submit, Enter
<1>4. proc'[Logger] = x
  BY <1>1, <1>3, LoggerFacts
<1>5. Each("enqueue", <<op>>) = <<[kind |-> "enqueue", ops |-> {op}]>>
  BY DEF Each
<1>6. LoggerShape(x)
  BY <1>2, <1>5 DEF LoggerShape
<1>7. MustQueue' \subseteq MustQueue /\ MustLink' \subseteq MustLink
  <2>1. x.phase = "enqueue" /\ x.todo # << >>
    BY <1>2, <1>5
  <2>2. QED
    BY <1>3, <1>4, <2>1 DEF MustQueue, MustLink
<1>8. Kept(LiveQueue) /\ call = None
  BY <1>1, LoggerFacts
<1>9. QED
  BY <1>2, <1>3, <1>4, <1>6, <1>7, <1>8, LoggerWork DEF Kept

LEMMA AppendEventWork ==
  ASSUME DrainInv, WorkInv, AppendEvent
  PROVE  WorkInv'
<1>1. Ready(Logger, "enqueue")
  BY DEF AppendEvent
<1>2. PICK op \in Ops : proc[Logger].ops = <<op>>
  BY <1>1, LoggerFacts DEF WorkInv, LoggerShape
<1>3. PICK x : x = [phase |-> "attach", todo |-> Each("attach", <<op>>), ops |-> <<op>>]
  OBVIOUS
<1>4. proc' = [proc EXCEPT ![Logger] = x] /\ UNCHANGED <<main, temp, call, acked>>
  BY <1>2, <1>3 DEF AppendEvent, Enter
<1>5. proc'[Logger] = x
  BY <1>1, <1>4, LoggerFacts
<1>6. Each("attach", <<op>>) = <<[kind |-> "attach", ops |-> {op}]>>
  BY DEF Each
<1>7. LoggerShape(x)
  BY <1>3, <1>6 DEF LoggerShape
<1>8. MustQueue' \subseteq MustQueue /\ MustLink' \subseteq MustLink
  <2>1. x.phase = "attach" /\ x.todo # << >> /\ x.ops = proc[Logger].ops
    BY <1>2, <1>3, <1>6
  <2>2. proc[Logger].phase = "enqueue" /\ proc[Logger].todo = << >>
    BY <1>1, LoggerFacts
  <2>3. QED
    BY <1>4, <1>5, <2>1, <2>2 DEF MustQueue, MustLink
<1>9. Kept(LiveQueue) /\ call = None
  BY <1>1, LoggerFacts
<1>10. QED
  BY <1>3, <1>4, <1>5, <1>7, <1>8, <1>9, LoggerWork DEF Kept

\* A command that neither queues nor links a contact.
LEMMA OtherCommandWork ==
  ASSUME DrainInv, WorkInv, NEW from, Ready(Logger, from),
         NEW phase, phase \notin {"enqueue", "attach"}, NEW todo, NEW ops, Enter(Logger, phase, todo, ops),
         UNCHANGED <<main, temp, call, acked>>
  PROVE  WorkInv'
<1>1. PICK x : x = [phase |-> phase, todo |-> todo, ops |-> ops]
  OBVIOUS
<1>2. proc' = [proc EXCEPT ![Logger] = x]
  BY <1>1 DEF Enter
<1>3. proc'[Logger] = x
  BY <1>2, LoggerFacts
<1>4. LoggerShape(x) /\ x.phase = phase
  BY <1>1 DEF LoggerShape
<1>5. MustQueue' \subseteq MustQueue /\ MustLink' \subseteq MustLink
  BY <1>3, <1>4 DEF MustQueue, MustLink
<1>6. Kept(LiveQueue) /\ call = None
  BY LoggerFacts
<1>7. QED
  BY <1>3, <1>4, <1>5, <1>6, LoggerWork DEF Kept

LEMMA ReturnToUserWork ==
  ASSUME DrainInv, WorkInv, ReturnToUser
  PROVE  WorkInv'
<1>1. PICK phase \in {"attach", "settle", "recover"} : Ready(Logger, phase)
  BY DEF ReturnToUser
<1>2. proc' = [proc EXCEPT ![Logger] = Idle] /\ UNCHANGED <<main, temp, call>>
  BY DEF ReturnToUser
<1>3. proc'[Logger] = Idle
  BY <1>1, <1>2, LoggerFacts
<1>4. LoggerShape(Idle) /\ Idle.phase = "idle"
  BY IdleFacts DEF LoggerShape
<1>5. MustQueue' = {} /\ MustLink' = acked'
  BY <1>3, <1>4 DEF MustQueue, MustLink
<1>6. acked' \subseteq MustLink
  <2>1. CASE acked' = acked
    BY <2>1 DEF MustLink
  <2>2. CASE Ready(Logger, "attach") /\ acked' = acked \cup Range(proc[Logger].ops)
    BY <2>2 DEF Ready, MustLink
  <2>3. QED
    BY <2>1, <2>2 DEF ReturnToUser
<1>7. Kept(LiveQueue) /\ call = None
  BY <1>1, LoggerFacts
<1>8. QED
  BY <1>2, <1>3, <1>4, <1>5, <1>6, <1>7, LoggerWork DEF Kept

\* What is found queued was queued by an earlier command of the user.
LEMMA FindQueuedWork ==
  ASSUME DrainInv, WorkInv, NEW p \in Procs, FindQueued(p)
  PROVE  WorkInv'
<1>1. PICK x \in Proc : /\ x.phase = proc[p].phase /\ x.ops = proc[p].ops
                        /\ x.todo = Tail(proc[p].todo) /\ proc' = [proc EXCEPT ![p] = x]
  BY FindQueuedTodo
<1>2. call = None /\ proc[p].todo # << >> /\ UNCHANGED <<main, temp, call, acked>>
  BY DEF FindQueued
<1>3. proc \in [Procs -> Proc] /\ Logger \in Procs
  BY DrainFacts DEF DrainInv, CoreTypes
<1>4. CASE p # Logger
  BY <1>1, <1>2, <1>3, <1>4, OthersWork
<1>5. CASE p = Logger
  <2>1. proc'[Logger] = x
    BY <1>1, <1>3, <1>5
  <2>2. CASE proc[Logger].phase \notin {"enqueue", "attach"}
    <3>1. LoggerShape(x)
      BY <1>1, <1>5, <2>2 DEF LoggerShape
    <3>2. MustQueue' \subseteq MustQueue /\ MustLink' \subseteq MustLink
      BY <1>1, <1>2, <1>5, <2>1, <2>2 DEF MustQueue, MustLink
    <3>3. QED
      BY <1>2, <2>1, <3>1, <3>2, LoggerWork DEF WorkInv, Kept
  <2>3. CASE proc[Logger].phase \in {"enqueue", "attach"}
    <3>1. PICK op \in Ops :
            /\ proc[Logger].ops = <<op>>
            /\ proc[Logger].todo = <<[kind |-> proc[Logger].phase, ops |-> {op}]>>
      BY <1>2, <1>5, <2>3 DEF WorkInv, LoggerShape
    <3>2. PICK e : e = [kind |-> proc[Logger].phase, ops |-> {op}]
      OBVIOUS
    <3>3. OnlyReads(e) /\ x.todo = << >>
      <4>1. Head(<<e>>) = e /\ Tail(<<e>>) = << >>
        OBVIOUS
      <4>2. QED
        BY <1>1, <1>5, <3>1, <3>2, <4>1 DEF FindQueued
    <3>4. proc[Logger].phase = "enqueue" /\ op \in OpsOf(load_file)
      BY <3>2, <3>3 DEF OnlyReads
    <3>5. load_file = LiveQueue
      <4>1. OpsOf(<< >>) = {}
        BY EmptyIsOK DEF OpsOf
      <4>2. main # Absent
        BY <3>4, <4>1 DEF load_file
      <4>3. QED
        BY <4>2 DEF LiveQueue
    <3>6. LoggerShape(x)
      BY <1>1, <1>5, <3>1, <3>3 DEF LoggerShape
    <3>7. Range(x.ops) = {op}
      BY <1>1, <1>5, <3>1 DEF Range
    <3>8. MustQueue' \subseteq OpsOf(LiveQueue) /\ MustLink' \subseteq MustLink
      BY <1>1, <1>2, <1>5, <2>1, <3>4, <3>5, <3>7 DEF MustQueue, MustLink
    <3>9. QED
      BY <1>2, <2>1, <3>6, <3>8, LoggerWork DEF WorkInv, Kept
  <2>4. QED
    BY <2>2, <2>3
<1>6. QED
  BY <1>4, <1>5

\* A call edits the queue on disk, unless it takes it for empty.
LEMMA BeginCallReads ==
  ASSUME DrainInv, NEW p \in Procs, BeginCall(p), ~ lost', NEW edit, edit = Head(proc[p].todo)
  PROVE  /\ LiveQueue' = LiveQueue /\ load_file' = LiveQueue
         /\ call' = [by |-> p, queue |-> ApplyEdit(LiveQueue, edit)]
         /\ UNCHANGED <<proc, wire, log, server, acked>>
         /\ EditOK(p, edit, Range(server), Range(log))
<1>1. PICK q : q = IF edit.kind = "recover" THEN recover_interrupted_atomic_write ELSE load_file
  OBVIOUS
<1>2. /\ call = None /\ proc[p].todo # << >>
      /\ call' = [by |-> p, queue |-> ApplyEdit(q, edit)] /\ temp' = Torn
      /\ main' = (IF edit.kind = "recover" /\ q # load_file THEN q ELSE main)
      /\ UNCHANGED <<proc, wire, log, server, acked>>
  BY <1>1 DEF BeginCall
<1>3. EditOK(p, edit, Range(server), Range(log))
  <2>1. proc[p].todo \in Seq(Edit) /\ 1 \in 1..Len(proc[p].todo) /\ edit = proc[p].todo[1]
    BY <1>2, DrainFacts, HeadTailProperties, LenProperties
  <2>2. QED
    BY <2>1 DEF DrainInv
<1>4. q = LiveQueue
  <2>1. temp \notin {Absent, Torn} <=> temp \in Seq(QueueEntry)
    BY FilesAssumption DEF DrainInv, CoreTypes
  <2>2. CASE edit.kind = "recover"
    BY <1>1, <2>1, <2>2 DEF recover_interrupted_atomic_write, LiveQueue
  <2>3. CASE edit.kind # "recover"
    <3>1. temp \in {Absent, Torn}
      BY <2>3 DEF BeginCall, DrainInv
    <3>2. QED
      BY <1>1, <2>1, <2>3, <3>1 DEF LiveQueue
  <2>4. QED
    BY <2>2, <2>3
<1>5. LiveQueue \in Seq(QueueEntry) /\ LiveQueue # Absent
  BY LiveQueueIsOK, FilesAssumption
<1>6. load_file' = q
  <2>1. load_file' = (IF main' = Absent THEN << >> ELSE main')
    BY DEF load_file
  <2>2. QED
    BY <1>1, <1>2, <1>4, <1>5, <2>1 DEF load_file
<1>7. LiveQueue' = load_file'
  <2>1. temp' \notin Seq(QueueEntry)
    BY <1>2, FilesAssumption
  <2>2. QED
    BY <2>1 DEF LiveQueue
<1>8. QED
  BY <1>2, <1>3, <1>4, <1>6, <1>7

LEMMA BeginCallWork ==
  ASSUME DrainInv, WorkInv, NEW p \in Procs, BeginCall(p), ~ lost'
  PROVE  WorkInv'
<1>1. PICK edit, q, r : edit = Head(proc[p].todo) /\ q = LiveQueue /\ r = ApplyEdit(q, edit)
  OBVIOUS
<1>2. /\ call = None /\ proc[p].todo # << >> /\ temp' = Torn /\ call' = [by |-> p, queue |-> r]
      /\ UNCHANGED <<proc, acked>>
  BY <1>1, BeginCallReads DEF BeginCall
<1>3. EditOK(p, edit, Range(server), Range(log))
  BY <1>1, BeginCallReads
<1>4. q \in Seq(QueueEntry)
  BY <1>1, LiveQueueIsOK
<1>5. LiveQueue' = q
  BY <1>1, BeginCallReads
<1>6. /\ OpsOf(q) \subseteq OpsOf(r) /\ LinkedIn(q) \subseteq LinkedIn(r)
      /\ edit.kind = "enqueue" => edit.ops \subseteq OpsOf(r)
      /\ edit.kind = "attach" => edit.ops \cap OpsOf(q) \subseteq LinkedIn(r)
  <2>1. PICK held, logged : held = Range(server) /\ logged = Range(log)
    OBVIOUS
  <2>2. EditOK(p, edit, held, logged)
    BY <1>3, <2>1
  <2>3. QED
    BY <1>1, <1>4, <2>2, EditKeepsWork
<1>7. MustQueue' = MustQueue /\ MustLink' = MustLink /\ Kept(q)
  BY <1>1, <1>2 DEF WorkInv, MustQueue, MustLink
<1>8. Kept(LiveQueue)' /\ Kept(call.queue)'
  BY <1>2, <1>5, <1>6, <1>7 DEF Kept
<1>9. ASSUME p = Logger PROVE LoggerWrites'
  <2>1. call'.queue = r /\ UNCHANGED proc
    BY <1>2
  <2>2. CASE proc[Logger].phase \in {"enqueue", "attach"}
    <3>1. PICK op \in Ops :
            /\ proc[Logger].ops = <<op>>
            /\ proc[Logger].todo = <<[kind |-> proc[Logger].phase, ops |-> {op}]>>
      BY <1>2, <1>9, <2>2 DEF WorkInv, LoggerShape
    <3>2. edit = [kind |-> proc[Logger].phase, ops |-> {op}]
      BY <1>1, <1>9, <3>1
    <3>3. Range(proc[Logger].ops) = {op}
      BY <3>1 DEF Range
    <3>4. proc[Logger].phase = "attach" => op \in OpsOf(q)
      BY <1>7, <3>3 DEF Kept, MustQueue
    <3>5. QED
      BY <1>6, <2>1, <3>2, <3>3, <3>4 DEF LoggerWrites
  <2>3. CASE proc[Logger].phase \notin {"enqueue", "attach"}
    BY <2>1, <2>3 DEF LoggerWrites
  <2>4. QED
    BY <2>2, <2>3
<1>10. LoggerShape(proc'[Logger]) /\ temp' # Absent /\ call'.by = p /\ call' # None
  <2>1. r \in Seq(QueueEntry)
    BY <1>1, <1>3, LiveQueueIsOK, EditKeepsOK
  <2>2. call' \in [by : Procs, queue : Seq(QueueEntry)]
    BY <1>2, <2>1
  <2>3. QED
    BY <1>2, <2>2, FilesAssumption DEF WorkInv, Procs
<1>11. QED
  BY <1>2, <1>8, <1>9, <1>10 DEF WorkInv

LEMMA WriteTempWork ==
  ASSUME DrainInv, WorkInv, WriteTemp
  PROVE  WorkInv'
<1>1. /\ call # None /\ temp' = call.queue /\ main' = Absent
      /\ UNCHANGED <<call, proc, acked>>
  BY DEF WriteTemp
<1>2. call.queue \in Seq(QueueEntry)
  BY <1>1, DrainFacts
<1>3. LiveQueue' = call.queue /\ temp' # Absent
  BY <1>1, <1>2, FilesAssumption DEF LiveQueue
<1>4. MustQueue' = MustQueue /\ MustLink' = MustLink
  BY <1>1 DEF MustQueue, MustLink
<1>5. Kept(LiveQueue)' /\ Kept(call.queue)'
  BY <1>1, <1>3, <1>4 DEF WorkInv, Kept
<1>6. call.by = Logger => LoggerWrites'
  BY <1>1 DEF WorkInv, LoggerWrites
<1>7. QED
  BY <1>1, <1>3, <1>5, <1>6 DEF WorkInv

LEMMA EndCallWork ==
  ASSUME DrainInv, WorkInv, EndCall
  PROVE  WorkInv'
<1>1. PICK p : p = call.by
  OBVIOUS
<1>2. /\ call # None /\ temp # Torn /\ main' = temp /\ temp' = Absent /\ call' = None
      /\ proc' = [proc EXCEPT ![p].todo = Tail(@)] /\ UNCHANGED acked
  BY <1>1 DEF EndCall
<1>3. /\ p \in Procs /\ proc[p] \in Proc /\ proc[p].todo # << >> /\ Logger \in Procs
      /\ proc \in [Procs -> Proc]
  BY <1>1, <1>2, DrainFacts DEF DrainInv, CoreTypes
<1>4. temp = call.queue /\ temp \in Seq(QueueEntry) /\ temp # Absent
  <2>1. temp # Absent
    BY <1>2 DEF WorkInv
  <2>2. QED
    BY <1>2, <2>1, DrainFacts DEF DrainInv
<1>5. LiveQueue' = call.queue
  BY <1>2, <1>4, FilesAssumption DEF LiveQueue, load_file
<1>6. /\ \A o \in Procs : /\ proc'[o].phase = proc[o].phase /\ proc'[o].ops = proc[o].ops
                          /\ o # p => proc'[o] = proc[o]
      /\ proc'[p].todo = Tail(proc[p].todo)
  BY <1>2, <1>3 DEF Proc
<1>7. CASE p = Logger
  <2>1. proc[Logger].phase \in {"enqueue", "attach"} => proc'[Logger].todo = << >>
    <3>1. proc[Logger].phase \in {"enqueue", "attach"} => \E e : proc[Logger].todo = <<e>>
      BY <1>3, <1>7 DEF WorkInv, LoggerShape
    <3>2. \A e : Tail(<<e>>) = << >>
      OBVIOUS
    <3>3. QED
      BY <1>6, <1>7, <3>1, <3>2
  <2>2. LoggerShape(proc'[Logger])
    BY <1>3, <1>6, <2>1 DEF WorkInv, LoggerShape
  <2>3. Kept(call.queue) /\ LoggerWrites /\ LinkedIn(call.queue) \subseteq OpsOf(call.queue)
    BY <1>1, <1>2, <1>4, <1>7, LinkedIsQueued DEF WorkInv
  <2>4. MustQueue' \subseteq OpsOf(call.queue)
    BY <1>3, <1>6, <2>3 DEF MustQueue, LoggerWrites
  <2>5. MustLink' \subseteq LinkedIn(call.queue)
    BY <1>2, <1>3, <1>6, <2>3 DEF MustLink, Kept, LoggerWrites
  <2>6. Kept(LiveQueue)'
    BY <1>5, <2>4, <2>5 DEF Kept
  <2>7. QED
    BY <1>2, <2>2, <2>6 DEF WorkInv
<1>8. CASE p # Logger
  <2>1. proc'[Logger] = proc[Logger]
    BY <1>3, <1>6, <1>8
  <2>2. MustQueue' = MustQueue /\ MustLink' = MustLink
    <3>1. acked' = acked
      BY <1>2
    <3>2. QED
      BY <2>1, <3>1 DEF MustQueue, MustLink
  <2>3. Kept(LiveQueue)'
    BY <1>2, <1>5, <2>2 DEF WorkInv, Kept
  <2>4. QED
    BY <1>2, <2>1, <2>3 DEF WorkInv
<1>9. QED
  BY <1>7, <1>8

LEMMA CrashWork ==
  ASSUME DrainInv, WorkInv, Crash
  PROVE  WorkInv'
<1>1. /\ call' = None /\ UNCHANGED <<main, temp, acked>> /\ proc'[Logger] = Idle
  BY DEF Crash, Procs
<1>2. LoggerShape(Idle) /\ Idle.phase = "idle"
  BY IdleFacts DEF LoggerShape
<1>3. LiveQueue' = LiveQueue /\ MustQueue' = {} /\ MustLink' \subseteq MustLink
  BY <1>1, <1>2 DEF LiveQueue, load_file, MustQueue, MustLink
<1>4. Kept(LiveQueue)'
  BY <1>3 DEF WorkInv, Kept
<1>5. QED
  BY <1>1, <1>2, <1>4 DEF WorkInv

\* When a backoff passes the queue keeps its operations and their events.
LEMMA BecomeDueKeeps ==
  ASSUME DrainInv, NEW op \in Ops, BecomeDue(op)
  PROVE  /\ call = None /\ LiveQueue = main /\ LiveQueue' = main'
         /\ UNCHANGED <<temp, call, proc, wire, log, server, acked>>
         /\ main \in Seq(QueueEntry) /\ main' \in Seq(QueueEntry) /\ Len(main') = Len(main)
         /\ \A j \in 1..Len(main) : /\ main'[j].op = main[j].op
                                      /\ main'[j].linked = main[j].linked /\ main'[j].status = main[j].status
<1>1. PICK i \in 1..Len(main) : main' = [main EXCEPT ![i].due = TRUE]
  BY DEF BecomeDue
<1>2. /\ main # Absent /\ main \in Seq(QueueEntry) /\ call = None /\ Len(main) \in Nat
      /\ UNCHANGED <<temp, call, proc, wire, log, server, acked>>
  BY DrainFacts, LenProperties DEF BecomeDue
<1>3. main[i] \in QueueEntry
  BY <1>2, ElementOfSeq
<1>4. PICK e : e = [main[i] EXCEPT !.due = TRUE]
  OBVIOUS
<1>5. main[i] = [op |-> main[i].op, status |-> main[i].status, attempts |-> main[i].attempts,
                 linked |-> main[i].linked, due |-> main[i].due]
  BY <1>3 DEF QueueEntry
<1>6. e = [op |-> main[i].op, status |-> main[i].status, attempts |-> main[i].attempts,
           linked |-> main[i].linked, due |-> TRUE]
  BY <1>4, <1>5
<1>7. e \in QueueEntry /\ e.op = main[i].op /\ e.linked = main[i].linked /\ e.status = main[i].status
  BY <1>3, <1>6 DEF QueueEntry
<1>8. main' = [main EXCEPT ![i] = e]
  BY <1>1, <1>4
<1>9. /\ main' \in Seq(QueueEntry) /\ Len(main') = Len(main)
      /\ \A j \in 1..Len(main) : main'[j] = IF j = i THEN e ELSE main[j]
  BY <1>2, <1>7, <1>8, ExceptSeq
<1>10. \A j \in 1..Len(main) : /\ main'[j].op = main[j].op
                                /\ main'[j].linked = main[j].linked /\ main'[j].status = main[j].status
  BY <1>7, <1>9
<1>11. LiveQueue = main /\ LiveQueue' = main'
  <2>1. main' # Absent
    BY <1>9, FilesAssumption
  <2>2. QED
    BY <1>2, <2>1 DEF LiveQueue, load_file
<1>12. QED
  BY <1>2, <1>9, <1>10, <1>11

LEMMA BecomeDueWork ==
  ASSUME DrainInv, WorkInv, NEW op \in Ops, BecomeDue(op)
  PROVE  WorkInv'
<1>1. /\ call = None /\ LiveQueue = main /\ LiveQueue' = main' /\ UNCHANGED <<temp, call, proc, acked>>
      /\ main \in Seq(QueueEntry) /\ main' \in Seq(QueueEntry) /\ Len(main') = Len(main)
      /\ \A j \in 1..Len(main) : main'[j].op = main[j].op /\ main'[j].linked = main[j].linked
  BY BecomeDueKeeps
<1>2. OpsOf(main') = OpsOf(main) /\ LinkedIn(main') = LinkedIn(main)
  <2>1. PICK r : r = main'
    OBVIOUS
  <2>2. \A o : o \in OpsOf(r) <=> o \in OpsOf(main)
    BY <1>1, <2>1, InOps
  <2>3. LinkedIn(r) = LinkedIn(main)
    BY <1>1, <2>1 DEF LinkedIn
  <2>4. QED
    BY <2>1, <2>2, <2>3
<1>3. MustQueue' = MustQueue /\ MustLink' = MustLink
  BY <1>1 DEF MustQueue, MustLink
<1>4. Kept(LiveQueue)'
  BY <1>1, <1>2, <1>3 DEF WorkInv, Kept
<1>5. QED
  BY <1>1, <1>4 DEF WorkInv

LEMMA AttemptWork ==
  ASSUME DrainInv, WorkInv, NEW a \in Attempts, Attempt(a)
  PROVE  WorkInv'
<1>1. UNCHANGED <<main, temp, call, acked>>
  BY DEF Attempt, StartPlan, PlanOffline, ListEvents, PlanBatch, Push, EndAttempt, HandlePush,
         DenyPush, GiveUp
<1>2. a # Logger /\ Logger \in Procs /\ proc \in [Procs -> Proc]
  BY LoggerAssumption DEF Procs, DrainInv, CoreTypes
<1>3. \/ UNCHANGED proc
      \/ \E x : proc' = [proc EXCEPT ![a] = x]
  BY DEF Attempt, StartPlan, PlanOffline, ListEvents, PlanBatch, Push, EndAttempt, HandlePush,
         DenyPush, GiveUp, Enter, Answer
<1>4. proc'[Logger] = proc[Logger]
  BY <1>2, <1>3
<1>5. QED
  BY <1>1, <1>4, OthersWork

LEMMA CommandsWork ==
  ASSUME DrainInv, WorkInv, Commands
  PROVE  WorkInv'
<1>1. CASE Reject \/ SaveStationBook \/ RefuseEquipment \/ Recover
  <2>1. PICK from, phase, todo, ops :
          /\ Ready(Logger, from) /\ phase \notin {"enqueue", "attach"}
          /\ Enter(Logger, phase, todo, ops) /\ UNCHANGED <<main, temp, call, acked>>
    BY <1>1 DEF Reject, SaveStationBook, RefuseEquipment, Recover
  <2>2. QED
    BY <2>1, OtherCommandWork
<1>2. QED
  BY <1>1, SubmitWork, AppendEventWork, ReturnToUserWork DEF Commands

LEMMA WorkInit == Init => WorkInv
<1> SUFFICES ASSUME Init PROVE WorkInv
  OBVIOUS
<1>1. /\ main = Absent /\ temp = Absent /\ call = None /\ acked = {} /\ proc[Logger] = Idle
  BY DEF Init, Procs
<1>2. Idle.phase = "idle" /\ LoggerShape(Idle)
  BY IdleFacts DEF LoggerShape
<1>3. MustQueue = {} /\ MustLink = {}
  BY <1>1, <1>2 DEF MustQueue, MustLink
<1>4. QED
  BY <1>1, <1>2, <1>3 DEF WorkInv, Kept

\* Only a call can take the queue for empty, and that is not undone.
LEMMA LostStays ==
  ASSUME [Next]_vars
  PROVE  /\ lost => lost'
         /\ lost' => lost \/ \E p \in Procs : BeginCall(p)
<1>1. CASE UNCHANGED lost
  BY <1>1
<1>2. CASE \E p \in Procs : BeginCall(p)
  BY <1>2 DEF BeginCall
<1>3. QED
  BY <1>1, <1>2 DEF Next, StoreCall, Commands, Attempt, FindQueued, WriteTemp, EndCall, Submit, AppendEvent,
     Reject, SaveStationBook, RefuseEquipment, Recover, ReturnToUser, StartPlan, PlanOffline,
     ListEvents, PlanBatch, Push, EndAttempt, HandlePush, DenyPush, GiveUp, BecomeDue,
     OtherClientPushes, Pull, Crash, vars

LEMMA WorkStep ==
  ASSUME DrainInv, WorkInv, [Next]_vars, ~ lost'
  PROVE  WorkInv'
<1>1. CASE StoreCall
  BY <1>1, FindQueuedWork, BeginCallWork, WriteTempWork, EndCallWork DEF StoreCall
<1>2. CASE Commands
  BY <1>2, CommandsWork
<1>3. CASE \E a \in Attempts : Attempt(a)
  BY <1>3, AttemptWork
<1>4. CASE \E op \in Ops : BecomeDue(op)
  BY <1>4, BecomeDueWork
<1>5. CASE (\E e \in Others : OtherClientPushes(e)) \/ Pull \/ UNCHANGED vars
  BY <1>5, OthersWork DEF OtherClientPushes, Pull, vars
<1>6. CASE Crash
  BY <1>6, CrashWork
<1>7. QED
  BY <1>1, <1>2, <1>3, <1>4, <1>5, <1>6 DEF Next

\* What was acknowledged to the user stays queued with its event, however often the
\* app dies in a write, until a call reads an empty queue where a death has left it
\* in the temporary file (write_json_atomically and recover_or_initialize).
THEOREM WorkIsKept == Spec => []QueueKeepsWork
<1> DEFINE Inv == DrainInv /\ ListedInv /\ (lost \/ WorkInv)
<1>1. Init => Inv
  BY DrainInvInit, ListedInit, WorkInit
<1>2. Inv /\ [Next]_vars => Inv'
  BY DrainInvStep, ListedStep, LostStays, WorkStep
<1>3. Inv => QueueKeepsWork
  <2> SUFFICES ASSUME DrainInv, WorkInv, NEW op \in acked
               PROVE  \E e \in Range(LiveQueue) : e.op = op /\ e.linked
    BY DEF QueueKeepsWork, IsKept
  <2>1. op \in LinkedIn(LiveQueue)
    BY DEF WorkInv, Kept, MustLink
  <2>2. PICK i \in 1..Len(LiveQueue) : LiveQueue[i].linked /\ LiveQueue[i].op = op
    BY <2>1 DEF LinkedIn
  <2>3. LiveQueue[i] \in Range(LiveQueue)
    BY LiveQueueIsOK, LenProperties DEF Range
  <2>4. QED
    BY <2>2, <2>3
<1>4. QED
  BY <1>1, <1>2, <1>3, PTL DEF Spec

-----------------------------------------------------------------------------
(***************************************************************************)
(* The queue is an outbox: first in, first out, and nothing taken out.     *)
(***************************************************************************)

\* The queue that is about to be written is an edit of the one on disk.
CallEdits == call # None /\ temp = Torn => call.queue = ApplyEdit(load_file, Head(proc[call.by].todo))

\* What is sent, and what was delivered, is in the queue.
OutInv ==
  /\ CallEdits
  /\ \A sent \in Flights : Range(sent) \subseteq OpsOf(LiveQueue)
  /\ Delivered \subseteq OpsOf(LiveQueue)

\* The step of the outbox.
OutStep == Out!Next \/ UNCHANGED <<OrderOf(LiveQueue), Delivered>>

\* The first n operations of a queue.
FirstOf(q, n) == {q[i].op : i \in 1..n}

LEMMA OrderFacts ==
  ASSUME NEW q \in Seq(QueueEntry)
  PROVE  /\ Len(q) \in Nat /\ OrderOf(q) \in Seq(Ops) /\ Len(OrderOf(q)) = Len(q)
         /\ \A i \in 1..Len(q) : OrderOf(q)[i] = q[i].op
         /\ \A n \in 0..Len(q) : FirstOf(q, n) = {OrderOf(q)[i] : i \in 1..n}
         /\ FirstOf(q, Len(q)) = OpsOf(q)
<1>1. Len(q) \in Nat /\ \A i \in 1..Len(q) : q[i].op \in Ops
  <2>1. Len(q) \in Nat /\ \A i \in 1..Len(q) : q[i] \in QueueEntry
    BY LenProperties, ElementOfSeq
  <2>2. QED
    BY <2>1 DEF QueueEntry
<1>2. PICK s : s = OrderOf(q)
  OBVIOUS
<1>3. s \in [1..Len(q) -> Ops] /\ \A i \in 1..Len(q) : s[i] = q[i].op
  BY <1>1, <1>2 DEF OrderOf
<1>4. \A S, m, f : m \in Nat /\ f \in [1..m -> S] => f \in Seq(S) /\ Len(f) = m
  OBVIOUS
<1>5. s \in Seq(Ops) /\ Len(s) = Len(q)
  BY <1>1, <1>3, <1>4
<1>6. ASSUME NEW n \in 0..Len(q) PROVE FirstOf(q, n) = {s[i] : i \in 1..n}
  <2>1. \A i \in 1..n : s[i] = q[i].op
    BY <1>1, <1>3
  <2>2. QED
    BY <2>1 DEF FirstOf
<1>7. FirstOf(q, Len(q)) = OpsOf(q)
  <2>1. \A op : op \in OpsOf(q) <=> \E i \in 1..Len(q) : q[i].op = op
    BY InOps
  <2>2. \A op : op \in FirstOf(q, Len(q)) <=> \E i \in 1..Len(q) : q[i].op = op
    BY DEF FirstOf
  <2>3. QED
    BY <2>1, <2>2
<1>8. QED
  BY <1>1, <1>2, <1>3, <1>5, <1>6, <1>7

\* Queues of the same operations have one order.
LEMMA SameOrder ==
  ASSUME NEW q \in Seq(QueueEntry), NEW r \in Seq(QueueEntry), Len(r) = Len(q),
         \A i \in 1..Len(q) : r[i].op = q[i].op
  PROVE  OrderOf(r) = OrderOf(q) /\ OpsOf(r) = OpsOf(q)
<1>1. OrderOf(r) = OrderOf(q)
  BY DEF OrderOf
<1>2. \A op : op \in OpsOf(r) <=> op \in OpsOf(q)
  BY InOps
<1>3. QED
  BY <1>1, <1>2

\* An edit leaves the order alone or queues a new operation last.
LEMMA EditExtends ==
  ASSUME NEW q \in Seq(QueueEntry), NEW edit, NEW p, NEW held, NEW logged,
         EditOK(p, edit, held, logged), NEW r, r = ApplyEdit(q, edit)
  PROVE  /\ r \in Seq(QueueEntry) /\ OpsOf(q) \subseteq OpsOf(r)
         /\ \/ OrderOf(r) = OrderOf(q)
            \/ \E op \in Ops : op \notin OpsOf(q) /\ OrderOf(r) = Append(OrderOf(q), op)
<1>1. CASE edit.kind # "enqueue"
  <2>1. r = update_mutation(q, edit.kind, edit.ops) /\ edit.kind \in Kinds \ {"enqueue"}
    BY <1>1 DEF ApplyEdit, EditOK, Edit
  <2>2. r \in Seq(QueueEntry) /\ Len(r) = Len(q) /\ \A i \in 1..Len(q) : r[i].op = q[i].op
    BY <2>1, EditInPlace
  <2>3. QED
    BY <2>2, SameOrder
<1>2. CASE edit.kind = "enqueue"
  <2>1. PICK op \in Ops : edit.ops = {op}
    BY <1>2 DEF EditOK
  <2>2. (CHOOSE o \in edit.ops : TRUE) = op
    BY <2>1
  <2>3. r = enqueue_input(q, op)
    BY <1>2, <2>2 DEF ApplyEdit
  <2>4. CASE op \in OpsOf(q)
    <3>1. r = q
      BY <2>3, <2>4 DEF enqueue_input
    <3>2. QED
      BY <3>1
  <2>5. CASE op \notin OpsOf(q)
    <3>1. /\ r \in Seq(QueueEntry) /\ Len(r) = Len(q) + 1 /\ r[Len(r)].op = op
          /\ \A i \in 1..Len(q) : r[i] = q[i]
      BY <2>3, <2>5, EnqueueLast
    <3>2. PICK s, t : s = OrderOf(q) /\ t = OrderOf(r)
      OBVIOUS
    <3>3. /\ s \in Seq(Ops) /\ Len(s) = Len(q) /\ Len(q) \in Nat /\ \A i \in 1..Len(q) : s[i] = q[i].op
          /\ t \in Seq(Ops) /\ Len(t) = Len(q) + 1 /\ \A i \in 1..Len(r) : t[i] = r[i].op
      BY <3>1, <3>2, OrderFacts
    <3>4. \A i \in 1..Len(q) : t[i] = s[i]
      <4>1. \A i \in 1..Len(q) : i \in 1..Len(r)
        BY <3>1, <3>3
      <4>2. QED
        BY <3>1, <3>3, <4>1
    <3>5. t[Len(q) + 1] = op
      <4>1. Len(r) \in 1..Len(r)
        BY <3>1, <3>3
      <4>2. QED
        BY <3>1, <3>3, <4>1
    <3>6. t = Append(s, op)
      <4>1. Append(s, op) \in Seq(Ops) /\ Len(Append(s, op)) = Len(t)
        BY <3>3, AppendProperties
      <4>2. \A i \in 1..Len(t) : t[i] = Append(s, op)[i]
        BY <3>3, <3>4, <3>5, AppendProperties
      <4>3. QED
        BY <3>3, <4>1, <4>2, SeqEqual
    <3>7. \A o : o \in OpsOf(q) => o \in OpsOf(r)
      <4>1. \A i \in 1..Len(q) : i \in 1..Len(r)
        BY <3>1, <3>3
      <4>2. QED
        BY <3>1, <4>1, InOps
    <3>8. QED
      BY <2>5, <3>1, <3>2, <3>6, <3>7
  <2>6. QED
    BY <2>4, <2>5
<1>3. QED
  BY <1>1, <1>2

\* What the server holds of a queue in its order is a start of it, without what is
\* carried out locally.
LEMMA HeldIsFirst ==
  ASSUME NEW q \in Seq(QueueEntry), NEW held, InOrder(q, held), held \cap Ops \cap Support = {},
         NEW D, D = held \cap Ops, D # {}, D \subseteq OpsOf(q)
  PROVE  \E n \in 1..Len(q) : D \subseteq FirstOf(q, n) /\ D = FirstOf(q, n) \ Support
<1>1. Len(q) \in Nat /\ \A i \in 1..Len(q) : q[i].op \in Ops
  <2>1. Len(q) \in Nat /\ \A i \in 1..Len(q) : q[i] \in QueueEntry
    BY LenProperties, ElementOfSeq
  <2>2. QED
    BY <2>1 DEF QueueEntry
<1>2. \A op \in D : \E i \in 1..Len(q) : q[i].op = op
  BY InOps
<1>3. PICK P : P = {n \in 1..Len(q) : \A j \in 1..Len(q) : q[j].op \in D => j <= n}
  OBVIOUS
<1>4. Len(q) \in P
  BY <1>1, <1>2, <1>3
<1>5. PICK n \in P : \A j \in P : n <= j
  <2>1. P # {} /\ P \subseteq 1..Len(q)
    BY <1>3, <1>4
  <2>2. QED
    BY <1>1, <2>1, FirstPosition
<1>6. n \in 1..Len(q) /\ \A j \in 1..Len(q) : q[j].op \in D => j <= n
  BY <1>3
<1>7. q[n].op \in D
  <2> SUFFICES ASSUME q[n].op \notin D PROVE FALSE
    OBVIOUS
  <2>1. \A j \in 1..Len(q) : q[j].op \in D => j <= n - 1
    BY <1>1, <1>6
  <2>2. n - 1 \in 1..Len(q)
    BY <1>1, <1>2, <1>6, <2>1
  <2>3. n - 1 \in P
    BY <1>3, <2>1, <2>2
  <2>4. QED
    BY <1>1, <1>5, <1>6, <2>3
<1>8. \A i \in 1..n : i \in 1..Len(q) /\ q[i].op \in held \cup Support
  BY <1>1, <1>6, <1>7 DEF InOrder
<1>9. D \subseteq FirstOf(q, n)
  BY <1>1, <1>2, <1>6 DEF FirstOf
<1>10. FirstOf(q, n) \ Support \subseteq D
  BY <1>1, <1>8 DEF FirstOf
<1>11. QED
  BY <1>6, <1>9, <1>10

-----------------------------------------------------------------------------
\* Steps that leave the queue alone.
LEMMA QueueStays ==
  ASSUME OutInv, LiveQueue' = LiveQueue, CallEdits',
         Delivered' = Delivered \/ Delivered' \subseteq OpsOf(LiveQueue),
         \A sent \in Flights' : sent \in Flights \cup {<< >>} \/ Range(sent) \subseteq OpsOf(LiveQueue)
  PROVE  OutInv' /\ (Delivered' = Delivered => OutStep)
<1>1. \A sent \in Flights' : Range(sent) \subseteq OpsOf(LiveQueue)
  BY EmptyIsOK DEF OutInv
<1>2. OutInv'
  BY <1>1 DEF OutInv
<1>3. QED
  BY <1>2 DEF OutStep

LEMMA BeginCallOut ==
  ASSUME DrainInv, OutInv, NEW p \in Procs, BeginCall(p), ~ lost'
  PROVE  OutInv' /\ OutStep
<1>1. PICK edit : edit = Head(proc[p].todo)
  OBVIOUS
<1>2. /\ LiveQueue' = LiveQueue /\ load_file' = LiveQueue
      /\ call' = [by |-> p, queue |-> ApplyEdit(LiveQueue, edit)] /\ UNCHANGED <<proc, wire, server>>
  BY <1>1, BeginCallReads
<1>3. CallEdits'
  BY <1>1, <1>2 DEF CallEdits
<1>4. Flights' = Flights /\ Delivered' = Delivered
  BY <1>2 DEF Flights, Delivered
<1>5. QED
  BY <1>2, <1>3, <1>4, QueueStays

LEMMA WriteTempOut ==
  ASSUME DrainInv, OutInv, WriteTemp
  PROVE  OutInv' /\ OutStep
<1>1. PICK p, edit, q, r : p = call.by /\ edit = Head(proc[p].todo) /\ q = load_file /\ r = call.queue
  OBVIOUS
<1>2. /\ call # None /\ temp = Torn /\ temp' = call.queue /\ main' = Absent
      /\ UNCHANGED <<call, proc, wire, server>>
  BY DEF WriteTemp
<1>3. r = ApplyEdit(q, edit) /\ r \in Seq(QueueEntry)
  BY <1>1, <1>2, DrainFacts DEF OutInv, CallEdits
<1>4. LiveQueue = q /\ LiveQueue' = r /\ temp' # Torn
  BY <1>1, <1>2, <1>3, FilesAssumption DEF LiveQueue
<1>5. q \in Seq(QueueEntry)
  BY <1>4, LiveQueueIsOK
<1>6. p \in Procs /\ 1 \in 1..Len(proc[p].todo) /\ edit = proc[p].todo[1]
  BY <1>1, <1>2, DrainFacts, HeadTailProperties, LenProperties
<1>7. EditOK(p, edit, Range(server), Range(log))
  BY <1>6 DEF DrainInv
<1>8. /\ OpsOf(q) \subseteq OpsOf(r)
      /\ \/ OrderOf(r) = OrderOf(q)
         \/ \E op \in Ops : op \notin OpsOf(q) /\ OrderOf(r) = Append(OrderOf(q), op)
  <2>1. PICK held, logged : held = Range(server) /\ logged = Range(log)
    OBVIOUS
  <2>2. EditOK(p, edit, held, logged)
    BY <1>7, <2>1
  <2>3. QED
    BY <1>3, <1>5, <2>2, EditExtends
<1>9. Flights' = Flights /\ Delivered' = Delivered
  BY <1>2 DEF Flights, Delivered
<1>10. OutInv'
  <2>1. CallEdits'
    BY <1>4 DEF CallEdits
  <2>2. \A sent \in Flights' : Range(sent) \subseteq OpsOf(LiveQueue')
    BY <1>4, <1>8, <1>9 DEF OutInv
  <2>3. Delivered' \subseteq OpsOf(LiveQueue')
    BY <1>4, <1>8, <1>9 DEF OutInv
  <2>4. QED
    BY <2>1, <2>2, <2>3 DEF OutInv
<1>11. OutStep
  <2>1. CASE OrderOf(r) = OrderOf(q)
    BY <1>4, <1>9, <2>1 DEF OutStep
  <2>2. ASSUME NEW op \in Ops, op \notin OpsOf(q), OrderOf(r) = Append(OrderOf(q), op)
        PROVE  OutStep
    <3>1. OrderOf(LiveQueue') = Append(OrderOf(LiveQueue), op)
      BY <1>4, <2>2
    <3>2. op \notin {OrderOf(LiveQueue)[i] : i \in 1..Len(OrderOf(LiveQueue))}
      <4>1. /\ Len(OrderOf(q)) = Len(q) /\ Len(q) \in 0..Len(q)
            /\ FirstOf(q, Len(q)) = {OrderOf(q)[i] : i \in 1..Len(q)} /\ FirstOf(q, Len(q)) = OpsOf(q)
        BY <1>5, OrderFacts
      <4>2. QED
        BY <1>4, <2>2, <4>1
    <3>3. Out!Enqueue(op)
      BY <1>9, <3>1, <3>2 DEF Out!Enqueue, Out!First
    <3>4. QED
      BY <3>3 DEF OutStep, Out!Next
  <2>3. QED
    BY <1>8, <2>1, <2>2
<1>12. QED
  BY <1>10, <1>11

LEMMA EndCallOut ==
  ASSUME DrainInv, WorkInv, OutInv, EndCall
  PROVE  OutInv' /\ OutStep
<1>1. PICK p : p = call.by
  OBVIOUS
<1>2. /\ call # None /\ temp # Torn /\ main' = temp /\ temp' = Absent /\ call' = None
      /\ proc' = [proc EXCEPT ![p].todo = Tail(@)] /\ UNCHANGED <<wire, server>>
  BY <1>1 DEF EndCall
<1>3. temp \in Seq(QueueEntry) /\ temp # Absent /\ main = Absent
  <2>1. temp # Absent
    BY <1>2 DEF WorkInv
  <2>2. QED
    BY <1>2, <2>1, DrainFacts
<1>4. LiveQueue' = LiveQueue
  BY <1>2, <1>3, FilesAssumption DEF LiveQueue, load_file
<1>5. \A o \in Procs : proc'[o].ops = proc[o].ops
  BY <1>2 DEF DrainInv, CoreTypes, Proc
<1>6. Flights' = Flights /\ Delivered' = Delivered /\ CallEdits'
  BY <1>2, <1>5 DEF Flights, Delivered, CallEdits, Procs
<1>7. QED
  BY <1>4, <1>6, QueueStays

LEMMA CrashOut ==
  ASSUME OutInv, Crash
  PROVE  OutInv' /\ OutStep
<1>1. /\ call' = None /\ UNCHANGED <<main, temp, wire, server>>
      /\ proc' = [p \in Procs |-> Idle]
  BY DEF Crash
<1>2. \A a \in Attempts : proc'[a].ops = << >>
  BY <1>1, IdleFacts DEF Procs
<1>3. \A sent \in Flights' : sent \in Flights \cup {<< >>}
  BY <1>1, <1>2 DEF Flights
<1>4. LiveQueue' = LiveQueue /\ Delivered' = Delivered /\ CallEdits'
  BY <1>1 DEF LiveQueue, load_file, Delivered, CallEdits
<1>5. QED
  BY <1>3, <1>4, QueueStays

LEMMA BecomeDueOut ==
  ASSUME DrainInv, OutInv, NEW op \in Ops, BecomeDue(op)
  PROVE  OutInv' /\ OutStep
<1>1. /\ call' = None /\ LiveQueue = main /\ LiveQueue' = main' /\ UNCHANGED <<proc, wire, server>>
      /\ main \in Seq(QueueEntry) /\ main' \in Seq(QueueEntry) /\ Len(main') = Len(main)
      /\ \A j \in 1..Len(main) : main'[j].op = main[j].op /\ main'[j].linked = main[j].linked
  BY BecomeDueKeeps
<1>2. PICK r : r = main'
  OBVIOUS
<1>3. OrderOf(r) = OrderOf(main) /\ OpsOf(r) = OpsOf(main)
  BY <1>1, <1>2, SameOrder
<1>4. Flights' = Flights /\ Delivered' = Delivered /\ CallEdits'
  BY <1>1 DEF Flights, Delivered, CallEdits
<1>5. OutInv'
  BY <1>1, <1>2, <1>3, <1>4 DEF OutInv
<1>6. OutStep
  BY <1>1, <1>2, <1>3, <1>4 DEF OutStep
<1>7. QED
  BY <1>5, <1>6

\* A process goes on to x; its call, if it has one, is over.
LEMMA ProcOut ==
  ASSUME DrainInv, OutInv, NEW p \in Procs, NEW x, proc' = [proc EXCEPT ![p] = x],
         UNCHANGED <<main, temp, call>>, call # None => call.by # p,
         Delivered' = Delivered \/ Delivered' \subseteq OpsOf(LiveQueue),
         \A a \in Attempts : wire'[a] \in Flights \cup {<< >>},
         p \in Attempts => x.ops \in Flights \cup {<< >>} \/ Range(x.ops) \subseteq OpsOf(LiveQueue)
  PROVE  OutInv' /\ (Delivered' = Delivered => OutStep)
<1>1. \A o \in Procs : proc'[o] = IF o = p THEN x ELSE proc[o]
  BY DEF DrainInv, CoreTypes
<1>2. LiveQueue' = LiveQueue /\ load_file' = load_file
  BY DEF LiveQueue, load_file
<1>3. CallEdits'
  <2>1. call # None => proc'[call.by] = proc[call.by]
    BY <1>1, DrainFacts
  <2>2. QED
    BY <1>2, <2>1 DEF OutInv, CallEdits
<1>4. ASSUME NEW sent \in Flights'
      PROVE  sent \in Flights \cup {<< >>} \/ Range(sent) \subseteq OpsOf(LiveQueue)
  <2>1. CASE sent \in {wire'[a] : a \in Attempts}
    BY <2>1
  <2>2. ASSUME NEW a \in Attempts, sent = proc'[a].ops
        PROVE  sent \in Flights \cup {<< >>} \/ Range(sent) \subseteq OpsOf(LiveQueue)
    <3>1. CASE a = p
      BY <1>1, <2>2, <3>1
    <3>2. CASE a # p
      <4>1. a \in Procs /\ proc[a].ops \in Flights
        BY DrainFacts
      <4>2. QED
        BY <1>1, <2>2, <3>2, <4>1
    <3>3. QED
      BY <3>1, <3>2
  <2>3. QED
    BY <2>1, <2>2 DEF Flights
<1>5. QED
  BY <1>2, <1>3, <1>4, QueueStays

\* A plan takes its operations from the queue on disk.
LEMMA PlanOut ==
  ASSUME DrainInv, OutInv, NEW a \in Attempts, PlanBatch(a)
  PROVE  OutInv' /\ OutStep
<1>1. PICK q, known : q = load_file /\ known = listed[a]
  OBVIOUS
<1>2. PICK batch : batch = ready_event_batch(q, known)
  OBVIOUS
<1>3. PICK n : n = IF Len(batch.ops) < MaxBatch THEN Len(batch.ops) ELSE MaxBatch
  OBVIOUS
<1>4. PICK ops : ops = SubSeq(batch.ops, 1, n)
  OBVIOUS
<1>5. /\ call = None /\ UNCHANGED <<main, temp, call, wire, server>>
      /\ \E x : proc' = [proc EXCEPT ![a] = x] /\ x.ops \in {<< >>, ops}
  <2>1. /\ call = None /\ UNCHANGED <<main, temp, call, wire, server>>
        /\ \/ \E todo : Enter(a, "replan", todo, << >>)
           \/ proc' = [proc EXCEPT ![a] = Idle]
           \/ Enter(a, "send", Each("sending", ops), ops)
    BY <1>1, <1>2, <1>3, <1>4 DEF PlanBatch, Ready
  <2>2. ASSUME NEW phase, NEW todo, NEW sent \in {<< >>, ops}, Enter(a, phase, todo, sent)
        PROVE  \E x : proc' = [proc EXCEPT ![a] = x] /\ x.ops \in {<< >>, ops}
    <3>1. PICK x : x = [phase |-> phase, todo |-> todo, ops |-> sent]
      OBVIOUS
    <3>2. proc' = [proc EXCEPT ![a] = x] /\ x.ops = sent
      BY <2>2, <3>1 DEF Enter
    <3>3. QED
      BY <3>2
  <2>3. Idle.ops = << >>
    BY IdleFacts
  <2>4. QED
    BY <2>1, <2>2, <2>3
<1>6. q \in Seq(QueueEntry) /\ (q = << >> \/ q = LiveQueue)
  BY <1>1, DrainFacts DEF load_file, LiveQueue
<1>7. batch.ops \in Seq(Ops) /\ \A k \in 1..Len(batch.ops) : \E j \in 1..Len(q) : q[j].op = batch.ops[k]
  BY <1>2, <1>6, BatchFollows DEF Planned
<1>8. Len(batch.ops) \in Nat /\ \A k \in 1..Len(batch.ops) : batch.ops[k] \in OpsOf(LiveQueue)
  <2>1. Len(batch.ops) \in Nat
    BY <1>7, LenProperties
  <2>2. q = << >> => \A k : k \notin 1..Len(q)
    OBVIOUS
  <2>3. ASSUME NEW k \in 1..Len(batch.ops) PROVE batch.ops[k] \in OpsOf(LiveQueue)
    <3>1. q = LiveQueue
      BY <1>6, <1>7, <2>2
    <3>2. batch.ops[k] \in OpsOf(q)
      BY <1>6, <1>7, InOps
    <3>3. QED
      BY <3>1, <3>2
  <2>4. QED
    BY <2>1, <2>3
<1>9. Range(ops) \subseteq OpsOf(LiveQueue)
  <2>1. n \in 0..Len(batch.ops)
    BY <1>3, <1>8, BoundsAssumption
  <2>2. 1 \in Int /\ n \in Int /\ \A i \in 1..n : batch.ops[i] \in Ops
    BY <1>7, <1>8, <2>1, ElementOfSeq
  <2>3. /\ ops \in Seq(Ops) /\ Len(ops) = n
        /\ \A k \in 1..n : k \in 1..Len(batch.ops) /\ ops[k] = batch.ops[k]
    BY <1>4, <1>8, <2>1, <2>2, SubSeqProperties
  <2>4. DOMAIN ops = 1..n
    BY <2>3, LenProperties
  <2>5. QED
    BY <1>8, <2>3, <2>4 DEF Range
<1>10. PICK x : proc' = [proc EXCEPT ![a] = x] /\ x.ops \in {<< >>, ops}
  BY <1>5
<1>11. /\ a \in Procs /\ Delivered' = Delivered /\ UNCHANGED <<main, temp, call>>
       /\ \A b \in Attempts : wire'[b] \in Flights
  BY <1>5, DrainFacts DEF Delivered
<1>12. QED
  BY <1>5, <1>9, <1>10, <1>11, ProcOut

\* Attempts that go on with what they send, or stop.
LEMMA AttemptOut ==
  ASSUME DrainInv, OutInv, NEW a \in Attempts, Attempt(a), ~ PlanBatch(a), ~ HandlePush(a), ~ DenyPush(a)
  PROVE  OutInv' /\ OutStep
<1>1. /\ call = None /\ UNCHANGED <<main, temp, call, server>>
      /\ \E x : proc' = [proc EXCEPT ![a] = x] /\ x.ops \in {<< >>, proc[a].ops}
      /\ wire' = wire \/ wire' = [wire EXCEPT ![a] = proc[a].ops]
  <2>1. /\ call = None /\ UNCHANGED <<main, temp, call, server>>
        /\ \/ \E phase, todo : Enter(a, phase, todo, << >>) \/ Enter(a, phase, todo, proc[a].ops)
           \/ proc' = [proc EXCEPT ![a] = Idle]
        /\ wire' = wire \/ wire' = [wire EXCEPT ![a] = proc[a].ops]
    BY DEF Attempt, StartPlan, PlanOffline, ListEvents, Push, EndAttempt, GiveUp, Ready
  <2>2. ASSUME NEW phase, NEW todo, NEW sent \in {<< >>, proc[a].ops}, Enter(a, phase, todo, sent)
        PROVE  \E x : proc' = [proc EXCEPT ![a] = x] /\ x.ops \in {<< >>, proc[a].ops}
    <3>1. PICK x : x = [phase |-> phase, todo |-> todo, ops |-> sent]
      OBVIOUS
    <3>2. proc' = [proc EXCEPT ![a] = x] /\ x.ops = sent
      BY <2>2, <3>1 DEF Enter
    <3>3. QED
      BY <3>2
  <2>3. Idle.ops = << >>
    BY IdleFacts
  <2>4. QED
    BY <2>1, <2>2, <2>3
<1>2. PICK x : proc' = [proc EXCEPT ![a] = x] /\ x.ops \in {<< >>, proc[a].ops}
  BY <1>1
<1>3. a \in Procs /\ proc[a].ops \in Flights /\ \A b \in Attempts : wire[b] \in Flights
  BY DrainFacts
<1>4. \A b \in Attempts : wire'[b] \in Flights
  <2>1. wire \in [Attempts -> Seq(Ops)]
    BY DEF DrainInv, CoreTypes
  <2>2. QED
    BY <1>1, <1>3, <2>1
<1>5. Delivered' = Delivered
  BY <1>1 DEF Delivered
<1>6. QED
  BY <1>1, <1>2, <1>3, <1>4, <1>5, ProcOut

\* The server delivers, or not.
LEMMA DeliverOut ==
  ASSUME DrainInv, DrainInv', OutInv', UNCHANGED <<main, temp, call>>,
         Range(server) \subseteq Range(server')
  PROVE  OutStep
<1>1. PICK q, held, D : q = LiveQueue /\ held = Range(server') /\ D = Delivered'
  OBVIOUS
<1>2. q \in Seq(QueueEntry)
  BY <1>1, LiveQueueIsOK
<1>3. InOrder(q, held)
  <2>1. q = << >> \/ q \in Queues
    BY <1>1, DrainFacts, FilesAssumption DEF LiveQueue
  <2>2. Queues' = Queues
    BY DEF Queues
  <2>3. \A s \in Queues : InOrder(s, held)
    BY <1>1, <2>2 DEF DrainInv, QueueOK
  <2>4. InOrder(<< >>, held)
    BY DEF InOrder
  <2>5. QED
    BY <2>1, <2>3, <2>4
<1>4. D = held \cap Ops /\ Delivered \subseteq D /\ held \cap Ops \cap Support = {}
  BY <1>1 DEF Delivered, DrainInv
<1>5. LiveQueue' = LiveQueue /\ D \subseteq OpsOf(q)
  <2>1. LiveQueue' = LiveQueue
    BY DEF LiveQueue, load_file
  <2>2. QED
    BY <1>1, <2>1 DEF OutInv
<1>6. CASE D = {}
  BY <1>1, <1>4, <1>5, <1>6 DEF OutStep
<1>7. CASE D # {}
  <2>1. PICK n \in 1..Len(q) : D \subseteq FirstOf(q, n) /\ D = FirstOf(q, n) \ Support
    BY <1>2, <1>3, <1>4, <1>5, <1>7, HeldIsFirst
  <2>2. /\ Len(q) \in Nat /\ Len(OrderOf(q)) = Len(q) /\ n \in 0..Len(q)
        /\ FirstOf(q, n) = {OrderOf(q)[i] : i \in 1..n}
    <3>1. Len(q) \in Nat /\ Len(OrderOf(q)) = Len(q)
          /\ \A m \in 0..Len(q) : FirstOf(q, m) = {OrderOf(q)[i] : i \in 1..m}
      BY <1>2, OrderFacts
    <3>2. n \in 0..Len(q)
      BY <3>1
    <3>3. QED
      BY <3>1, <3>2
  <2>3. Delivered' = {OrderOf(LiveQueue)[i] : i \in 1..n} \ Support /\ n \in 1..Len(OrderOf(LiveQueue))
    BY <1>1, <2>1, <2>2
  <2>4. Delivered \subseteq {OrderOf(LiveQueue)[i] : i \in 1..n}
    BY <1>1, <1>4, <2>1, <2>2
  <2>5. Out!Deliver
    BY <1>5, <2>3, <2>4 DEF Out!Deliver, Out!First
  <2>6. QED
    BY <2>5 DEF OutStep, Out!Next
<1>8. QED
  BY <1>6, <1>7

LEMMA AnswerOut ==
  ASSUME DrainInv, OutInv, NEW a \in Attempts, NEW todo, Answer(a, todo), UNCHANGED <<main, temp, call>>,
         wire' = [wire EXCEPT ![a] = << >>],
         Delivered' = Delivered \/ Delivered' \subseteq OpsOf(LiveQueue)
  PROVE  OutInv' /\ (Delivered' = Delivered => OutStep)
<1>1. a \in Procs /\ proc[a].ops \in Flights
  BY DrainFacts
<1>2. \A b \in Attempts : wire'[b] \in Flights \cup {<< >>}
  <2>1. wire \in [Attempts -> Seq(Ops)] /\ \A b \in Attempts : wire[b] \in Flights
    BY DrainFacts DEF DrainInv, CoreTypes
  <2>2. \A b \in Attempts : wire'[b] = << >> \/ wire'[b] = wire[b]
    BY <2>1
  <2>3. QED
    BY <2>1, <2>2
<1>3. CASE proc[a].phase = "sent"
  <2>1. PICK x : x = [phase |-> "record", todo |-> todo, ops |-> proc[a].ops]
    OBVIOUS
  <2>2. x.ops = proc[a].ops /\ proc' = [proc EXCEPT ![a] = x]
    BY <1>3, <2>1 DEF Answer, Enter
  <2>3. call # None => call.by # a
    BY <1>1, <1>3 DEF DrainInv
  <2>4. QED
    BY <1>1, <1>2, <2>2, <2>3, ProcOut
<1>4. CASE proc[a].phase # "sent"
  <2>1. UNCHANGED proc
    BY <1>4 DEF Answer
  <2>2. LiveQueue' = LiveQueue /\ load_file' = load_file
    BY DEF LiveQueue, load_file
  <2>3. CallEdits'
    BY <2>1, <2>2 DEF OutInv, CallEdits
  <2>4. \A sent \in Flights' : sent \in Flights \cup {<< >>}
    BY <1>2, <2>1 DEF Flights
  <2>5. QED
    BY <2>2, <2>3, <2>4, QueueStays
<1>5. QED
  BY <1>3, <1>4

LEMMA DenyPushOut ==
  ASSUME DrainInv, OutInv, NEW a \in Attempts, DenyPush(a)
  PROVE  OutInv' /\ OutStep
<1>1. PICK todo : todo = Each("user_action", wire[a])
  OBVIOUS
<1>2. /\ Answer(a, todo) /\ UNCHANGED <<main, temp, call, server>> /\ wire' = [wire EXCEPT ![a] = << >>]
  BY <1>1 DEF DenyPush
<1>3. Delivered' = Delivered
  BY <1>2 DEF Delivered
<1>4. QED
  BY <1>2, <1>3, AnswerOut

LEMMA HandlePushOut ==
  ASSUME DrainInv, OutInv, NEW a \in Attempts, HandlePush(a)
  PROVE  OutInv' /\ OutStep
<1>1. PICK ops, result : ops = wire[a] /\ result = push_events(ops)
  OBVIOUS
<1>2. PICK todo : todo = recordRetryResponse(ops, result.count, result.error)
  OBVIOUS
<1>3. /\ server' = result.log /\ Answer(a, todo) /\ wire' = [wire EXCEPT ![a] = << >>]
      /\ UNCHANGED <<main, temp, call>>
  BY <1>1, <1>2 DEF HandlePush
<1>4. ops \in Seq(Ops) /\ ops \in Flights /\ server \in Seq(Events)
  BY <1>1, DrainFacts
<1>5. result \in PushResult /\ Pushed(ops, Len(ops), result)
  BY <1>1, <1>4, PushTakesPrefix
<1>6. /\ Range(server) \subseteq Range(server') /\ result.count \in 0..Len(ops)
      /\ \A e \in Range(server') : e \in Range(server) \/ \E k \in 1..result.count : ops[k] = e
  BY <1>3, <1>5 DEF PushResult, Pushed
<1>7. \A k \in 1..result.count : ops[k] \in Range(ops)
  BY <1>4, <1>6, LenProperties DEF Range
<1>8. Range(ops) \subseteq OpsOf(LiveQueue) /\ Delivered \subseteq OpsOf(LiveQueue)
  BY <1>4 DEF OutInv
<1>9. Delivered' \subseteq OpsOf(LiveQueue)
  BY <1>6, <1>7, <1>8 DEF Delivered
<1>10. OutInv'
  BY <1>3, <1>9, AnswerOut
<1>11. DrainInv'
  BY HandlePushStep
<1>12. QED
  BY <1>3, <1>6, <1>10, <1>11, DeliverOut

LEMMA CommandsOut ==
  ASSUME DrainInv, OutInv, Commands
  PROVE  OutInv' /\ OutStep
<1>1. /\ call = None /\ UNCHANGED <<main, temp, call, wire, server>>
      /\ \E x : proc' = [proc EXCEPT ![Logger] = x]
  BY DEF Commands, Submit, AppendEvent, Reject, SaveStationBook, RefuseEquipment, Recover,
         ReturnToUser, Ready, Enter
<1>2. PICK x : proc' = [proc EXCEPT ![Logger] = x]
  BY <1>1
<1>3. Logger \in Procs /\ Logger \notin Attempts /\ \A b \in Attempts : wire'[b] \in Flights
  BY <1>1, DrainFacts, LoggerAssumption
<1>4. Delivered' = Delivered
  BY <1>1 DEF Delivered
<1>5. QED
  BY <1>1, <1>2, <1>3, <1>4, ProcOut

LEMMA FindQueuedOut ==
  ASSUME DrainInv, OutInv, NEW p \in Procs, FindQueued(p)
  PROVE  OutInv' /\ OutStep
<1>1. PICK x \in Proc : x.ops = proc[p].ops /\ proc' = [proc EXCEPT ![p] = x]
  BY FindQueuedTodo
<1>2. call = None /\ UNCHANGED <<main, temp, call, wire, server>>
  BY DEF FindQueued
<1>3. Delivered' = Delivered
  BY <1>2 DEF Delivered
<1>4. \A a \in Attempts : wire'[a] \in Flights
  BY <1>2, DrainFacts
<1>5. p \in Attempts => x.ops \in Flights
  BY <1>1, DrainFacts
<1>6. QED
  BY <1>1, <1>2, <1>3, <1>4, <1>5, ProcOut

LEMMA EnvironmentOut ==
  ASSUME DrainInv, OutInv, (\E e \in Others : OtherClientPushes(e)) \/ Pull \/ UNCHANGED vars
  PROVE  OutInv' /\ OutStep
<1>1. UNCHANGED <<main, temp, call, proc, wire>>
  BY DEF OtherClientPushes, Pull, vars
<1>2. Delivered' = Delivered
  <2>1. ASSUME NEW e \in Others, server' = Append(server, e) PROVE Delivered' = Delivered
    <3>1. Range(server') = Range(server) \cup {e} /\ e \notin Ops
      BY <2>1, DrainFacts, RangeOfAppend
    <3>2. QED
      BY <3>1 DEF Delivered
  <2>2. UNCHANGED server => Delivered' = Delivered
    BY DEF Delivered
  <2>3. QED
    BY <2>1, <2>2 DEF OtherClientPushes, Pull, vars
<1>3. LiveQueue' = LiveQueue /\ load_file' = load_file
  BY <1>1 DEF LiveQueue, load_file
<1>4. CallEdits' /\ Flights' = Flights
  BY <1>1, <1>3 DEF OutInv, CallEdits, Flights
<1>5. QED
  BY <1>2, <1>3, <1>4, QueueStays

LEMMA OutInit == Init => OutInv /\ OrderOf(LiveQueue) = << >> /\ Delivered = {}
<1> SUFFICES ASSUME Init PROVE OutInv /\ OrderOf(LiveQueue) = << >> /\ Delivered = {}
  OBVIOUS
<1>1. /\ main = Absent /\ temp = Absent /\ call = None /\ server = << >>
      /\ \A a \in Attempts : proc[a].ops = << >> /\ wire[a] = << >>
  BY IdleFacts DEF Init, Procs
<1>2. LiveQueue = << >>
  BY <1>1, FilesAssumption DEF LiveQueue, load_file
<1>3. OrderOf(<< >>) = << >>
  BY DEF OrderOf
<1>4. Delivered = {}
  BY <1>1, EmptyIsOK DEF Delivered
<1>5. \A sent \in Flights : sent = << >>
  BY <1>1 DEF Flights
<1>6. \A sent \in Flights : Range(sent) = {}
  BY <1>5, EmptyIsOK
<1>7. QED
  BY <1>1, <1>2, <1>3, <1>4, <1>6 DEF OutInv, CallEdits

LEMMA OutboxStep ==
  ASSUME DrainInv, WorkInv, OutInv, [Next]_vars, ~ lost'
  PROVE  OutInv' /\ OutStep
<1>1. CASE StoreCall
  BY <1>1, FindQueuedOut, BeginCallOut, WriteTempOut, EndCallOut DEF StoreCall
<1>2. CASE Commands
  BY <1>2, CommandsOut
<1>3. CASE \E a \in Attempts : Attempt(a)
  BY <1>3, PlanOut, HandlePushOut, DenyPushOut, AttemptOut
<1>4. CASE \E op \in Ops : BecomeDue(op)
  BY <1>4, BecomeDueOut
<1>5. CASE (\E e \in Others : OtherClientPushes(e)) \/ Pull \/ UNCHANGED vars
  BY <1>5, EnvironmentOut
<1>6. CASE Crash
  BY <1>6, CrashOut
<1>7. QED
  BY <1>1, <1>2, <1>3, <1>4, <1>5, <1>6 DEF Next

\* Until a call takes the queue for an empty one, the drain implements the outbox:
\* whatever is sent twice, given up, denied or cut short by a death of the app, by
\* however many overlapping attempts, the queue only grows at its end, and the server
\* receives it first in, first out (enqueue_input, ready_event_batch, push_events,
\* write_json_atomically and recover_or_initialize).
THEOREM DrainImplementsOutbox == Spec => ImplementsOutbox
<1> DEFINE Inv == DrainInv /\ ListedInv /\ (lost \/ (WorkInv /\ OutInv))
<1>1. Init => Inv
  BY DrainInvInit, ListedInit, WorkInit, OutInit
<1>2. Inv /\ [Next]_vars => Inv'
  BY DrainInvStep, ListedStep, LostStays, WorkStep, OutboxStep
<1>3. Init => Out!Init
  BY OutInit DEF Out!Init
<1>4. Inv /\ [Next]_vars => [lost' \/ Out!Next]_<<OrderOf(LiveQueue), Delivered>>
  BY LostStays, OutboxStep DEF OutStep
<1>5. QED
  BY <1>1, <1>2, <1>3, <1>4, PTL DEF Spec, ImplementsOutbox
=============================================================================
