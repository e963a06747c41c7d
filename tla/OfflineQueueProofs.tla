------------------------- MODULE OfflineQueueProofs -------------------------
(***************************************************************************)
(* Lemmas about the queue of OfflineQueue, for any set of operations: what *)
(* a batch may hold, what an edit keeps, and how a loop over a sequence    *)
(* ends.  Both drains rest on them.                                        *)
(***************************************************************************)
EXTENDS OfflineQueue, FiniteSetTheorems, SequenceTheorems, WellFoundedInduction, TLAPS

-----------------------------------------------------------------------------
(***************************************************************************)
(* Loops over a sequence.                                                  *)
(***************************************************************************)

\* What holds before the first turn, and after a turn if it did before, holds
\* after every turn.
LEMMA EveryTurn ==
  ASSUME NEW N \in Nat, NEW P, P \subseteq 0..N, 0 \in P, \A n \in 1..N : n - 1 \in P => n \in P
  PROVE  P = 0..N
<1> DEFINE Below == {ss \in Nat \X Nat : ss[1] < ss[2]}
           T == 0..N \ P
<1>1. IsWellFoundedOn(Below, Nat)
  BY NatLessThanWellFounded DEF OpToRel
<1>2. SUFFICES ASSUME T # {} PROVE FALSE
  OBVIOUS
<1>3. T \subseteq Nat
  OBVIOUS
<1>4. \E x \in T : \A y \in T : ~ (<<y, x>> \in Below)
  <2> HIDE DEF Below, T
  <2>1. QED
    BY <1>1, <1>2, <1>3, WFMin
<1>5. PICK n \in T : \A k \in T : ~ (<<k, n>> \in Below)
  BY <1>4
<1>6. n \in 1..N /\ n - 1 \in Nat
  OBVIOUS
<1>7. n - 1 \notin T
  <2>1. <<n - 1, n>> \in Below
    BY <1>6
  <2> HIDE DEF Below, T
  <2>2. QED
    BY <1>5, <2>1
<1>8. QED
  BY <1>6, <1>7

\* A non-empty set of positions has a first one.
LEMMA FirstPosition ==
  ASSUME NEW N \in Nat, NEW P, P \subseteq 1..N, P # {}
  PROVE  \E i \in P : \A j \in P : i <= j
<1> DEFINE Q == {n \in 0..N : \A j \in P : n < j}
<1>1. SUFFICES ASSUME \A i \in P : \E j \in P : j < i PROVE FALSE
  OBVIOUS
<1>2. 0 \in Q
  OBVIOUS
<1>3. \A n \in 1..N : n - 1 \in Q => n \in Q
  <2> SUFFICES ASSUME NEW n \in 1..N, n - 1 \in Q PROVE \A j \in P : n < j
    OBVIOUS
  <2>1. \A j \in P : n <= j
    OBVIOUS
  <2>2. n \notin P
    BY <1>1, <2>1
  <2>3. QED
    BY <2>1, <2>2
<1>4. Q = 0..N
  <2> HIDE DEF Q
  <2>1. Q \subseteq 0..N
    BY DEF Q
  <2>2. QED
    BY <1>2, <1>3, <2>1, EveryTurn
<1>5. N \in 0..N
  OBVIOUS
<1>6. N \in Q
  BY <1>4, <1>5
<1>7. PICK i \in P : TRUE
  OBVIOUS
<1>8. N < i /\ i <= N
  BY <1>6, <1>7
<1>9. QED
  BY <1>8

\* A loop whose turns stay in S has a value after each turn.
Loops(S, N, base, turn) ==
  {h \in [0..N -> S] : h[0] = base /\ \A n \in 1..N : h[n] = turn[n][h[n - 1]]}

LEMMA LoopIsDefined ==
  ASSUME NEW S, NEW N \in Nat, NEW base \in S, NEW turn \in [1..N -> [S -> S]]
  PROVE  Loops(S, N, base, turn) # {}
<1> DEFINE Good(m, h) == h[0] = base /\ \A n \in 1..m : h[n] = turn[n][h[n - 1]]
           P == {m \in 0..N : \E h \in [0..N -> S] : Good(m, h)}
<1>1. 0 \in P
  <2>1. PICK h : h = [n \in 0..N |-> base]
    OBVIOUS
  <2>2. h \in [0..N -> S] /\ h[0] = base
    BY <2>1
  <2>3. Good(0, h)
    BY <2>2
  <2>4. 0 \in 0..N
    OBVIOUS
  <2> HIDE DEF Good
  <2>5. QED
    BY <2>2, <2>3, <2>4
<1>2. \A m \in 1..N : m - 1 \in P => m \in P
  <2> SUFFICES ASSUME NEW m \in 1..N, \E h \in [0..N -> S] : Good(m - 1, h)
               PROVE  \E h \in [0..N -> S] : Good(m, h)
    <3>1. \A m \in 1..N : m \in 0..N
      OBVIOUS
    <3> HIDE DEF Good
    <3>2. QED
      BY <3>1
  <2>1. PICK h \in [0..N -> S] : Good(m - 1, h)
    OBVIOUS
  <2>2. m - 1 \in 0..N /\ h[m - 1] \in S
    OBVIOUS
  <2>3. turn[m][h[m - 1]] \in S
    BY <2>2
  <2>4. PICK g : g = [h EXCEPT ![m] = turn[m][h[m - 1]]]
    OBVIOUS
  <2>5. g \in [0..N -> S]
    BY <2>3, <2>4
  <2>6. \A n \in 0..N : g[n] = IF n = m THEN turn[m][h[m - 1]] ELSE h[n]
    BY <2>4
  <2>7. Good(m, g)
    <3>1. g[0] = base
      BY <2>1, <2>6
    <3>2. ASSUME NEW n \in 1..m PROVE g[n] = turn[n][g[n - 1]]
      <4>1. n - 1 \in 0..N /\ n - 1 # m /\ g[n - 1] = h[n - 1]
        BY <2>6
      <4>2. CASE n = m
        BY <2>6, <4>1, <4>2
      <4>3. CASE n # m
        <5>1. n \in 1..(m - 1) /\ n \in 0..N
          BY <4>3
        <5>2. g[n] = h[n] /\ h[n] = turn[n][h[n - 1]]
          BY <2>1, <2>6, <4>3, <5>1
        <5>3. QED
          BY <4>1, <5>2
      <4>4. QED
        BY <4>2, <4>3
    <3>3. QED
      BY <3>1, <3>2
  <2>8. QED
    BY <2>5, <2>7
<1>3. P = 0..N
  <2> HIDE DEF P
  <2>1. P \subseteq 0..N
    BY DEF P
  <2>2. QED
    BY <1>1, <1>2, <2>1, EveryTurn
<1>4. N \in 0..N
  OBVIOUS
<1>5. N \in P
  BY <1>3, <1>4
<1>6. QED
  BY <1>5 DEF Loops

-----------------------------------------------------------------------------
(***************************************************************************)
(* The batch of a plan.                                                    *)
(***************************************************************************)

\* r holds, in their order, the entries up to the n-th that are not accepted.
Collected(q, n, r) ==
  /\ \A i \in 1..n : q[i].status = "accepted" \/ \E m \in 1..Len(r) : r[m] = q[i]
  /\ \A k \in 1..Len(r) : \E j \in 1..n :
       /\ r[k] = q[j] /\ q[j].status # "accepted"
       /\ \A i \in 1..(j - 1) : q[i].status = "accepted" \/ \E m \in 1..(k - 1) : r[m] = q[i]

LEMMA CollectOne ==
  ASSUME NEW q \in Seq(QueueEntry), NEW n \in 1..Len(q), NEW r \in Seq(QueueEntry), Collected(q, n - 1, r)
  PROVE  Collected(q, n, IF q[n].status = "accepted" THEN r ELSE Append(r, q[n]))
<1>1. Len(r) \in Nat /\ Len(q) \in Nat /\ q[n] \in QueueEntry
  BY LenProperties, ElementOfSeq
<1>2. CASE q[n].status = "accepted"
  <2>1. \A i \in 1..n : i = n \/ i \in 1..(n - 1)
    OBVIOUS
  <2>2. \A i \in 1..n : q[i].status = "accepted" \/ \E m \in 1..Len(r) : r[m] = q[i]
    BY <1>2, <2>1 DEF Collected
  <2>3. 1..(n - 1) \subseteq 1..n
    OBVIOUS
  <2>4. \A k \in 1..Len(r) : \E j \in 1..n :
          /\ r[k] = q[j] /\ q[j].status # "accepted"
          /\ \A i \in 1..(j - 1) : q[i].status = "accepted" \/ \E m \in 1..(k - 1) : r[m] = q[i]
    BY <2>3 DEF Collected
  <2>5. Collected(q, n, r)
    BY <2>2, <2>4 DEF Collected
  <2>6. QED
    BY <1>2, <2>5
<1>3. CASE q[n].status # "accepted"
  <2>1. PICK s : s = Append(r, q[n])
    OBVIOUS
  <2>2. Len(s) = Len(r) + 1 /\ s[Len(r) + 1] = q[n] /\ \A k \in 1..Len(r) : s[k] = r[k]
    BY <1>1, <2>1, AppendProperties
  <2>3. \A i \in 1..(n - 1) : q[i].status = "accepted" \/ \E m \in 1..Len(r) : s[m] = q[i]
    BY <2>2 DEF Collected
  <2>4. ASSUME NEW k \in 1..Len(r)
        PROVE  \E j \in 1..n :
                 /\ s[k] = q[j] /\ q[j].status # "accepted"
                 /\ \A i \in 1..(j - 1) : q[i].status = "accepted" \/ \E m \in 1..(k - 1) : s[m] = q[i]
    <3>1. PICK j \in 1..(n - 1) :
            /\ r[k] = q[j] /\ q[j].status # "accepted"
            /\ \A i \in 1..(j - 1) : q[i].status = "accepted" \/ \E m \in 1..(k - 1) : r[m] = q[i]
      BY DEF Collected
    <3>2. \A m \in 1..(k - 1) : s[m] = r[m]
      BY <1>1, <2>2
    <3>3. j \in 1..n /\ s[k] = q[j] /\ q[j].status # "accepted"
      BY <2>2, <3>1
    <3>4. QED
      BY <3>1, <3>2, <3>3
  <2>5. \A i \in 1..n : q[i].status = "accepted" \/ \E m \in 1..Len(s) : s[m] = q[i]
    <3>1. \A i \in 1..n : i = n \/ i \in 1..(n - 1)
      OBVIOUS
    <3>2. Len(r) + 1 \in 1..Len(s) /\ 1..Len(r) \subseteq 1..Len(s)
      BY <1>1, <2>2
    <3>3. QED
      BY <2>2, <2>3, <3>1, <3>2
  <2>6. \A k \in 1..Len(s) : \E j \in 1..n :
          /\ s[k] = q[j] /\ q[j].status # "accepted"
          /\ \A i \in 1..(j - 1) : q[i].status = "accepted" \/ \E m \in 1..(k - 1) : s[m] = q[i]
    <3>1. \A k \in 1..Len(s) : k = Len(r) + 1 \/ k \in 1..Len(r)
      BY <1>1, <2>2
    <3>2. ASSUME NEW k, k = Len(r) + 1
          PROVE  /\ s[k] = q[n]
                 /\ \A i \in 1..(n - 1) : q[i].status = "accepted" \/ \E m \in 1..(k - 1) : s[m] = q[i]
      <4>1. k - 1 = Len(r)
        BY <1>1, <3>2
      <4>2. QED
        BY <2>2, <2>3, <3>2, <4>1
    <3>3. n \in 1..n
      BY <1>1
    <3>4. QED
      BY <1>3, <2>4, <3>1, <3>2, <3>3
  <2>7. Collected(q, n, s)
    BY <2>5, <2>6 DEF Collected
  <2>8. QED
    BY <1>3, <2>1, <2>7
<1>4. QED
  BY <1>2, <1>3

LEMMA ReadyIsCollected ==
  ASSUME NEW q \in Seq(QueueEntry)
  PROVE  /\ ready_mutations(q) \in Seq(QueueEntry)
         /\ \E n \in 0..Len(q) :
              /\ Collected(q, n, ready_mutations(q))
              /\ \A i \in 1..n : q[i].status = "accepted" \/ is_ready(q[i])
<1> DEFINE Stops == {i \in 1..Len(q) : q[i].status # "accepted" /\ ~ is_ready(q[i])}
           last == IF Stops = {} THEN Len(q) ELSE (CHOOSE i \in Stops : \A j \in Stops : i <= j) - 1
           After(h) == h = [n \in 0..last |-> IF n = 0 THEN << >>
                                              ELSE IF q[n].status = "accepted" THEN h[n - 1]
                                              ELSE Append(h[n - 1], q[n])]
<1>1. Len(q) \in Nat /\ \A i \in 1..Len(q) : q[i] \in QueueEntry
  BY LenProperties, ElementOfSeq
<1>2. last \in 0..Len(q)
  <2>1. CASE Stops = {}
    BY <1>1, <2>1
  <2>2. CASE Stops # {}
    <3>1. Stops \subseteq 1..Len(q)
      OBVIOUS
    <3> HIDE DEF Stops
    <3>2. \E i \in Stops : \A j \in Stops : i <= j
      BY <1>1, <2>2, <3>1, FirstPosition
    <3>3. (CHOOSE i \in Stops : \A j \in Stops : i <= j) \in 1..Len(q)
      BY <3>1, <3>2
    <3>4. QED
      BY <1>1, <2>2, <3>3
  <2>3. QED
    BY <2>1, <2>2
<1>0. \A i \in 1..last : q[i].status = "accepted" \/ is_ready(q[i])
  <2>1. CASE Stops = {}
    BY <1>1, <2>1
  <2>2. CASE Stops # {}
    <3>1. Stops \subseteq 1..Len(q)
      OBVIOUS
    <3> HIDE DEF Stops
    <3>2. \E i \in Stops : \A j \in Stops : i <= j
      BY <1>1, <2>2, <3>1, FirstPosition
    <3>3. PICK first : first = CHOOSE i \in Stops : \A j \in Stops : i <= j
      OBVIOUS
    <3>4. first \in Stops /\ \A j \in Stops : first <= j
      BY <3>2, <3>3
    <3>5. last = first - 1 /\ first \in 1..Len(q)
      BY <2>2, <3>1, <3>3, <3>4
    <3>6. \A i \in 1..last : i \in 1..Len(q) /\ i \notin Stops
      BY <1>1, <3>1, <3>4, <3>5
    <3>7. QED
      BY <3>6 DEF Stops
  <2>3. QED
    BY <2>1, <2>2
<1>3. ready_mutations(q) = (CHOOSE h : After(h))[last]
  BY DEF ready_mutations
<1> HIDE DEF Stops, last
<1>4. \A h : After(h) <=> h = [n \in 0..last |-> IF n = 0 THEN << >>
                                                  ELSE IF q[n].status = "accepted" THEN h[n - 1]
                                                  ELSE Append(h[n - 1], q[n])]
  OBVIOUS
<1> HIDE DEF After
<1>5. \E h \in [0..last -> Seq(QueueEntry)] : After(h)
  <2>1. PICK turn : turn = [n \in 1..last |-> [r \in Seq(QueueEntry) |->
                                IF q[n].status = "accepted" THEN r ELSE Append(r, q[n])]]
    OBVIOUS
  <2>2. \A n \in 1..last, r \in Seq(QueueEntry) : Append(r, q[n]) \in Seq(QueueEntry)
    BY <1>1, <1>2, AppendProperties
  <2>3. turn \in [1..last -> [Seq(QueueEntry) -> Seq(QueueEntry)]]
    BY <2>1, <2>2
  <2>4. << >> \in Seq(QueueEntry) /\ last \in Nat
    BY <1>1, <1>2
  <2>5. PICK h \in [0..last -> Seq(QueueEntry)] :
          h[0] = << >> /\ \A n \in 1..last : h[n] = turn[n][h[n - 1]]
    <3>1. Loops(Seq(QueueEntry), last, << >>, turn) # {}
      BY <2>3, <2>4, LoopIsDefined
    <3>2. QED
      BY <3>1 DEF Loops
  <2>6. ASSUME NEW n \in 0..last
        PROVE  h[n] = IF n = 0 THEN << >> ELSE IF q[n].status = "accepted" THEN h[n - 1]
                      ELSE Append(h[n - 1], q[n])
    <3>1. CASE n = 0
      BY <2>5, <3>1
    <3>2. CASE n # 0
      <4>1. n \in 1..last /\ n - 1 \in 0..last
        BY <2>4, <3>2
      <4>2. h[n - 1] \in Seq(QueueEntry)
        BY <4>1
      <4>3. h[n] = turn[n][h[n - 1]]
        BY <2>5, <4>1
      <4>4. turn[n][h[n - 1]] = IF q[n].status = "accepted" THEN h[n - 1] ELSE Append(h[n - 1], q[n])
        BY <2>1, <4>1, <4>2
      <4>5. QED
        BY <3>2, <4>3, <4>4
    <3>3. QED
      BY <3>1, <3>2
  <2>7. After(h)
    BY <1>4, <2>6
  <2>8. QED
    BY <2>7
<1>6. PICK h : h = CHOOSE g : After(g)
  OBVIOUS
<1>7. After(h)
  BY <1>5, <1>6
<1>8. \A n \in 0..last : h[n] = IF n = 0 THEN << >> ELSE IF q[n].status = "accepted" THEN h[n - 1]
                               ELSE Append(h[n - 1], q[n])
  BY <1>4, <1>7
<1>9. last \in Nat
  BY <1>1, <1>2
<1> DEFINE P == {n \in 0..last : h[n] \in Seq(QueueEntry) /\ Collected(q, n, h[n])}
<1>10. 0 \in P
  <2>1. h[0] = << >> /\ 0 \in 0..last
    BY <1>8, <1>9
  <2>2. << >> \in Seq(QueueEntry) /\ Len(<< >>) = 0
    OBVIOUS
  <2>3. Collected(q, 0, << >>)
    BY <2>2 DEF Collected
  <2>4. QED
    BY <2>1, <2>2, <2>3
<1>11. \A n \in 1..last : n - 1 \in P => n \in P
  <2> SUFFICES ASSUME NEW n \in 1..last, h[n - 1] \in Seq(QueueEntry), Collected(q, n - 1, h[n - 1])
               PROVE  h[n] \in Seq(QueueEntry) /\ Collected(q, n, h[n])
    <3>1. \A n \in 1..last : n \in 0..last
      BY <1>9
    <3>2. QED
      BY <3>1
  <2>1. n \in 1..Len(q) /\ n \in 0..last /\ n # 0
    BY <1>1, <1>2, <1>9
  <2>2. PICK r : r = h[n - 1]
    OBVIOUS
  <2>3. h[n] = IF q[n].status = "accepted" THEN r ELSE Append(r, q[n])
    BY <1>8, <2>1, <2>2
  <2>4. Collected(q, n, h[n])
    BY <2>1, <2>2, <2>3, CollectOne
  <2>5. h[n] \in Seq(QueueEntry)
    BY <1>1, <2>1, <2>2, <2>3, AppendProperties
  <2>6. QED
    BY <2>4, <2>5
<1>12. P = 0..last
  <2>1. P \subseteq 0..last
    OBVIOUS
  <2> HIDE DEF P
  <2>2. QED
    BY <1>9, <1>10, <1>11, <2>1, EveryTurn
<1>13. last \in P
  BY <1>9, <1>12
<1>14. ready_mutations(q) = h[last]
  BY <1>3, <1>6
<1>15. QED
  BY <1>0, <1>2, <1>13, <1>14

\* A batch is of known, complete operations that are ready, and passes only
\* accepted ones.
Planned(q, known, batch) ==
  /\ batch.ops \in Seq(Ops) /\ batch.missing \subseteq Ops
  /\ \A k \in 1..Len(batch.ops) :
       /\ batch.ops[k] \in known
       /\ \E j \in 1..Len(q) :
            /\ q[j].op = batch.ops[k] /\ q[j].linked /\ is_ready(q[j])
            /\ \A i \in 1..(j - 1) :
                 q[i].status = "accepted" \/ \E m \in 1..(k - 1) : batch.ops[m] = q[i].op

LEMMA BatchFollows ==
  ASSUME NEW q \in Seq(QueueEntry), NEW known, NEW batch, batch = ready_event_batch(q, known)
  PROVE  Planned(q, known, batch)
<1>1. PICK ready : ready = ready_mutations(q)
  OBVIOUS
<1>2. PICK n \in 0..Len(q) :
        Collected(q, n, ready) /\ \A i \in 1..n : q[i].status = "accepted" \/ is_ready(q[i])
  BY <1>1, ReadyIsCollected
<1>3. /\ ready \in Seq(QueueEntry) /\ Len(ready) \in Nat /\ Len(q) \in Nat
      /\ \A i \in 1..Len(ready) : ready[i] \in QueueEntry
  BY <1>1, ReadyIsCollected, LenProperties, ElementOfSeq
<1> DEFINE Missing == {i \in 1..Len(ready) : ~ (ready[i].linked /\ ready[i].op \in known)}
           first == CHOOSE i \in Missing : \A j \in Missing : i <= j
           sent == IF Missing = {} THEN ready ELSE SubSeq(ready, 1, first - 1)
<1>5. batch = [ops |-> [i \in 1..Len(sent) |-> sent[i].op],
               missing |-> IF Missing = {} THEN {} ELSE {ready[first].op}]
  BY <1>1 DEF ready_event_batch
<1>6. Missing # {} => first \in Missing /\ \A j \in Missing : first <= j
  <2>1. Missing \subseteq 1..Len(ready)
    OBVIOUS
  <2> HIDE DEF Missing
  <2>2. Missing # {} => \E i \in Missing : \A j \in Missing : i <= j
    BY <1>3, <2>1, FirstPosition
  <2>3. QED
    BY <2>2
<1> HIDE DEF first
<1>7. /\ Len(sent) \in 0..Len(ready)
      /\ \A k \in 1..Len(sent) : sent[k] = ready[k] /\ ready[k].linked /\ ready[k].op \in known
  <2>1. CASE Missing = {}
    BY <1>3, <2>1
  <2>2. CASE Missing # {}
    <3>1. first \in 1..Len(ready)
      BY <1>6, <2>2
    <3>2. \A k \in 1..(first - 1) : k \in 1..Len(ready) /\ k \notin Missing
      BY <1>3, <1>6, <2>2, <3>1
    <3>3. \A i \in 1..(first - 1) : ready[i] \in QueueEntry
      BY <1>3, <3>2
    <3>4. 1 \in Int /\ first - 1 \in Int /\ first - 1 \in 0..Len(ready)
      BY <1>3, <3>1
    <3>5. /\ Len(SubSeq(ready, 1, first - 1)) = first - 1
          /\ \A k \in 1..(first - 1) : SubSeq(ready, 1, first - 1)[k] = ready[k]
      BY <3>3, <3>4, SubSeqProperties
    <3>6. sent = SubSeq(ready, 1, first - 1)
      BY <2>2
    <3>7. \A k \in 1..(first - 1) : ready[k].linked /\ ready[k].op \in known
      BY <3>2
    <3> HIDE DEF sent
    <3>8. QED
      BY <3>4, <3>5, <3>6, <3>7
  <2>3. QED
    BY <2>1, <2>2
<1> HIDE DEF sent
<1>8. Len(sent) \in Nat /\ \A k \in 1..Len(sent) : k \in 1..Len(ready)
  BY <1>3, <1>7
<1>9. batch.ops = [i \in 1..Len(sent) |-> sent[i].op]
  BY <1>5
<1>10. /\ batch.ops \in Seq(Ops) /\ Len(batch.ops) = Len(sent)
       /\ \A k \in 1..Len(sent) : batch.ops[k] = ready[k].op
  <2>1. \A k \in 1..Len(sent) : sent[k].op \in Ops
    BY <1>3, <1>7, <1>8 DEF QueueEntry
  <2>2. batch.ops \in [1..Len(sent) -> Ops]
    BY <1>9, <2>1
  <2>3. \A S, m, f : m \in Nat /\ f \in [1..m -> S] => f \in Seq(S) /\ Len(f) = m
    OBVIOUS
  <2>4. batch.ops \in Seq(Ops) /\ Len(batch.ops) = Len(sent)
    BY <1>8, <2>2, <2>3
  <2>5. QED
    BY <1>7, <1>9, <2>4
<1>11. batch.missing \subseteq Ops
  <2>1. Missing # {} => ready[first].op \in Ops
    BY <1>3, <1>6 DEF QueueEntry
  <2>2. QED
    BY <1>5, <2>1
<1>12. ASSUME NEW k \in 1..Len(batch.ops)
       PROVE  \E j \in 1..Len(q) :
                /\ q[j].op = batch.ops[k] /\ q[j].linked /\ is_ready(q[j])
                /\ \A i \in 1..(j - 1) :
                     q[i].status = "accepted" \/ \E m \in 1..(k - 1) : batch.ops[m] = q[i].op
  <2>1. k \in 1..Len(ready) /\ k \in 1..Len(sent)
    BY <1>8, <1>10
  <2>2. PICK j \in 1..n :
          /\ ready[k] = q[j] /\ q[j].status # "accepted"
          /\ \A i \in 1..(j - 1) : q[i].status = "accepted" \/ \E m \in 1..(k - 1) : ready[m] = q[i]
    BY <1>2, <2>1 DEF Collected
  <2>3. j \in 1..Len(q)
    BY <1>3, <2>2
  <2>4. \A m \in 1..(k - 1) : m \in 1..Len(sent) /\ batch.ops[m] = ready[m].op
    BY <1>8, <1>10, <2>1
  <2>5. \A i \in 1..(j - 1) : q[i].status = "accepted" \/ \E m \in 1..(k - 1) : batch.ops[m] = q[i].op
    BY <2>2, <2>4
  <2>6. is_ready(q[j])
    BY <1>2, <2>2
  <2>7. QED
    BY <1>7, <1>10, <2>1, <2>2, <2>3, <2>5, <2>6
<1>13. \A k \in 1..Len(batch.ops) : batch.ops[k] \in known
  BY <1>7, <1>10
<1>14. QED
  BY <1>10, <1>11, <1>12, <1>13 DEF Planned

-----------------------------------------------------------------------------
(***************************************************************************)
(* The edits of the queue.                                                 *)
(***************************************************************************)

LEMMA EditOfEntry ==
  ASSUME NEW e \in QueueEntry, NEW kind \in Kinds \ {"enqueue"}
  PROVE  /\ EditEntry(kind, e) \in QueueEntry /\ EditEntry(kind, e).op = e.op
         /\ e.linked \/ kind = "attach" <=> EditEntry(kind, e).linked
         /\ EditEntry(kind, e).status = "accepted" => e.status = "accepted" \/ kind \in {"accepted", "support"}
         /\ EditEntry(kind, e).status = "blocked" => e.status = "blocked" \/ kind = "blocked"
<1>1. /\ e = [op |-> e.op, status |-> e.status, attempts |-> e.attempts, linked |-> e.linked, due |-> e.due]
      /\ e.op \in Ops /\ e.status \in QueueStatuses /\ e.attempts \in Nat
      /\ e.linked \in BOOLEAN /\ e.due \in BOOLEAN
  BY DEF QueueEntry
<1>2. CASE kind = "attach"
  BY <1>1, <1>2 DEF EditEntry, attach_local_event, QueueEntry, QueueStatuses, Held, Draining
<1> DEFINE Fine(r) == /\ r \in QueueEntry /\ r.op = e.op
                      /\ e.linked \/ kind = "attach" <=> r.linked
                      /\ r.status = "accepted" => e.status = "accepted" \/ kind \in {"accepted", "support"}
                      /\ r.status = "blocked" => e.status = "blocked" \/ kind = "blocked"
<1>0. ASSUME kind # "attach", NEW s \in QueueStatuses \ {"accepted", "blocked"}, NEW n \in Nat, NEW d \in BOOLEAN
      PROVE  Fine([op |-> e.op, status |-> s, attempts |-> n, linked |-> e.linked, due |-> d])
  <2>1. PICK r : r = [op |-> e.op, status |-> s, attempts |-> n, linked |-> e.linked, due |-> d]
    OBVIOUS
  <2>2. r \in QueueEntry /\ r.op = e.op /\ r.linked = e.linked /\ r.status = s
    BY <1>1, <2>1 DEF QueueEntry
  <2>3. e.linked \/ kind = "attach" <=> r.linked
    BY <1>0, <2>2, Zenon
  <2>4. Fine(r)
    BY <2>2, <2>3
  <2>5. QED
    BY <2>1, <2>4
<1>3. CASE kind = "sending"
  <2>1. EditEntry(kind, e) = [e EXCEPT !.status = "sending", !.attempts = e.attempts + 1, !.due = TRUE]
    BY <1>3 DEF EditEntry, mark_sending
  <2>2. EditEntry(kind, e) = [op |-> e.op, status |-> "sending", attempts |-> e.attempts + 1,
                              linked |-> e.linked, due |-> TRUE]
    BY <1>1, <2>1
  <2>3. e.attempts + 1 \in Nat /\ "sending" \in QueueStatuses \ {"accepted", "blocked"}
    BY <1>1 DEF QueueStatuses
  <2> HIDE DEF Fine
  <2>4. Fine(EditEntry(kind, e))
    BY <1>0, <1>3, <2>2, <2>3
  <2>5. QED
    BY <2>4 DEF Fine
<1>4. CASE kind = "transient"
  <2>1. \/ EditEntry(kind, e) = [e EXCEPT !.status = "failed", !.due = TRUE]
        \/ EditEntry(kind, e) = [e EXCEPT !.status = "retrying", !.due = FALSE]
    BY <1>4 DEF EditEntry, record_transient_failure
  <2>2. \/ EditEntry(kind, e) = [op |-> e.op, status |-> "failed", attempts |-> e.attempts,
                                 linked |-> e.linked, due |-> TRUE]
        \/ EditEntry(kind, e) = [op |-> e.op, status |-> "retrying", attempts |-> e.attempts,
                                 linked |-> e.linked, due |-> FALSE]
    BY <1>1, <2>1
  <2>3. {"failed", "retrying"} \subseteq QueueStatuses \ {"accepted", "blocked"}
    BY DEF QueueStatuses, Held, Draining
  <2> HIDE DEF Fine
  <2>4. Fine(EditEntry(kind, e))
    BY <1>0, <1>1, <1>4, <2>2, <2>3
  <2>5. QED
    BY <2>4 DEF Fine
<1>5. CASE kind = "blocked"
  BY <1>1, <1>5 DEF EditEntry, mark_blocked, QueueEntry, QueueStatuses, Held
<1>6. CASE kind = "user_action"
  BY <1>1, <1>6 DEF EditEntry, mark_user_action_required, QueueEntry, QueueStatuses, Held
<1>7. CASE kind = "accepted"
  <2>1. CASE e.linked
    <3>1. EditEntry(kind, e) = [e EXCEPT !.status = "accepted", !.due = TRUE]
      BY <1>7, <2>1 DEF EditEntry, mark_accepted_by_event_hash, mark_accepted
    <3>2. QED
      BY <1>1, <1>7, <3>1 DEF QueueEntry, QueueStatuses
  <2>2. CASE ~ e.linked
    <3>1. EditEntry(kind, e) = e
      BY <1>7, <2>2 DEF EditEntry, mark_accepted_by_event_hash
    <3>2. QED
      BY <1>7, <2>2, <3>1
  <2>3. QED
    BY <2>1, <2>2
<1>8. CASE kind = "support"
  BY <1>1, <1>8 DEF EditEntry, mark_accepted, QueueEntry, QueueStatuses
<1>9. CASE kind = "recover"
  BY <1>1, <1>9 DEF EditEntry, recover_interrupted_write, QueueEntry, QueueStatuses, Draining
<1>10. QED
  BY <1>2, <1>3, <1>4, <1>5, <1>6, <1>7, <1>8, <1>9 DEF Kinds

\* An edit in place changes no operation and detaches no event.
LEMMA EditInPlace ==
  ASSUME NEW q \in Seq(QueueEntry), NEW kind \in Kinds \ {"enqueue"}, NEW ops, NEW r,
         r = update_mutation(q, kind, ops)
  PROVE  /\ r \in Seq(QueueEntry) /\ Len(r) = Len(q)
         /\ \A i \in 1..Len(q) :
              /\ r[i].op = q[i].op
              /\ q[i].linked \/ (kind = "attach" /\ q[i].op \in ops) <=> r[i].linked
              /\ r[i].status = "accepted" =>
                   q[i].status = "accepted" \/ (kind \in {"accepted", "support"} /\ q[i].op \in ops)
              /\ r[i].status = "blocked" => q[i].status = "blocked" \/ (kind = "blocked" /\ q[i].op \in ops)
<1>1. Len(q) \in Nat /\ \A i \in 1..Len(q) : q[i] \in QueueEntry
  BY LenProperties, ElementOfSeq
<1>2. r = [i \in 1..Len(q) |-> IF q[i].op \in ops THEN EditEntry(kind, q[i]) ELSE q[i]]
  BY DEF update_mutation
<1>3. r \in [1..Len(q) -> QueueEntry]
  BY <1>1, <1>2, EditOfEntry
<1>4. \A S, m, f : m \in Nat /\ f \in [1..m -> S] => f \in Seq(S) /\ Len(f) = m
  OBVIOUS
<1>5. r \in Seq(QueueEntry) /\ Len(r) = Len(q)
  BY <1>1, <1>3, <1>4
<1>6. ASSUME NEW i \in 1..Len(q)
      PROVE  /\ r[i].op = q[i].op
             /\ q[i].linked \/ (kind = "attach" /\ q[i].op \in ops) <=> r[i].linked
             /\ r[i].status = "accepted" =>
                  q[i].status = "accepted" \/ (kind \in {"accepted", "support"} /\ q[i].op \in ops)
             /\ r[i].status = "blocked" => q[i].status = "blocked" \/ (kind = "blocked" /\ q[i].op \in ops)
  <2>1. CASE q[i].op \in ops
    <3>1. r[i] = EditEntry(kind, q[i])
      BY <1>2, <2>1
    <3>2. QED
      BY <1>1, <2>1, <3>1, EditOfEntry
  <2>2. CASE q[i].op \notin ops
    <3>1. r[i] = q[i]
      BY <1>2, <2>2
    <3>2. QED
      BY <2>2, <3>1
  <2>3. QED
    BY <2>1, <2>2
<1>7. QED
  BY <1>5, <1>6

\* A new operation comes last.
LEMMA EnqueueLast ==
  ASSUME NEW q \in Seq(QueueEntry), NEW op \in Ops, op \notin OpsOf(q), NEW r, r = enqueue_input(q, op)
  PROVE  /\ r \in Seq(QueueEntry) /\ Len(r) = Len(q) + 1
         /\ r[Len(r)].op = op /\ r[Len(r)].status = "pending" /\ ~ r[Len(r)].linked
         /\ \A i \in 1..Len(q) : r[i] = q[i]
<1>1. PICK e : e = [op |-> op, status |-> "pending", attempts |-> 0, linked |-> FALSE, due |-> TRUE]
  OBVIOUS
<1>2. e \in QueueEntry /\ e.op = op /\ e.status = "pending" /\ ~ e.linked
  BY <1>1 DEF QueueEntry, QueueStatuses, Draining
<1>3. r = Append(q, e)
  BY <1>1 DEF enqueue_input
<1>4. r \in Seq(QueueEntry) /\ Len(r) = Len(q) + 1 /\ \A i \in 1..Len(q) : r[i] = q[i]
  BY <1>2, <1>3, AppendProperties
<1>5. r[Len(q) + 1] = e
  BY <1>2, <1>3, AppendProperties
<1>6. QED
  BY <1>2, <1>4, <1>5

\* An operation has one entry.
Distinct(q) == \A i, j \in 1..Len(q) : q[i].op = q[j].op => i = j

\* One edit is made for each of the operations.
LEMMA EachIsMade ==
  ASSUME NEW kind \in Kinds, NEW ops \in Seq(Ops)
  PROVE  /\ Each(kind, ops) \in Seq(Edit) /\ Len(Each(kind, ops)) = Len(ops)
         /\ \A i \in 1..Len(ops) : /\ Each(kind, ops)[i] = [kind |-> kind, ops |-> {ops[i]}]
                                   /\ ops[i] \in Ops
<1>1. Len(ops) \in Nat /\ \A i \in 1..Len(ops) : ops[i] \in Ops
  BY LenProperties, ElementOfSeq
<1>2. PICK todo : todo = Each(kind, ops)
  OBVIOUS
<1>3. todo \in [1..Len(ops) -> Edit] /\ \A i \in 1..Len(ops) : todo[i] = [kind |-> kind, ops |-> {ops[i]}]
  BY <1>1, <1>2 DEF Each, Edit
<1>4. \A S, m, f : m \in Nat /\ f \in [1..m -> S] => f \in Seq(S) /\ Len(f) = m
  OBVIOUS
<1>5. todo \in Seq(Edit) /\ Len(todo) = Len(ops)
  BY <1>1, <1>3, <1>4
<1>6. QED
  BY <1>1, <1>2, <1>3, <1>5

\* A log holds what it held and what is appended.
LEMMA RangeOfAppend ==
  ASSUME NEW S, NEW s \in Seq(S), NEW e
  PROVE  Range(Append(s, e)) = Range(s) \cup {e}
<1>1. Len(s) \in Nat /\ DOMAIN s = 1..Len(s)
  BY LenProperties
<1>2. PICK r : r = Append(s, e)
  OBVIOUS
<1>3. /\ DOMAIN r = 1..(Len(s) + 1) /\ r[Len(s) + 1] = e
      /\ \A i \in 1..Len(s) : r[i] = s[i]
  BY <1>1, <1>2
<1>4. \A i \in 1..(Len(s) + 1) : i = Len(s) + 1 \/ i \in 1..Len(s)
  BY <1>1
<1>5. Len(s) + 1 \in 1..(Len(s) + 1) /\ 1..Len(s) \subseteq 1..(Len(s) + 1)
  BY <1>1
<1>6. Range(r) = Range(s) \cup {e}
  BY <1>1, <1>3, <1>4, <1>5 DEF Range
<1>7. QED
  BY <1>2, <1>6
=============================================================================
