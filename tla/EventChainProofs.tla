-------------------------- MODULE EventChainProofs --------------------------
(***************************************************************************)
(* Lemmas about chains of events, for every set of identities.             *)
(***************************************************************************)
EXTENDS EventChain, SequenceTheorems, WellFoundedInduction, TLAPS

\* calculate_hash and from_new produce hashes and events.
LEMMA HashType ==
  ASSUME NEW id \in EventIds, NEW p \in Hash
  PROVE  /\ calculate_hash(id, p) \in Hash
         /\ from_new(id, p) \in Event
         /\ hash_is_valid(from_new(id, p))
<1>1. calculate_hash(id, p) \in Hash
  BY AppendProperties DEF calculate_hash, Hash
<1>2. QED
  BY <1>1 DEF from_new, Event, hash_is_valid

\* The head of a sequence of events is a hash.
LEMMA HeadType ==
  ASSUME NEW s \in Seq(Event)
  PROVE  HeadOf(s) \in Hash
<1>1. CASE s = << >>
  BY <1>1, EmptySeq DEF HeadOf, NoHash, Hash
<1>2. CASE s # << >>
  <2>1. Len(s) \in 1..Len(s) /\ s[Len(s)] \in Event
    BY <1>2, LenProperties, ElementOfSeq, EmptySeq
  <2>2. QED
    BY <1>2, <2>1 DEF HeadOf, Event
<1>3. QED
  BY <1>1, <1>2

\* Appending an event that links to the head keeps the chain verified.
LEMMA ChainExtends ==
  ASSUME NEW s \in Seq(Event), NEW e \in Event,
         verify_chain(s, HeadOf(s)), hash_is_valid(e), e.prev = HeadOf(s)
  PROVE  verify_chain(Append(s, e), HeadOf(Append(s, e)))
<1> DEFINE t == Append(s, e)
<1>1. /\ Len(t) = Len(s) + 1
      /\ \A i \in 1..Len(s) : t[i] = s[i]
      /\ t[Len(s) + 1] = e
      /\ Len(s) \in Nat
  BY AppendProperties, LenProperties
<1>2. ASSUME NEW i \in 1..Len(t)
      PROVE  Linked(t, i)
  <2>1. CASE i \in 1..Len(s)
    <3>1. Linked(s, i)
      BY <2>1 DEF verify_chain
    <3>2. t[i] = s[i] /\ (i # 1 => t[i - 1] = s[i - 1])
      BY <2>1, <1>1
    <3>3. QED
      BY <3>1, <3>2 DEF Linked
  <2>2. CASE i = Len(s) + 1
    <3>1. t[i] = e
      BY <2>2, <1>1
    <3>2. CASE s = << >>
      BY <3>1, <3>2, <2>2, EmptySeq DEF Linked, HeadOf
    <3>3. CASE s # << >>
      <4>1. Len(s) \in 1..Len(s) /\ i # 1 /\ i - 1 = Len(s)
        BY <3>3, <2>2, <1>1, EmptySeq
      <4>2. t[i - 1].hash = HeadOf(s)
        BY <4>1, <1>1, <3>3 DEF HeadOf
      <4>3. QED
        BY <3>1, <4>1, <4>2 DEF Linked
    <3>4. QED
      BY <3>2, <3>3
  <2>3. QED
    BY <2>1, <2>2, <1>1
<1>3. QED
  BY <1>2 DEF verify_chain

\* Appending an event with a new identity keeps the identities distinct.
LEMMA UniqueExtends ==
  ASSUME NEW s \in Seq(Event), NEW e \in Event,
         UniqueIds(s), e.id \notin IdsOf(s)
  PROVE  UniqueIds(Append(s, e))
<1>1. /\ Len(Append(s, e)) = Len(s) + 1
      /\ \A i \in 1..Len(s) : Append(s, e)[i] = s[i]
      /\ Append(s, e)[Len(s) + 1] = e
      /\ Len(s) \in Nat
  BY AppendProperties, LenProperties
<1>2. QED
  BY <1>1 DEF UniqueIds, IdsOf

\* The identities of an extended sequence.
LEMMA IdsExtend ==
  ASSUME NEW s \in Seq(Event), NEW e \in Event
  PROVE  IdsOf(Append(s, e)) = IdsOf(s) \cup {e.id}
<1>1. /\ Len(Append(s, e)) = Len(s) + 1
      /\ \A i \in 1..Len(s) : Append(s, e)[i] = s[i]
      /\ Append(s, e)[Len(s) + 1] = e
      /\ Len(s) \in Nat
  BY AppendProperties, LenProperties
<1>2. QED
  BY <1>1 DEF IdsOf

\* The order of the natural numbers is well-founded.
Below == {ss \in Nat \X Nat : ss[1] < ss[2]}

LEMMA BelowIsWellFounded == IsWellFoundedOn(Below, Nat)
BY NatLessThanWellFounded DEF OpToRel, Below

\* Every non-empty set of positions of a sequence has a last one.
LEMMA LastPosition ==
  ASSUME NEW n \in Nat, NEW P, P \subseteq 1..n, P # {}
  PROVE  \E j \in P : \A k \in P : k <= j
<1> DEFINE T == {n - j : j \in P}
<1>1. T \subseteq Nat /\ T # {}
  <2>1. \A j \in P : n - j \in Nat
    OBVIOUS
  <2>2. QED
    BY <2>1
<1>2. \E x \in T : \A y \in T : ~ (<<y, x>> \in Below)
  <2> HIDE DEF T
  <2>1. QED
    BY <1>1, BelowIsWellFounded, WFMin
<1>3. PICK j \in P : \A k \in P : ~ (<<n - k, n - j>> \in Below)
  BY <1>2
<1>4. ASSUME NEW k \in P
      PROVE  k <= j
  <2>1. k \in Int /\ j \in Int
    OBVIOUS
  <2>2. ~ (n - k < n - j)
    BY <1>3, <1>1 DEF Below
  <2>3. QED
    BY <2>1, <2>2
<1>5. QED
  BY <1>4

\* Every non-empty set of natural numbers has a least element.
LEMMA LeastNumber ==
  ASSUME NEW P, P \subseteq Nat, P # {}
  PROVE  \E j \in P : \A k \in P : j <= k
<1>1. PICK j \in P : \A k \in P : ~ (<<k, j>> \in Below)
  BY BelowIsWellFounded, WFMin
<1>2. \A k \in P : k \in Nat /\ j \in Nat /\ ~ (k < j)
  BY <1>1 DEF Below
<1>3. QED
  BY <1>2

\* In a verified chain the hash of an event lists the identities up to it.
LEMMA HashListsHistory ==
  ASSUME NEW s \in Seq(Event), verify_chain(s, HeadOf(s)), NEW i \in 1..Len(s)
  PROVE  /\ Len(s[i].hash) = i
         /\ \A k \in 1..i : s[i].hash[k] = s[k].id
<1> DEFINE Lists(j) == Len(s[j].hash) = j /\ \A k \in 1..j : s[j].hash[k] = s[k].id
           Bad == {j \in 1..Len(s) : ~ Lists(j)}
<1>1. Len(s) \in Nat /\ \A j \in 1..Len(s) : s[j] \in Event
  BY LenProperties, ElementOfSeq
<1>2. SUFFICES ASSUME Bad # {} PROVE FALSE
  OBVIOUS
<1>3. PICK j \in Bad : \A k \in Bad : j <= k
  <2>1. Bad \subseteq Nat
    BY <1>1
  <2> HIDE DEF Bad
  <2>2. QED
    BY <1>2, <2>1, LeastNumber
<1> DEFINE before == IF j = 1 THEN NoHash ELSE s[j - 1].hash
<1>4. j \in 1..Len(s) /\ s[j].id \in EventIds
  BY <1>1, <1>3 DEF Event
<1>5. s[j].hash = Append(before, s[j].id)
  BY <1>4 DEF verify_chain, Linked, hash_is_valid, calculate_hash
<1>6. /\ before \in Seq(EventIds) /\ Len(before) = j - 1
      /\ \A k \in 1..(j - 1) : before[k] = s[k].id
  <2>1. CASE j = 1
    BY <2>1, EmptySeq DEF NoHash
  <2>2. CASE j # 1
    <3>1. j - 1 \in 1..Len(s) /\ j - 1 \notin Bad
      BY <2>2, <1>1, <1>3, <1>4
    <3>2. Lists(j - 1) /\ s[j - 1].hash \in Seq(EventIds)
      BY <3>1, <1>1 DEF Event, Hash
    <3>3. QED
      BY <2>2, <3>2
  <2>3. QED
    BY <2>1, <2>2
<1>7. Lists(j)
  <2> HIDE DEF before
  <2>1. /\ Len(Append(before, s[j].id)) = Len(before) + 1
        /\ \A k \in 1..Len(before) : Append(before, s[j].id)[k] = before[k]
        /\ Append(before, s[j].id)[Len(before) + 1] = s[j].id
    BY <1>4, <1>6, AppendProperties
  <2>2. Len(s[j].hash) = j
    BY <2>1, <1>4, <1>5, <1>6
  <2>3. ASSUME NEW k \in 1..j
        PROVE  s[j].hash[k] = s[k].id
    <3>1. CASE k = j
      BY <3>1, <2>1, <1>4, <1>5, <1>6
    <3>2. CASE k # j
      <4>1. k \in 1..(j - 1)
        BY <3>2, <1>4
      <4>2. QED
        BY <4>1, <2>1, <1>5, <1>6
    <3>3. QED
      BY <3>1, <3>2
  <2>4. QED
    BY <2>2, <2>3
<1>8. QED
  BY <1>3, <1>7

\* Two verified chains in which an identity stands for one event agree up to
\* every hash that occurs in both.
LEMMA SameHistory ==
  ASSUME NEW s \in Seq(Event), NEW t \in Seq(Event),
         verify_chain(s, HeadOf(s)), verify_chain(t, HeadOf(t)),
         \A k \in 1..Len(s), l \in 1..Len(t) : s[k].id = t[l].id => s[k] = t[l],
         NEW i \in 1..Len(s), NEW j \in 1..Len(t), s[i].hash = t[j].hash
  PROVE  i = j /\ \A k \in 1..i : s[k] = t[k]
<1>1. i = j
  BY HashListsHistory
<1>2. ASSUME NEW k \in 1..i
      PROVE  s[k] = t[k]
  <2>1. s[i].hash[k] = s[k].id /\ t[j].hash[k] = t[k].id
    BY <1>1, HashListsHistory
  <2>2. k \in 1..Len(s) /\ k \in 1..Len(t)
    BY <1>1, LenProperties
  <2>3. QED
    BY <2>1, <2>2
<1>3. QED
  BY <1>1, <1>2

-----------------------------------------------------------------------------
(***************************************************************************)
(* Ends of a list of events.                                               *)
(***************************************************************************)
Suffix(t, s) == \E k \in 0..Len(s) : t = SubSeq(s, k + 1, Len(s))

\* The elements of an end of s.
LEMMA SuffixElements ==
  ASSUME NEW s \in Seq(Event), NEW k \in 0..Len(s), NEW t,
         t = SubSeq(s, k + 1, Len(s))
  PROVE  /\ t \in Seq(Event)
         /\ Len(t) = Len(s) - k
         /\ \A i \in 1..Len(t) : t[i] = s[k + i]
<1>1. Len(s) \in Nat /\ k \in Nat /\ k + 1 \in Int /\ Len(s) \in Int
  BY LenProperties
<1>2. \A i \in (k + 1)..Len(s) : s[i] \in Event
  BY <1>1, ElementOfSeq
<1>3. /\ t \in Seq(Event)
      /\ Len(t) = IF k + 1 <= Len(s) THEN Len(s) - (k + 1) + 1 ELSE 0
      /\ \A i \in 1..(Len(s) - (k + 1) + 1) : t[i] = s[k + 1 + i - 1]
  BY <1>1, <1>2, SubSeqProperties
<1>4. QED
  BY <1>1, <1>3

\* A list is an end of itself.
LEMMA SuffixOfItself ==
  ASSUME NEW s \in Seq(Event)
  PROVE  Suffix(s, s)
BY SubSeqFull, LenProperties DEF Suffix

\* An end of an end of s is an end of s.
LEMMA SuffixOfSuffix ==
  ASSUME NEW s \in Seq(Event), NEW t, Suffix(t, s), NEW u, Suffix(u, t)
  PROVE  Suffix(u, s)
<1>1. PICK k \in 0..Len(s) : t = SubSeq(s, k + 1, Len(s))
  BY DEF Suffix
<1>2. PICK l \in 0..Len(t) : u = SubSeq(t, l + 1, Len(t))
  BY DEF Suffix
<1> DEFINE v == SubSeq(s, k + l + 1, Len(s))
<1>3. Len(s) \in Nat /\ k \in Nat /\ l \in Nat
  BY <1>1, <1>2, LenProperties
<1>4. t \in Seq(Event) /\ Len(t) = Len(s) - k /\ \A i \in 1..Len(t) : t[i] = s[k + i]
  BY <1>1, SuffixElements
<1>5. u \in Seq(Event) /\ Len(u) = Len(t) - l /\ \A i \in 1..Len(u) : u[i] = t[l + i]
  <2>1. t \in Seq(Event) /\ l \in 0..Len(t) /\ u = SubSeq(t, l + 1, Len(t))
    BY <1>2, <1>4
  <2>2. QED
    BY ONLY <2>1, SuffixElements
<1>6. k + l \in 0..Len(s)
  BY <1>3, <1>4, <1>2
<1>7. v \in Seq(Event) /\ Len(v) = Len(s) - (k + l) /\ \A i \in 1..Len(v) : v[i] = s[k + l + i]
  BY <1>6, SuffixElements
<1>8. Len(u) = Len(v)
  BY <1>3, <1>4, <1>5, <1>7
<1>9. ASSUME NEW i \in 1..Len(u)
      PROVE  u[i] = v[i]
  <2>1. i \in Nat /\ l + i \in 1..Len(t) /\ k + (l + i) = k + l + i
    BY <1>2, <1>3, <1>4, <1>5
  <2>2. QED
    BY <2>1, <1>4, <1>5, <1>7, <1>8
<1>10. u = v
  <2> HIDE DEF v
  <2>1. QED
    BY <1>5, <1>7, <1>8, <1>9, SeqEqual
<1>11. QED
  BY <1>6, <1>10 DEF Suffix

\* The tail of a list is an end of it.
LEMMA TailIsSuffix ==
  ASSUME NEW s \in Seq(Event), s # << >>
  PROVE  Suffix(Tail(s), s)
<1>1. Tail(s) = SubSeq(s, 1 + 1, Len(s)) /\ 1 \in 0..Len(s)
  BY TailIsSubSeq, LenProperties, EmptySeq
<1>2. QED
  BY <1>1 DEF Suffix

\* A non-empty end of s has the head of s.
LEMMA SuffixHead ==
  ASSUME NEW s \in Seq(Event), NEW t, Suffix(t, s), t # << >>
  PROVE  s # << >> /\ s[Len(s)] = t[Len(t)] /\ HeadOf(t) = HeadOf(s)
<1>1. PICK k \in 0..Len(s) : t = SubSeq(s, k + 1, Len(s))
  BY DEF Suffix
<1>2. t \in Seq(Event) /\ Len(t) = Len(s) - k /\ \A i \in 1..Len(t) : t[i] = s[k + i]
  BY <1>1, SuffixElements
<1>3. Len(t) \in Nat \ {0} /\ Len(s) \in Nat
  BY <1>2, EmptySeq, LenProperties
<1>4. k + Len(t) = Len(s) /\ Len(s) # 0 /\ Len(t) \in 1..Len(t)
  BY <1>1, <1>2, <1>3
<1>5. s # << >> /\ s[Len(s)] = t[Len(t)]
  BY <1>2, <1>4, EmptySeq
<1>6. QED
  BY <1>5 DEF HeadOf
=============================================================================
