--------------------------- MODULE EventLogProofs ---------------------------
(***************************************************************************)
(* Theorems about EventLog, for every set of identities and handles.       *)
(***************************************************************************)
EXTENDS EventLog, EventChainProofs

-----------------------------------------------------------------------------
(***************************************************************************)
(* Reading the file.                                                       *)
(***************************************************************************)

\* Loading keeps the length and yields events.
LEMMA LoadType ==
  ASSUME NEW s \in Seq(Event)
  PROVE  load_inner_from_disk(s) \in Seq(Event)
<1>1. ASSUME NEW i \in 1..Len(s)
      PROVE  load_inner_from_disk(s)[i] \in Event
  <2> DEFINE P == {j \in 1..Len(s) : s[j].id = s[i].id}
             Last(j) == /\ s[j].id = s[i].id
                        /\ \A k \in (j + 1)..Len(s) : s[k].id # s[i].id
  <2>1. Len(s) \in Nat /\ P \subseteq 1..Len(s) /\ P # {}
    BY LenProperties
  <2>2. PICK j \in P : \A k \in P : k <= j
    <3> HIDE DEF P
    <3>1. QED
      BY <2>1, LastPosition
  <2>3. j \in 1..Len(s) /\ Last(j)
    BY <2>1, <2>2
  <2>4. (CHOOSE m \in 1..Len(s) : Last(m)) \in 1..Len(s)
    <3> HIDE DEF Last
    <3>1. QED
      BY <2>3
  <2>5. s[CHOOSE m \in 1..Len(s) : Last(m)] \in Event
    BY <2>4, ElementOfSeq
  <2>6. QED
    BY <2>5 DEF load_inner_from_disk
<1>2. load_inner_from_disk(s) \in [1..Len(s) -> Event]
  BY <1>1 DEF load_inner_from_disk
<1>3. QED
  BY <1>2, LenProperties, SeqDef

\* When no identity occurs twice, what is loaded is what is in the file.
LEMMA LoadIdentity ==
  ASSUME NEW s \in Seq(Event), UniqueIds(s)
  PROVE  load_inner_from_disk(s) = s
<1>1. ASSUME NEW i \in 1..Len(s)
      PROVE  load_inner_from_disk(s)[i] = s[i]
  <2> DEFINE Last(j) == /\ s[j].id = s[i].id
                        /\ \A k \in (j + 1)..Len(s) : s[k].id # s[i].id
  <2>1. Len(s) \in Nat
    BY LenProperties
  <2>2. Last(i)
    BY <2>1 DEF UniqueIds
  <2>3. \A j \in 1..Len(s) : Last(j) => j = i
    BY DEF UniqueIds
  <2>4. (CHOOSE j \in 1..Len(s) : Last(j)) = i
    <3> HIDE DEF Last
    <3>1. QED
      BY <2>2, <2>3
  <2>5. QED
    BY <2>4 DEF load_inner_from_disk
<1>2. load_inner_from_disk(s) = [i \in 1..Len(s) |-> load_inner_from_disk(s)[i]]
  BY DEF load_inner_from_disk
<1>3. s = [i \in 1..Len(s) |-> s[i]]
  BY LenProperties
<1>4. QED
  BY <1>1, <1>2, <1>3

-----------------------------------------------------------------------------
(***************************************************************************)
(* Type correctness.                                                       *)
(***************************************************************************)
LEMMA NoEventType == NoEvent \in Event
<1>1. (CHOOSE id \in EventIds : TRUE) \in EventIds
  BY EventIdsAssumption
<1>2. NoHash \in Hash
  BY EmptySeq DEF NoHash, Hash
<1>3. QED
  BY <1>1, <1>2, HashType DEF NoEvent

\* What the unterminated end of the file may be read as is a list of events.
LEMMA TailReadingsType ==
  ASSUME tail \in Seq(Fragment)
  PROVE  TailReadings \subseteq Seq(Event)
<1>1. CASE tail = << >>
  BY <1>1, EmptySeq DEF TailReadings
<1>2. CASE Len(tail) = 1
  <2>1. tail[1] \in Fragment
    BY <1>2, ElementOfSeq
  <2>2. tail[1].event \in Event
    BY <2>1 DEF Fragment
  <2>3. <<tail[1].event>> \in Seq(Event)
    BY <2>2
  <2>4. QED
    BY <1>2, <2>3, EmptySeq DEF TailReadings
<1>3. QED
  BY <1>1, <1>2 DEF TailReadings

\* A file without an unreadable line is a list of events.
LEMMA NoGarbledLine ==
  ASSUME TypeOK, \A i \in 1..Len(lines) : lines[i] # Garbled
  PROVE  lines \in Seq(Event)
<1>1. \A i \in 1..Len(lines) : lines[i] \in Event
  BY DEF TypeOK
<1>2. QED
  BY <1>1, LenProperties, SeqDef DEF TypeOK

\* What a peer may offer has the type of an event.
LEMMA RemoteOffersType ==
  ASSUME TypeOK, NEW h \in Handles, NEW e \in RemoteOffers(h)
  PROVE  e \in Event
<1> DEFINE known == {NoHash} \cup {mem[h][i].hash : i \in 1..Len(mem[h])}
<1>1. known \subseteq Hash
  <2>1. \A i \in 1..Len(mem[h]) : mem[h][i] \in Event
    BY DEF TypeOK
  <2>2. NoHash \in Hash
    BY EmptySeq DEF NoHash, Hash
  <2>3. QED
    BY <2>1, <2>2 DEF Event
<1>2. PICK id \in EventIds, prev \in known, base \in known :
        e = [id |-> id, prev |-> prev, hash |-> calculate_hash(id, base)]
  BY DEF RemoteOffers
<1>3. calculate_hash(id, base) \in Hash
  BY <1>1, <1>2, HashType
<1>4. QED
  BY <1>1, <1>2, <1>3 DEF Event

LEMMA AbandonType ==
  ASSUME TypeOK, NEW h \in Handles, NEW state \in {"cut", "whole"}, Abandon(h, state)
  PROVE  tail' \in Seq(Fragment)
<1>1. \A i \in 1..Len(tail) : tail[i] \in Fragment
  BY DEF TypeOK
<1>2. \A i \in 1..Len(tail) : [tail[i] EXCEPT !.state = state] \in Fragment
  BY <1>1 DEF Fragment
<1>3. tail' \in [1..Len(tail) -> Fragment]
  BY <1>1, <1>2 DEF Abandon
<1>4. Len(tail) \in Nat
  BY LenProperties DEF TypeOK
<1>5. QED
  BY <1>3, <1>4, SeqDef

\* Every step keeps the types.
LEMMA TypeStep ==
  ASSUME TypeOK, [Next]_vars
  PROVE  TypeOK'
<1>1. ASSUME NEW h \in Handles, Open(h)
      PROVE  TypeOK'
  <2>1. PICK end \in TailReadings : mem' = [mem EXCEPT ![h] = load_inner_from_disk(lines \o end)]
    BY <1>1 DEF Open
  <2>2. lines \in Seq(Event) /\ end \in Seq(Event)
    BY <1>1, <2>1, NoGarbledLine, TailReadingsType DEF Open, TypeOK
  <2>3. load_inner_from_disk(lines \o end) \in Seq(Event)
    BY <2>2, LoadType, ConcatProperties
  <2>4. hazards' \subseteq Hazards
    BY <1>1 DEF Open, TypeOK, Hazards
  <2>5. QED
    BY <1>1, <2>1, <2>3, <2>4 DEF Open, TypeOK
<1>2. ASSUME NEW h \in Handles, NEW e \in Event, MemoryAppend(h, e), minted' \subseteq EventIds
      PROVE  TypeOK'
  <2>1. Append(mem[h], e) \in Seq(Event)
    BY AppendProperties DEF TypeOK
  <2>2. QED
    BY <1>2, <2>1 DEF MemoryAppend, TypeOK
<1>3. ASSUME NEW h \in Handles, append_event(h)
      PROVE  TypeOK'
  <2>1. PICK id \in EventIds \ minted : /\ MemoryAppend(h, from_new(id, HeadOf(mem[h])))
                                        /\ minted' = minted \cup {id}
    BY <1>3 DEF append_event
  <2>2. from_new(id, HeadOf(mem[h])) \in Event
    BY HashType, HeadType DEF TypeOK
  <2>3. QED
    BY <1>2, <2>1, <2>2 DEF TypeOK
<1>4. ASSUME NEW h \in Handles, append_verified_remote_event(h)
      PROVE  TypeOK'
  <2>0. CASE append_known_remote_event(h)
    BY <2>0, ElementOfSeq DEF append_known_remote_event, TypeOK
  <2>1. CASE append_new_remote_event(h)
    <3>1. PICK e \in RemoteOffers(h) : /\ MemoryAppend(h, e)
                                       /\ minted' = minted \cup {e.id}
      BY <2>1 DEF append_new_remote_event
    <3>2. e \in Event /\ e.id \in EventIds
      BY RemoteOffersType DEF Event
    <3>3. QED
      BY <1>2, <3>1, <3>2 DEF TypeOK
  <2>2. QED
    BY <1>4, <2>0, <2>1 DEF append_verified_remote_event
<1>5. ASSUME NEW h \in Handles, BeginPersist(h)
      PROVE  TypeOK'
  <2>1. [by |-> h, event |-> pending[h], state |-> "live"] \in Fragment
    BY DEF Fragment, TypeOK
  <2>2. tail' \in Seq(Fragment)
    BY <1>5, <2>1, AppendProperties DEF BeginPersist, TypeOK
  <2>3. QED
    BY <1>5, <2>2 DEF BeginPersist, TypeOK
<1>6. ASSUME NEW h \in Handles, Return(h)
      PROVE  /\ phase' \in [Handles -> {"closed", "open", "appended", "writing"}]
             /\ pending' \in [Handles -> Event]
  BY <1>6, NoEventType DEF Return, TypeOK
<1>7. ASSUME NEW h \in Handles, EndPersist(h)
      PROVE  TypeOK'
  <2>1. PICK ended \in EndedLines(h) : lines' = lines \o ended
    BY <1>7 DEF EndPersist
  <2>2. ended \in Seq(Event \cup {Garbled})
    <3>1. <<pending[h]>> \in Seq(Event \cup {Garbled}) /\ <<Garbled>> \in Seq(Event \cup {Garbled})
      BY DEF TypeOK
    <3>2. TailReadings \subseteq Seq(Event \cup {Garbled})
      <4>1. Seq(Event) \subseteq Seq(Event \cup {Garbled})
        BY SeqDef
      <4>2. QED
        BY <4>1, TailReadingsType DEF TypeOK
    <3>3. QED
      BY <2>1, <3>1, <3>2 DEF EndedLines
  <2>3. lines' \in Seq(Event \cup {Garbled})
    BY <2>1, <2>2, ConcatProperties DEF TypeOK
  <2>4. tail' \in Seq(Fragment) /\ acked' \subseteq Event /\ refused' \subseteq Event
    BY <1>7, EmptySeq DEF EndPersist, TypeOK
  <2>5. Return(h) /\ mem' = mem /\ minted' = minted /\ hazards' = hazards
    BY <1>7 DEF EndPersist
  <2>6. QED
    BY <2>3, <2>4, <2>5, <1>6 DEF TypeOK
<1>8. ASSUME NEW h \in Handles, PersistFails(h)
      PROVE  TypeOK'
  <2>1. tail' \in Seq(Fragment)
    BY <1>8, AbandonType DEF PersistFails, TypeOK
  <2>2. hazards' \subseteq Hazards
    BY <1>8 DEF PersistFails, TypeOK, Hazards
  <2>3. /\ Return(h) /\ lines' = lines /\ mem' = mem /\ minted' = minted /\ acked' = acked
        /\ refused' \subseteq Event
    BY <1>8 DEF PersistFails, TypeOK
  <2>4. QED
    BY <2>1, <2>2, <2>3, <1>6 DEF TypeOK
<1>9. ASSUME NEW h \in Handles, Stop(h)
      PROVE  TypeOK'
  <2>1. tail' \in Seq(Fragment)
    BY <1>9, AbandonType DEF Stop, TypeOK
  <2>2. hazards' \subseteq Hazards
    BY <1>9 DEF Stop, TypeOK, Hazards
  <2>3. QED
    BY <1>9, <2>1, <2>2, NoEventType, EmptySeq DEF Stop, TypeOK
<1>10. CASE UNCHANGED vars
  BY <1>10 DEF vars, TypeOK
<1>11. QED
  BY <1>1, <1>3, <1>4, <1>5, <1>7, <1>8, <1>9, <1>10 DEF Next

\* Whatever crashes, overlaps or fails, the variables keep their types: what a
\* handle loads is always a list of events, and the file a list of lines.
THEOREM TypeCorrect == Spec => []TypeOK
<1>1. Init => TypeOK
  BY EmptySeq, NoEventType DEF Init, TypeOK
<1>2. TypeOK /\ [Next]_vars => TypeOK'
  BY TypeStep
<1>3. QED
  BY <1>1, <1>2, PTL DEF Spec

-----------------------------------------------------------------------------
(***************************************************************************)
(* The inductive invariant.  Every conjunct names the hazards under which  *)
(* it may fail; hazards only ever grows.                                   *)
(***************************************************************************)

\* Without an overlap, one handle at a time.
SoleHandle ==
  "overlap" \notin hazards =>
    \A g, h \in Handles : phase[g] # "closed" /\ phase[h] # "closed" => g = h

\* Without an overlap or a torn write, the unterminated end of the file is the
\* event being written.
OwnTail ==
  "overlap" \notin hazards /\ "torn_write" \notin hazards =>
    /\ \A h \in Handles : phase[h] = "writing" =>
         tail = <<[by |-> h, event |-> pending[h], state |-> "live"]>>
    /\ (\A h \in Handles : phase[h] # "writing") => tail = << >>

\* Without any hazard, the file is a chain ...
FileIsChain ==
  /\ lines \in Seq(Event)
  /\ verify_chain(lines, HeadOf(lines))
  /\ UniqueIds(lines)
  /\ IdsOf(lines) \subseteq minted

\* ... that the event being appended extends.
PendingExtends ==
  \A h \in Handles : phase[h] \in {"appended", "writing"} =>
    /\ hash_is_valid(pending[h])
    /\ pending[h].prev = HeadOf(lines)
    /\ pending[h].id \notin IdsOf(lines)
    /\ pending[h].id \in minted

IInv ==
  /\ TypeOK
  /\ SoleHandle
  /\ OwnTail
  /\ hazards = {} => FileIsChain /\ PendingExtends
  /\ MemoryMatchesFile

\* What the log, the stores and the hazards are made of: an answer from memory
\* changes none of it.
logvars == <<lines, tail, phase, mem, pending, minted, hazards>>

LEMMA StepCases ==
  ASSUME [Next]_vars
  PROVE  \/ UNCHANGED logvars
         \/ \E h \in Handles :
              \/ Open(h) \/ append_event(h) \/ append_new_remote_event(h)
              \/ BeginPersist(h) \/ EndPersist(h) \/ PersistFails(h) \/ Stop(h)
<1>1. CASE UNCHANGED vars
  BY <1>1 DEF vars, logvars
<1>2. ASSUME NEW h \in Handles, append_known_remote_event(h)
      PROVE  UNCHANGED logvars
  BY <1>2 DEF append_known_remote_event, logvars
<1>3. QED
  BY <1>1, <1>2 DEF Next, append_verified_remote_event

\* Hazards are never forgotten.
LEMMA HazardsGrow ==
  ASSUME [Next]_vars
  PROVE  hazards \subseteq hazards'
BY DEF Next, vars, Open, append_event, append_verified_remote_event, append_new_remote_event,
     append_known_remote_event, MemoryAppend,
       BeginPersist, EndPersist, PersistFails, Stop

\* One handle at a time, until the overlap is recorded.
LEMMA SoleStep ==
  ASSUME TypeOK, SoleHandle, [Next]_vars
  PROVE  SoleHandle'
<1>1. CASE UNCHANGED logvars
  BY <1>1 DEF SoleHandle, logvars
<1>2. ASSUME NEW h \in Handles, Open(h)
      PROVE  SoleHandle'
  <2>1. SUFFICES ASSUME "overlap" \notin hazards'
                 PROVE  \A g \in Handles : phase'[g] # "closed" => g = h
    BY DEF SoleHandle
  <2>2. \A g \in Handles : phase[g] = "closed"
    BY <1>2, <2>1 DEF Open
  <2>3. QED
    BY <1>2, <2>2 DEF Open, TypeOK
<1>3. ASSUME NEW h \in Handles, phase[h] # "closed", hazards \subseteq hazards',
             NEW p, phase' = [phase EXCEPT ![h] = p]
      PROVE  SoleHandle'
  BY <1>3 DEF SoleHandle, TypeOK
<1>4. ASSUME NEW h \in Handles, append_event(h) \/ append_new_remote_event(h)
      PROVE  SoleHandle'
  BY <1>3, <1>4 DEF append_event, append_new_remote_event, MemoryAppend
<1>5. ASSUME NEW h \in Handles, BeginPersist(h) \/ EndPersist(h)
      PROVE  SoleHandle'
  BY <1>3, <1>5 DEF BeginPersist, EndPersist, Return
<1>6. ASSUME NEW h \in Handles, PersistFails(h)
      PROVE  SoleHandle'
  <2>1. phase[h] # "closed" /\ phase' = [phase EXCEPT ![h] = "open"]
    BY <1>6 DEF PersistFails, Return
  <2>2. QED
    BY <1>3, <1>6, <2>1, HazardsGrow
<1>7. ASSUME NEW h \in Handles, Stop(h)
      PROVE  SoleHandle'
  <2>1. phase[h] # "closed" /\ phase' = [phase EXCEPT ![h] = "closed"]
    BY <1>7 DEF Stop
  <2>2. QED
    BY <1>3, <1>7, <2>1, HazardsGrow
<1>8. QED
  BY <1>1, <1>2, <1>4, <1>5, <1>6, <1>7, StepCases

\* The unterminated end belongs to the handle that writes.
LEMMA OwnTailStep ==
  ASSUME TypeOK, SoleHandle, OwnTail, [Next]_vars
  PROVE  OwnTail'
<1>1. CASE UNCHANGED logvars
  BY <1>1 DEF OwnTail, logvars
<1>2. SUFFICES ASSUME NEW h \in Handles,
                      \/ Open(h) \/ append_event(h) \/ append_new_remote_event(h)
                      \/ BeginPersist(h) \/ EndPersist(h) \/ PersistFails(h) \/ Stop(h),
                      "overlap" \notin hazards', "torn_write" \notin hazards'
               PROVE  OwnTail'
  BY <1>1, StepCases DEF OwnTail
<1>3. /\ "overlap" \notin hazards /\ "torn_write" \notin hazards
      /\ \A g \in Handles : phase[g] = "writing" =>
           tail = <<[by |-> g, event |-> pending[g], state |-> "live"]>>
      /\ (\A g \in Handles : phase[g] # "writing") => tail = << >>
  <2>1. hazards \subseteq hazards'
    BY <1>2, HazardsGrow DEF Next
  <2>2. QED
    BY <1>2, <2>1 DEF OwnTail
<1>4. \A g \in Handles : g # h /\ phase[h] # "closed" => phase[g] = "closed"
  BY <1>3 DEF SoleHandle
<1>5. CASE Open(h)
  BY <1>3, <1>5 DEF Open, OwnTail, TypeOK
<1>6. CASE append_event(h) \/ append_new_remote_event(h)
  <2>1. PICK e : MemoryAppend(h, e)
    BY <1>6 DEF append_event, append_new_remote_event
  <2>2. /\ phase[h] = "open" /\ phase' = [phase EXCEPT ![h] = "appended"]
        /\ pending' = [pending EXCEPT ![h] = e] /\ tail' = tail
    BY <2>1 DEF MemoryAppend
  <2>3. QED
    BY <1>3, <2>2 DEF OwnTail, TypeOK
<1>7. CASE BeginPersist(h)
  <2>1. \A g \in Handles : phase[g] # "writing"
    BY <1>4, <1>7 DEF BeginPersist
  <2>2. tail' = <<[by |-> h, event |-> pending'[h], state |-> "live"]>>
    <3> DEFINE own == [by |-> h, event |-> pending[h], state |-> "live"]
    <3>1. tail' = Append(<< >>, own) /\ pending' = pending
      BY <1>3, <1>7, <2>1 DEF BeginPersist
    <3>2. Append(<< >>, own) = <<own>>
      OBVIOUS
    <3>3. QED
      BY <3>1, <3>2
  <2>3. \A g \in Handles : phase'[g] = "writing" <=> g = h
    BY <1>7, <2>1 DEF BeginPersist, TypeOK
  <2>4. QED
    BY <2>2, <2>3 DEF OwnTail
<1>8. CASE EndPersist(h)
  <2>1. \A g \in Handles : phase'[g] # "writing"
    BY <1>4, <1>8 DEF EndPersist, Return, TypeOK
  <2>2. tail' = << >>
    BY <1>8 DEF EndPersist
  <2>3. QED
    BY <2>1, <2>2 DEF OwnTail
<1>9. CASE PersistFails(h) \/ Stop(h)
  <2>1. phase[h] # "writing" /\ tail' = tail
    BY <1>2, <1>9 DEF PersistFails, Stop
  <2>2. PICK p \in {"open", "closed"} : phase' = [phase EXCEPT ![h] = p]
    BY <1>9 DEF PersistFails, Stop, Return
  <2>3. pending' = [pending EXCEPT ![h] = NoEvent]
    BY <1>9 DEF PersistFails, Stop, Return
  <2>4. QED
    BY <1>3, <2>1, <2>2, <2>3 DEF OwnTail, TypeOK
<1>10. QED
  BY <1>2, <1>5, <1>6, <1>7, <1>8, <1>9

\* A step without a hazard changes the file by the event being written, if at all.
EventLanded ==
  \/ lines' = lines
  \/ \E h \in Handles : phase[h] = "writing" /\ lines' = Append(lines, pending[h])

\* Steps without a hazard keep the chain, and the memory in step with the file.
LEMMA QuietStep ==
  ASSUME IInv, [Next]_vars, hazards' = {}
  PROVE  FileIsChain' /\ PendingExtends' /\ MemoryMatchesFile' /\ EventLanded
<1>1. hazards = {} /\ TypeOK /\ FileIsChain /\ PendingExtends /\ OwnTail
  BY HazardsGrow DEF IInv
<1>2. /\ \A h \in Handles : phase[h] = "open" => mem[h] = lines
      /\ \A h \in Handles : phase[h] \in {"appended", "writing"} =>
           mem[h] = Append(lines, pending[h])
  BY <1>1 DEF IInv, MemoryMatchesFile
<1>3. CASE UNCHANGED logvars
  BY <1>1, <1>3 DEF logvars, IInv, FileIsChain, PendingExtends, MemoryMatchesFile, EventLanded
<1>4. SUFFICES ASSUME NEW h \in Handles,
                      \/ Open(h) \/ append_event(h) \/ append_new_remote_event(h)
                      \/ BeginPersist(h) \/ EndPersist(h) \/ PersistFails(h) \/ Stop(h)
               PROVE  FileIsChain' /\ PendingExtends' /\ MemoryMatchesFile' /\ EventLanded
  BY <1>3, StepCases
<1>5. \A g \in Handles : g # h => phase[g] = "closed"
  <2>1. CASE Open(h)
    BY <1>1, <2>1 DEF Open
  <2>2. CASE phase[h] # "closed"
    BY <1>1, <2>2 DEF IInv, SoleHandle
  <2>3. QED
    BY <1>4, <2>1, <2>2 DEF append_event, append_new_remote_event, MemoryAppend,
       BeginPersist, EndPersist, PersistFails, Stop
<1>6. CASE Open(h)
  <2>1. phase[h] = "closed" /\ phase' = [phase EXCEPT ![h] = "open"]
        /\ lines' = lines /\ minted' = minted /\ pending' = pending
    BY <1>6 DEF Open
  <2>2. tail = << >>
    BY <1>1, <1>5, <2>1 DEF OwnTail
  <2>3. mem' = [mem EXCEPT ![h] = load_inner_from_disk(lines \o << >>)]
    BY <1>6, <2>2 DEF Open, TailReadings
  <2>4. load_inner_from_disk(lines \o << >>) = lines
    BY <1>1, ConcatEmptySeq, LoadIdentity DEF FileIsChain
  <2>5. MemoryMatchesFile'
    BY <1>1, <1>5, <2>1, <2>3, <2>4 DEF MemoryMatchesFile, TypeOK
  <2>6. PendingExtends'
    BY <1>1, <1>5, <2>1 DEF PendingExtends, TypeOK
  <2>7. QED
    BY <1>1, <2>1, <2>5, <2>6 DEF FileIsChain, EventLanded
<1>7. ASSUME NEW e \in Event, MemoryAppend(h, e), minted' = minted \cup {e.id},
             hash_is_valid(e), e.prev = HeadOf(lines), e.id \notin IdsOf(lines)
      PROVE  FileIsChain' /\ PendingExtends' /\ MemoryMatchesFile' /\ EventLanded
  <2>1. /\ phase[h] = "open" /\ phase' = [phase EXCEPT ![h] = "appended"]
        /\ lines' = lines /\ pending' = [pending EXCEPT ![h] = e]
        /\ mem' = [mem EXCEPT ![h] = Append(@, e)]
    BY <1>7 DEF MemoryAppend
  <2>2. MemoryMatchesFile'
    BY <1>2, <1>1, <1>5, <2>1 DEF MemoryMatchesFile, TypeOK
  <2>3. PendingExtends'
    BY <1>1, <1>5, <1>7, <2>1 DEF PendingExtends, TypeOK
  <2>4. QED
    BY <1>1, <1>7, <2>1, <2>2, <2>3 DEF FileIsChain, EventLanded
<1>8. CASE append_event(h)
  <2>1. PICK id \in EventIds \ minted : /\ MemoryAppend(h, from_new(id, HeadOf(mem[h])))
                                        /\ minted' = minted \cup {id}
    BY <1>8 DEF append_event
  <2>2. mem[h] = lines
    BY <1>2, <2>1 DEF MemoryAppend
  <2>3. from_new(id, HeadOf(lines)) \in Event /\ hash_is_valid(from_new(id, HeadOf(lines)))
    BY <1>1, HashType, HeadType DEF FileIsChain
  <2>4. /\ from_new(id, HeadOf(lines)).id = id
        /\ from_new(id, HeadOf(lines)).prev = HeadOf(lines)
    BY DEF from_new
  <2>5. id \notin IdsOf(lines)
    BY <1>1, <2>1 DEF FileIsChain
  <2>6. QED
    BY <1>7, <2>1, <2>2, <2>3, <2>4, <2>5
<1>9. CASE append_new_remote_event(h)
  <2>1. PICK e \in RemoteOffers(h) :
          /\ RemoteOutcome(mem[h], HeadOf(mem[h]), e) = "appended"
          /\ MemoryAppend(h, e)
          /\ minted' = minted \cup {e.id}
    BY <1>9 DEF append_new_remote_event
  <2>2. mem[h] = lines
    BY <1>2, <2>1 DEF MemoryAppend
  <2>3. hash_is_valid(e) /\ e.prev = HeadOf(lines) /\ e.id \notin IdsOf(lines)
    BY <2>1, <2>2 DEF RemoteOutcome, validate_supported_remote_event
  <2>4. e \in Event
    BY <1>1, RemoteOffersType
  <2>5. QED
    BY <1>7, <2>1, <2>3, <2>4
<1>10. CASE BeginPersist(h)
  <2>1. /\ phase[h] = "appended" /\ phase' = [phase EXCEPT ![h] = "writing"]
        /\ lines' = lines /\ mem' = mem /\ pending' = pending /\ minted' = minted
    BY <1>10 DEF BeginPersist
  <2>2. MemoryMatchesFile' /\ PendingExtends'
    BY <1>2, <1>1, <1>5, <2>1 DEF MemoryMatchesFile, PendingExtends, TypeOK
  <2>3. QED
    BY <1>1, <2>1, <2>2 DEF FileIsChain, EventLanded
<1>11. CASE EndPersist(h)
  <2>1. phase[h] = "writing" /\ phase' = [phase EXCEPT ![h] = "open"]
        /\ mem' = mem /\ minted' = minted
    BY <1>11 DEF EndPersist, Return
  <2>2. lines' = Append(lines, pending[h])
    <3>1. tail = <<[by |-> h, event |-> pending[h], state |-> "live"]>>
      BY <1>1, <2>1 DEF OwnTail
    <3>2. Len(tail) = 1 /\ 1 \in OwnFragments(h)
      BY <3>1 DEF OwnFragments
    <3>3. lines' = lines \o <<pending[h]>>
      BY <1>11, <3>2 DEF EndPersist, EndedLines
    <3>4. QED
      BY <1>1, <3>3 DEF FileIsChain, TypeOK
  <2>3. pending[h] \in Event /\ hash_is_valid(pending[h]) /\ pending[h].prev = HeadOf(lines)
        /\ pending[h].id \notin IdsOf(lines) /\ pending[h].id \in minted
    BY <1>1, <2>1 DEF PendingExtends, TypeOK
  <2>4. FileIsChain'
    <3>1. lines' \in Seq(Event)
      BY <1>1, <2>2, <2>3, AppendProperties DEF FileIsChain
    <3>2. verify_chain(lines, HeadOf(lines))' /\ UniqueIds(lines)'
      BY <1>1, <2>2, <2>3, ChainExtends, UniqueExtends DEF FileIsChain
    <3>3. IdsOf(lines)' \subseteq minted'
      BY <1>1, <2>1, <2>2, <2>3, IdsExtend DEF FileIsChain
    <3>4. QED
      BY <3>1, <3>2, <3>3 DEF FileIsChain
  <2>5. MemoryMatchesFile' /\ PendingExtends'
    BY <1>2, <1>1, <1>5, <2>1, <2>2 DEF MemoryMatchesFile, PendingExtends, TypeOK
  <2>6. QED
    BY <2>1, <2>2, <2>4, <2>5 DEF EventLanded
<1>12. CASE PersistFails(h)
  BY <1>4, <1>12 DEF PersistFails
<1>13. CASE Stop(h)
  <2>1. phase' = [phase EXCEPT ![h] = "closed"] /\ lines' = lines /\ minted' = minted
    BY <1>13 DEF Stop
  <2>2. MemoryMatchesFile' /\ PendingExtends'
    BY <1>1, <1>5, <2>1 DEF MemoryMatchesFile, PendingExtends, TypeOK
  <2>3. QED
    BY <1>1, <2>1, <2>2 DEF FileIsChain, EventLanded
<1>14. QED
  BY <1>4, <1>6, <1>8, <1>9, <1>10, <1>11, <1>12, <1>13

LEMMA InductiveInvariant == Spec => []IInv
<1>1. Init => IInv
  <2>1. SUFFICES ASSUME Init PROVE IInv
    OBVIOUS
  <2>2. TypeOK
    BY <2>1, EmptySeq, NoEventType DEF Init, TypeOK
  <2>3. SoleHandle /\ OwnTail /\ PendingExtends /\ MemoryMatchesFile
    BY <2>1 DEF Init, SoleHandle, OwnTail, PendingExtends, MemoryMatchesFile
  <2>4. FileIsChain
    BY <2>1, EmptySeq DEF Init, FileIsChain, verify_chain, UniqueIds, IdsOf
  <2>5. QED
    BY <2>2, <2>3, <2>4 DEF IInv
<1>2. IInv /\ [Next]_vars => IInv'
  <2>1. SUFFICES ASSUME IInv, [Next]_vars PROVE IInv'
    OBVIOUS
  <2>2. TypeOK' /\ SoleHandle' /\ OwnTail'
    BY <2>1, TypeStep, SoleStep, OwnTailStep DEF IInv
  <2>3. hazards' = {} => FileIsChain' /\ PendingExtends' /\ MemoryMatchesFile'
    BY <2>1, QuietStep
  <2>4. hazards' # {} => MemoryMatchesFile'
    BY DEF MemoryMatchesFile
  <2>5. QED
    BY <2>2, <2>3, <2>4 DEF IInv
<1>3. QED
  BY <1>1, <1>2, PTL DEF Spec

-----------------------------------------------------------------------------
(***************************************************************************)
(* What follows from the invariant.                                        *)
(***************************************************************************)

\* Without a hazard the events a handle lists are those of the file, plus the one
\* it is writing: what the desktop server shows is what a restart would show.
THEOREM MemoryFollowsFile == Spec => []MemoryMatchesFile
<1>1. IInv => MemoryMatchesFile
  BY DEF IInv
<1>2. QED
  BY <1>1, InductiveInvariant, PTL

\* A file without an unreadable line is readable to its end.
LEMMA ReadableAll ==
  ASSUME lines \in Seq(Event)
  PROVE  Readable = lines
<1> DEFINE Stops(n) == /\ \A i \in 1..n : lines[i] # Garbled
                       /\ n = Len(lines) \/ lines[n + 1] = Garbled
<1>1. Len(lines) \in Nat /\ \A i \in 1..Len(lines) : lines[i] # Garbled
  BY GarbledAssumption, LenProperties, ElementOfSeq
<1>2. \A n \in 0..Len(lines) : Stops(n) <=> n = Len(lines)
  BY <1>1
<1>3. (CHOOSE n \in 0..Len(lines) : Stops(n)) = Len(lines)
  <2> HIDE DEF Stops
  <2>1. QED
    BY <1>1, <1>2
<1>4. SubSeq(lines, 1, Len(lines)) = lines
  OBVIOUS
<1>5. QED
  BY <1>3, <1>4 DEF Readable

\* Without an overlap or a torn write, an open store knows every identity of the
\* file, so that it never writes one twice, also when it holds refused events.
StoreKnowsFile ==
  "overlap" \notin hazards /\ "torn_write" \notin hazards =>
    /\ lines \in Seq(Event) /\ UniqueIds(lines) /\ IdsOf(lines) \subseteq minted
    /\ \A h \in Handles : phase[h] # "closed" => IdsOf(lines) \subseteq IdsOf(mem[h])
    /\ \A h \in Handles : phase[h] \in {"appended", "writing"} =>
         /\ pending[h].id \in IdsOf(mem[h]) /\ pending[h].id \in minted
         /\ pending[h].id \notin IdsOf(lines)

LEMMA StoreKnowsFileStep ==
  ASSUME IInv, StoreKnowsFile, [Next]_vars
  PROVE  StoreKnowsFile'
<1>1. SUFFICES ASSUME "overlap" \notin hazards', "torn_write" \notin hazards'
               PROVE  StoreKnowsFile'
  BY DEF StoreKnowsFile
<1>2. /\ "overlap" \notin hazards /\ "torn_write" \notin hazards
      /\ TypeOK /\ SoleHandle /\ OwnTail
  BY <1>1, HazardsGrow DEF IInv
<1>3. /\ lines \in Seq(Event) /\ UniqueIds(lines) /\ IdsOf(lines) \subseteq minted
      /\ \A h \in Handles : phase[h] # "closed" => IdsOf(lines) \subseteq IdsOf(mem[h])
      /\ \A h \in Handles : phase[h] \in {"appended", "writing"} =>
           /\ pending[h].id \in IdsOf(mem[h]) /\ pending[h].id \in minted
           /\ pending[h].id \notin IdsOf(lines)
  BY <1>2 DEF StoreKnowsFile
<1>4. CASE UNCHANGED logvars
  BY <1>3, <1>4 DEF logvars, StoreKnowsFile
<1>5. SUFFICES ASSUME NEW h \in Handles,
                      \/ Open(h) \/ append_event(h) \/ append_new_remote_event(h)
                      \/ BeginPersist(h) \/ EndPersist(h) \/ PersistFails(h) \/ Stop(h)
               PROVE  StoreKnowsFile'
  BY <1>4, StepCases
<1>6. CASE Open(h)
  <2>1. /\ phase[h] = "closed" /\ phase' = [phase EXCEPT ![h] = "open"]
        /\ lines' = lines /\ minted' = minted /\ pending' = pending
    BY <1>6 DEF Open
  <2>2. \A g \in Handles : phase[g] = "closed"
    BY <1>1, <1>6 DEF Open
  <2>3. tail = << >>
    BY <1>2, <2>2 DEF OwnTail
  <2>4. mem' = [mem EXCEPT ![h] = load_inner_from_disk(lines \o << >>)]
    BY <1>6, <2>3 DEF Open, TailReadings
  <2>5. load_inner_from_disk(lines \o << >>) = lines
    BY <1>3, ConcatEmptySeq, LoadIdentity
  <2>6. mem'[h] = lines /\ \A g \in Handles : g # h => phase'[g] = "closed"
    BY <1>2, <2>1, <2>2, <2>4, <2>5 DEF TypeOK
  <2>7. phase'[h] = "open"
    BY <1>2, <2>1 DEF TypeOK
  <2>8. QED
    BY <1>3, <2>1, <2>6, <2>7 DEF StoreKnowsFile
<1>7. ASSUME NEW e \in Event, MemoryAppend(h, e), minted' = minted \cup {e.id},
             e.id \notin IdsOf(lines)
      PROVE  StoreKnowsFile'
  <2>1. /\ phase[h] = "open" /\ phase' = [phase EXCEPT ![h] = "appended"]
        /\ lines' = lines /\ pending' = [pending EXCEPT ![h] = e]
        /\ mem' = [mem EXCEPT ![h] = Append(@, e)]
    BY <1>7 DEF MemoryAppend
  <2>2. mem[h] \in Seq(Event) /\ mem'[h] = Append(mem[h], e) /\ pending'[h] = e
    BY <1>2, <2>1 DEF TypeOK
  <2>3. IdsOf(mem'[h]) = IdsOf(mem[h]) \cup {e.id}
    BY <2>2, IdsExtend
  <2>4. \A g \in Handles : g # h => phase'[g] = phase[g] /\ mem'[g] = mem[g]
                                  /\ pending'[g] = pending[g]
    BY <1>2, <2>1 DEF TypeOK
  <2>5. IdsOf(lines) \subseteq IdsOf(mem[h]) /\ phase'[h] = "appended"
    BY <1>2, <1>3, <2>1 DEF TypeOK
  <2>6. lines' \in Seq(Event) /\ UniqueIds(lines)' /\ IdsOf(lines)' \subseteq minted'
    BY <1>3, <1>7, <2>1
  <2>7. ASSUME NEW g \in Handles
        PROVE  /\ (phase[g] # "closed" => IdsOf(lines) \subseteq IdsOf(mem[g]))'
               /\ (phase[g] \in {"appended", "writing"} =>
                    /\ pending[g].id \in IdsOf(mem[g]) /\ pending[g].id \in minted
                    /\ pending[g].id \notin IdsOf(lines))'
    <3>1. CASE g = h
      BY <1>7, <2>1, <2>2, <2>3, <2>5, <3>1
    <3>2. CASE g # h
      BY <1>3, <1>7, <2>1, <2>4, <3>2
    <3>3. QED
      BY <3>1, <3>2
  <2>8. QED
    BY <2>6, <2>7 DEF StoreKnowsFile
<1>8. CASE append_event(h)
  <2>1. PICK id \in EventIds \ minted : /\ MemoryAppend(h, from_new(id, HeadOf(mem[h])))
                                        /\ minted' = minted \cup {id}
    BY <1>8 DEF append_event
  <2>2. from_new(id, HeadOf(mem[h])) \in Event
    BY <1>2, HashType, HeadType DEF TypeOK
  <2>3. from_new(id, HeadOf(mem[h])).id = id
    BY DEF from_new
  <2>4. id \notin IdsOf(lines)
    BY <1>3, <2>1
  <2>5. QED
    BY <1>7, <2>1, <2>2, <2>3, <2>4
<1>9. CASE append_new_remote_event(h)
  <2>1. PICK e \in RemoteOffers(h) :
          /\ RemoteOutcome(mem[h], HeadOf(mem[h]), e) = "appended"
          /\ MemoryAppend(h, e)
          /\ minted' = minted \cup {e.id}
    BY <1>9 DEF append_new_remote_event
  <2>2. e \in Event
    BY <1>2, RemoteOffersType
  <2>3. e.id \notin IdsOf(mem[h])
    BY <2>1 DEF RemoteOutcome
  <2>4. phase[h] = "open"
    BY <2>1 DEF MemoryAppend
  <2>5. e.id \notin IdsOf(lines)
    BY <1>3, <2>3, <2>4
  <2>6. QED
    BY <1>7, <2>1, <2>2, <2>5
<1>10. CASE BeginPersist(h)
  <2>1. /\ phase[h] = "appended" /\ phase' = [phase EXCEPT ![h] = "writing"]
        /\ lines' = lines /\ mem' = mem /\ pending' = pending /\ minted' = minted
    BY <1>10 DEF BeginPersist
  <2>2. \A g \in Handles : g # h => phase'[g] = phase[g]
    BY <1>2, <2>1 DEF TypeOK
  <2>3. QED
    BY <1>3, <2>1, <2>2 DEF StoreKnowsFile
<1>11. CASE EndPersist(h)
  <2>1. /\ phase[h] = "writing" /\ phase' = [phase EXCEPT ![h] = "open"]
        /\ mem' = mem /\ minted' = minted /\ pending' = [pending EXCEPT ![h] = NoEvent]
    BY <1>11 DEF EndPersist, Return
  <2>2. lines' = Append(lines, pending[h])
    <3>1. tail = <<[by |-> h, event |-> pending[h], state |-> "live"]>>
      BY <1>2, <2>1 DEF OwnTail
    <3>2. Len(tail) = 1 /\ 1 \in OwnFragments(h)
      BY <3>1 DEF OwnFragments
    <3>3. lines' = lines \o <<pending[h]>>
      BY <1>11, <3>2 DEF EndPersist, EndedLines
    <3>4. QED
      BY <1>2, <1>3, <3>3 DEF TypeOK
  <2>3. /\ pending[h] \in Event /\ pending[h].id \in IdsOf(mem[h])
        /\ pending[h].id \in minted /\ pending[h].id \notin IdsOf(lines)
    BY <1>2, <1>3, <2>1 DEF TypeOK
  <2>4. /\ lines' \in Seq(Event) /\ UniqueIds(lines')
        /\ IdsOf(lines') = IdsOf(lines) \cup {pending[h].id}
    BY <1>3, <2>2, <2>3, UniqueExtends, IdsExtend, AppendProperties
  <2>5. \A g \in Handles : g # h => phase[g] = "closed" /\ phase'[g] = "closed"
    BY <1>2, <2>1 DEF SoleHandle, TypeOK
  <2>6. phase'[h] = "open" /\ IdsOf(lines) \subseteq IdsOf(mem[h])
    BY <1>2, <1>3, <2>1 DEF TypeOK
  <2>7. QED
    BY <1>3, <2>1, <2>3, <2>4, <2>5, <2>6 DEF StoreKnowsFile
<1>12. CASE PersistFails(h) \/ Stop(h)
  <2>1. /\ lines' = lines /\ minted' = minted
        /\ \/ phase' = [phase EXCEPT ![h] = "open"] /\ mem' = mem /\ phase[h] # "closed"
           \/ phase' = [phase EXCEPT ![h] = "closed"] /\ mem' = [mem EXCEPT ![h] = << >>]
        /\ pending' = [pending EXCEPT ![h] = NoEvent]
    BY <1>12 DEF PersistFails, Return, Stop
  <2>2. phase'[h] \in {"open", "closed"} /\ (phase'[h] = "open" => mem' = mem /\ phase[h] # "closed")
    BY <1>2, <2>1 DEF TypeOK
  <2>3. \A g \in Handles : g # h => phase'[g] = phase[g] /\ mem'[g] = mem[g]
                                  /\ pending'[g] = pending[g]
    BY <1>2, <2>1 DEF TypeOK
  <2>4. QED
    BY <1>3, <2>1, <2>2, <2>3 DEF StoreKnowsFile
<1>13. QED
  BY <1>5, <1>6, <1>8, <1>9, <1>10, <1>11, <1>12

\* The file always opens again and holds no identity twice, also after refused
\* writes: a retried or repeated event never makes a store unreadable.
THEOREM FileReopens == Spec => []AlwaysReopens
<1>1. Init => StoreKnowsFile
  BY EmptySeq DEF Init, StoreKnowsFile, UniqueIds, IdsOf
<1>2. IInv /\ StoreKnowsFile /\ [Next]_vars => StoreKnowsFile'
  BY StoreKnowsFileStep
<1>3. IInv /\ StoreKnowsFile => AlwaysReopens
  <2>1. SUFFICES ASSUME IInv, StoreKnowsFile, hazards \subseteq {"io_error"}
                 PROVE  AlwaysReopens
    BY DEF AlwaysReopens
  <2>2. OwnTail /\ "overlap" \notin hazards /\ "torn_write" \notin hazards
    BY <2>1 DEF IInv
  <2>3. lines \in Seq(Event) /\ UniqueIds(lines)
    BY <2>1, <2>2 DEF StoreKnowsFile
  <2>4. QED
    BY <2>2, <2>3, ReadableAll DEF AlwaysReopens, OwnTail
<1>4. QED
  BY <1>1, <1>2, <1>3, InductiveInvariant, PTL DEF Spec

\* What a store lists is a line, or its own write was refused, or is under way:
\* the answer a retry gets from memory can be wrong about a refused event only.
Holds(s, e) == \E i \in 1..Len(s) : s[i] = e

MemoryIsAccounted ==
  "overlap" \notin hazards /\ "torn_write" \notin hazards =>
    \A h \in Handles : \A i \in 1..Len(mem[h]) :
      \/ Holds(lines, mem[h][i])
      \/ mem[h][i] \in refused
      \/ phase[h] \in {"appended", "writing"} /\ mem[h][i] = pending[h]

\* Lines are only added, and what an append lands is what it was to write.
LEMMA LinesOnlyGrow ==
  ASSUME IInv, [Next]_vars, "overlap" \notin hazards', "torn_write" \notin hazards'
  PROVE  /\ \A e : Holds(lines, e) => Holds(lines', e)
         /\ \A h \in Handles : EndPersist(h) => Holds(lines', pending[h])
<1>1. TypeOK /\ OwnTail /\ "overlap" \notin hazards /\ "torn_write" \notin hazards
  BY HazardsGrow DEF IInv
<1>2. ASSUME NEW h \in Handles, EndPersist(h)
      PROVE  lines' = lines \o <<pending[h]>>
  <2>1. phase[h] = "writing"
    BY <1>2 DEF EndPersist
  <2>2. tail = <<[by |-> h, event |-> pending[h], state |-> "live"]>>
    BY <1>1, <2>1 DEF OwnTail
  <2>3. Len(tail) = 1 /\ 1 \in OwnFragments(h)
    BY <2>2 DEF OwnFragments
  <2>4. QED
    BY <1>2, <2>3 DEF EndPersist, EndedLines
<1>3. ASSUME NEW h \in Handles, EndPersist(h)
      PROVE  /\ Len(lines') = Len(lines) + 1 /\ Len(lines) \in Nat
             /\ lines'[Len(lines) + 1] = pending[h]
             /\ \A i \in 1..Len(lines) : lines'[i] = lines[i]
  <2>1. lines \in Seq(Event \cup {Garbled}) /\ pending[h] \in Event
    BY <1>1 DEF TypeOK
  <2>2. lines' = lines \o <<pending[h]>>
    BY <1>2, <1>3
  <2>3. QED
    BY <2>1, <2>2
<1>4. lines' = lines \/ \E h \in Handles : EndPersist(h)
  BY StepCases DEF logvars, Open, append_event, append_new_remote_event, MemoryAppend,
     BeginPersist, PersistFails, Stop
<1>5. \A e : Holds(lines, e) => Holds(lines', e)
  <2>1. CASE lines' = lines
    BY <2>1 DEF Holds
  <2>2. ASSUME NEW h \in Handles, EndPersist(h)
        PROVE  \A e : Holds(lines, e) => Holds(lines', e)
    BY <2>2, <1>3 DEF Holds
  <2>3. QED
    BY <1>4, <2>1, <2>2
<1>6. QED
  BY <1>3, <1>5 DEF Holds

LEMMA MemoryIsAccountedStep ==
  ASSUME IInv, StoreKnowsFile, MemoryIsAccounted, [Next]_vars
  PROVE  MemoryIsAccounted'
<1>1. SUFFICES ASSUME "overlap" \notin hazards', "torn_write" \notin hazards',
                      NEW g \in Handles, NEW i \in 1..Len(mem'[g])
               PROVE  \/ Holds(lines', mem'[g][i])
                      \/ mem'[g][i] \in refused'
                      \/ phase'[g] \in {"appended", "writing"} /\ mem'[g][i] = pending'[g]
  BY DEF MemoryIsAccounted, Holds
<1>2. /\ "overlap" \notin hazards /\ "torn_write" \notin hazards
      /\ TypeOK /\ SoleHandle /\ OwnTail
  BY <1>1, HazardsGrow DEF IInv
<1>3. \A j \in 1..Len(mem[g]) :
        \/ Holds(lines', mem[g][j])
        \/ mem[g][j] \in refused
        \/ phase[g] \in {"appended", "writing"} /\ mem[g][j] = pending[g]
  BY <1>1, <1>2, LinesOnlyGrow DEF MemoryIsAccounted
<1>4. refused \subseteq refused'
  BY DEF Next, vars, Open, append_event, append_verified_remote_event, append_new_remote_event,
     append_known_remote_event, MemoryAppend, BeginPersist, EndPersist, PersistFails, Stop
<1>5. CASE mem'[g] = mem[g] /\ phase'[g] = phase[g] /\ pending'[g] = pending[g]
  BY <1>1, <1>3, <1>4, <1>5
<1>6. CASE UNCHANGED logvars
  BY <1>5, <1>6 DEF logvars
<1>7. SUFFICES ASSUME NEW h \in Handles,
                      \/ Open(h) \/ append_event(h) \/ append_new_remote_event(h)
                      \/ BeginPersist(h) \/ EndPersist(h) \/ PersistFails(h) \/ Stop(h)
               PROVE  \/ Holds(lines', mem'[g][i])
                      \/ mem'[g][i] \in refused'
                      \/ phase'[g] \in {"appended", "writing"} /\ mem'[g][i] = pending'[g]
  BY <1>6, StepCases
<1>8. CASE g # h
  <2>1. mem'[g] = mem[g] /\ phase'[g] = phase[g] /\ pending'[g] = pending[g]
    BY <1>2, <1>7, <1>8 DEF Open, append_event, append_new_remote_event, MemoryAppend,
       BeginPersist, EndPersist, PersistFails, Stop, Return, TypeOK
  <2>2. QED
    BY <1>5, <2>1
<1>9. CASE g = h /\ Open(h)
  <2>1. \A k \in Handles : phase[k] = "closed"
    BY <1>1, <1>9 DEF Open
  <2>2. tail = << >>
    BY <1>2, <2>1 DEF OwnTail
  <2>3. mem' = [mem EXCEPT ![h] = load_inner_from_disk(lines \o << >>)] /\ lines' = lines
    BY <1>9, <2>2 DEF Open, TailReadings
  <2>4. lines \in Seq(Event) /\ UniqueIds(lines)
    BY <1>2 DEF StoreKnowsFile
  <2>5. load_inner_from_disk(lines \o << >>) = lines
    BY <2>4, ConcatEmptySeq, LoadIdentity
  <2>6. mem'[g] = lines
    BY <1>2, <1>9, <2>3, <2>5 DEF TypeOK
  <2>7. QED
    BY <1>1, <2>3, <2>6 DEF Holds
<1>10. CASE g = h /\ (append_event(h) \/ append_new_remote_event(h))
  <2>1. PICK e : MemoryAppend(h, e)
    BY <1>10 DEF append_event, append_new_remote_event
  <2>2. /\ phase[g] = "open" /\ mem'[g] = Append(mem[g], e) /\ pending'[g] = e
        /\ phase'[g] = "appended"
    BY <1>2, <1>10, <2>1 DEF MemoryAppend, TypeOK
  <2>3. mem[g] \in Seq(Event)
    BY <1>2 DEF TypeOK
  <2>4. /\ Len(mem'[g]) = Len(mem[g]) + 1 /\ Len(mem[g]) \in Nat
        /\ mem'[g][Len(mem[g]) + 1] = e
        /\ \A j \in 1..Len(mem[g]) : mem'[g][j] = mem[g][j]
    BY <2>2, <2>3
  <2>5. CASE i = Len(mem[g]) + 1
    BY <2>2, <2>4, <2>5
  <2>6. CASE i \in 1..Len(mem[g])
    BY <1>3, <1>4, <2>2, <2>4, <2>6
  <2>7. QED
    BY <1>1, <2>4, <2>5, <2>6
<1>11. CASE g = h /\ BeginPersist(h)
  <2>1. mem'[g] = mem[g] /\ pending'[g] = pending[g] /\ phase'[g] = "writing"
    BY <1>2, <1>11 DEF BeginPersist, TypeOK
  <2>2. QED
    BY <1>1, <1>3, <1>4, <2>1
<1>12. CASE g = h /\ EndPersist(h)
  <2>1. mem'[g] = mem[g]
    BY <1>12 DEF EndPersist
  <2>2. Holds(lines', pending[g])
    BY <1>1, <1>12, LinesOnlyGrow
  <2>3. QED
    BY <1>1, <1>3, <1>4, <2>1, <2>2 DEF Holds
<1>13. CASE g = h /\ PersistFails(h)
  <2>1. mem'[g] = mem[g] /\ pending[g] \in refused'
    BY <1>13 DEF PersistFails
  <2>2. QED
    BY <1>1, <1>3, <1>4, <2>1
<1>14. CASE g = h /\ Stop(h)
  <2>1. mem'[g] = << >>
    BY <1>2, <1>14 DEF Stop, TypeOK
  <2>2. QED
    BY <1>1, <2>1
<1>15. QED
  BY <1>7, <1>8, <1>9, <1>10, <1>11, <1>12, <1>13, <1>14

\* An append that returned Ok, now or on a retry answered from memory, stays a line
\* of the file, unless the disk refused that very event: a refused write costs no
\* earlier and no later append, only a torn write or a second open store does.
THEOREM AckedStays == Spec => []AckedIsDurable
<1> DEFINE Kept == /\ StoreKnowsFile /\ MemoryIsAccounted
                   /\ "overlap" \notin hazards /\ "torn_write" \notin hazards =>
                        \A e \in acked : e \in refused \/ Holds(lines, e)
<1>1. Init => Kept
  BY EmptySeq DEF Init, StoreKnowsFile, MemoryIsAccounted, UniqueIds, IdsOf
<1>2. IInv /\ Kept /\ [Next]_vars => Kept'
  <2>1. SUFFICES ASSUME IInv, Kept, [Next]_vars
                 PROVE  Kept'
    OBVIOUS
  <2>2. StoreKnowsFile' /\ MemoryIsAccounted'
    BY <2>1, StoreKnowsFileStep, MemoryIsAccountedStep
  <2>3. ASSUME "overlap" \notin hazards', "torn_write" \notin hazards',
               NEW e \in acked'
        PROVE  e \in refused' \/ Holds(lines', e)
    <3>1. "overlap" \notin hazards /\ "torn_write" \notin hazards
      BY <2>1, <2>3, HazardsGrow
    <3>2. refused \subseteq refused'
      BY <2>1 DEF Next, vars, Open, append_event, append_verified_remote_event,
         append_new_remote_event, append_known_remote_event, MemoryAppend, BeginPersist,
         EndPersist, PersistFails, Stop
    <3>3. CASE e \in acked
      BY <2>1, <2>3, <3>1, <3>2, <3>3, LinesOnlyGrow
    <3>4. ASSUME NEW h \in Handles, EndPersist(h), e \notin acked
          PROVE  Holds(lines', e)
      <4>1. e = pending[h]
        BY <2>3, <3>4 DEF EndPersist
      <4>2. QED
        BY <2>1, <2>3, <3>4, <4>1, LinesOnlyGrow
    <3>5. ASSUME NEW h \in Handles, append_known_remote_event(h), e \notin acked
          PROVE  e \in refused \/ Holds(lines, e)
      <4>1. PICK i \in 1..Len(mem[h]) : e = mem[h][i]
        BY <2>3, <3>5 DEF append_known_remote_event
      <4>2. phase[h] = "open"
        BY <3>5 DEF append_known_remote_event
      <4>3. QED
        BY <2>1, <3>1, <4>1, <4>2 DEF MemoryIsAccounted
    <3>6. \/ acked' = acked
          \/ \E h \in Handles : EndPersist(h) \/ append_known_remote_event(h)
      BY <2>1 DEF Next, vars, Open, append_event, append_verified_remote_event,
         append_new_remote_event, MemoryAppend, BeginPersist, PersistFails, Stop
    <3>7. QED
      BY <2>1, <2>3, <3>2, <3>3, <3>4, <3>5, <3>6, LinesOnlyGrow
  <2>4. QED
    BY <2>2, <2>3 DEF Holds
<1>3. Kept => AckedIsDurable
  BY DEF AckedIsDurable, Holds
<1>4. QED
  <2> HIDE DEF Kept
  <2>1. QED
    BY <1>1, <1>2, <1>3, InductiveInvariant, PTL DEF Spec

\* An event that lands is an extension the abstract log allows.
LEMMA LandingExtends ==
  ASSUME IInv, hazards = {}, EventLanded
  PROVE  [Official!Next]_lines
<1>1. FileIsChain /\ PendingExtends /\ TypeOK
  BY DEF IInv
<1>2. ASSUME NEW h \in Handles, phase[h] = "writing", lines' = Append(lines, pending[h])
      PROVE  Official!Next
  <2>1. /\ pending[h] \in Event /\ hash_is_valid(pending[h])
        /\ pending[h].prev = HeadOf(lines) /\ pending[h].id \notin IdsOf(lines)
    BY <1>1, <1>2 DEF PendingExtends, TypeOK
  <2>2. pending[h] = from_new(pending[h].id, HeadOf(lines))
    BY <2>1 DEF Event, hash_is_valid, from_new
  <2>3. pending[h].id \in EventIds
    BY <2>1 DEF Event
  <2>4. Official!Extend(from_new(pending[h].id, HeadOf(lines)))
    BY <1>2, <2>1, <2>2 DEF Official!Extend, Official!hash_is_valid, hash_is_valid,
       Official!HeadOf, HeadOf, Official!IdsOf, IdsOf, Official!calculate_hash,
       calculate_hash, Official!NoHash, NoHash
  <2>5. QED
    BY <2>3, <2>4 DEF Official!Next, Official!from_new, from_new, Official!HeadOf, HeadOf,
       Official!calculate_hash, calculate_hash, Official!NoHash, NoHash
<1>3. QED
  BY <1>2 DEF EventLanded

\* ADR 0001 as a refinement: a store nobody else opens, on a disk that completes
\* every write it begins, implements the abstract log.
THEOREM SoleStoreImplementsOfficialLog ==
  ASSUME Faults = {}, \A g, h \in Handles : g = h
  PROVE  Spec => ImplementsOfficialLog
<1> DEFINE Quiet == hazards = {}
<1>1. Init => Quiet /\ Official!Init
  BY DEF Init, Official!Init
<1>2. Quiet /\ [Next]_vars => Quiet'
  BY DEF Next, vars, Open, append_event, append_verified_remote_event, append_new_remote_event,
     append_known_remote_event, MemoryAppend,
     BeginPersist, EndPersist, PersistFails, Stop
<1>3. IInv /\ Quiet /\ [Next]_vars => [Official!Next]_lines
  <2>1. SUFFICES ASSUME IInv, hazards = {}, [Next]_vars
                 PROVE  [Official!Next]_lines
    OBVIOUS
  <2>2. EventLanded
    BY <1>2, <2>1, QuietStep
  <2>3. QED
    BY <2>1, <2>2, LandingExtends
<1>4. QED
  <2> HIDE DEF Quiet
  <2>1. QED
    BY <1>1, <1>2, <1>3, InductiveInvariant, PTL DEF Spec, ImplementsOfficialLog, Official!Spec

-----------------------------------------------------------------------------
(***************************************************************************)
(* Torn writes: what is left of the chain after processes died.            *)
(***************************************************************************)

\* A verified chain of events whose identities are in ids, each used once.
IsChain(s, ids) ==
  /\ s \in Seq(Event)
  /\ verify_chain(s, HeadOf(s))
  /\ UniqueIds(s)
  /\ IdsOf(s) \subseteq ids

Clean == \A i \in 1..Len(lines) : lines[i] # Garbled

\* What h lists is the file, its end read as some reading, and the event being
\* appended.  A handle that writes behind an old fragment ends a garbled line.
FollowsFile(h) ==
  /\ phase[h] = "open" => \E end \in TailReadings : mem[h] = lines \o end
  /\ phase[h] = "appended" =>
       \E end \in TailReadings : mem[h] = Append(lines \o end, pending[h])
  /\ phase[h] = "writing" =>
       /\ tail # << >>
       /\ Len(tail) = 1 =>
            /\ tail[1] = [by |-> h, event |-> pending[h], state |-> "live"]
            /\ mem[h] = Append(lines, pending[h])

MemoriesAreChains == \A h \in Handles : IsChain(mem[h], minted)

\* As long as every line parses, a store can only load a chain.
CleanFileIsChain ==
  /\ IsChain(lines, minted)
  /\ \A end \in TailReadings : IsChain(lines \o end, minted)
  /\ \A h \in Handles : FollowsFile(h)

TornInv ==
  hazards \subseteq {"torn_write"} =>
    /\ verify_chain(Readable, HeadOf(Readable))
    /\ MemoriesAreChains
    /\ Clean => CleanFileIsChain

\* The lines of s that can be read, as Readable of the file.
Stops(s, n) ==
  /\ \A i \in 1..n : s[i] # Garbled
  /\ n = Len(s) \/ s[n + 1] = Garbled

ReadablePart(s) == SubSeq(s, 1, CHOOSE n \in 0..Len(s) : Stops(s, n))

LEMMA ReadableUpTo ==
  ASSUME NEW s \in Seq(Event \cup {Garbled}), NEW n \in 0..Len(s), Stops(s, n)
  PROVE  ReadablePart(s) = SubSeq(s, 1, n)
<1>1. Len(s) \in Nat
  BY LenProperties
<1>2. ASSUME NEW m \in 0..Len(s), Stops(s, m)
      PROVE  m = n
  <2>1. CASE m < n
    BY <1>1, <1>2, <2>1 DEF Stops
  <2>2. CASE n < m
    BY <1>1, <1>2, <2>2 DEF Stops
  <2>3. QED
    BY <1>1, <2>1, <2>2
<1>3. (CHOOSE m \in 0..Len(s) : Stops(s, m)) = n
  BY <1>2
<1>4. QED
  BY <1>3 DEF ReadablePart

LEMMA ReadableEnds ==
  ASSUME NEW s \in Seq(Event \cup {Garbled})
  PROVE  \E n \in 0..Len(s) : Stops(s, n)
<1> DEFINE G == {i \in 1..Len(s) : s[i] = Garbled}
<1>1. Len(s) \in Nat
  BY LenProperties
<1>2. CASE G = {}
  BY <1>1, <1>2 DEF Stops
<1>3. CASE G # {}
  <2>1. G \subseteq Nat
    BY <1>1
  <2>2. PICK j \in G : \A k \in G : j <= k
    <3> HIDE DEF G
    <3>1. QED
      BY <1>3, <2>1, LeastNumber
  <2>3. j - 1 \in 0..Len(s) /\ (j - 1) + 1 = j
    BY <1>1
  <2>4. \A i \in 1..(j - 1) : s[i] # Garbled
    BY <1>1, <2>2
  <2>5. QED
    BY <2>2, <2>3, <2>4 DEF Stops
<1>4. QED
  BY <1>2, <1>3

\* Behind a garbled line, and with one, nothing more can be read.
LEMMA ReadableStays ==
  ASSUME NEW s \in Seq(Event \cup {Garbled}), NEW t \in Seq(Event \cup {Garbled}),
         (\E i \in 1..Len(s) : s[i] = Garbled) \/ t = <<Garbled>>
  PROVE  ReadablePart(s \o t) = ReadablePart(s)
<1>1. PICK n \in 0..Len(s) : Stops(s, n)
  BY ReadableEnds
<1>2. /\ s \o t \in Seq(Event \cup {Garbled}) /\ Len(s \o t) = Len(s) + Len(t)
      /\ Len(s) \in Nat /\ Len(t) \in Nat
      /\ \A i \in 1..Len(s) : (s \o t)[i] = s[i]
      /\ t # << >> => (s \o t)[Len(s) + 1] = t[1]
  BY ConcatProperties, LenProperties, EmptySeq
<1>3. n \in 0..Len(s \o t) /\ \A i \in 1..n : (s \o t)[i] # Garbled
  BY <1>1, <1>2 DEF Stops
<1>4. n = Len(s \o t) \/ (s \o t)[n + 1] = Garbled
  <2>1. CASE n = Len(s)
    <3>1. t = <<Garbled>>
      BY <1>1, <2>1 DEF Stops
    <3>2. QED
      BY <1>2, <2>1, <3>1
  <2>2. CASE n # Len(s)
    BY <1>1, <1>2, <2>2 DEF Stops
  <2>3. QED
    BY <2>1, <2>2
<1>5. ReadablePart(s \o t) = SubSeq(s \o t, 1, n)
  BY <1>2, <1>3, <1>4, ReadableUpTo DEF Stops
<1>6. ReadablePart(s) = SubSeq(s, 1, n)
  BY <1>1, ReadableUpTo
<1>7. SubSeq(s \o t, 1, n) = SubSeq(s, 1, n)
  BY <1>2
<1>8. QED
  BY <1>5, <1>6, <1>7

\* Adding a linked event with a new identity keeps a chain.
LEMMA ChainAppend ==
  ASSUME NEW s, NEW ids, IsChain(s, ids), NEW e \in Event,
         hash_is_valid(e), e.prev = HeadOf(s), e.id \notin IdsOf(s)
  PROVE  IsChain(Append(s, e), ids \cup {e.id})
<1>1. s \in Seq(Event) /\ verify_chain(s, HeadOf(s)) /\ UniqueIds(s) /\ IdsOf(s) \subseteq ids
  BY DEF IsChain
<1> DEFINE t == Append(s, e)
<1>2. t \in Seq(Event) /\ verify_chain(t, HeadOf(t)) /\ UniqueIds(t)
  BY <1>1, ChainExtends, UniqueExtends, AppendProperties
<1>3. IdsOf(t) \subseteq ids \cup {e.id}
  BY <1>1, IdsExtend
<1>4. QED
  BY <1>2, <1>3 DEF IsChain

LEMMA ChainStays ==
  ASSUME NEW s, NEW ids, IsChain(s, ids), NEW more, ids \subseteq more
  PROVE  IsChain(s, more)
BY DEF IsChain

\* A handle appends to its memory; the file is as before.
LEMMA TornMemoryAppend ==
  ASSUME TypeOK, NEW h \in Handles, \A g \in Handles : g # h => phase[g] = "closed",
         verify_chain(Readable, HeadOf(Readable)), MemoriesAreChains,
         Clean => CleanFileIsChain,
         NEW e \in Event, MemoryAppend(h, e), minted' = minted \cup {e.id},
         hash_is_valid(e), e.prev = HeadOf(mem[h]), e.id \notin IdsOf(mem[h])
  PROVE  TornInv'
<1>1. /\ phase[h] = "open" /\ phase' = [phase EXCEPT ![h] = "appended"]
      /\ lines' = lines /\ tail' = tail /\ pending' = [pending EXCEPT ![h] = e]
      /\ mem' = [mem EXCEPT ![h] = Append(@, e)]
  BY DEF MemoryAppend
<1>2. /\ mem'[h] = Append(mem[h], e) /\ pending'[h] = e /\ phase'[h] = "appended"
      /\ \A g \in Handles : g # h => mem'[g] = mem[g] /\ phase'[g] = "closed"
  BY <1>1 DEF TypeOK
<1>3. Readable' = Readable /\ Clean' = Clean /\ TailReadings' = TailReadings
  BY <1>1 DEF Readable, Clean, TailReadings
<1>4. MemoriesAreChains'
  <2>1. IsChain(mem'[h], minted')
    <3>1. IsChain(mem[h], minted)
      BY DEF MemoriesAreChains
    <3>2. IsChain(Append(mem[h], e), minted \cup {e.id})
      BY ONLY <3>1, ChainAppend, e \in Event, hash_is_valid(e), e.prev = HeadOf(mem[h]),
              e.id \notin IdsOf(mem[h])
    <3>3. QED
      BY <1>2, <3>2
  <2>2. ASSUME NEW g \in Handles, g # h
        PROVE  IsChain(mem'[g], minted')
    BY <1>2, <2>2, ChainStays DEF MemoriesAreChains
  <2>3. QED
    BY <2>1, <2>2 DEF MemoriesAreChains
<1>5. ASSUME Clean
      PROVE  CleanFileIsChain'
  <2>1. CleanFileIsChain
    BY <1>5
  <2>2. IsChain(lines', minted') /\ \A end \in TailReadings' : IsChain(lines' \o end, minted')
    BY <1>1, <1>3, <2>1, ChainStays DEF CleanFileIsChain
  <2>3. \E end \in TailReadings : mem[h] = lines \o end
    BY <1>1, <2>1 DEF CleanFileIsChain, FollowsFile
  <2>4. \A g \in Handles : FollowsFile(g)'
    BY <1>1, <1>2, <1>3, <2>3 DEF FollowsFile
  <2>5. QED
    BY <2>2, <2>4 DEF CleanFileIsChain
<1>6. QED
  BY <1>3, <1>4, <1>5 DEF TornInv

\* A store opens a file of lines that parse: it lists them and what the end reads as.
LEMMA TornOpen ==
  ASSUME TypeOK, NEW h \in Handles, \A g \in Handles : g # h => phase[g] = "closed",
         verify_chain(Readable, HeadOf(Readable)), MemoriesAreChains,
         Clean => CleanFileIsChain, Open(h)
  PROVE  TornInv'
<1>1. /\ Clean /\ phase' = [phase EXCEPT ![h] = "open"]
      /\ lines' = lines /\ tail' = tail /\ pending' = pending /\ minted' = minted
  BY DEF Open, Clean
<1>2. PICK end \in TailReadings : mem' = [mem EXCEPT ![h] = load_inner_from_disk(lines \o end)]
  BY DEF Open
<1>3. CleanFileIsChain /\ IsChain(lines \o end, minted)
  BY <1>1, <1>2 DEF CleanFileIsChain
<1>4. load_inner_from_disk(lines \o end) = lines \o end
  BY <1>3, LoadIdentity DEF IsChain
<1>5. /\ mem'[h] = lines \o end /\ phase'[h] = "open"
      /\ \A g \in Handles : g # h => mem'[g] = mem[g] /\ phase'[g] = "closed"
  BY <1>1, <1>2, <1>4 DEF TypeOK
<1>6. Readable' = Readable /\ TailReadings' = TailReadings
  BY <1>1 DEF Readable, TailReadings
<1>7. MemoriesAreChains'
  BY <1>1, <1>3, <1>5 DEF MemoriesAreChains
<1>8. \A g \in Handles : FollowsFile(g)'
  BY <1>1, <1>2, <1>5, <1>6 DEF FollowsFile
<1>9. CleanFileIsChain'
  BY <1>1, <1>3, <1>6, <1>8 DEF CleanFileIsChain
<1>10. QED
  BY <1>6, <1>7, <1>9 DEF TornInv

\* The event goes to the end of the file, alone or behind an old fragment.
LEMMA TornBegin ==
  ASSUME TypeOK, NEW h \in Handles, \A g \in Handles : g # h => phase[g] = "closed",
         verify_chain(Readable, HeadOf(Readable)), MemoriesAreChains,
         Clean => CleanFileIsChain, BeginPersist(h)
  PROVE  TornInv'
<1> DEFINE own == [by |-> h, event |-> pending[h], state |-> "live"]
<1>1. /\ phase[h] = "appended" /\ phase' = [phase EXCEPT ![h] = "writing"]
      /\ lines' = lines /\ tail' = Append(tail, own) /\ pending' = pending
      /\ mem' = mem /\ minted' = minted
  BY DEF BeginPersist
<1>2. phase'[h] = "writing" /\ \A g \in Handles : g # h => phase'[g] = "closed"
  BY <1>1 DEF TypeOK
<1>3. Readable' = Readable /\ Clean' = Clean
  BY <1>1 DEF Readable, Clean
<1>4. MemoriesAreChains'
  BY <1>1 DEF MemoriesAreChains
<1>5. Len(tail) \in Nat /\ Len(tail') = Len(tail) + 1 /\ tail' # << >>
  <2>1. own \in Fragment
    BY DEF Fragment, TypeOK
  <2>2. tail \in Seq(Fragment)
    BY DEF TypeOK
  <2> HIDE DEF own
  <2>3. QED
    BY <1>1, <2>1, <2>2, LenProperties, AppendProperties
<1>6. ASSUME Clean
      PROVE  CleanFileIsChain'
  <2>1. CleanFileIsChain
    BY <1>6
  <2>2. PICK end \in TailReadings : mem[h] = Append(lines \o end, pending[h])
    BY <1>1, <2>1 DEF CleanFileIsChain, FollowsFile
  <2>3. CASE tail = << >>
    <3>1. end = << >>
      BY <2>2, <2>3 DEF TailReadings
    <3>2. lines \in Seq(Event) /\ pending[h] \in Event
      BY <2>1 DEF CleanFileIsChain, IsChain, TypeOK
    <3>3. lines \o end = lines
      BY <3>1, <3>2, ConcatEmptySeq
    <3>4. mem[h] = Append(lines, pending[h])
      BY <2>2, <3>3
    <3>5. tail' = <<own>>
      BY <1>1, <2>3
    <3>6. Len(tail') = 1 /\ tail'[1] = own
      BY <3>5
    <3>7. TailReadings' = {<<pending[h]>>}
      BY <1>5, <3>6 DEF TailReadings
    <3>8. lines \o <<pending[h]>> = mem[h]
      BY <3>2, <3>4
    <3>9. IsChain(mem[h], minted)
      BY DEF MemoriesAreChains
    <3>10. \A g \in Handles : FollowsFile(g)'
      BY <1>1, <1>2, <1>5, <3>4, <3>6 DEF FollowsFile
    <3>11. QED
      BY <1>1, <2>1, <3>7, <3>8, <3>9, <3>10 DEF CleanFileIsChain
  <2>4. CASE tail # << >>
    <3>1. Len(tail') # 1
      BY <1>5, <2>4, EmptySeq, LenProperties DEF TypeOK
    <3>2. TailReadings' = {}
      BY <1>5, <3>1 DEF TailReadings
    <3>3. \A g \in Handles : FollowsFile(g)'
      BY <1>1, <1>2, <1>5, <3>1 DEF FollowsFile
    <3>4. QED
      BY <1>1, <2>1, <3>2, <3>3 DEF CleanFileIsChain
  <2>5. QED
    BY <2>3, <2>4
<1>7. QED
  BY <1>3, <1>4, <1>6 DEF TornInv

\* The newline: the event is a line of the file, or the line is garbled.
LEMMA TornEnd ==
  ASSUME TypeOK, NEW h \in Handles, \A g \in Handles : g # h => phase[g] = "closed",
         verify_chain(Readable, HeadOf(Readable)), MemoriesAreChains,
         Clean => CleanFileIsChain, EndPersist(h)
  PROVE  TornInv'
<1>1. /\ phase[h] = "writing" /\ phase' = [phase EXCEPT ![h] = "open"]
      /\ tail' = << >> /\ mem' = mem /\ minted' = minted
  BY DEF EndPersist, Return
<1>2. phase'[h] = "open" /\ \A g \in Handles : g # h => phase'[g] = "closed"
  BY <1>1 DEF TypeOK
<1>3. PICK ended \in EndedLines(h) : lines' = lines \o ended
  BY DEF EndPersist
<1>4. MemoriesAreChains'
  BY <1>1 DEF MemoriesAreChains
<1>5. TypeOK'
  BY TypeStep DEF Next
<1>6. lines \in Seq(Event \cup {Garbled}) /\ pending[h] \in Event
  BY DEF TypeOK
<1>7. ended \in Seq(Event \cup {Garbled})
  <2>1. <<pending[h]>> \in Seq(Event \cup {Garbled}) /\ <<Garbled>> \in Seq(Event \cup {Garbled})
    BY <1>6
  <2>2. TailReadings \subseteq Seq(Event \cup {Garbled})
    <3>1. Seq(Event) \subseteq Seq(Event \cup {Garbled})
      BY SeqDef
    <3>2. QED
      BY <3>1, TailReadingsType DEF TypeOK
  <2>3. QED
    BY <1>3, <2>1, <2>2 DEF EndedLines
<1>8. TailReadings' = {<< >>}
  BY <1>1 DEF TailReadings
<1>9. CASE ~ Clean
  <2>1. ReadablePart(lines') = ReadablePart(lines)
    BY <1>3, <1>6, <1>7, <1>9, ReadableStays DEF Clean
  <2>2. Readable' = Readable
    BY <2>1 DEF Readable, ReadablePart, Stops
  <2>3. ~ Clean'
    <3>1. PICK i \in 1..Len(lines) : lines[i] = Garbled
      BY <1>9 DEF Clean
    <3>2. i \in 1..Len(lines') /\ lines'[i] = Garbled
      BY <1>3, <1>6, <1>7, <3>1
    <3>3. QED
      BY <3>2 DEF Clean
  <2>4. QED
    BY <1>4, <2>2, <2>3 DEF TornInv
<1>10. CASE Clean /\ ended = <<Garbled>>
  <2>1. ReadablePart(lines') = ReadablePart(lines)
    BY <1>3, <1>6, <1>7, <1>10, ReadableStays
  <2>2. Readable' = Readable
    BY <2>1 DEF Readable, ReadablePart, Stops
  <2>3. ~ Clean'
    <3>1. Len(lines) + 1 \in 1..Len(lines') /\ lines'[Len(lines) + 1] = Garbled
      BY <1>3, <1>6, <1>7, <1>10
    <3>2. QED
      BY <3>1 DEF Clean
  <2>4. QED
    BY <1>4, <2>2, <2>3 DEF TornInv
<1>11. CASE Clean /\ ended # <<Garbled>>
  <2>1. CleanFileIsChain
    BY <1>11
  <2>2. /\ tail # << >>
        /\ Len(tail) = 1 =>
             /\ tail[1] = [by |-> h, event |-> pending[h], state |-> "live"]
             /\ mem[h] = Append(lines, pending[h])
    BY <1>1, <2>1 DEF CleanFileIsChain, FollowsFile
  <2>3. Len(tail) = 1
    <3>1. CASE Len(tail) # 1
      <4>1. TailReadings = {}
        BY <2>2, <3>1 DEF TailReadings
      <4>2. QED
        BY <1>3, <1>11, <3>1, <4>1 DEF EndedLines
    <3>2. QED
      BY <3>1
  <2>4. 1 \in OwnFragments(h)
    BY <2>2, <2>3 DEF OwnFragments
  <2>5. ended = <<pending[h]>>
    BY <1>3, <2>3, <2>4 DEF EndedLines
  <2>6. lines' = mem[h] /\ mem'[h] = lines'
    <3>1. lines \o <<pending[h]>> = Append(lines, pending[h])
      BY <1>6
    <3>2. mem[h] = Append(lines, pending[h])
      BY <2>2, <2>3
    <3>3. QED
      BY <1>1, <1>3, <2>5, <3>1, <3>2
  <2>7. IsChain(lines', minted')
    BY <1>1, <2>6 DEF MemoriesAreChains
  <2>8. lines' \in Seq(Event) /\ verify_chain(lines', HeadOf(lines'))
    BY <2>7 DEF IsChain
  <2>9. lines' \o << >> = lines'
    BY <2>8, ConcatEmptySeq
  <2>10. \A g \in Handles : FollowsFile(g)'
    BY <1>2, <1>8, <2>6, <2>9 DEF FollowsFile
  <2>11. CleanFileIsChain'
    BY <1>8, <2>7, <2>9, <2>10 DEF CleanFileIsChain
  <2>12. Readable' = lines'
    <3>1. Len(lines') \in Nat /\ \A i \in 1..Len(lines') : lines'[i] # Garbled
      BY <2>8, GarbledAssumption, LenProperties, ElementOfSeq
    <3>2. Stops(lines', Len(lines')) /\ Len(lines') \in 0..Len(lines')
      BY <3>1 DEF Stops
    <3>3. ReadablePart(lines') = SubSeq(lines', 1, Len(lines'))
      BY <1>5, <3>2, ReadableUpTo DEF TypeOK
    <3>4. SubSeq(lines', 1, Len(lines')) = lines'
      BY <2>8
    <3>5. QED
      BY <3>3, <3>4 DEF Readable, ReadablePart, Stops
  <2>13. QED
    BY <1>4, <2>8, <2>11, <2>12 DEF TornInv
<1>12. QED
  BY <1>9, <1>10, <1>11

\* The process dies: a fragment may be left, which reads as its event or not at all.
LEMMA TornStop ==
  ASSUME TypeOK, NEW h \in Handles, \A g \in Handles : g # h => phase[g] = "closed",
         verify_chain(Readable, HeadOf(Readable)), MemoriesAreChains,
         Clean => CleanFileIsChain, Stop(h)
  PROVE  TornInv'
<1>1. /\ phase' = [phase EXCEPT ![h] = "closed"] /\ mem' = [mem EXCEPT ![h] = << >>]
      /\ lines' = lines /\ minted' = minted
      /\ tail' = tail \/ \E state \in {"cut", "whole"} : Abandon(h, state)
  BY DEF Stop
<1>2. Readable' = Readable /\ Clean' = Clean
  BY <1>1 DEF Readable, Clean
<1>3. \A g \in Handles : phase'[g] = "closed"
  BY <1>1 DEF TypeOK
<1>4. MemoriesAreChains'
  <2>1. IsChain(<< >>, minted)
    BY EmptySeq DEF IsChain, verify_chain, UniqueIds, IdsOf
  <2>2. \A g \in Handles : mem'[g] = << >> \/ mem'[g] = mem[g]
    BY <1>1 DEF TypeOK
  <2>3. QED
    BY <1>1, <2>1, <2>2 DEF MemoriesAreChains
<1>5. TailReadings' \subseteq TailReadings
  <2>1. CASE tail' = tail
    BY <2>1 DEF TailReadings
  <2>2. ASSUME NEW state \in {"cut", "whole"}, Abandon(h, state)
        PROVE  TailReadings' \subseteq TailReadings
    <3>1. tail \in Seq(Fragment) /\ Len(tail) \in Nat
      BY LenProperties DEF TypeOK
    <3>2. Len(tail') = Len(tail) /\ (tail = << >> => tail' = << >>) /\ (tail' = << >> => tail = << >>)
      BY <2>2, <3>1 DEF Abandon
    <3>3. ASSUME Len(tail) = 1
          PROVE  /\ tail'[1].event = tail[1].event
                 /\ tail[1].state = "cut" => tail'[1].state = "cut"
      <4>1. tail[1] \in Fragment
        BY <3>1, <3>3, ElementOfSeq
      <4>2. tail'[1] = IF 1 \in OwnFragments(h) THEN [tail[1] EXCEPT !.state = state] ELSE tail[1]
        BY <2>2, <3>3 DEF Abandon
      <4>3. 1 \in OwnFragments(h) => tail[1].state = "live"
        BY DEF OwnFragments
      <4>4. QED
        BY <4>1, <4>2, <4>3 DEF Fragment
    <3>4. QED
      BY <3>2, <3>3 DEF TailReadings
  <2>3. QED
    BY <1>1, <2>1, <2>2
<1>6. \A g \in Handles : FollowsFile(g)'
  BY <1>3 DEF FollowsFile
<1>7. Clean => CleanFileIsChain'
  BY <1>1, <1>5, <1>6 DEF CleanFileIsChain
<1>8. QED
  BY <1>2, <1>4, <1>7 DEF TornInv

LEMMA TornStep ==
  ASSUME TypeOK, SoleHandle, TornInv, [Next]_vars
  PROVE  TornInv'
<1>1. CASE UNCHANGED logvars
  BY <1>1 DEF logvars, TornInv, Readable, MemoriesAreChains, Clean, CleanFileIsChain, FollowsFile, TailReadings
<1>2. SUFFICES ASSUME NEW h \in Handles,
                      \/ Open(h) \/ append_event(h) \/ append_new_remote_event(h)
                      \/ BeginPersist(h) \/ EndPersist(h) \/ PersistFails(h) \/ Stop(h),
                      hazards' \subseteq {"torn_write"}
               PROVE  TornInv'
  BY <1>1, StepCases DEF TornInv
<1>3. hazards \subseteq {"torn_write"} /\ hazards \subseteq hazards'
  BY <1>2, HazardsGrow DEF Next
<1>4. verify_chain(Readable, HeadOf(Readable)) /\ MemoriesAreChains /\ (Clean => CleanFileIsChain)
  BY <1>3 DEF TornInv
<1>5. \A g \in Handles : g # h => phase[g] = "closed"
  <2>1. CASE Open(h)
    BY <1>2, <2>1 DEF Open
  <2>2. CASE phase[h] # "closed"
    BY <1>3, <2>2 DEF SoleHandle
  <2>3. QED
    BY <1>2, <2>1, <2>2 DEF append_event, append_new_remote_event, MemoryAppend,
       BeginPersist, EndPersist, PersistFails, Stop
<1>6. CASE append_event(h)
  <2>1. PICK id \in EventIds \ minted : /\ MemoryAppend(h, from_new(id, HeadOf(mem[h])))
                                        /\ minted' = minted \cup {id}
    BY <1>6 DEF append_event
  <2>2. mem[h] \in Seq(Event) /\ IdsOf(mem[h]) \subseteq minted
    BY <1>4 DEF MemoriesAreChains, IsChain
  <2> DEFINE e == from_new(id, HeadOf(mem[h]))
  <2>3. e \in Event /\ hash_is_valid(e)
    BY <2>2, HashType, HeadType
  <2>4. e.id = id /\ e.prev = HeadOf(mem[h]) /\ e.id \notin IdsOf(mem[h])
    BY <2>1, <2>2 DEF from_new
  <2> HIDE DEF e
  <2>5. QED
    BY <1>4, <1>5, <2>1, <2>3, <2>4, TornMemoryAppend DEF e
<1>7. CASE append_new_remote_event(h)
  <2>1. PICK e \in RemoteOffers(h) :
          /\ RemoteOutcome(mem[h], HeadOf(mem[h]), e) = "appended"
          /\ MemoryAppend(h, e)
          /\ minted' = minted \cup {e.id}
    BY <1>7 DEF append_new_remote_event
  <2>2. e \in Event
    BY RemoteOffersType
  <2>3. hash_is_valid(e) /\ e.prev = HeadOf(mem[h]) /\ e.id \notin IdsOf(mem[h])
    BY <2>1 DEF RemoteOutcome, validate_supported_remote_event
  <2>4. QED
    BY <1>4, <1>5, <2>1, <2>2, <2>3, TornMemoryAppend
<1>8. CASE PersistFails(h)
  BY <1>2, <1>8 DEF PersistFails
<1>9. QED
  BY <1>2, <1>4, <1>5, <1>6, <1>7, <1>8, TornOpen, TornBegin, TornEnd, TornStop

(* A crash at any point of an append costs at most the event being written: *)
(* what can be read of the file is a verified chain, and so is what a store *)
(* lists.  (JsonlLogbookEventStore::open, persist_event, append_event.)     *)
THEOREM TornLogVerifies == Spec => []DurableChainVerifies
<1>1. Init => TornInv
  <2>1. SUFFICES ASSUME Init PROVE TornInv
    OBVIOUS
  <2>2. lines = << >> /\ tail = << >> /\ minted = {} /\ \A h \in Handles : mem[h] = << >> /\ phase[h] = "closed"
    BY <2>1 DEF Init
  <2>3. \A ids : IsChain(<< >>, ids)
    BY EmptySeq DEF IsChain, verify_chain, UniqueIds, IdsOf
  <2>4. Readable = << >>
    BY <2>2, EmptySeq, ReadableAll
  <2>5. TailReadings = {<< >>} /\ << >> \o << >> = << >>
    BY <2>2 DEF TailReadings
  <2>6. CleanFileIsChain /\ MemoriesAreChains
    BY <2>2, <2>3, <2>5 DEF CleanFileIsChain, MemoriesAreChains, FollowsFile
  <2>7. QED
    BY <2>3, <2>4, <2>6 DEF TornInv, IsChain
<1>2. TypeOK /\ SoleHandle /\ TornInv /\ [Next]_vars => TornInv'
  BY TornStep
<1>3. IInv => TypeOK /\ SoleHandle
  BY DEF IInv
<1>4. TornInv => DurableChainVerifies
  BY DEF TornInv, MemoriesAreChains, IsChain, DurableChainVerifies
<1>5. QED
  BY <1>1, <1>2, <1>3, <1>4, InductiveInvariant, PTL DEF Spec
=============================================================================
