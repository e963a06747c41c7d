------------------------------ MODULE EventLog ------------------------------
(***************************************************************************)
(* JsonlLogbookEventStore (ham-core store.rs): the durable official log of *)
(* one logbook, a JSON-lines file that every open store reads once, into   *)
(* memory, and then only appends to.                                       *)
(*                                                                         *)
(* A handle is one open store.  The desktop server keeps one for its whole *)
(* life and serves its requests one after the other; every one-shot CLI    *)
(* command and every iOS FFI call opens one more on the same file.         *)
(*                                                                         *)
(* An append first extends the handle's memory, under its lock, and then   *)
(* writes the line, outside the lock and in several write calls.  Between  *)
(* two of these steps another handle may run, the disk may refuse a write  *)
(* and the process may die.                                                *)
(*                                                                         *)
(*   lines    the terminated lines of the file: an event, or Garbled when  *)
(*            serde_json cannot parse the line                             *)
(*   tail     what was written after the last newline, one fragment per    *)
(*            write that began there                                       *)
(*   phase    where each handle stands: closed, open, appended (memory     *)
(*            extended, nothing written) or writing (part of the line is   *)
(*            in the file)                                                 *)
(*   mem      the events each handle lists for the logbook, in order       *)
(*   pending  the event each handle is persisting                          *)
(*   minted   the identities of the events made locally so far             *)
(*   acked    the events whose append returned Ok (history)                *)
(*   refused  the events whose write the disk refused (history)            *)
(*   hazards  what went wrong in the environment so far (history)          *)
(***************************************************************************)
EXTENDS EventChain

CONSTANTS
  Handles,    \* the stores that may be opened on the file
  Garbled,    \* a line that does not parse
  Faults      \* what may go wrong: a subset of {"io_error", "torn_write"}

ASSUME EventIdsAssumption == EventIds # {}
ASSUME GarbledAssumption == Garbled \notin Event
ASSUME FaultsAssumption == Faults \subseteq {"io_error", "torn_write"}

VARIABLES lines, tail, phase, mem, pending, minted, acked, refused, hazards

vars == <<lines, tail, phase, mem, pending, minted, acked, refused, hazards>>

Hazards == {"overlap", "io_error", "torn_write"}

\* A fragment belongs to a write in progress ("live"), or was left behind by
\* a write that never ended: cut inside the JSON text, or whole but for the
\* newline.
Fragment == [by : Handles, event : Event, state : {"live", "cut", "whole"}]

TypeOK ==
  /\ lines \in Seq(Event \cup {Garbled})
  /\ tail \in Seq(Fragment)
  /\ phase \in [Handles -> {"closed", "open", "appended", "writing"}]
  /\ mem \in [Handles -> Seq(Event)]
  /\ pending \in [Handles -> Event]
  /\ minted \subseteq EventIds
  /\ acked \subseteq Event
  /\ refused \subseteq Event
  /\ hazards \subseteq Hazards

NoEvent == from_new(CHOOSE id \in EventIds : TRUE, NoHash)

Init ==
  /\ lines = << >>
  /\ tail = << >>
  /\ phase = [h \in Handles |-> "closed"]
  /\ mem = [h \in Handles |-> << >>]
  /\ pending = [h \in Handles |-> NoEvent]
  /\ minted = {}
  /\ acked = {}
  /\ refused = {}
  /\ hazards = {}

-----------------------------------------------------------------------------
(***************************************************************************)
(* Opening the file.                                                       *)
(***************************************************************************)

\* The readings of the unterminated end of the file.  A whole text without its
\* newline parses like any line; a live one may be caught in either state.
TailReadings ==
  IF tail = << >> THEN {<< >>}
  ELSE IF Len(tail) = 1 /\ tail[1].state # "cut" THEN {<<tail[1].event>>}
  ELSE {}

\* load_inner_from_disk lists the identities in file order and keeps, for each,
\* the event of the last line that carries it.
load_inner_from_disk(s) ==
  [i \in 1..Len(s) |->
     s[CHOOSE j \in 1..Len(s) :
         /\ s[j].id = s[i].id
         /\ \A k \in (j + 1)..Len(s) : s[k].id # s[i].id]]

\* open: one unreadable line and the whole store fails to open.
Open(h) ==
  /\ phase[h] = "closed"
  /\ \A i \in 1..Len(lines) : lines[i] # Garbled
  /\ \E end \in TailReadings :
       mem' = [mem EXCEPT ![h] = load_inner_from_disk(lines \o end)]
  /\ phase' = [phase EXCEPT ![h] = "open"]
  /\ hazards' = IF \E g \in Handles : phase[g] # "closed"
                  THEN hazards \cup {"overlap"} ELSE hazards
  /\ UNCHANGED <<lines, tail, pending, minted, acked, refused>>

-----------------------------------------------------------------------------
(***************************************************************************)
(* Appending.  An event is made here, or comes from a peer.                *)
(***************************************************************************)
MemoryAppend(h, e) ==
  /\ phase[h] = "open"
  /\ mem' = [mem EXCEPT ![h] = Append(@, e)]
  /\ pending' = [pending EXCEPT ![h] = e]
  /\ phase' = [phase EXCEPT ![h] = "appended"]
  /\ UNCHANGED <<lines, tail, acked, refused, hazards>>

\* Mutation: the new event does not carry the hash of its predecessor.
append_event_unlinked(h) ==
  \E id \in EventIds \ minted :
    /\ MemoryAppend(h, from_new(id, NoHash))
    /\ minted' = minted \cup {id}

append_event(h) ==
  \E id \in EventIds \ minted :
    /\ MemoryAppend(h, from_new(id, HeadOf(mem[h])))
    /\ minted' = minted \cup {id}

\* What a peer may send: any identity on top of any event the handle knows, with
\* the hash that belongs to it or another one.
RemoteOffers(h) ==
  LET known == {NoHash} \cup {mem[h][i].hash : i \in 1..Len(mem[h])}
  IN UNION {{[id |-> id, prev |-> prev, hash |-> calculate_hash(id, base)] :
               prev \in known, base \in known} : id \in EventIds}

\* A peer's event this memory does not hold: appended like a local one when the
\* checks allow it.
append_new_remote_event(h) ==
  \E e \in RemoteOffers(h) :
    /\ RemoteOutcome(mem[h], HeadOf(mem[h]), e) = "appended"
    /\ MemoryAppend(h, e)
    /\ minted' = minted \cup {e.id}

\* The same event once more: Ok at once, from memory.  Nothing is written, whether
\* or not the first write of this event succeeded.
append_known_remote_event(h) ==
  /\ phase[h] = "open"
  /\ \E i \in 1..Len(mem[h]) : acked' = acked \cup {mem[h][i]}
  /\ UNCHANGED <<lines, tail, phase, mem, pending, minted, refused, hazards>>

append_verified_remote_event(h) ==
  append_new_remote_event(h) \/ append_known_remote_event(h)

\* Mutation: the call is acknowledged before the line has ended.
BeginPersist_acking(h) ==
  /\ phase[h] = "appended"
  /\ tail' = Append(tail, [by |-> h, event |-> pending[h], state |-> "live"])
  /\ phase' = [phase EXCEPT ![h] = "writing"]
  /\ acked' = acked \cup {pending[h]}
  /\ UNCHANGED <<lines, mem, pending, minted, refused, hazards>>

\* persist_event: the JSON text goes out in several writes, the newline in one
\* more.  Whoever writes a newline ends the line for every fragment on it.
BeginPersist(h) ==
  /\ phase[h] = "appended"
  /\ tail' = Append(tail, [by |-> h, event |-> pending[h], state |-> "live"])
  /\ phase' = [phase EXCEPT ![h] = "writing"]
  /\ UNCHANGED <<lines, mem, pending, minted, acked, refused, hazards>>

OwnFragments(h) == {i \in 1..Len(tail) : tail[i].by = h /\ tail[i].state = "live"}

\* Mutation: the line lacks the hash.
EndedLines_without_hash(h) ==
  {<<[id |-> pending[h].id, prev |-> pending[h].prev]>>}

\* What the newline of h ends.  When another handle's newline came first, the
\* rest of the text of h is unreadable, or there was no rest (blank lines are
\* skipped) and the newline ends whatever else is on the line.
EndedLines(h) ==
  IF OwnFragments(h) = {} THEN TailReadings \cup {<<Garbled>>}
  ELSE IF Len(tail) = 1 THEN {<<pending[h]>>}
  ELSE {<<Garbled>>}

\* The call on h returns and the handle is ready for the next one.
Return(h) ==
  /\ phase' = [phase EXCEPT ![h] = "open"]
  /\ pending' = [pending EXCEPT ![h] = NoEvent]

EndPersist(h) ==
  /\ phase[h] = "writing"
  /\ \E ended \in EndedLines(h) : lines' = lines \o ended
  /\ tail' = << >>
  /\ acked' = acked \cup {pending[h]}
  /\ Return(h)
  /\ UNCHANGED <<mem, minted, refused, hazards>>

\* The fragment of h, if it is still on the unterminated line, stays there.
Abandon(h, state) ==
  tail' = [i \in 1..Len(tail) |->
             IF i \in OwnFragments(h) THEN [tail[i] EXCEPT !.state = state]
                                      ELSE tail[i]]

\* persist_event fails: the caller gets Err, the memory keeps the event.
PersistFails(h) ==
  /\ "io_error" \in Faults
  /\ \/ /\ phase[h] = "appended"
        /\ hazards' = hazards \cup {"io_error"}
        /\ UNCHANGED tail
     \/ /\ phase[h] = "writing"
        /\ hazards' = hazards \cup {"io_error", "torn_write"}
        /\ \E state \in {"cut", "whole"} : Abandon(h, state)
  /\ refused' = refused \cup {pending[h]}
  /\ Return(h)
  /\ UNCHANGED <<lines, mem, minted, acked>>

\* The store is dropped: the command or the FFI call ends, or the process dies.
\* Dying in the middle of a write leaves a fragment behind.
Stop(h) ==
  /\ \/ /\ phase[h] \in {"open", "appended"}
        /\ UNCHANGED <<tail, hazards>>
     \/ /\ phase[h] = "writing"
        /\ "torn_write" \in Faults
        /\ hazards' = hazards \cup {"torn_write"}
        /\ \E state \in {"cut", "whole"} : Abandon(h, state)
  /\ phase' = [phase EXCEPT ![h] = "closed"]
  /\ mem' = [mem EXCEPT ![h] = << >>]
  /\ pending' = [pending EXCEPT ![h] = NoEvent]
  /\ UNCHANGED <<lines, minted, acked, refused>>

Next ==
  \E h \in Handles :
    \/ Open(h)
    \/ append_event(h)
    \/ append_verified_remote_event(h)
    \/ BeginPersist(h)
    \/ EndPersist(h)
    \/ PersistFails(h)
    \/ Stop(h)

Spec == Init /\ [][Next]_vars

-----------------------------------------------------------------------------
(***************************************************************************)
(* Properties.                                                             *)
(***************************************************************************)

\* The lines before the first one that does not parse.
Readable ==
  SubSeq(lines, 1, CHOOSE n \in 0..Len(lines) :
                     /\ \A i \in 1..n : lines[i] # Garbled
                     /\ n = Len(lines) \/ lines[n + 1] = Garbled)

\* Startup chain verification (serve.rs run, the CLI's verify-chain) succeeds on
\* what can be read of the file, whatever crashed and whenever, as long as only
\* one store was open at a time and no write was refused: a crash between the
\* memory append and the write loses that event and nothing else.  The chain a
\* store works on verifies as long.
DurableChainVerifies ==
  hazards \subseteq {"torn_write"} =>
    /\ verify_chain(Readable, HeadOf(Readable))
    /\ \A h \in Handles : verify_chain(mem[h], HeadOf(mem[h]))

\* Without a torn write or a second store, the file always opens again and holds
\* each identity once, also after refused writes left a gap in the chain.
AlwaysReopens ==
  hazards \subseteq {"io_error"} =>
    /\ Readable = lines
    /\ UniqueIds(lines)
    /\ (\A h \in Handles : phase[h] # "writing") => tail = << >>

\* append_event and append_verified_remote_event returned Ok: the event is a line
\* of the file.  A refused write costs no earlier or later append; the event it
\* refused is the one exception, because a retry is answered from memory.
AckedIsDurable ==
  hazards \subseteq {"io_error"} =>
    \A e \in acked : e \in refused \/ \E i \in 1..Len(lines) : lines[i] = e

\* docs/API_CLIENT_CONTRACT.md: clients may expect a push response to survive a
\* restart of the server.  With no store open, what was acknowledged is a line.
\* The code breaks this for an event whose first write the disk refused.
AckedSurvivesRestart ==
  hazards \subseteq {"io_error"} /\ (\A h \in Handles : phase[h] = "closed") =>
    \A e \in acked : \E i \in 1..Len(lines) : lines[i] = e

\* Two stores that write one file, each call on its own: the log may fork, and
\* hold a remote event twice, but every line still has its predecessor above it,
\* so that no event is in the file whose history is not.  A gap in a line of the
\* fork would need a store to build on an event that never reached the file.
EveryLineHasItsPast ==
  hazards \subseteq {"overlap"} /\ Readable = lines =>
    \A i \in 1..Len(lines) :
      /\ hash_is_valid(lines[i])
      /\ lines[i].prev = NoHash \/ \E j \in 1..(i - 1) : lines[j].hash = lines[i].prev

\* While the handle that holds every event is alive, the file is never ahead of
\* its memory: the memory is the file plus the event being written.
MemoryMatchesFile ==
  hazards = {} =>
    \A h \in Handles :
      /\ phase[h] = "open" => mem[h] = lines
      /\ phase[h] \in {"appended", "writing"} => mem[h] = Append(lines, pending[h])

\* docs/API_CLIENT_CONTRACT.md promises that the official log survives a restart
\* of the process: with no store open, the file can be opened.  The code keeps
\* this only when no write was torn.
RestartSurvives ==
  (\A h \in Handles : phase[h] = "closed") =>
    /\ Readable = lines
    /\ TailReadings # {}

Official == INSTANCE OfficialLog WITH log <- lines

\* ADR 0001 for a store nobody else opens, on a disk that completes every write:
\* the file implements OfficialLog.
ImplementsOfficialLog == Official!Spec
=============================================================================
