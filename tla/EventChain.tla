----------------------------- MODULE EventChain -----------------------------
(***************************************************************************)
(* Official logbook events and the hash chain that links them (ham-core    *)
(* event.rs and the pure part of store.rs).                                *)
(*                                                                         *)
(* The SHA-256 hash of an event covers its identity, its content and the   *)
(* hash of its predecessor.  It is modelled as an injective function of    *)
(* these: the hash of an event is the sequence of the identities from the  *)
(* first event of the logbook to the event itself, so that two hashes are  *)
(* equal exactly when the histories they commit to are.  The head of an    *)
(* empty logbook (None in the code) is the empty sequence.                 *)
(***************************************************************************)
EXTENDS Integers, Sequences

CONSTANTS
  EventIds,      \* the v4 UUIDs events may carry
  Unsupported    \* identities of events whose schema version or event type
                 \* is not in the list that remote validation accepts

ASSUME UnsupportedAssumption == Unsupported \subseteq EventIds

NoHash == << >>

Hash == Seq(EventIds)

calculate_hash(id, previous_hash) == Append(previous_hash, id)

Event == [id : EventIds, prev : Hash, hash : Hash]

hash_is_valid(e) == e.hash = calculate_hash(e.id, e.prev)

\* A local event is minted with a fresh identity on top of the current head.
from_new(id, previous_hash) ==
  [id |-> id, prev |-> previous_hash, hash |-> calculate_hash(id, previous_hash)]

validate_supported_remote_event(e) == hash_is_valid(e) /\ e.id \notin Unsupported

\* heads[logbook] after the events of s were appended in order.
HeadOf(s) == IF s = << >> THEN NoHash ELSE s[Len(s)].hash

IdsOf(s) == {s[i].id : i \in 1..Len(s)}

UniqueIds(s) == \A i, j \in 1..Len(s) : s[i].id = s[j].id => i = j

Linked(s, i) ==
  /\ hash_is_valid(s[i])
  /\ s[i].prev = IF i = 1 THEN NoHash ELSE s[i - 1].hash

\* verify_chain: every hash recomputes, every previous hash is the hash of the
\* event before, and the stored head is the hash of the last event.
verify_chain(s, head) ==
  /\ \A i \in 1..Len(s) : Linked(s, i)
  /\ head = HeadOf(s)

\* Mutations: any event that does not conflict is appended; an identity already
\* used by another event is appended; an event already held is a conflict; the
\* hash is not recomputed.
RemoteOutcome_any_hash(s, head, e) ==
  IF e.id \in IdsOf(s) THEN "duplicate"
  ELSE IF e.prev # head THEN "disconnected" ELSE "appended"
RemoteOutcome_any_head(s, head, e) ==
  IF ~ validate_supported_remote_event(e) THEN "invalid"
  ELSE IF e.id \in IdsOf(s) THEN "duplicate" ELSE "appended"
RemoteOutcome_any_id(s, head, e) ==
  IF ~ validate_supported_remote_event(e) THEN "invalid"
  ELSE IF e.prev # head THEN "disconnected" ELSE "appended"
RemoteOutcome_no_duplicates(s, head, e) ==
  IF ~ validate_supported_remote_event(e) THEN "invalid"
  ELSE IF e.id \in IdsOf(s) THEN "conflict"
  ELSE IF e.prev # head THEN "disconnected" ELSE "appended"

\* The outcomes of append_verified_remote_event on a memory that lists s.
\* The order of the tests is the code's.
RemoteOutcome(s, head, e) ==
  IF ~ validate_supported_remote_event(e) THEN "invalid"
  ELSE IF e.id \in IdsOf(s)
    THEN IF \E i \in 1..Len(s) : s[i] = e THEN "duplicate" ELSE "conflict"
  ELSE IF e.prev # head THEN "disconnected"
  ELSE "appended"
=============================================================================
