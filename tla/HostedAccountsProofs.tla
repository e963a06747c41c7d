------------------------ MODULE HostedAccountsProofs ------------------------
(***************************************************************************)
(* Theorems about HostedAccounts, for any sets of emails and roles, any    *)
(* number of identifiers and any number of failing mails and saves.        *)
(***************************************************************************)
EXTENDS HostedAccounts, FiniteSetTheorems, TLAPS

-----------------------------------------------------------------------------
(***************************************************************************)
(* The inductive invariant.                                                *)
(***************************************************************************)

Fields == {"config", "admins", "users", "sessions", "devices", "logbooks",
           "members", "invites", "verifications", "recoveries"}
Kinds == {"session", "device", "account", "invite", "verification", "recovery"}
Counts == [users : Nat, sessions : Nat, devices : Nat, invites : Nat, recoveries : Nat,
           logbooks : Nat]

UserRows == [email : Emails, verified : BOOLEAN, deleted : BOOLEAN]
SessionRows == [account : Nat, device : Nat, active : BOOLEAN]
DeviceRows == [account : Nat, revoked : BOOLEAN]
InviteRows == [email : Emails, logbook : Logbooks, role : Roles, sent : Nat,
               expired : BOOLEAN, accepted : BOOLEAN, revoked : BOOLEAN]
TokenRows == [used : BOOLEAN]
RecoveryRows == [account : Nat, used : BOOLEAN]

\* A table of rows whose identifiers were drawn.
Rows(table, n, rows) == DOMAIN table \subseteq 1 .. n /\ \A k \in DOMAIN table : table[k] \in rows

TablesOK(db, n) ==
    /\ Rows(db.users, n.users, UserRows)
    /\ Rows(db.sessions, n.sessions, SessionRows)
    /\ \A s \in DOMAIN db.sessions : db.sessions[s].device \in 1 .. n.devices
    /\ Rows(db.devices, n.devices, DeviceRows)
    /\ Rows(db.invites, n.invites, InviteRows)
    /\ Rows(db.verifications, n.users, TokenRows)
    /\ Rows(db.recoveries, n.recoveries, RecoveryRows)

\* A deleted account has no rights, no session and no device.
Clean(admins, users, sessions, devices) ==
    \A a \in DOMAIN users : users[a].deleted =>
        /\ a \notin admins
        /\ \A s \in DOMAIN sessions : sessions[s].account = a => ~sessions[s].active
        /\ \A d \in DOMAIN devices : devices[d].account = a => devices[d].revoked

\* A device has at most one active session.
Single(sessions) ==
    \A s, t \in DOMAIN sessions :
        ( /\ sessions[s].active /\ sessions[t].active
          /\ sessions[s].device = sessions[t].device ) => s = t

Sound(db, n) ==
    /\ DOMAIN db = Fields
    /\ TablesOK(db, n)
    /\ Clean(db.admins, db.users, db.sessions, db.devices)
    /\ Single(db.sessions)

SettledOK ==
    /\ DOMAIN settled = Kinds
    /\ settled["session"] \subseteq 1 .. issued.sessions
    /\ settled["device"] \subseteq 1 .. issued.devices
    /\ settled["account"] \subseteq 1 .. issued.users
    /\ settled["invite"] \subseteq 1 .. issued.invites
    /\ settled["verification"] \subseteq 1 .. issued.users
    /\ settled["recovery"] \subseteq 1 .. issued.recoveries

\* What db still knows of the endings that were stored is over in db.
Ended(db) ==
    /\ settled["session"] \cap DOMAIN db.sessions \subseteq {s \in DOMAIN db.sessions : ~db.sessions[s].active}
    /\ settled["device"] \cap DOMAIN db.devices \subseteq {d \in DOMAIN db.devices : db.devices[d].revoked}
    /\ settled["account"] \cap DOMAIN db.users \subseteq {a \in DOMAIN db.users : db.users[a].deleted}
    /\ settled["invite"] \cap DOMAIN db.invites
          \subseteq {i \in DOMAIN db.invites : db.invites[i].accepted \/ db.invites[i].revoked}
    /\ settled["verification"] \cap DOMAIN db.verifications
          \subseteq {v \in DOMAIN db.verifications : db.verifications[v].used}
    /\ settled["recovery"] \cap DOMAIN db.recoveries
          \subseteq {r \in DOMAIN db.recoveries : db.recoveries[r].used}

IInv ==
    /\ issued \in Counts
    /\ Sound(memory, issued) /\ Sound(disk, issued)
    /\ SettledOK /\ Ended(memory) /\ Ended(disk)

-----------------------------------------------------------------------------
(***************************************************************************)
(* A later state: what was over stays over, and only new identifiers come. *)
(***************************************************************************)

LaterSessions(old, new) ==
    \A s \in DOMAIN new : s \in 1 .. issued.sessions =>
        s \in DOMAIN old /\ (~old[s].active => ~new[s].active)
LaterDevices(old, new) ==
    \A d \in DOMAIN new : d \in 1 .. issued.devices =>
        d \in DOMAIN old /\ (old[d].revoked => new[d].revoked)
LaterUsers(old, new) ==
    \A a \in DOMAIN new : a \in 1 .. issued.users =>
        a \in DOMAIN old /\ (old[a].deleted => new[a].deleted)
LaterInvites(old, new) ==
    \A i \in DOMAIN new : i \in 1 .. issued.invites =>
        i \in DOMAIN old /\ (old[i].accepted \/ old[i].revoked => new[i].accepted \/ new[i].revoked)
LaterVerifications(old, new) ==
    \A v \in DOMAIN new : v \in 1 .. issued.users =>
        v \in DOMAIN old /\ (old[v].used => new[v].used)
LaterRecoveries(old, new) ==
    \A r \in DOMAIN new : r \in 1 .. issued.recoveries =>
        r \in DOMAIN old /\ (old[r].used => new[r].used)

Later(new) ==
    /\ LaterSessions(memory.sessions, new.sessions)
    /\ LaterDevices(memory.devices, new.devices)
    /\ LaterUsers(memory.users, new.users)
    /\ LaterInvites(memory.invites, new.invites)
    /\ LaterVerifications(memory.verifications, new.verifications)
    /\ LaterRecoveries(memory.recoveries, new.recoveries)

Grows ==
    /\ issued' \in Counts
    /\ issued.users <= issued'.users /\ issued.sessions <= issued'.sessions
    /\ issued.devices <= issued'.devices /\ issued.invites <= issued'.invites
    /\ issued.recoveries <= issued'.recoveries

LEMMA LargerCounts ==
  ASSUME NEW n \in Counts, NEW m \in Counts, NEW db, TablesOK(db, n),
         n.users <= m.users, n.sessions <= m.sessions, n.devices <= m.devices,
         n.invites <= m.invites, n.recoveries <= m.recoveries
  PROVE  TablesOK(db, m)
<1>1. /\ 1 .. n.users \subseteq 1 .. m.users /\ 1 .. n.sessions \subseteq 1 .. m.sessions
      /\ 1 .. n.devices \subseteq 1 .. m.devices /\ 1 .. n.invites \subseteq 1 .. m.invites
      /\ 1 .. n.recoveries \subseteq 1 .. m.recoveries
  BY DEF Counts
<1>2. QED
  BY <1>1 DEF TablesOK, Rows

LEMMA LaterIsEnded ==
  ASSUME IInv, NEW db, Later(db)
  PROVE  Ended(db)
<1>1. SettledOK /\ Ended(memory)
  BY DEF IInv
<1>2. settled["session"] \cap DOMAIN db.sessions \subseteq {s \in DOMAIN db.sessions : ~db.sessions[s].active}
  BY <1>1 DEF SettledOK, Ended, Later, LaterSessions
<1>3. settled["device"] \cap DOMAIN db.devices \subseteq {d \in DOMAIN db.devices : db.devices[d].revoked}
  BY <1>1 DEF SettledOK, Ended, Later, LaterDevices
<1>4. settled["account"] \cap DOMAIN db.users \subseteq {a \in DOMAIN db.users : db.users[a].deleted}
  BY <1>1 DEF SettledOK, Ended, Later, LaterUsers
<1>5. settled["invite"] \cap DOMAIN db.invites
        \subseteq {i \in DOMAIN db.invites : db.invites[i].accepted \/ db.invites[i].revoked}
  BY <1>1 DEF SettledOK, Ended, Later, LaterInvites
<1>6. settled["verification"] \cap DOMAIN db.verifications
        \subseteq {v \in DOMAIN db.verifications : db.verifications[v].used}
  BY <1>1 DEF SettledOK, Ended, Later, LaterVerifications
<1>7. settled["recovery"] \cap DOMAIN db.recoveries
        \subseteq {r \in DOMAIN db.recoveries : db.recoveries[r].used}
  BY <1>1 DEF SettledOK, Ended, Later, LaterRecoveries
<1>8. QED
  BY <1>2, <1>3, <1>4, <1>5, <1>6, <1>7 DEF Ended

-----------------------------------------------------------------------------
(***************************************************************************)
(* Saves.                                                                  *)
(***************************************************************************)

\* Whatever two sound states a save stops between, what it leaves is sound:
\* the users are deleted before and written before what depends on them.
LEMMA StoppedIsSound ==
  ASSUME NEW n \in Counts, NEW old, NEW new, NEW left,
         Sound(old, n), Sound(new, n), left \in StoppedSaves(SaveOrder, Blank, old, new)
  PROVE  /\ Sound(left, n)
         /\ Ended(old) /\ Ended(new) => Ended(left)
<1>1. /\ SaveOrder.admins = 2 /\ SaveOrder.users = 3 /\ SaveOrder.sessions = 4 /\ SaveOrder.devices = 5
      /\ Blank.admins = {} /\ Blank.users = <<>> /\ Blank.sessions = <<>> /\ Blank.devices = <<>>
      /\ Blank.invites = <<>> /\ Blank.verifications = <<>> /\ Blank.recoveries = <<>>
  BY DEF SaveOrder, Blank
<1>2. /\ DOMAIN old = Fields /\ DOMAIN new = Fields
      /\ {"admins", "users", "sessions", "devices", "invites", "verifications", "recoveries"} \subseteq Fields
  BY DEF Sound, Fields
<1>3. /\ DOMAIN left = Fields
      /\ \A t \in Fields : left[t] \in {old[t], new[t], Blank[t]}
      /\ \/ left.users = Blank.users
         \/ /\ left.users = old.users /\ left.admins \in {old.admins, Blank.admins}
            /\ left.sessions = old.sessions /\ left.devices = old.devices
         \/ /\ left.users = new.users /\ left.admins = new.admins
            /\ left.sessions \in {new.sessions, Blank.sessions}
            /\ left.devices \in {new.devices, Blank.devices}
  <2>1. CASE left \in StoppedDeleting(SaveOrder, Blank, old)
    <3>1. PICK done \in Int : left = [t \in DOMAIN old |-> IF SaveOrder[t] <= done THEN Blank[t] ELSE old[t]]
      BY <2>1 DEF StoppedDeleting
    <3>2. /\ left.admins = IF 2 <= done THEN Blank.admins ELSE old.admins
          /\ left.users = IF 3 <= done THEN Blank.users ELSE old.users
          /\ left.sessions = IF 4 <= done THEN Blank.sessions ELSE old.sessions
          /\ left.devices = IF 5 <= done THEN Blank.devices ELSE old.devices
      BY <1>1, <1>2, <3>1
    <3>3. QED
      BY <1>2, <3>1, <3>2
  <2>2. CASE left \in StoppedWriting(SaveOrder, Blank, old, new)
    <3>1. PICK done \in Int : left = [t \in DOMAIN old |-> IF SaveOrder[t] <= done THEN new[t] ELSE Blank[t]]
      BY <2>2 DEF StoppedWriting
    <3>2. /\ left.admins = IF 2 <= done THEN new.admins ELSE Blank.admins
          /\ left.users = IF 3 <= done THEN new.users ELSE Blank.users
          /\ left.sessions = IF 4 <= done THEN new.sessions ELSE Blank.sessions
          /\ left.devices = IF 5 <= done THEN new.devices ELSE Blank.devices
      BY <1>1, <1>2, <3>1
    <3>3. QED
      BY <1>2, <3>1, <3>2
  <2>3. QED
    BY <2>1, <2>2 DEF StoppedSaves
<1>4. /\ left.users \in {old.users, new.users, <<>>} /\ left.sessions \in {old.sessions, new.sessions, <<>>}
      /\ left.devices \in {old.devices, new.devices, <<>>} /\ left.invites \in {old.invites, new.invites, <<>>}
      /\ left.verifications \in {old.verifications, new.verifications, <<>>}
      /\ left.recoveries \in {old.recoveries, new.recoveries, <<>>}
  BY <1>1, <1>2, <1>3
<1>5. \A rows, k : Rows(<<>>, k, rows)
  BY DEF Rows
<1>6. TablesOK(left, n)
  <2>1. TablesOK(old, n) /\ TablesOK(new, n)
    BY DEF Sound
  <2>2. /\ Rows(left.users, n.users, UserRows) /\ Rows(left.sessions, n.sessions, SessionRows)
        /\ Rows(left.devices, n.devices, DeviceRows) /\ Rows(left.invites, n.invites, InviteRows)
        /\ Rows(left.verifications, n.users, TokenRows) /\ Rows(left.recoveries, n.recoveries, RecoveryRows)
    BY <1>4, <1>5, <2>1 DEF TablesOK
  <2>3. \A s \in DOMAIN left.sessions : left.sessions[s].device \in 1 .. n.devices
    BY <1>4, <2>1 DEF TablesOK
  <2>4. QED
    BY <2>2, <2>3 DEF TablesOK
<1>7. Clean(left.admins, left.users, left.sessions, left.devices)
  BY <1>1, <1>3 DEF Sound, Clean
<1>8. Single(left.sessions)
  BY <1>4 DEF Sound, Single
<1>9. Ended(old) /\ Ended(new) => Ended(left)
  BY <1>4 DEF Ended
<1>10. QED
  BY <1>3, <1>6, <1>7, <1>8, <1>9 DEF Sound

\* However a request stores what it changed, and wherever the save stops.
LEMMA SaveStep ==
  ASSUME IInv, NEW db, Grows, Sound(db, issued'), Later(db),
         Save(db) \/ KeepInMemory(db)
  PROVE  IInv'
<1> PICK n : n = issued
  OBVIOUS
<1> PICK m : m = issued'
  OBVIOUS
<1>1. n \in Counts /\ m \in Counts /\ Sound(db, m) /\ Sound(disk, n) /\ Sound(memory, n) /\ SettledOK
  BY DEF IInv, Grows
<1>2. Sound(disk, m)
  BY <1>1, LargerCounts DEF Sound, Grows
<1>3. Ended(db) /\ Ended(disk)
  BY LaterIsEnded DEF IInv
<1>4. /\ 1 .. n.users \subseteq 1 .. m.users /\ 1 .. n.sessions \subseteq 1 .. m.sessions
      /\ 1 .. n.devices \subseteq 1 .. m.devices /\ 1 .. n.invites \subseteq 1 .. m.invites
      /\ 1 .. n.recoveries \subseteq 1 .. m.recoveries
  BY <1>1 DEF Grows, Counts
<1>5. CASE /\ memory' = db /\ disk' = db
           /\ settled' = [kind \in DOMAIN settled |-> settled[kind] \cup Over(db)[kind]]
  <2>1. /\ DOMAIN settled' = Kinds
        /\ settled'["session"] = settled["session"] \cup {s \in DOMAIN db.sessions : ~db.sessions[s].active}
        /\ settled'["device"] = settled["device"] \cup {d \in DOMAIN db.devices : db.devices[d].revoked}
        /\ settled'["account"] = settled["account"] \cup {a \in DOMAIN db.users : db.users[a].deleted}
        /\ settled'["invite"] = settled["invite"]
              \cup {i \in DOMAIN db.invites : db.invites[i].accepted \/ db.invites[i].revoked}
        /\ settled'["verification"] = settled["verification"]
              \cup {v \in DOMAIN db.verifications : db.verifications[v].used}
        /\ settled'["recovery"] = settled["recovery"]
              \cup {r \in DOMAIN db.recoveries : db.recoveries[r].used}
    BY <1>1, <1>5 DEF SettledOK, Kinds, Over
  <2>2. SettledOK'
    BY <1>1, <1>4, <2>1 DEF SettledOK, Sound, TablesOK, Rows
  <2>3. Ended(memory)' /\ Ended(disk)'
    BY <1>3, <1>5, <2>1 DEF Ended
  <2>4. QED
    BY <1>1, <1>5, <2>2, <2>3 DEF IInv
<1>6. ASSUME settled' = settled PROVE SettledOK'
  BY <1>1, <1>4, <1>6 DEF SettledOK
<1>7. CASE memory' = db /\ disk' = disk /\ settled' = settled
  <2>1. Ended(memory)' /\ Ended(disk)'
    BY <1>3, <1>7 DEF Ended
  <2>2. QED
    BY <1>1, <1>2, <1>6, <1>7, <2>1 DEF IInv
<1>8. CASE disk' \in StoppedSaves(SaveOrder, Blank, disk, db) /\ memory' = load(disk') /\ settled' = settled
  <2> PICK left : left = disk'
    OBVIOUS
  <2> PICK old : old = disk
    OBVIOUS
  <2>1. left \in StoppedSaves(SaveOrder, Blank, old, db)
    BY <1>8
  <2>2. Sound(old, m) /\ Ended(old)
    BY <1>2, <1>3
  <2>3. Sound(left, m) /\ Ended(left)
    BY <1>1, <1>3, <2>1, <2>2, StoppedIsSound
  <2>4. memory' = left /\ disk' = left
    BY <1>8 DEF load
  <2>5. Ended(memory)' /\ Ended(disk)'
    BY <1>8, <2>3, <2>4 DEF Ended
  <2>6. QED
    BY <1>1, <1>6, <1>8, <2>3, <2>4, <2>5 DEF IInv
<1>9. QED
  BY <1>5, <1>7, <1>8 DEF Save, KeepInMemory

-----------------------------------------------------------------------------
(***************************************************************************)
(* What the handlers do to the tables.                                     *)
(***************************************************************************)

\* The tables besides sessions and devices are those of the other state.
SameBut(old, new) ==
    /\ new.admins = old.admins /\ new.users = old.users /\ new.invites = old.invites
    /\ new.verifications = old.verifications /\ new.recoveries = old.recoveries

LEMMA EndedSessions ==
  ASSUME NEW n \in Counts, NEW db, Sound(db, n), NEW field, NEW value,
         NEW new, new = EndSessions(db, field, value)
  PROVE  /\ Sound(new, n) /\ SameBut(db, new) /\ new.devices = db.devices
         /\ DOMAIN new.sessions = DOMAIN db.sessions
         /\ \A s \in DOMAIN db.sessions :
               /\ new.sessions[s].account = db.sessions[s].account
               /\ ~db.sessions[s].active => ~new.sessions[s].active
               /\ db.sessions[s][field] = value => ~new.sessions[s].active
<1> DEFINE ended == [s \in DOMAIN db.sessions |->
        IF db.sessions[s][field] = value THEN [db.sessions[s] EXCEPT !.active = FALSE]
        ELSE db.sessions[s]]
<1>1. DOMAIN db = Fields /\ TablesOK(db, n) /\ Clean(db.admins, db.users, db.sessions, db.devices)
      /\ Single(db.sessions)
  BY DEF Sound
<1>2. new = [db EXCEPT !.sessions = ended]
  BY DEF EndSessions
<1>3. DOMAIN new = Fields /\ SameBut(db, new) /\ new.devices = db.devices /\ new.sessions = ended
  BY <1>1, <1>2 DEF Fields, SameBut
<1> HIDE DEF ended
<1>4. DOMAIN ended = DOMAIN db.sessions
  BY DEF ended
<1>5. \A s \in DOMAIN db.sessions :
        /\ ended[s] \in SessionRows
        /\ ended[s].account = db.sessions[s].account /\ ended[s].device = db.sessions[s].device
        /\ ended[s].active => db.sessions[s].active
        /\ db.sessions[s][field] = value => ~ended[s].active
  <2> SUFFICES ASSUME NEW s \in DOMAIN db.sessions
               PROVE  /\ ended[s] \in SessionRows
                      /\ ended[s].account = db.sessions[s].account /\ ended[s].device = db.sessions[s].device
                      /\ ended[s].active => db.sessions[s].active
                      /\ db.sessions[s][field] = value => ~ended[s].active
    OBVIOUS
  <2> PICK row : row = db.sessions[s]
    OBVIOUS
  <2>1. row \in SessionRows
    BY <1>1 DEF TablesOK, Rows
  <2>2. ended[s] = IF row[field] = value THEN [row EXCEPT !.active = FALSE] ELSE row
    BY DEF ended
  <2>3. QED
    BY <2>1, <2>2 DEF SessionRows
<1>6. TablesOK(new, n)
  BY <1>1, <1>3, <1>4, <1>5 DEF TablesOK, Rows, SameBut
<1>7. Clean(new.admins, new.users, new.sessions, new.devices)
  BY <1>1, <1>3, <1>4, <1>5 DEF Clean, SameBut
<1>8. Single(new.sessions)
  BY <1>1, <1>3, <1>4, <1>5 DEF Single
<1>9. QED
  BY <1>3, <1>4, <1>5, <1>6, <1>7, <1>8 DEF Sound

LEMMA RevokedDevices ==
  ASSUME NEW n \in Counts, NEW db, Sound(db, n), NEW a,
         NEW new, new = RevokeDevices(db, a)
  PROVE  /\ Sound(new, n) /\ SameBut(db, new) /\ new.sessions = db.sessions
         /\ DOMAIN new.devices = DOMAIN db.devices
         /\ \A d \in DOMAIN db.devices :
               /\ new.devices[d].account = db.devices[d].account
               /\ db.devices[d].revoked => new.devices[d].revoked
               /\ db.devices[d].account = a => new.devices[d].revoked
<1> DEFINE revoked == [d \in DOMAIN db.devices |->
        IF db.devices[d].account = a THEN [db.devices[d] EXCEPT !.revoked = TRUE]
        ELSE db.devices[d]]
<1>1. DOMAIN db = Fields /\ TablesOK(db, n) /\ Clean(db.admins, db.users, db.sessions, db.devices)
      /\ Single(db.sessions)
  BY DEF Sound
<1>2. new = [db EXCEPT !.devices = revoked]
  BY DEF RevokeDevices
<1>3. DOMAIN new = Fields /\ SameBut(db, new) /\ new.sessions = db.sessions /\ new.devices = revoked
  BY <1>1, <1>2 DEF Fields, SameBut
<1> HIDE DEF revoked
<1>4. DOMAIN revoked = DOMAIN db.devices
  BY DEF revoked
<1>5. \A d \in DOMAIN db.devices :
        /\ revoked[d] \in DeviceRows
        /\ revoked[d].account = db.devices[d].account
        /\ db.devices[d].revoked => revoked[d].revoked
        /\ db.devices[d].account = a => revoked[d].revoked
  <2> SUFFICES ASSUME NEW d \in DOMAIN db.devices
               PROVE  /\ revoked[d] \in DeviceRows
                      /\ revoked[d].account = db.devices[d].account
                      /\ db.devices[d].revoked => revoked[d].revoked
                      /\ db.devices[d].account = a => revoked[d].revoked
    OBVIOUS
  <2> PICK row : row = db.devices[d]
    OBVIOUS
  <2>1. row \in DeviceRows
    BY <1>1 DEF TablesOK, Rows
  <2>2. revoked[d] = IF row.account = a THEN [row EXCEPT !.revoked = TRUE] ELSE row
    BY DEF revoked
  <2>3. QED
    BY <2>1, <2>2 DEF DeviceRows
<1>6. TablesOK(new, n)
  BY <1>1, <1>3, <1>4, <1>5 DEF TablesOK, Rows, SameBut
<1>7. Clean(new.admins, new.users, new.sessions, new.devices)
  BY <1>1, <1>3, <1>4, <1>5 DEF Clean, SameBut
<1>8. QED
  BY <1>1, <1>3, <1>4, <1>5, <1>6, <1>7 DEF Sound

LEMMA NewSession ==
  ASSUME NEW m \in Counts, issued \in Counts,
         m.sessions = issued.sessions + 1, m.devices = issued.devices + 1,
         NEW db, Sound(db, m),
         DOMAIN db.sessions \subseteq 1 .. issued.sessions,
         DOMAIN db.devices \subseteq 1 .. issued.devices,
         \A s \in DOMAIN db.sessions : db.sessions[s].device \in 1 .. issued.devices,
         NEW a \in Nat, a \in DOMAIN db.users => ~db.users[a].deleted,
         NEW new, new = WithSession(db, a)
  PROVE  /\ Sound(new, m) /\ SameBut(db, new)
         /\ LaterSessions(db.sessions, new.sessions) /\ LaterDevices(db.devices, new.devices)
<1> PICK device : device = [account |-> a, revoked |-> FALSE]
  OBVIOUS
<1> PICK session : session = [account |-> a, device |-> issued.devices + 1, active |-> TRUE]
  OBVIOUS
<1> PICK i : i = issued.sessions + 1
  OBVIOUS
<1> PICK j : j = issued.devices + 1
  OBVIOUS
<1>1. DOMAIN db = Fields /\ TablesOK(db, m) /\ Clean(db.admins, db.users, db.sessions, db.devices)
      /\ Single(db.sessions)
  BY DEF Sound
<1>2. /\ issued.sessions \in Nat /\ issued.devices \in Nat
      /\ i \in 1 .. m.sessions /\ j \in 1 .. m.devices
      /\ i \notin 1 .. issued.sessions /\ j \notin 1 .. issued.devices
  BY DEF Counts
<1>3. /\ device \in DeviceRows /\ device.account = a /\ ~device.revoked
      /\ session \in SessionRows /\ session.account = a /\ session.device = j
  BY <1>2 DEF DeviceRows, SessionRows
<1>4. new = [db EXCEPT !.devices = Put(@, j, device), !.sessions = Put(@, i, session)]
  BY DEF WithSession
<1>5. /\ DOMAIN new = Fields /\ SameBut(db, new)
      /\ new.devices = Put(db.devices, j, device) /\ new.sessions = Put(db.sessions, i, session)
  BY <1>1, <1>4 DEF Fields, SameBut
<1>6. /\ DOMAIN new.devices = DOMAIN db.devices \cup {j}
      /\ new.devices[j] = device
      /\ \A d \in DOMAIN db.devices : d # j /\ new.devices[d] = db.devices[d]
  BY <1>2, <1>5 DEF Put
<1>7. /\ DOMAIN new.sessions = DOMAIN db.sessions \cup {i}
      /\ new.sessions[i] = session
      /\ \A s \in DOMAIN db.sessions : s # i /\ new.sessions[s] = db.sessions[s]
  BY <1>2, <1>5 DEF Put
<1>8. TablesOK(new, m)
  <2>1. Rows(new.sessions, m.sessions, SessionRows)
    BY <1>1, <1>2, <1>3, <1>7 DEF TablesOK, Rows
  <2>2. Rows(new.devices, m.devices, DeviceRows)
    BY <1>1, <1>2, <1>3, <1>6 DEF TablesOK, Rows
  <2>3. \A s \in DOMAIN new.sessions : new.sessions[s].device \in 1 .. m.devices
    BY <1>1, <1>2, <1>3, <1>7 DEF TablesOK
  <2>4. QED
    BY <1>1, <1>5, <2>1, <2>2, <2>3 DEF TablesOK, SameBut
<1>9. Clean(new.admins, new.users, new.sessions, new.devices)
  <2> SUFFICES ASSUME NEW b \in DOMAIN db.users, db.users[b].deleted
               PROVE  /\ b \notin db.admins
                      /\ \A s \in DOMAIN new.sessions : new.sessions[s].account = b => ~new.sessions[s].active
                      /\ \A d \in DOMAIN new.devices : new.devices[d].account = b => new.devices[d].revoked
    BY <1>5 DEF Clean, SameBut
  <2>1. b # a
    OBVIOUS
  <2>2. /\ b \notin db.admins
        /\ \A s \in DOMAIN db.sessions : db.sessions[s].account = b => ~db.sessions[s].active
        /\ \A d \in DOMAIN db.devices : db.devices[d].account = b => db.devices[d].revoked
    BY <1>1 DEF Clean
  <2>3. QED
    BY <1>3, <1>6, <1>7, <2>1, <2>2
<1>10. Single(new.sessions)
  BY <1>1, <1>2, <1>3, <1>7 DEF Single
<1>11. LaterSessions(db.sessions, new.sessions) /\ LaterDevices(db.devices, new.devices)
  BY <1>2, <1>6, <1>7 DEF LaterSessions, LaterDevices
<1>12. QED
  BY <1>5, <1>8, <1>9, <1>10, <1>11 DEF Sound

\* Changes that leave sessions and devices alone and delete no account.
LEMMA OtherTables ==
  ASSUME NEW n, NEW db, Sound(db, n), NEW new, DOMAIN new = Fields,
         new.sessions = db.sessions, new.devices = db.devices,
         Rows(new.users, n.users, UserRows), Rows(new.invites, n.invites, InviteRows),
         Rows(new.verifications, n.users, TokenRows), Rows(new.recoveries, n.recoveries, RecoveryRows),
         \A a \in DOMAIN new.users : new.users[a].deleted =>
            a \in DOMAIN db.users /\ db.users[a].deleted /\ a \notin new.admins
  PROVE  Sound(new, n)
<1>1. TablesOK(new, n)
  BY DEF Sound, TablesOK
<1>2. Clean(new.admins, new.users, new.sessions, new.devices)
  BY DEF Sound, Clean
<1>3. QED
  BY <1>1, <1>2 DEF Sound

LEMMA LaterSelf ==
  ASSUME NEW table
  PROVE  /\ LaterSessions(table, table) /\ LaterDevices(table, table) /\ LaterUsers(table, table)
         /\ LaterInvites(table, table) /\ LaterVerifications(table, table)
         /\ LaterRecoveries(table, table)
BY DEF LaterSessions, LaterDevices, LaterUsers, LaterInvites, LaterVerifications, LaterRecoveries

\* What an action starts from.
LEMMA MemoryNow ==
  ASSUME IInv, Grows
  PROVE  /\ issued \in Counts /\ Sound(memory, issued) /\ Sound(memory, issued')
         /\ DOMAIN memory = Fields /\ TablesOK(memory, issued) /\ TablesOK(memory, issued')
<1> PICK n : n = issued
  OBVIOUS
<1> PICK m : m = issued'
  OBVIOUS
<1>1. n \in Counts /\ m \in Counts /\ Sound(memory, n)
  BY DEF IInv, Grows
<1>2. TablesOK(memory, n)
  BY <1>1 DEF Sound
<1>3. TablesOK(memory, m)
  BY <1>1, <1>2, LargerCounts DEF Grows
<1>4. QED
  BY <1>1, <1>2, <1>3 DEF Sound

LEMMA NothingDrawn ==
  ASSUME IInv, issued' = issued
  PROVE  Grows
BY DEF IInv, Grows, Counts

-----------------------------------------------------------------------------
(***************************************************************************)
(* The handlers.                                                           *)
(***************************************************************************)

\* Handlers that leave every table alone but the rights and the settings.
LEMMA SameTablesGrown ==
  ASSUME IInv, Grows, NEW db, DOMAIN db = Fields,
         SameBut(memory, db), db.sessions = memory.sessions, db.devices = memory.devices,
         Save(db) \/ KeepInMemory(db)
  PROVE  IInv'
<1> PICK m : m = issued'
  OBVIOUS
<1>1. Sound(memory, m)
  BY MemoryNow
<1>2. Sound(db, m)
  BY <1>1 DEF Sound, TablesOK, SameBut
<1>3. Later(db)
  BY LaterSelf DEF Later, SameBut
<1>4. QED
  BY <1>2, <1>3, SaveStep

LEMMA SameTables ==
  ASSUME IInv, issued' = issued, NEW db, DOMAIN db = Fields,
         SameBut(memory, db), db.sessions = memory.sessions, db.devices = memory.devices,
         Save(db) \/ KeepInMemory(db)
  PROVE  IInv'
BY NothingDrawn, SameTablesGrown

LEMMA PatchHostingStep ==
  ASSUME IInv, NEW s, NEW mode, PatchHosting(s, mode)
  PROVE  IInv'
<1> PICK db : db = [memory EXCEPT !.config.mode = mode]
  OBVIOUS
<1>1. DOMAIN memory = Fields
  BY DEF IInv, Sound
<1>2. /\ DOMAIN db = Fields /\ SameBut(memory, db)
      /\ db.sessions = memory.sessions /\ db.devices = memory.devices
  BY <1>1 DEF Fields, SameBut
<1>3. issued' = issued /\ (Save(db) \/ KeepInMemory(db))
  BY DEF PatchHosting
<1>4. QED
  BY <1>2, <1>3, SameTables

\* An invitation that is changed keeps that it was accepted or revoked.
LEMMA InviteStep ==
  ASSUME IInv, issued' = issued, NEW i \in DOMAIN memory.invites, NEW row \in InviteRows,
         memory.invites[i].accepted \/ memory.invites[i].revoked => row.accepted \/ row.revoked,
         NEW db, db = [memory EXCEPT !.invites = [memory.invites EXCEPT ![i] = row]],
         Save(db) \/ KeepInMemory(db)
  PROVE  IInv'
<1>1. Grows
  BY NothingDrawn
<1> PICK m : m = issued'
  OBVIOUS
<1>2. Sound(memory, m) /\ TablesOK(memory, m) /\ DOMAIN memory = Fields
  BY <1>1, MemoryNow
<1>3. /\ DOMAIN db = Fields /\ db.invites = [memory.invites EXCEPT ![i] = row]
      /\ db.admins = memory.admins /\ db.users = memory.users
      /\ db.sessions = memory.sessions /\ db.devices = memory.devices
      /\ db.verifications = memory.verifications /\ db.recoveries = memory.recoveries
  BY <1>2 DEF Fields
<1>4. /\ DOMAIN db.invites = DOMAIN memory.invites
      /\ \A k \in DOMAIN db.invites : db.invites[k] = IF k = i THEN row ELSE memory.invites[k]
  BY <1>3
<1>5. Rows(db.invites, m.invites, InviteRows)
  BY <1>2, <1>4 DEF TablesOK, Rows
<1>6. Sound(db, m)
  <2>1. \A a \in DOMAIN db.users : db.users[a].deleted => a \notin db.admins
    BY <1>2, <1>3 DEF Sound, Clean
  <2>2. QED
    BY <1>2, <1>3, <1>5, <2>1, OtherTables DEF TablesOK
<1>7. LaterInvites(memory.invites, db.invites)
  BY <1>4 DEF LaterInvites
<1>8. Later(db)
  BY <1>3, <1>7, LaterSelf DEF Later
<1>9. QED
  BY <1>1, <1>6, <1>8, SaveStep

LEMMA ResendInvitationStep ==
  ASSUME IInv, NEW s, NEW i, ResendInvitation(s, i)
  PROVE  IInv'
<1> PICK invite : invite = memory.invites[i]
  OBVIOUS
<1> PICK row : row = [invite EXCEPT !.sent = @ + 1, !.expired = FALSE]
  OBVIOUS
<1> PICK db : db = [memory EXCEPT !.invites = [memory.invites EXCEPT ![i] = row]]
  OBVIOUS
<1>1. i \in DOMAIN memory.invites /\ issued' = issued
  BY DEF ResendInvitation
<1>2. invite \in InviteRows
  BY <1>1 DEF IInv, Sound, TablesOK, Rows
<1>3. row \in InviteRows /\ row.accepted = invite.accepted /\ row.revoked = invite.revoked
  <2>1. invite.sent + 1 \in Nat
    BY <1>2 DEF InviteRows
  <2>2. QED
    BY <1>2, <2>1 DEF InviteRows
<1>4. Save(db) \/ KeepInMemory(db)
  BY DEF ResendInvitation, SendMail
<1>5. QED
  BY <1>1, <1>3, <1>4, InviteStep

LEMMA ExpireInvitationStep ==
  ASSUME IInv, NEW s, NEW i, NEW over \in BOOLEAN, ExpireInvitation(s, i, over)
  PROVE  IInv'
<1> PICK row : row = [memory.invites[i] EXCEPT !.expired = over]
  OBVIOUS
<1> PICK db : db = [memory EXCEPT !.invites = [memory.invites EXCEPT ![i] = row]]
  OBVIOUS
<1>1. i \in DOMAIN memory.invites /\ issued' = issued
  BY DEF ExpireInvitation
<1>2. memory.invites[i] \in InviteRows
  BY <1>1 DEF IInv, Sound, TablesOK, Rows
<1>3. row \in InviteRows /\ row.accepted = memory.invites[i].accepted /\ row.revoked = memory.invites[i].revoked
  BY <1>2 DEF InviteRows
<1>4. Save(db)
  BY DEF ExpireInvitation
<1>5. QED
  BY <1>1, <1>3, <1>4, InviteStep

LEMMA RevokeInvitationStep ==
  ASSUME IInv, NEW s, NEW i, RevokeInvitation(s, i)
  PROVE  IInv'
<1> PICK row : row = [memory.invites[i] EXCEPT !.revoked = TRUE]
  OBVIOUS
<1> PICK db : db = [memory EXCEPT !.invites = [memory.invites EXCEPT ![i] = row]]
  OBVIOUS
<1>1. i \in DOMAIN memory.invites /\ issued' = issued
  BY DEF RevokeInvitation
<1>2. memory.invites[i] \in InviteRows
  BY <1>1 DEF IInv, Sound, TablesOK, Rows
<1>3. row \in InviteRows /\ row.revoked
  BY <1>2 DEF InviteRows
<1>4. Save(db)
  BY DEF RevokeInvitation
<1>5. QED
  BY <1>1, <1>3, <1>4, InviteStep

LEMMA VerifyEmailStep ==
  ASSUME IInv, NEW token, VerifyEmail(token)
  PROVE  IInv'
<1> PICK v : v = token.id
  OBVIOUS
<1> PICK m : m = issued'
  OBVIOUS
<1> PICK row : row = [memory.verifications[v] EXCEPT !.used = TRUE]
  OBVIOUS
<1> PICK user : user = [memory.users[v] EXCEPT !.verified = TRUE]
  OBVIOUS
<1> PICK used : used = [memory EXCEPT !.verifications = [memory.verifications EXCEPT ![v] = row]]
  OBVIOUS
<1> PICK verified : verified = [used EXCEPT !.users = [memory.users EXCEPT ![v] = user]]
  OBVIOUS
<1>1. v \in DOMAIN memory.verifications /\ issued' = issued
  BY DEF VerifyEmail
<1>2. Grows /\ Sound(memory, m) /\ TablesOK(memory, m) /\ DOMAIN memory = Fields
  BY <1>1, NothingDrawn, MemoryNow
<1>3. /\ DOMAIN used = Fields /\ used.verifications = [memory.verifications EXCEPT ![v] = row]
      /\ used.admins = memory.admins /\ used.users = memory.users
      /\ used.sessions = memory.sessions /\ used.devices = memory.devices
      /\ used.invites = memory.invites /\ used.recoveries = memory.recoveries
  BY <1>2 DEF Fields
<1>4. row \in TokenRows /\ row.used
  <2>1. memory.verifications[v] \in TokenRows
    BY <1>1, <1>2 DEF TablesOK, Rows
  <2>2. QED
    BY <2>1 DEF TokenRows
<1>5. /\ DOMAIN used.verifications = DOMAIN memory.verifications
      /\ \A k \in DOMAIN used.verifications :
            used.verifications[k] = IF k = v THEN row ELSE memory.verifications[k]
  BY <1>3
<1>6. Rows(used.verifications, m.users, TokenRows)
  BY <1>2, <1>4, <1>5 DEF TablesOK, Rows
<1>7. LaterVerifications(memory.verifications, used.verifications)
  BY <1>4, <1>5 DEF LaterVerifications
<1>8. \A a \in DOMAIN memory.users : memory.users[a].deleted => a \notin memory.admins
  BY <1>2 DEF Sound, Clean
<1>9. CASE v \in DOMAIN memory.users
  <2>1. Save(verified)
    <3>1. [used EXCEPT !.users[v].verified = TRUE] = verified
      BY <1>3
    <3>2. QED
      BY <1>1, <1>3, <1>9, <3>1 DEF VerifyEmail
  <2>2. /\ DOMAIN verified = Fields /\ verified.users = [memory.users EXCEPT ![v] = user]
        /\ verified.admins = memory.admins /\ verified.verifications = used.verifications
        /\ verified.sessions = memory.sessions /\ verified.devices = memory.devices
        /\ verified.invites = memory.invites /\ verified.recoveries = memory.recoveries
    BY <1>3 DEF Fields
  <2>3. user \in UserRows /\ user.deleted = memory.users[v].deleted
    <3>1. memory.users[v] \in UserRows
      BY <1>2, <1>9 DEF TablesOK, Rows
    <3>2. QED
      BY <3>1 DEF UserRows
  <2>4. /\ DOMAIN verified.users = DOMAIN memory.users
        /\ \A a \in DOMAIN verified.users :
              verified.users[a] = IF a = v THEN user ELSE memory.users[a]
    BY <2>2
  <2>5. Rows(verified.users, m.users, UserRows)
    BY <1>2, <2>3, <2>4 DEF TablesOK, Rows
  <2>6. \A a \in DOMAIN verified.users : verified.users[a].deleted =>
          a \in DOMAIN memory.users /\ memory.users[a].deleted /\ a \notin verified.admins
    BY <1>8, <2>2, <2>3, <2>4
  <2>7. Sound(verified, m)
    <3>1. /\ Rows(verified.verifications, m.users, TokenRows)
          /\ Rows(verified.recoveries, m.recoveries, RecoveryRows)
          /\ Rows(verified.invites, m.invites, InviteRows) /\ Sound(memory, m)
      BY <1>2, <1>6, <2>2 DEF TablesOK
    <3>2. QED
      BY ONLY <2>2, <2>5, <2>6, <3>1, OtherTables
  <2>8. LaterUsers(memory.users, verified.users)
    BY <2>3, <2>4 DEF LaterUsers
  <2>9. Later(verified)
    BY <1>7, <2>2, <2>8, LaterSelf DEF Later
  <2>10. QED
    BY <1>2, <2>1, <2>7, <2>9, SaveStep
<1>10. CASE v \notin DOMAIN memory.users
  <2>1. KeepInMemory(used)
    BY <1>1, <1>10 DEF VerifyEmail
  <2>2. Sound(used, m)
    <3>1. /\ used.users = memory.users /\ used.admins = memory.admins
          /\ used.sessions = memory.sessions /\ used.devices = memory.devices
          /\ used.invites = memory.invites /\ used.recoveries = memory.recoveries
          /\ DOMAIN used = Fields
      BY <1>3
    <3>2. Rows(used.users, m.users, UserRows)
      BY <1>2, <3>1 DEF TablesOK
    <3>3. \A k \in DOMAIN used.users : used.users[k].deleted =>
            k \in DOMAIN memory.users /\ memory.users[k].deleted /\ k \notin used.admins
      BY <1>8, <3>1
    <3>4. Rows(used.invites, m.invites, InviteRows) /\ Rows(used.recoveries, m.recoveries, RecoveryRows)
      BY <1>2, <3>1 DEF TablesOK
    <3>5. Sound(memory, m)
      BY <1>2
    <3>6. QED
      BY ONLY <1>6, <3>1, <3>2, <3>3, <3>4, <3>5, OtherTables
  <2>3. Later(used)
    BY <1>3, <1>7, LaterSelf DEF Later
  <2>4. QED
    BY <1>2, <2>1, <2>2, <2>3, SaveStep
<1>11. QED
  BY <1>9, <1>10

\* Ending the sessions of an account or a device, with or without devices.
LEMMA LogoutAllStep ==
  ASSUME IInv, NEW s, LogoutAll(s)
  PROVE  IInv'
<1> PICK a : a = memory.sessions[s].account
  OBVIOUS
<1> PICK m : m = issued'
  OBVIOUS
<1> PICK db : db = EndSessions(memory, "account", a)
  OBVIOUS
<1>1. issued' = issued /\ Save(db)
  BY DEF LogoutAll
<1>2. Grows /\ Sound(memory, m) /\ m \in Counts
  BY <1>1, NothingDrawn, MemoryNow DEF Grows
<1>3. /\ Sound(db, m) /\ SameBut(memory, db) /\ db.devices = memory.devices
      /\ LaterSessions(memory.sessions, db.sessions)
  BY <1>2, EndedSessions DEF LaterSessions
<1>4. Later(db)
  BY <1>3, LaterSelf DEF Later, SameBut
<1>5. QED
  BY <1>1, <1>2, <1>3, <1>4, SaveStep

LEMMA RevokeAllDevicesStep ==
  ASSUME IInv, NEW s, RevokeAllDevices(s)
  PROVE  IInv'
<1> PICK a : a = memory.sessions[s].account
  OBVIOUS
<1> PICK m : m = issued'
  OBVIOUS
<1> PICK revoked : revoked = RevokeDevices(memory, a)
  OBVIOUS
<1> PICK db : db = EndSessions(revoked, "account", a)
  OBVIOUS
<1>1. issued' = issued /\ Save(db)
  BY DEF RevokeAllDevices
<1>2. Grows /\ Sound(memory, m) /\ m \in Counts
  BY <1>1, NothingDrawn, MemoryNow DEF Grows
<1>3. /\ Sound(revoked, m) /\ SameBut(memory, revoked) /\ revoked.sessions = memory.sessions
      /\ LaterDevices(memory.devices, revoked.devices)
  BY <1>2, RevokedDevices DEF LaterDevices
<1>4. /\ Sound(db, m) /\ SameBut(revoked, db) /\ db.devices = revoked.devices
      /\ LaterSessions(memory.sessions, db.sessions)
  BY <1>2, <1>3, EndedSessions DEF LaterSessions
<1>5. Later(db)
  BY <1>3, <1>4, LaterSelf DEF Later, SameBut
<1>6. QED
  BY <1>1, <1>2, <1>4, <1>5, SaveStep

LEMMA LogoutStep ==
  ASSUME IInv, NEW s, Logout(s)
  PROVE  IInv'
<1> PICK m : m = issued'
  OBVIOUS
<1> PICK row : row = [memory.sessions[s] EXCEPT !.active = FALSE]
  OBVIOUS
<1> PICK db : db = [memory EXCEPT !.sessions = [memory.sessions EXCEPT ![s] = row]]
  OBVIOUS
<1>1. s \in DOMAIN memory.sessions /\ issued' = issued /\ Save(db)
  BY DEF Logout
<1>2. Grows /\ Sound(memory, m) /\ TablesOK(memory, m) /\ DOMAIN memory = Fields
  BY <1>1, NothingDrawn, MemoryNow
<1>3. /\ DOMAIN db = Fields /\ db.sessions = [memory.sessions EXCEPT ![s] = row]
      /\ SameBut(memory, db) /\ db.devices = memory.devices
  BY <1>2 DEF Fields, SameBut
<1>4. /\ row \in SessionRows /\ ~row.active
      /\ row.account = memory.sessions[s].account /\ row.device = memory.sessions[s].device
  <2>1. memory.sessions[s] \in SessionRows
    BY <1>1, <1>2 DEF TablesOK, Rows
  <2>2. QED
    BY <2>1 DEF SessionRows
<1>5. /\ DOMAIN db.sessions = DOMAIN memory.sessions
      /\ \A k \in DOMAIN db.sessions : db.sessions[k] = IF k = s THEN row ELSE memory.sessions[k]
  BY <1>3
<1>6. TablesOK(db, m)
  <2>1. Rows(db.sessions, m.sessions, SessionRows)
    BY <1>2, <1>4, <1>5 DEF TablesOK, Rows
  <2>2. \A k \in DOMAIN db.sessions : db.sessions[k].device \in 1 .. m.devices
    BY <1>1, <1>2, <1>4, <1>5 DEF TablesOK
  <2>3. QED
    BY <1>2, <1>3, <2>1, <2>2 DEF TablesOK, SameBut
<1>7. Clean(db.admins, db.users, db.sessions, db.devices)
  BY <1>2, <1>3, <1>4, <1>5 DEF Sound, Clean, SameBut
<1>8. Single(db.sessions)
  BY <1>2, <1>4, <1>5 DEF Sound, Single
<1>9. Sound(db, m)
  BY <1>3, <1>6, <1>7, <1>8 DEF Sound
<1>10. LaterSessions(memory.sessions, db.sessions)
  BY <1>4, <1>5 DEF LaterSessions
<1>11. Later(db)
  BY <1>3, <1>10, LaterSelf DEF Later, SameBut
<1>12. QED
  BY <1>1, <1>2, <1>9, <1>11, SaveStep

LEMMA RevokeDeviceStep ==
  ASSUME IInv, NEW s, NEW d, RevokeDevice(s, d)
  PROVE  IInv'
<1> PICK m : m = issued'
  OBVIOUS
<1> PICK row : row = [memory.devices[d] EXCEPT !.revoked = TRUE]
  OBVIOUS
<1> PICK ended : ended = EndSessions(memory, "device", d)
  OBVIOUS
<1> PICK db : db = [ended EXCEPT !.devices = [memory.devices EXCEPT ![d] = row]]
  OBVIOUS
<1>1. d \in DOMAIN memory.devices /\ issued' = issued
  BY DEF RevokeDevice
<1>2. Grows /\ Sound(memory, m) /\ TablesOK(memory, m) /\ m \in Counts
  BY <1>1, NothingDrawn, MemoryNow DEF Grows
<1>3. /\ Sound(ended, m) /\ SameBut(memory, ended) /\ ended.devices = memory.devices
      /\ LaterSessions(memory.sessions, ended.sessions)
  BY <1>2, EndedSessions DEF LaterSessions
<1>4. Save(db)
  BY <1>3 DEF RevokeDevice
<1>5. DOMAIN ended = Fields /\ TablesOK(ended, m) /\ Clean(ended.admins, ended.users, ended.sessions, ended.devices)
  BY <1>3 DEF Sound
<1>6. /\ DOMAIN db = Fields /\ db.devices = [memory.devices EXCEPT ![d] = row]
      /\ SameBut(ended, db) /\ db.sessions = ended.sessions
  BY <1>5 DEF Fields, SameBut
<1>7. row \in DeviceRows /\ row.revoked /\ row.account = memory.devices[d].account
  <2>1. memory.devices[d] \in DeviceRows
    BY <1>1, <1>2 DEF TablesOK, Rows
  <2>2. QED
    BY <2>1 DEF DeviceRows
<1>8. /\ DOMAIN db.devices = DOMAIN memory.devices
      /\ \A k \in DOMAIN db.devices : db.devices[k] = IF k = d THEN row ELSE memory.devices[k]
  BY <1>6
<1>9. TablesOK(db, m)
  <2>1. Rows(db.devices, m.devices, DeviceRows)
    BY <1>2, <1>7, <1>8 DEF TablesOK, Rows
  <2>2. QED
    BY <1>5, <1>6, <2>1 DEF TablesOK, SameBut
<1>10. Clean(db.admins, db.users, db.sessions, db.devices)
  BY <1>3, <1>5, <1>6, <1>7, <1>8 DEF Clean, SameBut
<1>11. Sound(db, m)
  BY <1>3, <1>6, <1>9, <1>10 DEF Sound
<1>12. LaterDevices(memory.devices, db.devices)
  BY <1>7, <1>8 DEF LaterDevices
<1>13. Later(db)
  BY <1>3, <1>6, <1>12, LaterSelf DEF Later, SameBut
<1>14. QED
  BY <1>2, <1>4, <1>11, <1>13, SaveStep

LEMMA DeleteAccountStep ==
  ASSUME IInv, NEW s, DeleteAccount(s)
  PROVE  IInv'
<1> PICK a : a = memory.sessions[s].account
  OBVIOUS
<1> PICK m : m = issued'
  OBVIOUS
<1> PICK ended : ended = EndSessions(memory, "account", a)
  OBVIOUS
<1> PICK revoked : revoked = RevokeDevices(ended, a)
  OBVIOUS
<1> PICK user : user = [memory.users[a] EXCEPT !.deleted = TRUE]
  OBVIOUS
<1> PICK db : db = [revoked EXCEPT !.users = [memory.users EXCEPT ![a] = user],
                                   !.admins = memory.admins \ {a}]
  OBVIOUS
<1>1. a \in DOMAIN memory.users /\ issued' = issued
  BY DEF DeleteAccount, LiveSessions, authorize
<1>2. Grows /\ Sound(memory, m) /\ TablesOK(memory, m) /\ m \in Counts
  BY <1>1, NothingDrawn, MemoryNow DEF Grows
<1>3. /\ Sound(ended, m) /\ SameBut(memory, ended) /\ ended.devices = memory.devices
      /\ DOMAIN ended.sessions = DOMAIN memory.sessions
      /\ \A k \in DOMAIN memory.sessions :
            /\ ended.sessions[k].account = memory.sessions[k].account
            /\ ~memory.sessions[k].active => ~ended.sessions[k].active
            /\ memory.sessions[k].account = a => ~ended.sessions[k].active
  <2>1. m \in Counts /\ Sound(memory, m) /\ ended = EndSessions(memory, "account", a)
    BY <1>2
  <2>2. QED
    BY ONLY <2>1, EndedSessions
<1>4. /\ Sound(revoked, m) /\ SameBut(ended, revoked) /\ revoked.sessions = ended.sessions
      /\ DOMAIN revoked.devices = DOMAIN ended.devices
      /\ \A d \in DOMAIN ended.devices :
            /\ revoked.devices[d].account = ended.devices[d].account
            /\ ended.devices[d].revoked => revoked.devices[d].revoked
            /\ ended.devices[d].account = a => revoked.devices[d].revoked
  <2>1. m \in Counts /\ Sound(ended, m) /\ revoked = RevokeDevices(ended, a)
    BY <1>2, <1>3
  <2>2. QED
    BY ONLY <2>1, RevokedDevices
<1>5. revoked.users = memory.users /\ revoked.admins = memory.admins
  BY <1>3, <1>4 DEF SameBut
<1>6. Save(db)
  BY <1>5 DEF DeleteAccount
<1>7. /\ DOMAIN revoked = Fields /\ TablesOK(revoked, m)
      /\ Clean(revoked.admins, revoked.users, revoked.sessions, revoked.devices)
  BY <1>4 DEF Sound
<1>8. /\ DOMAIN db = Fields /\ db.users = [memory.users EXCEPT ![a] = user]
      /\ db.admins = memory.admins \ {a}
      /\ db.sessions = revoked.sessions /\ db.devices = revoked.devices
      /\ db.invites = revoked.invites /\ db.verifications = revoked.verifications
      /\ db.recoveries = revoked.recoveries
  BY <1>7 DEF Fields
<1>9. user \in UserRows /\ user.deleted
  <2>1. memory.users[a] \in UserRows
    BY <1>1, <1>2 DEF TablesOK, Rows
  <2>2. QED
    BY <2>1 DEF UserRows
<1>10. /\ DOMAIN db.users = DOMAIN memory.users
       /\ \A k \in DOMAIN db.users : db.users[k] = IF k = a THEN user ELSE memory.users[k]
  BY ONLY <1>8
<1>11. TablesOK(db, m)
  <2>1. Rows(db.users, m.users, UserRows)
    BY <1>2, <1>9, <1>10 DEF TablesOK, Rows
  <2>2. QED
    BY <1>7, <1>8, <2>1 DEF TablesOK
<1>12. Clean(db.admins, db.users, db.sessions, db.devices)
  <2> SUFFICES ASSUME NEW k \in DOMAIN db.users, db.users[k].deleted
               PROVE  /\ k \notin db.admins
                      /\ \A i \in DOMAIN db.sessions : db.sessions[i].account = k => ~db.sessions[i].active
                      /\ \A d \in DOMAIN db.devices : db.devices[d].account = k => db.devices[d].revoked
    BY DEF Clean
  <2>1. CASE k = a
    <3>1. k \notin db.admins
      BY <1>8, <2>1
    <3>2. \A i \in DOMAIN db.sessions : db.sessions[i].account = k => ~db.sessions[i].active
      <4>1. db.sessions = ended.sessions
        BY <1>4, <1>8
      <4>2. QED
        BY ONLY <1>3, <2>1, <4>1
    <3>3. \A d \in DOMAIN db.devices : db.devices[d].account = k => db.devices[d].revoked
      <4>1. db.devices = revoked.devices
        BY <1>8
      <4>2. QED
        BY ONLY <1>4, <2>1, <4>1
    <3>4. QED
      BY <3>1, <3>2, <3>3
  <2>2. CASE k # a
    <3>1. k \in DOMAIN revoked.users /\ revoked.users[k].deleted
      BY <1>5, <1>10, <2>2
    <3>2. /\ k \notin revoked.admins
          /\ \A i \in DOMAIN revoked.sessions : revoked.sessions[i].account = k => ~revoked.sessions[i].active
          /\ \A d \in DOMAIN revoked.devices : revoked.devices[d].account = k => revoked.devices[d].revoked
      BY <1>7, <3>1 DEF Clean
    <3>3. db.admins \subseteq revoked.admins
      BY <1>5, <1>8
    <3>4. db.sessions = revoked.sessions /\ db.devices = revoked.devices
      BY <1>5, <1>8
    <3>5. QED
      BY ONLY <3>2, <3>3, <3>4
  <2>3. QED
    BY <2>1, <2>2
<1>13. Sound(db, m)
  BY <1>4, <1>8, <1>11, <1>12 DEF Sound
<1>14. LaterUsers(memory.users, db.users)
  BY <1>9, <1>10 DEF LaterUsers
<1>15. LaterSessions(memory.sessions, db.sessions) /\ LaterDevices(memory.devices, db.devices)
  <2>1. db.sessions = ended.sessions /\ db.devices = revoked.devices /\ ended.devices = memory.devices
    BY <1>3, <1>4, <1>8
  <2>2. LaterSessions(memory.sessions, db.sessions)
    BY ONLY <1>3, <2>1 DEF LaterSessions
  <2>3. LaterDevices(memory.devices, db.devices)
    BY ONLY <1>4, <2>1 DEF LaterDevices
  <2>4. QED
    BY <2>2, <2>3
<1>16. Later(db)
  BY <1>3, <1>4, <1>8, <1>14, <1>15, LaterSelf DEF Later, SameBut
<1>17. QED
  BY <1>2, <1>6, <1>13, <1>16, SaveStep

\* Handlers that draw identifiers.
LEMMA Drawing ==
  ASSUME NEW n \in Counts
  PROVE  /\ [n EXCEPT !.users = @ + 1] \in Counts /\ [n EXCEPT !.sessions = @ + 1] \in Counts
         /\ [n EXCEPT !.devices = @ + 1] \in Counts /\ [n EXCEPT !.invites = @ + 1] \in Counts
         /\ [n EXCEPT !.recoveries = @ + 1] \in Counts /\ [n EXCEPT !.logbooks = @ + 1] \in Counts
         /\ [n EXCEPT !.sessions = @ + 1, !.devices = @ + 1] \in Counts
         /\ n.users \in Nat /\ n.sessions \in Nat /\ n.devices \in Nat
         /\ n.invites \in Nat /\ n.recoveries \in Nat /\ n.logbooks \in Nat
<1>1. /\ n.users \in Nat /\ n.sessions \in Nat /\ n.devices \in Nat
      /\ n.invites \in Nat /\ n.recoveries \in Nat /\ n.logbooks \in Nat
  BY DEF Counts
<1>2. /\ n.users + 1 \in Nat /\ n.sessions + 1 \in Nat /\ n.devices + 1 \in Nat
      /\ n.invites + 1 \in Nat /\ n.recoveries + 1 \in Nat /\ n.logbooks + 1 \in Nat
  BY <1>1
<1>3. QED
  BY <1>1, <1>2 DEF Counts

LEMMA CreateLogbookStep ==
  ASSUME IInv, NEW s, CreateLogbook(s)
  PROVE  IInv'
<1> PICK n : n = issued
  OBVIOUS
<1> PICK a : a = memory.sessions[s].account
  OBVIOUS
<1>db. PICK db : db = WithLogbook(memory, a, n.logbooks + 1)
  OBVIOUS
<1>1. issued' = [n EXCEPT !.logbooks = @ + 1] /\ Save(db)
  BY <1>db DEF CreateLogbook
<1>2. n \in Counts /\ issued' \in Counts
  BY <1>1, Drawing DEF IInv
<1>3. Grows
  BY <1>1, <1>2 DEF Grows, Counts
<1>4. DOMAIN memory = Fields
  BY <1>3, MemoryNow
<1>5. /\ DOMAIN db = Fields /\ SameBut(memory, db)
      /\ db.sessions = memory.sessions /\ db.devices = memory.devices
  BY <1>4, <1>db DEF WithLogbook, SameBut, Fields
<1>6. QED
  BY <1>1, <1>3, <1>5, SameTablesGrown

LEMMA CreateInvitationStep ==
  ASSUME IInv, NEW s, NEW email \in Emails, NEW logbook \in Logbooks, NEW role \in Roles,
         CreateInvitation(s, email, logbook, role)
  PROVE  IInv'
<1> PICK n : n = issued
  OBVIOUS
<1> PICK m : m = [n EXCEPT !.invites = @ + 1]
  OBVIOUS
<1> PICK i : i = n.invites + 1
  OBVIOUS
<1> PICK row : row = [email |-> email, logbook |-> logbook, role |-> role, sent |-> 0,
                      expired |-> FALSE, accepted |-> FALSE, revoked |-> FALSE]
  OBVIOUS
<1> PICK table : table = Put(memory.invites, i, row)
  OBVIOUS
<1> PICK db : db = [memory EXCEPT !.invites = table]
  OBVIOUS
<1>1. issued' = m /\ Save(db)
  BY DEF CreateInvitation
<1>2. n \in Counts /\ m \in Counts
  BY Drawing DEF IInv
<1>3. m.invites = i /\ i \in Nat /\ i \in 1 .. m.invites /\ i \notin 1 .. n.invites
  BY <1>2 DEF Counts
<1>4. Grows
  BY <1>1, <1>2 DEF Grows, Counts
<1>5. Sound(memory, m) /\ TablesOK(memory, m) /\ TablesOK(memory, n) /\ DOMAIN memory = Fields
  BY <1>1, <1>4, MemoryNow
<1>6. /\ DOMAIN db = Fields /\ db.invites = table
      /\ db.admins = memory.admins /\ db.users = memory.users
      /\ db.sessions = memory.sessions /\ db.devices = memory.devices
      /\ db.verifications = memory.verifications /\ db.recoveries = memory.recoveries
  BY <1>5 DEF Fields
<1>7. row \in InviteRows
  BY DEF InviteRows
<1>8. /\ DOMAIN table = DOMAIN memory.invites \cup {i} /\ table[i] = row
      /\ \A k \in DOMAIN memory.invites : k # i /\ table[k] = memory.invites[k]
  BY <1>3, <1>5 DEF Put, TablesOK, Rows
<1>9. Rows(table, m.invites, InviteRows)
  BY <1>3, <1>5, <1>7, <1>8 DEF TablesOK, Rows
<1>10. Sound(db, m)
  <2>1. \A a \in DOMAIN db.users : db.users[a].deleted => a \notin db.admins
    BY <1>5, <1>6 DEF Sound, Clean
  <2>2. /\ Rows(db.users, m.users, UserRows) /\ Rows(db.verifications, m.users, TokenRows)
        /\ Rows(db.recoveries, m.recoveries, RecoveryRows) /\ Rows(db.invites, m.invites, InviteRows)
    BY <1>5, <1>6, <1>9 DEF TablesOK
  <2>3. Sound(memory, m)
    BY <1>5
  <2>4. QED
    BY ONLY <1>6, <2>1, <2>2, <2>3, OtherTables
<1>11. LaterInvites(memory.invites, table)
  BY <1>3, <1>8 DEF LaterInvites
<1>12. Later(db)
  BY <1>6, <1>11, LaterSelf DEF Later
<1>13. QED
  BY <1>1, <1>4, <1>10, <1>12, SaveStep

LEMMA StartRecoveryStep ==
  ASSUME IInv, NEW email, StartRecovery(email)
  PROVE  IInv'
<1>1. CASE issued' = issued /\ Save(memory)
  <2> PICK db : db = memory
    OBVIOUS
  <2>1. DOMAIN db = Fields /\ SameBut(memory, db)
    BY DEF IInv, Sound, SameBut
  <2>2. QED
    BY <1>1, <2>1, SameTables
<1>2. ASSUME NEW a, MayRecover(memory, a),
             issued' = [issued EXCEPT !.recoveries = @ + 1],
             SendMail([for |-> "recovery", id |-> issued.recoveries + 1, sent |-> 0],
                      [memory EXCEPT !.recoveries =
                          Put(@, issued.recoveries + 1, [account |-> a, used |-> FALSE])])
      PROVE  IInv'
  <2> PICK n : n = issued
    OBVIOUS
  <2> PICK m : m = [n EXCEPT !.recoveries = @ + 1]
    OBVIOUS
  <2> PICK r : r = n.recoveries + 1
    OBVIOUS
  <2> PICK row : row = [account |-> a, used |-> FALSE]
    OBVIOUS
  <2> PICK table : table = Put(memory.recoveries, r, row)
    OBVIOUS
  <2> PICK db : db = [memory EXCEPT !.recoveries = table]
    OBVIOUS
  <2>1. issued' = m /\ (Save(db) \/ KeepInMemory(db))
    BY <1>2 DEF SendMail
  <2>2. n \in Counts /\ m \in Counts
    BY Drawing DEF IInv
  <2>3. m.recoveries = r /\ r \in Nat /\ r \in 1 .. m.recoveries /\ r \notin 1 .. n.recoveries
    BY <2>2 DEF Counts
  <2>4. Grows
    BY <2>1, <2>2 DEF Grows, Counts
  <2>5. Sound(memory, m) /\ TablesOK(memory, m) /\ TablesOK(memory, n) /\ DOMAIN memory = Fields
    BY <2>1, <2>4, MemoryNow
  <2>6. /\ DOMAIN db = Fields /\ db.recoveries = table
        /\ db.admins = memory.admins /\ db.users = memory.users
        /\ db.sessions = memory.sessions /\ db.devices = memory.devices
        /\ db.verifications = memory.verifications /\ db.invites = memory.invites
    BY <2>5 DEF Fields
  <2>7. row \in RecoveryRows
    <3>1. a \in 1 .. n.users
      BY <1>2, <2>5 DEF MayRecover, TablesOK, Rows
    <3>2. a \in Nat
      BY <2>2, <3>1 DEF Counts
    <3>3. QED
      BY <3>2 DEF RecoveryRows
  <2>8. /\ DOMAIN table = DOMAIN memory.recoveries \cup {r} /\ table[r] = row
        /\ \A k \in DOMAIN memory.recoveries : k # r /\ table[k] = memory.recoveries[k]
    BY <2>3, <2>5 DEF Put, TablesOK, Rows
  <2>9. Rows(table, m.recoveries, RecoveryRows)
    BY <2>3, <2>5, <2>7, <2>8 DEF TablesOK, Rows
  <2>10. Sound(db, m)
    <3>1. \A b \in DOMAIN db.users : db.users[b].deleted => b \notin db.admins
      BY <2>5, <2>6 DEF Sound, Clean
    <3>2. /\ Rows(db.users, m.users, UserRows) /\ Rows(db.verifications, m.users, TokenRows)
          /\ Rows(db.recoveries, m.recoveries, RecoveryRows) /\ Rows(db.invites, m.invites, InviteRows)
      BY <2>5, <2>6, <2>9 DEF TablesOK
    <3>3. Sound(memory, m)
      BY <2>5
    <3>4. QED
      BY ONLY <2>6, <3>1, <3>2, <3>3, OtherTables
  <2>11. LaterRecoveries(memory.recoveries, table)
    BY <2>3, <2>8 DEF LaterRecoveries
  <2>12. Later(db)
    BY <2>6, <2>11, LaterSelf DEF Later
  <2>13. QED
    BY <2>1, <2>4, <2>10, <2>12, SaveStep
<1>3. QED
  BY <1>1, <1>2 DEF StartRecovery

\* Sign-ins: a session on a new device of an account that is not deleted.
LEMMA SignIn ==
  ASSUME IInv, Grows,
         issued'.sessions = issued.sessions + 1, issued'.devices = issued.devices + 1,
         NEW base, Sound(base, issued'), Later(base),
         base.sessions = memory.sessions, base.devices = memory.devices,
         NEW a \in Nat, a \in DOMAIN base.users => ~base.users[a].deleted,
         Save(WithSession(base, a))
  PROVE  IInv'
<1> PICK n : n = issued
  OBVIOUS
<1> PICK m : m = issued'
  OBVIOUS
<1> PICK db : db = WithSession(base, a)
  OBVIOUS
<1>1. n \in Counts /\ m \in Counts
  BY DEF IInv, Grows
<1>2. m.sessions = n.sessions + 1 /\ m.devices = n.devices + 1
  OBVIOUS
<1>3. /\ DOMAIN base.sessions \subseteq 1 .. n.sessions /\ DOMAIN base.devices \subseteq 1 .. n.devices
      /\ \A s \in DOMAIN base.sessions : base.sessions[s].device \in 1 .. n.devices
  <2>1. TablesOK(memory, n)
    BY MemoryNow
  <2>2. QED
    BY <2>1 DEF TablesOK, Rows
<1>4. /\ Sound(db, m) /\ SameBut(base, db)
      /\ LaterSessions(memory.sessions, db.sessions) /\ LaterDevices(memory.devices, db.devices)
  BY <1>1, <1>2, <1>3, NewSession
<1>5. Later(db)
  BY <1>4 DEF Later, SameBut
<1>6. QED
  BY <1>4, <1>5, SaveStep

LEMMA DrawnGrows ==
  ASSUME IInv, issued' = DrawnWithSession(issued)
  PROVE  Grows /\ issued'.sessions = issued.sessions + 1 /\ issued'.devices = issued.devices + 1
<1> PICK n : n = issued
  OBVIOUS
<1>1. n \in Counts
  BY DEF IInv
<1>2. issued' = [n EXCEPT !.sessions = @ + 1, !.devices = @ + 1]
  BY DEF DrawnWithSession
<1>3. issued' \in Counts
  BY <1>1, <1>2, Drawing
<1>4. QED
  BY <1>1, <1>2, <1>3 DEF Grows, Counts

LEMMA LoginStep ==
  ASSUME IInv, NEW email, Login(email)
  PROVE  IInv'
<1>1. PICK a \in DOMAIN memory.users : /\ ~memory.users[a].deleted
                                       /\ issued' = DrawnWithSession(issued)
                                       /\ Save(WithSession(memory, a))
  BY DEF Login
<1> PICK base : base = memory
  OBVIOUS
<1>2. Grows
  BY <1>1, DrawnGrows
<1>3. Sound(base, issued') /\ TablesOK(memory, issued) /\ issued \in Counts
  BY <1>2, MemoryNow
<1>4. a \in Nat
  BY <1>1, <1>3 DEF TablesOK, Rows, Counts
<1>5. Later(base)
  BY LaterSelf DEF Later
<1>6. QED
  BY <1>1, <1>3, <1>4, <1>5, DrawnGrows, SignIn

LEMMA CompleteRecoveryStep ==
  ASSUME IInv, NEW token, CompleteRecovery(token)
  PROVE  IInv'
<1> PICK r : r = token.id
  OBVIOUS
<1> PICK m : m = issued'
  OBVIOUS
<1> PICK a : a = memory.recoveries[r].account
  OBVIOUS
<1> PICK row : row = [memory.recoveries[r] EXCEPT !.used = TRUE]
  OBVIOUS
<1> PICK db : db = [memory EXCEPT !.recoveries = [memory.recoveries EXCEPT ![r] = row]]
  OBVIOUS
<1>1. r \in DOMAIN memory.recoveries
  BY DEF CompleteRecovery
<1>2. \/ MayRecover(memory, a) /\ issued' = DrawnWithSession(issued) /\ Save(WithSession(db, a))
      \/ issued' = issued /\ KeepInMemory(db)
  BY DEF CompleteRecovery
<1>3. Grows
  BY <1>2, NothingDrawn, DrawnGrows
<1>4. Sound(memory, m) /\ TablesOK(memory, m) /\ DOMAIN memory = Fields /\ m \in Counts
  BY <1>3, MemoryNow DEF Grows
<1>5. /\ DOMAIN db = Fields /\ db.recoveries = [memory.recoveries EXCEPT ![r] = row]
      /\ db.admins = memory.admins /\ db.users = memory.users
      /\ db.sessions = memory.sessions /\ db.devices = memory.devices
      /\ db.invites = memory.invites /\ db.verifications = memory.verifications
  BY <1>4 DEF Fields
<1>6. row \in RecoveryRows /\ row.used
  <2>1. memory.recoveries[r] \in RecoveryRows
    BY <1>1, <1>4 DEF TablesOK, Rows
  <2>2. QED
    BY <2>1 DEF RecoveryRows
<1>7. /\ DOMAIN db.recoveries = DOMAIN memory.recoveries
      /\ \A k \in DOMAIN db.recoveries : db.recoveries[k] = IF k = r THEN row ELSE memory.recoveries[k]
  BY <1>5
<1>8. Rows(db.recoveries, m.recoveries, RecoveryRows)
  BY <1>4, <1>6, <1>7 DEF TablesOK, Rows
<1>9. Sound(db, m)
  <2>1. \A b \in DOMAIN db.users : db.users[b].deleted => b \notin db.admins
    BY <1>4, <1>5 DEF Sound, Clean
  <2>2. /\ Rows(db.users, m.users, UserRows) /\ Rows(db.verifications, m.users, TokenRows)
        /\ Rows(db.recoveries, m.recoveries, RecoveryRows) /\ Rows(db.invites, m.invites, InviteRows)
    BY <1>4, <1>5, <1>8 DEF TablesOK
  <2>3. Sound(memory, m)
    BY <1>4
  <2>4. QED
    BY ONLY <1>5, <2>1, <2>2, <2>3, OtherTables
<1>10. LaterRecoveries(memory.recoveries, db.recoveries)
  BY <1>6, <1>7 DEF LaterRecoveries
<1>11. Later(db)
  BY <1>5, <1>10, LaterSelf DEF Later
<1>12. CASE issued' = issued /\ KeepInMemory(db)
  BY <1>3, <1>9, <1>11, <1>12, SaveStep
<1>13. CASE MayRecover(memory, a) /\ issued' = DrawnWithSession(issued) /\ Save(WithSession(db, a))
  <2>1. a \in DOMAIN memory.users /\ ~memory.users[a].deleted
    BY <1>13 DEF MayRecover
  <2>2. a \in Nat
    BY <1>4, <2>1 DEF TablesOK, Rows, Counts
  <2>3. QED
    BY <1>5, <1>9, <1>11, <1>13, <2>1, <2>2, DrawnGrows, SignIn
<1>14. QED
  BY <1>2, <1>12, <1>13

\* The session that replaces another one takes over its device.
LEMMA RotateSessionStep ==
  ASSUME IInv, NEW s, RotateSession(s)
  PROVE  IInv'
<1> PICK n : n = issued
  OBVIOUS
<1> PICK m : m = [n EXCEPT !.sessions = @ + 1]
  OBVIOUS
<1> PICK i : i = n.sessions + 1
  OBVIOUS
<1> PICK from : from = memory.sessions[s]
  OBVIOUS
<1>off. PICK off : off = [from EXCEPT !.active = FALSE]
  OBVIOUS
<1>on. PICK on : on = [from EXCEPT !.active = TRUE]
  OBVIOUS
<1>ended. PICK ended : ended = [memory.sessions EXCEPT ![s] = off]
  OBVIOUS
<1>table. PICK table : table = Put(ended, i, on)
  OBVIOUS
<1>db. PICK db : db = [memory EXCEPT !.sessions = table]
  OBVIOUS
<1>1. /\ s \in DOMAIN memory.sessions /\ from.active
      /\ from.account \in DOMAIN memory.users /\ ~memory.users[from.account].deleted
  BY DEF RotateSession, LiveSessions, authorize
<1>2. n \in Counts /\ m \in Counts /\ issued' = m
  BY Drawing DEF IInv, RotateSession
<1>3. m.sessions = i /\ i \in 1 .. m.sessions /\ i \notin 1 .. n.sessions
  BY <1>2 DEF Counts
<1>4. Grows
  BY <1>2 DEF Grows, Counts
<1>5. Sound(memory, m) /\ TablesOK(memory, m) /\ TablesOK(memory, n) /\ DOMAIN memory = Fields
  BY <1>2, <1>4, MemoryNow
<1>6. Save(db)
  <2>1. Rotated(memory, s).sessions = ended
    BY <1>5, <1>off, <1>ended DEF Rotated, Fields
  <2>2. [Rotated(memory, s) EXCEPT !.sessions = table] = db
    BY <1>5, <1>db DEF Rotated, Fields
  <2>3. QED
    BY <1>on, <1>table, <2>1, <2>2 DEF RotateSession
<1>7. /\ DOMAIN db = Fields /\ db.sessions = table
      /\ SameBut(memory, db) /\ db.devices = memory.devices
  BY <1>5, <1>db DEF Fields, SameBut
<1>8. /\ off \in SessionRows /\ on \in SessionRows /\ ~off.active /\ on.active
      /\ off.account = from.account /\ on.account = from.account
      /\ off.device = from.device /\ on.device = from.device
  <2>1. from \in SessionRows
    BY <1>1, <1>5 DEF TablesOK, Rows
  <2>2. QED
    BY <1>off, <1>on, <2>1 DEF SessionRows
<1>9. /\ DOMAIN table = DOMAIN memory.sessions \cup {i} /\ table[i] = on
      /\ \A k \in DOMAIN memory.sessions :
            k # i /\ table[k] = IF k = s THEN off ELSE memory.sessions[k]
  BY <1>1, <1>3, <1>5, <1>ended, <1>table DEF Put, TablesOK, Rows
<1>10. TablesOK(db, m)
  <2>1. Rows(table, m.sessions, SessionRows)
    BY <1>3, <1>5, <1>8, <1>9 DEF TablesOK, Rows
  <2>2. \A k \in DOMAIN table : table[k].device \in 1 .. m.devices
    BY <1>1, <1>5, <1>8, <1>9 DEF TablesOK
  <2>3. QED
    BY <1>5, <1>7, <2>1, <2>2 DEF TablesOK, SameBut
<1>11. Clean(db.admins, db.users, db.sessions, db.devices)
  <2>1. Clean(memory.admins, memory.users, memory.sessions, memory.devices)
    BY <1>5 DEF Sound
  <2> SUFFICES ASSUME NEW b \in DOMAIN memory.users, memory.users[b].deleted
               PROVE  /\ b \notin memory.admins
                      /\ \A k \in DOMAIN table : table[k].account = b => ~table[k].active
                      /\ \A d \in DOMAIN memory.devices :
                            memory.devices[d].account = b => memory.devices[d].revoked
    BY <1>7 DEF Clean, SameBut
  <2>2. b # from.account
    BY <1>1
  <2>3. \A k \in DOMAIN memory.sessions :
          memory.sessions[k].account = b => ~memory.sessions[k].active
    BY <2>1 DEF Clean
  <2>4. \A k \in DOMAIN table : table[k].account = b => ~table[k].active
    BY ONLY <1>8, <1>9, <2>2, <2>3
  <2>5. QED
    BY <2>1, <2>4 DEF Clean
<1>12. Single(table)
  <2>1. Single(memory.sessions)
    BY <1>5 DEF Sound
  <2>2. \A k \in DOMAIN memory.sessions :
          memory.sessions[k].active /\ memory.sessions[k].device = from.device => k = s
    BY <1>1, <2>1 DEF Single
  <2>3. \A k \in DOMAIN memory.sessions : table[k].active => table[k].device # from.device
    BY <1>8, <1>9, <2>2
  <2>4. \A k \in DOMAIN memory.sessions : table[k].active => table[k] = memory.sessions[k]
    BY <1>8, <1>9
  <2>5. QED
    BY <1>8, <1>9, <2>1, <2>3, <2>4 DEF Single
<1>13. Sound(db, m)
  BY <1>7, <1>10, <1>11, <1>12 DEF Sound
<1>14. LaterSessions(memory.sessions, table)
  BY <1>2, <1>3, <1>8, <1>9 DEF LaterSessions
<1>15. Later(db)
  BY <1>7, <1>14, LaterSelf DEF Later, SameBut
<1>16. QED
  BY <1>2, <1>4, <1>6, <1>13, <1>15, SaveStep

LEMMA RegisterDeviceStep ==
  ASSUME IInv, NEW s, RegisterDevice(s)
  PROVE  IInv'
<1> PICK n : n = issued
  OBVIOUS
<1> PICK m : m = [n EXCEPT !.devices = @ + 1]
  OBVIOUS
<1> PICK j : j = n.devices + 1
  OBVIOUS
<1> PICK a : a = memory.sessions[s].account
  OBVIOUS
<1>row. PICK row : row = [account |-> a, revoked |-> FALSE]
  OBVIOUS
<1>table. PICK table : table = Put(memory.devices, j, row)
  OBVIOUS
<1>db. PICK db : db = [memory EXCEPT !.devices = table]
  OBVIOUS
<1>1. a \in DOMAIN memory.users /\ ~memory.users[a].deleted
  BY DEF RegisterDevice, LiveSessions, authorize
<1>2. n \in Counts /\ m \in Counts /\ issued' = m /\ Save(db)
  BY <1>row, <1>table, <1>db, Drawing DEF IInv, RegisterDevice
<1>3. m.devices = j /\ j \in 1 .. m.devices /\ j \notin 1 .. n.devices
  BY <1>2 DEF Counts
<1>4. Grows
  BY <1>2 DEF Grows, Counts
<1>5. Sound(memory, m) /\ TablesOK(memory, m) /\ TablesOK(memory, n) /\ DOMAIN memory = Fields
  BY <1>2, <1>4, MemoryNow
<1>6. /\ DOMAIN db = Fields /\ db.devices = table
      /\ SameBut(memory, db) /\ db.sessions = memory.sessions
  BY <1>5, <1>db DEF Fields, SameBut
<1>7. row \in DeviceRows /\ row.account = a
  <2>1. a \in Nat
    BY <1>1, <1>2, <1>5 DEF TablesOK, Rows, Counts
  <2>2. QED
    BY <1>row, <2>1 DEF DeviceRows
<1>8. /\ DOMAIN table = DOMAIN memory.devices \cup {j} /\ table[j] = row
      /\ \A k \in DOMAIN memory.devices : k # j /\ table[k] = memory.devices[k]
  BY <1>3, <1>5, <1>table DEF Put, TablesOK, Rows
<1>9. TablesOK(db, m)
  <2>1. Rows(table, m.devices, DeviceRows)
    BY <1>3, <1>5, <1>7, <1>8 DEF TablesOK, Rows
  <2>2. QED
    BY <1>5, <1>6, <2>1 DEF TablesOK, SameBut
<1>10. Clean(db.admins, db.users, db.sessions, db.devices)
  <2>1. Clean(memory.admins, memory.users, memory.sessions, memory.devices)
    BY <1>5 DEF Sound
  <2> SUFFICES ASSUME NEW b \in DOMAIN memory.users, memory.users[b].deleted
               PROVE  /\ b \notin memory.admins
                      /\ \A k \in DOMAIN memory.sessions :
                            memory.sessions[k].account = b => ~memory.sessions[k].active
                      /\ \A d \in DOMAIN table : table[d].account = b => table[d].revoked
    BY <1>6 DEF Clean, SameBut
  <2>2. b # a
    BY <1>1
  <2>3. \A d \in DOMAIN memory.devices : memory.devices[d].account = b => memory.devices[d].revoked
    BY <2>1 DEF Clean
  <2>4. \A d \in DOMAIN table : table[d].account = b => table[d].revoked
    BY ONLY <1>7, <1>8, <2>2, <2>3
  <2>5. QED
    BY <2>1, <2>4 DEF Clean
<1>11. Sound(db, m)
  BY <1>5, <1>6, <1>9, <1>10 DEF Sound
<1>12. LaterDevices(memory.devices, table)
  BY <1>2, <1>3, <1>8 DEF LaterDevices
<1>13. Later(db)
  BY <1>6, <1>12, LaterSelf DEF Later, SameBut
<1>14. QED
  BY <1>2, <1>4, <1>11, <1>13, SaveStep

\* A new account takes the next number, and no table knows that number yet.
LEMMA NewAccount ==
  ASSUME IInv, Grows, issued'.users = issued.users + 1,
         NEW email \in Emails, NEW verified \in BOOLEAN,
         NEW base, DOMAIN base = Fields,
         base.users = Put(memory.users, issued.users + 1,
                          [email |-> email, verified |-> verified, deleted |-> FALSE]),
         \A a \in DOMAIN memory.users : a \in base.admins => a \in memory.admins,
         base.sessions = memory.sessions, base.devices = memory.devices,
         base.recoveries = memory.recoveries,
         Rows(base.verifications, issued'.users, TokenRows),
         LaterVerifications(memory.verifications, base.verifications),
         Rows(base.invites, issued'.invites, InviteRows),
         LaterInvites(memory.invites, base.invites)
  PROVE  /\ Sound(base, issued') /\ Later(base)
         /\ issued.users + 1 \in Nat /\ ~base.users[issued.users + 1].deleted
<1> PICK m : m = issued'
  OBVIOUS
<1> PICK n : n = issued
  OBVIOUS
<1> PICK b : b = n.users + 1
  OBVIOUS
<1>row. PICK row : row = [email |-> email, verified |-> verified, deleted |-> FALSE]
  OBVIOUS
<1>1. Sound(memory, m) /\ TablesOK(memory, m) /\ TablesOK(memory, n) /\ n \in Counts
  BY MemoryNow
<1>2. b \in Nat /\ b \in 1 .. m.users /\ b \notin 1 .. n.users
  BY <1>1 DEF Counts
<1>3. row \in UserRows /\ ~row.deleted
  BY <1>row DEF UserRows
<1>4. /\ DOMAIN base.users = DOMAIN memory.users \cup {b} /\ base.users[b] = row
      /\ \A a \in DOMAIN memory.users : a # b /\ base.users[a] = memory.users[a]
  BY <1>1, <1>2, <1>row DEF Put, TablesOK, Rows
<1>5. Rows(base.users, m.users, UserRows)
  BY <1>1, <1>2, <1>3, <1>4 DEF TablesOK, Rows
<1>6. \A a \in DOMAIN base.users : base.users[a].deleted =>
        a \in DOMAIN memory.users /\ memory.users[a].deleted /\ a \notin base.admins
  <2>1. \A a \in DOMAIN memory.users : memory.users[a].deleted => a \notin memory.admins
    BY <1>1 DEF Sound, Clean
  <2>2. QED
    BY <1>3, <1>4, <2>1
<1>7. Sound(base, m)
  BY <1>1, <1>5, <1>6, OtherTables DEF TablesOK
<1>8. LaterUsers(memory.users, base.users)
  BY <1>2, <1>4 DEF LaterUsers
<1>9. Later(base)
  BY <1>8, LaterSelf DEF Later
<1>10. QED
  BY <1>2, <1>3, <1>4, <1>7, <1>9

LEMMA BootstrapStep ==
  ASSUME IInv, NEW email \in Emails, Bootstrap(email)
  PROVE  IInv'
<1>1. CASE issued' = issued /\ Save(memory)
  <2> PICK db : db = memory
    OBVIOUS
  <2>1. DOMAIN db = Fields /\ SameBut(memory, db)
    BY DEF IInv, Sound, SameBut
  <2>2. QED
    BY <1>1, <2>1, SameTables
<1>2. CASE MayBootstrap(memory)
  <2> PICK n : n = issued
    OBVIOUS
  <2>m. PICK m : m = DrawnWithSession([n EXCEPT !.users = @ + 1])
    OBVIOUS
  <2> PICK a : a = n.users + 1
    OBVIOUS
  <2>made. PICK made : made = WithDefaultLogbook(WithAccount(memory, a, email, TRUE), a)
    OBVIOUS
  <2>base. PICK base : base = [made EXCEPT !.admins = @ \cup {a}, !.config.bootstrapped = TRUE]
    OBVIOUS
  <2>1. issued' = m /\ Save(WithSession(base, a))
    BY <1>2, <2>m, <2>made, <2>base DEF Bootstrap
  <2>2. n \in Counts
    BY DEF IInv
  <2>3. /\ m \in Counts /\ m.users = n.users + 1 /\ m.sessions = n.sessions + 1
        /\ m.devices = n.devices + 1 /\ m.invites = n.invites /\ m.recoveries = n.recoveries
    BY <2>2, <2>m, Drawing DEF DrawnWithSession, Counts
  <2>4. Grows
    BY <2>1, <2>2, <2>3 DEF Grows, Counts
  <2>5. DOMAIN memory = Fields /\ TablesOK(memory, m) /\ TablesOK(memory, n)
    BY <2>1, <2>4, MemoryNow
  <2>6. /\ DOMAIN made = Fields
        /\ made.users = Put(memory.users, a, [email |-> email, verified |-> TRUE, deleted |-> FALSE])
        /\ made.admins = memory.admins /\ made.sessions = memory.sessions
        /\ made.devices = memory.devices /\ made.invites = memory.invites
        /\ made.verifications = memory.verifications /\ made.recoveries = memory.recoveries
    BY <2>5, <2>made DEF WithDefaultLogbook, WithLogbook, WithAccount, Fields
  <2>7. /\ DOMAIN base = Fields /\ base.users = made.users
        /\ base.admins = memory.admins \cup {a} /\ base.sessions = memory.sessions
        /\ base.devices = memory.devices /\ base.invites = memory.invites
        /\ base.verifications = memory.verifications /\ base.recoveries = memory.recoveries
    BY <2>6, <2>base DEF Fields
  <2>8. \A k \in DOMAIN memory.users : k \in base.admins => k \in memory.admins
    <3>1. a \notin DOMAIN memory.users
      BY <2>2, <2>5 DEF TablesOK, Rows, Counts
    <3>2. QED
      BY <2>7, <3>1
  <2>9. Rows(base.verifications, m.users, TokenRows) /\ Rows(base.invites, m.invites, InviteRows)
    BY <2>5, <2>7 DEF TablesOK
  <2>10. /\ LaterVerifications(memory.verifications, base.verifications)
         /\ LaterInvites(memory.invites, base.invites)
    BY <2>7, LaterSelf
  <2>11. Sound(base, m) /\ Later(base) /\ a \in Nat /\ ~base.users[a].deleted
    BY <2>1, <2>3, <2>4, <2>6, <2>7, <2>8, <2>9, <2>10, NewAccount
  <2>12. QED
    BY <2>1, <2>3, <2>4, <2>7, <2>11, SignIn
<1>3. QED
  BY <1>1, <1>2 DEF Bootstrap

\* With the verification that is written down before the mail is sent.
LEMMA Registration ==
  ASSUME IInv, NEW email \in Emails, NEW made, DOMAIN made = Fields,
         made.users = Put(memory.users, issued.users + 1,
                          [email |-> email, verified |-> FALSE, deleted |-> FALSE]),
         made.admins = memory.admins, made.sessions = memory.sessions,
         made.devices = memory.devices, made.recoveries = memory.recoveries,
         made.verifications = memory.verifications,
         Rows(made.invites, issued.invites, InviteRows),
         LaterInvites(memory.invites, made.invites),
         FinishRegistration(issued.users + 1, made)
  PROVE  IInv'
<1> PICK n : n = issued
  OBVIOUS
<1> PICK a : a = n.users + 1
  OBVIOUS
<1>m. PICK m : m = [n EXCEPT !.users = @ + 1]
  OBVIOUS
<1>row. PICK row : row = [used |-> FALSE]
  OBVIOUS
<1>db. PICK db : db = [made EXCEPT !.verifications = Put(@, a, row)]
  OBVIOUS
<1>1. n \in Counts /\ m \in Counts
  BY <1>m, Drawing DEF IInv
<1>2. m.users = a /\ m.invites = n.invites /\ a \in 1 .. m.users /\ a \notin 1 .. n.users
  BY <1>1, <1>m DEF Counts
<1>3. issued' = m /\ (Save(db) \/ KeepInMemory(db))
  BY <1>m, <1>row, <1>db DEF FinishRegistration, SendMail
<1>4. Grows
  BY <1>1, <1>3, <1>m DEF Grows, Counts
<1>5. TablesOK(memory, n) /\ TablesOK(memory, m)
  BY <1>3, <1>4, MemoryNow
<1>6. /\ DOMAIN db = Fields /\ db.users = made.users
      /\ db.admins = memory.admins /\ db.sessions = memory.sessions
      /\ db.devices = memory.devices /\ db.recoveries = memory.recoveries
      /\ db.invites = made.invites /\ db.verifications = Put(memory.verifications, a, row)
  BY <1>db DEF Fields
<1>7. /\ DOMAIN db.verifications = DOMAIN memory.verifications \cup {a}
      /\ db.verifications[a] = row
      /\ \A v \in DOMAIN memory.verifications :
            v # a /\ db.verifications[v] = memory.verifications[v]
  BY <1>2, <1>5, <1>6 DEF Put, TablesOK, Rows
<1>8. row \in TokenRows
  BY <1>row DEF TokenRows
<1>9. Rows(db.verifications, m.users, TokenRows)
  BY <1>2, <1>5, <1>7, <1>8 DEF TablesOK, Rows
<1>10. LaterVerifications(memory.verifications, db.verifications)
  BY <1>2, <1>7 DEF LaterVerifications
<1>11. Sound(db, m) /\ Later(db)
  BY <1>2, <1>3, <1>4, <1>6, <1>9, <1>10, NewAccount
<1>12. QED
  BY <1>3, <1>4, <1>11, SaveStep

LEMMA RegisterStep ==
  ASSUME IInv, NEW email \in Emails, Register(email)
  PROVE  IInv'
<1> PICK a : a = issued.users + 1
  OBVIOUS
<1>account. PICK account : account = WithAccount(memory, a, email, FALSE)
  OBVIOUS
<1>1. DOMAIN memory = Fields /\ TablesOK(memory, issued)
  BY DEF IInv, Sound
<1>2. /\ DOMAIN account = Fields
      /\ account.users = Put(memory.users, a, [email |-> email, verified |-> FALSE, deleted |-> FALSE])
      /\ account.admins = memory.admins /\ account.sessions = memory.sessions
      /\ account.devices = memory.devices /\ account.invites = memory.invites
      /\ account.verifications = memory.verifications /\ account.recoveries = memory.recoveries
  BY <1>1, <1>account DEF WithAccount, Fields
<1>3. ASSUME NEW i \in DOMAIN memory.invites,
             FinishRegistration(a, WithInvitedMember(account, a, i))
      PROVE  IInv'
  <2>row. PICK row : row = [memory.invites[i] EXCEPT !.accepted = TRUE]
    OBVIOUS
  <2>table. PICK table : table = [memory.invites EXCEPT ![i] = row]
    OBVIOUS
  <2>made. PICK made : made = WithInvitedMember(account, a, i)
    OBVIOUS
  <2>1. /\ DOMAIN made = Fields /\ made.users = account.users /\ made.invites = table
        /\ made.admins = memory.admins /\ made.sessions = memory.sessions
        /\ made.devices = memory.devices /\ made.recoveries = memory.recoveries
        /\ made.verifications = memory.verifications
    BY <1>2, <2>row, <2>table, <2>made DEF WithInvitedMember, Fields
  <2>2. row \in InviteRows /\ row.accepted
    <3>1. memory.invites[i] \in InviteRows
      BY <1>1 DEF TablesOK, Rows
    <3>2. QED
      BY <2>row, <3>1 DEF InviteRows
  <2>3. /\ DOMAIN table = DOMAIN memory.invites
        /\ \A k \in DOMAIN table : table[k] = IF k = i THEN row ELSE memory.invites[k]
    BY <2>table
  <2>4. Rows(table, issued.invites, InviteRows)
    BY <1>1, <2>2, <2>3 DEF TablesOK, Rows
  <2>5. LaterInvites(memory.invites, table)
    BY <2>2, <2>3 DEF LaterInvites
  <2>6. FinishRegistration(a, made)
    BY <1>3, <2>made
  <2>7. QED
    BY <1>2, <2>1, <2>4, <2>5, <2>6, Registration
<1>4. CASE FinishRegistration(a, WithDefaultLogbook(account, a))
  <2>made. PICK made : made = WithDefaultLogbook(account, a)
    OBVIOUS
  <2>1. /\ DOMAIN made = Fields /\ made.users = account.users /\ made.invites = memory.invites
        /\ made.admins = memory.admins /\ made.sessions = memory.sessions
        /\ made.devices = memory.devices /\ made.recoveries = memory.recoveries
        /\ made.verifications = memory.verifications
    BY <1>2, <2>made DEF WithDefaultLogbook, WithLogbook, Fields
  <2>2. Rows(made.invites, issued.invites, InviteRows) /\ LaterInvites(memory.invites, made.invites)
    BY <1>1, <2>1, LaterSelf DEF TablesOK
  <2>3. FinishRegistration(a, made)
    BY <1>4, <2>made
  <2>4. QED
    BY <1>2, <2>1, <2>2, <2>3, Registration
<1>5. QED
  BY <1>3, <1>4, <1>account DEF Register, Admits

LEMMA RestartStep ==
  ASSUME IInv, Restart
  PROVE  IInv'
<1>1. memory' = disk /\ disk' = disk /\ settled' = settled /\ issued' = issued
  BY DEF Restart, load
<1>2. QED
  BY <1>1 DEF IInv, SettledOK, Ended

-----------------------------------------------------------------------------
(***************************************************************************)
(* The theorems.                                                           *)
(***************************************************************************)

LEMMA TokenExpiresStep ==
  ASSUME IInv, NEW token, TokenExpires(token)
  PROVE  IInv'
BY DEF TokenExpires, IInv, SettledOK, Ended

LEMMA AccountsStart ==
  ASSUME Init
  PROVE  IInv
<1>1. /\ DOMAIN Blank = Fields /\ Blank.admins = {} /\ Blank.users = <<>> /\ Blank.sessions = <<>>
      /\ Blank.devices = <<>> /\ Blank.invites = <<>> /\ Blank.verifications = <<>>
      /\ Blank.recoveries = <<>>
  BY DEF Blank, Fields
<1> PICK blank : blank = Blank
  OBVIOUS
<1>2. issued \in Counts
  BY DEF Init, Counts
<1>3. Sound(blank, issued)
  BY <1>1 DEF Sound, TablesOK, Rows, Clean, Single
<1>4. /\ DOMAIN settled = Kinds /\ settled["session"] = {} /\ settled["device"] = {}
      /\ settled["account"] = {} /\ settled["invite"] = {} /\ settled["verification"] = {}
      /\ settled["recovery"] = {}
  BY <1>1 DEF Init, Over, Kinds
<1>5. SettledOK
  BY <1>4 DEF SettledOK
<1>6. Ended(blank)
  BY <1>4 DEF Ended
<1>7. QED
  BY <1>2, <1>3, <1>5, <1>6 DEF Init, IInv

LEMMA AccountsKeep ==
  ASSUME IInv, [Next]_vars
  PROVE  IInv'
<1>1. CASE UNCHANGED vars
  BY <1>1 DEF vars, IInv, SettledOK, Ended
<1>2. ASSUME NEW e \in Emails, Bootstrap(e) \/ Register(e) \/ StartRecovery(e) \/ Login(e)
      PROVE  IInv'
  BY <1>2, BootstrapStep, RegisterStep, StartRecoveryStep, LoginStep
<1>3. ASSUME NEW t \in mail, VerifyEmail(t) \/ CompleteRecovery(t) \/ TokenExpires(t)
      PROVE  IInv'
  BY <1>3, VerifyEmailStep, CompleteRecoveryStep, TokenExpiresStep
<1>4. ASSUME NEW s \in 1 .. issued.sessions,
             \/ Logout(s) \/ LogoutAll(s) \/ RotateSession(s) \/ DeleteAccount(s)
             \/ RegisterDevice(s) \/ RevokeAllDevices(s) \/ CreateLogbook(s)
             \/ \E d \in 1 .. issued.devices : RevokeDevice(s, d)
             \/ \E mode \in Modes : PatchHosting(s, mode)
      PROVE  IInv'
  BY <1>4, LogoutStep, LogoutAllStep, RotateSessionStep, DeleteAccountStep, RegisterDeviceStep,
     RevokeAllDevicesStep, RevokeDeviceStep, PatchHostingStep, CreateLogbookStep
<1>5. ASSUME NEW s \in 1 .. issued.sessions,
             \/ \E e \in Emails, b \in memory.logbooks \cap Logbooks, role \in Roles : CreateInvitation(s, e, b, role)
             \/ \E i \in 1 .. issued.invites :
                  \/ ResendInvitation(s, i) \/ RevokeInvitation(s, i)
                  \/ \E over \in BOOLEAN : ExpireInvitation(s, i, over)
      PROVE  IInv'
  BY <1>5, CreateInvitationStep, ResendInvitationStep, RevokeInvitationStep, ExpireInvitationStep
<1>6. CASE Restart
  BY <1>6, RestartStep
<1>7. CASE Next
  BY <1>2, <1>3, <1>4, <1>5, <1>6, <1>7 DEF Next
<1>8. QED
  BY <1>1, <1>7

(* In memory and in the store, rows belong to identifiers that were drawn,  *)
(* deleted accounts hold nothing, devices have one session, and what was    *)
(* stored as over is over.  (persist_metadata, load, every handler.)        *)
THEOREM AccountsInvariant == Spec => []IInv
<1>1. Init => IInv
  BY AccountsStart
<1>2. IInv /\ [Next]_vars => IInv'
  BY AccountsKeep
<1>3. QED
  BY <1>1, <1>2, PTL DEF Spec

(* What a completed save has stored as over stays over, through failed and  *)
(* half-done saves and restarts.  (persist_metadata, load.)                 *)
THEOREM StoredEndingsLast == Spec => []EndingsLast
<1>1. IInv => EndingsLast
  <2> SUFFICES ASSUME IInv
               PROVE  EndingsLast
    OBVIOUS
  <2>1. DOMAIN settled = Kinds
    BY DEF IInv, SettledOK
  <2>2. ASSUME NEW db, Ended(db), NEW kind \in Kinds
        PROVE  settled[kind] \cap Kept(db)[kind] \subseteq Over(db)[kind]
    <3>1. /\ Kept(db)["session"] = DOMAIN db.sessions /\ Kept(db)["device"] = DOMAIN db.devices
          /\ Kept(db)["account"] = DOMAIN db.users /\ Kept(db)["invite"] = DOMAIN db.invites
          /\ Kept(db)["verification"] = DOMAIN db.verifications
          /\ Kept(db)["recovery"] = DOMAIN db.recoveries
      BY DEF Kept
    <3>2. /\ Over(db)["session"] = {s \in DOMAIN db.sessions : ~db.sessions[s].active}
          /\ Over(db)["device"] = {d \in DOMAIN db.devices : db.devices[d].revoked}
          /\ Over(db)["account"] = {a \in DOMAIN db.users : db.users[a].deleted}
          /\ Over(db)["invite"] = {i \in DOMAIN db.invites : db.invites[i].accepted \/ db.invites[i].revoked}
          /\ Over(db)["verification"] = {v \in DOMAIN db.verifications : db.verifications[v].used}
          /\ Over(db)["recovery"] = {r \in DOMAIN db.recoveries : db.recoveries[r].used}
      BY DEF Over
    <3>3. kind = "session" \/ kind = "device" \/ kind = "account" \/ kind = "invite"
          \/ kind = "verification" \/ kind = "recovery"
      BY DEF Kinds
    <3>4. QED
      BY <2>2, <3>1, <3>2, <3>3 DEF Ended
  <2>3. \A kind \in Kinds : /\ settled[kind] \cap Kept(memory)[kind] \subseteq Over(memory)[kind]
                            /\ settled[kind] \cap Kept(disk)[kind] \subseteq Over(disk)[kind]
    BY <2>2 DEF IInv
  <2>4. QED
    BY <2>1, <2>3 DEF EndingsLast
<1>2. QED
  BY <1>1, AccountsInvariant, PTL

(* No account that was deleted has administration rights, an active session *)
(* or a device that is not revoked.  (delete_account, and every handler     *)
(* that issues sessions or registers devices.)                              *)
THEOREM DeletedStaysEmpty == Spec => []DeletedHoldsNothing
<1>1. IInv => DeletedHoldsNothing
  BY DEF IInv, Sound, Clean, DeletedHoldsNothing
<1>2. QED
  BY <1>1, AccountsInvariant, PTL

(* A device never has two active sessions.  (rotate_session.)               *)
THEOREM RotationNeverDoubles == Spec => []OneSessionPerDevice
<1>1. IInv => OneSessionPerDevice
  BY DEF IInv, Sound, Single, OneSessionPerDevice
<1>2. QED
  BY <1>1, AccountsInvariant, PTL

-----------------------------------------------------------------------------
(***************************************************************************)
(* Grants and verifications: what the tables say of each other while no    *)
(* rows are lost.                                                          *)
(***************************************************************************)

\* The membership is that of the own logbook, or what an invitation said.
Owned(m) == m.logbook = [owner |-> m.user, nth |-> 0] /\ m.role = "Owner"
Given(db, m) == Owned(m) \/ \E i \in DOMAIN db.invites : Invited(db, m, i)

\* Logbooks belong to accounts, and memberships and invitations to logbooks.
LogbooksOwned(db) ==
    /\ \A b \in db.logbooks : /\ b.owner \in DOMAIN db.users
                             /\ [user |-> b.owner, logbook |-> b, role |-> "Owner"] \in db.members
    /\ \A m \in db.members : m.user \in DOMAIN db.users /\ m.logbook \in db.logbooks
    /\ \A i \in DOMAIN db.invites : db.invites[i].logbook \in db.logbooks

\* Each account has one membership besides those of the logbooks it created
\* and an email of its own, an accepted invitation its member, who is not the
\* owner of the logbook, and administrators come first.
GrantsMade(db, drawn) ==
    /\ db.admins \subseteq 1 .. drawn /\ \A a \in db.admins, b \in DOMAIN db.users : a <= b
    /\ \A a, b \in DOMAIN db.users : db.users[a].email = db.users[b].email => a = b
    /\ LogbooksOwned(db)
    /\ \A m, k \in db.members : m.user = k.user /\ ~Created(m) /\ ~Created(k) => m = k
    /\ \A a \in DOMAIN db.users : \E m \in db.members : m.user = a /\ ~Created(m) /\ Given(db, m)
    /\ \A i \in DOMAIN db.invites : db.invites[i].accepted =>
         /\ \E m \in db.members : Invited(db, m, i)
         /\ db.users[db.invites[i].logbook.owner].email # db.invites[i].email

\* An account that is not verified has its verification on record.
Verifiable(db) ==
    \A a \in DOMAIN db.users :
        db.users[a].verified \/ (a \in DOMAIN db.verifications /\ ~db.verifications[a].used)

Complete(db, drawn) == GrantsMade(db, drawn) /\ Verifiable(db)

Whole ==
    ~lost => Complete(memory, issued.users) /\ Complete(disk, issued.users)

\* A change that grants nothing and takes nothing back: invitations may be
\* added and changed, and accounts verified.
Routine(old, new) ==
    /\ new.members = old.members /\ new.logbooks = old.logbooks /\ new.admins \subseteq old.admins
    /\ DOMAIN new.users = DOMAIN old.users
    /\ \A a \in DOMAIN old.users :
         /\ new.users[a].email = old.users[a].email
         /\ old.users[a].verified => new.users[a].verified
         /\ \/ new.users[a].verified
            \/ a \in DOMAIN old.verifications /\ ~old.verifications[a].used
                 => a \in DOMAIN new.verifications /\ ~new.verifications[a].used
    /\ \A i \in DOMAIN old.invites :
         /\ i \in DOMAIN new.invites /\ new.invites[i].accepted = old.invites[i].accepted
         /\ new.invites[i].email = old.invites[i].email
         /\ new.invites[i].logbook = old.invites[i].logbook
         /\ new.invites[i].role = old.invites[i].role
    /\ \A i \in DOMAIN new.invites : i \notin DOMAIN old.invites =>
         ~new.invites[i].accepted /\ new.invites[i].logbook \in old.logbooks

\* One membership per account is what EveryGrantWasMade counts.
LEMMA InvitedIsNoOwner ==
  ASSUME NEW db, NEW drawn, GrantsMade(db, drawn), NEW m \in db.members,
         NEW i \in DOMAIN db.invites, Invited(db, m, i)
  PROVE  ~Created(m)
<1>1. /\ db.users[m.logbook.owner].email # db.invites[i].email
      /\ db.invites[i].email = db.users[m.user].email
  BY DEF GrantsMade, Invited
<1>2. QED
  BY <1>1 DEF Created

LEMMA GrantsCounted ==
  ASSUME GrantsMade(memory, issued.users)
  PROVE  EveryGrantWasMade
<1>1. ASSUME NEW a \in DOMAIN memory.users
      PROVE  /\ Cardinality(GrantsOf(memory, a)) = 1
             /\ \A m \in GrantsOf(memory, a) :
                  \/ m.logbook = [owner |-> a, nth |-> 0] /\ m.role = "Owner"
                  \/ \E i \in DOMAIN memory.invites : Invited(memory, m, i)
  <2>1. PICK m \in memory.members : m.user = a /\ ~Created(m) /\ Given(memory, m)
    BY DEF GrantsMade
  <2>2. GrantsOf(memory, a) = {m}
    <3>1. \A k \in memory.members : k.user = a /\ ~Created(k) => k = m
      BY <2>1 DEF GrantsMade
    <3>2. QED
      BY <2>1, <3>1 DEF GrantsOf
  <2>3. QED
    BY <2>1, <2>2, FS_Singleton DEF Given, Owned
<1>2. ASSUME NEW i \in DOMAIN memory.invites, memory.invites[i].accepted
      PROVE  Cardinality({m \in memory.members : Invited(memory, m, i)}) = 1
  <2>1. PICK m \in memory.members : Invited(memory, m, i)
    BY <1>2 DEF GrantsMade
  <2>2. ASSUME NEW k \in memory.members, Invited(memory, k, i)
        PROVE  k = m
    <3>1. memory.users[k.user].email = memory.users[m.user].email
      BY <2>1, <2>2 DEF Invited
    <3>2. k.user \in DOMAIN memory.users /\ m.user \in DOMAIN memory.users
      BY <2>1 DEF GrantsMade, LogbooksOwned
    <3>3. k.user = m.user
      BY <3>1, <3>2 DEF GrantsMade
    <3>4. ~Created(k) /\ ~Created(m)
      BY <2>1, <2>2, InvitedIsNoOwner
    <3>5. QED
      BY <2>1, <3>3, <3>4 DEF GrantsMade
  <2>3. {k \in memory.members : Invited(memory, k, i)} = {m}
    BY <2>1, <2>2
  <2>4. QED
    BY <2>3, FS_Singleton
<1>3. QED
  BY <1>1, <1>2 DEF GrantsMade, LogbooksOwned, EveryGrantWasMade

\* More identifiers change nothing.
LEMMA LaterIsComplete ==
  ASSUME NEW drawn \in Nat, NEW more \in Nat, drawn <= more, NEW db, Complete(db, drawn)
  PROVE  Complete(db, more)
<1>1. 1 .. drawn \subseteq 1 .. more
  OBVIOUS
<1>2. QED
  BY <1>1 DEF Complete, GrantsMade

LEMMA RoutineIsComplete ==
  ASSUME NEW old, NEW new, Routine(old, new), NEW drawn, Complete(old, drawn)
  PROVE  Complete(new, drawn)
<1>1. GrantsMade(old, drawn) /\ Verifiable(old)
  BY DEF Complete
<1>2. \A m \in old.members, i \in DOMAIN old.invites : Invited(old, m, i) => Invited(new, m, i)
  BY <1>1 DEF GrantsMade, LogbooksOwned, Routine, Invited
<1>3. \A m \in old.members : Given(old, m) => Given(new, m)
  <2>1. \A i \in DOMAIN old.invites : i \in DOMAIN new.invites
    BY DEF Routine
  <2>2. QED
    BY <1>2, <2>1 DEF Given
<1>4. \A a \in DOMAIN new.users : \E m \in new.members : m.user = a /\ ~Created(m) /\ Given(new, m)
  <2>1. new.members = old.members /\ DOMAIN new.users = DOMAIN old.users
    BY DEF Routine
  <2>2. \A a \in DOMAIN old.users : \E m \in old.members : m.user = a /\ ~Created(m) /\ Given(old, m)
    BY <1>1 DEF GrantsMade
  <2>3. QED
    BY <1>3, <2>1, <2>2
<1>5. LogbooksOwned(new)
  <2>1. LogbooksOwned(old)
    BY <1>1 DEF GrantsMade
  <2>2. \A i \in DOMAIN new.invites : new.invites[i].logbook \in new.logbooks
    BY <2>1 DEF LogbooksOwned, Routine
  <2>3. QED
    BY <2>1, <2>2 DEF LogbooksOwned, Routine
<1>6. \A i \in DOMAIN new.invites : new.invites[i].accepted =>
        /\ \E m \in new.members : Invited(new, m, i)
        /\ new.users[new.invites[i].logbook.owner].email # new.invites[i].email
  <2>1. ASSUME NEW i \in DOMAIN new.invites, new.invites[i].accepted
        PROVE  /\ \E m \in new.members : Invited(new, m, i)
               /\ new.users[new.invites[i].logbook.owner].email # new.invites[i].email
    <3>1. i \in DOMAIN old.invites /\ old.invites[i].accepted
      BY <2>1 DEF Routine
    <3>2. /\ new.invites[i].logbook = old.invites[i].logbook
          /\ new.invites[i].email = old.invites[i].email /\ new.members = old.members
      BY <3>1 DEF Routine
    <3>3. PICK m \in old.members : Invited(old, m, i)
      BY <1>1, <3>1 DEF GrantsMade
    <3>4. old.invites[i].logbook.owner \in DOMAIN old.users
      BY <1>1, <3>1 DEF GrantsMade, LogbooksOwned
    <3>5. new.users[old.invites[i].logbook.owner].email = old.users[old.invites[i].logbook.owner].email
      BY <3>4 DEF Routine
    <3>6. old.users[old.invites[i].logbook.owner].email # old.invites[i].email
      BY <1>1, <3>1 DEF GrantsMade
    <3>7. QED
      BY <1>2, <3>1, <3>2, <3>3, <3>5, <3>6
  <2>2. QED
    BY <2>1
<1>7. GrantsMade(new, drawn)
  <2>1. /\ new.admins \subseteq 1 .. drawn /\ \A a \in new.admins, b \in DOMAIN new.users : a <= b
    BY <1>1 DEF GrantsMade, Routine
  <2>2. \A a, b \in DOMAIN new.users : new.users[a].email = new.users[b].email => a = b
    BY <1>1 DEF GrantsMade, Routine
  <2>3. \A m, k \in new.members : m.user = k.user /\ ~Created(m) /\ ~Created(k) => m = k
    BY <1>1 DEF GrantsMade, Routine
  <2>4. QED
    BY <1>4, <1>5, <1>6, <2>1, <2>2, <2>3 DEF GrantsMade
<1>8. Verifiable(new)
  BY <1>1 DEF Verifiable, Routine
<1>9. QED
  BY <1>7, <1>8 DEF Complete

\* A logbook that an account creates comes with its owner's membership.
LEMMA CreatedIsComplete ==
  ASSUME NEW old, DOMAIN old = Fields, NEW drawn, Complete(old, drawn), NEW a \in DOMAIN old.users,
         NEW n \in Nat, n > 0, NEW new, new = WithLogbook(old, a, n)
  PROVE  Complete(new, drawn)
<1>b. PICK b : b = [owner |-> a, nth |-> n]
  OBVIOUS
<1>m. PICK m : m = [user |-> a, logbook |-> b, role |-> "Owner"]
  OBVIOUS
<1>1. /\ new.logbooks = old.logbooks \cup {b} /\ new.members = old.members \cup {m}
      /\ new.users = old.users /\ new.admins = old.admins /\ new.invites = old.invites
      /\ new.verifications = old.verifications
  BY <1>b, <1>m DEF WithLogbook, Fields
<1>2. Created(m) /\ m.user = a /\ m.logbook = b /\ b.owner = a
  BY <1>b, <1>m DEF Created
<1>3. GrantsMade(old, drawn) /\ Verifiable(old)
  BY DEF Complete
<1>4. /\ \A k, i : Invited(new, k, i) <=> Invited(old, k, i)
      /\ \A k : Given(new, k) <=> Given(old, k)
  BY <1>1 DEF Invited, Given
<1>5. LogbooksOwned(new)
  BY <1>1, <1>2, <1>3, <1>m DEF GrantsMade, LogbooksOwned
<1>6. \A k, l \in new.members : k.user = l.user /\ ~Created(k) /\ ~Created(l) => k = l
  BY <1>1, <1>2, <1>3 DEF GrantsMade
<1>7. \A x \in DOMAIN new.users : \E k \in new.members : k.user = x /\ ~Created(k) /\ Given(new, k)
  <2>1. \A x \in DOMAIN old.users : \E k \in old.members : k.user = x /\ ~Created(k) /\ Given(old, k)
    BY <1>3 DEF GrantsMade
  <2>2. QED
    BY <1>1, <1>4, <2>1
<1>8. \A i \in DOMAIN new.invites : new.invites[i].accepted =>
        /\ \E k \in new.members : Invited(new, k, i)
        /\ new.users[new.invites[i].logbook.owner].email # new.invites[i].email
  <2>1. \A i \in DOMAIN old.invites : old.invites[i].accepted =>
          /\ \E k \in old.members : Invited(old, k, i)
          /\ old.users[old.invites[i].logbook.owner].email # old.invites[i].email
    BY <1>3 DEF GrantsMade
  <2>2. QED
    BY <1>1, <1>4, <2>1
<1>9. /\ new.admins \subseteq 1 .. drawn /\ \A x \in new.admins, y \in DOMAIN new.users : x <= y
      /\ \A x, y \in DOMAIN new.users : new.users[x].email = new.users[y].email => x = y
  BY <1>1, <1>3 DEF GrantsMade
<1>10. GrantsMade(new, drawn)
  BY <1>5, <1>6, <1>7, <1>8, <1>9 DEF GrantsMade
<1>11. QED
  BY <1>1, <1>3, <1>10 DEF Complete, Verifiable

\* However a request stores what it changed: unless rows are lost, memory and
\* store are complete again.
LEMMA SaveKeepsWhole ==
  ASSUME Whole, lost \in BOOLEAN, issued.users \in Nat, issued'.users \in Nat,
         issued.users <= issued'.users,
         NEW db, ~lost => Complete(db, issued'.users), Save(db) \/ KeepInMemory(db)
  PROVE  Whole' /\ lost' \in BOOLEAN
<1> PICK drawn : drawn = issued.users
  OBVIOUS
<1> PICK more : more = issued'.users
  OBVIOUS
<1> PICK old : old = disk
  OBVIOUS
<1> PICK left : left = disk'
  OBVIOUS
<1>1. ~lost => Complete(old, more)
  <2>1. ~lost => Complete(old, drawn)
    BY DEF Whole
  <2>2. drawn \in Nat /\ more \in Nat /\ drawn <= more
    OBVIOUS
  <2>3. QED
    BY ONLY <2>1, <2>2, LaterIsComplete
<1>2. \/ memory' = db /\ left \in {old, db} /\ lost' = lost
      \/ memory' = left /\ lost' = (lost \/ left \notin {old, db})
  BY DEF Save, KeepInMemory, load
<1>3. lost' \in BOOLEAN /\ (~lost' => ~lost /\ left \in {old, db} /\ memory' \in {old, db})
  BY <1>2
<1>4. ~lost => Complete(db, more)
  OBVIOUS
<1>5. ~lost' => Complete(left, more)
  BY <1>1, <1>3, <1>4
<1>6. ASSUME NEW mem, mem = memory', ~lost'
      PROVE  Complete(mem, more)
  BY <1>1, <1>3, <1>4, <1>6
<1>7. QED
  BY <1>3, <1>5, <1>6 DEF Whole

-----------------------------------------------------------------------------
(***************************************************************************)
(* Types within the bounds.                                                *)
(***************************************************************************)

BoundedSessions == [account : Accounts, device : 1 .. MaxDevices, active : BOOLEAN]
BoundedDevices == [account : Accounts, revoked : BOOLEAN]
BoundedInvites == [email : Emails, logbook : Logbooks, role : Roles, sent : 0 .. MaxSends,
                   expired : BOOLEAN, accepted : BOOLEAN, revoked : BOOLEAN]
BoundedRecoveries == [account : Accounts, used : BOOLEAN]
Memberships == [user : Accounts, logbook : Logbooks, role : Roles \cup {"Owner"}]
Boxes == [for : {"invite", "verify", "recovery"}, id : Nat, sent : Nat]
BoundedCounts == [users : 0 .. MaxAccounts, sessions : 0 .. MaxSessions, devices : 0 .. MaxDevices,
                  invites : 0 .. MaxInvites, recoveries : 0 .. MaxRecoveries,
                  logbooks : 0 .. MaxLogbooks]

LEMMA TableParts ==
  ASSUME NEW db
  PROVE  IsState(db) <=>
           /\ db.config \in [mode : Modes, bootstrapped : BOOLEAN]
           /\ db.admins \subseteq Accounts /\ db.logbooks \subseteq Logbooks
           /\ IsTable(db.users, MaxAccounts, UserRows)
           /\ IsTable(db.sessions, MaxSessions, BoundedSessions)
           /\ IsTable(db.devices, MaxDevices, BoundedDevices)
           /\ db.members \subseteq Memberships
           /\ IsTable(db.invites, MaxInvites, BoundedInvites)
           /\ IsTable(db.verifications, MaxAccounts, TokenRows)
           /\ IsTable(db.recoveries, MaxRecoveries, BoundedRecoveries)
BY DEF IsState, UserRows, BoundedSessions, BoundedDevices, Memberships, BoundedInvites, TokenRows,
       BoundedRecoveries

LEMMA PutRow ==
  ASSUME NEW table, NEW n, NEW rows, IsTable(table, n, rows), NEW k \in 1 .. n, NEW row \in rows
  PROVE  IsTable(Put(table, k, row), n, rows)
BY DEF IsTable, Put

LEMMA ChangedRow ==
  ASSUME NEW table, NEW n, NEW rows, IsTable(table, n, rows), NEW k, NEW row \in rows
  PROVE  IsTable([table EXCEPT ![k] = row], n, rows)
BY DEF IsTable

\* What a save that stops leaves keeps the types: each table is old, new or empty.
LEMMA SaveKeepsTypes ==
  ASSUME NEW db, IsState(memory), IsState(disk), IsState(db), DOMAIN disk = Fields, DOMAIN db = Fields,
         Save(db) \/ KeepInMemory(db)
  PROVE  IsState(memory') /\ IsState(disk')
<1> PICK old : old = disk
  OBVIOUS
<1> PICK left : left = disk'
  OBVIOUS
<1>1. \/ memory' = db /\ left \in {old, db}
      \/ memory' = left /\ left \in StoppedSaves(SaveOrder, Blank, old, db)
  BY DEF Save, KeepInMemory, load
<1>2. ASSUME left \in StoppedSaves(SaveOrder, Blank, old, db)
      PROVE  \A t \in Fields : left[t] \in {old[t], db[t], Blank[t]}
  <2>1. CASE left \in StoppedDeleting(SaveOrder, Blank, old)
    BY <2>1 DEF StoppedDeleting
  <2>2. CASE left \in StoppedWriting(SaveOrder, Blank, old, db)
    BY <2>2 DEF StoppedWriting
  <2>3. QED
    BY <1>2, <2>1, <2>2 DEF StoppedSaves
<1>3. IsState(old) /\ IsState(db)
  OBVIOUS
<1>4. ASSUME left \in StoppedSaves(SaveOrder, Blank, old, db)
      PROVE  IsState(left)
  <2>1. /\ left.config \in {old.config, db.config, Blank.config}
        /\ left.admins \in {old.admins, db.admins, Blank.admins}
        /\ left.users \in {old.users, db.users, Blank.users}
        /\ left.sessions \in {old.sessions, db.sessions, Blank.sessions}
        /\ left.devices \in {old.devices, db.devices, Blank.devices}
        /\ left.logbooks \in {old.logbooks, db.logbooks, Blank.logbooks}
        /\ left.members \in {old.members, db.members, Blank.members}
        /\ left.invites \in {old.invites, db.invites, Blank.invites}
        /\ left.verifications \in {old.verifications, db.verifications, Blank.verifications}
        /\ left.recoveries \in {old.recoveries, db.recoveries, Blank.recoveries}
    BY <1>2, <1>4 DEF Fields
  <2>2. /\ Blank.config \in [mode : Modes, bootstrapped : BOOLEAN]
        /\ Blank.admins = {} /\ Blank.logbooks = {} /\ Blank.members = {}
        /\ Blank.users = <<>> /\ Blank.sessions = <<>> /\ Blank.devices = <<>> /\ Blank.invites = <<>>
        /\ Blank.verifications = <<>> /\ Blank.recoveries = <<>>
    BY ModesAssumption DEF Blank
  <2>3. \A n, rows : IsTable(<<>>, n, rows)
    BY DEF IsTable
  <2>4. QED
    BY ONLY <1>3, <2>1, <2>2, <2>3, TableParts
<1>5. left \in {old, db} => IsState(left)
  BY <1>3
<1>6. ASSUME NEW mem, mem = memory' PROVE IsState(mem)
  BY <1>1, <1>3, <1>4, <1>6
<1>7. IsState(left)
  BY <1>1, <1>4, <1>5
<1>8. QED
  BY <1>6, <1>7

-----------------------------------------------------------------------------
(***************************************************************************)
(* The handlers: which tables they store, and what they draw and mail.     *)
(***************************************************************************)

\* What a handler may do besides storing tables.
Counted ==
    /\ issued' \in BoundedCounts /\ issued.users <= issued'.users
    /\ mail \subseteq mail' /\ mail' \subseteq Boxes
    /\ expired' = expired
    /\ faults' \in 0 .. MaxFaults

\* The tables db may be stored, in full or in part.
Stored(db) == (Save(db) \/ KeepInMemory(db)) /\ DOMAIN db = Fields /\ IsState(db)

\* The handler stores tables that grant nothing.
Routinely == Counted /\ \E db : Stored(db) /\ Routine(memory, db)

LEMMA Bounds ==
  ASSUME TypeOK
  PROVE  /\ issued \in BoundedCounts /\ mail \subseteq Boxes /\ expired \subseteq mail
         /\ lost \in BOOLEAN /\ faults \in 0 .. MaxFaults /\ IsState(memory) /\ IsState(disk)
         /\ MaxFaults \in Nat /\ MaxAccounts \in Nat /\ MaxSessions \in Nat /\ MaxDevices \in Nat
         /\ MaxInvites \in Nat /\ MaxRecoveries \in Nat /\ MaxSends \in Nat /\ MaxLogbooks \in Nat
BY BoundsAssumption DEF TypeOK, BoundedCounts, Boxes

LEMMA OneFaultMore ==
  ASSUME TypeOK, \/ faults' = faults
                 \/ faults < MaxFaults /\ faults' = faults + 1
  PROVE  faults' \in 0 .. MaxFaults
BY Bounds

LEMMA SaveFaults ==
  ASSUME TypeOK, NEW db, Save(db)
  PROVE  faults' \in 0 .. MaxFaults
BY OneFaultMore DEF Save

LEMMA MailFaults ==
  ASSUME TypeOK, NEW db, NEW token \in Boxes, SendMail(token, db)
  PROVE  /\ Save(db) \/ KeepInMemory(db)
         /\ mail \subseteq mail' /\ mail' \subseteq Boxes /\ faults' \in 0 .. MaxFaults
<1>1. mail \subseteq Boxes /\ mail' \in {mail, mail \cup {token}}
  BY Bounds DEF SendMail
<1>2. faults' \in 0 .. MaxFaults
  BY SaveFaults, OneFaultMore DEF SendMail
<1>3. QED
  BY <1>1, <1>2 DEF SendMail

\* Nothing is drawn or mailed.
LEMMA Quiet ==
  ASSUME TypeOK, UNCHANGED <<mail, issued, expired>>, faults' \in 0 .. MaxFaults
  PROVE  Counted
<1>1. issued.users \in Nat
  BY Bounds DEF BoundedCounts
<1>2. QED
  BY <1>1, Bounds DEF Counted

\* Tables that differ from those in memory only in sessions, devices,
\* recoveries, settings and lost rights.
Alike(db) ==
    /\ DOMAIN db = Fields
    /\ db.users = memory.users /\ db.invites = memory.invites /\ db.verifications = memory.verifications
    /\ db.members = memory.members /\ db.logbooks = memory.logbooks /\ db.admins = memory.admins

LEMMA AlikeIsRoutine ==
  ASSUME TypeOK, NEW db, Alike(db)
  PROVE  Routine(memory, db)
BY DEF Alike, Routine

LEMMA AlikeTyped ==
  ASSUME TypeOK, NEW db, Alike(db), db.config = memory.config,
         IsTable(db.sessions, MaxSessions, BoundedSessions), IsTable(db.devices, MaxDevices, BoundedDevices),
         IsTable(db.recoveries, MaxRecoveries, BoundedRecoveries)
  PROVE  IsState(db)
BY Bounds, TableParts DEF Alike

LEMMA MemoryTables ==
  ASSUME IInv, TypeOK
  PROVE  /\ DOMAIN memory = Fields /\ IsState(memory) /\ Alike(memory)
         /\ IsTable(memory.users, MaxAccounts, UserRows)
         /\ IsTable(memory.sessions, MaxSessions, BoundedSessions)
         /\ IsTable(memory.devices, MaxDevices, BoundedDevices)
         /\ IsTable(memory.invites, MaxInvites, BoundedInvites)
         /\ IsTable(memory.verifications, MaxAccounts, TokenRows)
         /\ IsTable(memory.recoveries, MaxRecoveries, BoundedRecoveries)
BY Bounds, TableParts DEF IInv, Sound, Alike

LEMMA PatchHostingTables ==
  ASSUME IInv, TypeOK, NEW s, NEW mode \in Modes, PatchHosting(s, mode)
  PROVE  Routinely
<1> PICK db : db = [memory EXCEPT !.config.mode = mode]
  OBVIOUS
<1>1. Counted
  BY Quiet, SaveFaults, OneFaultMore DEF PatchHosting
<1>2. Save(db) \/ KeepInMemory(db)
  BY DEF PatchHosting
<1>3. DOMAIN memory = Fields /\ IsState(memory)
  BY MemoryTables
<1>4. /\ Alike(db) /\ db.config = [memory.config EXCEPT !.mode = mode]
      /\ db.sessions = memory.sessions /\ db.devices = memory.devices /\ db.recoveries = memory.recoveries
  BY <1>3 DEF Alike, Fields
<1>5. db.config \in [mode : Modes, bootstrapped : BOOLEAN]
  BY <1>3, <1>4, TableParts
<1>6. IsState(db)
  BY <1>3, <1>4, <1>5, TableParts DEF Alike
<1>7. QED
  BY <1>1, <1>2, <1>4, <1>6, AlikeIsRoutine DEF Alike, Stored, Routinely

\* Handlers that change an invitation and leave what it grants.
LEMMA InviteTables ==
  ASSUME IInv, TypeOK, NEW i \in DOMAIN memory.invites, NEW row \in BoundedInvites,
         row.accepted = memory.invites[i].accepted, row.email = memory.invites[i].email,
         row.logbook = memory.invites[i].logbook, row.role = memory.invites[i].role,
         NEW db, db = [memory EXCEPT !.invites = [memory.invites EXCEPT ![i] = row]]
  PROVE  DOMAIN db = Fields /\ IsState(db) /\ Routine(memory, db)
<1>1. DOMAIN memory = Fields /\ IsState(memory)
  BY MemoryTables
<1>2. /\ DOMAIN db = Fields /\ db.invites = [memory.invites EXCEPT ![i] = row]
      /\ db.admins = memory.admins /\ db.users = memory.users /\ db.logbooks = memory.logbooks
      /\ db.sessions = memory.sessions /\ db.devices = memory.devices /\ db.members = memory.members
      /\ db.verifications = memory.verifications /\ db.recoveries = memory.recoveries
      /\ db.config = memory.config
  BY <1>1 DEF Fields
<1>3. /\ DOMAIN db.invites = DOMAIN memory.invites
      /\ \A k \in DOMAIN db.invites : db.invites[k] = IF k = i THEN row ELSE memory.invites[k]
  BY <1>2
<1>4. IsTable(db.invites, MaxInvites, BoundedInvites)
  BY <1>2, MemoryTables, ChangedRow
<1>5. IsState(db)
  BY ONLY <1>1, <1>2, <1>4, TableParts
<1>6. Routine(memory, db)
  BY <1>2, <1>3 DEF Routine
<1>7. QED
  BY <1>2, <1>5, <1>6

LEMMA ResendInvitationTables ==
  ASSUME IInv, TypeOK, NEW s, NEW i \in Nat, ResendInvitation(s, i)
  PROVE  Routinely
<1> PICK invite : invite = memory.invites[i]
  OBVIOUS
<1>row. PICK row : row = [invite EXCEPT !.sent = @ + 1, !.expired = FALSE]
  OBVIOUS
<1>db. PICK db : db = [memory EXCEPT !.invites = [memory.invites EXCEPT ![i] = row]]
  OBVIOUS
<1>token. PICK token : token = [for |-> "invite", id |-> i, sent |-> row.sent]
  OBVIOUS
<1>1. i \in DOMAIN memory.invites /\ invite.sent < MaxSends /\ SendMail(token, db)
  BY <1>row, <1>db, <1>token DEF ResendInvitation
<1>2. invite \in BoundedInvites
  BY <1>1, MemoryTables DEF IsTable
<1>3. /\ row \in BoundedInvites /\ row.accepted = invite.accepted /\ row.email = invite.email
      /\ row.logbook = invite.logbook /\ row.role = invite.role /\ row.sent \in Nat
  <2>1. PICK next : next = invite.sent + 1
    OBVIOUS
  <2>2. next \in 0 .. MaxSends /\ next \in Nat
    BY <1>1, <1>2, <2>1, Bounds DEF BoundedInvites
  <2>3. row = [invite EXCEPT !.sent = next, !.expired = FALSE]
    BY <1>row, <2>1
  <2>4. QED
    BY ONLY <1>2, <2>2, <2>3 DEF BoundedInvites
<1>4. token \in Boxes
  BY <1>3, <1>token DEF Boxes
<1>5. /\ Save(db) \/ KeepInMemory(db)
      /\ mail \subseteq mail' /\ mail' \subseteq Boxes /\ faults' \in 0 .. MaxFaults
  BY <1>1, <1>4, MailFaults
<1>6. issued' = issued /\ expired' = expired
  BY DEF ResendInvitation
<1>7. issued.users \in Nat
  BY Bounds DEF BoundedCounts
<1>8. Counted
  BY <1>5, <1>6, <1>7, Bounds DEF Counted
<1>9. DOMAIN db = Fields /\ IsState(db) /\ Routine(memory, db)
  BY <1>1, <1>3, <1>db, InviteTables
<1>10. QED
  BY <1>5, <1>8, <1>9 DEF Routinely, Stored

LEMMA ExpireInvitationTables ==
  ASSUME IInv, TypeOK, NEW s, NEW i, NEW over \in BOOLEAN, ExpireInvitation(s, i, over)
  PROVE  Routinely
<1>row. PICK row : row = [memory.invites[i] EXCEPT !.expired = over]
  OBVIOUS
<1>db. PICK db : db = [memory EXCEPT !.invites = [memory.invites EXCEPT ![i] = row]]
  OBVIOUS
<1>1. i \in DOMAIN memory.invites /\ Save(db)
  BY <1>row, <1>db DEF ExpireInvitation
<1>2. memory.invites[i] \in BoundedInvites
  BY <1>1, MemoryTables DEF IsTable
<1>3. /\ row \in BoundedInvites /\ row.accepted = memory.invites[i].accepted
      /\ row.email = memory.invites[i].email /\ row.logbook = memory.invites[i].logbook
      /\ row.role = memory.invites[i].role
  BY <1>2, <1>row DEF BoundedInvites
<1>4. Counted
  BY <1>1, Quiet, SaveFaults DEF ExpireInvitation
<1>5. QED
  BY <1>1, <1>3, <1>4, <1>db, InviteTables DEF Routinely, Stored

LEMMA RevokeInvitationTables ==
  ASSUME IInv, TypeOK, NEW s, NEW i, RevokeInvitation(s, i)
  PROVE  Routinely
<1>row. PICK row : row = [memory.invites[i] EXCEPT !.revoked = TRUE]
  OBVIOUS
<1>db. PICK db : db = [memory EXCEPT !.invites = [memory.invites EXCEPT ![i] = row]]
  OBVIOUS
<1>1. i \in DOMAIN memory.invites /\ Save(db)
  BY <1>row, <1>db DEF RevokeInvitation
<1>2. memory.invites[i] \in BoundedInvites
  BY <1>1, MemoryTables DEF IsTable
<1>3. /\ row \in BoundedInvites /\ row.accepted = memory.invites[i].accepted
      /\ row.email = memory.invites[i].email /\ row.logbook = memory.invites[i].logbook
      /\ row.role = memory.invites[i].role
  BY <1>2, <1>row DEF BoundedInvites
<1>4. Counted
  BY <1>1, Quiet, SaveFaults DEF RevokeInvitation
<1>5. QED
  BY <1>1, <1>3, <1>4, <1>db, InviteTables DEF Routinely, Stored

LEMMA CreateInvitationTables ==
  ASSUME IInv, TypeOK, NEW s, NEW email \in Emails, NEW logbook \in memory.logbooks \cap Logbooks, NEW role \in Roles,
         CreateInvitation(s, email, logbook, role)
  PROVE  Routinely
<1> PICK n : n = issued
  OBVIOUS
<1>i. PICK i : i = n.invites + 1
  OBVIOUS
<1>row. PICK row : row = [email |-> email, logbook |-> logbook, role |-> role, sent |-> 0,
                          expired |-> FALSE, accepted |-> FALSE, revoked |-> FALSE]
  OBVIOUS
<1>db. PICK db : db = [memory EXCEPT !.invites = Put(@, i, row)]
  OBVIOUS
<1>token. PICK token : token = [for |-> "invite", id |-> i, sent |-> 0]
  OBVIOUS
<1>1. /\ n.invites < MaxInvites /\ issued' = [n EXCEPT !.invites = i]
      /\ mail' = mail \cup {token} /\ Save(db) /\ expired' = expired
  BY <1>i, <1>row, <1>db, <1>token DEF CreateInvitation
<1>2. n \in BoundedCounts /\ n.users \in Nat /\ n.invites \in Nat /\ i \in 1 .. MaxInvites
  BY <1>1, <1>i, Bounds DEF BoundedCounts
<1>3. issued' \in BoundedCounts /\ issued'.users = n.users
  BY <1>1, <1>2, Bounds DEF BoundedCounts
<1>4. token \in Boxes
  BY <1>2, <1>token DEF Boxes
<1>5. Counted
  <2>1. n.users <= n.users
    BY <1>2
  <2>2. QED
    BY <1>1, <1>3, <1>4, <2>1, SaveFaults, Bounds DEF Counted
<1>6. DOMAIN memory = Fields /\ IsState(memory) /\ IsTable(memory.invites, MaxInvites, BoundedInvites)
  BY MemoryTables
<1>7. /\ DOMAIN db = Fields /\ db.invites = Put(memory.invites, i, row)
      /\ db.admins = memory.admins /\ db.users = memory.users /\ db.logbooks = memory.logbooks
      /\ db.sessions = memory.sessions /\ db.devices = memory.devices /\ db.members = memory.members
      /\ db.verifications = memory.verifications /\ db.recoveries = memory.recoveries
      /\ db.config = memory.config
  BY <1>6, <1>db DEF Fields
<1>8. row \in BoundedInvites /\ ~row.accepted /\ row.logbook \in memory.logbooks
  BY <1>row, Bounds DEF BoundedInvites
<1>9. IsTable(db.invites, MaxInvites, BoundedInvites)
  BY <1>2, <1>6, <1>7, <1>8, PutRow
<1>10. IsState(db)
  BY ONLY <1>6, <1>7, <1>9, TableParts
<1>11. i \notin DOMAIN memory.invites
  <2>1. TablesOK(memory, n) /\ n \in Counts
    BY DEF IInv, Sound
  <2>2. QED
    BY <1>2, <1>i, <2>1 DEF TablesOK, Rows
<1>12. /\ DOMAIN db.invites = DOMAIN memory.invites \cup {i} /\ db.invites[i] = row
       /\ \A k \in DOMAIN memory.invites : db.invites[k] = memory.invites[k]
  BY <1>7, <1>11 DEF Put
<1>13. Routine(memory, db)
  BY <1>7, <1>8, <1>11, <1>12 DEF Routine
<1>14. QED
  BY <1>1, <1>5, <1>7, <1>10, <1>13 DEF Routinely, Stored

\* An account is verified by the token it was mailed, which is used up.
LEMMA VerifyEmailTables ==
  ASSUME IInv, TypeOK, NEW token, VerifyEmail(token)
  PROVE  Routinely
<1> PICK v : v = token.id
  OBVIOUS
<1>row. PICK row : row = [memory.verifications[v] EXCEPT !.used = TRUE]
  OBVIOUS
<1>user. PICK user : user = [memory.users[v] EXCEPT !.verified = TRUE]
  OBVIOUS
<1>used. PICK used : used = [memory EXCEPT !.verifications = [memory.verifications EXCEPT ![v] = row]]
  OBVIOUS
<1>verified. PICK verified : verified = [used EXCEPT !.users = [memory.users EXCEPT ![v] = user]]
  OBVIOUS
<1>1. DOMAIN memory = Fields /\ IsState(memory)
  BY MemoryTables
<1>2. /\ DOMAIN used = Fields /\ used.verifications = [memory.verifications EXCEPT ![v] = row]
      /\ used.admins = memory.admins /\ used.users = memory.users /\ used.logbooks = memory.logbooks
      /\ used.sessions = memory.sessions /\ used.devices = memory.devices /\ used.members = memory.members
      /\ used.invites = memory.invites /\ used.recoveries = memory.recoveries
      /\ used.config = memory.config
  BY <1>1, <1>used DEF Fields
<1>3. v \in DOMAIN memory.verifications
  BY DEF VerifyEmail
<1>4. row \in TokenRows
  <2>1. memory.verifications[v] \in TokenRows
    BY <1>3, MemoryTables DEF IsTable
  <2>2. QED
    BY <1>row, <2>1 DEF TokenRows
<1>5. IsTable(used.verifications, MaxAccounts, TokenRows)
  <2>1. IsTable(memory.verifications, MaxAccounts, TokenRows)
    BY MemoryTables
  <2>2. used.verifications = [memory.verifications EXCEPT ![v] = row]
    BY <1>2
  <2>3. QED
    BY ONLY <1>4, <2>1, <2>2, ChangedRow
<1>6. IsState(used)
  BY ONLY <1>1, <1>2, <1>5, TableParts
<1>7. /\ DOMAIN used.verifications = DOMAIN memory.verifications
      /\ \A k \in DOMAIN memory.verifications : k # v => used.verifications[k] = memory.verifications[k]
  BY <1>2
<1>8. CASE v \notin DOMAIN memory.users
  <2>1. KeepInMemory(used) /\ faults' = faults
    BY <1>3, <1>8, <1>row, <1>used DEF VerifyEmail
  <2>2. Counted
    BY <2>1, Quiet, OneFaultMore DEF VerifyEmail
  <2>3. Routine(memory, used)
    BY <1>2, <1>7, <1>8 DEF Routine
  <2>4. QED
    BY <1>2, <1>6, <2>1, <2>2, <2>3 DEF Routinely, Stored
<1>9. CASE v \in DOMAIN memory.users
  <2>1. Save(verified)
    <3>1. [used EXCEPT !.users[v].verified = TRUE] = verified
      BY <1>2, <1>user, <1>verified
    <3>2. QED
      BY <1>3, <1>9, <1>row, <1>used, <3>1 DEF VerifyEmail
  <2>2. Counted
    BY <2>1, Quiet, SaveFaults DEF VerifyEmail
  <2>3. /\ DOMAIN verified = Fields /\ verified.users = [memory.users EXCEPT ![v] = user]
        /\ verified.admins = memory.admins /\ verified.verifications = used.verifications
        /\ verified.sessions = memory.sessions /\ verified.devices = memory.devices
        /\ verified.invites = memory.invites /\ verified.recoveries = memory.recoveries
        /\ verified.members = memory.members /\ verified.logbooks = memory.logbooks
        /\ verified.config = memory.config
    BY <1>2, <1>verified DEF Fields
  <2>4. user \in UserRows /\ user.verified /\ user.email = memory.users[v].email
    <3>1. memory.users[v] \in UserRows
      BY <1>9, MemoryTables DEF IsTable
    <3>2. QED
      BY <1>user, <3>1 DEF UserRows
  <2>5. IsTable(verified.users, MaxAccounts, UserRows)
    BY <2>3, <2>4, MemoryTables, ChangedRow
  <2>6. IsState(verified)
    BY ONLY <1>1, <1>5, <2>3, <2>5, TableParts
  <2>7. /\ DOMAIN verified.users = DOMAIN memory.users
        /\ \A a \in DOMAIN memory.users :
              verified.users[a] = IF a = v THEN user ELSE memory.users[a]
    BY <2>3
  <2>8. Routine(memory, verified)
    BY <1>7, <2>3, <2>4, <2>7 DEF Routine
  <2>9. QED
    BY <2>1, <2>2, <2>3, <2>6, <2>8 DEF Routinely, Stored
<1>10. QED
  BY <1>8, <1>9

\* Handlers that end sessions or revoke devices, and leave the rest.
LEMMA EndedTables ==
  ASSUME NEW db, DOMAIN db = Fields, IsState(db), NEW field, NEW value,
         NEW new, new = EndSessions(db, field, value)
  PROVE  /\ new = [db EXCEPT !.sessions = new.sessions]
         /\ IsTable(new.sessions, MaxSessions, BoundedSessions)
<1> DEFINE ended == [s \in DOMAIN db.sessions |->
        IF db.sessions[s][field] = value THEN [db.sessions[s] EXCEPT !.active = FALSE]
        ELSE db.sessions[s]]
<1>1. new = [db EXCEPT !.sessions = ended]
  BY DEF EndSessions
<1>2. new.sessions = ended
  BY <1>1 DEF Fields
<1>3. IsTable(db.sessions, MaxSessions, BoundedSessions)
  BY TableParts
<1>4. \A s \in DOMAIN db.sessions : db.sessions[s] \in BoundedSessions
                                      /\ [db.sessions[s] EXCEPT !.active = FALSE] \in BoundedSessions
  BY <1>3 DEF IsTable, BoundedSessions
<1>5. IsTable(ended, MaxSessions, BoundedSessions)
  BY <1>3, <1>4 DEF IsTable
<1>6. QED
  BY <1>1, <1>2, <1>5

LEMMA RevokedTables ==
  ASSUME NEW db, DOMAIN db = Fields, IsState(db), NEW a, NEW new, new = RevokeDevices(db, a)
  PROVE  /\ new = [db EXCEPT !.devices = new.devices]
         /\ IsTable(new.devices, MaxDevices, BoundedDevices)
<1> DEFINE ended == [d \in DOMAIN db.devices |->
        IF db.devices[d].account = a THEN [db.devices[d] EXCEPT !.revoked = TRUE] ELSE db.devices[d]]
<1>1. new = [db EXCEPT !.devices = ended]
  BY DEF RevokeDevices
<1>2. new.devices = ended
  BY <1>1 DEF Fields
<1>3. IsTable(db.devices, MaxDevices, BoundedDevices)
  BY TableParts
<1>4. \A d \in DOMAIN db.devices : db.devices[d] \in BoundedDevices
                                     /\ [db.devices[d] EXCEPT !.revoked = TRUE] \in BoundedDevices
  BY <1>3 DEF IsTable, BoundedDevices
<1>5. IsTable(ended, MaxDevices, BoundedDevices)
  BY <1>3, <1>4 DEF IsTable
<1>6. QED
  BY <1>1, <1>2, <1>5

\* Tables with other sessions and devices.
LEMMA OtherSessions ==
  ASSUME IInv, TypeOK, NEW sessions, NEW devices,
         IsTable(sessions, MaxSessions, BoundedSessions), IsTable(devices, MaxDevices, BoundedDevices),
         NEW db, db = [memory EXCEPT !.sessions = sessions, !.devices = devices]
  PROVE  DOMAIN db = Fields /\ IsState(db) /\ Routine(memory, db)
<1>1. DOMAIN memory = Fields /\ IsTable(memory.recoveries, MaxRecoveries, BoundedRecoveries)
  BY MemoryTables
<1>2. /\ Alike(db) /\ db.config = memory.config /\ db.recoveries = memory.recoveries
      /\ db.sessions = sessions /\ db.devices = devices
  BY <1>1 DEF Alike, Fields
<1>3. QED
  BY <1>1, <1>2, AlikeTyped, AlikeIsRoutine DEF Alike

LEMMA QuietSave ==
  ASSUME IInv, TypeOK, UNCHANGED <<mail, issued, expired>>, NEW db, Save(db),
         DOMAIN db = Fields, IsState(db), Routine(memory, db)
  PROVE  Routinely
BY Quiet, SaveFaults DEF Routinely, Stored

LEMMA LogoutTables ==
  ASSUME IInv, TypeOK, NEW s, Logout(s)
  PROVE  Routinely
<1>row. PICK row : row = [memory.sessions[s] EXCEPT !.active = FALSE]
  OBVIOUS
<1>db. PICK db : db = [memory EXCEPT !.sessions = [memory.sessions EXCEPT ![s] = row]]
  OBVIOUS
<1>1. s \in DOMAIN memory.sessions /\ Save(db)
  BY <1>row, <1>db DEF Logout
<1>2. memory.sessions[s] \in BoundedSessions
  BY <1>1, MemoryTables DEF IsTable
<1>3. row \in BoundedSessions
  BY <1>2, <1>row DEF BoundedSessions
<1>4. IsTable([memory.sessions EXCEPT ![s] = row], MaxSessions, BoundedSessions)
  BY <1>3, MemoryTables, ChangedRow
<1>5. db = [memory EXCEPT !.sessions = [memory.sessions EXCEPT ![s] = row], !.devices = memory.devices]
  BY <1>db, MemoryTables DEF Fields
<1>6. DOMAIN db = Fields /\ IsState(db) /\ Routine(memory, db)
  BY <1>4, <1>5, MemoryTables, OtherSessions
<1>7. QED
  BY <1>1, <1>6, QuietSave DEF Logout

LEMMA LogoutAllTables ==
  ASSUME IInv, TypeOK, NEW s, LogoutAll(s)
  PROVE  Routinely
<1>db. PICK db : db = EndSessions(memory, "account", memory.sessions[s].account)
  OBVIOUS
<1>1. DOMAIN memory = Fields /\ IsState(memory) /\ IsTable(memory.devices, MaxDevices, BoundedDevices)
  BY MemoryTables
<1>2. /\ db = [memory EXCEPT !.sessions = db.sessions]
      /\ IsTable(db.sessions, MaxSessions, BoundedSessions)
  BY <1>1, <1>db, EndedTables
<1>3. db = [memory EXCEPT !.sessions = db.sessions, !.devices = memory.devices]
  BY <1>1, <1>2 DEF Fields
<1>4. DOMAIN db = Fields /\ IsState(db) /\ Routine(memory, db)
  BY <1>1, <1>2, <1>3, OtherSessions
<1>5. QED
  BY <1>4, <1>db, QuietSave DEF LogoutAll

LEMMA RevokeAllDevicesTables ==
  ASSUME IInv, TypeOK, NEW s, RevokeAllDevices(s)
  PROVE  Routinely
<1> PICK a : a = memory.sessions[s].account
  OBVIOUS
<1>revoked. PICK revoked : revoked = RevokeDevices(memory, a)
  OBVIOUS
<1>db. PICK db : db = EndSessions(revoked, "account", a)
  OBVIOUS
<1>1. DOMAIN memory = Fields /\ IsState(memory) /\ IsTable(memory.sessions, MaxSessions, BoundedSessions)
  BY MemoryTables
<1>2. /\ revoked = [memory EXCEPT !.devices = revoked.devices]
      /\ IsTable(revoked.devices, MaxDevices, BoundedDevices)
  BY <1>1, <1>revoked, RevokedTables
<1>3. revoked = [memory EXCEPT !.sessions = memory.sessions, !.devices = revoked.devices]
  BY <1>1, <1>2 DEF Fields
<1>4. DOMAIN revoked = Fields /\ IsState(revoked)
  BY <1>1, <1>2, <1>3, OtherSessions
<1>5. /\ db = [revoked EXCEPT !.sessions = db.sessions]
      /\ IsTable(db.sessions, MaxSessions, BoundedSessions)
  BY <1>4, <1>db, EndedTables
<1>6. db = [memory EXCEPT !.sessions = db.sessions, !.devices = revoked.devices]
  BY <1>1, <1>3, <1>5 DEF Fields
<1>7. DOMAIN db = Fields /\ IsState(db) /\ Routine(memory, db)
  BY <1>2, <1>5, <1>6, OtherSessions
<1>8. QED
  BY <1>7, <1>revoked, <1>db, QuietSave DEF RevokeAllDevices

LEMMA RevokeDeviceTables ==
  ASSUME IInv, TypeOK, NEW s, NEW d, RevokeDevice(s, d)
  PROVE  Routinely
<1>row. PICK row : row = [memory.devices[d] EXCEPT !.revoked = TRUE]
  OBVIOUS
<1>ended. PICK ended : ended = EndSessions(memory, "device", d)
  OBVIOUS
<1>table. PICK table : table = [memory.devices EXCEPT ![d] = row]
  OBVIOUS
<1>db. PICK db : db = [memory EXCEPT !.sessions = ended.sessions, !.devices = table]
  OBVIOUS
<1>1. DOMAIN memory = Fields /\ IsState(memory) /\ IsTable(memory.devices, MaxDevices, BoundedDevices)
  BY MemoryTables
<1>2. /\ ended = [memory EXCEPT !.sessions = ended.sessions]
      /\ IsTable(ended.sessions, MaxSessions, BoundedSessions)
  BY <1>1, <1>ended, EndedTables
<1>3. d \in DOMAIN memory.devices
  BY DEF RevokeDevice
<1>4. [ended EXCEPT !.devices[d].revoked = TRUE] = db
  BY <1>1, <1>2, <1>row, <1>table, <1>db DEF Fields
<1>5. Save(db)
  BY <1>4, <1>ended DEF RevokeDevice
<1>6. row \in BoundedDevices
  <2>1. memory.devices[d] \in BoundedDevices
    BY <1>1, <1>3 DEF IsTable
  <2>2. QED
    BY <1>row, <2>1 DEF BoundedDevices
<1>7. IsTable(table, MaxDevices, BoundedDevices)
  BY <1>1, <1>6, <1>table, ChangedRow
<1>8. DOMAIN db = Fields /\ IsState(db) /\ Routine(memory, db)
  BY <1>2, <1>7, <1>db, OtherSessions
<1>9. QED
  BY <1>5, <1>8, QuietSave DEF RevokeDevice

LEMMA DeleteAccountTables ==
  ASSUME IInv, TypeOK, NEW s, DeleteAccount(s)
  PROVE  Routinely
<1> PICK a : a = memory.sessions[s].account
  OBVIOUS
<1>ended. PICK ended : ended = EndSessions(memory, "account", a)
  OBVIOUS
<1>revoked. PICK revoked : revoked = RevokeDevices(ended, a)
  OBVIOUS
<1>user. PICK user : user = [memory.users[a] EXCEPT !.deleted = TRUE]
  OBVIOUS
<1>users. PICK users : users = [memory.users EXCEPT ![a] = user]
  OBVIOUS
<1>admins. PICK admins : admins = memory.admins \ {a}
  OBVIOUS
<1>db. PICK db : db = [revoked EXCEPT !.users = users, !.admins = admins]
  OBVIOUS
<1>1. DOMAIN memory = Fields /\ IsState(memory) /\ IsTable(memory.devices, MaxDevices, BoundedDevices)
  BY MemoryTables
<1>2. /\ ended = [memory EXCEPT !.sessions = ended.sessions]
      /\ IsTable(ended.sessions, MaxSessions, BoundedSessions)
  BY <1>1, <1>ended, EndedTables
<1>3. DOMAIN ended = Fields /\ IsState(ended)
  <2>1. ended = [memory EXCEPT !.sessions = ended.sessions, !.devices = memory.devices]
    BY <1>1, <1>2 DEF Fields
  <2>2. QED
    BY <1>1, <1>2, <2>1, OtherSessions
<1>4. /\ revoked = [ended EXCEPT !.devices = revoked.devices]
      /\ IsTable(revoked.devices, MaxDevices, BoundedDevices)
  BY <1>3, <1>revoked, RevokedTables
<1>5. revoked = [memory EXCEPT !.sessions = ended.sessions, !.devices = revoked.devices]
  BY <1>1, <1>2, <1>4 DEF Fields
<1>6. DOMAIN revoked = Fields /\ IsState(revoked)
  BY <1>2, <1>4, <1>5, OtherSessions
<1>7. /\ revoked.users = memory.users /\ revoked.admins = memory.admins
      /\ revoked.members = memory.members /\ revoked.logbooks = memory.logbooks
      /\ revoked.invites = memory.invites /\ revoked.verifications = memory.verifications
  BY <1>1, <1>5 DEF Fields
<1>8. [revoked EXCEPT !.users[a].deleted = TRUE, !.admins = @ \ {a}] = db
  BY <1>6, <1>7, <1>user, <1>users, <1>admins, <1>db DEF Fields
<1>9. a \in DOMAIN memory.users /\ Save(db)
  BY <1>8, <1>ended, <1>revoked DEF DeleteAccount, LiveSessions, authorize
<1>10. /\ DOMAIN db = Fields /\ db.users = users /\ db.admins = admins
       /\ db.members = revoked.members /\ db.logbooks = revoked.logbooks
       /\ db.invites = revoked.invites /\ db.verifications = revoked.verifications
       /\ db.sessions = revoked.sessions /\ db.devices = revoked.devices
       /\ db.recoveries = revoked.recoveries /\ db.config = revoked.config
  BY <1>6, <1>db DEF Fields
<1>11. user \in UserRows /\ user.email = memory.users[a].email /\ user.verified = memory.users[a].verified
  <2>1. memory.users[a] \in UserRows
    BY <1>9, MemoryTables DEF IsTable
  <2>2. QED
    BY <1>user, <2>1 DEF UserRows
<1>12. IsTable(users, MaxAccounts, UserRows)
  BY <1>11, <1>users, MemoryTables, ChangedRow
<1>13. admins \subseteq Accounts /\ admins \subseteq memory.admins
  BY <1>1, <1>admins, TableParts
<1>14. IsState(db)
  BY ONLY <1>6, <1>10, <1>12, <1>13, TableParts
<1>15. /\ DOMAIN users = DOMAIN memory.users
       /\ \A k \in DOMAIN memory.users : users[k] = IF k = a THEN user ELSE memory.users[k]
  BY <1>users
<1>16. Routine(memory, db)
  BY <1>7, <1>10, <1>11, <1>13, <1>15 DEF Routine
<1>17. QED
  BY <1>9, <1>10, <1>14, <1>16, QuietSave DEF DeleteAccount

\* Handlers that draw identifiers and mail nothing.
LEMMA DrawingSave ==
  ASSUME IInv, TypeOK, UNCHANGED <<mail, expired>>,
         issued' \in BoundedCounts, issued'.users = issued.users, NEW db, Save(db),
         DOMAIN db = Fields, IsState(db), Routine(memory, db)
  PROVE  Routinely
<1>1. issued.users \in Nat
  BY Bounds DEF BoundedCounts
<1>2. Counted
  BY <1>1, SaveFaults, Bounds DEF Counted
<1>3. QED
  BY <1>2 DEF Routinely, Stored

LEMMA RegisterDeviceTables ==
  ASSUME IInv, TypeOK, NEW s, RegisterDevice(s)
  PROVE  Routinely
<1> PICK n : n = issued
  OBVIOUS
<1> PICK a : a = memory.sessions[s].account
  OBVIOUS
<1>d. PICK d : d = n.devices + 1
  OBVIOUS
<1>row. PICK row : row = [account |-> a, revoked |-> FALSE]
  OBVIOUS
<1>db. PICK db : db = [memory EXCEPT !.devices = Put(@, d, row)]
  OBVIOUS
<1>1. /\ a \in DOMAIN memory.users /\ n.devices < MaxDevices /\ issued' = [n EXCEPT !.devices = d]
      /\ Save(db)
  BY <1>d, <1>row, <1>db DEF RegisterDevice, LiveSessions, authorize
<1>2. n \in BoundedCounts /\ d \in 1 .. MaxDevices
  BY <1>1, <1>d, Bounds DEF BoundedCounts
<1>3. issued' \in BoundedCounts /\ issued'.users = n.users
  BY <1>1, <1>2, Bounds DEF BoundedCounts
<1>4. /\ DOMAIN memory = Fields /\ IsTable(memory.devices, MaxDevices, BoundedDevices)
      /\ IsTable(memory.sessions, MaxSessions, BoundedSessions)
  BY MemoryTables
<1>5. a \in Accounts
  BY <1>1, MemoryTables DEF IsTable, Accounts
<1>6. row \in BoundedDevices
  BY <1>5, <1>row DEF BoundedDevices
<1>7. IsTable(Put(memory.devices, d, row), MaxDevices, BoundedDevices)
  BY <1>2, <1>4, <1>6, PutRow
<1>8. db = [memory EXCEPT !.sessions = memory.sessions, !.devices = Put(memory.devices, d, row)]
  BY <1>4, <1>db DEF Fields
<1>9. DOMAIN db = Fields /\ IsState(db) /\ Routine(memory, db)
  BY <1>4, <1>7, <1>8, OtherSessions
<1>10. QED
  BY <1>1, <1>3, <1>9, DrawingSave DEF RegisterDevice

LEMMA RotateSessionTables ==
  ASSUME IInv, TypeOK, NEW s, RotateSession(s)
  PROVE  Routinely
<1> PICK n : n = issued
  OBVIOUS
<1>i. PICK i : i = n.sessions + 1
  OBVIOUS
<1> PICK from : from = memory.sessions[s]
  OBVIOUS
<1>off. PICK off : off = [from EXCEPT !.active = FALSE]
  OBVIOUS
<1>on. PICK on : on = [from EXCEPT !.active = TRUE]
  OBVIOUS
<1>ended. PICK ended : ended = [memory.sessions EXCEPT ![s] = off]
  OBVIOUS
<1>table. PICK table : table = Put(ended, i, on)
  OBVIOUS
<1>db. PICK db : db = [memory EXCEPT !.sessions = table]
  OBVIOUS
<1>1. /\ s \in DOMAIN memory.sessions /\ n.sessions < MaxSessions /\ issued' = [n EXCEPT !.sessions = i]
  BY <1>i DEF RotateSession, LiveSessions
<1>2. n \in BoundedCounts /\ i \in 1 .. MaxSessions
  BY <1>1, <1>i, Bounds DEF BoundedCounts
<1>3. issued' \in BoundedCounts /\ issued'.users = n.users
  BY <1>1, <1>2, Bounds DEF BoundedCounts
<1>4. /\ DOMAIN memory = Fields /\ IsTable(memory.devices, MaxDevices, BoundedDevices)
      /\ IsTable(memory.sessions, MaxSessions, BoundedSessions)
  BY MemoryTables
<1>5. Save(db)
  <2>1. Rotated(memory, s).sessions = ended
    BY <1>4, <1>off, <1>ended DEF Rotated, Fields
  <2>2. [Rotated(memory, s) EXCEPT !.sessions = table] = db
    BY <1>4, <1>db DEF Rotated, Fields
  <2>3. QED
    BY <1>i, <1>on, <1>table, <2>1, <2>2 DEF RotateSession
<1>6. off \in BoundedSessions /\ on \in BoundedSessions
  <2>1. from \in BoundedSessions
    BY <1>1, <1>4 DEF IsTable
  <2>2. QED
    BY <1>off, <1>on, <2>1 DEF BoundedSessions
<1>7. IsTable(ended, MaxSessions, BoundedSessions)
  BY <1>4, <1>6, <1>ended, ChangedRow
<1>8. IsTable(table, MaxSessions, BoundedSessions)
  BY <1>2, <1>6, <1>7, <1>table, PutRow
<1>9. db = [memory EXCEPT !.sessions = table, !.devices = memory.devices]
  BY <1>4, <1>db DEF Fields
<1>10. DOMAIN db = Fields /\ IsState(db) /\ Routine(memory, db)
  BY <1>4, <1>8, <1>9, OtherSessions
<1>11. QED
  BY <1>3, <1>5, <1>10, DrawingSave DEF RotateSession

\* A new session changes sessions and devices only.
LEMMA SignInTables ==
  ASSUME TypeOK, CanIssueSession, NEW base, DOMAIN base = Fields, IsState(base), NEW a \in Accounts,
         NEW db, db = WithSession(base, a)
  PROVE  /\ DOMAIN db = Fields /\ IsState(db)
         /\ db.users = base.users /\ db.admins = base.admins /\ db.members = base.members
         /\ db.logbooks = base.logbooks /\ db.invites = base.invites
         /\ db.verifications = base.verifications
<1> PICK n : n = issued
  OBVIOUS
<1>s. PICK s : s = n.sessions + 1
  OBVIOUS
<1>d. PICK d : d = n.devices + 1
  OBVIOUS
<1>device. PICK device : device = [account |-> a, revoked |-> FALSE]
  OBVIOUS
<1>session. PICK session : session = [account |-> a, device |-> d, active |-> TRUE]
  OBVIOUS
<1>1. s \in 1 .. MaxSessions /\ d \in 1 .. MaxDevices
  BY <1>s, <1>d, Bounds DEF CanIssueSession, BoundedCounts
<1>2. device \in BoundedDevices /\ session \in BoundedSessions
  BY <1>1, <1>device, <1>session DEF BoundedDevices, BoundedSessions
<1>3. db = [base EXCEPT !.devices = Put(@, d, device), !.sessions = Put(@, s, session)]
  BY <1>s, <1>d, <1>device, <1>session DEF WithSession
<1>4. /\ DOMAIN db = Fields
      /\ db.users = base.users /\ db.admins = base.admins /\ db.members = base.members
      /\ db.logbooks = base.logbooks /\ db.invites = base.invites
      /\ db.verifications = base.verifications /\ db.recoveries = base.recoveries
      /\ db.config = base.config
      /\ db.devices = Put(base.devices, d, device) /\ db.sessions = Put(base.sessions, s, session)
  BY <1>3 DEF Fields
<1>5. IsTable(base.devices, MaxDevices, BoundedDevices) /\ IsTable(base.sessions, MaxSessions, BoundedSessions)
  BY TableParts
<1>6. IsTable(db.devices, MaxDevices, BoundedDevices) /\ IsTable(db.sessions, MaxSessions, BoundedSessions)
  BY <1>1, <1>2, <1>4, <1>5, PutRow
<1>7. IsState(db)
  <2>1. IsState(base)
    OBVIOUS
  <2>2. QED
    BY ONLY <1>4, <1>6, <2>1, TableParts
<1>8. QED
  BY <1>4, <1>7

LEMMA DrawnBounds ==
  ASSUME TypeOK, CanIssueSession, issued' = DrawnWithSession(issued)
  PROVE  issued' \in BoundedCounts /\ issued'.users = issued.users
<1> PICK n : n = issued
  OBVIOUS
<1>1. n \in BoundedCounts /\ n.sessions < MaxSessions /\ n.devices < MaxDevices
  BY Bounds DEF CanIssueSession
<1>2. n.sessions + 1 \in 0 .. MaxSessions /\ n.devices + 1 \in 0 .. MaxDevices
  BY <1>1, Bounds DEF BoundedCounts
<1>3. issued' = [n EXCEPT !.sessions = n.sessions + 1, !.devices = n.devices + 1]
  BY DEF DrawnWithSession
<1>4. QED
  BY <1>1, <1>2, <1>3 DEF BoundedCounts

LEMMA LoginTables ==
  ASSUME IInv, TypeOK, NEW email, Login(email)
  PROVE  Routinely
<1>1. PICK a \in DOMAIN memory.users : /\ CanIssueSession /\ issued' = DrawnWithSession(issued)
                                       /\ Save(WithSession(memory, a))
  BY DEF Login
<1>db. PICK db : db = WithSession(memory, a)
  OBVIOUS
<1>2. a \in Accounts
  BY <1>1, MemoryTables DEF IsTable, Accounts
<1>3. DOMAIN db = Fields /\ IsState(db) /\ Alike(db)
  BY <1>1, <1>2, <1>db, MemoryTables, SignInTables DEF Alike
<1>4. QED
  BY <1>1, <1>3, <1>db, DrawnBounds, AlikeIsRoutine, DrawingSave DEF Login

LEMMA RecoveryTables ==
  ASSUME IInv, TypeOK, NEW recoveries, IsTable(recoveries, MaxRecoveries, BoundedRecoveries),
         NEW db, db = [memory EXCEPT !.recoveries = recoveries]
  PROVE  Alike(db) /\ IsState(db)
<1>1. /\ DOMAIN memory = Fields /\ IsTable(memory.sessions, MaxSessions, BoundedSessions)
      /\ IsTable(memory.devices, MaxDevices, BoundedDevices)
  BY MemoryTables
<1>2. /\ Alike(db) /\ db.config = memory.config /\ db.recoveries = recoveries
      /\ db.sessions = memory.sessions /\ db.devices = memory.devices
  BY <1>1 DEF Alike, Fields
<1>3. QED
  BY <1>1, <1>2, AlikeTyped

LEMMA CompleteRecoveryTables ==
  ASSUME IInv, TypeOK, NEW token, CompleteRecovery(token)
  PROVE  Routinely
<1> PICK r : r = token.id
  OBVIOUS
<1>a. PICK a : a = memory.recoveries[r].account
  OBVIOUS
<1>row. PICK row : row = [memory.recoveries[r] EXCEPT !.used = TRUE]
  OBVIOUS
<1>table. PICK table : table = [memory.recoveries EXCEPT ![r] = row]
  OBVIOUS
<1>db. PICK db : db = [memory EXCEPT !.recoveries = table]
  OBVIOUS
<1>1. r \in DOMAIN memory.recoveries
  BY DEF CompleteRecovery
<1>2. \/ CanIssueSession /\ issued' = DrawnWithSession(issued) /\ Save(WithSession(db, a))
      \/ issued' = issued /\ faults' = faults /\ KeepInMemory(db)
  BY <1>a, <1>row, <1>table, <1>db DEF CompleteRecovery
<1>3. memory.recoveries[r] \in BoundedRecoveries
  BY <1>1, MemoryTables DEF IsTable
<1>4. row \in BoundedRecoveries /\ a \in Accounts
  BY <1>3, <1>a, <1>row DEF BoundedRecoveries
<1>5. IsTable(table, MaxRecoveries, BoundedRecoveries)
  BY <1>4, <1>table, MemoryTables, ChangedRow
<1>6. Alike(db) /\ IsState(db)
  BY <1>5, <1>db, RecoveryTables
<1>7. CASE issued' = issued /\ faults' = faults /\ KeepInMemory(db)
  <2>1. Counted
    BY <1>7, Quiet, OneFaultMore DEF CompleteRecovery
  <2>2. QED
    BY <1>6, <1>7, <2>1, AlikeIsRoutine DEF Alike, Routinely, Stored
<1>8. CASE CanIssueSession /\ issued' = DrawnWithSession(issued) /\ Save(WithSession(db, a))
  <2>1. PICK new : new = WithSession(db, a)
    OBVIOUS
  <2>2. DOMAIN new = Fields /\ IsState(new) /\ Alike(new)
    BY <1>4, <1>6, <1>8, <2>1, SignInTables DEF Alike
  <2>3. QED
    BY <1>8, <2>1, <2>2, DrawnBounds, AlikeIsRoutine, DrawingSave DEF CompleteRecovery
<1>9. QED
  BY <1>2, <1>7, <1>8

LEMMA StartRecoveryTables ==
  ASSUME IInv, TypeOK, NEW email, StartRecovery(email)
  PROVE  Routinely
<1>1. CASE issued' = issued /\ mail' = mail /\ Save(memory)
  <2>1. DOMAIN memory = Fields /\ IsState(memory) /\ Routine(memory, memory)
    BY MemoryTables, AlikeIsRoutine
  <2>2. expired' = expired
    BY DEF StartRecovery
  <2>3. QED
    BY <1>1, <2>1, <2>2, QuietSave
<1>2. ASSUME NEW a \in Accounts, issued.recoveries < MaxRecoveries,
             issued' = [issued EXCEPT !.recoveries = @ + 1],
             SendMail([for |-> "recovery", id |-> issued.recoveries + 1, sent |-> 0],
                      [memory EXCEPT !.recoveries =
                          Put(@, issued.recoveries + 1, [account |-> a, used |-> FALSE])])
      PROVE  Routinely
  <2> PICK n : n = issued
    OBVIOUS
  <2>r. PICK r : r = n.recoveries + 1
    OBVIOUS
  <2>row. PICK row : row = [account |-> a, used |-> FALSE]
    OBVIOUS
  <2>token. PICK token : token = [for |-> "recovery", id |-> r, sent |-> 0]
    OBVIOUS
  <2>db. PICK db : db = [memory EXCEPT !.recoveries = Put(memory.recoveries, r, row)]
    OBVIOUS
  <2>1. SendMail(token, db) /\ issued' = [n EXCEPT !.recoveries = r]
    BY <1>2, <2>r, <2>row, <2>token, <2>db
  <2>2. n \in BoundedCounts /\ n.users \in Nat /\ r \in 1 .. MaxRecoveries
    BY <1>2, <2>r, Bounds DEF BoundedCounts
  <2>3. issued' \in BoundedCounts /\ issued'.users = n.users
    BY <2>1, <2>2, Bounds DEF BoundedCounts
  <2>4. token \in Boxes
    BY <2>2, <2>token DEF Boxes
  <2>5. /\ Save(db) \/ KeepInMemory(db)
        /\ mail \subseteq mail' /\ mail' \subseteq Boxes /\ faults' \in 0 .. MaxFaults
    BY <2>1, <2>4, MailFaults
  <2>6. Counted
    <3>1. expired' = expired /\ n.users <= n.users
      BY <2>2 DEF StartRecovery
    <3>2. QED
      BY <2>3, <2>5, <3>1, Bounds DEF Counted
  <2>7. row \in BoundedRecoveries
    BY <2>row DEF BoundedRecoveries
  <2>8. IsTable(Put(memory.recoveries, r, row), MaxRecoveries, BoundedRecoveries)
    BY <2>2, <2>7, MemoryTables, PutRow
  <2>9. Alike(db) /\ IsState(db)
    BY <2>8, <2>db, RecoveryTables
  <2>10. QED
    BY <2>5, <2>6, <2>9, AlikeIsRoutine DEF Alike, Routinely, Stored
<1>3. QED
  BY <1>1, <1>2 DEF StartRecovery

\* A new account with the membership it was given: by its own logbook or by
\* an invitation that is accepted with it.
Granted(old, new, a, m) ==
    /\ DOMAIN new.users = DOMAIN old.users \cup {a}
    /\ \A b \in DOMAIN old.users : new.users[b].email = old.users[b].email
    /\ \A b \in DOMAIN old.users : new.users[a].email # old.users[b].email
    /\ m.user = a /\ new.members = old.members \cup {m}
    /\ \/ new.logbooks = old.logbooks /\ \E i \in DOMAIN new.invites : Invited(new, m, i)
       \/ new.logbooks = old.logbooks \cup {m.logbook} /\ Owned(m)
    /\ DOMAIN new.invites = DOMAIN old.invites
    /\ \A i \in DOMAIN old.invites :
         /\ new.invites[i].email = old.invites[i].email
         /\ new.invites[i].logbook = old.invites[i].logbook
         /\ new.invites[i].role = old.invites[i].role
         /\ old.invites[i].accepted => new.invites[i].accepted
         /\ new.invites[i].accepted => old.invites[i].accepted \/ Invited(new, m, i)
    /\ new.admins = old.admins \/ (DOMAIN old.users = {} /\ new.admins = {a})

LEMMA NewGrant ==
  ASSUME NEW n \in Nat, NEW a, a = n + 1, NEW old, NEW new, NEW m \in Memberships, Granted(old, new, a, m),
         GrantsMade(old, n), DOMAIN old.users \subseteq 1 .. n
  PROVE  GrantsMade(new, a)
<1> USE DEF Granted
<1>1. a \in Nat /\ a \notin 1 .. n /\ 1 .. n \subseteq 1 .. a /\ a \in 1 .. a /\ \A b \in 1 .. n : b <= a
  OBVIOUS
<1>2. a \notin DOMAIN old.users
  BY <1>1
<1>3. \A k \in old.members : k.user \in DOMAIN old.users /\ k.user # a
  BY <1>2 DEF GrantsMade, LogbooksOwned
<1>4. \A k \in old.members, i \in DOMAIN old.invites : Invited(old, k, i) => Invited(new, k, i)
  BY <1>3 DEF Invited
<1>5. \A k \in old.members : Given(old, k) => Given(new, k)
  BY <1>4 DEF Given
<1>6. /\ new.admins \subseteq 1 .. a
      /\ \A x \in new.admins, b \in DOMAIN new.users : x <= b
  <2>1. CASE new.admins = old.admins
    <3>1. old.admins \subseteq 1 .. n /\ \A x \in old.admins, b \in DOMAIN old.users : x <= b
      BY DEF GrantsMade
    <3>2. QED
      BY <1>1, <2>1, <3>1
  <2>2. CASE DOMAIN old.users = {} /\ new.admins = {a}
    BY <1>1, <2>2
  <2>3. QED
    BY <2>1, <2>2
<1>7. \A x, b \in DOMAIN new.users : new.users[x].email = new.users[b].email => x = b
  BY <1>2 DEF GrantsMade
<1>8. \A i \in DOMAIN new.invites :
        /\ new.invites[i].logbook \in old.logbooks
        /\ new.invites[i].logbook.owner \in DOMAIN old.users
  BY DEF GrantsMade, LogbooksOwned
<1>9. m.logbook \in new.logbooks /\ ~Created(m) /\ Given(new, m)
  <2>1. CASE new.logbooks = old.logbooks /\ \E i \in DOMAIN new.invites : Invited(new, m, i)
    <3>1. PICK i \in DOMAIN new.invites : Invited(new, m, i)
      BY <2>1
    <3>2. m.logbook = new.invites[i].logbook
      BY <3>1 DEF Invited
    <3>3. QED
      BY <1>2, <1>8, <2>1, <3>1, <3>2 DEF Created, Given
  <2>2. CASE new.logbooks = old.logbooks \cup {m.logbook} /\ Owned(m)
    <3>1. ~(m.logbook.nth > 0)
      BY <2>2 DEF Owned
    <3>2. QED
      BY <2>2, <3>1 DEF Created, Given
  <2>3. QED
    BY <2>1, <2>2
<1>10. LogbooksOwned(new)
  <2>1. LogbooksOwned(old)
    BY DEF GrantsMade
  <2>2. \A b \in new.logbooks : b \in old.logbooks \/ (b = m.logbook /\ Owned(m))
    OBVIOUS
  <2>3. ASSUME Owned(m)
        PROVE  m.logbook.owner = a /\ m = [user |-> a, logbook |-> m.logbook, role |-> "Owner"]
    <3>1. m = [user |-> m.user, logbook |-> m.logbook, role |-> m.role]
      BY DEF Memberships
    <3>2. m.user = a
      OBVIOUS
    <3>3. QED
      BY <2>3, <3>1, <3>2 DEF Owned
  <2>4. ASSUME NEW b \in new.logbooks
        PROVE  /\ b.owner \in DOMAIN new.users
               /\ [user |-> b.owner, logbook |-> b, role |-> "Owner"] \in new.members
    <3>1. CASE b \in old.logbooks
      BY <2>1, <3>1 DEF LogbooksOwned
    <3>2. CASE b = m.logbook /\ Owned(m)
      <4>1. b.owner = a /\ [user |-> b.owner, logbook |-> b, role |-> "Owner"] = m
        BY <2>3, <3>2
      <4>2. a \in DOMAIN new.users /\ m \in new.members
        OBVIOUS
      <4>3. QED
        BY <4>1, <4>2
    <3>3. QED
      BY <2>2, <3>1, <3>2
  <2>5. \A k \in new.members : k.user \in DOMAIN new.users /\ k.logbook \in new.logbooks
    BY <1>9, <2>1 DEF LogbooksOwned
  <2>6. \A i \in DOMAIN new.invites : new.invites[i].logbook \in new.logbooks
    BY <1>8
  <2>7. QED
    BY <2>4, <2>5, <2>6 DEF LogbooksOwned
<1>11. \A k, l \in new.members : k.user = l.user /\ ~Created(k) /\ ~Created(l) => k = l
  BY <1>3 DEF GrantsMade
<1>12. \A b \in DOMAIN new.users : \E k \in new.members : k.user = b /\ ~Created(k) /\ Given(new, k)
  <2>1. \A b \in DOMAIN old.users : \E k \in old.members : k.user = b /\ ~Created(k) /\ Given(old, k)
    BY DEF GrantsMade
  <2>2. QED
    BY <1>5, <1>9, <2>1
<1>13. \A i \in DOMAIN new.invites : new.invites[i].accepted =>
         /\ \E k \in new.members : Invited(new, k, i)
         /\ new.users[new.invites[i].logbook.owner].email # new.invites[i].email
  <2>1. ASSUME NEW i \in DOMAIN old.invites, old.invites[i].accepted
        PROVE  /\ \E k \in new.members : Invited(new, k, i)
               /\ new.users[new.invites[i].logbook.owner].email # new.invites[i].email
    <3>1. PICK k \in old.members : Invited(old, k, i)
      BY <2>1 DEF GrantsMade
    <3>2. old.users[old.invites[i].logbook.owner].email # old.invites[i].email
      BY <2>1 DEF GrantsMade
    <3>3. QED
      BY <1>4, <1>8, <3>1, <3>2
  <2>2. ASSUME NEW i \in DOMAIN new.invites, Invited(new, m, i)
        PROVE  /\ \E k \in new.members : Invited(new, k, i)
               /\ new.users[new.invites[i].logbook.owner].email # new.invites[i].email
    <3>1. new.invites[i].email = new.users[a].email
      BY <2>2 DEF Invited
    <3>2. QED
      BY <1>8, <2>2, <3>1
  <2>3. QED
    BY <2>1, <2>2
<1>14. QED
  BY <1>6, <1>7, <1>10, <1>11, <1>12, <1>13 DEF GrantsMade

\* The handler stores tables that are complete if those in memory are.
Completely ==
    Counted /\ \E db : Stored(db) /\ (~lost => Complete(db, issued'.users))

LEMMA RoutineIsWhole ==
  ASSUME Whole, Routinely, TypeOK
  PROVE  Completely
<1>1. PICK db : Stored(db) /\ Routine(memory, db)
  BY DEF Routinely
<1>2. Counted
  BY DEF Routinely
<1> PICK drawn : drawn = issued.users
  OBVIOUS
<1> PICK more : more = issued'.users
  OBVIOUS
<1> PICK old : old = memory
  OBVIOUS
<1>3. drawn \in Nat /\ more \in Nat /\ drawn <= more
  BY <1>2, Bounds DEF Counted, BoundedCounts
<1>4. ~lost => Complete(old, drawn)
  BY DEF Whole
<1>5. ~lost => Complete(old, more)
  BY ONLY <1>3, <1>4, LaterIsComplete
<1>6. ~lost => Complete(db, more)
  <2>1. Routine(old, db)
    BY <1>1
  <2>2. QED
    BY ONLY <1>5, <2>1, RoutineIsComplete
<1>7. QED
  BY <1>1, <1>2, <1>6 DEF Completely

LEMMA CreateLogbookWhole ==
  ASSUME IInv, TypeOK, Whole, NEW s, CreateLogbook(s)
  PROVE  Completely
<1> PICK n : n = issued
  OBVIOUS
<1> PICK old : old = memory
  OBVIOUS
<1>a. PICK a : a = memory.sessions[s].account
  OBVIOUS
<1>nth. PICK nth : nth = n.logbooks + 1
  OBVIOUS
<1>b. PICK b : b = [owner |-> a, nth |-> nth]
  OBVIOUS
<1>m. PICK m : m = [user |-> a, logbook |-> b, role |-> "Owner"]
  OBVIOUS
<1>db. PICK db : db = WithLogbook(old, a, nth)
  OBVIOUS
<1>1. /\ issued' = [n EXCEPT !.logbooks = nth] /\ n.logbooks < MaxLogbooks /\ Save(db)
      /\ a \in DOMAIN old.users /\ mail' = mail /\ expired' = expired
  BY <1>a, <1>nth, <1>db DEF CreateLogbook, LiveSessions, authorize
<1>2. n \in BoundedCounts /\ MaxLogbooks \in Nat
  BY Bounds
<1>3. nth \in 1 .. MaxLogbooks /\ nth \in Nat /\ nth > 0
  BY <1>1, <1>2, <1>nth DEF BoundedCounts
<1>4. issued' \in BoundedCounts /\ issued'.users = n.users /\ n.users \in Nat
  BY <1>1, <1>2, <1>3 DEF BoundedCounts
<1>5. DOMAIN old = Fields /\ IsState(old) /\ IsTable(old.users, MaxAccounts, UserRows)
  BY MemoryTables
<1>6. a \in Accounts
  BY <1>1, <1>5 DEF IsTable, Accounts
<1>7. b \in Logbooks /\ m \in Memberships
  BY <1>3, <1>6, <1>b, <1>m DEF Logbooks, Memberships
<1>8. /\ DOMAIN db = Fields /\ db.logbooks = old.logbooks \cup {b} /\ db.members = old.members \cup {m}
      /\ db.users = old.users /\ db.admins = old.admins /\ db.invites = old.invites
      /\ db.sessions = old.sessions /\ db.devices = old.devices /\ db.config = old.config
      /\ db.verifications = old.verifications /\ db.recoveries = old.recoveries
  BY <1>5, <1>b, <1>m, <1>db DEF WithLogbook, Fields
<1>9. IsState(db)
  <2>1. db.logbooks \subseteq Logbooks /\ db.members \subseteq Memberships
    BY <1>5, <1>7, <1>8, TableParts
  <2>2. QED
    BY ONLY <1>5, <1>8, <2>1, TableParts
<1>10. ~lost => Complete(db, n.users)
  <2>1. ~lost => Complete(old, n.users)
    BY DEF Whole
  <2>2. QED
    BY ONLY <1>1, <1>3, <1>5, <1>db, <2>1, CreatedIsComplete
<1>11. Counted
  <2>1. n.users <= n.users
    BY <1>4
  <2>2. QED
    BY <1>1, <1>4, <2>1, SaveFaults, Bounds DEF Counted
<1>12. QED
  BY <1>1, <1>4, <1>8, <1>9, <1>10, <1>11 DEF Completely, Stored

\* What a new account starts from.
LEMMA NextAccount ==
  ASSUME IInv, TypeOK, issued.users < MaxAccounts, NEW a, a = issued.users + 1
  PROVE  /\ a \in 1 .. MaxAccounts /\ a \in Accounts /\ issued.users \in Nat
         /\ DOMAIN memory.users \subseteq 1 .. issued.users /\ a \notin DOMAIN memory.users
<1> PICK n : n = issued
  OBVIOUS
<1>1. n.users \in Nat /\ a \in 1 .. MaxAccounts
  BY Bounds DEF BoundedCounts
<1>2. DOMAIN memory.users \subseteq 1 .. n.users
  BY DEF IInv, Sound, TablesOK, Rows
<1>3. a \notin DOMAIN memory.users
  BY <1>1, <1>2
<1>4. QED
  BY <1>1, <1>2, <1>3 DEF Accounts

LEMMA BootstrapWhole ==
  ASSUME IInv, TypeOK, Whole, NEW email \in Emails, Bootstrap(email)
  PROVE  Completely
<1>1. CASE issued' = issued /\ Save(memory)
  <2>1. DOMAIN memory = Fields /\ IsState(memory) /\ Routine(memory, memory)
    BY MemoryTables, AlikeIsRoutine
  <2>2. Routinely
    BY <1>1, <2>1, QuietSave DEF Bootstrap
  <2>3. QED
    BY <2>2, RoutineIsWhole
<1>2. CASE MayBootstrap(memory) /\ issued.users < MaxAccounts /\ CanIssueSession
  <2> PICK n : n = issued
    OBVIOUS
  <2>a. PICK a : a = n.users + 1
    OBVIOUS
  <2>drawn. PICK drawn : drawn = [n EXCEPT !.users = a]
    OBVIOUS
  <2>b. PICK b : b = [owner |-> a, nth |-> 0]
    OBVIOUS
  <2>m. PICK m : m = [user |-> a, logbook |-> b, role |-> "Owner"]
    OBVIOUS
  <2>user. PICK user : user = [email |-> email, verified |-> TRUE, deleted |-> FALSE]
    OBVIOUS
  <2>made. PICK made : made = WithDefaultLogbook(WithAccount(memory, a, email, TRUE), a)
    OBVIOUS
  <2>base. PICK base : base = [made EXCEPT !.admins = @ \cup {a}, !.config.bootstrapped = TRUE]
    OBVIOUS
  <2>db. PICK db : db = WithSession(base, a)
    OBVIOUS
  <2>1. issued' = DrawnWithSession(drawn) /\ Save(db)
    BY <1>2, <2>a, <2>drawn, <2>made, <2>base, <2>db DEF Bootstrap
  <2>2. /\ a \in 1 .. MaxAccounts /\ a \in Accounts /\ n.users \in Nat
        /\ DOMAIN memory.users \subseteq 1 .. n.users /\ a \notin DOMAIN memory.users
    BY <1>2, <2>a, NextAccount
  <2>3. DOMAIN memory.users = {} /\ memory.admins = {}
    BY <1>2 DEF MayBootstrap
  <2>4. issued' \in BoundedCounts /\ issued'.users = a
    <3>1. n \in BoundedCounts /\ n.sessions < MaxSessions /\ n.devices < MaxDevices
      BY <1>2, Bounds DEF CanIssueSession
    <3>2. n.sessions + 1 \in 0 .. MaxSessions /\ n.devices + 1 \in 0 .. MaxDevices /\ a \in 0 .. MaxAccounts
      BY <2>2, <3>1, Bounds DEF BoundedCounts
    <3>3. issued' = [n EXCEPT !.users = a, !.sessions = n.sessions + 1, !.devices = n.devices + 1]
      BY <2>1, <2>drawn, <3>1 DEF DrawnWithSession, BoundedCounts
    <3>4. QED
      BY <3>1, <3>2, <3>3 DEF BoundedCounts
  <2>5. DOMAIN memory = Fields /\ IsState(memory)
    BY MemoryTables
  <2>6. /\ DOMAIN made = Fields /\ made.users = Put(memory.users, a, user)
        /\ made.logbooks = memory.logbooks \cup {b} /\ made.members = memory.members \cup {m}
        /\ made.admins = memory.admins /\ made.sessions = memory.sessions
        /\ made.devices = memory.devices /\ made.invites = memory.invites
        /\ made.verifications = memory.verifications /\ made.recoveries = memory.recoveries
        /\ made.config = memory.config
    BY <2>5, <2>b, <2>m, <2>user, <2>made DEF WithDefaultLogbook, WithLogbook, WithAccount, Fields
  <2>7. /\ DOMAIN base = Fields /\ base.users = made.users /\ base.logbooks = made.logbooks
        /\ base.members = made.members /\ base.admins = {a} /\ base.sessions = memory.sessions
        /\ base.devices = memory.devices /\ base.invites = memory.invites
        /\ base.verifications = memory.verifications /\ base.recoveries = memory.recoveries
        /\ base.config = [memory.config EXCEPT !.bootstrapped = TRUE]
    BY <2>3, <2>6, <2>base DEF Fields
  <2>8. user \in UserRows /\ b \in Logbooks /\ m \in Memberships
    <3>1. 0 \in 0 .. MaxLogbooks
      BY Bounds
    <3>2. QED
      BY <2>2, <2>b, <2>m, <2>user, <3>1 DEF UserRows, Memberships, Logbooks
  <2>9. IsState(base)
    <3>1. IsTable(base.users, MaxAccounts, UserRows)
      BY <2>2, <2>6, <2>7, <2>8, MemoryTables, PutRow
    <3>2. base.config \in [mode : Modes, bootstrapped : BOOLEAN]
      BY <2>5, <2>7, TableParts
    <3>3. /\ base.members \subseteq Memberships /\ base.logbooks \subseteq Logbooks
          /\ base.admins \subseteq Accounts
      BY <2>2, <2>5, <2>6, <2>7, <2>8, TableParts
    <3>4. QED
      BY ONLY <2>5, <2>7, <3>1, <3>2, <3>3, TableParts
  <2>10. /\ DOMAIN db = Fields /\ IsState(db)
         /\ db.users = base.users /\ db.admins = base.admins /\ db.members = base.members
         /\ db.logbooks = base.logbooks /\ db.invites = base.invites
         /\ db.verifications = base.verifications
    BY <1>2, <2>2, <2>7, <2>9, <2>db, SignInTables
  <2>11. DOMAIN db.users = {a} /\ db.users[a] = user
    BY <2>3, <2>6, <2>7, <2>10 DEF Put
  <2>12. ~lost => GrantsMade(db, a)
    <3> SUFFICES ASSUME ~lost PROVE GrantsMade(db, a)
      OBVIOUS
    <3>1. GrantsMade(memory, n.users)
      BY DEF Whole, Complete
    <3>2. Owned(m) /\ m.user = a /\ db.logbooks = memory.logbooks \cup {m.logbook}
      BY <2>6, <2>7, <2>10, <2>b, <2>m DEF Owned
    <3>3. \A i \in DOMAIN memory.invites : db.invites[i] = memory.invites[i]
      BY <2>7, <2>10
    <3>4. /\ db.members = memory.members \cup {m}
          /\ DOMAIN db.invites = DOMAIN memory.invites /\ db.admins = {a}
          /\ DOMAIN db.users = DOMAIN memory.users \cup {a}
      BY <2>3, <2>6, <2>7, <2>10, <2>11
    <3>5. PICK old : old = memory
      OBVIOUS
    <3>6. GrantsMade(old, n.users) /\ DOMAIN old.users = {}
      BY <2>3, <3>1, <3>5
    <3>7. /\ db.members = old.members \cup {m} /\ db.logbooks = old.logbooks \cup {m.logbook}
          /\ DOMAIN db.invites = DOMAIN old.invites
          /\ DOMAIN db.users = DOMAIN old.users \cup {a}
          /\ \A i \in DOMAIN old.invites : db.invites[i] = old.invites[i]
      BY <3>2, <3>3, <3>4, <3>5
    <3>8. Granted(old, db, a, m)
      BY ONLY <3>2, <3>4, <3>6, <3>7 DEF Granted
    <3>9. QED
      BY ONLY <2>2, <2>8, <2>a, <3>6, <3>8, NewGrant
  <2>13. Verifiable(db)
    BY <2>11, <2>user DEF Verifiable
  <2>14. Counted
    <3>1. n.users <= a
      BY <2>2, <2>a
    <3>2. QED
      BY <2>1, <2>4, <3>1, SaveFaults, Bounds DEF Counted, Bootstrap
  <2>15. QED
    BY <2>1, <2>4, <2>10, <2>12, <2>13, <2>14 DEF Completely, Stored, Complete
<1>3. QED
  BY <1>1, <1>2 DEF Bootstrap

\* The membership of a registration and the verification that is mailed.
LEMMA RegistrationWhole ==
  ASSUME IInv, TypeOK, Whole, NEW email \in Emails, ~EmailIsTaken(email),
         issued.users < MaxAccounts, NEW a, a = issued.users + 1,
         NEW user, user = [email |-> email, verified |-> FALSE, deleted |-> FALSE],
         NEW made, DOMAIN made = Fields, made.users = Put(memory.users, a, user),
         made.admins = memory.admins, made.sessions = memory.sessions,
         made.devices = memory.devices, made.recoveries = memory.recoveries,
         made.verifications = memory.verifications, made.config = memory.config,
         made.logbooks \subseteq Logbooks,
         NEW m \in Memberships, m.user = a, made.members = memory.members \cup {m},
         \/ made.logbooks = memory.logbooks /\ \E i \in DOMAIN made.invites : Invited(made, m, i)
         \/ made.logbooks = memory.logbooks \cup {m.logbook} /\ Owned(m),
         IsTable(made.invites, MaxInvites, BoundedInvites),
         DOMAIN made.invites = DOMAIN memory.invites,
         \A i \in DOMAIN memory.invites :
            /\ made.invites[i].email = memory.invites[i].email
            /\ made.invites[i].logbook = memory.invites[i].logbook
            /\ made.invites[i].role = memory.invites[i].role
            /\ memory.invites[i].accepted => made.invites[i].accepted
            /\ made.invites[i].accepted => memory.invites[i].accepted \/ Invited(made, m, i),
         FinishRegistration(a, made)
  PROVE  Completely
<1> PICK n : n = issued
  OBVIOUS
<1>row. PICK row : row = [used |-> FALSE]
  OBVIOUS
<1>token. PICK token : token = [for |-> "verify", id |-> a, sent |-> 0]
  OBVIOUS
<1>db. PICK db : db = [made EXCEPT !.verifications = Put(made.verifications, a, row)]
  OBVIOUS
<1>1. issued' = [n EXCEPT !.users = a] /\ SendMail(token, db) /\ expired' = expired
  BY <1>row, <1>token, <1>db DEF FinishRegistration
<1>2. /\ a \in 1 .. MaxAccounts /\ a \in Accounts /\ n.users \in Nat /\ a = n.users + 1
      /\ DOMAIN memory.users \subseteq 1 .. n.users /\ a \notin DOMAIN memory.users
  BY NextAccount
<1>3. issued' \in BoundedCounts /\ issued'.users = a /\ n.users <= a
  BY <1>1, <1>2, Bounds DEF BoundedCounts
<1>4. token \in Boxes
  BY <1>2, <1>token DEF Boxes
<1>5. /\ Save(db) \/ KeepInMemory(db)
      /\ mail \subseteq mail' /\ mail' \subseteq Boxes /\ faults' \in 0 .. MaxFaults
  BY <1>1, <1>4, MailFaults
<1>6. Counted
  BY <1>1, <1>2, <1>3, <1>5, Bounds DEF Counted
<1>7. /\ DOMAIN db = Fields /\ db.users = made.users /\ db.admins = made.admins
      /\ db.members = made.members /\ db.logbooks = made.logbooks /\ db.invites = made.invites
      /\ db.sessions = made.sessions /\ db.devices = made.devices
      /\ db.recoveries = made.recoveries /\ db.config = made.config
      /\ db.verifications = Put(made.verifications, a, row)
  BY <1>db DEF Fields
<1>8. row \in TokenRows /\ user \in UserRows
  BY <1>row DEF TokenRows, UserRows
<1>9. IsState(db)
  <2>1. IsTable(db.users, MaxAccounts, UserRows)
    BY <1>2, <1>7, <1>8, MemoryTables, PutRow
  <2>2. IsTable(db.verifications, MaxAccounts, TokenRows)
    BY <1>2, <1>7, <1>8, MemoryTables, PutRow
  <2>3. IsState(memory)
    BY MemoryTables
  <2>4. db.members \subseteq Memberships
    BY <1>7, <2>3, TableParts
  <2>5. /\ db.admins = memory.admins /\ db.sessions = memory.sessions /\ db.devices = memory.devices
        /\ db.recoveries = memory.recoveries /\ db.config = memory.config
        /\ db.logbooks \subseteq Logbooks /\ IsTable(db.invites, MaxInvites, BoundedInvites)
    BY <1>7
  <2>6. QED
    BY ONLY <2>1, <2>2, <2>3, <2>4, <2>5, TableParts
<1>10. /\ DOMAIN db.users = DOMAIN memory.users \cup {a} /\ db.users[a] = user
       /\ \A b \in DOMAIN memory.users : db.users[b] = memory.users[b]
  BY <1>2, <1>7 DEF Put
<1>11. ~lost => GrantsMade(db, a)
  <2> SUFFICES ASSUME ~lost PROVE GrantsMade(db, a)
    OBVIOUS
  <2>1. PICK old : old = memory
    OBVIOUS
  <2>2. GrantsMade(old, n.users) /\ DOMAIN old.users \subseteq 1 .. n.users
    BY <1>2, <2>1 DEF Whole, Complete
  <2>3. /\ DOMAIN db.users = DOMAIN old.users \cup {a}
        /\ \A b \in DOMAIN old.users : db.users[b].email = old.users[b].email
        /\ \A b \in DOMAIN old.users : db.users[a].email # old.users[b].email
    BY <1>10, <2>1 DEF EmailIsTaken
  <2>4. /\ m.user = a
        /\ \A i \in DOMAIN old.invites : Invited(made, m, i) => Invited(db, m, i)
        /\ \/ db.logbooks = old.logbooks /\ \E i \in DOMAIN db.invites : Invited(db, m, i)
           \/ db.logbooks = old.logbooks \cup {m.logbook} /\ Owned(m)
    <3>1. db.users = made.users /\ db.invites = made.invites /\ db.logbooks = made.logbooks
      BY <1>7
    <3>2. \A i : Invited(made, m, i) => Invited(db, m, i)
      BY ONLY <3>1 DEF Invited
    <3>3. /\ m.user = a
          /\ \/ made.logbooks = old.logbooks /\ \E i \in DOMAIN made.invites : Invited(made, m, i)
             \/ made.logbooks = old.logbooks \cup {m.logbook} /\ Owned(m)
      BY <2>1
    <3>4. QED
      BY ONLY <3>1, <3>2, <3>3
  <2>5. /\ db.members = old.members \cup {m}
        /\ DOMAIN db.invites = DOMAIN old.invites /\ db.admins = old.admins
    BY <1>7, <2>1
  <2>6. \A i \in DOMAIN old.invites :
            /\ db.invites[i].email = old.invites[i].email
            /\ db.invites[i].logbook = old.invites[i].logbook
            /\ db.invites[i].role = old.invites[i].role
            /\ old.invites[i].accepted => db.invites[i].accepted
            /\ db.invites[i].accepted => old.invites[i].accepted \/ Invited(db, m, i)
    BY <1>7, <2>1, <2>4
  <2>7. PICK drawn : drawn = n.users
    OBVIOUS
  <2>8. /\ drawn \in Nat /\ a = drawn + 1 /\ GrantsMade(old, drawn)
        /\ DOMAIN old.users \subseteq 1 .. drawn
    BY <1>2, <2>2, <2>7
  <2>9. Granted(old, db, a, m)
    BY ONLY <2>3, <2>4, <2>5, <2>6 DEF Granted
  <2>10. m \in Memberships
    OBVIOUS
  <2>11. QED
    BY ONLY <2>8, <2>9, <2>10, NewGrant
<1>12. ~lost => Verifiable(db)
  <2> SUFFICES ASSUME ~lost PROVE Verifiable(db)
    OBVIOUS
  <2>1. Verifiable(memory)
    BY DEF Whole, Complete
  <2>2. /\ DOMAIN db.verifications = DOMAIN memory.verifications \cup {a}
        /\ db.verifications[a] = row
        /\ \A v \in DOMAIN memory.verifications : v # a => db.verifications[v] = memory.verifications[v]
    BY <1>7 DEF Put
  <2>3. ~db.verifications[a].used
    BY <1>row, <2>2
  <2>4. QED
    BY <1>2, <1>10, <2>1, <2>2, <2>3 DEF Verifiable
<1>13. QED
  BY <1>3, <1>5, <1>6, <1>7, <1>9, <1>11, <1>12 DEF Completely, Stored, Complete

LEMMA RegisterWhole ==
  ASSUME IInv, TypeOK, Whole, NEW email \in Emails, Register(email)
  PROVE  Completely
<1>a. PICK a : a = issued.users + 1
  OBVIOUS
<1>user. PICK user : user = [email |-> email, verified |-> FALSE, deleted |-> FALSE]
  OBVIOUS
<1>account. PICK account : account = WithAccount(memory, a, email, FALSE)
  OBVIOUS
<1>1. ~EmailIsTaken(email) /\ issued.users < MaxAccounts
  BY DEF Register
<1>2. a \in 1 .. MaxAccounts /\ a \in Accounts /\ a \notin DOMAIN memory.users
  BY <1>1, <1>a, NextAccount
<1>3. /\ DOMAIN memory = Fields /\ IsState(memory)
      /\ IsTable(memory.invites, MaxInvites, BoundedInvites)
  BY MemoryTables
<1>4. memory.logbooks \subseteq Logbooks
  BY <1>3, TableParts
<1>5. /\ DOMAIN account = Fields /\ account.users = Put(memory.users, a, user)
      /\ account.admins = memory.admins /\ account.sessions = memory.sessions
      /\ account.devices = memory.devices /\ account.invites = memory.invites
      /\ account.verifications = memory.verifications /\ account.recoveries = memory.recoveries
      /\ account.members = memory.members /\ account.logbooks = memory.logbooks
      /\ account.config = memory.config
  BY <1>3, <1>user, <1>account DEF WithAccount, Fields
<1>6. account.users[a] = user
  BY <1>5 DEF Put
<1>7. ASSUME NEW i \in DOMAIN memory.invites, memory.invites[i].email = email,
             FinishRegistration(a, WithInvitedMember(account, a, i))
      PROVE  Completely
  <2>row. PICK row : row = [memory.invites[i] EXCEPT !.accepted = TRUE]
    OBVIOUS
  <2>table. PICK table : table = [memory.invites EXCEPT ![i] = row]
    OBVIOUS
  <2>m. PICK m : m = [user |-> a, logbook |-> memory.invites[i].logbook, role |-> memory.invites[i].role]
    OBVIOUS
  <2>made. PICK made : made = WithInvitedMember(account, a, i)
    OBVIOUS
  <2>1. memory.invites[i] \in BoundedInvites
    BY <1>3 DEF IsTable
  <2>2. /\ row \in BoundedInvites /\ row.accepted /\ row.email = email
        /\ row.logbook = memory.invites[i].logbook /\ row.role = memory.invites[i].role
    BY <1>7, <2>row, <2>1 DEF BoundedInvites
  <2>3. m \in Memberships /\ m.user = a
    BY <1>2, <2>m, <2>1 DEF Memberships, BoundedInvites
  <2>4. /\ DOMAIN made = Fields /\ made.users = account.users /\ made.invites = table
        /\ made.admins = memory.admins /\ made.sessions = memory.sessions
        /\ made.devices = memory.devices /\ made.recoveries = memory.recoveries
        /\ made.verifications = memory.verifications /\ made.config = memory.config
        /\ made.members = memory.members \cup {m} /\ made.logbooks = memory.logbooks
    BY <1>5, <2>row, <2>table, <2>m, <2>made DEF WithInvitedMember, Fields
  <2>5. /\ DOMAIN table = DOMAIN memory.invites
        /\ \A k \in DOMAIN table : table[k] = IF k = i THEN row ELSE memory.invites[k]
    BY <2>table
  <2>6. IsTable(table, MaxInvites, BoundedInvites)
    BY <1>3, <2>2, <2>table, ChangedRow
  <2>7. Invited(made, m, i)
    BY <1>6, <1>user, <2>2, <2>3, <2>4, <2>5, <2>m DEF Invited
  <2>8. made.logbooks = memory.logbooks /\ \E k \in DOMAIN made.invites : Invited(made, m, k)
    BY <2>4, <2>5, <2>7
  <2>9. \A k \in DOMAIN memory.invites :
            /\ made.invites[k].email = memory.invites[k].email
            /\ made.invites[k].logbook = memory.invites[k].logbook
            /\ made.invites[k].role = memory.invites[k].role
            /\ memory.invites[k].accepted => made.invites[k].accepted
            /\ made.invites[k].accepted => memory.invites[k].accepted \/ Invited(made, m, k)
    BY <1>7, <2>2, <2>4, <2>5, <2>7
  <2>10. FinishRegistration(a, made) /\ made.users = Put(memory.users, a, user)
    BY <1>5, <1>7, <2>4, <2>made
  <2>11. made.logbooks \subseteq Logbooks
    BY <1>4, <2>4
  <2>12. IsTable(made.invites, MaxInvites, BoundedInvites) /\ DOMAIN made.invites = DOMAIN memory.invites
    BY <2>4, <2>5, <2>6
  <2>13. IInv /\ TypeOK /\ Whole
    OBVIOUS
  <2>14. QED
    BY ONLY <1>1, <1>a, <1>user, <2>3, <2>4, <2>8, <2>9, <2>10, <2>11, <2>12, <2>13, RegistrationWhole
<1>8. CASE FinishRegistration(a, WithDefaultLogbook(account, a))
  <2>b. PICK b : b = [owner |-> a, nth |-> 0]
    OBVIOUS
  <2>m. PICK m : m = [user |-> a, logbook |-> b, role |-> "Owner"]
    OBVIOUS
  <2>made. PICK made : made = WithDefaultLogbook(account, a)
    OBVIOUS
  <2>0. 0 \in 0 .. MaxLogbooks
    BY Bounds
  <2>1. m \in Memberships /\ m.user = a /\ b \in Logbooks
    BY <1>2, <2>0, <2>b, <2>m DEF Memberships, Logbooks
  <2>2. /\ DOMAIN made = Fields /\ made.users = account.users /\ made.invites = memory.invites
        /\ made.admins = memory.admins /\ made.sessions = memory.sessions
        /\ made.devices = memory.devices /\ made.recoveries = memory.recoveries
        /\ made.verifications = memory.verifications /\ made.config = memory.config
        /\ made.members = memory.members \cup {m} /\ made.logbooks = memory.logbooks \cup {b}
    BY <1>5, <2>b, <2>m, <2>made DEF WithDefaultLogbook, WithLogbook, Fields
  <2>3. made.logbooks = memory.logbooks \cup {m.logbook} /\ Owned(m)
    BY <2>2, <2>b, <2>m DEF Owned
  <2>4. \A k \in DOMAIN memory.invites :
            /\ made.invites[k].email = memory.invites[k].email
            /\ made.invites[k].logbook = memory.invites[k].logbook
            /\ made.invites[k].role = memory.invites[k].role
            /\ memory.invites[k].accepted => made.invites[k].accepted
            /\ made.invites[k].accepted => memory.invites[k].accepted \/ Invited(made, m, k)
    BY <2>2
  <2>5. FinishRegistration(a, made) /\ made.users = Put(memory.users, a, user)
    BY <1>5, <1>8, <2>2, <2>made
  <2>6. made.logbooks \subseteq Logbooks
    BY <1>4, <2>1, <2>2
  <2>7. IsTable(made.invites, MaxInvites, BoundedInvites) /\ DOMAIN made.invites = DOMAIN memory.invites
    BY <1>3, <2>2
  <2>8. IInv /\ TypeOK /\ Whole
    OBVIOUS
  <2>9. QED
    BY ONLY <1>1, <1>a, <1>user, <2>1, <2>2, <2>3, <2>4, <2>5, <2>6, <2>7, <2>8, RegistrationWhole
<1>9. QED
  BY <1>7, <1>8, <1>a, <1>account DEF Register, Admits

-----------------------------------------------------------------------------
(***************************************************************************)
(* The theorems about grants and types.                                    *)
(***************************************************************************)

LEMMA GrantsStart ==
  ASSUME Init
  PROVE  TypeOK /\ Whole
<1> PICK blank : blank = Blank
  OBVIOUS
<1>1. /\ blank.config \in [mode : Modes, bootstrapped : BOOLEAN]
      /\ blank.admins = {} /\ blank.logbooks = {} /\ blank.members = {}
      /\ blank.users = <<>> /\ blank.sessions = <<>> /\ blank.devices = <<>> /\ blank.invites = <<>>
      /\ blank.verifications = <<>> /\ blank.recoveries = <<>>
  BY ModesAssumption DEF Blank
<1>2. \A n, rows : IsTable(<<>>, n, rows)
  BY DEF IsTable
<1>3. IsState(blank)
  BY ONLY <1>1, <1>2, TableParts
<1>4. memory = blank /\ disk = blank
  BY DEF Init
<1>5. TypeOK
  <2>1. /\ MaxFaults \in Nat /\ MaxAccounts \in Nat /\ MaxSessions \in Nat /\ MaxDevices \in Nat
        /\ MaxInvites \in Nat /\ MaxRecoveries \in Nat /\ MaxLogbooks \in Nat
    BY BoundsAssumption
  <2>2. issued \in BoundedCounts
    BY <2>1 DEF Init, BoundedCounts
  <2>3. faults = 0 /\ mail = {} /\ expired = {}
    BY DEF Init
  <2>4. lost \in BOOLEAN
    BY DEF Init
  <2>5. faults \in 0 .. MaxFaults
    BY <2>1, <2>3
  <2>6. QED
    BY <1>3, <1>4, <2>2, <2>3, <2>4, <2>5 DEF TypeOK, BoundedCounts
<1>6. \A drawn : Complete(blank, drawn)
  BY <1>1 DEF Complete, GrantsMade, LogbooksOwned, Verifiable
<1>7. QED
  BY <1>4, <1>5, <1>6 DEF Whole

LEMMA CompletelyIsKept ==
  ASSUME IInv, TypeOK, Whole, Completely
  PROVE  TypeOK' /\ Whole'
<1>1. PICK db : Stored(db) /\ (~lost => Complete(db, issued'.users))
  BY DEF Completely
<1>2. Counted
  BY DEF Completely
<1>3. Whole' /\ lost' \in BOOLEAN
  <2>1. issued.users \in Nat /\ issued'.users \in Nat /\ lost \in BOOLEAN
    BY <1>2, Bounds DEF Counted, BoundedCounts
  <2>2. QED
    BY <1>1, <1>2, <2>1, SaveKeepsWhole DEF Stored, Counted
<1>4. IsState(memory') /\ IsState(disk')
  <2>1. DOMAIN disk = Fields
    BY DEF IInv, Sound
  <2>2. QED
    BY <1>1, <2>1, Bounds, SaveKeepsTypes DEF Stored
<1>5. QED
  BY <1>2, <1>3, <1>4 DEF TypeOK, Counted, BoundedCounts, Boxes

LEMMA GrantsKeep ==
  ASSUME IInv, TypeOK, Whole, [Next]_vars
  PROVE  TypeOK' /\ Whole'
<1>1. CASE UNCHANGED vars
  BY <1>1 DEF vars, TypeOK, Whole
<1>2. ASSUME NEW e \in Emails, Bootstrap(e) \/ Register(e) \/ StartRecovery(e) \/ Login(e)
      PROVE  Completely
  BY <1>2, BootstrapWhole, RegisterWhole, StartRecoveryTables, LoginTables, RoutineIsWhole
<1>3. ASSUME NEW t \in mail, VerifyEmail(t) \/ CompleteRecovery(t)
      PROVE  Completely
  BY <1>3, VerifyEmailTables, CompleteRecoveryTables, RoutineIsWhole
<1>4. ASSUME NEW s \in 1 .. issued.sessions,
             \/ Logout(s) \/ LogoutAll(s) \/ RotateSession(s) \/ DeleteAccount(s)
             \/ RegisterDevice(s) \/ RevokeAllDevices(s) \/ CreateLogbook(s)
             \/ \E d \in 1 .. issued.devices : RevokeDevice(s, d)
             \/ \E mode \in Modes : PatchHosting(s, mode)
      PROVE  Completely
  BY <1>4, LogoutTables, LogoutAllTables, RotateSessionTables, DeleteAccountTables, RegisterDeviceTables,
     RevokeAllDevicesTables, RevokeDeviceTables, PatchHostingTables, RoutineIsWhole, CreateLogbookWhole
<1>5. ASSUME NEW s \in 1 .. issued.sessions,
             \/ \E e \in Emails, b \in memory.logbooks \cap Logbooks, role \in Roles : CreateInvitation(s, e, b, role)
             \/ \E i \in 1 .. issued.invites :
                  \/ ResendInvitation(s, i) \/ RevokeInvitation(s, i)
                  \/ \E over \in BOOLEAN : ExpireInvitation(s, i, over)
      PROVE  Completely
  <2>1. 1 .. issued.invites \subseteq Nat
    BY Bounds DEF BoundedCounts
  <2>2. QED
    BY <1>5, <2>1, CreateInvitationTables, ResendInvitationTables, RevokeInvitationTables,
       ExpireInvitationTables, RoutineIsWhole
<1>6. CASE Restart
  <2>1. /\ memory' = disk /\ disk' = disk /\ mail' = mail /\ issued' = issued /\ expired' = expired
        /\ lost' = lost /\ faults' = faults
    BY <1>6 DEF Restart, load
  <2>2. QED
    BY <2>1 DEF TypeOK, Whole
<1>7. ASSUME NEW t \in mail, TokenExpires(t)
      PROVE  TypeOK' /\ Whole'
  <2>1. UNCHANGED <<memory, disk, mail, issued, settled, lost, faults>> /\ expired' = expired \cup {t}
    BY <1>7 DEF TokenExpires
  <2>2. QED
    BY <1>7, <2>1 DEF TypeOK, Whole
<1>8. CASE Next
  BY <1>2, <1>3, <1>4, <1>5, <1>6, <1>7, <1>8, CompletelyIsKept DEF Next
<1>9. QED
  BY <1>1, <1>8

(* While no rows are lost, memory and store are complete: memberships,      *)
(* accepted invitations and mailed verifications belong to their accounts.  *)
(* (register, bootstrap_admin, verify_email, and every save.)               *)
THEOREM GrantsInvariant == Spec => [](TypeOK /\ Whole)
<1>1. Init => TypeOK /\ Whole
  BY GrantsStart
<1>2. IInv /\ TypeOK /\ Whole /\ [Next]_vars => (TypeOK /\ Whole)'
  BY GrantsKeep
<1>3. QED
  BY <1>1, <1>2, AccountsInvariant, PTL DEF Spec

(* The tables in memory and in the store keep their types, also after a     *)
(* save that stopped between two of them.  (persist_metadata, load.)        *)
THEOREM AccountTypes == Spec => []TypeOK
BY GrantsInvariant, PTL

(* Unless rows were lost, every account has the one membership that its     *)
(* registration gave it and owns what it created, every logbook has its     *)
(* owner among its members, an invitation lets in one account, and only the *)
(* first account of all is an administrator.  (register, bootstrap_admin,   *)
(* create_logbook.)                                                         *)
THEOREM GrantsWereMade == Spec => []EveryGrantWasMade
<1>1. Whole => EveryGrantWasMade
  BY GrantsCounted DEF Whole, Complete, EveryGrantWasMade
<1>2. QED
  BY <1>1, GrantsInvariant, PTL

(* Unless rows were lost, the token that an account without verification    *)
(* was mailed verifies it for as long as the token lives.  (register,       *)
(* create_email_verification, verify_email.)                                *)
THEOREM MailedTokensVerify == Spec => []MailedTokenVerifies
<1>1. Whole => MailedTokenVerifies
  BY DEF Whole, Complete, Verifiable, MailedTokenVerifies
<1>2. QED
  BY <1>1, GrantsInvariant, PTL
=============================================================================
