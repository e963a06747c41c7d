----------------------- MODULE HostedWorkspaceProofs -----------------------
(***************************************************************************)
(* Theorems about a hosted logbook and its server: stations, equipment and *)
(* backups (HostedProfiles), uploads to a provider (HostedUploads), and    *)
(* the credential store that server and desktop open (CredentialStore),    *)
(* for any number of accounts, records, processes and failing saves.       *)
(***************************************************************************)
EXTENDS MCHostedWorkspace, FiniteSetTheorems, TLAPS

-----------------------------------------------------------------------------
(***************************************************************************)
(* The stations and the equipment.                                         *)
(***************************************************************************)

-----------------------------------------------------------------------------
(***************************************************************************)
(* The inductive invariant.                                                *)
(***************************************************************************)

Fields == {"members", "stations", "equipment"}

StationRows == [by : Owners, default : BOOLEAN]
EquipmentRows == [by : Owners, station : Nat, retired : BOOLEAN]

\* Tables of known identifiers.
StationsOK(table, n) == DOMAIN table \subseteq 1 .. n /\ \A s \in DOMAIN table : table[s] \in StationRows
EquipmentOK(table, n) == DOMAIN table \subseteq 1 .. n /\ \A e \in DOMAIN table : table[e] \in EquipmentRows

\* One default at most.
Unique(table) == \A s, t \in DOMAIN table : table[s].default /\ table[t].default => s = t

\* A station that both tables know has one owner.
SameOwners(one, other) == \A s \in DOMAIN one \cap DOMAIN other : one[s].by = other[s].by

\* Every assignment is to a station of the same owner.
Resolves(stations, equipment) ==
    \A e \in DOMAIN equipment :
        equipment[e].station = NoStation \/ Holds(equipment[e].by, stations, equipment[e].station)

\* The server, its store and the backups.
Copies == {profiles, savedProfiles} \cup profileFiles

Shape ==
    /\ drawn \in [stations : Nat, equipment : Nat]
    /\ \A X \in {profiles, savedProfiles} : DOMAIN X = Fields /\ X.members \subseteq Owners
    /\ \A X \in Copies : StationsOK(X.stations, drawn.stations) /\ EquipmentOK(X.equipment, drawn.equipment)
    /\ \A backup \in profileFiles : backup.by \in Owners
    /\ {imported, takenOver, halfSaved} \subseteq BOOLEAN

Defaulted == imported \/ \A X \in {profiles, savedProfiles} : Unique(X.stations)

Owned ==
    takenOver \/
        /\ \A X, Y \in Copies : SameOwners(X.stations, Y.stations)
        /\ \A backup \in profileFiles : \A s \in DOMAIN backup.stations : backup.stations[s].by = backup.by

Resolved == takenOver \/ halfSaved \/ \A X \in Copies : Resolves(X.stations, X.equipment)

IInv == Shape /\ Defaulted /\ Owned /\ Resolved

-----------------------------------------------------------------------------
(***************************************************************************)
(* Tables.                                                                 *)
(***************************************************************************)

LEMMA EmptyTables ==
  ASSUME NEW n \in Nat
  PROVE  /\ StationsOK(<<>>, n) /\ EquipmentOK(<<>>, n) /\ Unique(<<>>)
         /\ \A table : SameOwners(<<>>, table) /\ SameOwners(table, <<>>)
  BY DEF StationsOK, EquipmentOK, Unique, SameOwners

\* A save leaves, table by table, what it was to store, what was stored
\* before, or nothing; and one of the two states as a whole, unless it stopped.
LEMMA SaveLeaves ==
  ASSUME NEW db, SaveProfiles(db), DOMAIN savedProfiles = Fields, DOMAIN db = Fields,
         savedProfiles.members \subseteq Owners, db.members \subseteq Owners, halfSaved \in BOOLEAN
  PROVE  /\ \A X \in {profiles', savedProfiles'} :
              /\ DOMAIN X = Fields /\ X.members \subseteq Owners
              /\ X.stations \in {db.stations, savedProfiles.stations, <<>>}
              /\ X.equipment \in {db.equipment, savedProfiles.equipment, <<>>}
              /\ halfSaved' \/ X \in {db, savedProfiles}
         /\ halfSaved' \in BOOLEAN /\ (halfSaved => halfSaved')
<1>1. CASE savedProfiles' \in StoppedSaves(ProfileOrder, NoProfiles, savedProfiles, db)
           /\ profiles' = savedProfiles'
           /\ halfSaved' = (halfSaved \/ savedProfiles' \notin {savedProfiles, db})
  <2>1. PICK X : X = savedProfiles'
    OBVIOUS
  <2>2. /\ DOMAIN X = Fields
        /\ \A t \in Fields : X[t] \in {db[t], savedProfiles[t], NoProfiles[t]}
    <3>1. X \in StoppedDeleting(ProfileOrder, NoProfiles, savedProfiles)
          \/ X \in StoppedWriting(ProfileOrder, NoProfiles, savedProfiles, db)
      BY <1>1, <2>1 DEF StoppedSaves
    <3>2. CASE X \in StoppedDeleting(ProfileOrder, NoProfiles, savedProfiles)
      <4>1. PICK done : X = [t \in DOMAIN savedProfiles |->
                               IF ProfileOrder[t] <= done THEN NoProfiles[t] ELSE savedProfiles[t]]
        BY <3>2 DEF StoppedDeleting
      <4>2. QED
        BY <4>1
    <3>3. CASE X \in StoppedWriting(ProfileOrder, NoProfiles, savedProfiles, db)
      <4>1. PICK done : X = [t \in DOMAIN savedProfiles |->
                               IF ProfileOrder[t] <= done THEN db[t] ELSE NoProfiles[t]]
        BY <3>3 DEF StoppedWriting
      <4>2. QED
        BY <4>1
    <3>4. QED
      BY <3>1, <3>2, <3>3
  <2>3. NoProfiles.members = {} /\ NoProfiles.stations = <<>> /\ NoProfiles.equipment = <<>>
    BY DEF NoProfiles
  <2>4. /\ X.members \in {db.members, savedProfiles.members, {}}
        /\ X.stations \in {db.stations, savedProfiles.stations, <<>>}
        /\ X.equipment \in {db.equipment, savedProfiles.equipment, <<>>}
    BY <2>2, <2>3 DEF Fields
  <2>5. QED
    BY <1>1, <2>1, <2>2, <2>4
<1>2. CASE profiles' = db /\ savedProfiles' \in {savedProfiles, db} /\ halfSaved' = halfSaved
  BY <1>2
<1>3. QED
  BY <1>1, <1>2 DEF SaveProfiles

-----------------------------------------------------------------------------
(***************************************************************************)
(* What every request has in common.                                       *)
(***************************************************************************)

\* A backup holds what its account has in the server.
Exported(backup) ==
    /\ backup.by \in Owners
    /\ backup.stations = OwnedBy(backup.by, profiles.stations)
    /\ backup.equipment = OwnedBy(backup.by, profiles.equipment)

\* The state a request is to save agrees with what is kept elsewhere.
Agrees(db) ==
    /\ DOMAIN db = Fields /\ db.members \subseteq Owners
    /\ StationsOK(db.stations, drawn'.stations) /\ EquipmentOK(db.equipment, drawn'.equipment)
    /\ imported' \/ Unique(db.stations)
    /\ takenOver' \/ \A X \in Copies : SameOwners(db.stations, X.stations)
    /\ takenOver' \/ halfSaved \/ Resolves(db.stations, db.equipment)

Grows ==
    /\ drawn' \in [stations : Nat, equipment : Nat]
    /\ drawn.stations <= drawn'.stations /\ drawn.equipment <= drawn'.equipment
    /\ {imported', takenOver'} \subseteq BOOLEAN
    /\ (imported => imported') /\ (takenOver => takenOver')
    /\ \A backup \in profileFiles' \ profileFiles : Exported(backup)

LEMMA LargerTables ==
  ASSUME NEW n \in Nat, NEW m \in Nat, n <= m, NEW table
  PROVE  /\ StationsOK(table, n) => StationsOK(table, m)
         /\ EquipmentOK(table, n) => EquipmentOK(table, m)
  BY DEF StationsOK, EquipmentOK

LEMMA OwnersAreSymmetric ==
  ASSUME NEW one, NEW other, SameOwners(one, other)
  PROVE  SameOwners(other, one)
  BY DEF SameOwners

\* Of one account, stations and equipment agree as all of them do.
LEMMA ExportedAgrees ==
  ASSUME IInv, NEW backup, Exported(backup), NEW n, NEW m,
         StationsOK(profiles.stations, n), EquipmentOK(profiles.equipment, m)
  PROVE  /\ StationsOK(backup.stations, n) /\ EquipmentOK(backup.equipment, m)
         /\ \A table : SameOwners(profiles.stations, table) => SameOwners(backup.stations, table)
         /\ \A s \in DOMAIN backup.stations : backup.stations[s].by = backup.by
         /\ Resolves(profiles.stations, profiles.equipment) => Resolves(backup.stations, backup.equipment)
<1>1. /\ DOMAIN backup.stations = {s \in DOMAIN profiles.stations : profiles.stations[s].by = backup.by}
      /\ \A s \in DOMAIN backup.stations : backup.stations[s] = profiles.stations[s]
      /\ DOMAIN backup.equipment = {e \in DOMAIN profiles.equipment : profiles.equipment[e].by = backup.by}
      /\ \A e \in DOMAIN backup.equipment : backup.equipment[e] = profiles.equipment[e]
  BY DEF Exported, OwnedBy
<1>2. QED
  BY <1>1 DEF StationsOK, EquipmentOK, SameOwners, Resolves, Holds

\* Saving a state that agrees keeps the invariant, however the save ends.
LEMMA SaveStep ==
  ASSUME IInv, NEW db, Agrees(db), Grows, SaveProfiles(db)
  PROVE  IInv'
<1>1. /\ \A X \in {profiles', savedProfiles'} :
           /\ DOMAIN X = Fields /\ X.members \subseteq Owners
           /\ X.stations \in {db.stations, savedProfiles.stations, <<>>}
           /\ X.equipment \in {db.equipment, savedProfiles.equipment, <<>>}
           /\ halfSaved' \/ X \in {db, savedProfiles}
      /\ halfSaved' \in BOOLEAN /\ (halfSaved => halfSaved')
  BY SaveLeaves DEF IInv, Shape, Agrees
<1>2. /\ drawn.stations \in Nat /\ drawn.equipment \in Nat
      /\ drawn'.stations \in Nat /\ drawn'.equipment \in Nat
      /\ drawn.stations <= drawn'.stations /\ drawn.equipment <= drawn'.equipment
  BY DEF IInv, Shape, Grows
<1>3. \A X \in Copies : /\ StationsOK(X.stations, drawn'.stations)
                        /\ EquipmentOK(X.equipment, drawn'.equipment)
  <2>1. \A X \in Copies : StationsOK(X.stations, drawn.stations) /\ EquipmentOK(X.equipment, drawn.equipment)
    BY DEF IInv, Shape
  <2>2. QED
    BY <1>2, <2>1, LargerTables
<1>4. {profiles, savedProfiles} \subseteq Copies
  BY DEF Copies
<1>5. \A backup \in profileFiles' \ profileFiles :
         /\ backup.by \in Owners
         /\ StationsOK(backup.stations, drawn'.stations) /\ EquipmentOK(backup.equipment, drawn'.equipment)
         /\ \A table : SameOwners(profiles.stations, table) => SameOwners(backup.stations, table)
         /\ \A s \in DOMAIN backup.stations : backup.stations[s].by = backup.by
         /\ Resolves(profiles.stations, profiles.equipment) => Resolves(backup.stations, backup.equipment)
  <2> TAKE backup \in profileFiles' \ profileFiles
  <2>1. Exported(backup)
    BY DEF Grows
  <2>2. backup.by \in Owners
    BY <2>1 DEF Exported
  <2>3. QED
    BY <1>3, <1>4, <2>1, <2>2, ExportedAgrees
<1>6. Shape'
  <2>1. \A X \in {profiles', savedProfiles'} : /\ StationsOK(X.stations, drawn'.stations)
                                              /\ EquipmentOK(X.equipment, drawn'.equipment)
    BY <1>1, <1>2, <1>3, <1>4, EmptyTables DEF Agrees
  <2>2. \A backup \in profileFiles' : /\ backup.by \in Owners
                                    /\ StationsOK(backup.stations, drawn'.stations)
                                    /\ EquipmentOK(backup.equipment, drawn'.equipment)
    BY <1>3, <1>5 DEF Copies, IInv, Shape
  <2>3. \A X \in Copies' : StationsOK(X.stations, drawn'.stations) /\ EquipmentOK(X.equipment, drawn'.equipment)
    BY <2>1, <2>2 DEF Copies
  <2>4. {imported', takenOver', halfSaved'} \subseteq BOOLEAN /\ drawn' \in [stations : Nat, equipment : Nat]
    BY <1>1 DEF Grows
  <2>5. \A X \in {profiles', savedProfiles'} : DOMAIN X = Fields /\ X.members \subseteq Owners
    BY <1>1
  <2>6. QED
    BY <2>2, <2>3, <2>4, <2>5 DEF Shape, StationsOK, EquipmentOK
<1>7. Defaulted'
  <2>1. CASE imported'
    BY <2>1 DEF Defaulted
  <2>2. CASE ~imported'
    <3>1. Unique(db.stations) /\ Unique(savedProfiles.stations) /\ Unique(<<>>)
      BY <1>2, <2>2, EmptyTables DEF Agrees, Grows, IInv, Defaulted
    <3>2. \A X \in {profiles', savedProfiles'} : Unique(X.stations)
      BY <1>1, <3>1
    <3>3. QED
      BY <3>2 DEF Defaulted
  <2>3. QED
    BY <2>1, <2>2
<1>8. Owned'
  <2>1. CASE takenOver'
    BY <2>1 DEF Owned
  <2>2. CASE ~takenOver'
    <3>1. /\ \A X, Y \in Copies : SameOwners(X.stations, Y.stations)
          /\ \A X \in Copies : SameOwners(db.stations, X.stations)
          /\ \A backup \in profileFiles : \A s \in DOMAIN backup.stations : backup.stations[s].by = backup.by
      BY <2>2 DEF Agrees, Grows, IInv, Owned
    <3>2. SameOwners(db.stations, db.stations)
      BY DEF SameOwners
    <3> DEFINE KnownTables == {db.stations, <<>>} \cup {X.stations : X \in Copies}
    <3>3. \A one, other \in KnownTables : SameOwners(one, other)
      BY <1>2, <3>1, <3>2, EmptyTables, OwnersAreSymmetric
    <3>4. profiles.stations \in KnownTables /\ savedProfiles.stations \in KnownTables
      BY <1>4
    <3> HIDE DEF KnownTables
    <3>5. \A backup \in profileFiles' \ profileFiles, table \in KnownTables : SameOwners(backup.stations, table)
      BY <1>5, <3>3, <3>4
    <3>6. \A backup, another \in profileFiles' \ profileFiles : SameOwners(backup.stations, another.stations)
      BY <1>5, <3>4, <3>5, OwnersAreSymmetric
    <3>7. \A X \in Copies' : X.stations \in KnownTables \/ X \in profileFiles' \ profileFiles
      <4>1. \A X \in {profiles', savedProfiles'} : X.stations \in KnownTables
        BY <1>1, <3>4 DEF KnownTables
      <4>2. \A X \in profileFiles : X.stations \in KnownTables
        BY DEF KnownTables, Copies
      <4>3. QED
        BY <4>1, <4>2 DEF Copies
    <3>8. \A X, Y \in Copies' : SameOwners(X.stations, Y.stations)
      BY <3>3, <3>5, <3>6, <3>7, OwnersAreSymmetric
    <3>9. \A backup \in profileFiles' : \A s \in DOMAIN backup.stations : backup.stations[s].by = backup.by
      BY <1>5, <3>1
    <3>10. QED
      BY <3>8, <3>9 DEF Owned, SameOwners
  <2>3. QED
    BY <2>1, <2>2
<1>9. Resolved'
  <2>1. CASE takenOver' \/ halfSaved'
    BY <2>1 DEF Resolved
  <2>2. CASE ~(takenOver' \/ halfSaved')
    <3>1. ~takenOver' /\ ~takenOver /\ ~halfSaved' /\ ~halfSaved
      BY <1>1, <2>2 DEF Grows
    <3>2. \A X \in Copies : Resolves(X.stations, X.equipment)
      BY <3>1 DEF IInv, Resolved
    <3>3. Resolves(db.stations, db.equipment)
      BY <3>1 DEF Agrees
    <3>4. \A X \in {profiles', savedProfiles'} : Resolves(X.stations, X.equipment)
      BY <1>1, <1>4, <3>1, <3>2, <3>3
    <3>5. \A backup \in profileFiles' : Resolves(backup.stations, backup.equipment)
      BY <1>4, <1>5, <3>2 DEF Copies
    <3>6. \A X \in Copies' : Resolves(X.stations, X.equipment)
      BY <3>4, <3>5 DEF Copies
    <3>7. QED
      BY <3>6 DEF Resolved, Resolves, Holds
  <2>3. QED
    BY <2>1, <2>2
<1>10. QED
  BY <1>6, <1>7, <1>8, <1>9 DEF IInv

-----------------------------------------------------------------------------
(***************************************************************************)
(* The requests.                                                           *)
(***************************************************************************)

LEMMA KnownTables ==
  ASSUME IInv
  PROVE  /\ drawn \in [stations : Nat, equipment : Nat]
         /\ DOMAIN profiles = Fields /\ profiles.members \subseteq Owners
         /\ StationsOK(profiles.stations, drawn.stations)
         /\ EquipmentOK(profiles.equipment, drawn.equipment)
         /\ {imported, takenOver, halfSaved} \subseteq BOOLEAN
         /\ profiles \in Copies
         /\ \A X \in Copies : DOMAIN X.stations \subseteq 1 .. drawn.stations
         /\ imported \/ Unique(profiles.stations)
         /\ takenOver \/ \A X \in Copies : SameOwners(profiles.stations, X.stations)
         /\ takenOver \/ halfSaved \/ Resolves(profiles.stations, profiles.equipment)
  BY DEF IInv, Shape, Defaulted, Owned, Resolved, Copies, StationsOK

\* Choosing a default changes nothing else.
LEMMA ChosenDefault ==
  ASSUME NEW n, NEW table, NEW chosen, NEW now, now = OnlyDefault(table, chosen), StationsOK(table, n)
  PROVE  /\ StationsOK(now, n) /\ Unique(now)
         /\ DOMAIN now = DOMAIN table
         /\ \A s \in DOMAIN table : now[s].by = table[s].by
<1>1. DOMAIN now = DOMAIN table
  BY DEF OnlyDefault
<1>2. \A s \in DOMAIN table : /\ now[s] \in StationRows
                             /\ now[s].by = table[s].by /\ now[s].default = (s = chosen)
  <2> TAKE s \in DOMAIN table
  <2>1. PICK first \in BOOLEAN : first = (s = chosen)
    OBVIOUS
  <2>2. now[s] = [table[s] EXCEPT !.default = first]
    BY <2>1 DEF OnlyDefault
  <2>3. table[s] \in StationRows
    BY DEF StationsOK
  <2>4. QED
    BY <2>1, <2>2, <2>3 DEF StationRows
<1>3. QED
  BY <1>1, <1>2 DEF StationsOK, Unique

\* A change of stations that keeps their owners keeps assignments.
LEMMA OwnersKept ==
  ASSUME NEW old, NEW new, DOMAIN old \subseteq DOMAIN new,
         \A s \in DOMAIN old : new[s].by = old[s].by
  PROVE  /\ \A equipment : Resolves(old, equipment) => Resolves(new, equipment)
         /\ DOMAIN new = DOMAIN old => \A other : SameOwners(old, other) => SameOwners(new, other)
  BY DEF Resolves, Holds, SameOwners

LEMMA CreateStationStep ==
  ASSUME IInv, NEW a \in Owners, NEW active \in BOOLEAN, CreateStation(a, active)
  PROVE  IInv'
<1>1. PICK s, row, more, chosen, table, db :
        /\ s = drawn.stations + 1
        /\ row = [by |-> a, default |-> FALSE]
        /\ more = Insert(profiles.stations, s, row)
        /\ chosen = (active \/ profiles.stations = <<>>)
        /\ table = IF chosen THEN OnlyDefault(more, s) ELSE more
        /\ db = [profiles EXCEPT !.stations = table]
  OBVIOUS
<1>2. /\ SaveProfiles(db) /\ drawn' = [drawn EXCEPT !.stations = s]
      /\ UNCHANGED <<profileFiles, imported, takenOver>>
  BY <1>1 DEF CreateStation
<1>3. /\ drawn.stations \in Nat /\ drawn.equipment \in Nat /\ s \in Nat
      /\ drawn'.stations = s /\ drawn'.equipment = drawn.equipment
      /\ drawn' \in [stations : Nat, equipment : Nat]
      /\ \A k \in 1 .. drawn.stations : k \in 1 .. s /\ k # s
      /\ s \in 1 .. s
  BY <1>1, <1>2, KnownTables
<1>4. /\ DOMAIN db = Fields /\ db.members = profiles.members
      /\ db.stations = table /\ db.equipment = profiles.equipment
  BY <1>1, KnownTables DEF Fields
<1>5. row \in StationRows /\ row.by = a /\ row.default = FALSE
  BY <1>1 DEF StationRows
<1>6. /\ DOMAIN more = DOMAIN profiles.stations \cup {s} /\ more[s] = row
      /\ \A k \in DOMAIN profiles.stations : k # s /\ more[k] = profiles.stations[k]
  BY <1>1, <1>3, KnownTables DEF Insert
<1>7. StationsOK(more, s)
  BY <1>3, <1>5, <1>6, KnownTables DEF StationsOK
<1>8. /\ StationsOK(table, s) /\ DOMAIN table = DOMAIN more
      /\ \A k \in DOMAIN more : table[k].by = more[k].by
  <2>1. CASE chosen
    <3>1. table = OnlyDefault(more, s)
      BY <1>1, <2>1
    <3>2. QED
      BY <1>7, <3>1, ChosenDefault
  <2>2. CASE ~chosen
    BY <1>1, <1>7, <2>2
  <2>3. QED
    BY <2>1, <2>2
<1>9. imported \/ Unique(table)
  <2>1. CASE chosen
    <3>1. table = OnlyDefault(more, s)
      BY <1>1, <2>1
    <3>2. QED
      BY <1>7, <3>1, ChosenDefault
  <2>2. CASE ~chosen
    <3>1. table = more
      BY <1>1, <2>2
    <3>2. Unique(profiles.stations) => Unique(more)
      BY <1>5, <1>6 DEF Unique
    <3>3. QED
      BY <3>1, <3>2, KnownTables
  <2>3. QED
    BY <2>1, <2>2
<1>10. takenOver \/ \A X \in Copies : SameOwners(table, X.stations)
  <2> SUFFICES ASSUME ~takenOver, NEW X \in Copies PROVE SameOwners(table, X.stations)
    OBVIOUS
  <2>1. SameOwners(profiles.stations, X.stations) /\ s \notin DOMAIN X.stations
    BY <1>3, KnownTables
  <2>2. QED
    BY <1>6, <1>8, <2>1 DEF SameOwners
<1>11. Resolves(profiles.stations, profiles.equipment) => Resolves(table, profiles.equipment)
  BY <1>6, <1>8, OwnersKept
<1>12. Agrees(db)
  BY <1>2, <1>3, <1>4, <1>8, <1>9, <1>10, <1>11, KnownTables DEF Agrees
<1>13. Grows
  BY <1>1, <1>2, <1>3, KnownTables DEF Grows
<1>14. QED
  BY <1>2, <1>12, <1>13, SaveStep

\* Requests on what is there, by the account it belongs to.
LEMMA SetDefaultStep ==
  ASSUME IInv, NEW a \in Owners, NEW s \in DOMAIN profiles.stations, SetDefaultStation(a, s)
  PROVE  IInv'
<1>1. PICK table, db : /\ table = OnlyDefault(profiles.stations, s)
                       /\ db = [profiles EXCEPT !.stations = table]
  OBVIOUS
<1>2. SaveProfiles(db) /\ UNCHANGED <<profileFiles, drawn, imported, takenOver>>
  BY <1>1 DEF SetDefaultStation
<1>3. /\ DOMAIN db = Fields /\ db.members = profiles.members
      /\ db.stations = table /\ db.equipment = profiles.equipment
  BY <1>1, KnownTables DEF Fields
<1>4. /\ StationsOK(table, drawn.stations) /\ Unique(table)
      /\ DOMAIN table = DOMAIN profiles.stations
      /\ \A k \in DOMAIN profiles.stations : table[k].by = profiles.stations[k].by
  <2>1. table = OnlyDefault(profiles.stations, s) /\ StationsOK(profiles.stations, drawn.stations)
    BY <1>1, KnownTables
  <2>2. QED
    BY <2>1, ChosenDefault
<1>5. /\ \A other : SameOwners(profiles.stations, other) => SameOwners(table, other)
      /\ Resolves(profiles.stations, profiles.equipment) => Resolves(table, profiles.equipment)
  BY <1>4, OwnersKept
<1>6. Agrees(db)
  BY <1>2, <1>3, <1>4, <1>5, KnownTables DEF Agrees
<1>7. Grows
  BY <1>2, KnownTables DEF Grows
<1>8. QED
  BY <1>2, <1>6, <1>7, SaveStep

LEMMA ArchiveStationStep ==
  ASSUME IInv, NEW a \in Owners, NEW s \in DOMAIN profiles.stations, ArchiveStation(a, s)
  PROVE  IInv'
<1>1. PICK table, db : /\ table = [profiles.stations EXCEPT ![s].default = FALSE]
                       /\ db = [profiles EXCEPT !.stations = table]
  OBVIOUS
<1>2. SaveProfiles(db) /\ UNCHANGED <<profileFiles, drawn, imported, takenOver>>
  <2>1. db = [profiles EXCEPT !.stations[s].default = FALSE]
    BY <1>1
  <2>2. QED
    BY <2>1 DEF ArchiveStation
<1>3. /\ DOMAIN db = Fields /\ db.members = profiles.members
      /\ db.stations = table /\ db.equipment = profiles.equipment
  BY <1>1, KnownTables DEF Fields
<1>4. /\ DOMAIN table = DOMAIN profiles.stations
      /\ \A k \in DOMAIN profiles.stations : k # s => table[k] = profiles.stations[k]
      /\ table[s] = [profiles.stations[s] EXCEPT !.default = FALSE]
  BY <1>1
<1>5. table[s] \in StationRows /\ table[s].by = profiles.stations[s].by /\ table[s].default = FALSE
  <2>1. profiles.stations[s] \in StationRows
    BY KnownTables DEF StationsOK
  <2>2. QED
    BY <1>4, <2>1 DEF StationRows
<1>6. /\ StationsOK(table, drawn.stations) /\ (Unique(profiles.stations) => Unique(table))
      /\ \A k \in DOMAIN profiles.stations : table[k].by = profiles.stations[k].by
  BY <1>4, <1>5, KnownTables DEF StationsOK, Unique
<1>7. /\ \A other : SameOwners(profiles.stations, other) => SameOwners(table, other)
      /\ Resolves(profiles.stations, profiles.equipment) => Resolves(table, profiles.equipment)
  BY <1>4, <1>6, OwnersKept
<1>8. Agrees(db)
  BY <1>2, <1>3, <1>6, <1>7, KnownTables DEF Agrees
<1>9. Grows
  BY <1>2, KnownTables DEF Grows
<1>10. QED
  BY <1>2, <1>8, <1>9, SaveStep

Replaces(table, e, row) ==
    /\ DOMAIN table = DOMAIN profiles.equipment \cup {e} /\ table[e] = row
    /\ \A k \in DOMAIN profiles.equipment : k # e => table[k] = profiles.equipment[k]

\* A change of one piece of equipment to a row whose assignment resolves.
LEMMA EquipmentStep ==
  ASSUME IInv, NEW e, NEW row, NEW table, NEW db,
         row \in EquipmentRows, db = [profiles EXCEPT !.equipment = table],
         Replaces(table, e, row),
         \/ e \in DOMAIN profiles.equipment /\ drawn' = drawn
         \/ e = drawn.equipment + 1 /\ drawn' = [drawn EXCEPT !.equipment = e],
         \/ takenOver \/ halfSaved
         \/ row.station = NoStation \/ Holds(row.by, profiles.stations, row.station),
         SaveProfiles(db), profileFiles' = profileFiles, imported' = imported, takenOver' = takenOver
  PROVE  IInv'
<1>1. /\ DOMAIN db = Fields /\ db.members = profiles.members
      /\ db.stations = profiles.stations /\ db.equipment = table
  BY KnownTables DEF Fields
<1>2. /\ drawn.stations \in Nat /\ drawn.equipment \in Nat
      /\ drawn' \in [stations : Nat, equipment : Nat] /\ drawn'.stations = drawn.stations
      /\ drawn.equipment <= drawn'.equipment
      /\ e \in 1 .. drawn'.equipment
  BY KnownTables DEF EquipmentOK
<1>3. EquipmentOK(table, drawn'.equipment)
  BY <1>2, KnownTables DEF EquipmentOK, Replaces
<1>4. takenOver \/ halfSaved \/ Resolves(profiles.stations, table)
  BY KnownTables DEF Resolves, Replaces
<1>5. Agrees(db)
  BY <1>1, <1>2, <1>3, <1>4, KnownTables DEF Agrees
<1>6. Grows
  BY <1>2, KnownTables DEF Grows
<1>7. QED
  BY <1>5, <1>6, SaveStep

LEMMA CreateEquipmentStep ==
  ASSUME IInv, NEW a \in Owners, NEW station \in {NoStation} \cup DOMAIN profiles.stations,
         CreateEquipment(a, station)
  PROVE  IInv'
<1>1. PICK e, row, table, db :
        /\ e = drawn.equipment + 1
        /\ row = [by |-> a, station |-> station, retired |-> FALSE]
        /\ table = Insert(profiles.equipment, e, row)
        /\ db = [profiles EXCEPT !.equipment = table]
  OBVIOUS
<1>2. /\ SaveProfiles(db) /\ drawn' = [drawn EXCEPT !.equipment = e] /\ MayAssign(a, station)
      /\ UNCHANGED <<profileFiles, imported, takenOver>>
  BY <1>1 DEF CreateEquipment
<1>3. station \in Nat
  BY KnownTables DEF StationsOK, NoStation
<1>4. row \in EquipmentRows /\ row.by = a /\ row.station = station
  BY <1>1, <1>3 DEF EquipmentRows
<1>5. Replaces(table, e, row)
  BY <1>1 DEF Insert, Replaces
<1>6. row.station = NoStation \/ Holds(row.by, profiles.stations, row.station)
  BY <1>2, <1>4 DEF MayAssign
<1>7. db = [profiles EXCEPT !.equipment = table] /\ row \in EquipmentRows
  BY <1>1, <1>4
<1>8. e = drawn.equipment + 1 /\ drawn' = [drawn EXCEPT !.equipment = e]
  BY <1>1, <1>2
<1>9. profileFiles' = profileFiles /\ imported' = imported /\ takenOver' = takenOver
  BY <1>2
<1>10. SaveProfiles(db)
  BY <1>2
<1>11. QED
  BY <1>5, <1>6, <1>7, <1>8, <1>9, <1>10, EquipmentStep

LEMMA PatchEquipmentStep ==
  ASSUME IInv, NEW a \in Owners, NEW station \in {NoStation} \cup DOMAIN profiles.stations,
         NEW e \in DOMAIN profiles.equipment, NEW retired \in BOOLEAN,
         PatchEquipment(a, e, station, retired)
  PROVE  IInv'
<1>1. PICK assigned, row, table, db :
        /\ assigned = IF station = NoStation THEN profiles.equipment[e].station ELSE station
        /\ row = [profiles.equipment[e] EXCEPT !.station = assigned, !.retired = retired]
        /\ table = [profiles.equipment EXCEPT ![e] = row]
        /\ db = [profiles EXCEPT !.equipment = table]
  OBVIOUS
<1>2. /\ SaveProfiles(db) /\ MayAssign(a, assigned) /\ Holds(a, profiles.equipment, e)
      /\ UNCHANGED <<profileFiles, drawn, imported, takenOver>>
  <2>1. db = [profiles EXCEPT !.equipment[e] = [@ EXCEPT !.station = assigned, !.retired = retired]]
    BY <1>1
  <2>2. QED
    BY <1>1, <2>1 DEF PatchEquipment
<1>3. profiles.equipment[e] \in EquipmentRows /\ assigned \in Nat
  BY <1>1, KnownTables DEF StationsOK, EquipmentOK, EquipmentRows
<1>4. row \in EquipmentRows /\ row.by = a /\ row.station = assigned
  BY <1>1, <1>2, <1>3 DEF EquipmentRows, Holds
<1>5. Replaces(table, e, row)
  BY <1>1 DEF Replaces
<1>6. row.station = NoStation \/ Holds(row.by, profiles.stations, row.station)
  BY <1>2, <1>4 DEF MayAssign
<1>7. db = [profiles EXCEPT !.equipment = table] /\ row \in EquipmentRows
  BY <1>1, <1>4
<1>8. e \in DOMAIN profiles.equipment /\ drawn' = drawn
  BY <1>1, <1>2
<1>9. profileFiles' = profileFiles /\ imported' = imported /\ takenOver' = takenOver
  BY <1>2
<1>10. SaveProfiles(db)
  BY <1>2
<1>11. QED
  BY <1>5, <1>6, <1>7, <1>8, <1>9, <1>10, EquipmentStep

LEMMA ArchiveEquipmentStep ==
  ASSUME IInv, NEW a \in Owners, NEW e \in DOMAIN profiles.equipment, ArchiveEquipment(a, e)
  PROVE  IInv'
<1>1. PICK row, table, db :
        /\ row = [profiles.equipment[e] EXCEPT !.retired = TRUE]
        /\ table = [profiles.equipment EXCEPT ![e] = row]
        /\ db = [profiles EXCEPT !.equipment = table]
  OBVIOUS
<1>2. SaveProfiles(db) /\ UNCHANGED <<profileFiles, drawn, imported, takenOver>>
  <2>1. db = [profiles EXCEPT !.equipment[e].retired = TRUE]
    BY <1>1
  <2>2. QED
    BY <2>1 DEF ArchiveEquipment
<1>3. profiles.equipment[e] \in EquipmentRows
  BY KnownTables DEF EquipmentOK
<1>4. row \in EquipmentRows /\ row.by = profiles.equipment[e].by /\ row.station = profiles.equipment[e].station
  BY <1>1, <1>3 DEF EquipmentRows
<1>5. Replaces(table, e, row)
  BY <1>1 DEF Replaces
<1>6. takenOver \/ halfSaved \/ row.station = NoStation \/ Holds(row.by, profiles.stations, row.station)
  BY <1>4, KnownTables DEF Resolves
<1>7. db = [profiles EXCEPT !.equipment = table] /\ row \in EquipmentRows
  BY <1>1, <1>4
<1>8. e \in DOMAIN profiles.equipment /\ drawn' = drawn
  BY <1>1, <1>2
<1>9. profileFiles' = profileFiles /\ imported' = imported /\ takenOver' = takenOver
  BY <1>2
<1>10. SaveProfiles(db)
  BY <1>2
<1>11. QED
  BY <1>5, <1>6, <1>7, <1>8, <1>9, <1>10, EquipmentStep

LEMMA ExportStep ==
  ASSUME IInv, NEW a \in Owners, ExportProfiles(a)
  PROVE  IInv'
<1>1. PICK backup : backup = [by |-> a, stations |-> OwnedBy(a, profiles.stations),
                         equipment |-> OwnedBy(a, profiles.equipment)]
  OBVIOUS
<1>2. /\ profileFiles' = profileFiles \cup {backup} /\ SaveProfiles(profiles)
      /\ UNCHANGED <<drawn, imported, takenOver>>
  BY <1>1 DEF ExportProfiles
<1>3. PICK db : db = profiles
  OBVIOUS
<1>4. Agrees(db)
  BY <1>2, <1>3, KnownTables DEF Agrees
<1>5. Grows
  <2>1. Exported(backup)
    BY <1>1 DEF Exported
  <2>2. QED
    BY <1>2, <2>1, KnownTables DEF Grows
<1>6. SaveProfiles(db)
  BY <1>2, <1>3
<1>7. QED
  BY <1>4, <1>5, <1>6, SaveStep

\* What an account exported itself only brings back what it owned.
LEMMA ImportStep ==
  ASSUME IInv, NEW a \in Owners, NEW backup \in profileFiles, ImportProfiles(a, backup)
  PROVE  IInv'
<1>1. PICK stations, equipment, db :
        /\ stations = Merge(profiles.stations, HandedTo(a, backup.stations))
        /\ equipment = Merge(profiles.equipment, HandedTo(a, backup.equipment))
        /\ db = [profiles EXCEPT !.stations = stations, !.equipment = equipment]
  OBVIOUS
<1>2. /\ SaveProfiles(db) /\ imported' = TRUE /\ takenOver' = (takenOver \/ backup.by # a)
      /\ profileFiles' = profileFiles /\ drawn' = drawn
  <2>1. db = [profiles EXCEPT
            !.stations = Merge(@, HandedTo(a, backup.stations)),
            !.equipment = Merge(@, HandedTo(a, backup.equipment))]
    BY <1>1, KnownTables
  <2>2. QED
    BY <2>1 DEF ImportProfiles
<1>3. /\ DOMAIN db = Fields /\ db.members = profiles.members
      /\ db.stations = stations /\ db.equipment = equipment
  BY <1>1, KnownTables DEF Fields
<1>4. /\ backup \in Copies
      /\ StationsOK(backup.stations, drawn.stations) /\ EquipmentOK(backup.equipment, drawn.equipment)
  BY DEF Copies, IInv, Shape
<1>5. /\ DOMAIN stations = DOMAIN profiles.stations \cup DOMAIN backup.stations
      /\ \A s \in DOMAIN backup.stations : /\ stations[s] \in StationRows /\ stations[s].by = a
      /\ \A s \in DOMAIN stations \ DOMAIN backup.stations : stations[s] = profiles.stations[s]
  <2>1. PICK rows : rows = HandedTo(a, backup.stations)
    OBVIOUS
  <2>2. DOMAIN rows = DOMAIN backup.stations
        /\ \A s \in DOMAIN rows : rows[s] = [backup.stations[s] EXCEPT !.by = a]
    BY <2>1 DEF HandedTo
  <2>3. \A s \in DOMAIN rows : rows[s] \in StationRows /\ rows[s].by = a
    BY <1>4, <2>2 DEF StationsOK, StationRows
  <2>4. /\ DOMAIN stations = DOMAIN profiles.stations \cup DOMAIN rows
        /\ \A s \in DOMAIN stations : stations[s] = IF s \in DOMAIN rows THEN rows[s] ELSE profiles.stations[s]
    BY <1>1, <2>1 DEF Merge
  <2>5. QED
    BY <2>2, <2>3, <2>4
<1>6. /\ DOMAIN equipment = DOMAIN profiles.equipment \cup DOMAIN backup.equipment
      /\ \A e \in DOMAIN backup.equipment : /\ equipment[e] \in EquipmentRows /\ equipment[e].by = a
                                         /\ equipment[e].station = backup.equipment[e].station
      /\ \A e \in DOMAIN equipment \ DOMAIN backup.equipment : equipment[e] = profiles.equipment[e]
  <2>1. PICK rows : rows = HandedTo(a, backup.equipment)
    OBVIOUS
  <2>2. DOMAIN rows = DOMAIN backup.equipment
        /\ \A e \in DOMAIN rows : rows[e] = [backup.equipment[e] EXCEPT !.by = a]
    BY <2>1 DEF HandedTo
  <2>3. \A e \in DOMAIN rows : /\ rows[e] \in EquipmentRows /\ rows[e].by = a
                              /\ rows[e].station = backup.equipment[e].station
    BY <1>4, <2>2 DEF EquipmentOK, EquipmentRows
  <2>4. /\ DOMAIN equipment = DOMAIN profiles.equipment \cup DOMAIN rows
        /\ \A e \in DOMAIN equipment : equipment[e] = IF e \in DOMAIN rows THEN rows[e] ELSE profiles.equipment[e]
    BY <1>1, <2>1 DEF Merge
  <2>5. QED
    BY <2>2, <2>3, <2>4
<1>7. StationsOK(stations, drawn.stations) /\ EquipmentOK(equipment, drawn.equipment)
  BY <1>4, <1>5, <1>6, KnownTables DEF StationsOK, EquipmentOK
<1>8. takenOver' \/ /\ \A X \in Copies : SameOwners(stations, X.stations)
                    /\ \A s \in DOMAIN profiles.stations : stations[s].by = profiles.stations[s].by
                    /\ \A s \in DOMAIN backup.stations : backup.stations[s].by = a
  <2> SUFFICES ASSUME ~takenOver'
               PROVE  /\ \A X \in Copies : SameOwners(stations, X.stations)
                      /\ \A s \in DOMAIN profiles.stations : stations[s].by = profiles.stations[s].by
                      /\ \A s \in DOMAIN backup.stations : backup.stations[s].by = a
    OBVIOUS
  <2>1. ~takenOver /\ backup.by = a
    BY <1>2
  <2>2. /\ \A X, Y \in Copies : SameOwners(X.stations, Y.stations)
        /\ \A s \in DOMAIN backup.stations : backup.stations[s].by = a
    BY <2>1 DEF IInv, Owned
  <2>3. \A X \in Copies : SameOwners(backup.stations, X.stations) /\ SameOwners(profiles.stations, X.stations)
    BY <1>4, <2>2, KnownTables
  <2>4. \A s \in DOMAIN profiles.stations : stations[s].by = profiles.stations[s].by
    BY <1>4, <1>5, <2>2, <2>3, KnownTables DEF SameOwners
  <2>5. \A X \in Copies : SameOwners(stations, X.stations)
    BY <1>5, <2>2, <2>3 DEF SameOwners
  <2>6. QED
    BY <2>2, <2>4, <2>5
<1>9. takenOver' \/ halfSaved \/ Resolves(stations, equipment)
  <2> SUFFICES ASSUME ~takenOver', ~halfSaved, NEW e \in DOMAIN equipment,
                      equipment[e].station # NoStation
               PROVE  Holds(equipment[e].by, stations, equipment[e].station)
    BY DEF Resolves
  <2>1. ~takenOver
    BY <1>2
  <2>2. Resolves(profiles.stations, profiles.equipment) /\ Resolves(backup.stations, backup.equipment)
    BY <1>4, <2>1, KnownTables DEF IInv, Resolved
  <2>3. CASE e \in DOMAIN backup.equipment
    <3>1. equipment[e].station \in DOMAIN backup.stations
      BY <1>6, <2>2, <2>3 DEF Resolves, Holds
    <3>2. QED
      BY <1>5, <1>6, <2>3, <3>1 DEF Holds
  <2>4. CASE e \notin DOMAIN backup.equipment
    <3>1. e \in DOMAIN profiles.equipment /\ equipment[e] = profiles.equipment[e]
      BY <1>6, <2>4
    <3>2. Holds(equipment[e].by, profiles.stations, equipment[e].station)
      BY <2>2, <3>1 DEF Resolves
    <3>3. QED
      BY <1>5, <1>8, <3>2 DEF Holds
  <2>5. QED
    BY <2>3, <2>4
<1>10. Agrees(db)
  BY <1>2, <1>3, <1>7, <1>8, <1>9, KnownTables DEF Agrees
<1>11. Grows
  BY <1>2, KnownTables DEF Grows
<1>12. QED
  BY <1>2, <1>10, <1>11, SaveStep

LEMMA RestartStep ==
  ASSUME IInv, RestartProfiles
  PROVE  IInv'
<1>1. /\ profiles' = savedProfiles
      /\ UNCHANGED <<savedProfiles, profileFiles, drawn, imported, takenOver, halfSaved>>
  BY DEF RestartProfiles
<1>2. Copies' \subseteq Copies /\ profileFiles' = profileFiles
      /\ {profiles', savedProfiles'} \subseteq {profiles, savedProfiles}
  BY <1>1 DEF Copies
<1>3. Shape'
  BY <1>1, <1>2 DEF IInv, Shape, StationsOK, EquipmentOK
<1>4. Defaulted'
  BY <1>1, <1>2 DEF IInv, Defaulted
<1>5. Owned' /\ Resolved'
  BY <1>1, <1>2 DEF IInv, Owned, Resolved, SameOwners, Resolves, Holds
<1>6. QED
  BY <1>3, <1>4, <1>5 DEF IInv

-----------------------------------------------------------------------------
(***************************************************************************)
(* The theorems.                                                           *)
(***************************************************************************)

\* The inductive invariant holds in every behavior.
THEOREM ProfilesInvariant == ProfilesSpec => []IInv
<1>1. ProfilesInit => IInv
  <2> SUFFICES ASSUME ProfilesInit PROVE IInv
    OBVIOUS
  <2>1. /\ DOMAIN profiles = Fields /\ profiles.members = Owners
        /\ profiles.stations = <<>> /\ profiles.equipment = <<>>
        /\ Copies = {profiles} /\ savedProfiles = profiles /\ profileFiles = {}
        /\ drawn = [stations |-> 0, equipment |-> 0]
        /\ imported = FALSE /\ takenOver = FALSE /\ halfSaved = FALSE
    BY DEF ProfilesInit, NoProfiles, Fields, Copies
  <2>2. StationsOK(<<>>, 0) /\ EquipmentOK(<<>>, 0) /\ Unique(<<>>) /\ SameOwners(<<>>, <<>>)
    BY EmptyTables
  <2>3. Resolves(<<>>, <<>>)
    BY DEF Resolves
  <2>4. Shape
    BY <2>1, <2>2 DEF Shape
  <2>5. QED
    BY <2>1, <2>2, <2>3, <2>4 DEF IInv, Defaulted, Owned, Resolved
<1>2. IInv /\ [ProfilesNext]_profileVars => IInv'
  <2> SUFFICES ASSUME IInv, [ProfilesNext]_profileVars PROVE IInv'
    OBVIOUS
  <2>1. CASE UNCHANGED profileVars
    <3>1. UNCHANGED <<profiles, savedProfiles, profileFiles, drawn, imported, takenOver, halfSaved>>
      BY <2>1 DEF profileVars
    <3>2. Copies' = Copies
      BY <3>1 DEF Copies
    <3>3. QED
      BY <3>1, <3>2 DEF IInv, Shape, StationsOK, EquipmentOK, Defaulted, Owned, Resolved,
                        SameOwners, Resolves, Holds
  <2>2. ASSUME NEW a \in Owners, NEW active \in BOOLEAN, CreateStation(a, active) PROVE IInv'
    BY <2>2, CreateStationStep
  <2>3. ASSUME NEW a \in Owners, NEW s \in DOMAIN profiles.stations, SetDefaultStation(a, s) PROVE IInv'
    BY <2>3, SetDefaultStep
  <2>4. ASSUME NEW a \in Owners, NEW s \in DOMAIN profiles.stations, ArchiveStation(a, s) PROVE IInv'
    BY <2>4, ArchiveStationStep
  <2>5. ASSUME NEW a \in Owners, NEW station \in {NoStation} \cup DOMAIN profiles.stations,
               CreateEquipment(a, station)
        PROVE  IInv'
    BY <2>5, CreateEquipmentStep
  <2>6. ASSUME NEW a \in Owners, NEW station \in {NoStation} \cup DOMAIN profiles.stations,
               NEW e \in DOMAIN profiles.equipment, NEW retired \in BOOLEAN,
               PatchEquipment(a, e, station, retired)
        PROVE  IInv'
    BY <2>6, PatchEquipmentStep
  <2>7. ASSUME NEW a \in Owners, NEW e \in DOMAIN profiles.equipment, ArchiveEquipment(a, e) PROVE IInv'
    BY <2>7, ArchiveEquipmentStep
  <2>8. ASSUME NEW a \in Owners, ExportProfiles(a) PROVE IInv'
    BY <2>8, ExportStep
  <2>9. ASSUME NEW a \in Owners, NEW backup \in profileFiles, ImportProfiles(a, backup) PROVE IInv'
    BY <2>9, ImportStep
  <2>10. CASE RestartProfiles
    BY <2>10, RestartStep
  <2>11. QED
    BY <2>1, <2>2, <2>3, <2>4, <2>5, <2>6, <2>7, <2>8, <2>9, <2>10 DEF ProfilesNext
<1>3. QED
  BY <1>1, <1>2, PTL DEF ProfilesSpec

\* create_station_profile, set_default_station_profile and the others leave a
\* logbook with at most one default station, until a backup is imported.
THEOREM OneDefaultHolds == ProfilesSpec => []OneDefault
<1>1. IInv => OneDefault
  <2> SUFFICES ASSUME IInv, ~imported PROVE Cardinality(Defaults(profiles.stations)) <= 1
    BY DEF OneDefault
  <2>1. Unique(profiles.stations)
    BY KnownTables
  <2>2. CASE Defaults(profiles.stations) = {}
    BY <2>2, FS_EmptySet
  <2>3. CASE Defaults(profiles.stations) # {}
    <3>1. PICK s \in DOMAIN profiles.stations : Defaults(profiles.stations) = {s}
      BY <2>1, <2>3 DEF Unique, Defaults
    <3>2. QED
      BY <3>1, FS_Singleton
  <2>4. QED
    BY <2>2, <2>3
<1>2. QED
  BY <1>1, ProfilesInvariant, PTL

\* Equipment stays assigned to an existing station of its own account, as
\* validate_station_assignment asks for when the assignment is made.
THEOREM AssignmentsStay == ProfilesSpec => []AssignmentsResolve
<1>1. IInv => AssignmentsResolve
  BY KnownTables DEF AssignmentsResolve, Resolves
<1>2. QED
  BY <1>1, ProfilesInvariant, PTL

-----------------------------------------------------------------------------
(***************************************************************************)
(* Every assignment names a station that was created, wherever it is kept. *)
(***************************************************************************)

AssignedWithin(equipment, n) == \A e \in DOMAIN equipment : equipment[e].station \in 0 .. n

Assigned == \A X \in Copies : AssignedWithin(X.equipment, drawn.stations)

\* Saving a state with such assignments keeps them, however the save ends.
LEMMA AssignedSave ==
  ASSUME IInv, Assigned, NEW db, DOMAIN db = Fields, db.members \subseteq Owners,
         AssignedWithin(db.equipment, drawn'.stations), SaveProfiles(db),
         drawn'.stations \in Nat, drawn.stations <= drawn'.stations,
         \A backup \in profileFiles' \ profileFiles : Exported(backup)
  PROVE  Assigned'
<1>1. \A X \in {profiles', savedProfiles'} :
         X.equipment \in {db.equipment, savedProfiles.equipment, <<>>}
  BY SaveLeaves DEF IInv, Shape
<1>2. \A X \in Copies : AssignedWithin(X.equipment, drawn'.stations)
  <2>1. drawn.stations \in Nat
    BY DEF IInv, Shape
  <2>2. QED
    BY <2>1 DEF Assigned, AssignedWithin
<1>3. AssignedWithin(<<>>, drawn'.stations)
  BY DEF AssignedWithin
<1>4. \A X \in {profiles', savedProfiles'} : AssignedWithin(X.equipment, drawn'.stations)
  BY <1>1, <1>2, <1>3 DEF Copies
<1>5. ASSUME NEW backup \in profileFiles'
      PROVE  AssignedWithin(backup.equipment, drawn'.stations)
  <2>1. CASE backup \in profileFiles
    BY <1>2, <2>1 DEF Copies
  <2>2. CASE backup \notin profileFiles
    <3>1. backup.equipment = OwnedBy(backup.by, profiles.equipment)
      BY <2>2 DEF Exported
    <3>2. AssignedWithin(profiles.equipment, drawn'.stations)
      BY <1>2 DEF Copies
    <3>3. QED
      BY <3>1, <3>2 DEF OwnedBy, AssignedWithin
  <2>3. QED
    BY <2>1, <2>2
<1>6. QED
  BY <1>4, <1>5 DEF Assigned, Copies

\* Requests about stations leave the equipment alone.
LEMMA AssignedStations ==
  ASSUME IInv, Assigned, NEW a \in Owners,
         \/ \E active \in BOOLEAN : CreateStation(a, active)
         \/ \E s \in DOMAIN profiles.stations : SetDefaultStation(a, s) \/ ArchiveStation(a, s)
  PROVE  Assigned'
<1>1. PICK table : /\ SaveProfiles([profiles EXCEPT !.stations = table])
                   /\ drawn' = drawn \/ drawn' = [drawn EXCEPT !.stations = @ + 1]
                   /\ profileFiles' = profileFiles
  <2>1. ASSUME NEW active \in BOOLEAN, CreateStation(a, active)
        PROVE  \E table : /\ SaveProfiles([profiles EXCEPT !.stations = table])
                          /\ drawn' = drawn \/ drawn' = [drawn EXCEPT !.stations = @ + 1]
                          /\ profileFiles' = profileFiles
    BY <2>1 DEF CreateStation
  <2>2. ASSUME NEW s \in DOMAIN profiles.stations, SetDefaultStation(a, s)
        PROVE  \E table : /\ SaveProfiles([profiles EXCEPT !.stations = table])
                          /\ drawn' = drawn \/ drawn' = [drawn EXCEPT !.stations = @ + 1]
                          /\ profileFiles' = profileFiles
    BY <2>2 DEF SetDefaultStation
  <2>3. ASSUME NEW s \in DOMAIN profiles.stations, ArchiveStation(a, s)
        PROVE  \E table : /\ SaveProfiles([profiles EXCEPT !.stations = table])
                          /\ drawn' = drawn \/ drawn' = [drawn EXCEPT !.stations = @ + 1]
                          /\ profileFiles' = profileFiles
    <3>1. PICK table : table = [profiles.stations EXCEPT ![s].default = FALSE]
      OBVIOUS
    <3>2. [profiles EXCEPT !.stations = table] = [profiles EXCEPT !.stations[s].default = FALSE]
      BY <3>1
    <3>3. SaveProfiles([profiles EXCEPT !.stations = table])
      BY <2>3, <3>2 DEF ArchiveStation
    <3>4. QED
      BY <2>3, <3>3 DEF ArchiveStation
  <2>4. QED
    BY <2>1, <2>2, <2>3
<1>2. PICK db : db = [profiles EXCEPT !.stations = table]
  OBVIOUS
<1>3. DOMAIN db = Fields /\ db.members \subseteq Owners /\ db.equipment = profiles.equipment
  BY <1>2, KnownTables DEF Fields
<1>4. drawn.stations \in Nat /\ drawn'.stations \in Nat /\ drawn.stations <= drawn'.stations
  BY <1>1, KnownTables
<1>5. AssignedWithin(db.equipment, drawn'.stations)
  BY <1>3, <1>4 DEF Assigned, AssignedWithin, Copies
<1>6. SaveProfiles(db)
  BY <1>1, <1>2
<1>7. \A backup \in profileFiles' \ profileFiles : Exported(backup)
  BY <1>1
<1>8. QED
  BY <1>3, <1>4, <1>5, <1>6, <1>7, AssignedSave

\* A piece of equipment is stored with an assignment that was checked or kept.
LEMMA AssignedEquipment ==
  ASSUME IInv, Assigned, NEW e, NEW row, NEW table, NEW db,
         db = [profiles EXCEPT !.equipment = table], Replaces(table, e, row),
         row.station \in 0 .. drawn.stations, SaveProfiles(db),
         drawn'.stations = drawn.stations, profileFiles' = profileFiles
  PROVE  Assigned'
<1>1. DOMAIN db = Fields /\ db.members \subseteq Owners /\ db.equipment = table
  BY KnownTables DEF Fields
<1>2. drawn.stations \in Nat /\ profiles \in Copies
  BY KnownTables
<1>3. AssignedWithin(table, drawn.stations)
  BY <1>2 DEF Assigned, AssignedWithin, Replaces
<1>4. /\ drawn'.stations \in Nat /\ drawn.stations <= drawn'.stations
      /\ AssignedWithin(db.equipment, drawn'.stations)
      /\ \A backup \in profileFiles' \ profileFiles : Exported(backup)
  BY <1>1, <1>2, <1>3
<1>5. QED
  BY <1>1, <1>4, AssignedSave

LEMMA AssignmentsAreKnown ==
  ASSUME IInv, Assigned, NEW station \in {NoStation} \cup DOMAIN profiles.stations
  PROVE  /\ station \in 0 .. drawn.stations
         /\ \A e \in DOMAIN profiles.equipment :
              /\ profiles.equipment[e] \in EquipmentRows
              /\ profiles.equipment[e].station \in 0 .. drawn.stations
<1>1. profiles \in Copies /\ drawn.stations \in Nat /\ DOMAIN profiles.stations \subseteq 1 .. drawn.stations
  BY KnownTables
<1>2. QED
  BY <1>1, KnownTables DEF Assigned, AssignedWithin, EquipmentOK, NoStation

LEMMA AssignedRequests ==
  ASSUME IInv, Assigned, NEW a \in Owners,
         \/ \E station \in {NoStation} \cup DOMAIN profiles.stations :
              \/ CreateEquipment(a, station)
              \/ \E e \in DOMAIN profiles.equipment, retired \in BOOLEAN :
                    PatchEquipment(a, e, station, retired)
         \/ \E e \in DOMAIN profiles.equipment : ArchiveEquipment(a, e)
  PROVE  Assigned'
<1>1. ASSUME NEW station \in {NoStation} \cup DOMAIN profiles.stations, CreateEquipment(a, station)
      PROVE  Assigned'
  <2>1. PICK e, row, table, db :
          /\ e = drawn.equipment + 1
          /\ row = [by |-> a, station |-> station, retired |-> FALSE]
          /\ table = Insert(profiles.equipment, e, row)
          /\ db = [profiles EXCEPT !.equipment = table]
    OBVIOUS
  <2>2. SaveProfiles(db) /\ drawn' = [drawn EXCEPT !.equipment = e] /\ profileFiles' = profileFiles
    BY <1>1, <2>1 DEF CreateEquipment
  <2>3. drawn'.stations = drawn.stations
    BY <2>2, KnownTables
  <2>4. Replaces(table, e, row)
    BY <2>1 DEF Insert, Replaces
  <2>5. row.station \in 0 .. drawn.stations
    BY <2>1, AssignmentsAreKnown
  <2>6. QED
    BY <2>1, <2>2, <2>3, <2>4, <2>5, AssignedEquipment
<1>2. ASSUME NEW station \in {NoStation} \cup DOMAIN profiles.stations,
             NEW e \in DOMAIN profiles.equipment, NEW retired \in BOOLEAN,
             PatchEquipment(a, e, station, retired)
      PROVE  Assigned'
  <2>1. PICK assigned, row, table, db :
          /\ assigned = IF station = NoStation THEN profiles.equipment[e].station ELSE station
          /\ row = [profiles.equipment[e] EXCEPT !.station = assigned, !.retired = retired]
          /\ table = [profiles.equipment EXCEPT ![e] = row]
          /\ db = [profiles EXCEPT !.equipment = table]
    OBVIOUS
  <2>2. SaveProfiles(db) /\ drawn' = drawn /\ profileFiles' = profileFiles
    <3>1. db = [profiles EXCEPT !.equipment[e] = [@ EXCEPT !.station = assigned, !.retired = retired]]
      BY <2>1
    <3>2. QED
      BY <1>2, <2>1, <3>1 DEF PatchEquipment
  <2>3. Replaces(table, e, row)
    BY <2>1 DEF Replaces
  <2>4. profiles.equipment[e] \in EquipmentRows /\ assigned \in 0 .. drawn.stations
    BY <2>1, AssignmentsAreKnown
  <2>5. row.station \in 0 .. drawn.stations
    BY <2>1, <2>4 DEF EquipmentRows
  <2>6. QED
    BY <2>1, <2>2, <2>3, <2>5, AssignedEquipment
<1>3. ASSUME NEW e \in DOMAIN profiles.equipment, ArchiveEquipment(a, e)
      PROVE  Assigned'
  <2>1. PICK row, table, db :
          /\ row = [profiles.equipment[e] EXCEPT !.retired = TRUE]
          /\ table = [profiles.equipment EXCEPT ![e] = row]
          /\ db = [profiles EXCEPT !.equipment = table]
    OBVIOUS
  <2>2. SaveProfiles(db) /\ drawn' = drawn /\ profileFiles' = profileFiles
    <3>1. db = [profiles EXCEPT !.equipment[e].retired = TRUE]
      BY <2>1
    <3>2. QED
      BY <1>3, <3>1 DEF ArchiveEquipment
  <2>3. Replaces(table, e, row)
    BY <2>1 DEF Replaces
  <2>4. profiles.equipment[e] \in EquipmentRows /\ profiles.equipment[e].station \in 0 .. drawn.stations
    BY AssignmentsAreKnown
  <2>5. row.station \in 0 .. drawn.stations
    BY <2>1, <2>4 DEF EquipmentRows
  <2>6. QED
    BY <2>1, <2>2, <2>3, <2>5, AssignedEquipment
<1>4. QED
  BY <1>1, <1>2, <1>3

LEMMA AssignedBackups ==
  ASSUME IInv, Assigned, NEW a \in Owners,
         ExportProfiles(a) \/ \E backup \in profileFiles : ImportProfiles(a, backup)
  PROVE  Assigned'
<1>1. CASE ExportProfiles(a)
  <2>1. PICK backup : backup = [by |-> a, stations |-> OwnedBy(a, profiles.stations),
                            equipment |-> OwnedBy(a, profiles.equipment)]
    OBVIOUS
  <2>2. profileFiles' = profileFiles \cup {backup} /\ SaveProfiles(profiles) /\ drawn' = drawn
    BY <1>1, <2>1 DEF ExportProfiles
  <2>3. PICK db : db = profiles
    OBVIOUS
  <2>4. DOMAIN db = Fields /\ db.members \subseteq Owners
    BY <2>3, KnownTables
  <2>5. drawn'.stations \in Nat /\ drawn.stations <= drawn'.stations
    BY <2>2, KnownTables
  <2>6. AssignedWithin(db.equipment, drawn'.stations)
    BY <2>2, <2>3 DEF Assigned, Copies
  <2>7. \A more \in profileFiles' \ profileFiles : Exported(more)
    BY <2>1, <2>2 DEF Exported
  <2>8. SaveProfiles(db)
    BY <2>2, <2>3
  <2>9. QED
    BY <2>4, <2>5, <2>6, <2>7, <2>8, AssignedSave
<1>2. ASSUME NEW backup \in profileFiles, ImportProfiles(a, backup)
      PROVE  Assigned'
  <2>1. PICK stations, equipment, db :
          /\ stations = Merge(profiles.stations, HandedTo(a, backup.stations))
          /\ equipment = Merge(profiles.equipment, HandedTo(a, backup.equipment))
          /\ db = [profiles EXCEPT !.stations = stations, !.equipment = equipment]
    OBVIOUS
  <2>2. SaveProfiles(db) /\ profileFiles' = profileFiles /\ drawn' = drawn
    <3>1. db = [profiles EXCEPT
              !.stations = Merge(@, HandedTo(a, backup.stations)),
              !.equipment = Merge(@, HandedTo(a, backup.equipment))]
      BY <2>1, KnownTables
    <3>2. QED
      BY <1>2, <3>1 DEF ImportProfiles
  <2>3. DOMAIN db = Fields /\ db.members \subseteq Owners /\ db.equipment = equipment
    BY <2>1, KnownTables DEF Fields
  <2>4. drawn.stations \in Nat /\ drawn'.stations \in Nat /\ drawn.stations <= drawn'.stations
    BY <2>2, KnownTables
  <2>5. profiles \in Copies /\ backup \in Copies
    BY DEF Copies
  <2>6. EquipmentOK(backup.equipment, drawn.equipment)
    BY <2>5 DEF IInv, Shape
  <2>7. AssignedWithin(equipment, drawn.stations)
    <3>1. PICK rows : rows = HandedTo(a, backup.equipment)
      OBVIOUS
    <3>2. /\ DOMAIN rows = DOMAIN backup.equipment
          /\ \A e \in DOMAIN rows : rows[e] = [backup.equipment[e] EXCEPT !.by = a]
      BY <3>1 DEF HandedTo
    <3>3. \A e \in DOMAIN rows : rows[e].station = backup.equipment[e].station
      BY <2>6, <3>2 DEF EquipmentOK, EquipmentRows
    <3>4. /\ DOMAIN equipment = DOMAIN profiles.equipment \cup DOMAIN rows
          /\ \A e \in DOMAIN equipment :
               equipment[e] = IF e \in DOMAIN rows THEN rows[e] ELSE profiles.equipment[e]
      BY <2>1, <3>1 DEF Merge
    <3>5. QED
      BY <2>5, <3>2, <3>3, <3>4 DEF Assigned, AssignedWithin
  <2>8. QED
    BY <2>2, <2>3, <2>4, <2>7, AssignedSave
<1>3. QED
  BY <1>1, <1>2

(* Station and equipment tables name accounts, and identifiers that were    *)
(* drawn, in the server and in its store, also after a save that stopped    *)
(* half-way and after an import.  (persist_metadata,                        *)
(* restore_backup_support_metadata.)                                        *)
THEOREM ProfileTypes == ProfilesSpec => []ProfilesTypeOK
<1>1. ProfilesInit => Assigned
  <2> SUFFICES ASSUME ProfilesInit PROVE Assigned
    OBVIOUS
  <2>1. profiles.equipment = <<>> /\ savedProfiles = profiles /\ profileFiles = {}
    BY DEF ProfilesInit, NoProfiles
  <2>2. QED
    BY <2>1 DEF Assigned, AssignedWithin, Copies
<1>2. IInv /\ Assigned /\ [ProfilesNext]_profileVars => Assigned'
  <2> SUFFICES ASSUME IInv, Assigned, [ProfilesNext]_profileVars PROVE Assigned'
    OBVIOUS
  <2>1. CASE UNCHANGED profileVars
    BY <2>1 DEF profileVars, Assigned, Copies
  <2>2. CASE RestartProfiles
    BY <2>2 DEF RestartProfiles, Assigned, Copies
  <2>3. CASE ProfilesNext
    BY <2>2, <2>3, AssignedStations, AssignedRequests, AssignedBackups DEF ProfilesNext
  <2>4. QED
    BY <2>1, <2>3
<1>3. IInv /\ Assigned => ProfilesTypeOK
  <2> SUFFICES ASSUME IInv, Assigned, NEW db \in {profiles, savedProfiles}
               PROVE  /\ db.members \subseteq Owners
                      /\ \A s \in DOMAIN db.stations : s \in 1 .. drawn.stations
                      /\ \A e \in DOMAIN db.equipment :
                           /\ e \in 1 .. drawn.equipment
                           /\ db.equipment[e].station \in 0 .. drawn.stations
    BY DEF ProfilesTypeOK
  <2>1. db \in Copies /\ db.members \subseteq Owners
    BY DEF Copies, IInv, Shape
  <2>2. StationsOK(db.stations, drawn.stations) /\ EquipmentOK(db.equipment, drawn.equipment)
    BY <2>1 DEF IInv, Shape
  <2>3. QED
    BY <2>1, <2>2 DEF StationsOK, EquipmentOK, Assigned, AssignedWithin
<1>4. QED
  BY <1>1, <1>2, <1>3, ProfilesInvariant, PTL DEF ProfilesSpec

-----------------------------------------------------------------------------
(***************************************************************************)
(* The uploads.                                                            *)
(***************************************************************************)

-----------------------------------------------------------------------------
(***************************************************************************)
(* The inductive invariant.                                                *)
(***************************************************************************)

UploadFields == {"members", "setting", "jobs"}
JobRows == [by : Accounts, qsos : SUBSET Qsos \ {{}}, status : Statuses]

JobsOK(jobs, n) == jobs \in [DOMAIN jobs -> JobRows] /\ DOMAIN jobs \subseteq 1 .. n

\* A key outside of "keys" has one job at most.
SingleJob(jobs, keys) ==
    \A i, j \in DOMAIN jobs : Key(jobs[i]) = Key(jobs[j]) => i = j \/ Key(jobs[i]) \in keys

UploadShape ==
    /\ \A X \in {memory, disk} : /\ X = [members |-> X.members, setting |-> X.setting, jobs |-> X.jobs]
                                /\ X.members \subseteq Accounts
                                /\ X.setting \in Settings \cup {NoSetting}
                                /\ JobsOK(X.jobs, created)
    /\ created \in 0 .. MaxJobs /\ attempts \in 0 .. MaxAttempts /\ logged \in 0 .. MaxQsos
    /\ imports \in 0 .. MaxImports
    /\ accepted \in [Keys -> Nat]
    /\ \A key \in Keys : accepted[key] <= attempts

UploadsInv ==
    /\ UploadShape
    /\ \A jobs \in {memory.jobs, disk.jobs} : SingleJob(jobs, unprotected)
    /\ \A key \in Keys : accepted[key] > 0 => Succeeded(memory.jobs, key) \/ key \in unprotected
    /\ NoSilentRepeat

-----------------------------------------------------------------------------
(***************************************************************************)
(* Tables.                                                                 *)
(***************************************************************************)

LEMMA NoJobs ==
  ASSUME NEW n \in Nat, NEW keys
  PROVE  JobsOK(<<>>, n) /\ SingleJob(<<>>, keys)
  BY DEF JobsOK, SingleJob

\* What a handler changed and did not save, or failed to.
Unsaved(before, db, exposed) ==
    memory' = db /\ disk' = before /\ unprotected' = unprotected \cup exposed

\* A save leaves, table by table, what it was to store, what was stored
\* before, or nothing; and what it cost a key its success is recorded.
LEMMA UploadSaveLeaves ==
  ASSUME NEW before, NEW db, NEW exposed,
         SaveUploads(before, db, exposed) \/ Unsaved(before, db, exposed),
         before = [members |-> before.members, setting |-> before.setting, jobs |-> before.jobs],
         db = [members |-> db.members, setting |-> db.setting, jobs |-> db.jobs]
  PROVE  /\ \A X \in {memory', disk'} :
              /\ X = [members |-> X.members, setting |-> X.setting, jobs |-> X.jobs]
              /\ X.members \in {db.members, before.members, {}}
              /\ X.setting \in {db.setting, before.setting, NoSetting}
              /\ X.jobs \in {db.jobs, before.jobs, <<>>}
         /\ unprotected \cup exposed \subseteq unprotected'
         /\ \A key \in Keys : Succeeded(db.jobs, key) => Succeeded(memory'.jobs, key) \/ key \in unprotected'
<1>1. CASE /\ disk' \in StoppedSaves(UploadOrder, NoUploads, before, db)
           /\ memory' = disk'
           /\ unprotected' = unprotected \cup exposed \cup Forgotten(db.jobs, disk'.jobs)
  <2>1. PICK X : X = disk'
    OBVIOUS
  <2>2. DOMAIN before = UploadFields
    BY DEF UploadFields
  <2>3. /\ X = [t \in UploadFields |-> X[t]]
        /\ \A t \in UploadFields : X[t] \in {db[t], before[t], NoUploads[t]}
    <3>1. CASE X \in StoppedDeleting(UploadOrder, NoUploads, before)
      <4>1. PICK done : X = [t \in DOMAIN before |->
                               IF UploadOrder[t] <= done THEN NoUploads[t] ELSE before[t]]
        BY <3>1 DEF StoppedDeleting
      <4>2. QED
        BY <2>2, <4>1
    <3>2. CASE X \in StoppedWriting(UploadOrder, NoUploads, before, db)
      <4>1. PICK done : X = [t \in DOMAIN before |->
                               IF UploadOrder[t] <= done THEN db[t] ELSE NoUploads[t]]
        BY <3>2 DEF StoppedWriting
      <4>2. QED
        BY <2>2, <4>1
    <3>3. QED
      BY <1>1, <2>1, <3>1, <3>2 DEF StoppedSaves
  <2>4. NoUploads.members = {} /\ NoUploads.setting = NoSetting /\ NoUploads.jobs = <<>>
    BY DEF NoUploads
  <2>5. X = [members |-> X.members, setting |-> X.setting, jobs |-> X.jobs]
    BY <2>3 DEF UploadFields
  <2>6. /\ X.members \in {db.members, before.members, {}}
        /\ X.setting \in {db.setting, before.setting, NoSetting}
        /\ X.jobs \in {db.jobs, before.jobs, <<>>}
    BY <2>3, <2>4 DEF UploadFields
  <2>7. \A key \in Keys : Succeeded(db.jobs, key) => Succeeded(memory'.jobs, key) \/ key \in unprotected'
    BY <1>1 DEF Forgotten
  <2>8. QED
    BY <1>1, <2>1, <2>5, <2>6, <2>7
<1>2. CASE memory' = db /\ disk' \in {before, db} /\ unprotected' = unprotected \cup exposed
  BY <1>2
<1>3. QED
  BY <1>1, <1>2 DEF SaveUploads, Unsaved

-----------------------------------------------------------------------------
(***************************************************************************)
(* What every request has in common.                                       *)
(***************************************************************************)

\* The state a request is to save, where the keys of "exposed" lose their
\* protection.
Sound(db, exposed) ==
    /\ db = [members |-> db.members, setting |-> db.setting, jobs |-> db.jobs]
    /\ db.members \subseteq Accounts /\ db.setting \in Settings \cup {NoSetting}
    /\ JobsOK(db.jobs, created')
    /\ SingleJob(db.jobs, unprotected \cup exposed)
    /\ \A key \in Keys : accepted'[key] > 0 =>
         Succeeded(db.jobs, key) \/ key \in unprotected \cup exposed
    /\ \A key \in Keys : accepted'[key] > 1 => key \in unprotected \cup exposed

Advances ==
    /\ created' \in 0 .. MaxJobs /\ attempts' \in 0 .. MaxAttempts /\ logged' \in 0 .. MaxQsos
    /\ imports' \in 0 .. MaxImports /\ created <= created'
    /\ accepted' \in [Keys -> Nat]
    /\ \A key \in Keys : accepted'[key] <= attempts'

LEMMA WiderKeys ==
  ASSUME NEW jobs, NEW keys, NEW more, keys \subseteq more, SingleJob(jobs, keys)
  PROVE  SingleJob(jobs, more)
  BY DEF SingleJob

LEMMA MoreJobs ==
  ASSUME NEW jobs, NEW n \in Nat, NEW m \in Nat, n <= m, JobsOK(jobs, n)
  PROVE  JobsOK(jobs, m)
  BY DEF JobsOK

\* Saving a sound state keeps the invariant, however the save ends, and so
\* does leaving it in memory.
LEMMA UploadSaveStep ==
  ASSUME UploadsInv, NEW before \in {memory, disk}, NEW db, NEW exposed,
         Sound(db, exposed), Advances,
         SaveUploads(before, db, exposed) \/ Unsaved(before, db, exposed)
  PROVE  UploadsInv'
<1>0. created \in Nat /\ created' \in Nat /\ created <= created'
  BY DEF UploadsInv, UploadShape, Advances
<1>1. /\ \A X \in {memory', disk'} :
           /\ X = [members |-> X.members, setting |-> X.setting, jobs |-> X.jobs]
           /\ X.members \in {db.members, before.members, {}}
           /\ X.setting \in {db.setting, before.setting, NoSetting}
           /\ X.jobs \in {db.jobs, before.jobs, <<>>}
      /\ unprotected \cup exposed \subseteq unprotected'
      /\ \A key \in Keys : Succeeded(db.jobs, key) => Succeeded(memory'.jobs, key) \/ key \in unprotected'
  <2>1. before = [members |-> before.members, setting |-> before.setting, jobs |-> before.jobs]
    BY DEF UploadsInv, UploadShape
  <2>2. db = [members |-> db.members, setting |-> db.setting, jobs |-> db.jobs]
    BY DEF Sound
  <2>3. QED
    BY <2>1, <2>2, UploadSaveLeaves
<1>2. \A jobs \in {db.jobs, before.jobs, <<>>} : JobsOK(jobs, created') /\ SingleJob(jobs, unprotected')
  <2>1. JobsOK(db.jobs, created') /\ SingleJob(db.jobs, unprotected \cup exposed)
    BY DEF Sound
  <2>2. JobsOK(before.jobs, created) /\ SingleJob(before.jobs, unprotected)
    BY DEF UploadsInv, UploadShape
  <2>3. JobsOK(before.jobs, created') /\ SingleJob(before.jobs, unprotected')
    BY <1>0, <1>1, <2>2, WiderKeys, MoreJobs
  <2>4. SingleJob(db.jobs, unprotected')
    BY <1>1, <2>1, WiderKeys
  <2>5. QED
    BY <1>0, <2>1, <2>3, <2>4, NoJobs
<1>3. \A X \in {memory', disk'} :
        /\ X.members \subseteq Accounts /\ X.setting \in Settings \cup {NoSetting}
        /\ JobsOK(X.jobs, created') /\ SingleJob(X.jobs, unprotected')
  <2>1. /\ before.members \subseteq Accounts /\ before.setting \in Settings \cup {NoSetting}
        /\ db.members \subseteq Accounts /\ db.setting \in Settings \cup {NoSetting}
    BY DEF UploadsInv, UploadShape, Sound
  <2>2. QED
    BY <1>1, <1>2, <2>1
<1>4. UploadShape'
  BY <1>1, <1>3 DEF Advances, UploadShape
<1>5. \A key \in Keys : accepted'[key] > 0 => Succeeded(memory'.jobs, key) \/ key \in unprotected'
  BY <1>1 DEF Sound
<1>6. \A key \in Keys : accepted'[key] > 1 => key \in unprotected'
  BY <1>1 DEF Sound
<1>7. QED
  BY <1>3, <1>4, <1>5, <1>6 DEF UploadsInv, NoSilentRepeat

-----------------------------------------------------------------------------
(***************************************************************************)
(* The steps.                                                              *)
(***************************************************************************)

\* What the invariant says of single parts of the state.
LEMMA UploadFacts ==
  ASSUME UploadsInv
  PROVE  /\ \A X \in {memory, disk} : /\ X = [members |-> X.members, setting |-> X.setting, jobs |-> X.jobs]
                                      /\ X.members \subseteq Accounts
                                      /\ X.setting \in Settings \cup {NoSetting}
                                      /\ JobsOK(X.jobs, created)
         /\ created \in 0 .. MaxJobs /\ attempts \in 0 .. MaxAttempts /\ logged \in 0 .. MaxQsos
         /\ imports \in 0 .. MaxImports
         /\ accepted \in [Keys -> Nat] /\ \A key \in Keys : accepted[key] <= attempts
         /\ \A key \in Keys : accepted[key] \in Nat
         /\ {MaxAttempts, MaxJobs, MaxQsos, MaxImports} \subseteq Nat
         /\ attempts \in Nat /\ created \in Nat
<1>1. {MaxAttempts, MaxJobs, MaxQsos, MaxImports} \subseteq Nat
  BY UploadBoundsAssumption
<1>2. UploadShape
  BY DEF UploadsInv
<1>3. QED
  BY <1>1, <1>2 DEF UploadShape

\* What is in memory may be saved at any time.
LEMMA MemoryIsSound ==
  ASSUME UploadsInv, created' = created, accepted' = accepted
  PROVE  Sound(memory, {})
<1>1. SingleJob(memory.jobs, unprotected \cup {})
  BY WiderKeys DEF UploadsInv
<1>2. QED
  BY <1>1, UploadFacts DEF UploadsInv, Sound, NoSilentRepeat

LEMMA EnforceLimitStep ==
  ASSUME UploadsInv, NEW a \in Accounts, EnforceLimit(a)
  PROVE  UploadsInv'
<1>1. SaveUploads(disk, memory, {}) /\ UNCHANGED <<logged, accepted, created, attempts, imports>>
  BY DEF EnforceLimit
<1>2. Advances
  BY <1>1, UploadFacts DEF Advances
<1>3. QED
  BY <1>1, <1>2, MemoryIsSound, UploadSaveStep

LEMMA PatchProviderStep ==
  ASSUME UploadsInv, NEW a \in Accounts, NEW setting \in Settings, PatchProvider(a, setting)
  PROVE  UploadsInv'
<1> DEFINE db == [memory EXCEPT !.setting = setting]
<1>1. SaveUploads(disk, db, {}) /\ UNCHANGED <<logged, accepted, created, attempts, imports>>
  BY DEF PatchProvider
<1>2. Advances
  BY <1>1, UploadFacts DEF Advances
<1>3. db = [members |-> memory.members, setting |-> setting, jobs |-> memory.jobs]
  BY UploadFacts
<1>4. Sound(memory, {})
  BY <1>1, MemoryIsSound
<1> HIDE DEF db
<1>5. Sound(db, {})
  BY <1>3, <1>4 DEF Sound
<1>6. QED
  BY <1>1, <1>2, <1>5, UploadSaveStep

LEMMA LogQsoStep ==
  ASSUME UploadsInv, LogQso
  PROVE  UploadsInv'
<1>1. /\ logged' \in 0 .. MaxQsos
      /\ UNCHANGED <<memory, disk, accepted, unprotected, created, attempts, imports>>
  BY UploadFacts DEF LogQso
<1>2. QED
  BY <1>1 DEF UploadsInv, UploadShape, NoSilentRepeat

LEMMA RestartUploadsStep ==
  ASSUME UploadsInv, RestartUploads
  PROVE  UploadsInv'
<1>1. /\ memory' = disk /\ unprotected' = unprotected \cup Forgotten(memory.jobs, disk.jobs)
      /\ UNCHANGED <<disk, logged, accepted, created, attempts, imports>>
  BY DEF RestartUploads
<1>2. SingleJob(disk.jobs, unprotected')
  BY <1>1, WiderKeys DEF UploadsInv
<1>3. \A key \in Keys : accepted'[key] > 0 => Succeeded(memory'.jobs, key) \/ key \in unprotected'
  BY <1>1 DEF UploadsInv, Forgotten
<1>4. UploadShape'
  BY <1>1 DEF UploadsInv, UploadShape
<1>5. QED
  BY <1>1, <1>2, <1>3, <1>4 DEF UploadsInv, NoSilentRepeat

\* An attempt for a key whose success the server knows of, or has given up:
\* of the other keys, the job is the only one.
LEMMA ExecuteStep ==
  ASSUME UploadsInv, created' \in 0 .. MaxJobs, created <= created', UNCHANGED <<logged, imports>>,
         NEW id \in 1 .. created', NEW exposed, NEW forceFail,
         NEW job \in JobRows,
         Execute(id, job, forceFail, exposed),
         id \in DOMAIN memory.jobs =>
             Key(memory.jobs[id]) = Key(job) /\ memory.jobs[id].status # "Succeeded",
         Key(job) \in unprotected \cup exposed \/
             \A other \in DOMAIN memory.jobs : Key(memory.jobs[other]) = Key(job) => other = id
  PROVE  UploadsInv'
<1>1. PICK result \in Outcomes(memory.setting, forceFail) :
        /\ accepted' = [accepted EXCEPT ![Key(job)] = IF result.taken THEN @ + 1 ELSE @]
        /\ SaveUploads(memory,
               [memory EXCEPT !.jobs = With(@, id, [job EXCEPT !.status = result.status])],
               exposed \cup IF result.taken /\ result.status # "Succeeded" THEN {Key(job)} ELSE {})
  BY DEF Execute
<1>2. attempts < MaxAttempts /\ attempts' = attempts + 1
  BY DEF Execute
<1>3. PICK key, row, jobs, db, lost :
        /\ key = Key(job) /\ row = [job EXCEPT !.status = result.status]
        /\ jobs = With(memory.jobs, id, row) /\ db = [memory EXCEPT !.jobs = jobs]
        /\ lost = exposed \cup IF result.taken /\ result.status # "Succeeded" THEN {Key(job)} ELSE {}
  OBVIOUS
<1>4. result.status \in Statuses /\ result.taken \in BOOLEAN
  <2>1. memory.setting.mode \in Modes
    BY UploadFacts DEF Settings, NoSetting, Modes
  <2>2. \/ result \in {Outcome("Failed", FALSE), Outcome("Retryable", FALSE), Outcome("Succeeded", FALSE)}
        \/ result \in Answers
    BY <2>1 DEF Outcomes, Modes
  <2>3. CASE result \in Answers
    <3>1. \E s \in Statuses \ {"Queued"}, taken \in BOOLEAN : result = [status |-> s, taken |-> taken]
      BY <2>3 DEF Answers, Outcome
    <3>2. PICK s \in Statuses \ {"Queued"}, taken \in BOOLEAN : result = [status |-> s, taken |-> taken]
      BY <3>1
    <3>3. result.status = s /\ result.taken = taken
      BY <3>2
    <3>4. QED
      BY <3>3
  <2>4. CASE result \notin Answers
    <3>1. PICK s \in {"Failed", "Retryable", "Succeeded"} : result = Outcome(s, FALSE)
      BY <2>2, <2>4
    <3>2. result.status = s /\ result.taken = FALSE
      BY <3>1 DEF Outcome
    <3>3. s \in Statuses
      BY DEF Statuses
    <3>4. QED
      BY <3>2, <3>3
  <2>5. QED
    BY <2>3, <2>4
<1>5. /\ key = [by |-> job.by, qsos |-> job.qsos] /\ key \in Keys
      /\ job.by \in Accounts /\ job.qsos \in SUBSET Qsos \ {{}}
  BY <1>3 DEF Key, Keys, JobRows
<1>6. row = [by |-> job.by, qsos |-> job.qsos, status |-> result.status]
  BY <1>3 DEF JobRows
<1>7. row \in JobRows /\ Key(row) = key
  BY <1>4, <1>5, <1>6 DEF JobRows, Key
<1>8. /\ DOMAIN jobs = DOMAIN memory.jobs \cup {id} /\ jobs[id] = row
      /\ \A other \in DOMAIN memory.jobs : other # id => jobs[other] = memory.jobs[other]
      /\ jobs = [k \in DOMAIN jobs |-> jobs[k]]
  BY <1>3 DEF With
<1>9. /\ db = [members |-> memory.members, setting |-> memory.setting, jobs |-> jobs]
  BY <1>3, UploadFacts
<1>10. /\ created \in Nat /\ created' \in Nat
       /\ \A k \in Keys : accepted[k] \in Nat /\ accepted'[k] \in Nat
       /\ \A k \in Keys : k # key => accepted'[k] = accepted[k]
       /\ accepted'[key] = IF result.taken THEN accepted[key] + 1 ELSE accepted[key]
       /\ accepted' \in [Keys -> Nat]
  <2>1. accepted \in [Keys -> Nat] /\ accepted[key] \in Nat
    BY <1>5, UploadFacts
  <2>2. accepted' = [accepted EXCEPT ![key] = IF result.taken THEN accepted[key] + 1 ELSE accepted[key]]
    BY <1>1, <1>3
  <2>3. (IF result.taken THEN accepted[key] + 1 ELSE accepted[key]) \in Nat
    BY <2>1
  <2>4. accepted' \in [Keys -> Nat]
    BY <2>1, <2>2, <2>3
  <2>5. accepted'[key] = IF result.taken THEN accepted[key] + 1 ELSE accepted[key]
    BY <1>5, <2>1, <2>2
  <2>6. QED
    BY <2>1, <2>2, <2>4, <2>5, UploadFacts
<1>11. Advances
  <2>1. \A k \in Keys : accepted'[k] <= attempts'
    <3>1. \A k \in Keys : accepted[k] <= attempts /\ accepted[k] \in Nat
      BY UploadFacts
    <3>2. attempts \in Nat
      BY UploadFacts
    <3>3. QED
      BY <1>2, <1>5, <1>10, <3>1, <3>2
  <2>2. attempts' \in 0 .. MaxAttempts
    BY <1>2, UploadFacts
  <2>3. QED
    BY <1>1, <1>10, <2>1, <2>2, UploadFacts DEF Advances
<1>12. JobsOK(jobs, created')
  <2>1. \A k \in DOMAIN memory.jobs : memory.jobs[k] \in JobRows /\ k \in 1 .. created
    BY UploadFacts DEF JobsOK
  <2>2. QED
    BY <1>7, <1>8, <1>10, <2>1 DEF JobsOK
<1>13. key \in unprotected \cup exposed \/ accepted[key] = 0
  <2> SUFFICES ASSUME key \notin unprotected \cup exposed PROVE accepted[key] = 0
    OBVIOUS
  <2>1. ~Succeeded(memory.jobs, key)
    BY <1>3 DEF Succeeded
  <2>2. ~(accepted[key] > 0)
    BY <1>5, <2>1 DEF UploadsInv
  <2>3. QED
    BY <1>5, <1>10, <2>2
<1>14. SingleJob(jobs, unprotected \cup lost)
  <2>1. SingleJob(memory.jobs, unprotected)
    BY DEF UploadsInv
  <2>2. SUFFICES ASSUME NEW i \in DOMAIN jobs, NEW j \in DOMAIN jobs, Key(jobs[i]) = Key(jobs[j]), i # j
                 PROVE  Key(jobs[i]) \in unprotected \cup lost
    BY DEF SingleJob
  <2>3. CASE i # id /\ j # id
    BY <1>8, <2>1, <2>2, <2>3 DEF SingleJob
  <2>4. CASE i = id \/ j = id
    <3>1. Key(jobs[i]) = key
      BY <1>7, <1>8, <2>2, <2>4
    <3>2. \E other \in DOMAIN memory.jobs : Key(memory.jobs[other]) = key /\ other # id
      BY <1>8, <2>2, <2>4, <3>1
    <3>3. key \in unprotected \cup exposed
      BY <1>3, <3>2
    <3>4. QED
      BY <1>3, <3>1, <3>3
  <2>5. QED
    BY <2>3, <2>4
<1>15. \A k \in Keys : accepted'[k] > 0 => Succeeded(jobs, k) \/ k \in unprotected \cup lost
  <2> TAKE k \in Keys
  <2>1. CASE k # key
    <3>1. accepted[k] > 0 => Succeeded(memory.jobs, k) \/ k \in unprotected
      BY DEF UploadsInv
    <3>2. Succeeded(memory.jobs, k) => Succeeded(jobs, k)
      BY <1>3, <1>8, <2>1 DEF Succeeded
    <3>3. QED
      BY <1>10, <2>1, <3>1, <3>2
  <2>2. CASE k = key
    <3>1. result.status = "Succeeded" => Succeeded(jobs, k)
      BY <1>6, <1>7, <1>8, <2>2 DEF Succeeded
    <3>2. result.taken /\ result.status # "Succeeded" => k \in lost
      BY <1>3, <2>2
    <3>3. QED
      BY <1>3, <1>4, <1>10, <1>13, <2>2, <3>1, <3>2
  <2>3. QED
    BY <2>1, <2>2
<1>16. \A k \in Keys : accepted'[k] > 1 => k \in unprotected \cup lost
  <2>1. \A k \in Keys : accepted[k] > 1 => k \in unprotected
    BY DEF UploadsInv, NoSilentRepeat
  <2>2. QED
    BY <1>3, <1>10, <1>13, <2>1
<1>17. Sound(db, lost)
  BY <1>9, <1>12, <1>14, <1>15, <1>16, UploadFacts DEF Sound
<1>18. SaveUploads(memory, db, lost)
  BY <1>1, <1>3
<1>19. QED
  BY <1>11, <1>17, <1>18, UploadSaveStep

LEMMA RunUploadStep ==
  ASSUME UploadsInv, NEW a \in Accounts, NEW qsos \in SUBSET (1 .. logged) \ {{}},
         NEW forceFail \in BOOLEAN, RunUpload(a, qsos, forceFail)
  PROVE  UploadsInv'
<1>1. PICK key, another, job, exposed :
        /\ key = [by |-> a, qsos |-> qsos]
        /\ another = \E id \in DOMAIN memory.jobs :
                         Key(memory.jobs[id]) = key /\ memory.jobs[id].status # "Succeeded"
        /\ job = [by |-> a, qsos |-> qsos, status |-> "Queued"]
        /\ exposed = IF another THEN {key} ELSE {}
  OBVIOUS
<1>2. /\ created < MaxJobs /\ created' = created + 1 /\ UNCHANGED <<logged, imports>>
      /\ \A id \in DOMAIN memory.jobs : Key(memory.jobs[id]) = key => memory.jobs[id].status # "Succeeded"
      /\ Execute(created + 1, job, forceFail, exposed)
  BY <1>1 DEF RunUpload, Duplicate
<1>3. /\ created \in Nat /\ created' \in 0 .. MaxJobs /\ created <= created' /\ created + 1 \in 1 .. created'
  BY <1>2, UploadFacts
<1>4. job \in JobRows
  <2>1. qsos \in SUBSET Qsos \ {{}}
    BY UploadFacts DEF Qsos
  <2>2. QED
    BY <1>1, <2>1 DEF JobRows, Statuses
<1>5. Key(job) = key
  BY <1>1 DEF Key
<1>6. created + 1 \notin DOMAIN memory.jobs
  BY <1>3, UploadFacts DEF JobsOK
<1>7. key \in unprotected \cup exposed \/
        \A other \in DOMAIN memory.jobs : Key(memory.jobs[other]) = key => other = created + 1
  BY <1>1, <1>2
<1>8. PICK id : id = created + 1
  OBVIOUS
<1>9. /\ id \in 1 .. created' /\ Execute(id, job, forceFail, exposed) /\ id \notin DOMAIN memory.jobs
      /\ Key(job) \in unprotected \cup exposed \/
           \A other \in DOMAIN memory.jobs : Key(memory.jobs[other]) = Key(job) => other = id
  BY <1>2, <1>3, <1>5, <1>6, <1>7, <1>8
<1>10. UNCHANGED <<logged, imports>>
  BY <1>2
<1>11. QED
  BY <1>3, <1>4, <1>9, <1>10, ExecuteStep

LEMMA RetryUploadStep ==
  ASSUME UploadsInv, NEW a \in Accounts, NEW id \in DOMAIN memory.jobs, RetryUpload(a, id)
  PROVE  UploadsInv'
<1>1. /\ memory.jobs[id].status # "Succeeded"
      /\ Execute(id, memory.jobs[id], FALSE, {}) /\ UNCHANGED <<logged, created, imports>>
  BY DEF RetryUpload
<1>2. id \in 1 .. created' /\ memory.jobs[id] \in JobRows
  BY <1>1, UploadFacts DEF JobsOK
<1>3. Key(memory.jobs[id]) \in unprotected \cup {} \/
        \A other \in DOMAIN memory.jobs : Key(memory.jobs[other]) = Key(memory.jobs[id]) => other = id
  BY DEF UploadsInv, SingleJob
<1>4. created' \in 0 .. MaxJobs /\ created <= created'
  BY <1>1, UploadFacts
<1>5. PICK job : job = memory.jobs[id]
  OBVIOUS
<1>6. Execute(id, job, FALSE, {}) /\ UNCHANGED <<logged, imports>>
  BY <1>1, <1>5
<1>7. QED
  BY <1>1, <1>2, <1>3, <1>4, <1>5, <1>6, ExecuteStep

\* A file may replace the job that succeeded for any key, which then is
\* forgotten, and bring in jobs of the importer only.
LEMMA ImportBackupStep ==
  ASSUME UploadsInv, NEW a \in Accounts, NEW n \in created .. MaxJobs, NEW rows \in FileRows(a, n),
         NEW setting \in FileSettings(a) \cup {memory.setting}, ImportBackup(a, n, rows, setting)
  PROVE  UploadsInv'
<1>1. PICK jobs, db, exposed :
        /\ jobs = [id \in DOMAIN memory.jobs \cup DOMAIN rows |->
                       IF id \in DOMAIN rows THEN rows[id] ELSE memory.jobs[id]]
        /\ db = [memory EXCEPT !.setting = setting, !.jobs = jobs]
        /\ exposed = Forgotten(memory.jobs, jobs) \cup {key \in Keys : key.by = a}
  OBVIOUS
<1>2. /\ SaveUploads(disk, db, exposed) \/ Unsaved(disk, db, exposed)
      /\ imports < MaxImports /\ imports' = imports + 1
      /\ logged' \in logged .. MaxQsos /\ created' = n /\ UNCHANGED <<accepted, attempts>>
  BY <1>1 DEF ImportBackup, Unsaved
<1>3. Advances
  BY <1>2, UploadFacts DEF Advances
<1>4. db = [members |-> memory.members, setting |-> setting, jobs |-> jobs]
  BY <1>1, UploadFacts
<1>5. setting \in Settings \cup {NoSetting}
  BY UploadFacts DEF FileSettings, Settings
<1>6. /\ DOMAIN rows \subseteq 1 .. n
      /\ \A id \in DOMAIN rows : /\ rows[id] \in JobRows /\ rows[id].by = a
                                 /\ Key(rows[id]) \in exposed
  <2>1. PICK ids \in SUBSET (1 .. n) :
          rows \in [ids -> [by : {a}, qsos : SUBSET Qsos \ {{}}, status : Statuses]]
    BY DEF FileRows
  <2>2. \A id \in DOMAIN rows : rows[id] \in JobRows /\ rows[id].by = a
    BY <2>1 DEF JobRows
  <2>3. \A id \in DOMAIN rows : Key(rows[id]) \in Keys /\ Key(rows[id]).by = a
    BY <2>2 DEF JobRows, Key, Keys
  <2>4. QED
    BY <1>1, <2>1, <2>2, <2>3
<1>7. /\ DOMAIN jobs = DOMAIN memory.jobs \cup DOMAIN rows
      /\ jobs = [id \in DOMAIN jobs |-> jobs[id]]
      /\ \A id \in DOMAIN rows : jobs[id] = rows[id]
      /\ \A id \in DOMAIN jobs \ DOMAIN rows : jobs[id] = memory.jobs[id]
  BY <1>1
<1>8. JobsOK(jobs, created')
  <2>1. \A id \in DOMAIN memory.jobs : memory.jobs[id] \in JobRows /\ id \in 1 .. n
    BY UploadFacts DEF JobsOK
  <2>2. \A id \in DOMAIN jobs : jobs[id] \in JobRows /\ id \in 1 .. n
    BY <1>6, <1>7, <2>1
  <2>3. QED
    BY <1>2, <1>7, <2>2 DEF JobsOK
<1>9. SingleJob(jobs, unprotected \cup exposed)
  <2>1. SingleJob(memory.jobs, unprotected)
    BY DEF UploadsInv
  <2>2. QED
    BY <1>6, <1>7, <2>1 DEF SingleJob
<1>10. \A key \in Keys : accepted[key] > 0 => Succeeded(jobs, key) \/ key \in unprotected \cup exposed
  BY <1>1 DEF UploadsInv, Forgotten
<1>11. Sound(db, exposed)
  <2>1. \A key \in Keys : accepted[key] > 1 => key \in unprotected \cup exposed
    BY DEF UploadsInv, NoSilentRepeat
  <2>2. QED
    BY <1>2, <1>4, <1>5, <1>8, <1>9, <1>10, <2>1, UploadFacts DEF Sound
<1>12. QED
  BY <1>2, <1>3, <1>11, UploadSaveStep

-----------------------------------------------------------------------------
(***************************************************************************)
(* The theorems.                                                           *)
(***************************************************************************)

\* The inductive invariant holds in every behavior.
THEOREM UploadsInvariant == UploadsSpec => []UploadsInv
<1>1. UploadsInit => UploadsInv
  <2> SUFFICES ASSUME UploadsInit PROVE UploadsInv
    OBVIOUS
  <2>1. /\ memory = [members |-> Accounts, setting |-> NoSetting, jobs |-> <<>>] /\ disk = memory
        /\ created = 0 /\ attempts = 0 /\ logged = 0 /\ imports = 0
        /\ accepted = [key \in Keys |-> 0]
    BY DEF UploadsInit, NoUploads
  <2>2. JobsOK(<<>>, 0) /\ SingleJob(<<>>, unprotected)
    BY NoJobs
  <2>3. UploadShape
    BY <2>1, <2>2, UploadBoundsAssumption DEF UploadShape
  <2>4. \A key \in Keys : ~(accepted[key] > 0) /\ ~(accepted[key] > 1)
    BY <2>1
  <2>5. QED
    BY <2>1, <2>2, <2>3, <2>4 DEF UploadsInv, NoSilentRepeat
<1>2. UploadsInv /\ [UploadsNext]_uploadVars => UploadsInv'
  <2> SUFFICES ASSUME UploadsInv, [UploadsNext]_uploadVars PROVE UploadsInv'
    OBVIOUS
  <2>1. CASE UNCHANGED uploadVars
    <3>1. UNCHANGED <<memory, disk, logged, accepted, unprotected, created, attempts, imports>>
      BY <2>1 DEF uploadVars
    <3>2. QED
      BY <3>1 DEF UploadsInv, UploadShape, NoSilentRepeat
  <2>2. ASSUME NEW a \in Accounts, EnforceLimit(a) PROVE UploadsInv'
    BY <2>2, EnforceLimitStep
  <2>3. ASSUME NEW a \in Accounts, NEW qsos \in SUBSET (1 .. logged) \ {{}},
               NEW forceFail \in BOOLEAN, RunUpload(a, qsos, forceFail)
        PROVE  UploadsInv'
    BY <2>3, RunUploadStep
  <2>4. ASSUME NEW a \in Accounts, NEW id \in DOMAIN memory.jobs, RetryUpload(a, id) PROVE UploadsInv'
    BY <2>4, RetryUploadStep
  <2>5. ASSUME NEW a \in Accounts, NEW setting \in Settings, PatchProvider(a, setting) PROVE UploadsInv'
    BY <2>5, PatchProviderStep
  <2>6. ASSUME NEW a \in Accounts, NEW n \in created .. MaxJobs, NEW rows \in FileRows(a, n),
               NEW setting \in FileSettings(a) \cup {memory.setting}, ImportBackup(a, n, rows, setting)
        PROVE  UploadsInv'
    BY <2>6, ImportBackupStep
  <2>7. CASE LogQso
    BY <2>7, LogQsoStep
  <2>8. CASE RestartUploads
    BY <2>8, RestartUploadsStep
  <2>9. QED
    BY <2>1, <2>2, <2>3, <2>4, <2>5, <2>6, <2>7, <2>8 DEF UploadsNext
<1>3. QED
  BY <1>1, <1>2, PTL DEF UploadsSpec

\* run_upload and retry_upload have the provider take the contacts of a key
\* once, unless an answer, a save, a second job or a backup left the server
\* without the job that succeeded.
THEOREM UploadsAreNotRepeated == UploadsSpec => []NoSilentRepeat
<1>1. UploadsInv => NoSilentRepeat
  BY DEF UploadsInv
<1>2. QED
  BY <1>1, UploadsInvariant, PTL

\* The tables of the server and its store keep their types.
THEOREM UploadTypes == UploadsSpec => []UploadsTypeOK
<1>1. UploadsInv => UploadsTypeOK
  <2> SUFFICES ASSUME UploadsInv PROVE UploadsTypeOK
    OBVIOUS
  <2>1. \A X \in {memory, disk} : X \in UploadTables
    <3> TAKE X \in {memory, disk}
    <3>1. /\ X = [members |-> X.members, setting |-> X.setting, jobs |-> X.jobs]
          /\ X.members \subseteq Accounts /\ X.setting \in Settings \cup {NoSetting}
      BY UploadFacts
    <3>2. JobsOK(X.jobs, created)
      BY UploadFacts
    <3>3. DOMAIN X.jobs \in SUBSET (1 .. MaxJobs)
      BY <3>2, UploadFacts DEF JobsOK
    <3>4. X.jobs \in [DOMAIN X.jobs -> [by : Accounts, qsos : SUBSET Qsos \ {{}}, status : Statuses]]
      BY <3>2 DEF JobsOK, JobRows
    <3>5. QED
      BY <3>1, <3>3, <3>4 DEF UploadTables
  <2>2. DOMAIN memory.jobs \subseteq 1 .. created
    BY UploadFacts DEF JobsOK
  <2>3. accepted \in [Keys -> 0 .. MaxAttempts]
    <3>1. \A key \in Keys : accepted[key] \in 0 .. MaxAttempts
      BY UploadFacts
    <3>2. QED
      BY <3>1, UploadFacts
  <2>4. QED
    BY <2>1, <2>2, <2>3, UploadFacts DEF UploadsTypeOK
<1>2. QED
  BY <1>1, UploadsInvariant, PTL

-----------------------------------------------------------------------------
(***************************************************************************)
(* The credential store.                                                   *)
(***************************************************************************)

\* What reading a credential gives by the records "known".
Answered(known, keys, id) == IF known[id] = "active" THEN keys[id] ELSE NoSecret

\* A credential nobody stored has left nothing.
UnusedIsBlank ==
    \A id \in CredentialIds : expected[id] = {} =>
        /\ keychain[id] = NoSecret
        /\ file # Torn => file[id] = "absent"
        /\ \A p \in Processes : IsOpen(p) => records[p][id] = "absent"

\* Without an overlap one process has the store open, and its records, and those
\* in the file, answer as the calls that were made.
OneProcess ==
    "overlap" \notin mishaps =>
        /\ \A p, q \in Processes : records[p] # Closed /\ records[q] # Closed => p = q
        /\ \A id \in CredentialIds : expected[id] # {} =>
             /\ file # Torn => Answered(file, keychain, id) \in expected[id]
             /\ \A p \in Processes : IsOpen(p) => Answered(records[p], keychain, id) \in expected[id]

\* A keychain that deletes what it is told to holds the secret of the last call.
KeychainFollows ==
    "undeleted" \notin mishaps =>
        \A id \in CredentialIds : keychain[id] \in expected[id] \cup {NoSecret}

StoreInv == StoreTypeOK /\ UnusedIsBlank /\ OneProcess /\ KeychainFollows

\* The records of a process, the marks of one without any, and a torn file differ.
LEMMA RecordsAreRecords ==
  ASSUME NEW known \in RecordMaps
  PROVE  known # Closed /\ known # Unsupported /\ known # Torn
BY ProcessStatesAssumption

\* What writing the records "mine" of process p leaves.
LEMMA PersistEffect ==
  ASSUME StoreTypeOK, NEW p \in Processes, IsOpen(p), NEW mine \in RecordMaps,
         NEW mishap \in SUBSET {"undeleted"}, Persist(p, mine, mishap)
  PROVE  /\ file' \in {mine, file, Torn}
         /\ \A q \in Processes : q # p => records'[q] = records[q]
         /\ records'[p] \in {mine, Closed}
         /\ records' \in [Processes -> RecordMaps \cup {Closed, Unsupported}]
         /\ mishaps \cup mishap \subseteq mishaps'
         /\ mishaps' \subseteq mishaps \cup mishap \cup {"torn", "refused"}
<1>1. PICK wrote \in {"all", "part", "nothing"}, lives \in BOOLEAN :
        /\ file' = CASE wrote = "all" -> mine
                     [] wrote = "part" -> Torn
                     [] wrote = "nothing" -> file
        /\ records' = [records EXCEPT ![p] = IF lives THEN mine ELSE Closed]
        /\ mishaps' = mishaps \cup mishap
                      \cup (IF wrote = "part" THEN {"torn"} ELSE {})
                      \cup (IF wrote = "nothing" /\ lives THEN {"refused"} ELSE {})
  BY DEF Persist
<1>2. records' \in [Processes -> RecordMaps \cup {Closed, Unsupported}]
  BY <1>1 DEF StoreTypeOK
<1>3. file' \in {mine, file, Torn}
  BY <1>1
<1>4. mishaps \cup mishap \subseteq mishaps' /\ mishaps' \subseteq mishaps \cup mishap \cup {"torn", "refused"}
  BY <1>1
<1>5. /\ \A q \in Processes : q # p => records'[q] = records[q]
      /\ records'[p] \in {mine, Closed}
  BY <1>1 DEF StoreTypeOK
<1>6. QED
  BY <1>2, <1>3, <1>4, <1>5

\* A call gives credential id a status, and the keychain what the call answers or,
\* if it would not delete a secret, leaves it.  All of the inductive invariant holds
\* after it, however far the writing of the file came.
LEMMA CallStep ==
  ASSUME StoreInv, NEW p \in Processes, NEW id \in CredentialIds, IsOpen(p),
         NEW status \in RecordStatuses, NEW answer \in Secrets \cup {NoSecret},
         NEW mishap \in SUBSET {"undeleted"}, Call(p, id, status, answer, mishap),
         \/ keychain' = [keychain EXCEPT ![id] = answer]
         \/ keychain' = keychain /\ mishap = {"undeleted"} /\ answer = NoSecret,
         status = "active" => answer # NoSecret /\ keychain' = [keychain EXCEPT ![id] = answer],
         status # "active" => answer = NoSecret
  PROVE  StoreInv'
<1> DEFINE mine == [records[p] EXCEPT ![id] = status]
           done == file' = mine /\ records'[p] = mine
<1>1. /\ keychain \in [CredentialIds -> Secrets \cup {NoSecret}]
      /\ expected \in [CredentialIds -> SUBSET (Secrets \cup {NoSecret})]
      /\ file \in RecordMaps \cup {Torn} /\ mishaps \subseteq Mishaps
      /\ records \in [Processes -> RecordMaps \cup {Closed, Unsupported}]
  BY DEF StoreInv, StoreTypeOK
<1>2. records[p] \in RecordMaps
  BY <1>1 DEF IsOpen
<1>3. mine \in RecordMaps /\ mine[id] = status
      /\ \A k \in CredentialIds : k # id => mine[k] = records[p][k]
  BY <1>2 DEF RecordMaps
<1>4. /\ Persist(p, mine, mishap)
      /\ expected' = [expected EXCEPT ![id] =
                        IF done THEN {answer}
                        ELSE (IF @ = {} THEN {NoSecret} ELSE @) \cup {answer}]
  BY DEF Call
<1> HIDE DEF mine
<1>5. /\ file' \in {mine, file, Torn}
      /\ \A q \in Processes : q # p => records'[q] = records[q]
      /\ records'[p] \in {mine, Closed}
      /\ records' \in [Processes -> RecordMaps \cup {Closed, Unsupported}]
      /\ mishaps \cup mishap \subseteq mishaps'
      /\ mishaps' \subseteq mishaps \cup mishap \cup {"torn", "refused"}
  <2>1. StoreTypeOK
    BY DEF StoreInv
  <2>2. QED
    BY <1>3, <1>4, <2>1, PersistEffect
<1> HIDE DEF done
<1>6. /\ answer \in expected'[id] /\ expected'[id] \subseteq Secrets \cup {NoSecret}
      /\ ~done => NoSecret \in expected'[id] \/ expected[id] # {}
      /\ ~done => expected[id] \subseteq expected'[id]
      /\ \A k \in CredentialIds : k # id => expected'[k] = expected[k]
      /\ expected' \in [CredentialIds -> SUBSET (Secrets \cup {NoSecret})]
  BY <1>1, <1>4
<1>7. /\ \A k \in CredentialIds : k # id => keychain'[k] = keychain[k]
      /\ keychain' \in [CredentialIds -> Secrets \cup {NoSecret}]
      /\ keychain'[id] = answer \/ (keychain' = keychain /\ mishap = {"undeleted"})
      /\ status = "active" => keychain'[id] = answer
  BY <1>1
<1>8. StoreTypeOK'
  BY <1>1, <1>3, <1>5, <1>6, <1>7 DEF StoreTypeOK, Mishaps
<1>9. UnusedIsBlank'
  <2>1. ASSUME NEW k \in CredentialIds, expected'[k] = {}
        PROVE  /\ keychain'[k] = NoSecret
               /\ file' # Torn => file'[k] = "absent"
               /\ \A q \in Processes : IsOpen(q)' => records'[q][k] = "absent"
    <3>1. k # id /\ expected[k] = {}
      BY <1>6, <2>1
    <3>2. /\ keychain[k] = NoSecret /\ (file # Torn => file[k] = "absent")
          /\ \A q \in Processes : IsOpen(q) => records[q][k] = "absent"
      BY <3>1 DEF StoreInv, UnusedIsBlank
    <3>3. mine[k] = "absent"
      BY <1>3, <3>1, <3>2
    <3>4. ASSUME NEW q \in Processes, IsOpen(q)'
          PROVE  records'[q][k] = "absent"
      BY <1>5, <3>2, <3>3, <3>4 DEF IsOpen
    <3>5. QED
      BY <1>5, <1>7, <3>1, <3>2, <3>3, <3>4
  <2>2. QED
    BY <2>1 DEF UnusedIsBlank
<1>10. ASSUME "overlap" \notin mishaps', NEW k \in CredentialIds, expected'[k] # {}
       PROVE  /\ file' # Torn => Answered(file', keychain', k) \in expected'[k]
              /\ Answered(mine, keychain', k) \in expected'[k]
  <2>1. "overlap" \notin mishaps
    BY <1>5, <1>10
  <2>2. k # id => /\ file # Torn => Answered(file, keychain, k) \in expected[k]
                  /\ Answered(records[p], keychain, k) \in expected[k]
    BY <1>6, <1>10, <2>1 DEF StoreInv, OneProcess
  <2>3. k # id => Answered(mine, keychain', k) = Answered(records[p], keychain, k)
    BY <1>3, <1>7 DEF Answered
  <2>4. k # id => (file' = file => Answered(file', keychain', k) = Answered(file, keychain, k))
    BY <1>7 DEF Answered
  <2>5. Answered(mine, keychain', id) = answer
    BY <1>3, <1>7 DEF Answered
  <2>6. CASE k # id
    <3>1. Answered(mine, keychain', k) \in expected'[k]
      BY <1>6, <2>2, <2>3, <2>6
    <3>2. file' = mine => Answered(file', keychain', k) = Answered(mine, keychain', k)
      BY DEF Answered
    <3>3. QED
      BY <1>5, <1>6, <2>2, <2>4, <2>6, <3>1, <3>2
  <2>7. CASE k = id
    <3>1. Answered(mine, keychain', k) \in expected'[k]
      BY <1>6, <2>5, <2>7
    <3>2. file' = mine => Answered(file', keychain', k) = Answered(mine, keychain', k)
      BY DEF Answered
    <3>3. ASSUME file' = file, file # Torn, file' # mine
          PROVE  Answered(file', keychain', id) \in expected'[id]
      <4>1. ~done
        BY <3>3 DEF done
      <4>2. file[id] = "active" /\ keychain'[id] = answer => Answered(file', keychain', id) = answer
        BY <3>3 DEF Answered
      <4>3. ASSUME keychain' = keychain \/ file[id] # "active"
            PROVE  Answered(file', keychain', id) = Answered(file, keychain, id)
        BY <3>3, <4>3 DEF Answered
      <4>4. expected[id] # {} => Answered(file, keychain, id) \in expected[id]
        BY <2>1, <3>3 DEF StoreInv, OneProcess
      <4>5. expected[id] = {} => Answered(file, keychain, id) = NoSecret
        BY <3>3 DEF StoreInv, UnusedIsBlank, Answered
      <4>6. QED
        BY <1>6, <1>7, <4>1, <4>2, <4>3, <4>4, <4>5
    <3>4. QED
      BY <1>5, <2>7, <3>1, <3>2, <3>3
  <2>8. QED
    BY <2>6, <2>7
<1>11. OneProcess'
  <2>1. ASSUME "overlap" \notin mishaps'
        PROVE  \A q \in Processes : q # p => records'[q] = Closed
    <3>1. "overlap" \notin mishaps
      BY <1>5, <2>1
    <3>2. \A q \in Processes : q # p => records[q] = Closed
      BY <3>1 DEF StoreInv, OneProcess, IsOpen
    <3>3. QED
      BY <1>5, <3>2
  <2>2. ASSUME "overlap" \notin mishaps', NEW k \in CredentialIds, expected'[k] # {},
               NEW q \in Processes, IsOpen(q)'
        PROVE  Answered(records'[q], keychain', k) \in expected'[k]
    <3>1. records'[q] = mine
      BY <1>5, <2>1, <2>2 DEF IsOpen
    <3>2. Answered(records'[q], keychain', k) = Answered(mine, keychain', k)
      BY <3>1 DEF Answered
    <3>3. QED
      BY <1>10, <2>2, <3>2
  <2>3. QED
    BY <1>10, <2>1, <2>2 DEF OneProcess
<1>12. KeychainFollows'
  <2>1. ASSUME "undeleted" \notin mishaps', NEW k \in CredentialIds
        PROVE  keychain'[k] \in expected'[k] \cup {NoSecret}
    <3>1. "undeleted" \notin mishaps /\ mishap = {}
      BY <1>5, <2>1
    <3>2. keychain[k] \in expected[k] \cup {NoSecret}
      BY <3>1 DEF StoreInv, KeychainFollows
    <3>3. QED
      BY <1>6, <1>7, <3>1, <3>2
  <2>2. QED
    BY <2>1 DEF KeychainFollows
<1>13. QED
  BY <1>8, <1>9, <1>11, <1>12 DEF StoreInv

\* Writing the file without a change, as a read does, is no call.
LEMMA MarkStep ==
  ASSUME StoreInv, NEW p \in Processes, IsOpen(p), Persist(p, records[p], {}),
         UNCHANGED <<keychain, expected>>
  PROVE  StoreInv'
<1>1. records[p] \in RecordMaps /\ StoreTypeOK
  BY DEF StoreInv, StoreTypeOK, IsOpen
<1>2. /\ file' \in {records[p], file, Torn}
      /\ \A q \in Processes : q # p => records'[q] = records[q]
      /\ records'[p] \in {records[p], Closed}
      /\ records' \in [Processes -> RecordMaps \cup {Closed, Unsupported}]
      /\ mishaps \subseteq mishaps'
      /\ mishaps' \subseteq mishaps \cup {"torn", "refused"}
  <2>1. {} \in SUBSET {"undeleted"}
    OBVIOUS
  <2>2. QED
    BY <1>1, <2>1, PersistEffect
<1>3. \A q \in Processes : records'[q] = records[q] \/ records'[q] = Closed
  BY <1>2
<1>4. StoreTypeOK'
  BY <1>1, <1>2 DEF StoreTypeOK, Mishaps
<1>5. UnusedIsBlank'
  BY <1>1, <1>2, <1>3 DEF StoreInv, UnusedIsBlank, IsOpen
<1>6. OneProcess'
  <2>2. ASSUME "overlap" \notin mishaps', NEW k \in CredentialIds, expected'[k] # {}
        PROVE  /\ file' # Torn => Answered(file', keychain', k) \in expected[k]
               /\ \A q \in Processes : IsOpen(q)' => Answered(records'[q], keychain', k) \in expected[k]
    BY <1>2, <1>3, <2>2 DEF StoreInv, OneProcess, IsOpen
  <2>3. "overlap" \notin mishaps' => \A q, r \in Processes : records'[q] # Closed /\ records'[r] # Closed => q = r
    BY <1>2, <1>3 DEF StoreInv, OneProcess
  <2>4. QED
    BY <2>2, <2>3 DEF OneProcess
<1>7. KeychainFollows'
  BY <1>2 DEF StoreInv, KeychainFollows
<1>8. QED
  BY <1>4, <1>5, <1>6, <1>7 DEF StoreInv

\* A process opens the store, and whoever else has it open is an overlap.
LEMMA OpenStep ==
  ASSUME StoreInv, NEW p \in Processes, Open(p)
  PROVE  StoreInv'
<1>1. StoreTypeOK
  BY DEF StoreInv
<1>2. /\ records[p] = Closed /\ UNCHANGED <<keychain, file, expected>>
      /\ records' = [records EXCEPT ![p] = IF file = Torn THEN Unsupported ELSE file]
      /\ mishaps \subseteq mishaps' /\ mishaps' \subseteq mishaps \cup {"overlap"}
      /\ (\E q \in Processes \ {p} : records[q] # Closed) => "overlap" \in mishaps'
  BY DEF Open
<1>3. /\ \A q \in Processes : q # p => records'[q] = records[q]
      /\ records'[p] = IF file = Torn THEN Unsupported ELSE file
      /\ records' \in [Processes -> RecordMaps \cup {Closed, Unsupported}]
  BY <1>1, <1>2 DEF StoreTypeOK
<1>4. StoreTypeOK'
  BY <1>1, <1>2, <1>3 DEF StoreTypeOK, Mishaps
<1>5. \A q \in Processes : IsOpen(q)' => IF q = p THEN records'[p] = file /\ file # Torn
                                          ELSE IsOpen(q) /\ records'[q] = records[q]
  BY <1>3 DEF IsOpen
<1>6. UnusedIsBlank'
  BY <1>2, <1>5 DEF StoreInv, UnusedIsBlank
<1>7. OneProcess'
  <2>1. ASSUME "overlap" \notin mishaps'
        PROVE  \A q \in Processes : q # p => records'[q] = Closed
    BY <1>2, <1>3, <2>1
  <2>2. ASSUME "overlap" \notin mishaps', NEW k \in CredentialIds, expected[k] # {}
        PROVE  /\ file # Torn => Answered(file, keychain, k) \in expected[k]
               /\ \A q \in Processes : IsOpen(q) => Answered(records[q], keychain, k) \in expected[k]
    BY <1>2, <2>2 DEF StoreInv, OneProcess
  <2>3. ASSUME "overlap" \notin mishaps', NEW k \in CredentialIds, expected[k] # {},
               NEW q \in Processes, IsOpen(q)'
        PROVE  Answered(records'[q], keychain, k) \in expected[k]
    BY <1>5, <2>2, <2>3
  <2>4. QED
    BY <1>2, <2>1, <2>2, <2>3 DEF OneProcess
<1>8. KeychainFollows'
  BY <1>2 DEF StoreInv, KeychainFollows
<1>9. QED
  BY <1>4, <1>6, <1>7, <1>8 DEF StoreInv

LEMMA StopStep ==
  ASSUME StoreInv, NEW p \in Processes, Stop(p)
  PROVE  StoreInv'
<1>1. /\ UNCHANGED <<keychain, file, expected, mishaps>>
      /\ \A q \in Processes : records'[q] = records[q] \/ records'[q] = Closed
      /\ records' \in [Processes -> RecordMaps \cup {Closed, Unsupported}]
  BY DEF Stop, StoreInv, StoreTypeOK
<1>2. StoreTypeOK'
  BY <1>1 DEF StoreInv, StoreTypeOK
<1>3. UnusedIsBlank' /\ KeychainFollows'
  BY <1>1 DEF StoreInv, UnusedIsBlank, KeychainFollows, IsOpen
<1>4. OneProcess'
  BY <1>1 DEF StoreInv, OneProcess, IsOpen
<1>5. QED
  BY <1>2, <1>3, <1>4 DEF StoreInv

LEMMA StoreCallStep ==
  ASSUME StoreInv, NEW p \in Processes, NEW id \in CredentialIds, NEW secret \in Secrets,
         store_credential(p, id, secret) \/ update_credential(p, id, secret)
  PROVE  StoreInv'
<1>1. /\ IsOpen(p) /\ keychain' = [keychain EXCEPT ![id] = secret]
      /\ Call(p, id, "active", secret, {})
  BY DEF store_credential, update_credential, Known
<1>2. secret # NoSecret
  BY NoSecretAssumption
<1>3. "active" \in RecordStatuses /\ {} \in SUBSET {"undeleted"}
  BY DEF RecordStatuses
<1>4. QED
  BY <1>1, <1>2, <1>3, CallStep

LEMMA WithoutSecretStep ==
  ASSUME StoreInv, NEW p \in Processes, NEW id \in CredentialIds,
         revoke_credential(p, id) \/ delete_credential(p, id)
  PROVE  StoreInv'
<1>1. PICK status \in {"revoked", "absent"} : WithoutSecret(p, id, status)
  BY DEF revoke_credential, delete_credential
<1>2. status \in RecordStatuses /\ status # "active"
  BY DEF RecordStatuses
<1>3. CASE keychain' = [keychain EXCEPT ![id] = NoSecret] /\ Call(p, id, status, NoSecret, {})
  <2>1. {} \in SUBSET {"undeleted"} /\ IsOpen(p)
    BY <1>1 DEF WithoutSecret, Known
  <2>2. QED
    BY <1>2, <1>3, <2>1, CallStep
<1>4. CASE UNCHANGED keychain /\ Call(p, id, status, NoSecret, {"undeleted"})
  <2>1. {"undeleted"} \in SUBSET {"undeleted"} /\ IsOpen(p)
    BY <1>1 DEF WithoutSecret, Known
  <2>2. QED
    BY <1>2, <1>4, <2>1, CallStep
<1>5. QED
  BY <1>1, <1>3, <1>4 DEF WithoutSecret

\* The inductive invariant holds in every behavior.
LEMMA StoreInvariant == StoreSpec => []StoreInv
<1>1. StoreInit => StoreInv
  <2> SUFFICES ASSUME StoreInit PROVE StoreInv
    OBVIOUS
  <2>1. file \in RecordMaps /\ file # Torn
    BY ProcessStatesAssumption DEF StoreInit, RecordMaps, RecordStatuses
  <2>2. StoreTypeOK
    BY <2>1 DEF StoreInit, StoreTypeOK
  <2>3. QED
    BY <2>2 DEF StoreInit, StoreInv, UnusedIsBlank, OneProcess, KeychainFollows, IsOpen
<1>2. StoreInv /\ [StoreNext]_storeVars => StoreInv'
  <2> SUFFICES ASSUME StoreInv, [StoreNext]_storeVars PROVE StoreInv'
    OBVIOUS
  <2>1. CASE UNCHANGED storeVars
    BY <2>1 DEF storeVars, StoreInv, StoreTypeOK, UnusedIsBlank, OneProcess, KeychainFollows, IsOpen
  <2>2. ASSUME NEW p \in Processes, Open(p) \/ Stop(p)
        PROVE  StoreInv'
    BY <2>2, OpenStep, StopStep
  <2>3. ASSUME NEW p \in Processes, NEW id \in CredentialIds,
               revoke_credential(p, id) \/ delete_credential(p, id)
        PROVE  StoreInv'
    BY <2>3, WithoutSecretStep
  <2>4. ASSUME NEW p \in Processes, NEW id \in CredentialIds,
               retrieve_secret(p, id) \/ rotate_credential_placeholder(p, id)
        PROVE  StoreInv'
    BY <2>4, MarkStep DEF retrieve_secret, rotate_credential_placeholder, Known
  <2>5. ASSUME NEW p \in Processes, NEW id \in CredentialIds, NEW secret \in Secrets,
               store_credential(p, id, secret) \/ update_credential(p, id, secret)
        PROVE  StoreInv'
    BY <2>5, StoreCallStep
  <2>6. QED
    BY <2>1, <2>2, <2>3, <2>4, <2>5 DEF StoreNext
<1>3. QED
  BY <1>1, <1>2, PTL DEF StoreSpec

\* For any number of processes, credentials and secrets: with one process at a time
\* a cut-off call of OsCredentialStore was made or not made, and no process ever
\* brings back a secret that was replaced or revoked and that the keychain deleted.
THEOREM CredentialsAlwaysAnswer == StoreSpec => []CredentialsAnswer
<1>1. StoreInv => CredentialsAnswer
  <2> SUFFICES ASSUME StoreInv, NEW p \in Processes, NEW id \in CredentialIds,
                      expected[id] # {}, IsOpen(p)
               PROVE  /\ "overlap" \notin mishaps => Retrieved(p, id) \in expected[id]
                      /\ "undeleted" \notin mishaps =>
                           Retrieved(p, id) \in expected[id] \cup {NoSecret}
    BY DEF CredentialsAnswer
  <2>1. Retrieved(p, id) = Answered(records[p], keychain, id)
    BY DEF Retrieved, Answered
  <2>2. Retrieved(p, id) \in {keychain[id], NoSecret}
    BY DEF Retrieved
  <2>3. QED
    BY <2>1, <2>2 DEF StoreInv, OneProcess, KeychainFollows
<1>2. QED
  BY <1>1, StoreInvariant, PTL

\* The keychain, the file and the records of every process are well formed.
THEOREM StoreTypes == StoreSpec => []StoreTypeOK
<1>1. StoreInv => StoreTypeOK
  BY DEF StoreInv
<1>2. QED
  BY <1>1, StoreInvariant, PTL

-----------------------------------------------------------------------------
(***************************************************************************)
(* The parts together.                                                     *)
(***************************************************************************)

\* The composition that is model-checked is faithful to its parts: each of them
\* does what its own specification allows, and nothing else changes its state.
LEMMA PartsBehave == Spec => UploadsSpec /\ ProfilesSpec /\ StoreSpec
<1>1. Init => UploadsInit /\ ProfilesInit /\ StoreInit
  BY DEF Init
<1>2. [Next]_<<uploadVars, profileVars, storeVars>> => [UploadsNext]_uploadVars
  BY DEF Next, UploadsIdle, ProfilesIdle, StoreIdle
<1>3. [Next]_<<uploadVars, profileVars, storeVars>> => [ProfilesNext]_profileVars
  BY DEF Next, UploadsIdle, ProfilesIdle, StoreIdle
<1>4. [Next]_<<uploadVars, profileVars, storeVars>> => [StoreNext]_storeVars
  BY DEF Next, UploadsIdle, ProfilesIdle, StoreIdle
<1>5. QED
  BY <1>1, <1>2, <1>3, <1>4, PTL DEF Spec, UploadsSpec, ProfilesSpec, StoreSpec

\* The tables of uploads, profiles and credentials hold records of the identifiers
\* that were drawn, by accounts that exist, in server and store, after any request,
\* failing save, restart or import.
THEOREM WorkspaceTypes == Spec => []TypeOK
<1>1. UploadsTypeOK /\ ProfilesTypeOK /\ StoreTypeOK => TypeOK
  BY DEF TypeOK
<1>2. QED
  BY <1>1, PartsBehave, UploadTypes, ProfileTypes, StoreTypes, PTL

\* What is proved of the parts holds of the whole: no upload is repeated silently,
\* defaults are unique, assignments resolve, and reading a
\* credential gives what its last call stored, or was cut off from storing.
THEOREM WorkspaceIsSafe ==
  Spec => [](/\ NoSilentRepeat
             /\ OneDefault /\ AssignmentsResolve
             /\ CredentialsAnswer)
  BY PartsBehave, UploadsAreNotRepeated, OneDefaultHolds, AssignmentsStay,
     CredentialsAlwaysAnswer, PTL
=============================================================================
