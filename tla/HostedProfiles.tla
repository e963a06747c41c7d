--------------------------- MODULE HostedProfiles ---------------------------
(* Station profiles and equipment of one hosted logbook, and the part of a  *)
(* backup that holds them.  A station is default exactly when it is active, *)
(* and is never removed.  Every account that administers the logbook has    *)
(* stations and equipment of its own in it, but the logbook has one default *)
(* station.                                                                 *)
EXTENDS MetadataStore

CONSTANTS Owners, MaxStations, MaxEquipment, MaxProfileFiles, MaxProfileFaults

ASSUME ProfileBoundsAssumption ==
    {MaxStations, MaxEquipment, MaxProfileFiles, MaxProfileFaults} \subseteq Nat

VARIABLES
    profiles,        \* members, stations and equipment in the server
    savedProfiles,   \* the same tables in the metadata store
    profileFiles,    \* exported backups
    drawn,           \* how many station and equipment identifiers were drawn
    imported,        \* history: a backup was imported
    takenOver,       \* history: an account imported what another one exported
    halfSaved,       \* history: the server was started from half a save
    profileFaults

profileVars == <<profiles, savedProfiles, profileFiles, drawn, imported, takenOver,
                 halfSaved, profileFaults>>

NoStation == 0
ProfileOrder == [members |-> 1, stations |-> 2, equipment |-> 3]
NoProfiles == [members |-> {}, stations |-> <<>>, equipment |-> <<>>]

Insert(table, id, row) ==
    [k \in DOMAIN table \cup {id} |-> IF k = id THEN row ELSE table[k]]
Merge(table, rows) ==
    [k \in DOMAIN table \cup DOMAIN rows |->
        IF k \in DOMAIN rows THEN rows[k] ELSE table[k]]
OwnedBy(a, table) == [k \in {id \in DOMAIN table : table[id].by = a} |-> table[k]]
HandedTo(a, table) == [k \in DOMAIN table |-> [table[k] EXCEPT !.by = a]]

(* persist_metadata: completed, failed with the change kept in memory, or   *)
(* stopped half-way and followed by a restart.                              *)
SaveProfiles(db) ==
    \/ /\ profiles' = db /\ savedProfiles' = db
       /\ UNCHANGED <<halfSaved, profileFaults>>
    \/ /\ profileFaults < MaxProfileFaults /\ profileFaults' = profileFaults + 1
       /\ profiles' = db
       /\ UNCHANGED <<savedProfiles, halfSaved>>
    \/ /\ profileFaults < MaxProfileFaults /\ profileFaults' = profileFaults + 1
       /\ savedProfiles' \in StoppedSaves(ProfileOrder, NoProfiles, savedProfiles, db)
       /\ profiles' = savedProfiles'
       /\ halfSaved' = (halfSaved \/ savedProfiles' \notin {savedProfiles, db})

Holds(a, table, id) == id \in DOMAIN table /\ table[id].by = a

----------------------------------------------------------------------------
(* The one default of the logbook: choosing a station takes it from every   *)
(* other, whoever owns that one.                                            *)
OnlyDefault_of_owner(stations, chosen) ==
    [s \in DOMAIN stations |->
        IF stations[s].by = stations[chosen].by
        THEN [stations[s] EXCEPT !.default = (s = chosen)] ELSE stations[s]]

OnlyDefault(stations, chosen) ==
    [s \in DOMAIN stations |-> [stations[s] EXCEPT !.default = (s = chosen)]]

(* create_station_profile: the first of the logbook becomes the default.    *)
CreateStation(a, active) ==
    /\ a \in profiles.members
    /\ drawn.stations < MaxStations
    /\ drawn' = [drawn EXCEPT !.stations = @ + 1]
    /\ LET s == drawn.stations + 1
           stations == Insert(profiles.stations, s, [by |-> a, default |-> FALSE])
           chosen == active \/ profiles.stations = <<>>
       IN SaveProfiles([profiles EXCEPT !.stations =
                IF chosen THEN OnlyDefault(stations, s) ELSE stations])
    /\ UNCHANGED <<profileFiles, imported, takenOver>>

(* set_default_station_profile, and patch_station_profile with active.      *)
SetDefaultStation(a, s) ==
    /\ a \in profiles.members /\ Holds(a, profiles.stations, s)
    /\ SaveProfiles([profiles EXCEPT !.stations = OnlyDefault(@, s)])
    /\ UNCHANGED <<profileFiles, drawn, imported, takenOver>>

(* archive_station_profile, and patch_station_profile with inactive: the    *)
(* equipment keeps the assignment.                                          *)
ArchiveStation(a, s) ==
    /\ a \in profiles.members /\ Holds(a, profiles.stations, s)
    /\ SaveProfiles([profiles EXCEPT !.stations[s].default = FALSE])
    /\ UNCHANGED <<profileFiles, drawn, imported, takenOver>>

----------------------------------------------------------------------------
(* validate_station_assignment.                                             *)
MayAssign_any_account(a, s) == s = NoStation \/ s \in DOMAIN profiles.stations

MayAssign(a, s) == s = NoStation \/ Holds(a, profiles.stations, s)

CreateEquipment(a, station) ==
    /\ a \in profiles.members
    /\ drawn.equipment < MaxEquipment
    /\ drawn' = [drawn EXCEPT !.equipment = @ + 1]
    /\ MayAssign(a, station)
    /\ SaveProfiles([profiles EXCEPT !.equipment =
            Insert(@, drawn.equipment + 1,
                   [by |-> a, station |-> station, retired |-> FALSE])])
    /\ UNCHANGED <<profileFiles, imported, takenOver>>

(* patch_equipment checks the assignment it ends up with, also one it kept. *)
PatchEquipment(a, e, station, retired) ==
    /\ a \in profiles.members /\ Holds(a, profiles.equipment, e)
    /\ LET assigned == IF station = NoStation THEN profiles.equipment[e].station
                       ELSE station
       IN /\ MayAssign(a, assigned)
          /\ SaveProfiles([profiles EXCEPT !.equipment[e] =
                [@ EXCEPT !.station = assigned, !.retired = retired]])
    /\ UNCHANGED <<profileFiles, drawn, imported, takenOver>>

ArchiveEquipment(a, e) ==
    /\ a \in profiles.members /\ Holds(a, profiles.equipment, e)
    /\ SaveProfiles([profiles EXCEPT !.equipment[e].retired = TRUE])
    /\ UNCHANGED <<profileFiles, drawn, imported, takenOver>>

----------------------------------------------------------------------------
(* export_backup: what belongs to the account.  A file whose save failed is *)
(* still served from memory.                                                *)
ExportProfiles(a) ==
    /\ a \in profiles.members
    /\ Cardinality(profileFiles) < MaxProfileFiles
    /\ profileFiles' = profileFiles \cup
            {[by |-> a, stations |-> OwnedBy(a, profiles.stations),
              equipment |-> OwnedBy(a, profiles.equipment)]}
    /\ SaveProfiles(profiles) /\ profiles' = profiles
    /\ UNCHANGED <<drawn, imported, takenOver>>

(* restore_backup_support_metadata: the records replace those with the same *)
(* identifier and go to the importer, a default one beside another default. *)
ImportProfiles(a, file) ==
    /\ a \in profiles.members
    /\ imported' = TRUE
    /\ takenOver' = (takenOver \/ file.by # a)
    /\ SaveProfiles([profiles EXCEPT
            !.stations = Merge(@, HandedTo(a, file.stations)),
            !.equipment = Merge(@, HandedTo(a, file.equipment))])
    /\ UNCHANGED <<profileFiles, drawn>>

RestartProfiles ==
    /\ profiles' = savedProfiles
    /\ UNCHANGED <<savedProfiles, profileFiles, drawn, imported, takenOver, halfSaved,
                   profileFaults>>

----------------------------------------------------------------------------
ProfilesInit ==
    /\ profiles = [NoProfiles EXCEPT !.members = Owners]
    /\ savedProfiles = profiles
    /\ profileFiles = {}
    /\ drawn = [stations |-> 0, equipment |-> 0]
    /\ imported = FALSE /\ takenOver = FALSE /\ halfSaved = FALSE
    /\ profileFaults = 0

ProfilesNext ==
    \/ \E a \in Owners :
        \/ \E active \in BOOLEAN : CreateStation(a, active)
        \/ \E s \in DOMAIN profiles.stations :
              SetDefaultStation(a, s) \/ ArchiveStation(a, s)
        \/ \E station \in {NoStation} \cup DOMAIN profiles.stations :
              \/ CreateEquipment(a, station)
              \/ \E e \in DOMAIN profiles.equipment, retired \in BOOLEAN :
                    PatchEquipment(a, e, station, retired)
        \/ \E e \in DOMAIN profiles.equipment : ArchiveEquipment(a, e)
        \/ ExportProfiles(a)
        \/ \E file \in profileFiles : ImportProfiles(a, file)
    \/ RestartProfiles

ProfilesSpec == ProfilesInit /\ [][ProfilesNext]_profileVars

----------------------------------------------------------------------------
Defaults(stations) == {s \in DOMAIN stations : stations[s].default}

ProfilesTypeOK ==
    \A db \in {profiles, savedProfiles} :
        /\ db.members \subseteq Owners
        /\ \A s \in DOMAIN db.stations : s \in 1 .. drawn.stations
        /\ \A e \in DOMAIN db.equipment :
              /\ e \in 1 .. drawn.equipment
              /\ db.equipment[e].station \in 0 .. drawn.stations

(* A logbook has at most one default station, whichever of its accounts     *)
(* created, chose or archived stations, and whichever of its saves failed:  *)
(* only the import of a backup puts a second one beside it.                 *)
OneDefault == imported \/ Cardinality(Defaults(profiles.stations)) <= 1

(* The station that equipment is assigned to exists and belongs to the same *)
(* account, through archiving, failed saves, restarts and imports of the    *)
(* account's own backups.  An import of another account's backup takes      *)
(* stations away from their owner.                                          *)
AssignmentsResolve ==
    takenOver \/ halfSaved \/
    \A e \in DOMAIN profiles.equipment :
        LET item == profiles.equipment[e] IN
        item.station = NoStation \/ Holds(item.by, profiles.stations, item.station)
=============================================================================
