-------------------------- MODULE CredentialStore --------------------------
(* The credential store of a desktop (OsCredentialStore): the secrets are   *)
(* in the keychain of the platform, and a file says which exist and are     *)
(* active.  Every process keeps the records it loaded when it opened the    *)
(* store and writes all of them back with every call, a read included.  The *)
(* desktop server holds the store open while commands open it again.        *)
EXTENDS Naturals, FiniteSets

CONSTANTS CredentialIds, Secrets, Processes, NoSecret, Torn, Closed, Unsupported

ASSUME NoSecretAssumption == NoSecret \notin Secrets

VARIABLES
    keychain,      \* a secret for each credential, or none
    file,          \* the records that were written last, or Torn
    records,       \* the records of a process, or Closed, or Unsupported
    expected,      \* history: what reading a credential may answer
    mishaps        \* history: what went wrong so far

storeVars == <<keychain, file, records, expected, mishaps>>

RecordStatuses == {"absent", "active", "revoked"}
RecordMaps == [CredentialIds -> RecordStatuses]
Mishaps == {"overlap", "refused", "torn", "undeleted"}

ASSUME ProcessStatesAssumption ==
    Closed # Unsupported /\ {Closed, Unsupported, Torn} \cap RecordMaps = {}

IsOpen(p) == records[p] \notin {Closed, Unsupported}

----------------------------------------------------------------------------
(* default_credential_store: a file that cannot be read gives a store that  *)
(* refuses every call.                                                      *)
Open(p) ==
    /\ records[p] = Closed
    /\ records' = [records EXCEPT ![p] = IF file = Torn THEN Unsupported ELSE file]
    /\ mishaps' = IF \E q \in Processes \ {p} : records[q] # Closed
                  THEN mishaps \cup {"overlap"} ELSE mishaps
    /\ UNCHANGED <<keychain, file, expected>>

Stop(p) ==
    /\ records[p] # Closed
    /\ records' = [records EXCEPT ![p] = Closed]
    /\ UNCHANGED <<keychain, file, expected, mishaps>>

(* The file is written over in place by all the records of the process; the *)
(* keychain was changed before.  The write may be refused, or break off, and *)
(* the process may end before or in it.                                     *)
Persist(p, mine, mishap) ==
    \E wrote \in {"all", "part", "nothing"}, lives \in BOOLEAN :
        /\ wrote = "all" => lives
        /\ file' = CASE wrote = "all" -> mine
                     [] wrote = "part" -> Torn
                     [] wrote = "nothing" -> file
        /\ records' = [records EXCEPT ![p] = IF lives THEN mine ELSE Closed]
        /\ mishaps' = mishaps \cup mishap
                      \cup (IF wrote = "part" THEN {"torn"} ELSE {})
                      \cup (IF wrote = "nothing" /\ lives THEN {"refused"} ELSE {})

(* A call that wrote everything is done, another one may be.                *)
Call(p, id, status, answer, mishap) ==
    LET mine == [records[p] EXCEPT ![id] = status]
    IN /\ Persist(p, mine, mishap)
       /\ expected' = [expected EXCEPT ![id] =
                         IF file' = mine /\ records'[p] = mine THEN {answer}
                         ELSE (IF @ = {} THEN {NoSecret} ELSE @) \cup {answer}]

----------------------------------------------------------------------------
(* A credential has a new identifier.                                       *)
store_credential(p, id, secret) ==
    /\ IsOpen(p) /\ expected[id] = {}
    /\ keychain' = [keychain EXCEPT ![id] = secret]
    /\ Call(p, id, "active", secret, {})

Known(p, id) == IsOpen(p) /\ records[p][id] # "absent"

(* Mutation: a revoked credential that gets a new secret stays revoked.     *)
update_credential_keeping_status(p, id, secret) ==
    /\ Known(p, id)
    /\ keychain' = [keychain EXCEPT ![id] = secret]
    /\ Call(p, id, records[p][id], secret, {})

update_credential(p, id, secret) ==
    /\ Known(p, id)
    /\ keychain' = [keychain EXCEPT ![id] = secret]
    /\ Call(p, id, "active", secret, {})

(* That the keychain fails to delete a secret is passed over.               *)
WithoutSecret(p, id, status) ==
    /\ Known(p, id)
    /\ \/ /\ keychain' = [keychain EXCEPT ![id] = NoSecret]
          /\ Call(p, id, status, NoSecret, {})
       \/ /\ UNCHANGED keychain
          /\ Call(p, id, status, NoSecret, {"undeleted"})

revoke_credential(p, id) == WithoutSecret(p, id, "revoked")

delete_credential(p, id) == WithoutSecret(p, id, "absent")

(* Using a secret, or asking for its rotation, marks the record and writes  *)
(* the file.                                                                *)
retrieve_secret(p, id) ==
    /\ IsOpen(p) /\ records[p][id] = "active" /\ keychain[id] # NoSecret
    /\ Persist(p, records[p], {})
    /\ UNCHANGED <<keychain, expected>>

rotate_credential_placeholder(p, id) ==
    /\ Known(p, id)
    /\ Persist(p, records[p], {})
    /\ UNCHANGED <<keychain, expected>>

----------------------------------------------------------------------------
StoreInit ==
    /\ keychain = [id \in CredentialIds |-> NoSecret]
    /\ file = [id \in CredentialIds |-> "absent"]
    /\ records = [p \in Processes |-> Closed]
    /\ expected = [id \in CredentialIds |-> {}]
    /\ mishaps = {}

StoreNext ==
    \E p \in Processes :
        \/ Open(p) \/ Stop(p)
        \/ \E id \in CredentialIds :
             \/ revoke_credential(p, id) \/ delete_credential(p, id)
             \/ retrieve_secret(p, id) \/ rotate_credential_placeholder(p, id)
             \/ \E secret \in Secrets :
                  store_credential(p, id, secret) \/ update_credential(p, id, secret)

StoreSpec == StoreInit /\ [][StoreNext]_storeVars

StoreTypeOK ==
    /\ keychain \in [CredentialIds -> Secrets \cup {NoSecret}]
    /\ file \in RecordMaps \cup {Torn}
    /\ records \in [Processes -> RecordMaps \cup {Closed, Unsupported}]
    /\ expected \in [CredentialIds -> SUBSET (Secrets \cup {NoSecret})]
    /\ mishaps \subseteq Mishaps

(* What retrieve_secret answers.                                            *)
Retrieved(p, id) ==
    IF IsOpen(p) /\ records[p][id] = "active" THEN keychain[id] ELSE NoSecret

(* While one process at a time uses the store, a call that was cut off, by  *)
(* the end of the process or by a write that was refused or torn, was made  *)
(* or not made, and so it stays over restarts: the keychain and the file    *)
(* never mix two credentials or two calls.  A second process can lose a     *)
(* credential, but never brings back a secret that was replaced or revoked, *)
(* unless the keychain kept it.                                             *)
CredentialsAnswer ==
    \A p \in Processes, id \in CredentialIds :
        expected[id] # {} /\ IsOpen(p) =>
            /\ "overlap" \notin mishaps => Retrieved(p, id) \in expected[id]
            /\ "undeleted" \notin mishaps => Retrieved(p, id) \in expected[id] \cup {NoSecret}
=============================================================================
