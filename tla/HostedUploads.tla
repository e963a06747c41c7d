--------------------------- MODULE HostedUploads ---------------------------
(* Uploads of one hosted logbook to one online provider, by the accounts    *)
(* that administer the logbook: the provider setting, the upload jobs, and  *)
(* the part of a backup that holds them.  An upload runs inside the request *)
(* that asks for it, under the lock of the state: a job is Running only     *)
(* within a step, and Queued only when a backup says so.  No answer of the  *)
(* provider says for certain whether it took the contacts.                  *)
EXTENDS MetadataStore

CONSTANTS Accounts, MaxQsos, MaxJobs, MaxAttempts, MaxImports, MaxUploadFaults

ASSUME UploadBoundsAssumption ==
    {MaxQsos, MaxJobs, MaxAttempts, MaxImports, MaxUploadFaults} \subseteq Nat

VARIABLES
    memory,       \* members, provider setting and jobs in the server
    disk,         \* the same tables in the metadata store
    logged,       \* how many contacts the official log holds
    accepted,     \* how often the provider took the contacts of a key
    unprotected,  \* history: the keys whose success the server may not know of
    created,      \* how many job identifiers were drawn, here or elsewhere
    attempts,
    imports,
    uploadFaults

uploadVars == <<memory, disk, logged, accepted, unprotected, created, attempts,
                imports, uploadFaults>>

Qsos == 1 .. MaxQsos
Keys == [by : Accounts, qsos : SUBSET Qsos \ {{}}]
Modes == {"off", "fake", "locked", "live"}
Settings == [by : Accounts, mode : Modes]
NoSetting == [by |-> "nobody", mode |-> "off"]
Statuses == {"Queued", "Succeeded", "Failed", "Retryable"}

UploadOrder == [members |-> 1, setting |-> 2, jobs |-> 3]
NoUploads == [members |-> {}, setting |-> NoSetting, jobs |-> <<>>]

With_next(jobs, id, job) ==
    [k \in DOMAIN jobs \cup {id + 1} |-> IF k = id + 1 THEN job ELSE jobs[k]]

With(jobs, id, job) ==
    [k \in DOMAIN jobs \cup {id} |-> IF k = id THEN job ELSE jobs[k]]

(* hosted_upload_idempotency_key, and the account it is looked up under.    *)
Key(job) == [by |-> job.by, qsos |-> job.qsos]

Succeeded(jobs, key) ==
    \E id \in DOMAIN jobs : Key(jobs[id]) = key /\ jobs[id].status = "Succeeded"

Forgotten(old, new) == {key \in Keys : Succeeded(old, key) /\ ~Succeeded(new, key)}

----------------------------------------------------------------------------
(* persist_metadata, over what the store held "before" the handler's last   *)
(* save.  A save that fails leaves the change in memory; one that stops is  *)
(* followed by a restart.  "exposed" are the keys the change itself leaves  *)
(* unprotected.                                                             *)
SaveUploads(before, db, exposed) ==
    \/ /\ memory' = db /\ disk' = db
       /\ unprotected' = unprotected \cup exposed
       /\ UNCHANGED uploadFaults
    \/ /\ uploadFaults < MaxUploadFaults /\ uploadFaults' = uploadFaults + 1
       /\ memory' = db /\ disk' = before
       /\ unprotected' = unprotected \cup exposed
    \/ /\ uploadFaults < MaxUploadFaults /\ uploadFaults' = uploadFaults + 1
       /\ disk' \in StoppedSaves(UploadOrder, NoUploads, before, db)
       /\ memory' = disk'
       /\ unprotected' = unprotected \cup exposed \cup Forgotten(db.jobs, disk'.jobs)

(* require_logbook_role for a request that only an administrator may make.  *)
MayAdminister(a) == a \in memory.members

(* enforce_provider_operation_limit saves its counter, and with it all that *)
(* is in memory, before the upload starts.  This step is a request that     *)
(* ends there, or that is answered with a job that already succeeded; and   *)
(* export_backup, which saves the same way and keeps only its record.       *)
EnforceLimit(a) ==
    /\ MayAdminister(a)
    /\ SaveUploads(disk, memory, {})
    /\ UNCHANGED <<logged, accepted, created, attempts, imports>>

----------------------------------------------------------------------------
(* A setting is off, selects the fake provider, or is live with or without  *)
(* a credential that resolves ("locked").                                   *)
(* What execute_tier_one_upload makes of an attempt: the status of the job, *)
(* and whether the provider took the contacts.  An attempt that is not live *)
(* never reaches the provider; the fake one takes everything.               *)
Outcome(status, taken) == [status |-> status, taken |-> taken]

(* A live attempt: sent or not, answered or not.  The text of an answer is  *)
(* searched for words like "success", "accepted" or "qso duplicate", which  *)
(* an answer that took nothing may hold as well ("unsuccessful").           *)
Answers == {Outcome(status, taken) :
                status \in Statuses \ {"Queued"}, taken \in BOOLEAN}

Outcomes(setting, forceFail) ==
    CASE setting.mode = "off" -> {Outcome("Failed", FALSE)}
      [] setting.mode # "off" /\ forceFail -> {Outcome("Retryable", FALSE)}
      [] setting.mode = "fake" /\ ~forceFail -> {Outcome("Succeeded", FALSE)}
      [] setting.mode = "locked" /\ ~forceFail -> {Outcome("Retryable", FALSE)}
      [] setting.mode = "live" /\ ~forceFail -> Answers

(* execute_hosted_upload_job and the save that follows it.                  *)
Execute(id, job, forceFail, exposed) ==
    /\ attempts < MaxAttempts /\ attempts' = attempts + 1
    /\ \E result \in Outcomes(memory.setting, forceFail) :
         /\ accepted' = [accepted EXCEPT ![Key(job)] =
                            IF result.taken THEN @ + 1 ELSE @]
         /\ SaveUploads(memory,
                [memory EXCEPT !.jobs =
                    With(@, id, [job EXCEPT !.status = result.status])],
                exposed \cup IF result.taken /\ result.status # "Succeeded"
                             THEN {Key(job)} ELSE {})

(* run_upload.  Contacts may be named or not; by default all are uploaded.  *)
Duplicate_of_open_job(key) ==
    \E id \in DOMAIN memory.jobs :
        Key(memory.jobs[id]) = key /\ memory.jobs[id].status \in {"Queued", "Retryable"}

Duplicate(key) ==
    \E id \in DOMAIN memory.jobs :
        Key(memory.jobs[id]) = key /\ memory.jobs[id].status \in {"Queued", "Succeeded"}

RunUpload(a, qsos, forceFail) ==
    /\ MayAdminister(a)
    /\ created < MaxJobs /\ created' = created + 1
    /\ LET key == [by |-> a, qsos |-> qsos]
           another == \E id \in DOMAIN memory.jobs :
                         Key(memory.jobs[id]) = key /\ memory.jobs[id].status # "Succeeded"
       IN /\ ~Duplicate(key)
          /\ Execute(created + 1, [by |-> a, qsos |-> qsos, status |-> "Queued"],
                     forceFail, IF another THEN {key} ELSE {})
    /\ UNCHANGED <<logged, imports>>

(* retry_upload: whatever became of the other jobs with the key.            *)
RetryUpload(a, id) ==
    /\ MayAdminister(a)
    /\ memory.jobs[id].by = a
    /\ memory.jobs[id].status # "Succeeded"
    /\ Execute(id, memory.jobs[id], FALSE, {})
    /\ UNCHANGED <<logged, created, imports>>

----------------------------------------------------------------------------
(* patch_provider takes the setting over to the account that changes it.    *)
PatchProvider(a, setting) ==
    /\ MayAdminister(a)
    /\ setting.by = a
    /\ SaveUploads(disk, [memory EXCEPT !.setting = setting], {})
    /\ UNCHANGED <<logged, accepted, created, attempts, imports>>

(* backup_import and restore_backup_support_metadata, by any administrator  *)
(* of the logbook, of any file whose log extends that of the server: one    *)
(* exported here, or elsewhere, or edited.  The importer takes its records  *)
(* over, the setting without its credential, and its jobs replace those of  *)
(* the same identifier.  A record that does not parse ends the restore      *)
(* after the records before it, which nothing takes back or saves.  A job   *)
(* of a file may name other contacts than its text holds: no key of the     *)
(* importer is protected any more.                                          *)
FileRows(a, n) ==
    UNION {[ids -> [by : {a}, qsos : SUBSET Qsos \ {{}}, status : Statuses]] :
              ids \in SUBSET (1 .. n)}

FileSettings(a) == [by : {a}, mode : Modes \ {"live"}]

ImportBackup(a, n, rows, setting) ==
    /\ MayAdminister(a)
    /\ imports < MaxImports /\ imports' = imports + 1
    /\ logged' \in logged .. MaxQsos
    /\ created' = n
    /\ LET jobs == [id \in DOMAIN memory.jobs \cup DOMAIN rows |->
                        IF id \in DOMAIN rows THEN rows[id] ELSE memory.jobs[id]]
           db == [memory EXCEPT !.setting = setting, !.jobs = jobs]
           exposed == Forgotten(memory.jobs, jobs) \cup {key \in Keys : key.by = a}
       IN \/ SaveUploads(disk, db, exposed)
          \/ /\ memory' = db /\ unprotected' = unprotected \cup exposed
             /\ UNCHANGED <<disk, uploadFaults>>
    /\ UNCHANGED <<accepted, attempts>>

(* A contact is logged, or comes in by synchronisation.                     *)
LogQso ==
    /\ logged < MaxQsos
    /\ logged' = logged + 1
    /\ UNCHANGED <<memory, disk, accepted, unprotected, created, attempts, imports,
                   uploadFaults>>

RestartUploads ==
    /\ memory' = disk
    /\ unprotected' = unprotected \cup Forgotten(memory.jobs, disk.jobs)
    /\ UNCHANGED <<disk, logged, accepted, created, attempts, imports, uploadFaults>>

----------------------------------------------------------------------------
UploadsInit ==
    /\ memory = [NoUploads EXCEPT !.members = Accounts]
    /\ disk = memory
    /\ logged = 0 /\ created = 0 /\ attempts = 0 /\ imports = 0 /\ uploadFaults = 0
    /\ unprotected = {}
    /\ accepted = [key \in Keys |-> 0]

UploadsNext ==
    \/ \E a \in Accounts :
        \/ EnforceLimit(a)
        \/ \E qsos \in SUBSET (1 .. logged) \ {{}}, forceFail \in BOOLEAN :
              RunUpload(a, qsos, forceFail)
        \/ \E id \in DOMAIN memory.jobs : RetryUpload(a, id)
        \/ \E setting \in Settings : PatchProvider(a, setting)
        \/ \E n \in created .. MaxJobs :
              \E rows \in FileRows(a, n), setting \in FileSettings(a) \cup {memory.setting} :
                  ImportBackup(a, n, rows, setting)
    \/ LogQso
    \/ RestartUploads

UploadsSpec == UploadsInit /\ [][UploadsNext]_uploadVars

----------------------------------------------------------------------------
UploadTables == [members : SUBSET Accounts, setting : Settings \cup {NoSetting},
    jobs : UNION {[ids -> [by : Accounts, qsos : SUBSET Qsos \ {{}}, status : Statuses]] :
                    ids \in SUBSET (1 .. MaxJobs)}]

UploadsTypeOK ==
    /\ memory \in UploadTables /\ disk \in UploadTables
    /\ logged \in 0 .. MaxQsos
    /\ accepted \in [Keys -> 0 .. MaxAttempts]
    /\ imports \in 0 .. MaxImports
    /\ DOMAIN memory.jobs \subseteq 1 .. created

(* The provider takes the contacts of one key once, as long as the server   *)
(* knows of every success: the key has one job, the answers arrived and     *)
(* were read as a success, the saves completed, and no backup came between. *)
(* Over all orders of runs, retries, answers, failing saves, restarts and   *)
(* imports, also when another account switches the provider or imports.     *)
NoSilentRepeat == \A key \in Keys : accepted[key] > 1 => key \in unprotected
=============================================================================
