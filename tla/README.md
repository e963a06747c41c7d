# KE8YGW logger: verification project

TLA+ models, TLC runs and TLAPS proofs for the KE8YGW logger: an amateur radio
logger with a Rust core (`src/crates/ham-core`), a desktop server and CLI
(`ham-client`), a hosted sync server (`ham-server`), and an iOS app that calls the
core through an FFI (`ham-ios-ffi` and Swift). Paths below are relative to `src/`.

`PROJECT.json` is the machine-readable half of this document: the source lines of
every definition, the runs, the mutants that each property must catch, the findings,
the hazards and the theorems.

1. [The system](#the-system)
2. [The modules](#the-modules)
3. [The runs](#the-runs)
4. [Liveness](#liveness)
5. [The proofs](#the-proofs)
6. [Findings](#findings)
7. [What is abstracted](#what-is-abstracted)
8. [What is not modelled](#what-is-not-modelled)

## The system

The core keeps one append-only *official log* per logbook. User interfaces and plugins
submit *proposals*; an accepted proposal becomes one official event. All other views
are *projections* rebuilt from the log. Clients replicate the log with a sync server
and with LAN peers; operations made offline wait in a queue until the server took
their events.

```
 proposals --> official log <--> pull / push <--> sync server, LAN peers
     |             |                 ^                  |
 projections <-----+                 |           hosted accounts
 offline queue --- retry attempts ---+           sessions, devices, roles
```

| Component | State | Operations | Hard behaviour | What makes it correct |
|---|---|---|---|---|
| Official event store (`event.rs`, `store.rs`) | events of each logbook in memory, one head, a JSONL file | open, append, append a remote event, verify | memory is extended before the file is; the line and its newline are separate writes; every CLI command and FFI call opens one more store on the same file | the file is a verified chain; what was acknowledged is in it; nothing is edited |
| Replication (`sync/mod.rs`, routes of `ham-server`, handlers of `serve.rs`) | log of every node, answers and requests on their way | preview, pull, push, append one event at a time | answers older than the head they are applied to; repeated and partial pushes; death between two appends; two writers | no splice of two histories; reports are true; an exchange that is repeated catches up |
| Offline queue (`sync/offline.rs`) | a JSON file: entries with status, attempts, event hash, due time | enqueue, attach event, mark (sending, accepted, blocked, ...), recover, plan | no lock between load and save; a write that removes the old file before it renames the new one | no acknowledged work lost; order kept; a held operation stays held |
| iOS bridge and retry executor (`ham-ios-ffi`, `RustBridge.swift`) | where each attempt stands, the push on the wire | log a contact, save a station or equipment, plan, push, record the answer, apply a pull, recover | the attempt of the Sync view and that of the background task; answers after the timeout; the app dies anywhere and repairs nothing at its start | accepted means on the server; no attempt leaves an operation marked as being sent |
| Desktop handlers (`serve.rs`) | the store, the queue, the trust file and the account record of the desktop | cloud pull and push, LAN pull, proposals, the portable page, pairing, account actions | requests are handled one after the other, but CLI commands open the same files | as the components they call |
| Proposals and projections (`proposal.rs`, `projection.rs`, `net.rs`, `emcomm.rs`) | none of their own: the log and its projection | validate, convert, append, rebuild | an event is validated on the replica where it is made, and only linked on the replica that takes it | no replica appends an event that it would itself refuse |
| LAN pairing and trust (`sync/mod.rs`, `sync/offline.rs`, `serve.rs`) | pairing tokens, trusted peers, secrets, seen nonces | issue, pair, rotate, revoke, sign, serve | two files written one after the other; requests that come late, twice, or after their sender gave up | a trusted peer has its secret; both sides hold the same; one answer per request |
| Hosted accounts (`ham-server/src/lib.rs`) | accounts, invitations, mailed tokens, sessions, devices, memberships, all saved together | bootstrap, invite, register, verify, recover, log in, rotate, revoke, delete, create a logbook | memory changes before mail and save; a save deletes all tables and writes them again; nothing mails a verification token twice | what ended stays ended; a deleted account holds nothing; every grant was made; a mailed token verifies until it expires |
| Hosted stations and equipment (`ham-server/src/lib.rs`) | station profiles with one default, equipment, backups | create, choose, archive, assign, export, import | several accounts share the logbook; old backups come back over newer state | one default; assignments name a station of the owner |
| Hosted uploads and provider adapters (`ham-server/src/lib.rs`, `online.rs`) | provider setting, upload jobs, backups of both | run, retry, switch the provider, export, import | the answer is lost, or misread, after the provider took the contacts; the job is forgotten by a failed save | no silent second upload |
| Account client (`sync/account.rs`, `serve.rs`, `ham-ios-ffi`) | a record, the secrets of its credential | register, verify, log in, recover, rotate, end, sign out | lost answers; record and secrets stored in steps, in another order on iOS | secrets match the record; signed in means holding a session |
| Credential store (`credential.rs`) | secrets in the platform keychain, a file of records, the records each process loaded | store, update, revoke, delete, read, ask for rotation | keychain and file change one after the other; the file is written in place; every process writes back what it loaded | a call is made or not; a replaced or revoked secret stays gone |
| Contest definitions, awards, search, map (`contest.rs`, ...) | none | pure functions | boundaries | agree with a reference definition |

How they interact: a proposal handler calls the store; the FFI wraps that call between
`enqueue_input` and `record_local_event` of the queue; a retry attempt reads queue and
store, sends events over HTTP, and writes the answer to the queue; the server appends
what it is sent through the same store; `authorize` guards every hosted route, and every
hosted handler ends in the same `persist_metadata`. State is shared only through files. The desktop server and the hosted server handle one request
after the other, the FFI calls of the app run concurrently (`Task.detached`).

## The modules

| Module | Models | State and actions against the code |
|---|---|---|
| `EventChain` | `event.rs`, pure part of `store.rs` | the hash of an event is its history; `RemoteOutcome` is `append_verified_remote_event`, tests in the order of the code |
| `OfficialLog` | what ADR 0001 and the store trait promise | abstract specification: one event at a time, linked, no identity twice |
| `EventLog` | `JsonlLogbookEventStore` | `lines` and `tail` are the file, `mem` is what each open store lists; an append is `append_event` or `append_new_remote_event` (memory), `BeginPersist`, `EndPersist` or `PersistFails` (file); `append_known_remote_event` is the answer from memory, without a write; `refused` collects the events whose write failed; `Stop` is the end of the process |
| `Replication` | `sync/mod.rs` and its callers | `FetchCloud`/`FetchLan` take the answer, `ApplyPull` verifies it, `AppendNext` is one turn of the loop that `push_events` and `pull_missing_events` share, `EndPull`/`EndPush` answer; `Crash` |
| `OfflineQueue` | entries and edits of `sync/offline.rs` | operators only: one per store call, and `ready_event_batch` |
| `Outbox` | what `docs/SYNC_PROTOCOL.md` promises of the queue | abstract specification: an operation is queued once, at the end, and never leaves its place; the server receives first in, first out |
| `RetryDrain` | the iOS drain: FFI commands, Swift executor, push route | composes the queue with the file write (`BeginCall`, `WriteTemp`, `EndCall`; `FindQueued` only reads), the commands (`Submit`, then `AppendEvent` for a contact, `SaveStationBook` or `RefuseEquipment` for a station operation, or `Reject`; `Recover` is the button), the attempts (`ListEvents` before `PlanBatch`, as the bridge lists the log before it loads the queue), both logs, and `Crash`, after which nothing is recovered until the next plan or the button |
| `MetadataStore` | `HostedMetadataStore` as `persist_metadata` uses it | operators only: what the store may hold when a save stops between two tables |
| `HostedAccounts` | accounts, invitations, mailed tokens, sessions and devices of `ham-server/src/lib.rs` | `memory` is `ServerState`, `disk` the store; one action per route, `CreateLogbook` among them; `TokenExpires` is the end of a mailed token; `Save`, `KeepInMemory` and `SendMail` are the ways a handler can end; `Restart` |
| `HostedProfiles` | stations, equipment and their backups | `profiles` and `savedProfiles` as above; every route that creates, chooses, archives, assigns, exports, imports |
| `HostedUploads` | the provider setting, upload jobs and their backups | `RunUpload` and `RetryUpload` with `execute_tier_one_upload` and its outcomes: an answer says nothing certain about what was taken; `ImportBackup` takes a file of any content; `accepted` is what the provider took |
| `Workflow` | `proposal.rs` and the projections of contacts, activations, nets, check-ins, traffic | two replicas, the hosted server and an offline desktop; each serves one request at a time (`ham-server/src/main.rs:62-71`), so `SubmitOnServer`, `SubmitOnDesktop` and `LogPortable` validate and append in one step; `Take` is a replica that appends the next event of the other; `projection` is what a rebuild gives, `ahead` what the other replica lacks |
| `LanTrust` | pairing, trust file, credential store and signed requests between desktops | `Writes` is a handler that writes both files and may stop in between; `AskToPair`, `AcceptPairing`, `FinishPairing`, `GiveUp`, `RotateCode`, `Revoke`, `Sign`, `Serve`, `ForgetNonce` |
| `AccountClient` | `sync/account.rs` with the two platforms that store its results | `Send` plans a request, `Respond` is server and answer, `Store` one write of the result, `Interrupt` the end of the client |
| `DesktopDrain` | the desktop's drain of the same queue, to the server inside its process | `LogContact` and `SelectStation` queue, `LogUnqueued` logs past the queue, `handle_cloud_push` and `Connect` are the two modes of `run_cloud_push`; a push ends accepted, diverged or rejected (`Settled`); `Handle` says which writes of a request were refused, or after which one the desktop stopped |
| `UploadQueue` | the queue of `upload.rs` | `claim_next` gives a job to a worker under a token and a lease; `recover_expired_leases` takes it back; the worker reports with `schedule_retry`, `mark_uncertain`, `mark_completed` or `mark_failed`, in time or late |
| `CredentialStore` | `OsCredentialStore` of `credential.rs` | `keychain` holds the secrets, `file` the records, `records` what each process loaded; a call changes the keychain and then writes its records (`Persist`), all, in part or not at all; `Open` and `Stop` of a process |
| `MC...` | | instances for TLC; `MCClients` and `MCHostedWorkspace` put parts that share no state into one run |
| `...Proofs` | | theorems and their proofs: `EventChainProofs`, `EventLogProofs`, `ReplicationProofs` and `HostedAccountsProofs` for the module of that name, `OfflineQueueProofs` for the lemmas that the queue's users share, `QueueProofs` for `RetryDrain`, and `HostedWorkspaceProofs` and `StationProofs` for the parts of `MCHostedWorkspace` and `MCClients` and their composition |

`EventLog` and `Replication` both extend `EventChain`: the first looks at one log on
disk and takes peers as an input, the second looks at many logs and takes a log that
survives a crash as given, which is what the first shows for a crash between appends.
`RetryDrain` extends `OfflineQueue`; it names an event by its operation, because it does
not tell two histories of one event apart. `HostedAccounts`, `HostedProfiles` and
`HostedUploads` extend `MetadataStore`; they hold different tables of one server, whose
handlers do not read each other's tables but for the members of a logbook. `DesktopDrain`
is a second composition over `OfflineQueue`. `Workflow`, `LanTrust`, `AccountClient`,
`UploadQueue` and `CredentialStore` share no state with anything.

## The runs

| Run | Expect | Shows |
|---|---|---|
| `eventlog_shared` | pass | two stores on one file, refused and torn writes, remote events in any order: which guarantee survives which combination of hazards |
| `eventlog_sole` | pass | one store at a time on a disk that completes its writes implements `OfficialLog` |
| `eventlog_torn` | violation | `RestartSurvives`: after a torn write the file does not open |
| `eventlog_retried` | violation | `AckedSurvivesRestart`: an event whose write was refused is acknowledged from memory when it is offered again |
| `replication_forks` | pass | two writers, a server, stale, repeated and partial exchanges, a crash: every log is only ever extended, as `OfficialLog` has it, histories are never spliced, reports and acknowledgements are true, and an exchange that is repeated is not refused |
| `replication_diverged` | violation | `MatchingHeadsDoNotDiverge` |
| `retry_drain` | pass | contacts rejected locally or refused by the server, a station operation that comes again, a fork, lost and late answers, a crash at any step: the queue implements `Outbox`, tells the truth and keeps its work up to a call that takes it for empty, and no attempt leaves an operation as being sent |
| `retry_overtaken` | violation | `HoldsStopRetry` with two attempts |
| `retry_lost` | violation | `QueuedWorkIsNotLost` when a contact is logged after a death in a write and before a recovery |
| `hosted_accounts` | pass | an administrator and a user through invitation, registration, verification, recovery, login, rotation, revocation, new logbooks and deletion, while a mail or a save fails, a save stops between two tables, a token expires, or the server restarts: what ended stays ended, nobody gains rights |
| `hosted_workspace` | pass | two administrators of one logbook upload, retry, switch the provider, manage stations and equipment and import backups, with lost and misread answers, failed and half-done saves: no silent second upload, one default station, assignments that resolve; two processes on one credential store: a call is made or not made, and an old secret never comes back |
| `clients` | pass | a server and an offline desktop that take each other's events unvalidated, desktops that pair over late and repeated messages with interrupted writes, an account client with lost answers and interrupted storing, a desktop whose queue has gaps, refused writes and stops, upload workers that outlive their leases |

The properties of `EventLog` are qualified by what went wrong: the variable `hazards`
records overlap, refused and torn writes, and each property says which of them it
survives. `DurableChainVerifies` survives torn writes, `AckedIsDurable` and
`AlwaysReopens` survive refused ones, and `EveryLineHasItsPast` is about two stores on one
file, where the log may fork but no line lacks its history. Each premise is needed: adding
any one of the other hazards gives a counterexample in this instance. `AckedIsDurable`
leaves out an event whose own write was refused, since the code answers its retry from
memory; that is `AckedSurvivesRestart`, and it is refuted.

### Bounds and why they are enough

* `EventLog`: three identities (one of them of an unsupported type), two stores, two
  finished lines (`MaxLines`). Two lines and a tail give every pair of neighbours, a torn
  end under a later append, and a duplicate; a third store meets the same file.
  The sole run has four identities and four lines. One write of an event is refused
  (`MaxRefused`): the next event then lacks its predecessor, or the same one is retried.
* `Replication`: three identities, one of them unsupported, two writing clients and a
  server, one crash (`MaxCrashes`). A fork needs two events on one ancestor or two first
  events; a splice needs one more event and a third node to carry it. Messages are not
  counted: an offer is kept until the next fetch and may be applied again, and every
  push a client ever could have sent may arrive at any time, as a part of its log.
* `HostedAccounts`: two mailboxes, two accounts, two sessions and devices, one invitation,
  sent at most once more (`MaxSends`), one recovery, one logbook that is created, one fault,
  and of all identifiers together seven, where the logbook counts twice (`MaxIssued`; six
  after a fault, five once half a save was loaded or a token expired, `MaxIssuedLater`). Seven
  is an administrator with session, device and invitation, and a user who registers and then
  logs in; six the same where registration is open, or an administrator who recovers. One fault is enough for
  every order of memory, mail and save in one request; that faults may be many is what the
  theorems are for.
* `HostedUploads`, `HostedProfiles` (`MCHostedWorkspace`): two administrators; one contact, so
  that each has one key, two jobs, three attempts, one import, one fault; two stations, one
  piece of equipment, one backup, one fault. A repeated upload needs a job, a second one
  or a retry, and one event between them; two defaults need two stations. Uploads
  meet failing saves, or imports and the failing save of one (`OneMishap`).
  `CredentialStore` has two secrets, two processes and two credentials, the second one only
  where processes overlap and nothing else goes wrong: a call that was cut off needs its successor and a reopened file, a lost
  record needs the other process, a mix of records needs the other credential.
* `MCClients`: `Workflow` has an administrator and a logger (who may only log contacts) on
  the server and the desktop, one contact, one activation, one net, one check-in, one
  traffic entry, and of both replicas together two events that the other lacks (`MaxAhead`,
  `Explored`); contacts with activations are followed apart from nets, as no proposal reads
  both. A wrong place needs an event of each replica: the one that is taken and the one that
  changed what it was validated against. `LanTrust` has two desktops, two
  tokens, codes and credentials, one signed request, one interrupted write, and that only
  with one token; a second pairing is what a late message of the first can disturb.
  `AccountClient` has three sessions and two credentials: the old session, its successor,
  and the one of a login after it. `DesktopDrain` has three operations, one of a
  type the server does not take, one event outside the queue, two sends and one refused write
  or stop (`MaxQueueFaults`): a gap before, in and after a batch, and a batch with a good part on either side. `UploadQueue` has two jobs
  and three claims: an old worker, its successor, and one after that.
* `RetryDrain`: two contacts, one of them refused by the server, one station operation, one
  event of another client, two sends per operation (`MaxAttempts`, 8 in the code), a plan of
  two operations (`MaxBatch`, 25 in the app), one crash. Two contacts are what order, prefixes
  and missing events are about. `retry_drain` has one attempt at a time, and a behaviour with
  a death of the app is followed without a push of another client (`Together`): with both
  the state space is beyond the run. The theorems cover any number of attempts, with deaths
  and other clients together, for every property of the run but `AttemptsSettle`.
  `retry_overtaken` has two attempts.

Two clients, mailboxes, desktops, administrators or stores are interchangeable, and the runs
use that symmetry. Runs of parts that share no state follow one part at a time: an
interleaving of two would repeat the states of each.

Deadlock is checked in `replication_forks` and `replication_diverged`, where a client can
always fetch, and in `hosted_accounts`, `hosted_workspace` and `clients`, where a server
can always restart or answer. The other runs stop when identities or operations are used up.

## Liveness

No liveness property is stated, because the code's scheduling justifies no fairness that
one could rest on. On iOS the queue is pushed by a background task that is opt-in and asks
for a network, a token and an eligible operation (`docs/SYNC_PROTOCOL.md:210-222`), or when
the user opens the Sync view; the desktop pushes when the user asks, and all of its log
only when nothing in the queue is ready (`crates/ham-client/src/serve.rs:7497-7501`). What
the code itself has to do for progress is stated as safety instead:

* `RepetitionCatchesUp`: whenever a push or pull is repeated by a node that is merely
  behind or ahead, wherever an earlier one stopped, it is not refused, and a push that
  ends has brought everything.
* `AttemptsSettle`: when the last running attempt ends, no operation is left `sending`,
  the status that no plan picks up.
* `MailedTokenVerifies`: the token an account waits for stays good until it expires.

That an operation is delivered in the end is not promised: an operation whose event was
never attached, that the server refused, or behind one of these waits for the operator.

## The proofs

TLAPS checks them for every value of the constants, from the named assumptions in the
modules (`EventIds` not empty, `Garbled` no event, `Faults` a subset of the two faults,
`Server` no client, `Writers` clients, unsupported identities are identities, loggers are
clients, `Unset` is no identifier and no proposal, the marks for a missing or torn file and
for a store that is closed are no file contents (`FilesAssumption`,
`ProcessStatesAssumption`), events logged without the queue are no queued operations
(`UnqueuedAssumption`), invite-only registration, with which a server starts
(`crates/ham-server/src/lib.rs:335`), is one of the modes (`ModesAssumption`), bounds are
natural numbers).

**EventChainProofs** holds the lemmas about chains: appending an event linked to the head
keeps a chain verified (`ChainExtends`); the hash of an event in a verified chain lists
the identities before it (`HashListsHistory`); hence two verified chains that hold events
of equal hash agree up to it (`SameHistory`); and the lemmas about ends of sequences.
Induction along a chain is by a least counterexample (`LeastNumber`), because the
library's induction theorems take an operator.

**EventLogProofs.** `TypeOK` is inductive by itself. The other invariants need:
`SoleHandle` (without an overlap one store is open), `OwnTail` (without overlap or torn
write the unterminated end is the event being written), `FileIsChain` and
`PendingExtends` (without any hazard the file is a chain and the event being written
extends it) and `MemoryMatchesFile`. Each is a premise of the next: that the written
event extends the file follows from the memory being the file, and that from the tail
being the store's own. From this `IInv`: `MemoryFollowsFile`;
with `StoreKnowsFile` (an open store knows every identity of the file, also when it holds
refused events) `FileReopens`; with `MemoryIsAccounted`
(what a store lists is a line, or is being written, or its own write was refused)
`AckedStays`, also for answers from memory; and `SoleStoreImplementsOfficialLog`: with no
faults and one store, every step of `EventLog` is a step of `OfficialLog` or leaves the file
alone. `TornInv` is the invariant for torn
writes, where memory and file part: as long as every line parses (`Clean`), the file is a
chain, it is one too together with what its end can be read as, and the open store follows
one of these readings (`FollowsFile`). A store that writes behind an old fragment garbles
the line; from then on nothing more can be read (`ReadableStays`), no store opens, and the
one that is open goes on with a chain of its own. Hence `TornLogVerifies`.

**ReplicationProofs.** The inductive invariant adds to the checked properties:
`OneEventPerIdentity` (an identity names one event wherever it is held),
`InFlightIsHeld` (what travels is held by some node), `OffersAreEnds` (an answer is an
end of a verified log), `PullsAdvance` and `PushesAdvance` (what the loop still has to do
together with what the node holds covers the request). `SharedHistory` is not inductive;
it follows from `ChainsVerify` and `OneEventPerIdentity` by `SameHistory`. The theorem
covers any number of clients and any number of crashes. `ChainsVerify` (every log is a
verified chain) is proved with it and follows from what the run checks: `LogsAreOfficial`
says that a step leaves a log alone or is a step of `OfficialLog`. One lemma (`LogStep`)
says of every action how it changes a log: by one event that links to the head and has an
identity of its own. So `LogsAreOnlyExtended`, and the refinement node by node
(`NodesImplementOfficialLog`): the same abstract log that `EventLog` implements on disk is
what replication does to the log of each node.

**HostedAccountsProofs.** `IInv` says of memory and store that rows carry identifiers that
were drawn (`TablesOK`), that a deleted account holds nothing (`Clean`), that a device has
one active session (`Single`), and that what a completed save stored as over is over
wherever its row still exists (`Ended`). That identifiers are bounded by what was drawn is
what makes the rest inductive: a new row never takes the number of one that ended. The
argument is split in two. Each handler makes from the tables in memory a state that is
sound and later (`Later`: no ending is taken back, old numbers are not used again). And
however such a state is saved, the invariant holds (`SaveStep`): completed, failed, or
stopped between two tables (`StoppedIsSound`, which needs the order of the tables: the
administrators and users are deleted before, and written before, sessions and devices).
From it `StoredEndingsLast`, `DeletedStaysEmpty`, `RotationNeverDoubles`, for any number of
accounts and failures.

**HostedAccountsProofs**, the grants. `Whole`: unless rows were lost, memory and store are each
complete (`Complete`). Each account has an email of its own and one membership besides the
ownership of the logbooks it created (`Created`); that one is of the logbook its registration
made or the one an invitation promised. Every logbook has its owner, an accepted invitation
its member, who is not the owner of that logbook, and no account is older than an
administrator (`GrantsMade`). An account that is not verified has the token it was mailed on
record, unused (`Verifiable`), hence `MailedTokensVerify`; that the token may have expired
is in the property, not in the invariant. `EveryGrantWasMade` counts memberships
in memory; the invariant says it of the store too, because a restart makes the store the
memory, and says that emails are unique, because a membership is traced to its invitation
by email. Most handlers change the tables in a way that grants nothing and takes nothing
back (`Routine`); `bootstrap_admin`, `register` and `create_logbook` add a membership. A save
that stops half-way either leaves one of the two complete states or sets `lost`. The types
are proved with it: a stopped save leaves in each table what the old or the new state has
there, or nothing.

**HostedWorkspaceProofs**, the stations. `Defaulted`: until a backup is imported, memory and
store have at most one default station. `Owned`: until a backup of another account is
imported, a station has the same owner in memory, in the store and in every backup;
without it an import could give assigned equipment a station of somebody else. `Assigned`,
for the types, says that an assignment names a station that was created, in backups too. `Resolved`
is about memory and store, and about what each backup holds by itself.

**HostedWorkspaceProofs**, the uploads. `UploadsInv` speaks of both tables of jobs, memory and
store. Each has one job for a key (`SingleJob`) unless the key is `unprotected`, and a key
the provider accepted has its succeeded job in memory under the same condition.
`unprotected` is what makes this inductive: it collects the keys whose job a lost or misread
answer, a lost save, a second job or an imported backup separated from what the provider
took. It says nothing the other way round: a succeeded job does not prove that contacts were
taken, since the fake provider takes nothing and an answer is searched for words
(`online.rs:1459-1465`, `:1544-1549`).

**StationProofs**, the workflows. `WorkIInv`: there is a projection both replicas once had in
common, from which each one's `ahead` leads to what it has now, every event valid at its
place (`Leads`). A replica that takes an event is ahead by nothing (`Connects`), so it stands
where the other stood when it made the event, and the event is valid there
(`TakenEventsAreValid`). That events which are valid keep a projection well formed
(`AfterIsWellFormed`) is shown table by table.

**StationProofs**, LAN trust. `OwnCredentials`: no two records of a desktop name the same credential,
so dropping one leaves the others; with it `TrustHasSecret` is kept by every stopping point
of `Writes`. `GrantsUse` and `GrantAgrees` describe an answer that is under way: the token
is used and the peer's secret is the code that was asked for. `NoncesKept` says that a
nonce belongs to one request and is on record once it was answered.

**StationProofs**, the account client. `Rested` holds between requests. While a result is stored,
`Progress(rem, r)` says what holds when the steps `rem` of result `r` are left. It mentions
steps as a set, so one proof covers the order of the desktop and that of iOS.

**HostedWorkspaceProofs**, the credential store. `OneProcess` holds until two processes overlap:
at most one process has the store open, and what the file, or the records it loaded, make
of the keychain is one of the answers the last calls allow. The file is in it because it
is the next process's memory; a torn file is exempt, since a process that finds one opens
nothing. `KeychainFollows` holds also with many processes: the keychain has a current secret
or none, until it fails to delete one.

**QueueProofs**, the retry executor. `DrainInv` speaks of every queue the program may still
read or write: the file, its temporary, and the copy of the call in progress. In each of
them an accepted entry is on the server (`Honest`), and the server holds the operations of a
queue in its order (`InOrder`). The steps that are still to be done carry the same facts
ahead: an edit that will mark operations accepted names operations the server holds, and a
request under way passes nothing that the server lacks (`Follows`). `Follows` is stable because
operations are only added at the end of a queue and never leave the server, and that is why
any number of attempts may overlap: a late request, or a batch planned from an older queue,
still passes nothing. What was listed before the queue was read is part of the log by then
(`ListedInv`). What a push makes of a batch is a recursive function over its
entries; what holds after every turn of such a loop is shown by a least counterexample
(`EveryTurn`). From `DrainInv` follow `DrainTypes`, `AcceptedIsHeld` and `DrainedInOrder`.
`WorkInv` adds that the queue a recovery would read keeps all that was acknowledged (`Kept`).
It holds until a call other than a recovery takes the queue that a death left in the
temporary file for an empty one, which `lost` records; `WorkIsKept` follows, with no recovery
assumed anywhere, and `retry_lost` shows that such a call loses the queue.

**QueueProofs**, the outbox. `DrainImplementsOutbox` maps the queue a recovery would read to
the sequence of `Outbox` and the queued operations that the server holds to `delivered`, for
any number of attempts, up to such a call. `OutInv` adds to `DrainInv` and `WorkInv` what a
step must know of the queue: what was sent or delivered is in it, and the queue a call is
about to write is an edit of the one on disk (`CallEdits`). Then `WriteTemp`, which completes
the temporary file, is the only step that changes the sequence, and it appends at most the
operation of a new contact or station; the rename, a crash and the recovery read the same
queue from another file; and only `HandlePush` delivers, a start of the sequence by
`InOrder`. `OutboxStep` has one step per action. The weaker `DrainedInOrder` is about a state
and needs no premise: it follows from `DrainInv` alone.

**StationProofs**, the desktop. `DesktopInv`: no operation is queued twice and no event logged
twice, the server holds a start of the log, queued operations are in the order of the log,
every logged operation is queued, or was logged without the queue or while a write was
refused, and what the queue says of an operation is true. The start of the log is what the
argument needs: the server stops at the first event it cannot link, so an operation behind
an event that is not in the queue can never be sent, and that is what `blocked` reports.

**StationProofs**, the upload queue. `ClaimsMatch`: a job that has a token is running, under the claim
of that token. `LossIsMarked`: any other claim of the job that is open or ended without an
answer is late, and the job is marked uncertain. Together they are inductive:
a job leaves its claim only by a report of that claim or by an expired lease.

**The compositions.** `MCClients` and `MCHostedWorkspace` put parts beside each other that
share no state. A step of the whole is a step of one part that leaves the others alone, so
every behaviour of the whole is one of each part (`PartsBehave`), and what is proved of the
parts holds of the whole: `StationTypes` and `StationIsSafe`, `WorkspaceTypes` and
`WorkspaceIsSafe`. The runs follow one part at a time; these theorems cover every
interleaving.

**Only model-checked**: `RepetitionCatchesUp`, and `AttemptsSettle` for one attempt at a time.
`RestartSurvives`, `AckedSurvivesRestart`, `MatchingHeadsDoNotDiverge`, `HoldsStopRetry` and
`QueuedWorkIsNotLost` are refuted, so there is nothing to prove. Liveness, which is out of the
prover's reach, is not stated at all.

## Findings

1. **`eventlog_torn`**: a process that dies while it writes a line leaves an event file
   that no longer opens, though `API_CLIENT_CONTRACT.md:453` promises that the log
   survives a restart.
2. **`eventlog_retried`**: a push of an event whose write the disk refused is answered with
   an error; the same push once more is acknowledged, because the store finds the event in
   memory (`store.rs:183-191`), and after a restart the event is in no file
   (`API_CLIENT_CONTRACT.md:453`).
3. **`replication_diverged`**: a pull from a server that has the same head answers with
   an empty list, and the client takes the empty list for the log of the server: it
   reports, and the desktop records, a divergence (`SYNC_PROTOCOL.md:60`, `:70`).
4. **`retry_overtaken`**: two overlapping attempts: one takes up an operation that the
   other was told to stop retrying (`SYNC_PROTOCOL.md:189`).
5. **`retry_lost`**: the app dies between removing the old queue file and renaming the new
   one, and a contact is logged before a recovery: all queued operations are gone
   (`SYNC_PROTOCOL.md:119`).

The details and lines are under `findings` in `PROJECT.json`.

## What is abstracted

* The hash is injective: it is the history itself. Content is part of the identity.
* One logbook; logbooks do not interact in the store, and the server filters by logbook.
* A JSON text is written whole, in part, or whole without its newline; the model does not
  count bytes.
* In `Replication` a node appends atomically; `EventLog` is about what happens inside.
* In `RetryDrain` the calls on the queue do not interleave with each other (a call that
  the app dies in does stop half-way), and the server handles a push in one step. Overlapping
  calls lose edits, as the code has no lock; that is listed as a hazard, not covered. The
  other proposals of the app (corrections, deletions, activations, nets) queue, append and
  attach as a contact does. Of a station operation the queue is modelled, not the station book.
* Time is the boolean `due` of an entry. Dependencies between operations are left out,
  because no caller sets any.
* Credentials, formats, messages to the user and telemetry are left out.
* On the hosted server an expired session is refused like an unknown one; the expiry of
  mailed tokens and of invitations, which an administrator can set back, is state. Audit entries
  and rate limits are left out; the counter of a rate limit is in `HostedUploads` the save
  before the upload that it causes. Handlers run one at a time, as the code's lock on the
  state has it. Of the table a save stops in, all records are there or none.
* Of the members of a logbook `HostedUploads` and `HostedProfiles` keep who administers it.
* `accepted` in `HostedUploads` is what the provider took, whatever was heard of it. An
  adapter searches the text of the answer for words, so a live attempt may end with any
  status whether or not the contacts were taken. A backup that is imported may hold any jobs
  and any setting, without its credential; the part of a restore that is missing after a record that does not parse
  is taken with the file that ends there.
* `Workflow` leaves out proposals that change only texts (notes, reports), and what a
  correction merges into the record of a contact: the activation a record names is read by no
  validation and by no link. An event of a replica reaches the other only when it
  extends the log it was checked against; what replication does otherwise is the subject of
  `Replication`. Contacts that come in with a backup or an ADIF file do not go
  through these proposals and are left out.
* `DesktopDrain` names an event by its operation, as the desktop is the only client of its
  server: a push stops at the first event whose predecessor is not the head of the server.
  A push taken in part is held as a whole, events the server took included, and the queue
  cannot fill a gap by itself; a manual push of an empty queue sends all of the log.
* `UploadQueue` lets no code of the desktop claim a job: `claim_next` and the reports are the
  interface the queue offers to workers, in any order a worker may call it.
* `CredentialStore` keeps of a record whether it is there and active, and of the keychain
  what it holds; a write the keychain refuses changes nothing. `LanTrust` and
  `AccountClient` take the store for a function from identifiers to secrets whose calls are
  made or not made; `CredentialsAnswer` says so for one process whose file is not torn.
* `HostedProfiles` imports backups it exported; what an edited one may hold beyond that, a
  station of another account, is what its `takenOver` stands for.
* `LanTrust` takes the smallest free credential identifier where the code draws a random
  one. Peers know each other's addresses. `AccountClient` has one request in flight, as
  both platforms wait for the answer. The credential pages of the desktop
  (`/api/credentials/update`, `/revoke`, `crates/ham-client/src/serve.rs:2473-2543`), which act
  on any credential by its identifier, a LAN secret or a session token included, are in
  `CredentialStore` and outside these two: `TrustHasSecret` and `SecretsMatchRecord` say what
  pairing and account actions keep when nobody edits their credentials by hand.

## What is not modelled

The map of `PROJECT.json` covers about an eighth of the implementation. The rest is, by
volume, code that has no protocol: views, command tables, parsers, formatters, request and
response types with their validation, and the tests inside the source files.

* *Contest definitions, awards, search, map, ADIF, rig control*: pure functions of a list
  of contacts, or I/O without state of the program.
* *Permissions and plugin manifests*: constants and one lookup. *Event bus and runtime
  log*: diagnostics that no operation reads.
* *Support files* (settings, stations, net templates, the insecure credential store for
  development): each is loaded, edited and saved whole, through the write that `RetryDrain` models for the queue.
* *Rate limiter and circuit breaker of `online.rs`*: no caller outside tests.
* *The admin client*: copies of lists of the server, for display. *The pairing sessions of the
  sync server*: a map from tokens to logbooks that one route fills and the others look up.
* *Conflict reports*: records for the operator. The corrective proposals of a review are in
  `Workflow`.
* *Emergency workflows* (`emcomm.rs`): their events are proposals of the same path as those
  of `Workflow`. That they cannot be replicated is a hazard without a property of its own;
  `Replication` has events of unsupported types.
* *LAN discovery*: who is on the network; no answer of it is trusted without a pairing.
* *Hosted routes* for map settings, ADIF import, editing of logbooks and members after
  their creation, audit: one table each, guarded and saved like those that are modelled.

Hazards of `PROJECT.json` without a property carry a note that says why: most are about
what the code does not promise (a second upload after a lost answer, the records that two
processes of one credential store write over each other, repeated corrective proposals), one
is the lock that overlapping queue calls lack. A property that is stated up to such an event
says so in its comment, and the hazard is not listed as covered by it.
