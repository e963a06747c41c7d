-------------------------- MODULE HostedAccounts --------------------------
(* Accounts, invitations, mailed tokens, sessions and devices of the hosted *)
(* server.  The handlers of one server run one after the other; each edits  *)
(* the state in memory, some then send a mail, and most save the whole      *)
(* state.  A mail or a save can fail in between, and the server can restart *)
(* from what the store then holds.  Keys are numbered in the order they are *)
(* issued; the program draws random identifiers.  A mailed token lives for   *)
(* a time and is refused after it; an expired session is refused like an    *)
(* unknown one, which changes nothing here.                                 *)
EXTENDS MetadataStore

CONSTANTS Emails, Roles, Modes, MaxAccounts, MaxSessions, MaxDevices, MaxInvites,
          MaxRecoveries, MaxLogbooks, MaxSends, MaxFaults

ASSUME BoundsAssumption ==
    {MaxAccounts, MaxSessions, MaxDevices, MaxInvites, MaxRecoveries,
     MaxLogbooks, MaxSends, MaxFaults} \subseteq Nat
ASSUME ModesAssumption == "InviteOnly" \in Modes

VARIABLES
    memory,      \* ServerState
    disk,        \* what the metadata store holds
    mail,        \* the tokens that reached their mailboxes
    issued,      \* how many identifiers of each kind were drawn
    expired,     \* the verification and recovery tokens whose time is over
    settled,     \* history: endings that a completed save has stored
    lost,        \* history: the server was started from half a save
    faults

vars == <<memory, disk, mail, issued, expired, settled, lost, faults>>

Accounts == 1 .. MaxAccounts

(* The logbooks of an account: the one its registration gave it, number 0,  *)
(* and those it created.                                                    *)
Logbooks == [owner : Accounts, nth : 0 .. MaxLogbooks]

(* ServerState, the tables this module is about, in the order of a save.    *)
SaveOrder == [config |-> 1, admins |-> 2, users |-> 3, sessions |-> 4,
              devices |-> 5, logbooks |-> 6, members |-> 7, invites |-> 8,
              verifications |-> 9, recoveries |-> 10]

Blank == [config |-> [mode |-> "InviteOnly", bootstrapped |-> FALSE],
          admins |-> {}, users |-> <<>>, sessions |-> <<>>, devices |-> <<>>,
          logbooks |-> {}, members |-> {}, invites |-> <<>>,
          verifications |-> <<>>, recoveries |-> <<>>]

Put(table, key, row) ==
    [k \in DOMAIN table \cup {key} |-> IF k = key THEN row ELSE table[k]]

----------------------------------------------------------------------------
(* What can never be undone: sessions ended, devices revoked, accounts      *)
(* deleted, tokens used up.                                                 *)
Over(db) ==
    [session |-> {s \in DOMAIN db.sessions : ~db.sessions[s].active},
     device |-> {d \in DOMAIN db.devices : db.devices[d].revoked},
     account |-> {a \in DOMAIN db.users : db.users[a].deleted},
     invite |-> {i \in DOMAIN db.invites : db.invites[i].accepted \/ db.invites[i].revoked},
     verification |-> {v \in DOMAIN db.verifications : db.verifications[v].used},
     recovery |-> {r \in DOMAIN db.recoveries : db.recoveries[r].used}]

Kept(db) == [session |-> DOMAIN db.sessions, device |-> DOMAIN db.devices,
             account |-> DOMAIN db.users, invite |-> DOMAIN db.invites,
             verification |-> DOMAIN db.verifications,
             recovery |-> DOMAIN db.recoveries]

(* load: the state of a server that starts.                                 *)
load_reactivating(db) ==
    [db EXCEPT !.sessions = [s \in DOMAIN @ |-> [@[s] EXCEPT !.active = TRUE]]]

load(db) == db

(* persist_metadata.  Every answer but a refusal ends with it.  When it     *)
(* fails the caller gets an error and the state in memory keeps the change: *)
(* a later save of any request stores it, a restart forgets it.  What a     *)
(* failed save left in the store is read by a restart only, so a save that  *)
(* stops half-way is modelled together with the restart that follows.       *)
Save(db) ==
    \/ /\ memory' = db /\ disk' = db
       /\ settled' = [kind \in DOMAIN settled |-> settled[kind] \cup Over(db)[kind]]
       /\ UNCHANGED <<lost, faults>>
    \/ /\ faults < MaxFaults /\ faults' = faults + 1
       /\ memory' = db
       /\ UNCHANGED <<disk, settled, lost>>
    \/ /\ faults < MaxFaults /\ faults' = faults + 1
       /\ disk' \in StoppedSaves(SaveOrder, Blank, disk, db)
       /\ memory' = load(disk')
       /\ lost' = (lost \/ disk' \notin {disk, db})
       /\ UNCHANGED settled

(* The handler stops with an error after it changed the state in memory.    *)
KeepInMemory(db) ==
    memory' = db /\ UNCHANGED <<disk, settled, lost>>

(* send_account_email by webhook: delivered, refused, or delivered with the *)
(* answer lost, which the server takes for a failure.                       *)
SendMail(token, db) ==
    \/ mail' = mail \cup {token} /\ Save(db)
    \/ /\ faults < MaxFaults /\ faults' = faults + 1
       /\ mail' \in {mail, mail \cup {token}}
       /\ KeepInMemory(db)

----------------------------------------------------------------------------
(* authorize and require_instance_admin.                                    *)
authorize(db, s) ==
    /\ s \in DOMAIN db.sessions
    /\ LET session == db.sessions[s] IN
       /\ session.active
       /\ session.device \in DOMAIN db.devices
       /\ ~db.devices[session.device].revoked
       /\ session.account \in DOMAIN db.users
       /\ ~db.users[session.account].deleted
       /\ db.users[session.account].verified

AdminSessions == {s \in DOMAIN memory.sessions :
    authorize(memory, s) /\ memory.sessions[s].account \in memory.admins}

LiveSessions == {s \in DOMAIN memory.sessions : authorize(memory, s)}

(* create_account_only, create_default_logbook_for_account.                 *)
WithAccount(db, a, email, verified) ==
    [db EXCEPT !.users = Put(@, a, [email |-> email, verified |-> verified,
                                    deleted |-> FALSE])]

WithLogbook(db, a, n) ==
    LET logbook == [owner |-> a, nth |-> n]
    IN [db EXCEPT !.logbooks = @ \cup {logbook},
                  !.members = @ \cup {[user |-> a, logbook |-> logbook, role |-> "Owner"]}]

WithDefaultLogbook(db, a) == WithLogbook(db, a, 0)

EmailIsTaken(email) == \E a \in DOMAIN memory.users : memory.users[a].email = email

(* issue_session_response on a new, trusted device.                         *)
WithSession_off_by_one(db, a) ==
    [db EXCEPT
        !.devices = Put(@, issued.devices, [account |-> a, revoked |-> FALSE]),
        !.sessions = Put(@, issued.sessions + 1,
                         [account |-> a, device |-> issued.devices, active |-> TRUE])]

WithSession(db, a) ==
    [db EXCEPT
        !.devices = Put(@, issued.devices + 1, [account |-> a, revoked |-> FALSE]),
        !.sessions = Put(@, issued.sessions + 1,
                         [account |-> a, device |-> issued.devices + 1, active |-> TRUE])]

CanIssueSession == issued.sessions < MaxSessions /\ issued.devices < MaxDevices
DrawnWithSession(drawn) ==
    [drawn EXCEPT !.sessions = @ + 1, !.devices = @ + 1]

(* The sessions whose field, "account" or "device", has this value.         *)
EndSessions(db, field, value) ==
    [db EXCEPT !.sessions = [s \in DOMAIN @ |->
        IF @[s][field] = value THEN [@[s] EXCEPT !.active = FALSE] ELSE @[s]]]

RevokeDevices(db, a) ==
    [db EXCEPT !.devices = [d \in DOMAIN @ |->
        IF @[d].account = a THEN [@[d] EXCEPT !.revoked = TRUE] ELSE @[d]]]

----------------------------------------------------------------------------
(* bootstrap_admin.  A denied attempt is audited, and saves the state.      *)
MayBootstrap(db) ==
    /\ ~db.config.bootstrapped
    /\ db.admins = {}
    /\ db.users = <<>>

Bootstrap(email) ==
    /\ UNCHANGED <<mail, expired>>
    /\ IF MayBootstrap(memory)
       THEN /\ issued.users < MaxAccounts /\ CanIssueSession
            /\ issued' = DrawnWithSession([issued EXCEPT !.users = @ + 1])
            /\ LET a == issued.users + 1
                   made == WithDefaultLogbook(WithAccount(memory, a, email, TRUE), a)
               IN Save(WithSession([made EXCEPT !.admins = @ \cup {a},
                                                !.config.bootstrapped = TRUE], a))
       ELSE UNCHANGED issued /\ Save(memory)

(* patch_hosting_config applies its fields one by one: an invalid one ends  *)
(* the request with the earlier ones changed in memory.                     *)
PatchHosting(s, mode) ==
    /\ s \in AdminSessions
    /\ LET db == [memory EXCEPT !.config.mode = mode]
       IN \/ Save(db)
          \/ faults < MaxFaults /\ faults' = faults + 1 /\ KeepInMemory(db)
    /\ UNCHANGED <<mail, issued, expired>>

(* create_invitation sends the mail before it keeps the invitation: when    *)
(* the mail fails nothing is kept.                                          *)
CreateInvitation(s, email, logbook, role) ==
    /\ s \in AdminSessions
    /\ issued.invites < MaxInvites
    /\ issued' = [issued EXCEPT !.invites = @ + 1]
    /\ LET i == issued.invites + 1
       IN /\ mail' = mail \cup {[for |-> "invite", id |-> i, sent |-> 0]}
          /\ Save([memory EXCEPT !.invites = Put(@, i,
                  [email |-> email, logbook |-> logbook, role |-> role, sent |-> 0,
                   expired |-> FALSE, accepted |-> FALSE, revoked |-> FALSE])])
    /\ UNCHANGED expired

(* resend_invitation: a new token and a new expiry, then the mail.          *)
ResendInvitation(s, i) ==
    /\ s \in AdminSessions
    /\ i \in DOMAIN memory.invites
    /\ LET invite == memory.invites[i]
           again == [invite EXCEPT !.sent = @ + 1, !.expired = FALSE]
       IN /\ ~invite.accepted /\ ~invite.revoked
          /\ invite.sent < MaxSends
          /\ SendMail([for |-> "invite", id |-> i, sent |-> again.sent],
                      [memory EXCEPT !.invites[i] = again])
    /\ UNCHANGED <<issued, expired>>

(* expire_invitation, with a time that is over or still to come, and        *)
(* revoke_invitation.                                                       *)
ExpireInvitation(s, i, over) ==
    /\ s \in AdminSessions
    /\ i \in DOMAIN memory.invites
    /\ Save([memory EXCEPT !.invites[i].expired = over])
    /\ UNCHANGED <<mail, issued, expired>>

RevokeInvitation(s, i) ==
    /\ s \in AdminSessions
    /\ i \in DOMAIN memory.invites
    /\ Save([memory EXCEPT !.invites[i].revoked = TRUE])
    /\ UNCHANGED <<mail, issued, expired>>

(* register.  An invitation that admits: looked up by the hash of the token *)
(* that was sent last.                                                      *)
Admits(db, i, sent, email) ==
    /\ i \in DOMAIN db.invites
    /\ LET invite == db.invites[i] IN
       /\ invite.sent = sent
       /\ invite.email = email /\ ~invite.revoked
       /\ ~invite.accepted
       /\ ~invite.expired

WithInvitedMember_unmarked(db, a, i) ==
    [db EXCEPT !.members = @ \cup {[user |-> a, logbook |-> db.invites[i].logbook,
                                    role |-> db.invites[i].role]}]

WithInvitedMember(db, a, i) ==
    [db EXCEPT
        !.invites[i].accepted = TRUE,
        !.members = @ \cup {[user |-> a, logbook |-> db.invites[i].logbook,
                             role |-> db.invites[i].role]}]

(* create_email_verification, then the mail, then the save.                 *)
FinishRegistration_without_record(a, db) ==
    LET token == [for |-> "verify", id |-> a, sent |-> 0]
    IN /\ issued' = [issued EXCEPT !.users = a]
       /\ SendMail(token, db)
       /\ UNCHANGED expired

FinishRegistration(a, db) ==
    LET token == [for |-> "verify", id |-> a, sent |-> 0]
    IN /\ issued' = [issued EXCEPT !.users = a]
       /\ SendMail(token, [db EXCEPT !.verifications = Put(@, a, [used |-> FALSE])])
       /\ UNCHANGED expired

Register(email) ==
    /\ ~EmailIsTaken(email)
    /\ issued.users < MaxAccounts
    /\ LET a == issued.users + 1
           made == WithAccount(memory, a, email, FALSE)
       IN \/ /\ memory.config.mode = "InviteOnly"
             /\ \E token \in mail :
                  /\ token.for = "invite"
                  /\ Admits(memory, token.id, token.sent, email)
                  /\ FinishRegistration(a, WithInvitedMember(made, a, token.id))
          \/ /\ memory.config.mode = "Open"
             /\ FinishRegistration(a, WithDefaultLogbook(made, a))

(* verify_email.  The token is used up before the account is looked for.    *)
VerifyEmail(token) ==
    /\ token \in mail \ expired /\ token.for = "verify"
    /\ token.id \in DOMAIN memory.verifications
    /\ ~memory.verifications[token.id].used
    /\ LET db == [memory EXCEPT !.verifications[token.id].used = TRUE]
       IN IF token.id \in DOMAIN memory.users
          THEN Save([db EXCEPT !.users[token.id].verified = TRUE])
          ELSE KeepInMemory(db) /\ UNCHANGED faults
    /\ UNCHANGED <<mail, issued, expired>>

(* The lifetime of a mailed token runs out.  No route mails another         *)
(* verification token.                                                      *)
TokenExpires(token) ==
    /\ token \in mail \ expired /\ token.for \in {"verify", "recovery"}
    /\ expired' = expired \cup {token}
    /\ UNCHANGED <<memory, disk, mail, issued, settled, lost, faults>>

----------------------------------------------------------------------------
(* start_recovery.  Earlier tokens of the account stay valid.  An email     *)
(* without a live, verified account gets the same answer and no mail.       *)
MayRecover_ignoring_deletion(db, a) == a \in DOMAIN db.users /\ db.users[a].verified

MayRecover(db, a) ==
    a \in DOMAIN db.users /\ ~db.users[a].deleted /\ db.users[a].verified

StartRecovery(email) ==
    /\ UNCHANGED expired
    /\ \/ \E a \in Accounts :
            /\ MayRecover(memory, a) /\ memory.users[a].email = email
            /\ issued.recoveries < MaxRecoveries
            /\ issued' = [issued EXCEPT !.recoveries = @ + 1]
            /\ LET r == issued.recoveries + 1
               IN SendMail([for |-> "recovery", id |-> r, sent |-> 0],
                           [memory EXCEPT !.recoveries = Put(@, r, [account |-> a, used |-> FALSE])])
       \/ /\ ~\E a \in Accounts : MayRecover(memory, a) /\ memory.users[a].email = email
          /\ Save(memory)
          /\ UNCHANGED <<mail, issued>>

(* complete_recovery.  The token is used up before the account is checked.  *)
CompleteRecovery(token) ==
    /\ token \in mail \ expired /\ token.for = "recovery"
    /\ token.id \in DOMAIN memory.recoveries
    /\ ~memory.recoveries[token.id].used
    /\ LET a == memory.recoveries[token.id].account
           db == [memory EXCEPT !.recoveries[token.id].used = TRUE]
       IN IF MayRecover(memory, a)
          THEN /\ CanIssueSession
               /\ issued' = DrawnWithSession(issued)
               /\ Save(WithSession(db, a))
          ELSE KeepInMemory(db) /\ UNCHANGED <<issued, faults>>
    /\ UNCHANGED <<mail, expired>>

(* login, by email, on a new device.                                        *)
Login(email) ==
    /\ \E a \in DOMAIN memory.users :
         /\ memory.users[a].email = email
         /\ ~memory.users[a].deleted /\ memory.users[a].verified
         /\ CanIssueSession
         /\ issued' = DrawnWithSession(issued)
         /\ Save(WithSession(memory, a))
    /\ UNCHANGED <<mail, expired>>

(* logout needs the token only, logout_all an authorized session.           *)
Logout(s) ==
    /\ s \in DOMAIN memory.sessions
    /\ Save([memory EXCEPT !.sessions[s].active = FALSE])
    /\ UNCHANGED <<mail, issued, expired>>

LogoutAll(s) ==
    /\ s \in LiveSessions
    /\ Save(EndSessions(memory, "account", memory.sessions[s].account))
    /\ UNCHANGED <<mail, issued, expired>>

(* rotate_session: the old session ends, the new one keeps its device.      *)
Rotated_keeping(db, s) == db

Rotated(db, s) == [db EXCEPT !.sessions[s].active = FALSE]

RotateSession(s) ==
    /\ s \in LiveSessions
    /\ issued.sessions < MaxSessions
    /\ issued' = [issued EXCEPT !.sessions = @ + 1]
    /\ Save([Rotated(memory, s) EXCEPT
               !.sessions = Put(@, issued.sessions + 1,
                                [memory.sessions[s] EXCEPT !.active = TRUE])])
    /\ UNCHANGED <<mail, expired>>

(* delete_account.  Logbooks, memberships and invitations stay.             *)
DeleteAccount(s) ==
    /\ s \in LiveSessions
    /\ LET a == memory.sessions[s].account
           db == RevokeDevices(EndSessions(memory, "account", a), a)
       IN Save([db EXCEPT !.users[a].deleted = TRUE, !.admins = @ \ {a}])
    /\ UNCHANGED <<mail, issued, expired>>

(* register_device: listed for the account, not trusted, without a session. *)
RegisterDevice(s) ==
    /\ s \in LiveSessions
    /\ issued.devices < MaxDevices
    /\ issued' = [issued EXCEPT !.devices = @ + 1]
    /\ Save([memory EXCEPT !.devices = Put(@, issued.devices + 1,
             [account |-> memory.sessions[s].account, revoked |-> FALSE])])
    /\ UNCHANGED <<mail, expired>>

(* revoke_device, by a user who owns or administers some logbook, and       *)
(* revoke_all_devices.                                                      *)
RevokeDevice(s, d) ==
    /\ s \in LiveSessions
    /\ d \in DOMAIN memory.devices
    /\ memory.devices[d].account = memory.sessions[s].account
    /\ \E m \in memory.members :
         m.user = memory.sessions[s].account /\ m.role = "Owner"
    /\ Save([EndSessions(memory, "device", d)
               EXCEPT !.devices[d].revoked = TRUE])
    /\ UNCHANGED <<mail, issued, expired>>

RevokeAllDevices(s) ==
    /\ s \in LiveSessions
    /\ LET a == memory.sessions[s].account
       IN Save(EndSessions(RevokeDevices(memory, a), "account", a))
    /\ UNCHANGED <<mail, issued, expired>>

(* create_logbook, by any user, who becomes its owner.                      *)
CreateLogbook(s) ==
    /\ s \in LiveSessions
    /\ issued.logbooks < MaxLogbooks
    /\ issued' = [issued EXCEPT !.logbooks = @ + 1]
    /\ Save(WithLogbook(memory, memory.sessions[s].account, issued.logbooks + 1))
    /\ UNCHANGED <<mail, expired>>

(* with_metadata_store: a start loads what the store holds.                 *)
Restart ==
    /\ memory' = load(disk)
    /\ UNCHANGED <<disk, mail, issued, expired, settled, lost, faults>>

----------------------------------------------------------------------------
Init ==
    /\ memory = Blank /\ disk = Blank
    /\ mail = {} /\ expired = {}
    /\ issued = [users |-> 0, sessions |-> 0, devices |-> 0, invites |-> 0,
                 recoveries |-> 0, logbooks |-> 0]
    /\ settled = Over(Blank)
    /\ lost = FALSE /\ faults = 0

Next ==
    \/ \E e \in Emails :
         Bootstrap(e) \/ Register(e) \/ StartRecovery(e) \/ Login(e)
    \/ \E t \in mail : VerifyEmail(t) \/ CompleteRecovery(t) \/ TokenExpires(t)
    \/ \E s \in 1 .. issued.sessions :
         \/ Logout(s) \/ LogoutAll(s) \/ RotateSession(s) \/ DeleteAccount(s)
         \/ RegisterDevice(s) \/ RevokeAllDevices(s) \/ CreateLogbook(s)
         \/ \E d \in 1 .. issued.devices : RevokeDevice(s, d)
         \/ \E mode \in Modes : PatchHosting(s, mode)
         \/ \E e \in Emails, b \in memory.logbooks \cap Logbooks, role \in Roles :
              CreateInvitation(s, e, b, role)
         \/ \E i \in 1 .. issued.invites :
              \/ ResendInvitation(s, i) \/ RevokeInvitation(s, i)
              \/ \E over \in BOOLEAN : ExpireInvitation(s, i, over)
    \/ Restart

Spec == Init /\ [][Next]_vars
----------------------------------------------------------------------------
IsTable(table, n, Row) ==
    DOMAIN table \subseteq 1 .. n /\ \A k \in DOMAIN table : table[k] \in Row

IsState(db) ==
    /\ db.config \in [mode : Modes, bootstrapped : BOOLEAN]
    /\ db.admins \subseteq Accounts /\ db.logbooks \subseteq Logbooks
    /\ IsTable(db.users, MaxAccounts,
               [email : Emails, verified : BOOLEAN, deleted : BOOLEAN])
    /\ IsTable(db.sessions, MaxSessions,
               [account : Accounts, device : 1 .. MaxDevices, active : BOOLEAN])
    /\ IsTable(db.devices, MaxDevices, [account : Accounts, revoked : BOOLEAN])
    /\ db.members \subseteq [user : Accounts, logbook : Logbooks, role : Roles \cup {"Owner"}]
    /\ IsTable(db.invites, MaxInvites,
               [email : Emails, logbook : Logbooks, role : Roles, sent : 0 .. MaxSends,
                expired : BOOLEAN, accepted : BOOLEAN, revoked : BOOLEAN])
    /\ IsTable(db.verifications, MaxAccounts, [used : BOOLEAN])
    /\ IsTable(db.recoveries, MaxRecoveries, [account : Accounts, used : BOOLEAN])

(* The state in memory and the state in the store keep their types, also    *)
(* when a save stopped early and the server was started from what it left.  *)
TypeOK ==
    /\ IsState(memory) /\ IsState(disk)
    /\ mail \subseteq [for : {"invite", "verify", "recovery"}, id : Nat, sent : Nat]
    /\ issued \in [users : 0 .. MaxAccounts, sessions : 0 .. MaxSessions,
                   devices : 0 .. MaxDevices, invites : 0 .. MaxInvites,
                   recoveries : 0 .. MaxRecoveries, logbooks : 0 .. MaxLogbooks]
    /\ expired \subseteq mail
    /\ lost \in BOOLEAN /\ faults \in 0 .. MaxFaults

(* Whatever a completed save has stored as over stays over: no crash, no    *)
(* failed or half-done save and no later request brings back a session that *)
(* was ended, a device that was revoked, an account that was deleted or a   *)
(* token that was used up.  (docs/API_CLIENT_CONTRACT.md:168: a device      *)
(* revocation is durable; HOSTED_WEB_RELEASE.md:23: tokens are single-use.) *)
EndingsLast ==
    \A db \in {memory, disk}, kind \in DOMAIN settled :
        settled[kind] \cap Kept(db)[kind] \subseteq Over(db)[kind]

(* A deleted account holds nothing that lets anyone act for it: none of the *)
(* handlers that issue sessions, register devices or grant rights reaches   *)
(* an account that was deleted before.                                      *)
DeletedHoldsNothing ==
    \A db \in {memory, disk}, a \in Accounts :
        (a \in DOMAIN db.users /\ db.users[a].deleted) =>
            /\ a \notin db.admins
            /\ \A s \in DOMAIN db.sessions :
                 db.sessions[s].account = a => ~db.sessions[s].active
            /\ \A d \in DOMAIN db.devices :
                 db.devices[d].account = a => db.devices[d].revoked

(* Rotation passes a session on and never doubles it: a device has at most  *)
(* one active session, whatever fails between the end of the old session    *)
(* and the save of the new one.                                             *)
OneSessionPerDevice ==
    \A db \in {memory, disk} : \A s, t \in DOMAIN db.sessions :
        ( /\ db.sessions[s].active /\ db.sessions[t].active
          /\ db.sessions[s].device = db.sessions[t].device ) => s = t

(* Unless rows were lost, an account holds the one membership its           *)
(* registration gave it, in its own logbook or as the invitation for its    *)
(* email said, and the ownership of the logbooks it created; no logbook is  *)
(* without its owner.  One invitation lets in one account, although the     *)
(* account and the invitation are changed before the mail and the save can  *)
(* fail.  An administrator is the first account of all: bootstrap_admin     *)
(* serves nobody else, also after the administrator deleted the account.    *)
Created(m) == m.role = "Owner" /\ m.logbook.owner = m.user /\ m.logbook.nth > 0

GrantsOf(db, a) == {m \in db.members : m.user = a /\ ~Created(m)}

Invited(db, m, i) ==
    /\ db.invites[i].accepted
    /\ db.invites[i].email = db.users[m.user].email
    /\ db.invites[i].logbook = m.logbook /\ db.invites[i].role = m.role

EveryGrantWasMade ==
    ~lost =>
      /\ \A m \in memory.members : m.user \in DOMAIN memory.users
      /\ \A b \in memory.logbooks :
           [user |-> b.owner, logbook |-> b, role |-> "Owner"] \in memory.members
      /\ \A m \in memory.members : m.logbook \in memory.logbooks
      /\ \A a \in DOMAIN memory.users :
           /\ Cardinality(GrantsOf(memory, a)) = 1
           /\ \A m \in GrantsOf(memory, a) :
                \/ m.logbook = [owner |-> a, nth |-> 0] /\ m.role = "Owner"
                \/ \E i \in DOMAIN memory.invites : Invited(memory, m, i)
      /\ \A i \in DOMAIN memory.invites : memory.invites[i].accepted =>
           Cardinality({m \in memory.members : Invited(memory, m, i)}) = 1
      /\ \A a \in memory.admins, b \in DOMAIN memory.users : a <= b

(* The token in the mailbox of an account that waits for its verification   *)
(* verifies it until its time is over: it is known and unused, whatever     *)
(* failed or restarted between the record, the mail and the saves, unless   *)
(* rows were lost.  A token that never arrived or that expired leaves an    *)
(* account that can neither verify, register nor recover.                   *)
MailedTokenVerifies ==
    ~lost => \A a \in DOMAIN memory.users :
        LET token == [for |-> "verify", id |-> a, sent |-> 0]
        IN ~memory.users[a].verified /\ token \in mail \ expired =>
             a \in DOMAIN memory.verifications /\ ~memory.verifications[a].used
=============================================================================
