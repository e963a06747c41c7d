------------------------------ MODULE LanTrust ------------------------------
(* Pairing, trust and signed requests between desktops on one network, for  *)
(* one logbook.  Every desktop keeps a trust file (pairing tokens, trusted  *)
(* peers, seen nonces) and a credential store (one secret per credential);  *)
(* a handler writes them one after the other and may stop in between.  A    *)
(* desktop serves one request at a time; a request that its sender has      *)
(* given up may still be served, and a signed one may be delivered twice.   *)
EXTENDS Naturals

CONSTANTS Desktops, MaxTokens, MaxCodes, MaxCredentials, MaxRequests, MaxLanFaults

ASSUME LanBoundsAssumption ==
    {MaxTokens, MaxCodes, MaxCredentials, MaxRequests, MaxLanFaults} \subseteq Nat

VARIABLES
    tokens,      \* issued pairing tokens: issuer and state
    trusted,     \* per desktop: its record of each trusted peer
    secrets,     \* per desktop: the code stored under each credential
    asking,      \* per desktop: its pairing request to a peer, if it has one
    posted,      \* pairing requests on their way
    signed,      \* signed requests on their way
    seen,        \* per desktop: nonces in its trust file
    forgotten,   \* history: requests whose nonce record has expired
    answered,    \* per request: how often it was accepted
    codes,       \* how many codes were made up
    lanFaults

lanVars == <<tokens, trusted, secrets, asking, posted, signed, seen, forgotten,
             answered, codes, lanFaults>>

NoCode == 0
Idle == [stage |-> "idle", token |-> 0, code |-> NoCode]
TokenIds == 1 .. MaxTokens
Codes == 1 .. MaxCodes
Credentials == 1 .. MaxCredentials
RequestIds == 1 .. MaxRequests
Records == [cred : Credentials, token : TokenIds, revoked : BOOLEAN, rotated : BOOLEAN]

Put(table, k, row) == [i \in DOMAIN table \cup {k} |-> IF i = k THEN row ELSE table[i]]
Drop(table, keys) == [i \in DOMAIN table \ keys |-> table[i]]

(* A credential is stored under a new identifier: one that no secret has    *)
(* and no record names.                                                     *)
Free(d) == {k \in Credentials \ DOMAIN secrets[d] : \A p \in DOMAIN trusted[d] : trusted[d][p].cred # k}
Unused(d) == {k \in Free(d) : \A i \in Free(d) : k <= i}

(* trusted_peer: the record of a peer that is trusted.                      *)
Trusts(d, p) == p \in DOMAIN trusted[d] /\ ~trusted[d][p].revoked

Secret(d, p) ==
    IF Trusts(d, p) /\ trusted[d][p].cred \in DOMAIN secrets[d]
    THEN secrets[d][trusted[d][p].cred] ELSE NoCode

(* A handler that first stores code as credential k, then saves record r    *)
(* of p, then drops old credentials; it stops after the second write, after *)
(* the first, or cannot save and takes the credential back.                 *)
Writes_old_first(d, p, k, code, r, old) ==
    \/ /\ secrets' = [secrets EXCEPT ![d] = Drop(Put(@, k, code), old)]
       /\ trusted' = [trusted EXCEPT ![d] = Put(@, p, r)]
       /\ UNCHANGED lanFaults
    \/ /\ lanFaults < MaxLanFaults /\ lanFaults' = lanFaults + 1
       /\ \/ /\ secrets' = [secrets EXCEPT ![d] = Put(@, k, code)]
             /\ trusted' = [trusted EXCEPT ![d] = Put(@, p, r)]
          \/ /\ secrets' = [secrets EXCEPT ![d] = Drop(Put(@, k, code), old)]
             /\ UNCHANGED trusted

Writes(d, p, k, code, r, old) ==
    \/ /\ secrets' = [secrets EXCEPT ![d] = Drop(Put(@, k, code), old)]
       /\ trusted' = [trusted EXCEPT ![d] = Put(@, p, r)]
       /\ UNCHANGED lanFaults
    \/ /\ lanFaults < MaxLanFaults /\ lanFaults' = lanFaults + 1
       /\ \/ /\ secrets' = [secrets EXCEPT ![d] = Put(@, k, code)]
             /\ trusted' = [trusted EXCEPT ![d] = Put(@, p, r)]
          \/ /\ secrets' = [secrets EXCEPT ![d] = Put(@, k, code)]
             /\ UNCHANGED trusted
          \/ UNCHANGED <<secrets, trusted>>

----------------------------------------------------------------------------
(* issue_pairing_token, approved by the operator.                           *)
IssueToken(d) ==
    \E t \in TokenIds \ DOMAIN tokens :
        /\ \A i \in 1 .. t - 1 : i \in DOMAIN tokens
        /\ tokens' = Put(tokens, t, [by |-> d, state |-> "open"])
        /\ UNCHANGED <<trusted, secrets, asking, posted, signed, seen, forgotten,
                       answered, codes, lanFaults>>

ExpireToken(t) ==
    /\ tokens[t].state = "open"
    /\ tokens' = [tokens EXCEPT ![t].state = "expired"]
    /\ UNCHANGED <<trusted, secrets, asking, posted, signed, seen, forgotten,
                   answered, codes, lanFaults>>

(* handle_lan_pairing_complete, before the peer answers: the operator typed *)
(* in a token, the desktop makes up the code that both will sign with, and  *)
(* posts them to the peer, to one address after the other.                  *)
AskToPair(d, t) ==
    /\ asking[d] = Idle /\ tokens[t].by # d
    /\ codes < MaxCodes /\ codes' = codes + 1
    /\ asking' = [asking EXCEPT ![d] = [stage |-> "waiting", token |-> t, code |-> codes']]
    /\ posted' = posted \cup {[from |-> d, token |-> t, code |-> codes']}
    /\ UNCHANGED <<tokens, trusted, secrets, signed, seen, forgotten, answered, lanFaults>>

(* The request times out on its last address; it may still arrive.          *)
GiveUp(d) ==
    /\ asking[d].stage = "waiting"
    /\ asking' = [asking EXCEPT ![d] = Idle]
    /\ UNCHANGED <<tokens, trusted, secrets, posted, signed, seen, forgotten,
                   answered, codes, lanFaults>>

Acceptable_used(t) == tokens[t].state # "expired"

Acceptable(t) == tokens[t].state = "open"

(* The answer reaches the desktop that still waits for it, or is lost.  A   *)
(* desktop that posts to a second address after a lost answer is told that  *)
(* the token is used.                                                       *)
Answer(r, stage) ==
    \/ UNCHANGED asking
    \/ /\ asking[r.from] = [stage |-> "waiting", token |-> r.token, code |-> r.code]
       /\ asking' = [asking EXCEPT ![r.from].stage = stage]

(* handle_lan_pairing_accept on the desktop that issued the token: token    *)
(* and record are saved together, after the credential.                     *)
AcceptPairing(r) ==
    LET d == tokens[r.token].by
    IN /\ asking[d] = Idle /\ Acceptable(r.token)
       /\ \E k \in Unused(d) :
             Writes(d, r.from, k, r.code,
                    [cred |-> k, token |-> r.token, revoked |-> FALSE, rotated |-> FALSE], {})
       /\ posted' = posted \ {r}
       /\ IF trusted' # trusted
          THEN /\ tokens' = [tokens EXCEPT ![r.token].state = "used"]
               /\ Answer(r, "granted")
          ELSE UNCHANGED tokens /\ Answer(r, "refused")
       /\ UNCHANGED <<signed, seen, forgotten, answered, codes>>

RefusePairing(r) ==
    /\ asking[tokens[r.token].by] = Idle /\ ~Acceptable(r.token)
    /\ posted' = posted \ {r}
    /\ Answer(r, "refused")
    /\ UNCHANGED <<tokens, trusted, secrets, signed, seen, forgotten, answered,
                   codes, lanFaults>>

(* handle_lan_pairing_complete, after the answer.                           *)
FinishPairing(d) ==
    LET p == tokens[asking[d].token].by
    IN /\ asking[d].stage = "granted"
       /\ \E k \in Unused(d) :
             Writes(d, p, k, asking[d].code,
                    [cred |-> k, token |-> asking[d].token, revoked |-> FALSE, rotated |-> FALSE], {})
       /\ asking' = [asking EXCEPT ![d] = Idle]
       /\ UNCHANGED <<tokens, posted, signed, seen, forgotten, answered, codes>>

ReportRefusal(d) ==
    /\ asking[d].stage = "refused"
    /\ asking' = [asking EXCEPT ![d] = Idle]
    /\ UNCHANGED <<tokens, trusted, secrets, posted, signed, seen, forgotten,
                   answered, codes, lanFaults>>

(* handle_lan_auth_rotate: the operator types in a new code, made up here   *)
(* or on the peer; the previous credential goes last.                       *)
RotateCode(d, p, code) ==
    /\ asking[d] = Idle /\ Trusts(d, p)
    /\ code <= codes + 1 /\ codes' = IF code > codes THEN code ELSE codes
    /\ \E k \in Unused(d) :
          Writes(d, p, k, code, [trusted[d][p] EXCEPT !.cred = k, !.rotated = TRUE],
                 {trusted[d][p].cred})
    /\ UNCHANGED <<tokens, asking, posted, signed, seen, forgotten, answered>>

(* handle_lan_trust_revoke: the record first, then its credential.          *)
Revoke(d, p) ==
    /\ asking[d] = Idle /\ p \in DOMAIN trusted[d]
    /\ trusted' = [trusted EXCEPT ![d][p].revoked = TRUE]
    /\ \/ /\ secrets' = [secrets EXCEPT ![d] = Drop(@, {trusted[d][p].cred})]
          /\ UNCHANGED lanFaults
       \/ /\ lanFaults < MaxLanFaults /\ lanFaults' = lanFaults + 1
          /\ UNCHANGED secrets
    /\ UNCHANGED <<tokens, asking, posted, signed, seen, forgotten, answered, codes>>

----------------------------------------------------------------------------
(* trusted_lan_request_headers: a request with a nonce of its own.          *)
Sign(d, p) ==
    /\ asking[d] = Idle /\ Secret(d, p) # NoCode
    /\ \E n \in RequestIds \ {r.nonce : r \in signed} :
          signed' = signed \cup {[from |-> d, to |-> p, nonce |-> n, code |-> Secret(d, p)]}
    /\ UNCHANGED <<tokens, trusted, secrets, asking, posted, seen, forgotten,
                   answered, codes, lanFaults>>

Recorded_later(d, n) == FALSE

Recorded(d, n) == n \in seen[d]

(* require_lan_endpoint_auth and authorize_peer: a request that passes is   *)
(* answered; every other is refused and changes nothing.                    *)
Serve(r) ==
    /\ asking[r.to] = Idle
    /\ Secret(r.to, r.from) = r.code /\ ~Recorded(r.to, r.nonce)
    /\ seen' = [seen EXCEPT ![r.to] = @ \cup {r.nonce}]
    /\ answered[r.nonce] < 2
    /\ answered' = [answered EXCEPT ![r.nonce] = @ + 1]
    /\ UNCHANGED <<tokens, trusted, secrets, asking, posted, signed, forgotten,
                   codes, lanFaults>>

(* prune_expired_nonces, some time after the lifetime of the record.        *)
ForgetNonce(d, n) ==
    /\ n \in seen[d]
    /\ seen' = [seen EXCEPT ![d] = @ \ {n}]
    /\ forgotten' = forgotten \cup {n}
    /\ UNCHANGED <<tokens, trusted, secrets, asking, posted, signed, answered,
                   codes, lanFaults>>

(* The desktop starts again: only its files remain.                         *)
RestartDesktop(d) ==
    /\ asking' = [asking EXCEPT ![d] = Idle]
    /\ UNCHANGED <<tokens, trusted, secrets, posted, signed, seen, forgotten,
                   answered, codes, lanFaults>>

LanInit ==
    /\ tokens = <<>>
    /\ trusted = [d \in Desktops |-> <<>>] /\ secrets = [d \in Desktops |-> <<>>]
    /\ asking = [d \in Desktops |-> Idle]
    /\ posted = {} /\ signed = {}
    /\ seen = [d \in Desktops |-> {}] /\ forgotten = {}
    /\ answered = [n \in RequestIds |-> 0]
    /\ codes = 0 /\ lanFaults = 0

LanNext ==
    \/ \E d \in Desktops : IssueToken(d) \/ GiveUp(d) \/ FinishPairing(d)
                           \/ ReportRefusal(d) \/ RestartDesktop(d)
    \/ \E t \in DOMAIN tokens : ExpireToken(t)
    \/ \E d \in Desktops, t \in DOMAIN tokens : AskToPair(d, t)
    \/ \E r \in posted : AcceptPairing(r) \/ RefusePairing(r)
    \/ \E d \in Desktops : \E p \in DOMAIN trusted[d] :
          Revoke(d, p) \/ Sign(d, p) \/ \E code \in Codes : RotateCode(d, p, code)
    \/ \E r \in signed : Serve(r)
    \/ \E d \in Desktops, n \in RequestIds : ForgetNonce(d, n)

LanSpec == LanInit /\ [][LanNext]_lanVars

(* Trust files, credential stores and messages are well formed.             *)
LanTypeOK ==
    /\ DOMAIN tokens \subseteq TokenIds
    /\ \A t \in DOMAIN tokens : tokens[t] \in [by : Desktops, state : {"open", "used", "expired"}]
    /\ \A d \in Desktops :
          /\ DOMAIN trusted[d] \subseteq Desktops \ {d}
          /\ \A p \in DOMAIN trusted[d] : trusted[d][p] \in Records
          /\ DOMAIN secrets[d] \subseteq Credentials
          /\ \A k \in DOMAIN secrets[d] : secrets[d][k] \in Codes
          /\ asking[d] = Idle \/ asking[d] \in [stage : {"waiting", "granted", "refused"},
                                               token : DOMAIN tokens, code : Codes]
    /\ posted \subseteq [from : Desktops, token : DOMAIN tokens, code : Codes]
    /\ signed \subseteq [from : Desktops, to : Desktops, nonce : RequestIds, code : Codes]
    /\ seen \in [Desktops -> SUBSET RequestIds] /\ forgotten \subseteq RequestIds
    /\ answered \in [RequestIds -> 0 .. 2]
    /\ codes \in 0 .. MaxCodes /\ lanFaults \in 0 .. MaxLanFaults

(* A peer that is trusted has its secret in the credential store, wherever  *)
(* a pairing, a rotation or a revocation was interrupted: the desktop never *)
(* counts on a peer it can neither sign for nor verify.                     *)
TrustHasSecret ==
    \A d \in Desktops : \A p \in DOMAIN trusted[d] :
        ~trusted[d][p].revoked => trusted[d][p].cred \in DOMAIN secrets[d]

(* Two desktops that hold each other paired by the same token sign with the *)
(* same code until one of them rotates it, although the pairing may be      *)
(* asked for again, its answers lost and its requests served late.          *)
PairedSidesAgree ==
    \A d, p \in Desktops :
        /\ Trusts(d, p) /\ Trusts(p, d)
        /\ trusted[d][p].token = trusted[p][d].token
        /\ ~trusted[d][p].rotated /\ ~trusted[p][d].rotated
        => Secret(d, p) = Secret(p, d)

(* A signed request that is delivered again is not answered again while the *)
(* record of its nonce lasts, also over restarts and a new pairing.         *)
AnsweredOnce == \A n \in RequestIds : answered[n] > 1 => n \in forgotten
=============================================================================
