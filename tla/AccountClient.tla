---------------------------- MODULE AccountClient ----------------------------
(* The hosted account client of one device: its durable record, the secrets *)
(* of its session in the credential store, and the sessions of its account  *)
(* on the server.  A request is planned from the record, answered or lost,  *)
(* and its result is stored in steps between which the client may stop: the *)
(* desktop stores secrets and then the record, iOS the record and then the  *)
(* secrets.  Session n has session token n and refresh token n.  One        *)
(* request is in flight at a time.                                          *)
EXTENDS Naturals, Sequences

CONSTANTS MaxHostedSessions, MaxSecrets

ASSUME AccountBoundsAssumption == MaxHostedSessions \in Nat /\ MaxSecrets \in Nat

VARIABLES
    order,      \* in which order this platform stores a result
    record,     \* the record: connection state, its credential
    vault,      \* credential store: the tokens under each credential
    flight,     \* the request that runs, or its result with the steps left
    live,       \* server: active sessions
    issued,     \* server: how many sessions were issued
    untold,     \* history: sessions that ended unknown to the client
    torn        \* history: credentials whose storing was interrupted

accountVars == <<order, record, vault, flight, live, issued, untold, torn>>

None == 0
HostedSessions == 1 .. MaxHostedSessions
SecretIds == 1 .. MaxSecrets
StateNames == {"signed_out", "pending", "signed_in", "ended"}
Asking == {"register", "verify", "login", "recover"}
WithSession == {"session", "rotate", "devices", "logout", "end_all", "revoke_own_device"}
Orders == {<<"session", "refresh", "clear", "record">>, <<"record", "session", "refresh", "clear">>}
Resting == [stage |-> "none"]

Tokens(k) == IF k \in DOMAIN vault THEN vault[k] ELSE [session |-> None, refresh |-> None]
WithTokens(k, row) == [i \in DOMAIN vault \cup {k} |-> IF i = k THEN row ELSE vault[i]]

(* The result of a request: the next record, the session whose tokens are   *)
(* to be stored, and the credential whose secrets are to be cleared.        *)
Keep == [state |-> record.state, cred |-> record.cred, tokens |-> None, clears |-> None]
Stay(state) == [Keep EXCEPT !.state = state]
Leave_secrets(state) == [state |-> state, cred |-> None, tokens |-> None, clears |-> None]
Leave(state) == [state |-> state, cred |-> None, tokens |-> None, clears |-> record.cred]

NewSecrets == {k \in SecretIds : \A i \in DOMAIN vault \cup torn : i < k}

(* apply_session: the credential of the record is used again, if any.       *)
Enter_as_before(n) ==
    IF record.cred # None
    THEN {[state |-> "signed_in", cred |-> record.cred, tokens |-> None, clears |-> None]}
    ELSE {[state |-> "signed_in", cred |-> k, tokens |-> n, clears |-> None] :
             k \in {i \in NewSecrets : \A j \in NewSecrets : i <= j}}

Enter(n) ==
    {[state |-> "signed_in", cred |-> k, tokens |-> n, clears |-> None] :
        k \in IF record.cred # None THEN {record.cred}
              ELSE {i \in NewSecrets : \A j \in NewSecrets : i <= j}}

(* accepted_result; n is the session the server issued, if it did.          *)
Accepted(action, n) ==
    CASE action = "register" -> {Stay("pending")}
      [] action = "verify" -> {Stay(IF record.state = "signed_in" THEN "signed_in" ELSE "signed_out")}
      [] action \in {"login", "recover", "rotate"} -> Enter(n)
      [] action = "session" -> {Stay("signed_in")}
      [] action = "devices" -> {Keep}
      [] action \in {"logout", "end_all"} -> {Leave("signed_out")}
      [] action = "revoke_own_device" -> {Leave("ended")}

(* apply_hosted_account_response for an error: a session that is refused,   *)
(* also by a login with an unknown address, is dropped; every other error   *)
(* leaves session and secrets alone.                                        *)
Refused(action) ==
    CASE action = "login" -> {Keep, Leave("ended"), Stay("pending")}
      [] action \in Asking \ {"login"} -> {Keep}
      [] action = "logout" -> {Keep}
      [] OTHER -> {Leave("ended")}

----------------------------------------------------------------------------
(* The server.  logout takes every known token; the other routes want an    *)
(* active session, and rotate_session its refresh token as well.            *)
Passes(action, t) ==
    CASE action \in Asking -> TRUE
      [] action = "logout" -> TRUE
      [] OTHER -> t.session \in live

Ends(action, t) ==
    CASE action \in {"rotate", "logout", "revoke_own_device"} -> {t.session}
      [] action = "end_all" -> live
      [] OTHER -> {}

Grants(action) == action \in {"login", "recover", "rotate"}

(* The handler runs; answered says whether the client hears of it.          *)
Handled(answered) ==
    LET a == flight.action
        t == flight.sent
        n == IF Grants(a) THEN issued + 1 ELSE None
    IN /\ Passes(a, t) /\ (a = "rotate" => t.refresh = t.session)
       /\ (Grants(a) => issued < MaxHostedSessions)
       /\ live' = (live \ Ends(a, t)) \cup ({n} \ {None})
       /\ issued' = IF Grants(a) THEN n ELSE issued
       /\ IF answered
          THEN /\ \E r \in Accepted(a, n) : flight' = [stage |-> "store", left |-> order, result |-> r]
               /\ UNCHANGED untold
          ELSE /\ flight' = [stage |-> "store", left |-> order, result |-> Keep]
               /\ untold' = untold \cup Ends(a, t)

(* The request is refused, limited or fails, and changes nothing there.     *)
Unhandled ==
    LET a == flight.action
    IN /\ \E r \in {Keep} \cup
                   (IF a \in WithSession /\ Passes(a, flight.sent) THEN {} ELSE Refused(a)) :
             flight' = [stage |-> "store", left |-> order, result |-> r]
       /\ UNCHANGED <<live, issued, untold>>

(* The answer; when it is lost, or the server could not save what it did,   *)
(* the client takes it for a passing failure.                               *)
Respond ==
    /\ flight.stage = "sent"
    /\ Handled(TRUE) \/ Handled(FALSE) \/ Unhandled
    /\ UNCHANGED <<order, record, vault, torn>>

(* A session expires, or another device ends it.                            *)
EndElsewhere(s) ==
    /\ live' = live \ {s} /\ untold' = untold \cup {s}
    /\ UNCHANGED <<order, record, vault, flight, issued, torn>>

----------------------------------------------------------------------------
(* plan_hosted_account_request, and the secrets it asks for: without a      *)
(* stored token the request is not sent.                                    *)
Send(action) ==
    LET t == Tokens(record.cred)
    IN /\ flight = Resting
       /\ (action \in WithSession => record.cred # None /\ t.session # None)
       /\ (action = "rotate" => t.refresh # None)
       /\ flight' = [stage |-> "sent", action |-> action,
                     sent |-> IF action \in WithSession THEN t ELSE [session |-> None, refresh |-> None]]
       /\ UNCHANGED <<order, record, vault, live, issued, untold, torn>>

Touched(r) == (IF r.tokens # None THEN {r.cred} ELSE {}) \cup ({r.clears} \ {None})

(* One write of the result; with the last one the client is done.           *)
Store ==
    LET r == flight.result
        step == Head(flight.left)
    IN /\ flight.stage = "store"
       /\ record' = IF step = "record" THEN [state |-> r.state, cred |-> r.cred] ELSE record
       /\ vault' =
            CASE step = "session" /\ r.tokens # None ->
                    WithTokens(r.cred, [Tokens(r.cred) EXCEPT !.session = r.tokens])
              [] step = "refresh" /\ r.tokens # None ->
                    WithTokens(r.cred, [Tokens(r.cred) EXCEPT !.refresh = r.tokens])
              [] step = "clear" -> [k \in DOMAIN vault \ {r.clears} |-> vault[k]]
              [] OTHER -> vault
       /\ IF Len(flight.left) = 1
          THEN flight' = Resting /\ torn' = torn \ Touched(r)
          ELSE flight' = [flight EXCEPT !.left = Tail(@)] /\ UNCHANGED torn
       /\ UNCHANGED <<order, live, issued, untold>>

(* The client stops, or a write fails: what is left is not stored.          *)
Interrupt ==
    /\ flight # Resting
    /\ flight' = Resting
    /\ torn' = IF flight.stage = "store" THEN torn \cup Touched(flight.result) ELSE torn
    /\ UNCHANGED <<order, record, vault, live, issued, untold>>

AccountInit ==
    /\ order \in Orders
    /\ record = [state |-> "signed_out", cred |-> None]
    /\ vault = <<>> /\ flight = Resting
    /\ live = {} /\ issued = 0 /\ untold = {} /\ torn = {}

AccountNext ==
    \/ \E action \in Asking \cup WithSession : Send(action)
    \/ Respond \/ Store \/ Interrupt
    \/ \E s \in live : EndElsewhere(s)

AccountSpec == AccountInit /\ [][AccountNext]_accountVars

Results == [state : StateNames, cred : SecretIds \cup {None},
            tokens : HostedSessions \cup {None}, clears : SecretIds \cup {None}]

(* Record, credential store and request are well formed.                    *)
AccountTypeOK ==
    /\ order \in Orders
    /\ record \in [state : StateNames, cred : SecretIds \cup {None}]
    /\ DOMAIN vault \subseteq SecretIds
    /\ \A k \in DOMAIN vault : vault[k] \in [session : 0 .. issued, refresh : 0 .. issued]
    /\ CASE flight.stage = "none" -> flight = Resting
         [] flight.stage = "sent" -> flight.action \in Asking \cup WithSession
         [] flight.stage = "store" -> flight.result \in Results /\ flight.left # <<>>
    /\ live \subseteq 1 .. issued /\ issued \in 0 .. MaxHostedSessions
    /\ untold \subseteq 1 .. issued /\ torn \subseteq SecretIds

(* Between requests the credential store holds the secrets of exactly the   *)
(* credential the record names: none is left behind after a sign-out and    *)
(* none is missing after a sign-in, unless the client stopped while it      *)
(* stored that credential and has not stored it since.                      *)
SecretsMatchRecord ==
    flight = Resting =>
        \A k \in SecretIds \ torn :
            (k \in DOMAIN vault /\ vault[k].session # None /\ vault[k].refresh # None)
            <=> k = record.cred

(* A client that shows itself signed in holds both tokens of one session,   *)
(* and that session is active unless the client was not told of its end.    *)
HoldsItsSession ==
    flight = Resting /\ record.state = "signed_in" /\ record.cred \notin torn =>
        LET t == Tokens(record.cred)
        IN t.session = t.refresh /\ t.session \in live \cup untold
=============================================================================
