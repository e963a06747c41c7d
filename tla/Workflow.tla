------------------------------ MODULE Workflow ------------------------------
(* Proposals and projections of one logbook on two replicas: the hosted     *)
(* server, and a desktop that works offline.  A proposal is validated on    *)
(* the replica that takes it, against the projection of that replica's log, *)
(* and appended to that log as an event; both serve one request at a time.  *)
(* The other replica appends the event later without validating it again:   *)
(* only the previous hash is checked.  Projections are rebuilt from the log *)
(* on every use, so they stand here for the log they are built from.        *)
(* Texts of a payload are left out, and with them notes, templates and      *)
(* reports.                                                                 *)
EXTENDS Naturals, Sequences

CONSTANTS Clients, Loggers, Qsos, Activations, Sessions, Checkins, Traffic, Unset,
          MaxAhead    \* bound: events a replica holds that the other lacks

ASSUME LoggersAssumption == Loggers \subseteq Clients
ASSUME MaxAheadAssumption == MaxAhead \in Nat

VARIABLES
    projection,    \* per replica: what a rebuild from its log gives
    ahead,         \* per replica: the events of its log that the other lacks
    misplaced      \* history: events a replica appended where it would refuse them

workVars == <<projection, ahead, misplaced>>

Replicas == {"server", "desktop"}
Other(r) == IF r = "server" THEN "desktop" ELSE "server"

Set(table, id, row) ==
    [k \in DOMAIN table \cup {id} |-> IF k = id THEN row ELSE table[k]]

IdsOf(p) ==
    CASE p.type = "qso.create" -> Qsos
      [] p.type \in {"activation.create", "activation.start"} -> Activations
      [] p.type = "session.start" -> Sessions
      [] p.type = "checkin.create" -> Checkins
      [] p.type = "traffic.create" -> Traffic

Statuses == {"planned", "active", "ended", "cancelled"}

(* What the routes of the hosted server propose.  A new entity gets its     *)
(* identifier when the event is made, except a net session put by its path. *)
(* Extra fields of a request may set the status of an activation.           *)
HostedProposals ==
    [type : {"qso.create", "activation.start", "session.start"}, id : {Unset}]
    \cup [type : {"activation.create"}, id : {Unset}, status : Statuses]
    \cup [type : {"qso.correct", "qso.delete", "qso.restore"}, id : Qsos]
    \cup [type : {"activation.update"}, id : Activations, status : Statuses]
    \cup [type : {"activation.end"}, id : Activations]
    \cup [type : {"session.start", "session.end"}, id : Sessions]
    \cup [type : {"checkin.create", "traffic.create"}, id : {Unset}, session : Sessions]

(* What the desktop proposes besides: its own pages, and the corrections of *)
(* a conflict review, which may name the entity they create.                *)
DesktopProposals ==
    HostedProposals
    \cup [type : {"qso.create"}, id : Qsos]
    \cup [type : {"qso.link", "qso.unlink"}, id : Qsos, activation : Activations]
    \cup [type : {"activation.create"}, id : Activations, status : Statuses]
    \cup [type : {"activation.start", "activation.cancel"}, id : Activations]
    \cup [type : {"session.cancel"}, id : Sessions]
    \cup [type : {"checkin.create"}, id : Checkins, session : Sessions]
    \cup [type : {"traffic.create"}, id : Traffic, session : Sessions]
    \cup [type : {"checkin.update", "checkin.delete"}, id : Checkins]
    \cup [type : {"traffic.update"}, id : Traffic]

ASSUME UnsetAssumption ==
    Unset \notin UNION {Qsos, Activations, Sessions, Checkins, Traffic}

(* OperatorRole::can_submit, and the access the hosted routes ask for.      *)
MaySubmit(c, p) == c \in Loggers => p.type = "qso.create"

----------------------------------------------------------------------------
(* validate_qso_schema on the projection P, one part per family.            *)
Linkable_any(P, p) ==
    /\ p.activation \in DOMAIN P.activations
    /\ P.activations[p.activation].status \notin {"ended", "cancelled"}

Linkable(P, p) ==
    /\ p.id \in DOMAIN P.qsos /\ p.activation \in DOMAIN P.activations
    /\ P.activations[p.activation].status \notin {"ended", "cancelled"}

QsoValid(P, p) ==
    \/ p.type = "qso.create"
    \/ /\ p.type \in {"qso.correct", "qso.delete", "qso.restore", "qso.unlink"}
       /\ p.id \in DOMAIN P.qsos
    \/ p.type = "qso.link" /\ Linkable(P, p)

ActivationValid(P, p) ==
    \/ p.type \in {"activation.create", "activation.start"}
    \/ /\ p.type \in {"activation.update", "activation.end", "activation.cancel"}
       /\ p.id \in DOMAIN P.activations

Active(P, s) == s \in DOMAIN P.sessions /\ P.sessions[s] = "active"

(* An update of unknown traffic passes, and changes nothing.                *)
NetValid(P, p) ==
    \/ p.type \in {"session.start", "traffic.update"}
    \/ p.type = "session.end" /\ Active(P, p.id)
    \/ p.type = "session.cancel" /\ p.id \in DOMAIN P.sessions
    \/ p.type \in {"checkin.create", "traffic.create"} /\ Active(P, p.session)
    \/ p.type \in {"checkin.update", "checkin.delete"} /\ p.id \in DOMAIN P.checkins

Valid(P, p) == QsoValid(P, p) \/ ActivationValid(P, p) \/ NetValid(P, p)

(* to_official_event: a proposal without an identifier draws a new UUID.    *)
InUse(P) ==
    UNION {DOMAIN P.qsos, DOMAIN P.activations, DOMAIN P.sessions,
           DOMAIN P.checkins, DOMAIN P.traffic}

Identified(p) ==
    IF p.id = Unset
    THEN {[p EXCEPT !.id = new] :
            new \in IdsOf(p) \ UNION {InUse(projection[r]) : r \in Replicas}}
    ELSE {p}

----------------------------------------------------------------------------
(* The projection P after event e.  A correction or an update merges its    *)
(* payload into the row: neither links nor states are read from there.      *)
QsosAfter(P, e) ==
    CASE e.type = "qso.create" -> Set(P.qsos, e.id, [deleted |-> FALSE])
      [] e.type \in {"qso.delete", "qso.restore"} ->
            [P.qsos EXCEPT ![e.id].deleted = (e.type = "qso.delete")]
      [] OTHER -> P.qsos

WithStatus(P, a, status) == [P.activations EXCEPT ![a].status = status]

ActivationsAfter(P, e) ==
    CASE e.type = "activation.create" ->
            Set(P.activations, e.id, [status |-> e.status, linked |-> {}])
      [] e.type = "activation.start" ->
            Set(P.activations, e.id, [status |-> "active", linked |-> {}])
      [] e.type = "activation.update" -> WithStatus(P, e.id, e.status)
      [] e.type = "activation.end" -> WithStatus(P, e.id, "ended")
      [] e.type = "activation.cancel" -> WithStatus(P, e.id, "cancelled")
      [] e.type = "qso.link" -> [P.activations EXCEPT ![e.activation].linked = @ \cup {e.id}]
      [] e.type = "qso.unlink" /\ e.activation \in DOMAIN P.activations ->
            [P.activations EXCEPT ![e.activation].linked = @ \ {e.id}]
      [] OTHER -> P.activations

(* A session that is started again under a known identifier is active       *)
(* again, and keeps its check-ins and traffic.                              *)
SessionsAfter(P, e) ==
    CASE e.type = "session.start" -> Set(P.sessions, e.id, "active")
      [] e.type = "session.end" -> [P.sessions EXCEPT ![e.id] = "ended"]
      [] e.type = "session.cancel" -> [P.sessions EXCEPT ![e.id] = "cancelled"]
      [] OTHER -> P.sessions

CheckinsAfter(P, e) ==
    CASE e.type = "checkin.create" ->
            Set(P.checkins, e.id, [session |-> e.session, deleted |-> FALSE])
      [] e.type = "checkin.delete" -> [P.checkins EXCEPT ![e.id].deleted = TRUE]
      [] OTHER -> P.checkins

TrafficAfter(P, e) ==
    IF e.type = "traffic.create" THEN Set(P.traffic, e.id, e.session) ELSE P.traffic

After(P, e) ==
    [qsos |-> QsosAfter(P, e), activations |-> ActivationsAfter(P, e),
     sessions |-> SessionsAfter(P, e), checkins |-> CheckinsAfter(P, e),
     traffic |-> TrafficAfter(P, e)]

----------------------------------------------------------------------------
(* submit_proposal_inner: validation and append, in one request.            *)
Submit(r, p) ==
    /\ Len(ahead[r]) < MaxAhead
    /\ Valid(projection[r], p)
    /\ \E e \in Identified(p) :
          /\ projection' = [projection EXCEPT ![r] = After(@, e)]
          /\ ahead' = [ahead EXCEPT ![r] = Append(@, e)]
    /\ UNCHANGED misplaced

(* submit_qso_proposal and submit_workflow_proposal of a signed-in member.  *)
SubmitOnServer(c, p) == MaySubmit(c, p) /\ Submit("server", p)

(* submit_offline_tracked_proposal, and each proposal of a corrective list. *)
SubmitOnDesktop(p) == Submit("desktop", p)

(* activation_projection_payload: an active activation of the station, any  *)
(* of them when there are several, as the map has no order.                 *)
ActiveActivations ==
    LET known == projection["desktop"].activations
    IN {a \in DOMAIN known : known[a].status = "active"}

(* handle_qso_create_with_activation with an active activation: the contact *)
(* is created, then linked; a link that fails is not reported.              *)
LogPortable(q, target, fails) ==
    LET created == [type |-> "qso.create", id |-> q]
        link == [type |-> "qso.link", id |-> q, activation |-> target]
        logged == After(projection["desktop"], created)
    IN  /\ q \notin UNION {InUse(projection[r]) : r \in Replicas}
        /\ Len(ahead["desktop"]) + 2 <= MaxAhead
        /\ Valid(logged, link)
        /\ IF fails
           THEN /\ projection' = [projection EXCEPT !["desktop"] = logged]
                /\ ahead' = [ahead EXCEPT !["desktop"] = Append(@, created)]
           ELSE /\ projection' = [projection EXCEPT !["desktop"] = After(logged, link)]
                /\ ahead' = [ahead EXCEPT !["desktop"] = Append(Append(@, created), link)]
        /\ UNCHANGED misplaced

(* The next event the other replica is ahead by follows the head of r's log *)
(* only when r has added nothing of its own.                                *)
Connects_known(r) == Len(ahead[r]) <= MaxAhead
Connects(r) == ahead[r] = <<>>

(* append_verified_remote_event: r takes that event without validating it,  *)
(* the server on a push and the desktop on a pull, either of which may stop *)
(* after any event.                                                         *)
Take(r) ==
    LET e == Head(ahead[Other(r)])
    IN  /\ ahead[Other(r)] # <<>> /\ Connects(r)
        /\ projection' = [projection EXCEPT ![r] = After(@, e)]
        /\ ahead' = [ahead EXCEPT ![Other(r)] = Tail(@)]
        /\ misplaced' = IF Valid(projection[r], e) THEN misplaced ELSE misplaced \cup {e}

----------------------------------------------------------------------------
Empty ==
    [qsos |-> <<>>, activations |-> <<>>, sessions |-> <<>>, checkins |-> <<>>, traffic |-> <<>>]

WorkInit ==
    /\ projection = [r \in Replicas |-> Empty]
    /\ ahead = [r \in Replicas |-> <<>>]
    /\ misplaced = {}

WorkNext ==
    \/ \E c \in Clients, p \in HostedProposals : SubmitOnServer(c, p)
    \/ \E p \in DesktopProposals : SubmitOnDesktop(p)
    \/ \E q \in Qsos, target \in ActiveActivations, fails \in BOOLEAN :
          LogPortable(q, target, fails)
    \/ \E r \in Replicas : Take(r)

WorkSpec == WorkInit /\ [][WorkNext]_workVars

----------------------------------------------------------------------------
(* Events are proposals that have their identifier.                         *)
Events == {e \in DesktopProposals : e.id # Unset}

(* A projection of known entities: linked contacts and the sessions of      *)
(* check-ins and traffic are in it.                                         *)
WellFormed(P) ==
    /\ DOMAIN P.qsos \subseteq Qsos
    /\ \A q \in DOMAIN P.qsos : P.qsos[q] \in [deleted : BOOLEAN]
    /\ DOMAIN P.activations \subseteq Activations
    /\ \A a \in DOMAIN P.activations :
          P.activations[a] \in [status : Statuses, linked : SUBSET DOMAIN P.qsos]
    /\ DOMAIN P.sessions \subseteq Sessions
    /\ \A s \in DOMAIN P.sessions : P.sessions[s] \in {"active", "ended", "cancelled"}
    /\ DOMAIN P.checkins \subseteq Checkins
    /\ \A k \in DOMAIN P.checkins :
          P.checkins[k] \in [session : DOMAIN P.sessions, deleted : BOOLEAN]
    /\ DOMAIN P.traffic \subseteq Traffic
    /\ \A k \in DOMAIN P.traffic : P.traffic[k] \in DOMAIN P.sessions

(* The projection of each replica is well formed.                           *)
WorkTypeOK ==
    /\ DOMAIN projection = Replicas /\ \A r \in Replicas : WellFormed(projection[r])
    /\ ahead \in [Replicas -> Seq(Events)]
    /\ \A r \in Replicas : Len(ahead[r]) <= MaxAhead
    /\ misplaced \subseteq Events

(* No replica appends an event it would itself refuse: no check-in enters a *)
(* net that is over there, and no contact is linked to an activation that   *)
(* is over there, although an event is validated where it is made and the   *)
(* other replica only compares the previous hash when it takes it.          *)
ValidAtItsPlace == misplaced = {}
=============================================================================
