---------------------------- MODULE StationProofs ----------------------------
(***************************************************************************)
(* Theorems about a station and what it talks to, for any sets of clients, *)
(* desktops, operations and requests: its proposals (Workflow), the trust  *)
(* between desktops (LanTrust), its hosted account (AccountClient), the    *)
(* drain of its queue to its own server (DesktopDrain) and its uploads to  *)
(* providers (UploadQueue).                                                *)
(***************************************************************************)
EXTENDS MCClients, OfflineQueueProofs

-----------------------------------------------------------------------------
(***************************************************************************)
(* Proposals.                                                              *)
(***************************************************************************)

OnQso == {"qso.create", "qso.correct", "qso.delete", "qso.restore", "qso.link", "qso.unlink"}
OnActivation == {"activation.create", "activation.start", "activation.update",
                 "activation.end", "activation.cancel"}
OnSession == {"session.start", "session.end", "session.cancel"}
OnCheckin == {"checkin.create", "checkin.update", "checkin.delete"}
OnTraffic == {"traffic.create", "traffic.update"}
Entries == {"checkin.create", "traffic.create"}
Links == {"qso.link", "qso.unlink"}
Sets == {"activation.create", "activation.update"}

\* A proposal that names what it is about.
Complete(p) ==
    /\ p.type \in OnQso \cup OnActivation \cup OnSession \cup OnCheckin \cup OnTraffic
    /\ p.type \in OnQso => p.id \in Qsos
    /\ p.type \in OnActivation => p.id \in Activations
    /\ p.type \in OnSession => p.id \in Sessions
    /\ p.type \in OnCheckin => p.id \in Checkins
    /\ p.type \in OnTraffic => p.id \in Traffic
    /\ p.type \in Links => p.activation \in Activations
    /\ p.type \in Sets => p.status \in Statuses
    /\ p.type \in Entries => p.session \in Sessions

LEMMA HostedAreDesktopProposals == HostedProposals \subseteq DesktopProposals
  BY DEF DesktopProposals

LEMMA EventsAreComplete == \A e \in Events : Complete(e)
  BY DEF Events, DesktopProposals, HostedProposals, Complete, OnQso, OnActivation, OnSession,
         OnCheckin, OnTraffic, Entries, Links, Sets

\* Identifying a proposal makes an event of it that is valid where it is.
LEMMA IdentifiedAreEvents ==
  ASSUME NEW q \in DesktopProposals, NEW e \in Identified(q)
  PROVE  e \in Events /\ \A P : Valid(P, q) => Valid(P, e)
<1>1. CASE q.id = Unset
  <2>1. q \in [type : {"qso.create", "activation.start", "session.start"}, id : {Unset}]
               \cup [type : {"activation.create"}, id : {Unset}, status : Statuses]
               \cup [type : {"checkin.create", "traffic.create"}, id : {Unset}, session : Sessions]
    BY <1>1, UnsetAssumption DEF DesktopProposals, HostedProposals
  <2>2. PICK new \in IdsOf(q) : e = [q EXCEPT !.id = new]
    BY <1>1 DEF Identified
  <2>3. CASE q \in [type : {"qso.create", "activation.start", "session.start"}, id : {Unset}]
    <3>1. /\ q.type = "qso.create" => new \in Qsos
          /\ q.type = "activation.start" => new \in Activations
          /\ q.type = "session.start" => new \in Sessions
      BY <2>2 DEF IdsOf
    <3>2. e = [type |-> q.type, id |-> new] /\ q.type \in {"qso.create", "activation.start", "session.start"}
      BY <2>2, <2>3
    <3>3. e \in Events
      BY <3>1, <3>2, UnsetAssumption DEF Events, DesktopProposals, HostedProposals
    <3>4. \A P : Valid(P, e)
      BY <3>2 DEF Valid, QsoValid, ActivationValid, NetValid
    <3>5. QED
      BY <3>3, <3>4
  <2>4. CASE q \in [type : {"activation.create"}, id : {Unset}, status : Statuses]
    <3>1. new \in Activations
      BY <2>2, <2>4 DEF IdsOf
    <3>2. e = [type |-> "activation.create", id |-> new, status |-> q.status] /\ q.status \in Statuses
      BY <2>2, <2>4
    <3>3. e \in Events
      BY <3>1, <3>2, UnsetAssumption DEF Events, DesktopProposals
    <3>4. \A P : Valid(P, e)
      BY <3>2 DEF Valid, ActivationValid
    <3>5. QED
      BY <3>3, <3>4
  <2>5. CASE q \in [type : {"checkin.create", "traffic.create"}, id : {Unset}, session : Sessions]
    <3>1. /\ q.type = "checkin.create" => new \in Checkins
          /\ q.type = "traffic.create" => new \in Traffic
      BY <2>2 DEF IdsOf
    <3>2. e = [type |-> q.type, id |-> new, session |-> q.session] /\ q.session \in Sessions
          /\ q.type \in {"checkin.create", "traffic.create"}
      BY <2>2, <2>5
    <3>3. e \in Events
      BY <3>1, <3>2, UnsetAssumption DEF Events, DesktopProposals
    <3>4. \A P : Valid(P, q) => Valid(P, e)
      BY <3>2 DEF Valid, QsoValid, ActivationValid, NetValid
    <3>5. QED
      BY <3>3, <3>4
  <2>6. QED
    BY <2>1, <2>3, <2>4, <2>5
<1>2. CASE q.id # Unset
  BY <1>2 DEF Identified, Events
<1>3. QED
  BY <1>1, <1>2

-----------------------------------------------------------------------------
(***************************************************************************)
(* A valid event keeps a projection well formed.                           *)
(***************************************************************************)

LEMMA AfterQsos ==
  ASSUME NEW P, WellFormed(P), NEW e \in Events
  PROVE  /\ DOMAIN P.qsos \subseteq DOMAIN QsosAfter(P, e) /\ DOMAIN QsosAfter(P, e) \subseteq Qsos
         /\ \A q \in DOMAIN QsosAfter(P, e) : QsosAfter(P, e)[q] \in [deleted : BOOLEAN]
<1>1. DOMAIN P.qsos \subseteq Qsos /\ \A q \in DOMAIN P.qsos : P.qsos[q] \in [deleted : BOOLEAN]
  BY DEF WellFormed
<1>2. Complete(e)
  BY EventsAreComplete
<1>3. CASE e.type = "qso.create"
  <2>1. PICK row \in [deleted : BOOLEAN] : QsosAfter(P, e) = Set(P.qsos, e.id, row)
    BY <1>3 DEF QsosAfter
  <2>2. e.id \in Qsos
    BY <1>2, <1>3 DEF Complete, OnQso
  <2>3. PICK after : after = QsosAfter(P, e)
    OBVIOUS
  <2>4. /\ DOMAIN after = DOMAIN P.qsos \cup {e.id}
        /\ \A k \in DOMAIN after : after[k] = IF k = e.id THEN row ELSE P.qsos[k]
    BY <2>1, <2>3 DEF Set
  <2>5. QED
    BY <1>1, <2>1, <2>2, <2>3, <2>4
<1>4. CASE e.type \in {"qso.delete", "qso.restore"}
  <2>1. PICK now \in BOOLEAN : now = (e.type = "qso.delete")
    OBVIOUS
  <2>2. QsosAfter(P, e) = [P.qsos EXCEPT ![e.id].deleted = now]
    BY <1>4, <2>1 DEF QsosAfter
  <2>3. \A q \in DOMAIN P.qsos : [P.qsos[q] EXCEPT !.deleted = now] \in [deleted : BOOLEAN]
    BY <1>1
  <2>4. QED
    BY <1>1, <2>2, <2>3
<1>5. CASE e.type \notin {"qso.create", "qso.delete", "qso.restore"}
  BY <1>1, <1>5 DEF QsosAfter
<1>6. QED
  BY <1>3, <1>4, <1>5

LEMMA AfterActivations ==
  ASSUME NEW P, WellFormed(P), NEW e \in Events, Valid(P, e),
         NEW known, DOMAIN P.qsos \subseteq known
  PROVE  /\ DOMAIN ActivationsAfter(P, e) \subseteq Activations
         /\ \A a \in DOMAIN ActivationsAfter(P, e) :
              ActivationsAfter(P, e)[a] \in [status : Statuses, linked : SUBSET known]
<1> DEFINE Row == [status : Statuses, linked : SUBSET known]
<1>1. DOMAIN P.activations \subseteq Activations /\ \A a \in DOMAIN P.activations : P.activations[a] \in Row
  BY DEF WellFormed
<1>2. Complete(e)
  BY EventsAreComplete
<1>3. CASE e.type \in {"activation.create", "activation.start"}
  <2>1. PICK row \in [status : Statuses, linked : {{}}] : ActivationsAfter(P, e) = Set(P.activations, e.id, row)
    BY <1>2, <1>3 DEF ActivationsAfter, Complete, Sets, Statuses
  <2>2. e.id \in Activations /\ row \in Row
    BY <1>2, <1>3, <2>1 DEF Complete, OnActivation
  <2>3. PICK after : after = ActivationsAfter(P, e)
    OBVIOUS
  <2>4. /\ DOMAIN after = DOMAIN P.activations \cup {e.id}
        /\ \A k \in DOMAIN after : after[k] = IF k = e.id THEN row ELSE P.activations[k]
    BY <2>1, <2>3 DEF Set
  <2>5. QED
    BY <1>1, <2>2, <2>3, <2>4
<1>4. CASE e.type \in {"activation.update", "activation.end", "activation.cancel"}
  <2>1. PICK status \in Statuses : ActivationsAfter(P, e) = [P.activations EXCEPT ![e.id].status = status]
    BY <1>2, <1>4 DEF ActivationsAfter, WithStatus, Complete, Sets, Statuses
  <2>2. \A a \in DOMAIN P.activations : [P.activations[a] EXCEPT !.status = status] \in Row
    BY <1>1, <2>1
  <2>3. QED
    BY <1>1, <2>1, <2>2
<1>5. CASE e.type = "qso.link"
  <2>1. PICK a : a = e.activation
    OBVIOUS
  <2>2. e.id \in DOMAIN P.qsos /\ a \in DOMAIN P.activations
    BY <1>5, <2>1 DEF Valid, QsoValid, ActivationValid, NetValid, Linkable
  <2>3. PICK more : more = P.activations[a].linked \cup {e.id}
    OBVIOUS
  <2>4. ActivationsAfter(P, e) = [P.activations EXCEPT ![a].linked = more]
    BY <1>5, <2>1, <2>3 DEF ActivationsAfter
  <2>5. more \in SUBSET known
    BY <1>1, <2>2, <2>3
  <2>6. [P.activations[a] EXCEPT !.linked = more] \in Row
    BY <1>1, <2>2, <2>5
  <2>7. QED
    BY <1>1, <2>2, <2>4, <2>6
<1>6. CASE e.type = "qso.unlink" /\ e.activation \in DOMAIN P.activations
  <2>1. PICK a : a = e.activation
    OBVIOUS
  <2>2. a \in DOMAIN P.activations
    BY <1>6, <2>1
  <2>3. PICK less : less = P.activations[a].linked \ {e.id}
    OBVIOUS
  <2>4. ActivationsAfter(P, e) = [P.activations EXCEPT ![a].linked = less]
    BY <1>6, <2>1, <2>3 DEF ActivationsAfter
  <2>5. less \in SUBSET known
    BY <1>1, <2>2, <2>3
  <2>6. [P.activations[a] EXCEPT !.linked = less] \in Row
    BY <1>1, <2>2, <2>5
  <2>7. QED
    BY <1>1, <2>2, <2>4, <2>6
<1>7. CASE /\ e.type \notin OnActivation \cup {"qso.link"}
           /\ ~ (e.type = "qso.unlink" /\ e.activation \in DOMAIN P.activations)
  <2>1. ActivationsAfter(P, e) = P.activations
    BY <1>7 DEF ActivationsAfter, OnActivation
  <2>2. QED
    BY <1>1, <2>1
<1>8. QED
  BY <1>3, <1>4, <1>5, <1>6, <1>7 DEF OnActivation

LEMMA AfterSessions ==
  ASSUME NEW P, WellFormed(P), NEW e \in Events
  PROVE  /\ DOMAIN P.sessions \subseteq DOMAIN SessionsAfter(P, e) /\ DOMAIN SessionsAfter(P, e) \subseteq Sessions
         /\ \A s \in DOMAIN SessionsAfter(P, e) : SessionsAfter(P, e)[s] \in {"active", "ended", "cancelled"}
<1>1. /\ DOMAIN P.sessions \subseteq Sessions
      /\ \A s \in DOMAIN P.sessions : P.sessions[s] \in {"active", "ended", "cancelled"}
  BY DEF WellFormed
<1>2. Complete(e)
  BY EventsAreComplete
<1>3. CASE e.type = "session.start"
  <2>1. SessionsAfter(P, e) = Set(P.sessions, e.id, "active") /\ e.id \in Sessions
    BY <1>2, <1>3 DEF SessionsAfter, Complete, OnSession
  <2>2. PICK after : after = SessionsAfter(P, e)
    OBVIOUS
  <2>3. /\ DOMAIN after = DOMAIN P.sessions \cup {e.id}
        /\ \A k \in DOMAIN after : after[k] = IF k = e.id THEN "active" ELSE P.sessions[k]
    BY <2>1, <2>2 DEF Set
  <2>4. QED
    BY <1>1, <2>1, <2>2, <2>3
<1>4. CASE e.type \in {"session.end", "session.cancel"}
  <2>1. PICK status \in {"ended", "cancelled"} : SessionsAfter(P, e) = [P.sessions EXCEPT ![e.id] = status]
    BY <1>4 DEF SessionsAfter
  <2>2. QED
    BY <1>1, <2>1
<1>5. CASE e.type \notin OnSession
  BY <1>1, <1>5 DEF SessionsAfter, OnSession
<1>6. QED
  BY <1>3, <1>4, <1>5 DEF OnSession

LEMMA AfterEntries ==
  ASSUME NEW P, WellFormed(P), NEW e \in Events, Valid(P, e),
         NEW known, DOMAIN P.sessions \subseteq known
  PROVE  /\ DOMAIN CheckinsAfter(P, e) \subseteq Checkins /\ DOMAIN TrafficAfter(P, e) \subseteq Traffic
         /\ \A k \in DOMAIN CheckinsAfter(P, e) :
              CheckinsAfter(P, e)[k] \in [session : known, deleted : BOOLEAN]
         /\ \A k \in DOMAIN TrafficAfter(P, e) : TrafficAfter(P, e)[k] \in known
<1> DEFINE Row == [session : known, deleted : BOOLEAN]
<1>1. /\ DOMAIN P.checkins \subseteq Checkins /\ DOMAIN P.traffic \subseteq Traffic
      /\ \A k \in DOMAIN P.checkins : P.checkins[k] \in Row
      /\ \A k \in DOMAIN P.traffic : P.traffic[k] \in known
  BY DEF WellFormed
<1>2. Complete(e)
  BY EventsAreComplete
<1>3. e.type \in Entries => e.session \in known
  BY DEF Entries, Valid, QsoValid, ActivationValid, NetValid, Active
<1>4. /\ DOMAIN CheckinsAfter(P, e) \subseteq Checkins
      /\ \A k \in DOMAIN CheckinsAfter(P, e) : CheckinsAfter(P, e)[k] \in Row
  <2>1. CASE e.type = "checkin.create"
    <3>1. PICK row : row = [session |-> e.session, deleted |-> FALSE]
      OBVIOUS
    <3>2. CheckinsAfter(P, e) = Set(P.checkins, e.id, row) /\ e.id \in Checkins
      BY <1>2, <2>1, <3>1 DEF CheckinsAfter, Complete, OnCheckin
    <3>3. row \in Row
      BY <1>3, <2>1, <3>1 DEF Entries
    <3>4. PICK after : after = CheckinsAfter(P, e)
      OBVIOUS
    <3>5. /\ DOMAIN after = DOMAIN P.checkins \cup {e.id}
          /\ \A k \in DOMAIN after : after[k] = IF k = e.id THEN row ELSE P.checkins[k]
      BY <3>2, <3>4 DEF Set
    <3>6. QED
      BY <1>1, <3>2, <3>3, <3>4, <3>5
  <2>2. CASE e.type = "checkin.delete"
    <3>1. CheckinsAfter(P, e) = [P.checkins EXCEPT ![e.id].deleted = TRUE]
      BY <2>2 DEF CheckinsAfter
    <3>2. \A k \in DOMAIN P.checkins : [P.checkins[k] EXCEPT !.deleted = TRUE] \in Row
      BY <1>1
    <3>3. QED
      BY <1>1, <3>1, <3>2
  <2>3. CASE e.type \notin {"checkin.create", "checkin.delete"}
    BY <1>1, <2>3 DEF CheckinsAfter
  <2>4. QED
    BY <2>1, <2>2, <2>3
<1>5. DOMAIN TrafficAfter(P, e) \subseteq Traffic /\ \A k \in DOMAIN TrafficAfter(P, e) : TrafficAfter(P, e)[k] \in known
  <2>1. CASE e.type = "traffic.create"
    <3>1. TrafficAfter(P, e) = Set(P.traffic, e.id, e.session) /\ e.id \in Traffic /\ e.session \in known
      BY <1>2, <1>3, <2>1 DEF TrafficAfter, Complete, OnTraffic, Entries
    <3>2. PICK after : after = TrafficAfter(P, e)
      OBVIOUS
    <3>3. /\ DOMAIN after = DOMAIN P.traffic \cup {e.id}
          /\ \A k \in DOMAIN after : after[k] = IF k = e.id THEN e.session ELSE P.traffic[k]
      BY <3>1, <3>2 DEF Set
    <3>4. QED
      BY <1>1, <3>1, <3>2, <3>3
  <2>2. CASE e.type # "traffic.create"
    BY <1>1, <2>2 DEF TrafficAfter
  <2>3. QED
    BY <2>1, <2>2
<1>6. QED
  BY <1>4, <1>5

LEMMA AfterIsWellFormed ==
  ASSUME NEW P, WellFormed(P), NEW e \in Events, Valid(P, e)
  PROVE  WellFormed(After(P, e))
<1>1. PICK Q : Q = After(P, e)
  OBVIOUS
<1>2. /\ Q.qsos = QsosAfter(P, e) /\ Q.activations = ActivationsAfter(P, e)
      /\ Q.sessions = SessionsAfter(P, e) /\ Q.checkins = CheckinsAfter(P, e)
      /\ Q.traffic = TrafficAfter(P, e)
  BY <1>1 DEF After
<1>3. DOMAIN P.qsos \subseteq DOMAIN Q.qsos /\ DOMAIN P.sessions \subseteq DOMAIN Q.sessions
  BY <1>2, AfterQsos, AfterSessions
<1>4. /\ DOMAIN Q.activations \subseteq Activations
      /\ \A a \in DOMAIN Q.activations : Q.activations[a] \in [status : Statuses, linked : SUBSET DOMAIN Q.qsos]
  BY <1>2, <1>3, AfterActivations
<1>5. /\ DOMAIN Q.checkins \subseteq Checkins /\ DOMAIN Q.traffic \subseteq Traffic
      /\ \A k \in DOMAIN Q.checkins : Q.checkins[k] \in [session : DOMAIN Q.sessions, deleted : BOOLEAN]
      /\ \A k \in DOMAIN Q.traffic : Q.traffic[k] \in DOMAIN Q.sessions
  BY <1>2, <1>3, AfterEntries
<1>6. /\ DOMAIN Q.qsos \subseteq Qsos /\ \A q \in DOMAIN Q.qsos : Q.qsos[q] \in [deleted : BOOLEAN]
      /\ DOMAIN Q.sessions \subseteq Sessions
      /\ \A s \in DOMAIN Q.sessions : Q.sessions[s] \in {"active", "ended", "cancelled"}
  BY <1>2, AfterQsos, AfterSessions
<1>7. QED
  BY <1>1, <1>4, <1>5, <1>6 DEF WellFormed

-----------------------------------------------------------------------------
(***************************************************************************)
(* What a replica is ahead by leads from what both know to what it knows,  *)
(* by events that are each valid at their place.                           *)
(***************************************************************************)

Along(P, es, Q, S) ==
    /\ S[0] = P /\ S[Len(es)] = Q
    /\ \A i \in 1..Len(es) : /\ WellFormed(S[i - 1]) /\ Valid(S[i - 1], es[i])
                            /\ S[i] = After(S[i - 1], es[i])

Leads(P, es, Q) == WellFormed(P) /\ WellFormed(Q) /\ \E S : Along(P, es, Q, S)

LEMMA LeadsNowhere ==
  ASSUME NEW P
  PROVE  /\ WellFormed(P) => Leads(P, << >>, P)
         /\ \A Q : Leads(P, << >>, Q) => Q = P
<1>1. Len(<< >>) = 0 /\ 1..0 = {}
  OBVIOUS
<1>2. Along(P, << >>, P, [i \in {0} |-> P])
  BY <1>1 DEF Along
<1>3. \A Q, S : Along(P, << >>, Q, S) => Q = P
  BY <1>1 DEF Along
<1>4. QED
  BY <1>2, <1>3 DEF Leads

LEMMA LeadsOn ==
  ASSUME NEW P, NEW es \in Seq(Events), NEW Q, Leads(P, es, Q), NEW e \in Events, Valid(Q, e)
  PROVE  Leads(P, Append(es, e), After(Q, e))
<1>1. PICK S : Along(P, es, Q, S)
  BY DEF Leads
<1>2. PICK next, more : next = After(Q, e) /\ more = Append(es, e)
  OBVIOUS
<1>3. PICK n \in Nat : n = Len(es)
  BY LenProperties
<1>4. Len(more) = n + 1 /\ (\A i \in 1..n : more[i] = es[i]) /\ more[n + 1] = e
  BY <1>2, <1>3, AppendProperties
<1>5. PICK T : T = [i \in 0..n + 1 |-> IF i = n + 1 THEN next ELSE S[i]]
  OBVIOUS
<1>6. T[n + 1] = next /\ \A i \in 0..n : T[i] = S[i]
  BY <1>3, <1>5
<1>7. WellFormed(P) /\ WellFormed(Q) /\ WellFormed(next)
  BY <1>2, AfterIsWellFormed DEF Leads
<1>8. S[0] = P /\ S[n] = Q
  BY <1>1, <1>3 DEF Along
<1>9. ASSUME NEW i \in 1..n + 1
      PROVE  /\ WellFormed(T[i - 1]) /\ Valid(T[i - 1], more[i]) /\ T[i] = After(T[i - 1], more[i])
  <2>1. CASE i = n + 1
    <3>1. T[i - 1] = Q /\ T[i] = next /\ more[i] = e
      BY <1>3, <1>4, <1>6, <1>8, <2>1
    <3>2. QED
      BY <1>2, <1>7, <3>1
  <2>2. CASE i # n + 1
    <3>1. i \in 1..n /\ i - 1 \in 0..n /\ i \in 0..n
      BY <1>3, <2>2
    <3>2. T[i - 1] = S[i - 1] /\ T[i] = S[i] /\ more[i] = es[i]
      BY <1>4, <1>6, <3>1
    <3>3. WellFormed(S[i - 1]) /\ Valid(S[i - 1], es[i]) /\ S[i] = After(S[i - 1], es[i])
      BY <1>1, <1>3, <3>1 DEF Along
    <3>4. QED
      BY <3>2, <3>3
  <2>3. QED
    BY <2>1, <2>2
<1>10. T[0] = P /\ T[Len(more)] = next
  BY <1>3, <1>4, <1>6, <1>8
<1>11. Along(P, more, next, T)
  BY <1>4, <1>9, <1>10 DEF Along
<1>12. QED
  BY <1>2, <1>7, <1>11 DEF Leads

LEMMA LeadsFrom ==
  ASSUME NEW P, NEW es \in Seq(Events), es # << >>, NEW Q, Leads(P, es, Q)
  PROVE  Valid(P, Head(es)) /\ Leads(After(P, Head(es)), Tail(es), Q)
<1>1. PICK S : Along(P, es, Q, S)
  BY DEF Leads
<1>2. PICK e, rest : e = Head(es) /\ rest = Tail(es)
  OBVIOUS
<1>3. PICK n \in Nat : n = Len(es)
  BY LenProperties
<1>4. e = es[1] /\ e \in Events /\ n # 0 /\ Len(rest) = n - 1
      /\ \A i \in 1..n - 1 : rest[i] = es[i + 1]
  BY <1>2, <1>3, HeadTailProperties, EmptySeq
<1>5. 1 \in 1..n /\ 1 - 1 = 0
  BY <1>3, <1>4
<1>6. S[0] = P /\ S[n] = Q
  BY <1>1, <1>3 DEF Along
<1>7. /\ WellFormed(S[1 - 1]) /\ Valid(S[1 - 1], es[1]) /\ S[1] = After(S[1 - 1], es[1])
  BY <1>1, <1>3, <1>5 DEF Along
<1>8. Valid(P, e) /\ S[1] = After(P, e)
  BY <1>4, <1>5, <1>6, <1>7
<1>9. WellFormed(P) /\ WellFormed(Q) /\ WellFormed(S[1])
  BY <1>4, <1>8, AfterIsWellFormed DEF Leads
<1>10. PICK T : T = [i \in 0..n - 1 |-> S[i + 1]]
  OBVIOUS
<1>11. ASSUME NEW i \in 1..n - 1
       PROVE  /\ WellFormed(T[i - 1]) /\ Valid(T[i - 1], rest[i]) /\ T[i] = After(T[i - 1], rest[i])
  <2>1. i + 1 \in 1..n /\ i \in 0..n - 1 /\ i - 1 \in 0..n - 1 /\ i - 1 + 1 = i /\ i + 1 - 1 = i
    BY <1>3
  <2>2. T[i - 1] = S[i] /\ T[i] = S[i + 1] /\ rest[i] = es[i + 1]
    BY <1>4, <1>10, <2>1
  <2>3. WellFormed(S[i + 1 - 1]) /\ Valid(S[i + 1 - 1], es[i + 1]) /\ S[i + 1] = After(S[i + 1 - 1], es[i + 1])
    BY <1>1, <1>3, <2>1 DEF Along
  <2>4. QED
    BY <2>1, <2>2, <2>3
<1>12. T[0] = S[1] /\ T[n - 1] = Q
  <2>1. 0 \in 0..n - 1 /\ n - 1 \in 0..n - 1 /\ n - 1 + 1 = n /\ 0 + 1 = 1
    BY <1>3, <1>4
  <2>2. QED
    BY <1>6, <1>10, <2>1
<1>13. Along(S[1], rest, Q, T)
  BY <1>4, <1>11, <1>12 DEF Along
<1>14. QED
  BY <1>2, <1>8, <1>9, <1>13 DEF Leads

-----------------------------------------------------------------------------
(***************************************************************************)
(* The inductive invariant, and the steps of the replicas.                 *)
(***************************************************************************)

WorkIInv ==
    /\ WorkTypeOK /\ ValidAtItsPlace
    /\ \E common : \A r \in Replicas : Leads(common, ahead[r], projection[r])

\* A replica that adds what is valid where it stands, and no more than fits.
LEMMA ReplicaGrows ==
  ASSUME WorkIInv, NEW r \in Replicas, NEW es \in Seq(Events), Len(es) <= MaxAhead, NEW Q,
         \A common : Leads(common, ahead[r], projection[r]) => Leads(common, es, Q),
         projection' = [projection EXCEPT ![r] = Q], ahead' = [ahead EXCEPT ![r] = es],
         UNCHANGED misplaced
  PROVE  WorkIInv'
<1>1. WorkTypeOK /\ misplaced = {}
  BY DEF WorkIInv, ValidAtItsPlace
<1>2. PICK common : \A s \in Replicas : Leads(common, ahead[s], projection[s])
  BY DEF WorkIInv
<1>3. DOMAIN projection = Replicas /\ ahead \in [Replicas -> Seq(Events)]
      /\ \A s \in Replicas : WellFormed(projection[s]) /\ Len(ahead[s]) <= MaxAhead
  BY <1>1 DEF WorkTypeOK
<1>4. /\ projection'[r] = Q /\ ahead'[r] = es /\ DOMAIN projection' = Replicas
      /\ \A s \in Replicas \ {r} : projection'[s] = projection[s] /\ ahead'[s] = ahead[s]
  BY <1>3
<1>5. \A s \in Replicas : Leads(common, ahead'[s], projection'[s])
  BY <1>2, <1>4
<1>6. ahead' \in [Replicas -> Seq(Events)]
  BY <1>3
<1>7. \A s \in Replicas : WellFormed(projection'[s]) /\ Len(ahead'[s]) <= MaxAhead
  BY <1>3, <1>4, <1>5 DEF Leads
<1>8. WorkTypeOK'
  BY <1>1, <1>4, <1>6, <1>7 DEF WorkTypeOK
<1>9. QED
  BY <1>1, <1>5, <1>8 DEF WorkIInv, ValidAtItsPlace

LEMMA SubmitKeeps ==
  ASSUME WorkIInv, NEW r \in Replicas, NEW p \in DesktopProposals, Submit(r, p)
  PROVE  WorkIInv'
<1>1. Valid(projection[r], p) /\ Len(ahead[r]) < MaxAhead /\ UNCHANGED misplaced
  BY DEF Submit
<1>2. PICK e \in Identified(p) :
        /\ projection' = [projection EXCEPT ![r] = After(projection[r], e)]
        /\ ahead' = [ahead EXCEPT ![r] = Append(ahead[r], e)]
  BY DEF Submit
<1>3. e \in Events /\ Valid(projection[r], e)
  BY <1>1, IdentifiedAreEvents
<1>4. ahead[r] \in Seq(Events)
  BY DEF WorkIInv, WorkTypeOK
<1>5. Append(ahead[r], e) \in Seq(Events) /\ Len(Append(ahead[r], e)) = Len(ahead[r]) + 1 /\ Len(ahead[r]) \in Nat
  BY <1>3, <1>4, AppendProperties, LenProperties
<1>6. Len(Append(ahead[r], e)) <= MaxAhead
  BY <1>1, <1>5, MaxAheadAssumption
<1>7. \A common : Leads(common, ahead[r], projection[r])
                  => Leads(common, Append(ahead[r], e), After(projection[r], e))
  BY <1>3, <1>4, LeadsOn
<1>8. QED
  BY <1>1, <1>2, <1>5, <1>6, <1>7, ReplicaGrows

LEMMA PortableKeeps ==
  ASSUME WorkIInv, NEW q \in Qsos, NEW target \in ActiveActivations, NEW fails \in BOOLEAN,
         LogPortable(q, target, fails)
  PROVE  WorkIInv'
<1>1. PICK r : r = "desktop"
  OBVIOUS
<1>2. PICK created, link : /\ created = [type |-> "qso.create", id |-> q]
                           /\ link = [type |-> "qso.link", id |-> q, activation |-> target]
  OBVIOUS
<1>3. PICK P, logged : P = projection[r] /\ logged = After(P, created)
  OBVIOUS
<1>4. /\ Len(ahead[r]) + 2 <= MaxAhead /\ Valid(logged, link) /\ UNCHANGED misplaced
      /\ \/ /\ projection' = [projection EXCEPT ![r] = logged]
            /\ ahead' = [ahead EXCEPT ![r] = Append(ahead[r], created)]
         \/ /\ projection' = [projection EXCEPT ![r] = After(logged, link)]
            /\ ahead' = [ahead EXCEPT ![r] = Append(Append(ahead[r], created), link)]
  BY <1>1, <1>2, <1>3 DEF LogPortable
<1>5. r \in Replicas /\ ahead[r] \in Seq(Events) /\ WellFormed(P) /\ MaxAhead \in Nat
  BY <1>1, <1>3, MaxAheadAssumption DEF WorkIInv, WorkTypeOK, Replicas
<1>6. created \in Events /\ link \in Events
  <2>1. target \in Activations
    BY <1>1, <1>3, <1>5 DEF ActiveActivations, WellFormed
  <2>2. created \in DesktopProposals /\ link \in DesktopProposals
    BY <1>2, <2>1 DEF DesktopProposals
  <2>3. QED
    BY <1>2, <2>2, UnsetAssumption DEF Events
<1>7. Valid(P, created)
  BY <1>2 DEF Valid, QsoValid
<1>8. PICK one, two : one = Append(ahead[r], created) /\ two = Append(one, link)
  OBVIOUS
<1>9. one \in Seq(Events) /\ Len(one) = Len(ahead[r]) + 1 /\ Len(ahead[r]) \in Nat
  BY <1>5, <1>6, <1>8, AppendProperties, LenProperties
<1>10. two \in Seq(Events) /\ Len(two) = Len(one) + 1
  BY <1>6, <1>8, <1>9, AppendProperties
<1>11. Len(one) <= MaxAhead /\ Len(two) <= MaxAhead
  BY <1>4, <1>5, <1>9, <1>10
<1>12. \A common : Leads(common, ahead[r], P) => Leads(common, one, logged)
  BY <1>3, <1>5, <1>6, <1>7, <1>8, LeadsOn
<1>13. \A common : Leads(common, one, logged) => Leads(common, two, After(logged, link))
  BY <1>4, <1>6, <1>8, <1>9, LeadsOn
<1>14. CASE projection' = [projection EXCEPT ![r] = logged] /\ ahead' = [ahead EXCEPT ![r] = one]
  BY <1>3, <1>4, <1>5, <1>9, <1>11, <1>12, <1>14, ReplicaGrows
<1>15. CASE projection' = [projection EXCEPT ![r] = After(logged, link)] /\ ahead' = [ahead EXCEPT ![r] = two]
  <2>1. \A common : Leads(common, ahead[r], projection[r]) => Leads(common, two, After(logged, link))
    BY <1>3, <1>12, <1>13
  <2>2. QED
    BY <1>4, <1>5, <1>10, <1>11, <1>15, <2>1, ReplicaGrows
<1>16. QED
  BY <1>4, <1>8, <1>14, <1>15

\* A replica that has nothing of its own stands where the other once stood.
LEMMA TakeKeeps ==
  ASSUME WorkIInv, NEW r \in Replicas, Take(r)
  PROVE  WorkIInv'
<1>1. WorkTypeOK /\ misplaced = {}
  BY DEF WorkIInv, ValidAtItsPlace
<1>2. PICK common : \A s \in Replicas : Leads(common, ahead[s], projection[s])
  BY DEF WorkIInv
<1>3. PICK o : o = Other(r)
  OBVIOUS
<1>4. o \in Replicas /\ o # r /\ \A s \in Replicas : s \in {r, o}
  BY <1>3 DEF Other, Replicas
<1>5. PICK e : e = Head(ahead[o])
  OBVIOUS
<1>6. /\ ahead[o] # << >> /\ ahead[r] = << >>
      /\ projection' = [projection EXCEPT ![r] = After(projection[r], e)]
      /\ ahead' = [ahead EXCEPT ![o] = Tail(ahead[o])]
      /\ misplaced' = IF Valid(projection[r], e) THEN misplaced ELSE misplaced \cup {e}
  BY <1>3, <1>5 DEF Take, Connects
<1>7. /\ DOMAIN projection = Replicas /\ ahead \in [Replicas -> Seq(Events)] /\ MaxAhead \in Nat
      /\ \A s \in Replicas : WellFormed(projection[s]) /\ Len(ahead[s]) <= MaxAhead
  BY <1>1, MaxAheadAssumption DEF WorkTypeOK
<1>8. projection[r] = common
  <2>1. PICK Q : Q = projection[r]
    OBVIOUS
  <2>2. Leads(common, << >>, Q)
    BY <1>2, <1>6, <2>1
  <2>3. QED
    BY <2>1, <2>2, LeadsNowhere
<1>9. PICK es \in Seq(Events) : es = ahead[o]
  BY <1>4, <1>7
<1>10. PICK next : next = After(common, e)
  OBVIOUS
<1>11. Valid(common, e) /\ Leads(next, Tail(es), projection[o])
  BY <1>2, <1>4, <1>5, <1>6, <1>9, <1>10, LeadsFrom
<1>12. WellFormed(next) /\ Leads(next, << >>, next)
  BY <1>11, LeadsNowhere DEF Leads
<1>13. /\ projection'[r] = next /\ projection'[o] = projection[o] /\ DOMAIN projection' = Replicas
       /\ ahead'[r] = << >> /\ ahead'[o] = Tail(es) /\ misplaced' = {}
  BY <1>1, <1>4, <1>6, <1>7, <1>8, <1>9, <1>10, <1>11
<1>14. \A s \in Replicas : Leads(next, ahead'[s], projection'[s])
  BY <1>4, <1>11, <1>12, <1>13
<1>15. Tail(es) \in Seq(Events) /\ Len(Tail(es)) = Len(es) - 1 /\ Len(es) \in Nat
  BY <1>6, <1>9, HeadTailProperties, LenProperties
<1>16. ahead' \in [Replicas -> Seq(Events)]
  BY <1>6, <1>7, <1>9, <1>15
<1>17. \A s \in Replicas : WellFormed(projection'[s]) /\ Len(ahead'[s]) <= MaxAhead
  <2>1. Len(es) <= MaxAhead
    BY <1>4, <1>7, <1>9
  <2>2. Len(ahead'[r]) = 0 /\ Len(ahead'[o]) <= MaxAhead
    BY <1>7, <1>13, <1>15, <2>1
  <2>3. \A s \in Replicas : Len(ahead'[s]) <= MaxAhead
    BY <1>4, <1>7, <2>2
  <2>4. QED
    BY <1>14, <2>3 DEF Leads
<1>18. WorkTypeOK'
  BY <1>13, <1>16, <1>17 DEF WorkTypeOK
<1>19. QED
  BY <1>13, <1>14, <1>18 DEF WorkIInv, ValidAtItsPlace

-----------------------------------------------------------------------------
(***************************************************************************)
(* The theorems.                                                           *)
(***************************************************************************)

\* The inductive invariant holds in every behavior.
THEOREM WorkInvariant == WorkSpec => []WorkIInv
<1>1. ASSUME WorkInit PROVE WorkIInv
  <2>1. PICK none : none = Empty
    OBVIOUS
  <2>2. WellFormed(none)
    BY <2>1 DEF Empty, WellFormed
  <2>3. /\ DOMAIN projection = Replicas /\ ahead \in [Replicas -> {<< >>}] /\ misplaced = {}
        /\ \A r \in Replicas : projection[r] = none /\ ahead[r] = << >>
    BY <1>1, <2>1 DEF WorkInit
  <2>4. << >> \in Seq(Events) /\ Len(<< >>) <= MaxAhead
    BY MaxAheadAssumption
  <2>5. WorkTypeOK
    BY <2>2, <2>3, <2>4 DEF WorkTypeOK
  <2>6. \A r \in Replicas : Leads(none, ahead[r], projection[r])
    BY <2>2, <2>3, LeadsNowhere
  <2>7. QED
    BY <2>3, <2>5, <2>6 DEF WorkIInv, ValidAtItsPlace
<1>2. WorkIInv /\ [WorkNext]_workVars => WorkIInv'
  <2> SUFFICES ASSUME WorkIInv, [WorkNext]_workVars PROVE WorkIInv'
    OBVIOUS
  <2>1. CASE UNCHANGED workVars
    BY <2>1 DEF workVars, WorkIInv, WorkTypeOK, ValidAtItsPlace
  <2>2. ASSUME NEW c \in Clients, NEW p \in HostedProposals, SubmitOnServer(c, p) PROVE WorkIInv'
    <3>1. "server" \in Replicas /\ p \in DesktopProposals /\ Submit("server", p)
      BY <2>2, HostedAreDesktopProposals DEF Replicas, SubmitOnServer
    <3>2. QED
      BY <3>1, SubmitKeeps
  <2>3. ASSUME NEW p \in DesktopProposals, SubmitOnDesktop(p) PROVE WorkIInv'
    <3>1. "desktop" \in Replicas /\ Submit("desktop", p)
      BY <2>3 DEF Replicas, SubmitOnDesktop
    <3>2. QED
      BY <3>1, SubmitKeeps
  <2>4. ASSUME NEW q \in Qsos, NEW target \in ActiveActivations, NEW fails \in BOOLEAN,
               LogPortable(q, target, fails)
        PROVE  WorkIInv'
    BY <2>4, PortableKeeps
  <2>5. ASSUME NEW r \in Replicas, Take(r) PROVE WorkIInv'
    BY <2>5, TakeKeeps
  <2>6. QED
    BY <2>1, <2>2, <2>3, <2>4, <2>5 DEF WorkNext
<1>3. QED
  BY <1>1, <1>2, PTL DEF WorkSpec

\* The projections of both replicas are well formed, whatever they took from
\* each other without validation.
THEOREM WorkTypes == WorkSpec => []WorkTypeOK
<1>1. WorkIInv => WorkTypeOK
  BY DEF WorkIInv
<1>2. QED
  BY <1>1, WorkInvariant, PTL

\* An event that a replica takes from the other is one it would have accepted
\* itself (append_verified_remote_event compares the previous hash, and does not
\* call validate_qso_schema), for any length of the unshared logs.
THEOREM TakenEventsAreValid == WorkSpec => []ValidAtItsPlace
<1>1. WorkIInv => ValidAtItsPlace
  BY DEF WorkIInv
<1>2. QED
  BY <1>1, WorkInvariant, PTL

-----------------------------------------------------------------------------
(***************************************************************************)
(* The trust between desktops.                                             *)
(***************************************************************************)

-----------------------------------------------------------------------------
(***************************************************************************)
(* The inductive invariant.                                                *)
(***************************************************************************)

LanTables == DOMAIN trusted = Desktops /\ DOMAIN secrets = Desktops /\ DOMAIN asking = Desktops

\* Nobody answers its own token.
PairsWithOthers ==
    /\ \A r \in posted : tokens[r.token].by # r.from
    /\ \A d \in Desktops : asking[d] # Idle => tokens[asking[d].token].by # d

\* Two records of a desktop never name the same credential.
OwnCredentials ==
    \A d \in Desktops : \A p, q \in DOMAIN trusted[d] :
        trusted[d][p].cred = trusted[d][q].cred => p = q

\* What a token has granted has used it.
GrantsUse ==
    /\ \A d \in Desktops : \A p \in DOMAIN trusted[d] :
          trusted[d][p].token \in DOMAIN tokens /\ tokens[trusted[d][p].token].state = "used"
    /\ \A d \in Desktops : asking[d].stage = "granted" => tokens[asking[d].token].state = "used"

\* The record of p at d is the one its pairing left.
AsPaired(d, p) == Trusts(d, p) /\ ~trusted[d][p].rotated
CodeOf(d, p) == secrets[d][trusted[d][p].cred]

\* A granted request and the record it was granted by have the same code.
GrantAgrees ==
    \A d, p \in Desktops :
        /\ asking[p].stage = "granted" /\ tokens[asking[p].token].by = d
        /\ AsPaired(d, p) /\ trusted[d][p].token = asking[p].token
        => CodeOf(d, p) = asking[p].code

Agree ==
    \A d, p \in Desktops :
        AsPaired(d, p) /\ AsPaired(p, d) /\ trusted[d][p].token = trusted[p][d].token
        => CodeOf(d, p) = CodeOf(p, d)

\* A nonce belongs to one request, and an answered one is on record until it
\* is forgotten.
NoncesKept ==
    /\ \A r, s \in signed : r.nonce = s.nonce => r = s
    /\ \A n \in RequestIds : answered[n] > 0 => \E r \in signed : r.nonce = n
    /\ \A r \in signed : answered[r.nonce] > 0 => r.nonce \in seen[r.to] \/ r.nonce \in forgotten

TrustInv == /\ LanTypeOK /\ LanTables /\ PairsWithOthers /\ OwnCredentials /\ TrustHasSecret
            /\ GrantsUse /\ GrantAgrees /\ Agree
LanIInv == TrustInv /\ NoncesKept /\ AnsweredOnce

\* The part of the type invariant about both files.
FilesOK ==
    \A d \in Desktops :
        /\ DOMAIN trusted[d] \subseteq Desktops \ {d}
        /\ \A p \in DOMAIN trusted[d] : trusted[d][p] \in Records
        /\ DOMAIN secrets[d] \subseteq Credentials
        /\ \A k \in DOMAIN secrets[d] : secrets[d][k] \in Codes

-----------------------------------------------------------------------------
(***************************************************************************)
(* What a handler that writes both files leaves behind.                    *)
(***************************************************************************)

\* Only the tables of one desktop change; a credential that a record still
\* names keeps its secret; the record is new together with its secret.
LEMMA WritesEffect ==
  ASSUME TrustInv, NEW d \in Desktops, NEW p \in Desktops \ {d}, NEW k \in Unused(d),
         NEW code \in Codes, NEW r \in Records, r.cred = k,
         NEW old, p \notin DOMAIN trusted[d] => old = {},
         p \in DOMAIN trusted[d] => old \subseteq {trusted[d][p].cred},
         Writes(d, p, k, code, r, old)
  PROVE  /\ DOMAIN trusted' = Desktops /\ DOMAIN secrets' = Desktops
         /\ \A x \in Desktops \ {d} : trusted'[x] = trusted[x] /\ secrets'[x] = secrets[x]
         /\ \/ trusted'[d] = trusted[d] /\ trusted' = trusted
            \/ /\ trusted'[d] = Put(trusted[d], p, r) /\ trusted' # trusted
               /\ k \in DOMAIN secrets'[d] /\ secrets'[d][k] = code
         /\ DOMAIN secrets'[d] \subseteq Credentials
         /\ \A j \in DOMAIN secrets'[d] : secrets'[d][j] \in Codes
         /\ \A q \in DOMAIN trusted[d] :
               (q # p \/ trusted'[d] = trusted[d]) /\ trusted[d][q].cred \in DOMAIN secrets[d] =>
                   /\ trusted[d][q].cred \in DOMAIN secrets'[d]
                   /\ secrets'[d][trusted[d][q].cred] = secrets[d][trusted[d][q].cred]
         /\ lanFaults' \in 0 .. MaxLanFaults
<1>1. k \in Credentials /\ k \notin DOMAIN secrets[d]
      /\ \A q \in DOMAIN trusted[d] : trusted[d][q].cred # k
  BY DEF Unused, Free
<1>2. DOMAIN trusted = Desktops /\ DOMAIN secrets = Desktops
      /\ DOMAIN secrets[d] \subseteq Credentials
      /\ \A j \in DOMAIN secrets[d] : secrets[d][j] \in Codes
  BY DEF TrustInv, LanTables, LanTypeOK
<1>3. k \notin old
  BY <1>1
<1>4. \A q \in DOMAIN trusted[d] \ {p} : trusted[d][q].cred \notin old
  BY DEF TrustInv, OwnCredentials
<1>5. lanFaults' \in 0 .. MaxLanFaults
  BY LanBoundsAssumption DEF Writes, TrustInv, LanTypeOK
<1>6. CASE /\ secrets' = [secrets EXCEPT ![d] = Drop(Put(@, k, code), old)]
           /\ trusted' = [trusted EXCEPT ![d] = Put(@, p, r)]
  <2>1. secrets'[d] = Drop(Put(secrets[d], k, code), old) /\ trusted'[d] = Put(trusted[d], p, r)
    BY <1>2, <1>6
  <2>2. DOMAIN secrets'[d] = (DOMAIN secrets[d] \cup {k}) \ old
        /\ \A j \in DOMAIN secrets'[d] : secrets'[d][j] = IF j = k THEN code ELSE secrets[d][j]
    BY <2>1 DEF Put, Drop
  <2>3. p \in DOMAIN trusted'[d] /\ trusted'[d][p].cred = k
    BY <2>1 DEF Put
  <2>4. trusted'[d] # trusted[d]
    BY <1>1, <2>3
  <2>5. QED
    BY <1>1, <1>2, <1>3, <1>4, <1>5, <1>6, <2>1, <2>2, <2>4
<1>7. CASE /\ secrets' = [secrets EXCEPT ![d] = Put(@, k, code)]
           /\ trusted' = [trusted EXCEPT ![d] = Put(@, p, r)] \/ trusted' = trusted
  <2>1. DOMAIN secrets'[d] = DOMAIN secrets[d] \cup {k}
        /\ \A j \in DOMAIN secrets'[d] : secrets'[d][j] = IF j = k THEN code ELSE secrets[d][j]
    BY <1>2, <1>7 DEF Put
  <2>2. QED
    BY <1>1, <1>2, <1>5, <1>7, <2>1
<1>8. CASE UNCHANGED <<secrets, trusted>>
  BY <1>2, <1>5, <1>8
<1>9. QED
  BY <1>6, <1>7, <1>8 DEF Writes

\* The parts of the invariant that a write of both files keeps by itself, and
\* which records are left as they were.
LEMMA WritesKeep ==
  ASSUME TrustInv, NEW d \in Desktops, NEW p \in Desktops \ {d}, NEW k \in Unused(d),
         NEW code \in Codes, NEW r \in Records, r.cred = k,
         NEW old, p \notin DOMAIN trusted[d] => old = {},
         p \in DOMAIN trusted[d] => old \subseteq {trusted[d][p].cred},
         Writes(d, p, k, code, r, old)
  PROVE  /\ DOMAIN trusted' = Desktops /\ DOMAIN secrets' = Desktops
         /\ FilesOK' /\ lanFaults' \in 0 .. MaxLanFaults
         /\ OwnCredentials' /\ TrustHasSecret'
         /\ \A x \in Desktops : \A y \in DOMAIN trusted'[x] :
              \/ /\ x = d /\ y = p /\ trusted' # trusted
                 /\ trusted'[x][y] = r /\ secrets'[x][r.cred] = code
              \/ /\ y \in DOMAIN trusted[x] /\ trusted'[x][y] = trusted[x][y]
                 /\ ~trusted[x][y].revoked =>
                       secrets'[x][trusted[x][y].cred] = secrets[x][trusted[x][y].cred]
<1> DEFINE Same(x, y) == y \in DOMAIN trusted[x] /\ trusted'[x][y] = trusted[x][y]
           New(x, y) == x = d /\ y = p /\ trusted'[x][y] = r
<1>1. /\ DOMAIN trusted' = Desktops /\ DOMAIN secrets' = Desktops
      /\ \A x \in Desktops \ {d} : trusted'[x] = trusted[x] /\ secrets'[x] = secrets[x]
      /\ \/ trusted'[d] = trusted[d] /\ trusted' = trusted
         \/ /\ trusted'[d] = Put(trusted[d], p, r) /\ trusted' # trusted
            /\ k \in DOMAIN secrets'[d] /\ secrets'[d][k] = code
      /\ DOMAIN secrets'[d] \subseteq Credentials
      /\ \A j \in DOMAIN secrets'[d] : secrets'[d][j] \in Codes
      /\ \A q \in DOMAIN trusted[d] :
            (q # p \/ trusted'[d] = trusted[d]) /\ trusted[d][q].cred \in DOMAIN secrets[d] =>
                /\ trusted[d][q].cred \in DOMAIN secrets'[d]
                /\ secrets'[d][trusted[d][q].cred] = secrets[d][trusted[d][q].cred]
      /\ lanFaults' \in 0 .. MaxLanFaults
  BY WritesEffect
<1>2. \A x \in Desktops : \A y \in DOMAIN trusted'[x] :
        \/ /\ New(x, y) /\ trusted' # trusted
           /\ k \in DOMAIN secrets'[d] /\ secrets'[d][k] = code
        \/ Same(x, y) /\ (x # d \/ y # p \/ trusted'[d] = trusted[d])
  <2>1. CASE trusted' = trusted
    BY <2>1
  <2>2. CASE /\ trusted'[d] = Put(trusted[d], p, r) /\ trusted' # trusted
             /\ k \in DOMAIN secrets'[d] /\ secrets'[d][k] = code
    BY <1>1, <2>2 DEF Put
  <2>3. QED
    BY <1>1, <2>1, <2>2
<1>3. \A x \in Desktops : \A y \in DOMAIN trusted'[x] :
        Same(x, y) /\ (x # d \/ y # p \/ trusted'[d] = trusted[d]) /\ ~trusted[x][y].revoked =>
            /\ trusted[x][y].cred \in DOMAIN secrets'[x]
            /\ secrets'[x][trusted[x][y].cred] = secrets[x][trusted[x][y].cred]
  BY <1>1 DEF TrustInv, TrustHasSecret
<1>4. TrustHasSecret'
  BY <1>2, <1>3 DEF TrustHasSecret
<1>5. \A q \in DOMAIN trusted[d] : trusted[d][q].cred # k
  BY DEF Unused, Free
<1>6. OwnCredentials'
  <2> SUFFICES ASSUME NEW x \in Desktops, NEW y \in DOMAIN trusted'[x], NEW z \in DOMAIN trusted'[x],
                      trusted'[x][y].cred = trusted'[x][z].cred
               PROVE  y = z
    BY DEF OwnCredentials
  <2>1. (New(x, y) \/ Same(x, y)) /\ (New(x, z) \/ Same(x, z))
    BY <1>2
  <2>2. CASE Same(x, y) /\ Same(x, z)
    BY <2>2 DEF TrustInv, OwnCredentials
  <2>3. QED
    BY <1>5, <2>1, <2>2
<1>7. FilesOK'
  BY <1>1, <1>2 DEF FilesOK, TrustInv, LanTypeOK
<1>8. QED
  BY <1>1, <1>2, <1>3, <1>4, <1>6, <1>7

\* What an answer does to the requests.
LEMMA AnswerEffect ==
  ASSUME DOMAIN asking = Desktops, NEW r, r.from \in Desktops, NEW stage, Answer(r, stage)
  PROVE  /\ DOMAIN asking' = Desktops
         /\ \A x \in Desktops :
              \/ asking'[x] = asking[x]
              \/ /\ x = r.from /\ asking[x].stage = "waiting" /\ asking[x].token = r.token
                 /\ asking'[x] = [stage |-> stage, token |-> r.token, code |-> r.code]
  BY DEF Answer

-----------------------------------------------------------------------------
(***************************************************************************)
(* Steps that leave trust file and credential store alone.                 *)
(***************************************************************************)

LEMMA FilesUnchanged ==
  ASSUME TrustInv, UNCHANGED <<trusted, secrets>>
  PROVE  /\ DOMAIN trusted' = Desktops /\ DOMAIN secrets' = Desktops
         /\ FilesOK' /\ OwnCredentials' /\ TrustHasSecret' /\ Agree'
         /\ \A x, y : AsPaired(x, y)' = AsPaired(x, y) /\ CodeOf(x, y)' = CodeOf(x, y)
  BY DEF TrustInv, LanTypeOK, FilesOK, LanTables, OwnCredentials, TrustHasSecret, Agree, AsPaired,
         CodeOf, Trusts

LEMMA IssueTokenStep ==
  ASSUME TrustInv, NEW d \in Desktops, IssueToken(d)
  PROVE  TrustInv'
<1>1. PICK t \in TokenIds \ DOMAIN tokens : tokens' = Put(tokens, t, [by |-> d, state |-> "open"])
  BY DEF IssueToken
<1>2. UNCHANGED <<trusted, secrets, asking, posted, signed, seen, forgotten, answered, codes, lanFaults>>
  BY DEF IssueToken
<1>3. DOMAIN tokens' = DOMAIN tokens \cup {t} /\ tokens'[t] = [by |-> d, state |-> "open"]
      /\ \A i \in DOMAIN tokens : tokens'[i] = tokens[i]
  BY <1>1 DEF Put
<1>4. LanTypeOK'
  BY <1>2, <1>3 DEF TrustInv, LanTypeOK
<1>5. LanTables' /\ PairsWithOthers'
  BY <1>2, <1>3, FilesUnchanged DEF TrustInv, LanTypeOK, LanTables, PairsWithOthers, Idle
<1>6. GrantsUse'
  <2>1. \A x \in Desktops : \A p \in DOMAIN trusted'[x] :
          trusted'[x][p].token \in DOMAIN tokens' /\ tokens'[trusted'[x][p].token].state = "used"
    BY <1>2, <1>3 DEF TrustInv, GrantsUse
  <2>2. \A x \in Desktops : asking'[x].stage = "granted" => asking[x].token \in DOMAIN tokens
    BY <1>2 DEF TrustInv, LanTypeOK, Idle
  <2>3. \A x \in Desktops : asking'[x].stage = "granted" => tokens'[asking'[x].token].state = "used"
    BY <1>2, <1>3, <2>2 DEF TrustInv, GrantsUse
  <2>4. QED
    BY <2>1, <2>3 DEF GrantsUse
<1>7. GrantAgrees'
  <2> SUFFICES ASSUME NEW x \in Desktops, NEW p \in Desktops,
                      (asking[p].stage = "granted")', (tokens[asking[p].token].by = x)',
                      AsPaired(x, p)', (trusted[x][p].token = asking[p].token)'
               PROVE  (CodeOf(x, p) = asking[p].code)'
    BY DEF GrantAgrees
  <2>1. asking[p].token \in DOMAIN tokens
    BY <1>2 DEF TrustInv, GrantsUse, AsPaired, Trusts
  <2>2. tokens[asking[p].token].by = x /\ AsPaired(x, p) /\ CodeOf(x, p)' = CodeOf(x, p)
    BY <1>2, <1>3, <2>1, FilesUnchanged
  <2>3. QED
    BY <1>2, <2>2 DEF TrustInv, GrantAgrees
<1>8. QED
  BY <1>2, <1>4, <1>5, <1>6, <1>7, FilesUnchanged DEF TrustInv

LEMMA ExpireTokenStep ==
  ASSUME TrustInv, NEW t \in DOMAIN tokens, ExpireToken(t)
  PROVE  TrustInv'
<1>1. /\ tokens[t].state = "open" /\ tokens' = [tokens EXCEPT ![t].state = "expired"]
      /\ UNCHANGED <<trusted, secrets, asking, posted, signed, seen, forgotten, answered, codes, lanFaults>>
  BY DEF ExpireToken
<1>2. DOMAIN tokens' = DOMAIN tokens
      /\ \A i \in DOMAIN tokens : /\ tokens'[i].by = tokens[i].by
                                  /\ tokens'[i] \in [by : Desktops, state : {"open", "used", "expired"}]
                                  /\ tokens[i].state = "used" => tokens'[i].state = "used"
  BY <1>1 DEF TrustInv, LanTypeOK
<1>3. LanTypeOK'
  BY <1>1, <1>2 DEF TrustInv, LanTypeOK
<1>4. LanTables' /\ PairsWithOthers' /\ GrantsUse' /\ GrantAgrees'
  BY <1>1, <1>2, FilesUnchanged
  DEF TrustInv, LanTypeOK, LanTables, PairsWithOthers, GrantsUse, GrantAgrees, Idle
<1>5. QED
  BY <1>1, <1>3, <1>4, FilesUnchanged DEF TrustInv

LEMMA AskToPairStep ==
  ASSUME TrustInv, NEW d \in Desktops, NEW t \in DOMAIN tokens, AskToPair(d, t)
  PROVE  TrustInv'
<1> DEFINE ask == [stage |-> "waiting", token |-> t, code |-> codes']
<1>1. /\ tokens[t].by # d /\ codes < MaxCodes /\ codes' = codes + 1
      /\ asking' = [asking EXCEPT ![d] = ask]
      /\ posted' = posted \cup {[from |-> d, token |-> t, code |-> codes']}
      /\ UNCHANGED <<tokens, trusted, secrets, signed, seen, forgotten, answered, lanFaults>>
  BY DEF AskToPair
<1>2. codes' \in Codes /\ codes' \in 0 .. MaxCodes
  BY <1>1, LanBoundsAssumption DEF TrustInv, LanTypeOK, Codes
<1>3. DOMAIN asking' = Desktops /\ asking'[d] = ask /\ \A x \in Desktops \ {d} : asking'[x] = asking[x]
  BY <1>1 DEF TrustInv, LanTables
<1>4. LanTypeOK'
  BY <1>1, <1>2, <1>3 DEF TrustInv, LanTypeOK
<1>5. PairsWithOthers'
  BY <1>1, <1>3 DEF TrustInv, LanTypeOK, PairsWithOthers, Idle
<1>6. LanTables' /\ GrantsUse'
  BY <1>1, <1>3 DEF TrustInv, LanTables, GrantsUse
<1>7. GrantAgrees'
  BY <1>1, <1>3, FilesUnchanged DEF TrustInv, GrantAgrees
<1>8. QED
  BY <1>1, <1>4, <1>5, <1>6, <1>7, FilesUnchanged DEF TrustInv

\* A desktop that gives up, reports a refusal or starts again.
LEMMA IdleAgainStep ==
  ASSUME TrustInv, NEW d \in Desktops, asking' = [asking EXCEPT ![d] = Idle],
         UNCHANGED <<tokens, trusted, secrets, posted, signed, seen, forgotten, answered, codes, lanFaults>>
  PROVE  TrustInv'
<1>1. DOMAIN asking' = Desktops /\ asking'[d] = Idle /\ \A x \in Desktops \ {d} : asking'[x] = asking[x]
  BY DEF TrustInv, LanTables
<1>2. LanTypeOK'
  BY <1>1 DEF TrustInv, LanTypeOK
<1>3. LanTables' /\ PairsWithOthers' /\ GrantsUse' /\ GrantAgrees'
  BY <1>1, FilesUnchanged
  DEF TrustInv, LanTypeOK, LanTables, PairsWithOthers, GrantsUse, GrantAgrees, Idle
<1>4. QED
  BY <1>2, <1>3, FilesUnchanged DEF TrustInv

LEMMA RefusePairingStep ==
  ASSUME TrustInv, NEW r \in posted, RefusePairing(r)
  PROVE  TrustInv'
<1>1. /\ posted' = posted \ {r} /\ Answer(r, "refused")
      /\ UNCHANGED <<tokens, trusted, secrets, signed, seen, forgotten, answered, codes, lanFaults>>
  BY DEF RefusePairing
<1>2. r \in [from : Desktops, token : DOMAIN tokens, code : Codes]
  BY DEF TrustInv, LanTypeOK
<1>3. /\ DOMAIN asking' = Desktops
      /\ \A x \in Desktops :
           \/ asking'[x] = asking[x]
           \/ /\ x = r.from /\ asking[x].stage = "waiting" /\ asking[x].token = r.token
              /\ asking'[x] = [stage |-> "refused", token |-> r.token, code |-> r.code]
  BY <1>1, <1>2, AnswerEffect DEF TrustInv, LanTables
<1>4. LanTypeOK'
  BY <1>1, <1>2, <1>3 DEF TrustInv, LanTypeOK
<1>5. PairsWithOthers'
  BY <1>1, <1>2, <1>3 DEF TrustInv, LanTypeOK, PairsWithOthers, Idle
<1>6. LanTables' /\ GrantsUse'
  BY <1>1, <1>3 DEF TrustInv, LanTables, GrantsUse
<1>7. GrantAgrees'
  BY <1>1, <1>3, FilesUnchanged DEF TrustInv, GrantAgrees
<1>8. QED
  BY <1>1, <1>4, <1>5, <1>6, <1>7, FilesUnchanged DEF TrustInv

\* Signing, serving and forgetting do not touch what TrustInv is about.
LEMMA RequestStep ==
  ASSUME TrustInv, LanTypeOK',
         UNCHANGED <<tokens, trusted, secrets, asking, posted>>
  PROVE  TrustInv'
<1>1. LanTables' /\ PairsWithOthers' /\ GrantsUse' /\ GrantAgrees'
  BY FilesUnchanged DEF TrustInv, LanTables, PairsWithOthers, GrantsUse, GrantAgrees
<1>2. QED
  BY <1>1, FilesUnchanged DEF TrustInv

LEMMA SignStep ==
  ASSUME TrustInv, NEW d \in Desktops, NEW p \in DOMAIN trusted[d], Sign(d, p)
  PROVE  TrustInv'
<1>1. Secret(d, p) \in Codes /\ p \in Desktops
  BY DEF Sign, Secret, TrustInv, LanTypeOK
<1>2. LanTypeOK'
  BY <1>1 DEF Sign, TrustInv, LanTypeOK
<1>3. QED
  BY <1>2, RequestStep DEF Sign

LEMMA ServeStep ==
  ASSUME TrustInv, NEW r \in signed, Serve(r)
  PROVE  TrustInv'
<1>1. r.nonce \in RequestIds /\ r.to \in Desktops
  BY DEF TrustInv, LanTypeOK
<1>2. answered' \in [RequestIds -> 0 .. 2]
  BY <1>1 DEF Serve, TrustInv, LanTypeOK
<1>3. LanTypeOK'
  BY <1>1, <1>2 DEF Serve, TrustInv, LanTypeOK
<1>4. QED
  BY <1>3, RequestStep DEF Serve

LEMMA ForgetNonceStep ==
  ASSUME TrustInv, NEW d \in Desktops, NEW n \in RequestIds, ForgetNonce(d, n)
  PROVE  TrustInv'
<1>1. LanTypeOK'
  BY DEF ForgetNonce, TrustInv, LanTypeOK
<1>2. QED
  BY <1>1, RequestStep DEF ForgetNonce

-----------------------------------------------------------------------------
(***************************************************************************)
(* Steps that write both files.                                            *)
(***************************************************************************)

\* The sides still agree after d has written its record of p, when the record
\* that p may have from the same pairing has the code.
LEMMA AgreeAfter ==
  ASSUME TrustInv, NEW d \in Desktops, NEW p \in Desktops \ {d}, NEW row, NEW code,
         AsPaired(p, d) /\ trusted[p][d].token = row.token => CodeOf(p, d) = code,
         \A x \in Desktops : \A y \in DOMAIN trusted'[x] :
           \/ /\ x = d /\ y = p /\ trusted' # trusted
              /\ trusted'[x][y] = row /\ secrets'[x][row.cred] = code
           \/ /\ y \in DOMAIN trusted[x] /\ trusted'[x][y] = trusted[x][y]
              /\ ~trusted[x][y].revoked =>
                    secrets'[x][trusted[x][y].cred] = secrets[x][trusted[x][y].cred]
  PROVE  Agree'
<1> DEFINE New(x, y) == x = d /\ y = p /\ trusted'[x][y] = row /\ CodeOf(x, y)' = code
           Kept(x, y) == AsPaired(x, y) /\ trusted'[x][y] = trusted[x][y] /\ CodeOf(x, y)' = CodeOf(x, y)
<1>1. ASSUME NEW x \in Desktops, NEW y \in Desktops, AsPaired(x, y)'
      PROVE  New(x, y) \/ Kept(x, y)
  <2>1. y \in DOMAIN trusted'[x] /\ ~trusted'[x][y].revoked /\ ~trusted'[x][y].rotated
    BY <1>1 DEF AsPaired, Trusts
  <2>2. CASE x = d /\ y = p /\ trusted'[x][y] = row /\ secrets'[x][row.cred] = code
    BY <2>2 DEF CodeOf
  <2>3. CASE /\ y \in DOMAIN trusted[x] /\ trusted'[x][y] = trusted[x][y]
             /\ ~trusted[x][y].revoked =>
                   secrets'[x][trusted[x][y].cred] = secrets[x][trusted[x][y].cred]
    BY <2>1, <2>3 DEF AsPaired, Trusts, CodeOf
  <2>4. QED
    BY <2>1, <2>2, <2>3
<1> SUFFICES ASSUME NEW x \in Desktops, NEW y \in Desktops, AsPaired(x, y)', AsPaired(y, x)',
                    trusted'[x][y].token = trusted'[y][x].token
             PROVE  CodeOf(x, y)' = CodeOf(y, x)'
  BY DEF Agree
<1>2. (New(x, y) \/ Kept(x, y)) /\ (New(y, x) \/ Kept(y, x))
  BY <1>1
<1>3. CASE New(x, y) /\ Kept(y, x)
  BY <1>3
<1>4. CASE Kept(x, y) /\ New(y, x)
  BY <1>4
<1>5. CASE Kept(x, y) /\ Kept(y, x)
  BY <1>5 DEF TrustInv, Agree
<1>6. QED
  BY <1>2, <1>3, <1>4, <1>5

LEMMA AcceptPairingStep ==
  ASSUME TrustInv, NEW r \in posted, AcceptPairing(r)
  PROVE  TrustInv'
<1> DEFINE d == tokens[r.token].by
           p == r.from
           t == r.token
           row(k) == [cred |-> k, token |-> t, revoked |-> FALSE, rotated |-> FALSE]
<1>1. /\ t \in DOMAIN tokens /\ p \in Desktops /\ r.code \in Codes /\ t \in TokenIds
      /\ d \in Desktops /\ p # d /\ DOMAIN asking = Desktops
  BY DEF TrustInv, LanTypeOK, PairsWithOthers, LanTables
<1>2. /\ tokens[t].state = "open" /\ posted' = posted \ {r}
      /\ \/ /\ trusted' # trusted /\ tokens' = [tokens EXCEPT ![t].state = "used"]
            /\ Answer(r, "granted")
         \/ trusted' = trusted /\ tokens' = tokens /\ Answer(r, "refused")
      /\ UNCHANGED <<signed, seen, forgotten, answered, codes>>
  BY DEF AcceptPairing, Acceptable
<1>3. PICK k \in Unused(d) : Writes(d, p, k, r.code, row(k), {})
  BY DEF AcceptPairing
<1>4. row(k) \in Records /\ row(k).cred = k
  BY <1>1 DEF Records, Unused, Free
<1>5. /\ DOMAIN trusted' = Desktops /\ DOMAIN secrets' = Desktops
      /\ FilesOK' /\ lanFaults' \in 0 .. MaxLanFaults
      /\ OwnCredentials' /\ TrustHasSecret'
      /\ \A x \in Desktops : \A y \in DOMAIN trusted'[x] :
           \/ /\ x = d /\ y = p /\ trusted' # trusted
              /\ trusted'[x][y] = row(k) /\ secrets'[x][row(k).cred] = r.code
           \/ /\ y \in DOMAIN trusted[x] /\ trusted'[x][y] = trusted[x][y]
              /\ ~trusted[x][y].revoked =>
                    secrets'[x][trusted[x][y].cred] = secrets[x][trusted[x][y].cred]
  <2> HIDE DEF d, p, row
  <2>1. p \in Desktops \ {d}
    BY <1>1
  <2>2. QED
    BY <1>1, <1>3, <1>4, <2>1, WritesKeep
<1>6. PICK stage \in {"granted", "refused"} :
        /\ Answer(r, stage)
        /\ stage = "granted" => trusted' # trusted
  BY <1>2
<1>7. /\ DOMAIN asking' = Desktops
      /\ \A x \in Desktops :
           \/ asking'[x] = asking[x]
           \/ /\ x = p /\ asking[x].stage = "waiting" /\ asking[x].token = t
              /\ asking'[x] = [stage |-> stage, token |-> t, code |-> r.code]
  BY <1>1, <1>6, AnswerEffect
<1>8. DOMAIN tokens' = DOMAIN tokens
      /\ \A i \in DOMAIN tokens : /\ tokens'[i].by = tokens[i].by
                                  /\ tokens'[i] \in [by : Desktops, state : {"open", "used", "expired"}]
                                  /\ tokens[i].state = "used" => tokens'[i].state = "used"
                                  /\ trusted' # trusted => tokens'[t].state = "used"
  BY <1>1, <1>2 DEF TrustInv, LanTypeOK
<1>9. /\ \A x \in Desktops : \A y \in DOMAIN trusted[x] : trusted[x][y].token # t
      /\ \A x \in Desktops : asking[x].stage = "granted" => asking[x].token # t
  BY <1>2 DEF TrustInv, GrantsUse
<1>10. LanTypeOK'
  BY <1>1, <1>2, <1>5, <1>6, <1>7, <1>8 DEF TrustInv, LanTypeOK, FilesOK
<1>11. LanTables' /\ PairsWithOthers'
  BY <1>1, <1>2, <1>5, <1>7, <1>8 DEF TrustInv, LanTypeOK, LanTables, PairsWithOthers, Idle
<1>12. GrantsUse'
  BY <1>1, <1>5, <1>6, <1>7, <1>8 DEF TrustInv, LanTypeOK, GrantsUse, Idle
<1>13. GrantAgrees'
  <2> SUFFICES ASSUME NEW e \in Desktops, NEW q \in Desktops,
                      asking'[q].stage = "granted", tokens'[asking'[q].token].by = e,
                      AsPaired(e, q)', trusted'[e][q].token = asking'[q].token
               PROVE  CodeOf(e, q)' = asking'[q].code
    BY DEF GrantAgrees
  <2>1. q \in DOMAIN trusted'[e]
    BY DEF AsPaired, Trusts
  <2>2. CASE asking'[q] = asking[q]
    <3>1. asking[q].token # t /\ asking[q].token \in DOMAIN tokens
      <4>1. asking[q].stage = "granted" /\ asking[q].token # t
        BY <1>9, <2>2
      <4>2. QED
        BY <4>1 DEF TrustInv, LanTypeOK, Idle
    <3>2. tokens[asking[q].token].by = e
      BY <1>8, <2>2, <3>1
    <3>3. /\ q \in DOMAIN trusted[e] /\ trusted'[e][q] = trusted[e][q]
          /\ ~trusted[e][q].revoked =>
                secrets'[e][trusted[e][q].cred] = secrets[e][trusted[e][q].cred]
      BY <1>5, <2>1, <2>2, <3>1
    <3>4. AsPaired(e, q) /\ trusted[e][q].token = asking[q].token /\ CodeOf(e, q)' = CodeOf(e, q)
      BY <2>2, <3>3 DEF AsPaired, Trusts, CodeOf
    <3>5. QED
      BY <2>2, <3>2, <3>4 DEF TrustInv, GrantAgrees
  <2>3. CASE q = p /\ asking'[q] = [stage |-> stage, token |-> t, code |-> r.code]
    <3>1. e = d
      BY <1>1, <1>8, <2>3
    <3>2. trusted'[d][p] = row(k) /\ secrets'[d][row(k).cred] = r.code
      <4>1. trusted'[d][p].token = t /\ p \in DOMAIN trusted'[d]
        BY <2>1, <2>3, <3>1
      <4>2. p \in DOMAIN trusted[d] => trusted[d][p].token # t
        BY <1>1, <1>9
      <4> HIDE DEF d, p, t, row
      <4>3. QED
        BY ONLY <1>1, <1>5, <4>1, <4>2
    <3> HIDE DEF d, p, t, row
    <3>3. QED
      BY ONLY <2>3, <3>1, <3>2 DEF CodeOf
  <2>4. QED
    BY <1>7, <2>2, <2>3
<1>14. Agree'
  BY <1>1, <1>5, <1>9 DEF TrustInv, Agree, AsPaired, Trusts, CodeOf
<1>15. QED
  BY <1>5, <1>10, <1>11, <1>12, <1>13, <1>14 DEF TrustInv

LEMMA FinishPairingStep ==
  ASSUME TrustInv, NEW d \in Desktops, FinishPairing(d)
  PROVE  TrustInv'
<1> DEFINE t == asking[d].token
           p == tokens[t].by
           code == asking[d].code
           row(k) == [cred |-> k, token |-> t, revoked |-> FALSE, rotated |-> FALSE]
<1>1. /\ asking[d].stage = "granted" /\ asking' = [asking EXCEPT ![d] = Idle]
      /\ UNCHANGED <<tokens, posted, signed, seen, forgotten, answered, codes>>
  BY DEF FinishPairing
<1>2. /\ t \in DOMAIN tokens /\ t \in TokenIds /\ code \in Codes /\ p \in Desktops /\ p # d
      /\ DOMAIN asking = Desktops /\ tokens[t].state = "used"
  BY <1>1 DEF TrustInv, LanTypeOK, PairsWithOthers, LanTables, GrantsUse, Idle
<1>3. PICK k \in Unused(d) : Writes(d, p, k, code, row(k), {})
  BY DEF FinishPairing
<1>4. row(k) \in Records /\ row(k).cred = k
  BY <1>2 DEF Records, Unused, Free
<1>5. /\ DOMAIN trusted' = Desktops /\ DOMAIN secrets' = Desktops
      /\ FilesOK' /\ lanFaults' \in 0 .. MaxLanFaults
      /\ OwnCredentials' /\ TrustHasSecret'
      /\ \A x \in Desktops : \A y \in DOMAIN trusted'[x] :
           \/ /\ x = d /\ y = p /\ trusted' # trusted
              /\ trusted'[x][y] = row(k) /\ secrets'[x][row(k).cred] = code
           \/ /\ y \in DOMAIN trusted[x] /\ trusted'[x][y] = trusted[x][y]
              /\ ~trusted[x][y].revoked =>
                    secrets'[x][trusted[x][y].cred] = secrets[x][trusted[x][y].cred]
  <2> HIDE DEF t, p, code, row
  <2>1. p \in Desktops \ {d}
    BY <1>2
  <2>2. QED
    BY <1>2, <1>3, <1>4, <2>1, WritesKeep
<1>6. DOMAIN asking' = Desktops /\ asking'[d] = Idle /\ \A x \in Desktops \ {d} : asking'[x] = asking[x]
  BY <1>1, <1>2
<1>7. LanTypeOK'
  BY <1>1, <1>2, <1>5, <1>6 DEF TrustInv, LanTypeOK, FilesOK
<1>8. LanTables' /\ PairsWithOthers'
  BY <1>1, <1>2, <1>5, <1>6 DEF TrustInv, LanTypeOK, LanTables, PairsWithOthers, Idle
<1>9. GrantsUse'
  BY <1>1, <1>2, <1>5, <1>6 DEF TrustInv, GrantsUse, Idle
<1>10. GrantAgrees'
  <2> SUFFICES ASSUME NEW e \in Desktops, NEW q \in Desktops,
                      asking'[q].stage = "granted", tokens'[asking'[q].token].by = e,
                      AsPaired(e, q)', trusted'[e][q].token = asking'[q].token
               PROVE  CodeOf(e, q)' = asking'[q].code
    BY DEF GrantAgrees
  <2>1. q # d /\ asking'[q] = asking[q]
    BY <1>6 DEF Idle
  <2>2. tokens[asking[q].token].by = e
    BY <1>1, <2>1
  <2>3. /\ q \in DOMAIN trusted[e] /\ trusted'[e][q] = trusted[e][q]
        /\ ~trusted[e][q].revoked =>
              secrets'[e][trusted[e][q].cred] = secrets[e][trusted[e][q].cred]
    BY <1>2, <1>5, <2>1, <2>2 DEF AsPaired, Trusts
  <2>4. AsPaired(e, q) /\ trusted[e][q].token = asking[q].token /\ CodeOf(e, q)' = CodeOf(e, q)
    BY <2>1, <2>3 DEF AsPaired, Trusts, CodeOf
  <2>5. QED
    BY <2>1, <2>2, <2>4 DEF TrustInv, GrantAgrees
<1>11. Agree'
  <2>1. AsPaired(p, d) /\ trusted[p][d].token = t => CodeOf(p, d) = code
    BY <1>1, <1>2 DEF TrustInv, GrantAgrees
  <2> HIDE DEF t, p, code, row
  <2>2. p \in Desktops \ {d} /\ (AsPaired(p, d) /\ trusted[p][d].token = row(k).token => CodeOf(p, d) = code)
    BY <1>2, <2>1 DEF row
  <2>3. QED
    BY ONLY TrustInv, d \in Desktops, <1>5, <2>2, AgreeAfter
<1>12. QED
  BY <1>5, <1>7, <1>8, <1>9, <1>10, <1>11 DEF TrustInv

LEMMA RotateCodeStep ==
  ASSUME TrustInv, NEW d \in Desktops, NEW p \in DOMAIN trusted[d], NEW code \in Codes,
         RotateCode(d, p, code)
  PROVE  TrustInv'
<1> DEFINE row(k) == [trusted[d][p] EXCEPT !.cred = k, !.rotated = TRUE]
           old == {trusted[d][p].cred}
<1>1. /\ code <= codes + 1 /\ codes' = IF code > codes THEN code ELSE codes
      /\ UNCHANGED <<tokens, asking, posted, signed, seen, forgotten, answered>>
  BY DEF RotateCode
<1>2. PICK k \in Unused(d) : Writes(d, p, k, code, row(k), old)
  BY DEF RotateCode
<1>3. p \in Desktops \ {d} /\ trusted[d][p] \in Records
  BY DEF TrustInv, LanTypeOK
<1>4. /\ row(k) \in Records /\ row(k).cred = k /\ row(k).rotated
      /\ row(k).token = trusted[d][p].token
  BY <1>3 DEF Records, Unused, Free
<1>5. /\ DOMAIN trusted' = Desktops /\ DOMAIN secrets' = Desktops
      /\ FilesOK' /\ lanFaults' \in 0 .. MaxLanFaults
      /\ OwnCredentials' /\ TrustHasSecret'
      /\ \A x \in Desktops : \A y \in DOMAIN trusted'[x] :
           \/ /\ x = d /\ y = p /\ trusted' # trusted
              /\ trusted'[x][y] = row(k) /\ secrets'[x][row(k).cred] = code
           \/ /\ y \in DOMAIN trusted[x] /\ trusted'[x][y] = trusted[x][y]
              /\ ~trusted[x][y].revoked =>
                    secrets'[x][trusted[x][y].cred] = secrets[x][trusted[x][y].cred]
  <2> HIDE DEF row
  <2>1. QED
    BY <1>2, <1>3, <1>4, WritesKeep
<1>6. codes' \in 0 .. MaxCodes
  BY <1>1, LanBoundsAssumption DEF TrustInv, LanTypeOK, Codes
<1>7. LanTypeOK'
  BY <1>1, <1>5, <1>6 DEF TrustInv, LanTypeOK, FilesOK
<1>8. LanTables' /\ PairsWithOthers'
  BY <1>1, <1>5 DEF TrustInv, LanTables, PairsWithOthers
<1>9. GrantsUse'
  <2> HIDE DEF row
  <2>1. QED
    BY <1>1, <1>4, <1>5 DEF TrustInv, GrantsUse
<1>10. \A x, y \in Desktops : AsPaired(x, y)' =>
          AsPaired(x, y) /\ trusted'[x][y] = trusted[x][y] /\ CodeOf(x, y)' = CodeOf(x, y)
  <2> HIDE DEF row
  <2>1. QED
    BY <1>4, <1>5 DEF AsPaired, Trusts, CodeOf
<1>11. GrantAgrees' /\ Agree'
  BY <1>1, <1>10 DEF TrustInv, GrantAgrees, Agree
<1>12. QED
  BY <1>5, <1>7, <1>8, <1>9, <1>11 DEF TrustInv

LEMMA RevokeStep ==
  ASSUME TrustInv, NEW d \in Desktops, NEW p \in DOMAIN trusted[d], Revoke(d, p)
  PROVE  TrustInv'
<1> DEFINE c == trusted[d][p].cred
<1>1. /\ trusted' = [trusted EXCEPT ![d][p].revoked = TRUE]
      /\ secrets' = secrets \/ secrets' = [secrets EXCEPT ![d] = Drop(@, {c})]
      /\ UNCHANGED <<tokens, asking, posted, signed, seen, forgotten, answered, codes>>
  BY DEF Revoke
<1>2. lanFaults' \in 0 .. MaxLanFaults
  BY LanBoundsAssumption DEF Revoke, TrustInv, LanTypeOK
<1>3. DOMAIN trusted = Desktops /\ DOMAIN secrets = Desktops /\ trusted[d][p] \in Records
  BY DEF TrustInv, LanTables, LanTypeOK
<1>4. /\ DOMAIN trusted' = Desktops
      /\ \A x \in Desktops : DOMAIN trusted'[x] = DOMAIN trusted[x]
      /\ \A x \in Desktops : \A y \in DOMAIN trusted[x] :
            trusted'[x][y] = IF x = d /\ y = p THEN [trusted[x][y] EXCEPT !.revoked = TRUE]
                             ELSE trusted[x][y]
  BY <1>1, <1>3
<1>5. /\ [trusted[d][p] EXCEPT !.revoked = TRUE] \in Records
      /\ [trusted[d][p] EXCEPT !.revoked = TRUE].cred = trusted[d][p].cred
      /\ [trusted[d][p] EXCEPT !.revoked = TRUE].token = trusted[d][p].token
      /\ [trusted[d][p] EXCEPT !.revoked = TRUE].rotated = trusted[d][p].rotated
      /\ [trusted[d][p] EXCEPT !.revoked = TRUE].revoked
  BY <1>3 DEF Records
<1>6. /\ DOMAIN secrets' = Desktops
      /\ \A x \in Desktops : DOMAIN secrets'[x] \subseteq DOMAIN secrets[x]
      /\ \A x \in Desktops : \A j \in DOMAIN secrets[x] :
            x # d \/ j # c => j \in DOMAIN secrets'[x]
      /\ \A x \in Desktops : \A j \in DOMAIN secrets'[x] : secrets'[x][j] = secrets[x][j]
  BY <1>1, <1>3 DEF Drop
<1>7. \A x \in Desktops : \A y \in DOMAIN trusted[x] :
         /\ trusted'[x][y].cred = trusted[x][y].cred /\ trusted'[x][y].token = trusted[x][y].token
         /\ trusted'[x][y].rotated = trusted[x][y].rotated
         /\ ~trusted'[x][y].revoked => ~(x = d /\ y = p) /\ ~trusted[x][y].revoked
  <2> DEFINE ended == [trusted[d][p] EXCEPT !.revoked = TRUE]
  <2>1. /\ ended.cred = trusted[d][p].cred /\ ended.token = trusted[d][p].token
        /\ ended.rotated = trusted[d][p].rotated /\ ended.revoked
        /\ trusted'[d][p] = ended
        /\ \A x \in Desktops : \A y \in DOMAIN trusted[x] :
              ~(x = d /\ y = p) => trusted'[x][y] = trusted[x][y]
    BY <1>4, <1>5
  <2> HIDE DEF ended
  <2>2. QED
    BY <2>1
<1>8. OwnCredentials'
  BY <1>4, <1>7 DEF TrustInv, OwnCredentials
<1>9. \A x \in Desktops : \A y \in DOMAIN trusted[x] : ~trusted'[x][y].revoked =>
         /\ trusted[x][y].cred \in DOMAIN secrets'[x]
         /\ secrets'[x][trusted[x][y].cred] = secrets[x][trusted[x][y].cred]
  BY <1>6, <1>7 DEF TrustInv, OwnCredentials, TrustHasSecret
<1>10. TrustHasSecret'
  BY <1>4, <1>7, <1>9 DEF TrustHasSecret
<1>11. LanTypeOK'
  BY <1>1, <1>2, <1>4, <1>5, <1>6 DEF TrustInv, LanTypeOK
<1>12. LanTables' /\ PairsWithOthers'
  BY <1>1, <1>4, <1>6 DEF TrustInv, LanTables, PairsWithOthers
<1>13. GrantsUse'
  BY <1>1, <1>4, <1>7 DEF TrustInv, GrantsUse
<1>14. \A x, y \in Desktops : AsPaired(x, y)' =>
          /\ AsPaired(x, y) /\ trusted'[x][y].token = trusted[x][y].token
          /\ CodeOf(x, y)' = CodeOf(x, y)
  BY <1>4, <1>7, <1>9 DEF AsPaired, Trusts, CodeOf
<1>15. GrantAgrees' /\ Agree'
  BY <1>1, <1>14 DEF TrustInv, GrantAgrees, Agree
<1>16. QED
  BY <1>8, <1>10, <1>11, <1>12, <1>13, <1>15 DEF TrustInv

-----------------------------------------------------------------------------
(***************************************************************************)
(* The theorems.                                                           *)
(***************************************************************************)

LEMMA InitInv == LanInit => LanIInv
<1> SUFFICES ASSUME LanInit PROVE LanIInv
  OBVIOUS
<1>1. DOMAIN <<>> = {}
  OBVIOUS
<1>2. LanTypeOK
  BY <1>1, LanBoundsAssumption DEF LanInit, LanTypeOK
<1>3. TrustInv
  BY <1>1, <1>2 DEF LanInit, TrustInv, LanTables, PairsWithOthers, OwnCredentials, TrustHasSecret,
     GrantsUse, GrantAgrees, Agree, AsPaired, Trusts, Idle
<1>4. NoncesKept /\ AnsweredOnce
  BY DEF LanInit, NoncesKept, AnsweredOnce
<1>5. QED
  BY <1>3, <1>4 DEF LanIInv

LEMMA TrustNext ==
  ASSUME TrustInv, LanNext
  PROVE  TrustInv'
<1>1. ASSUME NEW d \in Desktops, IssueToken(d) PROVE TrustInv'
  BY <1>1, IssueTokenStep
<1>2. ASSUME NEW d \in Desktops, GiveUp(d) \/ ReportRefusal(d) \/ RestartDesktop(d) PROVE TrustInv'
  BY <1>2, IdleAgainStep DEF GiveUp, ReportRefusal, RestartDesktop
<1>3. ASSUME NEW d \in Desktops, FinishPairing(d) PROVE TrustInv'
  BY <1>3, FinishPairingStep
<1>4. ASSUME NEW t \in DOMAIN tokens, ExpireToken(t) PROVE TrustInv'
  BY <1>4, ExpireTokenStep
<1>5. ASSUME NEW d \in Desktops, NEW t \in DOMAIN tokens, AskToPair(d, t) PROVE TrustInv'
  BY <1>5, AskToPairStep
<1>6. ASSUME NEW r \in posted, AcceptPairing(r) \/ RefusePairing(r) PROVE TrustInv'
  BY <1>6, AcceptPairingStep, RefusePairingStep
<1>7. ASSUME NEW d \in Desktops, NEW p \in DOMAIN trusted[d], Revoke(d, p) PROVE TrustInv'
  BY <1>7, RevokeStep
<1>8. ASSUME NEW d \in Desktops, NEW p \in DOMAIN trusted[d], Sign(d, p) PROVE TrustInv'
  BY <1>8, SignStep
<1>9. ASSUME NEW d \in Desktops, NEW p \in DOMAIN trusted[d], NEW code \in Codes, RotateCode(d, p, code)
      PROVE TrustInv'
  BY <1>9, RotateCodeStep
<1>10. ASSUME NEW r \in signed, Serve(r) PROVE TrustInv'
  BY <1>10, ServeStep
<1>11. ASSUME NEW d \in Desktops, NEW n \in RequestIds, ForgetNonce(d, n) PROVE TrustInv'
  BY <1>11, ForgetNonceStep
<1>12. QED
  BY <1>1, <1>2, <1>3, <1>4, <1>5, <1>6, <1>7, <1>8, <1>9, <1>10, <1>11 DEF LanNext

\* A request is signed with a nonce of its own; one that was answered stays on
\* record until the record expires.
LEMMA NoncesNext ==
  ASSUME LanTypeOK, NoncesKept, AnsweredOnce, LanNext
  PROVE  NoncesKept' /\ AnsweredOnce'
<1>1. ASSUME NEW d \in Desktops, NEW p \in DOMAIN trusted[d], Sign(d, p)
      PROVE  NoncesKept' /\ AnsweredOnce'
  <2>1. PICK n \in RequestIds \ {r.nonce : r \in signed} :
           signed' = signed \cup {[from |-> d, to |-> p, nonce |-> n, code |-> Secret(d, p)]}
    BY <1>1 DEF Sign
  <2>2. answered[n] = 0
    BY <2>1 DEF NoncesKept, LanTypeOK
  <2>3. UNCHANGED <<seen, forgotten, answered>>
    BY <1>1 DEF Sign
  <2>4. QED
    BY <2>1, <2>2, <2>3 DEF NoncesKept, AnsweredOnce
<1>2. ASSUME NEW r \in signed, Serve(r)
      PROVE  NoncesKept' /\ AnsweredOnce'
  <2>1. /\ r.nonce \notin seen[r.to] /\ UNCHANGED <<signed, forgotten>>
        /\ seen' = [seen EXCEPT ![r.to] = @ \cup {r.nonce}]
        /\ answered' = [answered EXCEPT ![r.nonce] = @ + 1]
    BY <1>2 DEF Serve, Recorded
  <2>2. r.nonce \in RequestIds /\ r.to \in Desktops
    BY DEF LanTypeOK
  <2>3. answered[r.nonce] > 0 => r.nonce \in forgotten
    BY <2>1 DEF NoncesKept
  <2>4. AnsweredOnce'
    BY <2>1, <2>2, <2>3 DEF AnsweredOnce, LanTypeOK
  <2>5. NoncesKept'
    BY <2>1, <2>2 DEF NoncesKept, LanTypeOK
  <2>6. QED
    BY <2>4, <2>5
<1>3. ASSUME NEW d \in Desktops, NEW n \in RequestIds, ForgetNonce(d, n)
      PROVE  NoncesKept' /\ AnsweredOnce'
  BY <1>3 DEF ForgetNonce, NoncesKept, AnsweredOnce, LanTypeOK
<1>4. CASE UNCHANGED <<signed, seen, forgotten, answered>>
  BY <1>4 DEF NoncesKept, AnsweredOnce
<1>5. QED
  BY <1>1, <1>2, <1>3, <1>4 DEF LanNext, IssueToken, GiveUp, FinishPairing, ReportRefusal,
     RestartDesktop, ExpireToken, AskToPair, AcceptPairing, RefusePairing, Revoke, RotateCode

LEMMA NextInv ==
  ASSUME LanIInv, [LanNext]_lanVars
  PROVE  LanIInv'
<1>1. CASE LanNext
  BY <1>1, TrustNext, NoncesNext DEF LanIInv, TrustInv
<1>2. CASE UNCHANGED lanVars
  <2>1. LanTypeOK'
    BY <1>2 DEF lanVars, LanIInv, TrustInv, LanTypeOK
  <2>2. TrustInv'
    BY <1>2, <2>1, RequestStep DEF lanVars, LanIInv
  <2>3. QED
    BY <1>2, <2>2 DEF lanVars, LanIInv, NoncesKept, AnsweredOnce
<1>3. QED
  BY <1>1, <1>2

THEOREM AlwaysInv == LanSpec => []LanIInv
<1>1. QED
  BY InitInv, NextInv, PTL DEF LanSpec

\* Trust files, credential stores and messages stay well formed.
THEOREM LanTypesHold == LanSpec => []LanTypeOK
<1>1. LanIInv => LanTypeOK
  BY DEF LanIInv, TrustInv
<1>2. QED
  BY <1>1, AlwaysInv, PTL

\* A desktop never trusts a peer whose secret it does not have, wherever
\* pairing, rotation and revocation were interrupted.
THEOREM TrustedPeersHaveSecrets == LanSpec => []TrustHasSecret
<1>1. LanIInv => TrustHasSecret
  BY DEF LanIInv, TrustInv
<1>2. QED
  BY <1>1, AlwaysInv, PTL

\* Two desktops that hold each other paired by one token sign with one code.
THEOREM PairsAgree == LanSpec => []PairedSidesAgree
<1>1. TrustInv => PairedSidesAgree
  BY DEF TrustInv, Agree, AsPaired, CodeOf, TrustHasSecret, PairedSidesAgree, Secret, Trusts
<1>2. QED
  BY <1>1, AlwaysInv, PTL DEF LanIInv

\* A request is answered again only after the record of its nonce expired.
THEOREM RepeatsAreRefused == LanSpec => []AnsweredOnce
<1>1. LanIInv => AnsweredOnce
  BY DEF LanIInv
<1>2. QED
  BY <1>1, AlwaysInv, PTL

-----------------------------------------------------------------------------
(***************************************************************************)
(* The hosted account of a client.                                         *)
(***************************************************************************)

-----------------------------------------------------------------------------
(***************************************************************************)
(* The inductive invariant.                                                *)
(***************************************************************************)

Steps == {"session", "refresh", "clear", "record"}

\* What is left of either order.
Plans == {<<"session", "refresh", "clear", "record">>, <<"refresh", "clear", "record">>,
          <<"clear", "record">>, <<"record">>,
          <<"record", "session", "refresh", "clear">>, <<"session", "refresh", "clear">>,
          <<"refresh", "clear">>, <<"clear">>}

Remaining(plan) == {plan[i] : i \in 1 .. Len(plan)}

\* Credential k holds both tokens.
Whole(k) == k \in DOMAIN vault /\ vault[k].session # None /\ vault[k].refresh # None

\* Credential k holds one session, whose end the client would know of.
Holds(k) == Tokens(k).session = Tokens(k).refresh /\ Tokens(k).session \in live \cup untold

SignedInHasCredential == record.state = "signed_in" => record.cred # None

\* The credential store agrees with the record.
Rested ==
    /\ \A k \in SecretIds \ torn : Whole(k) <=> k = record.cred
    /\ record.cred # None /\ record.cred \notin torn => Holds(record.cred)

\* A result either keeps the credential, fills it or clears it.
ResultOK(r) ==
    /\ r \in Results
    /\ r.tokens # None => /\ r.cred # None /\ r.clears = None /\ record.cred \in {r.cred, None}
                          /\ r.tokens \in live \cup untold
    /\ r.clears # None => r.cred = None /\ record.cred \in {r.clears, None}
    /\ r.tokens = None /\ r.clears = None => record.cred = r.cred
    /\ r.state = "signed_in" => r.cred # None

\* The result r is stored, but for the steps in rem.
Progress(rem, r) ==
    /\ ResultOK(r)
    /\ \A k \in SecretIds \ (torn \cup Touched(r)) : Whole(k) <=> k = r.cred
    /\ record.cred # None /\ record.cred \notin torn \cup Touched(r) => Holds(record.cred)
    /\ "record" \notin rem => record = [state |-> r.state, cred |-> r.cred]
    /\ r.tokens # None /\ "session" \notin rem =>
          r.cred \in DOMAIN vault /\ vault[r.cred].session = r.tokens
    /\ r.tokens # None /\ "refresh" \notin rem =>
          r.cred \in DOMAIN vault /\ vault[r.cred].refresh = r.tokens
    /\ r.clears # None /\ "clear" \notin rem => r.clears \notin DOMAIN vault

FlightOK ==
    /\ flight = Resting => Rested
    /\ flight.stage = "sent" =>
          /\ Rested
          /\ flight.action \in WithSession =>
                /\ record.cred # None /\ flight.sent = Tokens(record.cred)
                /\ flight.sent.session # None
    /\ flight.stage = "store" =>
          flight.left \in Plans /\ Progress(Remaining(flight.left), flight.result)

Storing == [stage |-> "store", left |-> flight.left, result |-> flight.result]

FlightTyped == flight = Resting \/ flight.stage = "sent" \/ flight = Storing

AccountIInv == AccountTypeOK /\ FlightTyped /\ SignedInHasCredential /\ FlightOK

-----------------------------------------------------------------------------
(***************************************************************************)
(* The steps of storing.                                                   *)
(***************************************************************************)

LEMMA PlanSteps ==
  ASSUME NEW plan \in Plans
  PROVE  /\ plan # <<>> /\ Head(plan) \in Steps /\ Head(plan) \in Remaining(plan)
         /\ Remaining(plan) \subseteq Steps
         /\ Len(plan) = 1 => Remaining(plan) = {Head(plan)}
         /\ Len(plan) # 1 => /\ Tail(plan) \in Plans
                             /\ Remaining(Tail(plan)) = Remaining(plan) \ {Head(plan)}
<1>1. CASE plan = <<"session", "refresh", "clear", "record">>
  <2>1. Len(plan) = 4 /\ Head(plan) = "session" /\ Remaining(plan) = {"session", "refresh", "clear", "record"}
    BY <1>1 DEF Remaining
  <2>2. Tail(plan) = <<"refresh", "clear", "record">>
    BY <1>1
  <2>3. Remaining(<<"refresh", "clear", "record">>) = {"refresh", "clear", "record"}
    BY DEF Remaining
  <2>4. QED
    BY <1>1, <2>1, <2>2, <2>3 DEF Plans, Steps
<1>2. CASE plan = <<"refresh", "clear", "record">>
  <2>1. Len(plan) = 3 /\ Head(plan) = "refresh" /\ Remaining(plan) = {"refresh", "clear", "record"}
    BY <1>2 DEF Remaining
  <2>2. Tail(plan) = <<"clear", "record">>
    BY <1>2
  <2>3. Remaining(<<"clear", "record">>) = {"clear", "record"}
    BY DEF Remaining
  <2>4. QED
    BY <1>2, <2>1, <2>2, <2>3 DEF Plans, Steps
<1>3. CASE plan = <<"clear", "record">>
  <2>1. Len(plan) = 2 /\ Head(plan) = "clear" /\ Remaining(plan) = {"clear", "record"}
    BY <1>3 DEF Remaining
  <2>2. Tail(plan) = <<"record">>
    BY <1>3
  <2>3. Remaining(<<"record">>) = {"record"}
    BY DEF Remaining
  <2>4. QED
    BY <1>3, <2>1, <2>2, <2>3 DEF Plans, Steps
<1>4. CASE plan = <<"record">>
  <2>1. Len(plan) = 1 /\ Head(plan) = "record" /\ Remaining(plan) = {"record"}
    BY <1>4 DEF Remaining
  <2>2. QED
    BY <1>4, <2>1 DEF Steps
<1>5. CASE plan = <<"record", "session", "refresh", "clear">>
  <2>1. Len(plan) = 4 /\ Head(plan) = "record" /\ Remaining(plan) = {"record", "session", "refresh", "clear"}
    BY <1>5 DEF Remaining
  <2>2. Tail(plan) = <<"session", "refresh", "clear">>
    BY <1>5
  <2>3. Remaining(<<"session", "refresh", "clear">>) = {"session", "refresh", "clear"}
    BY DEF Remaining
  <2>4. QED
    BY <1>5, <2>1, <2>2, <2>3 DEF Plans, Steps
<1>6. CASE plan = <<"session", "refresh", "clear">>
  <2>1. Len(plan) = 3 /\ Head(plan) = "session" /\ Remaining(plan) = {"session", "refresh", "clear"}
    BY <1>6 DEF Remaining
  <2>2. Tail(plan) = <<"refresh", "clear">>
    BY <1>6
  <2>3. Remaining(<<"refresh", "clear">>) = {"refresh", "clear"}
    BY DEF Remaining
  <2>4. QED
    BY <1>6, <2>1, <2>2, <2>3 DEF Plans, Steps
<1>7. CASE plan = <<"refresh", "clear">>
  <2>1. Len(plan) = 2 /\ Head(plan) = "refresh" /\ Remaining(plan) = {"refresh", "clear"}
    BY <1>7 DEF Remaining
  <2>2. Tail(plan) = <<"clear">>
    BY <1>7
  <2>3. Remaining(<<"clear">>) = {"clear"}
    BY DEF Remaining
  <2>4. QED
    BY <1>7, <2>1, <2>2, <2>3 DEF Plans, Steps
<1>8. CASE plan = <<"clear">>
  <2>1. Len(plan) = 1 /\ Head(plan) = "clear" /\ Remaining(plan) = {"clear"}
    BY <1>8 DEF Remaining
  <2>2. QED
    BY <1>8, <2>1 DEF Steps
<1>9. QED
  BY <1>1, <1>2, <1>3, <1>4, <1>5, <1>6, <1>7, <1>8 DEF Plans

LEMMA OrdersArePlans ==
  ASSUME NEW o \in Orders
  PROVE  o \in Plans /\ Remaining(o) = Steps
  BY DEF Orders, Plans, Steps, Remaining

\* One write of a result brings it one step forward.
LEMMA StoreStep ==
  ASSUME AccountIInv, Store
  PROVE  AccountIInv'
<1>0. PICK r, step, plan, rem, more :
         /\ r = flight.result /\ plan = flight.left /\ step = Head(plan)
         /\ rem = Remaining(plan) /\ more = rem \ {step}
  OBVIOUS
<1>1. /\ flight.stage = "store"
      /\ record' = IF step = "record" THEN [state |-> r.state, cred |-> r.cred] ELSE record
      /\ vault' =
           CASE step = "session" /\ r.tokens # None ->
                   WithTokens(r.cred, [Tokens(r.cred) EXCEPT !.session = r.tokens])
             [] step = "refresh" /\ r.tokens # None ->
                   WithTokens(r.cred, [Tokens(r.cred) EXCEPT !.refresh = r.tokens])
             [] step = "clear" -> [k \in DOMAIN vault \ {r.clears} |-> vault[k]]
             [] OTHER -> vault
      /\ \/ Len(plan) = 1 /\ flight' = Resting /\ torn' = torn \ Touched(r)
         \/ Len(plan) # 1 /\ flight' = [flight EXCEPT !.left = Tail(@)] /\ torn' = torn
      /\ UNCHANGED <<order, live, issued, untold>>
  BY <1>0 DEF Store
<1>2. /\ plan \in Plans /\ Progress(rem, r) /\ r \in Results
      /\ step \in Steps /\ step \in rem
      /\ Len(plan) = 1 => rem = {step}
      /\ Len(plan) # 1 => Tail(plan) \in Plans /\ Remaining(Tail(plan)) = more
  BY <1>0, <1>1, PlanSteps DEF AccountIInv, FlightOK, Progress, ResultOK
<1>3. /\ r.cred \in SecretIds \cup {None} /\ r.clears \in SecretIds \cup {None}
      /\ r.tokens \in 0 .. issued /\ r.state \in StateNames
      /\ Touched(r) \subseteq SecretIds
      /\ None \notin SecretIds
  BY <1>2 DEF AccountIInv, AccountTypeOK, Results, Touched, Progress, ResultOK, SecretIds, None
<1>4. /\ DOMAIN vault \subseteq SecretIds
      /\ \A k \in DOMAIN vault : vault[k] \in [session : 0 .. issued, refresh : 0 .. issued]
      /\ torn \subseteq SecretIds
      /\ Tokens(r.cred) \in [session : 0 .. issued, refresh : 0 .. issued]
  BY DEF AccountIInv, AccountTypeOK, Tokens, None
<1>5. /\ DOMAIN vault' \subseteq SecretIds
      /\ \A k \in DOMAIN vault' : vault'[k] \in [session : 0 .. issued, refresh : 0 .. issued]
      /\ \A k \in SecretIds \ Touched(r) : /\ k \in DOMAIN vault' <=> k \in DOMAIN vault
                                           /\ k \in DOMAIN vault => vault'[k] = vault[k]
      /\ r.tokens # None =>
           /\ r.cred \in DOMAIN vault => r.cred \in DOMAIN vault'
           /\ "session" \notin more => r.cred \in DOMAIN vault' /\ vault'[r.cred].session = r.tokens
           /\ "refresh" \notin more => r.cred \in DOMAIN vault' /\ vault'[r.cred].refresh = r.tokens
      /\ r.clears # None /\ "clear" \notin more => r.clears \notin DOMAIN vault'
  <2>1. CASE step = "session" /\ r.tokens # None
    <3> DEFINE row == [Tokens(r.cred) EXCEPT !.session = r.tokens]
    <3>1. vault' = WithTokens(r.cred, row)
      BY <1>1, <2>1
    <3>2. row \in [session : 0 .. issued, refresh : 0 .. issued]
          /\ row.session = r.tokens /\ row.refresh = Tokens(r.cred).refresh
      BY <1>3, <1>4
    <3> HIDE DEF row
    <3>3. /\ DOMAIN vault' = DOMAIN vault \cup {r.cred}
          /\ \A k \in DOMAIN vault' : vault'[k] = IF k = r.cred THEN row ELSE vault[k]
      BY <3>1 DEF WithTokens
    <3>4. r.cred \in SecretIds /\ r.clears = None /\ Touched(r) = {r.cred}
      BY <1>2, <1>3, <2>1 DEF Progress, ResultOK, Touched
    <3>5. "refresh" \notin more => r.cred \in DOMAIN vault /\ vault[r.cred].refresh = r.tokens
      BY <1>0, <1>2, <2>1 DEF Progress
    <3>6. QED
      BY <1>4, <3>2, <3>3, <3>4, <3>5 DEF Tokens
  <2>2. CASE step = "refresh" /\ r.tokens # None
    <3> DEFINE row == [Tokens(r.cred) EXCEPT !.refresh = r.tokens]
    <3>1. vault' = WithTokens(r.cred, row)
      BY <1>1, <2>2
    <3>2. row \in [session : 0 .. issued, refresh : 0 .. issued]
          /\ row.refresh = r.tokens /\ row.session = Tokens(r.cred).session
      BY <1>3, <1>4
    <3> HIDE DEF row
    <3>3. /\ DOMAIN vault' = DOMAIN vault \cup {r.cred}
          /\ \A k \in DOMAIN vault' : vault'[k] = IF k = r.cred THEN row ELSE vault[k]
      BY <3>1 DEF WithTokens
    <3>4. r.cred \in SecretIds /\ r.clears = None /\ Touched(r) = {r.cred}
      BY <1>2, <1>3, <2>2 DEF Progress, ResultOK, Touched
    <3>5. "session" \notin more => r.cred \in DOMAIN vault /\ vault[r.cred].session = r.tokens
      BY <1>0, <1>2, <2>2 DEF Progress
    <3>6. QED
      BY <1>4, <3>2, <3>3, <3>4, <3>5 DEF Tokens
  <2>3. CASE step = "clear"
    <3>1. vault' = [k \in DOMAIN vault \ {r.clears} |-> vault[k]]
      BY <1>1, <2>3
    <3>2. r.clears # None => r.tokens = None /\ Touched(r) = {r.clears}
      BY <1>2 DEF Progress, ResultOK, Touched
    <3>3. /\ r.tokens # None /\ "session" \notin more => r.cred \in DOMAIN vault /\ vault[r.cred].session = r.tokens
          /\ r.tokens # None /\ "refresh" \notin more => r.cred \in DOMAIN vault /\ vault[r.cred].refresh = r.tokens
      BY <1>0, <1>2, <2>3 DEF Progress
    <3>4. r.clears = None => r.clears \notin DOMAIN vault
      BY <1>3, <1>4
    <3>5. QED
      BY <1>3, <1>4, <3>1, <3>2, <3>3, <3>4
  <2>4. CASE step = "record" \/ (step \in {"session", "refresh"} /\ r.tokens = None)
    <3>1. vault' = vault
      BY <1>1, <2>4
    <3>2. QED
      BY <1>0, <1>2, <1>4, <2>4, <3>1 DEF Progress
  <2>5. QED
    BY <1>2, <2>1, <2>2, <2>3, <2>4 DEF Steps
<1>6. /\ record' = record \/ record' = [state |-> r.state, cred |-> r.cred]
      /\ "record" \notin more => record' = [state |-> r.state, cred |-> r.cred]
  BY <1>0, <1>1, <1>2 DEF Progress
<1>7. record' \in [state : StateNames, cred : SecretIds \cup {None}]
  BY <1>3, <1>6 DEF AccountIInv, AccountTypeOK
<1>8. SignedInHasCredential'
  BY <1>2, <1>6 DEF AccountIInv, SignedInHasCredential, Progress, ResultOK
<1>9. ResultOK(r)'
  BY <1>1, <1>2, <1>6 DEF Progress, ResultOK, Results
<1>10. \A k \in SecretIds \ (torn \cup Touched(r)) : Whole(k)' <=> k = r.cred
  BY <1>2, <1>5 DEF Progress, Whole
<1>11. record'.cred # None /\ record'.cred \notin torn \cup Touched(r) => Holds(record.cred)'
  <2> SUFFICES ASSUME record'.cred # None, record'.cred \notin torn \cup Touched(r)
               PROVE  Holds(record.cred)'
    OBVIOUS
  <2>1. record.cred = record'.cred
    BY <1>2, <1>6 DEF Progress, ResultOK, Touched
  <2>2. Holds(record.cred) /\ record.cred \in SecretIds \ Touched(r)
    BY <1>2, <1>7, <2>1 DEF Progress
  <2>3. QED
    BY <1>1, <1>5, <2>1, <2>2 DEF Holds, Tokens
<1>12. CASE Len(plan) = 1
  <2>1. flight' = Resting /\ torn' = torn \ Touched(r) /\ more = {}
    BY <1>0, <1>1, <1>2, <1>12
  <2>2. record' = [state |-> r.state, cred |-> r.cred]
    BY <1>6, <2>1
  <2>3. \A k \in Touched(r) : Whole(k)' <=> k = r.cred
    BY <1>2, <1>3, <1>5, <2>1 DEF Touched, Progress, ResultOK, Whole
  <2>4. \A k \in SecretIds \ torn' : Whole(k)' <=> k = record'.cred
    BY <1>10, <2>1, <2>2, <2>3
  <2>5. ASSUME record'.cred # None, record'.cred \notin torn' PROVE Holds(record.cred)'
    <3>1. CASE r.tokens # None
      <4>1. r.cred \in DOMAIN vault' /\ vault'[r.cred].session = r.tokens /\ vault'[r.cred].refresh = r.tokens
        BY <1>5, <2>1, <3>1
      <4>2. r.tokens \in (live \cup untold)'
        BY <1>1, <1>2, <3>1 DEF Progress, ResultOK
      <4>3. QED
        BY <2>2, <4>1, <4>2 DEF Holds, Tokens
    <3>2. CASE r.tokens = None
      <4>1. Touched(r) = {} \/ r.cred = None
        BY <1>2, <3>2 DEF Touched, Progress, ResultOK
      <4>2. QED
        BY <1>11, <2>1, <2>2, <2>5, <4>1
    <3>3. QED
      BY <3>1, <3>2
  <2>6. AccountTypeOK'
    BY <1>1, <1>4, <1>5, <1>7, <2>1 DEF AccountIInv, AccountTypeOK, Resting
  <2>7. QED
    BY <1>8, <2>1, <2>4, <2>5, <2>6 DEF AccountIInv, FlightTyped, FlightOK, Rested, Resting
<1>13. CASE Len(plan) # 1
  <2>1. flight = [stage |-> "store", left |-> plan, result |-> r]
    BY <1>0, <1>1 DEF AccountIInv, FlightTyped, Storing, Resting
  <2>2. flight' = [stage |-> "store", left |-> Tail(plan), result |-> r] /\ torn' = torn
    BY <1>1, <1>13, <2>1
  <2>3. Progress(more, r)'
    <3>1. \A k \in SecretIds \ (torn \cup Touched(r))' : Whole(k)' <=> k = r.cred
      BY <1>10, <2>2 DEF Touched
    <3>2. (record.cred # None /\ record.cred \notin torn \cup Touched(r) => Holds(record.cred))'
      BY <1>11, <2>2 DEF Touched
    <3>3. QED
      BY <1>5, <1>6, <1>9, <3>1, <3>2 DEF Progress
  <2>4. Tail(plan) # <<>> /\ Tail(plan) \in Plans
    BY <1>2, <1>13, PlanSteps
  <2>5. AccountTypeOK'
    BY <1>1, <1>2, <1>4, <1>5, <1>7, <2>2, <2>4 DEF AccountIInv, AccountTypeOK, Resting
  <2>6. FlightOK'
    BY <1>2, <1>13, <2>2, <2>3, <2>4 DEF FlightOK, Resting, Remaining
  <2>7. QED
    BY <1>8, <2>2, <2>5, <2>6 DEF AccountIInv, FlightTyped, Storing
<1>14. QED
  BY <1>12, <1>13

-----------------------------------------------------------------------------
(***************************************************************************)
(* The answers.                                                            *)
(***************************************************************************)

Keeps(r) == \E st \in StateNames : r = Stay(st) /\ (st = "signed_in" => record.cred # None)

Leaves(r) == \E st \in StateNames \ {"signed_in"} : r = Leave(st)

\* Storing starts in a state that agrees with the result, whatever the answer.
LEMMA AnswerStarts ==
  ASSUME AccountIInv, flight.stage = "sent", NEW r, UNCHANGED <<order, record, vault, torn>>,
         flight' = [stage |-> "store", left |-> order, result |-> r],
         issued' \in issued .. MaxHostedSessions,
         live' \subseteq 1 .. issued', untold' \subseteq 1 .. issued',
         \/ Keeps(r) /\ live \cup untold \subseteq live' \cup untold'
         \/ Leaves(r)
         \/ \E n \in live' : r \in Enter(n)
  PROVE  AccountIInv'
<1>1. /\ order \in Orders
      /\ record \in [state : StateNames, cred : SecretIds \cup {None}]
      /\ DOMAIN vault \subseteq SecretIds
      /\ \A k \in DOMAIN vault : vault[k] \in [session : 0 .. issued, refresh : 0 .. issued]
      /\ issued \in Nat /\ issued \leq MaxHostedSessions /\ issued' \in 0 .. MaxHostedSessions
      /\ issued \leq issued' /\ torn \subseteq SecretIds
      /\ MaxHostedSessions \in Nat /\ None \notin SecretIds
  BY AccountBoundsAssumption DEF AccountIInv, AccountTypeOK, SecretIds, None
<1>2. Rested
  BY DEF AccountIInv, FlightOK
<1>3. /\ r \in Results
      /\ ResultOK(r)'
      /\ \A k \in SecretIds \ (torn \cup Touched(r)) : Whole(k) <=> k = r.cred
      /\ record.cred # None /\ record.cred \notin torn \cup Touched(r) => Holds(record.cred)'
  <2>1. CASE Keeps(r) /\ live \cup untold \subseteq live' \cup untold'
    <3>1. PICK st \in StateNames : r = Stay(st) /\ (st = "signed_in" => record.cred # None)
      BY <2>1 DEF Keeps
    <3>2. r = [state |-> st, cred |-> record.cred, tokens |-> None, clears |-> None]
      BY <3>1 DEF Stay, Keep
    <3>3. r \in Results /\ ResultOK(r)' /\ Touched(r) = {}
      BY <1>1, <3>1, <3>2 DEF Results, ResultOK, Touched
    <3>4. record.cred # None /\ record.cred \notin torn => Holds(record.cred)'
      BY <1>2, <2>1 DEF Rested, Holds, Tokens
    <3>5. QED
      BY <1>2, <3>2, <3>3, <3>4 DEF Rested
  <2>2. CASE Leaves(r)
    <3>1. PICK st \in StateNames \ {"signed_in"} : r = Leave(st)
      BY <2>2 DEF Leaves
    <3>2. r = [state |-> st, cred |-> None, tokens |-> None, clears |-> record.cred]
      BY <3>1 DEF Leave
    <3>3. r \in Results /\ ResultOK(r)' /\ Touched(r) = {record.cred} \ {None}
      BY <1>1, <3>1, <3>2 DEF Results, ResultOK, Touched
    <3>4. QED
      BY <1>1, <1>2, <3>2, <3>3 DEF Rested
  <2>3. CASE \E n \in live' : r \in Enter(n)
    <3>1. PICK n \in live' : r \in Enter(n)
      BY <2>3
    <3>2. n \in HostedSessions /\ n # None
      <4>1. PICK last \in 0 .. MaxHostedSessions : last = issued'
        BY <1>1
      <4>2. n \in 1 .. last
        BY <4>1
      <4>3. n \in 1 .. MaxHostedSessions
        BY <1>1, <4>1, <4>2
      <4>4. QED
        BY <4>2, <4>3 DEF HostedSessions, None
    <3>3. PICK k \in SecretIds :
            /\ r = [state |-> "signed_in", cred |-> k, tokens |-> n, clears |-> None]
            /\ record.cred \in {k, None}
      BY <1>1, <3>1 DEF Enter, NewSecrets
    <3>4. r \in Results /\ ResultOK(r)' /\ Touched(r) = {k}
      BY <1>1, <3>2, <3>3 DEF Results, ResultOK, Touched, StateNames
    <3>5. QED
      BY <1>1, <1>2, <3>3, <3>4 DEF Rested
  <2>4. QED
    BY <2>1, <2>2, <2>3
<1>4. order \in Plans /\ Remaining(order) = Steps
  BY <1>1, OrdersArePlans
<1>5. Progress(Steps, r)'
  <2>1. \A k \in SecretIds \ (torn \cup Touched(r))' : Whole(k)' <=> k = r.cred
    BY <1>3 DEF Touched, Whole
  <2>2. (record.cred # None /\ record.cred \notin torn \cup Touched(r) => Holds(record.cred))'
    BY <1>3 DEF Touched
  <2>3. QED
    BY <1>3, <2>1, <2>2 DEF Progress, Steps
<1>6. order # <<>>
  BY <1>4, PlanSteps
<1>7. AccountTypeOK'
  <2>1. \A k \in DOMAIN vault' : vault'[k] \in [session : 0 .. issued', refresh : 0 .. issued']
    BY <1>1
  <2>2. flight'.stage = "store" /\ flight'.result \in Results /\ flight'.left # <<>>
    BY <1>3, <1>6
  <2>3. QED
    BY <1>1, <2>1, <2>2 DEF AccountTypeOK
<1>8. FlightOK'
  BY <1>4, <1>5 DEF FlightOK, Resting, Remaining
<1>9. QED
  BY <1>7, <1>8 DEF AccountIInv, FlightTyped, Storing, SignedInHasCredential

LEMMA RespondStep ==
  ASSUME AccountIInv, Respond
  PROVE  AccountIInv'
<1>0. PICK a, t : a = flight.action /\ t = flight.sent
  OBVIOUS
<1>1. /\ flight.stage = "sent" /\ a \in Asking \cup WithSession
      /\ UNCHANGED <<order, record, vault, torn>>
      /\ record.state \in StateNames /\ record.cred \in SecretIds \cup {None}
      /\ live \subseteq 1 .. issued /\ issued \in 0 .. MaxHostedSessions /\ untold \subseteq 1 .. issued
      /\ MaxHostedSessions \in Nat
      /\ record.state = "signed_in" => record.cred # None
      /\ a \in WithSession => record.cred # None /\ t = Tokens(record.cred) /\ t.session # None
  BY <1>0, AccountBoundsAssumption
  DEF Respond, AccountIInv, AccountTypeOK, FlightOK, SignedInHasCredential, Resting
<1>2. a \in WithSession => t.session \in 1 .. issued
  BY <1>1 DEF AccountIInv, AccountTypeOK, Tokens, None
<1>3. Ends(a, t) \subseteq 1 .. issued
  BY <1>1, <1>2 DEF Ends, WithSession, Asking
<1>4. Keeps(Keep)
  <2>1. Keep = Stay(record.state)
    BY DEF Keep, Stay
  <2>2. QED
    BY <1>1, <2>1 DEF Keeps
<1>5. CASE Handled(TRUE)
  <2>1. PICK n : n = IF Grants(a) THEN issued + 1 ELSE None
    OBVIOUS
  <2>2. PICK r \in Accepted(a, n) : flight' = [stage |-> "store", left |-> order, result |-> r]
    BY <1>0, <1>5, <2>1 DEF Handled
  <2>3. /\ Grants(a) => issued < MaxHostedSessions
        /\ live' = (live \ Ends(a, t)) \cup ({n} \ {None})
        /\ issued' = IF Grants(a) THEN n ELSE issued
        /\ untold' = untold
    BY <1>0, <1>5, <2>1 DEF Handled
  <2>4. issued' \in issued .. MaxHostedSessions /\ live' \subseteq 1 .. issued' /\ untold' \subseteq 1 .. issued'
    <3>1. issued' \in {issued, issued + 1} /\ issued' \leq MaxHostedSessions /\ {n} \ {None} \subseteq {issued'}
      BY <1>1, <2>1, <2>3 DEF None
    <3>2. issued' \in issued .. MaxHostedSessions /\ 1 .. issued \subseteq 1 .. issued'
          /\ ({n} \ {None} # {} => issued' \in 1 .. issued')
      BY <1>1, <2>1, <2>3, <3>1 DEF None
    <3>3. QED
      BY <1>1, <2>3, <3>1, <3>2
  <2>5. CASE a \in {"register", "verify", "session", "devices"}
    <3>1. Ends(a, t) = {}
      BY <2>5 DEF Ends, Asking
    <3>2. Keeps(r)
      <4>1. \A st \in StateNames : (st = "signed_in" => record.cred # None) => Keeps(Stay(st))
        BY DEF Keeps
      <4>2. r = Keep \/ \E st \in StateNames : r = Stay(st) /\ (st = "signed_in" => record.cred # None)
        BY <1>1, <2>2, <2>5 DEF Accepted, StateNames, WithSession
      <4>3. QED
        BY <1>4, <4>1, <4>2
    <3>3. QED
      BY <1>1, <2>2, <2>3, <2>4, <3>1, <3>2, AnswerStarts
  <2>6. CASE a \in {"login", "recover", "rotate"}
    <3>1. r \in Enter(n) /\ n \in live'
      BY <1>1, <2>1, <2>2, <2>3, <2>6 DEF Accepted, Grants, None
    <3>2. QED
      BY <1>1, <2>2, <2>4, <3>1, AnswerStarts
  <2>7. CASE a \in {"logout", "end_all", "revoke_own_device"}
    <3>1. Leaves(r)
      BY <2>2, <2>7 DEF Accepted, Leaves, StateNames
    <3>2. QED
      BY <1>1, <2>2, <2>4, <3>1, AnswerStarts
  <2>8. QED
    BY <1>1, <2>5, <2>6, <2>7 DEF Asking, WithSession
<1>6. CASE Handled(FALSE)
  <2>1. PICK n : n = IF Grants(a) THEN issued + 1 ELSE None
    OBVIOUS
  <2>2. /\ flight' = [stage |-> "store", left |-> order, result |-> Keep]
        /\ Grants(a) => issued < MaxHostedSessions
        /\ live' = (live \ Ends(a, t)) \cup ({n} \ {None})
        /\ issued' = IF Grants(a) THEN n ELSE issued
        /\ untold' = untold \cup Ends(a, t)
    BY <1>0, <1>6, <2>1 DEF Handled
  <2>3. issued' \in issued .. MaxHostedSessions /\ live' \subseteq 1 .. issued' /\ untold' \subseteq 1 .. issued'
    <3>1. issued' \in {issued, issued + 1} /\ issued' \leq MaxHostedSessions /\ {n} \ {None} \subseteq {issued'}
      BY <1>1, <2>1, <2>2 DEF None
    <3>2. issued' \in issued .. MaxHostedSessions /\ 1 .. issued \subseteq 1 .. issued'
          /\ ({n} \ {None} # {} => issued' \in 1 .. issued')
      BY <1>1, <2>1, <2>2, <3>1 DEF None
    <3>3. QED
      BY <1>1, <1>3, <2>2, <3>1, <3>2
  <2>4. live \cup untold \subseteq live' \cup untold'
    BY <2>2
  <2>5. QED
    BY <1>1, <1>4, <2>2, <2>3, <2>4, AnswerStarts
<1>7. CASE Unhandled
  <2>1. PICK r \in {Keep} \cup Refused(a) : flight' = [stage |-> "store", left |-> order, result |-> r]
    BY <1>0, <1>7 DEF Unhandled
  <2>2. UNCHANGED <<live, issued, untold>>
    BY <1>7 DEF Unhandled
  <2>3. Keeps(r) \/ Leaves(r)
    <3>1. Keeps(Stay("pending")) /\ Leaves(Leave("ended"))
      BY DEF Keeps, Leaves, StateNames
    <3>2. r \in {Keep, Stay("pending"), Leave("ended")}
      BY <2>1 DEF Refused
    <3>3. QED
      BY <1>4, <3>1, <3>2
  <2>4. QED
    BY <1>1, <2>1, <2>2, <2>3, AnswerStarts
<1>8. QED
  BY <1>5, <1>6, <1>7 DEF Respond

-----------------------------------------------------------------------------
(***************************************************************************)
(* The other steps, and the theorems.                                      *)
(***************************************************************************)

\* Another device ends a session: the client is not told.
LEMMA EndElsewhereStep ==
  ASSUME AccountIInv, NEW s \in live, EndElsewhere(s)
  PROVE  AccountIInv'
<1>1. /\ UNCHANGED <<order, record, vault, flight, issued, torn>>
      /\ live' = live \ {s} /\ untold' = untold \cup {s} /\ live' \cup untold' = live \cup untold
  BY DEF EndElsewhere
<1>2. AccountTypeOK' /\ FlightTyped' /\ SignedInHasCredential'
  BY <1>1 DEF AccountIInv, AccountTypeOK, FlightTyped, Storing, SignedInHasCredential, HostedSessions
<1>3. \A k : (Holds(k)' <=> Holds(k)) /\ (Whole(k)' <=> Whole(k)) /\ Tokens(k)' = Tokens(k)
  BY <1>1 DEF Holds, Tokens, Whole
<1>4. Rested => Rested'
  BY <1>1, <1>3 DEF Rested
<1>5. \A rem, r : Progress(rem, r) => Progress(rem, r)'
  BY <1>1, <1>3 DEF Progress, ResultOK, Touched
<1>6. FlightOK'
  BY <1>1, <1>3, <1>4, <1>5 DEF AccountIInv, FlightOK, Remaining
<1>7. QED
  BY <1>2, <1>6 DEF AccountIInv

LEMMA SendStep ==
  ASSUME AccountIInv, NEW action \in Asking \cup WithSession, Send(action)
  PROVE  AccountIInv'
<1>1. /\ UNCHANGED <<order, record, vault, live, issued, untold, torn>>
      /\ flight = Resting /\ flight'.stage = "sent" /\ flight'.action = action
      /\ action \in WithSession => /\ record.cred # None /\ flight'.sent = Tokens(record.cred)
                                   /\ Tokens(record.cred).session # None
  BY DEF Send
<1>2. AccountTypeOK' /\ FlightTyped' /\ SignedInHasCredential'
  BY <1>1 DEF AccountIInv, AccountTypeOK, FlightTyped, SignedInHasCredential, Resting
<1>3. Rested'
  BY <1>1 DEF AccountIInv, FlightOK, Rested, Whole, Holds, Tokens
<1>4. FlightOK'
  BY <1>1, <1>3 DEF FlightOK, Resting, Tokens
<1>5. QED
  BY <1>2, <1>4 DEF AccountIInv

\* What an interrupted result did not touch agrees with the record.
LEMMA InterruptStep ==
  ASSUME AccountIInv, Interrupt
  PROVE  AccountIInv'
<1>1. flight' = Resting /\ UNCHANGED <<order, record, vault, live, issued, untold>>
  BY DEF Interrupt
<1>2. Rested' /\ torn' \subseteq SecretIds
  <2>1. CASE flight.stage = "store"
    <3>1. PICK r : r = flight.result
      OBVIOUS
    <3>2. PICK rem : Progress(rem, r)
      BY <2>1, <3>1 DEF AccountIInv, FlightOK
    <3>3. torn' = torn \cup Touched(r) /\ Touched(r) \subseteq SecretIds /\ torn \subseteq SecretIds
      BY <2>1, <3>1, <3>2 DEF Interrupt, AccountIInv, AccountTypeOK, Progress, ResultOK, Results, Touched
    <3>4. \A k \in SecretIds \ torn' : k = r.cred <=> k = record.cred
      BY <3>2, <3>3 DEF Progress, ResultOK, Touched, SecretIds, None
    <3>5. QED
      BY <1>1, <3>2, <3>3, <3>4 DEF Progress, Rested, Whole, Holds, Tokens
  <2>2. CASE flight.stage # "store"
    <3>1. Rested /\ torn' = torn /\ torn \subseteq SecretIds
      BY <2>2 DEF Interrupt, AccountIInv, AccountTypeOK, FlightTyped, FlightOK, Storing
    <3>2. QED
      BY <1>1, <3>1 DEF Rested, Whole, Holds, Tokens
  <2>3. QED
    BY <2>1, <2>2
<1>3. AccountTypeOK'
  BY <1>1, <1>2 DEF AccountIInv, AccountTypeOK, Resting
<1>4. QED
  BY <1>1, <1>2, <1>3 DEF AccountIInv, FlightTyped, FlightOK, SignedInHasCredential, Resting

\* The inductive invariant holds in every behavior.
THEOREM AccountInvariant == AccountSpec => []AccountIInv
<1>1. AccountInit => AccountIInv
  <2> SUFFICES ASSUME AccountInit PROVE AccountIInv
    OBVIOUS
  <2>1. DOMAIN vault = {}
    BY DEF AccountInit
  <2>2. AccountTypeOK
    BY <2>1, AccountBoundsAssumption DEF AccountInit, AccountTypeOK, Resting, StateNames, None
  <2>3. Rested
    BY <2>1 DEF AccountInit, Rested, Whole, SecretIds, None
  <2>4. QED
    BY <2>2, <2>3 DEF AccountInit, AccountIInv, FlightTyped, FlightOK, SignedInHasCredential, Resting
<1>2. AccountIInv /\ [AccountNext]_accountVars => AccountIInv'
  <2> SUFFICES ASSUME AccountIInv, [AccountNext]_accountVars PROVE AccountIInv'
    OBVIOUS
  <2>1. CASE UNCHANGED accountVars
    <3>1. UNCHANGED <<order, record, vault, flight, live, issued, untold, torn>>
      BY <2>1 DEF accountVars
    <3>2. \A k : (Holds(k)' <=> Holds(k)) /\ (Whole(k)' <=> Whole(k)) /\ Tokens(k)' = Tokens(k)
      BY <3>1 DEF Holds, Tokens, Whole
    <3>3. (Rested => Rested') /\ \A rem, r : Progress(rem, r) => Progress(rem, r)'
      BY <3>1, <3>2 DEF Rested, Progress, ResultOK, Touched
    <3>4. FlightOK'
      BY <3>1, <3>2, <3>3 DEF AccountIInv, FlightOK, Remaining
    <3>5. QED
      BY <3>1, <3>4 DEF AccountIInv, AccountTypeOK, FlightTyped, Storing, SignedInHasCredential
  <2>2. ASSUME NEW action \in Asking \cup WithSession, Send(action) PROVE AccountIInv'
    BY <2>2, SendStep
  <2>3. CASE Respond
    BY <2>3, RespondStep
  <2>4. CASE Store
    BY <2>4, StoreStep
  <2>5. CASE Interrupt
    BY <2>5, InterruptStep
  <2>6. ASSUME NEW s \in live, EndElsewhere(s) PROVE AccountIInv'
    BY <2>6, EndElsewhereStep
  <2>7. QED
    BY <2>1, <2>2, <2>3, <2>4, <2>5, <2>6 DEF AccountNext
<1>3. QED
  BY <1>1, <1>2, PTL DEF AccountSpec

\* Record, credential store and request are well formed in every behavior.
THEOREM AccountTypes == AccountSpec => []AccountTypeOK
<1>1. AccountIInv => AccountTypeOK
  BY DEF AccountIInv
<1>2. QED
  BY <1>1, AccountInvariant, PTL

\* Between requests the credential store (secure_credentials) holds the secrets
\* of the credential the hosted account record names, and no others, but for
\* a credential whose storing was interrupted.
THEOREM SecretsAlwaysMatch == AccountSpec => []SecretsMatchRecord
<1>1. AccountIInv => SecretsMatchRecord
  BY DEF AccountIInv, FlightOK, Rested, SecretsMatchRecord, Whole
<1>2. QED
  BY <1>1, AccountInvariant, PTL

\* A client that shows itself signed in holds both tokens of one session the
\* server issued, whose end it was not told of.
THEOREM SignedInHoldsSession == AccountSpec => []HoldsItsSession
<1>1. AccountIInv => HoldsItsSession
  BY DEF AccountIInv, FlightOK, Rested, SignedInHasCredential, HoldsItsSession, Holds
<1>2. QED
  BY <1>1, AccountInvariant, PTL

-----------------------------------------------------------------------------
(***************************************************************************)
(* The queue of the desktop.                                               *)
(***************************************************************************)

\* What every value of a loop has if the first has it and each turn keeps it.
LEMMA LoopStays ==
  ASSUME NEW S, NEW N \in Nat, NEW h, h[0] \in S, \A n \in 1..N : h[n - 1] \in S => h[n] \in S
  PROVE  \A n \in 0..N : h[n] \in S
<1> DEFINE P == {n \in 0..N : h[n] \in S}
<1>1. 0 \in P /\ P \subseteq 0..N
  OBVIOUS
<1>2. \A n \in 1..N : n - 1 \in P => n \in P
  OBVIOUS
<1> HIDE DEF P
<1>3. P = 0..N
  BY <1>1, <1>2, EveryTurn
<1>4. QED
  BY <1>3 DEF P

\* op comes after an event that no push of the queue sends.
Gap(events, lost, op) ==
  \E j, k \in 1..Len(events) : j < k /\ events[j] \in lost /\ events[k] = op

SameOps(q, r) ==
  r \in Seq(QueueEntry) /\ Len(r) = Len(q) /\ \A i \in 1..Len(q) : r[i].op = q[i].op

\* The queue tells the truth about a log, a server and the events that are lost.
QueueTrue(q, events, held, lost) ==
  \A i \in 1..Len(q) :
    /\ q[i].linked => q[i].op \in Range(events)
    /\ q[i].status = "accepted" => q[i].op \notin Range(events) \/ q[i].op \in held \cup lost
    /\ q[i].status = "blocked" => \E k \in i..Len(q) : Gap(events, lost, q[k].op)

\* An edit of a queue with the operations of q does.
EditTrue(q, edit, events, held, lost) ==
  /\ edit \in Edit /\ edit.kind # "enqueue"
  /\ edit.kind = "attach" => edit.ops \subseteq Range(events)
  /\ edit.kind = "accepted" => edit.ops \subseteq held
  /\ edit.kind = "support" => edit.ops \cap Range(events) = {}
  /\ edit.kind = "blocked" => \A i \in 1..Len(q) : q[i].op \in edit.ops =>
       \E k \in i..Len(q) : Gap(events, lost, q[k].op)

LEMMA ReportOne ==
  ASSUME NEW q \in Seq(QueueEntry), NEW events, NEW held, NEW lost, NEW r, SameOps(q, r),
         QueueTrue(r, events, held, lost), NEW edit, EditTrue(q, edit, events, held, lost)
  PROVE  SameOps(q, ApplyEdit(r, edit)) /\ QueueTrue(ApplyEdit(r, edit), events, held, lost)
<1>1. PICK s : s = ApplyEdit(r, edit)
  OBVIOUS
<1>2. s = update_mutation(r, edit.kind, edit.ops) /\ edit.kind \in Kinds \ {"enqueue"}
  BY <1>1 DEF ApplyEdit, EditTrue, Edit
<1>3. r \in Seq(QueueEntry) /\ Len(r) = Len(q) /\ Len(q) \in Nat /\ \A i \in 1..Len(q) : r[i].op = q[i].op
  BY LenProperties DEF SameOps
<1>4. /\ s \in Seq(QueueEntry) /\ Len(s) = Len(q)
      /\ \A i \in 1..Len(q) :
           /\ s[i].op = q[i].op
           /\ r[i].linked \/ (edit.kind = "attach" /\ q[i].op \in edit.ops) <=> s[i].linked
           /\ s[i].status = "accepted" =>
                r[i].status = "accepted" \/ (edit.kind \in {"accepted", "support"} /\ q[i].op \in edit.ops)
           /\ s[i].status = "blocked" =>
                r[i].status = "blocked" \/ (edit.kind = "blocked" /\ q[i].op \in edit.ops)
  <2>1. /\ s \in Seq(QueueEntry) /\ Len(s) = Len(r)
        /\ \A i \in 1..Len(r) :
             /\ s[i].op = r[i].op
             /\ r[i].linked \/ (edit.kind = "attach" /\ r[i].op \in edit.ops) <=> s[i].linked
             /\ s[i].status = "accepted" =>
                  r[i].status = "accepted" \/ (edit.kind \in {"accepted", "support"} /\ r[i].op \in edit.ops)
             /\ s[i].status = "blocked" =>
                  r[i].status = "blocked" \/ (edit.kind = "blocked" /\ r[i].op \in edit.ops)
    BY <1>2, <1>3, EditInPlace
  <2>2. QED
    BY <1>3, <2>1
<1>5. ASSUME NEW i \in 1..Len(q)
      PROVE  /\ s[i].linked => s[i].op \in Range(events)
             /\ s[i].status = "accepted" => s[i].op \notin Range(events) \/ s[i].op \in held \cup lost
             /\ s[i].status = "blocked" => \E k \in i..Len(q) : Gap(events, lost, s[k].op)
  <2>1. /\ r[i].linked => q[i].op \in Range(events)
        /\ r[i].status = "accepted" => q[i].op \notin Range(events) \/ q[i].op \in held \cup lost
        /\ r[i].status = "blocked" => \E k \in i..Len(q) : Gap(events, lost, r[k].op)
    BY <1>3 DEF QueueTrue
  <2>2. \A k \in i..Len(q) : k \in 1..Len(q) /\ s[k].op = q[k].op /\ r[k].op = q[k].op
    BY <1>3, <1>4
  <2>3. s[i].linked => s[i].op \in Range(events)
    BY <1>4, <2>1 DEF EditTrue
  <2>4. s[i].status = "accepted" => s[i].op \notin Range(events) \/ s[i].op \in held \cup lost
    BY <1>4, <2>1 DEF EditTrue
  <2>5. s[i].status = "blocked" => \E k \in i..Len(q) : Gap(events, lost, q[k].op)
    BY <1>4, <2>1, <2>2 DEF EditTrue
  <2>6. QED
    BY <2>2, <2>3, <2>4, <2>5
<1>6. SameOps(q, s) /\ QueueTrue(s, events, held, lost)
  BY <1>4, <1>5 DEF SameOps, QueueTrue
<1>7. QED
  BY <1>1, <1>6

\* A list of edits that are right in this sense.
EditsTrue(q, edits, events, held, lost) ==
  edits \in Seq(Edit) /\ \A i \in 1..Len(edits) : EditTrue(q, edits[i], events, held, lost)

\* Whichever writes of a handler are refused, and after whichever it stops.
LEMMA WrittenReports ==
  ASSUME NEW q \in Seq(QueueEntry), NEW events, NEW held, NEW lost, QueueTrue(q, events, held, lost),
         NEW edits, EditsTrue(q, edits, events, held, lost), NEW N \in 0..Len(edits), NEW refused
  PROVE  /\ SameOps(q, Written(q, edits, N, refused))
         /\ QueueTrue(Written(q, edits, N, refused), events, held, lost)
<1> DEFINE S == {r \in Seq(QueueEntry) : SameOps(q, r) /\ QueueTrue(r, events, held, lost)}
           Loop(h) == h = [i \in 0..N |-> IF i = 0 THEN q ELSE IF i \in refused THEN h[i - 1]
                                           ELSE ApplyEdit(h[i - 1], edits[i])]
<1>1. N \in Nat /\ q \in S /\ \A i \in 1..N : i \in 1..Len(edits)
  BY LenProperties DEF SameOps, EditsTrue
<1>2. \A i \in 1..N, r \in S : ApplyEdit(r, edits[i]) \in S
  <2> SUFFICES ASSUME NEW i \in 1..N, NEW r \in S PROVE ApplyEdit(r, edits[i]) \in S
    OBVIOUS
  <2>1. PICK edit : edit = edits[i]
    OBVIOUS
  <2>2. EditTrue(q, edit, events, held, lost)
    BY <1>1, <2>1 DEF EditsTrue
  <2>3. SameOps(q, ApplyEdit(r, edit)) /\ QueueTrue(ApplyEdit(r, edit), events, held, lost)
    BY <2>2, ReportOne
  <2>4. QED
    BY <2>1, <2>3 DEF SameOps
<1>3. Written(q, edits, N, refused) = (CHOOSE h : Loop(h))[N]
  BY DEF Written
<1>4. \A h : Loop(h) <=> h = [i \in 0..N |-> IF i = 0 THEN q ELSE IF i \in refused THEN h[i - 1]
                                              ELSE ApplyEdit(h[i - 1], edits[i])]
  OBVIOUS
<1> HIDE DEF S, Loop
<1>5. \E h : Loop(h)
  <2>1. PICK turn : turn = [i \in 1..N |-> [r \in S |-> IF i \in refused THEN r ELSE ApplyEdit(r, edits[i])]]
    OBVIOUS
  <2>2. turn \in [1..N -> [S -> S]]
    BY <1>2, <2>1
  <2>3. Loops(S, N, q, turn) # {}
    BY <1>1, <2>2, LoopIsDefined
  <2>4. PICK h \in [0..N -> S] : h[0] = q /\ \A n \in 1..N : h[n] = turn[n][h[n - 1]]
    BY <2>3 DEF Loops
  <2>5. ASSUME NEW n \in 0..N
        PROVE  h[n] = IF n = 0 THEN q ELSE IF n \in refused THEN h[n - 1] ELSE ApplyEdit(h[n - 1], edits[n])
    <3>1. CASE n = 0
      BY <2>4, <3>1
    <3>2. CASE n # 0
      <4>1. n \in 1..N /\ n - 1 \in 0..N
        BY <1>1, <3>2
      <4>2. h[n - 1] \in S
        BY <4>1
      <4>3. turn[n][h[n - 1]] = IF n \in refused THEN h[n - 1] ELSE ApplyEdit(h[n - 1], edits[n])
        BY <2>1, <4>1, <4>2
      <4>4. QED
        BY <2>4, <3>2, <4>1, <4>3
    <3>3. QED
      BY <3>1, <3>2
  <2>6. Loop(h)
    BY <1>4, <2>5
  <2>7. QED
    BY <2>6
<1>6. PICK h : h = CHOOSE g : Loop(g)
  OBVIOUS
<1>7. \A n \in 0..N : h[n] = IF n = 0 THEN q ELSE IF n \in refused THEN h[n - 1]
                             ELSE ApplyEdit(h[n - 1], edits[n])
  <2>1. Loop(h)
    BY <1>5, <1>6
  <2>2. QED
    BY <1>4, <2>1
<1>8. h[0] \in S /\ \A n \in 1..N : h[n - 1] \in S => h[n] \in S
  <2>1. 0 \in 0..N /\ \A n \in 1..N : n \in 0..N /\ n # 0
    BY <1>1
  <2>2. QED
    BY <1>1, <1>2, <1>7, <2>1
<1>9. h[N] \in S
  <2>1. \A n \in 0..N : h[n] \in S
    BY <1>1, <1>8, LoopStays
  <2>2. QED
    BY <1>1, <2>1
<1>10. QED
  BY <1>3, <1>6, <1>9 DEF S

\* A stop: the server is gone with what no entry of the queue sends again.
LEMMA StartReports ==
  ASSUME NEW q \in Seq(QueueEntry), Distinct(q), NEW events, NEW held, NEW lost,
         QueueTrue(q, events, held, lost), NEW r, r = update_mutation(q, "recover", Ops),
         NEW after, after = lost \cup {e \in held : ~ \E m \in Range(q) : m.op = e /\ m.status # "accepted"}
  PROVE  SameOps(q, r) /\ QueueTrue(r, events, {}, after)
<1>1. /\ r \in Seq(QueueEntry) /\ Len(r) = Len(q) /\ Len(q) \in Nat
      /\ \A i \in 1..Len(q) :
           /\ r[i].op = q[i].op
           /\ q[i].linked <=> r[i].linked
           /\ r[i].status = "accepted" => q[i].status = "accepted"
           /\ r[i].status = "blocked" => q[i].status = "blocked"
  <2>1. "recover" \in Kinds \ {"enqueue"} /\ "recover" \notin {"attach", "accepted", "support", "blocked"}
    BY DEF Kinds
  <2>2. PICK kind : kind = "recover"
    OBVIOUS
  <2>3. /\ r \in Seq(QueueEntry) /\ Len(r) = Len(q)
        /\ \A i \in 1..Len(q) :
             /\ r[i].op = q[i].op
             /\ q[i].linked \/ (kind = "attach" /\ q[i].op \in Ops) <=> r[i].linked
             /\ r[i].status = "accepted" =>
                  q[i].status = "accepted" \/ (kind \in {"accepted", "support"} /\ q[i].op \in Ops)
             /\ r[i].status = "blocked" => q[i].status = "blocked" \/ (kind = "blocked" /\ q[i].op \in Ops)
    BY <2>1, <2>2, EditInPlace
  <2>4. QED
    BY <2>1, <2>2, <2>3, LenProperties
<1>2. \A op : Gap(events, lost, op) => Gap(events, after, op)
  BY DEF Gap
<1>3. ASSUME NEW i \in 1..Len(q), q[i].status = "accepted", q[i].op \in held
      PROVE  q[i].op \in after
  <2>1. ASSUME NEW m \in Range(q), m.op = q[i].op PROVE m.status = "accepted"
    <3>1. PICK j \in 1..Len(q) : m = q[j]
      BY <1>1, LenProperties DEF Range
    <3>2. j = i
      BY <2>1, <3>1 DEF Distinct
    <3>3. QED
      BY <1>3, <3>1, <3>2
  <2>2. QED
    BY <1>3, <2>1
<1>4. ASSUME NEW i \in 1..Len(q)
      PROVE  /\ r[i].linked => r[i].op \in Range(events)
             /\ r[i].status = "accepted" => r[i].op \notin Range(events) \/ r[i].op \in {} \cup after
             /\ r[i].status = "blocked" => \E k \in i..Len(q) : Gap(events, after, r[k].op)
  <2>1. \A k \in i..Len(q) : k \in 1..Len(q) /\ r[k].op = q[k].op
    BY <1>1
  <2>2. r[i].status = "accepted" => r[i].op \notin Range(events) \/ r[i].op \in after
    BY <1>1, <1>3 DEF QueueTrue
  <2>3. r[i].status = "blocked" => \E k \in i..Len(q) : Gap(events, after, q[k].op)
    BY <1>1, <1>2 DEF QueueTrue
  <2>4. r[i].linked => r[i].op \in Range(events)
    BY <1>1 DEF QueueTrue
  <2>5. QED
    BY <2>1, <2>2, <2>3, <2>4
<1>5. QED
  BY <1>1, <1>4 DEF SameOps, QueueTrue

\* What a handler leaves, whichever of its writes were refused and whether or not
\* the desktop stopped.
LEMMA HandleReports ==
  ASSUME DrainTypeOK, NEW q \in Seq(QueueEntry), Distinct(q), NEW events, NEW taken,
         QueueTrue(q, events, Range(taken), gone),
         NEW edits, EditsTrue(q, edits, events, Range(taken), gone),
         NEW session, session \in BOOLEAN, Handle(q, edits, taken, session)
  PROVE  /\ SameOps(q, queue') /\ QueueTrue(queue', events, Range(cloud'), gone')
         /\ gone \subseteq gone' /\ gone' \subseteq gone \cup Range(taken)
         /\ cloud' \in {taken, << >>} /\ connected' \in BOOLEAN
         /\ queueFaults' \in 0..MaxQueueFaults
<1>1. edits \in Seq(Edit) /\ Len(edits) \in Nat /\ queueFaults \in Nat /\ MaxQueueFaults \in Nat
      /\ queueFaults <= MaxQueueFaults
  BY LenProperties, UnqueuedAssumption DEF EditsTrue, DrainTypeOK
<1>2. CASE \E refused \in SUBSET (1..Len(edits)) :
             /\ queueFaults + Cardinality(refused) <= MaxQueueFaults
             /\ queueFaults' = queueFaults + Cardinality(refused)
             /\ queue' = Written(q, edits, Len(edits), refused)
             /\ cloud' = taken /\ connected' = session
             /\ UNCHANGED gone
  <2>1. PICK refused \in SUBSET (1..Len(edits)) :
             /\ queueFaults + Cardinality(refused) <= MaxQueueFaults
             /\ queueFaults' = queueFaults + Cardinality(refused)
             /\ queue' = Written(q, edits, Len(edits), refused)
             /\ cloud' = taken /\ connected' = session
             /\ UNCHANGED gone
    BY <1>2
  <2>2. Cardinality(refused) \in Nat
    <3>1. IsFiniteSet(1..Len(edits))
      BY <1>1, FS_Interval
    <3>2. IsFiniteSet(refused)
      BY <3>1, FS_Subset
    <3>3. QED
      BY <3>2, FS_CardinalityType
  <2>3. PICK N, held : N = Len(edits) /\ held = Range(taken)
    OBVIOUS
  <2>4. N \in 0..Len(edits)
    BY <1>1, <2>3
  <2>5. SameOps(q, queue') /\ QueueTrue(queue', events, held, gone)
    BY <2>1, <2>3, <2>4, WrittenReports
  <2>6. QED
    BY <1>1, <2>1, <2>2, <2>3, <2>5
<1>3. CASE \E n \in 0..Len(edits) :
             /\ queueFaults < MaxQueueFaults /\ queueFaults' = queueFaults + 1
             /\ StartFrom(Written(q, edits, n, {}), taken)
  <2>1. PICK n \in 0..Len(edits) :
             /\ queueFaults < MaxQueueFaults /\ queueFaults' = queueFaults + 1
             /\ StartFrom(Written(q, edits, n, {}), taken)
    BY <1>3
  <2>2. PICK held, r : held = Range(taken) /\ r = Written(q, edits, n, {})
    OBVIOUS
  <2>3. SameOps(q, r) /\ QueueTrue(r, events, held, gone)
    BY <2>2, WrittenReports
  <2>4. r \in Seq(QueueEntry) /\ Distinct(r)
    BY <2>3 DEF SameOps, Distinct
  <2>5. PICK after : after = gone \cup {e \in held : ~ \E m \in Range(r) : m.op = e /\ m.status # "accepted"}
    OBVIOUS
  <2>6. /\ queue' = update_mutation(r, "recover", Ops) /\ cloud' = << >> /\ connected' = FALSE
        /\ gone' = after
    BY <2>1, <2>2, <2>5 DEF StartFrom
  <2>7. SameOps(r, queue') /\ QueueTrue(queue', events, {}, after)
    BY <2>3, <2>4, <2>5, <2>6, StartReports
  <2>8. Range(cloud') = {}
    <3>1. DOMAIN << >> = {}
      OBVIOUS
    <3>2. QED
      BY <2>6, <3>1 DEF Range
  <2>9. SameOps(q, queue')
    BY <2>3, <2>7 DEF SameOps
  <2>10. QueueTrue(queue', events, Range(cloud'), gone')
    BY <2>6, <2>7, <2>8
  <2>11. gone \subseteq gone' /\ gone' \subseteq gone \cup Range(taken)
    BY <2>2, <2>5, <2>6
  <2>12. queueFaults' \in 0..MaxQueueFaults
    BY <1>1, <2>1
  <2>13. cloud' \in {taken, << >>} /\ connected' \in BOOLEAN
    BY <2>6
  <2>14. QED
    BY <2>9, <2>10, <2>11, <2>12, <2>13
<1>4. QED
  BY <1>2, <1>3 DEF Handle

-----------------------------------------------------------------------------
(***************************************************************************)
(* The server of the desktop.                                              *)
(***************************************************************************)

Known == Ops \cup Unqueued
OwnPush == [log : Seq(Known), error : {"none", "diverged", "rejected"}]

Unique(events) == \A i, j \in 1..Len(events) : events[i] = events[j] => i = j
IsStartOf(s, events) == Len(s) <= Len(events) /\ \A i \in 1..Len(s) : s[i] = events[i]

\* After n events of a push: the server has a longer start of the log, of which
\* the error of a push says where it ends.
TakenOwn(events, n, r) ==
  /\ IsStartOf(r.log, ownLog) /\ Range(cloud) \subseteq Range(r.log)
  /\ r.error = "none" => \A k \in 1..n : events[k] \in Range(r.log)
  /\ r.error = "diverged" => \E k \in 1..n, p \in 1..Len(ownLog) :
       /\ events[k] = ownLog[p] /\ Len(r.log) + 1 < p
       /\ \A m \in 1..(k - 1) : events[m] \in Range(r.log)

LEMMA PreviousIs ==
  ASSUME ownLog \in Seq(Known), Unique(ownLog), NEW p \in 1..Len(ownLog)
  PROVE  PreviousOwn(ownLog[p]) = IF p = 1 THEN << >> ELSE <<ownLog[p - 1]>>
<1>1. (CHOOSE i \in 1..Len(ownLog) : ownLog[i] = ownLog[p]) = p
  BY DEF Unique
<1>2. QED
  BY <1>1 DEF PreviousOwn

LEMMA TakeOwnOne ==
  ASSUME ownLog \in Seq(Known), Unique(ownLog), NEW events \in Seq(Known),
         \A k \in 1..Len(events) : events[k] \in Range(ownLog),
         NEW n \in 1..Len(events), NEW r \in OwnPush
  PROVE  /\ TakeOwnEvent(r, events[n]) \in OwnPush
         /\ TakenOwn(events, n - 1, r) => TakenOwn(events, n, TakeOwnEvent(r, events[n]))
<1>1. PICK e, s : e = events[n] /\ s = TakeOwnEvent(r, e)
  OBVIOUS
<1>2. /\ r.log \in Seq(Known) /\ r = [log |-> r.log, error |-> r.error] /\ e \in Known
      /\ Len(r.log) \in Nat /\ Len(ownLog) \in Nat /\ n \in Nat /\ DOMAIN r.log = 1..Len(r.log)
      /\ r.error \in {"none", "diverged", "rejected"}
  BY <1>1, LenProperties, ElementOfSeq DEF OwnPush
<1>3. PICK p \in 1..Len(ownLog) : ownLog[p] = e
  BY <1>1, LenProperties DEF Range
<1>4. \A k \in 1..n : k = n \/ k \in 1..(n - 1)
  BY <1>2
<1>5. CASE r.error # "none"
  <2>1. s = r
    BY <1>1, <1>5 DEF TakeOwnEvent
  <2>2. 1..(n - 1) \subseteq 1..n
    BY <1>2
  <2>3. TakenOwn(events, n - 1, r) => TakenOwn(events, n, r)
    BY <1>5, <2>2 DEF TakenOwn
  <2>4. QED
    BY <1>1, <2>1, <2>3
<1>6. CASE r.error = "none" /\ e \in Range(r.log)
  <2>1. s = r
    BY <1>1, <1>6 DEF TakeOwnEvent
  <2>2. TakenOwn(events, n - 1, r) => TakenOwn(events, n, r)
    BY <1>1, <1>4, <1>6 DEF TakenOwn
  <2>3. QED
    BY <1>1, <2>1, <2>2
<1>7. CASE r.error = "none" /\ e \notin Range(r.log) /\ e \notin Unsupported /\ PreviousOwn(e) = LastOf(r.log)
  <2>1. s = [log |-> Append(r.log, e), error |-> "none"]
    <3>1. s = [r EXCEPT !.log = Append(@, e)] /\ r.error = "none"
      BY <1>1, <1>2, <1>7 DEF TakeOwnEvent
    <3>2. QED
      BY <1>2, <3>1
  <2>2. PICK l : l = Append(r.log, e)
    OBVIOUS
  <2>3. /\ l \in Seq(Known) /\ Len(l) = Len(r.log) + 1 /\ l[Len(r.log) + 1] = e
        /\ \A i \in 1..Len(r.log) : l[i] = r.log[i]
        /\ Range(l) = Range(r.log) \cup {e}
    BY <1>2, <2>2, AppendProperties, RangeOfAppend
  <2>4. s \in OwnPush /\ s.log = l /\ s.error = "none"
    BY <2>1, <2>2, <2>3 DEF OwnPush
  <2>5. ASSUME TakenOwn(events, n - 1, r) PROVE TakenOwn(events, n, s)
    <3>1. IsStartOf(r.log, ownLog)
      BY <2>5 DEF TakenOwn
    <3>2. p = Len(r.log) + 1
      <4>1. PreviousOwn(e) = IF p = 1 THEN << >> ELSE <<ownLog[p - 1]>>
        BY <1>3, PreviousIs
      <4>2. CASE r.log = << >>
        <5>1. PreviousOwn(e) = << >>
          BY <1>7, <4>2 DEF LastOf
        <5>2. QED
          BY <4>1, <4>2, <5>1
      <4>3. CASE r.log # << >>
        <5>1. PreviousOwn(e) = <<r.log[Len(r.log)]>> /\ Len(r.log) \in 1..Len(r.log)
          BY <1>2, <1>7, <4>3 DEF LastOf, Last
        <5>2. p # 1 /\ ownLog[p - 1] = r.log[Len(r.log)]
          <6>1. p # 1
            <7>1. << >> # <<r.log[Len(r.log)]>>
              OBVIOUS
            <7>2. QED
              BY <4>1, <5>1, <7>1
          <6>2. <<ownLog[p - 1]>> = <<r.log[Len(r.log)]>>
            BY <4>1, <5>1, <6>1
          <6>3. QED
            BY <6>1, <6>2
        <5>3. p - 1 \in 1..Len(ownLog) /\ Len(r.log) \in 1..Len(ownLog)
          BY <1>2, <3>1, <5>1, <5>2 DEF IsStartOf
        <5>4. ownLog[p - 1] = ownLog[Len(r.log)]
          BY <3>1, <5>1, <5>2 DEF IsStartOf
        <5>5. p - 1 = Len(r.log)
          BY <5>3, <5>4 DEF Unique
        <5>6. QED
          BY <1>2, <5>5
      <4>4. QED
        BY <4>2, <4>3
    <3>3. IsStartOf(l, ownLog)
      <4>1. \A i \in 1..Len(l) : i = Len(r.log) + 1 \/ i \in 1..Len(r.log)
        BY <1>2, <2>3
      <4>2. QED
        BY <1>2, <1>3, <2>3, <3>1, <3>2, <4>1 DEF IsStartOf
    <3>4. \A k \in 1..n : events[k] \in Range(l)
      BY <1>1, <1>4, <1>7, <2>3, <2>5 DEF TakenOwn
    <3>5. Range(cloud) \subseteq Range(l)
      BY <2>3, <2>5 DEF TakenOwn
    <3>6. QED
      BY <2>4, <3>3, <3>4, <3>5 DEF TakenOwn
  <2>6. QED
    BY <1>1, <2>4, <2>5
<1>8. CASE r.error = "none" /\ e \notin Range(r.log) /\ e \notin Unsupported /\ PreviousOwn(e) # LastOf(r.log)
  <2>1. s = [log |-> r.log, error |-> "diverged"]
    <3>1. s = [r EXCEPT !.error = "diverged"]
      BY <1>1, <1>8 DEF TakeOwnEvent
    <3>2. QED
      BY <1>2, <3>1
  <2>2. s \in OwnPush /\ s.log = r.log /\ s.error = "diverged"
    BY <1>2, <2>1 DEF OwnPush
  <2>3. ASSUME TakenOwn(events, n - 1, r) PROVE TakenOwn(events, n, s)
    <3>1. IsStartOf(r.log, ownLog)
      BY <2>3 DEF TakenOwn
    <3>2. p \notin 1..Len(r.log)
      BY <1>2, <1>3, <1>8, <3>1 DEF IsStartOf, Range
    <3>3. p # Len(r.log) + 1
      <4>1. SUFFICES ASSUME p = Len(r.log) + 1 PROVE FALSE
        OBVIOUS
      <4>2. PreviousOwn(e) = IF p = 1 THEN << >> ELSE <<ownLog[p - 1]>>
        BY <1>3, PreviousIs
      <4>3. CASE r.log = << >>
        <5>1. p = 1 /\ LastOf(r.log) = << >>
          BY <4>1, <4>3 DEF LastOf
        <5>2. QED
          BY <1>8, <4>2, <5>1
      <4>4. CASE r.log # << >>
        <5>1. Len(r.log) \in 1..Len(r.log) /\ p - 1 = Len(r.log) /\ p # 1
          BY <1>2, <4>1, <4>4
        <5>2. LastOf(r.log) = <<r.log[Len(r.log)]>>
          BY <4>4 DEF LastOf, Last
        <5>3. r.log[Len(r.log)] = ownLog[p - 1]
          BY <3>1, <5>1 DEF IsStartOf
        <5>4. QED
          BY <1>8, <4>2, <5>1, <5>2, <5>3
      <4>5. QED
        BY <4>3, <4>4
    <3>4. Len(r.log) + 1 < p
      BY <1>2, <3>2, <3>3
    <3>5. n \in 1..n /\ \A m \in 1..(n - 1) : events[m] \in Range(r.log)
      BY <1>2, <1>8, <2>3 DEF TakenOwn
    <3>6. \E k \in 1..n, x \in 1..Len(ownLog) :
            /\ events[k] = ownLog[x] /\ Len(r.log) + 1 < x
            /\ \A m \in 1..(k - 1) : events[m] \in Range(r.log)
      BY <1>1, <1>3, <3>4, <3>5
    <3>7. QED
      BY <2>2, <2>3, <3>1, <3>6 DEF TakenOwn
  <2>4. QED
    BY <1>1, <2>2, <2>3
<1>9. CASE r.error = "none" /\ e \notin Range(r.log) /\ e \in Unsupported
  <2>1. s = [log |-> r.log, error |-> "rejected"]
    <3>1. s = [r EXCEPT !.error = "rejected"]
      BY <1>1, <1>9 DEF TakeOwnEvent
    <3>2. QED
      BY <1>2, <3>1
  <2>2. s \in OwnPush /\ s.log = r.log /\ s.error = "rejected"
    BY <1>2, <2>1 DEF OwnPush
  <2>3. TakenOwn(events, n - 1, r) => TakenOwn(events, n, s)
    BY <2>2 DEF TakenOwn
  <2>4. QED
    BY <1>1, <2>2, <2>3
<1>10. QED
  BY <1>2, <1>5, <1>6, <1>7, <1>8, <1>9

LEMMA PushIsOfLog ==
  ASSUME ownLog \in Seq(Known), Unique(ownLog), cloud \in Seq(Known), IsStartOf(cloud, ownLog),
         NEW events \in Seq(Known), \A k \in 1..Len(events) : events[k] \in Range(ownLog)
  PROVE  push_own_events(events) \in OwnPush /\ TakenOwn(events, Len(events), push_own_events(events))
<1> DEFINE base == [log |-> cloud, error |-> "none"]
           Loop(h) == h = [i \in 0..Len(events) |-> IF i = 0 THEN base ELSE TakeOwnEvent(h[i - 1], events[i])]
<1>1. Len(events) \in Nat /\ base \in OwnPush /\ base.log = cloud /\ base.error = "none"
  BY LenProperties DEF OwnPush
<1>2. push_own_events(events) = (CHOOSE h : Loop(h))[Len(events)]
  BY DEF push_own_events
<1> HIDE DEF base
<1>3. \A h : Loop(h) <=> h = [n \in 0..Len(events) |-> IF n = 0 THEN base ELSE TakeOwnEvent(h[n - 1], events[n])]
  OBVIOUS
<1> HIDE DEF Loop
<1>4. TakenOwn(events, 0, base)
  BY <1>1 DEF TakenOwn
<1>5. \E h : Loop(h)
  <2>1. PICK turn : turn = [n \in 1..Len(events) |-> [r \in OwnPush |-> TakeOwnEvent(r, events[n])]]
    OBVIOUS
  <2>2. turn \in [1..Len(events) -> [OwnPush -> OwnPush]]
    BY <2>1, TakeOwnOne
  <2>3. Loops(OwnPush, Len(events), base, turn) # {}
    BY <1>1, <2>2, LoopIsDefined
  <2>4. PICK h \in [0..Len(events) -> OwnPush] :
          h[0] = base /\ \A n \in 1..Len(events) : h[n] = turn[n][h[n - 1]]
    BY <2>3 DEF Loops
  <2>5. ASSUME NEW n \in 0..Len(events)
        PROVE  h[n] = IF n = 0 THEN base ELSE TakeOwnEvent(h[n - 1], events[n])
    <3>1. CASE n = 0
      BY <2>4, <3>1
    <3>2. CASE n # 0
      <4>1. n \in 1..Len(events) /\ n - 1 \in 0..Len(events)
        BY <1>1, <3>2
      <4>2. h[n - 1] \in OwnPush
        BY <4>1
      <4>3. h[n] = turn[n][h[n - 1]]
        BY <2>4, <4>1
      <4>4. turn[n][h[n - 1]] = TakeOwnEvent(h[n - 1], events[n])
        BY <2>1, <4>1, <4>2
      <4>5. QED
        BY <3>2, <4>3, <4>4
    <3>3. QED
      BY <3>1, <3>2
  <2>6. Loop(h)
    BY <1>3, <2>5
  <2>7. QED
    BY <2>6
<1>6. PICK h : h = CHOOSE g : Loop(g)
  OBVIOUS
<1>7. \A n \in 0..Len(events) : h[n] = IF n = 0 THEN base ELSE TakeOwnEvent(h[n - 1], events[n])
  <2>1. Loop(h)
    BY <1>5, <1>6
  <2>2. QED
    BY <1>3, <2>1
<1> DEFINE P == {n \in 0..Len(events) : h[n] \in OwnPush /\ TakenOwn(events, n, h[n])}
<1>8. 0 \in P
  <2>1. 0 \in 0..Len(events)
    BY <1>1
  <2>2. QED
    BY <1>1, <1>4, <1>7, <2>1
<1>9. \A n \in 1..Len(events) : n - 1 \in P => n \in P
  <2> SUFFICES ASSUME NEW n \in 1..Len(events), h[n - 1] \in OwnPush, TakenOwn(events, n - 1, h[n - 1])
               PROVE  h[n] \in OwnPush /\ TakenOwn(events, n, h[n])
    <3>1. \A n \in 1..Len(events) : n \in 0..Len(events)
      BY <1>1
    <3>2. QED
      BY <3>1
  <2>1. h[n] = TakeOwnEvent(h[n - 1], events[n])
    BY <1>1, <1>7
  <2>2. QED
    BY <2>1, TakeOwnOne
<1>10. P = 0..Len(events)
  <2>1. P \subseteq 0..Len(events)
    OBVIOUS
  <2> HIDE DEF P
  <2>2. QED
    BY <1>1, <1>8, <1>9, <2>1, EveryTurn
<1>11. Len(events) \in P
  BY <1>1, <1>10
<1>12. QED
  BY <1>2, <1>6, <1>11

-----------------------------------------------------------------------------
(***************************************************************************)
(* The invariant of the desktop.                                           *)
(***************************************************************************)

InLogOrder(q, events) ==
  \A i, j \in 1..Len(q), a, b \in 1..Len(events) :
    q[i].op = events[a] /\ q[j].op = events[b] /\ i < j => a < b

\* Each event of the log is one that no push of the queue sends, or in the queue.
AllQueued(q, events, lost) ==
  \A a \in 1..Len(events) : events[a] \in lost \/ \E i \in 1..Len(q) : q[i].op = events[a]

DesktopInv ==
  /\ DrainTypeOK /\ Distinct(queue) /\ Unique(ownLog) /\ IsStartOf(cloud, ownLog)
  /\ InLogOrder(queue, ownLog) /\ AllQueued(queue, ownLog, gone)
  /\ QueueTrue(queue, ownLog, Range(cloud), gone)

\* A handler that starts with the queue q and the log events leaves the invariant.
LEMMA HandledInv ==
  ASSUME DesktopInv, NEW q \in Seq(QueueEntry), Distinct(q), NEW events \in Seq(Known), Unique(events),
         NEW taken \in Seq(Known), IsStartOf(taken, events), InLogOrder(q, events),
         AllQueued(q, events, gone), QueueTrue(q, events, Range(taken), gone),
         NEW edits, EditsTrue(q, edits, events, Range(taken), gone),
         NEW session, session \in BOOLEAN, Handle(q, edits, taken, session), ownLog' = events
  PROVE  DesktopInv'
<1>1. DrainTypeOK /\ gone \subseteq Known
  BY DEF DesktopInv, DrainTypeOK, Known
<1>2. /\ SameOps(q, queue') /\ QueueTrue(queue', events, Range(cloud'), gone')
      /\ gone \subseteq gone' /\ gone' \subseteq gone \cup Range(taken)
      /\ cloud' \in {taken, << >>} /\ connected' \in BOOLEAN
      /\ queueFaults' \in 0..MaxQueueFaults
  BY <1>1, HandleReports
<1>3. queue' \in Seq(QueueEntry) /\ Len(queue') = Len(q) /\ \A i \in 1..Len(q) : queue'[i].op = q[i].op
  BY <1>2 DEF SameOps
<1>4. cloud' \in Seq(Known) /\ IsStartOf(cloud', events)
  <2>1. IsStartOf(<< >>, events) /\ << >> \in Seq(Known)
    <3>1. Len(<< >>) = 0 /\ Len(events) \in Nat
      BY LenProperties
    <3>2. QED
      BY <3>1 DEF IsStartOf
  <2>2. QED
    BY <1>2, <2>1
<1>5. gone' \subseteq Known
  <2>1. Range(taken) \subseteq Known
    BY LenProperties, ElementOfSeq DEF Range
  <2>2. QED
    BY <1>1, <1>2, <2>1
<1>6. DrainTypeOK'
  BY <1>2, <1>3, <1>4, <1>5 DEF DrainTypeOK, Known
<1>7. Distinct(queue') /\ InLogOrder(queue', events)
  BY <1>3 DEF Distinct, InLogOrder
<1>8. AllQueued(queue', events, gone')
  BY <1>2, <1>3 DEF AllQueued
<1>9. /\ Distinct(queue)' /\ Unique(ownLog)' /\ IsStartOf(cloud, ownLog)'
      /\ InLogOrder(queue, ownLog)' /\ AllQueued(queue, ownLog, gone)'
      /\ QueueTrue(queue, ownLog, Range(cloud), gone)'
  BY <1>2, <1>4, <1>7, <1>8
<1>10. QED
  BY <1>6, <1>9 DEF DesktopInv

\* Edits that neither settle an operation nor attach an event are always right.
LEMMA EachIsTrue ==
  ASSUME NEW q, NEW kind \in {"sending", "transient", "user_action", "recover"}, NEW ops \in Seq(Ops),
         NEW events, NEW held, NEW lost
  PROVE  EditsTrue(q, Each(kind, ops), events, held, lost)
<1>1. kind \in Kinds
  BY DEF Kinds
<1>2. /\ Each(kind, ops) \in Seq(Edit) /\ Len(Each(kind, ops)) = Len(ops)
      /\ \A i \in 1..Len(ops) : /\ Each(kind, ops)[i] = [kind |-> kind, ops |-> {ops[i]}]
                                /\ ops[i] \in Ops
  BY <1>1, EachIsMade
<1>3. \A op \in Ops : EditTrue(q, [kind |-> kind, ops |-> {op}], events, held, lost)
  BY <1>1 DEF EditTrue, Edit
<1>4. QED
  BY <1>2, <1>3 DEF EditsTrue

LEMMA OneIsTrue ==
  ASSUME NEW q, NEW edit, NEW events, NEW held, NEW lost, EditTrue(q, edit, events, held, lost)
  PROVE  EditsTrue(q, <<edit>>, events, held, lost) /\ EditsTrue(q, << >>, events, held, lost)
<1>1. edit \in Edit
  BY DEF EditTrue
<1>2. QED
  BY <1>1 DEF EditsTrue

LEMMA BothAreTrue ==
  ASSUME NEW q, NEW events, NEW held, NEW lost, NEW s, NEW t,
         EditsTrue(q, s, events, held, lost), EditsTrue(q, t, events, held, lost)
  PROVE  EditsTrue(q, s \o t, events, held, lost)
<1>1. s \in Seq(Edit) /\ t \in Seq(Edit)
  BY DEF EditsTrue
<1>2. /\ s \o t \in Seq(Edit) /\ Len(s \o t) = Len(s) + Len(t) /\ Len(s) \in Nat /\ Len(t) \in Nat
      /\ \A i \in 1..Len(s) + Len(t) : (s \o t)[i] = IF i <= Len(s) THEN s[i] ELSE t[i - Len(s)]
  BY <1>1, ConcatProperties, LenProperties
<1>3. ASSUME NEW i \in 1..Len(s) + Len(t) PROVE EditTrue(q, (s \o t)[i], events, held, lost)
  <2>1. CASE i <= Len(s)
    BY <1>2, <2>1 DEF EditsTrue
  <2>2. CASE ~ (i <= Len(s))
    <3>1. i - Len(s) \in 1..Len(t)
      BY <1>2, <2>2
    <3>2. QED
      BY <1>2, <2>2, <3>1 DEF EditsTrue
  <2>3. QED
    BY <2>1, <2>2
<1>4. QED
  BY <1>2, <1>3 DEF EditsTrue

\* The queue itself leaves no gap: what a push could not link follows one.
LEMMA RefusedFollowsGap ==
  ASSUME DesktopInv, NEW batch, Planned(queue, Range(ownLog), batch), NEW r \in OwnPush, r.error = "diverged",
         TakenOwn(batch.ops, Len(batch.ops), r),
         NEW i \in 1..Len(queue), NEW n \in 1..Len(batch.ops), queue[i].op = batch.ops[n]
  PROVE  \E k \in i..Len(queue) : Gap(ownLog, gone, queue[k].op)
<1>1. /\ ownLog \in Seq(Known) /\ Unique(ownLog) /\ InLogOrder(queue, ownLog)
      /\ AllQueued(queue, ownLog, gone) /\ QueueTrue(queue, ownLog, Range(cloud), gone)
      /\ Len(ownLog) \in Nat /\ Len(queue) \in Nat /\ DOMAIN ownLog = 1..Len(ownLog)
  BY LenProperties DEF DesktopInv, DrainTypeOK, Known
<1>2. /\ r.log \in Seq(Known) /\ Len(r.log) \in Nat /\ DOMAIN r.log = 1..Len(r.log)
      /\ IsStartOf(r.log, ownLog) /\ Range(cloud) \subseteq Range(r.log)
  <2>1. r.log \in Seq(Known)
    BY DEF OwnPush
  <2>2. QED
    BY <2>1, LenProperties DEF TakenOwn
<1>3. PICK k \in 1..Len(batch.ops), p \in 1..Len(ownLog) :
        /\ batch.ops[k] = ownLog[p] /\ Len(r.log) + 1 < p
        /\ \A m \in 1..(k - 1) : batch.ops[m] \in Range(r.log)
  BY DEF TakenOwn
<1>4. PICK j \in 1..Len(queue) :
        /\ queue[j].op = batch.ops[k]
        /\ \A h \in 1..(j - 1) :
             queue[h].status = "accepted" \/ \E m \in 1..(k - 1) : batch.ops[m] = queue[h].op
  BY DEF Planned
<1>5. PICK g \in 1..Len(ownLog) : g = Len(r.log) + 1
  BY <1>2, <1>3
<1>6. g < p /\ ownLog[g] \notin Range(r.log)
  <2>1. ASSUME NEW x \in 1..Len(r.log), r.log[x] = ownLog[g] PROVE FALSE
    <3>1. x \in 1..Len(ownLog) /\ ownLog[x] = ownLog[g] /\ x # g
      BY <1>1, <1>2, <1>5, <2>1 DEF IsStartOf
    <3>2. QED
      BY <1>1, <3>1 DEF Unique
  <2>2. QED
    BY <1>2, <1>3, <1>5, <2>1 DEF Range
<1>7. ownLog[g] \in gone
  <2>1. SUFFICES ASSUME NEW h \in 1..Len(queue), queue[h].op = ownLog[g] PROVE ownLog[g] \in gone
    BY <1>1 DEF AllQueued
  <2>2. h # j
    BY <1>1, <1>3, <1>4, <1>6, <2>1 DEF Unique
  <2>3. ~ (j < h)
    <3>1. j < h => p < g
      BY <1>1, <1>3, <1>4, <2>1 DEF InLogOrder
    <3>2. QED
      BY <1>6, <3>1
  <2>4. h \in 1..(j - 1)
    BY <1>1, <2>2, <2>3
  <2>5. \A m \in 1..(k - 1) : batch.ops[m] # queue[h].op
    BY <1>3, <1>6, <2>1
  <2>6. queue[h].status = "accepted"
    BY <1>4, <2>4, <2>5
  <2>7. queue[h].op \in Range(ownLog)
    BY <1>1, <2>1 DEF Range
  <2>8. queue[h].op \in Range(cloud) \cup gone
    BY <1>1, <2>6, <2>7 DEF QueueTrue
  <2>9. QED
    BY <1>2, <1>6, <2>1, <2>8
<1>8. CASE i <= j
  <2>1. Gap(ownLog, gone, queue[j].op)
    BY <1>3, <1>4, <1>6, <1>7 DEF Gap
  <2>2. j \in i..Len(queue)
    BY <1>1, <1>8
  <2>3. QED
    BY <2>1, <2>2
<1>9. CASE ~ (i <= j)
  <2>1. PICK x \in 1..Len(ownLog) : ownLog[x] = queue[i].op
    <3>1. batch.ops[n] \in Range(ownLog)
      BY DEF Planned
    <3>2. QED
      BY <1>1, <3>1 DEF Range
  <2>2. j < i
    BY <1>1, <1>9
  <2>3. p < x
    BY <1>1, <1>3, <1>4, <2>1, <2>2 DEF InLogOrder
  <2>4. g < x
    BY <1>6, <2>3
  <2>5. Gap(ownLog, gone, queue[i].op)
    BY <1>7, <2>1, <2>4 DEF Gap
  <2>6. i \in i..Len(queue)
    BY <1>1
  <2>7. QED
    BY <2>5, <2>6
<1>10. QED
  BY <1>8, <1>9

LEMMA SettledIsTrue ==
  ASSUME DesktopInv, NEW batch, Planned(queue, Range(ownLog), batch),
         NEW events, events = IF batch.ops = << >> THEN ownLog ELSE batch.ops,
         NEW push, push = push_own_events(events)
  PROVE  /\ push.log \in Seq(Known) /\ IsStartOf(push.log, ownLog) /\ Range(cloud) \subseteq Range(push.log)
         /\ EditsTrue(queue, Settled(batch.ops, push), ownLog, Range(push.log), gone)
<1>1. /\ ownLog \in Seq(Known) /\ Unique(ownLog) /\ cloud \in Seq(Known) /\ IsStartOf(cloud, ownLog)
      /\ DOMAIN ownLog = 1..Len(ownLog)
  BY LenProperties DEF DesktopInv, DrainTypeOK, Known
<1>2. /\ batch.ops \in Seq(Ops) /\ Len(batch.ops) \in Nat
      /\ \A k \in 1..Len(batch.ops) : batch.ops[k] \in Ops /\ batch.ops[k] \in Range(ownLog)
  <2>1. batch.ops \in Seq(Ops)
    BY DEF Planned
  <2>2. QED
    BY <2>1, LenProperties, ElementOfSeq DEF Planned
<1>3. events \in Seq(Known) /\ \A k \in 1..Len(events) : events[k] \in Range(ownLog)
  <2>1. CASE batch.ops = << >>
    BY <1>1, <2>1 DEF Range
  <2>2. CASE batch.ops # << >>
    <3>1. Seq(Ops) \subseteq Seq(Known)
      BY DEF Known
    <3>2. QED
      BY <1>2, <2>2, <3>1
  <2>3. QED
    BY <2>1, <2>2
<1>4. push \in OwnPush /\ TakenOwn(events, Len(events), push)
  BY <1>1, <1>3, PushIsOfLog
<1>5. push.log \in Seq(Known) /\ IsStartOf(push.log, ownLog) /\ Range(cloud) \subseteq Range(push.log)
  BY <1>4 DEF OwnPush, TakenOwn
<1>6. CASE push.error = "diverged"
  <2>1. Settled(batch.ops, push) = Each("blocked", batch.ops)
    BY <1>6 DEF Settled
  <2>2. /\ Each("blocked", batch.ops) \in Seq(Edit) /\ Len(Each("blocked", batch.ops)) = Len(batch.ops)
        /\ \A n \in 1..Len(batch.ops) :
             Each("blocked", batch.ops)[n] = [kind |-> "blocked", ops |-> {batch.ops[n]}]
    <3>1. PICK ops, kind : ops = batch.ops /\ kind = "blocked"
      OBVIOUS
    <3>2. ops \in Seq(Ops) /\ kind \in Kinds
      BY <1>2, <3>1 DEF Kinds
    <3>3. /\ Each(kind, ops) \in Seq(Edit) /\ Len(Each(kind, ops)) = Len(ops)
          /\ \A n \in 1..Len(ops) : Each(kind, ops)[n] = [kind |-> kind, ops |-> {ops[n]}]
      BY <3>2, EachIsMade
    <3>4. QED
      BY <3>1, <3>3
  <2>3. ASSUME NEW n \in 1..Len(batch.ops)
        PROVE  EditTrue(queue, [kind |-> "blocked", ops |-> {batch.ops[n]}], ownLog, Range(push.log), gone)
    <3>1. batch.ops # << >> /\ events = batch.ops
      BY <1>2
    <3>2. TakenOwn(batch.ops, Len(batch.ops), push)
      BY <1>4, <3>1
    <3>3. \A i \in 1..Len(queue) : queue[i].op = batch.ops[n] =>
            \E k \in i..Len(queue) : Gap(ownLog, gone, queue[k].op)
      BY <1>4, <1>6, <3>2, RefusedFollowsGap
    <3>4. [kind |-> "blocked", ops |-> {batch.ops[n]}] \in Edit
      BY <1>2 DEF Edit, Kinds
    <3>5. QED
      BY <3>3, <3>4 DEF EditTrue
  <2>4. EditsTrue(queue, Each("blocked", batch.ops), ownLog, Range(push.log), gone)
    BY <2>2, <2>3 DEF EditsTrue
  <2>5. QED
    BY <1>5, <2>1, <2>4
<1>7. CASE push.error = "none"
  <2>1. PICK edit : edit = [kind |-> "accepted", ops |-> Range(batch.ops)]
    OBVIOUS
  <2>2. Settled(batch.ops, push) = <<edit>>
    BY <1>7, <2>1 DEF Settled
  <2>3. \A op \in Range(batch.ops) : op \in Ops /\ op \in Range(push.log)
    <3>1. ASSUME NEW k \in 1..Len(batch.ops) PROVE batch.ops[k] \in Range(push.log)
      <4>1. batch.ops # << >> /\ events = batch.ops
        BY <1>2
      <4>2. QED
        BY <1>4, <1>7, <4>1 DEF TakenOwn
    <3>2. DOMAIN batch.ops = 1..Len(batch.ops)
      BY <1>2, LenProperties
    <3>3. QED
      BY <1>2, <3>1, <3>2 DEF Range
  <2>4. EditTrue(queue, edit, ownLog, Range(push.log), gone)
    BY <2>1, <2>3 DEF EditTrue, Edit, Kinds
  <2>5. QED
    BY <1>5, <2>2, <2>4, OneIsTrue
<1>8. CASE push.error = "rejected"
  <2>1. Settled(batch.ops, push) = Each("user_action", batch.ops)
    BY <1>8 DEF Settled
  <2>2. EditsTrue(queue, Each("user_action", batch.ops), ownLog, Range(push.log), gone)
    BY <1>2, EachIsTrue
  <2>3. QED
    BY <1>5, <2>1, <2>2
<1>9. push.error \in {"none", "diverged", "rejected"}
  BY <1>4 DEF OwnPush
<1>10. QED
  BY <1>6, <1>7, <1>8, <1>9

\* A handler that starts from the queue and the log as they are.
LEMMA HandledHere ==
  ASSUME DesktopInv, NEW taken \in Seq(Known), IsStartOf(taken, ownLog), Range(cloud) \subseteq Range(taken),
         NEW edits, EditsTrue(queue, edits, ownLog, Range(taken), gone),
         NEW session, session \in BOOLEAN, Handle(queue, edits, taken, session), UNCHANGED ownLog
  PROVE  DesktopInv'
<1>1. PICK q, events : q = queue /\ events = ownLog
  OBVIOUS
<1>2. /\ q \in Seq(QueueEntry) /\ Distinct(q) /\ events \in Seq(Known) /\ Unique(events)
      /\ InLogOrder(q, events) /\ AllQueued(q, events, gone)
      /\ QueueTrue(q, events, Range(cloud), gone)
  BY <1>1 DEF DesktopInv, DrainTypeOK, Known
<1>3. QueueTrue(q, events, Range(taken), gone)
  BY <1>2 DEF QueueTrue
<1>4. EditsTrue(q, edits, events, Range(taken), gone) /\ IsStartOf(taken, events)
  BY <1>1
<1>5. Handle(q, edits, taken, session) /\ ownLog' = events
  BY <1>1
<1>6. QED
  BY <1>2, <1>3, <1>4, <1>5, HandledInv

LEMMA CloudFacts ==
  DesktopInv => cloud \in Seq(Known) /\ IsStartOf(cloud, ownLog) /\ Range(cloud) \subseteq Range(cloud)
                /\ connected \in BOOLEAN
BY DEF DesktopInv, DrainTypeOK, Known

LEMMA RunPushStep ==
  ASSUME DesktopInv, NEW queueOnly, run_cloud_push(queueOnly), UNCHANGED ownLog
  PROVE  DesktopInv'
<1>1. PICK batch : batch = ready_event_batch(queue, Range(ownLog))
  OBVIOUS
<1>2. PICK missing, marked, events :
        /\ missing = (IF batch.missing = {} THEN << >> ELSE <<[kind |-> "user_action", ops |-> batch.missing]>>)
        /\ marked = missing \o Each("sending", batch.ops)
        /\ events = IF batch.ops = << >> THEN ownLog ELSE batch.ops
  OBVIOUS
<1>3. PICK push : push = push_own_events(events)
  OBVIOUS
<1>4. queue \in Seq(QueueEntry)
  BY DEF DesktopInv, DrainTypeOK
<1>5. Planned(queue, Range(ownLog), batch)
  <2>1. PICK known : known = Range(ownLog)
    OBVIOUS
  <2>2. QED
    BY <1>1, <1>4, <2>1, BatchFollows
<1>6. batch.ops \in Seq(Ops) /\ batch.missing \subseteq Ops
  BY <1>5 DEF Planned
<1>7. ASSUME NEW held
      PROVE  EditsTrue(queue, missing, ownLog, held, gone) /\ EditsTrue(queue, marked, ownLog, held, gone)
  <2>1. PICK edit : edit = [kind |-> "user_action", ops |-> batch.missing]
    OBVIOUS
  <2>2. EditTrue(queue, edit, ownLog, held, gone)
    BY <1>6, <2>1 DEF EditTrue, Edit, Kinds
  <2>3. EditsTrue(queue, missing, ownLog, held, gone)
    <3>1. missing = << >> \/ missing = <<edit>>
      BY <1>2, <2>1
    <3>2. QED
      BY <2>2, <3>1, OneIsTrue
  <2>4. EditsTrue(queue, Each("sending", batch.ops), ownLog, held, gone)
    BY <1>6, EachIsTrue
  <2>5. QED
    BY <1>2, <2>3, <2>4, BothAreTrue
<1>8. cloud \in Seq(Known) /\ IsStartOf(cloud, ownLog) /\ Range(cloud) \subseteq Range(cloud)
  BY CloudFacts
<1>9. /\ push.log \in Seq(Known) /\ IsStartOf(push.log, ownLog) /\ Range(cloud) \subseteq Range(push.log)
      /\ EditsTrue(queue, Settled(batch.ops, push), ownLog, Range(push.log), gone)
  BY <1>2, <1>3, <1>5, SettledIsTrue
<1>10. \/ Handle(queue, missing, cloud, TRUE)
       \/ Handle(queue, marked \o Settled(batch.ops, push), push.log, TRUE)
       \/ Handle(queue, marked \o Each("transient", batch.ops), cloud, TRUE)
  <2>1. run_cloud_push(queueOnly)
    OBVIOUS
  <2>2. QED
    BY <1>1, <1>2, <1>3, <2>1 DEF run_cloud_push
<1>11. CASE Handle(queue, missing, cloud, TRUE)
  BY <1>7, <1>8, <1>11, HandledHere
<1>12. CASE Handle(queue, marked \o Settled(batch.ops, push), push.log, TRUE)
  <2>1. EditsTrue(queue, marked \o Settled(batch.ops, push), ownLog, Range(push.log), gone)
    BY <1>7, <1>9, BothAreTrue
  <2>2. QED
    BY <1>9, <1>12, <2>1, HandledHere
<1>13. CASE Handle(queue, marked \o Each("transient", batch.ops), cloud, TRUE)
  <2>1. EditsTrue(queue, Each("transient", batch.ops), ownLog, Range(cloud), gone)
    BY <1>6, EachIsTrue
  <2>2. EditsTrue(queue, marked \o Each("transient", batch.ops), ownLog, Range(cloud), gone)
    BY <1>7, <2>1, BothAreTrue
  <2>3. QED
    BY <1>8, <1>13, <2>2, HandledHere
<1>14. QED
  BY <1>10, <1>11, <1>12, <1>13

LEMMA ConnectStep ==
  ASSUME DesktopInv, Connect
  PROVE  DesktopInv'
<1>1. CASE Handle(queue, << >>, cloud, TRUE)
  <2>1. EditsTrue(queue, << >>, ownLog, Range(cloud), gone)
    BY DEF EditsTrue
  <2>2. QED
    BY <1>1, <2>1, CloudFacts, HandledHere DEF Connect
<1>2. QED
  BY <1>1, RunPushStep DEF Connect

LEMMA RecoverStep ==
  ASSUME DesktopInv, Recover
  PROVE  DesktopInv'
<1>1. PICK edit : edit = [kind |-> "recover", ops |-> Ops]
  OBVIOUS
<1>2. EditTrue(queue, edit, ownLog, Range(cloud), gone)
  BY <1>1 DEF EditTrue, Edit, Kinds
<1>3. EditsTrue(queue, <<edit>>, ownLog, Range(cloud), gone)
  BY <1>2, OneIsTrue
<1>4. Handle(queue, <<edit>>, cloud, connected) /\ UNCHANGED ownLog
  BY <1>1 DEF Recover
<1>5. QED
  BY <1>3, <1>4, CloudFacts, HandledHere

LEMMA RetryIsDueStep ==
  ASSUME DesktopInv, NEW i \in DOMAIN queue, RetryIsDue(i)
  PROVE  DesktopInv'
<1>1. queue \in Seq(QueueEntry) /\ Len(queue) \in Nat /\ DOMAIN queue = 1..Len(queue)
      /\ \A k \in 1..Len(queue) : queue[k] \in QueueEntry
  <2>1. queue \in Seq(QueueEntry)
    BY DEF DesktopInv, DrainTypeOK
  <2>2. QED
    BY <2>1, LenProperties, ElementOfSeq
<1>2. PICK q : q = queue'
  OBVIOUS
<1>3. q = [queue EXCEPT ![i].due = TRUE] /\ UNCHANGED <<ownLog, cloud, connected, gone, queueFaults>>
  BY <1>2 DEF RetryIsDue
<1>4. /\ q \in Seq(QueueEntry) /\ Len(q) = Len(queue)
      /\ \A k \in 1..Len(queue) : q[k].op = queue[k].op /\ q[k].status = queue[k].status
                                  /\ (q[k].linked <=> queue[k].linked)
  <2>1. [queue[i] EXCEPT !.due = TRUE] \in QueueEntry
    BY <1>1 DEF QueueEntry
  <2>2. q \in [1..Len(queue) -> QueueEntry]
    BY <1>1, <1>3, <2>1
  <2>3. \A S, m, f : m \in Nat /\ f \in [1..m -> S] => f \in Seq(S) /\ Len(f) = m
    OBVIOUS
  <2>4. q \in Seq(QueueEntry) /\ Len(q) = Len(queue)
    BY <1>1, <2>2, <2>3
  <2>5. q = [k \in 1..Len(queue) |-> IF k = i THEN [queue[i] EXCEPT !.due = TRUE] ELSE queue[k]]
    BY <1>1, <1>3
  <2>6. ASSUME NEW k \in 1..Len(queue)
        PROVE  q[k].op = queue[k].op /\ q[k].status = queue[k].status /\ (q[k].linked <=> queue[k].linked)
    <3>1. CASE k # i
      BY <2>5, <3>1
    <3>2. CASE k = i
      <4>1. q[k] = [queue[k] EXCEPT !.due = TRUE] /\ queue[k] \in QueueEntry
        BY <1>1, <2>5, <3>2
      <4>2. q[k].op = queue[k].op /\ q[k].status = queue[k].status /\ q[k].linked = queue[k].linked
        BY <4>1 DEF QueueEntry
      <4>3. QED
        BY <4>2
    <3>3. QED
      BY <3>1, <3>2
  <2>7. QED
    BY <2>4, <2>6
<1>5. DrainTypeOK'
  BY <1>2, <1>3, <1>4 DEF DesktopInv, DrainTypeOK
<1>6. Distinct(q) /\ InLogOrder(q, ownLog) /\ AllQueued(q, ownLog, gone)
  <2>1. Distinct(queue) /\ InLogOrder(queue, ownLog) /\ AllQueued(queue, ownLog, gone)
    BY DEF DesktopInv
  <2>2. Len(q) = Len(queue) /\ \A k \in 1..Len(queue) : q[k].op = queue[k].op
    BY <1>4
  <2>3. Distinct(q)
    BY <2>1, <2>2 DEF Distinct
  <2>4. InLogOrder(q, ownLog)
    BY <2>1, <2>2 DEF InLogOrder
  <2>5. AllQueued(q, ownLog, gone)
    BY <2>1, <2>2 DEF AllQueued
  <2>6. QED
    BY <2>3, <2>4, <2>5
<1>7. QueueTrue(q, ownLog, Range(cloud), gone)
  BY <1>4 DEF DesktopInv, QueueTrue
<1>8. Unique(ownLog) /\ IsStartOf(cloud, ownLog)
  BY DEF DesktopInv
<1>9. /\ Distinct(queue)' /\ Unique(ownLog)' /\ IsStartOf(cloud, ownLog)'
      /\ InLogOrder(queue, ownLog)' /\ AllQueued(queue, ownLog, gone)'
      /\ QueueTrue(queue, ownLog, Range(cloud), gone)'
  BY <1>2, <1>3, <1>6, <1>7, <1>8
<1>10. QED
  BY <1>5, <1>9 DEF DesktopInv

\* An event is logged that was not.
LEMMA LogGrows ==
  ASSUME NEW old \in Seq(Known), Unique(old), NEW e \in Known, e \notin Range(old),
         NEW events, events = Append(old, e)
  PROVE  /\ events \in Seq(Known) /\ Unique(events) /\ Len(events) = Len(old) + 1 /\ Len(old) \in Nat
         /\ events[Len(old) + 1] = e /\ \A a \in 1..Len(old) : events[a] = old[a]
         /\ Range(events) = Range(old) \cup {e}
         /\ \A a \in 1..Len(events) : a \in 1..Len(old) \/ a = Len(old) + 1
         /\ \A lost, op : Gap(old, lost, op) => Gap(events, lost, op)
         /\ \A s \in Seq(Known) : IsStartOf(s, old) => IsStartOf(s, events)
<1>1. /\ events \in Seq(Known) /\ Len(events) = Len(old) + 1 /\ Len(old) \in Nat
      /\ events[Len(old) + 1] = e /\ \A a \in 1..Len(old) : events[a] = old[a]
      /\ Range(events) = Range(old) \cup {e} /\ DOMAIN old = 1..Len(old)
  BY LenProperties, AppendProperties, RangeOfAppend
<1>2. \A a \in 1..Len(events) : a \in 1..Len(old) \/ a = Len(old) + 1
  BY <1>1
<1>3. \A a \in 1..Len(old) : old[a] # e
  BY <1>1 DEF Range
<1>4. Unique(events)
  <2>1. ASSUME NEW a \in 1..Len(events), NEW b \in 1..Len(events), events[a] = events[b] PROVE a = b
    <3>1. CASE a \in 1..Len(old) /\ b \in 1..Len(old)
      BY <1>1, <2>1, <3>1 DEF Unique
    <3>2. CASE a = Len(old) + 1 /\ b = Len(old) + 1
      BY <3>2
    <3>3. CASE a \in 1..Len(old) /\ b = Len(old) + 1
      BY <1>1, <1>3, <2>1, <3>3
    <3>4. CASE a = Len(old) + 1 /\ b \in 1..Len(old)
      BY <1>1, <1>3, <2>1, <3>4
    <3>5. QED
      BY <1>2, <3>1, <3>2, <3>3, <3>4
  <2>2. QED
    BY <2>1 DEF Unique
<1>5. \A lost, op : Gap(old, lost, op) => Gap(events, lost, op)
  <2>1. \A a \in 1..Len(old) : a \in 1..Len(events)
    BY <1>1
  <2>2. QED
    BY <1>1, <2>1 DEF Gap
<1>6. \A s \in Seq(Known) : IsStartOf(s, old) => IsStartOf(s, events)
  <2> SUFFICES ASSUME NEW s \in Seq(Known), IsStartOf(s, old) PROVE IsStartOf(s, events)
    OBVIOUS
  <2>1. Len(s) \in Nat
    BY LenProperties
  <2>2. QED
    BY <1>1, <2>1 DEF IsStartOf
<1>7. QED
  BY <1>1, <1>2, <1>4, <1>5, <1>6

LEMMA DesktopFacts ==
  ASSUME DesktopInv
  PROVE  /\ queue \in Seq(QueueEntry) /\ Len(queue) \in Nat /\ DOMAIN queue = 1..Len(queue)
         /\ \A i \in 1..Len(queue) : queue[i].op \in Ops
         /\ ownLog \in Seq(Known) /\ DOMAIN ownLog = 1..Len(ownLog) /\ Len(ownLog) \in Nat
         /\ cloud \in Seq(Known) /\ gone \subseteq Known /\ connected \in BOOLEAN
         /\ Distinct(queue) /\ Unique(ownLog) /\ IsStartOf(cloud, ownLog)
         /\ InLogOrder(queue, ownLog) /\ AllQueued(queue, ownLog, gone)
         /\ QueueTrue(queue, ownLog, Range(cloud), gone)
<1>1. queue \in Seq(QueueEntry) /\ ownLog \in Seq(Known)
  BY DEF DesktopInv, DrainTypeOK, Known
<1>2. \A i \in 1..Len(queue) : queue[i].op \in Ops
  <2>1. \A i \in 1..Len(queue) : queue[i] \in QueueEntry
    BY <1>1, ElementOfSeq
  <2>2. QED
    BY <2>1 DEF QueueEntry
<1>3. QED
  BY <1>1, <1>2, LenProperties DEF DesktopInv, DrainTypeOK, Known

LEMMA LogUnqueuedStep ==
  ASSUME DesktopInv, NEW e \in Unqueued, LogUnqueued(e)
  PROVE  DesktopInv'
<1>1. PICK events, after : events = Append(ownLog, e) /\ after = gone \cup {e}
  OBVIOUS
<1>2. /\ e \notin Range(ownLog) /\ ownLog' = events /\ gone' = after
      /\ UNCHANGED <<queue, cloud, connected, queueFaults>>
  BY <1>1 DEF LogUnqueued
<1>3. /\ queue \in Seq(QueueEntry) /\ \A i \in 1..Len(queue) : queue[i].op \in Ops /\ queue[i].op # e
      /\ ownLog \in Seq(Known) /\ cloud \in Seq(Known) /\ gone \subseteq Known
      /\ Unique(ownLog) /\ IsStartOf(cloud, ownLog) /\ e \in Known
  BY DesktopFacts, UnqueuedAssumption DEF Known
<1>4. /\ events \in Seq(Known) /\ Unique(events) /\ Len(events) = Len(ownLog) + 1 /\ Len(ownLog) \in Nat
      /\ events[Len(ownLog) + 1] = e /\ \A a \in 1..Len(ownLog) : events[a] = ownLog[a]
      /\ Range(events) = Range(ownLog) \cup {e}
      /\ \A a \in 1..Len(events) : a \in 1..Len(ownLog) \/ a = Len(ownLog) + 1
      /\ \A lost, op : Gap(ownLog, lost, op) => Gap(events, lost, op)
      /\ IsStartOf(cloud, events)
  <2>1. PICK old : old = ownLog
    OBVIOUS
  <2>2. old \in Seq(Known) /\ Unique(old) /\ e \in Known /\ e \notin Range(old) /\ events = Append(old, e)
    BY <1>1, <1>2, <1>3, <2>1
  <2>3. /\ events \in Seq(Known) /\ Unique(events) /\ Len(events) = Len(old) + 1 /\ Len(old) \in Nat
        /\ events[Len(old) + 1] = e /\ \A a \in 1..Len(old) : events[a] = old[a]
        /\ Range(events) = Range(old) \cup {e}
        /\ \A a \in 1..Len(events) : a \in 1..Len(old) \/ a = Len(old) + 1
    <3>1. events \in Seq(Known) /\ Unique(events) /\ Len(events) = Len(old) + 1 /\ Len(old) \in Nat
      BY <2>2, LogGrows
    <3>2. events[Len(old) + 1] = e
      BY <2>2, LogGrows
    <3>3. \A a \in 1..Len(old) : events[a] = old[a]
      BY <2>2, LogGrows
    <3>4. Range(events) = Range(old) \cup {e}
      BY <2>2, LogGrows
    <3>5. \A a \in 1..Len(events) : a \in 1..Len(old) \/ a = Len(old) + 1
      BY <3>1
    <3>6. QED
      BY <3>1, <3>2, <3>3, <3>4, <3>5
  <2>4. \A lost, op : Gap(old, lost, op) => Gap(events, lost, op)
    BY <2>2, LogGrows
  <2>5. IsStartOf(cloud, events)
    <3>1. \A s \in Seq(Known) : IsStartOf(s, old) => IsStartOf(s, events)
      BY <2>2, LogGrows
    <3>2. QED
      BY <1>3, <2>1, <3>1
  <2>6. QED
    BY <2>1, <2>3, <2>4, <2>5
<1>5. InLogOrder(queue, events)
  <2>1. \A i \in 1..Len(queue), a \in 1..Len(events) : queue[i].op = events[a] => a \in 1..Len(ownLog)
    BY <1>3, <1>4
  <2>2. QED
    BY <1>4, <2>1 DEF DesktopInv, InLogOrder
<1>6. AllQueued(queue, events, after)
  <2>1. \A a \in 1..Len(ownLog) : ownLog[a] \in gone \/ \E i \in 1..Len(queue) : queue[i].op = ownLog[a]
    BY DEF DesktopInv, AllQueued
  <2>2. QED
    BY <1>1, <1>4, <2>1 DEF AllQueued
<1>7. QueueTrue(queue, events, Range(cloud), after)
  <2>1. \A op : Gap(ownLog, gone, op) => Gap(events, after, op)
    <3>1. \A op : Gap(ownLog, gone, op) => Gap(ownLog, after, op)
      BY <1>1 DEF Gap
    <3>2. QED
      BY <1>4, <3>1
  <2>2. ASSUME NEW i \in 1..Len(queue)
        PROVE  /\ queue[i].linked => queue[i].op \in Range(events)
               /\ queue[i].status = "accepted" =>
                    queue[i].op \notin Range(events) \/ queue[i].op \in Range(cloud) \cup after
               /\ queue[i].status = "blocked" => \E k \in i..Len(queue) : Gap(events, after, queue[k].op)
    <3>1. /\ queue[i].linked => queue[i].op \in Range(ownLog)
          /\ queue[i].status = "accepted" =>
               queue[i].op \notin Range(ownLog) \/ queue[i].op \in Range(cloud) \cup gone
          /\ queue[i].status = "blocked" => \E k \in i..Len(queue) : Gap(ownLog, gone, queue[k].op)
      BY DEF DesktopInv, QueueTrue
    <3>2. queue[i].op # e
      BY <1>3
    <3>3. QED
      BY <1>1, <1>4, <2>1, <3>1, <3>2
  <2>3. QED
    BY <2>2 DEF QueueTrue
<1>8. DrainTypeOK'
  <2>1. after \subseteq Known
    BY <1>1, <1>3
  <2>2. QED
    BY <1>2, <1>4, <2>1 DEF DesktopInv, DrainTypeOK, Known
<1>9. /\ Distinct(queue)' /\ Unique(ownLog)' /\ IsStartOf(cloud, ownLog)'
      /\ InLogOrder(queue, ownLog)' /\ AllQueued(queue, ownLog, gone)'
      /\ QueueTrue(queue, ownLog, Range(cloud), gone)'
  BY <1>2, <1>4, <1>5, <1>6, <1>7 DEF DesktopInv
<1>10. QED
  BY <1>8, <1>9 DEF DesktopInv

\* The queue with an operation of which there is no event.
LEMMA NewIsQueued ==
  ASSUME DesktopInv, NEW op \in Ops, IsNew(op), NEW q, q = enqueue_input(queue, op)
  PROVE  /\ q \in Seq(QueueEntry) /\ Len(q) = Len(queue) + 1 /\ Distinct(q)
         /\ q[Len(queue) + 1].op = op /\ q[Len(queue) + 1].status = "pending"
         /\ ~ q[Len(queue) + 1].linked
         /\ \A i \in 1..Len(queue) : q[i] = queue[i] /\ queue[i].op # op
         /\ \A i \in 1..Len(q) : i \in 1..Len(queue) \/ i = Len(queue) + 1
         /\ op \notin Range(ownLog)
         /\ InLogOrder(q, ownLog) /\ AllQueued(q, ownLog, gone)
         /\ QueueTrue(q, ownLog, Range(cloud), gone)
<1>1. queue \in Seq(QueueEntry) /\ Len(queue) \in Nat /\ DOMAIN queue = 1..Len(queue)
  BY DesktopFacts
<1>2. op \notin OpsOf(queue) /\ op \notin Range(ownLog)
  BY DEF IsNew
<1>3. /\ q \in Seq(QueueEntry) /\ Len(q) = Len(queue) + 1
      /\ q[Len(q)].op = op /\ q[Len(q)].status = "pending" /\ ~ q[Len(q)].linked
      /\ \A i \in 1..Len(queue) : q[i] = queue[i]
  BY <1>1, <1>2, EnqueueLast
<1>4. \A i \in 1..Len(queue) : queue[i].op # op
  BY <1>1, <1>2 DEF OpsOf, Range
<1>5. \A i \in 1..Len(q) : i \in 1..Len(queue) \/ i = Len(queue) + 1
  BY <1>1, <1>3
<1>6. Distinct(q)
  <2>1. ASSUME NEW i \in 1..Len(q), NEW j \in 1..Len(q), q[i].op = q[j].op PROVE i = j
    <3>1. CASE i \in 1..Len(queue) /\ j \in 1..Len(queue)
      BY <1>3, <2>1, <3>1 DEF DesktopInv, Distinct
    <3>2. CASE i = Len(queue) + 1 /\ j = Len(queue) + 1
      BY <3>2
    <3>3. CASE i \in 1..Len(queue) /\ j = Len(queue) + 1
      BY <1>3, <1>4, <2>1, <3>3
    <3>4. CASE i = Len(queue) + 1 /\ j \in 1..Len(queue)
      BY <1>3, <1>4, <2>1, <3>4
    <3>5. QED
      BY <1>5, <3>1, <3>2, <3>3, <3>4
  <2>2. QED
    BY <2>1 DEF Distinct
<1>7. InLogOrder(q, ownLog)
  <2>1. \A i \in 1..Len(q), a \in 1..Len(ownLog) : q[i].op = ownLog[a] => i \in 1..Len(queue)
    <3>1. DOMAIN ownLog = 1..Len(ownLog)
      BY DesktopFacts
    <3>2. QED
      BY <1>2, <1>3, <1>5, <3>1 DEF Range
  <2>2. QED
    BY <1>3, <2>1 DEF DesktopInv, InLogOrder
<1>8. AllQueued(q, ownLog, gone)
  <2>1. \A a \in 1..Len(ownLog) : ownLog[a] \in gone \/ \E i \in 1..Len(queue) : queue[i].op = ownLog[a]
    BY DEF DesktopInv, AllQueued
  <2>2. \A i \in 1..Len(queue) : i \in 1..Len(q) /\ q[i].op = queue[i].op
    BY <1>1, <1>3
  <2>3. QED
    BY <2>1, <2>2 DEF AllQueued
<1>9. QueueTrue(q, ownLog, Range(cloud), gone)
  <2>1. ASSUME NEW i \in 1..Len(q)
        PROVE  /\ q[i].linked => q[i].op \in Range(ownLog)
               /\ q[i].status = "accepted" => q[i].op \notin Range(ownLog) \/ q[i].op \in Range(cloud) \cup gone
               /\ q[i].status = "blocked" => \E k \in i..Len(q) : Gap(ownLog, gone, q[k].op)
    <3>1. CASE i = Len(queue) + 1
      BY <1>3, <3>1
    <3>2. CASE i \in 1..Len(queue)
      <4>1. \A k \in i..Len(queue) : k \in i..Len(q) /\ q[k].op = queue[k].op
        BY <1>1, <1>3, <3>2
      <4>2. q[i] = queue[i]
        BY <1>3, <3>2
      <4>3. /\ queue[i].linked => queue[i].op \in Range(ownLog)
            /\ queue[i].status = "accepted" =>
                 queue[i].op \notin Range(ownLog) \/ queue[i].op \in Range(cloud) \cup gone
            /\ queue[i].status = "blocked" => \E k \in i..Len(queue) : Gap(ownLog, gone, queue[k].op)
        BY <3>2 DEF DesktopInv, QueueTrue
      <4>4. QED
        BY <4>1, <4>2, <4>3
    <3>3. QED
      BY <1>5, <3>1, <3>2
  <2>2. QED
    BY <2>1 DEF QueueTrue
<1>10. QED
  BY <1>2, <1>3, <1>4, <1>5, <1>6, <1>7, <1>8, <1>9

LEMMA EachOfOne ==
  ASSUME NEW kind \in Kinds, NEW op \in Ops
  PROVE  Each(kind, <<op>>) = <<[kind |-> kind, ops |-> {op}]>>
<1>1. PICK ops : ops = <<op>>
  OBVIOUS
<1>2. ops \in Seq(Ops) /\ Len(ops) = 1 /\ ops[1] = op
  BY <1>1
<1>3. /\ Each(kind, ops) \in Seq(Edit) /\ Len(Each(kind, ops)) = 1
      /\ Each(kind, ops)[1] = [kind |-> kind, ops |-> {op}]
  BY <1>2, EachIsMade
<1>4. PICK edits, edit : edits = Each(kind, ops) /\ edit = [kind |-> kind, ops |-> {op}]
  OBVIOUS
<1>5. edits \in Seq(Edit) /\ Len(edits) = 1 /\ edits[1] = edit
  BY <1>3, <1>4
<1>6. edits = <<edit>>
  BY <1>5
<1>7. QED
  BY <1>1, <1>4, <1>6

LEMMA SelectStationStep ==
  ASSUME DesktopInv, NEW op \in Ops, SelectStation(op)
  PROVE  DesktopInv'
<1>1. PICK q, events : q = enqueue_input(queue, op) /\ events = ownLog
  OBVIOUS
<1>2. PICK kind \in {"support", "user_action"} : Handle(q, Each(kind, <<op>>), cloud, connected)
  BY <1>1 DEF SelectStation
<1>3. IsNew(op) /\ ownLog' = events
  BY <1>1 DEF SelectStation
<1>4. /\ q \in Seq(QueueEntry) /\ Distinct(q) /\ op \notin Range(events)
      /\ InLogOrder(q, events) /\ AllQueued(q, events, gone)
      /\ QueueTrue(q, events, Range(cloud), gone)
  BY <1>1, <1>3, NewIsQueued
<1>5. kind \in Kinds
  BY DEF Kinds
<1>6. PICK edit : edit = [kind |-> kind, ops |-> {op}]
  OBVIOUS
<1>7. Each(kind, <<op>>) = <<edit>>
  BY <1>5, <1>6, EachOfOne
<1>8. EditTrue(q, edit, events, Range(cloud), gone)
  BY <1>4, <1>5, <1>6 DEF EditTrue, Edit
<1>9. EditsTrue(q, <<edit>>, events, Range(cloud), gone)
  BY <1>8, OneIsTrue
<1>10. events \in Seq(Known) /\ Unique(events) /\ cloud \in Seq(Known) /\ IsStartOf(cloud, events)
       /\ connected \in BOOLEAN
  BY <1>1, DesktopFacts
<1>11. Handle(q, <<edit>>, cloud, connected)
  BY <1>2, <1>7
<1>12. QED
  BY <1>3, <1>4, <1>9, <1>10, <1>11, HandledInv

\* The queue and the log with a new operation and its event.
LEMMA NewIsLogged ==
  ASSUME DesktopInv, NEW op \in Ops, IsNew(op), NEW q, q = enqueue_input(queue, op),
         NEW events, events = Append(ownLog, op)
  PROVE  /\ events \in Seq(Known) /\ Unique(events) /\ IsStartOf(cloud, events) /\ op \in Range(events)
         /\ InLogOrder(q, events) /\ AllQueued(q, events, gone)
         /\ QueueTrue(q, events, Range(cloud), gone)
<1>1. /\ q \in Seq(QueueEntry) /\ Len(q) = Len(queue) + 1
      /\ q[Len(queue) + 1].op = op /\ q[Len(queue) + 1].status = "pending"
      /\ \A i \in 1..Len(queue) : q[i] = queue[i] /\ queue[i].op # op
      /\ \A i \in 1..Len(q) : i \in 1..Len(queue) \/ i = Len(queue) + 1
      /\ op \notin Range(ownLog)
      /\ InLogOrder(q, ownLog) /\ AllQueued(q, ownLog, gone)
      /\ QueueTrue(q, ownLog, Range(cloud), gone)
  BY NewIsQueued
<1>2. /\ Len(queue) \in Nat /\ cloud \in Seq(Known) /\ ownLog \in Seq(Known) /\ Unique(ownLog)
      /\ IsStartOf(cloud, ownLog) /\ op \in Known
  BY DesktopFacts DEF Known
<1>3. PICK old : old = ownLog
  OBVIOUS
<1>4. /\ events \in Seq(Known) /\ Unique(events) /\ Len(events) = Len(old) + 1 /\ Len(old) \in Nat
      /\ events[Len(old) + 1] = op /\ \A a \in 1..Len(old) : events[a] = old[a]
      /\ Range(events) = Range(old) \cup {op}
      /\ \A a \in 1..Len(events) : a \in 1..Len(old) \/ a = Len(old) + 1
  <2>1. old \in Seq(Known) /\ Unique(old) /\ op \notin Range(old) /\ events = Append(old, op)
    BY <1>1, <1>2, <1>3
  <2>2. events \in Seq(Known) /\ Unique(events) /\ Len(events) = Len(old) + 1 /\ Len(old) \in Nat
    BY <1>2, <2>1, LogGrows
  <2>3. events[Len(old) + 1] = op
    BY <1>2, <2>1, LogGrows
  <2>4. \A a \in 1..Len(old) : events[a] = old[a]
    BY <1>2, <2>1, LogGrows
  <2>5. Range(events) = Range(old) \cup {op}
    BY <1>2, <2>1, LogGrows
  <2>6. \A a \in 1..Len(events) : a \in 1..Len(old) \/ a = Len(old) + 1
    BY <2>2
  <2>7. QED
    BY <2>2, <2>3, <2>4, <2>5, <2>6
<1>5. IsStartOf(cloud, events) /\ \A lost, o : Gap(old, lost, o) => Gap(events, lost, o)
  <2>1. old \in Seq(Known) /\ Unique(old) /\ op \notin Range(old) /\ events = Append(old, op)
    BY <1>1, <1>2, <1>3
  <2>2. \A s \in Seq(Known) : IsStartOf(s, old) => IsStartOf(s, events)
    BY <1>2, <2>1, LogGrows
  <2>3. \A lost, o : Gap(old, lost, o) => Gap(events, lost, o)
    BY <1>2, <2>1, LogGrows
  <2>4. QED
    BY <1>2, <1>3, <2>2, <2>3
<1>6. InLogOrder(q, events)
  <2>1. ASSUME NEW i \in 1..Len(q), NEW j \in 1..Len(q), NEW a \in 1..Len(events), NEW b \in 1..Len(events),
               q[i].op = events[a], q[j].op = events[b], i < j
        PROVE  a < b
    <3>1. i \in 1..Len(queue)
      BY <1>1, <1>2, <2>1
    <3>2. a \in 1..Len(old)
      BY <1>1, <1>4, <2>1, <3>1
    <3>3. CASE b = Len(old) + 1
      BY <1>4, <3>2, <3>3
    <3>4. CASE b \in 1..Len(old)
      BY <1>1, <1>3, <1>4, <2>1, <3>2, <3>4 DEF InLogOrder
    <3>5. QED
      BY <1>4, <3>3, <3>4
  <2>2. QED
    BY <2>1 DEF InLogOrder
<1>7. AllQueued(q, events, gone)
  <2>1. Len(queue) + 1 \in 1..Len(q)
    BY <1>1, <1>2
  <2>2. QED
    BY <1>1, <1>3, <1>4, <2>1 DEF AllQueued
<1>8. QueueTrue(q, events, Range(cloud), gone)
  <2>1. ASSUME NEW i \in 1..Len(q)
        PROVE  /\ q[i].linked => q[i].op \in Range(events)
               /\ q[i].status = "accepted" => q[i].op \notin Range(events) \/ q[i].op \in Range(cloud) \cup gone
               /\ q[i].status = "blocked" => \E k \in i..Len(q) : Gap(events, gone, q[k].op)
    <3>1. /\ q[i].linked => q[i].op \in Range(old)
          /\ q[i].status = "accepted" => q[i].op \notin Range(old) \/ q[i].op \in Range(cloud) \cup gone
          /\ q[i].status = "blocked" => \E k \in i..Len(q) : Gap(old, gone, q[k].op)
      BY <1>1, <1>3 DEF QueueTrue
    <3>2. q[i].status = "accepted" => q[i].op # op
      BY <1>1
    <3>3. QED
      BY <1>4, <1>5, <3>1, <3>2
  <2>2. QED
    BY <2>1 DEF QueueTrue
<1>9. QED
  BY <1>4, <1>5, <1>6, <1>7, <1>8

LEMMA SubmitStep ==
  ASSUME DesktopInv, NEW op \in Ops, submit_offline_tracked_proposal(op)
  PROVE  DesktopInv'
<1>1. PICK q : q = enqueue_input(queue, op)
  OBVIOUS
<1>2. IsNew(op)
  BY DEF submit_offline_tracked_proposal
<1>3. q \in Seq(QueueEntry) /\ Distinct(q)
  BY <1>1, <1>2, NewIsQueued
<1>4. cloud \in Seq(Known) /\ connected \in BOOLEAN
  BY DesktopFacts
<1>5. CASE ownLog' = Append(ownLog, op) /\ Handle(q, Each("attach", <<op>>), cloud, connected)
  <2>1. PICK events : events = Append(ownLog, op)
    OBVIOUS
  <2>2. /\ events \in Seq(Known) /\ Unique(events) /\ IsStartOf(cloud, events) /\ op \in Range(events)
        /\ InLogOrder(q, events) /\ AllQueued(q, events, gone)
        /\ QueueTrue(q, events, Range(cloud), gone)
    BY <1>1, <1>2, <2>1, NewIsLogged
  <2>3. PICK kind, edit : kind = "attach" /\ edit = [kind |-> kind, ops |-> {op}]
    OBVIOUS
  <2>4. kind \in Kinds
    BY <2>3 DEF Kinds
  <2>5. Each(kind, <<op>>) = <<edit>>
    BY <2>3, <2>4, EachOfOne
  <2>6. EditTrue(q, edit, events, Range(cloud), gone)
    BY <2>2, <2>3, <2>4 DEF EditTrue, Edit
  <2>7. EditsTrue(q, <<edit>>, events, Range(cloud), gone)
    BY <2>6, OneIsTrue
  <2>8. Handle(q, <<edit>>, cloud, connected) /\ ownLog' = events
    BY <1>5, <2>1, <2>3, <2>5
  <2>9. QED
    BY <1>3, <1>4, <2>2, <2>7, <2>8, HandledInv
<1>6. CASE ownLog' = ownLog /\ Handle(q, Each("user_action", <<op>>), cloud, connected)
  <2>1. PICK events : events = ownLog
    OBVIOUS
  <2>2. /\ events \in Seq(Known) /\ Unique(events) /\ IsStartOf(cloud, events)
        /\ InLogOrder(q, events) /\ AllQueued(q, events, gone)
        /\ QueueTrue(q, events, Range(cloud), gone)
    BY <1>1, <1>2, <2>1, NewIsQueued, DesktopFacts
  <2>3. PICK kind, ops : kind = "user_action" /\ ops = <<op>>
    OBVIOUS
  <2>4. ops \in Seq(Ops) /\ kind \in {"sending", "transient", "user_action", "recover"}
    BY <2>3
  <2>5. EditsTrue(q, Each(kind, ops), events, Range(cloud), gone)
    BY <2>4, EachIsTrue
  <2>6. Handle(q, Each(kind, ops), cloud, connected) /\ ownLog' = events
    BY <1>6, <2>1, <2>3
  <2>7. QED
    BY <1>3, <1>4, <2>2, <2>5, <2>6, HandledInv
<1>7. QED
  BY <1>1, <1>5, <1>6 DEF submit_offline_tracked_proposal

LEMMA DesktopInvInit == DrainInit => DesktopInv
<1> SUFFICES ASSUME DrainInit PROVE DesktopInv
  OBVIOUS
<1>1. /\ queue = << >> /\ ownLog = << >> /\ cloud = << >> /\ connected = FALSE
      /\ gone = {} /\ queueFaults = 0
  BY DEF DrainInit
<1>2. Len(<< >>) = 0 /\ \A i : i \notin 1..0
  OBVIOUS
<1>3. DrainTypeOK
  <2>1. \A S : << >> \in Seq(S)
    OBVIOUS
  <2>2. MaxQueueFaults \in Nat
    BY UnqueuedAssumption
  <2>3. queueFaults \in 0..MaxQueueFaults
    BY <1>1, <2>2
  <2>4. queue \in Seq(QueueEntry)
    BY <1>1, <2>1
  <2>5. ownLog \in Seq(Ops \cup Unqueued) /\ cloud \in Seq(Ops \cup Unqueued)
    BY <1>1, <2>1
  <2>6. QED
    BY <1>1, <2>3, <2>4, <2>5 DEF DrainTypeOK
<1>4. Distinct(queue) /\ Unique(ownLog) /\ IsStartOf(cloud, ownLog)
  BY <1>1, <1>2 DEF Distinct, Unique, IsStartOf
<1>5. InLogOrder(queue, ownLog) /\ AllQueued(queue, ownLog, gone)
  BY <1>1, <1>2 DEF InLogOrder, AllQueued
<1>6. QueueTrue(queue, ownLog, Range(cloud), gone)
  BY <1>1, <1>2 DEF QueueTrue
<1>7. QED
  BY <1>3, <1>4, <1>5, <1>6 DEF DesktopInv

LEMMA DesktopInvStep == DesktopInv /\ [DrainNext]_drainVars => DesktopInv'
<1> SUFFICES ASSUME DesktopInv, [DrainNext]_drainVars PROVE DesktopInv'
  OBVIOUS
<1>1. CASE \E op \in Ops : submit_offline_tracked_proposal(op)
  BY <1>1, SubmitStep
<1>2. CASE \E op \in Ops : SelectStation(op)
  BY <1>2, SelectStationStep
<1>3. CASE \E e \in Unqueued : LogUnqueued(e)
  BY <1>3, LogUnqueuedStep
<1>4. CASE handle_cloud_push
  BY <1>4, RunPushStep DEF handle_cloud_push
<1>5. CASE Connect
  BY <1>5, ConnectStep
<1>6. CASE Recover
  BY <1>6, RecoverStep
<1>7. CASE \E i \in DOMAIN queue : RetryIsDue(i)
  BY <1>7, RetryIsDueStep
<1>8. CASE UNCHANGED drainVars
  BY <1>8 DEF drainVars, DesktopInv, DrainTypeOK, QueueTrue, Gap, Distinct, Unique, IsStartOf,
    InLogOrder, AllQueued
<1>9. QED
  BY <1>1, <1>2, <1>3, <1>4, <1>5, <1>6, <1>7, <1>8 DEF DrainNext

\* The inductive invariant of the desktop's drain: no operation is queued twice
\* and no event logged twice, the server holds a start of the log, the queue has
\* the order of the log, and what it says of an operation is true.
THEOREM DesktopInvariant == DrainSpec => []DesktopInv
<1>1. QED
  BY DesktopInvInit, DesktopInvStep, PTL DEF DrainSpec

\* Each variable of the desktop's drain keeps its type, whatever is refused and
\* wherever the desktop stops.
THEOREM DesktopTypes == DrainSpec => []DrainTypeOK
<1>1. DesktopInv => DrainTypeOK
  BY DEF DesktopInv
<1>2. QED
  BY <1>1, DesktopInvariant, PTL

\* What the queue tells the operator is true: an accepted operation is on the
\* server, or was when it ended; a blocked one, or one queued after it, follows an
\* event that no push sends.  For every number of operations, of events logged
\* without the queue, and of refused writes and stops.
THEOREM DesktopReportsAreTrue == DrainSpec => []DrainReportsAreTrue
<1>1. ASSUME DesktopInv PROVE DrainReportsAreTrue
  <2>1. /\ Len(queue) \in Nat /\ DOMAIN queue = 1..Len(queue) /\ DOMAIN ownLog = 1..Len(ownLog)
        /\ QueueTrue(queue, ownLog, Range(cloud), gone)
    BY <1>1, DesktopFacts
  <2>2. \A op : Gap(ownLog, gone, op) => FollowsGap(op)
    BY <2>1 DEF Gap, FollowsGap
  <2>3. ASSUME NEW i \in DOMAIN queue
        PROVE  /\ queue[i].status = "accepted" /\ queue[i].linked => queue[i].op \in Range(cloud) \cup gone
               /\ queue[i].status = "blocked" => \E k \in i..Len(queue) : FollowsGap(queue[k].op)
    BY <2>1, <2>2, <2>3 DEF QueueTrue
  <2>4. QED
    BY <2>3 DEF DrainReportsAreTrue
<1>2. QED
  BY <1>1, DesktopInvariant, PTL

-----------------------------------------------------------------------------
(***************************************************************************)
(* The queue of the uploads.                                               *)
(***************************************************************************)

Claim == [job : DOMAIN jobs, late : BOOLEAN,
          outcome : {"open", "failed", "unknown", "completed"}]

\* A job names the claim it runs under, which is for this job; when the lease
\* of the job is over, so is that of the claim.
ClaimsMatch ==
    \A j \in DOMAIN jobs :
        /\ jobs[j].token # NoToken =>
             /\ jobs[j].state = "Running"
             /\ jobs[j].token \in DOMAIN claims /\ claims[jobs[j].token].job = j
        /\ jobs[j].expired => jobs[j].token # NoToken /\ claims[jobs[j].token].late

\* What a repetition would have to say is said from the moment the earlier
\* attempt is lost, in every state that leads to another claim.
LossIsMarked ==
    \A j \in DOMAIN jobs, t \in DOMAIN claims :
        ( /\ jobs[j].state \notin {"Succeeded", "DeadLetter"}
          /\ claims[t].job = j /\ t # jobs[j].token
          /\ claims[t].outcome \in {"open", "unknown"} )
            => jobs[j].uncertain /\ (claims[t].outcome = "open" => claims[t].late)

UploadQueueInv == UploadQueueTypeOK /\ ClaimsMatch /\ LossIsMarked

\* Jobs and claims one by one.
UploadRows ==
    /\ jobs \in Seq(UploadJob) /\ Len(jobs) \in Nat /\ DOMAIN jobs = 1 .. Len(jobs)
    /\ claims \in Seq(Claim) /\ Len(claims) \in Nat /\ DOMAIN claims = 1 .. Len(claims)
    /\ \A j \in DOMAIN jobs : jobs[j] \in UploadJob
    /\ \A t \in DOMAIN claims : claims[t] \in Claim
    /\ queue_limit \in Nat /\ MaxClaims \in Nat

LEMMA UploadRowsHold == UploadQueueTypeOK => UploadRows
<1>1. queue_limit \in Nat /\ MaxClaims \in Nat
  BY UploadQueueAssumption
<1>2. SUFFICES ASSUME UploadQueueTypeOK PROVE UploadRows
  OBVIOUS
<1>3. jobs \in Seq(UploadJob) /\ claims \in Seq(Claim)
  BY <1>2 DEF UploadQueueTypeOK, Claim
<1>4. QED
  BY <1>1, <1>3, LenProperties, ElementOfSeq DEF UploadRows

\* A step that changes jobs and claims in place keeps the types.
LEMMA UploadTypesInPlace ==
  ASSUME UploadQueueTypeOK,
         DOMAIN jobs' = DOMAIN jobs, DOMAIN claims' = DOMAIN claims,
         jobs' \in [DOMAIN jobs -> UploadJob], claims' \in [DOMAIN claims -> Claim]
  PROVE  UploadQueueTypeOK'
<1>1. UploadRows
  BY UploadRowsHold
<1>2. jobs' \in Seq(UploadJob) /\ claims' \in Seq(Claim)
  <2>1. \A S, n, f : n \in Nat /\ f \in [1 .. n -> S] => f \in Seq(S)
    OBVIOUS
  <2>2. QED
    BY <1>1, <2>1 DEF UploadRows
<1>3. Len(jobs') = Len(jobs)
  BY <1>1, <1>2, LenProperties DEF UploadRows
<1>4. QED
  BY <1>2, <1>3 DEF UploadQueueTypeOK, Claim

LEMMA CreateJobStep ==
  ASSUME UploadQueueInv, create_job
  PROVE  UploadQueueInv'
<1>1. UploadRows
  BY UploadRowsHold DEF UploadQueueInv
<1> DEFINE job == [state |-> "Pending", due |-> TRUE, token |-> NoToken,
                   expired |-> FALSE, uncertain |-> FALSE]
<1>2. job \in UploadJob
  BY <1>1 DEF UploadJob, JobStates, NoToken, UploadRows
<1>3. /\ jobs' = Append(jobs, job) /\ claims' = claims /\ Len(jobs) < queue_limit
      /\ jobs' \in Seq(UploadJob) /\ Len(jobs') = Len(jobs) + 1
      /\ DOMAIN jobs' = 1 .. Len(jobs) + 1
      /\ \A j \in DOMAIN jobs : jobs'[j] = jobs[j]
      /\ jobs'[Len(jobs) + 1] = job
  BY <1>1, <1>2, AppendProperties DEF create_job, UploadRows
<1>4. claims' \in Seq(Claim')
  <2>1. Claim \subseteq Claim'
    BY <1>1, <1>3 DEF Claim, UploadRows
  <2>2. QED
    BY <1>1, <1>3, <2>1, SeqMonotonic DEF UploadRows
<1>5. UploadQueueTypeOK'
  BY <1>1, <1>3, <1>4 DEF UploadQueueTypeOK, UploadRows, Claim
<1>6. \A t \in DOMAIN claims : claims[t].job \in DOMAIN jobs
  BY <1>1 DEF UploadRows, Claim
<1>7. QED
  BY <1>1, <1>3, <1>5, <1>6 DEF UploadQueueInv, ClaimsMatch, LossIsMarked, UploadRows

\* A job with another state, under no claim.
LEMMA ReleasedJob ==
  ASSUME NEW job \in UploadJob, NEW state \in JobStates
  PROVE  /\ Released(job, state) \in UploadJob
         /\ Released(job, state).state = state /\ Released(job, state).token = NoToken
         /\ Released(job, state).expired = FALSE
         /\ Released(job, state).due = job.due
         /\ Released(job, state).uncertain = job.uncertain
<1>1. 0 \in 0 .. MaxClaims
  BY UploadQueueAssumption
<1>2. QED
  BY <1>1 DEF Released, UploadJob, NoToken

\* A worker takes the first free job under a new token.
LEMMA ClaimNextStep ==
  ASSUME UploadQueueInv, claim_next
  PROVE  UploadQueueInv'
<1>1. UploadRows
  BY UploadRowsHold DEF UploadQueueInv
<1> DEFINE token == Len(claims) + 1
<1>2. PICK j \in DOMAIN jobs :
        /\ Len(claims) < MaxClaims /\ Available(jobs[j])
        /\ jobs' = [jobs EXCEPT ![j].state = "Running", ![j].token = token,
                                ![j].expired = FALSE]
        /\ claims' = Append(claims, [job |-> j, late |-> FALSE, outcome |-> "open"])
  BY DEF claim_next
<1>3. jobs[j].token = NoToken /\ jobs[j].state \in {"Pending", "RetryScheduled", "Uncertain"}
  BY <1>2 DEF UploadQueueInv, ClaimsMatch, Available, is_claimable
<1>4. token \in 1 .. MaxClaims
  BY <1>1, <1>2 DEF UploadRows
<1>5. /\ DOMAIN jobs' = DOMAIN jobs
      /\ \A k \in DOMAIN jobs : k # j => jobs'[k] = jobs[k]
      /\ jobs'[j] = [jobs[j] EXCEPT !.state = "Running", !.token = token, !.expired = FALSE]
  BY <1>2
<1>6. /\ jobs'[j] \in UploadJob
      /\ jobs'[j].state = "Running" /\ jobs'[j].token = token /\ jobs'[j].expired = FALSE
      /\ jobs'[j].uncertain = jobs[j].uncertain
  <2>1. jobs[j] \in UploadJob /\ token \in 0 .. MaxClaims
    BY <1>1, <1>4 DEF UploadRows
  <2> HIDE DEF token
  <2>2. QED
    BY <1>5, <2>1 DEF UploadJob, JobStates
<1>7. jobs' \in Seq(UploadJob) /\ Len(jobs') = Len(jobs)
  <2>1. jobs' = [jobs EXCEPT ![j] = jobs'[j]]
    BY <1>1, <1>2, <1>5 DEF UploadRows
  <2>2. j \in 1 .. Len(jobs) /\ jobs \in Seq(UploadJob) /\ jobs'[j] \in UploadJob
    BY <1>1, <1>6 DEF UploadRows
  <2>3. QED
    BY <2>1, <2>2, ExceptSeq
<1>8. /\ claims' \in Seq(Claim') /\ DOMAIN claims' = 1 .. token
      /\ \A t \in DOMAIN claims : claims'[t] = claims[t]
      /\ claims'[token] = [job |-> j, late |-> FALSE, outcome |-> "open"]
  <2>1. [job |-> j, late |-> FALSE, outcome |-> "open"] \in Claim
    BY DEF Claim
  <2>2. Claim' = Claim
    BY <1>5 DEF Claim
  <2>3. QED
    BY <1>1, <1>2, <2>1, <2>2, AppendProperties DEF UploadRows
<1>9. UploadQueueTypeOK'
  BY <1>1, <1>5, <1>7, <1>8 DEF UploadQueueInv, UploadQueueTypeOK, Claim
<1>10. ClaimsMatch'
  <2>1. token # NoToken /\ token \in DOMAIN claims'
    BY <1>1, <1>8 DEF UploadRows, NoToken
  <2>2. DOMAIN claims \subseteq DOMAIN claims'
    BY <1>1, <1>8 DEF UploadRows
  <2>3. ASSUME NEW k \in DOMAIN jobs, k # j
        PROVE  /\ jobs[k].token # NoToken => jobs[k].token \in DOMAIN claims
               /\ jobs[k].expired => jobs[k].token # NoToken
    BY DEF UploadQueueInv, ClaimsMatch
  <2>4. claims'[token].job = j
    BY <1>8
  <2> HIDE DEF token
  <2>5. ASSUME NEW k \in DOMAIN jobs
        PROVE  /\ jobs'[k].token # NoToken =>
                    /\ jobs'[k].state = "Running"
                    /\ jobs'[k].token \in DOMAIN claims' /\ claims'[jobs'[k].token].job = k
               /\ jobs'[k].expired => jobs'[k].token # NoToken /\ claims'[jobs'[k].token].late
    <3>1. CASE k = j
      BY <1>6, <2>1, <2>4, <3>1
    <3>2. CASE k # j
      BY <1>5, <1>8, <2>2, <2>3, <3>2 DEF UploadQueueInv, ClaimsMatch
    <3>3. QED
      BY <3>1, <3>2
  <2>6. QED
    BY <1>5, <2>5 DEF ClaimsMatch
<1>11. LossIsMarked'
  <2>1. ASSUME NEW k \in DOMAIN jobs', NEW t \in DOMAIN claims',
               jobs'[k].state \notin {"Succeeded", "DeadLetter"},
               claims'[t].job = k, t # jobs'[k].token,
               claims'[t].outcome \in {"open", "unknown"}
        PROVE  jobs'[k].uncertain /\ (claims'[t].outcome = "open" => claims'[t].late)
    <3>1. t \in DOMAIN claims
      <4>1. t = token => FALSE
        <5>1. claims'[token].job = j
          BY <1>8
        <5> HIDE DEF token
        <5>2. QED
          BY <1>6, <2>1, <5>1
      <4>2. QED
        BY <1>1, <1>8, <4>1 DEF UploadRows
    <3>2. CASE k = j
      <4>1. t # jobs[j].token
        BY <1>1, <1>3, <3>1 DEF UploadRows, NoToken
      <4>2. jobs[j].state \notin {"Succeeded", "DeadLetter"}
        BY <1>3
      <4>3. QED
        BY <1>6, <1>8, <2>1, <3>1, <3>2, <4>1, <4>2 DEF UploadQueueInv, LossIsMarked
    <3>3. CASE k # j
      BY <1>5, <1>8, <2>1, <3>1, <3>3 DEF UploadQueueInv, LossIsMarked
    <3>4. QED
      BY <3>2, <3>3
  <2>2. QED
    BY <2>1 DEF LossIsMarked
<1>12. QED
  BY <1>9, <1>10, <1>11 DEF UploadQueueInv

\* A lease runs out, for the claim and the job that runs under it.
LEMMA LeaseExpiresStep ==
  ASSUME UploadQueueInv, NEW t \in DOMAIN claims, LeaseExpires(t)
  PROVE  UploadQueueInv'
<1>1. UploadRows
  BY UploadRowsHold DEF UploadQueueInv
<1>2. /\ DOMAIN claims' = DOMAIN claims
      /\ \A u \in DOMAIN claims :
           /\ claims'[u].job = claims[u].job /\ claims'[u].outcome = claims[u].outcome
           /\ claims[u].late => claims'[u].late
           /\ claims'[u] \in Claim
      /\ claims'[t].late
  <2>1. claims' = [claims EXCEPT ![t].late = TRUE] /\ claims[t] \in Claim
    BY <1>1 DEF LeaseExpires, UploadRows
  <2>2. claims'[t] = [claims[t] EXCEPT !.late = TRUE]
    BY <2>1
  <2>3. claims'[t] \in Claim /\ claims'[t].job = claims[t].job
        /\ claims'[t].outcome = claims[t].outcome /\ claims'[t].late
    BY <2>1, <2>2 DEF Claim
  <2>4. QED
    BY <1>1, <2>1, <2>3 DEF UploadRows
<1>3. /\ DOMAIN jobs' = DOMAIN jobs
      /\ \A j \in DOMAIN jobs :
           /\ jobs'[j].state = jobs[j].state /\ jobs'[j].token = jobs[j].token
           /\ jobs'[j].uncertain = jobs[j].uncertain
           /\ jobs'[j].expired = (jobs[j].expired \/ jobs[j].token = t)
           /\ jobs'[j] \in UploadJob
  BY <1>1 DEF LeaseExpires, UploadRows, UploadJob
<1>4. t # NoToken
  BY <1>1 DEF UploadRows, NoToken
<1>5. claims' \in [DOMAIN claims -> Claim]
  BY <1>2 DEF LeaseExpires
<1>6. jobs' \in [DOMAIN jobs -> UploadJob]
  BY <1>3 DEF LeaseExpires
<1>7. UploadQueueTypeOK'
  BY <1>2, <1>3, <1>5, <1>6, UploadTypesInPlace DEF UploadQueueInv
<1>8. ASSUME NEW j \in DOMAIN jobs
      PROVE  /\ jobs'[j].token # NoToken =>
                  /\ jobs'[j].state = "Running"
                  /\ jobs'[j].token \in DOMAIN claims' /\ claims'[jobs'[j].token].job = j
             /\ jobs'[j].expired => jobs'[j].token # NoToken /\ claims'[jobs'[j].token].late
  <2>1. /\ jobs[j].token # NoToken =>
             /\ jobs[j].state = "Running"
             /\ jobs[j].token \in DOMAIN claims /\ claims[jobs[j].token].job = j
        /\ jobs[j].expired => jobs[j].token # NoToken /\ claims[jobs[j].token].late
    BY DEF UploadQueueInv, ClaimsMatch
  <2>2. QED
    BY <1>2, <1>3, <1>4, <2>1
<1>9. LossIsMarked'
  BY <1>2, <1>3 DEF UploadQueueInv, LossIsMarked
<1>10. QED
  BY <1>3, <1>7, <1>8, <1>9 DEF UploadQueueInv, ClaimsMatch

\* The time of a retry comes.
LEMMA RetryComesDueStep ==
  ASSUME UploadQueueInv, NEW j \in DOMAIN jobs, RetryComesDue(j)
  PROVE  UploadQueueInv'
<1>1. UploadRows
  BY UploadRowsHold DEF UploadQueueInv
<1>2. /\ DOMAIN jobs' = DOMAIN jobs /\ claims' = claims
      /\ \A k \in DOMAIN jobs :
           /\ jobs'[k].state = jobs[k].state /\ jobs'[k].token = jobs[k].token
           /\ jobs'[k].uncertain = jobs[k].uncertain /\ jobs'[k].expired = jobs[k].expired
           /\ jobs'[k] \in UploadJob
      /\ jobs' \in [DOMAIN jobs -> UploadJob]
  BY <1>1 DEF RetryComesDue, UploadRows, UploadJob
<1>3. claims \in [DOMAIN claims -> Claim]
  BY <1>1 DEF UploadRows
<1>4. UploadQueueTypeOK'
  BY <1>2, <1>3, UploadTypesInPlace DEF UploadQueueInv
<1>5. QED
  BY <1>2, <1>4 DEF UploadQueueInv, ClaimsMatch, LossIsMarked

\* Jobs whose lease is over are taken back, and say that their attempt is lost.
LEMMA RecoverLeasesStep ==
  ASSUME UploadQueueInv, recover_expired_leases
  PROVE  UploadQueueInv'
<1>1. UploadRows
  BY UploadRowsHold DEF UploadQueueInv
<1> DEFINE Lost(j) == jobs[j].state = "Running" /\ jobs[j].expired
<1>2. DOMAIN jobs' = DOMAIN jobs /\ claims' = claims
  BY DEF recover_expired_leases
<1>3. \A j \in DOMAIN jobs : ~Lost(j) => jobs'[j] = jobs[j]
  BY DEF recover_expired_leases
<1>4. ASSUME NEW j \in DOMAIN jobs, Lost(j)
      PROVE  /\ jobs'[j] \in UploadJob
             /\ jobs'[j].state = "Uncertain" /\ jobs'[j].token = NoToken
             /\ jobs'[j].expired = FALSE /\ jobs'[j].uncertain = TRUE
  <2>1. jobs'[j] = [Released(jobs[j], "Uncertain") EXCEPT !.uncertain = TRUE]
    BY <1>4 DEF recover_expired_leases, Recovered
  <2>2. /\ Released(jobs[j], "Uncertain") \in UploadJob
        /\ Released(jobs[j], "Uncertain").state = "Uncertain"
        /\ Released(jobs[j], "Uncertain").token = NoToken
        /\ Released(jobs[j], "Uncertain").expired = FALSE
    BY <1>1, ReleasedJob DEF UploadRows, JobStates
  <2>3. QED
    BY <2>1, <2>2 DEF UploadJob
<1>5. jobs' \in [DOMAIN jobs -> UploadJob] /\ claims' \in [DOMAIN claims -> Claim]
  <2>1. \A j \in DOMAIN jobs : jobs'[j] \in UploadJob
    BY <1>1, <1>3, <1>4 DEF UploadRows
  <2>2. QED
    BY <1>1, <1>2, <2>1 DEF recover_expired_leases, UploadRows
<1>6. UploadQueueTypeOK'
  BY <1>2, <1>5, UploadTypesInPlace DEF UploadQueueInv
<1>7. ClaimsMatch'
  <2>1. \A j \in DOMAIN jobs : jobs'[j].token # NoToken \/ jobs'[j].expired => ~Lost(j)
    BY <1>4
  <2>2. QED
    BY <1>2, <1>3, <2>1 DEF UploadQueueInv, ClaimsMatch
<1>8. ASSUME NEW j \in DOMAIN jobs, NEW t \in DOMAIN claims,
             jobs'[j].state \notin {"Succeeded", "DeadLetter"},
             claims[t].job = j, t # jobs'[j].token,
             claims[t].outcome \in {"open", "unknown"}
      PROVE  jobs'[j].uncertain /\ (claims[t].outcome = "open" => claims[t].late)
  <2>1. CASE ~Lost(j)
    BY <1>3, <1>8, <2>1 DEF UploadQueueInv, LossIsMarked
  <2>2. CASE Lost(j) /\ t = jobs[j].token
    BY <1>4, <2>2 DEF UploadQueueInv, ClaimsMatch
  <2>3. CASE Lost(j) /\ t # jobs[j].token
    BY <1>4, <1>8, <2>3 DEF UploadQueueInv, LossIsMarked
  <2>4. QED
    BY <2>1, <2>2, <2>3
<1>9. LossIsMarked'
  BY <1>2, <1>8 DEF LossIsMarked
<1>10. QED
  BY <1>6, <1>7, <1>9 DEF UploadQueueInv

\* A report of the worker of claim t: its claim ends with an outcome, and if the
\* job changes, it is released.
LEMMA ReportStep ==
  ASSUME UploadQueueInv, NEW t \in DOMAIN claims, NEW outcome,
         outcome \in {"failed", "unknown", "completed"},
         Reports(t, outcome), NEW job \in UploadJob,
         jobs' = [jobs EXCEPT ![claims[t].job] = job],
         job = jobs[claims[t].job] \/ (job.token = NoToken /\ ~job.expired),
         \/ job.state \in {"Succeeded", "DeadLetter"}
         \/ job = jobs[claims[t].job] /\ (t = job.token => outcome # "unknown")
         \/ /\ jobs[claims[t].job].token = t
            /\ job.uncertain = jobs[claims[t].job].uncertain /\ outcome # "unknown"
         \/ jobs[claims[t].job].token = t /\ job.uncertain
  PROVE  UploadQueueInv'
<1>1. UploadRows
  BY UploadRowsHold DEF UploadQueueInv
<1> DEFINE i == claims[t].job
<1>2. i \in DOMAIN jobs
  BY <1>1 DEF UploadRows, Claim
<1>3. /\ DOMAIN jobs' = DOMAIN jobs /\ jobs'[i] = job
      /\ \A j \in DOMAIN jobs : j # i => jobs'[j] = jobs[j]
  BY <1>2
<1>4. jobs' \in [DOMAIN jobs -> UploadJob]
  BY <1>1, <1>3 DEF UploadRows
<1>5. /\ DOMAIN claims' = DOMAIN claims
      /\ \A u \in DOMAIN claims :
           /\ claims'[u].job = claims[u].job /\ claims'[u].late = claims[u].late
           /\ u # t => claims'[u].outcome = claims[u].outcome
           /\ claims'[u] \in Claim
      /\ claims'[t].outcome = outcome /\ claims[t].outcome = "open"
      /\ claims' \in [DOMAIN claims -> Claim]
  <2>1. claims' = [claims EXCEPT ![t].outcome = outcome] /\ claims[t] \in Claim
    BY <1>1 DEF Reports, UploadRows
  <2>2. claims'[t] = [claims[t] EXCEPT !.outcome = outcome]
    BY <2>1
  <2>3. claims'[t] \in Claim /\ claims'[t].job = claims[t].job
        /\ claims'[t].outcome = outcome /\ claims'[t].late = claims[t].late
    BY <2>1, <2>2 DEF Claim
  <2>4. QED
    BY <1>1, <2>1, <2>3 DEF UploadRows, Reports
<1>6. UploadQueueTypeOK'
  BY <1>3, <1>4, <1>5, UploadTypesInPlace DEF UploadQueueInv
<1>7. ASSUME NEW j \in DOMAIN jobs
      PROVE  /\ jobs'[j].token # NoToken =>
                  /\ jobs'[j].state = "Running"
                  /\ jobs'[j].token \in DOMAIN claims' /\ claims'[jobs'[j].token].job = j
             /\ jobs'[j].expired => jobs'[j].token # NoToken /\ claims'[jobs'[j].token].late
  <2>1. /\ jobs[j].token # NoToken =>
             /\ jobs[j].state = "Running"
             /\ jobs[j].token \in DOMAIN claims /\ claims[jobs[j].token].job = j
        /\ jobs[j].expired => jobs[j].token # NoToken /\ claims[jobs[j].token].late
    BY DEF UploadQueueInv, ClaimsMatch
  <2>2. jobs'[j] = jobs[j] \/ (jobs'[j].token = NoToken /\ ~jobs'[j].expired)
    BY <1>3
  <2>3. QED
    BY <1>5, <2>1, <2>2
<1>8. ASSUME NEW j \in DOMAIN jobs, NEW u \in DOMAIN claims,
             jobs'[j].state \notin {"Succeeded", "DeadLetter"},
             claims'[u].job = j, u # jobs'[j].token,
             claims'[u].outcome \in {"open", "unknown"}
      PROVE  jobs'[j].uncertain /\ (claims'[u].outcome = "open" => claims'[u].late)
  <2>1. ( /\ jobs[j].state \notin {"Succeeded", "DeadLetter"} /\ u # jobs[j].token )
          => jobs[j].uncertain /\ (claims[u].outcome = "open" => claims[u].late)
    <3>1. claims[u].job = j /\ claims[u].outcome \in {"open", "unknown"}
      BY <1>5, <1>8
    <3>2. QED
      BY <3>1 DEF UploadQueueInv, LossIsMarked
  <2>2. CASE j # i
    BY <1>3, <1>5, <1>8, <2>1, <2>2
  <2>3. CASE j = i /\ job = jobs[i]
    <3>1. jobs'[j] = jobs[j]
      BY <1>3, <2>3
    <3>2. jobs[j].state \notin {"Succeeded", "DeadLetter"} /\ u # jobs[j].token
      BY <1>8, <3>1
    <3>3. QED
      BY <1>5, <2>1, <3>1, <3>2
  <2>4. CASE j = i /\ job # jobs[i]
    <3>1. jobs[i].token = t /\ jobs'[j] = job
      BY <1>3, <1>8, <2>4
    <3>2. t # NoToken
      BY <1>1 DEF UploadRows, NoToken
    <3>3. jobs[j].state = "Running"
      BY <3>1, <3>2, <2>4 DEF UploadQueueInv, ClaimsMatch
    <3>4. CASE u = t
      BY <1>3, <1>5, <1>8, <2>4, <3>1, <3>4
    <3>5. CASE u # t
      BY <1>3, <1>5, <1>8, <2>1, <2>4, <3>1, <3>3, <3>5
    <3>6. QED
      BY <3>4, <3>5
  <2>5. QED
    BY <2>2, <2>3, <2>4
<1>9. ClaimsMatch' /\ LossIsMarked'
  BY <1>3, <1>5, <1>7, <1>8 DEF ClaimsMatch, LossIsMarked
<1>10. QED
  BY <1>6, <1>9 DEF UploadQueueInv

\* The four reports.
LEMMA ReportsKeep ==
  ASSUME UploadQueueInv, NEW t \in DOMAIN claims,
         schedule_retry(t) \/ mark_uncertain(t) \/ mark_completed(t) \/ mark_failed(t)
  PROVE  UploadQueueInv'
<1>1. UploadRows
  BY UploadRowsHold DEF UploadQueueInv
<1> DEFINE i == claims[t].job
<1>2. i \in DOMAIN jobs /\ jobs[i] \in UploadJob
  BY <1>1 DEF UploadRows, Claim
<1>3. ASSUME NEW state \in JobStates
      PROVE  /\ Released(jobs[i], state) \in UploadJob
             /\ Released(jobs[i], state).state = state
             /\ Released(jobs[i], state).token = NoToken
             /\ Released(jobs[i], state).expired = FALSE
             /\ Released(jobs[i], state).uncertain = jobs[i].uncertain
  BY <1>2, ReleasedJob
<1>4. jobs = [jobs EXCEPT ![i] = jobs[i]]
  BY <1>1, <1>2 DEF UploadRows
<1>5. CASE schedule_retry(t)
  <2> DEFINE job == [Released(jobs[i], "RetryScheduled") EXCEPT !.due = FALSE]
  <2>1. job \in UploadJob /\ job.token = NoToken /\ ~job.expired
        /\ job.uncertain = jobs[i].uncertain
    BY <1>3 DEF UploadJob, JobStates
  <2>2. Reports(t, "failed")
        /\ jobs' = IF jobs[i].token = t THEN [jobs EXCEPT ![i] = job] ELSE jobs
    BY <1>5 DEF schedule_retry, Claimed
  <2>3. CASE jobs[i].token = t
    BY <2>1, <2>2, <2>3, ReportStep
  <2>4. CASE jobs[i].token # t
    <3>1. jobs' = [jobs EXCEPT ![claims[t].job] = jobs[i]]
      BY <1>4, <2>2, <2>4
    <3>2. QED
      BY <1>2, <2>2, <2>4, <3>1, ReportStep
  <2>5. QED
    BY <2>3, <2>4
<1>6. CASE mark_uncertain(t)
  <2> DEFINE job == [Released(jobs[i], "Uncertain") EXCEPT !.uncertain = TRUE]
  <2>1. job \in UploadJob /\ job.token = NoToken /\ ~job.expired /\ job.uncertain
    BY <1>3 DEF UploadJob, JobStates
  <2>2. Reports(t, "unknown")
        /\ jobs' = IF jobs[i].token = t THEN [jobs EXCEPT ![i] = job] ELSE jobs
    BY <1>6 DEF mark_uncertain, Claimed
  <2>3. CASE jobs[i].token = t
    BY <2>1, <2>2, <2>3, ReportStep
  <2>4. CASE jobs[i].token # t
    <3>1. jobs' = [jobs EXCEPT ![claims[t].job] = jobs[i]]
      BY <1>4, <2>2, <2>4
    <3>2. QED
      BY <1>2, <2>2, <2>4, <3>1, ReportStep
  <2>5. QED
    BY <2>3, <2>4
<1>7. CASE mark_completed(t)
  <2> DEFINE job == [Released(jobs[i], "Succeeded") EXCEPT !.due = TRUE, !.uncertain = FALSE]
  <2>1. job \in UploadJob /\ job.token = NoToken /\ ~job.expired /\ job.state = "Succeeded"
    BY <1>3 DEF UploadJob, JobStates
  <2>2. Reports(t, "completed") /\ jobs' = [jobs EXCEPT ![claims[t].job] = job]
    BY <1>7 DEF mark_completed
  <2>3. QED
    BY <2>1, <2>2, ReportStep
<1>8. CASE mark_failed(t)
  <2> DEFINE job == Released(jobs[i], "DeadLetter")
  <2>1. job \in UploadJob /\ job.token = NoToken /\ ~job.expired /\ job.state = "DeadLetter"
    BY <1>3 DEF UploadJob, JobStates
  <2>2. Reports(t, "failed") /\ jobs' = [jobs EXCEPT ![claims[t].job] = job]
    BY <1>8 DEF mark_failed
  <2>3. QED
    BY <2>1, <2>2, ReportStep
<1>9. QED
  BY <1>5, <1>6, <1>7, <1>8

\* The inductive invariant holds in every behavior.
LEMMA UploadQueueInvariant == UploadQueueSpec => []UploadQueueInv
<1>1. UploadQueueInit => UploadQueueInv
  <2> SUFFICES ASSUME UploadQueueInit PROVE UploadQueueInv
    OBVIOUS
  <2>1. jobs = << >> /\ claims = << >> /\ Len(jobs) = 0 /\ DOMAIN jobs = {} /\ DOMAIN claims = {}
    BY DEF UploadQueueInit
  <2>2. UploadQueueTypeOK
    <3>1. jobs \in Seq(UploadJob) /\ claims \in Seq(Claim)
      BY <2>1, EmptySeq
    <3>2. 0 <= queue_limit
      BY UploadQueueAssumption
    <3>3. QED
      BY <2>1, <3>1, <3>2 DEF UploadQueueTypeOK, Claim
  <2>3. QED
    BY <2>1, <2>2 DEF UploadQueueInv, ClaimsMatch, LossIsMarked
<1>2. UploadQueueInv /\ [UploadQueueNext]_uploadQueueVars => UploadQueueInv'
  <2> SUFFICES ASSUME UploadQueueInv, [UploadQueueNext]_uploadQueueVars PROVE UploadQueueInv'
    OBVIOUS
  <2>1. CASE UNCHANGED uploadQueueVars
    BY <2>1 DEF uploadQueueVars, UploadQueueInv, UploadQueueTypeOK, ClaimsMatch, LossIsMarked
  <2>2. CASE create_job
    BY <2>2, CreateJobStep
  <2>3. CASE claim_next
    BY <2>3, ClaimNextStep
  <2>4. CASE recover_expired_leases
    BY <2>4, RecoverLeasesStep
  <2>5. CASE \E j \in DOMAIN jobs : RetryComesDue(j)
    BY <2>5, RetryComesDueStep
  <2>6. CASE \E t \in DOMAIN claims : LeaseExpires(t)
    BY <2>6, LeaseExpiresStep
  <2>7. CASE \E t \in DOMAIN claims : \/ schedule_retry(t) \/ mark_uncertain(t)
                                      \/ mark_completed(t) \/ mark_failed(t)
    BY <2>7, ReportsKeep
  <2>8. QED
    BY <2>1, <2>2, <2>3, <2>4, <2>5, <2>6, <2>7 DEF UploadQueueNext
<1>3. QED
  BY <1>1, <1>2, PTL DEF UploadQueueSpec

\* For any number of jobs, claims and workers: while a job runs, the other
\* attempts at it that ended without an answer, or that nobody heard of, are on
\* record (claim_next, recover_expired_leases and the reports of upload.rs).
THEOREM RepeatsAreMarked == UploadQueueSpec => []RepeatIsMarked
<1>1. UploadQueueInv => RepeatIsMarked
  BY DEF UploadQueueInv, LossIsMarked, RepeatIsMarked
<1>2. QED
  BY <1>1, UploadQueueInvariant, PTL

\* Jobs and claims are well formed, and the queue stays within its limit.
THEOREM UploadQueueTypes == UploadQueueSpec => []UploadQueueTypeOK
<1>1. UploadQueueInv => UploadQueueTypeOK
  BY DEF UploadQueueInv
<1>2. QED
  BY <1>1, UploadQueueInvariant, PTL

-----------------------------------------------------------------------------
(***************************************************************************)
(* The parts together.                                                     *)
(***************************************************************************)

\* The composition that is model-checked is faithful to its parts: each of them
\* does what its own specification allows, and nothing else changes its state.
LEMMA PartsBehave ==
  Spec => WorkSpec /\ LanSpec /\ AccountSpec /\ DrainSpec /\ UploadQueueSpec
<1> DEFINE all == <<workVars, lanVars, accountVars, drainVars, uploadQueueVars>>
<1>1. Init => WorkInit /\ LanInit /\ AccountInit /\ DrainInit /\ UploadQueueInit
  BY DEF Init
<1>2. [Next]_all => [WorkNext]_workVars
  BY DEF Next, WorkIdle
<1>3. [Next]_all => [LanNext]_lanVars
  BY DEF Next, LanIdle
<1>4. [Next]_all => [AccountNext]_accountVars
  BY DEF Next, AccountIdle
<1>5. [Next]_all => [DrainNext]_drainVars
  BY DEF Next, DrainIdle
<1>6. [Next]_all => [UploadQueueNext]_uploadQueueVars
  BY DEF Next, UploadQueueIdle
<1>7. QED
  BY <1>1, <1>2, <1>3, <1>4, <1>5, <1>6, PTL
     DEF Spec, WorkSpec, LanSpec, AccountSpec, DrainSpec, UploadQueueSpec

\* Projections, trust files, account record, credential stores, requests and the
\* two queues stay well formed, and every identifier they name is known, after any
\* sequence of commands, requests, late answers and interrupted writes.
THEOREM StationTypes == Spec => []TypeOK
<1>1. WorkTypeOK /\ LanTypeOK /\ AccountTypeOK /\ DrainTypeOK /\ UploadQueueTypeOK => TypeOK
  BY DEF TypeOK
<1>2. QED
  BY <1>1, PartsBehave, WorkTypes, LanTypesHold, AccountTypes, DesktopTypes, UploadQueueTypes, PTL

\* What is proved of the parts holds of the whole station: the events it exchanges,
\* its trusted peers, its hosted account, and what its two queues report.
THEOREM StationIsSafe ==
  Spec => [](/\ ValidAtItsPlace
             /\ TrustHasSecret /\ PairedSidesAgree /\ AnsweredOnce
             /\ SecretsMatchRecord /\ HoldsItsSession
             /\ DrainReportsAreTrue /\ RepeatIsMarked)
  BY PartsBehave, TakenEventsAreValid, TrustedPeersHaveSecrets, PairsAgree,
     RepeatsAreRefused, SecretsAlwaysMatch, SignedInHoldsSession,
     DesktopReportsAreTrue, RepeatsAreMarked, PTL
=============================================================================
