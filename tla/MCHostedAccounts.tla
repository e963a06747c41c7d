-------------------------- MODULE MCHostedAccounts --------------------------
(* Two mailboxes, interchangeable; few identifiers of each kind, and of all *)
(* kinds together not more than a story of one administrator and one        *)
(* invited or recovering user needs, one less after a fault.  A logbook     *)
(* that is created counts twice.                                            *)
EXTENDS HostedAccounts, TLC

CONSTANTS alice, bob, MaxIssued, MaxIssuedLater

Symmetry == Permutations({alice, bob})

Drawn == issued.users + issued.sessions + issued.devices + issued.invites
         + issued.recoveries + 2 * issued.logbooks

Explored == Drawn <= (IF lost \/ expired # {} THEN MaxIssuedLater ELSE MaxIssued - faults)
=============================================================================
