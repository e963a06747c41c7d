------------------------------ MODULE MCClients ------------------------------
(* Five parts of a station that share no state: its proposals, the trust    *)
(* between desktops, its hosted account, the drain of its queue to its own  *)
(* server, and its uploads to providers.  Each behaviour follows one of     *)
(* them and leaves the others as they started.  Two interchangeable         *)
(* desktops.                                                                *)
EXTENDS Workflow, LanTrust, AccountClient, DesktopDrain, UploadQueue, TLC

CONSTANTS a1, l1, d1, d2

WorkIdle == WorkInit /\ UNCHANGED workVars
LanIdle == LanInit /\ UNCHANGED lanVars
AccountIdle == AccountInit /\ UNCHANGED accountVars
DrainIdle == DrainInit /\ UNCHANGED drainVars
UploadQueueIdle == UploadQueueInit /\ UNCHANGED uploadQueueVars

Init == WorkInit /\ LanInit /\ AccountInit /\ DrainInit /\ UploadQueueInit

Next ==
    \/ LanIdle /\ AccountIdle /\ DrainIdle /\ UploadQueueIdle /\ WorkNext
    \/ WorkIdle /\ AccountIdle /\ DrainIdle /\ UploadQueueIdle /\ LanNext
    \/ WorkIdle /\ LanIdle /\ DrainIdle /\ UploadQueueIdle /\ AccountNext
    \/ WorkIdle /\ LanIdle /\ AccountIdle /\ UploadQueueIdle /\ DrainNext
    \/ WorkIdle /\ LanIdle /\ AccountIdle /\ DrainIdle /\ UploadQueueNext

Spec ==
    Init /\ [][Next]_<<workVars, lanVars, accountVars, drainVars, uploadQueueVars>>

Symmetry == Permutations({d1, d2})

(* Proposals about contacts and activations are followed apart from those   *)
(* about nets, with two events that one replica has and the other lacks.    *)
(* Writes of the trust and credential stores are interrupted while there is *)
(* one pairing token, and requests are delivered late or twice under one    *)
(* token or two.  The operations of the queue, which are numbers, are taken *)
(* in order.                                                                *)
Explored ==
    /\ \/ \A r \in Replicas : projection[r].qsos = <<>> /\ projection[r].activations = <<>>
       \/ \A r \in Replicas : projection[r].sessions = <<>>
    /\ Len(ahead["server"]) + Len(ahead["desktop"]) <= 2
    /\ lanFaults = 0 \/ Cardinality(DOMAIN tokens) <= 1
    /\ \A op \in Ops : ~IsNew(op) => \A earlier \in 1 .. op - 1 : ~IsNew(earlier)

(* Projections, trust files, account record, credential stores, requests    *)
(* and the two queues are well formed, and every identifier they name is    *)
(* known.                                                                   *)
TypeOK ==
    WorkTypeOK /\ LanTypeOK /\ AccountTypeOK /\ DrainTypeOK /\ UploadQueueTypeOK
=============================================================================
