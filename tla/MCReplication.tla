--------------------------- MODULE MCReplication ---------------------------
(***************************************************************************)
(* Instances of Replication for TLC.                                       *)
(***************************************************************************)
EXTENDS Replication

MCEventIds == 1..3

ClientSymmetry == Permutations(Clients)
=============================================================================
