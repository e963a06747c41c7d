---------------------------- MODULE MCRetryDrain ----------------------------
(***************************************************************************)
(* Instances of RetryDrain for TLC.                                        *)
(***************************************************************************)
EXTENDS RetryDrain

MCOps == 1..2 \cup Support
=============================================================================
