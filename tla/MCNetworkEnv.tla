---------------------------- MODULE MCNetworkEnv ----------------------------
(***************************************************************************)
(* Instances of NetworkEnv for TLC: enough blocks for a transaction of the *)
(* environment, one of others and one of the same account from elsewhere.  *)
(***************************************************************************)
EXTENDS NetworkEnv

CONSTANT none
=============================================================================
