---------------------------- MODULE MCNodeManager ----------------------------
(* NodeManager for TLC. *)
EXTENDS NodeManager
=============================================================================
