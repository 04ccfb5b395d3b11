----------------------------- MODULE MCLocalHost -----------------------------
(* LocalHost for TLC. *)
EXTENDS LocalHost
=============================================================================
