----------------------------- MODULE MCCutover -----------------------------
(***************************************************************************)
(* Cutover for TLC.                                                         *)
(***************************************************************************)
EXTENDS Cutover

CONSTANTS timer, user
=============================================================================
