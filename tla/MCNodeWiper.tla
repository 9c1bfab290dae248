----------------------------- MODULE MCNodeWiper ----------------------------
(***************************************************************************)
(* NodeWiper for TLC.                                                      *)
(***************************************************************************)
EXTENDS NodeWiper, TLC

CONSTANTS n1, n2
=============================================================================
