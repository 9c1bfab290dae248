----------------------------- MODULE MCCRDInit -----------------------------
(***************************************************************************)
(* CRDInit for TLC: two callers that create the same two definitions.      *)
(***************************************************************************)
EXTENDS CRDInit, TLC

CONSTANTS r1, r2, c1, c2

MCList == <<r1, r2>>
=============================================================================
