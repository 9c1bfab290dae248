------------------------- MODULE MCDaemonSetRollout -------------------------
(***************************************************************************)
(* DaemonSetRollout for TLC: one or two DaemonSets on one or two nodes.    *)
(***************************************************************************)
EXTENDS DaemonSetRollout, TLC

CONSTANTS px, px2, n1, n2
=============================================================================
