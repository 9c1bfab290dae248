---------------------------- MODULE MCSharedApps ----------------------------
(***************************************************************************)
(* SharedApps for TLC: two Deployments and one StatefulSet, of which one   *)
(* Deployment and the StatefulSet may be listed by two storage classes.    *)
(***************************************************************************)
EXTENDS SharedApps, TLC

CONSTANTS d1, d2, s1, up, up2, rs, DoublyListed

OnceOrTwice == [a \in Apps |-> IF a \in DoublyListed THEN 2 ELSE 1]

\* Two upgrades that compete are interchangeable.
Rivals == Permutations(Upgrades)
=============================================================================
