----------------------------- MODULE MCDeletePX -----------------------------
(***************************************************************************)
(* DeletePX for TLC: two DaemonSets in one or in different namespaces.     *)
(***************************************************************************)
EXTENDS DeletePX, TLC

CONSTANTS px, px2, ns1, ns2, n1, n2

OneHome == (px :> ns1) @@ (px2 :> ns1)
TwoHomes == (px :> ns1) @@ (px2 :> ns2)

\* Node n2 is kept out of Portworx.
MCSelects == (px :> {n1}) @@ (px2 :> {n1})

\* The DaemonSets may disagree; the first one that is listed decides.
MCConfigs == {(px :> "external") @@ (px2 :> "internal"), (px :> "external") @@ (px2 :> "broken")}
=============================================================================
