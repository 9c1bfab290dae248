----------------------------- MODULE MCUpgrade -----------------------------
(***************************************************************************)
(* Upgrade for TLC: a Deployment with a volume, a loose pod with another,  *)
(* two nodes, an upgrade and the restore that is run after it.             *)
(***************************************************************************)
EXTENDS Upgrade, TLC

CONSTANTS d1, up, rs, n1, n2, v1, v2

MCOwner == (v1 :> d1) @@ (v2 :> NoApp)

\* The Deployment is on two shared storage classes.
MCListed == [a \in Apps |-> 2]

MCVersions == {<<1, 2, 16>>, <<1, 3, 0>>, NoLabel}
MCTags == {<<1, 3, 4>>, <<1, 4, 0>>}

Case(first, second, t) == [version |-> (n1 :> first) @@ (n2 :> second), tag |-> t]

\* Drained because of the tag, because of the version, and as the order has it.
MCCases == {Case(<<1, 3, 0>>, <<1, 3, 0>>, <<1, 3, 4>>), Case(<<1, 2, 16>>, <<1, 2, 16>>, <<1, 4, 0>>),
            Case(<<1, 2, 16>>, NoLabel, <<1, 4, 0>>)}

\* An upgrade from 1.2 to 1.3 that was given up half-way.
MCMixed == {Case(<<1, 2, 16>>, <<1, 3, 0>>, <<1, 4, 0>>)}
=============================================================================
