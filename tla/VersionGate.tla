----------------------------- MODULE VersionGate -----------------------------
(***************************************************************************)
(* The decision of Upgrade whether the applications have to be drained:    *)
(* isUpgradeAppDrainRequired, isAnyNodeRunningVersionWithPrefix and        *)
(* parsePXVersion (pkg/cluster/px/px.go).                                  *)
(*                                                                         *)
(* A version is <<major, minor, patch>>.  The code compares strings, so a  *)
(* component is compared by its decimal digits (of which it has at most    *)
(* two here): "1.2" is a prefix of "1.20.0".                               *)
(***************************************************************************)
EXTENDS Naturals, Sequences

CONSTANTS
    NoLabel,      \* a node without the "PX Version" label
    Unparsable    \* a tag that does not start with three numbers ("latest")

Dublin == <<1, 2>>

\* strings.HasPrefix of the text of v and the text of prefix.
HasPrefix(v, prefix) ==
    LET last == Len(prefix) IN
    /\ \A i \in 1 .. last - 1 : v[i] = prefix[i]
    /\ v[last] = prefix[last] \/ v[last] \div 10 = prefix[last]

\* The loop over the nodes of Enumerate looks at the first one every time.
isAnyNodeRunningVersionWithPrefix(labels, prefix) ==
    IF labels = <<>> THEN "no"
    ELSE IF labels[1] = NoLabel THEN "error"
    ELSE IF HasPrefix(labels[1], prefix) THEN "yes" ELSE "no"

\* A tag is the dotted numbers it starts with; pxVersionRegex keeps three of them.
parsePXVersion(tag) == IF Len(tag) >= 3 THEN SubSeq(tag, 1, 3) ELSE Unparsable

\* Faulty variant: the version that runs is not looked at.
isUpgradeAppDrainRequiredFromAny(labels, tag) ==
    LET dublin == isAnyNodeRunningVersionWithPrefix(labels, Dublin)
        new    == parsePXVersion(tag)
    IN IF dublin = "error" \/ new = Unparsable THEN "error"
       ELSE IF HasPrefix(new, <<1, 3>>) \/ HasPrefix(new, <<1, 4>>) THEN "yes" ELSE "no"

\* Faulty variant: the exception for 1.3.4 is forgotten.
isUpgradeAppDrainRequiredNot134(labels, tag) ==
    LET dublin == isAnyNodeRunningVersionWithPrefix(labels, Dublin)
        new    == parsePXVersion(tag)
    IN IF dublin = "error" \/ new = Unparsable THEN "error"
       ELSE IF \/ HasPrefix(new, <<1, 3, 3>>)
               \/ dublin = "yes" /\ (HasPrefix(new, <<1, 3>>) \/ HasPrefix(new, <<1, 4>>))
       THEN "yes" ELSE "no"

isUpgradeAppDrainRequired(labels, tag) ==
    LET dublin == isAnyNodeRunningVersionWithPrefix(labels, Dublin)
        new    == parsePXVersion(tag)
    IN IF dublin = "error" \/ new = Unparsable THEN "error"
       ELSE IF \/ HasPrefix(new, <<1, 3, 3>>) \/ HasPrefix(new, <<1, 3, 4>>)
               \/ dublin = "yes" /\ (HasPrefix(new, <<1, 3>>) \/ HasPrefix(new, <<1, 4>>))
       THEN "yes" ELSE "no"

-----------------------------------------------------------------------------
(***************************************************************************)
(* Reference: "checks if target is 1.3.3/1.3.4 or upgrade is from 1.2 to   *)
(* 1.3/1.4" (the comment of isUpgradeAppDrainRequired), for one node that  *)
(* is replaced.                                                            *)
(***************************************************************************)
Is(v, prefix) == SubSeq(v, 1, Len(prefix)) = prefix

NeedsDrain(from, to) ==
    \/ Is(to, <<1, 3, 3>>) \/ Is(to, <<1, 3, 4>>)
    \/ Is(from, Dublin) /\ (Is(to, <<1, 3>>) \/ Is(to, <<1, 4>>))
=============================================================================
