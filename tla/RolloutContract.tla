-------------------------- MODULE RolloutContract --------------------------
(***************************************************************************)
(* What upgradePX promises an operator, without generations, listings, a   *)
(* lagging controller and retries: a DaemonSet gets the new image once,    *)
(* and only when the permissions of the new version are in place; a pod    *)
(* that runs the new image never goes back; and the upgrade is done only   *)
(* when every DaemonSet has the image, and, unless it was disturbed by a   *)
(* fault or by somebody else's edit, every pod runs it.                    *)
(***************************************************************************)
CONSTANTS
    DaemonSets,
    Nodes

VARIABLES
    allowed,     \* are all permissions in place?
    image,       \* the DaemonSets that have the new image
    fresh,       \* the pods, <<ds, n>>, that run it
    disturbed,   \* did a call fail, or somebody else edit a DaemonSet?
    done         \* has upgradePX returned nil?

vars == <<allowed, image, fresh, disturbed, done>>

Pods == DaemonSets \X Nodes

Init ==
    /\ allowed = FALSE /\ disturbed = FALSE /\ done = FALSE
    /\ image = {} /\ fresh = {}

\* A call that fails may have been carried out all the same.
MayBeDisturbed == disturbed' \in {disturbed, TRUE}

Allow ==
    /\ allowed' = TRUE
    /\ MayBeDisturbed
    /\ UNCHANGED <<image, fresh, done>>

SetImage(ds) ==
    /\ allowed /\ ~done
    /\ ds \notin image
    /\ image' = image \cup {ds}
    /\ MayBeDisturbed
    /\ UNCHANGED <<allowed, fresh, done>>

Replace(ds, n) ==
    /\ ds \in image
    /\ fresh' = fresh \cup {<<ds, n>>}
    /\ UNCHANGED <<allowed, image, disturbed, done>>

Disturb ==
    /\ disturbed' = TRUE
    /\ UNCHANGED <<allowed, image, fresh, done>>

Finish ==
    /\ image = DaemonSets
    /\ disturbed \/ fresh = Pods
    /\ done' = TRUE
    /\ UNCHANGED <<allowed, image, fresh, disturbed>>

Next ==
    \/ Allow \/ Disturb \/ Finish
    \/ \E ds \in DaemonSets : SetImage(ds) \/ \E n \in Nodes : Replace(ds, n)

Spec == Init /\ [][Next]_vars
=============================================================================
