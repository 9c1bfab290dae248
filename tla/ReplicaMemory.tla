--------------------------- MODULE ReplicaMemory ---------------------------
(***************************************************************************)
(* What the scale-down and restore of shared applications promise the      *)
(* owner of a workload, without processes, copies, faults and annotations: *)
(* a workload is free, held at zero or gone; a count belongs to it that    *)
(* only its owner changes; and while it is held its owner is the only one  *)
(* who can make the count be forgotten, by deleting the workload.          *)
(***************************************************************************)
CONSTANTS
    Workloads,
    Sizes        \* the replica counts

VARIABLES
    state,       \* state[w]: "free", "held" or "gone"
    count        \* count[w]: what w runs with, or will run with when released

Init ==
    /\ state = [w \in Workloads |-> "free"]
    /\ count \in [Workloads -> Sizes]

Become(w, before, after) ==
    /\ state[w] = before
    /\ state' = [state EXCEPT ![w] = after]
    /\ UNCHANGED count

\* ScaleSharedAppsToZero takes hold of a workload that has replicas.
Hold(w) == count[w] # 0 /\ Become(w, "free", "held")

\* RestoreScaledAppsReplicas lets it go.
Release(w) == Become(w, "held", "free")

OwnerScales(w) ==
    /\ state[w] = "free"
    /\ \E n \in Sizes : count' = [count EXCEPT ![w] = n]
    /\ UNCHANGED state

OwnerDeletes(w) == Become(w, "free", "gone") \/ Become(w, "held", "gone")

Next ==
    \E w \in Workloads : Hold(w) \/ Release(w) \/ OwnerScales(w) \/ OwnerDeletes(w)

Spec == Init /\ [][Next]_<<state, count>>
=============================================================================
