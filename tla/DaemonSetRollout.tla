-------------------------- MODULE DaemonSetRollout --------------------------
(***************************************************************************)
(* upgradePX (pkg/cluster/px/px.go): permissions first, then the new image *)
(* is put into every Portworx DaemonSet, then for each of them the code    *)
(* waits until the controller has observed the generation it expects,      *)
(* validates the DaemonSet, and refreshes the Portworx services.  The      *)
(* pre-flight checks of Upgrade come before, and the Job restarts a failed *)
(* pod.                                                                    *)
(*                                                                         *)
(* External: the API server bumps the generation with every change of the  *)
(* spec and refuses an Update of a stale copy; the DaemonSet controller    *)
(* works on a cached generation, replaces pods one at a time, and writes   *)
(* a status computed from what it cached.                                  *)
(***************************************************************************)
EXTENDS Integers, FiniteSets

CONSTANTS
    DaemonSets,      \* the DaemonSets with label name=portworx
    Nodes,           \* the nodes, each with one pod of every DaemonSet
    MayBePinned,     \* DaemonSets whose container may set the PX_IMAGE variable
    Timeouts,        \* the values of -upgradetimeoutpernode
    NoDS,            \* "no DaemonSet"
    BackoffLimit,    \* backoffLimit of the Job
    MaxFaults,       \* bound on failed calls, time-outs and crashes
    MaxEdits         \* bound on other edits of the DaemonSets' specs

\* The calls that give Portworx its permissions, in the order of the code.
PermissionCalls == {"clusterRole", "namespace", "role", "roleBinding"}

ASSUME RolloutAssumption ==
    /\ MayBePinned \subseteq DaemonSets
    /\ IsFiniteSet(Nodes) /\ Nodes # {}
    /\ NoDS \notin DaemonSets
    /\ Timeouts \subseteq Nat /\ BackoffLimit \in Nat
    /\ MaxFaults \in Nat /\ MaxEdits \in Nat

VARIABLES
    pinned,         \* the DaemonSets that set PX_IMAGE
    timeoutPerNode, \* the flag of this upgrade
    \* the DaemonSets
    gen,        \* metadata.generation
    newAt,      \* the generation that brought the new image, 0 before
    observed,   \* status.observedGeneration
    allUpdated, \* status: updatedNumberScheduled = desiredNumberScheduled
    allReady,   \* status: numberReady = desired and numberUnavailable = 0
    cached,     \* the generation the controller works on
    podGen,     \* podGen[ds][n]: the generation of the pod's template
    podReady,   \* podReady[ds][n]: is the pod ready?
    \* the rest of the cluster
    granted,    \* the permission objects that are in their new form
    service,    \* portworx-service: "stock" or "patched"
    apiDS,      \* does the portworx-api DaemonSet exist?
    apiService, \* portworx-api service: "absent", "stale" or "current"
    \* the process
    pc, todo, cur,
    calls,      \* the permission calls this attempt has made
    seen,       \* the listing: status.observedGeneration, image, still current?
    expected,   \* expectedGenerations
    attempts, faults, edits

status == <<observed, allUpdated, allReady>>
pods == <<podGen, podReady>>
cluster == <<granted, service, apiDS, apiService>>
given == <<pinned, timeoutPerNode>>
vars == <<pinned, timeoutPerNode, gen, newAt, observed, allUpdated, allReady, cached, podGen, podReady, granted, service,
          apiDS, apiService, pc, todo, cur, calls, seen, expected, attempts, faults, edits>>

Locations == {"preflight", "permissions", "list", "update", "wait", "validate",
              "service", "apiDaemonset", "apiService",
              "succeeded", "failed", "crashed"}

Ended == {"succeeded", "failed", "crashed"}

\* Does generation g of ds run the new image?
IsNew(ds, g) == newAt[ds] # 0 /\ g >= newAt[ds]

\* getDaemonSetReadyTimeout
readyTimeout == (Cardinality(Nodes) - 1) * timeoutPerNode

-----------------------------------------------------------------------------
Unseen == [ds \in DaemonSets |-> [observed |-> 0, new |-> FALSE, current |-> FALSE]]

Init ==
    /\ pinned \in SUBSET MayBePinned
    /\ timeoutPerNode \in Timeouts
    /\ gen = [ds \in DaemonSets |-> 1]
    /\ newAt = [ds \in DaemonSets |-> 0]
    /\ observed = [ds \in DaemonSets |-> 1]
    /\ allUpdated = [ds \in DaemonSets |-> TRUE]
    /\ allReady = [ds \in DaemonSets |-> TRUE]
    /\ cached = [ds \in DaemonSets |-> 1]
    /\ podGen = [ds \in DaemonSets |-> [n \in Nodes |-> 1]]
    /\ podReady = [ds \in DaemonSets |-> [n \in Nodes |-> TRUE]]
    /\ granted = {}
    /\ service = "stock"
    /\ apiDS \in BOOLEAN
    /\ apiService \in {"absent", "stale"}
    /\ pc = "preflight"
    /\ todo = {}
    /\ cur = NoDS
    /\ calls = {}
    /\ seen = Unseen
    /\ expected = [ds \in DaemonSets |-> 0]
    /\ attempts = 0 /\ faults = 0 /\ edits = 0

Fault == faults < MaxFaults /\ faults' = faults + 1

Goto(l) == pc' = l

\* The object of ds was written: the listed copy of it is stale.
Touch(ds) == seen' = [seen EXCEPT ![ds].current = FALSE]

-----------------------------------------------------------------------------
\* External: the controller sees the latest spec.
ControllerObserves(ds) ==
    /\ cached[ds] # gen[ds]
    /\ cached' = [cached EXCEPT ![ds] = gen[ds]]
    /\ UNCHANGED <<gen, newAt, status, pods, cluster, pc, todo, cur, calls, seen,
                   expected, attempts, faults, edits>>

\* External: the rolling update replaces one pod while the others are ready.
ControllerReplacesPod(ds, n) ==
    /\ podGen[ds][n] # cached[ds]
    /\ \A m \in Nodes \ {n} : podReady[ds][m]
    /\ podGen' = [podGen EXCEPT ![ds][n] = cached[ds]]
    /\ podReady' = [podReady EXCEPT ![ds][n] = FALSE]
    /\ UNCHANGED <<gen, newAt, status, cached, cluster, pc, todo, cur, calls, seen,
                   expected, attempts, faults, edits>>

\* External: the new pod becomes ready.
PodBecomesReady(ds, n) ==
    /\ ~podReady[ds][n]
    /\ podReady' = [podReady EXCEPT ![ds][n] = TRUE]
    /\ UNCHANGED <<gen, newAt, podGen, status, cached, cluster, pc, todo, cur, calls, seen,
                   expected, attempts, faults, edits>>

\* External: the controller writes the status of the generation it works on.
Updated(ds) == \A n \in Nodes : podGen[ds][n] = cached[ds]
Ready(ds) == \A n \in Nodes : podReady[ds][n]

ControllerWritesStatus(ds) ==
    /\ <<observed[ds], allUpdated[ds], allReady[ds]>> # <<cached[ds], Updated(ds), Ready(ds)>>
    /\ observed' = [observed EXCEPT ![ds] = cached[ds]]
    /\ allUpdated' = [allUpdated EXCEPT ![ds] = Updated(ds)]
    /\ allReady' = [allReady EXCEPT ![ds] = Ready(ds)]
    /\ Touch(ds)
    /\ UNCHANGED <<gen, newAt, cached, pods, cluster, pc, todo, cur, calls, expected,
                   attempts, faults, edits>>

\* Someone else edits the DaemonSet, not its image.
OtherEdit(ds) ==
    /\ edits < MaxEdits
    /\ edits' = edits + 1
    /\ gen' = [gen EXCEPT ![ds] = @ + 1]
    /\ Touch(ds)
    /\ UNCHANGED <<newAt, status, cached, pods, cluster, pc, todo, cur, calls, expected,
                   attempts, faults>>

-----------------------------------------------------------------------------
\* The conditions of ValidateDaemonSet.
Valid(ds) ==
    /\ observed[ds] # 0
    /\ allUpdated[ds]
    /\ allReady[ds]
    /\ Ready(ds)

preFlightChecks ==
    /\ pc = "preflight"
    /\ \A ds \in DaemonSets : Valid(ds)
    /\ Goto("permissions")
    /\ UNCHANGED <<gen, newAt, status, cached, pods, cluster, todo, cur, calls, seen,
                   expected, attempts, faults, edits>>

\* The next call in the order cluster role, namespace, role, role binding.
NextCall(c) ==
    /\ c \notin calls
    /\ c = "namespace" => "clusterRole" \in calls
    /\ c = "role" => "namespace" \in calls
    /\ c = "roleBinding" => "role" \in calls

Grant(c) ==
    /\ pc = "permissions"
    /\ NextCall(c)
    /\ granted' = granted \cup {c}
    /\ calls' = calls \cup {c}
    /\ UNCHANGED <<gen, newAt, status, cached, pods, service, apiDS, apiService, pc, todo,
                   cur, seen, expected, attempts, faults, edits>>

\* A permission call fails, stored or not: upgradePX returns the error.
GrantFails(c) ==
    /\ pc = "permissions"
    /\ NextCall(c)
    /\ Fault
    /\ \/ granted' = granted \cup {c}
       \/ UNCHANGED granted
    /\ Goto("failed")
    /\ UNCHANGED <<gen, newAt, status, cached, pods, service, apiDS, apiService, todo, cur,
                   calls, seen, expected, attempts, edits>>

\* Faulty variant: only the cluster role is updated before the DaemonSets.
PermissionsDoneEarly ==
    /\ pc = "permissions"
    /\ "clusterRole" \in calls
    /\ Goto("list")
    /\ UNCHANGED <<gen, newAt, status, cached, pods, cluster, todo, cur, calls, seen,
                   expected, attempts, faults, edits>>

PermissionsDone ==
    /\ pc = "permissions"
    /\ calls = PermissionCalls
    /\ Goto("list")
    /\ UNCHANGED <<gen, newAt, status, cached, pods, cluster, todo, cur, calls, seen,
                   expected, attempts, faults, edits>>

-----------------------------------------------------------------------------
\* An attempt of the update closure starts with a listing.
getPXDaemonsets ==
    /\ pc = "list"
    /\ seen' = [ds \in DaemonSets |->
                  [observed |-> observed[ds], new |-> newAt[ds] # 0, current |-> TRUE]]
    /\ todo' = DaemonSets
    /\ Goto("update")
    /\ UNCHANGED <<gen, newAt, status, cached, pods, cluster, cur, calls, expected,
                   attempts, faults, edits>>

\* The DaemonSet has the image already: its status says what to wait for.
SkipUpdate(ds) ==
    /\ pc = "update" /\ ds \in todo \ pinned
    /\ seen[ds].new
    /\ expected' = [expected EXCEPT ![ds] = seen[ds].observed]
    /\ todo' = todo \ {ds}
    /\ UNCHANGED <<gen, newAt, status, cached, pods, cluster, pc, cur, calls, seen,
                   attempts, faults, edits>>

\* PX_IMAGE is set: no retry, whatever was updated before.
RefusePinned(ds) ==
    /\ pc = "update" /\ ds \in todo \cap pinned
    /\ Goto("failed")
    /\ UNCHANGED <<gen, newAt, status, cached, pods, cluster, todo, cur, calls, seen,
                   expected, attempts, faults, edits>>

\* Faulty variant: the update is counted as two generations.
UpdatingCountedTwice(ds) ==
    /\ pc = "update" /\ ds \in todo \ pinned
    /\ ~seen[ds].new
    /\ expected' = [expected EXCEPT ![ds] = seen[ds].observed + 2]
    /\ UNCHANGED <<status, cached, pods, cluster, cur, calls, attempts, edits>>

Updating(ds) ==
    /\ pc = "update" /\ ds \in todo \ pinned
    /\ ~seen[ds].new
    /\ expected' = [expected EXCEPT ![ds] = seen[ds].observed + 1]
    /\ UNCHANGED <<status, cached, pods, cluster, cur, calls, attempts, edits>>

StoreImage(ds) ==
    /\ seen[ds].current
    /\ gen' = [gen EXCEPT ![ds] = @ + 1]
    /\ newAt' = [newAt EXCEPT ![ds] = gen[ds] + 1]
    /\ Touch(ds)

UpdateDaemonSet(ds) ==
    /\ Updating(ds)
    /\ StoreImage(ds)
    /\ todo' = todo \ {ds}
    /\ UNCHANGED <<pc, faults>>

\* Every error of Update starts another attempt with a new listing.
UpdateRefused(ds) ==
    /\ Updating(ds)
    /\ ~seen[ds].current
    /\ Goto("list")
    /\ UNCHANGED <<gen, newAt, seen, todo, faults>>

UpdateReplyLost(ds) ==
    /\ Updating(ds)
    /\ StoreImage(ds)
    /\ Fault
    /\ Goto("list")
    /\ UNCHANGED todo

\* Faulty variant: an error of Update is not returned, the loop goes on.
UpdateFailsSwallowed(ds) ==
    /\ Updating(ds)
    /\ Fault
    /\ todo' = todo \ {ds}
    /\ UNCHANGED <<gen, newAt, seen, pc>>

UpdateFails(ds) ==
    /\ Updating(ds)
    /\ Fault
    /\ Goto("list")
    /\ UNCHANGED <<gen, newAt, seen, todo>>

UpdatesDone ==
    /\ pc = "update" /\ todo = {}
    /\ todo' = DaemonSets
    /\ Goto("wait")
    /\ UNCHANGED <<gen, newAt, status, cached, pods, cluster, cur, calls, seen, expected,
                   attempts, faults, edits>>

-----------------------------------------------------------------------------
\* Faulty variant: the DaemonSet is validated without the wait.
AwaitNothing(ds) ==
    /\ pc = "wait" /\ ds \in todo
    /\ cur' = ds
    /\ todo' = todo \ {ds}
    /\ Goto("validate")
    /\ UNCHANGED <<gen, newAt, status, cached, pods, cluster, calls, seen, expected,
                   attempts, faults, edits>>

AwaitGeneration(ds) ==
    /\ pc = "wait" /\ ds \in todo
    /\ observed[ds] = expected[ds]
    /\ cur' = ds
    /\ todo' = todo \ {ds}
    /\ Goto("validate")
    /\ UNCHANGED <<gen, newAt, status, cached, pods, cluster, calls, seen, expected,
                   attempts, faults, edits>>

\* Faulty variant: only readiness is validated.
ValidateReadyOnly ==
    /\ pc = "validate"
    /\ readyTimeout > 0
    /\ allReady[cur] /\ Ready(cur)
    /\ Goto("service")
    /\ UNCHANGED <<gen, newAt, status, cached, pods, cluster, todo, cur, calls, seen,
                   expected, attempts, faults, edits>>

ValidateDaemonSet ==
    /\ pc = "validate"
    /\ readyTimeout > 0
    /\ Valid(cur)
    /\ Goto("service")
    /\ UNCHANGED <<gen, newAt, status, cached, pods, cluster, todo, cur, calls, seen,
                   expected, attempts, faults, edits>>

\* With no time to wait DoRetryWithTimeout returns before its first attempt.
ValidateWithoutTime ==
    /\ pc = "validate"
    /\ readyTimeout = 0
    /\ Goto("failed")
    /\ UNCHANGED <<gen, newAt, status, cached, pods, cluster, todo, cur, calls, seen,
                   expected, attempts, faults, edits>>

PatchService ==
    /\ pc = "service"
    /\ service' = "patched"
    /\ Goto("apiDaemonset")
    /\ UNCHANGED <<gen, newAt, status, cached, pods, granted, apiDS, apiService, todo, cur,
                   calls, seen, expected, attempts, faults, edits>>

checkAPIDaemonset ==
    /\ pc = "apiDaemonset"
    /\ apiDS' = TRUE
    /\ Goto("apiService")
    /\ UNCHANGED <<gen, newAt, status, cached, pods, granted, service, apiService, todo,
                   cur, calls, seen, expected, attempts, faults, edits>>

\* The service is created or patched, then the loop goes on.
checkAPIService ==
    /\ pc = "apiService"
    /\ apiService' = "current"
    /\ Goto(IF todo = {} THEN "succeeded" ELSE "wait")
    /\ UNCHANGED <<gen, newAt, status, cached, pods, granted, service, apiDS, todo, cur,
                   calls, seen, expected, attempts, faults, edits>>

\* One of these calls fails, stored or not: upgradePX returns the error.
RefreshFails ==
    /\ Fault
    /\ \/ /\ pc = "service"
          /\ service' \in {service, "patched"}
          /\ UNCHANGED <<apiDS, apiService>>
       \/ /\ pc = "apiDaemonset"
          /\ apiDS' \in {apiDS, TRUE}
          /\ UNCHANGED <<service, apiService>>
       \/ /\ pc = "apiService"
          /\ apiService' \in {apiService, "current"}
          /\ UNCHANGED <<service, apiDS>>
    /\ Goto("failed")
    /\ UNCHANGED <<gen, newAt, status, cached, pods, granted, todo, cur, calls, seen,
                   expected, attempts, edits>>

\* A retried wait runs out of time.
TimeOut ==
    /\ pc \in {"preflight", "list", "wait", "validate"}
    /\ Fault
    /\ Goto("failed")
    /\ UNCHANGED <<gen, newAt, status, cached, pods, cluster, todo, cur, calls, seen,
                   expected, attempts, edits>>

Crash ==
    /\ pc \notin Ended
    /\ Fault
    /\ Goto("crashed")
    /\ UNCHANGED <<gen, newAt, status, cached, pods, cluster, todo, cur, calls, seen,
                   expected, attempts, edits>>

\* Faulty variant: a failed pod is restarted without a limit.
JobRetryForever ==
    /\ pc \in {"failed", "crashed"}
    /\ attempts < BackoffLimit + 1
    /\ attempts' = attempts + 1
    /\ Goto("preflight")
    /\ todo' = {} /\ cur' = NoDS /\ calls' = {}
    /\ seen' = Unseen
    /\ expected' = [ds \in DaemonSets |-> 0]
    /\ UNCHANGED <<gen, newAt, status, cached, pods, cluster, faults, edits>>

JobRetry ==
    /\ pc \in {"failed", "crashed"}
    /\ attempts < BackoffLimit
    /\ attempts' = attempts + 1
    /\ Goto("preflight")
    /\ todo' = {} /\ cur' = NoDS /\ calls' = {}
    /\ seen' = Unseen
    /\ expected' = [ds \in DaemonSets |-> 0]
    /\ UNCHANGED <<gen, newAt, status, cached, pods, cluster, faults, edits>>

-----------------------------------------------------------------------------
Controller ==
    \E ds \in DaemonSets :
       \/ ControllerObserves(ds) \/ ControllerWritesStatus(ds)
       \/ \E n \in Nodes : ControllerReplacesPod(ds, n) \/ PodBecomesReady(ds, n)

Step ==
    \/ preFlightChecks \/ PermissionsDone \/ getPXDaemonsets
    \/ \E c \in PermissionCalls : Grant(c)
    \/ \E ds \in DaemonSets :
          \/ SkipUpdate(ds) \/ RefusePinned(ds) \/ UpdateDaemonSet(ds)
          \/ UpdateRefused(ds) \/ AwaitGeneration(ds)
    \/ UpdatesDone \/ ValidateDaemonSet \/ ValidateWithoutTime
    \/ PatchService \/ checkAPIDaemonset \/ checkAPIService

Failure ==
    \/ \E c \in PermissionCalls : GrantFails(c)
    \/ \E ds \in DaemonSets : UpdateReplyLost(ds) \/ UpdateFails(ds)
    \/ RefreshFails \/ TimeOut \/ Crash

Next ==
    /\ \/ Controller \/ Step \/ Failure \/ JobRetry
       \/ \E ds \in DaemonSets : OtherEdit(ds)
    /\ UNCHANGED given

Spec == Init /\ [][Next]_vars

\* The controller keeps working, and so does the process.
FairSpec ==
    /\ Spec
    /\ WF_vars(Step /\ UNCHANGED given)
    /\ \A ds \in DaemonSets :
          /\ WF_vars(ControllerObserves(ds) /\ UNCHANGED given)
          /\ WF_vars(ControllerWritesStatus(ds) /\ UNCHANGED given)
          /\ \A n \in Nodes : /\ WF_vars(ControllerReplacesPod(ds, n) /\ UNCHANGED given)
                              /\ WF_vars(PodBecomesReady(ds, n) /\ UNCHANGED given)

-----------------------------------------------------------------------------
\* Type invariant of the rollout.
TypeOK ==
    /\ pinned \subseteq DaemonSets
    /\ timeoutPerNode \in Nat
    /\ gen \in [DaemonSets -> Nat]
    /\ newAt \in [DaemonSets -> Nat]
    /\ observed \in [DaemonSets -> Nat]
    /\ allUpdated \in [DaemonSets -> BOOLEAN]
    /\ allReady \in [DaemonSets -> BOOLEAN]
    /\ cached \in [DaemonSets -> Nat]
    /\ podGen \in [DaemonSets -> [Nodes -> Nat]]
    /\ podReady \in [DaemonSets -> [Nodes -> BOOLEAN]]
    /\ granted \subseteq PermissionCalls
    /\ service \in {"stock", "patched"}
    /\ apiDS \in BOOLEAN
    /\ apiService \in {"absent", "stale", "current"}
    /\ pc \in Locations
    /\ todo \subseteq DaemonSets
    /\ cur \in DaemonSets \cup {NoDS}
    /\ calls \subseteq PermissionCalls
    /\ seen \in [DaemonSets -> [observed : Nat, new : BOOLEAN, current : BOOLEAN]]
    /\ expected \in [DaemonSets -> Nat]
    /\ attempts \in 0 .. BackoffLimit
    /\ faults \in 0 .. MaxFaults
    /\ edits \in 0 .. MaxEdits

\* The DaemonSets that this attempt has validated.
Validated ==
    IF pc = "succeeded" THEN DaemonSets
    ELSE IF pc \in {"wait", "validate", "service", "apiDaemonset", "apiService"}
    THEN DaemonSets \ (todo \cup (IF pc = "validate" THEN {cur} ELSE {}))
    ELSE {}

AllNew(ds) == \A n \in Nodes : IsNew(ds, podGen[ds][n])

(***************************************************************************)
(* No DaemonSet gets the new image before every permission object its pods *)
(* need is in place (upgradePX updates the cluster role and the secrets    *)
(* permissions first), also when attempts fail half-way and are rerun.     *)
(***************************************************************************)
PermissionsBeforePods ==
    (\E ds \in DaemonSets : newAt[ds] # 0) => granted = PermissionCalls

(***************************************************************************)
(* The wait for the observed generation followed by ValidateDaemonSet is   *)
(* sound: if the generation waited for is not older than the one that      *)
(* brought the new image, every pod of a validated DaemonSet runs it.      *)
(***************************************************************************)
WaitIsSound ==
    \A ds \in Validated : newAt[ds] # 0 /\ expected[ds] >= newAt[ds] => AllNew(ds)

(***************************************************************************)
(* "upgrades PX daemonsets and waits till all replicas are ready" (the     *)
(* comment of upgradePX): when it returns nil every pod runs the new image *)
(* and is ready, and the services are refreshed.                           *)
(***************************************************************************)
UpgradedMeansAllNew ==
    pc = "succeeded" =>
       /\ \A ds \in DaemonSets : AllNew(ds) /\ (edits = 0 => Ready(ds))
       /\ service = "patched" /\ apiDS /\ apiService = "current"

(***************************************************************************)
(* As long as no call failed and nobody else edited a DaemonSet, this      *)
(* holds, although pods, status and cache of the controller lag behind.    *)
(***************************************************************************)
CleanUpgradeMeansAllNew == faults = 0 /\ edits = 0 => UpgradedMeansAllNew

(***************************************************************************)
(* When no call fails, nobody else edits a DaemonSet, no image is pinned   *)
(* and there is time to wait, the upgrade succeeds: the generation the     *)
(* code computes from the listed status (observedGeneration + 1) is the    *)
(* one the controller comes to observe.                                    *)
(***************************************************************************)
EventuallySucceeds ==
    /\ Cardinality(Nodes) > 1
    /\ [](faults = 0 /\ edits = 0 /\ pinned = {} /\ timeoutPerNode > 0)
    => <>(pc = "succeeded")

-----------------------------------------------------------------------------
Contract == INSTANCE RolloutContract WITH
    allowed   <- granted = PermissionCalls,
    image     <- {ds \in DaemonSets : newAt[ds] # 0},
    fresh     <- {pod \in DaemonSets \X Nodes : IsNew(pod[1], podGen[pod[1]][pod[2]])},
    disturbed <- faults > 0 \/ edits > 0,
    done      <- pc = "succeeded"

(***************************************************************************)
(* The rollout implements RolloutContract: whatever fails, is repeated or  *)
(* is edited by others, the new image is stored in a DaemonSet at most     *)
(* once and after the permissions, no pod goes back to the old one, and    *)
(* upgradePX returns nil only when every DaemonSet has it (upgradePX).     *)
(***************************************************************************)
ImplementsRolloutContract == Contract!Spec
=============================================================================
