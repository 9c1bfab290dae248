# A verification project for talisman

Talisman is a command that runs as a Kubernetes Job and upgrades, or deletes,
Portworx in a cluster. The project models the protocols by which it changes the
cluster, checks them with TLC on small instances, and proves the most important
results with TLAPS for every size. All paths below are relative to the root of
the repository.

## 1. Inventory

| Part | Code | State | Operations |
|---|---|---|---|
| talisman command, Job scripts | `cmd/talisman` | none of its own; the Job counts restarts (`backoffLimit: 1`) | `upgrade`, `restoresharedapps`, `delete`; exit with an error makes the Job start another pod |
| Upgrade | `pkg/cluster/px/px.go:268` `Upgrade` | none between runs | early returns, decide on the scale-down, scale down, wait for detached volumes, roll out, deferred restore |
| Shared applications | `pkg/k8sutils/k8sutils.go` | `spec.replicas` and an annotation with the original count, on every Deployment and StatefulSet | `GetPXSharedApps`, `ScaleSharedAppsToZero`, `RestoreScaledAppsReplicas` |
| Rollout | `px.go:520` `upgradePX` | permission objects, DaemonSets (spec, generation, status), services; local `expectedGenerations` | grant permissions, update the image, await the generation, validate, refresh the services |
| Delete | `px.go:374` `Delete` | everything that belongs to Portworx; local `installedNamespaces` and the parsed configuration | parse, delete DaemonSets and components, run the node wiper, wipe the kvdb |
| Node wiper | `cmd/px-node-wiper/px-node-wiper.sh` | service, `/opt/pwx`, `/etc/pwx` and drives of a host; a status file in the container | stop, wipe, remove, report ready |
| Version gate | `px.go:862-913` | none | is draining the applications required? |
| Parsing | `px.go:968-1094`, `1736-1818` | none | arguments of the DaemonSet, endpoints of the kvdb, versions, target ports |
| Pod and volume checks | `k8sutils.go:105-153`, `340-402` | none | which pods use Portworx, which classes are shared, is a pod unmanaged? |
| Retry task | `vendor/.../sched-ops/task/task.go` | a goroutine and a channel | repeat until success, a final error or the time-out |
| CRD creation | `pkg/crd/crd.go` | custom resource definitions | create, wait; not called by the command |
| Generated clients, API types, docker-puller, `Create`, `Status` | `pkg/client`, `pkg/apis`, `cmd/docker-puller` | - | generated, obsolete or stubs |

The parts interact through the API server only. There is no lock: the scripts
delete the old Job with `kubectl delete job talisman || true` and start another,
so processes overlap while an old pod terminates. What makes the system hard:

* a pod dies between any two calls, and its successor starts from the beginning
  on a half changed cluster, with no memory but the annotations;
* the reply of a stored write is lost, and the retry sees its own work;
* lists and statuses are stale when they are used (`observedGeneration`, the
  listing of shared applications, `installedNamespaces`);
* one step of several fails, and the code returns, warns or goes on;
* waits end by a time-out while the work goes on.

What makes each part correct: an application's replica count is never lost, and
is back after a restore; a finished upgrade means that all pods run the new
image, and pods never lack their permissions; volumes are detached while Portworx is replaced
under applications that had to be drained; nothing is wiped under a running
Portworx, a nil return of Delete means that what it found is gone, no wiper
stays, and a wiper that reports ready has done its work; a nil return of `CreateCRD` means that
the definitions are established. `PROJECT.json` lists the
hazards line by line.

## 2. Structure

    ReplicaMemory  <--implements--  SharedApps  <--implements--  Upgrade
                                                                  | uses
                                              VersionGate, RetryTask
                                                  ^
                                                  | uses
                                               PXConfig
    RolloutContract  <--implements--  DaemonSetRollout
    DeletePX --composes--> NodeWiper     CRDInit

1. `SharedApps` is the core: losing a replica count cannot be repaired.
   `ReplicaMemory` is the abstract specification of what it promises an owner.
2. `Upgrade` puts the whole of `Upgrade` around it: the gate (`VersionGate`), the
   pod check, the detach wait inside its retry task (`RetryTask`) and the rollout.
3. `DaemonSetRollout` has the steps of `upgradePX` against the DaemonSet controller.
   `RolloutContract` is the abstract specification of what they promise an operator, and
   what `Upgrade` relies on for its one stage.
4. `DeletePX` composes the delete operation with `NodeWiper` on the nodes.
5. `PXConfig` holds the functions that only compute, checked against reference definitions.
6. `CRDInit` is `CreateCRD` with concurrent callers.

Every component has its module, an `MC` module with the values for TLC, and a
`Proofs` module; the proofs about draining in `Upgrade` are in `UpgradeDrainProofs`, on top of
`UpgradeProofs`.

## 3. Modules

### SharedApps

One process per Job; `pc`, `pass`, `todo`, `cur` and `copy` are the loop variables of
`ScaleSharedAppsToZero` and `RestoreScaledAppsReplicas`. An iteration is Get, decide
(`ScaleSkips`, `RestoreSkips`), `Update`; each is an API call of its own, so others
interleave between them. `current[p]` says that the copy still has the stored
resourceVersion; the API server refuses an Update otherwise (`Accepts`), and the retry
task repeats the closure. Upgrades go through `ReturnEarly` (`ChecksFail`; for a restore `NewFails`), `SkipScaleDown` or `Enter`,
the scale pass, `Rollout` (abstract here, detailed in `Upgrade`), and the deferred restore pass; a
restore operation is the restore pass alone. `PassError` holds what an error of a
pass does: the scale pass goes to the deferred restore, the restore pass ends.
Applications are listed once for each of their shared storage classes
(`Listed`); a failed lookup can hide one from a listing (`hidden`). `ScalePanics` is the
write into a nil annotations map (`Bare`).

`ReplicaMemory` knows only whether a Deployment is free, held or gone, and its count.
The refinement mapping (`StateOf`, `CountOf`) reads both off the stored object: it is held
while the annotation has a count, which is then *the* count. StatefulSets do not
implement it (section 5).

Environment assumptions: owners scale an application only while its count is not
saved; a listing is one snapshot; an annotation is a count or `Garbled`.

### Upgrade, VersionGate and RetryTask

`Upgrade` extends `SharedApps`. While `SharedApps` has an upgrade at `start` or at `rollout`,
`stage` says where in `Upgrade` it is: gate, pod check, decision; listing the claims,
waiting, rolling. Every action conjoins an action of `SharedApps` or leaves its
variables alone, so that `UpgradeSpec => Spec` (a theorem). Added state: the
version label of each node, pods of the applications, bound claims, attached
volumes, and pods without a controller (`loose`). Controllers delete pods some time after the
counts are zero, and volumes are detached some time after their pods are gone.
A claim that is not bound yet is on the list of the detach wait with an empty name (`NoVolume`),
as `GetVolumeForPersistentVolumeClaim` returns it; what Portworx makes of it in `Inspect` is external, it
answers for the other volumes or fails.
The gate sees the nodes in any order (`AskGate`); its error is ignored, as in the code
(`GateFails`). The rollout is what the rest can see of it: the image is set, nodes are
replaced, it ends or fails. A nil return implies that the image is set, not that every node is
replaced: this is what `RolloutContract` promises when a call may have failed.

`VersionGate` compares versions by their digits, as `strings.HasPrefix` does.
`RetryTask` is the goroutine of `DoRetryWithTimeout`: the deadline is looked at between two
attempts only, and the caller waits for the goroutine, never for the deadline.
The other modules use its contract (repeat, end by a success, a final error or a
time-out).

### PXConfig

A behaviour is one call: `Init` chooses the function and its argument. The loops over the
arguments (`parseArgument`), over the tokens of the endpoints (`beginEndpoint`, `readToken`,
`endEndpoint`) and over the endpoints that are asked (`askVersion`) take one step per
iteration, so that what they compute can be proved by an invariant; `newClient` is `kvdb.New`, which may
still fail when the version is known. Texts are abstracted to what the code looks at (CSV
records, the parts between colons, references `$NAME`). Index errors are
outcomes (`panic`). The pod check and the gate return in one step.

The refresh of the services has one step per request: `GetService` reads the target ports,
`PatchService` and `checkAPIService` send them to `portworx-service` and `portworx-api`; each may fail, with
or without effect (`RefreshFails`), and the whole is repeated for the next DaemonSet or by the next attempt on
what the one before has left (`RefreshAgain`). External is what the API server does with a
patch: it merges by the port, and stores a target of 0, which is what a named target is read as, as the port
itself. A service is modelled with one entry per port, and edits by its owner between two requests are
left out.

The gate is compared with the comment of its function (`px.go:893`), which is the rule the code
implements. `px.go:89` ("only when px major version is upgraded") and the help text in
`talisman.go:164` ("1.2 to 1.3") are shorter summaries of the mode `auto`; both leave out 1.3.3 and 1.3.4 as
targets from any version. Versions have numbers of one or two digits, in the run as in the theorem.

### CRDInit

Callers run the two loops of `CreateCRD`. A definition's status has the two conditions
the code reads, in either order, since the code takes the first that decides
(`Verdict`). `wait.Poll` is modelled with the last look it takes when its time is over.

### DaemonSetRollout

The DaemonSets carry generation, observed generation, the two facts of the status
that `ValidateDaemonSet` compares, and the generation and readiness of each pod. The
controller works on a `cached` generation that may lag. The process follows
`upgradePX`: permission calls in order, then attempts of list and update
(`seen[ds].current` is the resourceVersion), then wait, validate and refresh for each
DaemonSet. The wait is for the generation `expected`, computed from the listed
status as in `px.go:647-650`. `RolloutContract` knows only whether the permissions are in
place, which DaemonSets have the image, which pods run it, whether the upgrade was
disturbed and whether it is done; the mapping reads these off `granted`, `newAt`, `podGen`,
the counters of faults and edits, and `pc`. Not modelled: pods that lose readiness later, deletion of a
DaemonSet during the upgrade.

### NodeWiper and DeletePX

`NodeWiper` has one script location per command that changes the host. A killed
container may have done the work of its command or not (`HalfDone`); failures that the
script ignores (systemctl, umount) are choices, the others end the container.
Without `-r` nothing is modelled since talisman always passes it. The status file is only there while the
script sleeps at its end, which is part of `TypeOK`.

`DeletePX` instantiates `NodeWiper` (`W`) on the same variables: containers start only while
the wiper DaemonSet runs, and are removed with it. Components are abstracted to the
kinds that the code deletes together, in its order; every Delete may fail,
stored or not. DaemonSets are deleted in the foreground and stay listed until the garbage
collector is done. `installed` is `installedNamespaces`, computed afresh by every
pod. The affinity of the DaemonSet whose configuration was parsed is the one of the wiper
(`Selects`, `parsed`, `template`, `wiperNodes`). `hidden` is history: the queues that a failed listing has kept from
this attempt. Readiness is read off the status files at once (no stale pod conditions), and
the order in which DaemonSets are listed is a free choice.

Operators whose comment says *Faulty variant* are plausible bugs; no specification
uses them. Each property is broken by one of them (`mutants` in `PROJECT.json`).

## 4. Runs

| Run | Instance | Shows |
|---|---|---|
| `shared_apps` | 1 Deployment in two classes, 1 StatefulSet without annotations, 2 upgrades with their deferred restores that overlap, 2 faults, 1 retry each, 1 owner edit, a garbled annotation, lossy listings | `TypeOK`, `DeploymentsRecoverable`, `RestoreComplete`, `ImplementsReplicaMemory` |
| `statefulset_count_lost` | a StatefulSet in two classes | violation of `StatefulSetsRecoverable` |
| `no_annotations_panic` | a StatefulSet without annotations | violation of `AlwaysRestored` |
| `upgrade` | 1 Deployment in two classes, 2 nodes, 2 volumes, one of them bound late, loose pods, an upgrade and then the restore operation, 1 fault, 1 retry, 1 owner edit; drained because of the tag, because of the version, or as the order of the nodes has it | `UpgradeTypeOK`, `DrainedWhileRolling`, `NoOrphanAttempt`, `NodesAreDrainedFirst`, `EventuallyRestored` |
| `mixed_cluster_gate` | a 1.2 and a 1.3 node, to 1.4 | violation of `MixedClusterIsDrainedFirst` |
| `rollout` | 1 DaemonSet on 2 nodes, 2 faults, 1 retry, 1 other edit, PX_IMAGE set or not, zero and positive time-outs | `TypeOK`, `PermissionsBeforePods`, `WaitIsSound`, `CleanUpgradeMeansAllNew`, `ImplementsRolloutContract`, `EventuallySucceeds` |
| `rollout_lost_reply` | 1 fault | violation of `UpgradedMeansAllNew` |
| `node_wiper` | 2 nodes, with and without pxctl, 3 faults | `TypeOK`, `ReadyMeansClean`, `PxctlOutlivesData`, `EventuallyClean` |
| `delete` | 2 DaemonSets in 1 namespace, a node they select and one they do not, 2 faults, 1 killed container, 1 retry | `TypeOK`, `NothingWipedUnderPX`, `DeleteRemovesWhatItFound`, `DeleteFailsForAReason`, `WiperIsRemoved`, `WipedMeansClean`, `OnlyPXNodesAreWiped`, `DeleteEnds` |
| `delete_retry_incomplete` | 2 DaemonSets in 2 namespaces, 1 fault | violation of `NamespacesCleared` |
| `config` | all argument lists up to 3 arguments and longer ones with repeated options, environments of up to 2 variables, up to 3 endpoints with every pattern of answers, services with up to 3 ports and 2 repeated refreshes, 2 pods with 2 volumes, 2 nodes, versions and tags with numbers of two digits | `ArgumentsAreUnderstood`, `ReferencesAreResolved`, `EndpointsAreIndependent`, `TargetPortsSurvive`, `NoUnmanagedPodMissed`, `GateFollowsItsComment` |
| `custom_resources` | 2 callers, 2 definitions, 3 calls, 1 failed request or death, 1 clash or deletion | `TypeOK`, `NilMeansEstablished`, `OthersAreCreated`, `NoSpuriousError`, `CallsEnd` |

Bounds. `MaxFaults` counts failed calls, lost replies, time-outs and crashes;
`MaxNodeFaults`, `MaxUserOps`, `MaxEdits` and `MaxMeddling` bound the faults of the nodes and the edits by others; `MaxRefreshes` (2) bounds the repeated refreshes, of
which the first meets what a failed one left and the second what a successful one left;
`BackoffLimit` is that of the scripts, 1. Two faults in `delete` are what it takes to meet an old wiper (a
crash) and to take it for gone (a failed lookup); several namespaces are covered by
the theorems and by `delete_retry_incomplete`. One fault is enough to leave the first
attempt anywhere, and the retry then meets that state; a second fault hits the
retry. In `upgrade` an `Enumerate` that fails, a refused check and a rollout that
fails are ordinary outcomes and need no fault. Every further process, application, DaemonSet or node repeats these
interactions, and the theorems cover any number of them. Counts up to 1 tell zero from the original
count. The two upgrades of `shared_apps` are interchangeable, hence its symmetry. Deadlock is not checked where the operation ends and nothing is left to do.

Fairness. A process whose pod lives takes its next step, and a bounded wait runs
out (`Step`, `Process`, `Deadline`, `Rolled \/ RollFails`); the Job controller restarts a failed pod
(`JobRetry`, in `Begins`); in `upgrade` the operator runs the restore operation once the
upgrade is over, the procedure of `cmd/talisman/README.md`, and nothing is assumed of
applications, volumes and nodes; the DaemonSet controller and the kubelets keep
working in `rollout` and `node_wiper`. `delete` assumes nothing of nodes or garbage
collector, `custom_resources` nothing of the API server's controllers. `mixed_cluster_gate` uses
the specification of `upgrade`; its counterexample is a single step.
Faults are never fair.

## 5. Findings

* **A StatefulSet's count can be lost** (`k8sutils.go:207`). The Deployment loop skips
  an application that is already at 0, the StatefulSet loop does not: the second
  visit, through a second storage class or a rerun, saves 0.
* **The scale-down panics on a StatefulSet without annotations** (`k8sutils.go:219`): the panic
  is in the goroutine of the retry task, so the deferred restore does not run.
* **A lost reply makes the upgrade succeed too early** (`px.go:647`): the retry
  finds the new image, expects the generation that is still the old one, and validates
  the old status.
* **A restarted delete forgets namespaces** (`px.go:223`): they are found by the DaemonSets that
  the first attempt has deleted. With a single namespace the second attempt fails
  with `errNoPXDaemonset` and the components stay as well.

* **The version gate judges a mixed cluster by one node** (`px.go:870`): the loop
  over the nodes reads the first one every time. A cluster left half upgraded is
  the case in which the gate matters.

Seen while modelling and not given runs: a failed lookup hides an application from a
listing (`k8sutils.go:83`), which `RestoreComplete` excepts; a flag without a value and an endpoint
without a colon index past a slice (`px.go:1007`, `px.go:1760`); a password by reference is
resolved only next to a user by reference (`px.go:1037`); a named target port is read as 0,
and the API server takes 0 for the default, so that the name is silently replaced by the port's own
number (`px.go:729`), which `TargetPortsSurvive` allows and nothing more; the wiper has the affinity of the first
DaemonSet that is listed, so that nodes which only another one selects are not wiped (`px.go:996`,
`WipedMeansClean` is about the parsed one); an error of the gate
means no drain (`px.go:310`); the
readiness time-out is zero on a single node (`px.go:945`), see `ValidateWithoutTime`; a
failed `ListConfigMap` leaks the bring-up queues (`px.go:1181`), which
`DeleteRemovesWhatItFound` excepts for the attempt in which the listing failed, and for no other.

## 6. Proofs

Assumptions: only the named `ASSUME`s of the modules, which TLC evaluates in the
runs: sets are finite where the code ranges over them, bounds are numbers, versions are
triples of numbers (in `PXConfig` of one or two digits), tags and lists are sequences of what the code reads. None of them bounds
the number of processes, objects or faults. One theorem has a hypothesis of its
own (`OneUpgrade`, below). Every inductive invariant was checked with TLC before
it was proved.

* `SharedAppsProofs`. `TypeCorrect` needs that the copy to be written was parsed
  (`ReadyOK`). `DeploymentsKeepTheirCount` needs `CopyOK` (a current copy equals the stored object) and
  `HeldAtZero` (a Deployment with a saved count is at 0): then an accepted Update of the scale pass,
  whose copy is above 0, cannot meet a saved count, and one of the restore pass
  writes the saved count back. `RefinesReplicaMemory` maps each step, from the same
  invariant, to Hold, Release, a step of the owner or a stutter. `RestoresAreComplete` follows a debt:
  every application that is held, and was not lost by a listing, is *owed* by some
  process that will restore it or will not end well (`Owed`, `ListedInv`).
* `UpgradeProofs`. `UpgradeImplementsSharedApps`: each action of `Upgrade` is one of
  `SharedApps` or leaves its variables alone. `UpgradeRestores` transfers the theorems above to the
  composition. `AttemptsEndWithTheirCall` needs that a task exists only in the wait (`TaskInv`).
* `UpgradeDrainProofs`. `UpgradeTypeCorrect` is the type invariant (`BaseInv`).
  `UniformClustersAreDrained`, an action property, needs that what the gate saw is still true when the
  image is set: the labels in `view` are those of the nodes as long as no image is set, and
  the decision to roll without the scale-down was made from them (`GateOK`). A retry that comes after the
  image was set sees new labels, and a cluster it sees as uniform is then judged by
  those. `HeldVolumesStayDetached` needs `DrainOK`: from the listing of the claims on, a mounted volume of
  a held application is either still attached, and the wait cannot have succeeded, or its
  pods are gone for good, since an application with a saved count has no replicas
  (`AllHeldAtZero`) and pods start only where there are replicas. Its hypothesis is `OneUpgrade`: one upgrade
  Job, with its retries and any number of restores. The Job has the fixed
  name `talisman`, and `run_px_upgrade.sh` deletes the one of that name first; what the hypothesis leaves out is
  the time in which the pod of a deleted upgrade still terminates. It cannot be dropped: with two
  upgrades TLC finds a behaviour in which the deferred restore of the second releases an
  application, its retry holds it again while the old pods still run, and the first goes on
  rolling by an inspection made before.
* `CRDInitProofs`. `NilIsTrustworthy` and `AllAreTried` rest on what the two loops have done
  up to their position (`CreatedSoFar`, `EstablishedSoFar`) and on the fact that nobody but a deletion
  takes a stored or established definition back (`Grows`). `ErrorsHaveACause` needs that a call without
  trouble has collected no error and has lost no definition it relies on (`QuietOK`).
  `TypesAreKept` bounds the position.
* `DaemonSetRolloutProofs`. `TheWaitIsSound` needs the order of generations
  observed <= cached <= gen, that pods never run ahead of the cache, and that a status with all
  pods updated bounds their generations from below (`GenerationsOK`). `PermissionsComeFirst` needs that
  the calls of an attempt are granted (`PermissionsInv`). `CleanUpgradeIsComplete` needs `SmoothInv`: without
  faults and edits there is one attempt, a DaemonSet is untouched until it is updated once, and the
  expected generation is then exactly that of the update; `RefreshOK` says what the refresh
  has done. The upgrades to which this does not apply, with a pinned image or no time to
  wait, fail: `DoomedNeverSucceeds` (`DoomedOK`). `RefinesRolloutContract` maps every step to one of the
  contract or a stutter. It needs all of these invariants and `ListingOK`: a listing never shows an image that
  is not there, and a current one shows the image that is, so that an accepted Update stores it
  in a DaemonSet without it; and when the loop is through, every DaemonSet has it. That a disturbed
  upgrade may be done with old pods is in the contract, because the code allows it (section 5). `RolloutTypeCorrect` is the type invariant.
* `NodeWiperProofs`. `ReadyNodesAreClean` rests on `Progress` (what holds past each
  step of the script) and on `PxctlOutlivesData`, itself the theorem `PxctlIsRemovedLast`: a
  restarted container that finds no pxctl may skip the drives only because of it.
  `WiperTypeCorrect` is the type invariant.
* `DeletePXProofs`. `NoWipeUnderPX` rests on `RunningOnes` (running DaemonSets are in a
  namespace that was found, then in the list, then there are none) and `NoStrayWiper`.
  `DeleteIsComplete` rests on the loop invariants `ClusterProgress` and
  `NamespaceProgress`: what is left is what the loop has not reached, or what the listing has hidden.
  `NoSelfInflictedFailure` rests on `ReasonInv`: without a failed call every DaemonSet runs until its own deletion. `WipedNodesAreClean` instantiates
  `NodeWiperProofs` and carries the invariant of the wiper, `WP!WiperInv`, along (`CleanInv`); in
  addition nodes have to stay clean when the pods that vouched for them are removed.
  `OtherNodesAreLeftAlone` needs `AffinityInv`, which follows the affinity from the parsed DaemonSet to the
  wiper, and that pods run only on the nodes of the wiper that is, or was, there.
  `NoWiperLeftBehind` places a running wiper between its creation and the deferred deletion
  (`CleanupInv`). `DeleteTypeCorrect` is the type invariant.
* `PXConfigProofs`. `ArgumentsAreRead` and `CredentialsAreLookedUp` rest on the loop invariant `ConfigOK`: after n
  arguments every field has the value of the last flag among them (`OptionsAreRead`,
  `CredentialsAreRead`), an iteration moves that last flag (`NextFlag`), and what follows the loop keeps the options
  and takes the first entry that decides for each credential (`Extracted`). `EndpointsAreKept` rests on
  `KvdbOK`: the urls are those of the endpoints that are done, the tokens read so far are the beginning of the
  next one, and all endpoints asked so far are down; the last step is that of `kvdb.New`. `ArgumentsAreUnderstood` and
  `EndpointsAreIndependent` are about well formed input, which the module defines; the loops are proved for any number of arguments, endpoints and
  variables. The other functions: a call that has returned has the result of its function
  (`ResultOK`); the rest is about that result, for lists of any length. `PortsAreKept` rests on `PortsOK`: every entry
  of the service is the owner's or the number it amounts to, and reading either gives that number
  (`ReadIsKept`), so that a repeated refresh sends what the first one sent. `UnmanagedPodsAreFound`: the first volume that is not ruled out decides, and
  decides for "yes" or an error. `GateIsWhatItSays`: a number is a prefix of itself, so that no drain is
  left out; what else has the prefix is a number of two digits, like 1.20 for 1.2 or 1.3.30 for 1.3.3, and a drain
  is then done without need.

Every safety property of the passing runs is a theorem. Model-checked only: the liveness
properties (`EventuallyRestored`, `EventuallySucceeds`, `EventuallyClean`, `DeleteEnds`, `CallsEnd`), since fairness is
out of the prover's reach.

## 7. Not modelled

Flags, logging, log files, manifests and object bodies carry no control. The API
types and everything generated from them (deep copies, clients, informers,
listers) are data and generic plumbing that no code of the repository runs; they
are more than half of its own lines. The docker-puller is obsolete, `Create` and `Status` are
stubs. The platform that `parseConfigFromDaemonset` reads along only chooses the paths of the wiper; on PKS
these are other paths than the ones `px-node-wiper.sh` removes by name, which is outside the model. `Upgrade` has the rollout as one stage; its steps are checked in
`DaemonSetRollout` with the API server between them, since the product of both would not
fit the bounds. What terminating Portworx pods do to a node that is being wiped is
outside the repository.
