------------------------------ MODULE DeletePX ------------------------------
(***************************************************************************)
(* The delete operation of talisman (Delete, deleteAllPXComponents,        *)
(* runPXNodeWiper, runDaemonSet and wipePXKvdb in pkg/cluster/px/px.go),   *)
(* run as a Job whose failed pod is restarted, together with the node      *)
(* wipers it starts (module NodeWiper).                                    *)
(*                                                                         *)
(* The components are abstracted to the kinds of the code, one object for  *)
(* each: a Delete call tolerates NotFound and returns every other error,   *)
(* except for the Portworx DaemonSets, where NotFound is an error too.     *)
(*                                                                         *)
(* External: DaemonSets are deleted in the foreground, so a deleted one is *)
(* still there until the garbage collector has removed its pods.           *)
(***************************************************************************)
EXTENDS Naturals, Sequences

CONSTANTS
    DaemonSets,     \* the DaemonSets with label name=portworx
    Namespaces,     \* the namespaces Portworx is installed in
    Home,           \* Home[d]: the namespace of DaemonSet d
    Selects,        \* Selects[d]: the nodes that the affinity of d selects
    Configs,        \* the kvdb configurations the DaemonSets may have
    Nodes,          \* the nodes of the cluster
    None,           \* no DaemonSet, no namespace
    BackoffLimit,   \* backoffLimit of the Job
    MaxFaults,      \* bound on failed calls and crashes
    MaxNodeFaults   \* bound on the faults of the node wipers

ASSUME DeleteAssumption ==
    /\ Home \in [DaemonSets -> Namespaces]
    /\ Configs \subseteq [DaemonSets -> {"external", "internal", "broken"}]
    /\ Selects \in [DaemonSets -> SUBSET Nodes]
    /\ None \notin Namespaces \cup DaemonSets
    /\ BackoffLimit \in Nat /\ MaxFaults \in Nat /\ MaxNodeFaults \in Nat

\* What is deleted once, before the config maps, in the order of the code.
ClusterKinds == <<"clusterRoles", "clusterRoleBindings", "clusterSecret",
                  "storageClass", "webhook", "secretsNamespace">>

\* What is deleted from every namespace, in the order of the code.
NamespaceKinds == <<"apiDaemonSet", "deployments", "roles", "roleBindings",
                    "accounts", "services", "statefulSets", "secrets", "configMaps">>

KindsOf(kinds) == {kinds[i] : i \in 1 .. Len(kinds)}

VARIABLES
    \* the nodes (module NodeWiper)
    hadPxctl, service, opt, etc, drives, statusFile, script, nodeFaults,
    \* the cluster
    ds,         \* the DaemonSets: "running", "terminating" or "gone"
    config,     \* config[d]: the kvdb of d, "external", "internal" or "broken"
    left,       \* the cluster-wide components that exist
    nsLeft,     \* nsLeft[ns]: the components of namespace ns that exist
    kvdb,       \* does the external kvdb hold the cluster's tree?
    wiper,      \* the px-node-wiper DaemonSet: "absent", "running", "terminating"
    wiperNodes, \* the nodes that its affinity selects
    \* the process
    wipe,       \* the flag -wipecluster
    pc, k,      \* k: position in ClusterKinds or NamespaceKinds
    installed,  \* installedNamespaces, found when the process starts
    parsed,     \* the DaemonSet that parseConfigFromDaemonset read, or None
    todo,       \* DaemonSets, then namespaces, still to be deleted
    cur,        \* the current namespace
    queues,     \* the listed px-bringup-queue-lock config maps
    hidden,     \* history: those that a failed listing kept from view
    template,   \* the nodes selected by the wiper that is to be created
    wiped,      \* has runDaemonSet returned nil?
    attempts, faults

W == INSTANCE NodeWiper

nodes == <<hadPxctl, service, opt, etc, drives, statusFile, script, nodeFaults>>
objects == <<ds, left, nsLeft, kvdb, wiper, wiperNodes>>
locals == <<k, installed, parsed, todo, cur, queues, hidden, template, wiped>>
given == <<config, wipe>>
vars == <<nodes, objects, locals, given, pc, attempts, faults>>

Ended == {"done", "failed", "crashed"}
Locations == Ended \cup {"start", "parse", "listDS", "daemonsets", "cluster", "listQueues",
                         "configMaps", "namespaces", "components", "runWiper", "preDelete",
                         "awaitGone", "create", "validate", "cleanup", "kvdb"}

-----------------------------------------------------------------------------
Init ==
    /\ W!Init
    /\ ds = [d \in DaemonSets |-> "running"]
    /\ config \in Configs
    /\ left = KindsOf(ClusterKinds) \cup {"configMaps", "queues"}
    /\ nsLeft = [ns \in Namespaces |-> KindsOf(NamespaceKinds)]
    /\ kvdb = TRUE
    /\ wiper = "absent" /\ wiperNodes = {}
    /\ wipe \in BOOLEAN
    /\ pc = "start"
    /\ k = 1 /\ parsed = None /\ cur = None /\ wiped = FALSE
    /\ installed = {} /\ todo = {} /\ queues = {} /\ hidden = {} /\ template = {}
    /\ attempts = 0 /\ faults = 0

Fault == faults < MaxFaults /\ faults' = faults + 1

\* Steps of the process from one location to another, without and with a
\* failing call.
Go(here, there) == pc = here /\ pc' = there /\ UNCHANGED <<nodes, attempts, faults, given>>
Fails(here, there) == pc = here /\ pc' = there /\ Fault /\ UNCHANGED <<nodes, attempts, given>>

PXDaemonSets(nss) == {d \in DaemonSets : Home[d] \in nss /\ ds[d] # "gone"}

-----------------------------------------------------------------------------
\* NewPXClusterProvider: the namespaces that have a DaemonSet now.
NewPXClusterProvider ==
    /\ Go("start", "parse")
    /\ PXDaemonSets(Namespaces) # {}
    /\ installed' = {Home[d] : d \in PXDaemonSets(Namespaces)}
    /\ UNCHANGED <<objects, k, parsed, todo, cur, queues, hidden, template, wiped>>

\* errNoPXDaemonset, at the start or when the configuration is parsed.
NoPXDaemonset ==
    /\ \/ Go("start", "failed") /\ PXDaemonSets(Namespaces) = {}
       \/ Go("parse", "failed") /\ PXDaemonSets(installed) = {}
    /\ UNCHANGED <<objects, locals>>

\* The configuration of the first DaemonSet that is listed.
parseConfigFromDaemonset ==
    /\ \E d \in PXDaemonSets(installed) :
          /\ Go("parse", IF config[d] = "broken" THEN "failed" ELSE "listDS")
          /\ parsed' = d
    /\ UNCHANGED <<objects, k, installed, todo, cur, queues, hidden, template, wiped>>

\* A listing or the lookup of a secret fails: the error is returned.
LookupFails ==
    /\ \E here \in {"start", "parse", "listDS"} : Fails(here, "failed")
    /\ UNCHANGED <<objects, locals>>

-----------------------------------------------------------------------------
getPXDaemonsets ==
    /\ Go("listDS", "daemonsets")
    /\ todo' = PXDaemonSets(installed)
    /\ UNCHANGED <<objects, k, installed, parsed, cur, queues, hidden, template, wiped>>

Delete(d) == ds' = [ds EXCEPT ![d] = IF @ = "gone" THEN @ ELSE "terminating"]

\* Faulty variant: the listing names a DaemonSet twice.
DeleteDaemonSetTwice(d) ==
    /\ Go("daemonsets", "daemonsets")
    /\ d \in todo /\ ds[d] # "gone"
    /\ Delete(d)
    /\ todo' \in {todo, todo \ {d}}
    /\ UNCHANGED <<left, nsLeft, kvdb, wiper, wiperNodes, k, installed, parsed, cur, queues,
                   hidden, template, wiped>>

\* Foreground deletion is accepted for a DaemonSet that is terminating.
DeleteDaemonSet(d) ==
    /\ Go("daemonsets", "daemonsets")
    /\ d \in todo /\ ds[d] # "gone"
    /\ Delete(d)
    /\ todo' = todo \ {d}
    /\ UNCHANGED <<left, nsLeft, kvdb, wiper, wiperNodes, k, installed, parsed, cur, queues,
                   hidden, template, wiped>>

\* A listed DaemonSet is gone: NotFound, which is returned here.
DaemonSetNotFound(d) ==
    /\ Go("daemonsets", "failed")
    /\ d \in todo /\ ds[d] = "gone"
    /\ UNCHANGED <<objects, locals>>

\* Faulty variant: the error of a DaemonSet is passed over like NotFound.
DeleteDaemonSetErrorIgnored(d) ==
    /\ Fails("daemonsets", "daemonsets")
    /\ d \in todo
    /\ todo' = todo \ {d}
    /\ UNCHANGED <<objects, k, installed, parsed, cur, queues, hidden, template, wiped>>

DeleteDaemonSetFails(d) ==
    /\ Fails("daemonsets", "failed")
    /\ d \in todo
    /\ Delete(d) \/ UNCHANGED ds
    /\ UNCHANGED <<left, nsLeft, kvdb, wiper, wiperNodes, locals>>

DaemonSetsDeleted ==
    /\ Go("daemonsets", "cluster")
    /\ todo = {}
    /\ k' = 1
    /\ UNCHANGED <<objects, installed, parsed, todo, cur, queues, hidden, template, wiped>>

-----------------------------------------------------------------------------
\* One kind of cluster-wide components; what does not exist is passed over.
DeleteClusterKind ==
    /\ k <= Len(ClusterKinds)
    /\ Go("cluster", IF k = Len(ClusterKinds) THEN "listQueues" ELSE "cluster")
    /\ left' = left \ {ClusterKinds[k]}
    /\ k' = k + 1
    /\ UNCHANGED <<ds, nsLeft, kvdb, wiper, wiperNodes, installed, parsed, todo, cur, queues,
                   hidden, template, wiped>>

DeleteClusterKindFails ==
    /\ k <= Len(ClusterKinds)
    /\ Fails("cluster", "failed")
    /\ left' \in {left, left \ {ClusterKinds[k]}}
    /\ UNCHANGED <<ds, nsLeft, kvdb, wiper, wiperNodes, locals>>

ListConfigMap ==
    /\ Go("listQueues", "configMaps")
    /\ queues' = left \cap {"queues"}
    /\ UNCHANGED <<objects, k, installed, parsed, todo, cur, hidden, template, wiped>>

\* The error of ListConfigMap is not looked at: no queues are listed.
ListConfigMapFails ==
    /\ Fails("listQueues", "configMaps")
    /\ hidden' = left \cap {"queues"}
    /\ UNCHANGED <<objects, k, installed, parsed, todo, cur, queues, template, wiped>>

\* Faulty variant: only the config maps with fixed names are deleted.
DeleteConfigMapsButQueues ==
    /\ Go("configMaps", "namespaces")
    /\ left' = left \ {"configMaps"}
    /\ todo' = installed
    /\ UNCHANGED <<ds, nsLeft, kvdb, wiper, wiperNodes, k, installed, parsed, cur, queues,
                   hidden, template, wiped>>

DeleteConfigMaps ==
    /\ Go("configMaps", "namespaces")
    /\ left' = left \ ({"configMaps"} \cup queues)
    /\ todo' = installed
    /\ UNCHANGED <<ds, nsLeft, kvdb, wiper, wiperNodes, k, installed, parsed, cur, queues,
                   hidden, template, wiped>>

DeleteConfigMapsFails ==
    /\ Fails("configMaps", "failed")
    /\ left' \in {left, left \ {"configMaps"}, left \ ({"configMaps"} \cup queues)}
    /\ UNCHANGED <<ds, nsLeft, kvdb, wiper, wiperNodes, locals>>

\* The loop over installedNamespaces.
EnterNamespace(ns) ==
    /\ Go("namespaces", "components")
    /\ ns \in todo
    /\ cur' = ns
    /\ todo' = todo \ {ns}
    /\ k' = 1
    /\ UNCHANGED <<objects, installed, parsed, queues, hidden, template, wiped>>

DeleteNamespaceKind ==
    /\ k <= Len(NamespaceKinds)
    /\ Go("components", IF k = Len(NamespaceKinds) THEN "namespaces" ELSE "components")
    /\ nsLeft' = [nsLeft EXCEPT ![cur] = @ \ {NamespaceKinds[k]}]
    /\ k' = k + 1
    /\ UNCHANGED <<ds, left, kvdb, wiper, wiperNodes, installed, parsed, todo, cur, queues,
                   hidden, template, wiped>>

DeleteNamespaceKindFails ==
    /\ k <= Len(NamespaceKinds)
    /\ Fails("components", "failed")
    /\ nsLeft' \in {nsLeft, [nsLeft EXCEPT ![cur] = @ \ {NamespaceKinds[k]}]}
    /\ UNCHANGED <<ds, left, kvdb, wiper, wiperNodes, locals>>

\* Delete goes on to the wipe, or ends.
ComponentsDeleted ==
    /\ Go("namespaces", IF wipe THEN "runWiper" ELSE "done")
    /\ todo = {}
    /\ UNCHANGED <<objects, locals>>

-----------------------------------------------------------------------------
\* Faulty variant: the wiper gets no affinity and is for every node.
runPXNodeWiperEverywhere ==
    /\ Go("runWiper", "preDelete")
    /\ template' = Nodes
    /\ UNCHANGED <<objects, k, installed, parsed, todo, cur, queues, hidden, wiped>>

\* The manifest of the wiper: one privileged pod, not ready before its status
\* file exists, on each node that the parsed DaemonSet's affinity selects.
runPXNodeWiper ==
    /\ Go("runWiper", "preDelete")
    /\ template' = Selects[parsed]
    /\ UNCHANGED <<objects, k, installed, parsed, todo, cur, queues, hidden, wiped>>

\* runDaemonSet: a wiper of an earlier run is deleted first.
PreDelete ==
    /\ Go("preDelete", "awaitGone")
    /\ wiper' = IF wiper = "absent" THEN wiper ELSE "terminating"
    /\ UNCHANGED <<ds, left, nsLeft, kvdb, wiperNodes, locals>>

\* GetDaemonSet returns an error: the wiper is not there any more.
AwaitGone ==
    /\ Go("awaitGone", "create")
    /\ wiper = "absent"
    /\ UNCHANGED <<objects, locals>>

\* Any other error of GetDaemonSet is taken for the same.
AwaitGoneMisled ==
    /\ Fails("awaitGone", "create")
    /\ UNCHANGED <<objects, locals>>

CreateDaemonSet ==
    /\ Go("create", "validate")
    /\ wiper = "absent"
    /\ wiper' = "running" /\ wiperNodes' = template
    /\ UNCHANGED <<ds, left, nsLeft, kvdb, locals>>

\* The old wiper is still there: AlreadyExists.
CreateRefused ==
    /\ Go("create", "kvdb")
    /\ wiper # "absent"
    /\ UNCHANGED <<objects, locals>>

\* ValidateDaemonSet: there are pods, and every one is ready.
ValidateWiper ==
    /\ Go("validate", "cleanup")
    /\ wiperNodes # {}
    /\ \A n \in wiperNodes : statusFile[n]
    /\ wiped' = TRUE
    /\ UNCHANGED <<objects, k, installed, parsed, todo, cur, queues, hidden, template>>

\* Faulty variant: the wiper is deleted only after a successful run.
WaitTimesOutWithoutCleanup ==
    /\ \/ Go("awaitGone", "kvdb") /\ wiper # "absent"
       \/ Go("validate", "kvdb")
    /\ UNCHANGED <<objects, locals>>

\* Faulty variant: the validation of the wiper has no time limit.
WaitForWiperForever ==
    /\ Go("awaitGone", "kvdb") /\ wiper # "absent"
    /\ UNCHANGED <<objects, locals>>

\* daemonsetDeleteTimeout and pxNodeWiperTimeout run out.
WaitTimesOut ==
    /\ \/ Go("awaitGone", "kvdb") /\ wiper # "absent"
       \/ Go("validate", "cleanup")
    /\ UNCHANGED <<objects, locals>>

\* The deferred function of runDaemonSet.
DeleteWiper ==
    /\ Go("cleanup", "kvdb")
    /\ wiper' = "terminating"
    /\ UNCHANGED <<ds, left, nsLeft, kvdb, wiperNodes, locals>>

\* The errors of runDaemonSet and of its deferred function are logged.
WiperCallFails ==
    /\ \/ /\ Fails("preDelete", "kvdb")
          /\ wiper' \in {wiper, IF wiper = "absent" THEN wiper ELSE "terminating"}
          /\ UNCHANGED wiperNodes
       \/ /\ Fails("create", "kvdb")
          /\ \/ UNCHANGED <<wiper, wiperNodes>>
             \/ wiper = "absent" /\ wiper' = "running" /\ wiperNodes' = template
       \/ /\ Fails("cleanup", "kvdb")
          /\ wiper' \in {wiper, "terminating"}
          /\ UNCHANGED wiperNodes
    /\ UNCHANGED <<ds, left, nsLeft, kvdb, locals>>

\* The kvdb tree goes, unless the cluster uses its internal etcd.
wipePXKvdb ==
    /\ Go("kvdb", "done")
    /\ kvdb' = (kvdb /\ config[parsed] # "external")
    /\ UNCHANGED <<ds, left, nsLeft, wiper, wiperNodes, locals>>

\* The kvdb cannot be reached, or does not answer in time: logged.
wipePXKvdbFails ==
    /\ Fails("kvdb", "done")
    /\ config[parsed] = "external"
    /\ kvdb' \in {kvdb, FALSE}
    /\ UNCHANGED <<ds, left, nsLeft, wiper, wiperNodes, locals>>

-----------------------------------------------------------------------------
Crash ==
    /\ \E here \in Locations \ Ended : Fails(here, "crashed")
    /\ UNCHANGED <<objects, locals>>

\* Faulty variant: the new pod keeps the limit of one attempt more.
JobRetryForever ==
    /\ pc \in {"failed", "crashed"}
    /\ attempts <= BackoffLimit
    /\ attempts' = attempts + 1
    /\ pc' = "start"
    /\ UNCHANGED <<nodes, objects, locals, given, faults>>

\* The Job starts another pod.
JobRetry ==
    /\ pc \in {"failed", "crashed"}
    /\ attempts < BackoffLimit
    /\ attempts' = attempts + 1
    /\ pc' = "start"
    /\ k' = 1 /\ parsed' = None /\ cur' = None /\ wiped' = FALSE
    /\ installed' = {} /\ todo' = {} /\ queues' = {} /\ hidden' = {} /\ template' = {}
    /\ UNCHANGED <<nodes, objects, given, faults>>

process == <<pc, locals, attempts, faults, given>>

\* External: the garbage collector has removed the pods of a DaemonSet.
DaemonSetGone(d) ==
    /\ ds[d] = "terminating"
    /\ ds' = [ds EXCEPT ![d] = "gone"]
    /\ UNCHANGED <<nodes, left, nsLeft, kvdb, wiper, wiperNodes, process>>

WiperGone ==
    /\ wiper = "terminating"
    /\ \A n \in Nodes : script[n] = "none"
    /\ wiper' = "absent" /\ wiperNodes' = {}
    /\ UNCHANGED <<nodes, ds, left, nsLeft, kvdb, process>>

\* External: pods of the wiper start on the nodes it selects, run, and are
\* removed with it.
WiperStep(n) ==
    /\ \/ wiper = "running" /\ n \in wiperNodes /\ W!ContainerStarts(n)
       \/ wiper = "running" /\ W!ContainerKilled(n)
       \/ W!Script(n)
    /\ UNCHANGED <<objects, process>>

WiperPodRemoved(n) ==
    /\ wiper = "terminating"
    /\ W!ContainerGone(n)
    /\ UNCHANGED <<nodeFaults, objects, process>>

Step ==
    \/ NewPXClusterProvider \/ NoPXDaemonset \/ parseConfigFromDaemonset
    \/ getPXDaemonsets \/ DaemonSetsDeleted
    \/ \E d \in DaemonSets : DeleteDaemonSet(d) \/ DaemonSetNotFound(d)
    \/ DeleteClusterKind \/ ListConfigMap \/ DeleteConfigMaps
    \/ \E ns \in Namespaces : EnterNamespace(ns)
    \/ DeleteNamespaceKind \/ ComponentsDeleted
    \/ runPXNodeWiper \/ PreDelete \/ AwaitGone \/ CreateDaemonSet \/ CreateRefused
    \/ ValidateWiper \/ WaitTimesOut \/ DeleteWiper \/ wipePXKvdb

Failure ==
    \/ LookupFails
    \/ \E d \in DaemonSets : DeleteDaemonSetFails(d)
    \/ DeleteClusterKindFails \/ ListConfigMapFails \/ DeleteConfigMapsFails
    \/ DeleteNamespaceKindFails
    \/ AwaitGoneMisled \/ WiperCallFails \/ wipePXKvdbFails
    \/ Crash

Environment ==
    \/ \E d \in DaemonSets : DaemonSetGone(d)
    \/ WiperGone
    \/ \E n \in Nodes : WiperStep(n) \/ WiperPodRemoved(n)

Next == Step \/ Failure \/ JobRetry \/ Environment

Spec == Init /\ [][Next]_vars

\* The process goes on, its time-outs run out, and the Job restarts it.
FairSpec == Spec /\ WF_vars(Step) /\ WF_vars(JobRetry)

-----------------------------------------------------------------------------
\* Type invariant of the delete operation.
TypeOK ==
    /\ W!TypeOK
    /\ ds \in [DaemonSets -> {"running", "terminating", "gone"}]
    /\ config \in Configs
    /\ left \subseteq KindsOf(ClusterKinds) \cup {"configMaps", "queues"}
    /\ nsLeft \in [Namespaces -> SUBSET KindsOf(NamespaceKinds)]
    /\ kvdb \in BOOLEAN
    /\ wiper \in {"absent", "running", "terminating"}
    /\ wiperNodes \subseteq Nodes
    /\ wipe \in BOOLEAN
    /\ pc \in Locations
    /\ k \in 1 .. Len(NamespaceKinds) + 1
    /\ installed \subseteq Namespaces
    /\ parsed \in DaemonSets \cup {None}
    /\ todo \subseteq DaemonSets \cup Namespaces
    /\ cur \in Namespaces \cup {None}
    /\ queues \subseteq {"queues"} /\ hidden \subseteq {"queues"}
    /\ template \subseteq Nodes
    /\ wiped \in BOOLEAN
    /\ attempts \in 0 .. BackoffLimit
    /\ faults \in 0 .. MaxFaults

\* Something of the cluster's data has been destroyed or is about to be.
Destroying ==
    \/ ~kvdb
    \/ wiper # "absent"
    \/ \E n \in Nodes : ~drives[n] \/ ~etc[n] \/ opt[n] = "removed"

(***************************************************************************)
(* Nothing is wiped, in the kvdb or on a node, while a Portworx DaemonSet  *)
(* still runs: Delete wipes only after deleteAllPXComponents returned nil. *)
(* A failed DaemonSet deletion, a crash or a rerun on a half deleted       *)
(* cluster does not change that.                                           *)
(***************************************************************************)
NothingWipedUnderPX == Destroying => \A d \in DaemonSets : ds[d] # "running"

(***************************************************************************)
(* When Delete returns nil, the components of the namespaces it found      *)
(* Portworx in are gone, and so are the cluster-wide ones, bring-up queues *)
(* included.  The one exception are queues that a failed ListConfigMap,    *)
(* whose error is not looked at, kept from view in this very attempt.      *)
(***************************************************************************)
DeleteRemovesWhatItFound ==
    pc = "done" =>
       /\ \A ns \in installed : nsLeft[ns] = {}
       /\ left \subseteq hidden
       /\ \A d \in DaemonSets : ds[d] # "running"

(***************************************************************************)
(* An attempt in which no call failed returns an error only where there is *)
(* no Portworx or its configuration cannot be parsed.  The NotFound that   *)
(* deleteAllPXComponents returns for a listed DaemonSet needs a failed     *)
(* call before it: the operation does not stumble over its own deletions,  *)
(* however fast the garbage collector is.                                  *)
(***************************************************************************)
DeleteFailsForAReason ==
    pc = "failed" /\ faults = 0 =>
       DaemonSets = {} \/ \E d \in DaemonSets : config[d] = "broken"

(***************************************************************************)
(* "Delete the daemonset regardless of status" (runDaemonSet): without a   *)
(* failing call no wiper keeps running after the operation, whether the    *)
(* nodes got ready in time or not.  A wiper left behind would go on wiping *)
(* what is installed later.                                                *)
(***************************************************************************)
WiperIsRemoved == pc \in Ended /\ faults = 0 => wiper # "running"

(***************************************************************************)
(* When runDaemonSet returns nil every node that the parsed DaemonSet      *)
(* selects is clean, also if wipers were restarted meanwhile.              *)
(***************************************************************************)
WipedMeansClean == wiped => \A n \in Selects[parsed] : W!Clean(n)

(***************************************************************************)
(* A node that is kept out of Portworx by the affinity of every DaemonSet  *)
(* is never touched: the affinity read before the DaemonSets are deleted   *)
(* is the wiper's, whatever is repeated, lost or left from an earlier run. *)
(***************************************************************************)
OnlyPXNodesAreWiped ==
    \A n \in Nodes : (\A d \in DaemonSets : n \notin Selects[d]) =>
       service[n] /\ drives[n] /\ etc[n] /\ opt[n] # "removed"

(***************************************************************************)
(* The operation ends: its waits for the wiper are bounded, whatever the   *)
(* nodes and the garbage collector do.                                     *)
(***************************************************************************)
DeleteEnds == <>[](pc \in Ended)

(***************************************************************************)
(* "Delete removes all components of the given cluster" (the interface     *)
(* Cluster): when it returns nil, no namespace has components left.  A     *)
(* rerun looks only into namespaces that still have a Portworx DaemonSet.  *)
(***************************************************************************)
NamespacesCleared == pc = "done" => \A ns \in Namespaces : nsLeft[ns] = {}
=============================================================================
