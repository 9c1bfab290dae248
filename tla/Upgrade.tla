------------------------------ MODULE Upgrade ------------------------------
(***************************************************************************)
(* The whole of Upgrade (pkg/cluster/px/px.go) around the scale-down and   *)
(* restore protocol of SharedApps: the version gate, the check for         *)
(* unmanaged pods, the decision to scale down, the wait until the shared   *)
(* volumes are detached (waitTillPXSharedVolumesDetached, with the retry   *)
(* task it runs in) and the replacement of Portworx on the nodes.          *)
(*                                                                         *)
(* Every step is a step of SharedApps or leaves its variables alone:       *)
(* stage says where an upgrade is while SharedApps has it at "start" or    *)
(* at "rollout".  The rollout itself is only what the rest can see of it;  *)
(* DaemonSetRollout has its steps.                                         *)
(***************************************************************************)
EXTENDS SharedApps, VersionGate, SequencesExt

CONSTANTS
    Nodes,       \* the nodes of the Portworx cluster
    Versions,    \* the versions they may run at the start, NoLabel included
    Tags,        \* the tags to upgrade to
    Cases,       \* the [version, tag] that may be found at the start
    Volumes,     \* the volumes of claims of shared storage classes
    Owner,       \* Owner[v]: the application whose pods mount v, NoApp for loose pods
    LateClaims,  \* the volumes whose claim may be unbound at the start
    NoVolume     \* the empty name of the volume of a claim that is not bound

ASSUME UpgradeAssumption ==
    /\ IsFiniteSet(Nodes) /\ Nodes # {}
    /\ Versions \ {NoLabel} \subseteq Nat \X Nat \X Nat /\ Tags \subseteq Seq(Nat)
    /\ Owner \in [Volumes -> Apps \cup {NoApp}]
    /\ Cases \subseteq [version : [Nodes -> Versions], tag : Tags]
    /\ LateClaims \subseteq Volumes /\ NoVolume \notin Volumes

VARIABLES
    tag,        \* the version to upgrade to
    version,    \* version[n]: the "PX Version" label of node n
    image,      \* does the DaemonSet have the new version?
    running,    \* running[a]: a has pods
    loose,      \* are there pods that mount volumes and have no controller?
    bound,      \* the volumes whose claim is bound
    attached,   \* the volumes that are attached
    stage,      \* stage[p]: where the upgrade is, see above
    drain,      \* drain[p]: isAppDrainNeeded
    waited,     \* waited[p]: volsToInspect
    task, expired,
    \* bookkeeping
    view,       \* view[p]: the labels Enumerate returned to the gate of p
    mounted     \* mounted[p]: the volumes attached when p listed the claims

Retry == INSTANCE RetryTask WITH Callers <- Procs

nodes   == <<tag, version, image>>
storage == <<running, loose, bound, attached>>
block   == <<waited, task, expired, mounted>>
upgrade == <<stage, drain, view, block>>
allVars == <<vars, nodes, storage, upgrade>>

Stages == {"none", "gate", "pods", "decide", "wait", "roll"}

New == parsePXVersion(tag)

UpgradeInit ==
    /\ Init
    /\ \E c \in Cases : version = c.version /\ tag = c.tag
    /\ image = FALSE
    /\ running = [a \in Apps |-> replicas[a] > 0]
    /\ loose \in BOOLEAN
    /\ \E late \in SUBSET LateClaims : bound = Volumes \ late
    /\ attached = {}
    /\ stage = [p \in Procs |-> "none"]
    /\ drain = [p \in Procs |-> FALSE]
    /\ waited = [p \in Procs |-> {}]
    /\ Retry!NoTasks
    /\ view = [p \in Procs |-> {}]
    /\ mounted = [p \in Procs |-> {}]

ToStage(p, s) == stage' = [stage EXCEPT ![p] = s]

\* The process leaves the part of Upgrade it was in.
Leave(p, s) ==
    /\ ToStage(p, s)
    /\ drain' = [drain EXCEPT ![p] = FALSE]
    /\ view' = [view EXCEPT ![p] = {}]
    /\ waited' = [waited EXCEPT ![p] = {}]
    /\ mounted' = [mounted EXCEPT ![p] = {}]

-----------------------------------------------------------------------------
\* External: a controller creates or deletes the pods of an application.
ControllerScales(a) ==
    /\ running[a] # (exists[a] /\ replicas[a] > 0)
    /\ running' = [running EXCEPT ![a] = ~@]
    /\ UNCHANGED <<vars, nodes, loose, bound, attached, upgrade>>

\* External: a claim is bound.
Bind(v) ==
    /\ v \notin bound
    /\ bound' = bound \cup {v}
    /\ UNCHANGED <<vars, nodes, running, loose, attached, upgrade>>

\* External: pods mount a volume, and the volume is released when they are gone.
HasPods(v) == IF Owner[v] = NoApp THEN loose ELSE running[Owner[v]]

Attach(v) ==
    /\ v \in bound \ attached /\ HasPods(v)
    /\ attached' = attached \cup {v}
    /\ UNCHANGED <<vars, nodes, running, loose, bound, upgrade>>

Detach(v) ==
    /\ v \in attached /\ ~HasPods(v)
    /\ attached' = attached \ {v}
    /\ UNCHANGED <<vars, nodes, running, loose, bound, upgrade>>

\* External: the loose pods are deleted.
DeleteLoose ==
    /\ loose
    /\ loose' = FALSE
    /\ UNCHANGED <<vars, nodes, running, bound, attached, upgrade>>

\* External: the DaemonSet controller replaces Portworx on a node.
ReplaceNode(n) ==
    /\ image /\ version[n] # New
    /\ version' = [version EXCEPT ![n] = New]
    /\ UNCHANGED <<vars, tag, image, storage, upgrade>>

-----------------------------------------------------------------------------
\* The pod of the Job starts, or starts again.
Begins(p) ==
    /\ Start(p) \/ JobRetry(p)
    /\ Leave(p, IF p \in Upgrades THEN "gate" ELSE "none")
    /\ UNCHANGED <<nodes, storage, task, expired>>

\* Enumerate returns the nodes in any order.
AskGate(p) ==
    /\ pc[p] = "start" /\ stage[p] = "gate"
    /\ \E order \in SetToSeqs(Nodes) :
          LET labels == [i \in DOMAIN order |-> version[order[i]]]
              needed == isUpgradeAppDrainRequired(labels, tag) = "yes"
          IN /\ drain' = [drain EXCEPT ![p] = needed]
             /\ ToStage(p, IF needed THEN "pods" ELSE "decide")
    /\ view' = [view EXCEPT ![p] = {version[n] : n \in Nodes}]
    /\ UNCHANGED <<vars, nodes, storage, block>>

\* Enumerate fails: the error is ignored, and no drain is needed.
GateFails(p) ==
    /\ pc[p] = "start" /\ stage[p] = "gate"
    /\ ToStage(p, "decide")
    /\ UNCHANGED <<vars, nodes, storage, drain, view, block>>

\* The checks fail, or pods without a controller mount a volume.
Refuse(p) ==
    /\ stage[p] \in {"gate", "pods", "decide"} \/ p \in Restores
    /\ ReturnEarly(p)
    /\ Leave(p, "none")
    /\ UNCHANGED <<nodes, storage, task, expired>>

\* IsAnyPXAppPodUnmanaged finds no such pod.
CheckPods(p) ==
    /\ pc[p] = "start" /\ stage[p] = "pods"
    /\ ~loose
    /\ ToStage(p, "decide")
    /\ UNCHANGED <<vars, nodes, storage, drain, view, block>>

\* The configuration could be parsed: scale down first, or roll at once.
EnterBlock(p) ==
    /\ p \in Upgrades => stage[p] = "decide" /\ isScaleDownOfSharedAppsRequired(drain[p])
    /\ Enter(p)
    /\ ToStage(p, "none")
    /\ UNCHANGED <<nodes, storage, drain, view, block>>

SkipBlock(p) ==
    /\ pc[p] = "start" /\ stage[p] = "decide"
    /\ ~isScaleDownOfSharedAppsRequired(drain[p])
    /\ ToStage(p, "roll")
    /\ UNCHANGED <<vars, nodes, storage, drain, view, block>>

-----------------------------------------------------------------------------
\* A claim that is not bound is on the list with an empty name.
ListClaims(p) ==
    /\ pc[p] = "rollout" /\ stage[p] = "none"
    /\ waited' = [waited EXCEPT ![p] = bound \cup {NoVolume : v \in Volumes \ bound}]
    /\ mounted' = [mounted EXCEPT ![p] = attached]
    /\ Retry!Begin(p, FALSE)
    /\ ToStage(p, "wait")
    /\ UNCHANGED <<vars, nodes, storage, drain, view>>

\* Faulty variant: one detached volume ends the wait.
DetachedAny(vols) == vols = {} \/ \E v \in vols : v \notin attached

\* The attempt of the wait: Inspect all volumes at once.  It is repeated when
\* Inspect fails.  External: Portworx answers a list with an empty name for the
\* other volumes, or refuses it.
Detached(vols) == \A v \in vols : v \notin attached

Inspect(p) ==
    /\ stage[p] = "wait"
    /\ \/ Retry!AttemptReturns(p, IF Detached(waited[p]) THEN "ok" ELSE "again")
       \/ Retry!AttemptReturns(p, "again")
    /\ UNCHANGED <<vars, nodes, storage, stage, drain, view, waited, mounted>>

Select(p) ==
    /\ Retry!Select(p)
    /\ UNCHANGED <<vars, nodes, storage, stage, drain, view, waited, mounted>>

Deadline(p) ==
    /\ Retry!DeadlinePasses(p)
    /\ UNCHANGED <<vars, nodes, storage, stage, drain, view, waited, mounted>>

AllDetached(p) ==
    /\ stage[p] = "wait" /\ Retry!Returns(p, "ok")
    /\ Retry!End(p)
    /\ ToStage(p, "roll")
    /\ UNCHANGED <<vars, nodes, storage, drain, view, waited, mounted>>

-----------------------------------------------------------------------------
\* upgradePX puts the new version into the DaemonSet.
SetImage(p) ==
    /\ stage[p] = "roll" /\ ~image
    /\ image' = TRUE
    /\ UNCHANGED <<vars, tag, version, storage, upgrade>>

\* The return of Upgrade: out of the block after the restore, or at once.
Return(p, e) ==
    /\ SkipScaleDown(p) \/ Rollout(p)
    /\ err'[p] = e
    /\ Leave(p, "none")
    /\ UNCHANGED <<nodes, storage>>

\* upgradePX returns nil: by RolloutContract the DaemonSet has the image then,
\* and, if a call failed on the way, not always every node.
Rolled(p) ==
    /\ stage[p] = "roll"
    /\ image
    /\ Return(p, FALSE)
    /\ UNCHANGED <<task, expired>>

\* The rollout fails, or runs out of time.
RollFails(p) ==
    /\ stage[p] = "roll"
    /\ Return(p, TRUE)
    /\ UNCHANGED <<task, expired>>

\* The claims cannot be listed, or the volumes are not detached in time.
ListClaimsFails(p) ==
    /\ pc[p] = "rollout" /\ stage[p] = "none"
    /\ Return(p, TRUE)
    /\ UNCHANGED <<task, expired>>

NotDetached(p) ==
    /\ stage[p] = "wait" /\ Retry!Returns(p, "timedOut")
    /\ Return(p, TRUE)
    /\ Retry!End(p)

-----------------------------------------------------------------------------
\* The steps of SharedApps in its loops, and their failures.
AppStep(p) ==
    /\ \/ List(p) \/ EndPass(p) \/ Skip(p)
       \/ \E a \in Apps : Pick(p, a)
       \/ ScaleGet(p) \/ ScalePanics(p) \/ RestoreGet(p) \/ RestoreUnparsable(p)
       \/ Update(p) \/ UpdateRefused(p)
    /\ UNCHANGED <<nodes, storage, upgrade>>

AppFailure(p) ==
    /\ ListError(p) \/ UpdateReplyLost(p) \/ CallFails(p) \/ TimeOut(p)
    /\ UNCHANGED <<nodes, storage, upgrade>>

Dies(p) ==
    /\ Crash(p)
    /\ Leave(p, "none")
    /\ Retry!Reset(p)
    /\ UNCHANGED <<nodes, storage>>

OwnerStep ==
    /\ \E a \in Apps : UserScale(a) \/ UserDelete(a)
    /\ UNCHANGED <<nodes, storage, upgrade>>

Process(p) ==
    \/ AskGate(p) \/ CheckPods(p) \/ EnterBlock(p) \/ SkipBlock(p)
    \/ ListClaims(p) \/ Inspect(p) \/ Select(p) \/ AllDetached(p) \/ NotDetached(p)
    \/ SetImage(p) \/ AppStep(p)

Problem(p) ==
    \/ GateFails(p) \/ Refuse(p) \/ ListClaimsFails(p) \/ AppFailure(p) \/ Dies(p)

Environment ==
    \/ \E a \in Apps : ControllerScales(a)
    \/ \E v \in Volumes : Bind(v) \/ Attach(v) \/ Detach(v)
    \/ \E n \in Nodes : ReplaceNode(n)
    \/ DeleteLoose \/ OwnerStep

UpgradeNext ==
    \/ \E p \in Procs :
          \/ Begins(p) \/ Process(p) \/ Deadline(p) \/ Rolled(p) \/ RollFails(p) \/ Problem(p)
    \/ Environment

UpgradeSpec == UpgradeInit /\ [][UpgradeNext]_allVars

(***************************************************************************)
(* Pods of Jobs are started, a process takes its steps, deadlines pass and *)
(* every wait of the rollout is bounded, so that it ends in some way.      *)
(* Nothing is assumed of the applications, the volumes and the nodes.      *)
(***************************************************************************)
UpgradeFairness ==
    \A p \in Procs :
       /\ WF_allVars(Begins(p)) /\ WF_allVars(Process(p)) /\ WF_allVars(Deadline(p))
       /\ WF_allVars(Rolled(p) \/ RollFails(p))
       /\ WF_allVars(CheckPods(p) \/ (stage[p] = "pods" /\ Refuse(p)))

FairUpgradeSpec == UpgradeSpec /\ UpgradeFairness

-----------------------------------------------------------------------------
\* Type invariant of the variables that Upgrade adds.
UpgradeTypeOK ==
    /\ tag \in Tags
    /\ version \in [Nodes -> Versions \cup {New}]
    /\ image \in BOOLEAN
    /\ running \in [Apps -> BOOLEAN]
    /\ loose \in BOOLEAN
    /\ attached \subseteq bound /\ bound \subseteq Volumes
    /\ stage \in [Procs -> Stages]
    /\ drain \in [Procs -> BOOLEAN]
    /\ waited \in [Procs -> SUBSET (Volumes \cup {NoVolume})]
    /\ mounted \in [Procs -> SUBSET Volumes]
    /\ task \in [Procs -> Retry!States]
    /\ expired \in [Procs -> BOOLEAN]
    /\ view \in [Procs -> SUBSET (Versions \cup {New})]

(***************************************************************************)
(* The scale-down does what it is for: while Portworx is replaced inside   *)
(* the block, no volume that was mounted when the claims were listed is    *)
(* attached, as long as its application is held at zero, whoever crashed,  *)
(* was retried, was late or bound another claim on the way                 *)
(* (waitTillPXSharedVolumesDetached between ScaleSharedAppsToZero and      *)
(* upgradePX).                                                             *)
(***************************************************************************)
DrainedWhileRolling ==
    \A p \in Upgrades : pc[p] = "rollout" /\ stage[p] = "roll" =>
       \A v \in mounted[p] :
          Owner[v] \in Apps /\ HeldDown(Owner[v]) => v \notin attached

(***************************************************************************)
(* DoRetryWithTimeout never leaves an attempt running behind its caller:   *)
(* no inspection of the volumes is on its way when the wait is over,       *)
(* whether it ended by success or time-out, and the rollout or the restore *)
(* runs.                                                                   *)
(***************************************************************************)
NoOrphanAttempt == \A p \in Procs : task[p] = "attempt" => stage[p] = "wait"

\* Has some node to be drained before it is replaced, in the mode "auto"?
DrainNeeded ==
    /\ ScaleDownMode = "auto" /\ New # Unparsable
    /\ \E n \in Nodes : version[n] # NoLabel /\ NeedsDrain(version[n], New)

(***************************************************************************)
(* On a cluster of one version the new version is put into the DaemonSet   *)
(* only inside the scale-down block if the nodes have to be drained, also  *)
(* by a retry of a Job that died before (isUpgradeAppDrainRequired and     *)
(* isScaleDownOfSharedAppsRequired).  An Enumerate that fails is excepted. *)
(***************************************************************************)
NodesAreDrainedFirst ==
    [][\A p \in Upgrades :
          SetImage(p) /\ DrainNeeded /\ (\E v \in Versions \ {NoLabel} : view[p] = {v})
          => pc[p] = "rollout"]_allVars

(***************************************************************************)
(* "checks if any node in the cluster has a PX version with given prefix"  *)
(* (the comment of isAnyNodeRunningVersionWithPrefix): the same on every   *)
(* cluster whose nodes all have a version.  The loop looks at the first    *)
(* node only, and this fails.                                              *)
(***************************************************************************)
MixedClusterIsDrainedFirst ==
    [][\A p \in Upgrades :
          SetImage(p) /\ DrainNeeded /\ view[p] # {} /\ NoLabel \notin view[p]
          => pc[p] = "rollout"]_allVars
=============================================================================
