------------------------- MODULE UpgradeDrainProofs -------------------------
(***************************************************************************)
(* Proofs that an upgrade which has to be drained is drained: the version  *)
(* gate leads into the scale-down block (NodesAreDrainedFirst), and the    *)
(* wait of the block keeps the volumes of the applications detached while  *)
(* Portworx is replaced (DrainedWhileRolling).                             *)
(***************************************************************************)
EXTENDS UpgradeProofs, FiniteSetTheorems

USE DEF Locations, InLoop, Goto, Stages, Retry!States, Retry!Outcomes

\* What a process step leaves alone in the cluster, and what it learns.
Knowledge ==
    /\ drain \in [Procs -> BOOLEAN]
    /\ waited \in [Procs -> SUBSET (Volumes \cup {NoVolume})]
    /\ mounted \in [Procs -> SUBSET Volumes]
    /\ expired \in [Procs -> BOOLEAN]
    /\ view \in [Procs -> SUBSET (Versions \cup {New})]

Cluster ==
    /\ tag \in Tags
    /\ version \in [Nodes -> Versions \cup {New}]
    /\ image \in BOOLEAN
    /\ running \in [Apps -> BOOLEAN]
    /\ loose \in BOOLEAN
    /\ attached \subseteq bound /\ bound \subseteq Volumes

LEMMA TypeParts ==
  UpgradeTypeOK <=> Cluster /\ Knowledge /\ stage \in [Procs -> Stages]
                    /\ task \in [Procs -> Retry!States]
  BY DEF UpgradeTypeOK, Cluster, Knowledge

LEMMA LeaveTyped ==
  ASSUME Knowledge, NEW p \in Procs, NEW s, Leave(p, s), New' = New,
         expired' \in [Procs -> BOOLEAN]
  PROVE  Knowledge'
  BY DEF Knowledge, Leave

LEMMA ProcessTyped ==
  ASSUME Cluster, Knowledge, NEW p \in Procs,
         Begins(p) \/ Process(p) \/ Deadline(p) \/ Rolled(p) \/ RollFails(p) \/ Problem(p)
  PROVE  Cluster' /\ Knowledge'
<1>1. UNCHANGED <<tag, version, storage>> /\ (image' \in BOOLEAN)
  <2>1. image \in BOOLEAN
    BY DEF Cluster
  <2> QED
    BY <2>1, Zenon
    DEF Begins, Process, Deadline, Rolled, RollFails, Problem, AskGate, CheckPods,
        EnterBlock, SkipBlock, ListClaims, Inspect, Select, AllDetached, NotDetached,
        SetImage, AppStep, GateFails, Refuse, ListClaimsFails, AppFailure, Dies, Return,
        nodes
<1>2. New' = New /\ Cluster'
  BY <1>1 DEF Cluster, storage, New
<1> SUFFICES Knowledge'
  BY <1>2
<1>3. CASE Begins(p) \/ Refuse(p) \/ Dies(p)
  <2>1. PICK s : Leave(p, s)
    BY <1>3, Zenon DEF Begins, Refuse, Dies
  <2>2. expired' \in [Procs -> BOOLEAN]
    BY <1>3 DEF Begins, Refuse, Dies, Knowledge, Retry!Reset
  <2> QED BY <1>2, <2>1, <2>2, LeaveTyped
<1>4. CASE Rolled(p) \/ RollFails(p) \/ ListClaimsFails(p) \/ NotDetached(p)
  <2>1. Leave(p, "none")
    BY <1>4, Zenon DEF Rolled, RollFails, ListClaimsFails, NotDetached, Return
  <2>2. expired' \in [Procs -> BOOLEAN]
    BY <1>4 DEF Rolled, RollFails, ListClaimsFails, NotDetached, Knowledge, Retry!End
  <2> QED BY <1>2, <2>1, <2>2, LeaveTyped
<1>5. CASE AskGate(p)
  <2>1. PICK b \in BOOLEAN : drain' = [drain EXCEPT ![p] = b]
    BY <1>5, Zenon DEF AskGate
  <2>2. {version[n] : n \in Nodes} \in SUBSET (Versions \cup {New})
    BY DEF Cluster
  <2>3. view' \in [Procs -> SUBSET (Versions \cup {New})]
    BY <1>5, <2>2 DEF AskGate, Knowledge
  <2>4. UNCHANGED <<waited, mounted, expired>>
    BY <1>5 DEF AskGate, block
  <2> QED
    BY <1>2, <2>1, <2>3, <2>4 DEF Knowledge
<1>6. CASE ListClaims(p)
  <2>1. /\ attached \in SUBSET Volumes
        /\ bound \cup {NoVolume : v \in Volumes \ bound} \in SUBSET (Volumes \cup {NoVolume})
    BY DEF Cluster
  <2> QED
    BY <1>2, <1>6, <2>1 DEF ListClaims, Knowledge, Retry!Begin
<1>7. CASE Inspect(p) \/ Select(p) \/ Deadline(p) \/ AllDetached(p)
  <2>1. UNCHANGED <<drain, view, waited, mounted>>
    BY <1>7, Zenon DEF Inspect, Select, Deadline, AllDetached
  <2>2. expired' \in [Procs -> BOOLEAN]
    BY <1>7
    DEF Inspect, Select, Deadline, AllDetached, Knowledge, Retry!AttemptReturns,
        Retry!Select, Retry!DeadlinePasses, Retry!End
  <2> QED BY <1>2, <2>1, <2>2 DEF Knowledge
<1>8. CASE \/ GateFails(p) \/ CheckPods(p) \/ EnterBlock(p) \/ SkipBlock(p) \/ SetImage(p)
           \/ AppStep(p) \/ AppFailure(p)
  <2>1. UNCHANGED <<drain, view, waited, mounted, expired>>
    BY <1>8
    DEF GateFails, CheckPods, EnterBlock, SkipBlock, SetImage, AppStep, AppFailure, block,
        upgrade
  <2> QED BY <1>2, <2>1 DEF Knowledge
<1> QED
  BY <1>3, <1>4, <1>5, <1>6, <1>7, <1>8, Zenon DEF Process, Problem

LEMMA EnvironmentTyped ==
  ASSUME Cluster, Knowledge, Environment
  PROVE  Cluster' /\ Knowledge'
<1>1. UNCHANGED <<tag, image, drain, waited, mounted, expired, view>>
  BY DEF Environment, ControllerScales, Bind, Attach, Detach, ReplaceNode, DeleteLoose,
         OwnerStep, nodes, upgrade, block
<1>2. New' = New /\ Knowledge'
  BY <1>1 DEF Knowledge, New
<1>3. image' \in BOOLEAN /\ loose' \in BOOLEAN
  <2>1. image \in BOOLEAN /\ loose \in BOOLEAN
    BY DEF Cluster
  <2>2. loose' \in {loose, FALSE}
    BY Zenon
    DEF Environment, ControllerScales, Bind, Attach, Detach, ReplaceNode, DeleteLoose,
        OwnerStep, storage
  <2> QED BY <1>1, <2>1, <2>2, Zenon
<1>4. version' \in [Nodes -> Versions \cup {New}]
  <2>1. CASE \E n \in Nodes : ReplaceNode(n)
    BY <2>1 DEF ReplaceNode, Cluster
  <2>2. CASE UNCHANGED version
    BY <2>2 DEF Cluster
  <2> QED
    BY <2>1, <2>2, Zenon
    DEF Environment, ControllerScales, Bind, Attach, Detach, DeleteLoose, OwnerStep, nodes
<1>5. running' \in [Apps -> BOOLEAN]
  <2>1. CASE \E a \in Apps : ControllerScales(a)
    BY <2>1 DEF ControllerScales, Cluster
  <2>2. CASE UNCHANGED running
    BY <2>2 DEF Cluster
  <2> QED
    BY <2>1, <2>2, Zenon
    DEF Environment, Bind, Attach, Detach, ReplaceNode, DeleteLoose, OwnerStep, storage
<1>6. attached' \subseteq bound' /\ bound' \subseteq Volumes
  <2>1. CASE \E v \in Volumes : Bind(v) \/ Attach(v) \/ Detach(v)
    BY <2>1 DEF Bind, Attach, Detach, Cluster
  <2>2. CASE UNCHANGED <<bound, attached>>
    BY <2>2 DEF Cluster
  <2> QED
    BY <2>1, <2>2, Zenon
    DEF Environment, ControllerScales, ReplaceNode, DeleteLoose, OwnerStep, storage
<1> QED
  BY <1>1, <1>2, <1>3, <1>4, <1>5, <1>6 DEF Cluster

-----------------------------------------------------------------------------
\* The answer of the gate for a cluster whose nodes all have version v.
Gate(v) == isUpgradeAppDrainRequired(<<v>>, tag) = "yes"

(***************************************************************************)
(* What Upgrade knows of the nodes stays true until the image is set: the  *)
(* labels the gate saw are the labels of the nodes, and the decision to    *)
(* roll without the scale-down was made from them.                         *)
(***************************************************************************)
GateOK(p) ==
    /\ stage[p] = "roll" => pc[p] \in {"start", "rollout"}
    /\ stage[p] = "roll" /\ pc[p] = "start" => ~isScaleDownOfSharedAppsRequired(drain[p])
    /\ stage[p] = "gate" => view[p] = {}
    /\ \A v \in Versions \ {NoLabel} : view[p] = {v} => drain[p] = Gate(v)
    /\ ~image => view[p] \in {{}, {version[n] : n \in Nodes}}

GateInv == \A p \in Procs : GateOK(p)

\* On a cluster of one version the order of the nodes does not matter.
LEMMA UniformGate ==
  ASSUME NEW order \in SetToSeqs(Nodes), NEW v, {version[n] : n \in Nodes} = {v}
  PROVE  isUpgradeAppDrainRequired([i \in DOMAIN order |-> version[order[i]]], tag)
         = isUpgradeAppDrainRequired(<<v>>, tag)
<1> DEFINE labels == [i \in DOMAIN order |-> version[order[i]]]
<1>1. Cardinality(Nodes) \in Nat /\ Cardinality(Nodes) # 0
  BY UpgradeAssumption, FS_CardinalityType, FS_EmptySet
<1>2. order \in [1 .. Cardinality(Nodes) -> Nodes]
  BY DEF SetToSeqs
<1>3. 1 \in DOMAIN order /\ order[1] \in Nodes
  BY <1>1, <1>2
<1>4. labels # <<>> /\ labels[1] = v
  <2>1. 1 \in DOMAIN labels /\ labels[1] = version[order[1]]
    BY <1>3
  <2>2. version[order[1]] \in {version[n] : n \in Nodes}
    BY <1>3
  <2> HIDE DEF labels
  <2> QED BY <2>1, <2>2
<1>5. <<v>> # <<>> /\ <<v>>[1] = v
  OBVIOUS
<1> HIDE DEF labels
<1>6. isAnyNodeRunningVersionWithPrefix(labels, Dublin)
      = isAnyNodeRunningVersionWithPrefix(<<v>>, Dublin)
  BY <1>4, <1>5 DEF isAnyNodeRunningVersionWithPrefix
<1>7. isUpgradeAppDrainRequired(labels, tag) = isUpgradeAppDrainRequired(<<v>>, tag)
  BY <1>6 DEF isUpgradeAppDrainRequired
<1> QED BY <1>7 DEF labels

\* The text comparison finds every version that has the prefix.
LEMMA PrefixFound ==
  ASSUME NEW v \in Seq(Nat), NEW prefix \in Seq(Nat), Len(prefix) \in 1 .. Len(v),
         Is(v, prefix)
  PROVE  HasPrefix(v, prefix)
<1>1. \A i \in 1 .. Len(prefix) : v[i] = prefix[i]
  <2> SUFFICES ASSUME NEW i \in 1 .. Len(prefix) PROVE v[i] = prefix[i]
    OBVIOUS
  <2>1. SubSeq(v, 1, Len(prefix))[i] = v[i]
    OBVIOUS
  <2> QED BY <2>1 DEF Is
<1> QED BY <1>1 DEF HasPrefix

\* The gate asks for the drain wherever the reference definition needs one.
LEMMA GateDrains ==
  ASSUME tag \in Tags, NEW v \in Versions \ {NoLabel}, New # Unparsable, NeedsDrain(v, New)
  PROVE  Gate(v)
<1>1. v \in Seq(Nat) /\ Len(v) = 3
  <2>1. v \in Nat \X Nat \X Nat
    BY UpgradeAssumption
  <2>2. PICK x \in Nat, y \in Nat, z \in Nat : v = <<x, y, z>>
    BY <2>1
  <2> QED BY <2>2
<1>2. New \in Seq(Nat) /\ Len(New) = 3
  BY UpgradeAssumption DEF New, parsePXVersion
<1>3. Dublin \in Seq(Nat) /\ Len(Dublin) \in 1 .. Len(v)
  BY <1>1 DEF Dublin
<1>4. \A prefix \in {<<1, 3, 3>>, <<1, 3, 4>>, <<1, 3>>, <<1, 4>>} :
         prefix \in Seq(Nat) /\ Len(prefix) \in 1 .. Len(New)
  <2>1. /\ <<1, 3, 3>> \in Seq(Nat) /\ Len(<<1, 3, 3>>) = 3
        /\ <<1, 3, 4>> \in Seq(Nat) /\ Len(<<1, 3, 4>>) = 3
        /\ <<1, 3>> \in Seq(Nat) /\ Len(<<1, 3>>) = 2
        /\ <<1, 4>> \in Seq(Nat) /\ Len(<<1, 4>>) = 2
    OBVIOUS
  <2>2. 2 \in 1 .. Len(New) /\ 3 \in 1 .. Len(New)
    BY <1>2
  <2> QED BY <2>1, <2>2, Zenon
<1>5. /\ Is(v, Dublin) => HasPrefix(v, Dublin)
      /\ Is(New, <<1, 3, 3>>) => HasPrefix(New, <<1, 3, 3>>)
      /\ Is(New, <<1, 3, 4>>) => HasPrefix(New, <<1, 3, 4>>)
      /\ Is(New, <<1, 3>>) => HasPrefix(New, <<1, 3>>)
      /\ Is(New, <<1, 4>>) => HasPrefix(New, <<1, 4>>)
  BY <1>1, <1>2, <1>3, <1>4, PrefixFound, Zenon
<1>6. isAnyNodeRunningVersionWithPrefix(<<v>>, Dublin)
      = IF HasPrefix(v, Dublin) THEN "yes" ELSE "no"
  BY DEF isAnyNodeRunningVersionWithPrefix
<1> QED
  BY <1>5, <1>6, Zenon DEF Gate, isUpgradeAppDrainRequired, NeedsDrain, New

\* A step of p changes nothing of what the other processes know.
LEMMA OthersKnow ==
  ASSUME TaskInv, Knowledge, NEW p \in Procs,
         Begins(p) \/ Process(p) \/ Deadline(p) \/ Rolled(p) \/ RollFails(p) \/ Problem(p)
  PROVE  /\ TaskStep(p)
         /\ UNCHANGED <<tag, version>> /\ (image' = image \/ image')
         /\ \A q \in Procs \ {p} : /\ drain'[q] = drain[q] /\ view'[q] = view[q]
                                  /\ waited'[q] = waited[q] /\ mounted'[q] = mounted[q]
<1>1. TaskStep(p)
  BY PodTask, GateTask, WaitTask, ReturnTask, AppTask, Zenon DEF Process, Problem
<1>2. UNCHANGED <<tag, version>> /\ (image' = image \/ image')
  BY Zenon
  DEF Begins, Process, Deadline, Rolled, RollFails, Problem, AskGate, CheckPods,
      EnterBlock, SkipBlock, ListClaims, Inspect, Select, AllDetached, NotDetached,
      SetImage, AppStep, GateFails, Refuse, ListClaimsFails, AppFailure, Dies, Return,
      nodes
<1>3. \A q \in Procs \ {p} : /\ drain'[q] = drain[q] /\ view'[q] = view[q]
                            /\ waited'[q] = waited[q] /\ mounted'[q] = mounted[q]
  <2>1. ASSUME NEW s, Leave(p, s)
        PROVE  \A q \in Procs \ {p} : /\ drain'[q] = drain[q] /\ view'[q] = view[q]
                                     /\ waited'[q] = waited[q] /\ mounted'[q] = mounted[q]
    BY <2>1 DEF Leave, Knowledge
  <2>2. CASE AskGate(p)
    BY <2>2 DEF AskGate, Knowledge, block
  <2>3. CASE ListClaims(p)
    BY <2>3 DEF ListClaims, Knowledge
  <2>4. ASSUME UNCHANGED <<drain, view, waited, mounted>>
        PROVE  \A q \in Procs \ {p} : /\ drain'[q] = drain[q] /\ view'[q] = view[q]
                                     /\ waited'[q] = waited[q] /\ mounted'[q] = mounted[q]
    BY <2>4
  <2>5. CASE UNCHANGED upgrade
    BY <2>4, <2>5 DEF upgrade, block
  <2> QED
    BY <2>1, <2>2, <2>3, <2>4, <2>5, Zenon
    DEF Begins, Process, Deadline, Rolled, RollFails, Problem, CheckPods, EnterBlock,
        SkipBlock, Inspect, Select, AllDetached, NotDetached, SetImage, AppStep, GateFails,
        Refuse, ListClaimsFails, AppFailure, Dies, Return, block
<1> QED BY <1>1, <1>2, <1>3

LEMMA GateOKStep ==
  ASSUME TaskInv, Cluster, Knowledge, NEW p \in Procs, GateOK(p),
         Begins(p) \/ Process(p) \/ Deadline(p) \/ Rolled(p) \/ RollFails(p) \/ Problem(p)
  PROVE  GateOK(p)'
<1>0. /\ stage \in [Procs -> Stages] /\ pc \in [Procs -> Locations]
      /\ UNCHANGED <<tag, version>> /\ (image' = image \/ image')
  BY OthersKnow DEF TaskInv, TypeInv, TypeOK
<1>1. \A v : Gate(v)' = Gate(v)
  BY <1>0 DEF Gate
<1>2. ASSUME NEW s \in Stages \ {"roll"}, Leave(p, s) PROVE GateOK(p)'
  BY <1>0, <1>2 DEF Leave, ToStage, GateOK, Knowledge
<1>3. ASSUME NEW s \in Stages \ {"roll", "gate"}, ToStage(p, s), UNCHANGED <<drain, view>>
      PROVE  GateOK(p)'
  BY <1>0, <1>1, <1>3 DEF ToStage, GateOK
<1>4. ASSUME UNCHANGED <<stage, drain, view>>, stage[p] = "roll" => UNCHANGED pc
      PROVE  GateOK(p)'
  BY <1>0, <1>1, <1>4 DEF GateOK
<1>5. CASE Begins(p) \/ Refuse(p) \/ Dies(p) \/ Rolled(p) \/ RollFails(p)
           \/ ListClaimsFails(p) \/ NotDetached(p)
  <2>1. Leave(p, "gate") \/ Leave(p, "none")
    BY <1>5, Zenon
    DEF Begins, Refuse, Dies, Rolled, RollFails, ListClaimsFails, NotDetached, Return
  <2> QED BY <1>2, <2>1
<1>6. CASE AskGate(p)
  <2>1. PICK order \in SetToSeqs(Nodes) :
           /\ drain' = [drain EXCEPT ![p] =
                 isUpgradeAppDrainRequired([i \in DOMAIN order |-> version[order[i]]], tag)
                 = "yes"]
           /\ \E s \in {"pods", "decide"} : ToStage(p, s)
    BY <1>6, Zenon DEF AskGate
  <2>2. /\ stage'[p] \in {"pods", "decide"}
        /\ view'[p] = {version[n] : n \in Nodes}
        /\ drain'[p] = (isUpgradeAppDrainRequired([i \in DOMAIN order |-> version[order[i]]],
                                                  tag) = "yes")
    BY <1>0, <1>6, <2>1 DEF AskGate, ToStage, Knowledge
  <2>3. ASSUME NEW v \in Versions \ {NoLabel}, view'[p] = {v}
        PROVE  drain'[p] = Gate(v)
    <3>1. isUpgradeAppDrainRequired([i \in DOMAIN order |-> version[order[i]]], tag)
          = isUpgradeAppDrainRequired(<<v>>, tag)
      BY <2>2, <2>3, UniformGate, Zenon
    <3> QED BY <2>2, <3>1, Zenon DEF Gate
  <2> QED
    BY <1>0, <1>1, <2>2, <2>3 DEF GateOK
<1>7. CASE GateFails(p) \/ CheckPods(p) \/ EnterBlock(p)
  BY <1>3, <1>7, Zenon DEF GateFails, CheckPods, EnterBlock
<1>8. CASE SkipBlock(p)
  BY <1>0, <1>1, <1>8 DEF SkipBlock, ToStage, GateOK, vars, Knowledge
<1>9. CASE ListClaims(p)
  BY <1>3, <1>9, Zenon DEF ListClaims
<1>10. CASE AllDetached(p)
  BY <1>0, <1>1, <1>10 DEF AllDetached, ToStage, GateOK, vars, TaskInv, TaskOK
<1>11. CASE Inspect(p) \/ Select(p) \/ Deadline(p) \/ SetImage(p)
  <2>1. UNCHANGED <<stage, drain, view, pc>>
    BY <1>11 DEF Inspect, Select, Deadline, SetImage, vars, upgrade
  <2> QED BY <1>4, <2>1
<1>12. CASE AppStep(p) \/ AppFailure(p)
  <2>1. UNCHANGED <<stage, drain, view>>
    BY <1>12 DEF AppStep, AppFailure, upgrade
  <2>2. pc[p] \notin {"start", "rollout"}
    BY <1>12
    DEF AppStep, AppFailure, List, EndPass, Skip, Pick, ScaleGet, ScalePanics, RestoreGet,
        RestoreUnparsable, Update, UpdateRefused, ListError, UpdateReplyLost, CallFails,
        TimeOut
  <2> QED BY <1>4, <2>1, <2>2 DEF GateOK
<1> QED
  BY <1>5, <1>6, <1>7, <1>8, <1>9, <1>10, <1>11, <1>12, Zenon DEF Process, Problem

\* What everything below builds on.
BaseInv == TaskInv /\ Cluster /\ Knowledge

LEMMA GateInvNext == BaseInv /\ GateInv /\ [UpgradeNext]_allVars => GateInv'
<1> SUFFICES ASSUME BaseInv, GateInv, [UpgradeNext]_allVars PROVE GateInv'
  OBVIOUS
<1>1. ASSUME UNCHANGED <<pc, stage, drain, view, tag>>,
             UNCHANGED image, image \/ UNCHANGED version
      PROVE  GateInv'
  <2>1. \A v : Gate(v)' = Gate(v)
    BY <1>1 DEF Gate
  <2> QED BY <1>1, <2>1 DEF GateInv, GateOK
<1>2. CASE UNCHANGED allVars
  BY <1>1, <1>2 DEF allVars, vars, nodes, upgrade
<1>3. CASE Environment
  <2>1. UNCHANGED <<pc, stage>>
    BY <1>3, EnvironmentTask
  <2>2. UNCHANGED <<drain, view, tag, image>>
    BY <1>3
    DEF Environment, ControllerScales, Bind, Attach, Detach, ReplaceNode, DeleteLoose,
        OwnerStep, nodes, upgrade
  <2>3. image \/ UNCHANGED version
    BY <1>3, Zenon
    DEF Environment, ControllerScales, Bind, Attach, Detach, ReplaceNode, DeleteLoose,
        OwnerStep, nodes
  <2> QED BY <1>1, <2>1, <2>2, <2>3
<1>4. ASSUME NEW p \in Procs,
             Begins(p) \/ Process(p) \/ Deadline(p) \/ Rolled(p) \/ RollFails(p) \/ Problem(p)
      PROVE  GateInv'
  <2> SUFFICES ASSUME NEW q \in Procs PROVE GateOK(q)'
    BY DEF GateInv
  <2>1. CASE q = p
    BY <1>4, <2>1, GateOKStep DEF BaseInv, GateInv
  <2>2. CASE q # p
    <3>1. /\ UNCHANGED <<tag, version>> /\ (image' = image \/ image')
          /\ pc'[q] = pc[q] /\ stage'[q] = stage[q]
          /\ drain'[q] = drain[q] /\ view'[q] = view[q]
      BY <1>4, <2>2, OthersKnow DEF BaseInv, TaskStep
    <3>2. \A v : Gate(v)' = Gate(v)
      BY <3>1 DEF Gate
    <3> QED BY <3>1, <3>2 DEF GateInv, GateOK
  <2> QED BY <2>1, <2>2
<1> QED
  BY <1>2, <1>3, <1>4, Zenon DEF UpgradeNext

LEMMA BaseInvNext == BaseInv /\ [UpgradeNext]_allVars => BaseInv'
<1> SUFFICES ASSUME BaseInv, [UpgradeNext]_allVars PROVE Cluster' /\ Knowledge'
  BY TaskInvNext DEF BaseInv
<1>1. CASE UNCHANGED allVars
  BY <1>1 DEF BaseInv, allVars, nodes, storage, upgrade, block, Cluster, Knowledge, New
<1>2. CASE UpgradeNext
  BY <1>2, ProcessTyped, EnvironmentTyped, Zenon DEF BaseInv, UpgradeNext
<1> QED BY <1>1, <1>2

LEMMA InitBaseInv == UpgradeInit => BaseInv /\ GateInv
<1> SUFFICES ASSUME UpgradeInit PROVE BaseInv /\ GateInv
  OBVIOUS
<1>1. TaskInv
  BY InitTaskInv
<1>2. version \in [Nodes -> Versions] /\ tag \in Tags
  BY UpgradeAssumption DEF UpgradeInit
<1>3. Knowledge
  BY DEF UpgradeInit, Knowledge, Retry!NoTasks
<1>4. image \in BOOLEAN /\ loose \in BOOLEAN
  BY Zenon DEF UpgradeInit
<1>5. running \in [Apps -> BOOLEAN] /\ attached \subseteq bound /\ bound \subseteq Volumes
  BY DEF UpgradeInit
<1>6. GateInv
  BY DEF UpgradeInit, GateInv, GateOK
<1> QED
  BY <1>1, <1>2, <1>3, <1>4, <1>5, <1>6 DEF BaseInv, Cluster

(***************************************************************************)
(* All values of the upgrade keep their types.                             *)
(***************************************************************************)
THEOREM UpgradeTypeCorrect == UpgradeSpec => []UpgradeTypeOK
<1>1. BaseInv => UpgradeTypeOK
  BY TypeParts DEF BaseInv, TaskInv
<1> QED
  BY <1>1, InitBaseInv, BaseInvNext, PTL DEF UpgradeSpec

(***************************************************************************)
(* On a cluster of one version, an upgrade that must be drained according  *)
(* to the comment of isUpgradeAppDrainRequired sets the new image only     *)
(* inside the scale-down block, for any versions, tags, nodes and Jobs,    *)
(* and whichever of them died and were retried before.                     *)
(***************************************************************************)
THEOREM UniformClustersAreDrained == UpgradeSpec => NodesAreDrainedFirst
<1>1. BaseInv /\ GateInv =>
        \A p \in Upgrades :
           SetImage(p) /\ DrainNeeded /\ (\E v \in Versions \ {NoLabel} : view[p] = {v})
           => pc[p] = "rollout"
  <2> SUFFICES ASSUME BaseInv, GateInv, NEW p \in Upgrades, SetImage(p), DrainNeeded,
                      NEW v \in Versions \ {NoLabel}, view[p] = {v}
               PROVE  pc[p] = "rollout"
    OBVIOUS
  <2>1. p \in Procs /\ GateOK(p)
    BY AppsAssumption DEF GateInv
  <2>2. stage[p] = "roll" /\ ~image
    BY DEF SetImage
  <2>3. PICK n \in Nodes : version[n] # NoLabel /\ NeedsDrain(version[n], New)
    BY DEF DrainNeeded
  <2>4. version[n] = v
    <3>1. {version[m] : m \in Nodes} = {v}
      BY <2>1, <2>2 DEF GateOK
    <3>2. version[n] \in {version[m] : m \in Nodes}
      BY <2>3
    <3> QED BY <3>1, <3>2
  <2>5. Gate(v)
    BY <2>3, <2>4, GateDrains DEF DrainNeeded, BaseInv, Cluster
  <2>6. isScaleDownOfSharedAppsRequired(drain[p])
    <3>1. drain[p]
      BY <2>1, <2>5 DEF GateOK
    <3> QED BY <3>1 DEF DrainNeeded, isScaleDownOfSharedAppsRequired
  <2> QED
    BY <2>1, <2>2, <2>6 DEF GateOK
<1> QED
  BY <1>1, InitBaseInv, BaseInvNext, GateInvNext, PTL
  DEF UpgradeSpec, NodesAreDrainedFirst

-----------------------------------------------------------------------------
\* There is one upgrade Job, as the scripts have it: the one they start has a
\* fixed name, and they delete the Job of that name first.  This leaves out the
\* time in which the pod of a deleted upgrade still terminates.
OneUpgrade == \A p, q \in Upgrades : p = q

\* A restore never scales down.
RestoresOnly == \A q \in Restores : pass[q] = "restore"

\* An application with a saved count has no replicas, whatever its kind.
AllHeldAtZero == \A a \in Apps : saved[a] \in Counts => replicas[a] = 0

(***************************************************************************)
(* From the listing of the claims on, a volume that was mounted then and   *)
(* whose application is held is either still attached or has lost its pods *)
(* for good; after a successful inspection the latter.                     *)
(***************************************************************************)
DrainOK(p) ==
    pc[p] = "rollout" /\ stage[p] \in {"wait", "roll"} =>
       \A v \in mounted[p] :
          /\ v \in waited[p]
          /\ Owner[v] \in Apps /\ HeldDown(Owner[v]) =>
                \/ ~running[Owner[v]] /\ v \notin attached
                \/ stage[p] = "wait" /\ task[p] # "ok" /\ v \in attached

DrainInv == RestoresOnly /\ AllHeldAtZero /\ \A p \in Upgrades : DrainOK(p)

LEMMA RestoresOnlyNext == TypeInv /\ RestoresOnly /\ [Next]_vars => RestoresOnly'
<1> SUFFICES ASSUME TypeInv, RestoresOnly, [Next]_vars PROVE RestoresOnly'
  OBVIOUS
<1> USE DEF TypeInv, TypeOK, RestoresOnly, Restores
<1>1. CASE UNCHANGED pass
  BY <1>1
<1>2. ASSUME NEW p \in Procs, PassError(p) PROVE RestoresOnly'
  BY <1>2 DEF PassError
<1>3. ASSUME NEW p \in Procs, Enter(p) \/ Rollout(p) PROVE RestoresOnly'
  BY <1>3 DEF Enter, Rollout
<1> HIDE DEF TypeInv, TypeOK, RestoresOnly, Restores
<1> QED
  BY <1>1, <1>2, <1>3, Zenon
  DEF Next, Step, Failure, Start, JobRetry, SkipScaleDown, List, Pick, EndPass, Skip,
      ScaleGet, ScalePanics, RestoreGet, RestoreUnparsable, Update, UpdateRefused,
      ReturnEarly, ListError, CallFails, UpdateReplyLost, TimeOut, Crash, TakeCopy,
      UserScale, UserDelete, control, vars

\* The objects change by an Update of a process and by their owners only.
LEMMA ObjectsChange ==
  ASSUME NEW p \in Procs, Start(p) \/ JobRetry(p) \/ Step(p) \/ Failure(p)
  PROVE  \/ UNCHANGED objects
         \/ /\ pc[p] = "update" /\ UNCHANGED exists
            /\ Write(cur[p], Sent(p).replicas, Sent(p).saved)
  BY Zenon
  DEF Step, Failure, Start, JobRetry, SkipScaleDown, Enter, List, Pick, EndPass, Skip,
      ScaleGet, ScalePanics, RestoreGet, RestoreUnparsable, Update, UpdateRefused, Rollout,
      ReturnEarly, ListError, CallFails, UpdateReplyLost, TimeOut, Crash, TakeCopy, objects

LEMMA HeldAtZeroNext == TypeInv /\ AllHeldAtZero /\ [Next]_vars => AllHeldAtZero'
<1> SUFFICES ASSUME TypeInv, AllHeldAtZero, [Next]_vars PROVE AllHeldAtZero'
  OBVIOUS
<1>1. CASE UNCHANGED objects
  BY <1>1 DEF AllHeldAtZero, objects
<1>2. ASSUME NEW p \in Procs, pc[p] = "update",
             Write(cur[p], Sent(p).replicas, Sent(p).saved)
      PROVE  AllHeldAtZero'
  <2>1. cur[p] \in Apps
    BY <1>2 DEF TypeInv, LoopOK
  <2>2. Sent(p).replicas = 0 \/ Sent(p).saved \notin Counts
    BY BoundsAssumption DEF Sent, Counts
  <2> QED
    BY <1>2, <2>1, <2>2 DEF Write, AllHeldAtZero, TypeInv, TypeOK
<1>3. ASSUME NEW a \in Apps, UserScale(a) \/ UserDelete(a) PROVE AllHeldAtZero'
  BY <1>3 DEF UserScale, UserDelete, Write, AllHeldAtZero, TypeInv, TypeOK
<1> QED
  BY <1>1, <1>2, <1>3, ObjectsChange, Zenon DEF Next, vars, objects

\* A restore, and an owner, takes hold of nothing.
LEMMA NothingHeld ==
  ASSUME TypeInv, RestoresOnly,
         \/ \E q \in Restores : Start(q) \/ JobRetry(q) \/ Step(q) \/ Failure(q)
         \/ \E a \in Apps : UserScale(a) \/ UserDelete(a)
         \/ UNCHANGED vars
  PROVE  \A a \in Apps : HeldDown(a)' => HeldDown(a)
<1>1. CASE UNCHANGED objects
  BY <1>1 DEF objects, HeldDown
<1>2. ASSUME NEW q \in Restores, pc[q] = "update", UNCHANGED exists,
             Write(cur[q], Sent(q).replicas, Sent(q).saved)
      PROVE  \A a \in Apps : HeldDown(a)' => HeldDown(a)
  <2>1. q \in Procs /\ cur[q] \in Apps
    BY <1>2 DEF TypeInv, LoopOK, Restores
  <2>2. Sent(q).saved \notin Counts
    BY BoundsAssumption, <2>1 DEF RestoresOnly, Sent, Counts
  <2> QED
    BY <1>2, <2>1, <2>2 DEF Write, HeldDown, TypeInv, TypeOK
<1>3. ASSUME NEW b \in Apps, UserScale(b) \/ UserDelete(b)
      PROVE  \A a \in Apps : HeldDown(a)' => HeldDown(a)
  BY <1>3 DEF UserScale, UserDelete, Write, HeldDown, TypeInv, TypeOK
<1>4. \A q \in Restores : q \in Procs
  BY DEF Restores
<1> QED
  BY <1>1, <1>2, <1>3, <1>4, ObjectsChange, Zenon DEF vars, objects

\* What p waits for is safe as long as nobody else takes hold of anything.
LEMMA DrainKept ==
  ASSUME NEW p \in Procs, DrainOK(p),
         pc'[p] = pc[p], stage'[p] = stage[p], task'[p] = task[p],
         mounted'[p] = mounted[p], waited'[p] = waited[p], UNCHANGED <<running, attached>>,
         \A a \in Apps : HeldDown(a)' => HeldDown(a)
  PROVE  DrainOK(p)'
  BY DEF DrainOK

LEMMA DrainEnvironment ==
  ASSUME BaseInv, DrainInv, Environment, NEW p \in Upgrades
  PROVE  DrainOK(p)'
<1>0. p \in Procs /\ DrainOK(p) /\ TypeInv /\ mounted[p] \subseteq Volumes
  BY AppsAssumption DEF DrainInv, BaseInv, TaskInv, Knowledge
<1>1. UNCHANGED <<pc, stage, task, mounted, waited>>
  <2>1. UNCHANGED <<pc, stage, task>>
    BY EnvironmentTask
  <2>2. UNCHANGED upgrade
    BY Zenon
    DEF Environment, ControllerScales, Bind, Attach, Detach, ReplaceNode, DeleteLoose,
        OwnerStep
  <2> QED BY <2>1, <2>2 DEF upgrade, block
<1>2. CASE OwnerStep
  <2>1. UNCHANGED <<running, attached>> /\ \E a \in Apps : UserScale(a) \/ UserDelete(a)
    BY <1>2 DEF OwnerStep, storage
  <2>2. \A a \in Apps : HeldDown(a)' => HeldDown(a)
    BY <1>0, <2>1, NothingHeld DEF DrainInv
  <2> QED BY <1>0, <1>1, <2>1, <2>2, DrainKept
<1>3. ASSUME UNCHANGED <<vars, running, attached>> PROVE DrainOK(p)'
  <2>1. \A a \in Apps : HeldDown(a)' => HeldDown(a)
    BY <1>3 DEF vars, HeldDown
  <2> QED BY <1>0, <1>1, <1>3, <2>1, DrainKept
<1>4. CASE DeleteLoose \/ (\E n \in Nodes : ReplaceNode(n)) \/ \E v \in Volumes : Bind(v)
  BY <1>3, <1>4 DEF DeleteLoose, ReplaceNode, Bind, storage
<1>5. CASE \E a \in Apps : ControllerScales(a)
  <2>1. PICK a \in Apps : ControllerScales(a)
    BY <1>5
  <2>2. UNCHANGED <<exists, replicas, saved, attached>>
    BY <2>1 DEF ControllerScales, vars
  <2>3. \A b \in Apps : HeldDown(b) /\ ~running[b] => ~running'[b]
    <3> SUFFICES ASSUME NEW b \in Apps, HeldDown(b), ~running[b], running'[b] PROVE FALSE
      OBVIOUS
    <3>1. b = a /\ replicas[a] > 0
      BY <2>1 DEF ControllerScales, BaseInv, Cluster
    <3>2. replicas[a] = 0
      BY <3>1 DEF DrainInv, AllHeldAtZero, HeldDown
    <3> QED BY <3>1, <3>2
  <2>4. \A b \in Apps : HeldDown(b)' <=> HeldDown(b)
    BY <2>2 DEF HeldDown
  <2> QED
    BY <1>0, <1>1, <2>2, <2>3, <2>4 DEF DrainOK
<1>6. CASE \E v \in Volumes : Attach(v) \/ Detach(v)
  <2>1. PICK v \in Volumes : Attach(v) \/ Detach(v)
    BY <1>6
  <2>2. UNCHANGED <<exists, replicas, saved, running>>
    BY <2>1 DEF Attach, Detach, vars
  <2>3. \A b \in Apps : HeldDown(b)' <=> HeldDown(b)
    BY <2>2 DEF HeldDown
  <2>4. Owner[v] \in Apps => Owner[v] # NoApp
    BY AppsAssumption
  <2>5. Owner[v] \in Apps =>
           /\ Attach(v) => running[Owner[v]] /\ attached' = attached \cup {v}
           /\ Detach(v) => ~running[Owner[v]] /\ attached' = attached \ {v}
    BY <2>4 DEF Attach, Detach, HasPods
  <2>6. \A w \in Volumes \ {v} : w \in attached' <=> w \in attached
    BY <2>1 DEF Attach, Detach
  <2> QED
    BY <1>0, <1>1, <2>1, <2>2, <2>3, <2>5, <2>6 DEF DrainOK
<1> QED
  BY <1>2, <1>4, <1>5, <1>6, Zenon DEF Environment

\* The steps of p itself.
LEMMA DrainProcess ==
  ASSUME BaseInv, GateInv, NEW p \in Procs, DrainOK(p),
         Begins(p) \/ Process(p) \/ Deadline(p) \/ Rolled(p) \/ RollFails(p) \/ Problem(p)
  PROVE  DrainOK(p)'
<1>0. /\ stage \in [Procs -> Stages] /\ task \in [Procs -> Retry!States]
      /\ TaskOK(p) /\ GateOK(p) /\ Knowledge
      /\ attached \subseteq bound
  BY DEF BaseInv, TaskInv, GateInv, Cluster
<1>1. ASSUME stage'[p] \notin {"wait", "roll"} PROVE DrainOK(p)'
  BY <1>1 DEF DrainOK
<1>2. CASE Begins(p) \/ Refuse(p) \/ Dies(p) \/ Rolled(p) \/ RollFails(p)
           \/ ListClaimsFails(p) \/ NotDetached(p)
  <2>1. Leave(p, "gate") \/ Leave(p, "none")
    BY <1>2, Zenon
    DEF Begins, Refuse, Dies, Rolled, RollFails, ListClaimsFails, NotDetached, Return
  <2> QED BY <1>0, <1>1, <2>1 DEF Leave, ToStage
<1>3. CASE AskGate(p) \/ GateFails(p) \/ CheckPods(p) \/ EnterBlock(p)
  <2>1. PICK s \in {"none", "pods", "decide"} : stage' = [stage EXCEPT ![p] = s]
    BY <1>3 DEF AskGate, GateFails, CheckPods, EnterBlock, ToStage
  <2> QED BY <1>0, <1>1, <2>1
<1>4. CASE SkipBlock(p)
  BY <1>4 DEF SkipBlock, vars, DrainOK
<1>5. CASE AppStep(p) \/ AppFailure(p)
  <2>1. UNCHANGED stage
    BY <1>5 DEF AppStep, AppFailure, upgrade
  <2>2. pc[p] \notin {"start", "rollout"}
    BY <1>5
    DEF AppStep, AppFailure, List, EndPass, Skip, Pick, ScaleGet, ScalePanics, RestoreGet,
        RestoreUnparsable, Update, UpdateRefused, ListError, UpdateReplyLost, CallFails,
        TimeOut
  <2> QED BY <1>0, <1>1, <2>1, <2>2 DEF TaskOK, GateOK
<1>6. CASE ListClaims(p)
  BY <1>0, <1>6 DEF ListClaims, ToStage, vars, storage, Retry!Begin, DrainOK, Knowledge
<1>7. ASSUME UNCHANGED <<vars, storage, mounted, waited>>
      PROVE  /\ UNCHANGED <<pc, running, attached, mounted, waited>>
             /\ \A a \in Apps : HeldDown(a)' <=> HeldDown(a)
  BY <1>7 DEF vars, storage, HeldDown
<1>8. CASE Select(p) \/ Deadline(p) \/ SetImage(p)
  <2>1. UNCHANGED <<vars, storage, mounted, waited, stage>>
    BY <1>8 DEF Select, Deadline, SetImage, upgrade, block
  <2>2. task'[p] = task[p] \/ task'[p] # "ok"
    BY <1>0, <1>8
    DEF Select, Deadline, SetImage, upgrade, block, Retry!Select, Retry!DeadlinePasses
  <2> QED
    BY <1>0, <1>7, <2>1, <2>2 DEF DrainOK
<1>9. CASE Inspect(p)
  <2>1. /\ UNCHANGED <<vars, storage, mounted, waited, stage>>
        /\ stage[p] = "wait" /\ task[p] = "attempt"
    BY <1>9 DEF Inspect, Retry!AttemptReturns
  <2>2. task'[p] = "ok" => Detached(waited[p])
    BY <1>0, <1>9 DEF Inspect, Retry!AttemptReturns
  <2> QED
    BY <1>0, <1>7, <2>1, <2>2 DEF DrainOK, Detached
<1>10. CASE AllDetached(p)
  <2>1. /\ UNCHANGED <<vars, storage, mounted, waited>>
        /\ stage[p] = "wait" /\ task[p] = "ok"
    BY <1>10 DEF AllDetached, Retry!Returns
  <2> QED
    BY <1>0, <1>7, <2>1 DEF DrainOK
<1> QED
  BY <1>2, <1>3, <1>4, <1>5, <1>6, <1>8, <1>9, <1>10, Zenon DEF Process, Problem

\* The steps of the others, which are restores.
LEMMA DrainOthers ==
  ASSUME OneUpgrade, BaseInv, DrainInv, NEW p \in Upgrades, NEW q \in Procs \ {p},
         Begins(q) \/ Process(q) \/ Deadline(q) \/ Rolled(q) \/ RollFails(q) \/ Problem(q)
  PROVE  DrainOK(p)'
<1>0. p \in Procs /\ q \in Restores /\ DrainOK(p)
  BY AppsAssumption DEF OneUpgrade, Restores, DrainInv
<1>1. /\ pc'[p] = pc[p] /\ stage'[p] = stage[p] /\ task'[p] = task[p]
      /\ mounted'[p] = mounted[p] /\ waited'[p] = waited[p]
  BY <1>0, OthersKnow DEF BaseInv, TaskStep
<1>2. UNCHANGED <<running, attached>>
  BY DEF Begins, Process, Deadline, Rolled, RollFails, Problem, AskGate, CheckPods,
         EnterBlock, SkipBlock, ListClaims, Inspect, Select, AllDetached, NotDetached,
         SetImage, AppStep, GateFails, Refuse, ListClaimsFails, AppFailure, Dies, Return,
         storage
<1>3. \/ Start(q) \/ JobRetry(q) \/ Step(q) \/ Failure(q)
      \/ UNCHANGED vars
  BY Zenon
  DEF Begins, Process, Deadline, Rolled, RollFails, Problem, AskGate, CheckPods,
      EnterBlock, SkipBlock, ListClaims, Inspect, Select, AllDetached, NotDetached,
      SetImage, AppStep, GateFails, Refuse, ListClaimsFails, AppFailure, Dies, Return,
      Step, Failure
<1>4. \A a \in Apps : HeldDown(a)' => HeldDown(a)
  BY <1>0, <1>3, NothingHeld, Zenon DEF BaseInv, TaskInv, DrainInv
<1> QED BY <1>0, <1>1, <1>2, <1>4, DrainKept

LEMMA DrainInvNext ==
  ASSUME OneUpgrade
  PROVE  BaseInv /\ GateInv /\ DrainInv /\ [UpgradeNext]_allVars => DrainInv'
<1> SUFFICES ASSUME BaseInv, GateInv, DrainInv, [UpgradeNext]_allVars PROVE DrainInv'
  OBVIOUS
<1>1. [Next]_vars
  <2>1. UNCHANGED allVars => UNCHANGED vars
    BY DEF allVars
  <2> QED BY <2>1, EnvironmentStep, ProcessStep, Zenon DEF UpgradeNext
<1>2. RestoresOnly' /\ AllHeldAtZero'
  BY <1>1, RestoresOnlyNext, HeldAtZeroNext DEF BaseInv, TaskInv, DrainInv
<1>3. ASSUME NEW p \in Upgrades PROVE DrainOK(p)'
  <2>0. p \in Procs /\ DrainOK(p)
    BY AppsAssumption DEF DrainInv
  <2>1. CASE UNCHANGED allVars
    BY <2>0, <2>1 DEF allVars, vars, storage, upgrade, block, DrainOK, HeldDown
  <2>2. CASE Environment
    BY <2>2, DrainEnvironment
  <2>3. ASSUME NEW q \in Procs,
               Begins(q) \/ Process(q) \/ Deadline(q) \/ Rolled(q) \/ RollFails(q) \/ Problem(q)
        PROVE  DrainOK(p)'
    <3>1. CASE q = p
      BY <2>0, <2>3, <3>1, DrainProcess, Zenon
    <3>2. CASE q # p
      BY <2>0, <2>3, <3>2, DrainOthers, Zenon
    <3> QED BY <3>1, <3>2
  <2> QED
    BY <2>1, <2>2, <2>3, Zenon DEF UpgradeNext
<1> QED BY <1>2, <1>3 DEF DrainInv

LEMMA InitDrainInv == UpgradeInit => DrainInv
<1> SUFFICES ASSUME UpgradeInit PROVE DrainInv
  OBVIOUS
<1>1. AllHeldAtZero
  BY BoundsAssumption DEF UpgradeInit, Init, AllHeldAtZero, Counts
<1>2. RestoresOnly /\ \A p \in Upgrades : DrainOK(p)
  BY AppsAssumption DEF UpgradeInit, Init, RestoresOnly, Restores, DrainOK
<1> QED BY <1>1, <1>2 DEF DrainInv

(***************************************************************************)
(* While the one upgrade replaces Portworx inside the scale-down block, no *)
(* volume that was mounted when it listed the claims is attached again, as *)
(* long as the application is held, for any applications, volumes, owners, *)
(* faults and restores that run at the same time.                          *)
(***************************************************************************)
THEOREM HeldVolumesStayDetached ==
  ASSUME OneUpgrade
  PROVE  UpgradeSpec => []DrainedWhileRolling
<1>1. DrainInv => DrainedWhileRolling
  BY DEF DrainInv, DrainOK, DrainedWhileRolling
<1> QED
  BY <1>1, InitBaseInv, InitDrainInv, BaseInvNext, GateInvNext, DrainInvNext, PTL
  DEF UpgradeSpec

=============================================================================
