--------------------------- MODULE UpgradeProofs ---------------------------
(***************************************************************************)
(* Upgrade implements SharedApps: the version gate, the checks, the wait   *)
(* for the volumes and the rollout add conditions and state to the         *)
(* protocol, and no step to it.  What is proved of SharedApps therefore    *)
(* holds of the whole operation.                                           *)
(***************************************************************************)
EXTENDS Upgrade, SharedAppsProofs

LEMMA EnvironmentStep == Environment => [Next]_vars
<1> SUFFICES ASSUME Environment PROVE Next \/ UNCHANGED vars
  OBVIOUS
<1>1. ASSUME OwnerStep PROVE Next
  BY <1>1 DEF OwnerStep, Next
<1> QED
  BY <1>1, Zenon DEF Environment, ControllerScales, Bind, Attach, Detach, ReplaceNode, DeleteLoose

LEMMA ProcessStep ==
  ASSUME NEW p \in Procs,
         Begins(p) \/ Process(p) \/ Deadline(p) \/ Rolled(p) \/ RollFails(p) \/ Problem(p)
  PROVE  Next \/ UNCHANGED vars
<1>1. CASE Begins(p) \/ Refuse(p) \/ EnterBlock(p) \/ AppStep(p) \/ AppFailure(p) \/ Dies(p)
  BY <1>1, Zenon
  DEF Begins, Refuse, EnterBlock, AppStep, AppFailure, Dies, Next, Step, Failure
<1>2. CASE Rolled(p) \/ RollFails(p) \/ ListClaimsFails(p) \/ NotDetached(p)
  BY <1>2, Zenon
  DEF Rolled, RollFails, ListClaimsFails, NotDetached, Return, Next, Step
<1>3. CASE \/ AskGate(p) \/ CheckPods(p) \/ SkipBlock(p) \/ ListClaims(p) \/ Inspect(p)
           \/ Select(p) \/ AllDetached(p) \/ SetImage(p) \/ Deadline(p) \/ GateFails(p)
  BY <1>3, Zenon
  DEF AskGate, CheckPods, SkipBlock, ListClaims, Inspect, Select, AllDetached, SetImage,
      Deadline, GateFails
<1> QED
  BY <1>1, <1>2, <1>3, Zenon DEF Process, Problem

(***************************************************************************)
(* Upgrade with everything around it behaves as SharedApps says.           *)
(***************************************************************************)
THEOREM UpgradeImplementsSharedApps == UpgradeSpec => Spec
<1>1. UpgradeInit => Init
  BY DEF UpgradeInit
<1>2. [UpgradeNext]_allVars => [Next]_vars
  <2>1. UNCHANGED allVars => UNCHANGED vars
    BY DEF allVars
  <2>2. UpgradeNext => [Next]_vars
    BY EnvironmentStep, ProcessStep, Zenon DEF UpgradeNext
  <2> QED BY <2>1, <2>2
<1> QED
  BY <1>1, <1>2, PTL DEF UpgradeSpec, Spec

(***************************************************************************)
(* So no run of the upgrade Job, however it is interrupted, loses the      *)
(* replica count of a Deployment or forgets an application it scaled down. *)
(***************************************************************************)
THEOREM UpgradeRestores ==
  UpgradeSpec => [](DeploymentsRecoverable /\ RestoreComplete) /\ ImplementsReplicaMemory
  BY UpgradeImplementsSharedApps, DeploymentsKeepTheirCount, RestoresAreComplete,
     RefinesReplicaMemory, PTL
-----------------------------------------------------------------------------
(***************************************************************************)
(* NoOrphanAttempt.  The goroutine of DoRetryWithTimeout exists only while *)
(* its caller is in the wait, and a caller in the wait has scaled down and *)
(* not begun to restore: that is why its pod cannot be in another part of  *)
(* Upgrade and start anew with the goroutine left behind.                  *)
(***************************************************************************)
TaskOK(p) ==
    /\ task[p] # "none" => stage[p] = "wait"
    /\ stage[p] = "wait" => pc[p] = "rollout"

TaskInv ==
    /\ TypeInv
    /\ stage \in [Procs -> Stages]
    /\ task \in [Procs -> Retry!States]
    /\ \A p \in Procs : TaskOK(p)

\* What a step of p leaves alone, and what it must establish.
TaskStep(p) ==
    /\ stage' \in [Procs -> Stages]
    /\ task' \in [Procs -> Retry!States]
    /\ \A q \in Procs \ {p} : /\ pc'[q] = pc[q]
                              /\ stage'[q] = stage[q]
                              /\ task'[q] = task[q]
    /\ task'[p] # "none" => stage'[p] = "wait"
    /\ stage'[p] = "wait" => pc'[p] = "rollout"

USE DEF Locations, InLoop, Goto, Stages, Retry!States, Retry!Outcomes

\* The pod starts or dies: Leave and Reset put everything back.
LEMMA PodTask ==
  ASSUME TaskInv, NEW p \in Procs, Begins(p) \/ Dies(p) \/ Refuse(p)
  PROVE  TaskStep(p)
<1> USE DEF TaskInv, TaskOK, TypeInv, TypeOK, Leave, ToStage
<1>1. CASE Begins(p)
  <2>1. pc[p] # "rollout"
    BY <1>1 DEF Begins, Start, JobRetry, Failed, Ended
  <2>2. \A q \in Procs \ {p} : pc'[q] = pc[q]
    BY <1>1 DEF Begins, Start, JobRetry
  <2> QED BY <1>1, <2>1, <2>2 DEF Begins, TaskStep
<1>2. CASE Dies(p)
  <2>1. \A q \in Procs \ {p} : pc'[q] = pc[q]
    BY <1>2 DEF Dies, Crash
  <2> QED BY <1>2, <2>1 DEF Dies, TaskStep, Retry!Reset
<1>3. CASE Refuse(p)
  <2>1. pc[p] = "start" /\ \A q \in Procs \ {p} : pc'[q] = pc[q]
    BY <1>3 DEF Refuse, ReturnEarly
  <2> QED BY <1>3, <2>1 DEF Refuse, TaskStep
<1> QED BY <1>1, <1>2, <1>3

\* The steps before the scale-down.
LEMMA GateTask ==
  ASSUME TaskInv, NEW p \in Procs,
         AskGate(p) \/ GateFails(p) \/ CheckPods(p) \/ EnterBlock(p) \/ SkipBlock(p)
  PROVE  TaskStep(p)
<1> USE DEF TaskInv, TaskOK, TypeInv, TypeOK
<1>1. /\ pc[p] = "start" /\ task' = task
      /\ \A q \in Procs \ {p} : pc'[q] = pc[q]
  BY DEF AskGate, GateFails, CheckPods, EnterBlock, Enter, SkipBlock, vars, block
<1>2. PICK s \in {"none", "pods", "decide", "roll"} : stage' = [stage EXCEPT ![p] = s]
  BY DEF AskGate, GateFails, CheckPods, EnterBlock, SkipBlock, ToStage
<1> QED BY <1>1, <1>2 DEF TaskStep

\* The wait itself.
LEMMA WaitTask ==
  ASSUME TaskInv, NEW p \in Procs,
         ListClaims(p) \/ Inspect(p) \/ Select(p) \/ Deadline(p) \/ AllDetached(p)
  PROVE  TaskStep(p)
<1> USE DEF TaskInv, TaskOK, TypeInv, TypeOK, ToStage, vars
<1>1. CASE ListClaims(p)
  BY <1>1 DEF ListClaims, TaskStep, Retry!Begin
<1>2. CASE Inspect(p)
  <2>1. PICK r \in {"select", "ok"} : task' = [task EXCEPT ![p] = r]
    BY <1>2 DEF Inspect, Retry!AttemptReturns
  <2> QED BY <1>2, <2>1 DEF Inspect, TaskStep
<1>3. CASE Select(p)
  <2>1. PICK r \in {"timedOut", "attempt"} : task' = [task EXCEPT ![p] = r]
    BY <1>3 DEF Select, Retry!Select
  <2> QED BY <1>3, <2>1 DEF Select, TaskStep, Retry!Select
<1>4. CASE Deadline(p)
  BY <1>4 DEF Deadline, TaskStep, Retry!DeadlinePasses
<1>5. CASE AllDetached(p)
  BY <1>5 DEF AllDetached, TaskStep, Retry!Returns, Retry!End
<1> QED BY <1>1, <1>2, <1>3, <1>4, <1>5

\* The ways out of the block and of Upgrade.
LEMMA ReturnTask ==
  ASSUME TaskInv, NEW p \in Procs,
         SetImage(p) \/ Rolled(p) \/ RollFails(p) \/ ListClaimsFails(p) \/ NotDetached(p)
  PROVE  TaskStep(p)
<1> USE DEF TaskInv, TaskOK, TypeInv, TypeOK, Leave, ToStage
<1>1. CASE SetImage(p)
  BY <1>1 DEF SetImage, TaskStep, vars, upgrade, block
<1>2. CASE Rolled(p) \/ RollFails(p) \/ ListClaimsFails(p) \/ NotDetached(p)
  <2>1. Return(p, TRUE) \/ Return(p, FALSE)
    BY <1>2, Zenon DEF Rolled, RollFails, ListClaimsFails, NotDetached
  <2>2. /\ stage' = [stage EXCEPT ![p] = "none"]
        /\ \A q \in Procs \ {p} : pc'[q] = pc[q]
    BY <2>1 DEF Return, SkipScaleDown, Rollout
  <2>3. CASE Rolled(p) \/ RollFails(p) \/ ListClaimsFails(p)
    <3>1. stage[p] # "wait" /\ task' = task
      BY <2>3 DEF Rolled, RollFails, ListClaimsFails
    <3> QED BY <2>2, <3>1 DEF TaskStep
  <2>4. CASE NotDetached(p)
    <3>1. task[p] = "timedOut" /\ task' = [task EXCEPT ![p] = IF @ \in Retry!Outcomes THEN "none" ELSE @]
      BY <2>4 DEF NotDetached, Retry!Returns, Retry!End
    <3> QED BY <2>2, <3>1 DEF TaskStep
  <2> QED BY <1>2, <2>3, <2>4
<1> QED BY <1>1, <1>2

\* The loops over the applications.
LEMMA AppTask ==
  ASSUME TaskInv, NEW p \in Procs, AppStep(p) \/ AppFailure(p)
  PROVE  TaskStep(p)
<1> USE DEF TaskInv, TaskOK, TypeInv, TypeOK
<1>1. UNCHANGED <<stage, task>>
  BY DEF AppStep, AppFailure, upgrade, block
<1>2. pc[p] # "rollout" /\ \A q \in Procs \ {p} : pc'[q] = pc[q]
  BY DEF AppStep, AppFailure, List, EndPass, Skip, Pick, ScaleGet, ScalePanics, RestoreGet,
         RestoreUnparsable, Update, UpdateRefused, ListError, UpdateReplyLost, CallFails,
         TimeOut, TakeCopy, PassError
<1> QED BY <1>1, <1>2 DEF TaskStep

LEMMA EnvironmentTask ==
  ASSUME Environment
  PROVE  UNCHANGED <<pc, stage, task>>
<1>1. ASSUME OwnerStep PROVE UNCHANGED <<pc, stage, task>>
  BY <1>1 DEF OwnerStep, UserScale, UserDelete, control, upgrade, block
<1>2. ASSUME UNCHANGED <<vars, upgrade>> PROVE UNCHANGED <<pc, stage, task>>
  BY <1>2 DEF vars, upgrade, block
<1> QED
  BY <1>1, <1>2, Zenon
  DEF Environment, ControllerScales, Bind, Attach, Detach, ReplaceNode, DeleteLoose

LEMMA TaskInvNext == TaskInv /\ [UpgradeNext]_allVars => TaskInv'
<1> SUFFICES ASSUME TaskInv, [UpgradeNext]_allVars PROVE TaskInv'
  OBVIOUS
<1>1. TypeInv'
  <2>1. [Next]_vars
    <3>1. UNCHANGED allVars => UNCHANGED vars
      BY DEF allVars
    <3> QED BY <3>1, EnvironmentStep, ProcessStep, Zenon DEF UpgradeNext
  <2> QED BY <2>1, TypeInvNext DEF TaskInv
<1>2. CASE UNCHANGED <<pc, stage, task>>
  BY <1>1, <1>2 DEF TaskInv, TaskOK
<1>3. ASSUME NEW p \in Procs, TaskStep(p) PROVE TaskInv'
  BY <1>1, <1>3 DEF TaskInv, TaskOK, TaskStep
<1>4. UNCHANGED allVars => UNCHANGED <<pc, stage, task>>
  BY DEF allVars, vars, upgrade, block
<1>5. ASSUME NEW p \in Procs,
             Begins(p) \/ Process(p) \/ Deadline(p) \/ Rolled(p) \/ RollFails(p) \/ Problem(p)
      PROVE  TaskStep(p)
  BY <1>5, PodTask, GateTask, WaitTask, ReturnTask, AppTask, Zenon DEF Process, Problem
<1> QED
  BY <1>2, <1>3, <1>4, <1>5, EnvironmentTask, Zenon DEF UpgradeNext

LEMMA InitTaskInv == UpgradeInit => TaskInv
<1> SUFFICES ASSUME UpgradeInit PROVE TaskInv
  OBVIOUS
<1>1. TypeInv
  BY InitTypeInv DEF UpgradeInit
<1> QED
  BY <1>1 DEF UpgradeInit, TaskInv, TaskOK, Retry!NoTasks

(***************************************************************************)
(* No attempt of a retried call outlives the call, for any number of Jobs, *)
(* volumes and deadlines.                                                  *)
(***************************************************************************)
THEOREM AttemptsEndWithTheirCall == UpgradeSpec => []NoOrphanAttempt
<1>1. TaskInv => NoOrphanAttempt
  BY DEF TaskInv, TaskOK, NoOrphanAttempt
<1> QED
  BY <1>1, InitTaskInv, TaskInvNext, PTL DEF UpgradeSpec
=============================================================================
